---------------------------- MODULE MCBookingEngine ----------------------------
(***************************************************************************)
(* Small instances of BookingEngine for TLC.                               *)
(***************************************************************************)
EXTENDS BookingEngine, TLC

CONSTANTS e1, e2, ann, bob, olga, otto, k1

\* ann books one or two tickets, with the key or without, or uses the key for
\* another event; bob reuses ann's key.
KeyedOrders ==
    {[event |-> e1, quantity |-> 1, customer |-> ann, key |-> k1],
     [event |-> e1, quantity |-> 2, customer |-> ann, key |-> k1],
     [event |-> e1, quantity |-> 2, customer |-> ann, key |-> NoKey],
     [event |-> e2, quantity |-> 1, customer |-> ann, key |-> k1],
     [event |-> e1, quantity |-> 1, customer |-> bob, key |-> k1]}

\* Requests without a key, for one or two tickets.
KeylessOrders == [event: {e1}, quantity: 1..2, customer: {ann}, key: {NoKey}]

MCBookInputs == KeyedOrders \cup KeylessOrders

\* The same request twice, with a key.
MCRetryInputs == {[event |-> e1, quantity |-> 1, customer |-> ann, key |-> k1]}

MCCancelInputs == [booking: BookRequests, customer: {ann}]

\* Cancels by the customer who booked or by another.
MCAnyoneCancels == [booking: BookRequests, customer: {ann, bob}]

MCOrganizerInputs ==
    {[kind |-> "delete", event |-> e1, by |-> olga, date |-> 0],
     [kind |-> "delete", event |-> e1, by |-> otto, date |-> 0],
     [kind |-> "update", event |-> e1, by |-> olga, date |-> 0],
     [kind |-> "update", event |-> e1, by |-> olga, date |-> MaxTime]}

\* The two that change what a booking's WHERE clause asks for.
MCRaceEdits ==
    {[kind |-> "delete", event |-> e1, by |-> olga, date |-> 0],
     [kind |-> "update", event |-> e1, by |-> olga, date |-> MaxTime]}

MCOwner == [e \in Events |-> olga]

Symmetry == Permutations(BookRequests) \cup Permutations(CancelRequests)
                \cup Permutations(OrganizerRequests)

--------------------------------------------------------------------------------
(* The safety run has three bookings, two cancels and an organizer, who race   *)
(* in one of these line-ups.  None uses all of them: a request a line-up has   *)
(* no part for never arrives, and has one input.  States outside all of them   *)
(* are not explored further.                                                  *)

Unused(p) == pc[p] = "idle"

NoOrganizer == \A o \in OrganizerRequests : Unused(o) /\ edit[o].kind = "delete"

\* One cancel, by the customer who booked.
OneCancel == /\ \E x \in CancelRequests : Unused(x)
             /\ \A x, y \in CancelRequests : cancelOf[x] = cancelOf[y] /\ cancelOf[x].customer = ann

\* A booking with a key, its retry, a third booking with that key or without,
\* and a cancel: three tickets.
KeysRace ==
    /\ \A b \in BookRequests : order[b] \in KeyedOrders
    /\ \E a, b \in BookRequests : a # b /\ {order[a], order[b]} = MCRetryInputs
    /\ OneCancel /\ NoOrganizer
    /\ \A e \in Events : total[e] \in {0, 3}

\* Two bookings without keys, and either two cancels, one of them by anyone, or
\* a cancel and the organizer: two tickets.
CancelsRace ==
    /\ \A b \in BookRequests : order[b] \in KeylessOrders
    /\ \E b \in BookRequests : /\ Unused(b) /\ order[b].quantity = 1
                               /\ \A x \in CancelRequests : cancelOf[x].booking # b
    /\ \E x \in CancelRequests : cancelOf[x].customer = ann
    /\ NoOrganizer \/ OneCancel
    /\ \A e \in Events : total[e] \in {0, 2}

\* Only events that somebody books are created.
LineUp == /\ KeysRace \/ CancelsRace
          /\ \A e \in Events : total[e] # 0 => \E b \in BookRequests : order[b].event = e
================================================================================
