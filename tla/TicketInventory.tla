---------------------------- MODULE TicketInventory ----------------------------
(***************************************************************************)
(* What the booking service promises about tickets, with no requests,      *)
(* transactions or locks in it: events are opened with a capacity, a       *)
(* booking takes its tickets out of the event's stock in one step, and a   *)
(* cancellation puts exactly those tickets back, once.  BookingEngine is   *)
(* shown to implement this module.                                         *)
(***************************************************************************)
EXTENDS TicketConstants

CONSTANTS Bookings      \* the bookings there may ever be, finitely many or not

BookingStatuses == {"NONE", "CONFIRMED", "CANCELLED"}

VARIABLES order,          \* order[b]: what booking b is (or would be) for
          total,          \* totalCapacity of each event, 0 before it is opened
          avail,          \* availableTickets of each event
          bookingStatus   \* NONE until the booking exists

vars == <<order, total, avail, bookingStatus>>

Init == /\ order \in [Bookings -> Orders]
        /\ total = [e \in Events |-> 0]
        /\ avail = [e \in Events |-> 0]
        /\ bookingStatus = [b \in Bookings |-> "NONE"]

Exists(b) == bookingStatus[b] # "NONE"

\* The unique index on bookings.idempotencyKey ignores rows without a key.
KeyUnused(k) == k = NoKey \/ \A b \in Bookings : Exists(b) => order[b].key # k

Open(e) ==
    /\ total[e] = 0
    /\ \E c \in Capacities : /\ total' = [total EXCEPT ![e] = c]
                             /\ avail' = [avail EXCEPT ![e] = c]
    /\ UNCHANGED <<order, bookingStatus>>

Book(b) ==
    LET e == order[b].event
        q == order[b].quantity
    IN  /\ ~Exists(b)
        /\ avail[e] >= q
        /\ KeyUnused(order[b].key)
        /\ avail' = [avail EXCEPT ![e] = avail[e] - q]
        /\ bookingStatus' = [bookingStatus EXCEPT ![b] = "CONFIRMED"]
        /\ UNCHANGED <<order, total>>

Cancel(b) ==
    LET e == order[b].event
        q == order[b].quantity
    IN  /\ bookingStatus[b] = "CONFIRMED"
        /\ avail' = [avail EXCEPT ![e] = avail[e] + q]
        /\ bookingStatus' = [bookingStatus EXCEPT ![b] = "CANCELLED"]
        /\ UNCHANGED <<order, total>>

Next == \/ \E e \in Events : Open(e)
        \/ \E b \in Bookings : Book(b) \/ Cancel(b)

Spec == Init /\ [][Next]_vars

--------------------------------------------------------------------------------
\* Every variable has its type (the columns of events and bookings).
TypeOK == /\ order \in [Bookings -> Orders]
          /\ total \in [Events -> Nat]
          /\ avail \in [Events -> Int]
          /\ bookingStatus \in [Bookings -> BookingStatuses]

\* One element per ticket of a booking.
Tickets(b) == {b} \X (1..order[b].quantity)

\* The tickets held by the confirmed bookings of an event.
SoldTickets(e) ==
    {t \in Bookings \X Quantities :
        /\ bookingStatus[t[1]] = "CONFIRMED"
        /\ order[t[1]].event = e
        /\ t[2] <= order[t[1]].quantity}

\* No ticket is lost or invented: what is left of an event and what its
\* confirmed bookings hold add up to its capacity (createBooking's decrement
\* and cancelBooking's increment always pair with a booking row).
Conserved == \A e \in Events : avail[e] + Cardinality(SoldTickets(e)) = total[e]

\* Zero overselling: an event never holds confirmed bookings for more tickets
\* than it has, and never advertises more tickets than its capacity.
NoOverselling == \A e \in Events : /\ Cardinality(SoldTickets(e)) <= total[e]
                                   /\ avail[e] \in 0..total[e]

\* An idempotency key names at most one booking, cancelled ones included.
OneBookingPerKey ==
    \A a, b \in Bookings :
        (Exists(a) /\ Exists(b) /\ order[a].key = order[b].key /\ order[a].key # NoKey)
            => a = b
================================================================================
