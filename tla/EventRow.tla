-------------------------------- MODULE EventRow --------------------------------
(***************************************************************************)
(* What bookings and organizers promise each other about an event's row:   *)
(* the row does not change while a booking's transaction on it is open,    *)
(* and a booking that is told of, or counted, is committed or not there.   *)
(* Events are independent of each other; a crash may end the transactions  *)
(* on several at once.                                                     *)
(*                                                                         *)
(* BookingEngine implements it, statement by statement; EventBroadcast,    *)
(* which asks whom an update tells, takes no more of bookings than this.   *)
(***************************************************************************)
CONSTANTS Events, Bookings,
          Free              \* no booking's transaction holds the row

VARIABLES
    eventOf,                \* the event a booking is for
    status, content,        \* the events row: its status, and what an update sets
    lock,                   \* the booking whose transaction has updated the row
    booking                 \* NONE, TAKEN (uncommitted), CONFIRMED or CANCELLED

vars == <<eventOf, status, content, lock, booking>>

Init == /\ eventOf \in [Bookings -> Events]
        /\ \A e \in Events : status[e] \in {"ABSENT", "UPCOMING"}
        /\ lock = [e \in Events |-> Free]
        /\ booking = [b \in Bookings |-> "NONE"]

Of(e) == {b \in Bookings : eventOf[b] = e}

RowStays(e) == status'[e] = status[e] /\ content'[e] = content[e]

BookingsStay(S) == \A b \in S : booking'[b] = booking[b]

--------------------------------------------------------------------------------
Created(e) == /\ status[e] = "ABSENT" /\ status'[e] = "UPCOMING"
              /\ lock'[e] = lock[e] /\ BookingsStay(Of(e))

\* An update, or a cancellation of the event.
Written(e) == /\ status[e] # "ABSENT" /\ lock[e] = Free
              /\ status'[e] \in {status[e], "CANCELLED"}
              /\ lock'[e] = Free /\ BookingsStay(Of(e))

\* A booking takes its tickets from an upcoming event, and locks the row.
Taken(e, b) == /\ booking[b] = "NONE" /\ lock[e] = Free /\ status[e] = "UPCOMING"
               /\ booking'[b] = "TAKEN" /\ lock'[e] = b

\* Its transaction commits, or rolls back.
Ended(e, b) == /\ booking[b] = "TAKEN" /\ lock[e] = b
               /\ booking'[b] \in {"CONFIRMED", "NONE"} /\ lock'[e] = Free

Cancelled(e, b) == /\ booking[b] = "CONFIRMED" /\ lock[e] = Free
                   /\ booking'[b] = "CANCELLED" /\ lock'[e] = Free

Step(e) == \/ Created(e) \/ Written(e)
           \/ /\ \E b \in Of(e) : /\ Taken(e, b) \/ Ended(e, b) \/ Cancelled(e, b)
                                  /\ BookingsStay(Of(e) \ {b})
              /\ RowStays(e)
           \/ RowStays(e) /\ lock'[e] = lock[e] /\ BookingsStay(Of(e))

Next == UNCHANGED eventOf /\ \A e \in Events : Step(e)

Spec == Init /\ [][Next]_vars

--------------------------------------------------------------------------------
WriteSeesCommitted(e) == ~RowStays(e) => \A b \in Of(e) : booking[b] # "TAKEN"

\* An event's row is written only while no booking of it is half done: whoever
\* holds tickets then has them for good, and can be told of the change.
WritesSeeCommitted == [][\A e \in Events : WriteSeesCommitted(e)]_vars
================================================================================
