---------------------------- MODULE ConfirmationLife ----------------------------
(***************************************************************************)
(* What a booking's confirmation promises, whatever carries it: it is due  *)
(* from the booking's commit, and in the end sent or lost; what is settled *)
(* is never taken up again.  A crash may settle several at once, so a step *)
(* is said of each confirmation and not of one.                            *)
(*                                                                         *)
(* NotificationPipeline implements it with rows, jobs and sweeps;          *)
(* AttendeeMail, which only asks what the mail shows, with less.           *)
(***************************************************************************)
CONSTANT Confirmations

VARIABLE life       \* none, due, sent or lost

Init == life = [c \in Confirmations |-> "none"]

\* The booking is committed.
FallsDue(c) == life[c] = "none" /\ life'[c] = "due"

\* A last message was accepted, or all attempts at one are used up.
Settles(c) == life[c] = "due" /\ life'[c] \in {"sent", "lost"}

Next == /\ life' = [c \in Confirmations |-> life'[c]]
        /\ \A c \in Confirmations : FallsDue(c) \/ Settles(c) \/ UNCHANGED life[c]

Spec == Init /\ [][Next]_life
================================================================================
