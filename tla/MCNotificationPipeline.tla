------------------------- MODULE MCNotificationPipeline -------------------------
(***************************************************************************)
(* Small instances of NotificationPipeline for TLC.                        *)
(***************************************************************************)
EXTENDS NotificationPipeline

CONSTANTS b1, t1

\* What one behaviour may hold: a booking's row and two faults; a booking's row, a
\* job without a row and, once that job has left the queue, a fault; or an OTP's
\* row, a job without a row and a fault.  None of them need come, so that this
\* keeps no step from being taken that fairness asks for.
Scenario == \/ status[t1] = "ABSENT" /\ broadcasts = 0
            \/ /\ status[t1] = "ABSENT" /\ faults <= 1
               /\ faults = 1 => \A j \in Jobs : Live(j) => job[j].log # NoLog
            \/ status[b1] = "ABSENT" /\ faults <= 1

MCSpec == Init /\ [][Next /\ Scenario']_vars /\ Fairness
================================================================================
