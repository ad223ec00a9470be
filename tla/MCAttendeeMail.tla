----------------------------- MODULE MCAttendeeMail -----------------------------
(***************************************************************************)
(* Small instances of AttendeeMail for TLC.                                *)
(***************************************************************************)
EXTENDS AttendeeMail, TLC

CONSTANTS b1, b2, u1, u2, ann, bob, v1, v2

\* The row before, and what an update may set: a place, another or the same, an
\* online link, or nothing that is announced.
MCFirst == [f \in Fields |-> v1]
NoChange == [f \in Fields |-> Unset]
MCInputs == {NoChange,
             [NoChange EXCEPT !["location"] = v1],
             [NoChange EXCEPT !["location"] = v2],
             [NoChange EXCEPT !["onlineLink"] = v2]}

\* Each booking is another customer's, or both are the same one's.
MCTwoCustomers == b1 :> ann @@ b2 :> bob
MCOneCustomer == b1 :> ann @@ b2 :> ann

\* Bookings, and updates, are alike: b1 and u1 come first.
InOrder == /\ booking[b1] = "NONE" => booking[b2] = "NONE"
           /\ pc[u1] = "idle" => pc[u2] = "idle"

\* Beside a booking and an update there is a second booking, a second update
\* or a delete; the others never arrive.  No step this forbids is one that
\* fairness asks for.
OneBooking == booking[b2] = "NONE"
OneUpdate == pc[u2] = "idle" /\ wanted[u2] = NoChange
NoDelete == \A d \in Deletes : pc[d] = "idle"

Scenario == /\ InOrder
            /\ \/ OneBooking /\ OneUpdate
               \/ OneBooking /\ NoDelete
               \/ OneUpdate /\ NoDelete

MCSpec == MailInit /\ [][MailNext /\ Scenario']_allVars /\ MailFairness
================================================================================
