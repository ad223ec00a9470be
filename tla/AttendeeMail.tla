------------------------------ MODULE AttendeeMail ------------------------------
(***************************************************************************)
(* What attendees read about their event.  EventBroadcast says who books,  *)
(* who changes the event and which jobs are enqueued; here the worker      *)
(* sends the mail of those jobs, and of the booking confirmations, in any  *)
(* order and at any time.                                                  *)
(*                                                                         *)
(* A confirmation job names the booking: the worker reads booking and      *)
(* event when it runs.  A broadcast job carries the row its update         *)
(* returned, all of its critical fields; a confirmation leaves out the     *)
(* online link.  What has been mailed for a booking is reduced to the      *)
(* newest version of each field that a mail has shown, a version being the *)
(* number of updates written before.  That a committed confirmation is not *)
(* taken up again once it is sent or given up, and that jobs end, is shown *)
(* of NotificationPipeline, and the retries in between are that module's.  *)
(***************************************************************************)
EXTENDS EventBroadcast

CONSTANTS NoUpdate

ASSUME NoUpdateIsNone == NoUpdate \notin Updates

\* What the mails show of the event.  (A link that was taken away shows by its
\* absence.)
BroadcastFields == Fields
ConfirmationFields == {"title", "eventDate", "location"}

VARIABLES
    version,        \* updates written to the row so far
    returned,       \* the version of the row each update returned
    announcer,      \* of each field the last update written that found it changed
    confirmation,   \* none, queued, rendered, sent or lost
    rendered,       \* the version a rendered confirmation shows
    settled,        \* attendees whose broadcast job has ended
    seen,           \* the newest version of each field mailed for a booking, or 0
    lost            \* bookings for which a mail was given up

mailVars == <<confirmation, rendered, settled, seen, lost>>
versionVars == <<version, returned, announcer>>
allVars == <<vars, versionVars, mailVars>>

MailInit == /\ Init
            /\ version = 0
            /\ returned = [u \in Updates |-> 0]
            /\ announcer = [f \in Fields |-> NoUpdate]
            /\ confirmation = [b \in Bookings |-> "none"]
            /\ rendered = [b \in Bookings |-> 0]
            /\ settled = [u \in Updates |-> {}]
            /\ seen = [b \in Bookings |-> [f \in Fields |-> 0]]
            /\ lost = {}

--------------------------------------------------------------------------------
(* The requests *)

Keep(A) == A /\ UNCHANGED <<versionVars, mailVars>>

\* The confirmation job follows the commit; a commit is CONFIRMED.
Book(b) ==
    /\ Take(b) \/ EndBooking(b)
    /\ confirmation' = [confirmation EXCEPT ![b] =
                           IF booking'[b] = "CONFIRMED" THEN "queued" ELSE @]
    /\ UNCHANGED <<versionVars, rendered, settled, seen, lost>>

\* The row an update returns is that of its own statement.
Update(u) ==
    /\ UpdateWrite(u)
    /\ version' = version + 1
    /\ returned' = [returned EXCEPT ![u] = version + 1]
    /\ announcer' = [f \in Fields |-> IF f \in changed[u] THEN u ELSE announcer[f]]
    /\ UNCHANGED mailVars

\* A confirmation under way is taken up again, and renders anew.
CrashAll ==
    /\ Crash
    /\ confirmation' = [b \in Bookings |-> IF confirmation[b] = "rendered" THEN "queued"
                                           ELSE confirmation[b]]
    /\ UNCHANGED <<versionVars, rendered, settled, seen, lost>>

--------------------------------------------------------------------------------
(* The worker *)

\* A mail for b that shows these fields of a version of the row.
Show(b, shown, v) ==
    seen' = [seen EXCEPT ![b] = [f \in Fields |->
                IF f \in shown /\ @[f] < v THEN v ELSE @[f]]]

\* Defect: the event is read from the cache.
RenderCached(b) ==
    /\ confirmation[b] = "queued"
    /\ \E v \in 0..version : rendered' = [rendered EXCEPT ![b] = v]
    /\ confirmation' = [confirmation EXCEPT ![b] = "rendered"]
    /\ UNCHANGED <<vars, versionVars, settled, seen, lost>>

\* The booking is read with its event.  Its status is not looked at.
Render(b) ==
    /\ confirmation[b] = "queued"
    /\ rendered' = [rendered EXCEPT ![b] = version]
    /\ confirmation' = [confirmation EXCEPT ![b] = "rendered"]
    /\ UNCHANGED <<vars, versionVars, settled, seen, lost>>

\* The mail is accepted; the job ends, or runs again because its end was not
\* recorded.
SendConfirmation(b) ==
    /\ confirmation[b] = "rendered"
    /\ Show(b, ConfirmationFields, rendered[b])
    /\ \E s \in {"sent", "queued"} : confirmation' = [confirmation EXCEPT ![b] = s]
    /\ UNCHANGED <<vars, versionVars, rendered, settled, lost>>

\* No attempt is left.
LoseConfirmation(b) ==
    /\ confirmation[b] \in {"queued", "rendered"}
    /\ confirmation' = [confirmation EXCEPT ![b] = "lost"]
    /\ lost' = lost \cup {b}
    /\ UNCHANGED <<vars, versionVars, rendered, settled, seen>>

Pending(u, b) == jobs[u][b] > 0 /\ b \notin settled[u]

EndBroadcast(u, b) == settled' = [settled EXCEPT ![u] = @ \cup {b}]

\* The mail shows what the job carries, whatever the row has become, and goes to
\* whom the job names.
SendBroadcast(u, b) ==
    /\ Pending(u, b)
    /\ Show(b, BroadcastFields, returned[u])
    /\ EndBroadcast(u, b) \/ UNCHANGED settled
    /\ UNCHANGED <<vars, versionVars, confirmation, rendered, lost>>

\* Defect: an attempt that fails ends the job as if the mail were sent.
LoseBroadcastSilently(u, b) ==
    /\ Pending(u, b)
    /\ EndBroadcast(u, b)
    /\ UNCHANGED <<vars, versionVars, confirmation, rendered, seen, lost>>

LoseBroadcast(u, b) ==
    /\ Pending(u, b)
    /\ EndBroadcast(u, b)
    /\ lost' = lost \cup {b}
    /\ UNCHANGED <<vars, versionVars, confirmation, rendered, seen>>

\* An attempt at the mail that ends the job, or brings it closer to its end.
Attempt(b) == \/ Render(b) \/ SendConfirmation(b) \/ LoseConfirmation(b)
              \/ \E u \in Updates : SendBroadcast(u, b) \/ LoseBroadcast(u, b)

Request == \/ \E b \in Bookings : Book(b) \/ Keep(CancelBooking(b))
           \/ \E u \in Updates : \/ Keep(UpdateRead(u)) \/ Update(u)
                                 \/ Keep(ReadAttendees(u)) \/ Keep(EnqueueBatch(u))
           \/ \E d \in Deletes : Keep(DeleteRead(d)) \/ Keep(DeleteWrite(d))
           \/ \E p \in Requests : Keep(RequestFails(p))

MailNext == Request \/ CrashAll \/ \E b \in Bookings : Attempt(b)

MailSpec == MailInit /\ [][MailNext]_allVars

\* A request the server works on gets on, and the queue is served: an attempt
\* that is repeated for ever would not be counted (JobsLeave of
\* NotificationPipeline), so each job comes to its end.
Settle(u, b) == (SendBroadcast(u, b) /\ EndBroadcast(u, b)) \/ LoseBroadcast(u, b)

MailFairness ==
    /\ \A u \in Updates : /\ WF_allVars(Keep(ReadAttendees(u)))
                          /\ WF_allVars(Keep(EnqueueBatch(u)))
                          /\ \A b \in Bookings : WF_allVars(Settle(u, b))
    /\ \A b \in Bookings :
          /\ WF_allVars(Render(b))
          /\ WF_allVars((SendConfirmation(b) /\ confirmation'[b] = "sent") \/ LoseConfirmation(b))

--------------------------------------------------------------------------------
(* Properties *)

\* Every variable has its type.
MailTypeOK ==
    /\ version \in Nat
    /\ returned \in [Updates -> Nat]
    /\ announcer \in [Fields -> Updates \cup {NoUpdate}]
    /\ confirmation \in [Bookings -> {"none", "queued", "rendered", "sent", "lost"}]
    /\ rendered \in [Bookings -> Nat]
    /\ settled \in [Updates -> SUBSET Bookings]
    /\ seen \in [Bookings -> [Fields -> Nat]]
    /\ lost \subseteq Bookings

\* The version of field f last announced, 0 if none was.
Announced(f) == IF announcer[f] = NoUpdate THEN 0 ELSE returned[announcer[f]]

Informed(b, f) == seen[b][f] >= Announced(f)

\* Mail that shows the announced field, or something later of it, is to come.
ConfirmationExpected(b, f) ==
    /\ f \in ConfirmationFields
    /\ \/ confirmation[b] = "queued"
       \/ confirmation[b] = "rendered" /\ rendered[b] >= Announced(f)

BroadcastExpected(b, f) == \E u \in Updates : Pending(u, b) /\ returned[u] >= Announced(f)

\* The mails promise a change of field f to those who held tickets when it was
\* written, and to those who booked later if their confirmation shows the field.
\* (Nothing tells a later booker the online link.)
PromisedTo(f) == {b \in Attendees : f \in ConfirmationFields \/ b \in owed[announcer[f]]}

Uninformed(f) ==
    {b \in PromisedTo(f) : /\ ~Informed(b, f) /\ b \notin lost
                           /\ ~ConfirmationExpected(b, f) /\ ~BroadcastExpected(b, f)}

\* Once the last update that found a field changed is answered, everyone it is
\* promised to has been mailed what that update made of it or something later,
\* or such a mail is to come, or a mail to him was given up; a batch Redis
\* refused costs its own attendees only.
AttendeesInformed ==
    \A f \in Fields :
        announcer[f] # NoUpdate /\ outcome[announcer[f]] = "OK" =>
            Cardinality(Uninformed(f)) <= faults * BATCH_SIZE

\* A confirmation lives here as it does in NotificationPipeline: it is queued
\* with the commit, and once sent for good or lost it is not taken up again.
LifeOf(b) == IF confirmation[b] \in {"queued", "rendered"} THEN "due" ELSE confirmation[b]

Life == INSTANCE ConfirmationLife WITH
            Confirmations <- Bookings,
            life <- [b \in Bookings |-> LifeOf(b)]

ImplementsLife == Life!Spec

UpToDate(b) ==
    \A f \in Fields : announcer[f] # NoUpdate /\ b \in PromisedTo(f) => Informed(b, f)

\* Whoever is promised a change does come to read it, if nothing fails and the
\* updates end: the jobs do not only exist.
ChangeArrives ==
    \A b \in Bookings :
        b \in Attendees ~> UpToDate(b) \/ booking[b] = "CANCELLED" \/ b \in lost \/ faults > 0

--------------------------------------------------------------------------------
(* The inductive invariant: which mail makes up for which *)

\* The announcers have written, and what they returned are versions of the row.
AnnouncerWrote ==
    /\ \A f \in Fields : announcer[f] # NoUpdate =>
           f \in changed[announcer[f]] /\ pc[announcer[f]] \notin {"idle", "write"}
    /\ \A u \in Updates : returned[u] <= version

\* A confirmation of a booking made after the announcement is read after it.
LaterAreConfirmed ==
    \A f \in ConfirmationFields : \A b \in Attendees :
        announcer[f] # NoUpdate /\ b \notin owed[announcer[f]] =>
            \/ confirmation[b] = "queued"
            \/ confirmation[b] = "rendered" /\ rendered[b] >= Announced(f)
            \/ Informed(b, f)
            \/ b \in lost

\* A broadcast job that has ended was sent or given up.
SettledAreSent ==
    \A u \in Updates : \A b \in settled[u] :
        /\ jobs[u][b] > 0
        /\ b \in lost \/ \A f \in Fields : seen[b][f] >= returned[u]

MailInv == /\ IInv /\ MailTypeOK /\ AnnouncerWrote /\ LaterAreConfirmed /\ SettledAreSent
================================================================================
