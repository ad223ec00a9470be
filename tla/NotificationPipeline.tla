-------------------------- MODULE NotificationPipeline --------------------------
(***************************************************************************)
(* How an e-mail leaves the system: the NotificationLog row (an outbox row *)
(* for bookings and OTPs), the BullMQ job, the worker that delivers it and *)
(* writes the outcome to the row, and the sweep that enqueues again what   *)
(* stays PENDING (reconciliation.service.ts).                              *)
(*                                                                         *)
(* A job that completed or failed for good leaves the queue; its slot in   *)
(* Jobs is free again.  Time is only: a row is older than the sweep's      *)
(* cutoff or not, a delayed job is due or not.                             *)
(***************************************************************************)
EXTENDS Integers, FiniteSets

CONSTANTS BookingLogs,    \* rows createBooking inserts in its transaction
          OtpLogs,        \* rows register and resendOtp insert
          WorkerLogs,     \* rows the worker inserts for a job that has none
          NoLog,
          Jobs,           \* slots of the queue
          MAX_ATTEMPTS,   \* attempts of a job, and the sweep's bound (3)
          SWEEP_TAKE,           \* rows one sweep reads at most (50)
          CONCURRENCY,    \* jobs the worker runs at once (5)
          MAX_STALLS,     \* BullMQ's maxStalledCount (1)
          Broadcasts,     \* bound: jobs enqueued without a row
          MaxFaults       \* bound: crashes and failures of Redis and PostgreSQL

\* Bound: one message, and more than one, is all that is told apart.
DeliveryCap == 2

Logs == BookingLogs \cup OtpLogs \cup WorkerLogs

ASSUME LogsDistinct == /\ BookingLogs \cap OtpLogs = {}
                       /\ BookingLogs \cap WorkerLogs = {}
                       /\ OtpLogs \cap WorkerLogs = {}
                       /\ NoLog \notin Logs
ASSUME BoundsPositive == /\ MAX_ATTEMPTS \in Nat \ {0} /\ SWEEP_TAKE \in Nat \ {0}
                         /\ CONCURRENCY \in Nat \ {0} /\ MAX_STALLS \in Nat
                         /\ Broadcasts \in Nat /\ MaxFaults \in Nat

VARIABLES
    status,       \* deliveryStatus of each row, ABSENT before it is inserted
    attempts,     \* its attempts column
    old,          \* its createdAt lies before the sweep's cutoff
    toEnqueue,    \* rows whose enqueue call the server has still to make
    job,          \* the queue, with what the worker knows of an active job
    batch,        \* rows the running sweeps have read and not handled yet
    deliveries,   \* messages the provider accepted for a row, counted to DeliveryCap
    broadcasts,   \* jobs enqueued without a row so far
    faults        \* failures so far

logVars == <<status, attempts, old>>
vars == <<logVars, toEnqueue, job, batch, deliveries, broadcasts, faults>>

NoJob == [state |-> "none", log |-> NoLog, current |-> NoLog, made |-> 0,
          stalls |-> 0, step |-> "idle"]

Init == /\ status = [l \in Logs |-> "ABSENT"]
        /\ attempts = [l \in Logs |-> 0]
        /\ old = [l \in Logs |-> FALSE]
        /\ toEnqueue = {}
        /\ job = [j \in Jobs |-> NoJob]
        /\ batch = {}
        /\ deliveries = [l \in Logs |-> 0]
        /\ broadcasts = 0
        /\ faults = 0

FreeSlots == {j \in Jobs : job[j].state = "none"}
Active == {j \in Jobs : job[j].state = "active"}

\* notificationQueue.add without a jobId: always a new job.
AddJob(l) == \E j \in FreeSlots :
                job' = [job EXCEPT ![j] = [NoJob EXCEPT !.state = "waiting", !.log = l]]

Fault == faults < MaxFaults /\ faults' = faults + 1

--------------------------------------------------------------------------------
(* The producers *)

\* The row is committed (with its booking, or by register and resendOtp); the
\* enqueue call follows, not awaited.
InsertOutboxRow(l) ==
    /\ l \in BookingLogs \cup OtpLogs
    /\ status[l] = "ABSENT"
    /\ status' = [status EXCEPT ![l] = "PENDING"]
    /\ toEnqueue' = toEnqueue \cup {l}
    /\ UNCHANGED <<attempts, old, job, batch, deliveries, broadcasts, faults>>

Enqueue(l) ==
    /\ l \in toEnqueue
    /\ toEnqueue' = toEnqueue \ {l}
    /\ \/ AddJob(l) /\ UNCHANGED faults
       \/ Fault /\ UNCHANGED job       \* add() throws; the error is logged
    /\ UNCHANGED <<logVars, batch, deliveries, broadcasts>>

\* updateEvent's broadcasts carry no row (nor do OTPs whose row failed).
EnqueueBroadcast ==
    /\ broadcasts < Broadcasts
    /\ broadcasts' = broadcasts + 1
    /\ AddJob(NoLog)
    /\ UNCHANGED <<logVars, toEnqueue, batch, deliveries, faults>>

--------------------------------------------------------------------------------
(* The worker *)

CurrentAttempt(j) == job[j].made + 1

GotoStep(j, s) == job' = [job EXCEPT ![j].step = s]

JobSucceeds(j) == job' = [job EXCEPT ![j] = NoJob]

\* Defect: a failed attempt is not counted.
JobFailsUncounted(j) ==
    job' = [job EXCEPT ![j] =
               [@ EXCEPT !.state = "delayed", !.step = "idle", !.current = NoLog]]

\* The processor threw: a delayed retry, or no more attempts.
JobFails(j) ==
    job' = [job EXCEPT ![j] =
               IF CurrentAttempt(j) < MAX_ATTEMPTS
               THEN [@ EXCEPT !.state = "delayed", !.step = "idle", !.current = NoLog,
                              !.made = CurrentAttempt(j)]
               ELSE NoJob]

Take(j) ==
    /\ job[j].state = "waiting"
    /\ Cardinality(Active) < CONCURRENCY
    /\ job' = [job EXCEPT ![j].state = "active",
                          ![j].current = job[j].log,
                          ![j].step = IF job[j].log = NoLog THEN "createLog"
                                      ELSE IF job[j].log \in BookingLogs THEN "prepare"
                                      ELSE "send"]
    /\ UNCHANGED <<logVars, toEnqueue, batch, deliveries, broadcasts, faults>>

\* Defect: a booking that cannot be read ends the job as if all were done.
PrepareGivesUp(j) ==
    /\ job[j].step = "prepare"
    /\ GotoStep(j, "send") \/ JobSucceeds(j)
    /\ UNCHANGED <<logVars, toEnqueue, batch, deliveries, broadcasts, faults>>

\* Reading the booking and drawing its QR code, before deliverWithLogging.
Prepare(j) ==
    /\ job[j].step = "prepare"
    /\ \/ GotoStep(j, "send") /\ UNCHANGED faults
       \/ Fault /\ JobFails(j)
    /\ UNCHANGED <<logVars, toEnqueue, batch, deliveries, broadcasts>>

\* No row was passed: each attempt inserts one of its own.  (Delivery goes on
\* without a row if the insert fails.)
CreateLog(j) ==
    /\ job[j].step = "createLog"
    /\ \/ \E l \in WorkerLogs :
             /\ status[l] = "ABSENT"
             /\ status' = [status EXCEPT ![l] = "PENDING"]
             /\ attempts' = [attempts EXCEPT ![l] = CurrentAttempt(j)]
             /\ job' = [job EXCEPT ![j].current = l, ![j].step = "send"]
       \/ GotoStep(j, "send") /\ UNCHANGED <<status, attempts>>
    /\ UNCHANGED <<old, toEnqueue, batch, deliveries, broadcasts, faults>>

CountDelivery(j) ==
    deliveries' = [l \in Logs |->
        IF l = job[j].current /\ deliveries[l] < DeliveryCap
        THEN deliveries[l] + 1 ELSE deliveries[l]]

SendAccepted(j) ==
    /\ job[j].step = "send"
    /\ CountDelivery(j)
    /\ IF job[j].current = NoLog THEN JobSucceeds(j) ELSE GotoStep(j, "markSent")
    /\ UNCHANGED <<logVars, toEnqueue, batch, broadcasts, faults>>

\* Defect: a failed delivery is given a made-up message id.
SendFailsMasked(j) ==
    /\ job[j].step = "send"
    /\ IF job[j].current = NoLog THEN JobSucceeds(j) ELSE GotoStep(j, "markSent")
    /\ UNCHANGED <<logVars, toEnqueue, batch, deliveries, broadcasts, faults>>

\* The provider rejects the message, or accepts it and its answer is lost.
SendFails(j) ==
    /\ job[j].step = "send"
    /\ CountDelivery(j) \/ UNCHANGED deliveries
    /\ IF job[j].current = NoLog THEN JobFails(j) ELSE GotoStep(j, "markFailed")
    /\ UNCHANGED <<logVars, toEnqueue, batch, broadcasts, faults>>

\* The update to SENT is inside the try block: if it throws, the catch block
\* records a failed delivery.
MarkSent(j) ==
    LET l == job[j].current
    IN  /\ job[j].step = "markSent"
        /\ \/ /\ status' = [status EXCEPT ![l] = "SENT"]
              /\ attempts' = [attempts EXCEPT ![l] = CurrentAttempt(j)]
              /\ JobSucceeds(j)
              /\ UNCHANGED faults
           \/ Fault /\ GotoStep(j, "markFailed") /\ UNCHANGED <<status, attempts>>
        /\ UNCHANGED <<old, toEnqueue, batch, deliveries, broadcasts>>

\* Defect: the last attempt is taken for one more to come.
IsFinalAttemptLate(j) == CurrentAttempt(j) > MAX_ATTEMPTS

\* Defect: the last but one is taken for the last.
IsFinalAttemptEarly(j) == CurrentAttempt(j) >= MAX_ATTEMPTS - 1

IsFinalAttempt(j) == CurrentAttempt(j) >= MAX_ATTEMPTS

\* The catch block, and the throw that ends the attempt either way.
MarkFailed(j) ==
    LET l == job[j].current
    IN  /\ job[j].step = "markFailed"
        /\ \/ /\ status' = [status EXCEPT ![l] = IF IsFinalAttempt(j) THEN "FAILED" ELSE "PENDING"]
              /\ attempts' = [attempts EXCEPT ![l] = CurrentAttempt(j)]
              /\ UNCHANGED faults
           \/ Fault /\ UNCHANGED <<status, attempts>>
        /\ JobFails(j)
        /\ UNCHANGED <<old, toEnqueue, batch, deliveries, broadcasts>>

\* The backoff of a delayed job is over.
Promote(j) ==
    /\ job[j].state = "delayed"
    /\ job' = [job EXCEPT ![j].state = "waiting"]
    /\ UNCHANGED <<logVars, toEnqueue, batch, deliveries, broadcasts, faults>>

Work(j) == \/ Prepare(j) \/ CreateLog(j) \/ SendAccepted(j) \/ SendFails(j)
           \/ MarkSent(j) \/ MarkFailed(j)

--------------------------------------------------------------------------------
(* The sweep *)

\* Defect: rows on their last attempt are left out.
SweepableEarly == {l \in Logs : status[l] = "PENDING" /\ attempts[l] < MAX_ATTEMPTS - 1 /\ old[l]}

\* Defect: the sweep takes rows that were settled long ago.
SweepableSettled == {l \in Logs : status[l] # "ABSENT" /\ attempts[l] < MAX_ATTEMPTS /\ old[l]}

Sweepable == {l \in Logs : status[l] = "PENDING" /\ attempts[l] < MAX_ATTEMPTS /\ old[l]}

Age(l) ==
    /\ status[l] # "ABSENT" /\ ~old[l]
    /\ old' = [old EXCEPT ![l] = TRUE]
    /\ UNCHANGED <<status, attempts, toEnqueue, job, batch, deliveries, broadcasts, faults>>

\* findMany with take and no orderBy: any SWEEP_TAKE of the sweepable rows.
SweepRead ==
    /\ Sweepable # {}
    /\ \E S \in SUBSET Sweepable :
          /\ Cardinality(S) <= SWEEP_TAKE
          /\ S = Sweepable \/ Cardinality(S) = SWEEP_TAKE
          /\ batch' = batch \cup S
    /\ UNCHANGED <<logVars, toEnqueue, job, deliveries, broadcasts, faults>>

\* Only booking confirmations are enqueued again; nothing checks that the row
\* is still PENDING or that no job is there for it.
SweepHandle(l) ==
    /\ l \in batch
    /\ batch' = batch \ {l}
    /\ IF l \in BookingLogs
       THEN \/ AddJob(l) /\ UNCHANGED faults
            \/ Fault /\ UNCHANGED job
       ELSE UNCHANGED <<job, faults>>
    /\ UNCHANGED <<logVars, toEnqueue, deliveries, broadcasts>>

--------------------------------------------------------------------------------
\* The process (server, sweep and worker in one) dies.  Its jobs stall: each is
\* run again from its start, as the same attempt, unless it has stalled before.
Crash ==
    /\ Fault
    /\ toEnqueue' = {}
    /\ batch' = {}
    /\ job' = [j \in Jobs |->
                  IF j \notin Active THEN job[j]
                  ELSE IF job[j].stalls >= MAX_STALLS THEN NoJob
                  ELSE [job[j] EXCEPT !.state = "waiting", !.step = "idle",
                                      !.current = NoLog, !.stalls = @ + 1]]
    /\ UNCHANGED <<logVars, deliveries, broadcasts>>

Next == \/ \E l \in Logs : InsertOutboxRow(l) \/ Enqueue(l) \/ Age(l) \/ SweepHandle(l)
        \/ \E j \in Jobs : Take(j) \/ Work(j) \/ Promote(j)
        \/ EnqueueBroadcast
        \/ SweepRead
        \/ Crash

Spec == Init /\ [][Next]_vars

\* The event loop makes the calls it has queued, timers fire, the interval
\* keeps sweeping, and BullMQ serves waiting jobs in order.  Faults are finitely
\* many (MaxFaults); the provider may reject for ever.
Fairness == /\ \A l \in Logs : WF_vars(Enqueue(l)) /\ WF_vars(Age(l)) /\ WF_vars(SweepHandle(l))
            /\ \A j \in Jobs : SF_vars(Take(j)) /\ WF_vars(Work(j)) /\ WF_vars(Promote(j))
            /\ WF_vars(SweepRead)

FairSpec == Spec /\ Fairness

--------------------------------------------------------------------------------
(* Properties *)

Statuses == {"ABSENT", "PENDING", "SENT", "FAILED"}
Steps == {"idle", "prepare", "createLog", "send", "markSent", "markFailed"}

JobRecords == [state: {"none", "waiting", "active", "delayed"},
               log: BookingLogs \cup OtpLogs \cup {NoLog}, current: Logs \cup {NoLog},
               made: 0..(MAX_ATTEMPTS - 1), stalls: 0..MAX_STALLS, step: Steps]

\* Every variable has its type, and the columns and counters their ranges.
TypeOK ==
    /\ status \in [Logs -> Statuses]
    /\ attempts \in [Logs -> 0..MAX_ATTEMPTS]
    /\ old \in [Logs -> BOOLEAN]
    /\ toEnqueue \subseteq BookingLogs \cup OtpLogs
    /\ job \in [Jobs -> JobRecords]
    /\ batch \subseteq Logs
    /\ deliveries \in [Logs -> 0..DeliveryCap]
    /\ broadcasts \in 0..Broadcasts
    /\ faults \in 0..MaxFaults

\* A row says SENT only of a message the provider has accepted, whichever of
\* several jobs for the row wrote it last ("never masks delivery failures").
SentIsDelivered == \A l \in Logs : status[l] = "SENT" => deliveries[l] > 0

\* A row says FAILED only when a job has used all its attempts on it.
FailedIsExhausted == \A l \in Logs : status[l] = "FAILED" => attempts[l] = MAX_ATTEMPTS

\* No booking's row is ever PENDING with its attempts used up: the sweep, which
\* skips such rows, would never see it again and the e-mail would be lost.
PendingIsSweepable ==
    \A l \in BookingLogs : status[l] = "PENDING" => attempts[l] < MAX_ATTEMPTS

Live(j) == job[j].state # "none"

\* A PENDING row the sweep does not look at yet has its enqueue call or a job
\* coming, or a fault took it.
PendingIsCarried ==
    \A l \in BookingLogs :
        status[l] = "PENDING" /\ faults = 0 =>
            l \in toEnqueue \/ \E j \in Jobs : Live(j) /\ job[j].log = l

\* Something may still send the confirmation of row l, or write to the row.
Due(l) == \/ status[l] = "PENDING"
          \/ l \in toEnqueue \cup batch
          \/ \E j \in Jobs : Live(j) /\ job[j].log = l

LifeOf(l) == IF status[l] = "ABSENT" THEN "none" ELSE IF Due(l) THEN "due"
             ELSE IF deliveries[l] > 0 THEN "sent" ELSE "lost"

Life == INSTANCE ConfirmationLife WITH
            Confirmations <- BookingLogs,
            life <- [l \in BookingLogs |-> LifeOf(l)]

\* The pipeline implements the life of a confirmation: once its row is settled and
\* the last job, batch and enqueue call for it are gone, no retry, duplicate,
\* sweep or restart takes it up again, and what was lost is never sent after all.
ImplementsLife == Life!Spec

\* More rows wait for the sweep than one run of it takes.
Backlogged == Cardinality(Sweepable) > SWEEP_TAKE

\* Every confirmation is settled after any finite number of faults, if the sweep
\* comes to see its row: a booking's row does not stay PENDING for ever unless,
\* again and again, more rows wait for the sweep than it takes.
ConfirmationSettles ==
    \/ []<>Backlogged
    \/ \A l \in BookingLogs : status[l] = "PENDING" ~> status[l] \in {"SENT", "FAILED"}

\* Every job leaves the queue.
JobsLeave == \A j \in Jobs : job[j].state = "waiting" ~> job[j].state = "none"

--------------------------------------------------------------------------------
(* The inductive invariant: what the worker knows of a job it runs *)

\* The row it writes to is the job's own, or one the worker made for a job
\* without; an attempt that ends in a write has a row.
InHand(r) ==
    r.step # "idle" =>
        /\ r.state = "active"
        /\ IF r.log = NoLog THEN r.current \in WorkerLogs \cup {NoLog} ELSE r.current = r.log
        /\ r.step = "createLog" => r.log = NoLog
        /\ r.step \in {"markSent", "markFailed"} => r.current # NoLog

RowsInHand == \A j \in Jobs : InHand(job[j])

\* SENT is only about to be written of a message that was accepted.
AcceptedBeforeSent ==
    \A j \in Jobs : job[j].step = "markSent" => deliveries[job[j].current] > 0

\* A row that is not there was never tried.
AbsentIsUntried == \A l \in Logs : status[l] = "ABSENT" => attempts[l] = 0

IInv == /\ TypeOK /\ RowsInHand /\ AcceptedBeforeSent /\ AbsentIsUntried
        /\ SentIsDelivered /\ FailedIsExhausted /\ PendingIsSweepable /\ PendingIsCarried

--------------------------------------------------------------------------------
(* What the documents and comments say and the code does not do *)

\* One booking, one confirmation e-mail.
OneConfirmation == \A l \in BookingLogs : deliveries[l] <= 1

\* "Finds any pending notifications that failed to enqueue or got stuck, and
\* safely re-enqueues them": the row of a booking does not stay PENDING for ever,
\* whatever other rows there are.
AllPendingAreFound ==
    \A l \in BookingLogs : status[l] = "PENDING" ~> status[l] \in {"SENT", "FAILED"}
================================================================================
