----------------------- MODULE NotificationPipeline_proofs -----------------------
(***************************************************************************)
(* Proofs about NotificationPipeline, for any sets of rows and job slots,  *)
(* any number of attempts, stalls, concurrent jobs and faults.  The        *)
(* invariant is IInv.  Most steps give one slot of the queue a new record: *)
(* SlotKeeps says which records, and which writes to the rows, keep IInv;  *)
(* one lemma per action shows that the action is of that kind.             *)
(***************************************************************************)
EXTENDS NotificationPipeline, TLAPS

(***************************************************************************)
(* A step of one slot                                                      *)
(***************************************************************************)

\* Everything but the queue is well typed after the step.
OthersTyped ==
    /\ status \in [Logs -> Statuses] /\ attempts \in [Logs -> 0..MAX_ATTEMPTS]
    /\ old \in [Logs -> BOOLEAN] /\ toEnqueue \subseteq BookingLogs \cup OtpLogs
    /\ batch \subseteq Logs /\ deliveries \in [Logs -> 0..DeliveryCap]
    /\ broadcasts \in 0..Broadcasts /\ faults \in 0..MaxFaults

\* What the step leaves of row l is as before, or true by itself.
RowKept(l) ==
    \/ status'[l] = status[l] /\ attempts'[l] = attempts[l]
    \/ status'[l] = "SENT" /\ deliveries'[l] > 0
    \/ status'[l] = "FAILED" /\ attempts'[l] = MAX_ATTEMPTS
    \/ status'[l] = "PENDING" /\ (l \in BookingLogs => attempts'[l] < MAX_ATTEMPTS)

\* Slot j's record was r0 and is r: row l, if it is PENDING, is carried as before.
StillCarried(l, r0, r) ==
    status'[l] = "PENDING" /\ faults' = 0 =>
        \/ l \in toEnqueue' \/ (r.state # "none" /\ r.log = l)
        \/ /\ status[l] = "PENDING" /\ faults = 0 /\ l \notin toEnqueue
           /\ r0.state = "none" \/ r0.log # l

\* A step that gives one slot a well-formed record, never takes a delivery back
\* and leaves every row true and carried keeps the invariant.
LEMMA SlotKeeps ==
    ASSUME IInv, NEW j \in Jobs, NEW r \in JobRecords,
           job' = [job EXCEPT ![j] = r], OthersTyped', InHand(r),
           r.step = "markSent" => deliveries'[r.current] > 0,
           \A l \in Logs : deliveries'[l] >= deliveries[l],
           \A l \in Logs : RowKept(l),
           \A l \in BookingLogs : StillCarried(l, job[j], r)
    PROVE  IInv'
<1> USE DEF IInv
<1>0. /\ \A k \in Jobs : job'[k] = IF k = j THEN r ELSE job[k]
      /\ \A k \in Jobs : job[k] \in JobRecords
      /\ \A l \in Logs : deliveries[l] \in Nat /\ deliveries'[l] \in Nat
  BY DEF TypeOK, OthersTyped, DeliveryCap
<1>1. TypeOK'
  BY DEF TypeOK, OthersTyped
<1>2. RowsInHand'
  BY <1>0 DEF RowsInHand, InHand
<1>3. AcceptedBeforeSent'
  <2> SUFFICES ASSUME NEW k \in Jobs, job'[k].step = "markSent"
               PROVE  deliveries'[job'[k].current] > 0
    BY DEF AcceptedBeforeSent
  <2>1. CASE k = j
    BY <1>0, <2>1
  <2>2. CASE k # j
    <3>1. job'[k] = job[k] /\ job[k] \in JobRecords
      BY <1>0, <2>2
    <3>2. job[k].current \in Logs /\ deliveries[job[k].current] > 0
      BY <3>1 DEF RowsInHand, InHand, AcceptedBeforeSent, JobRecords
    <3> QED
      BY <1>0, <3>1, <3>2
  <2> QED
    BY <2>1, <2>2
<1>4. AbsentIsUntried'
  BY DEF AbsentIsUntried, RowKept
<1>5. SentIsDelivered'
  BY <1>0 DEF SentIsDelivered, RowKept
<1>6. FailedIsExhausted'
  BY DEF FailedIsExhausted, RowKept
<1>7. PendingIsSweepable'
  BY DEF PendingIsSweepable, RowKept, Logs
<1>8. PendingIsCarried'
  <2> SUFFICES ASSUME NEW l \in BookingLogs, status'[l] = "PENDING", faults' = 0
               PROVE  l \in toEnqueue' \/ \E k \in Jobs : job'[k].state # "none" /\ job'[k].log = l
    BY DEF PendingIsCarried, Live
  <2>1. CASE l \in toEnqueue'
    BY <2>1
  <2>2. CASE r.state # "none" /\ r.log = l
    BY <1>0, <2>2
  <2>3. CASE /\ status[l] = "PENDING" /\ faults = 0 /\ l \notin toEnqueue
             /\ job[j].state = "none" \/ job[j].log # l
    <3>1. PICK k \in Jobs : job[k].state # "none" /\ job[k].log = l
      BY <2>3 DEF PendingIsCarried, Live
    <3>2. k # j
      BY <2>3, <3>1
    <3> QED
      BY <1>0, <3>1, <3>2
  <2> QED
    BY <2>1, <2>2, <2>3 DEF StillCarried
<1> QED
  BY <1>1, <1>2, <1>3, <1>4, <1>5, <1>6, <1>7, <1>8

\* A record of the queue is well typed, and its parts are what the types say.
LEMMA RecordTyped ==
    ASSUME TypeOK, NEW j \in Jobs
    PROVE  /\ job[j] \in JobRecords
           /\ job[j].log \in BookingLogs \cup OtpLogs \cup {NoLog}
           /\ job[j].current \in Logs \cup {NoLog}
           /\ CurrentAttempt(j) \in 1..MAX_ATTEMPTS
<1>1. job[j] \in JobRecords
  BY DEF TypeOK
<1> QED
  BY <1>1, BoundsPositive DEF JobRecords, CurrentAttempt

\* A new job, for a row or for none, is a well-formed record in a slot that
\* carried nothing.
LEMMA AddJobKeeps ==
    ASSUME IInv, NEW l0 \in BookingLogs \cup OtpLogs \cup {NoLog}, AddJob(l0),
           OthersTyped', UNCHANGED <<logVars, deliveries>>,
           faults' = 0 => faults = 0,
           \A l \in BookingLogs : l \in toEnqueue => l \in toEnqueue' \/ l = l0
    PROVE  IInv'
<1>1. PICK j \in FreeSlots :
         job' = [job EXCEPT ![j] = [NoJob EXCEPT !.state = "waiting", !.log = l0]]
  BY DEF AddJob
<1> DEFINE r == [NoJob EXCEPT !.state = "waiting", !.log = l0]
<1>2. /\ r \in JobRecords /\ r.state = "waiting" /\ r.log = l0 /\ r.step = "idle"
  <2>1. NoJob \in JobRecords /\ NoJob.step = "idle"
    BY BoundsPositive DEF NoJob, JobRecords, Steps
  <2> QED
    BY <2>1 DEF JobRecords
<1>3. j \in Jobs /\ job[j].state = "none"
  BY <1>1 DEF FreeSlots
<1> HIDE DEF r
<1>4. InHand(r) /\ job' = [job EXCEPT ![j] = r]
  BY <1>1, <1>2 DEF InHand, r
<1>5. \A l \in Logs : RowKept(l) /\ deliveries'[l] >= deliveries[l]
  BY DEF RowKept, logVars, IInv, TypeOK, DeliveryCap
<1>6. \A l \in BookingLogs : StillCarried(l, job[j], r)
  BY <1>2, <1>3 DEF StillCarried, logVars
<1> QED
  BY <1>2, <1>3, <1>4, <1>5, <1>6, SlotKeeps

\* Nothing changes in the queue and no delivery is taken back: only the rows
\* and what is to be enqueued have to be looked at.
LEMMA OutsideKeeps ==
    ASSUME IInv, UNCHANGED <<job, deliveries>>, OthersTyped',
           \A l \in Logs : RowKept(l), faults' = 0 => faults = 0,
           \A l \in BookingLogs : status'[l] = "PENDING" /\ faults' = 0 =>
               l \in toEnqueue' \/ (status[l] = "PENDING" /\ l \notin toEnqueue)
    PROVE  IInv'
<1> USE DEF IInv
<1>1. TypeOK'
  BY DEF TypeOK, OthersTyped
<1>2. RowsInHand' /\ AcceptedBeforeSent'
  BY DEF RowsInHand, AcceptedBeforeSent, InHand
<1>3. AbsentIsUntried' /\ SentIsDelivered' /\ FailedIsExhausted'
  BY DEF AbsentIsUntried, SentIsDelivered, FailedIsExhausted, RowKept
<1>4. PendingIsSweepable'
  BY DEF PendingIsSweepable, RowKept, Logs
<1>5. PendingIsCarried'
  BY DEF PendingIsCarried, Live
<1> QED
  BY <1>1, <1>2, <1>3, <1>4, <1>5

\* What is unchanged is well typed.
LEMMA TypedBefore == IInv => OthersTyped
BY DEF IInv, TypeOK, OthersTyped

\* A fault is counted, and no row need be carried after one.
LEMMA FaultCounted ==
    ASSUME TypeOK, Fault
    PROVE  faults' \in 0..MaxFaults /\ faults' # 0
BY BoundsPositive DEF TypeOK, Fault

(***************************************************************************)
(* The producers and the sweep                                             *)
(***************************************************************************)

\* A fresh row has no attempts and its enqueue call is to come.
LEMMA InsertOutboxRowInv ==
    ASSUME IInv, NEW l \in Logs, InsertOutboxRow(l)
    PROVE  IInv'
<1>1. OthersTyped
  BY TypedBefore
<1>2. OthersTyped'
  BY <1>1 DEF InsertOutboxRow, OthersTyped, Statuses
<1>3. \A k \in Logs : RowKept(k)
  BY BoundsPositive DEF InsertOutboxRow, RowKept, IInv, TypeOK, AbsentIsUntried
<1> QED
  BY <1>1, <1>2, <1>3, OutsideKeeps DEF InsertOutboxRow, OthersTyped, Logs

\* The enqueue call makes a job for its row, or is a fault.
LEMMA EnqueueInv ==
    ASSUME IInv, NEW l \in Logs, Enqueue(l)
    PROVE  IInv'
<1>1. OthersTyped /\ l \in BookingLogs \cup OtpLogs
  BY TypedBefore DEF Enqueue, OthersTyped
<1>2. CASE AddJob(l) /\ UNCHANGED faults
  <2>1. OthersTyped'
    BY <1>1, <1>2 DEF Enqueue, OthersTyped, logVars
  <2> QED
    BY <1>1, <1>2, <2>1, AddJobKeeps DEF Enqueue
<1>3. CASE Fault /\ UNCHANGED job
  <2>1. faults' \in 0..MaxFaults /\ faults' # 0
    BY <1>3, FaultCounted DEF IInv
  <2>2. OthersTyped'
    BY <1>1, <2>1 DEF Enqueue, OthersTyped, logVars
  <2> QED
    BY <1>3, <2>1, <2>2, OutsideKeeps DEF Enqueue, logVars, RowKept
<1> QED
  BY <1>2, <1>3 DEF Enqueue

\* A job without a row carries nothing and takes no slot that does.
LEMMA EnqueueBroadcastInv ==
    ASSUME IInv, EnqueueBroadcast
    PROVE  IInv'
<1>1. OthersTyped
  BY TypedBefore
<1>2. OthersTyped'
  BY <1>1, BoundsPositive DEF EnqueueBroadcast, OthersTyped, logVars
<1> QED
  BY <1>1, <1>2, AddJobKeeps DEF EnqueueBroadcast

\* Time passes over a row, and a sweep reads: neither writes one.
LEMMA AgeAndSweepReadInv ==
    ASSUME IInv, SweepRead \/ \E l \in Logs : Age(l)
    PROVE  IInv'
<1>1. OthersTyped
  BY TypedBefore
<1>2. OthersTyped'
  BY <1>1 DEF SweepRead, Age, OthersTyped, Sweepable, logVars
<1>3. UNCHANGED <<status, attempts, toEnqueue, job, deliveries, faults>>
  BY DEF SweepRead, Age, logVars
<1> QED
  BY <1>2, <1>3, OutsideKeeps DEF RowKept

\* The sweep makes one more job for a booking's row.
LEMMA SweepHandleInv ==
    ASSUME IInv, NEW l \in Logs, SweepHandle(l)
    PROVE  IInv'
<1>1. OthersTyped
  BY TypedBefore
<1>2. CASE l \in BookingLogs /\ AddJob(l) /\ UNCHANGED faults
  <2>1. OthersTyped'
    BY <1>1, <1>2 DEF SweepHandle, OthersTyped, logVars
  <2> QED
    BY <1>2, <2>1, AddJobKeeps DEF SweepHandle
<1>3. CASE Fault /\ UNCHANGED job
  <2>1. faults' \in 0..MaxFaults /\ faults' # 0
    BY <1>3, FaultCounted DEF IInv
  <2>2. OthersTyped'
    BY <1>1, <2>1 DEF SweepHandle, OthersTyped, logVars
  <2> QED
    BY <1>3, <2>1, <2>2, OutsideKeeps DEF SweepHandle, logVars, RowKept
<1>4. CASE UNCHANGED <<job, faults>>
  <2>1. OthersTyped'
    BY <1>1, <1>4 DEF SweepHandle, OthersTyped, logVars
  <2> QED
    BY <1>4, <2>1, OutsideKeeps DEF SweepHandle, logVars, RowKept
<1> QED
  BY <1>2, <1>3, <1>4 DEF SweepHandle

(***************************************************************************)
(* The worker                                                              *)
(***************************************************************************)

\* A job that is run goes on to another step with the row it has.
LEMMA GotoStepKeeps ==
    ASSUME IInv, NEW j \in Jobs, NEW s \in Steps \ {"idle", "createLog"},
           job[j].step # "idle", GotoStep(j, s), OthersTyped',
           s \in {"markSent", "markFailed"} => job[j].current # NoLog,
           s = "markSent" => deliveries'[job[j].current] > 0,
           UNCHANGED <<logVars, toEnqueue>>, faults' = 0 => faults = 0,
           \A l \in Logs : deliveries'[l] >= deliveries[l]
    PROVE  IInv'
<1> DEFINE r == [job[j] EXCEPT !.step = s]
<1>1. job[j] \in JobRecords /\ InHand(job[j])
  BY RecordTyped DEF IInv, RowsInHand
<1>2. /\ r \in JobRecords /\ r.step = s /\ r.state = job[j].state
      /\ r.log = job[j].log /\ r.current = job[j].current
  BY <1>1 DEF JobRecords
<1>3. job' = [job EXCEPT ![j] = r]
  BY DEF GotoStep, IInv, TypeOK
<1> HIDE DEF r
<1>4. InHand(r)
  BY <1>1, <1>2 DEF InHand
<1>5. \A l \in Logs : RowKept(l)
  BY DEF RowKept, logVars
<1>6. \A l \in BookingLogs : StillCarried(l, job[j], r)
  BY <1>2 DEF StillCarried, logVars
<1> QED
  BY <1>2, <1>3, <1>4, <1>5, <1>6, SlotKeeps

\* A job leaves the queue once it has none of the rows that must be carried, or
\* its row is settled.
LEMMA JobSucceedsKeeps ==
    ASSUME IInv, NEW j \in Jobs, JobSucceeds(j), OthersTyped',
           UNCHANGED toEnqueue, faults' = 0 => faults = 0,
           \A l \in Logs : deliveries'[l] >= deliveries[l],
           \A l \in Logs : RowKept(l),
           \A l \in BookingLogs : status'[l] = "PENDING" =>
               status[l] = "PENDING" /\ job[j].log # l
    PROVE  IInv'
<1>1. /\ NoJob \in JobRecords /\ InHand(NoJob) /\ NoJob.step = "idle"
      /\ NoJob.state = "none"
  BY BoundsPositive DEF NoJob, JobRecords, InHand, Steps
<1>2. job' = [job EXCEPT ![j] = NoJob]
  BY DEF JobSucceeds
<1>3. \A l \in BookingLogs : StillCarried(l, job[j], NoJob)
  BY DEF StillCarried
<1> QED
  BY <1>1, <1>2, <1>3, SlotKeeps

\* A failed attempt leaves the job in the queue, unless it was the last one: then
\* its row is settled, or a fault has been counted.
LEMMA JobFailsKeeps ==
    ASSUME IInv, NEW j \in Jobs, job[j].step # "idle", JobFails(j), OthersTyped',
           UNCHANGED toEnqueue, faults' = 0 => faults = 0,
           \A l \in Logs : deliveries'[l] >= deliveries[l],
           \A l \in Logs : RowKept(l),
           \A l \in BookingLogs : status'[l] = "PENDING" /\ faults' = 0 =>
               \/ status[l] = "PENDING"
               \/ job[j].log = l /\ CurrentAttempt(j) < MAX_ATTEMPTS,
           \A l \in BookingLogs :
               status'[l] = "PENDING" /\ faults' = 0 /\ job[j].log = l =>
                   CurrentAttempt(j) < MAX_ATTEMPTS
    PROVE  IInv'
<1>1. /\ job[j] \in JobRecords /\ InHand(job[j])
      /\ CurrentAttempt(j) \in 1..MAX_ATTEMPTS
  BY RecordTyped DEF IInv, RowsInHand
<1>2. CASE CurrentAttempt(j) < MAX_ATTEMPTS
  <2> DEFINE r == [job[j] EXCEPT !.state = "delayed", !.step = "idle", !.current = NoLog,
                                 !.made = CurrentAttempt(j)]
  <2>1. job' = [job EXCEPT ![j] = r]
    BY <1>2 DEF JobFails, IInv, TypeOK
  <2>2. CurrentAttempt(j) \in 0..(MAX_ATTEMPTS - 1)
    BY <1>1, <1>2, BoundsPositive
  <2>3. /\ r \in JobRecords /\ r.step = "idle" /\ r.state = "delayed" /\ r.log = job[j].log
    BY <1>1, <2>2 DEF JobRecords, Steps
  <2> HIDE DEF r
  <2>4. InHand(r)
    BY <2>3 DEF InHand
  <2>5. \A l \in BookingLogs : StillCarried(l, job[j], r)
    BY <2>3 DEF StillCarried
  <2> QED
    BY <2>1, <2>3, <2>4, <2>5, SlotKeeps
<1>3. CASE ~(CurrentAttempt(j) < MAX_ATTEMPTS)
  <2>1. job' = [job EXCEPT ![j] = NoJob]
    BY <1>3 DEF JobFails, IInv, TypeOK
  <2>2. /\ NoJob \in JobRecords /\ InHand(NoJob) /\ NoJob.step = "idle"
        /\ NoJob.state = "none"
    BY BoundsPositive DEF NoJob, JobRecords, InHand, Steps
  <2>3. \A l \in BookingLogs : StillCarried(l, job[j], NoJob)
    BY <1>3 DEF StillCarried
  <2> QED
    BY <2>1, <2>2, <2>3, SlotKeeps
<1> QED
  BY <1>2, <1>3

\* The worker takes a job and with it its row; a delayed job waits again.
LEMMA TakeInv ==
    ASSUME IInv, NEW j \in Jobs, Take(j) \/ Promote(j)
    PROVE  IInv'
<1>1. /\ job[j] \in JobRecords /\ InHand(job[j])
      /\ job[j].log \in BookingLogs \cup OtpLogs \cup {NoLog}
  BY RecordTyped DEF IInv, RowsInHand
<1>2. OthersTyped'
  BY TypedBefore DEF Take, Promote, OthersTyped, logVars
<1>3. \A l \in Logs : RowKept(l) /\ deliveries'[l] >= deliveries[l]
  BY DEF Take, Promote, RowKept, logVars, IInv, TypeOK, DeliveryCap
<1>4. CASE Take(j)
  <2> DEFINE s == IF job[j].log = NoLog THEN "createLog"
                  ELSE IF job[j].log \in BookingLogs THEN "prepare" ELSE "send"
             r == [job[j] EXCEPT !.state = "active", !.current = job[j].log, !.step = s]
  <2>1. job' = [job EXCEPT ![j] = r]
    BY <1>4 DEF Take, IInv, TypeOK
  <2>2. /\ s \in {"createLog", "prepare", "send"} /\ (s = "createLog" => job[j].log = NoLog)
    OBVIOUS
  <2> HIDE DEF s
  <2>3. /\ r \in JobRecords /\ r.step = s /\ r.state = "active"
        /\ r.log = job[j].log /\ r.current = job[j].log
    BY <1>1, <2>2 DEF JobRecords, Steps, Logs
  <2> HIDE DEF r
  <2>4. InHand(r) /\ r.step # "markSent"
    BY <2>2, <2>3 DEF InHand
  <2>5. \A l \in BookingLogs : StillCarried(l, job[j], r)
    BY <1>4, <2>3 DEF StillCarried, Take, logVars
  <2> QED
    BY <1>2, <1>3, <2>1, <2>3, <2>4, <2>5, SlotKeeps
<1>5. CASE Promote(j)
  <2> DEFINE r == [job[j] EXCEPT !.state = "waiting"]
  <2>1. job' = [job EXCEPT ![j] = r]
    BY <1>5 DEF Promote, IInv, TypeOK
  <2>2. job[j].step = "idle"
    BY <1>1, <1>5 DEF Promote, InHand
  <2>3. r \in JobRecords /\ r.step = "idle" /\ r.state = "waiting" /\ r.log = job[j].log
    BY <1>1, <2>2 DEF JobRecords
  <2> HIDE DEF r
  <2>4. InHand(r)
    BY <2>3 DEF InHand
  <2>5. \A l \in BookingLogs : StillCarried(l, job[j], r)
    BY <1>5, <2>3 DEF StillCarried, Promote, logVars
  <2> QED
    BY <1>2, <1>3, <2>1, <2>3, <2>4, <2>5, SlotKeeps
<1> QED
  BY <1>4, <1>5

\* The booking is read, or a fault ends the attempt.
LEMMA PrepareInv ==
    ASSUME IInv, NEW j \in Jobs, Prepare(j)
    PROVE  IInv'
<1>1. /\ job[j].step = "prepare" /\ OthersTyped
      /\ UNCHANGED <<status, attempts, old, toEnqueue, batch, deliveries, broadcasts>>
      /\ \A l \in Logs : RowKept(l) /\ deliveries'[l] >= deliveries[l]
  BY TypedBefore DEF Prepare, RowKept, logVars, IInv, TypeOK, DeliveryCap
<1>2. CASE GotoStep(j, "send") /\ UNCHANGED faults
  <2>1. OthersTyped'
    BY <1>1, <1>2 DEF OthersTyped
  <2> QED
    BY <1>1, <1>2, <2>1, GotoStepKeeps DEF Steps, logVars
<1>3. CASE Fault /\ JobFails(j)
  <2>1. faults' \in 0..MaxFaults /\ faults' # 0
    BY <1>3, FaultCounted DEF IInv
  <2>2. OthersTyped'
    BY <1>1, <2>1 DEF OthersTyped
  <2> QED
    BY <1>1, <1>3, <2>1, <2>2, JobFailsKeeps
<1> QED
  BY <1>2, <1>3 DEF Prepare

\* The worker's own row is none of a booking's.
LEMMA CreateLogInv ==
    ASSUME IInv, NEW j \in Jobs, CreateLog(j)
    PROVE  IInv'
<1>1. /\ job[j].step = "createLog" /\ OthersTyped
      /\ UNCHANGED <<old, toEnqueue, batch, deliveries, broadcasts, faults>>
      /\ \A l \in Logs : deliveries'[l] >= deliveries[l]
  BY TypedBefore DEF CreateLog, IInv, TypeOK, DeliveryCap
<1>2. /\ job[j] \in JobRecords /\ InHand(job[j])
      /\ CurrentAttempt(j) \in 1..MAX_ATTEMPTS
  BY RecordTyped DEF IInv, RowsInHand
<1>3. ASSUME NEW w \in WorkerLogs,
             status' = [status EXCEPT ![w] = "PENDING"],
             attempts' = [attempts EXCEPT ![w] = CurrentAttempt(j)],
             job' = [job EXCEPT ![j].current = w, ![j].step = "send"]
      PROVE  IInv'
  <2> DEFINE r == [job[j] EXCEPT !.current = w, !.step = "send"]
  <2>1. job' = [job EXCEPT ![j] = r]
    BY <1>3 DEF IInv, TypeOK
  <2>2. /\ r \in JobRecords /\ r.step = "send" /\ r.state = job[j].state
        /\ r.log = job[j].log /\ r.current = w
    BY <1>2, <1>3 DEF JobRecords, Steps, Logs
  <2> HIDE DEF r
  <2>3. InHand(r)
    BY <1>1, <1>2, <2>2 DEF InHand
  <2>4. OthersTyped'
    BY <1>1, <1>2, <1>3, BoundsPositive DEF OthersTyped, Statuses, Logs
  <2>5. w \in Logs /\ w \notin BookingLogs
    BY <1>3, LogsDistinct DEF Logs
  <2>6. \A l \in Logs : RowKept(l)
    BY <1>1, <1>3, <2>5 DEF RowKept, OthersTyped
  <2>7. \A l \in BookingLogs : StillCarried(l, job[j], r)
    BY <1>1, <1>3, <2>2, <2>5 DEF StillCarried, OthersTyped, Logs
  <2> QED
    BY <1>1, <2>1, <2>2, <2>3, <2>4, <2>6, <2>7, SlotKeeps
<1>4. CASE GotoStep(j, "send") /\ UNCHANGED <<status, attempts>>
  <2>1. OthersTyped'
    BY <1>1, <1>4 DEF OthersTyped
  <2> QED
    BY <1>1, <1>4, <2>1, GotoStepKeeps DEF Steps, logVars
<1> QED
  BY <1>3, <1>4 DEF CreateLog

\* A delivery is counted for the row in hand and for no other.
LEMMA DeliveryCounted ==
    ASSUME TypeOK, NEW j \in Jobs, CountDelivery(j)
    PROVE  /\ deliveries' \in [Logs -> 0..DeliveryCap]
           /\ \A l \in Logs : deliveries'[l] >= deliveries[l]
           /\ job[j].current # NoLog => deliveries'[job[j].current] > 0
<1>1. job[j].current \in Logs \cup {NoLog}
  BY RecordTyped
<1>2. \A l \in Logs : deliveries[l] \in 0..2
  BY DEF TypeOK, DeliveryCap
<1>3. \A l \in Logs : deliveries'[l] = IF l = job[j].current /\ deliveries[l] < 2
                                       THEN deliveries[l] + 1 ELSE deliveries[l]
  BY DEF CountDelivery, DeliveryCap
<1>4. \A l \in Logs : deliveries'[l] \in 0..2 /\ deliveries'[l] >= deliveries[l]
  BY <1>2, <1>3
<1>5. deliveries' \in [Logs -> 0..DeliveryCap]
  BY <1>4 DEF CountDelivery, DeliveryCap
<1>6. job[j].current # NoLog => deliveries'[job[j].current] > 0
  BY <1>1, <1>2, <1>3
<1> QED
  BY <1>4, <1>5, <1>6

\* The provider's answer: the row in hand is written next; without one the job ends
\* or is tried again.
LEMMA SendInv ==
    ASSUME IInv, NEW j \in Jobs, SendAccepted(j) \/ SendFails(j)
    PROVE  IInv'
<1>1. /\ job[j].step = "send" /\ OthersTyped /\ TypeOK /\ InHand(job[j])
      /\ UNCHANGED <<status, attempts, old, toEnqueue, batch, broadcasts, faults>>
      /\ \A l \in Logs : RowKept(l)
  BY TypedBefore DEF SendAccepted, SendFails, RowKept, logVars, IInv, RowsInHand
<1>2. CountDelivery(j) \/ UNCHANGED deliveries
  BY DEF SendAccepted, SendFails
<1>3. \A l \in Logs : deliveries'[l] >= deliveries[l]
  BY <1>1, <1>2, DeliveryCounted DEF TypeOK, DeliveryCap
<1>4. OthersTyped'
  BY <1>1, <1>2, DeliveryCounted DEF OthersTyped
<1>5. job[j].current = NoLog => job[j].log = NoLog
  BY <1>1 DEF InHand
<1>6. NoLog \notin BookingLogs
  BY LogsDistinct DEF Logs
<1>7. CASE SendAccepted(j) /\ job[j].current = NoLog
  BY <1>1, <1>3, <1>4, <1>5, <1>6, <1>7, JobSucceedsKeeps DEF SendAccepted
<1>8. CASE SendAccepted(j) /\ job[j].current # NoLog
  <2>1. deliveries'[job[j].current] > 0
    BY <1>1, <1>8, DeliveryCounted DEF SendAccepted
  <2> QED
    BY <1>1, <1>3, <1>4, <1>8, <2>1, GotoStepKeeps DEF SendAccepted, Steps, logVars
<1>9. CASE SendFails(j) /\ job[j].current = NoLog
  BY <1>1, <1>3, <1>4, <1>5, <1>6, <1>9, JobFailsKeeps DEF SendFails
<1>10. CASE SendFails(j) /\ job[j].current # NoLog
  BY <1>1, <1>3, <1>4, <1>10, GotoStepKeeps DEF SendFails, Steps, logVars
<1> QED
  BY <1>7, <1>8, <1>9, <1>10

\* SENT is written of an accepted message, and the job leaves.
LEMMA MarkSentInv ==
    ASSUME IInv, NEW j \in Jobs, MarkSent(j)
    PROVE  IInv'
<1>1. /\ job[j].step = "markSent" /\ OthersTyped /\ TypeOK /\ InHand(job[j])
      /\ UNCHANGED <<old, toEnqueue, batch, deliveries, broadcasts>>
      /\ \A l \in Logs : deliveries'[l] >= deliveries[l]
  BY TypedBefore DEF MarkSent, IInv, TypeOK, RowsInHand, DeliveryCap
<1>2. /\ job[j].current \in Logs /\ deliveries[job[j].current] > 0
      /\ job[j].log # NoLog => job[j].log = job[j].current
      /\ CurrentAttempt(j) \in 1..MAX_ATTEMPTS
  BY <1>1, RecordTyped DEF IInv, InHand, AcceptedBeforeSent
<1>3. CASE /\ status' = [status EXCEPT ![job[j].current] = "SENT"]
           /\ attempts' = [attempts EXCEPT ![job[j].current] = CurrentAttempt(j)]
           /\ JobSucceeds(j)
           /\ UNCHANGED faults
  <2>1. OthersTyped'
    BY <1>1, <1>2, <1>3, BoundsPositive DEF OthersTyped, Statuses
  <2>2. \A l \in Logs : RowKept(l)
    BY <1>1, <1>2, <1>3 DEF RowKept, TypeOK
  <2>3. \A l \in BookingLogs : status'[l] = "PENDING" =>
           status[l] = "PENDING" /\ job[j].log # l
    BY <1>1, <1>2, <1>3, LogsDistinct DEF TypeOK, Logs
  <2> QED
    BY <1>1, <1>3, <2>1, <2>2, <2>3, JobSucceedsKeeps
<1>4. CASE Fault /\ GotoStep(j, "markFailed") /\ UNCHANGED <<status, attempts>>
  <2>1. faults' \in 0..MaxFaults /\ faults' # 0
    BY <1>1, <1>4, FaultCounted
  <2>2. OthersTyped'
    BY <1>1, <1>4, <2>1 DEF OthersTyped
  <2> QED
    BY <1>1, <1>2, <1>4, <2>1, <2>2, LogsDistinct, GotoStepKeeps DEF Steps, logVars
<1> QED
  BY <1>3, <1>4 DEF MarkSent

\* FAILED is written on the last attempt, PENDING before it, and only after the
\* last does the job leave.
LEMMA MarkFailedInv ==
    ASSUME IInv, NEW j \in Jobs, MarkFailed(j)
    PROVE  IInv'
<1>1. /\ job[j].step = "markFailed" /\ OthersTyped /\ TypeOK /\ InHand(job[j])
      /\ UNCHANGED <<old, toEnqueue, batch, deliveries, broadcasts>>
      /\ JobFails(j)
      /\ \A l \in Logs : deliveries'[l] >= deliveries[l]
  BY TypedBefore DEF MarkFailed, IInv, TypeOK, RowsInHand, DeliveryCap
<1>2. /\ job[j].current \in Logs
      /\ job[j].log # NoLog => job[j].log = job[j].current
      /\ CurrentAttempt(j) \in 1..MAX_ATTEMPTS
  BY <1>1, RecordTyped DEF InHand
<1>3. CASE /\ status' = [status EXCEPT ![job[j].current] =
                            IF IsFinalAttempt(j) THEN "FAILED" ELSE "PENDING"]
           /\ attempts' = [attempts EXCEPT ![job[j].current] = CurrentAttempt(j)]
           /\ UNCHANGED faults
  <2>1. OthersTyped'
    BY <1>1, <1>2, <1>3, BoundsPositive DEF OthersTyped, Statuses
  <2>2. \A l \in Logs : RowKept(l)
    BY <1>1, <1>2, <1>3, BoundsPositive DEF RowKept, TypeOK, IsFinalAttempt
  <2>3. \A l \in BookingLogs :
           status'[l] = "PENDING" /\ job[j].log = l => CurrentAttempt(j) < MAX_ATTEMPTS
    BY <1>1, <1>2, <1>3, LogsDistinct, BoundsPositive DEF TypeOK, IsFinalAttempt, Logs
  <2>4. job[j].current \in BookingLogs => job[j].log = job[j].current
    BY <1>1, <1>2, LogsDistinct DEF InHand, Logs
  <2>5. \A l \in BookingLogs : status'[l] = "PENDING" => status[l] = "PENDING" \/ job[j].log = l
    BY <1>1, <1>3, <2>4 DEF TypeOK, Logs
  <2> QED
    BY <1>1, <1>3, <2>1, <2>2, <2>3, <2>5, JobFailsKeeps
<1>4. CASE Fault /\ UNCHANGED <<status, attempts>>
  <2>1. faults' \in 0..MaxFaults /\ faults' # 0
    BY <1>1, <1>4, FaultCounted
  <2>2. OthersTyped' /\ \A l \in Logs : RowKept(l)
    BY <1>1, <1>4, <2>1 DEF OthersTyped, RowKept
  <2> QED
    BY <1>1, <1>4, <2>1, <2>2, JobFailsKeeps
<1> QED
  BY <1>3, <1>4 DEF MarkFailed

(***************************************************************************)
(* The crash, and all steps together                                       *)
(***************************************************************************)

\* The process forgets what it had read; its jobs wait again or are gone.
LEMMA CrashInv ==
    ASSUME IInv, Crash
    PROVE  IInv'
<1> USE DEF IInv
<1>1. faults' \in 0..MaxFaults /\ faults' # 0
  BY FaultCounted DEF Crash
<1>2. /\ UNCHANGED <<status, attempts, old, deliveries, broadcasts>>
      /\ toEnqueue' = {} /\ batch' = {}
  BY DEF Crash, logVars
<1>3. \A j \in Jobs : job'[j] \in JobRecords /\ job'[j].step = "idle"
  <2> SUFFICES ASSUME NEW j \in Jobs
               PROVE  job'[j] \in JobRecords /\ job'[j].step = "idle"
    OBVIOUS
  <2>1. job[j] \in JobRecords /\ InHand(job[j])
    BY DEF TypeOK, RowsInHand
  <2>2. NoJob \in JobRecords /\ NoJob.step = "idle"
    BY BoundsPositive DEF NoJob, JobRecords, Steps
  <2>3. CASE j \notin Active
    BY <2>1, <2>3 DEF Crash, Active, InHand
  <2>4. CASE j \in Active /\ job[j].stalls >= MAX_STALLS
    BY <2>2, <2>4 DEF Crash
  <2>5. CASE j \in Active /\ ~(job[j].stalls >= MAX_STALLS)
    <3> DEFINE r == [job[j] EXCEPT !.state = "waiting", !.step = "idle",
                                   !.current = NoLog, !.stalls = @ + 1]
    <3>1. job'[j] = r
      BY <2>5 DEF Crash
    <3>2. job[j].stalls + 1 \in 0..MAX_STALLS
      BY <2>1, <2>5, BoundsPositive DEF JobRecords
    <3>3. r \in JobRecords /\ r.step = "idle"
      BY <2>1, <3>2 DEF JobRecords, Steps
    <3> QED
      BY <3>1, <3>3
  <2> QED
    BY <2>3, <2>4, <2>5
<1>4. TypeOK'
  BY <1>1, <1>2, <1>3 DEF TypeOK, Crash
<1>5. RowsInHand' /\ AcceptedBeforeSent'
  BY <1>3 DEF RowsInHand, InHand, AcceptedBeforeSent
<1>6. /\ AbsentIsUntried' /\ SentIsDelivered' /\ FailedIsExhausted'
      /\ PendingIsSweepable'
  BY <1>2 DEF AbsentIsUntried, SentIsDelivered, FailedIsExhausted, PendingIsSweepable
<1>7. PendingIsCarried'
  BY <1>1 DEF PendingIsCarried
<1> QED
  BY <1>4, <1>5, <1>6, <1>7

\* At the start there are no rows and no jobs.
LEMMA InitInv == Init => IInv
<1> SUFFICES ASSUME Init PROVE IInv
  OBVIOUS
<1>1. /\ NoJob \in JobRecords /\ NoJob.step = "idle" /\ InHand(NoJob)
  BY BoundsPositive DEF NoJob, JobRecords, Steps, InHand
<1>2. TypeOK
  BY <1>1, BoundsPositive DEF Init, TypeOK, Statuses, DeliveryCap
<1>3. RowsInHand /\ AcceptedBeforeSent
  BY <1>1 DEF Init, RowsInHand, AcceptedBeforeSent
<1>4. AbsentIsUntried /\ SentIsDelivered /\ FailedIsExhausted
  BY DEF Init, AbsentIsUntried, SentIsDelivered, FailedIsExhausted
<1>5. PendingIsSweepable /\ PendingIsCarried
  BY DEF Init, PendingIsSweepable, PendingIsCarried, Logs
<1> QED
  BY <1>2, <1>3, <1>4, <1>5 DEF IInv

\* Every step keeps the invariant.
LEMMA StepInv == IInv /\ [Next]_vars => IInv'
<1> SUFFICES ASSUME IInv, [Next]_vars PROVE IInv'
  OBVIOUS
<1>1. ASSUME NEW l \in Logs, InsertOutboxRow(l) \/ Enqueue(l) \/ Age(l) \/ SweepHandle(l)
      PROVE  IInv'
  BY <1>1, InsertOutboxRowInv, EnqueueInv, AgeAndSweepReadInv, SweepHandleInv
<1>2. ASSUME NEW j \in Jobs, Take(j) \/ Work(j) \/ Promote(j) PROVE IInv'
  BY <1>2, TakeInv, PrepareInv, CreateLogInv, SendInv, MarkSentInv, MarkFailedInv DEF Work
<1>3. CASE EnqueueBroadcast
  BY <1>3, EnqueueBroadcastInv
<1>4. CASE SweepRead
  BY <1>4, AgeAndSweepReadInv
<1>5. CASE Crash
  BY <1>5, CrashInv
<1>6. CASE UNCHANGED vars
  BY <1>6 DEF vars, logVars, IInv, TypeOK, RowsInHand, InHand, AcceptedBeforeSent,
              AbsentIsUntried, SentIsDelivered, FailedIsExhausted, PendingIsSweepable,
              PendingIsCarried, Live
<1> QED
  BY <1>1, <1>2, <1>3, <1>4, <1>5, <1>6 DEF Next

(***************************************************************************)
(* The theorems                                                            *)
(***************************************************************************)

\* What the worker holds and what the rows say fit together in every state.
THEOREM InductiveInvariant == Spec => []IInv
BY InitInv, StepInv, PTL DEF Spec

\* A row says SENT only of a message the provider accepted.
THEOREM SentIsTrue == Spec => []SentIsDelivered
<1>1. IInv => SentIsDelivered
  BY DEF IInv
<1> QED
  BY InductiveInvariant, <1>1, PTL

\* A row says FAILED only when a job has used up its attempts on it.
THEOREM FailedIsTrue == Spec => []FailedIsExhausted
<1>1. IInv => FailedIsExhausted
  BY DEF IInv
<1> QED
  BY InductiveInvariant, <1>1, PTL

\* The sweep sees every confirmation that is PENDING for long enough.
THEOREM PendingIsSeen == Spec => []PendingIsSweepable
<1>1. IInv => PendingIsSweepable
  BY DEF IInv
<1> QED
  BY InductiveInvariant, <1>1, PTL

\* Without faults a PENDING confirmation has its enqueue call or a job to come.
THEOREM PendingHasJob == Spec => []PendingIsCarried
<1>1. IInv => PendingIsCarried
  BY DEF IInv
<1> QED
  BY InductiveInvariant, <1>1, PTL

(***************************************************************************)
(* The life of a confirmation                                              *)
(***************************************************************************)

\* An enqueue call, a sweep or a job has row l in hand.
Carried(l) == l \in toEnqueue \cup batch \/ \E j \in Jobs : Live(j) /\ job[j].log = l

\* Only rows that were inserted are carried.
CarriedExist == \A l \in BookingLogs : Carried(l) => status[l] # "ABSENT"

\* What a step may do to the life of row l: nothing, insert it, or anything while
\* it is due; and nobody comes to carry a row that is not there.
LifeStep(l) ==
    /\ Carried(l)' => status'[l] # "ABSENT"
    /\ \/ status[l] = "ABSENT" /\ status'[l] \in {"ABSENT", "PENDING"}
       \/ status[l] # "ABSENT" /\ status'[l] # "ABSENT" /\ Due(l)
       \/ /\ status[l] # "ABSENT" /\ status'[l] = status[l] /\ deliveries'[l] = deliveries[l]
          /\ ~Due(l)'

\* A step of one slot: who is newly carried was due, and only a job writes to the
\* row and sends for it.
LEMMA SlotLife ==
    ASSUME CarriedExist, NEW l \in BookingLogs, NEW j \in Jobs,
           \A k \in Jobs \ {j} : job'[k] = job[k],
           job'[j].state # "none" /\ job'[j].log = l => Due(l),
           l \in toEnqueue' \cup batch' => l \in toEnqueue \cup batch,
           \/ status'[l] = status[l] /\ deliveries'[l] = deliveries[l]
           \/ Live(j) /\ job[j].log = l /\ status'[l] # "ABSENT"
    PROVE  LifeStep(l)
<1>1. Due(l) <=> status[l] = "PENDING" \/ Carried(l)
  BY DEF Due, Carried
<1>2. Due(l) => status[l] # "ABSENT"
  BY <1>1 DEF CarriedExist
<1>3. Carried(l)' => Due(l)
  <2>1. ASSUME NEW k \in Jobs, job'[k].state # "none", job'[k].log = l PROVE Due(l)
    BY <2>1 DEF Due, Live
  <2> QED
    BY <2>1 DEF Carried, Due, Live
<1>4. Due(l)' <=> status'[l] = "PENDING" \/ Carried(l)'
  BY DEF Due, Carried
<1>5. CASE status'[l] = status[l] /\ deliveries'[l] = deliveries[l]
  BY <1>1, <1>2, <1>3, <1>4, <1>5 DEF LifeStep
<1>6. CASE Live(j) /\ job[j].log = l /\ status'[l] # "ABSENT"
  BY <1>2, <1>6 DEF LifeStep, Due
<1> QED
  BY <1>5, <1>6

\* The worker writes only to the row of its job, if that is a booking's.
LEMMA WrittenIsOwn ==
    ASSUME IInv, NEW l \in BookingLogs, NEW j \in Jobs,
           job[j].step # "idle", job[j].current = l
    PROVE  Live(j) /\ job[j].log = l
BY LogsDistinct DEF IInv, RowsInHand, InHand, Live, Logs

\* The ways an attempt goes on or ends leave the other slots alone and the row in
\* its slot, or free it.
LEMMA SlotOperations ==
    ASSUME IInv, NEW j \in Jobs, NEW s, GotoStep(j, s) \/ JobSucceeds(j) \/ JobFails(j)
    PROVE  /\ \A k \in Jobs \ {j} : job'[k] = job[k]
           /\ job'[j].state # "none" => job'[j].log = job[j].log
<1>1. job[j] \in JobRecords /\ job \in [Jobs -> JobRecords] /\ NoJob.state = "none"
  BY DEF IInv, TypeOK, NoJob
<1>2. CASE GotoStep(j, s)
  BY <1>1, <1>2 DEF GotoStep, JobRecords
<1>3. CASE JobSucceeds(j)
  BY <1>1, <1>3 DEF JobSucceeds
<1>4. CASE JobFails(j)
  <2>1. CASE CurrentAttempt(j) < MAX_ATTEMPTS
    BY <1>1, <1>4, <2>1 DEF JobFails, JobRecords
  <2>2. CASE ~(CurrentAttempt(j) < MAX_ATTEMPTS)
    BY <1>1, <1>4, <2>2 DEF JobFails
  <2> QED
    BY <2>1, <2>2
<1> QED
  BY <1>2, <1>3, <1>4

\* The slot of a job keeps its row until it is free.
LEMMA WorkerSlot ==
    ASSUME IInv, NEW j \in Jobs, Take(j) \/ Work(j) \/ Promote(j)
    PROVE  /\ \A k \in Jobs \ {j} : job'[k] = job[k]
           /\ Live(j) /\ (job'[j].state # "none" => job'[j].log = job[j].log)
           /\ UNCHANGED <<toEnqueue, batch>>
<1>1. job[j] \in JobRecords /\ job \in [Jobs -> JobRecords] /\ NoJob.state = "none"
  BY DEF IInv, TypeOK, NoJob
<1>2. job[j].step # "idle" => Live(j)
  BY DEF IInv, RowsInHand, InHand, Live
<1>3. CASE Take(j) \/ Promote(j)
  BY <1>1, <1>3 DEF Take, Promote, JobRecords, Live
<1>4. CASE Prepare(j)
  BY <1>2, <1>4, SlotOperations DEF Prepare
<1>5. CASE CreateLog(j)
  BY <1>1, <1>2, <1>5 DEF CreateLog, GotoStep, JobRecords
<1>6. CASE SendAccepted(j) \/ SendFails(j)
  BY <1>2, <1>6, SlotOperations DEF SendAccepted, SendFails
<1>7. CASE MarkSent(j) \/ MarkFailed(j)
  BY <1>2, <1>7, SlotOperations DEF MarkSent, MarkFailed
<1> QED
  BY <1>3, <1>4, <1>5, <1>6, <1>7 DEF Work

\* It changes a booking's row, and sends for it, only as the row's own job.
LEMMA WorkerRow ==
    ASSUME IInv, NEW j \in Jobs, Take(j) \/ Work(j) \/ Promote(j), NEW l \in BookingLogs
    PROVE  \/ status'[l] = status[l] /\ deliveries'[l] = deliveries[l]
           \/ Live(j) /\ job[j].log = l /\ status'[l] \in {status[l], "SENT", "FAILED", "PENDING"}
<1>1. /\ status \in [Logs -> Statuses] /\ deliveries \in [Logs -> 0..DeliveryCap] /\ l \in Logs
      /\ l \notin WorkerLogs
  BY LogsDistinct DEF IInv, TypeOK, Logs
<1>2. CASE Take(j) \/ Promote(j) \/ Prepare(j)
  BY <1>2 DEF Take, Promote, Prepare, logVars
<1>3. CASE CreateLog(j)
  BY <1>1, <1>3 DEF CreateLog
<1>4. CASE SendAccepted(j) \/ SendFails(j)
  <2>1. UNCHANGED status /\ job[j].step = "send"
    BY <1>4 DEF SendAccepted, SendFails, logVars
  <2>2. job[j].current # l => deliveries'[l] = deliveries[l]
    BY <1>1, <1>4 DEF SendAccepted, SendFails, CountDelivery
  <2> QED
    BY <2>1, <2>2, WrittenIsOwn
<1>5. CASE MarkSent(j) \/ MarkFailed(j)
  <2>1. UNCHANGED deliveries /\ job[j].step \in {"markSent", "markFailed"}
    BY <1>5 DEF MarkSent, MarkFailed
  <2>2. \/ status'[l] = status[l]
        \/ job[j].current = l /\ status'[l] \in {"SENT", "FAILED", "PENDING"}
    BY <1>1, <1>5 DEF MarkSent, MarkFailed
  <2> QED
    BY <2>1, <2>2, WrittenIsOwn
<1> QED
  BY <1>2, <1>3, <1>4, <1>5 DEF Work

LEMMA WorkerLife ==
    ASSUME IInv, CarriedExist, NEW j \in Jobs, Take(j) \/ Work(j) \/ Promote(j),
           NEW l \in BookingLogs
    PROVE  LifeStep(l)
<1>1. /\ \A k \in Jobs \ {j} : job'[k] = job[k]
      /\ Live(j) /\ (job'[j].state # "none" => job'[j].log = job[j].log)
      /\ UNCHANGED <<toEnqueue, batch>>
  BY WorkerSlot
<1>2. job[j].log = l => status[l] # "ABSENT" /\ Due(l)
  BY <1>1 DEF CarriedExist, Carried, Due
<1>3. \/ status'[l] = status[l] /\ deliveries'[l] = deliveries[l]
      \/ Live(j) /\ job[j].log = l /\ status'[l] # "ABSENT"
  BY <1>2, WorkerRow
<1> QED
  BY <1>1, <1>2, <1>3, SlotLife

\* The calls that add a job add it for a row they had in hand, or for none.
LEMMA ProducerLife ==
    ASSUME IInv, CarriedExist, NEW l \in BookingLogs,
           \/ \E k \in Logs : Enqueue(k) \/ SweepHandle(k)
           \/ EnqueueBroadcast
    PROVE  LifeStep(l)
<1>1. /\ UNCHANGED <<status, deliveries>>
      /\ toEnqueue' \subseteq toEnqueue /\ batch' \subseteq batch
  BY DEF Enqueue, SweepHandle, EnqueueBroadcast, logVars
<1>2. ASSUME NEW l0, l0 = l => Due(l), AddJob(l0) PROVE LifeStep(l)
  <2>1. PICK j \in FreeSlots :
           job' = [job EXCEPT ![j] = [NoJob EXCEPT !.state = "waiting", !.log = l0]]
    BY <1>2 DEF AddJob
  <2>2. /\ j \in Jobs /\ job'[j].log = l0
        /\ \A k \in Jobs \ {j} : job'[k] = job[k]
    BY <2>1 DEF FreeSlots, IInv, TypeOK, NoJob
  <2> QED
    BY <1>1, <1>2, <2>2, SlotLife
<1>3. ASSUME UNCHANGED job PROVE LifeStep(l)
  <2>1. Carried(l)' => Carried(l)
    BY <1>1, <1>3 DEF Carried, Live
  <2> QED
    BY <1>1, <2>1, <1>3 DEF LifeStep, CarriedExist, Carried, Due, Live, IInv, TypeOK
<1>4. ASSUME NEW k \in Logs, Enqueue(k) \/ SweepHandle(k) PROVE LifeStep(l)
  <2>1. Due(k)
    BY <1>4 DEF Enqueue, SweepHandle, Due
  <2> QED
    BY <1>2, <1>3, <1>4, <2>1 DEF Enqueue, SweepHandle
<1>5. ASSUME EnqueueBroadcast PROVE LifeStep(l)
  <2>1. l # NoLog
    BY LogsDistinct DEF Logs
  <2> QED
    BY <1>2, <1>5, <2>1 DEF EnqueueBroadcast
<1> QED
  BY <1>4, <1>5

\* Inserting a row makes it due; ageing changes no life, and a sweep reads only
\* rows that are due.
LEMMA RowsLife ==
    ASSUME IInv, CarriedExist, NEW l \in BookingLogs,
           \/ \E k \in Logs : InsertOutboxRow(k) \/ Age(k)
           \/ SweepRead \/ UNCHANGED vars
    PROVE  LifeStep(l)
<1>1. l \in Logs /\ UNCHANGED <<job, deliveries>>
  BY DEF Logs, InsertOutboxRow, Age, SweepRead, vars
<1>2. ASSUME NEW k \in Logs, InsertOutboxRow(k) PROVE LifeStep(l)
  <2>1. /\ status[k] = "ABSENT" /\ UNCHANGED batch /\ toEnqueue' = toEnqueue \cup {k}
        /\ status' = [status EXCEPT ![k] = "PENDING"]
    BY <1>2 DEF InsertOutboxRow
  <2>2. CASE k = l
    BY <1>1, <2>1, <2>2 DEF LifeStep, IInv, TypeOK
  <2>3. CASE k # l
    <3>1. status'[l] = status[l] /\ (Carried(l)' <=> Carried(l))
      BY <1>1, <2>1, <2>3 DEF Carried, Live, IInv, TypeOK
    <3> QED
      BY <1>1, <2>3, <3>1 DEF LifeStep, CarriedExist, Carried, Due, Live, IInv, TypeOK
  <2> QED
    BY <2>2, <2>3
<1>3. ASSUME (\E k \in Logs : Age(k)) \/ UNCHANGED vars PROVE LifeStep(l)
  BY <1>1, <1>3 DEF Age, vars, logVars, LifeStep, CarriedExist, Carried, Due, Live, IInv, TypeOK
<1>4. ASSUME SweepRead PROVE LifeStep(l)
  <2>1. /\ UNCHANGED <<status, toEnqueue>>
        /\ \A k \in batch' : k \in batch \/ status[k] = "PENDING"
    BY <1>4 DEF SweepRead, Sweepable, logVars
  <2>2. Carried(l)' => Due(l)
    BY <1>1, <2>1 DEF Carried, Due, Live
  <2> QED
    BY <1>1, <2>1, <2>2 DEF LifeStep, CarriedExist, Carried, Due, Live, IInv, TypeOK
<1> QED
  BY <1>2, <1>3, <1>4

\* A crash makes nobody carried who was not.
LEMMA CrashLife ==
    ASSUME IInv, CarriedExist, NEW l \in BookingLogs, Crash
    PROVE  LifeStep(l)
<1>1. UNCHANGED <<status, deliveries>> /\ toEnqueue' = {} /\ batch' = {}
  BY DEF Crash, logVars
<1>2. \A j \in Jobs : job'[j].state # "none" => Live(j) /\ job'[j].log = job[j].log
  BY DEF Crash, Active, Live, NoJob, IInv, TypeOK, JobRecords
<1>3. Carried(l)' => Carried(l)
  BY <1>1, <1>2 DEF Carried, Live
<1> QED
  BY <1>1, <1>3 DEF LifeStep, CarriedExist, Carried, Due, IInv, TypeOK, Live

\* Every step is a step in the life of every confirmation.
LEMMA EveryLife ==
    ASSUME IInv, CarriedExist, [Next]_vars, NEW l \in BookingLogs
    PROVE  LifeStep(l)
<1>1. CASE \E j \in Jobs : Take(j) \/ Work(j) \/ Promote(j)
  BY <1>1, WorkerLife
<1>2. CASE \E k \in Logs : InsertOutboxRow(k) \/ Enqueue(k) \/ Age(k) \/ SweepHandle(k)
  BY <1>2, ProducerLife, RowsLife
<1>3. CASE EnqueueBroadcast \/ SweepRead \/ Crash \/ UNCHANGED vars
  BY <1>3, ProducerLife, RowsLife, CrashLife
<1> QED
  BY <1>1, <1>2, <1>3 DEF Next

\* Settled is for good: the pipeline implements the life of a confirmation.
THEOREM SettledForGood == Spec => ImplementsLife
<1>1. Init => CarriedExist
  BY DEF Init, CarriedExist, Carried, Live, NoJob
<1>2. IInv /\ CarriedExist /\ [Next]_vars => CarriedExist'
  BY EveryLife DEF CarriedExist, LifeStep
<1>3. Init => Life!Init
  BY DEF Init, Life!Init, LifeOf, Logs
<1>4. IInv /\ CarriedExist /\ [Next]_vars => [Life!Next]_([l \in BookingLogs |-> LifeOf(l)])
  <2> SUFFICES ASSUME IInv, CarriedExist, [Next]_vars,
                      NEW l \in BookingLogs
               PROVE  \/ LifeOf(l) = "none" /\ LifeOf(l)' = "due"
                      \/ LifeOf(l) = "due" /\ LifeOf(l)' \in {"sent", "lost"}
                      \/ LifeOf(l)' = LifeOf(l)
    BY DEF Life!Next, Life!FallsDue, Life!Settles
  <2>1. LifeStep(l)
    BY EveryLife
  <2>2. status[l] = "ABSENT" => ~Due(l)
    BY DEF CarriedExist, Carried, Due
  <2>3. status'[l] = "PENDING" => Due(l)'
    BY DEF Due
  <2>4. CASE status[l] = "ABSENT"
    BY <2>1, <2>3, <2>4 DEF LifeStep, LifeOf
  <2>5. CASE status[l] # "ABSENT" /\ Due(l)
    BY <2>1, <2>5 DEF LifeStep, LifeOf
  <2>6. CASE status[l] # "ABSENT" /\ ~Due(l)
    BY <2>1, <2>6 DEF LifeStep, LifeOf
  <2> QED
    BY <2>4, <2>5, <2>6
<1> QED
  BY <1>1, <1>2, <1>3, <1>4, InductiveInvariant, PTL DEF Spec, ImplementsLife, Life!Spec
================================================================================
