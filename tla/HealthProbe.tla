------------------------------- MODULE HealthProbe -------------------------------
(***************************************************************************)
(* GET /health of health.routes.ts: four reads, one after the other, while *)
(* PostgreSQL and Redis come and go and worker processes start, beat their *)
(* heartbeat into one shared key, stop and die (emailWorker.ts).           *)
(*                                                                         *)
(* The Redis client has no bound on retries (maxRetriesPerRequest: null):  *)
(* a command sent while Redis is down waits for it; it is rejected only by *)
(* an error reply, as of a server that is loading its data.                *)
(***************************************************************************)
EXTENDS Naturals

CONSTANTS Probes,
          Workers,
          InProcess,        \* those that run in a server's process (START_WORKER)
          HEARTBEAT_TTL     \* the key's TTL, in heartbeat intervals (15s / 5s)

ASSUME InProcessAreWorkers == InProcess \subseteq Workers
ASSUME TtlPositive == HEARTBEAT_TTL \in Nat \ {0}

VARIABLES
    db,         \* up, down
    redis,      \* up, down, or answering with errors
    ttl,        \* intervals until the heartbeat key expires, 0 if there is none
    worker,     \* off, running, deleting, closing
    beaten,     \* workers whose timer has fired in this interval
    pc,         \* the read each probe is at
    dbHealthy, redisHealthy, queueHealthy, workerAlive,
    failed,     \* history: what was not up at some time since the probe began
    shown       \* history: what was up at some time since the probe began

probeVars == <<pc, dbHealthy, redisHealthy, queueHealthy, workerAlive>>
workerVars == <<ttl, worker, beaten>>
vars == <<db, redis, workerVars, probeVars, failed, shown>>

None == [p \in Probes |-> FALSE]

\* Those whose failure is answered with 503.
Services == {"db", "redis"}

Init == /\ db = "up" /\ redis = "up"
        /\ ttl = 0
        /\ worker = [w \in Workers |-> "off"]
        /\ beaten = {}
        /\ pc = [p \in Probes |-> "idle"]
        /\ dbHealthy = None /\ redisHealthy = None
        /\ queueHealthy = None /\ workerAlive = None
        /\ failed = [p \in Probes |-> {}]
        /\ shown = [p \in Probes |-> {}]

Up == {s \in Services : IF s = "db" THEN db = "up" ELSE redis = "up"}

\* What probes at work have lived through, with every step.
Watch == /\ failed' = [p \in Probes |-> IF pc'[p] = "done" THEN failed[p]
                                        ELSE IF pc'[p] = "idle" THEN {}
                                        ELSE failed[p] \cup (Services \ Up')]
         /\ shown' = [p \in Probes |-> IF pc'[p] = "done" THEN shown[p]
                                       ELSE IF pc'[p] = "idle" THEN {}
                                       ELSE shown[p] \cup Up']

--------------------------------------------------------------------------------
(* The services *)

DatabaseTurns == /\ db' = IF db = "up" THEN "down" ELSE "up"
                 /\ UNCHANGED <<redis, workerVars, probeVars>>
                 /\ Watch

\* A Redis that went down may have lost its keys.
RedisTurns == /\ redis' \in {"up", "down", "error"} \ {redis}
              /\ ttl' \in IF redis' = "down" THEN {ttl, 0} ELSE {ttl}
              /\ UNCHANGED <<db, worker, beaten, probeVars>>
              /\ Watch

--------------------------------------------------------------------------------
(* The workers *)

\* Only a worker that was started by itself has a heartbeat.
Beating == {w \in Workers \ InProcess : worker[w] = "running"}

StartWorker(w) ==
    /\ worker[w] = "off"
    /\ worker' = [worker EXCEPT ![w] = "running"]
    /\ UNCHANGED <<db, redis, ttl, beaten, probeVars>>
    /\ Watch

\* Defect: the key is set without EX.
HeartbeatForEver(w) ==
    /\ w \in Beating /\ redis # "down"
    /\ ttl' = IF redis = "up" THEN HEARTBEAT_TTL + 1 ELSE ttl
    /\ beaten' = beaten \cup {w}
    /\ UNCHANGED <<db, redis, worker, probeVars>>
    /\ Watch

\* emitHeartbeat: an error is logged.
EmitHeartbeat(w) ==
    /\ w \in Beating /\ redis # "down"
    /\ ttl' = IF redis = "up" THEN HEARTBEAT_TTL ELSE ttl
    /\ beaten' = beaten \cup {w}
    /\ UNCHANGED <<db, redis, worker, probeVars>>
    /\ Watch

\* The interval ends once every timer has fired.  (HEARTBEAT_TTL + 1 never runs
\* out: the key of a defect.)
Interval ==
    /\ redis = "up" => Beating \subseteq beaten
    /\ ttl' = IF ttl \in 1..HEARTBEAT_TTL THEN ttl - 1 ELSE ttl
    /\ beaten' = {}
    /\ UNCHANGED <<db, redis, worker, probeVars>>
    /\ Watch

\* The signal handler of a worker process: the timer is cleared, then the key all
\* workers share is deleted (its error is swallowed), then the worker closed.  A
\* server only closes its worker.
Stop(w) ==
    /\ worker[w] = "running"
    /\ worker' = [worker EXCEPT ![w] = IF w \in InProcess THEN "closing" ELSE "deleting"]
    /\ UNCHANGED <<db, redis, ttl, beaten, probeVars>>
    /\ Watch

DeleteHeartbeat(w) ==
    /\ worker[w] = "deleting" /\ redis # "down"
    /\ ttl' = IF redis = "up" THEN 0 ELSE ttl
    /\ worker' = [worker EXCEPT ![w] = "closing"]
    /\ UNCHANGED <<db, redis, beaten, probeVars>>
    /\ Watch

\* The worker is closed, or the process dies before.
Exit(w) ==
    /\ worker[w] # "off"
    /\ worker' = [worker EXCEPT ![w] = "off"]
    /\ UNCHANGED <<db, redis, ttl, beaten, probeVars>>
    /\ Watch

--------------------------------------------------------------------------------
(* The probe *)

Read(p, from, to) == pc[p] = from /\ pc' = [pc EXCEPT ![p] = to]

Arrive(p) ==
    /\ Read(p, "idle", "database")
    /\ UNCHANGED <<db, redis, workerVars, dbHealthy, redisHealthy, queueHealthy, workerAlive>>
    /\ Watch

\* Defect: an error of the query leaves what an earlier probe found.
SelectStale(p) ==
    /\ Read(p, "database", "redis")
    /\ dbHealthy' = [dbHealthy EXCEPT ![p] = TRUE]
    /\ UNCHANGED <<db, redis, workerVars, redisHealthy, queueHealthy, workerAlive>>
    /\ Watch

\* SELECT 1
Select(p) ==
    /\ Read(p, "database", "redis")
    /\ dbHealthy' = [dbHealthy EXCEPT ![p] = (db = "up")]
    /\ UNCHANGED <<db, redis, workerVars, redisHealthy, queueHealthy, workerAlive>>
    /\ Watch

\* Defect: an error reply does not settle the command.
PingUnsettled(p) ==
    /\ Read(p, "redis", "queue")
    /\ redis = "up"
    /\ redisHealthy' = [redisHealthy EXCEPT ![p] = TRUE]
    /\ UNCHANGED <<db, redis, workerVars, dbHealthy, queueHealthy, workerAlive>>
    /\ Watch

\* checkRedisHealth
Ping(p) ==
    /\ Read(p, "redis", "queue")
    /\ redis # "down"
    /\ redisHealthy' = [redisHealthy EXCEPT ![p] = (redis = "up")]
    /\ UNCHANGED <<db, redis, workerVars, dbHealthy, queueHealthy, workerAlive>>
    /\ Watch

\* isPaused; nothing pauses the queue.
AskQueue(p) ==
    /\ Read(p, "queue", "worker")
    /\ redis # "down"
    /\ queueHealthy' = [queueHealthy EXCEPT ![p] = (redis = "up")]
    /\ UNCHANGED <<db, redis, workerVars, dbHealthy, redisHealthy, workerAlive>>
    /\ Watch

\* The heartbeat is read and the probe answered.
GetHeartbeat(p) ==
    /\ Read(p, "worker", "done")
    /\ redis # "down"
    /\ workerAlive' = [workerAlive EXCEPT ![p] = (redis = "up" /\ ttl > 0)]
    /\ UNCHANGED <<db, redis, workerVars, dbHealthy, redisHealthy, queueHealthy>>
    /\ Watch

\* Defect: the queue and the worker are critical, too.
HttpStatusStrict(p) ==
    IF dbHealthy[p] /\ redisHealthy[p] /\ queueHealthy[p] /\ workerAlive[p] THEN 200 ELSE 503

HttpStatus(p) == IF dbHealthy[p] /\ redisHealthy[p] THEN 200 ELSE 503

OverallStatus(p) ==
    IF HttpStatus(p) = 503 THEN "unhealthy" ELSE IF queueHealthy[p] THEN "healthy" ELSE "degraded"

ProbeStep(p) == Select(p) \/ Ping(p) \/ AskQueue(p) \/ GetHeartbeat(p)

Next == \/ DatabaseTurns \/ RedisTurns \/ Interval
        \/ \E w \in Workers : \/ StartWorker(w) \/ EmitHeartbeat(w) \/ Stop(w)
                              \/ DeleteHeartbeat(w) \/ Exit(w)
        \/ \E p \in Probes : Arrive(p) \/ ProbeStep(p)

Spec == Init /\ [][Next]_vars

\* Timers fire, and a command the client has queued is sent when Redis is back;
\* Redis and the database may stay down.
FairSpec == /\ Spec
            /\ WF_vars(Interval)
            /\ \A p \in Probes : SF_vars(ProbeStep(p))
            /\ \A w \in Workers : WF_vars(EmitHeartbeat(w) /\ w \notin beaten)

--------------------------------------------------------------------------------
(* Properties *)

Answered(p) == pc[p] = "done"

\* "Queue glitch alone -> 200": 503 is answered only if the database or Redis
\* was out of order while the probe ran; a queue or a worker alone never is the cause.
NoFalseAlarm == \A p \in Probes : Answered(p) /\ HttpStatus(p) = 503 => failed[p] # {}

\* "healthy" is answered only if the database and Redis were each in order at
\* some time while the probe ran (not, though, both at one time).
HealthyWasTrue ==
    \A p \in Probes : Answered(p) /\ OverallStatus(p) = "healthy" => shown[p] = Services

\* Once no worker process beats, the heartbeat goes, or another begins to beat.
GoneIsForgotten == Beating = {} ~> ttl = 0 \/ Beating # {}

\* A probe that meets a Redis that is down is answered once Redis comes back,
\* and though it goes down again between any two of the probe's commands.  (While
\* Redis stays down it is not answered at all.)
AnsweredWhenRedisReturns ==
    \A p \in Probes : []<>(redis # "down") => (pc[p] # "idle" ~> Answered(p))

--------------------------------------------------------------------------------
(* The inductive invariant: what a probe has read is what it has lived through *)

\* Every variable has its type.
TypeOK ==
    /\ db \in {"up", "down"} /\ redis \in {"up", "down", "error"}
    /\ ttl \in 0..HEARTBEAT_TTL
    /\ worker \in [Workers -> {"off", "running", "deleting", "closing"}]
    /\ beaten \subseteq Workers
    /\ pc \in [Probes -> {"idle", "database", "redis", "queue", "worker", "done"}]
    /\ \A flag \in {dbHealthy, redisHealthy, queueHealthy, workerAlive} :
          flag \in [Probes -> BOOLEAN]
    /\ failed \in [Probes -> SUBSET Services]
    /\ shown \in [Probes -> SUBSET Services]

\* A flag once read tells of a time when the service was, or was not, in order.
Witnessed(s, flag, labels) ==
    \A p \in Probes : pc[p] \in labels =>
        IF flag[p] THEN s \in shown[p] ELSE s \in failed[p]

IInv == /\ TypeOK
        /\ Witnessed("db", dbHealthy, {"redis", "queue", "worker", "done"})
        /\ Witnessed("redis", redisHealthy, {"queue", "worker", "done"})
================================================================================
