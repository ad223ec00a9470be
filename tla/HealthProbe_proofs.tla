--------------------------- MODULE HealthProbe_proofs ----------------------------
(***************************************************************************)
(* Proofs about HealthProbe, for any number of probes and workers and any  *)
(* TTL of the heartbeat.  A probe reads its services one after the other;  *)
(* the invariant is IInv: each flag it has set is witnessed by a moment,   *)
(* since the probe began, at which the service was as the flag says.       *)
(***************************************************************************)
EXTENDS HealthProbe, TLAPS

\* Up is a set of services; the database and Redis are in it when they are up.
LEMMA UpServices ==
    /\ Up \subseteq Services
    /\ "db" \in Up <=> db = "up"
    /\ "redis" \in Up <=> redis = "up"
BY DEF Up, Services

\* Watching keeps the histories well typed, adds the present to those of the
\* probes at work and leaves those of the answered ones as they are.
LEMMA WatchRecords ==
    ASSUME TypeOK, Watch
    PROVE  /\ failed' \in [Probes -> SUBSET Services]
           /\ shown' \in [Probes -> SUBSET Services]
           /\ \A p \in Probes : pc'[p] # "idle" =>
                 failed[p] \subseteq failed'[p] /\ shown[p] \subseteq shown'[p]
           /\ \A p \in Probes : pc'[p] \notin {"idle", "done"} =>
                 Up' \subseteq shown'[p] /\ (Services \ Up') \subseteq failed'[p]
<1>1. Up' \subseteq Services
  BY UpServices DEF Up, Services
<1> QED
  BY <1>1 DEF TypeOK, Watch

\* What happens to the services and the workers moves no probe.
LEMMA EnvironmentKeeps ==
    ASSUME IInv, TypeOK', Watch, UNCHANGED probeVars
    PROVE  IInv'
<1>1. Witnessed("db", dbHealthy, {"redis", "queue", "worker", "done"})'
  BY WatchRecords DEF IInv, Witnessed, probeVars
<1>2. Witnessed("redis", redisHealthy, {"queue", "worker", "done"})'
  BY WatchRecords DEF IInv, Witnessed, probeVars
<1> QED
  BY <1>1, <1>2 DEF IInv

\* The services and the workers keep the invariant.
LEMMA ServicesKeep ==
    ASSUME IInv, DatabaseTurns \/ RedisTurns \/ Interval
    PROVE  IInv'
<1>1. TypeOK /\ Watch /\ UNCHANGED probeVars
  BY DEF IInv, DatabaseTurns, RedisTurns, Interval
<1>2. TypeOK'
  BY <1>1, WatchRecords, TtlPositive
     DEF TypeOK, DatabaseTurns, RedisTurns, Interval, probeVars, workerVars
<1> QED
  BY <1>1, <1>2, EnvironmentKeeps

\* So do the workers.
LEMMA WorkersKeep ==
    ASSUME IInv, NEW w \in Workers,
           StartWorker(w) \/ EmitHeartbeat(w) \/ Stop(w) \/ DeleteHeartbeat(w) \/ Exit(w)
    PROVE  IInv'
<1>1. TypeOK /\ Watch /\ UNCHANGED probeVars
  BY DEF IInv, StartWorker, EmitHeartbeat, Stop, DeleteHeartbeat, Exit
<1>2. TypeOK'
  BY <1>1, WatchRecords, TtlPositive
     DEF TypeOK, StartWorker, EmitHeartbeat, Stop, DeleteHeartbeat, Exit, probeVars, workerVars
<1> QED
  BY <1>1, <1>2, EnvironmentKeeps

\* A probe that arrives has read nothing.
LEMMA ArriveKeeps ==
    ASSUME IInv, NEW p \in Probes, Arrive(p)
    PROVE  IInv'
<1>1. TypeOK /\ Watch
  BY DEF IInv, Arrive
<1>2. TypeOK'
  BY <1>1, WatchRecords DEF TypeOK, Arrive, Read, workerVars
<1>3. Witnessed("db", dbHealthy, {"redis", "queue", "worker", "done"})'
  <2>1. /\ dbHealthy' = dbHealthy
        /\ \A q \in Probes : pc'[q] \in {"redis", "queue", "worker", "done"} => pc[q] \in {"redis", "queue", "worker", "done"}
    BY <1>1 DEF TypeOK, Arrive, Read
  <2> QED
    BY <1>1, <2>1, WatchRecords DEF IInv, Witnessed
<1>4. Witnessed("redis", redisHealthy, {"queue", "worker", "done"})'
  <2>1. /\ redisHealthy' = redisHealthy
        /\ \A q \in Probes : pc'[q] \in {"queue", "worker", "done"} => pc[q] \in {"queue", "worker", "done"}
    BY <1>1 DEF TypeOK, Arrive, Read
  <2> QED
    BY <1>1, <2>1, WatchRecords DEF IInv, Witnessed
<1> QED
  BY <1>2, <1>3, <1>4 DEF IInv

\* The query's result is that of the database as it is.
LEMMA SelectKeeps ==
    ASSUME IInv, NEW p \in Probes, Select(p)
    PROVE  IInv'
<1>1. TypeOK /\ Watch
  BY DEF IInv, Select
<1>2. TypeOK'
  BY <1>1, WatchRecords DEF TypeOK, Select, Read, workerVars
<1>3. Witnessed("db", dbHealthy, {"redis", "queue", "worker", "done"})'
  <2> SUFFICES ASSUME NEW q \in Probes, pc'[q] \in {"redis", "queue", "worker", "done"}
               PROVE  IF dbHealthy'[q] THEN "db" \in shown'[q] ELSE "db" \in failed'[q]
    BY DEF Witnessed
  <2>1. CASE q = p
    <3>1. dbHealthy'[p] = (db' = "up") /\ pc'[p] = "redis"
      BY <1>1 DEF Select, Read, TypeOK
    <3>2. "db" \in Up' <=> db' = "up"
      BY DEF Up, Services
    <3>3. Up' \subseteq shown'[p] /\ (Services \ Up') \subseteq failed'[p]
      BY <1>1, <3>1, WatchRecords
    <3> QED
      BY <2>1, <3>1, <3>2, <3>3 DEF Services
  <2>2. CASE q # p
    <3>1. dbHealthy'[q] = dbHealthy[q] /\ pc'[q] = pc[q]
      BY <1>1, <2>2 DEF Select, Read, TypeOK
    <3> QED
      BY <1>1, <3>1, WatchRecords DEF IInv, Witnessed
  <2> QED
    BY <2>1, <2>2
<1>4. Witnessed("redis", redisHealthy, {"queue", "worker", "done"})'
  <2>1. /\ redisHealthy' = redisHealthy
        /\ \A q \in Probes : pc'[q] \in {"queue", "worker", "done"} => pc[q] \in {"queue", "worker", "done"}
    BY <1>1 DEF TypeOK, Select, Read
  <2> QED
    BY <1>1, <2>1, WatchRecords DEF IInv, Witnessed
<1> QED
  BY <1>2, <1>3, <1>4 DEF IInv

\* The ping's result is that of Redis as it is.
LEMMA PingKeeps ==
    ASSUME IInv, NEW p \in Probes, Ping(p)
    PROVE  IInv'
<1>1. TypeOK /\ Watch
  BY DEF IInv, Ping
<1>2. TypeOK'
  BY <1>1, WatchRecords DEF TypeOK, Ping, Read, workerVars
<1>3. Witnessed("db", dbHealthy, {"redis", "queue", "worker", "done"})'
  <2>1. /\ dbHealthy' = dbHealthy
        /\ \A q \in Probes : pc'[q] \in {"redis", "queue", "worker", "done"} => pc[q] \in {"redis", "queue", "worker", "done"}
    BY <1>1 DEF TypeOK, Ping, Read
  <2> QED
    BY <1>1, <2>1, WatchRecords DEF IInv, Witnessed
<1>4. Witnessed("redis", redisHealthy, {"queue", "worker", "done"})'
  <2> SUFFICES ASSUME NEW q \in Probes, pc'[q] \in {"queue", "worker", "done"}
               PROVE  IF redisHealthy'[q] THEN "redis" \in shown'[q] ELSE "redis" \in failed'[q]
    BY DEF Witnessed
  <2>1. CASE q = p
    <3>1. redisHealthy'[p] = (redis' = "up") /\ pc'[p] = "queue"
      BY <1>1 DEF Ping, Read, TypeOK
    <3>2. "redis" \in Up' <=> redis' = "up"
      BY DEF Up, Services
    <3>3. Up' \subseteq shown'[p] /\ (Services \ Up') \subseteq failed'[p]
      BY <1>1, <3>1, WatchRecords
    <3> QED
      BY <2>1, <3>1, <3>2, <3>3 DEF Services
  <2>2. CASE q # p
    <3>1. redisHealthy'[q] = redisHealthy[q] /\ pc'[q] = pc[q]
      BY <1>1, <2>2 DEF Ping, Read, TypeOK
    <3> QED
      BY <1>1, <3>1, WatchRecords DEF IInv, Witnessed
  <2> QED
    BY <2>1, <2>2
<1> QED
  BY <1>2, <1>3, <1>4 DEF IInv

\* The last two reads leave what the first two found.
LEMMA LaterReadsKeep ==
    ASSUME IInv, NEW p \in Probes, AskQueue(p) \/ GetHeartbeat(p)
    PROVE  IInv'
<1>1. TypeOK /\ Watch
  BY DEF IInv, AskQueue, GetHeartbeat
<1>2. TypeOK'
  <2>1. CASE AskQueue(p)
    BY <1>1, <2>1, WatchRecords DEF TypeOK, AskQueue, Read, workerVars
  <2>2. CASE GetHeartbeat(p)
    BY <1>1, <2>2, WatchRecords DEF TypeOK, GetHeartbeat, Read, workerVars
  <2> QED
    BY <2>1, <2>2
<1>3. Witnessed("db", dbHealthy, {"redis", "queue", "worker", "done"})'
  <2>1. /\ dbHealthy' = dbHealthy
        /\ \A q \in Probes : pc'[q] \in {"redis", "queue", "worker", "done"} => pc[q] \in {"redis", "queue", "worker", "done"}
    BY <1>1 DEF TypeOK, AskQueue, GetHeartbeat, Read
  <2> QED
    BY <1>1, <2>1, WatchRecords DEF IInv, Witnessed
<1>4. Witnessed("redis", redisHealthy, {"queue", "worker", "done"})'
  <2>1. /\ redisHealthy' = redisHealthy
        /\ \A q \in Probes : pc'[q] \in {"queue", "worker", "done"} => pc[q] \in {"queue", "worker", "done"}
    BY <1>1 DEF TypeOK, AskQueue, GetHeartbeat, Read
  <2> QED
    BY <1>1, <2>1, WatchRecords DEF IInv, Witnessed
<1> QED
  BY <1>2, <1>3, <1>4 DEF IInv

--------------------------------------------------------------------------------
\* In every reachable state each flag a probe has set is witnessed by a moment
\* since the probe began.
THEOREM InductiveInvariant == Spec => []IInv
<1>1. Init => IInv
  BY TtlPositive DEF Init, IInv, TypeOK, Witnessed, None, Services
<1>2. IInv /\ [Next]_vars => IInv'
  <2> SUFFICES ASSUME IInv, [Next]_vars
               PROVE  IInv'
    OBVIOUS
  <2>1. CASE Next
    BY <2>1, ServicesKeep, WorkersKeep, ArriveKeeps, SelectKeeps, PingKeeps, LaterReadsKeep
       DEF Next, ProbeStep
  <2>2. CASE UNCHANGED vars
    BY <2>2 DEF IInv, TypeOK, Witnessed, vars, workerVars, probeVars
  <2> QED
    BY <2>1, <2>2
<1> QED
  BY <1>1, <1>2, PTL DEF Spec

\* 503 is never the fault of a queue or a worker alone: the database or Redis was
\* out of order at some time while the probe ran.
THEOREM FalseAlarmImpossible == Spec => []NoFalseAlarm
<1>1. IInv => NoFalseAlarm
  BY DEF IInv, Witnessed, NoFalseAlarm, Answered, HttpStatus
<1> QED
  BY <1>1, InductiveInvariant, PTL

\* "healthy" means that the database and Redis each were in order at some time
\* while the probe ran.
THEOREM HealthyIsTrue == Spec => []HealthyWasTrue
<1>1. IInv => HealthyWasTrue
  <2> SUFFICES ASSUME IInv, NEW p \in Probes, Answered(p), OverallStatus(p) = "healthy"
               PROVE  shown[p] = Services
    BY DEF HealthyWasTrue
  <2>1. "db" \in shown[p] /\ "redis" \in shown[p]
    BY DEF IInv, Witnessed, Answered, OverallStatus, HttpStatus
  <2>2. shown[p] \subseteq Services
    BY DEF IInv, TypeOK
  <2> QED
    BY <2>1, <2>2 DEF Services
<1> QED
  BY <1>1, InductiveInvariant, PTL
================================================================================
