------------------------- MODULE ServerLifecycle_proofs -------------------------
(***************************************************************************)
(* Proofs about ServerLifecycle, for any numbers of connections, jobs and  *)
(* signals.  The invariant is ServerInv: what each shutdown has waited for has  *)
(* ended and cannot begin again, and the clients are open in between.      *)
(***************************************************************************)
EXTENDS ServerLifecycle, TLAPS

USE DEF clientVars, endVars

\* A step of main opens the clients before anything can use them.
LEMMA StartupKeeps ==
    ASSUME ServerInv,
           \/ ConnectDatabase \/ ConnectRedis \/ Listen \/ StartSweep \/ StartEmailWorker
           \/ InstallHandlers
    PROVE  ServerTypeOK' /\ ClientsOpen' /\ Passed'
<1> USE DEF ServerInv
<1>1. /\ stage # "up" /\ \A s \in Signals : shutdown[s] = "none"
      /\ UNCHANGED <<conn, detached, active, endVars>>
  BY DEF Passed, Startup, ConnectDatabase, ConnectRedis, Listen, StartSweep, StartEmailWorker,
         InstallHandlers, workVars
<1>2. Passed'
  BY <1>1 DEF Passed
<1>3. ServerTypeOK'
  <2>1. emailWorker' \in {"off", "running", "closing"}
    BY DEF ServerTypeOK, Startup, ConnectDatabase, ConnectRedis, Listen, StartSweep,
           StartEmailWorker, InstallHandlers, workVars
  <2> QED
    BY <2>1 DEF ServerTypeOK, Stages, Startup, ConnectDatabase, ConnectRedis, Listen,
           StartSweep, StartEmailWorker, InstallHandlers, workVars
<1>4. ClientsOpen'
  <2>1. CASE ConnectDatabase
    BY <1>1, <2>1 DEF ClientsOpen, Startup, ConnectDatabase, workVars
  <2>2. CASE ConnectRedis
    BY <1>1, <2>2 DEF ClientsOpen, Startup, ConnectRedis, workVars, Passed, ServerTypeOK
  <2>3. CASE Listen
    BY <1>1, <2>3 DEF ClientsOpen, Startup, Listen
  <2>4. CASE StartSweep
    BY <1>1, <2>4 DEF ClientsOpen, Startup, StartSweep, workVars
  <2>5. CASE StartEmailWorker
    BY <1>1, <2>5 DEF ClientsOpen, Startup, StartEmailWorker
  <2>6. CASE InstallHandlers
    BY <1>1, <2>6 DEF ClientsOpen, Startup, InstallHandlers, workVars
  <2> QED
    BY <2>1, <2>2, <2>3, <2>4, <2>5, <2>6
<1> QED
  BY <1>2, <1>3, <1>4

\* Connections open only while the server listens, jobs start only while the
\* worker runs.
LEMMA WorkKeeps ==
    ASSUME ServerInv,
           \/ \E c \in Connections : Connect(c) \/ Request(c) \/ Respond(c) \/ HangUp(c)
           \/ SweepTick
           \/ \E k \in detached : DetachedEnds(k)
           \/ \E j \in Jobs : TakeJob(j) \/ FinishJob(j)
    PROVE  ServerTypeOK' /\ ClientsOpen' /\ Passed'
<1> USE DEF ServerInv
<1>1. UNCHANGED <<stage, sweeping, server, emailWorker, clientVars, endVars>>
  BY DEF Connect, Request, Respond, HangUp, SweepTick, DetachedEnds, TakeJob, FinishJob, stageVars
<1>2. ServerTypeOK'
  <2>1. conn' \in [Connections -> {"none", "idle", "busy"}]
    BY DEF ServerTypeOK, Connect, Request, Respond, HangUp, SweepTick, DetachedEnds, TakeJob, FinishJob
  <2>2. detached' \subseteq {"sweep", "enqueue", "handler"} /\ active' \subseteq Jobs
    BY DEF ServerTypeOK, Connect, Request, Respond, HangUp, SweepTick, DetachedEnds, TakeJob, FinishJob
  <2> QED
    BY <1>1, <2>1, <2>2 DEF ServerTypeOK
<1>3. /\ \A c \in Connections : conn'[c] # "none" => conn[c] # "none" \/ server = "listening"
      /\ active' # {} => active # {} \/ emailWorker = "running"
  BY DEF ServerTypeOK, Connect, Request, Respond, HangUp, SweepTick, DetachedEnds, TakeJob, FinishJob
<1>4. ClientsOpen'
  BY <1>1, <1>3 DEF ClientsOpen
<1>5. Passed'
  BY <1>1, <1>3 DEF Passed
<1> QED
  BY <1>2, <1>4, <1>5

\* A shutdown passes an await when what it awaits has come.
LEMMA ShutdownKeeps ==
    ASSUME ServerInv, NEW s \in Signals, Signal(s) \/ ShutdownStep(s)
    PROVE  ServerTypeOK' /\ ClientsOpen' /\ Passed'
<1> USE DEF ServerInv
<1>1. UNCHANGED <<stage, conn, detached, active>> /\ \A t \in Signals : t # s => shutdown'[t] = shutdown[t]
  BY DEF Await, Signal, ShutdownStep, Drained, CloseWorker, JobsDone, DisconnectDatabase,
         DisconnectRedis, ExitCleanly, stageVars, workVars, ServerTypeOK
<1>2. ServerTypeOK'
  <2>1. shutdown' \in [Signals -> Awaits] /\ server' \in {"off", "listening", "closing"}
        /\ emailWorker' \in {"off", "running", "closing"} /\ exit' \in {"none", "0", "1", "killed"}
    BY DEF Await, Signal, ShutdownStep, Drained, CloseWorker, JobsDone, DisconnectDatabase,
           DisconnectRedis, ExitCleanly, stageVars, workVars, ServerTypeOK, Awaits
  <2>2. sweeping' \in BOOLEAN /\ dbOpen' \in BOOLEAN /\ redisOpen' \in BOOLEAN /\ deadline' \in BOOLEAN
    BY DEF Await, Signal, ShutdownStep, Drained, CloseWorker, JobsDone, DisconnectDatabase,
           DisconnectRedis, ExitCleanly, stageVars, workVars, ServerTypeOK
  <2> QED
    BY <1>1, <2>1, <2>2 DEF ServerTypeOK
<1>3. ASSUME NEW from \in Awaits, NEW to \in Awaits, Await(s, from, to)
      PROVE  /\ shutdown[s] = from /\ shutdown'[s] = to
             /\ \A t \in Signals : shutdown'[t] = IF t = s THEN to ELSE shutdown[t]
  BY <1>3 DEF Await, ServerTypeOK
<1>4. CASE Signal(s)
  <2>1. shutdown[s] = "none" /\ shutdown'[s] = "drain"
    BY <1>3, <1>4 DEF Signal, Awaits
  <2> QED
    BY <1>1, <1>2, <1>4, <2>1 DEF Signal, ClientsOpen, Passed
<1>5. CASE Drained(s)
  <2>1. shutdown[s] = "drain" /\ shutdown'[s] = "closeWorker"
    BY <1>3, <1>5 DEF Drained, Awaits
  <2> QED
    BY <1>1, <1>2, <1>5, <2>1 DEF Drained, ClientsOpen, Passed, workVars
<1>6. CASE CloseWorker(s)
  <2>1. shutdown[s] = "closeWorker" /\ shutdown'[s] = "awaitJobs"
    BY <1>3, <1>6 DEF CloseWorker, Awaits
  <2> QED
    BY <1>1, <1>2, <1>6, <2>1 DEF CloseWorker, ClientsOpen, Passed
<1>7. CASE JobsDone(s)
  <2>1. shutdown[s] = "awaitJobs" /\ shutdown'[s] = "disconnectDatabase"
    BY <1>3, <1>7 DEF JobsDone, Awaits
  <2> QED
    BY <1>1, <1>2, <1>7, <2>1 DEF JobsDone, ClientsOpen, Passed, workVars
<1>8. CASE DisconnectDatabase(s)
  <2>1. shutdown[s] = "disconnectDatabase" /\ shutdown'[s] = "disconnectRedis"
    BY <1>3, <1>8 DEF DisconnectDatabase, Awaits
  <2> QED
    BY <1>1, <1>2, <1>8, <2>1 DEF DisconnectDatabase, ClientsOpen, Passed, workVars
<1>9. CASE DisconnectRedis(s)
  <2>1. shutdown[s] = "disconnectRedis" /\ shutdown'[s] = "exit"
    BY <1>3, <1>9 DEF DisconnectRedis, Awaits
  <2> QED
    BY <1>1, <1>2, <1>9, <2>1 DEF DisconnectRedis, ClientsOpen, Passed, workVars
<1>10. CASE ExitCleanly(s)
  BY <1>1, <1>2, <1>10 DEF ExitCleanly, ClientsOpen, Passed, workVars
<1> QED
  BY <1>2, <1>4, <1>5, <1>6, <1>7, <1>8, <1>9, <1>10 DEF ShutdownStep

\* Whoever waits for an answer, and a job being processed, finds both clients open.
LEMMA InUseIsOpen ==
    ASSUME ServerTypeOK, ClientsOpen, Passed
    PROVE  ServedByOpenClients
<1>1. ASSUME NEW c \in Connections, conn[c] = "busy" PROVE dbOpen /\ redisOpen
  BY <1>1 DEF ClientsOpen, Passed
<1>2. ASSUME active # {} PROVE dbOpen /\ redisOpen
  BY <1>2 DEF ClientsOpen, Passed
<1> QED
  BY <1>1, <1>2 DEF ServedByOpenClients

\* At the start nothing is open and nothing runs.
LEMMA InitKeeps == ServerInit => ServerInv
BY DEF ServerInit, ServerInv, ServerTypeOK, Stages, Awaits, ClientsOpen, Passed, ServedByOpenClients,
       CleanExitCutsNothing

\* Every step keeps the invariant.
LEMMA NextKeeps == ServerInv /\ [ServerNext]_serverVars => ServerInv'
<1> SUFFICES ASSUME ServerInv, [ServerNext]_serverVars PROVE ServerInv'
  OBVIOUS
<1>1. ServerTypeOK' /\ ClientsOpen' /\ Passed'
  <2>1. ASSUME \/ \E s \in Signals : Kill(s)
               \/ ForcedExit \/ Fatal \/ UNCHANGED serverVars
        PROVE  ServerTypeOK' /\ ClientsOpen' /\ Passed'
    <3>1. /\ UNCHANGED <<stageVars, workVars, dbOpen, redisOpen, shutdown, deadline>>
          /\ exit' \in {exit, "1", "killed"}
      BY <2>1 DEF Kill, ForcedExit, Fatal, serverVars
    <3>2. ServerTypeOK'
      BY <3>1 DEF ServerInv, ServerTypeOK, stageVars, workVars
    <3>3. ClientsOpen' /\ Passed'
      BY <3>1 DEF ServerInv, ClientsOpen, Passed, stageVars, workVars
    <3> QED
      BY <3>2, <3>3
  <2> QED
    BY <2>1, StartupKeeps, WorkKeeps, ShutdownKeeps DEF ServerNext
<1>2. ServedByOpenClients'
  <2>1. ServerTypeOK' /\ ClientsOpen' /\ Passed' => ServedByOpenClients'
    BY InUseIsOpen, PTL
  <2> QED
    BY <1>1, <2>1
<1>3. CleanExitCutsNothing'
  <2>1. CASE ~Running
    <3>1. UNCHANGED serverVars
      BY <2>1 DEF ServerNext, Running, Startup, ConnectDatabase, ConnectRedis, Listen, StartSweep,
         StartEmailWorker, InstallHandlers, Connect, Request, Respond, HangUp, SweepTick,
         DetachedEnds, TakeJob, FinishJob, Kill, Signal, Await, ShutdownStep, Drained,
         CloseWorker, JobsDone, DisconnectDatabase, DisconnectRedis, ExitCleanly,
         ForcedExit, Fatal
    <3> QED
      BY <3>1 DEF ServerInv, serverVars, stageVars, workVars, CleanExitCutsNothing
  <2>2. CASE Running /\ exit' = "0"
    <3>1. PICK s \in Signals : ExitCleanly(s)
      BY <2>2 DEF ServerNext, Running, Startup, ConnectDatabase, ConnectRedis, Listen, StartSweep,
         StartEmailWorker, InstallHandlers, Connect, Request, Respond, HangUp, SweepTick,
         DetachedEnds, TakeJob, FinishJob, Kill, Signal, ShutdownStep, Drained,
         CloseWorker, JobsDone, DisconnectDatabase, DisconnectRedis, ForcedExit, Fatal,
         serverVars
    <3> QED
      BY <3>1 DEF ExitCleanly, ServerInv, Passed, CleanExitCutsNothing, workVars
  <2> QED
    BY <2>1, <2>2 DEF CleanExitCutsNothing
<1> QED
  BY <1>1, <1>2, <1>3 DEF ServerInv

\* What a shutdown has waited for has ended, and does not begin again.
THEOREM Invariant == ServerSpec => []ServerInv
BY InitKeeps, NextKeeps, PTL DEF ServerSpec

\* No request is served and no job processed without a database or without
\* Redis, however many signals arrive and whenever they do.
THEOREM ServedOpen == ServerSpec => []ServedByOpenClients
<1>1. ServerInv => ServedByOpenClients
  BY DEF ServerInv
<1> QED
  BY Invariant, <1>1, PTL

\* An exit with 0 cuts off no request and no job.
THEOREM CleanExit == ServerSpec => []CleanExitCutsNothing
<1>1. ServerInv => CleanExitCutsNothing
  BY DEF ServerInv
<1> QED
  BY Invariant, <1>1, PTL
================================================================================
