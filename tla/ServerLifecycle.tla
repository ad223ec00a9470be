---------------------------- MODULE ServerLifecycle ----------------------------
(***************************************************************************)
(* main and shutdown of server.ts: the process connects, serves and, on a  *)
(* signal, drains what it does and closes what it uses, one await after    *)
(* the other.  Every signal runs a shutdown of its own, and the ten-second *)
(* timer of any of them ends the process.                                  *)
(***************************************************************************)
EXTENDS Naturals

CONSTANTS Connections,    \* sockets of the HTTP server
          Jobs,           \* jobs the worker of this process may take
          Signals,        \* SIGTERMs and SIGINTs, in any order
          START_WORKER    \* the worker runs in the server's process

VARIABLES
    stage,       \* where main is; a signal before "up" has no handler
    server,      \* off, listening, closing
    conn,        \* none, idle, or busy with a request
    sweeping,    \* the sweep's interval is armed
    detached,    \* work nothing awaits: a sweep, an enqueue call, the handler of
                 \* a request whose client has hung up
    emailWorker, \* off, running, closing
    active,      \* jobs being processed
    dbOpen, redisOpen, \* the clients are open
    shutdown,    \* where the shutdown of each signal is
    deadline,    \* a ten-second timer is armed
    exit         \* none, or how the process ended

stageVars == <<stage, sweeping>>
workVars == <<server, conn, detached, emailWorker, active>>
clientVars == <<dbOpen, redisOpen>>
endVars == <<shutdown, deadline, exit>>
serverVars == <<stageVars, workVars, clientVars, endVars>>

Running == exit = "none"

ServerInit == /\ stage = "connectDatabase"
              /\ server = "off"
              /\ conn = [c \in Connections |-> "none"]
              /\ sweeping = FALSE
              /\ detached = {}
              /\ emailWorker = "off"
              /\ active = {}
              /\ dbOpen = FALSE /\ redisOpen = FALSE
              /\ shutdown = [s \in Signals |-> "none"]
              /\ deadline = FALSE
              /\ exit = "none"

--------------------------------------------------------------------------------
(* main *)

Startup(from, to) == Running /\ stage = from /\ stage' = to

ConnectDatabase ==
    /\ Startup("connectDatabase", "connectRedis")
    /\ dbOpen' = TRUE
    /\ UNCHANGED <<sweeping, workVars, redisOpen, endVars>>

ConnectRedis ==
    /\ Startup("connectRedis", "listen")
    /\ redisOpen' = TRUE
    /\ UNCHANGED <<sweeping, workVars, dbOpen, endVars>>

\* Defect: the server listens before Redis is connected.
ListenEarly ==
    /\ Running /\ stage = "connectRedis" /\ server = "off"
    /\ server' = "listening"
    /\ UNCHANGED <<stageVars, conn, detached, emailWorker, active, clientVars, endVars>>

Listen ==
    /\ Startup("listen", "startSweep")
    /\ server' = "listening"
    /\ UNCHANGED <<sweeping, conn, detached, emailWorker, active, clientVars, endVars>>

StartSweep ==
    /\ Startup("startSweep", "startWorker")
    /\ sweeping' = TRUE
    /\ UNCHANGED <<workVars, clientVars, endVars>>

\* Without START_WORKER the worker is imported, and so started, by the shutdown
\* that closes it at once.
StartEmailWorker ==
    /\ Startup("startWorker", "installHandlers")
    /\ emailWorker' = IF START_WORKER THEN "running" ELSE "off"
    /\ UNCHANGED <<sweeping, server, conn, detached, active, clientVars, endVars>>

InstallHandlers ==
    /\ Startup("installHandlers", "up")
    /\ UNCHANGED <<sweeping, workVars, clientVars, endVars>>

--------------------------------------------------------------------------------
(* What the process does *)

Connect(c) ==
    /\ Running /\ server = "listening" /\ conn[c] = "none"
    /\ conn' = [conn EXCEPT ![c] = "idle"]
    /\ UNCHANGED <<stageVars, server, detached, emailWorker, active, clientVars, endVars>>

\* An open connection may bring a request after the server has stopped listening.
Request(c) ==
    /\ Running /\ conn[c] = "idle"
    /\ conn' = [conn EXCEPT ![c] = "busy"]
    /\ UNCHANGED <<stageVars, server, detached, emailWorker, active, clientVars, endVars>>

\* The enqueue calls of register, resendOtp and createBooking are not awaited.
Respond(c) ==
    /\ Running /\ conn[c] = "busy"
    /\ conn' = [conn EXCEPT ![c] = "idle"]
    /\ detached' \in {detached, detached \cup {"enqueue"}}
    /\ UNCHANGED <<stageVars, server, emailWorker, active, clientVars, endVars>>

\* The client leaves, or the keep-alive time is over; a handler at work goes on.
HangUp(c) ==
    /\ Running /\ conn[c] # "none"
    /\ conn' = [conn EXCEPT ![c] = "none"]
    /\ detached' = IF conn[c] = "busy" THEN detached \cup {"handler"} ELSE detached
    /\ UNCHANGED <<stageVars, server, emailWorker, active, clientVars, endVars>>

\* The interval starts a run of the sweep.
SweepTick ==
    /\ Running /\ sweeping
    /\ detached' = detached \cup {"sweep"}
    /\ UNCHANGED <<stageVars, server, conn, emailWorker, active, clientVars, endVars>>

DetachedEnds(k) ==
    /\ Running /\ k \in detached
    /\ detached' = detached \ {k}
    /\ UNCHANGED <<stageVars, server, conn, emailWorker, active, clientVars, endVars>>

TakeJob(j) ==
    /\ Running /\ emailWorker = "running" /\ j \notin active
    /\ active' = active \cup {j}
    /\ UNCHANGED <<stageVars, server, conn, detached, emailWorker, clientVars, endVars>>

FinishJob(j) ==
    /\ Running /\ j \in active
    /\ active' = active \ {j}
    /\ UNCHANGED <<stageVars, server, conn, detached, emailWorker, clientVars, endVars>>

--------------------------------------------------------------------------------
(* shutdown, up to each of its awaits *)

\* Without a handler the signal ends the process where it stands.
Kill(s) ==
    /\ Running /\ shutdown[s] = "none" /\ stage # "up"
    /\ exit' = "killed"
    /\ UNCHANGED <<stageVars, workVars, dbOpen, redisOpen, shutdown, deadline>>

Await(s, from, to) ==
    Running /\ shutdown[s] = from /\ shutdown' = [shutdown EXCEPT ![s] = to]

\* Defect: no timer is set.
SignalUntimed(s) ==
    /\ stage = "up"
    /\ Await(s, "none", "drain")
    /\ sweeping' = FALSE
    /\ server' = "closing"
    /\ UNCHANGED <<stage, conn, detached, emailWorker, active, clientVars, deadline, exit>>

\* stopPeriodicSweep, server.close and the timer.
Signal(s) ==
    /\ stage = "up"
    /\ Await(s, "none", "drain")
    /\ sweeping' = FALSE
    /\ server' = "closing"
    /\ deadline' = TRUE
    /\ UNCHANGED <<stage, conn, detached, emailWorker, active, dbOpen, redisOpen, exit>>

\* Defect: the teardown does not wait for the server's close.
DrainedAtOnce(s) ==
    /\ Await(s, "drain", "closeWorker")
    /\ UNCHANGED <<stageVars, workVars, clientVars, deadline, exit>>

\* server.close calls back when the last connection has ended.  The queue's
\* close, which uses the shared Redis client, has nothing to wait for.
Drained(s) ==
    /\ Await(s, "drain", "closeWorker")
    /\ \A c \in Connections : conn[c] = "none"
    /\ UNCHANGED <<stageVars, workVars, clientVars, deadline, exit>>

\* emailWorker.close takes no more jobs; a second call returns the same promise.
CloseWorker(s) ==
    /\ Await(s, "closeWorker", "awaitJobs")
    /\ emailWorker' = IF emailWorker = "running" THEN "closing" ELSE emailWorker
    /\ UNCHANGED <<stageVars, server, conn, detached, active, clientVars, deadline, exit>>

JobsDone(s) ==
    /\ Await(s, "awaitJobs", "disconnectDatabase")
    /\ active = {}
    /\ UNCHANGED <<stageVars, workVars, clientVars, deadline, exit>>

DisconnectDatabase(s) ==
    /\ Await(s, "disconnectDatabase", "disconnectRedis")
    /\ dbOpen' = FALSE
    /\ UNCHANGED <<stageVars, workVars, redisOpen, deadline, exit>>

\* quit rejects on a client that another shutdown has ended: unhandled.
DisconnectRedis(s) ==
    /\ Await(s, "disconnectRedis", "exit")
    /\ redisOpen' = FALSE
    /\ exit' = IF redisOpen THEN "none" ELSE "1"
    /\ UNCHANGED <<stageVars, workVars, dbOpen, deadline>>

ExitCleanly(s) ==
    /\ Running /\ shutdown[s] = "exit"
    /\ exit' = "0"
    /\ UNCHANGED <<stageVars, workVars, dbOpen, redisOpen, shutdown, deadline>>

ShutdownStep(s) == \/ Drained(s) \/ CloseWorker(s) \/ JobsDone(s)
                   \/ DisconnectDatabase(s) \/ DisconnectRedis(s) \/ ExitCleanly(s)

ForcedExit ==
    /\ Running /\ deadline
    /\ exit' = "1"
    /\ UNCHANGED <<stageVars, workVars, dbOpen, redisOpen, shutdown, deadline>>

\* A connection that cannot be made, an uncaught exception, an unhandled rejection.
Fatal ==
    /\ Running
    /\ exit' = "1"
    /\ UNCHANGED <<stageVars, workVars, dbOpen, redisOpen, shutdown, deadline>>

ServerNext == \/ ConnectDatabase \/ ConnectRedis \/ Listen \/ StartSweep \/ StartEmailWorker
              \/ InstallHandlers
              \/ \E c \in Connections : Connect(c) \/ Request(c) \/ Respond(c) \/ HangUp(c)
              \/ SweepTick
              \/ \E k \in detached : DetachedEnds(k)
              \/ \E j \in Jobs : TakeJob(j) \/ FinishJob(j)
              \/ \E s \in Signals : Kill(s) \/ Signal(s) \/ ShutdownStep(s)
              \/ ForcedExit \/ Fatal

ServerSpec == ServerInit /\ [][ServerNext]_serverVars

\* Timers fire.  Nothing else is assumed: a request or a job may hang for ever.
FairServerSpec == ServerSpec /\ WF_serverVars(ForcedExit)

--------------------------------------------------------------------------------
(* Properties *)

Stages == {"connectDatabase", "connectRedis", "listen", "startSweep", "startWorker",
           "installHandlers", "up"}
Awaits == {"none", "drain", "closeWorker", "awaitJobs", "disconnectDatabase",
           "disconnectRedis", "exit"}

\* Every variable has its type.
ServerTypeOK == /\ stage \in Stages
                /\ server \in {"off", "listening", "closing"}
                /\ conn \in [Connections -> {"none", "idle", "busy"}]
                /\ sweeping \in BOOLEAN
                /\ detached \subseteq {"sweep", "enqueue", "handler"}
                /\ emailWorker \in {"off", "running", "closing"}
                /\ active \subseteq Jobs
                /\ dbOpen \in BOOLEAN /\ redisOpen \in BOOLEAN
                /\ shutdown \in [Signals -> Awaits]
                /\ deadline \in BOOLEAN
                /\ exit \in {"none", "0", "1", "killed"}

\* No client waits for a request and no job is processed while the process has
\* no database or no Redis, from the first connection to the last, whatever
\* number of signals arrive.
ServedByOpenClients ==
    (\E c \in Connections : conn[c] = "busy") \/ active # {} => dbOpen /\ redisOpen

\* The process exits with 0 only when no client waits for an answer, no job is
\* cut off in the middle and both clients are closed.
CleanExitCutsNothing ==
    exit = "0" => /\ \A c \in Connections : conn[c] # "busy"
                  /\ active = {}
                  /\ ~dbOpen /\ ~redisOpen

\* A signal the process handles ends it, whatever hangs.
SignalEndsProcess == \A s \in Signals : shutdown[s] # "none" ~> ~Running

--------------------------------------------------------------------------------
(* The inductive invariant: what the order of the awaits keeps true *)

\* The clients are open from their connection to the first shutdown's close.
ClientsOpen ==
    /\ stage # "connectDatabase" =>
           dbOpen \/ \E s \in Signals : shutdown[s] \in {"disconnectRedis", "exit"}
    /\ stage \notin {"connectDatabase", "connectRedis"} =>
           redisOpen \/ \E s \in Signals : shutdown[s] = "exit"
    /\ stage \in {"connectDatabase", "connectRedis", "listen"} => server = "off"
    /\ stage \notin {"installHandlers", "up"} => emailWorker = "off"
    /\ server = "off" => \A c \in Connections : conn[c] = "none"
    /\ emailWorker = "off" => active = {}

\* What the shutdowns have passed: no connection after the drain, no job after
\* the worker's close, both clients closed at the exit.
Passed ==
    \A s \in Signals :
        /\ shutdown[s] # "none" => stage = "up" /\ server = "closing"
        /\ shutdown[s] \notin {"none", "drain"} => \A c \in Connections : conn[c] = "none"
        /\ shutdown[s] \notin {"none", "drain", "closeWorker"} => emailWorker # "running"
        /\ shutdown[s] \in {"disconnectDatabase", "disconnectRedis", "exit"} => active = {}
        /\ shutdown[s] \in {"disconnectRedis", "exit"} => ~dbOpen
        /\ shutdown[s] = "exit" => ~redisOpen

ServerInv == /\ ServerTypeOK /\ ClientsOpen /\ Passed
             /\ ServedByOpenClients /\ CleanExitCutsNothing
================================================================================
