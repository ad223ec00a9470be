------------------------------- MODULE MCProcess -------------------------------
(***************************************************************************)
(* Small instances, for TLC, of three models that share no state and are   *)
(* small enough to be explored in one run: the server's start and shutdown *)
(* (ServerLifecycle), the health probe (HealthProbe), and the limiters     *)
(* that count in the server's memory (AuthLimits), a tick of which is five *)
(* minutes.  A behaviour is one of one of them: the others do not move.    *)
(***************************************************************************)
EXTENDS ServerLifecycle, HealthProbe, FiniteSets

CONSTANTS c1, c2, c3,
          OTP_MAX, AUTH_MAX, WINDOW, OTP_TTL, MAX_OTP_ATTEMPTS, MaxStray

VARIABLES subject,                     \* server, probe or limits: the one that moves
          account, limiter, strays

limitVars == <<account, limiter, strays>>
allVars == <<subject, serverVars, vars, limitVars>>

Limits == INSTANCE AuthLimits WITH Customers <- {c1, c2, c3}

AllInit == /\ subject \in {"server", "probe", "limits"}
           /\ ServerInit /\ Init /\ Limits!Init

--------------------------------------------------------------------------------
(* The limiters *)

Registered == Cardinality({c \in {c1, c2, c3} : account[c].registered})

\* One customer with many stray requests, two with one, or three with none.
\* Only a stray request or another's registration is kept from happening, and
\* fairness asks for neither.
Scenario == /\ account[c3].registered => account[c2].registered
            /\ account[c2].registered => account[c1].registered
            /\ strays <= CASE Registered = 3 -> 0
                           [] Registered = 2 -> 1
                           [] OTHER -> MaxStray

LockoutEnds == Limits!LockoutEnds
VerifiedAtLast == Limits!VerifiedAtLast

--------------------------------------------------------------------------------
(* Each of them, with its fairness *)

ServerMoves == subject = "server" /\ ServerNext /\ UNCHANGED <<subject, vars, limitVars>>
ProbeMoves == subject = "probe" /\ Next /\ UNCHANGED <<subject, serverVars, limitVars>>
LimitsMove == /\ subject = "limits" /\ Limits!Next /\ Scenario'
              /\ UNCHANGED <<subject, serverVars, vars>>

AllFairness ==
    /\ WF_serverVars(subject = "server" /\ ForcedExit)
    /\ WF_vars(subject = "probe" /\ Interval)
    /\ \A p \in Probes : SF_vars(subject = "probe" /\ ProbeStep(p))
    /\ \A w \in Workers : WF_vars(subject = "probe" /\ EmitHeartbeat(w) /\ w \notin beaten)
    /\ WF_limitVars(subject = "limits" /\ Limits!Tick)
    /\ \A c \in {c1, c2, c3} :
          /\ WF_limitVars(subject = "limits" /\ Limits!AskForCode(c))
          /\ SF_limitVars(subject = "limits" /\ Limits!GiveCode(c))

MCSpec == /\ AllInit
          /\ [][ServerMoves \/ ProbeMoves \/ LimitsMove]_allVars
          /\ AllFairness
================================================================================
