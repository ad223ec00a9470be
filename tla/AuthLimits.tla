------------------------------- MODULE AuthLimits -------------------------------
(***************************************************************************)
(* What stands between a customer and a verified account: the two limiters *)
(* of rateLimit.middleware.ts on the routes of auth.routes.ts, the attempt *)
(* counter and the expiry of the code, and the clock that winds all of     *)
(* them back.  The customers share an address, hence a counter.  A request *)
(* is one step here; OtpAuth has the races of requests in flight.          *)
(***************************************************************************)
EXTENDS Integers, FiniteSets

CONSTANTS Customers,
          OTP_MAX, AUTH_MAX,   \* max of otpRateLimit (5) and of authRateLimit (20)
          WINDOW,              \* windowMs of both: 15 minutes, in ticks
          OTP_TTL,             \* the life of a code: 10 minutes, in ticks
          MAX_OTP_ATTEMPTS,    \* 5
          MaxStray             \* bound: requests that do not help their customer

VARIABLES
    account,   \* the users row: its code's time left, its wrong attempts
    limiter,   \* hits and time left of the two limiters, for the customers' address
    strays

vars == <<account, limiter, strays>>

Limit == [auth |-> AUTH_MAX, otp |-> OTP_MAX]
Untouched == [hits |-> 0, left |-> 0]
NoAccount == [registered |-> FALSE, verified |-> FALSE, attempts |-> 0, left |-> 0]

Init == /\ account = [c \in Customers |-> NoAccount]
        /\ limiter = [auth |-> Untouched, otp |-> Untouched]
        /\ strays = 0

--------------------------------------------------------------------------------
(* The limiters *)

\* Defect: every hit opens the window anew.
CountedSliding(name) ==
    LET l == limiter[name]
    IN  IF l.left = 0 THEN [hits |-> 1, left |-> WINDOW]
        ELSE [hits |-> IF l.hits > Limit[name] THEN l.hits ELSE l.hits + 1, left |-> WINDOW]

\* A hit is counted whether or not it is admitted (the count stops one above
\* the limit); the first one opens a window, and later ones do not extend it.
Counted(name) ==
    LET l == limiter[name]
    IN  IF l.left = 0 THEN [hits |-> 1, left |-> WINDOW]
        ELSE [l EXCEPT !.hits = IF @ > Limit[name] THEN @ ELSE @ + 1]

Admits(name) == Counted(name).hits <= Limit[name]

\* router.use(authRateLimit), and the route; a request that is refused changes
\* no row.
Route(Serve) ==
    /\ limiter' = [limiter EXCEPT !.auth = Counted("auth")]
    /\ IF Admits("auth") THEN Serve ELSE UNCHANGED account

\* The routes that otpRateLimit guards too: they share one instance of it.
OtpRoute(Serve) ==
    /\ limiter' = [auth |-> Counted("auth"),
                   otp |-> IF Admits("auth") THEN Counted("otp") ELSE limiter.otp]
    /\ IF Admits("auth") /\ Admits("otp") THEN Serve ELSE UNCHANGED account

--------------------------------------------------------------------------------
(* The services behind them *)

SetAccount(c, row) == account' = [account EXCEPT ![c] = row]

ServeRegister(c) == SetAccount(c, [NoAccount EXCEPT !.registered = TRUE, !.left = OTP_TTL])

Spent(row) == row.attempts >= MAX_OTP_ATTEMPTS

\* An account that is verified, has no attempt left or whose code has expired is
\* left as it is.
ServeVerify(c, right) ==
    LET row == account[c]
    IN  IF row.verified \/ Spent(row) \/ row.left = 0
        THEN UNCHANGED account
        ELSE SetAccount(c, IF right
                           THEN [row EXCEPT !.verified = TRUE, !.attempts = 0, !.left = 0]
                           ELSE [row EXCEPT !.attempts = @ + 1])

\* Defect: a fresh code keeps the attempts of the old one.
ServeResendKeeping(c) ==
    IF account[c].verified THEN UNCHANGED account
    ELSE SetAccount(c, [account[c] EXCEPT !.left = OTP_TTL])

ServeResend(c) ==
    IF account[c].verified THEN UNCHANGED account
    ELSE SetAccount(c, [account[c] EXCEPT !.left = OTP_TTL, !.attempts = 0])

--------------------------------------------------------------------------------
(* The customers *)

Register(c) == /\ ~account[c].registered
               /\ Route(ServeRegister(c))
               /\ UNCHANGED strays

Waiting(c) == account[c].registered /\ ~account[c].verified
CodeUsable(c) == account[c].left > 0 /\ ~Spent(account[c])

\* The customer gives the code that was mailed to them.
GiveCode(c) == /\ Waiting(c) /\ CodeUsable(c)
               /\ OtpRoute(ServeVerify(c, TRUE))
               /\ UNCHANGED strays

\* The customer asks for a code, having none that could still be accepted.
AskForCode(c) == /\ Waiting(c) /\ ~CodeUsable(c)
                 /\ OtpRoute(ServeResend(c))
                 /\ UNCHANGED strays

\* What else they send: a wrong code, a needless resend, a login, a second
\* registration, a look at /me.
Stray(c) ==
    /\ account[c].registered
    /\ strays < MaxStray /\ strays' = strays + 1
    /\ \/ OtpRoute(ServeVerify(c, FALSE))
       \/ OtpRoute(ServeResend(c))
       \/ Route(UNCHANGED account)

Customer(c) == Register(c) \/ GiveCode(c) \/ AskForCode(c) \/ Stray(c)

--------------------------------------------------------------------------------
(* Time, and the process *)

Less(n) == IF n = 0 THEN 0 ELSE n - 1

Wind(l) == IF l.left <= 1 THEN Untouched ELSE [l EXCEPT !.left = @ - 1]

Tick == /\ account' = [c \in Customers |-> [account[c] EXCEPT !.left = Less(@)]]
        /\ limiter' = [name \in DOMAIN limiter |-> Wind(limiter[name])]
        /\ UNCHANGED strays

\* The limiters are given no store: they count in the memory of the process.
Restart == /\ limiter' = [auth |-> Untouched, otp |-> Untouched]
           /\ UNCHANGED <<account, strays>>

Next == (\E c \in Customers : Customer(c)) \/ Tick \/ Restart

Spec == Init /\ [][Next]_vars

\* Time passes.  A customer without a code asks for one sooner or later, and
\* one who has a code again and again does not let all of them expire.
Fairness == /\ WF_vars(Tick)
            /\ \A c \in Customers : WF_vars(AskForCode(c)) /\ SF_vars(GiveCode(c))

FairSpec == Spec /\ Fairness

--------------------------------------------------------------------------------
(* Properties *)

Locked(name) == limiter[name].hits > Limit[name]

\* A lock-out ends, however many requests are sent and refused while it lasts.
LockoutEnds == \A name \in DOMAIN Limit : Locked(name) ~> ~Locked(name)

\* How often a customer may ask for a code within one window, each having expired.
AsksPerWindow == (WINDOW + OTP_TTL - 1) \div OTP_TTL

\* Those who wait could use up a window of the limiter with asking for codes alone.
Crowds == {S \in SUBSET Customers : Cardinality(S) * AsksPerWindow >= OTP_MAX}
Crowded == \E S \in Crowds : \A c \in S : Waiting(c)

\* A customer who registered is verified at last, whatever mistakes were made
\* first and however the limiters, the counter and the expiry came together,
\* unless again and again so many wait behind the one address that their requests
\* for codes leave no hit to give a code with.
VerifiedAtLast == []<>Crowded \/ \A c \in Customers : Waiting(c) ~> account[c].verified
================================================================================
