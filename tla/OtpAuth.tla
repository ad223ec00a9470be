-------------------------------- MODULE OtpAuth --------------------------------
(***************************************************************************)
(* register, verifyOtp, resendOtp and login of auth.service.ts as          *)
(* concurrent requests on the users table.  No request opens a             *)
(* transaction: each reads the row, checks what it read, and writes with   *)
(* one autocommitted statement by id, which repeats none of the checks.    *)
(***************************************************************************)
EXTENDS Integers, FiniteSets

CONSTANTS Emails,
          Codes, NoCode,       \* six-digit codes; NoCode: otpHash is null
          RegisterRequests,    \* each stands for its password, too
          VerifyRequests, ResendRequests, LoginRequests,
          NoUser,
          MAX_OTP_ATTEMPTS,    \* 5
          MaxFailures          \* bound: requests that end in an internal error

Requests == RegisterRequests \cup VerifyRequests \cup ResendRequests \cup LoginRequests

ASSUME RequestsDistinct ==
    /\ RegisterRequests \cap (VerifyRequests \cup ResendRequests \cup LoginRequests) = {}
    /\ VerifyRequests \cap (ResendRequests \cup LoginRequests) = {}
    /\ ResendRequests \cap LoginRequests = {}
ASSUME NoneIsNone == NoCode \notin Codes /\ NoUser \notin RegisterRequests
ASSUME BoundsNatural == MAX_OTP_ATTEMPTS \in Nat \ {0} /\ MaxFailures \in Nat

VARIABLES
    email,       \* the e-mail address in the request's body
    code,        \* the code a verification gives
    password,    \* the registration whose password a login gives
    user,        \* the users row of an address
    issued,      \* history: the codes stored for an address so far
    pc, outcome,
    seen         \* the row a request read before it awaited something

inputs == <<email, code, password>>
vars == <<inputs, user, issued, pc, outcome, seen>>

NoRow == [owner |-> NoUser, verified |-> FALSE, hash |-> NoCode, expired |-> FALSE,
          attempts |-> 0]

Init == /\ email \in [Requests -> Emails]
        /\ code \in [VerifyRequests -> Codes]
        /\ password \in [LoginRequests -> RegisterRequests]
        /\ user = [e \in Emails |-> NoRow]
        /\ issued = [e \in Emails |-> {}]
        /\ pc = [p \in Requests |-> "idle"]
        /\ outcome = [p \in Requests |-> "NONE"]
        /\ seen = [p \in Requests |-> NoRow]

Row(p) == user[email[p]]
Registered(row) == row.owner # NoUser

\* What of a row is looked at again after an await: not its code and expiry.
Seen(row) == [row EXCEPT !.hash = NoCode, !.expired = FALSE]

Forget(p) == seen' = [seen EXCEPT ![p] = NoRow]

Answer(p, reply) == /\ pc' = [pc EXCEPT ![p] = "done"]
                    /\ outcome' = [outcome EXCEPT ![p] = reply]
                    /\ Forget(p)

\* A write is done; what was read before it is not looked at again.
Written(p, label) == /\ pc' = [pc EXCEPT ![p] = label]
                     /\ Forget(p)
                     /\ UNCHANGED outcome

Write(p, row) == user' = [user EXCEPT ![email[p]] = row]

\* findUnique by e-mail, and the checks on what it returned: refusal is NONE,
\* and the request goes on, or it is answered at once.
ReadThen(p, refusal, label) ==
    /\ pc[p] = "idle"
    /\ IF refusal = "NONE"
       THEN /\ pc' = [pc EXCEPT ![p] = label]
            /\ seen' = [seen EXCEPT ![p] = Seen(Row(p))]
            /\ UNCHANGED outcome
       ELSE Answer(p, refusal)
    /\ UNCHANGED <<inputs, user, issued>>

\* What a request answers once its write is done.  The outbox row and the
\* enqueued e-mail of register and resendOtp lie between the two; their
\* failure is only logged (NotificationPipeline has their life).
Reply(label) == CASE label = "created"   -> "CREATED"
                  [] label = "counted"   -> "INVALID_OTP"
                  [] label = "activated" -> "TOKEN"
                  [] label = "resent"    -> "RESENT"

Respond(p) ==
    /\ pc[p] \in {"created", "counted", "activated", "resent"}
    /\ Answer(p, Reply(pc[p]))
    /\ UNCHANGED <<inputs, user, issued>>

--------------------------------------------------------------------------------
(* register *)

RegisterRead(p) == ReadThen(p, IF Registered(Row(p)) THEN "EMAIL_EXISTS" ELSE "NONE", "create")

NewRow(p, c) == [NoRow EXCEPT !.owner = p, !.hash = c]

\* Defect: e-mail addresses are not unique; the later row hides the earlier.
RegisterCreateUnindexed(p) ==
    /\ pc[p] = "create"
    /\ \E c \in Codes : /\ Write(p, NewRow(p, c))
                        /\ issued' = [issued EXCEPT ![email[p]] = @ \cup {c}]
    /\ Written(p, "created")
    /\ UNCHANGED inputs

\* The insert; the unique index on email refuses it (P2002, mapped by the error
\* handler) if another registration was first while the password was hashed.
RegisterCreate(p) ==
    /\ pc[p] = "create"
    /\ IF Registered(Row(p))
       THEN Answer(p, "EMAIL_EXISTS") /\ UNCHANGED <<user, issued>>
       ELSE /\ \E c \in Codes : /\ Write(p, NewRow(p, c))
                                /\ issued' = [issued EXCEPT ![email[p]] = @ \cup {c}]
            /\ Written(p, "created")
    /\ UNCHANGED inputs

--------------------------------------------------------------------------------
(* verifyOtp *)

\* Why the code is not even compared, in the order of the checks.
VerifyRefusal(row) ==
    IF ~Registered(row) THEN "INVALID_OTP"
    ELSE IF row.verified THEN "ALREADY_VERIFIED"
    ELSE IF row.attempts >= MAX_OTP_ATTEMPTS THEN "MAX_OTP_ATTEMPTS_EXCEEDED"
    ELSE IF row.expired \/ row.hash = NoCode THEN "OTP_EXPIRED"
    ELSE "NONE"

\* Defect: the comparison's result counts as true whatever it is.
VerifyReadLax(p) == ReadThen(p, VerifyRefusal(Row(p)), "activate")

VerifyRead(p) ==
    ReadThen(p, VerifyRefusal(Row(p)), IF code[p] = Row(p).hash THEN "activate" ELSE "count")

\* Defect: the counter is written back from the row that was read.
VerifyCountStale(p) ==
    /\ pc[p] = "count"
    /\ Write(p, [Row(p) EXCEPT !.attempts = seen[p].attempts + 1])
    /\ Written(p, "counted")
    /\ UNCHANGED <<inputs, issued>>

\* otpAttempts = otpAttempts + 1, whatever the row has become since the read.
VerifyCount(p) ==
    /\ pc[p] = "count"
    /\ Write(p, [Row(p) EXCEPT !.attempts = @ + 1])
    /\ Written(p, "counted")
    /\ UNCHANGED <<inputs, issued>>

VerifyActivate(p) ==
    /\ pc[p] = "activate"
    /\ Write(p, [Row(p) EXCEPT !.verified = TRUE, !.hash = NoCode, !.expired = FALSE,
                               !.attempts = 0])
    /\ Written(p, "activated")
    /\ UNCHANGED <<inputs, issued>>

--------------------------------------------------------------------------------
(* resendOtp *)

ResendRead(p) ==
    ReadThen(p, IF ~Registered(Row(p)) THEN "NOT_FOUND"
                ELSE IF Row(p).verified THEN "ALREADY_VERIFIED" ELSE "NONE", "reissue")

\* Defect: the row that was read is written back with the new code.
ResendWriteStale(p) ==
    /\ pc[p] = "reissue"
    /\ \E c \in Codes :
          /\ Write(p, [seen[p] EXCEPT !.hash = c, !.expired = FALSE, !.attempts = 0])
          /\ issued' = [issued EXCEPT ![email[p]] = @ \cup {c}]
    /\ Written(p, "resent")
    /\ UNCHANGED inputs

\* A fresh code and expiry, attempts back to 0; isVerified is not touched.
ResendWrite(p) ==
    /\ pc[p] = "reissue"
    /\ \E c \in Codes :
          /\ Write(p, [Row(p) EXCEPT !.hash = c, !.expired = FALSE, !.attempts = 0])
          /\ issued' = [issued EXCEPT ![email[p]] = @ \cup {c}]
    /\ Written(p, "resent")
    /\ UNCHANGED inputs

--------------------------------------------------------------------------------
(* login *)

LoginRead(p) ==
    ReadThen(p, IF Registered(Row(p)) THEN "NONE" ELSE "INVALID_CREDENTIALS", "compare")

\* Defect: bcrypt's promise is not awaited, and a promise is truthy.
LoginCompareUnawaited(p) ==
    /\ pc[p] = "compare"
    /\ Answer(p, IF ~seen[p].verified THEN "ACCOUNT_UNVERIFIED" ELSE "TOKEN")
    /\ UNCHANGED <<inputs, user, issued>>

\* After bcrypt, on the row as it was read.
LoginCompare(p) ==
    /\ pc[p] = "compare"
    /\ Answer(p, IF password[p] # seen[p].owner THEN "INVALID_CREDENTIALS"
                 ELSE IF ~seen[p].verified THEN "ACCOUNT_UNVERIFIED"
                 ELSE "TOKEN")
    /\ UNCHANGED <<inputs, user, issued>>

--------------------------------------------------------------------------------
(* The environment *)

\* otpExpiresAt has passed.
Expire(e) ==
    /\ user[e].hash # NoCode /\ ~user[e].expired
    /\ user' = [user EXCEPT ![e].expired = TRUE]
    /\ UNCHANGED <<inputs, issued, pc, outcome, seen>>

\* A statement fails, or the reply to one that was done is lost.
RequestFails(p) ==
    /\ pc[p] \notin {"idle", "done"}
    /\ Cardinality({q \in Requests : outcome[q] = "INTERNAL_ERROR"}) < MaxFailures
    /\ Answer(p, "INTERNAL_ERROR")
    /\ UNCHANGED <<inputs, user, issued>>

Next == \/ \E p \in RegisterRequests : RegisterRead(p) \/ RegisterCreate(p)
        \/ \E p \in VerifyRequests : VerifyRead(p) \/ VerifyCount(p) \/ VerifyActivate(p)
        \/ \E p \in ResendRequests : ResendRead(p) \/ ResendWrite(p)
        \/ \E p \in LoginRequests : LoginRead(p) \/ LoginCompare(p)
        \/ \E p \in Requests : Respond(p) \/ RequestFails(p)
        \/ \E e \in Emails : Expire(e)

Spec == Init /\ [][Next]_vars

--------------------------------------------------------------------------------
(* Properties *)

Rows == [owner: RegisterRequests \cup {NoUser}, verified: BOOLEAN,
         hash: Codes \cup {NoCode}, expired: BOOLEAN, attempts: Nat]

Labels == {"idle", "create", "created", "count", "counted", "activate", "activated",
           "reissue", "resent", "compare", "done"}

Outcomes == {"NONE", "CREATED", "EMAIL_EXISTS", "INVALID_OTP", "ALREADY_VERIFIED",
             "MAX_OTP_ATTEMPTS_EXCEEDED", "OTP_EXPIRED", "TOKEN", "RESENT", "NOT_FOUND",
             "INVALID_CREDENTIALS", "ACCOUNT_UNVERIFIED", "INTERNAL_ERROR"}

\* Every variable has its type, and otpHash and otpExpiresAt are set and cleared
\* together.
TypeOK == /\ email \in [Requests -> Emails]
          /\ code \in [VerifyRequests -> Codes]
          /\ password \in [LoginRequests -> RegisterRequests]
          /\ user \in [Emails -> Rows]
          /\ \A e \in Emails : user[e].expired => user[e].hash # NoCode
          /\ issued \in [Emails -> SUBSET Codes]
          /\ pc \in [Requests -> Labels]
          /\ outcome \in [Requests -> Outcomes]
          /\ seen \in [Requests -> Rows]

\* Of racing registrations of one address only one is told CREATED, and the
\* account stays its own: its password is the one that logs in.
OneAccountPerEmail ==
    \A p \in RegisterRequests : outcome[p] = "CREATED" => Row(p).owner = p

\* A token is only ever given for an account that is verified, and no later
\* write takes the verification back, stale as the row it was decided on may be.
TokenMeansVerified == \A p \in Requests : outcome[p] = "TOKEN" => Row(p).verified

\* An account is only ever verified by a code that was stored for its address.
ActivatedByIssuedCode ==
    [][\A e \in Emails :
          ~user[e].verified /\ user'[e].verified =>
              \E p \in VerifyRequests :
                 pc[p] = "activate" /\ email[p] = e /\ code[p] \in issued[e]]_vars

\* Failed attempts are forgotten only with the code they were made on: when a
\* new code replaces it or the account is verified.
AttemptsForgottenWithCode ==
    [][\A e \in Emails :
          user'[e].attempts < user[e].attempts =>
              \E p \in Requests : email[p] = e /\ pc[p] \in {"reissue", "activate"}
                                  /\ pc'[p] \in {"resent", "activated"}]_vars

--------------------------------------------------------------------------------
(* The inductive invariant: what stays true of the row between a request's     *)
(* read and its write                                                          *)

\* There is nothing in the row of an address nobody registered.
UnregisteredIsEmpty == \A e \in Emails : ~Registered(user[e]) => user[e] = NoRow

\* Past its read a verification or a resend writes an existing row.
WritersChecked ==
    \A p \in Requests : pc[p] \in {"count", "activate", "reissue"} => Registered(Row(p))

\* A code is only compared with one that was stored.
CodesAreIssued ==
    /\ \A e \in Emails : user[e].hash # NoCode => user[e].hash \in issued[e]
    /\ \A p \in VerifyRequests : pc[p] = "activate" => code[p] \in issued[email[p]]

\* What a request is about to answer is true already.
CreatedIsOwner == \A p \in RegisterRequests : pc[p] = "created" => Row(p).owner = p
DecidedIsVerified ==
    \A p \in Requests :
        pc[p] = "activated" \/ (pc[p] = "compare" /\ seen[p].verified) => Row(p).verified

IInv == /\ TypeOK /\ UnregisteredIsEmpty /\ WritersChecked /\ CodesAreIssued
        /\ CreatedIsOwner /\ OneAccountPerEmail /\ DecidedIsVerified /\ TokenMeansVerified

--------------------------------------------------------------------------------
(* What the requests promise together: see Accounts                            *)

OwnerOf == [e \in Emails |-> user[e].owner]
VerifiedOf == [e \in Emails |-> user[e].verified]
Tokens == {p \in Requests : outcome[p] = "TOKEN"}

Account == INSTANCE Accounts WITH
    Clients <- Requests, Owners <- RegisterRequests, Verifiers <- VerifyRequests,
    Logins <- LoginRequests, address <- email, owner <- OwnerOf,
    verified <- VerifiedOf, tokens <- Tokens

\* For all their unchecked writes the requests do no more to an account, and
\* give tokens to no one else, than Accounts allows.
ImplementsAccounts == Account!Spec
================================================================================
