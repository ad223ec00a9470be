----------------------------- MODULE OtpAuth_proofs -----------------------------
(***************************************************************************)
(* Proofs about OtpAuth, for every set of addresses, codes and requests,   *)
(* every attempt limit and every number of failures.  The invariant is     *)
(* IInv.  A step does one of three things - it answers a request, it takes *)
(* a request from its read to its write, or it writes a row - and one      *)
(* lemma for each says under which conditions that keeps IInv; a step of   *)
(* Next is shown to meet the conditions.                                   *)
(***************************************************************************)
EXTENDS OtpAuth, TLAPS

(***************************************************************************)
(* The three kinds of step                                                 *)
(***************************************************************************)

\* The row of a request's address, and what of it is kept, are well typed.
LEMMA RowTyped ==
    ASSUME TypeOK, NEW p \in Requests
    PROVE  /\ email[p] \in Emails /\ Row(p) \in Rows /\ Seen(Row(p)) \in Rows
           /\ Seen(Row(p)).verified = Row(p).verified
<1>1. email[p] \in Emails /\ Row(p) \in Rows
  BY DEF TypeOK, Row
<1>2. /\ Seen(Row(p)) \in Rows
      /\ Seen(Row(p)).verified = Row(p).verified
  BY <1>1 DEF Seen, Rows
<1> QED
  BY <1>1, <1>2

\* Nothing is known of the empty row but that it is well typed.
LEMMA NoRowTyped ==
    NoRow \in Rows /\ ~Registered(NoRow) /\ ~NoRow.verified /\ NoRow.hash = NoCode
    /\ ~NoRow.expired
BY DEF NoRow, Rows, Registered

\* An answer keeps the invariant if it is true of the row: CREATED of the
\* registration whose account it is, TOKEN of an account that is verified.
LEMMA AnswerKeeps ==
    ASSUME IInv, NEW p \in Requests, NEW reply \in Outcomes,
           Answer(p, reply), UNCHANGED <<inputs, user, issued>>,
           reply = "CREATED" /\ p \in RegisterRequests => Row(p).owner = p,
           reply = "TOKEN" => Row(p).verified
    PROVE  IInv'
<1> USE DEF IInv
<1>0. /\ pc' = [pc EXCEPT ![p] = "done"]
      /\ outcome' = [outcome EXCEPT ![p] = reply]
      /\ seen' = [seen EXCEPT ![p] = NoRow]
      /\ UNCHANGED <<email, code, password, user, issued>>
  BY DEF Answer, Forget, inputs
<1>1. \A q \in Requests : /\ pc'[q] = IF q = p THEN "done" ELSE pc[q]
                          /\ outcome'[q] = IF q = p THEN reply ELSE outcome[q]
                          /\ seen'[q] = IF q = p THEN NoRow ELSE seen[q]
                          /\ Row(q)' = Row(q)
  BY <1>0 DEF TypeOK, Row
<1>2. TypeOK'
  BY <1>0, NoRowTyped DEF TypeOK, Labels
<1>3. UnregisteredIsEmpty'
  BY <1>0 DEF UnregisteredIsEmpty
<1>4. WritersChecked'
  BY <1>1 DEF WritersChecked, Registered
<1>5. CodesAreIssued'
  BY <1>0, <1>1 DEF CodesAreIssued, Requests
<1>6. CreatedIsOwner'
  BY <1>1 DEF CreatedIsOwner, Requests
<1>7. OneAccountPerEmail'
  BY <1>1 DEF OneAccountPerEmail, Requests
<1>8. DecidedIsVerified'
  BY <1>1 DEF DecidedIsVerified
<1>9. TokenMeansVerified'
  BY <1>1 DEF TokenMeansVerified
<1> QED
  BY <1>2, <1>3, <1>4, <1>5, <1>6, <1>7, <1>8, <1>9

\* A request goes on from its read with what it read: to a write of an existing
\* row if there is one, and to the activation if its code is one that was stored.
LEMMA GoesOnKeeps ==
    ASSUME IInv, NEW p \in Requests,
           NEW label \in {"create", "count", "activate", "reissue", "compare"},
           pc' = [pc EXCEPT ![p] = label],
           seen' = [seen EXCEPT ![p] = Seen(Row(p))],
           UNCHANGED <<inputs, user, issued, outcome>>,
           label \in {"count", "activate", "reissue"} => Registered(Row(p)),
           label = "activate" /\ p \in VerifyRequests => code[p] \in issued[email[p]]
    PROVE  IInv'
<1> USE DEF IInv
<1>0. UNCHANGED <<email, code, password, user, issued, outcome>>
  BY DEF inputs
<1>1. \A q \in Requests : /\ pc'[q] = IF q = p THEN label ELSE pc[q]
                          /\ seen'[q] = IF q = p THEN Seen(Row(p)) ELSE seen[q]
                          /\ Row(q)' = Row(q)
  BY <1>0 DEF TypeOK, Row
<1>2. TypeOK'
  BY <1>0, RowTyped DEF TypeOK, Labels
<1>3. UnregisteredIsEmpty'
  BY <1>0 DEF UnregisteredIsEmpty
<1>4. WritersChecked'
  BY <1>1 DEF WritersChecked, Registered
<1>5. CodesAreIssued'
  BY <1>0, <1>1 DEF CodesAreIssued, Requests
<1>6. CreatedIsOwner'
  BY <1>1 DEF CreatedIsOwner, Requests
<1>7. OneAccountPerEmail'
  BY <1>0, <1>1 DEF OneAccountPerEmail, Requests
<1>8. DecidedIsVerified'
  BY <1>1, RowTyped DEF DecidedIsVerified
<1>9. TokenMeansVerified'
  BY <1>0, <1>1 DEF TokenMeansVerified
<1> QED
  BY <1>2, <1>3, <1>4, <1>5, <1>6, <1>7, <1>8, <1>9

\* A row is written.  It keeps its owner and its verification, whatever it has
\* become since the writer read it, and any code in it is among those stored.
LEMMA WriteKeeps ==
    ASSUME IInv, NEW p \in Requests, NEW row \in Rows,
           NEW label \in {"created", "counted", "activated", "resent"},
           Write(p, row), Written(p, label), UNCHANGED inputs,
           issued' \in [Emails -> SUBSET Codes],
           \A e \in Emails : issued[e] \subseteq issued'[e],
           Registered(row),
           Registered(Row(p)) => row.owner = Row(p).owner,
           Row(p).verified => row.verified,
           row.expired => row.hash # NoCode,
           row.hash # NoCode => row.hash \in issued'[email[p]],
           label = "activated" => row.verified,
           label = "created" /\ p \in RegisterRequests => row.owner = p
    PROVE  IInv'
<1> USE DEF IInv
<1>0. /\ user' = [user EXCEPT ![email[p]] = row]
      /\ pc' = [pc EXCEPT ![p] = label]
      /\ seen' = [seen EXCEPT ![p] = NoRow]
      /\ UNCHANGED <<email, code, password, outcome>>
  BY DEF Write, Written, Forget, inputs
<1>a. \A e \in Emails : user'[e] = IF e = email[p] THEN row ELSE user[e]
  BY <1>0 DEF TypeOK
<1>1. \A q \in Requests : /\ pc'[q] = IF q = p THEN label ELSE pc[q]
                          /\ seen'[q] = IF q = p THEN NoRow ELSE seen[q]
                          /\ email[q] \in Emails
                          /\ Row(q)' = IF email[q] = email[p] THEN row ELSE Row(q)
                          /\ email[q] = email[p] => Row(q) = Row(p)
  BY <1>0, <1>a DEF TypeOK, Row
<1>b. \A q \in Requests : /\ Registered(Row(q)) => Row(q)'.owner = Row(q).owner
                          /\ Registered(Row(q)) => Registered(Row(q)')
                          /\ Row(q).verified => Row(q)'.verified
  BY <1>1
<1>c. \A q \in RegisterRequests : Row(q).owner = q => Registered(Row(q))
  BY NoneIsNone DEF Registered
<1>2. TypeOK'
  BY <1>0, <1>1, NoRowTyped DEF TypeOK, Labels
<1>3. UnregisteredIsEmpty'
  BY <1>a DEF UnregisteredIsEmpty, Registered
<1>4. WritersChecked'
  BY <1>1, <1>b DEF WritersChecked, Registered
<1>5. CodesAreIssued'
  <2>1. \A e \in Emails : user'[e].hash # NoCode => user'[e].hash \in issued'[e]
    BY <1>a DEF CodesAreIssued
  <2>2. \A q \in VerifyRequests : pc'[q] = "activate" => code'[q] \in issued'[email'[q]]
    BY <1>0, <1>1 DEF CodesAreIssued, Requests
  <2> QED
    BY <2>1, <2>2 DEF CodesAreIssued
<1>6. CreatedIsOwner'
  <2> SUFFICES ASSUME NEW q \in RegisterRequests, pc'[q] = "created"
               PROVE  Row(q)'.owner = q
    BY DEF CreatedIsOwner
  <2>1. q \in Requests
    BY DEF Requests
  <2>2. CASE q = p
    BY <1>1, <2>1, <2>2
  <2>3. CASE q # p
    BY <1>1, <1>b, <1>c, <2>1, <2>3 DEF CreatedIsOwner
  <2> QED
    BY <2>2, <2>3
<1>7. OneAccountPerEmail'
  BY <1>0, <1>b, <1>c DEF OneAccountPerEmail, Requests
<1>8. DecidedIsVerified'
  BY <1>1, <1>b DEF DecidedIsVerified
<1>9. TokenMeansVerified'
  BY <1>0, <1>b DEF TokenMeansVerified
<1> QED
  BY <1>2, <1>3, <1>4, <1>5, <1>6, <1>7, <1>8, <1>9

\* A read ends in an answer or takes the request on.
LEMMA ReadKeeps ==
    ASSUME IInv, NEW p \in Requests, NEW refusal \in Outcomes \ {"CREATED", "TOKEN"},
           NEW label \in {"create", "count", "activate", "reissue", "compare"},
           ReadThen(p, refusal, label),
           refusal = "NONE" /\ label \in {"count", "activate", "reissue"} => Registered(Row(p)),
           refusal = "NONE" /\ label = "activate" /\ p \in VerifyRequests =>
               code[p] \in issued[email[p]]
    PROVE  IInv'
<1>1. CASE refusal = "NONE"
  BY <1>1, GoesOnKeeps DEF ReadThen
<1>2. CASE refusal # "NONE"
  BY <1>2, AnswerKeeps DEF ReadThen
<1> QED
  BY <1>1, <1>2

(***************************************************************************)
(* The actions                                                             *)
(***************************************************************************)

\* register: the read, and the insert that the unique index refuses or accepts.
LEMMA RegisterKeeps ==
    ASSUME IInv, NEW p \in RegisterRequests, RegisterRead(p) \/ RegisterCreate(p)
    PROVE  IInv'
<1>0. p \in Requests /\ TypeOK
  BY DEF Requests, IInv
<1>1. CASE RegisterRead(p)
  BY <1>0, <1>1, ReadKeeps DEF RegisterRead, Outcomes
<1>2. CASE RegisterCreate(p) /\ Registered(Row(p))
  BY <1>0, <1>2, AnswerKeeps DEF RegisterCreate, Outcomes
<1>3. CASE RegisterCreate(p) /\ ~Registered(Row(p))
  <2>1. PICK c \in Codes : /\ Write(p, NewRow(p, c))
                           /\ issued' = [issued EXCEPT ![email[p]] = @ \cup {c}]
    BY <1>3 DEF RegisterCreate
  <2>2. Written(p, "created") /\ UNCHANGED inputs
    BY <1>3 DEF RegisterCreate
  <2>3. /\ NewRow(p, c) \in Rows /\ Registered(NewRow(p, c)) /\ NewRow(p, c).owner = p
        /\ ~NewRow(p, c).expired /\ NewRow(p, c).hash = c
    BY NoneIsNone DEF NewRow, NoRow, Rows, Registered
  <2>4. ~Row(p).verified
    BY <1>0, <1>3, RowTyped, NoRowTyped DEF IInv, UnregisteredIsEmpty, Row
  <2>5. /\ email[p] \in Emails
        /\ issued' \in [Emails -> SUBSET Codes]
        /\ \A e \in Emails : issued[e] \subseteq issued'[e]
        /\ c \in issued'[email[p]]
    BY <1>0, <2>1 DEF TypeOK
  <2> QED
    BY <1>0, <1>3, <2>1, <2>2, <2>3, <2>4, <2>5, WriteKeeps
<1> QED
  BY <1>1, <1>2, <1>3

\* verifyOtp: the read with its checks, the count of a wrong code, the activation.
LEMMA VerifyKeeps ==
    ASSUME IInv, NEW p \in VerifyRequests,
           VerifyRead(p) \/ VerifyCount(p) \/ VerifyActivate(p)
    PROVE  IInv'
<1>0. p \in Requests /\ TypeOK /\ email[p] \in Emails /\ Row(p) \in Rows
  BY RowTyped DEF Requests, IInv
<1>1. CASE VerifyRead(p)
  <2>1. VerifyRefusal(Row(p)) \in Outcomes \ {"CREATED", "TOKEN"}
    BY DEF VerifyRefusal, Outcomes
  <2>2. VerifyRefusal(Row(p)) = "NONE" => Registered(Row(p)) /\ Row(p).hash # NoCode
    BY DEF VerifyRefusal
  <2>3. Row(p).hash # NoCode => Row(p).hash \in issued[email[p]]
    BY <1>0 DEF IInv, CodesAreIssued, Row
  <2>4. CASE code[p] = Row(p).hash
    BY <1>0, <1>1, <2>1, <2>2, <2>3, <2>4, ReadKeeps DEF VerifyRead
  <2>5. CASE code[p] # Row(p).hash
    BY <1>0, <1>1, <2>1, <2>2, <2>5, ReadKeeps DEF VerifyRead
  <2> QED
    BY <2>4, <2>5
<1>a. pc[p] \in {"count", "activate"} => Registered(Row(p))
  BY <1>0 DEF IInv, WritersChecked
<1>b. /\ Row(p).expired => Row(p).hash # NoCode
      /\ Row(p).hash # NoCode => Row(p).hash \in issued[email[p]]
  BY <1>0 DEF IInv, TypeOK, CodesAreIssued, Row
<1>2. CASE VerifyCount(p)
  <2> DEFINE row == [Row(p) EXCEPT !.attempts = @ + 1]
  <2>1. /\ row \in Rows /\ row.owner = Row(p).owner /\ row.verified = Row(p).verified
        /\ row.hash = Row(p).hash /\ row.expired = Row(p).expired
    BY <1>0 DEF Rows
  <2>2. Write(p, row) /\ Written(p, "counted") /\ UNCHANGED <<inputs, issued>>
        /\ pc[p] = "count"
    BY <1>2 DEF VerifyCount
  <2>3. Registered(row)
    BY <1>a, <2>1, <2>2 DEF Registered
  <2> HIDE DEF row
  <2>4. issued' \in [Emails -> SUBSET Codes]
    BY <1>0, <2>2 DEF TypeOK
  <2> QED
    BY <1>0, <1>b, <2>1, <2>2, <2>3, <2>4, WriteKeeps
<1>3. CASE VerifyActivate(p)
  <2> DEFINE row == [Row(p) EXCEPT !.verified = TRUE, !.hash = NoCode, !.expired = FALSE,
                                   !.attempts = 0]
  <2>1. /\ row \in Rows /\ row.owner = Row(p).owner /\ row.verified
        /\ row.hash = NoCode /\ ~row.expired
    BY <1>0 DEF Rows
  <2>2. Write(p, row) /\ Written(p, "activated") /\ UNCHANGED <<inputs, issued>>
        /\ pc[p] = "activate"
    BY <1>3 DEF VerifyActivate
  <2>3. Registered(row)
    BY <1>a, <2>1, <2>2 DEF Registered
  <2> HIDE DEF row
  <2>4. issued' \in [Emails -> SUBSET Codes]
    BY <1>0, <2>2 DEF TypeOK
  <2> QED
    BY <1>0, <2>1, <2>2, <2>3, <2>4, WriteKeeps
<1> QED
  BY <1>1, <1>2, <1>3

\* resendOtp: the read, and the write of a fresh code into the row as it is then.
LEMMA ResendKeeps ==
    ASSUME IInv, NEW p \in ResendRequests, ResendRead(p) \/ ResendWrite(p)
    PROVE  IInv'
<1>0. p \in Requests /\ TypeOK /\ email[p] \in Emails /\ Row(p) \in Rows
  BY RowTyped DEF Requests, IInv
<1>1. CASE ResendRead(p)
  BY <1>0, <1>1, ReadKeeps DEF ResendRead, Outcomes
<1>2. CASE ResendWrite(p)
  <2>1. PICK c \in Codes :
           /\ Write(p, [Row(p) EXCEPT !.hash = c, !.expired = FALSE, !.attempts = 0])
           /\ issued' = [issued EXCEPT ![email[p]] = @ \cup {c}]
    BY <1>2 DEF ResendWrite
  <2> DEFINE row == [Row(p) EXCEPT !.hash = c, !.expired = FALSE, !.attempts = 0]
  <2>2. /\ row \in Rows /\ row.owner = Row(p).owner /\ row.verified = Row(p).verified
        /\ row.hash = c /\ ~row.expired
    BY <1>0 DEF Rows
  <2>3. Write(p, row) /\ Written(p, "resent") /\ UNCHANGED inputs /\ pc[p] = "reissue"
    BY <1>2, <2>1 DEF ResendWrite
  <2>4. Registered(Row(p)) /\ Registered(row)
    BY <1>0, <2>2, <2>3 DEF IInv, WritersChecked, Registered
  <2> HIDE DEF row
  <2>5. /\ issued' \in [Emails -> SUBSET Codes]
        /\ \A e \in Emails : issued[e] \subseteq issued'[e]
        /\ c \in issued'[email[p]]
    BY <1>0, <2>1 DEF TypeOK
  <2> QED
    BY <1>0, <2>2, <2>3, <2>4, <2>5, WriteKeeps
<1> QED
  BY <1>1, <1>2

\* login: the read, and the comparison with the row as it was read.
LEMMA LoginKeeps ==
    ASSUME IInv, NEW p \in LoginRequests, LoginRead(p) \/ LoginCompare(p)
    PROVE  IInv'
<1>0. p \in Requests /\ TypeOK
  BY DEF Requests, IInv
<1>1. CASE LoginRead(p)
  BY <1>0, <1>1, ReadKeeps DEF LoginRead, Outcomes
<1>2. CASE LoginCompare(p)
  <2> DEFINE reply == IF password[p] # seen[p].owner THEN "INVALID_CREDENTIALS"
                      ELSE IF ~seen[p].verified THEN "ACCOUNT_UNVERIFIED"
                      ELSE "TOKEN"
  <2>1. pc[p] = "compare" /\ Answer(p, reply) /\ UNCHANGED <<inputs, user, issued>>
    BY <1>2 DEF LoginCompare
  <2>2. reply \in Outcomes \ {"CREATED"}
    BY DEF Outcomes
  <2>3. reply = "TOKEN" => Row(p).verified
    BY <1>0, <2>1 DEF IInv, DecidedIsVerified
  <2> HIDE DEF reply
  <2> QED
    BY <1>0, <2>1, <2>2, <2>3, AnswerKeeps
<1> QED
  BY <1>1, <1>2

\* The answer after a write, and the failure of a request at any point.
LEMMA RespondKeeps ==
    ASSUME IInv, NEW p \in Requests, Respond(p) \/ RequestFails(p)
    PROVE  IInv'
<1>1. CASE Respond(p)
  <2>1. /\ pc[p] \in {"created", "counted", "activated", "resent"}
        /\ Answer(p, Reply(pc[p])) /\ UNCHANGED <<inputs, user, issued>>
    BY <1>1 DEF Respond
  <2>2. CASE pc[p] = "created"
    BY <2>1, <2>2, AnswerKeeps DEF Reply, Outcomes, IInv, CreatedIsOwner
  <2>3. CASE pc[p] = "counted"
    BY <2>1, <2>3, AnswerKeeps DEF Reply, Outcomes
  <2>4. CASE pc[p] = "activated"
    BY <2>1, <2>4, AnswerKeeps DEF Reply, Outcomes, IInv, DecidedIsVerified
  <2>5. CASE pc[p] = "resent"
    BY <2>1, <2>5, AnswerKeeps DEF Reply, Outcomes
  <2> QED
    BY <2>1, <2>2, <2>3, <2>4, <2>5
<1>2. CASE RequestFails(p)
  BY <1>2, AnswerKeeps DEF RequestFails, Outcomes
<1> QED
  BY <1>1, <1>2

\* Only a code that is there expires.
LEMMA ExpireKeeps ==
    ASSUME IInv, NEW e \in Emails, Expire(e)
    PROVE  IInv'
<1> USE DEF IInv
<1>0. /\ user' = [user EXCEPT ![e].expired = TRUE] /\ user[e].hash # NoCode
      /\ UNCHANGED <<email, code, password, issued, pc, outcome, seen>>
  BY DEF Expire, inputs
<1>1. \A d \in Emails : /\ user'[d] \in Rows
                        /\ user'[d].owner = user[d].owner
                        /\ user'[d].verified = user[d].verified
                        /\ user'[d].hash = user[d].hash
                        /\ d # e => user'[d] = user[d]
  <2>1. user[e] \in Rows /\ user' = [user EXCEPT ![e] = [user[e] EXCEPT !.expired = TRUE]]
    BY <1>0 DEF TypeOK
  <2>2. \A d \in Emails : user[d] \in Rows /\ (d # e => user'[d] = user[d])
    BY <2>1 DEF TypeOK
  <2>3. user'[e] = [user[e] EXCEPT !.expired = TRUE]
    BY <2>1 DEF TypeOK
  <2>4. [user[e] EXCEPT !.expired = TRUE] \in Rows
    BY <2>1 DEF Rows
  <2>5. /\ [user[e] EXCEPT !.expired = TRUE].owner = user[e].owner
        /\ [user[e] EXCEPT !.expired = TRUE].verified = user[e].verified
        /\ [user[e] EXCEPT !.expired = TRUE].hash = user[e].hash
    BY <2>1 DEF Rows
  <2> QED
    BY <2>2, <2>3, <2>4, <2>5
<1>2. \A q \in Requests : Row(q)'.owner = Row(q).owner /\ Row(q)'.verified = Row(q).verified
  BY <1>0, <1>1, RowTyped DEF Row
<1>3. TypeOK'
  <2>1. user' \in [Emails -> Rows]
    BY <1>0, <1>1 DEF TypeOK
  <2>2. \A d \in Emails : user'[d].expired => user'[d].hash # NoCode
    BY <1>0, <1>1 DEF TypeOK
  <2> QED
    BY <1>0, <2>1, <2>2 DEF TypeOK
<1>4. UnregisteredIsEmpty'
  BY <1>0, <1>1, NoRowTyped DEF UnregisteredIsEmpty, Registered
<1>5. WritersChecked'
  BY <1>0, <1>2 DEF WritersChecked, Registered
<1>6. CodesAreIssued'
  BY <1>0, <1>1 DEF CodesAreIssued
<1>7. CreatedIsOwner' /\ OneAccountPerEmail'
  BY <1>0, <1>2 DEF CreatedIsOwner, OneAccountPerEmail, Requests
<1>8. DecidedIsVerified' /\ TokenMeansVerified'
  BY <1>0, <1>2 DEF DecidedIsVerified, TokenMeansVerified
<1> QED
  BY <1>3, <1>4, <1>5, <1>6, <1>7, <1>8

(***************************************************************************)
(* The theorems                                                            *)
(***************************************************************************)

\* At the start no address has a row and no request has read anything.
LEMMA InitKeeps == Init => IInv
<1> SUFFICES ASSUME Init PROVE IInv
  OBVIOUS
<1>1. TypeOK
  BY NoRowTyped DEF Init, TypeOK, Labels, Outcomes
<1>2. \A p \in Requests : pc[p] = "idle" /\ outcome[p] = "NONE"
  BY DEF Init
<1>3. \A e \in Emails : user[e] = NoRow
  BY DEF Init
<1>4. UnregisteredIsEmpty /\ CodesAreIssued
  BY <1>2, <1>3, NoRowTyped DEF UnregisteredIsEmpty, CodesAreIssued, Requests
<1>5. WritersChecked /\ CreatedIsOwner /\ DecidedIsVerified
  BY <1>2 DEF WritersChecked, CreatedIsOwner, DecidedIsVerified, Requests
<1>6. OneAccountPerEmail /\ TokenMeansVerified
  BY <1>2 DEF OneAccountPerEmail, TokenMeansVerified, Requests
<1> QED
  BY <1>1, <1>4, <1>5, <1>6 DEF IInv

\* Every step keeps the invariant.
LEMMA NextKeeps == IInv /\ [Next]_vars => IInv'
<1> SUFFICES ASSUME IInv, [Next]_vars PROVE IInv'
  OBVIOUS
<1>1. ASSUME NEW p \in RegisterRequests, RegisterRead(p) \/ RegisterCreate(p) PROVE IInv'
  BY <1>1, RegisterKeeps
<1>2. ASSUME NEW p \in VerifyRequests, VerifyRead(p) \/ VerifyCount(p) \/ VerifyActivate(p)
      PROVE  IInv'
  BY <1>2, VerifyKeeps
<1>3. ASSUME NEW p \in ResendRequests, ResendRead(p) \/ ResendWrite(p) PROVE IInv'
  BY <1>3, ResendKeeps
<1>4. ASSUME NEW p \in LoginRequests, LoginRead(p) \/ LoginCompare(p) PROVE IInv'
  BY <1>4, LoginKeeps
<1>5. ASSUME NEW p \in Requests, Respond(p) \/ RequestFails(p) PROVE IInv'
  BY <1>5, RespondKeeps
<1>6. ASSUME NEW e \in Emails, Expire(e) PROVE IInv'
  BY <1>6, ExpireKeeps
<1>7. CASE UNCHANGED vars
  BY <1>7 DEF vars, inputs, IInv, TypeOK, UnregisteredIsEmpty, WritersChecked,
              CodesAreIssued, CreatedIsOwner, OneAccountPerEmail, DecidedIsVerified,
              TokenMeansVerified, Row, Registered
<1> QED
  BY <1>1, <1>2, <1>3, <1>4, <1>5, <1>6, <1>7 DEF Next

\* What the requests read and the rows they write fit together in every state.
THEOREM Invariant == Spec => []IInv
BY InitKeeps, NextKeeps, PTL DEF Spec

\* Only one registration of an address is told CREATED, and the account stays
\* its own.
THEOREM OneAccount == Spec => []OneAccountPerEmail
<1>1. IInv => OneAccountPerEmail
  BY DEF IInv
<1> QED
  BY Invariant, <1>1, PTL

\* Whoever was given a token has an account that is verified, and stays so.
THEOREM TokenVerified == Spec => []TokenMeansVerified
<1>1. IInv => TokenMeansVerified
  BY DEF IInv
<1> QED
  BY Invariant, <1>1, PTL

\* Which row a step writes, and what becomes of its verification and attempts.
LEMMA RowSteps ==
    ASSUME IInv, Next, NEW e \in Emails
    PROVE  \/ user'[e].verified = user[e].verified /\ user'[e].attempts >= user[e].attempts
           \/ /\ ~Registered(user[e]) /\ ~user'[e].verified /\ user'[e].attempts = 0
           \/ \E p \in VerifyRequests : /\ pc[p] = "activate" /\ email[p] = e
                                        /\ pc'[p] = "activated"
           \/ \E p \in ResendRequests : /\ pc[p] = "reissue" /\ email[p] = e
                                        /\ pc'[p] = "resent"
                                        /\ user'[e].verified = user[e].verified
<1> USE DEF IInv
<1>0. /\ TypeOK /\ user[e] \in Rows /\ user[e].attempts \in Nat
      /\ \A p \in Requests : email[p] \in Emails /\ Row(p) \in Rows
      /\ RegisterRequests \subseteq Requests /\ VerifyRequests \subseteq Requests
      /\ ResendRequests \subseteq Requests
  BY RowTyped DEF TypeOK, Rows, Requests
<1>1. CASE UNCHANGED user
  BY <1>0, <1>1
<1>2. ASSUME NEW p \in RegisterRequests, RegisterCreate(p), ~Registered(Row(p))
      PROVE  \/ UNCHANGED user[e]
             \/ ~Registered(user[e]) /\ ~user'[e].verified /\ user'[e].attempts = 0
  <2>1. PICK c \in Codes : Write(p, NewRow(p, c))
    BY <1>2 DEF RegisterCreate
  <2>2. CASE e = email[p]
    BY <1>0, <1>2, <2>1, <2>2 DEF Write, TypeOK, Row, NewRow, NoRow
  <2>3. CASE e # email[p]
    BY <1>0, <2>1, <2>3 DEF Write, TypeOK
  <2> QED
    BY <2>2, <2>3
<1>3. ASSUME NEW p \in VerifyRequests, VerifyCount(p)
      PROVE  user'[e].verified = user[e].verified /\ user'[e].attempts >= user[e].attempts
  <2>1. Write(p, [Row(p) EXCEPT !.attempts = @ + 1])
    BY <1>3 DEF VerifyCount
  <2>2. CASE e = email[p]
    BY <1>0, <2>1, <2>2 DEF Write, TypeOK, Row, Rows
  <2>3. CASE e # email[p]
    BY <1>0, <2>1, <2>3 DEF Write, TypeOK
  <2> QED
    BY <2>2, <2>3
<1>4. ASSUME NEW p \in VerifyRequests, VerifyActivate(p)
      PROVE  \/ UNCHANGED user[e]
             \/ pc[p] = "activate" /\ email[p] = e /\ pc'[p] = "activated"
  BY <1>0, <1>4 DEF VerifyActivate, Write, Written, TypeOK
<1>5. ASSUME NEW p \in ResendRequests, ResendWrite(p)
      PROVE  \/ UNCHANGED user[e]
             \/ /\ pc[p] = "reissue" /\ email[p] = e /\ pc'[p] = "resent"
                /\ user'[e].verified = user[e].verified
  <2>1. PICK c \in Codes :
           Write(p, [Row(p) EXCEPT !.hash = c, !.expired = FALSE, !.attempts = 0])
    BY <1>5 DEF ResendWrite
  <2>2. pc[p] = "reissue" /\ pc'[p] = "resent"
    BY <1>0, <1>5 DEF ResendWrite, Written, TypeOK
  <2>3. CASE e = email[p]
    BY <1>0, <2>1, <2>2, <2>3 DEF Write, TypeOK, Row, Rows
  <2>4. CASE e # email[p]
    BY <1>0, <2>1, <2>4 DEF Write, TypeOK
  <2> QED
    BY <2>3, <2>4
<1>6. ASSUME NEW d \in Emails, Expire(d)
      PROVE  user'[e].verified = user[e].verified /\ user'[e].attempts = user[e].attempts
  BY <1>0, <1>6 DEF Expire, TypeOK, Rows
<1>7. ASSUME NEW p \in Requests,
             \/ RegisterRead(p) \/ VerifyRead(p) \/ ResendRead(p) \/ LoginRead(p)
             \/ LoginCompare(p) \/ Respond(p) \/ RequestFails(p)
             \/ RegisterCreate(p) /\ Registered(Row(p))
      PROVE  UNCHANGED user
  BY <1>7 DEF RegisterRead, VerifyRead, ResendRead, LoginRead, LoginCompare, Respond,
              RequestFails, RegisterCreate, ReadThen
<1>8. LoginRequests \subseteq Requests
  BY DEF Requests
<1> QED
  BY <1>0, <1>1, <1>2, <1>3, <1>4, <1>5, <1>6, <1>7, <1>8 DEF Next

\* An account is only verified by a code that was stored for its address.
THEOREM ActivationNeedsCode == Spec => ActivatedByIssuedCode
<1>1. IInv /\ [Next]_vars =>
          [\A e \in Emails :
              ~user[e].verified /\ user'[e].verified =>
                  \E p \in VerifyRequests :
                     pc[p] = "activate" /\ email[p] = e /\ code[p] \in issued[e]]_vars
  <2> SUFFICES ASSUME IInv, Next, NEW e \in Emails, ~user[e].verified, user'[e].verified
               PROVE  \E p \in VerifyRequests :
                         pc[p] = "activate" /\ email[p] = e /\ code[p] \in issued[e]
    OBVIOUS
  <2>1. \E p \in VerifyRequests : pc[p] = "activate" /\ email[p] = e
    BY RowSteps
  <2> QED
    BY <2>1 DEF IInv, CodesAreIssued
<1> QED
  BY Invariant, <1>1, PTL DEF Spec, ActivatedByIssuedCode

\* Failed attempts are forgotten only with the code they were made on.
THEOREM AttemptsKept == Spec => AttemptsForgottenWithCode
<1>1. IInv /\ [Next]_vars =>
          [\A e \in Emails :
              user'[e].attempts < user[e].attempts =>
                  \E p \in Requests : email[p] = e /\ pc[p] \in {"reissue", "activate"}
                                      /\ pc'[p] \in {"resent", "activated"}]_vars
  <2> SUFFICES ASSUME IInv, Next, NEW e \in Emails, user'[e].attempts < user[e].attempts
               PROVE  \E p \in Requests : email[p] = e /\ pc[p] \in {"reissue", "activate"}
                                          /\ pc'[p] \in {"resent", "activated"}
    OBVIOUS
  <2>1. user[e].attempts \in Nat
    BY DEF IInv, TypeOK, Rows
  <2>2. ~Registered(user[e]) => user[e].attempts = 0
    BY DEF IInv, UnregisteredIsEmpty, NoRow
  <2>3. IInv'
    BY NextKeeps
  <2>4. user'[e].attempts \in Nat
    BY <2>3 DEF IInv, TypeOK, Rows
  <2> QED
    BY <2>1, <2>2, <2>4, RowSteps DEF Requests
<1> QED
  BY Invariant, <1>1, PTL DEF Spec, AttemptsForgottenWithCode
(***************************************************************************)
(* Accounts: what the requests promise together                            *)
(***************************************************************************)

\* How a request came to be about to answer.  Only a request still on its way
\* has a token before it; a verification that has written had a stored code;
\* and the account a login compares with still has the owner that was read.
OnTheWay ==
    \A p \in Requests :
        /\ outcome[p] = "TOKEN" => pc[p] = "done"
        /\ pc[p] = "activate" => p \in VerifyRequests
        /\ pc[p] = "activated" => p \in VerifyRequests /\ code[p] \in issued[email[p]]
        /\ pc[p] = "compare" => /\ p \in LoginRequests
                                /\ Registered(Row(p)) /\ seen[p].owner = Row(p).owner

\* What a step may do to the accounts: nothing, or one step of Accounts.
AccountStep == Account!Next \/ UNCHANGED Account!vars

\* An account's owner, verification and codes as they come out of its row.
LEMMA AccountOf ==
    ASSUME TypeOK
    PROVE  /\ OwnerOf \in [Emails -> RegisterRequests \cup {NoUser}]
           /\ VerifiedOf \in [Emails -> BOOLEAN]
           /\ \A p \in Requests : /\ OwnerOf[email[p]] = Row(p).owner
                                  /\ VerifiedOf[email[p]] = Row(p).verified
BY DEF TypeOK, Rows, OwnerOf, VerifiedOf, Row

\* An answer gives a token to nobody but, perhaps, the client it answers.
LEMMA AnswerSteps ==
    ASSUME IInv, OnTheWay, NEW p \in Requests, NEW reply \in Outcomes,
           pc[p] # "done", Answer(p, reply), UNCHANGED <<inputs, user, issued>>,
           reply = "TOKEN" => Account!Entitled(p)
    PROVE  AccountStep /\ OnTheWay'
<1>0. TypeOK /\ outcome[p] # "TOKEN"
  BY DEF IInv, OnTheWay
<1>1. /\ pc' = [pc EXCEPT ![p] = "done"]
      /\ outcome' = [outcome EXCEPT ![p] = reply]
      /\ seen' = [seen EXCEPT ![p] = NoRow]
      /\ UNCHANGED <<email, code, password, user, issued>>
  BY DEF Answer, Forget, inputs
<1>2. /\ UNCHANGED <<OwnerOf, VerifiedOf, issued>> /\ UNCHANGED Account!given
      /\ Tokens' = IF reply = "TOKEN" THEN Tokens \cup {p} ELSE Tokens
  BY <1>0, <1>1 DEF OwnerOf, VerifiedOf, Account!given, Tokens, TypeOK
<1>3. AccountStep
  <2>1. CASE reply = "TOKEN"
    BY <1>2, <2>1 DEF AccountStep, Account!Next, Account!GiveToken
  <2>2. CASE reply # "TOKEN"
    BY <1>2, <2>2 DEF AccountStep, Account!vars
  <2> QED
    BY <2>1, <2>2
<1>4. OnTheWay'
  <2>1. \A q \in Requests : /\ pc'[q] = IF q = p THEN "done" ELSE pc[q]
                            /\ outcome'[q] = IF q = p THEN reply ELSE outcome[q]
                            /\ seen'[q] = IF q = p THEN NoRow ELSE seen[q]
                            /\ Row(q)' = Row(q)
    BY <1>0, <1>1 DEF TypeOK, Row
  <2> QED
    BY <1>1, <2>1 DEF OnTheWay, Registered
<1> QED
  BY <1>3, <1>4

\* Going on from a read does nothing to an account.
LEMMA GoesOnSteps ==
    ASSUME IInv, OnTheWay, NEW p \in Requests,
           NEW label \in {"create", "count", "activate", "reissue", "compare"},
           pc[p] = "idle", pc' = [pc EXCEPT ![p] = label],
           seen' = [seen EXCEPT ![p] = Seen(Row(p))],
           UNCHANGED <<inputs, user, issued, outcome>>,
           label = "activate" => p \in VerifyRequests,
           label = "compare" => p \in LoginRequests /\ Registered(Row(p))
    PROVE  AccountStep /\ OnTheWay'
<1>0. TypeOK /\ UNCHANGED <<email, code, password, user, issued, outcome>>
  BY DEF IInv, inputs
<1>1. AccountStep
  BY <1>0 DEF AccountStep, Account!vars, Account!given, OwnerOf, VerifiedOf, Tokens
<1>2. Seen(Row(p)).owner = Row(p).owner
  BY <1>0, RowTyped DEF Seen, Rows
<1>3. \A q \in Requests : /\ pc'[q] = IF q = p THEN label ELSE pc[q]
                          /\ seen'[q] = IF q = p THEN Seen(Row(p)) ELSE seen[q]
                          /\ Row(q)' = Row(q)
  BY <1>0 DEF TypeOK, Row
<1>4. OnTheWay'
  BY <1>0, <1>2, <1>3 DEF OnTheWay, Registered
<1> QED
  BY <1>1, <1>4

\* A read ends in an answer that is no token, or takes the request on.
LEMMA ReadSteps ==
    ASSUME IInv, OnTheWay, NEW p \in Requests, NEW refusal \in Outcomes \ {"TOKEN"},
           NEW label \in {"create", "count", "activate", "reissue", "compare"},
           ReadThen(p, refusal, label),
           label = "activate" => p \in VerifyRequests,
           label = "compare" /\ refusal = "NONE" => p \in LoginRequests /\ Registered(Row(p))
    PROVE  AccountStep /\ OnTheWay'
<1>1. CASE refusal = "NONE"
  BY <1>1, GoesOnSteps DEF ReadThen
<1>2. CASE refusal # "NONE"
  BY <1>2, AnswerSteps DEF ReadThen
<1> QED
  BY <1>1, <1>2

\* A write leaves the other accounts alone.  If it keeps an owner, and keeps or
\* adds to the codes, what was decided on the row stays true.
LEMMA WriteSteps ==
    ASSUME IInv, OnTheWay, NEW p \in Requests, NEW row \in Rows,
           NEW label \in {"created", "counted", "activated", "resent"},
           pc[p] # "done", Write(p, row), Written(p, label), UNCHANGED inputs,
           \A e \in Emails : issued[e] \subseteq issued'[e],
           Registered(row),
           Registered(Row(p)) => row.owner = Row(p).owner,
           label = "activated" => p \in VerifyRequests /\ code[p] \in issued'[email[p]]
    PROVE  /\ OwnerOf' = [OwnerOf EXCEPT ![email[p]] = row.owner]
           /\ VerifiedOf' = [VerifiedOf EXCEPT ![email[p]] = row.verified]
           /\ UNCHANGED Tokens /\ UNCHANGED Account!given
           /\ OnTheWay'
<1>0. /\ TypeOK
      /\ user' = [user EXCEPT ![email[p]] = row]
      /\ pc' = [pc EXCEPT ![p] = label]
      /\ seen' = [seen EXCEPT ![p] = NoRow]
      /\ UNCHANGED <<email, code, password, outcome>>
  BY DEF IInv, Write, Written, Forget, inputs
<1>1. \A e \in Emails : user'[e] = IF e = email[p] THEN row ELSE user[e]
  BY <1>0 DEF TypeOK
<1>2. /\ OwnerOf' = [OwnerOf EXCEPT ![email[p]] = row.owner]
      /\ VerifiedOf' = [VerifiedOf EXCEPT ![email[p]] = row.verified]
  BY <1>1 DEF OwnerOf, VerifiedOf
<1>3. UNCHANGED Tokens /\ UNCHANGED Account!given
  BY <1>0 DEF Tokens, Account!given
<1>4. \A q \in Requests : /\ pc'[q] = IF q = p THEN label ELSE pc[q]
                          /\ seen'[q] = IF q = p THEN NoRow ELSE seen[q]
                          /\ email[q] \in Emails
                          /\ Row(q)' = IF email[q] = email[p] THEN row ELSE Row(q)
                          /\ email[q] = email[p] => Row(q) = Row(p)
  BY <1>0, <1>1 DEF TypeOK, Row
<1>5. OnTheWay'
  <2> SUFFICES ASSUME NEW q \in Requests
               PROVE  /\ outcome'[q] = "TOKEN" => pc'[q] = "done"
                      /\ pc'[q] = "activate" => q \in VerifyRequests
                      /\ pc'[q] = "activated" => /\ q \in VerifyRequests
                                                 /\ code'[q] \in issued'[email'[q]]
                      /\ pc'[q] = "compare" => /\ q \in LoginRequests
                                               /\ Registered(Row(q)')
                                               /\ seen'[q].owner = Row(q)'.owner
    BY DEF OnTheWay, Registered
  <2>1. CASE q = p
    BY <1>0, <1>4, <2>1 DEF OnTheWay
  <2>2. CASE q # p
    BY <1>0, <1>4, <2>2 DEF OnTheWay
  <2> QED
    BY <2>1, <2>2
<1> QED
  BY <1>2, <1>3, <1>5
\* register: the insert gives an address without one an owner and a code.
LEMMA RegisterSteps ==
    ASSUME IInv, OnTheWay, NEW p \in RegisterRequests, RegisterRead(p) \/ RegisterCreate(p)
    PROVE  AccountStep /\ OnTheWay'
<1>0. p \in Requests /\ TypeOK
  BY DEF Requests, IInv
<1>1. CASE RegisterRead(p)
  BY <1>0, <1>1, ReadSteps DEF RegisterRead, Outcomes
<1>2. CASE RegisterCreate(p) /\ Registered(Row(p))
  BY <1>0, <1>2, AnswerSteps DEF RegisterCreate, Outcomes
<1>3. CASE RegisterCreate(p) /\ ~Registered(Row(p))
  <2>1. PICK c \in Codes : /\ Write(p, NewRow(p, c))
                           /\ issued' = [issued EXCEPT ![email[p]] = @ \cup {c}]
    BY <1>3 DEF RegisterCreate
  <2>2. pc[p] = "create" /\ Written(p, "created") /\ UNCHANGED inputs
    BY <1>3 DEF RegisterCreate
  <2>3. /\ NewRow(p, c) \in Rows /\ Registered(NewRow(p, c)) /\ NewRow(p, c).owner = p
        /\ NewRow(p, c).verified = FALSE
    BY NoneIsNone DEF NewRow, NoRow, Rows, Registered
  <2>4. \A e \in Emails : issued[e] \subseteq issued'[e]
    BY <1>0, <2>1 DEF TypeOK
  <2>5. /\ OwnerOf' = [OwnerOf EXCEPT ![email[p]] = p]
        /\ VerifiedOf' = [VerifiedOf EXCEPT ![email[p]] = FALSE]
        /\ UNCHANGED Tokens /\ UNCHANGED Account!given
        /\ OnTheWay'
    BY <1>0, <1>3, <2>1, <2>2, <2>3, <2>4, WriteSteps
  <2>6. OwnerOf[email[p]] = NoUser /\ VerifiedOf[email[p]] = FALSE
    BY <1>0, <1>3, AccountOf, RowTyped, NoRowTyped
    DEF IInv, UnregisteredIsEmpty, Row, Registered, NoRow
  <2>7. UNCHANGED VerifiedOf
    BY <1>0, <2>5, <2>6, AccountOf
  <2>8. Account!Register(p, c)
    BY <2>1, <2>5, <2>6, <2>7 DEF Account!Register, Account!Issue
  <2> QED
    BY <2>5, <2>8 DEF AccountStep, Account!Next
<1> QED
  BY <1>1, <1>2, <1>3

\* verifyOtp: only the activation does something to the account, and only with
\* a code that was stored for it.
LEMMA VerifySteps ==
    ASSUME IInv, OnTheWay, NEW p \in VerifyRequests,
           VerifyRead(p) \/ VerifyCount(p) \/ VerifyActivate(p)
    PROVE  AccountStep /\ OnTheWay'
<1>0. p \in Requests /\ TypeOK /\ email[p] \in Emails /\ Row(p) \in Rows
  BY RowTyped DEF Requests, IInv
<1>a. pc[p] \in {"count", "activate"} => Registered(Row(p))
  BY <1>0 DEF IInv, WritersChecked
<1>b. /\ OwnerOf = [OwnerOf EXCEPT ![email[p]] = Row(p).owner]
      /\ VerifiedOf = [VerifiedOf EXCEPT ![email[p]] = Row(p).verified]
      /\ OwnerOf[email[p]] = Row(p).owner
  BY <1>0, AccountOf
<1>1. CASE VerifyRead(p)
  <2>1. VerifyRefusal(Row(p)) \in Outcomes \ {"TOKEN"}
    BY DEF VerifyRefusal, Outcomes
  <2> QED
    BY <1>0, <1>1, <2>1, ReadSteps DEF VerifyRead
<1>2. CASE VerifyCount(p)
  <2> DEFINE row == [Row(p) EXCEPT !.attempts = @ + 1]
  <2>1. row \in Rows /\ row.owner = Row(p).owner /\ row.verified = Row(p).verified
    BY <1>0 DEF Rows
  <2>2. Write(p, row) /\ Written(p, "counted") /\ UNCHANGED <<inputs, issued>>
        /\ pc[p] = "count"
    BY <1>2 DEF VerifyCount
  <2>3. Registered(row)
    BY <1>a, <2>1, <2>2 DEF Registered
  <2> HIDE DEF row
  <2>4. /\ UNCHANGED <<OwnerOf, VerifiedOf, Tokens>> /\ UNCHANGED Account!given
        /\ OnTheWay'
    BY <1>0, <1>b, <2>1, <2>2, <2>3, WriteSteps
  <2> QED
    BY <2>2, <2>4 DEF AccountStep, Account!vars
<1>3. CASE VerifyActivate(p)
  <2> DEFINE row == [Row(p) EXCEPT !.verified = TRUE, !.hash = NoCode, !.expired = FALSE,
                                   !.attempts = 0]
  <2>1. row \in Rows /\ row.owner = Row(p).owner /\ row.verified = TRUE
    BY <1>0 DEF Rows
  <2>2. Write(p, row) /\ Written(p, "activated") /\ UNCHANGED <<inputs, issued>>
        /\ pc[p] = "activate"
    BY <1>3 DEF VerifyActivate
  <2>3. Registered(Row(p)) /\ Registered(row)
    BY <1>a, <2>1, <2>2 DEF Registered
  <2>4. code[p] \in issued[email[p]]
    BY <2>2 DEF IInv, CodesAreIssued
  <2> HIDE DEF row
  <2>5. /\ OwnerOf' = [OwnerOf EXCEPT ![email[p]] = Row(p).owner]
        /\ VerifiedOf' = [VerifiedOf EXCEPT ![email[p]] = TRUE]
        /\ UNCHANGED Tokens /\ UNCHANGED Account!given
        /\ OnTheWay'
    BY <1>0, <2>1, <2>2, <2>3, <2>4, WriteSteps
  <2>6. Account!Verify(p)
    BY <1>b, <2>2, <2>3, <2>4, <2>5 DEF Account!Verify, Account!HasCode, Registered
  <2> QED
    BY <2>5, <2>6 DEF AccountStep, Account!Next
<1> QED
  BY <1>1, <1>2, <1>3

\* resendOtp adds a code, and leaves the verification as it is by then.
LEMMA ResendSteps ==
    ASSUME IInv, OnTheWay, NEW p \in ResendRequests, ResendRead(p) \/ ResendWrite(p)
    PROVE  AccountStep /\ OnTheWay'
<1>0. p \in Requests /\ TypeOK /\ email[p] \in Emails /\ Row(p) \in Rows
  BY RowTyped DEF Requests, IInv
<1>1. CASE ResendRead(p)
  BY <1>0, <1>1, ReadSteps DEF ResendRead, Outcomes
<1>2. CASE ResendWrite(p)
  <2>1. PICK c \in Codes :
           /\ Write(p, [Row(p) EXCEPT !.hash = c, !.expired = FALSE, !.attempts = 0])
           /\ issued' = [issued EXCEPT ![email[p]] = @ \cup {c}]
    BY <1>2 DEF ResendWrite
  <2> DEFINE row == [Row(p) EXCEPT !.hash = c, !.expired = FALSE, !.attempts = 0]
  <2>2. row \in Rows /\ row.owner = Row(p).owner /\ row.verified = Row(p).verified
    BY <1>0 DEF Rows
  <2>3. Write(p, row) /\ Written(p, "resent") /\ UNCHANGED inputs /\ pc[p] = "reissue"
    BY <1>2, <2>1 DEF ResendWrite
  <2>4. Registered(Row(p)) /\ Registered(row)
    BY <1>0, <2>2, <2>3 DEF IInv, WritersChecked, Registered
  <2> HIDE DEF row
  <2>5. \A e \in Emails : issued[e] \subseteq issued'[e]
    BY <1>0, <2>1 DEF TypeOK
  <2>6. /\ OwnerOf' = [OwnerOf EXCEPT ![email[p]] = Row(p).owner]
        /\ VerifiedOf' = [VerifiedOf EXCEPT ![email[p]] = Row(p).verified]
        /\ UNCHANGED Tokens /\ UNCHANGED Account!given
        /\ OnTheWay'
    BY <1>0, <2>2, <2>3, <2>4, <2>5, WriteSteps
  <2>7. UNCHANGED <<OwnerOf, VerifiedOf>> /\ OwnerOf[email[p]] # NoUser
    BY <1>0, <2>4, <2>6, AccountOf DEF Registered
  <2>8. Account!Reissue(email[p], c)
    BY <2>1, <2>6, <2>7 DEF Account!Reissue, Account!Issue
  <2> QED
    BY <1>0, <2>6, <2>8 DEF AccountStep, Account!Next
<1> QED
  BY <1>1, <1>2

\* login gives a token to the owner's password alone, stale as its row may be.
LEMMA LoginSteps ==
    ASSUME IInv, OnTheWay, NEW p \in LoginRequests, LoginRead(p) \/ LoginCompare(p)
    PROVE  AccountStep /\ OnTheWay'
<1>0. p \in Requests /\ TypeOK
  BY DEF Requests, IInv
<1>1. CASE LoginRead(p)
  BY <1>0, <1>1, ReadSteps DEF LoginRead, Outcomes
<1>2. CASE LoginCompare(p)
  <2> DEFINE reply == IF password[p] # seen[p].owner THEN "INVALID_CREDENTIALS"
                      ELSE IF ~seen[p].verified THEN "ACCOUNT_UNVERIFIED"
                      ELSE "TOKEN"
  <2>1. pc[p] = "compare" /\ Answer(p, reply) /\ UNCHANGED <<inputs, user, issued>>
    BY <1>2 DEF LoginCompare
  <2>2. reply \in Outcomes
    BY DEF Outcomes
  <2>3. reply = "TOKEN" => Row(p).verified /\ password[p] = Row(p).owner
    BY <1>0, <2>1 DEF IInv, DecidedIsVerified, OnTheWay
  <2>4. reply = "TOKEN" => Account!Entitled(p)
    BY <1>0, <2>3, AccountOf DEF Account!Entitled, Account!HasPassword
  <2> HIDE DEF reply
  <2> QED
    BY <1>0, <2>1, <2>2, <2>4, AnswerSteps
<1> QED
  BY <1>1, <1>2

\* The answers after a write: the token of an activation is for its code.
LEMMA RespondSteps ==
    ASSUME IInv, OnTheWay, NEW p \in Requests, Respond(p) \/ RequestFails(p)
    PROVE  AccountStep /\ OnTheWay'
<1>1. CASE Respond(p)
  <2>1. /\ pc[p] \in {"created", "counted", "activated", "resent"}
        /\ Answer(p, Reply(pc[p])) /\ UNCHANGED <<inputs, user, issued>>
    BY <1>1 DEF Respond
  <2>2. Reply(pc[p]) \in Outcomes /\ (Reply(pc[p]) = "TOKEN" => pc[p] = "activated")
    BY <2>1 DEF Reply, Outcomes
  <2>3. pc[p] = "activated" => Account!Entitled(p)
    BY AccountOf DEF IInv, DecidedIsVerified, OnTheWay, Account!Entitled, Account!HasCode
  <2> QED
    BY <2>1, <2>2, <2>3, AnswerSteps
<1>2. CASE RequestFails(p)
  BY <1>2, AnswerSteps DEF RequestFails, Outcomes
<1> QED
  BY <1>1, <1>2

\* A code's expiry is no concern of the account.
LEMMA ExpireSteps ==
    ASSUME IInv, OnTheWay, NEW e \in Emails, Expire(e)
    PROVE  AccountStep /\ OnTheWay'
<1>0. TypeOK /\ user' = [user EXCEPT ![e].expired = TRUE]
      /\ UNCHANGED <<email, code, password, issued, pc, outcome, seen>>
  BY DEF IInv, Expire, inputs
<1>1. \A d \in Emails : user'[d].owner = user[d].owner /\ user'[d].verified = user[d].verified
  BY <1>0 DEF TypeOK, Rows
<1>2. UNCHANGED <<OwnerOf, VerifiedOf, Tokens>> /\ UNCHANGED Account!given
  BY <1>0, <1>1 DEF OwnerOf, VerifiedOf, Tokens, Account!given
<1>3. \A q \in Requests : Row(q)'.owner = Row(q).owner
  BY <1>0, <1>1 DEF Row, TypeOK
<1> QED
  BY <1>0, <1>2, <1>3 DEF AccountStep, Account!vars, OnTheWay, Registered

\* Every step is one of Accounts, or does nothing to any account.
LEMMA NextSteps ==
    ASSUME IInv, OnTheWay, [Next]_vars
    PROVE  AccountStep /\ OnTheWay'
<1>1. ASSUME NEW p \in RegisterRequests, RegisterRead(p) \/ RegisterCreate(p)
      PROVE  AccountStep /\ OnTheWay'
  BY <1>1, RegisterSteps
<1>2. ASSUME NEW p \in VerifyRequests, VerifyRead(p) \/ VerifyCount(p) \/ VerifyActivate(p)
      PROVE  AccountStep /\ OnTheWay'
  BY <1>2, VerifySteps
<1>3. ASSUME NEW p \in ResendRequests, ResendRead(p) \/ ResendWrite(p)
      PROVE  AccountStep /\ OnTheWay'
  BY <1>3, ResendSteps
<1>4. ASSUME NEW p \in LoginRequests, LoginRead(p) \/ LoginCompare(p)
      PROVE  AccountStep /\ OnTheWay'
  BY <1>4, LoginSteps
<1>5. ASSUME NEW p \in Requests, Respond(p) \/ RequestFails(p)
      PROVE  AccountStep /\ OnTheWay'
  BY <1>5, RespondSteps
<1>6. ASSUME NEW e \in Emails, Expire(e) PROVE AccountStep /\ OnTheWay'
  BY <1>6, ExpireSteps
<1>7. CASE UNCHANGED vars
  BY <1>7 DEF vars, inputs, AccountStep, Account!vars, Account!given, OwnerOf, VerifiedOf,
              Tokens, OnTheWay, Row, Registered
<1> QED
  BY <1>1, <1>2, <1>3, <1>4, <1>5, <1>6, <1>7 DEF Next

\* The unchecked writes of the requests implement the accounts of Accounts.
THEOREM RefinesAccounts == Spec => ImplementsAccounts
<1>1. Init => Account!Init /\ OnTheWay
  BY DEF Init, NoRow, Account!Init, OwnerOf, VerifiedOf, Tokens, OnTheWay
<1>2. IInv /\ OnTheWay /\ [Next]_vars => OnTheWay' /\ [Account!Next]_(Account!vars)
  BY NextSteps DEF AccountStep
<1> QED
  BY <1>1, <1>2, Invariant, PTL DEF Spec, ImplementsAccounts, Account!Spec

\* In Accounts a token's holder stays entitled: nothing an account promised is
\* taken back.
LEMMA EntitledStays ==
    /\ Account!Init => Account!TokensEntitled
    /\ TypeOK /\ Account!TokensEntitled /\ [Account!Next]_(Account!vars)
           => Account!TokensEntitled'
<1>1. Account!Init => Account!TokensEntitled
  BY DEF Account!Init, Account!TokensEntitled
<1>2. ASSUME TypeOK, Account!TokensEntitled, [Account!Next]_(Account!vars)
      PROVE  Account!TokensEntitled'
  <2> SUFFICES ASSUME NEW q \in Tokens', q \in Tokens => Account!Entitled(q)
               PROVE  Account!Entitled(q)'
    BY <1>2 DEF Account!TokensEntitled
  <2>1. /\ OwnerOf \in [Emails -> RegisterRequests \cup {NoUser}]
        /\ VerifiedOf \in [Emails -> BOOLEAN]
        /\ issued \in [Emails -> SUBSET Codes]
        /\ q \in LoginRequests => password[q] # NoUser
        /\ \A p \in Requests : email[p] \in Emails
        /\ RegisterRequests \cup VerifyRequests \cup LoginRequests \subseteq Requests
    BY <1>2, AccountOf, NoneIsNone DEF TypeOK, Requests
  <2>2. q \in Requests
    BY <1>2 DEF Account!TokensEntitled, Tokens
  <2> HIDE DEF Tokens, OwnerOf, VerifiedOf
  <2>3. ASSUME NEW p \in RegisterRequests, NEW c \in Codes, Account!Register(p, c)
        PROVE  Account!Entitled(q)'
    BY <2>1, <2>2, <2>3 DEF Account!Register, Account!Issue, Account!given,
       Account!Entitled, Account!HasCode, Account!HasPassword
  <2>4. ASSUME NEW e \in Emails, NEW c \in Codes, Account!Reissue(e, c)
        PROVE  Account!Entitled(q)'
    BY <2>1, <2>2, <2>4 DEF Account!Reissue, Account!Issue, Account!given,
       Account!Entitled, Account!HasCode, Account!HasPassword
  <2>5. ASSUME NEW p \in VerifyRequests, Account!Verify(p)
        PROVE  Account!Entitled(q)'
    BY <2>1, <2>2, <2>5 DEF Account!Verify, Account!given,
       Account!Entitled, Account!HasCode, Account!HasPassword
  <2>6. ASSUME NEW p \in Requests, Account!GiveToken(p)
        PROVE  Account!Entitled(q)'
    BY <2>6 DEF Account!GiveToken, Account!given,
       Account!Entitled, Account!HasCode, Account!HasPassword
  <2>7. CASE UNCHANGED Account!vars
    BY <2>7 DEF Account!vars, Account!given,
       Account!Entitled, Account!HasCode, Account!HasPassword
  <2> QED
    BY <1>2, <2>3, <2>4, <2>5, <2>6, <2>7 DEF Account!Next
<1> QED
  BY <1>1, <1>2

\* Whoever was given a token gave the password of the account's owner or a code
\* stored for its address, and the account is verified.
THEOREM TokensAreEntitled == Spec => []Account!TokensEntitled
<1>1. IInv => TypeOK
  BY DEF IInv
<1>2. Spec => []TypeOK
  BY Invariant, <1>1, PTL
<1> QED
  BY <1>2, RefinesAccounts, EntitledStays, PTL DEF ImplementsAccounts, Account!Spec
================================================================================
