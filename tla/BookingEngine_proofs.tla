-------------------------- MODULE BookingEngine_proofs --------------------------
(***************************************************************************)
(* Proofs about BookingEngine, for every set of events, customers, keys    *)
(* and inputs, every finite set of requests, every capacity and every      *)
(* bound on the clock.  The invariant is IInv: one lemma per action shows  *)
(* that the action keeps it; the theorems at the end follow from it.       *)
(***************************************************************************)
EXTENDS BookingEngine, TLAPS

(***************************************************************************)
(* Facts about the inputs and the helpers                                  *)
(***************************************************************************)

\* What an order names is an event, and its quantity is a positive number.
LEMMA BookTyped ==
    ASSUME TypeOK
    PROVE  \A b \in BookRequests : /\ order[b].event \in Events
                                    /\ order[b].quantity \in Nat \ {0}
                                    /\ order[b].quantity \in Int
<1> SUFFICES ASSUME NEW b \in BookRequests
             PROVE  order[b].event \in Events /\ order[b].quantity \in Nat \ {0}
  OBVIOUS
<1>1. order[b] \in Orders
  BY DEF TypeOK
<1>2. order[b].quantity \in 1..MaxQuantity
  BY <1>1 DEF Orders, Quantities
<1> QED
  BY <1>1, <1>2, MaxQuantityPositive DEF Orders, Quantities

\* A cancel request names a booking.
LEMMA CancelTyped ==
    ASSUME TypeOK
    PROVE  \A x \in CancelRequests : cancelOf[x].booking \in BookRequests
BY DEF TypeOK, Cancellations

\* An organizer request names an event and a time.
LEMMA EditTyped ==
    ASSUME TypeOK
    PROVE  \A o \in OrganizerRequests : edit[o].event \in Events /\ edit[o].date \in Times
BY DEF TypeOK, Edits

\* Ending transactions keeps locks, start times and uncommitted values well typed.
LEMMA EndTxType ==
    ASSUME TypeOK, NEW P, EndTx(P)
    PROVE  /\ eventLock' \in [Events -> BookRequests \cup CancelRequests \cup {Free}]
           /\ bookingLock' \in [BookRequests -> CancelRequests \cup {Free}]
           /\ began' \in [Requests -> Times]
           /\ pending' \in [Requests -> Int]
BY MaxTimeNatural DEF TypeOK, EndTx, Times

\* A request is told REPLAYED only about a booking equal to what it asked for.
LEMMA ReplayTrue ==
    ASSUME TypeOK, NEW p \in BookRequests, NEW b \in WithKey(order[p].key)
    PROVE  /\ b \in BookRequests /\ Exists(b)
           /\ ReplayAnswer(p, b) \in {"FORBIDDEN", "DUPLICATE_BOOKING", "REPLAYED"}
           /\ ReplayAnswer(p, b) = "REPLAYED" => order[b] = order[p]
<1>1. b \in BookRequests /\ Exists(b) /\ order[b].key = order[p].key
  BY DEF WithKey
<1>2. order[b] \in Orders /\ order[p] \in Orders
  BY <1>1 DEF TypeOK
<1> QED
  BY <1>1, <1>2 DEF ReplayAnswer, Orders

\* A missed decrement is always answered with a refusal.
LEMMA DiagnosisRefuses ==
    ASSUME NEW p \in BookRequests
    PROVE  Diagnosis(p) \in {"EVENT_NOT_FOUND", "EVENT_CANCELLED", "PAST_EVENT",
                             "SOLD_OUT", "INSUFFICIENT_TICKETS"}
BY DEF Diagnosis

(***************************************************************************)
(* Each action keeps the invariant: the types first, then the conjuncts,   *)
(* from what the action does to each variable (step <1>2)                  *)
(***************************************************************************)

\* The fast path moves one request, and tells it REPLAYED only of an equal booking.
LEMMA FastPathInv ==
    ASSUME IInv, NEW p \in BookRequests, FastPath(p)
    PROVE  IInv'
<1> USE DEF IInv
<1>1. /\ p \in Requests /\ p # Free /\ p \notin CancelRequests
      /\ order[p].event \in Events /\ order[p].quantity \in Int
  BY BookTyped, RequestsDistinct DEF Requests
<1> DEFINE FastOutcomes == {"NONE", "FORBIDDEN", "DUPLICATE_BOOKING", "REPLAYED"}
           Moved(l, o) ==
             /\ \A q \in Requests : pc'[q] = IF q = p THEN l ELSE pc[q]
             /\ \A q \in Requests : outcome'[q] = IF q = p THEN o ELSE outcome[q]
             /\ o = "NONE" <=> l = "begin"
             /\ o = "REPLAYED" => \E b \in BookRequests : Exists(b) /\ order[b] = order[p]
<1>2. /\ pc[p] = "idle"
      /\ ~Exists(p)
      /\ UNCHANGED <<order, cancelOf, edit, now, status, date, total, avail, bookingStatus,
                     eventLock, bookingLock, began, pending>>
      /\ \E l \in {"begin", "done"}, o \in FastOutcomes : Moved(l, o)
  <2>1. CASE WithKey(order[p].key) = {} /\ Goto(p, "begin") /\ UNCHANGED outcome
    BY <1>1, <2>1 DEF FastPath, TypeOK, Goto, Progress, inputs, rows, locks
  <2>2. ASSUME NEW b \in WithKey(order[p].key), Answer(p, ReplayAnswer(p, b))
        PROVE  \E l \in {"begin", "done"}, o \in FastOutcomes : Moved(l, o)
    BY <1>1, <2>2, ReplayTrue DEF FastPath, TypeOK, Answer, Progress, inputs, rows, locks
  <2> QED
    BY <1>1, <2>1, <2>2 DEF FastPath, Progress, inputs, rows, locks
<1>3. TypeOK'
  <2>1. /\ pc' \in [Requests -> Labels]
        /\ outcome' \in [Requests -> Outcomes]
    BY <1>1, ReplayTrue
       DEF FastPath, Goto, Answer, TypeOK, Labels, BookLabels, Outcomes,
           BookRefusals
  <2> QED
    BY <1>1, <1>2, <2>1, RequestsDistinct DEF TypeOK, Requests, BookLabels, rows, inputs
<1>4. AbsentEvents' /\ Progress'
  BY <1>1, <1>2 DEF AbsentEvents, Progress, Exists, Requests
<1>5. BookerOwnsEvent'
  BY <1>1, <1>2 DEF BookerOwnsEvent, Bookable, Requests
<1>6. CancellerOwnsBooking' /\ CancelChecked'
  BY <1>1, <1>2 DEF CancellerOwnsBooking, CancelChecked, Exists, Requests
<1>7. CancellerOwnsEvent'
  BY <1>1, <1>2 DEF CancellerOwnsEvent, Requests
<1>8. InsertedKeysFresh' /\ ResolveFindsBooking'
  BY <1>1, <1>2 DEF InsertedKeysFresh, ResolveFindsBooking, WithKey, Exists, Requests
<1>9. AnswersAreTrue'
  BY <1>1, <1>2 DEF AnswersAreTrue, Exists, Requests
<1>10. CancelledOnce'
  BY <1>1, <1>2 DEF CancelledOnce, Requests
<1> QED
  BY <1>3, <1>4, <1>5, <1>6, <1>7, <1>8, <1>9, <1>10

\* The start of the transaction fixes its NOW() and nothing else.
LEMMA BeginTxInv ==
    ASSUME IInv, NEW p \in BookRequests, BeginTx(p)
    PROVE  IInv'
<1> USE DEF IInv
<1>1. /\ p \in Requests /\ p # Free /\ p \notin CancelRequests
      /\ order[p].event \in Events /\ order[p].quantity \in Int
  BY BookTyped, RequestsDistinct DEF Requests
<1>2. /\ pc[p] = "begin"
      /\ UNCHANGED <<order, cancelOf, edit, now, status, date, total, avail, bookingStatus,
                     eventLock, bookingLock, outcome, pending>>
      /\ \A q \in Requests : pc'[q] = IF q = p THEN "decrement" ELSE pc[q]
      /\ \A q \in Requests : q # p => began'[q] = began[q]
  BY <1>1 DEF BeginTx, TypeOK, Goto, EndTx, inputs, rows, locks
<1>3. TypeOK'
  <2>1. /\ pc' \in [Requests -> Labels]
        /\ began' \in [Requests -> Times]
    BY <1>1 DEF BeginTx, Goto, TypeOK, Labels, BookLabels, Times
  <2> QED
    BY <1>1, <1>2, <2>1, RequestsDistinct DEF TypeOK, Requests, BookLabels, rows, inputs
<1>4. AbsentEvents' /\ Progress'
  BY <1>1, <1>2 DEF AbsentEvents, Progress, Exists, Requests
<1>5. BookerOwnsEvent'
  BY <1>1, <1>2 DEF BookerOwnsEvent, Bookable, Requests
<1>6. CancellerOwnsBooking' /\ CancelChecked'
  BY <1>1, <1>2 DEF CancellerOwnsBooking, CancelChecked, Exists, Requests
<1>7. CancellerOwnsEvent'
  BY <1>1, <1>2 DEF CancellerOwnsEvent, Requests
<1>8. InsertedKeysFresh' /\ ResolveFindsBooking'
  BY <1>1, <1>2 DEF InsertedKeysFresh, ResolveFindsBooking, WithKey, Exists, Requests
<1>9. AnswersAreTrue'
  BY <1>1, <1>2 DEF AnswersAreTrue, Exists, Requests
<1>10. CancelledOnce'
  BY <1>1, <1>2 DEF CancelledOnce, Requests
<1> QED
  BY <1>3, <1>4, <1>5, <1>6, <1>7, <1>8, <1>9, <1>10

\* The decrement takes the event row: the owner it displaces would have to be none.
LEMMA DecrementInv ==
    ASSUME IInv, NEW p \in BookRequests, Decrement(p)
    PROVE  IInv'
<1> USE DEF IInv
<1>1. /\ p \in Requests /\ p # Free /\ p \notin CancelRequests
      /\ order[p].event \in Events /\ order[p].quantity \in Int
  BY BookTyped, RequestsDistinct DEF Requests
<1>2. /\ pc[p] = "decrement"
      /\ Bookable(p)
      /\ eventLock[order[p].event] = Free
      /\ UNCHANGED <<order, cancelOf, edit, now, status, date, total, avail, bookingStatus,
                     bookingLock, outcome, began>>
      /\ \A q \in Requests : pc'[q] = IF q = p THEN "insert" ELSE pc[q]
      /\ \A e \in Events : eventLock'[e] = IF e = order[p].event THEN p ELSE eventLock[e]
      /\ \A q \in Requests : pending'[q] = IF q = p THEN avail[order[p].event] - order[p].quantity ELSE pending[q]
  BY <1>1 DEF Decrement, TypeOK, Goto, EndTx, inputs, rows, locks
<1>3. TypeOK'
  <2>1. /\ pc' \in [Requests -> Labels]
        /\ eventLock' \in [Events -> BookRequests \cup CancelRequests \cup {Free}]
        /\ pending' \in [Requests -> Int]
    BY <1>1 DEF Decrement, Goto, TypeOK, Labels, BookLabels
  <2> QED
    BY <1>1, <1>2, <2>1, RequestsDistinct DEF TypeOK, Requests, BookLabels, rows, inputs
<1>4. AbsentEvents' /\ Progress'
  BY <1>1, <1>2 DEF AbsentEvents, Progress, Exists, Requests
<1>5. BookerOwnsEvent'
  BY <1>1, <1>2, BookTyped, RequestsDistinct DEF BookerOwnsEvent, Bookable, Requests, TypeOK
<1>6. CancellerOwnsBooking' /\ CancelChecked'
  BY <1>1, <1>2 DEF CancellerOwnsBooking, CancelChecked, Exists, Requests
<1>7. CancellerOwnsEvent'
  BY <1>1, <1>2, BookTyped, CancelTyped, RequestsDistinct DEF CancellerOwnsEvent, Requests
<1>8. InsertedKeysFresh' /\ ResolveFindsBooking'
  BY <1>1, <1>2 DEF InsertedKeysFresh, ResolveFindsBooking, WithKey, Exists, Requests
<1>9. AnswersAreTrue'
  BY <1>1, <1>2 DEF AnswersAreTrue, Exists, Requests
<1>10. CancelledOnce'
  BY <1>1, <1>2 DEF CancelledOnce, Requests
<1> QED
  BY <1>3, <1>4, <1>5, <1>6, <1>7, <1>8, <1>9, <1>10

\* A decrement that matches no row takes no lock.
LEMMA DecrementMissesInv ==
    ASSUME IInv, NEW p \in BookRequests, DecrementMisses(p)
    PROVE  IInv'
<1> USE DEF IInv
<1>1. /\ p \in Requests /\ p # Free /\ p \notin CancelRequests
      /\ order[p].event \in Events /\ order[p].quantity \in Int
  BY BookTyped, RequestsDistinct DEF Requests
<1>2. /\ pc[p] = "decrement"
      /\ UNCHANGED <<order, cancelOf, edit, now, status, date, total, avail, bookingStatus,
                     eventLock, bookingLock, outcome, began, pending>>
      /\ \A q \in Requests : pc'[q] = IF q = p THEN "diagnose" ELSE pc[q]
  BY <1>1 DEF DecrementMisses, TypeOK, Goto, EndTx, inputs, rows, locks
<1>3. TypeOK'
  <2>1. /\ pc' \in [Requests -> Labels]
    BY <1>1 DEF DecrementMisses, Goto, TypeOK, Labels, BookLabels
  <2> QED
    BY <1>1, <1>2, <2>1, RequestsDistinct DEF TypeOK, Requests, BookLabels, rows, inputs
<1>4. AbsentEvents' /\ Progress'
  BY <1>1, <1>2 DEF AbsentEvents, Progress, Exists, Requests
<1>5. BookerOwnsEvent'
  BY <1>1, <1>2 DEF BookerOwnsEvent, Bookable, Requests
<1>6. CancellerOwnsBooking' /\ CancelChecked'
  BY <1>1, <1>2 DEF CancellerOwnsBooking, CancelChecked, Exists, Requests
<1>7. CancellerOwnsEvent'
  BY <1>1, <1>2 DEF CancellerOwnsEvent, Requests
<1>8. InsertedKeysFresh' /\ ResolveFindsBooking'
  BY <1>1, <1>2 DEF InsertedKeysFresh, ResolveFindsBooking, WithKey, Exists, Requests
<1>9. AnswersAreTrue'
  BY <1>1, <1>2 DEF AnswersAreTrue, Exists, Requests
<1>10. CancelledOnce'
  BY <1>1, <1>2 DEF CancelledOnce, Requests
<1> QED
  BY <1>3, <1>4, <1>5, <1>6, <1>7, <1>8, <1>9, <1>10

\* A diagnosed request has no row and, after the rollback, no lock.
LEMMA DiagnoseInv ==
    ASSUME IInv, NEW p \in BookRequests, Diagnose(p)
    PROVE  IInv'
<1> USE DEF IInv
<1>1. /\ p \in Requests /\ p # Free /\ p \notin CancelRequests
      /\ order[p].event \in Events /\ order[p].quantity \in Int
  BY BookTyped, RequestsDistinct DEF Requests
<1>2. /\ pc[p] = "diagnose"
      /\ UNCHANGED <<order, cancelOf, edit, now, status, date, total, avail, bookingStatus>>
      /\ \A q \in Requests : pc'[q] = IF q = p THEN "done" ELSE pc[q]
      /\ \A q \in Requests : outcome'[q] = IF q = p THEN Diagnosis(p) ELSE outcome[q]
      /\ \A e \in Events : eventLock'[e] = IF eventLock[e] = p THEN Free ELSE eventLock[e]
      /\ \A b \in BookRequests : bookingLock'[b] = IF bookingLock[b] = p THEN Free ELSE bookingLock[b]
      /\ \A q \in Requests : q # p => pending'[q] = pending[q] /\ began'[q] = began[q]
  BY <1>1 DEF Diagnose, TypeOK, Goto, EndTx, inputs, rows, locks, Answer
<1>3. TypeOK'
  <2>1. /\ pc' \in [Requests -> Labels]
        /\ outcome' \in [Requests -> Outcomes]
    BY <1>1, DiagnosisRefuses
       DEF Diagnose, Answer, TypeOK, Labels, BookLabels, Outcomes, BookRefusals
  <2>2. EndTx({p})
    BY DEF Diagnose
  <2> QED
    BY <1>1, <1>2, <2>1, <2>2, EndTxType, RequestsDistinct
       DEF TypeOK, Requests, BookLabels, rows, inputs
<1>4. AbsentEvents' /\ Progress'
  BY <1>1, <1>2 DEF AbsentEvents, Progress, Exists, Requests
<1>5. BookerOwnsEvent'
  BY <1>1, <1>2, BookTyped DEF BookerOwnsEvent, Bookable, Requests
<1>6. CancellerOwnsBooking' /\ CancelChecked'
  BY <1>1, <1>2, CancelTyped, RequestsDistinct
     DEF CancellerOwnsBooking, CancelChecked, Exists, Requests
<1>7. CancellerOwnsEvent'
  BY <1>1, <1>2, BookTyped, CancelTyped, RequestsDistinct DEF CancellerOwnsEvent, Requests
<1>8. InsertedKeysFresh' /\ ResolveFindsBooking'
  BY <1>1, <1>2 DEF InsertedKeysFresh, ResolveFindsBooking, WithKey, Exists, Requests
<1>9. AnswersAreTrue'
  BY <1>1, <1>2, DiagnosisRefuses
     DEF AnswersAreTrue, Progress, BookRefusals, Exists, Requests
<1>10. CancelledOnce'
  BY <1>1, <1>2 DEF CancelledOnce, Requests
<1> QED
  BY <1>3, <1>4, <1>5, <1>6, <1>7, <1>8, <1>9, <1>10

\* An insert that neither waits nor conflicts brings in a key nobody else has.
LEMMA InsertInv ==
    ASSUME IInv, NEW p \in BookRequests, Insert(p)
    PROVE  IInv'
<1> USE DEF IInv
<1>1. /\ p \in Requests /\ p # Free /\ p \notin CancelRequests
      /\ order[p].event \in Events /\ order[p].quantity \in Int
  BY BookTyped, RequestsDistinct DEF Requests
<1>2. /\ pc[p] = "insert"
      /\ KeyHolders(p) = {}
      /\ WithKey(order[p].key) = {}
      /\ UNCHANGED <<order, cancelOf, edit, now, status, date, total, avail, bookingStatus,
                     eventLock, bookingLock, outcome, began, pending>>
      /\ \A q \in Requests : pc'[q] = IF q = p THEN "commit" ELSE pc[q]
  BY <1>1 DEF Insert, TypeOK, Goto, EndTx, inputs, rows, locks
<1>3. TypeOK'
  <2>1. /\ pc' \in [Requests -> Labels]
    BY <1>1 DEF Insert, Goto, TypeOK, Labels, BookLabels
  <2> QED
    BY <1>1, <1>2, <2>1, RequestsDistinct DEF TypeOK, Requests, BookLabels, rows, inputs
<1>4. AbsentEvents' /\ Progress'
  BY <1>1, <1>2 DEF AbsentEvents, Progress, Exists, Requests
<1>5. BookerOwnsEvent'
  BY <1>1, <1>2 DEF BookerOwnsEvent, Bookable, Requests
<1>6. CancellerOwnsBooking' /\ CancelChecked'
  BY <1>1, <1>2 DEF CancellerOwnsBooking, CancelChecked, Exists, Requests
<1>7. CancellerOwnsEvent'
  BY <1>1, <1>2 DEF CancellerOwnsEvent, Requests
<1>8. InsertedKeysFresh' /\ ResolveFindsBooking'
  BY <1>1, <1>2
     DEF InsertedKeysFresh, ResolveFindsBooking, WithKey, KeyHolders, Exists,
         Requests
<1>9. AnswersAreTrue'
  BY <1>1, <1>2 DEF AnswersAreTrue, Exists, Requests
<1>10. CancelledOnce'
  BY <1>1, <1>2 DEF CancelledOnce, Requests
<1> QED
  BY <1>3, <1>4, <1>5, <1>6, <1>7, <1>8, <1>9, <1>10

\* An insert conflicts with a committed row, which the catch block will find.
LEMMA InsertConflictsInv ==
    ASSUME IInv, NEW p \in BookRequests, InsertConflicts(p)
    PROVE  IInv'
<1> USE DEF IInv
<1>1. /\ p \in Requests /\ p # Free /\ p \notin CancelRequests
      /\ order[p].event \in Events /\ order[p].quantity \in Int
  BY BookTyped, RequestsDistinct DEF Requests
<1>2. /\ pc[p] = "insert"
      /\ WithKey(order[p].key) # {}
      /\ UNCHANGED <<order, cancelOf, edit, now, status, date, total, avail, bookingStatus,
                     outcome>>
      /\ \A q \in Requests : pc'[q] = IF q = p THEN "resolve" ELSE pc[q]
      /\ \A e \in Events : eventLock'[e] = IF eventLock[e] = p THEN Free ELSE eventLock[e]
      /\ \A b \in BookRequests : bookingLock'[b] = IF bookingLock[b] = p THEN Free ELSE bookingLock[b]
      /\ \A q \in Requests : q # p => pending'[q] = pending[q] /\ began'[q] = began[q]
  BY <1>1 DEF InsertConflicts, TypeOK, Goto, EndTx, inputs, rows, locks
<1>3. TypeOK'
  <2>1. /\ pc' \in [Requests -> Labels]
    BY <1>1 DEF InsertConflicts, Goto, TypeOK, Labels, BookLabels
  <2>2. EndTx({p})
    BY DEF InsertConflicts
  <2> QED
    BY <1>1, <1>2, <2>1, <2>2, EndTxType, RequestsDistinct
       DEF TypeOK, Requests, BookLabels, rows, inputs
<1>4. AbsentEvents' /\ Progress'
  BY <1>1, <1>2 DEF AbsentEvents, Progress, Exists, Requests
<1>5. BookerOwnsEvent'
  BY <1>1, <1>2, BookTyped DEF BookerOwnsEvent, Bookable, Requests
<1>6. CancellerOwnsBooking' /\ CancelChecked'
  BY <1>1, <1>2, CancelTyped, RequestsDistinct
     DEF CancellerOwnsBooking, CancelChecked, Exists, Requests
<1>7. CancellerOwnsEvent'
  BY <1>1, <1>2, BookTyped, CancelTyped, RequestsDistinct DEF CancellerOwnsEvent, Requests
<1>8. InsertedKeysFresh' /\ ResolveFindsBooking'
  BY <1>1, <1>2 DEF InsertedKeysFresh, ResolveFindsBooking, WithKey, Exists, Requests
<1>9. AnswersAreTrue'
  BY <1>1, <1>2 DEF AnswersAreTrue, Exists, Requests
<1>10. CancelledOnce'
  BY <1>1, <1>2 DEF CancelledOnce, Requests
<1> QED
  BY <1>3, <1>4, <1>5, <1>6, <1>7, <1>8, <1>9, <1>10

\* The commit publishes a row with a fresh key while it still owns the event row.
LEMMA CommitInv ==
    ASSUME IInv, NEW p \in BookRequests, Commit(p)
    PROVE  IInv'
<1> USE DEF IInv
<1>1. /\ p \in Requests /\ p # Free /\ p \notin CancelRequests
      /\ order[p].event \in Events /\ order[p].quantity \in Int
  BY BookTyped, RequestsDistinct DEF Requests
<1>2. /\ pc[p] = "commit"
      /\ UNCHANGED <<order, cancelOf, edit, now, status, date, total, outcome>>
      /\ \A q \in Requests : pc'[q] = IF q = p THEN "committed" ELSE pc[q]
      /\ \A e \in Events : avail'[e] = IF e = order[p].event THEN pending[p] ELSE avail[e]
      /\ \A b \in BookRequests : bookingStatus'[b] = IF b = p THEN "CONFIRMED" ELSE bookingStatus[b]
      /\ \A e \in Events : eventLock'[e] = IF eventLock[e] = p THEN Free ELSE eventLock[e]
      /\ \A b \in BookRequests : bookingLock'[b] = IF bookingLock[b] = p THEN Free ELSE bookingLock[b]
      /\ \A q \in Requests : q # p => pending'[q] = pending[q] /\ began'[q] = began[q]
  BY <1>1 DEF Commit, TypeOK, Goto, EndTx, inputs, rows, locks
<1>3. TypeOK'
  <2>1. /\ pc' \in [Requests -> Labels]
        /\ avail' \in [Events -> Int]
        /\ bookingStatus' \in [BookRequests -> {"NONE", "CONFIRMED", "CANCELLED"}]
    BY <1>1 DEF Commit, Goto, TypeOK, Labels, BookLabels
  <2>2. EndTx({p})
    BY DEF Commit
  <2> QED
    BY <1>1, <1>2, <2>1, <2>2, EndTxType, RequestsDistinct
       DEF TypeOK, Requests, BookLabels, rows, inputs
<1>4. AbsentEvents' /\ Progress'
  BY <1>1, <1>2, BookTyped, RequestsDistinct
     DEF AbsentEvents, Progress, BookerOwnsEvent, Bookable, CancellerOwnsBooking,
         Exists, Requests, TypeOK
<1>5. BookerOwnsEvent'
  BY <1>1, <1>2, BookTyped DEF BookerOwnsEvent, Bookable, Requests
<1>6. CancellerOwnsBooking' /\ CancelChecked'
  BY <1>1, <1>2, CancelTyped, RequestsDistinct
     DEF CancellerOwnsBooking, CancelChecked, Exists, Requests
<1>7. CancellerOwnsEvent'
  BY <1>1, <1>2, BookTyped, CancelTyped, RequestsDistinct
     DEF CancellerOwnsEvent, BookerOwnsEvent, Requests
<1>8. InsertedKeysFresh' /\ ResolveFindsBooking'
  BY <1>1, <1>2 DEF InsertedKeysFresh, ResolveFindsBooking, WithKey, Exists, Requests
<1>9. AnswersAreTrue'
  BY <1>1, <1>2 DEF AnswersAreTrue, Progress, BookRefusals, Exists, Requests
<1>10. CancelledOnce'
  BY <1>1, <1>2, CancelTyped, BookTyped, RequestsDistinct
     DEF CancelledOnce, CancellerOwnsBooking, CancelRefusal, Progress, Exists,
         Requests, TypeOK
<1> QED
  BY <1>3, <1>4, <1>5, <1>6, <1>7, <1>8, <1>9, <1>10

\* 201 is answered only after the commit.
LEMMA BookRespondInv ==
    ASSUME IInv, NEW p \in BookRequests, BookRespond(p)
    PROVE  IInv'
<1> USE DEF IInv
<1>1. /\ p \in Requests /\ p # Free /\ p \notin CancelRequests
      /\ order[p].event \in Events /\ order[p].quantity \in Int
  BY BookTyped, RequestsDistinct DEF Requests
<1>2. /\ pc[p] = "committed"
      /\ UNCHANGED <<order, cancelOf, edit, now, status, date, total, avail, bookingStatus,
                     eventLock, bookingLock, began, pending>>
      /\ \A q \in Requests : pc'[q] = IF q = p THEN "done" ELSE pc[q]
      /\ \A q \in Requests : outcome'[q] = IF q = p THEN "CREATED" ELSE outcome[q]
  BY <1>1 DEF BookRespond, TypeOK, Goto, EndTx, inputs, rows, locks, Answer
<1>3. TypeOK'
  <2>1. /\ pc' \in [Requests -> Labels]
        /\ outcome' \in [Requests -> Outcomes]
    BY <1>1 DEF BookRespond, Answer, TypeOK, Labels, BookLabels, Outcomes
  <2> QED
    BY <1>1, <1>2, <2>1, RequestsDistinct DEF TypeOK, Requests, BookLabels, rows, inputs
<1>4. AbsentEvents' /\ Progress'
  BY <1>1, <1>2 DEF AbsentEvents, Progress, Exists, Requests
<1>5. BookerOwnsEvent'
  BY <1>1, <1>2 DEF BookerOwnsEvent, Bookable, Requests
<1>6. CancellerOwnsBooking' /\ CancelChecked'
  BY <1>1, <1>2 DEF CancellerOwnsBooking, CancelChecked, Exists, Requests
<1>7. CancellerOwnsEvent'
  BY <1>1, <1>2 DEF CancellerOwnsEvent, Requests
<1>8. InsertedKeysFresh' /\ ResolveFindsBooking'
  BY <1>1, <1>2 DEF InsertedKeysFresh, ResolveFindsBooking, WithKey, Exists, Requests
<1>9. AnswersAreTrue'
  BY <1>1, <1>2 DEF AnswersAreTrue, Progress, BookRefusals, Exists, Requests
<1>10. CancelledOnce'
  BY <1>1, <1>2 DEF CancelledOnce, Requests
<1> QED
  BY <1>3, <1>4, <1>5, <1>6, <1>7, <1>8, <1>9, <1>10

\* The catch block answers from a committed row; its own was rolled back.
LEMMA ResolveInv ==
    ASSUME IInv, NEW p \in BookRequests, Resolve(p)
    PROVE  IInv'
<1> USE DEF IInv
<1>1. /\ p \in Requests /\ p # Free /\ p \notin CancelRequests
      /\ order[p].event \in Events /\ order[p].quantity \in Int
  BY BookTyped, RequestsDistinct DEF Requests
<1>2. /\ pc[p] = "resolve"
      /\ UNCHANGED <<order, cancelOf, edit, now, status, date, total, avail, bookingStatus,
                     eventLock, bookingLock, began, pending>>
      /\ \E b \in WithKey(order[p].key) :
         /\ pc' = [pc EXCEPT ![p] = "done"]
         /\ outcome' = [outcome EXCEPT ![p] = ReplayAnswer(p, b)]
  BY <1>1 DEF Resolve, TypeOK, Goto, EndTx, inputs, rows, locks, Answer
<1>3. TypeOK'
  <2>1. /\ pc' \in [Requests -> Labels]
        /\ outcome' \in [Requests -> Outcomes]
    BY <1>1, ReplayTrue
       DEF Resolve, Answer, TypeOK, Labels, BookLabels, Outcomes, BookRefusals
  <2> QED
    BY <1>1, <1>2, <2>1, RequestsDistinct DEF TypeOK, Requests, BookLabels, rows, inputs
<1>4. AbsentEvents' /\ Progress'
  BY <1>1, <1>2, RequestsDistinct DEF AbsentEvents, Progress, Exists, Requests, TypeOK
<1>5. BookerOwnsEvent'
  BY <1>1, <1>2 DEF BookerOwnsEvent, Bookable, Requests
<1>6. CancellerOwnsBooking' /\ CancelChecked'
  BY <1>1, <1>2 DEF CancellerOwnsBooking, CancelChecked, Exists, Requests
<1>7. CancellerOwnsEvent'
  BY <1>1, <1>2 DEF CancellerOwnsEvent, Requests
<1>8. InsertedKeysFresh' /\ ResolveFindsBooking'
  BY <1>1, <1>2 DEF InsertedKeysFresh, ResolveFindsBooking, WithKey, Exists, Requests
<1>9. AnswersAreTrue'
  BY <1>1, <1>2, ReplayTrue DEF AnswersAreTrue, Progress, BookRefusals, Exists, Requests
<1>10. CancelledOnce'
  BY <1>1, <1>2 DEF CancelledOnce, Requests
<1> QED
  BY <1>3, <1>4, <1>5, <1>6, <1>7, <1>8, <1>9, <1>10

\* The read lets only an existing booking of the same customer through.
LEMMA CancelReadInv ==
    ASSUME IInv, NEW p \in CancelRequests, CancelRead(p)
    PROVE  IInv'
<1> USE DEF IInv
<1>1. /\ p \in Requests /\ p # Free /\ p \notin BookRequests
      /\ cancelOf[p].booking \in BookRequests
      /\ order[cancelOf[p].booking].event \in Events
      /\ order[cancelOf[p].booking].quantity \in Int
  BY CancelTyped, BookTyped, RequestsDistinct DEF Requests
<1>2. /\ pc[p] = "idle"
      /\ UNCHANGED <<order, cancelOf, edit, now, status, date, total, avail, bookingStatus,
                     eventLock, bookingLock, began, pending>>
      /\ IF CancelRefusal(p) = "NONE"
         THEN pc' = [pc EXCEPT ![p] = "mark"] /\ UNCHANGED outcome
         ELSE /\ pc' = [pc EXCEPT ![p] = "done"]
              /\ outcome' = [outcome EXCEPT ![p] = CancelRefusal(p)]
  BY <1>1 DEF CancelRead, TypeOK, Goto, EndTx, inputs, rows, locks, Answer
<1>3. TypeOK'
  <2>1. /\ pc' \in [Requests -> Labels]
        /\ outcome' \in [Requests -> Outcomes]
    BY <1>1
       DEF CancelRead, Goto, Answer, TypeOK, Labels, CancelLabels, Outcomes,
           CancelRefusal, BookRefusals
  <2> QED
    BY <1>1, <1>2, <2>1, RequestsDistinct DEF TypeOK, Requests, CancelLabels, rows, inputs
<1>4. AbsentEvents' /\ Progress'
  BY <1>1, <1>2, RequestsDistinct DEF AbsentEvents, Progress, Exists, Requests, TypeOK
<1>5. BookerOwnsEvent'
  BY <1>1, <1>2, BookTyped, RequestsDistinct DEF BookerOwnsEvent, Bookable, Requests, TypeOK
<1>6. CancellerOwnsBooking' /\ CancelChecked'
  BY <1>1, <1>2, CancelTyped, RequestsDistinct
     DEF CancellerOwnsBooking, CancelChecked, CancelRefusal, Progress, Exists,
         Requests, TypeOK
<1>7. CancellerOwnsEvent'
  BY <1>1, <1>2, BookTyped, CancelTyped, RequestsDistinct
     DEF CancellerOwnsEvent, CancellerOwnsBooking, BookerOwnsEvent, AbsentEvents,
         Exists, Requests, TypeOK
<1>8. InsertedKeysFresh' /\ ResolveFindsBooking'
  BY <1>1, <1>2, CancelTyped, RequestsDistinct
     DEF InsertedKeysFresh, ResolveFindsBooking, WithKey, KeyHolders, Progress,
         CancellerOwnsBooking, Exists, Requests, TypeOK
<1>9. AnswersAreTrue'
  BY <1>1, <1>2, CancelTyped
     DEF AnswersAreTrue, Progress, CancellerOwnsBooking, BookRefusals, Exists,
         Requests, TypeOK
<1>10. CancelledOnce'
  BY <1>1, <1>2 DEF CancelledOnce, CancelRefusal, Progress, Exists, Requests, TypeOK
<1> QED
  BY <1>3, <1>4, <1>5, <1>6, <1>7, <1>8, <1>9, <1>10

\* The status change takes the booking row from no one, and finds it CONFIRMED.
LEMMA CancelMarkInv ==
    ASSUME IInv, NEW p \in CancelRequests, CancelMark(p)
    PROVE  IInv'
<1> USE DEF IInv
<1>1. /\ p \in Requests /\ p # Free /\ p \notin BookRequests
      /\ cancelOf[p].booking \in BookRequests
      /\ order[cancelOf[p].booking].event \in Events
      /\ order[cancelOf[p].booking].quantity \in Int
  BY CancelTyped, BookTyped, RequestsDistinct DEF Requests
<1>2. /\ pc[p] = "mark"
      /\ bookingStatus[cancelOf[p].booking] = "CONFIRMED"
      /\ bookingLock[cancelOf[p].booking] = Free
      /\ UNCHANGED <<order, cancelOf, edit, now, status, date, total, avail, bookingStatus,
                     eventLock, outcome, began, pending>>
      /\ \A q \in Requests : pc'[q] = IF q = p THEN "restock" ELSE pc[q]
      /\ \A b \in BookRequests : bookingLock'[b] = IF b = cancelOf[p].booking THEN p ELSE bookingLock[b]
  BY <1>1 DEF CancelMark, TypeOK, Goto, EndTx, inputs, rows, locks
<1>3. TypeOK'
  <2>1. /\ pc' \in [Requests -> Labels]
        /\ bookingLock' \in [BookRequests -> CancelRequests \cup {Free}]
    BY <1>1 DEF CancelMark, Goto, TypeOK, Labels, CancelLabels
  <2> QED
    BY <1>1, <1>2, <2>1, RequestsDistinct DEF TypeOK, Requests, CancelLabels, rows, inputs
<1>4. AbsentEvents' /\ Progress'
  BY <1>1, <1>2 DEF AbsentEvents, Progress, Exists, Requests
<1>5. BookerOwnsEvent'
  BY <1>1, <1>2 DEF BookerOwnsEvent, Bookable, Requests
<1>6. CancellerOwnsBooking' /\ CancelChecked'
  BY <1>1, <1>2, CancelTyped, RequestsDistinct
     DEF CancellerOwnsBooking, CancelChecked, Exists, Requests
<1>7. CancellerOwnsEvent'
  BY <1>1, <1>2 DEF CancellerOwnsEvent, Requests
<1>8. InsertedKeysFresh' /\ ResolveFindsBooking'
  BY <1>1, <1>2 DEF InsertedKeysFresh, ResolveFindsBooking, WithKey, Exists, Requests
<1>9. AnswersAreTrue'
  BY <1>1, <1>2 DEF AnswersAreTrue, Exists, Requests
<1>10. CancelledOnce'
  BY <1>1, <1>2 DEF CancelledOnce, Requests
<1> QED
  BY <1>3, <1>4, <1>5, <1>6, <1>7, <1>8, <1>9, <1>10

\* A cancel that lost the race ends without a restock.
LEMMA CancelMissedInv ==
    ASSUME IInv, NEW p \in CancelRequests, CancelMissed(p)
    PROVE  IInv'
<1> USE DEF IInv
<1>1. /\ p \in Requests /\ p # Free /\ p \notin BookRequests
      /\ cancelOf[p].booking \in BookRequests
      /\ order[cancelOf[p].booking].event \in Events
      /\ order[cancelOf[p].booking].quantity \in Int
  BY CancelTyped, BookTyped, RequestsDistinct DEF Requests
<1>2. /\ pc[p] = "mark"
      /\ UNCHANGED <<order, cancelOf, edit, now, status, date, total, avail, bookingStatus>>
      /\ \A q \in Requests : pc'[q] = IF q = p THEN "done" ELSE pc[q]
      /\ \A q \in Requests : outcome'[q] = IF q = p THEN "ALREADY_CANCELLED" ELSE outcome[q]
      /\ \A e \in Events : eventLock'[e] = IF eventLock[e] = p THEN Free ELSE eventLock[e]
      /\ \A b \in BookRequests : bookingLock'[b] = IF bookingLock[b] = p THEN Free ELSE bookingLock[b]
      /\ \A q \in Requests : q # p => pending'[q] = pending[q] /\ began'[q] = began[q]
  BY <1>1 DEF CancelMissed, TypeOK, Goto, EndTx, inputs, rows, locks, Answer
<1>3. TypeOK'
  <2>1. /\ pc' \in [Requests -> Labels]
        /\ outcome' \in [Requests -> Outcomes]
    BY <1>1 DEF CancelMissed, Answer, TypeOK, Labels, CancelLabels, Outcomes
  <2>2. EndTx({p})
    BY DEF CancelMissed
  <2> QED
    BY <1>1, <1>2, <2>1, <2>2, EndTxType, RequestsDistinct
       DEF TypeOK, Requests, CancelLabels, rows, inputs
<1>4. AbsentEvents' /\ Progress'
  BY <1>1, <1>2 DEF AbsentEvents, Progress, Exists, Requests
<1>5. BookerOwnsEvent'
  BY <1>1, <1>2, BookTyped DEF BookerOwnsEvent, Bookable, Requests
<1>6. CancellerOwnsBooking' /\ CancelChecked'
  BY <1>1, <1>2, CancelTyped, RequestsDistinct
     DEF CancellerOwnsBooking, CancelChecked, Exists, Requests
<1>7. CancellerOwnsEvent'
  BY <1>1, <1>2, BookTyped, CancelTyped, RequestsDistinct DEF CancellerOwnsEvent, Requests
<1>8. InsertedKeysFresh' /\ ResolveFindsBooking'
  BY <1>1, <1>2 DEF InsertedKeysFresh, ResolveFindsBooking, WithKey, Exists, Requests
<1>9. AnswersAreTrue'
  BY <1>1, <1>2 DEF AnswersAreTrue, Exists, Requests
<1>10. CancelledOnce'
  BY <1>1, <1>2 DEF CancelledOnce, Requests
<1> QED
  BY <1>3, <1>4, <1>5, <1>6, <1>7, <1>8, <1>9, <1>10

\* The increment takes the event row while the booking row is still its own.
LEMMA CancelRestockInv ==
    ASSUME IInv, NEW p \in CancelRequests, CancelRestock(p)
    PROVE  IInv'
<1> USE DEF IInv
<1>1. /\ p \in Requests /\ p # Free /\ p \notin BookRequests
      /\ cancelOf[p].booking \in BookRequests
      /\ order[cancelOf[p].booking].event \in Events
      /\ order[cancelOf[p].booking].quantity \in Int
  BY CancelTyped, BookTyped, RequestsDistinct DEF Requests
<1>2. /\ pc[p] = "restock"
      /\ eventLock[order[cancelOf[p].booking].event] = Free
      /\ UNCHANGED <<order, cancelOf, edit, now, status, date, total, avail, bookingStatus,
                     bookingLock, outcome, began>>
      /\ \A q \in Requests : pc'[q] = IF q = p THEN "cancelCommit" ELSE pc[q]
      /\ \A e \in Events : eventLock'[e] =
             IF e = order[cancelOf[p].booking].event THEN p ELSE eventLock[e]
      /\ \A q \in Requests : pending'[q] =
             IF q = p THEN avail[order[cancelOf[p].booking].event] + order[cancelOf[p].booking].quantity
             ELSE pending[q]
  BY <1>1 DEF CancelRestock, TypeOK, Goto, EndTx, inputs, rows, locks
<1>3. TypeOK'
  <2>1. /\ pc' \in [Requests -> Labels]
        /\ eventLock' \in [Events -> BookRequests \cup CancelRequests \cup {Free}]
        /\ pending' \in [Requests -> Int]
    BY <1>1 DEF CancelRestock, Goto, TypeOK, Labels, CancelLabels
  <2> QED
    BY <1>1, <1>2, <2>1, RequestsDistinct DEF TypeOK, Requests, CancelLabels, rows, inputs
<1>4. AbsentEvents' /\ Progress'
  BY <1>1, <1>2 DEF AbsentEvents, Progress, Exists, Requests
<1>5. BookerOwnsEvent'
  BY <1>1, <1>2, BookTyped, RequestsDistinct DEF BookerOwnsEvent, Bookable, Requests, TypeOK
<1>6. CancellerOwnsBooking' /\ CancelChecked'
  BY <1>1, <1>2 DEF CancellerOwnsBooking, CancelChecked, Exists, Requests
<1>7. CancellerOwnsEvent'
  BY <1>1, <1>2, BookTyped, CancelTyped, RequestsDistinct DEF CancellerOwnsEvent, Requests
<1>8. InsertedKeysFresh' /\ ResolveFindsBooking'
  BY <1>1, <1>2 DEF InsertedKeysFresh, ResolveFindsBooking, WithKey, Exists, Requests
<1>9. AnswersAreTrue'
  BY <1>1, <1>2 DEF AnswersAreTrue, Exists, Requests
<1>10. CancelledOnce'
  BY <1>1, <1>2, CancelTyped, BookTyped, RequestsDistinct
     DEF CancelledOnce, CancellerOwnsBooking, CancelRefusal, Progress, Exists,
         Requests, TypeOK
<1> QED
  BY <1>3, <1>4, <1>5, <1>6, <1>7, <1>8, <1>9, <1>10

\* The commit of a cancel changes only rows it owns, and is the booking's last.
LEMMA CancelCommitInv ==
    ASSUME IInv, NEW p \in CancelRequests, CancelCommit(p)
    PROVE  IInv'
<1> USE DEF IInv
<1>1. /\ p \in Requests /\ p # Free /\ p \notin BookRequests
      /\ cancelOf[p].booking \in BookRequests
      /\ order[cancelOf[p].booking].event \in Events
      /\ order[cancelOf[p].booking].quantity \in Int
  BY CancelTyped, BookTyped, RequestsDistinct DEF Requests
<1>2. /\ pc[p] = "cancelCommit"
      /\ UNCHANGED <<order, cancelOf, edit, now, status, date, total, outcome>>
      /\ \A q \in Requests : pc'[q] = IF q = p THEN "cancelled" ELSE pc[q]
      /\ \A e \in Events : avail'[e] =
             IF e = order[cancelOf[p].booking].event THEN pending[p] ELSE avail[e]
      /\ \A b \in BookRequests : bookingStatus'[b] =
             IF b = cancelOf[p].booking THEN "CANCELLED" ELSE bookingStatus[b]
      /\ \A e \in Events : eventLock'[e] = IF eventLock[e] = p THEN Free ELSE eventLock[e]
      /\ \A b \in BookRequests : bookingLock'[b] = IF bookingLock[b] = p THEN Free ELSE bookingLock[b]
      /\ \A q \in Requests : q # p => pending'[q] = pending[q] /\ began'[q] = began[q]
  BY <1>1 DEF CancelCommit, TypeOK, Goto, EndTx, inputs, rows, locks
<1>3. TypeOK'
  <2>1. /\ pc' \in [Requests -> Labels]
        /\ avail' \in [Events -> Int]
        /\ bookingStatus' \in [BookRequests -> {"NONE", "CONFIRMED", "CANCELLED"}]
    BY <1>1 DEF CancelCommit, Goto, TypeOK, Labels, CancelLabels
  <2>2. EndTx({p})
    BY DEF CancelCommit
  <2> QED
    BY <1>1, <1>2, <2>1, <2>2, EndTxType, RequestsDistinct
       DEF TypeOK, Requests, CancelLabels, rows, inputs
<1>4. AbsentEvents' /\ Progress'
  BY <1>1, <1>2, BookTyped, RequestsDistinct
     DEF AbsentEvents, Progress, BookerOwnsEvent, Bookable, CancellerOwnsBooking,
         Exists, Requests, TypeOK
<1>5. BookerOwnsEvent'
  BY <1>1, <1>2, BookTyped, RequestsDistinct
     DEF BookerOwnsEvent, Bookable, CancellerOwnsEvent, Requests, TypeOK
<1>6. CancellerOwnsBooking' /\ CancelChecked'
  BY <1>1, <1>2, CancelTyped, RequestsDistinct
     DEF CancellerOwnsBooking, CancelChecked, Exists, Requests
<1>7. CancellerOwnsEvent'
  BY <1>1, <1>2, BookTyped, CancelTyped, RequestsDistinct DEF CancellerOwnsEvent, Requests
<1>8. InsertedKeysFresh' /\ ResolveFindsBooking'
  BY <1>1, <1>2, CancelTyped, RequestsDistinct
     DEF InsertedKeysFresh, ResolveFindsBooking, WithKey, KeyHolders, Progress,
         CancellerOwnsBooking, Exists, Requests, TypeOK
<1>9. AnswersAreTrue'
  BY <1>1, <1>2, CancelTyped
     DEF AnswersAreTrue, Progress, CancellerOwnsBooking, BookRefusals, Exists,
         Requests, TypeOK
<1>10. CancelledOnce'
  BY <1>1, <1>2, CancelTyped, BookTyped, RequestsDistinct
     DEF CancelledOnce, CancellerOwnsBooking, CancelRefusal, Progress, Exists,
         Requests, TypeOK
<1> QED
  BY <1>3, <1>4, <1>5, <1>6, <1>7, <1>8, <1>9, <1>10

\* The answer to a cancel changes no row.
LEMMA CancelRespondInv ==
    ASSUME IInv, NEW p \in CancelRequests, CancelRespond(p)
    PROVE  IInv'
<1> USE DEF IInv
<1>1. /\ p \in Requests /\ p # Free /\ p \notin BookRequests
      /\ cancelOf[p].booking \in BookRequests
      /\ order[cancelOf[p].booking].event \in Events
      /\ order[cancelOf[p].booking].quantity \in Int
  BY CancelTyped, BookTyped, RequestsDistinct DEF Requests
<1>2. /\ pc[p] = "cancelled"
      /\ UNCHANGED <<order, cancelOf, edit, now, status, date, total, avail, bookingStatus,
                     eventLock, bookingLock, began, pending>>
      /\ \A q \in Requests : pc'[q] = IF q = p THEN "done" ELSE pc[q]
      /\ \A q \in Requests : outcome'[q] = IF q = p THEN "RESTOCKED" ELSE outcome[q]
  BY <1>1 DEF CancelRespond, TypeOK, Goto, EndTx, inputs, rows, locks, Answer
<1>3. TypeOK'
  <2>1. /\ pc' \in [Requests -> Labels]
        /\ outcome' \in [Requests -> Outcomes]
    BY <1>1 DEF CancelRespond, Answer, TypeOK, Labels, CancelLabels, Outcomes
  <2> QED
    BY <1>1, <1>2, <2>1, RequestsDistinct DEF TypeOK, Requests, CancelLabels, rows, inputs
<1>4. AbsentEvents' /\ Progress'
  BY <1>1, <1>2 DEF AbsentEvents, Progress, Exists, Requests
<1>5. BookerOwnsEvent'
  BY <1>1, <1>2 DEF BookerOwnsEvent, Bookable, Requests
<1>6. CancellerOwnsBooking' /\ CancelChecked'
  BY <1>1, <1>2 DEF CancellerOwnsBooking, CancelChecked, Exists, Requests
<1>7. CancellerOwnsEvent'
  BY <1>1, <1>2 DEF CancellerOwnsEvent, Requests
<1>8. InsertedKeysFresh' /\ ResolveFindsBooking'
  BY <1>1, <1>2 DEF InsertedKeysFresh, ResolveFindsBooking, WithKey, Exists, Requests
<1>9. AnswersAreTrue'
  BY <1>1, <1>2 DEF AnswersAreTrue, Exists, Requests
<1>10. CancelledOnce'
  BY <1>1, <1>2 DEF CancelledOnce, Requests
<1> QED
  BY <1>3, <1>4, <1>5, <1>6, <1>7, <1>8, <1>9, <1>10

\* An organizer's read changes no row.
LEMMA OrganizerReadInv ==
    ASSUME IInv, NEW p \in OrganizerRequests, OrganizerRead(p)
    PROVE  IInv'
<1> USE DEF IInv
<1>1. /\ p \in Requests /\ p # Free /\ p \notin BookRequests /\ p \notin CancelRequests
      /\ edit[p].event \in Events
  BY EditTyped, RequestsDistinct DEF Requests
<1>2. /\ pc[p] = "idle"
      /\ UNCHANGED <<order, cancelOf, edit, now, status, date, total, avail, bookingStatus,
                     eventLock, bookingLock, began, pending>>
      /\ IF OrganizerAnswer(p) = "NONE"
         THEN pc' = [pc EXCEPT ![p] = "write"] /\ UNCHANGED outcome
         ELSE /\ pc' = [pc EXCEPT ![p] = "done"]
              /\ outcome' = [outcome EXCEPT ![p] = OrganizerAnswer(p)]
  BY <1>1 DEF OrganizerRead, TypeOK, Goto, EndTx, inputs, rows, locks, Answer
<1>3. TypeOK'
  <2>1. /\ pc' \in [Requests -> Labels]
        /\ outcome' \in [Requests -> Outcomes]
    BY <1>1
       DEF OrganizerRead, Goto, Answer, TypeOK, Labels, OrganizerLabels, Outcomes,
           OrganizerAnswer, BookRefusals
  <2> QED
    BY <1>1, <1>2, <2>1, RequestsDistinct
       DEF TypeOK, Requests, OrganizerLabels, rows, inputs
<1>4. AbsentEvents' /\ Progress'
  BY <1>1, <1>2, RequestsDistinct DEF AbsentEvents, Progress, Exists, Requests, TypeOK
<1>5. BookerOwnsEvent'
  BY <1>1, <1>2, BookTyped, RequestsDistinct DEF BookerOwnsEvent, Bookable, Requests, TypeOK
<1>6. CancellerOwnsBooking' /\ CancelChecked'
  BY <1>1, <1>2, CancelTyped, RequestsDistinct
     DEF CancellerOwnsBooking, CancelChecked, CancelRefusal, Progress, Exists,
         Requests, TypeOK
<1>7. CancellerOwnsEvent'
  BY <1>1, <1>2, BookTyped, CancelTyped, RequestsDistinct
     DEF CancellerOwnsEvent, CancellerOwnsBooking, BookerOwnsEvent, AbsentEvents,
         Exists, Requests, TypeOK
<1>8. InsertedKeysFresh' /\ ResolveFindsBooking'
  BY <1>1, <1>2, CancelTyped, RequestsDistinct
     DEF InsertedKeysFresh, ResolveFindsBooking, WithKey, KeyHolders, Progress,
         CancellerOwnsBooking, Exists, Requests, TypeOK
<1>9. AnswersAreTrue'
  BY <1>1, <1>2, CancelTyped
     DEF AnswersAreTrue, Progress, CancellerOwnsBooking, BookRefusals, Exists,
         Requests, TypeOK
<1>10. CancelledOnce'
  BY <1>1, <1>2 DEF CancelledOnce, CancelRefusal, Progress, Exists, Requests, TypeOK
<1> QED
  BY <1>3, <1>4, <1>5, <1>6, <1>7, <1>8, <1>9, <1>10

\* A new date is never written to an event row somebody holds.
LEMMA UpdateWriteInv ==
    ASSUME IInv, NEW p \in OrganizerRequests, UpdateWrite(p)
    PROVE  IInv'
<1> USE DEF IInv
<1>1. /\ p \in Requests /\ p # Free /\ p \notin BookRequests /\ p \notin CancelRequests
      /\ edit[p].event \in Events
  BY EditTyped, RequestsDistinct DEF Requests
<1>2. /\ pc[p] = "write"
      /\ eventLock[edit[p].event] = Free
      /\ UNCHANGED <<order, cancelOf, edit, now, status, total, avail, bookingStatus,
                     eventLock, bookingLock, outcome, began, pending>>
      /\ \A q \in Requests : pc'[q] = IF q = p THEN "written" ELSE pc[q]
      /\ \A e \in Events : e # edit[p].event => date'[e] = date[e]
  BY <1>1 DEF UpdateWrite, TypeOK, Goto, EndTx, inputs, rows, locks
<1>3. TypeOK'
  <2>1. /\ pc' \in [Requests -> Labels]
        /\ date' \in [Events -> Times]
    BY <1>1, EditTyped DEF UpdateWrite, Goto, TypeOK, Labels, OrganizerLabels
  <2> QED
    BY <1>1, <1>2, <2>1, RequestsDistinct
       DEF TypeOK, Requests, OrganizerLabels, rows, inputs
<1>4. AbsentEvents' /\ Progress'
  BY <1>1, <1>2 DEF AbsentEvents, Progress, Exists, Requests
<1>5. BookerOwnsEvent'
  BY <1>1, <1>2, BookTyped, RequestsDistinct DEF BookerOwnsEvent, Bookable, Requests, TypeOK
<1>6. CancellerOwnsBooking' /\ CancelChecked'
  BY <1>1, <1>2 DEF CancellerOwnsBooking, CancelChecked, Exists, Requests
<1>7. CancellerOwnsEvent'
  BY <1>1, <1>2 DEF CancellerOwnsEvent, Requests
<1>8. InsertedKeysFresh' /\ ResolveFindsBooking'
  BY <1>1, <1>2 DEF InsertedKeysFresh, ResolveFindsBooking, WithKey, Exists, Requests
<1>9. AnswersAreTrue'
  BY <1>1, <1>2 DEF AnswersAreTrue, Exists, Requests
<1>10. CancelledOnce'
  BY <1>1, <1>2 DEF CancelledOnce, Requests
<1> QED
  BY <1>3, <1>4, <1>5, <1>6, <1>7, <1>8, <1>9, <1>10

\* An event is never cancelled while somebody holds its row.
LEMMA DeleteWriteInv ==
    ASSUME IInv, NEW p \in OrganizerRequests, DeleteWrite(p)
    PROVE  IInv'
<1> USE DEF IInv
<1>1. /\ p \in Requests /\ p # Free /\ p \notin BookRequests /\ p \notin CancelRequests
      /\ edit[p].event \in Events
  BY EditTyped, RequestsDistinct DEF Requests
<1>2. /\ pc[p] = "write"
      /\ eventLock[edit[p].event] = Free
      /\ UNCHANGED <<order, cancelOf, edit, now, date, total, avail, bookingStatus,
                     eventLock, bookingLock, outcome, began, pending>>
      /\ \A q \in Requests : pc'[q] = IF q = p THEN "written" ELSE pc[q]
      /\ \A e \in Events : status'[e] = IF e = edit[p].event THEN "CANCELLED" ELSE status[e]
  BY <1>1 DEF DeleteWrite, TypeOK, Goto, EndTx, inputs, rows, locks
<1>3. TypeOK'
  <2>1. /\ pc' \in [Requests -> Labels]
        /\ status' \in [Events -> {"ABSENT", "UPCOMING", "CANCELLED"}]
    BY <1>1 DEF DeleteWrite, Goto, TypeOK, Labels, OrganizerLabels
  <2> QED
    BY <1>1, <1>2, <2>1, RequestsDistinct
       DEF TypeOK, Requests, OrganizerLabels, rows, inputs
<1>4. AbsentEvents' /\ Progress'
  BY <1>1, <1>2, BookTyped, RequestsDistinct
     DEF AbsentEvents, Progress, BookerOwnsEvent, Bookable, CancellerOwnsBooking,
         Exists, Requests, TypeOK
<1>5. BookerOwnsEvent'
  BY <1>1, <1>2, BookTyped, RequestsDistinct DEF BookerOwnsEvent, Bookable, Requests, TypeOK
<1>6. CancellerOwnsBooking' /\ CancelChecked'
  BY <1>1, <1>2 DEF CancellerOwnsBooking, CancelChecked, Exists, Requests
<1>7. CancellerOwnsEvent'
  BY <1>1, <1>2 DEF CancellerOwnsEvent, Requests
<1>8. InsertedKeysFresh' /\ ResolveFindsBooking'
  BY <1>1, <1>2 DEF InsertedKeysFresh, ResolveFindsBooking, WithKey, Exists, Requests
<1>9. AnswersAreTrue'
  BY <1>1, <1>2 DEF AnswersAreTrue, Exists, Requests
<1>10. CancelledOnce'
  BY <1>1, <1>2 DEF CancelledOnce, Requests
<1> QED
  BY <1>3, <1>4, <1>5, <1>6, <1>7, <1>8, <1>9, <1>10

\* The answer to an organizer changes no row.
LEMMA OrganizerRespondInv ==
    ASSUME IInv, NEW p \in OrganizerRequests, OrganizerRespond(p)
    PROVE  IInv'
<1> USE DEF IInv
<1>1. /\ p \in Requests /\ p # Free /\ p \notin BookRequests /\ p \notin CancelRequests
      /\ edit[p].event \in Events
  BY EditTyped, RequestsDistinct DEF Requests
<1>2. /\ pc[p] = "written"
      /\ UNCHANGED <<order, cancelOf, edit, now, status, date, total, avail, bookingStatus,
                     eventLock, bookingLock, began, pending>>
      /\ \A q \in Requests : pc'[q] = IF q = p THEN "done" ELSE pc[q]
      /\ \A q \in Requests : outcome'[q] = IF q = p THEN "OK" ELSE outcome[q]
  BY <1>1 DEF OrganizerRespond, TypeOK, Goto, EndTx, inputs, rows, locks, Answer
<1>3. TypeOK'
  <2>1. /\ pc' \in [Requests -> Labels]
        /\ outcome' \in [Requests -> Outcomes]
    BY <1>1 DEF OrganizerRespond, Answer, TypeOK, Labels, OrganizerLabels, Outcomes
  <2> QED
    BY <1>1, <1>2, <2>1, RequestsDistinct
       DEF TypeOK, Requests, OrganizerLabels, rows, inputs
<1>4. AbsentEvents' /\ Progress'
  BY <1>1, <1>2 DEF AbsentEvents, Progress, Exists, Requests
<1>5. BookerOwnsEvent'
  BY <1>1, <1>2 DEF BookerOwnsEvent, Bookable, Requests
<1>6. CancellerOwnsBooking' /\ CancelChecked'
  BY <1>1, <1>2 DEF CancellerOwnsBooking, CancelChecked, Exists, Requests
<1>7. CancellerOwnsEvent'
  BY <1>1, <1>2 DEF CancellerOwnsEvent, Requests
<1>8. InsertedKeysFresh' /\ ResolveFindsBooking'
  BY <1>1, <1>2 DEF InsertedKeysFresh, ResolveFindsBooking, WithKey, Exists, Requests
<1>9. AnswersAreTrue'
  BY <1>1, <1>2 DEF AnswersAreTrue, Exists, Requests
<1>10. CancelledOnce'
  BY <1>1, <1>2 DEF CancelledOnce, Requests
<1> QED
  BY <1>3, <1>4, <1>5, <1>6, <1>7, <1>8, <1>9, <1>10

\* A failure ends one transaction and changes no row.
LEMMA RequestFailsInv ==
    ASSUME IInv, NEW p \in Requests, RequestFails(p)
    PROVE  IInv'
<1> USE DEF IInv
<1>1. p # Free
  BY BookTyped, RequestsDistinct DEF Requests
<1>2. /\ pc[p] \notin {"idle", "done"}
      /\ UNCHANGED <<order, cancelOf, edit, now, status, date, total, avail, bookingStatus>>
      /\ \A q \in Requests : pc'[q] = IF q = p THEN "done" ELSE pc[q]
      /\ \A q \in Requests : outcome'[q] = IF q = p THEN "INTERNAL_ERROR" ELSE outcome[q]
      /\ \A e \in Events : eventLock'[e] = IF eventLock[e] = p THEN Free ELSE eventLock[e]
      /\ \A b \in BookRequests : bookingLock'[b] = IF bookingLock[b] = p THEN Free ELSE bookingLock[b]
      /\ \A q \in Requests : q # p => pending'[q] = pending[q] /\ began'[q] = began[q]
  BY <1>1 DEF RequestFails, TypeOK, Goto, EndTx, inputs, rows, locks, Answer, InFlight
<1>3. TypeOK'
  <2>1. /\ pc' \in [Requests -> Labels]
        /\ outcome' \in [Requests -> Outcomes]
    BY <1>1
       DEF RequestFails, Answer, TypeOK, Labels, BookLabels, CancelLabels,
           OrganizerLabels, Outcomes, InFlight
  <2>2. EndTx({p})
    BY DEF RequestFails
  <2> QED
    BY <1>1, <1>2, <2>1, <2>2, EndTxType, RequestsDistinct
       DEF TypeOK, Requests, BookLabels, CancelLabels, OrganizerLabels, rows,
           inputs
<1>4. AbsentEvents' /\ Progress'
  BY <1>1, <1>2 DEF AbsentEvents, Progress, Exists, Requests
<1>5. BookerOwnsEvent'
  BY <1>1, <1>2, BookTyped DEF BookerOwnsEvent, Bookable, Requests
<1>6. CancellerOwnsBooking' /\ CancelChecked'
  BY <1>1, <1>2, CancelTyped, RequestsDistinct
     DEF CancellerOwnsBooking, CancelChecked, Exists, Requests
<1>7. CancellerOwnsEvent'
  BY <1>1, <1>2, BookTyped, CancelTyped, RequestsDistinct DEF CancellerOwnsEvent, Requests
<1>8. InsertedKeysFresh' /\ ResolveFindsBooking'
  BY <1>1, <1>2 DEF InsertedKeysFresh, ResolveFindsBooking, WithKey, Exists, Requests
<1>9. AnswersAreTrue'
  BY <1>1, <1>2 DEF AnswersAreTrue, Progress, BookRefusals, Exists, Requests
<1>10. CancelledOnce'
  BY <1>1, <1>2 DEF CancelledOnce, Requests
<1> QED
  BY <1>3, <1>4, <1>5, <1>6, <1>7, <1>8, <1>9, <1>10

\* The clock is part of no conjunct.
LEMMA TickInv ==
    ASSUME IInv, Tick
    PROVE  IInv'
<1> USE DEF IInv
<1>1. /\ now' \in Times
      /\ UNCHANGED <<order, cancelOf, edit, status, date, total, avail, bookingStatus,
                     eventLock, bookingLock, pc, outcome, began, pending>>
  BY MaxTimeNatural DEF Tick, TypeOK, Times, inputs, rows, locks
<1>2. TypeOK' /\ AbsentEvents' /\ Progress'
  BY <1>1 DEF TypeOK, AbsentEvents, Progress, Exists
<1>3. BookerOwnsEvent' /\ CancellerOwnsBooking' /\ CancellerOwnsEvent' /\ CancelChecked'
  BY <1>1 DEF BookerOwnsEvent, Bookable, CancellerOwnsBooking, CancellerOwnsEvent,
              CancelChecked, Exists
<1>4. /\ InsertedKeysFresh' /\ ResolveFindsBooking'
      /\ AnswersAreTrue' /\ CancelledOnce'
  BY <1>1 DEF InsertedKeysFresh, ResolveFindsBooking, WithKey, AnswersAreTrue,
              CancelledOnce, Exists
<1> QED
  BY <1>2, <1>3, <1>4

\* An event that did not exist has no bookings, and no transaction works on it.
LEMMA CreateEventInv ==
    ASSUME IInv, NEW d \in Events, CreateEvent(d)
    PROVE  IInv'
<1> USE DEF IInv
<1>1. /\ status[d] = "ABSENT"
      /\ UNCHANGED <<order, cancelOf, edit, now, bookingStatus, eventLock, bookingLock, pc,
                     outcome, began, pending>>
      /\ \A e \in Events : e # d => /\ status'[e] = status[e] /\ date'[e] = date[e]
                                    /\ total'[e] = total[e] /\ avail'[e] = avail[e]
      /\ status'[d] = "UPCOMING"
  BY DEF CreateEvent, TypeOK, inputs, locks
<1>2. TypeOK'
  <2>1. /\ status' \in [Events -> {"ABSENT", "UPCOMING", "CANCELLED"}]
        /\ date' \in [Events -> Times]
        /\ total' \in [Events -> Nat]
        /\ avail' \in [Events -> Int]
    BY CapacitiesPositive DEF CreateEvent, TypeOK
  <2> QED
    BY <1>1, <2>1 DEF TypeOK
<1>3. AbsentEvents' /\ Progress'
  BY <1>1, BookTyped DEF AbsentEvents, Progress, Exists, TypeOK
<1>4. BookerOwnsEvent'
  BY <1>1, BookTyped DEF BookerOwnsEvent, Bookable
<1>5. CancellerOwnsBooking' /\ CancelChecked'
  BY <1>1 DEF CancellerOwnsBooking, CancelChecked, Exists
<1>6. CancellerOwnsEvent'
  BY <1>1, BookTyped, CancelTyped
     DEF CancellerOwnsEvent, CancellerOwnsBooking, AbsentEvents, Exists
<1>7. /\ InsertedKeysFresh' /\ ResolveFindsBooking'
      /\ AnswersAreTrue' /\ CancelledOnce'
  BY <1>1 DEF InsertedKeysFresh, ResolveFindsBooking, WithKey, AnswersAreTrue,
              CancelledOnce, Exists
<1> QED
  BY <1>2, <1>3, <1>4, <1>5, <1>6, <1>7

\* A crash ends every request in flight at once, as if each had failed.
LEMMA CrashInv ==
    ASSUME IInv, Crash
    PROVE  IInv'
<1> USE DEF IInv
<1>1. /\ UNCHANGED <<order, cancelOf, edit, now, status, date, total, avail, bookingStatus>>
      /\ \A q \in Requests : \/ pc'[q] = "done" /\ outcome'[q] = "NO_RESPONSE"
                             \/ /\ pc'[q] = pc[q] /\ outcome'[q] = outcome[q]
                                /\ pc[q] \in {"idle", "done"}
      /\ \A q \in Requests : pc'[q] \in {"idle", "done"}
  BY DEF Crash, InFlight, TypeOK, inputs, rows
<1>2. TypeOK'
  <2>1. /\ pc' \in [Requests -> Labels]
        /\ outcome' \in [Requests -> Outcomes]
    BY DEF Crash, TypeOK, Labels, BookLabels, Outcomes
  <2>2. EndTx(InFlight)
    BY DEF Crash
  <2> QED
    BY <1>1, <2>1, <2>2, EndTxType
       DEF TypeOK, Requests, BookLabels, CancelLabels, OrganizerLabels
<1>3. AbsentEvents' /\ Progress'
  BY <1>1 DEF AbsentEvents, Progress, Exists, Requests, TypeOK
<1>4. /\ BookerOwnsEvent' /\ CancellerOwnsBooking' /\ CancellerOwnsEvent' /\ CancelChecked'
      /\ InsertedKeysFresh' /\ ResolveFindsBooking'
  BY <1>1 DEF BookerOwnsEvent, CancellerOwnsBooking, CancellerOwnsEvent, CancelChecked,
              InsertedKeysFresh, ResolveFindsBooking, Requests
<1>5. AnswersAreTrue' /\ CancelledOnce'
  BY <1>1 DEF AnswersAreTrue, CancelledOnce, BookRefusals, Exists, Requests
<1> QED
  BY <1>2, <1>3, <1>4, <1>5

\* A step that changes nothing keeps the invariant.
LEMMA StutterInv ==
    ASSUME IInv, UNCHANGED vars
    PROVE  IInv'
BY DEF IInv, vars, inputs, rows, locks, TypeOK, AbsentEvents, Progress, BookerOwnsEvent,
       Bookable, CancellerOwnsBooking, CancellerOwnsEvent, CancelChecked,
       InsertedKeysFresh, ResolveFindsBooking, WithKey, AnswersAreTrue, CancelledOnce, Exists

(***************************************************************************)
(* The inductive invariant                                                 *)
(***************************************************************************)

\* With no request arrived every conjunct holds of no one.
LEMMA InitInv == Init => IInv
<1> SUFFICES ASSUME Init PROVE IInv
  OBVIOUS
<1>1. TypeOK
  <2>1. 0 \in Times
    BY MaxTimeNatural DEF Times
  <2> QED
    BY <2>1, InputsTyped
       DEF Init, TypeOK, Labels, BookLabels, CancelLabels, OrganizerLabels, Outcomes, Requests
<1>2. \A p \in Requests : pc[p] = "idle" /\ outcome[p] = "NONE"
  BY DEF Init
<1>3. \A b \in BookRequests : ~Exists(b)
  BY DEF Init, Exists
<1>4. AbsentEvents /\ Progress
  BY <1>2, <1>3 DEF Init, AbsentEvents, Progress, Requests
<1>5. /\ BookerOwnsEvent /\ CancellerOwnsBooking /\ CancellerOwnsEvent /\ CancelChecked
      /\ InsertedKeysFresh /\ ResolveFindsBooking /\ AnswersAreTrue /\ CancelledOnce
  BY <1>2 DEF BookerOwnsEvent, CancellerOwnsBooking, CancellerOwnsEvent, CancelChecked,
              InsertedKeysFresh, ResolveFindsBooking, AnswersAreTrue, CancelledOnce,
              BookRefusals, Requests
<1> QED
  BY <1>1, <1>4, <1>5 DEF IInv

\* One action at a time.
LEMMA StepInv == IInv /\ [Next]_vars => IInv'
<1> SUFFICES ASSUME IInv, [Next]_vars PROVE IInv'
  OBVIOUS
<1>1. ASSUME NEW p \in BookRequests, FastPath(p) \/ BookStep(p) PROVE IInv'
  BY <1>1, FastPathInv, BeginTxInv, DecrementInv, DecrementMissesInv, DiagnoseInv,
     InsertInv, InsertConflictsInv, CommitInv, BookRespondInv, ResolveInv DEF BookStep
<1>2. ASSUME NEW p \in CancelRequests, CancelRead(p) \/ CancelStep(p) PROVE IInv'
  BY <1>2, CancelReadInv, CancelMarkInv, CancelMissedInv, CancelRestockInv,
     CancelCommitInv, CancelRespondInv DEF CancelStep
<1>3. ASSUME NEW p \in OrganizerRequests, OrganizerRead(p) \/ OrganizerStep(p) PROVE IInv'
  BY <1>3, OrganizerReadInv, UpdateWriteInv, DeleteWriteInv, OrganizerRespondInv
     DEF OrganizerStep
<1> QED
  BY <1>1, <1>2, <1>3, TickInv, CrashInv, CreateEventInv, RequestFailsInv, StutterInv DEF Next

\* What the row locks protect holds in every reachable state.
THEOREM InductiveInvariant == Spec => []IInv
BY InitInv, StepInv, PTL DEF Spec

\* Every variable keeps its type.
THEOREM TypeCorrect == Spec => []TypeOK
<1>1. IInv => TypeOK
  BY DEF IInv
<1> QED
  BY InductiveInvariant, <1>1, PTL

\* The catch block of createBooking always finds the row it lost the race to.
THEOREM LoserFindsBooking == Spec => []ResolveFindsBooking
<1>1. IInv => ResolveFindsBooking
  BY DEF IInv
<1> QED
  BY InductiveInvariant, <1>1, PTL

\* What createBooking answers is true of the rows, now and ever after.
THEOREM AnswersTrue == Spec => []AnswersAreTrue
<1>1. IInv => AnswersAreTrue
  BY DEF IInv
<1> QED
  BY InductiveInvariant, <1>1, PTL

\* Of concurrent cancels of one booking at most one restocks.
THEOREM RestockedOnce == Spec => []CancelledOnce
<1>1. IInv => CancelledOnce
  BY DEF IInv
<1> QED
  BY InductiveInvariant, <1>1, PTL

(***************************************************************************)
(* Which actions change which rows                                         *)
(***************************************************************************)

\* Rows change only by the creation of an event, a commit, or an organizer's
\* write, and those of bookings only by the commits.
LEMMA RowChanges ==
    ASSUME IInv, [Next]_vars
    PROVE  \/ UNCHANGED <<order, total, avail, bookingStatus>>
           \/ \E d \in Events : CreateEvent(d)
           \/ \E p \in BookRequests : Commit(p)
           \/ \E p \in CancelRequests : CancelCommit(p)
<1>1. ASSUME NEW p \in BookRequests, FastPath(p) \/ BookStep(p), ~Commit(p)
      PROVE  UNCHANGED <<order, total, avail, bookingStatus>>
  BY <1>1 DEF BookStep, FastPath, BeginTx, Decrement, DecrementMisses, Diagnose, Insert,
              InsertConflicts, BookRespond, Resolve, inputs, rows
<1>2. ASSUME NEW p \in CancelRequests, CancelRead(p) \/ CancelStep(p), ~CancelCommit(p)
      PROVE  UNCHANGED <<order, total, avail, bookingStatus>>
  BY <1>2 DEF CancelStep, CancelRead, CancelMark, CancelMissed, CancelRestock,
              CancelRespond, inputs, rows
<1>3. ASSUME NEW p \in OrganizerRequests, OrganizerRead(p) \/ OrganizerStep(p)
      PROVE  UNCHANGED <<order, total, avail, bookingStatus>>
  BY <1>3 DEF OrganizerStep, OrganizerRead, UpdateWrite, DeleteWrite, OrganizerRespond,
              inputs, rows
<1>4. ASSUME Tick \/ Crash \/ (\E p \in Requests : RequestFails(p)) \/ UNCHANGED vars
      PROVE  UNCHANGED <<order, total, avail, bookingStatus>>
  BY <1>4 DEF Tick, Crash, RequestFails, vars, inputs, rows
<1> QED
  BY <1>1, <1>2, <1>3, <1>4 DEF Next

\* A booking appears only while its event is UPCOMING and lies after the start
\* of the transaction: the decrement's WHERE clause still holds at the commit.
THEOREM BookedOnlyWhileOpen == Spec => BookedWhileOpen
<1> DEFINE Step == \A b \in BookRequests :
                      ~Exists(b) /\ Exists(b)' =>
                          LET e == order[b].event
                          IN status[e] = "UPCOMING" /\ date[e] > began[b]
<1>1. ASSUME IInv, [Next]_vars PROVE Step
  <2> SUFFICES ASSUME NEW b \in BookRequests, ~Exists(b), Exists(b)'
               PROVE  /\ status[order[b].event] = "UPCOMING"
                      /\ date[order[b].event] > began[b]
    OBVIOUS
  <2>1. Commit(b)
    <3>1. ASSUME NEW d \in Events, CreateEvent(d) PROVE FALSE
      BY <3>1 DEF CreateEvent, Exists
    <3>2. ASSUME NEW p \in BookRequests, Commit(p), p # b PROVE FALSE
      BY <1>1, <3>2 DEF Commit, Exists, IInv, TypeOK
    <3>3. ASSUME NEW x \in CancelRequests, CancelCommit(x) PROVE FALSE
      <4>1. /\ bookingStatus[cancelOf[x].booking] = "CONFIRMED"
            /\ bookingStatus' = [bookingStatus EXCEPT ![cancelOf[x].booking] = "CANCELLED"]
        BY <1>1, <3>3 DEF CancelCommit, CancellerOwnsBooking, IInv
      <4> QED
        BY <1>1, <4>1 DEF Exists, IInv, TypeOK
    <3>4. ~UNCHANGED bookingStatus
      BY DEF Exists
    <3> QED
      BY <1>1, <3>1, <3>2, <3>3, <3>4, RowChanges
  <2>2. pc[b] = "commit"
    BY <2>1 DEF Commit
  <2> QED
    BY <1>1, <2>2 DEF IInv, BookerOwnsEvent, Bookable
<1> QED
  BY InductiveInvariant, <1>1, PTL DEF Spec, BookedWhileOpen

\* A booking stops being confirmed only by the commit of a cancel request of
\* its own customer.
THEOREM CancelledOnlyByOwner == Spec => CancelledByOwner
<1> DEFINE Step ==
        \A b \in BookRequests :
          bookingStatus[b] = "CONFIRMED" /\ bookingStatus'[b] # "CONFIRMED" =>
              /\ bookingStatus'[b] = "CANCELLED"
              /\ \E x \in CancelRequests :
                    /\ pc[x] = "cancelCommit"
                    /\ cancelOf[x] = [booking |-> b, customer |-> order[b].customer]
<1>1. ASSUME IInv, [Next]_vars PROVE Step
  <2> SUFFICES ASSUME NEW b \in BookRequests,
                      bookingStatus[b] = "CONFIRMED", bookingStatus'[b] # "CONFIRMED"
               PROVE  /\ bookingStatus'[b] = "CANCELLED"
                      /\ \E x \in CancelRequests :
                            /\ pc[x] = "cancelCommit"
                            /\ cancelOf[x] = [booking |-> b, customer |-> order[b].customer]
    OBVIOUS
  <2>1. PICK x \in CancelRequests : CancelCommit(x)
    <3>1. ASSUME NEW d \in Events, CreateEvent(d) PROVE FALSE
      BY <3>1 DEF CreateEvent
    <3>2. ASSUME NEW p \in BookRequests, Commit(p) PROVE FALSE
      BY <1>1, <3>2 DEF Commit, IInv, TypeOK
    <3> QED
      BY <1>1, <3>1, <3>2, RowChanges
  <2>2. /\ pc[x] = "cancelCommit"
        /\ cancelOf[x] \in Cancellations
        /\ cancelOf[x].customer = order[cancelOf[x].booking].customer
        /\ bookingStatus' = [bookingStatus EXCEPT ![cancelOf[x].booking] = "CANCELLED"]
    BY <1>1, <2>1 DEF CancelCommit, CancellerOwnsBooking, IInv, TypeOK
  <2>3. cancelOf[x].booking = b /\ bookingStatus'[b] = "CANCELLED"
    BY <1>1, <2>2 DEF IInv, TypeOK
  <2>4. cancelOf[x] = [booking |-> b, customer |-> order[b].customer]
    BY <2>2, <2>3 DEF Cancellations
  <2> QED
    BY <2>2, <2>3, <2>4
<1> QED
  BY InductiveInvariant, <1>1, PTL DEF Spec, CancelledByOwner

(***************************************************************************)
(* Who holds row locks, and who can wait for whom in a cycle               *)
(***************************************************************************)

\* Locks that stay are those of requests that stay where they are; the others
\* are free.
LEMMA ReleasesKeepLocks ==
    ASSUME TypeOK, LocksAreHeld, NEW P, UNCHANGED <<order, cancelOf>>,
           \A q \in Requests \ P : pc'[q] = pc[q],
           \A e \in Events : \/ eventLock'[e] = Free
                             \/ eventLock'[e] = eventLock[e] /\ eventLock[e] \notin P,
           \A b \in BookRequests : \/ bookingLock'[b] = Free
                                   \/ bookingLock'[b] = bookingLock[b] /\ bookingLock[b] \notin P
    PROVE  LocksAreHeld'
<1>1. BookRequests \subseteq Requests /\ CancelRequests \subseteq Requests
  BY DEF Requests
<1>2. ASSUME NEW e \in Events, eventLock'[e] # Free
      PROVE  \/ \E p \in BookRequests :
                  /\ eventLock'[e] = p /\ order'[p].event = e
                  /\ pc'[p] \in {"insert", "commit"}
             \/ \E x \in CancelRequests :
                  /\ eventLock'[e] = x /\ order'[cancelOf'[x].booking].event = e
                  /\ pc'[x] = "cancelCommit"
  BY <1>1, <1>2 DEF LocksAreHeld
<1>3. ASSUME NEW b \in BookRequests, bookingLock'[b] # Free
      PROVE  \E x \in CancelRequests :
                /\ bookingLock'[b] = x /\ cancelOf'[x].booking = b
                /\ pc'[x] \in {"restock", "cancelCommit"}
  BY <1>1, <1>3 DEF LocksAreHeld
<1> QED
  BY <1>2, <1>3 DEF LocksAreHeld

\* A transaction that ends leaves none of its locks behind.
LEMMA EndTxKeepsLocks ==
    ASSUME TypeOK, LocksAreHeld, NEW P, EndTx(P), UNCHANGED inputs,
           \A q \in Requests \ P : pc'[q] = pc[q]
    PROVE  LocksAreHeld'
<1>1. /\ \A e \in Events : \/ eventLock'[e] = Free
                           \/ eventLock'[e] = eventLock[e] /\ eventLock[e] \notin P
      /\ \A b \in BookRequests : \/ bookingLock'[b] = Free
                                 \/ bookingLock'[b] = bookingLock[b] /\ bookingLock[b] \notin P
  BY DEF EndTx
<1> QED
  BY <1>1, ReleasesKeepLocks DEF inputs

\* A request that holds nothing may go where it likes.
LEMMA LocklessKeepsLocks ==
    ASSUME TypeOK, LocksAreHeld, NEW p \in Requests, UNCHANGED <<inputs, locks>>,
           pc[p] \notin {"insert", "commit", "restock", "cancelCommit"},
           \A q \in Requests \ {p} : pc'[q] = pc[q]
    PROVE  LocksAreHeld'
<1>1. /\ \A e \in Events : eventLock[e] = Free \/ eventLock[e] # p
      /\ \A b \in BookRequests : bookingLock[b] = Free \/ bookingLock[b] # p
  BY DEF LocksAreHeld
<1>2. /\ \A e \in Events : \/ eventLock'[e] = Free
                           \/ eventLock'[e] = eventLock[e] /\ eventLock[e] \notin {p}
      /\ \A b \in BookRequests : \/ bookingLock'[b] = Free
                                 \/ bookingLock'[b] = bookingLock[b] /\ bookingLock[b] \notin {p}
  BY <1>1 DEF locks
<1>3. UNCHANGED <<order, cancelOf>>
  BY DEF inputs
<1> QED
  BY <1>2, <1>3, ReleasesKeepLocks

\* A booking's statements take and keep the event row's lock, its end frees it.
LEMMA BookLocks ==
    ASSUME TypeOK, LocksAreHeld, NEW p \in BookRequests, FastPath(p) \/ BookStep(p)
    PROVE  LocksAreHeld'
<1>1. p \in Requests /\ p \notin CancelRequests /\ p # Free /\ order[p].event \in Events
  BY BookTyped, RequestsDistinct DEF Requests
<1>2. CASE FastPath(p) \/ BeginTx(p) \/ DecrementMisses(p) \/ BookRespond(p) \/ Resolve(p)
  <2>1. /\ UNCHANGED <<inputs, locks>>
        /\ pc[p] \notin {"insert", "commit", "restock", "cancelCommit"}
        /\ \A q \in Requests \ {p} : pc'[q] = pc[q]
    BY <1>1, <1>2 DEF FastPath, BeginTx, DecrementMisses, BookRespond, Resolve, Goto, Answer, TypeOK
  <2> QED
    BY <1>1, <2>1, LocklessKeepsLocks
<1>3. CASE Diagnose(p) \/ InsertConflicts(p) \/ Commit(p)
  <2>1. /\ EndTx({p}) /\ UNCHANGED inputs
        /\ \A q \in Requests \ {p} : pc'[q] = pc[q]
    BY <1>1, <1>3 DEF Diagnose, InsertConflicts, Commit, Goto, Answer, TypeOK
  <2> QED
    BY <2>1, EndTxKeepsLocks
<1>4. CASE Decrement(p)
  <2>1. /\ pc[p] = "decrement"
        /\ UNCHANGED <<order, cancelOf, bookingLock>>
        /\ \A q \in Requests : pc'[q] = IF q = p THEN "insert" ELSE pc[q]
        /\ \A e \in Events : eventLock'[e] = IF e = order[p].event THEN p ELSE eventLock[e]
    BY <1>1, <1>4 DEF Decrement, Goto, TypeOK, inputs
  <2> QED
    BY <1>1, <2>1 DEF LocksAreHeld, Requests
<1>5. CASE Insert(p)
  <2>1. /\ pc[p] = "insert"
        /\ UNCHANGED <<order, cancelOf, eventLock, bookingLock>>
        /\ \A q \in Requests : pc'[q] = IF q = p THEN "commit" ELSE pc[q]
    BY <1>1, <1>5 DEF Insert, Goto, TypeOK, inputs, locks
  <2> QED
    BY <1>1, <2>1 DEF LocksAreHeld, Requests
<1> QED
  BY <1>2, <1>3, <1>4, <1>5 DEF BookStep

\* A cancel's statements take the booking's lock and then the event's.
LEMMA CancelLocks ==
    ASSUME TypeOK, LocksAreHeld, NEW x \in CancelRequests, CancelRead(x) \/ CancelStep(x)
    PROVE  LocksAreHeld'
<1>1. /\ x \in Requests /\ x \notin BookRequests /\ x # Free
      /\ cancelOf[x].booking \in BookRequests
      /\ order[cancelOf[x].booking].event \in Events
  BY BookTyped, CancelTyped, RequestsDistinct DEF Requests
<1>2. CASE CancelRead(x) \/ CancelRespond(x)
  <2>1. /\ UNCHANGED <<inputs, locks>>
        /\ pc[x] \notin {"insert", "commit", "restock", "cancelCommit"}
        /\ \A q \in Requests \ {x} : pc'[q] = pc[q]
    BY <1>1, <1>2 DEF CancelRead, CancelRespond, Goto, Answer, TypeOK
  <2> QED
    BY <1>1, <2>1, LocklessKeepsLocks
<1>3. CASE CancelMissed(x) \/ CancelCommit(x)
  <2>1. /\ EndTx({x}) /\ UNCHANGED inputs
        /\ \A q \in Requests \ {x} : pc'[q] = pc[q]
    BY <1>1, <1>3 DEF CancelMissed, CancelCommit, Goto, Answer, TypeOK
  <2> QED
    BY <2>1, EndTxKeepsLocks
<1>4. CASE CancelMark(x)
  <2>1. /\ pc[x] = "mark"
        /\ UNCHANGED <<order, cancelOf, eventLock>>
        /\ \A q \in Requests : pc'[q] = IF q = x THEN "restock" ELSE pc[q]
        /\ \A b \in BookRequests :
              bookingLock'[b] = IF b = cancelOf[x].booking THEN x ELSE bookingLock[b]
    BY <1>1, <1>4 DEF CancelMark, Goto, TypeOK, inputs
  <2> QED
    BY <1>1, <2>1 DEF LocksAreHeld, Requests
<1>5. CASE CancelRestock(x)
  <2>1. /\ pc[x] = "restock"
        /\ UNCHANGED <<order, cancelOf, bookingLock>>
        /\ \A q \in Requests : pc'[q] = IF q = x THEN "cancelCommit" ELSE pc[q]
        /\ \A e \in Events :
              eventLock'[e] = IF e = order[cancelOf[x].booking].event THEN x ELSE eventLock[e]
    BY <1>1, <1>5 DEF CancelRestock, Goto, TypeOK, inputs
  <2> QED
    BY <1>1, <2>1 DEF LocksAreHeld, Requests
<1> QED
  BY <1>2, <1>3, <1>4, <1>5 DEF CancelStep

\* Nothing else takes a lock; a failure and a crash free those of their victims.
LEMMA OtherLocks ==
    ASSUME TypeOK, LocksAreHeld,
           \/ Tick \/ Crash \/ (\E e \in Events : CreateEvent(e)) \/ UNCHANGED vars
           \/ \E p \in OrganizerRequests : OrganizerRead(p) \/ OrganizerStep(p)
           \/ \E p \in Requests : RequestFails(p)
    PROVE  LocksAreHeld'
<1>1. ASSUME Tick \/ (\E e \in Events : CreateEvent(e)) \/ UNCHANGED vars PROVE LocksAreHeld'
  BY <1>1 DEF Tick, CreateEvent, LocksAreHeld, vars, inputs, locks
<1>2. ASSUME NEW p \in OrganizerRequests, OrganizerRead(p) \/ OrganizerStep(p)
      PROVE  LocksAreHeld'
  <2>1. /\ UNCHANGED <<inputs, locks>> /\ p \in Requests
        /\ pc[p] \notin {"insert", "commit", "restock", "cancelCommit"}
        /\ \A q \in Requests \ {p} : pc'[q] = pc[q]
    BY <1>2 DEF OrganizerRead, OrganizerStep, UpdateWrite, DeleteWrite, OrganizerRespond,
                Goto, Answer, TypeOK, Requests
  <2> QED
    BY <2>1, LocklessKeepsLocks
<1>3. ASSUME NEW p \in Requests, RequestFails(p) PROVE LocksAreHeld'
  <2>1. /\ EndTx({p}) /\ UNCHANGED inputs
        /\ \A q \in Requests \ {p} : pc'[q] = pc[q]
    BY <1>3 DEF RequestFails, Answer, TypeOK
  <2> QED
    BY <2>1, EndTxKeepsLocks
<1>4. ASSUME Crash PROVE LocksAreHeld'
  <2>1. /\ EndTx(InFlight) /\ UNCHANGED inputs
        /\ \A q \in Requests \ InFlight : pc'[q] = pc[q]
    BY <1>4 DEF Crash
  <2> QED
    BY <2>1, EndTxKeepsLocks
<1> QED
  BY <1>1, <1>2, <1>3, <1>4

\* No lock outlives its transaction, whatever fails or crashes.
THEOREM NoLockLeaks == Spec => []LocksAreHeld
<1>1. Init => LocksAreHeld
  BY DEF Init, LocksAreHeld
<1>2. TypeOK /\ LocksAreHeld /\ [Next]_vars => LocksAreHeld'
  BY BookLocks, CancelLocks, OtherLocks DEF Next
<1> QED
  BY <1>1, <1>2, TypeCorrect, PTL DEF Spec

\* Who holds an event's lock and waits for somebody is a booking in its insert.
LEMMA EventOwnersWait ==
    ASSUME TypeOK, LocksAreHeld, NEW e \in Events, NEW r \in LockOwner(eventLock[e]),
           WaitsFor(r) # {}
    PROVE  r \in BookRequests /\ pc[r] = "insert"
BY RequestsDistinct DEF LocksAreHeld, LockOwner, WaitsFor

\* Who holds a booking's lock and waits for somebody is its cancel in its restock.
LEMMA BookingOwnersWait ==
    ASSUME TypeOK, LocksAreHeld, NEW b \in BookRequests, NEW x, x = bookingLock[b], x # Free,
           WaitsFor(x) # {}
    PROVE  x \in CancelRequests /\ pc[x] = "restock" /\ cancelOf[x].booking = b
BY RequestsDistinct DEF LocksAreHeld, WaitsFor

\* A booking in its insert waits, in a cycle, for the cancel of the booking
\* whose key it repeats.
LEMMA InsertWaitsForCancel ==
    ASSUME TypeOK, LocksAreHeld, NEW p \in BookRequests, pc[p] = "insert",
           NEW x \in WaitsFor(p), WaitsFor(x) # {}
    PROVE  /\ x \in CancelRequests /\ pc[x] = "restock"
           /\ order[p].key # NoKey
           /\ order[p].key = order[cancelOf[x].booking].key
<1>1. x \in KeyHolders(p) /\ order[p].key # NoKey
  BY DEF WaitsFor, KeyHolders
<1>2. pc[x] # "commit"
  BY DEF WaitsFor
<1>3. PICK b \in WithKey(order[p].key) : x = bookingLock[b] /\ x # Free
  BY <1>1, <1>2 DEF KeyHolders
<1>4. b \in BookRequests /\ order[b].key = order[p].key
  BY DEF WithKey
<1> QED
  BY <1>1, <1>3, <1>4, BookingOwnersWait

\* Every cycle of waiting requests has a booking that repeats a key and the
\* cancel of the booking with that key in it.
THEOREM DeadlockNeedsRetryAndCancel == Spec => []DeadlocksAreRetries
<1>1. ASSUME TypeOK, LocksAreHeld PROVE DeadlocksAreRetries
  <2> SUFFICES ASSUME NEW S \in Cycles
               PROVE  \E p \in S \cap BookRequests, x \in S \cap CancelRequests :
                         /\ pc[p] = "insert" /\ pc[x] = "restock"
                         /\ order[p].key # NoKey
                         /\ order[p].key = order[cancelOf[x].booking].key
    BY DEF DeadlocksAreRetries
  <2>1. S \subseteq Requests /\ S # {} /\ \A r \in S : WaitsFor(r) \cap S # {}
    BY DEF Cycles
  <2>2. ASSUME NEW p \in S \cap BookRequests, pc[p] = "insert"
        PROVE  \E x \in S \cap CancelRequests :
                  /\ pc[x] = "restock" /\ order[p].key # NoKey
                  /\ order[p].key = order[cancelOf[x].booking].key
    <3>1. PICK x \in S : x \in WaitsFor(p)
      BY <2>1
    <3> QED
      BY <1>1, <2>1, <2>2, <3>1, InsertWaitsForCancel
  <2>3. ASSUME NEW e \in Events, NEW r \in LockOwner(eventLock[e]) \cap S
        PROVE  r \in S \cap BookRequests /\ pc[r] = "insert"
    BY <1>1, <2>1, <2>3, EventOwnersWait
  <2>4. ASSUME NEW x \in S \cap CancelRequests, pc[x] = "restock"
        PROVE  \E p \in S \cap BookRequests : pc[p] = "insert"
    <3>1. order[cancelOf[x].booking].event \in Events
      BY <1>1, BookTyped, CancelTyped
    <3>2. WaitsFor(x) = LockOwner(eventLock[order[cancelOf[x].booking].event])
      BY <2>4 DEF WaitsFor
    <3> QED
      BY <2>1, <2>3, <3>1, <3>2
  <2>5. PICK r \in S : TRUE
    BY <2>1
  <2>6. r \in Requests /\ WaitsFor(r) \cap S # {}
    BY <2>1, <2>5
  <2>7. \E p \in S \cap BookRequests : pc[p] = "insert"
    <3>1. CASE r \in BookRequests
      <4>1. order[r].event \in Events
        BY <1>1, <3>1, BookTyped
      <4>2. CASE pc[r] = "decrement"
        BY <2>3, <2>6, <4>1, <4>2 DEF WaitsFor
      <4>3. CASE pc[r] # "decrement"
        BY <1>1, <2>6, <3>1, <4>3 DEF WaitsFor, TypeOK, BookLabels
      <4> QED
        BY <4>2, <4>3
    <3>2. CASE r \in CancelRequests
      <4>1. cancelOf[r].booking \in BookRequests
        BY <1>1, <3>2, CancelTyped
      <4>2. CASE pc[r] = "restock"
        BY <2>4, <3>2, <4>2
      <4>3. CASE pc[r] # "restock"
        <5>1. WaitsFor(r) = LockOwner(bookingLock[cancelOf[r].booking])
          BY <1>1, <2>6, <3>2, <4>3 DEF WaitsFor, TypeOK, CancelLabels
        <5>2. PICK x \in S : x \in LockOwner(bookingLock[cancelOf[r].booking])
          BY <2>6, <5>1
        <5>3. x = bookingLock[cancelOf[r].booking] /\ x # Free
          BY <5>2 DEF LockOwner
        <5>4. WaitsFor(x) # {}
          BY <2>1, <5>2
        <5>5. x \in CancelRequests /\ pc[x] = "restock"
          BY <1>1, <4>1, <5>3, <5>4, BookingOwnersWait
        <5> QED
          BY <2>4, <5>5
      <4> QED
        BY <4>2, <4>3
    <3>3. CASE r \in OrganizerRequests
      <4>1. edit[r].event \in Events
        BY <1>1, <3>3, EditTyped
      <4>2. WaitsFor(r) = LockOwner(eventLock[edit[r].event])
        BY <1>1, <2>6, <3>3 DEF WaitsFor, TypeOK, OrganizerLabels
      <4> QED
        BY <2>3, <2>6, <4>1, <4>2
    <3> QED
      BY <2>6, <3>1, <3>2, <3>3 DEF Requests
  <2> QED
    BY <2>2, <2>7
<1> QED
  BY <1>1, TypeCorrect, NoLockLeaks, PTL

(***************************************************************************)
(* BookingEngine implements EventRow                                       *)
(***************************************************************************)

\* The booking that holds an event's row.
RowLock(e) == IF eventLock[e] \in BookRequests THEN eventLock[e] ELSE Free

\* The organizer's write is of an event that is there.
WritersExist ==
    \A o \in OrganizerRequests : pc[o] = "write" => status[edit[o].event] # "ABSENT"

\* No event disappears, and the read has found the event the write is for.
LEMMA WritersExistKept ==
    ASSUME IInv, WritersExist, [Next]_vars
    PROVE  WritersExist'
<1>1. UNCHANGED edit /\ \A e \in Events : status[e] # "ABSENT" => status'[e] # "ABSENT"
  <2>1. UNCHANGED edit
    BY DEF Next, Tick, Crash, CreateEvent, FastPath, BookStep, BeginTx, Decrement, DecrementMisses,
           Diagnose, Insert, InsertConflicts, Commit, BookRespond, Resolve, CancelRead, CancelStep,
           CancelMark, CancelMissed, CancelRestock, CancelCommit, CancelRespond, OrganizerRead,
           OrganizerStep, UpdateWrite, DeleteWrite, OrganizerRespond, RequestFails, inputs, vars
  <2>2. \/ UNCHANGED status
        \/ \E e \in Events : CreateEvent(e)
        \/ \E o \in OrganizerRequests : DeleteWrite(o)
    BY DEF Next, Tick, Crash, FastPath, BookStep, BeginTx, Decrement, DecrementMisses,
           Diagnose, Insert, InsertConflicts, Commit, BookRespond, Resolve, CancelRead, CancelStep,
           CancelMark, CancelMissed, CancelRestock, CancelCommit, CancelRespond, OrganizerRead,
           OrganizerStep, UpdateWrite, OrganizerRespond, RequestFails, rows, vars
  <2> QED
    BY <2>1, <2>2 DEF CreateEvent, DeleteWrite, IInv, TypeOK
<1>2. ASSUME NEW o \in OrganizerRequests, pc'[o] = "write", pc[o] # "write"
      PROVE  status[edit[o].event] # "ABSENT"
  <2>1. OrganizerRead(o)
    <3>1. o \in Requests /\ o \notin BookRequests /\ o \notin CancelRequests
      BY RequestsDistinct DEF Requests
    <3>2. ASSUME NEW p \in Requests, NEW l, Goto(p, l), l = "write" => p = o /\ OrganizerRead(o)
          PROVE  OrganizerRead(o)
      BY <1>2, <3>1, <3>2 DEF Goto, IInv, TypeOK
    <3>3. ASSUME NEW p \in Requests, NEW c, Answer(p, c) PROVE FALSE
      BY <1>2, <3>1, <3>3 DEF Answer, IInv, TypeOK
    <3>4. ASSUME NEW p \in BookRequests, FastPath(p) \/ BookStep(p) PROVE OrganizerRead(o)
      BY <3>2, <3>3, <3>4 DEF Requests, FastPath, BookStep, BeginTx, Decrement, DecrementMisses,
           Diagnose, Insert, InsertConflicts, Commit, BookRespond, Resolve
    <3>5. ASSUME NEW p \in CancelRequests, CancelRead(p) \/ CancelStep(p) PROVE OrganizerRead(o)
      BY <3>2, <3>3, <3>5 DEF Requests, CancelRead, CancelStep, CancelMark, CancelMissed,
           CancelRestock, CancelCommit, CancelRespond
    <3>6. ASSUME NEW p \in OrganizerRequests, OrganizerStep(p) PROVE OrganizerRead(o)
      BY <3>2, <3>3, <3>6 DEF Requests, OrganizerStep, UpdateWrite, DeleteWrite, OrganizerRespond
    <3>7. ASSUME NEW p \in OrganizerRequests, OrganizerRead(p) PROVE OrganizerRead(o)
      <4>1. CASE p = o
        BY <3>7, <4>1
      <4>2. CASE p # o
        BY <1>2, <3>1, <3>7, <4>2 DEF OrganizerRead, Goto, Answer, IInv, TypeOK, Requests
      <4> QED
        BY <4>1, <4>2
    <3>8. ASSUME NEW p \in Requests, RequestFails(p) PROVE FALSE
      BY <3>3, <3>8 DEF RequestFails
    <3>9. ASSUME Tick \/ Crash \/ (\E e \in Events : CreateEvent(e)) \/ UNCHANGED vars PROVE FALSE
      BY <1>2, <3>1, <3>9 DEF Tick, Crash, CreateEvent, vars, IInv, TypeOK
    <3> QED
      BY <3>4, <3>5, <3>6, <3>7, <3>8, <3>9 DEF Next
  <2>2. o \in Requests /\ pc \in [Requests -> Labels]
    BY DEF Requests, IInv, TypeOK
  <2> QED
    BY <1>2, <2>1, <2>2 DEF OrganizerRead, OrganizerAnswer, Answer
<1>3. \A o \in OrganizerRequests : edit[o].event \in Events
  BY EditTyped DEF IInv
<1> QED
  BY <1>1, <1>2, <1>3 DEF WritersExist

\* A step that leaves the row of event e, its booking's lock and its bookings alone.
LEMMA EventUntouched ==
    ASSUME NEW e \in Events, UNCHANGED <<order, status[e], date[e]>>, RowLock(e)' = RowLock(e),
           \A b \in BookRequests : order[b].event = e => StageOf(b)' = StageOf(b)
    PROVE  Row!Step(e)
BY DEF Row!Step, Row!RowStays, Row!BookingsStay, Row!Of, RowLock

\* One booking of event e goes on, and nothing else of the event.
LEMMA BookingMoves ==
    ASSUME NEW e \in Events, NEW p \in BookRequests, order[p].event = e,
           UNCHANGED <<order, status[e], date[e]>>,
           \A b \in BookRequests : order[b].event = e /\ b # p => StageOf(b)' = StageOf(b),
           \/ /\ StageOf(p) = "NONE" /\ RowLock(e) = Free /\ status[e] = "UPCOMING"
              /\ StageOf(p)' = "TAKEN" /\ RowLock(e)' = p
           \/ /\ StageOf(p) = "TAKEN" /\ RowLock(e) = p
              /\ StageOf(p)' \in {"CONFIRMED", "NONE"} /\ RowLock(e)' = Free
           \/ /\ StageOf(p) = "CONFIRMED" /\ RowLock(e) = Free
              /\ StageOf(p)' = "CANCELLED" /\ RowLock(e)' = Free
    PROVE  Row!Step(e)
BY DEF Row!Step, Row!Taken, Row!Ended, Row!Cancelled, Row!RowStays, Row!BookingsStay, Row!Of,
       RowLock

\* What a booking's stage is, and when its tickets are taken and not committed.
LEMMA Stages ==
    ASSUME IInv
    PROVE  /\ \A b \in BookRequests :
                 StageOf(b) = "TAKEN" <=> pc[b] \in {"insert", "commit"}
           /\ \A b \in BookRequests : StageOf(b) \in {"NONE", "TAKEN", "CONFIRMED", "CANCELLED"}
           /\ \A b \in BookRequests : pc[b] \in {"insert", "commit"} =>
                 eventLock[order[b].event] = b /\ RowLock(order[b].event) = b
BY DEF IInv, TypeOK, Progress, BookerOwnsEvent, StageOf, Exists, RowLock

\* Transactions that end without a commit: the booking that held the row, if one
\* of them did, is rolled back.
LEMMA RollbackSteps ==
    ASSUME IInv, LocksAreHeld, NEW P, EndTx(P), UNCHANGED <<inputs, status, date, bookingStatus>>,
           \A q \in Requests : q \notin P => pc'[q] = pc[q],
           \A q \in Requests : q \in P => pc'[q] \notin {"insert", "commit"},
           NEW e \in Events
    PROVE  Row!Step(e)
<1>1. /\ eventLock'[e] = IF eventLock[e] \in P THEN Free ELSE eventLock[e]
      /\ UNCHANGED <<order, status[e], date[e]>>
      /\ Free \notin BookRequests /\ BookRequests \subseteq Requests
  BY RequestsDistinct DEF EndTx, inputs, Requests
<1>2. \A b \in BookRequests :
         StageOf(b)' = IF b \in P /\ StageOf(b) = "TAKEN" THEN "NONE" ELSE StageOf(b)
  BY <1>1 DEF StageOf, Exists, IInv, TypeOK, Progress
<1>3. \A b \in BookRequests : StageOf(b) = "TAKEN" /\ order[b].event = e => eventLock[e] = b
  BY Stages
<1>4. CASE eventLock[e] \in P \cap BookRequests
  <2>1. PICK p \in BookRequests : eventLock[e] = p
    BY <1>4
  <2>2. order[p].event = e /\ pc[p] \in {"insert", "commit"} /\ p \in P
    BY <1>1, <1>4, <2>1, RequestsDistinct DEF LocksAreHeld
  <2>3. StageOf(p) = "TAKEN" /\ RowLock(e) = p /\ RowLock(e)' = Free /\ StageOf(p)' = "NONE"
    BY <1>1, <1>2, <2>1, <2>2, Stages DEF RowLock
  <2> QED
    BY <1>1, <1>2, <1>3, <2>1, <2>2, <2>3, BookingMoves
<1>5. CASE eventLock[e] \notin P \cap BookRequests
  <2>1. RowLock(e)' = RowLock(e)
    BY <1>1, <1>5 DEF RowLock
  <2>2. \A b \in BookRequests : order[b].event = e => StageOf(b)' = StageOf(b)
    BY <1>2, <1>3, <1>5
  <2> QED
    BY <1>1, <2>1, <2>2, EventUntouched
<1> QED
  BY <1>4, <1>5

\* Statements that touch no row and no lock of a booking.
LEMMA QuietSteps ==
    ASSUME IInv, NEW e \in Events,
           UNCHANGED <<order, status, date, bookingStatus>>, RowLock(e)' = RowLock(e),
           \A b \in BookRequests :
              pc'[b] \in {"insert", "commit"} <=> pc[b] \in {"insert", "commit"}
    PROVE  Row!Step(e)
<1>1. \A b \in BookRequests : StageOf(b)' = StageOf(b)
  BY DEF StageOf, Exists
<1> QED
  BY <1>1, EventUntouched

\* createBooking.
LEMMA BookRowSteps ==
    ASSUME IInv, LocksAreHeld, NEW p \in BookRequests, FastPath(p) \/ BookStep(p), NEW e \in Events
    PROVE  Row!Step(e)
<1>1. /\ p \in Requests /\ p # Free /\ BookRequests \subseteq Requests
      /\ order[p].event \in Events /\ pc \in [Requests -> Labels]
      /\ bookingStatus \in [BookRequests -> {"NONE", "CONFIRMED", "CANCELLED"}]
      /\ eventLock \in [Events -> BookRequests \cup CancelRequests \cup {Free}]
  BY BookTyped, RequestsDistinct DEF Requests, IInv, TypeOK
<1>2. CASE FastPath(p) \/ BeginTx(p) \/ DecrementMisses(p) \/ Insert(p) \/ BookRespond(p) \/ Resolve(p)
  <2>1. /\ UNCHANGED <<order, status, date, bookingStatus, eventLock>>
        /\ \A b \in BookRequests :
              pc'[b] \in {"insert", "commit"} <=> pc[b] \in {"insert", "commit"}
    BY <1>1, <1>2 DEF FastPath, BeginTx, DecrementMisses, Insert, BookRespond, Resolve, Goto, Answer,
                      inputs, rows, locks
  <2> QED
    BY <2>1, QuietSteps DEF RowLock
<1>3. CASE Diagnose(p) \/ InsertConflicts(p)
  <2>1. /\ EndTx({p}) /\ UNCHANGED <<inputs, status, date, bookingStatus>>
        /\ \A q \in Requests : q \notin {p} => pc'[q] = pc[q]
        /\ \A q \in Requests : q \in {p} => pc'[q] \notin {"insert", "commit"}
    BY <1>1, <1>3 DEF Diagnose, InsertConflicts, Goto, Answer, rows
  <2> QED
    BY <2>1, RollbackSteps
<1>4. CASE Decrement(p)
  <2>1. /\ pc[p] = "decrement" /\ eventLock[order[p].event] = Free /\ Bookable(p)
        /\ UNCHANGED <<order, status, date, bookingStatus>>
        /\ \A q \in Requests : pc'[q] = IF q = p THEN "insert" ELSE pc[q]
        /\ eventLock'[order[p].event] = p
        /\ \A d \in Events : d # order[p].event => eventLock'[d] = eventLock[d]
    BY <1>1, <1>4 DEF Decrement, Goto, inputs, rows
  <2>2. /\ StageOf(p) = "NONE" /\ StageOf(p)' = "TAKEN"
        /\ \A b \in BookRequests : b # p => StageOf(b)' = StageOf(b)
    BY <1>1, <2>1 DEF StageOf, Exists, IInv, Progress
  <2>3. CASE e = order[p].event
    <3>1. RowLock(e) = Free /\ RowLock(e)' = p /\ status[e] = "UPCOMING"
      BY <1>1, <2>1, <2>3 DEF RowLock, Bookable
    <3> QED
      BY <2>1, <2>2, <2>3, <3>1, BookingMoves
  <2>4. CASE e # order[p].event
    <3>1. RowLock(e)' = RowLock(e)
      BY <2>1, <2>4 DEF RowLock
    <3> QED
      BY <2>1, <2>2, <2>4, <3>1, EventUntouched
  <2> QED
    BY <2>3, <2>4
<1>5. CASE Commit(p)
  <2>1. /\ pc[p] = "commit"
        /\ UNCHANGED <<order, status, date>>
        /\ \A q \in Requests : pc'[q] = IF q = p THEN "committed" ELSE pc[q]
        /\ \A b \in BookRequests :
              bookingStatus'[b] = IF b = p THEN "CONFIRMED" ELSE bookingStatus[b]
        /\ \A d \in Events : eventLock'[d] = IF eventLock[d] = p THEN Free ELSE eventLock[d]
    BY <1>1, <1>5 DEF Commit, EndTx, Goto, inputs
  <2>2. /\ StageOf(p) = "TAKEN" /\ StageOf(p)' = "CONFIRMED"
        /\ \A b \in BookRequests : b # p => StageOf(b)' = StageOf(b)
    BY <1>1, <2>1, Stages DEF StageOf, Exists
  <2>3. CASE e = order[p].event
    <3>1. RowLock(e) = p /\ RowLock(e)' = Free
      BY <1>1, <2>1, <2>3, Stages, RequestsDistinct DEF RowLock
    <3> QED
      BY <2>1, <2>2, <2>3, <3>1, BookingMoves
  <2>4. CASE e # order[p].event
    <3>1. eventLock[e] # p
      BY <1>1, <2>4, RequestsDistinct DEF LocksAreHeld
    <3>2. RowLock(e)' = RowLock(e)
      BY <2>1, <3>1 DEF RowLock
    <3> QED
      BY <2>1, <2>2, <2>4, <3>2, EventUntouched
  <2> QED
    BY <2>3, <2>4
<1> QED
  BY <1>2, <1>3, <1>4, <1>5 DEF BookStep

\* cancelBooking.
LEMMA CancelRowSteps ==
    ASSUME IInv, LocksAreHeld, NEW x \in CancelRequests, CancelRead(x) \/ CancelStep(x),
           NEW e \in Events
    PROVE  Row!Step(e)
<1>1. /\ x \in Requests /\ x # Free /\ x \notin BookRequests /\ BookRequests \subseteq Requests
      /\ cancelOf[x].booking \in BookRequests
      /\ order[cancelOf[x].booking].event \in Events /\ pc \in [Requests -> Labels]
      /\ bookingStatus \in [BookRequests -> {"NONE", "CONFIRMED", "CANCELLED"}]
      /\ eventLock \in [Events -> BookRequests \cup CancelRequests \cup {Free}]
  BY BookTyped, CancelTyped, RequestsDistinct DEF Requests, IInv, TypeOK
<1>2. CASE CancelRead(x) \/ CancelMark(x) \/ CancelRestock(x) \/ CancelRespond(x)
  <2>1. /\ UNCHANGED <<order, status, date, bookingStatus>>
        /\ \A b \in BookRequests : pc'[b] = pc[b]
        /\ \/ eventLock'[e] = eventLock[e]
           \/ eventLock[e] = Free /\ eventLock'[e] = x
    BY <1>1, <1>2 DEF CancelRead, CancelMark, CancelRestock, CancelRespond, Goto, Answer,
                      inputs, rows, locks
  <2>2. RowLock(e)' = RowLock(e)
    BY <1>1, <2>1, RequestsDistinct DEF RowLock, Requests
  <2> QED
    BY <2>1, <2>2, QuietSteps
<1>3. CASE CancelMissed(x)
  <2>1. /\ EndTx({x}) /\ UNCHANGED <<inputs, status, date, bookingStatus>>
        /\ \A q \in Requests : q \notin {x} => pc'[q] = pc[q]
        /\ \A q \in Requests : q \in {x} => pc'[q] \notin {"insert", "commit"}
    BY <1>1, <1>3 DEF CancelMissed, Answer, rows
  <2> QED
    BY <2>1, RollbackSteps
<1>4. CASE CancelCommit(x)
  <2>0. PICK b \in BookRequests : b = cancelOf[x].booking
    BY <1>1
  <2>1. /\ pc[x] = "cancelCommit"
        /\ UNCHANGED <<order, status, date>>
        /\ \A c \in BookRequests : pc'[c] = pc[c]
        /\ \A c \in BookRequests :
              bookingStatus'[c] = IF c = b THEN "CANCELLED" ELSE bookingStatus[c]
        /\ \A d \in Events : eventLock'[d] = IF eventLock[d] = x THEN Free ELSE eventLock[d]
    BY <1>1, <1>4, <2>0 DEF CancelCommit, EndTx, Goto, inputs
  <2>2. bookingStatus[b] = "CONFIRMED" /\ eventLock[order[b].event] = x
    BY <2>0, <2>1 DEF IInv, CancellerOwnsBooking, CancellerOwnsEvent
  <2>3. /\ StageOf(b) = "CONFIRMED" /\ StageOf(b)' = "CANCELLED"
        /\ \A c \in BookRequests : c # b => StageOf(c)' = StageOf(c)
    BY <1>1, <2>1, <2>2 DEF StageOf, Exists
  <2>4. RowLock(e)' = RowLock(e) /\ (e = order[b].event => RowLock(e) = Free)
    BY <1>1, <2>1, <2>2, RequestsDistinct DEF RowLock, Requests
  <2>5. CASE e = order[b].event
    BY <1>1, <2>1, <2>3, <2>4, <2>5, BookingMoves
  <2>6. CASE e # order[b].event
    BY <2>1, <2>3, <2>4, <2>6, EventUntouched
  <2> QED
    BY <2>5, <2>6
<1> QED
  BY <1>2, <1>3, <1>4 DEF CancelStep

\* The organizers, the environment and failures.
LEMMA OtherRowSteps ==
    ASSUME IInv, LocksAreHeld, WritersExist, NEW e \in Events,
           \/ Tick \/ Crash \/ (\E d \in Events : CreateEvent(d)) \/ UNCHANGED vars
           \/ \E o \in OrganizerRequests : OrganizerRead(o) \/ OrganizerStep(o)
           \/ \E p \in Requests : RequestFails(p)
    PROVE  Row!Step(e)
<1>1. /\ BookRequests \subseteq Requests /\ pc \in [Requests -> Labels]
      /\ status \in [Events -> {"ABSENT", "UPCOMING", "CANCELLED"}]
      /\ date \in [Events -> Times] /\ Free \notin BookRequests
      /\ \A o \in OrganizerRequests : o \in Requests /\ o \notin BookRequests
  BY RequestsDistinct DEF Requests, IInv, TypeOK
<1>2. ASSUME Tick \/ UNCHANGED vars PROVE Row!Step(e)
  BY <1>2, QuietSteps DEF Tick, vars, inputs, rows, locks, RowLock
<1>3. ASSUME Crash PROVE Row!Step(e)
  <2>1. /\ EndTx(InFlight) /\ UNCHANGED <<inputs, status, date, bookingStatus>>
        /\ \A q \in Requests : q \notin InFlight => pc'[q] = pc[q]
        /\ \A q \in Requests : q \in InFlight => pc'[q] \notin {"insert", "commit"}
    BY <1>3 DEF Crash, rows
  <2> QED
    BY <2>1, RollbackSteps
<1>4. ASSUME NEW p \in Requests, RequestFails(p) PROVE Row!Step(e)
  <2>1. /\ EndTx({p}) /\ UNCHANGED <<inputs, status, date, bookingStatus>>
        /\ \A q \in Requests : q \notin {p} => pc'[q] = pc[q]
        /\ \A q \in Requests : q \in {p} => pc'[q] \notin {"insert", "commit"}
    BY <1>1, <1>4 DEF RequestFails, Answer, rows
  <2> QED
    BY <2>1, RollbackSteps
<1>5. ASSUME NEW d \in Events, CreateEvent(d) PROVE Row!Step(e)
  <2>1. /\ UNCHANGED <<order, bookingStatus, eventLock, pc>>
        /\ status[d] = "ABSENT" /\ status'[d] = "UPCOMING"
        /\ e # d => status'[e] = status[e] /\ date'[e] = date[e]
    BY <1>1, <1>5 DEF CreateEvent, inputs, locks
  <2>2. RowLock(e)' = RowLock(e) /\ \A b \in BookRequests : StageOf(b)' = StageOf(b)
    BY <2>1 DEF RowLock, StageOf, Exists
  <2>3. CASE e # d
    BY <2>1, <2>2, <2>3, EventUntouched
  <2>4. CASE e = d
    BY <2>1, <2>2, <2>4 DEF Row!Step, Row!Created, Row!BookingsStay, Row!Of, RowLock
  <2> QED
    BY <2>3, <2>4
<1>6. ASSUME NEW o \in OrganizerRequests, OrganizerRead(o) \/ OrganizerRespond(o)
      PROVE  Row!Step(e)
  <2>1. /\ UNCHANGED <<order, status, date, bookingStatus, eventLock>>
        /\ \A b \in BookRequests : pc'[b] = pc[b]
    BY <1>1, <1>6 DEF OrganizerRead, OrganizerRespond, Goto, Answer, inputs, rows, locks
  <2> QED
    BY <2>1, QuietSteps DEF RowLock
<1>7. ASSUME NEW o \in OrganizerRequests, UpdateWrite(o) \/ DeleteWrite(o) PROVE Row!Step(e)
  <2> DEFINE d == edit[o].event
  <2>1. /\ d \in Events /\ status[d] # "ABSENT" /\ eventLock[d] = Free
        /\ UNCHANGED <<order, bookingStatus, eventLock>>
        /\ status'[d] \in {status[d], "CANCELLED"}
        /\ e # d => status'[e] = status[e] /\ date'[e] = date[e]
        /\ \A b \in BookRequests : pc'[b] = pc[b]
    BY <1>1, <1>7, EditTyped DEF UpdateWrite, DeleteWrite, Goto, inputs, locks, WritersExist, IInv
  <2>2. /\ RowLock(e)' = RowLock(e) /\ RowLock(d) = Free
        /\ \A b \in BookRequests : StageOf(b)' = StageOf(b)
    BY <1>1, <2>1 DEF RowLock, StageOf, Exists
  <2>3. CASE e # d
    BY <2>1, <2>2, <2>3, EventUntouched
  <2>4. CASE e = d
    BY <2>1, <2>2, <2>4 DEF Row!Step, Row!Written, Row!BookingsStay, Row!Of, RowLock
  <2> QED
    BY <2>3, <2>4
<1> QED
  BY <1>2, <1>3, <1>4, <1>5, <1>6, <1>7 DEF OrganizerStep

\* Every step is a step of every event's row.
LEMMA EveryRowSteps ==
    ASSUME IInv, LocksAreHeld, WritersExist, [Next]_vars
    PROVE  Row!Next
<1>1. ASSUME NEW e \in Events PROVE Row!Step(e)
  BY BookRowSteps, CancelRowSteps, OtherRowSteps DEF Next
<1>2. UNCHANGED order
  BY DEF Next, Tick, Crash, CreateEvent, FastPath, BookStep, BeginTx, Decrement, DecrementMisses,
         Diagnose, Insert, InsertConflicts, Commit, BookRespond, Resolve, CancelRead, CancelStep,
         CancelMark, CancelMissed, CancelRestock, CancelCommit, CancelRespond, OrganizerRead,
         OrganizerStep, UpdateWrite, DeleteWrite, OrganizerRespond, RequestFails, inputs, vars
<1> QED
  BY <1>1, <1>2 DEF Row!Next

LEMMA WritersExistAlways == Spec => []WritersExist
<1>1. Init => WritersExist
  BY DEF Init, WritersExist, Requests
<1> QED
  BY <1>1, WritersExistKept, InductiveInvariant, PTL DEF Spec

\* Bookings keep the promise EventBroadcast relies on.
THEOREM RefinesEventRow == Spec => ImplementsEventRow
<1>1. Init => Row!Init
  BY InputsTyped, RequestsDistinct DEF Init, Row!Init, StageOf, Exists, Requests, Orders
<1> QED
  BY <1>1, EveryRowSteps, InductiveInvariant, NoLockLeaks, WritersExistAlways, PTL
     DEF Spec, ImplementsEventRow, Row!Spec

\* No organizer's write lands between a booking's decrement and its end.
THEOREM WritesSeeNoOpenBooking == Spec => Row!WritesSeeCommitted
<1>1. ASSUME IInv, Row!Next, NEW e \in Events PROVE Row!WriteSeesCommitted(e)
  <2> SUFFICES ASSUME ~Row!RowStays(e), NEW b \in BookRequests, order[b].event = e,
                      StageOf(b) = "TAKEN"
               PROVE  FALSE
    BY DEF Row!WriteSeesCommitted, Row!Of
  <2>1. RowLock(e) = b /\ b # Free
    BY <1>1, Stages, RequestsDistinct DEF Requests
  <2>2. status[e] # "ABSENT"
    BY <1>1, <2>1, Stages DEF IInv, BookerOwnsEvent, Bookable
  <2>3. Row!Step(e)
    BY <1>1 DEF Row!Next
  <2> QED
    BY <2>1, <2>2, <2>3 DEF Row!Step, Row!Created, Row!Written, RowLock
<1>2. IInv /\ LocksAreHeld /\ WritersExist /\ [Next]_vars =>
         [\A e \in Events : Row!WriteSeesCommitted(e)]_(Row!vars)
  BY <1>1, EveryRowSteps
<1> QED
  BY <1>2, InductiveInvariant, NoLockLeaks, WritersExistAlways, PTL
     DEF Spec, Row!WritesSeeCommitted

(***************************************************************************)
(* BookingEngine implements TicketInventory                                *)
(***************************************************************************)

\* No event, no booking: where both begin.
LEMMA InitRefines == Init => Inventory!Init
BY InputsTyped DEF Init, Inventory!Init, Inventory!Orders, Inventory!Quantities, Orders, Quantities

\* A commit of a booking books; a commit of a cancellation cancels; the
\* creation of an event opens it; every other step is invisible.
LEMMA StepRefines == IInv /\ [Next]_vars => [Inventory!Next]_(Inventory!vars)
<1> SUFFICES ASSUME IInv, [Next]_vars PROVE [Inventory!Next]_(Inventory!vars)
  OBVIOUS
<1>1. ASSUME NEW d \in Events, CreateEvent(d) PROVE Inventory!Next
  <2>1. total[d] = 0
    BY <1>1 DEF CreateEvent, IInv, AbsentEvents
  <2>2. Inventory!Open(d)
    BY <1>1, <2>1 DEF CreateEvent, Inventory!Open, inputs
  <2> QED
    BY <2>2 DEF Inventory!Next
<1>2. ASSUME NEW p \in BookRequests, Commit(p) PROVE Inventory!Next
  <2>1. /\ pc[p] = "commit"
        /\ UNCHANGED <<order, total>>
        /\ avail' = [avail EXCEPT ![order[p].event] = pending[p]]
        /\ bookingStatus' = [bookingStatus EXCEPT ![p] = "CONFIRMED"]
    BY <1>2 DEF Commit, inputs
  <2>2. /\ pending[p] = avail[order[p].event] - order[p].quantity
        /\ avail[order[p].event] >= order[p].quantity
        /\ ~Exists(p)
    BY <2>1 DEF IInv, BookerOwnsEvent, Bookable, Progress
  <2>3. Inventory!KeyUnused(order[p].key)
    BY <2>1 DEF IInv, InsertedKeysFresh, WithKey, Inventory!KeyUnused, Inventory!Exists, Exists
  <2>4. Inventory!Book(p)
    BY <2>1, <2>2, <2>3 DEF Inventory!Book, Inventory!Exists, Exists
  <2> QED
    BY <2>4 DEF Inventory!Next
<1>3. ASSUME NEW x \in CancelRequests, CancelCommit(x) PROVE Inventory!Next
  <2> DEFINE b == cancelOf[x].booking
  <2>1. /\ pc[x] = "cancelCommit"
        /\ UNCHANGED <<order, total>>
        /\ avail' = [avail EXCEPT ![order[b].event] = pending[x]]
        /\ bookingStatus' = [bookingStatus EXCEPT ![b] = "CANCELLED"]
    BY <1>3 DEF CancelCommit, inputs
  <2>2. /\ b \in BookRequests
        /\ pending[x] = avail[order[b].event] + order[b].quantity
        /\ bookingStatus[b] = "CONFIRMED"
    BY <2>1, CancelTyped DEF IInv, CancellerOwnsEvent, CancellerOwnsBooking
  <2>3. Inventory!Cancel(b)
    BY <2>1, <2>2 DEF Inventory!Cancel
  <2> QED
    BY <2>2, <2>3 DEF Inventory!Next
<1> QED
  BY <1>1, <1>2, <1>3, RowChanges DEF Inventory!vars

\* Every behaviour of the two services over the database is, seen through the
\* committed rows, a behaviour of the abstract inventory.
THEOREM Refinement == Spec => ImplementsInventory
<1>1. Spec => []IInv
  BY InductiveInvariant
<1> QED
  BY <1>1, InitRefines, StepRefines, PTL DEF Spec, ImplementsInventory, Inventory!Spec

\* The theorems about the inventory, read about the committed rows.
Promise == INSTANCE TicketInventory_proofs WITH Bookings <- BookRequests

\* What TicketInventory assumes of its constants holds of BookingEngine's.
LEMMA PromiseAssumptions ==
    /\ Capacities \subseteq Nat \ {0}
    /\ MaxQuantity \in Nat \ {0}
    /\ NoKey \notin Keys
BY CapacitiesPositive, MaxQuantityPositive, NoKeyIsNoKey

\* The inventory BookingEngine implements is the one the theorems are about.
LEMMA SamePromise == Spec => Promise!Spec
<1>1. Inventory!Init => Promise!Init
  BY DEF Promise!Init, Inventory!Init, Promise!Orders, Inventory!Orders,
         Promise!Quantities, Inventory!Quantities
<1>2. [Inventory!Next]_(Inventory!vars) => [Promise!Next]_(Promise!vars)
  BY DEF Promise!Next, Inventory!Next, Promise!vars, Inventory!vars,
         Promise!Open, Inventory!Open, Promise!Book, Inventory!Book,
         Promise!Cancel, Inventory!Cancel, Promise!KeyUnused, Inventory!KeyUnused,
         Promise!Exists, Inventory!Exists
<1> QED
  BY <1>1, <1>2, Refinement, PTL DEF ImplementsInventory, Inventory!Spec, Promise!Spec

\* Whatever requests, failures and crashes interleave, no event is oversold and
\* no ticket is lost between a booking, its failure and its cancellation.
THEOREM StockConserved == Spec => []InventoryConserved
<1>1. \A e \in Events : Promise!SoldTickets(e) = Inventory!SoldTickets(e)
  BY DEF Promise!SoldTickets, Inventory!SoldTickets, Promise!Quantities, Inventory!Quantities
<1>2. \A S : Promise!Cardinality(S) = Inventory!Cardinality(S)
  BY DEF Promise!Cardinality, Inventory!Cardinality
<1>3. Promise!Conserved /\ Promise!NoOverselling => InventoryConserved
  BY <1>1, <1>2 DEF InventoryConserved, Promise!Conserved, Promise!NoOverselling,
                    Inventory!Conserved, Inventory!NoOverselling
<1>4. Promise!Spec => []Promise!Conserved
  BY PromiseAssumptions, Promise!TicketsConserved, PTL
<1>5. Promise!Spec => []Promise!NoOverselling
  BY PromiseAssumptions, Promise!NeverOversold, PTL
<1> QED
  BY <1>3, <1>4, <1>5, SamePromise, PTL

\* Whatever requests, failures and crashes interleave, an idempotency key names
\* at most one booking.
THEOREM KeysNameOneBooking == Spec => []OneBookingPerKey
<1>1. Promise!OneBookingPerKey => OneBookingPerKey
  BY DEF OneBookingPerKey, Promise!OneBookingPerKey, Inventory!OneBookingPerKey,
         Promise!Exists, Inventory!Exists
<1>2. Promise!Spec => []Promise!OneBookingPerKey
  BY PromiseAssumptions, Promise!KeysUnique, PTL
<1> QED
  BY <1>1, <1>2, SamePromise, PTL
================================================================================
