--------------------------- MODULE AttendeeMail_proofs ---------------------------
(***************************************************************************)
(* Proofs about EventBroadcast and AttendeeMail, for any sets of bookings  *)
(* and requests, any size of a batch and any number of faults.  Of the     *)
(* broadcast the invariant is IInv: the row lock makes whoever held        *)
(* tickets at an update's write a confirmed booking, and each batch moves  *)
(* its attendees from those to be told to those told.  Of the mailboxes it *)
(* is MailPart: whoever held tickets when the last announced change was    *)
(* written is on the list of its broadcast; whoever booked later has a     *)
(* confirmation that is read later.                                        *)
(***************************************************************************)
EXTENDS AttendeeMail, FiniteSetTheorems, TLAPS

\* A fault is counted.
LEMMA FaultCounted ==
    ASSUME TypeOK, Fault
    PROVE  faults' \in 0..MaxFaults /\ faults' \in Nat /\ faults' = faults + 1 /\ faults < faults'
BY BoundsPositive DEF TypeOK, Fault

\* Updates and deletes are requests, and no request is both.
LEMMA RequestKinds ==
    /\ Updates \subseteq Requests /\ Deletes \subseteq Requests
    /\ \A u \in Updates : u \notin Deletes
BY RequestsDistinct DEF Requests

\* The bound of a loss holds of any part of what is lost, and with more faults.
LEMMA LossShrinks ==
    ASSUME NEW S, NEW T, S \subseteq T, T \subseteq Bookings,
           NEW f \in Nat, NEW g \in Nat, f <= g,
           Cardinality(T) <= f * BATCH_SIZE
    PROVE  Cardinality(S) <= g * BATCH_SIZE
<1>1. IsFiniteSet(T) /\ IsFiniteSet(S)
  BY BookingsFinite, FS_Subset
<1>2. Cardinality(S) \in Nat /\ Cardinality(T) \in Nat /\ Cardinality(S) <= Cardinality(T)
  BY <1>1, FS_Subset, FS_CardinalityType
<1>3. PICK k \in Nat : g = f + k
  BY g = f + (g - f)
<1>4. g * BATCH_SIZE = f * BATCH_SIZE + k * BATCH_SIZE /\ k * BATCH_SIZE \in Nat
      /\ f * BATCH_SIZE \in Nat
  BY <1>3, BoundsPositive
<1> QED
  BY <1>2, <1>4

\* One more fault allows one more batch.
LEMMA LossGrows ==
    ASSUME NEW S, NEW T, NEW U, U \subseteq S \cup T, S \subseteq Bookings, T \subseteq Bookings,
           NEW f \in Nat, Cardinality(S) <= f * BATCH_SIZE, Cardinality(T) <= BATCH_SIZE
    PROVE  Cardinality(U) <= (f + 1) * BATCH_SIZE
<1>1. IsFiniteSet(S) /\ IsFiniteSet(T)
  BY BookingsFinite, FS_Subset
<1>2. /\ IsFiniteSet(S \cup T) /\ Cardinality(S) \in Nat /\ Cardinality(T) \in Nat
      /\ Cardinality(S \cap T) \in Nat
      /\ Cardinality(S \cup T) = Cardinality(S) + Cardinality(T) - Cardinality(S \cap T)
  BY <1>1, FS_Union, FS_Intersection, FS_CardinalityType
<1>3. Cardinality(U) \in Nat /\ Cardinality(U) <= Cardinality(S \cup T)
  BY <1>2, FS_Subset, FS_CardinalityType
<1>4. (f + 1) * BATCH_SIZE = f * BATCH_SIZE + BATCH_SIZE /\ f * BATCH_SIZE \in Nat
  BY BoundsPositive
<1> QED
  BY <1>2, <1>3, <1>4, BoundsPositive

\* If no one more goes untold, and the answers stay, what is promised stays.
LEMMA PromisesKept ==
    ASSUME IInv, faults' \in Nat, faults <= faults',
           \A u \in Updates :
              /\ Untold(u)' \subseteq Untold(u) \/ (Untold(u)' = {})
              /\ pc'[u] = "enqueue" => pc[u] = "enqueue" \/ Untold(u)' = {}
              /\ outcome'[u] = "OK" /\ changed'[u] # {} =>
                     /\ recipients'[u] = {}
                     /\ (outcome[u] = "OK" /\ changed[u] # {}) \/ Untold(u)' = {}
    PROVE  OwedAreListed' /\ AttendeesTold'
<1>1. faults \in Nat /\ 0 <= faults' * BATCH_SIZE
  <2>1. faults \in Nat
    BY BoundsPositive DEF IInv, TypeOK
  <2>2. \A f, s \in Nat : 0 <= f * s
    OBVIOUS
  <2> QED
    BY <2>1, <2>2, BoundsPositive
<1>2. ASSUME NEW u \in Updates,
             Cardinality(Untold(u)) <= faults * BATCH_SIZE \/ Untold(u)' = {}
      PROVE  Cardinality(Untold(u)') <= faults' * BATCH_SIZE
  <2>1. CASE Untold(u)' = {}
    BY <1>1, <2>1, FS_EmptySet
  <2>2. CASE Untold(u)' \subseteq Untold(u) /\ Untold(u)' # {}
    <3>1. Untold(u) \subseteq Bookings
      BY DEF Untold, Attendees
    <3> QED
      BY <1>1, <1>2, <2>2, <3>1, LossShrinks
  <2> QED
    BY <2>1, <2>2
<1>3. OwedAreListed'
  BY <1>2 DEF OwedAreListed, IInv
<1>4. AttendeesTold'
  BY <1>2 DEF AttendeesTold, IInv
<1> QED
  BY <1>3, <1>4

(***************************************************************************)
(* The bookings                                                            *)
(***************************************************************************)

\* A booking's step confirms no one who was owed and un-books no one who was.
LEMMA BookingKeeps ==
    ASSUME IInv, NEW b \in Bookings, Take(b) \/ EndBooking(b) \/ CancelBooking(b)
    PROVE  IInv'
<1> USE DEF IInv
<1>1. UNCHANGED <<content, status, updateVars, pc, outcome, faults>>
  BY DEF Take, EndBooking, CancelBooking
<1>2. /\ \A a \in Bookings : a # b => booking'[a] = booking[a]
      /\ booking[b] \in {"CONFIRMED", "CANCELLED"} =>
             booking[b] = "CONFIRMED" /\ booking'[b] = "CANCELLED"
  BY DEF Take, EndBooking, CancelBooking, TypeOK
<1>3. TypeOK'
  <2>1. CASE Take(b)
    BY <1>1, <2>1, RequestsDistinct DEF TypeOK, Take, updateVars
  <2>2. CASE EndBooking(b)
    BY <1>1, <2>2, RequestsDistinct DEF TypeOK, EndBooking, updateVars
  <2>3. CASE CancelBooking(b)
    BY <1>1, <2>3, RequestsDistinct DEF TypeOK, CancelBooking, updateVars
  <2> QED
    BY <2>1, <2>2, <2>3
<1>4. ToldLast'
  BY <1>1 DEF ToldLast, updateVars
<1>5. RecipientsUntold' /\ OwedAreBooked'
  BY <1>1, <1>2 DEF RecipientsUntold, OwedAreBooked, TypeOK, updateVars
<1>6. \A u \in Updates : Untold(u)' \subseteq Untold(u)
  BY <1>1, <1>2 DEF OwedAreBooked, Untold, Attendees, TypeOK, updateVars
<1>7. OwedAreListed' /\ AttendeesTold'
  <2>1. faults' \in Nat /\ faults <= faults'
    BY <1>1, BoundsPositive DEF TypeOK
  <2> QED
    BY <1>1, <1>6, <2>1, PromisesKept DEF AttendeesTold, updateVars
<1> QED
  BY <1>3, <1>4, <1>5, <1>7

(***************************************************************************)
(* The requests                                                            *)
(***************************************************************************)

\* A request goes to another label or is answered, and neither the bookings nor
\* who is told change: no update is answered OK.
LEMMA MovesKeep ==
    ASSUME IInv, NEW p \in Requests, TypeOK',
           UNCHANGED <<booking, recipients, jobs, owed>>,
           faults <= faults',
           \A q \in Requests : q # p => pc'[q] = pc[q] /\ outcome'[q] = outcome[q],
           pc'[p] # "enqueue",
           p \in Updates /\ pc'[p] # "done" => recipients[p] = {}
                                               /\ \A b \in Bookings : jobs[p][b] = 0,
           pc'[p] # "done" => outcome'[p] = "NONE",
           \A u \in Updates : u # p => changed'[u] = changed[u],
           p \in Updates => outcome'[p] # "OK"
    PROVE  IInv'
<1> USE DEF IInv
<1>1. ToldLast'
  BY RequestKinds DEF ToldLast
<1>2. RecipientsUntold' /\ OwedAreBooked'
  BY DEF RecipientsUntold, OwedAreBooked
<1>3. \A u \in Updates : Untold(u)' = Untold(u)
  BY DEF Untold, Attendees
<1>4. faults' \in Nat
  BY BoundsPositive DEF TypeOK
<1>5. OwedAreListed' /\ AttendeesTold'
  BY <1>3, <1>4, RequestKinds, PromisesKept DEF AttendeesTold
<1> QED
  BY <1>1, <1>2, <1>5

\* updateEvent's read.
LEMMA UpdateReadKeeps ==
    ASSUME IInv, NEW u \in Updates, UpdateRead(u)
    PROVE  IInv'
<1>1. u \in Requests /\ TypeOK
  BY RequestKinds DEF IInv
<1>2. TypeOK'
  <2>1. Differing(wanted[u]) \in SUBSET Fields
    BY DEF Differing
  <2>2. changed' \in [Updates -> SUBSET Fields]
    BY <1>1, <2>1 DEF UpdateRead, TypeOK
  <2> QED
    BY <1>1, <2>2 DEF UpdateRead, TypeOK, Goto, Answer, rowVars
<1>3. /\ \A q \in Requests : q # u => pc'[q] = pc[q] /\ outcome'[q] = outcome[q]
      /\ pc'[u] \in {"write", "done"} /\ outcome'[u] \in {"NONE", "EVENT_CANCELLED"}
      /\ pc'[u] # "done" => outcome'[u] = "NONE"
      /\ \A v \in Updates : v # u => changed'[v] = changed[v]
      /\ UNCHANGED <<booking, recipients, jobs, owed, faults>>
  BY <1>1 DEF UpdateRead, TypeOK, Goto, Answer, rowVars, IInv, ToldLast
<1>4. recipients[u] = {} /\ \A b \in Bookings : jobs[u][b] = 0
  BY DEF UpdateRead, IInv, ToldLast
<1>5. faults <= faults'
  BY <1>1, <1>3 DEF TypeOK
<1> QED
  BY <1>1, <1>2, <1>3, <1>4, <1>5, MovesKeep

\* updateEvent's write: with the row unlocked, everyone who holds tickets is
\* confirmed.
LEMMA UpdateWriteKeeps ==
    ASSUME IInv, NEW u \in Updates, UpdateWrite(u)
    PROVE  IInv'
<1> USE DEF IInv
<1>1. /\ u \in Requests /\ TypeOK /\ pc[u] = "write"
      /\ UNCHANGED <<status, lock, booking, wanted, changed, recipients, jobs, faults>>
      /\ owed' = [owed EXCEPT ![u] = HoldsTickets]
  BY RequestKinds DEF UpdateWrite
<1>2. HoldsTickets \subseteq Bookings /\ \A b \in HoldsTickets : booking[b] = "CONFIRMED"
  BY RequestsDistinct DEF UpdateWrite, HoldsTickets, TypeOK
<1>3. TypeOK'
  <2>1. content' \in Contents
    BY <1>1, InputsTyped DEF UpdateWrite, TypeOK, Contents
  <2> QED
    BY <1>1, <1>2, <2>1 DEF UpdateWrite, TypeOK, Goto, Answer
<1>4. /\ \A q \in Requests : q # u => pc'[q] = pc[q] /\ outcome'[q] = outcome[q]
      /\ IF changed[u] # {} THEN pc'[u] = "readAttendees" /\ outcome'[u] = "NONE"
                            ELSE pc'[u] = "done"
  BY <1>1 DEF UpdateWrite, TypeOK, Goto, Answer, ToldLast
<1>5. recipients[u] = {} /\ \A b \in Bookings : jobs[u][b] = 0
  BY <1>1 DEF ToldLast
<1>6. ToldLast'
  BY <1>1, <1>4, <1>5, RequestKinds DEF ToldLast
<1>7. RecipientsUntold'
  BY <1>1 DEF RecipientsUntold
<1>8. OwedAreBooked'
  BY <1>1, <1>2 DEF OwedAreBooked, TypeOK
<1>9. \A v \in Updates : v # u => Untold(v)' = Untold(v)
  BY <1>1 DEF Untold, Attendees, TypeOK
<1>10. faults \in Nat /\ faults' = faults
  BY <1>1, BoundsPositive DEF TypeOK
<1>11. OwedAreListed'
  BY <1>4, <1>9, <1>10, RequestKinds DEF OwedAreListed
<1>12. AttendeesTold'
  <2> SUFFICES ASSUME NEW v \in Updates, outcome'[v] = "OK", changed'[v] # {}
               PROVE  recipients'[v] = {} /\ Cardinality(Untold(v)') <= faults' * BATCH_SIZE
    BY DEF AttendeesTold
  <2>1. v # u
    BY <1>1, <1>4
  <2>2. outcome[v] = "OK" /\ changed[v] # {} /\ recipients'[v] = recipients[v]
    BY <1>1, <1>4, <2>1, RequestKinds
  <2> QED
    BY <1>9, <1>10, <2>1, <2>2 DEF AttendeesTold
<1> QED
  BY <1>3, <1>6, <1>7, <1>8, <1>11, <1>12

\* The attendees are read: whoever is owed and still booked is among them.
LEMMA ReadAttendeesKeeps ==
    ASSUME IInv, NEW u \in Updates, ReadAttendees(u)
    PROVE  IInv'
<1> USE DEF IInv
<1>1. /\ u \in Requests /\ TypeOK /\ pc[u] = "readAttendees"
      /\ UNCHANGED <<content, status, lock, booking, wanted, changed, jobs, owed, faults>>
      /\ recipients' = [recipients EXCEPT ![u] = Attendees]
  BY RequestKinds DEF ReadAttendees, rowVars
<1>2. Attendees \subseteq Bookings /\ \A b \in Attendees : booking[b] = "CONFIRMED"
  BY DEF Attendees
<1>3. TypeOK'
  BY <1>1, <1>2 DEF ReadAttendees, TypeOK, Goto, Answer
<1>4. /\ \A q \in Requests : q # u => pc'[q] = pc[q] /\ outcome'[q] = outcome[q]
      /\ IF Attendees = {} THEN pc'[u] = "done"
                           ELSE pc'[u] = "enqueue" /\ outcome'[u] = "NONE"
  BY <1>1 DEF ReadAttendees, TypeOK, Goto, Answer, ToldLast
<1>5. \A b \in Bookings : jobs[u][b] = 0
  BY <1>1 DEF ToldLast
<1>6. \A v \in Updates : recipients'[v] = IF v = u THEN Attendees ELSE recipients[v]
  BY <1>1 DEF TypeOK
<1>7. ToldLast'
  BY <1>1, <1>4, <1>6, RequestKinds DEF ToldLast
<1>8. RecipientsUntold' /\ OwedAreBooked'
  BY <1>1, <1>2, <1>5, <1>6 DEF RecipientsUntold, OwedAreBooked
<1>9. Untold(u)' = {} /\ \A v \in Updates : v # u => Untold(v)' = Untold(v)
  <2>1. Attendees' = Attendees
    BY <1>1 DEF Attendees
  <2> QED
    BY <1>1, <1>6, <2>1 DEF Untold
<1>10. OwedAreListed' /\ AttendeesTold'
  <2>1. faults' \in Nat /\ faults <= faults'
    BY <1>1, BoundsPositive DEF TypeOK
  <2>2. pc'[u] = "done" => recipients'[u] = {}
    BY <1>4, <1>6
  <2>3. outcome'[u] = "OK" => pc'[u] = "done"
    BY <1>4
  <2> QED
    BY <1>1, <1>4, <1>6, <1>9, <2>1, <2>2, <2>3, RequestKinds, PromisesKept DEF AttendeesTold
<1> QED
  BY <1>3, <1>7, <1>8, <1>10

\* One batch: its attendees had no job and have one now, unless Redis failed.
LEMMA EnqueueBatchKeeps ==
    ASSUME IInv, NEW u \in Updates, EnqueueBatch(u)
    PROVE  IInv'
<1> USE DEF IInv
<1>1. /\ u \in Requests /\ TypeOK /\ pc[u] = "enqueue"
      /\ UNCHANGED <<content, status, lock, booking, wanted, changed, owed>>
  BY RequestKinds DEF EnqueueBatch, rowVars
<1>2. PICK S \in Slices(u) :
         /\ \/ AddBulk(u, S) /\ UNCHANGED faults
            \/ Fault /\ UNCHANGED jobs
         /\ recipients' = [recipients EXCEPT ![u] = @ \ S]
         /\ IF S = recipients[u] THEN Answer(u, "OK") ELSE UNCHANGED <<pc, outcome>>
  BY DEF EnqueueBatch
<1>3. S \subseteq recipients[u] /\ recipients[u] \subseteq Bookings
  BY <1>1 DEF Slices, TypeOK
<1>4. faults' \in 0..MaxFaults /\ (faults' = faults => AddBulk(u, S))
  BY <1>1, <1>2, FaultCounted DEF TypeOK
<1>5. /\ \A v \in Updates, b \in Bookings :
             jobs'[v][b] = jobs[v][b] \/ (v = u /\ b \in S /\ jobs'[v][b] = 1)
      /\ faults' = faults => \A b \in S : jobs'[u][b] = 1
      /\ jobs' \in [Updates -> [Bookings -> 0..JobCap]]
  <2>1. CASE AddBulk(u, S)
    <3>1. \A b \in Bookings : jobs[u][b] \in 0..2
      BY <1>1 DEF TypeOK, JobCap
    <3>2. /\ \A v \in Updates : v # u => jobs'[v] = jobs[v]
          /\ jobs'[u] = [b \in Bookings |-> IF b \in S /\ jobs[u][b] < 2
                                            THEN jobs[u][b] + 1 ELSE jobs[u][b]]
      BY <1>1, <2>1 DEF AddBulk, TypeOK, JobCap
    <3>3. \A b \in S : jobs[u][b] = 0
      BY <1>3 DEF RecipientsUntold
    <3>4. /\ \A b \in S : jobs'[u][b] = 1
          /\ \A b \in Bookings : b \notin S => jobs'[u][b] = jobs[u][b]
      BY <1>3, <3>1, <3>2, <3>3
    <3>5. jobs'[u] \in [Bookings -> 0..JobCap]
      BY <3>1, <3>2 DEF JobCap
    <3>6. jobs' \in [Updates -> [Bookings -> 0..JobCap]]
      <4>1. jobs' = [jobs EXCEPT ![u] = jobs'[u]]
        BY <1>1, <2>1 DEF AddBulk, TypeOK
      <4> QED
        BY <1>1, <3>5, <4>1 DEF TypeOK
    <3> QED
      BY <3>2, <3>4, <3>6
  <2>2. CASE UNCHANGED jobs /\ Fault
    BY <1>1, <2>2, FaultCounted DEF TypeOK
  <2> QED
    BY <1>2, <2>1, <2>2
<1>6. /\ \A q \in Requests : q # u => pc'[q] = pc[q] /\ outcome'[q] = outcome[q]
      /\ IF S = recipients[u] THEN pc'[u] = "done" /\ outcome'[u] = "OK"
                              ELSE pc'[u] = "enqueue" /\ outcome'[u] = "NONE"
  BY <1>1, <1>2 DEF Answer, TypeOK, ToldLast
<1>7. \A v \in Updates : recipients'[v] = IF v = u THEN recipients[u] \ S ELSE recipients[v]
  BY <1>1, <1>2 DEF TypeOK
<1>8. TypeOK'
  BY <1>1, <1>2, <1>4, <1>5 DEF TypeOK, Answer
<1>9. ToldLast'
  BY <1>1, <1>5, <1>6, <1>7, RequestKinds DEF ToldLast
<1>10. RecipientsUntold' /\ OwedAreBooked'
  <2>1. RecipientsUntold'
    <3> SUFFICES ASSUME NEW v \in Updates, NEW b \in recipients'[v]
                 PROVE  jobs'[v][b] = 0 /\ booking'[b] \in {"CONFIRMED", "CANCELLED"}
      BY DEF RecipientsUntold
    <3>1. b \in recipients[v] /\ b \in Bookings /\ ~(v = u /\ b \in S)
      BY <1>1, <1>7 DEF TypeOK
    <3>2. jobs'[v][b] = jobs[v][b]
      BY <1>5, <3>1
    <3> QED
      BY <1>1, <3>1, <3>2 DEF RecipientsUntold
  <2>2. OwedAreBooked'
    BY <1>1 DEF OwedAreBooked
  <2> QED
    BY <2>1, <2>2
<1>12. /\ \A v \in Updates : v # u => Untold(v)' = Untold(v)
       /\ faults' = faults => Untold(u)' \subseteq Untold(u)
       /\ Untold(u)' \subseteq Untold(u) \cup S
  <2>1. Attendees' = Attendees /\ Attendees \subseteq Bookings
    BY <1>1 DEF Attendees
  <2>2. \A v \in Updates, b \in Bookings : jobs'[v][b] = 0 => jobs[v][b] = 0
    BY <1>5
  <2>3. \A v \in Updates, b \in Bookings : v # u => jobs'[v][b] = jobs[v][b]
    BY <1>5
  <2>4. faults' = faults => \A b \in S : jobs'[u][b] = 1
    BY <1>5
  <2>5. \A v \in Updates : v # u => Untold(v)' = Untold(v)
    BY <1>1, <1>7, <2>1, <2>3 DEF Untold
  <2>6. \A b \in Untold(u)' : b \in Untold(u) \/ b \in S
    BY <1>1, <1>7, <2>1, <2>2 DEF Untold
  <2>7. faults' = faults => \A b \in Untold(u)' : b \notin S
    BY <2>1, <2>4 DEF Untold
  <2> QED
    BY <2>5, <2>6, <2>7
<1>13. faults \in Nat /\ (faults' = faults \/ faults' = faults + 1)
  BY <1>1, <1>2 DEF TypeOK, Fault
<1>14. Untold(u) \subseteq Bookings /\ Cardinality(Untold(u)) <= faults * BATCH_SIZE
  BY <1>1 DEF OwedAreListed, Untold, Attendees
<1>15. Cardinality(S) <= BATCH_SIZE
  BY <1>3, BookingsFinite, FS_Subset, FS_CardinalityType, BoundsPositive DEF Slices
<1>16. Cardinality(Untold(u)') <= faults' * BATCH_SIZE
  <2>1. CASE faults' = faults
    BY <1>12, <1>13, <1>14, <2>1, LossShrinks
  <2>2. CASE faults' = faults + 1
    BY <1>3, <1>12, <1>13, <1>14, <1>15, <2>2, LossGrows
  <2> QED
    BY <1>13, <2>1, <2>2
<1>17. ASSUME NEW v \in Updates, v # u, Cardinality(Untold(v)) <= faults * BATCH_SIZE
       PROVE  Cardinality(Untold(v)') <= faults' * BATCH_SIZE
  <2>1. Untold(v) \subseteq Bookings
    BY DEF Untold, Attendees
  <2>2. faults' \in Nat /\ faults <= faults'
    BY <1>13
  <2> QED
    BY <1>12, <1>13, <1>17, <2>1, <2>2, LossShrinks
<1>18. OwedAreListed'
  BY <1>6, <1>16, <1>17, RequestKinds DEF OwedAreListed
<1>19. AttendeesTold'
  <2>1. outcome'[u] = "OK" => recipients'[u] = {}
    BY <1>6, <1>7
  <2> QED
    BY <1>1, <1>6, <1>7, <1>16, <1>17, <2>1, RequestKinds DEF AttendeesTold
<1> QED
  BY <1>8, <1>9, <1>10, <1>18, <1>19

\* deleteEvent tells nobody and owes nobody.
LEMMA DeleteKeeps ==
    ASSUME IInv, NEW d \in Deletes, DeleteRead(d) \/ DeleteWrite(d)
    PROVE  IInv'
<1>1. d \in Requests /\ d \notin Updates /\ TypeOK
  BY RequestKinds DEF IInv
<1>2. TypeOK'
  BY <1>1 DEF DeleteRead, DeleteWrite, TypeOK, Goto, Answer, rowVars, updateVars
<1>3. /\ \A q \in Requests : q # d => pc'[q] = pc[q] /\ outcome'[q] = outcome[q]
      /\ pc'[d] \in {"write", "done"} /\ (pc'[d] # "done" => outcome'[d] = "NONE")
      /\ UNCHANGED <<booking, changed, recipients, jobs, owed, faults>>
  BY <1>1 DEF DeleteRead, DeleteWrite, TypeOK, Goto, Answer, rowVars, updateVars, IInv, ToldLast
<1>4. faults <= faults'
  BY <1>1, <1>3 DEF TypeOK
<1> QED
  BY <1>1, <1>2, <1>3, <1>4, MovesKeep

\* A statement fails: the request is not answered OK.
LEMMA RequestFailsKeeps ==
    ASSUME IInv, NEW p \in Requests, RequestFails(p)
    PROVE  IInv'
<1>1. TypeOK /\ faults' \in 0..MaxFaults /\ faults <= faults'
  BY FaultCounted DEF RequestFails, IInv, TypeOK
<1>2. TypeOK'
  BY <1>1 DEF RequestFails, TypeOK, Answer, rowVars, updateVars
<1>3. /\ \A q \in Requests : q # p => pc'[q] = pc[q] /\ outcome'[q] = outcome[q]
      /\ pc'[p] = "done" /\ outcome'[p] # "OK"
      /\ UNCHANGED <<booking, changed, recipients, jobs, owed>>
  BY <1>1 DEF RequestFails, TypeOK, Answer, rowVars, updateVars
<1> QED
  BY <1>1, <1>2, <1>3, MovesKeep

\* The crash: open bookings vanish, none of them owed anything.
LEMMA CrashKeeps ==
    ASSUME IInv, Crash
    PROVE  IInv'
<1> USE DEF IInv
<1>1. /\ TypeOK /\ faults' \in 0..MaxFaults /\ faults' \in Nat /\ faults <= faults'
      /\ UNCHANGED <<content, status, wanted, changed, recipients, jobs, owed>>
  BY FaultCounted DEF Crash, updateVars, TypeOK
<1>2. \A b \in Bookings : booking[b] # "TAKEN" => booking'[b] = booking[b]
  BY DEF Crash
<1>3. \A p \in Requests : /\ pc'[p] = IF pc[p] = "idle" THEN "idle" ELSE "done"
                          /\ pc[p] = "idle" => outcome'[p] = outcome[p]
  BY DEF Crash
<1>4. TypeOK'
  BY <1>1, RequestsDistinct DEF Crash, TypeOK
<1>5. ToldLast'
  BY <1>1, <1>3, RequestKinds DEF ToldLast
<1>6. RecipientsUntold' /\ OwedAreBooked'
  BY <1>1, <1>2 DEF RecipientsUntold, OwedAreBooked, TypeOK
<1>7. OwedAreListed' /\ AttendeesTold'
  <2>1. \A u \in Updates : Untold(u)' \subseteq Untold(u)
    BY <1>1, <1>2 DEF Untold, OwedAreBooked, Attendees, TypeOK
  <2>2. \A u \in Updates : pc'[u] # "enqueue" /\ (outcome'[u] = "OK" => outcome[u] = "OK")
    BY <1>3, RequestKinds DEF Crash
  <2> QED
    BY <1>1, <2>1, <2>2, PromisesKept DEF AttendeesTold
<1> QED
  BY <1>4, <1>5, <1>6, <1>7

(***************************************************************************)
(* The theorems                                                            *)
(***************************************************************************)

\* At the start nobody is owed or told anything.
LEMMA InitKeeps == Init => IInv
<1> SUFFICES ASSUME Init PROVE IInv
  OBVIOUS
<1>1. TypeOK
  BY BoundsPositive, ContentsTyped, RequestsDistinct DEF Init, TypeOK, JobCap
<1>2. /\ ToldLast /\ RecipientsUntold /\ OwedAreBooked /\ OwedAreListed
      /\ AttendeesTold
  BY RequestKinds DEF Init, ToldLast, RecipientsUntold, OwedAreBooked, OwedAreListed,
                      AttendeesTold
<1> QED
  BY <1>1, <1>2 DEF IInv

\* Every step keeps the invariant.
LEMMA NextKeeps == IInv /\ [Next]_vars => IInv'
<1> SUFFICES ASSUME IInv, [Next]_vars PROVE IInv'
  OBVIOUS
<1>1. ASSUME NEW b \in Bookings, Take(b) \/ EndBooking(b) \/ CancelBooking(b) PROVE IInv'
  BY <1>1, BookingKeeps
<1>2. ASSUME NEW u \in Updates,
             UpdateRead(u) \/ UpdateWrite(u) \/ ReadAttendees(u) \/ EnqueueBatch(u)
      PROVE  IInv'
  BY <1>2, UpdateReadKeeps, UpdateWriteKeeps, ReadAttendeesKeeps, EnqueueBatchKeeps
<1>3. ASSUME NEW d \in Deletes, DeleteRead(d) \/ DeleteWrite(d) PROVE IInv'
  BY <1>3, DeleteKeeps
<1>4. ASSUME NEW p \in Requests, RequestFails(p) PROVE IInv'
  BY <1>4, RequestFailsKeeps
<1>5. CASE Crash
  BY <1>5, CrashKeeps
<1>6. CASE UNCHANGED vars
  <2>1. \A u \in Updates : Untold(u)' = Untold(u)
    BY <1>6 DEF vars, rowVars, updateVars, Untold, Attendees
  <2>2. OwedAreListed' /\ AttendeesTold'
    BY <1>6, <2>1 DEF vars, rowVars, updateVars, IInv, OwedAreListed, AttendeesTold
  <2> QED
    BY <1>6, <2>2 DEF vars, rowVars, updateVars, IInv, TypeOK, ToldLast,
                      RecipientsUntold, OwedAreBooked
<1> QED
  BY <1>1, <1>2, <1>3, <1>4, <1>5, <1>6 DEF Next

\* What an update owes and whom it has told fit together in every state.
THEOREM Invariant == Spec => []IInv
BY InitKeeps, NextKeeps, PTL DEF Spec

\* Everyone who held tickets when a change was written, and holds them still,
\* has a job that tells so when the update is answered.
THEOREM EveryoneTold == Spec => []AttendeesTold
<1>1. IInv => AttendeesTold
  BY DEF IInv
<1> QED
  BY Invariant, <1>1, PTL

(***************************************************************************)
(* Silent updates                                                          *)
(***************************************************************************)

\* A read finds its own value in the row; only the write of another update
\* replaces it, and that update is past its write for good.
LEMMA SilentKeeps == IInv /\ SilentIsOvertaken /\ [Next]_vars => SilentIsOvertaken'
<1> SUFFICES ASSUME IInv, SilentIsOvertaken, [Next]_vars, NEW u \in Updates, NEW f \in Fields,
                    f \notin changed'[u], pc'[u] = "write",
                    wanted'[u][f] # Unset, wanted'[u][f] # content'[f]
             PROVE  \E v \in Updates \ {u} : /\ pc'[v] \notin {"idle", "write"}
                                            /\ wanted'[v][f] = content'[f]
  BY DEF SilentIsOvertaken
<1> DEFINE Overtaken == \E v \in Updates \ {u} : /\ pc[v] \notin {"idle", "write"}
                                               /\ wanted[v][f] = content[f]
           Overtaken2 == \E v \in Updates \ {u} : /\ pc'[v] \notin {"idle", "write"}
                                                /\ wanted'[v][f] = content'[f]
<1>0. /\ TypeOK /\ RequestsDistinct
      /\ Requests = Updates \cup Deletes
      /\ pc[u] = "write" /\ f \notin changed[u] /\ wanted[u][f] # Unset
             /\ content[f] # wanted[u][f] => Overtaken
  BY RequestsDistinct DEF IInv, Requests, SilentIsOvertaken
<1>1. wanted' = wanted
  BY DEF Next, Take, EndBooking, CancelBooking, UpdateRead, UpdateWrite, ReadAttendees,
         EnqueueBatch, DeleteRead, DeleteWrite, RequestFails, Crash, vars, updateVars
<1>2. ASSUME \/ \E b \in Bookings : Take(b) \/ EndBooking(b) \/ CancelBooking(b)
             \/ \E v \in Updates : ReadAttendees(v) \/ EnqueueBatch(v)
             \/ \E d \in Deletes : DeleteRead(d) \/ DeleteWrite(d)
             \/ \E p \in Requests : RequestFails(p)
             \/ Crash
             \/ UNCHANGED vars
      PROVE  Overtaken2
  <2>1. /\ content' = content /\ changed' = changed
        /\ pc[u] = "write"
        /\ \A v \in Updates : pc[v] \notin {"idle", "write"} => pc'[v] \notin {"idle", "write"}
    BY <1>0, <1>2 DEF Take, EndBooking, CancelBooking, ReadAttendees, EnqueueBatch, Goto,
         Answer, DeleteRead, DeleteWrite, RequestFails, Crash, vars, updateVars, rowVars, TypeOK
  <2> QED
    BY <1>0, <1>1, <2>1
<1>3. ASSUME NEW v \in Updates, UpdateRead(v) PROVE Overtaken2
  <2>1. /\ content' = content
        /\ pc[v] = "idle"
        /\ \A w \in Updates : w # v => pc'[w] = pc[w] /\ changed'[w] = changed[w]
    BY <1>0, <1>3 DEF UpdateRead, rowVars, Goto, Answer, TypeOK
  <2>2. CASE u = v
    <3>1. changed'[u] = Differing(wanted[u])
      BY <1>0, <1>3, <2>2 DEF UpdateRead, Answer, TypeOK
    <3>2. wanted[u][f] \in {Unset, content[f]}
      BY <3>1 DEF Differing
    <3> QED
      BY <1>1, <2>1, <3>2
  <2>3. CASE u # v
    BY <1>0, <1>1, <2>1, <2>3
  <2> QED
    BY <2>2, <2>3
<1>4. ASSUME NEW v \in Updates, UpdateWrite(v) PROVE Overtaken2
  <2>1. /\ changed' = changed
        /\ content'[f] = IF wanted[v][f] = Unset THEN content[f] ELSE wanted[v][f]
        /\ pc'[v] \notin {"idle", "write"}
        /\ \A w \in Updates : w # v => pc'[w] = pc[w]
    BY <1>0, <1>4 DEF UpdateWrite, Goto, Answer, TypeOK
  <2>2. u # v
    BY <2>1
  <2>3. CASE wanted[v][f] = Unset
    BY <1>0, <1>1, <2>1, <2>2, <2>3
  <2>4. CASE wanted[v][f] # Unset
    BY <1>1, <2>1, <2>2, <2>4
  <2> QED
    BY <2>3, <2>4
<1> QED
  BY <1>2, <1>3, <1>4 DEF Next

\* An update that announces no change of a field changes it only if another
\* update was written between its read and its write.
THEOREM SilentOnlyIfOvertaken == Spec => []SilentIsOvertaken
<1>1. Init => SilentIsOvertaken
  <2>1. Init => \A u \in Updates : pc[u] = "idle"
    BY DEF Init, Requests
  <2> QED
    BY <2>1 DEF SilentIsOvertaken
<1> QED
  BY <1>1, SilentKeeps, Invariant, PTL DEF Spec

--------------------------------------------------------------------------------
(* EventBroadcast takes of bookings what EventRow promises *)

\* The one event's step, in the variables of EventBroadcast.
LEMMA RowStep ==
    ASSUME \/ /\ \E b \in Bookings :
                    /\ \/ /\ booking[b] = "NONE" /\ lock = Free /\ status = "UPCOMING"
                          /\ booking'[b] = "TAKEN" /\ lock' = b
                       \/ /\ booking[b] = "TAKEN" /\ lock = b
                          /\ booking'[b] \in {"CONFIRMED", "NONE"} /\ lock' = Free
                       \/ /\ booking[b] = "CONFIRMED" /\ lock = Free
                          /\ booking'[b] = "CANCELLED" /\ lock' = Free
                    /\ \A c \in Bookings : c # b => booking'[c] = booking[c]
              /\ status' = status /\ content' = content
           \/ /\ status # "ABSENT" /\ lock = Free /\ status' \in {status, "CANCELLED"}
              /\ lock' = Free /\ \A c \in Bookings : booking'[c] = booking[c]
           \/ UNCHANGED <<status, content, lock, booking>>
    PROVE  Row!Next
BY DEF Row!Next, Row!Step, Row!Created, Row!Written, Row!Taken, Row!Ended, Row!Cancelled,
       Row!RowStays, Row!BookingsStay, Row!Of

LEMMA BookingsStepRow ==
    ASSUME TypeOK, NEW b \in Bookings, Take(b) \/ EndBooking(b) \/ CancelBooking(b)
    PROVE  Row!Next
<1>1. /\ \A c \in Bookings : c # b => booking'[c] = booking[c]
      /\ status' = status /\ content' = content
  BY DEF TypeOK, Take, EndBooking, CancelBooking
<1>2. CASE Take(b)
  BY <1>1, <1>2, RowStep DEF Take, TypeOK
<1>3. CASE EndBooking(b)
  BY <1>1, <1>3, RowStep DEF EndBooking, TypeOK
<1>4. CASE CancelBooking(b)
  BY <1>1, <1>4, RowStep DEF CancelBooking, TypeOK
<1> QED
  BY <1>2, <1>3, <1>4

\* A crash rolls back the booking that holds the row, if one does.
LEMMA CrashStepsRow ==
    ASSUME TypeOK, Crash
    PROVE  Row!Next
<1>1. /\ lock' = Free /\ status' = status /\ content' = content
      /\ \A b \in Bookings : booking'[b] = IF booking[b] = "TAKEN" THEN "NONE" ELSE booking[b]
  BY DEF Crash
<1>2. CASE \E b \in Bookings : booking[b] = "TAKEN"
  <2>1. PICK b \in Bookings : booking[b] = "TAKEN"
    BY <1>2
  <2>2. lock = b /\ \A c \in Bookings : c # b => booking[c] # "TAKEN"
    BY <2>1 DEF TypeOK
  <2> QED
    BY <1>1, <2>1, <2>2, RowStep
<1>3. CASE \A b \in Bookings : booking[b] # "TAKEN"
  <2>1. booking' = booking /\ lock' = lock
    BY <1>1, <1>3 DEF TypeOK, Crash
  <2> QED
    BY <1>1, <2>1, RowStep
<1> QED
  BY <1>2, <1>3

\* The bookings and the writes of EventBroadcast are steps of EventRow, which
\* BookingEngine's bookings are, too.
THEOREM RefinesEventRow == Spec => ImplementsEventRow
<1>1. Init => Row!Init
  BY DEF Init, Row!Init
<1>2. ASSUME TypeOK, [Next]_vars PROVE Row!Next
  <2>1. CASE \E b \in Bookings : Take(b) \/ EndBooking(b) \/ CancelBooking(b)
    BY <1>2, <2>1, BookingsStepRow
  <2>2. CASE \E u \in Updates : UpdateWrite(u)
    BY <1>2, <2>2, RowStep DEF UpdateWrite, TypeOK
  <2>3. CASE \E d \in Deletes : DeleteWrite(d)
    BY <1>2, <2>3, RowStep DEF DeleteWrite, TypeOK
  <2>4. CASE Crash
    BY <1>2, <2>4, CrashStepsRow
  <2>5. CASE \/ \E u \in Updates : UpdateRead(u) \/ ReadAttendees(u) \/ EnqueueBatch(u)
             \/ \E d \in Deletes : DeleteRead(d)
             \/ \E p \in Requests : RequestFails(p)
             \/ UNCHANGED vars
    <3>1. UNCHANGED <<status, content, lock, booking>>
      BY <2>5 DEF UpdateRead, ReadAttendees, EnqueueBatch, DeleteRead, RequestFails, rowVars, vars
    <3> QED
      BY <3>1, RowStep
  <2> QED
    BY <1>2, <2>1, <2>2, <2>3, <2>4, <2>5 DEF Next
<1>3. IInv => TypeOK
  BY DEF IInv
<1> QED
  BY <1>1, <1>2, <1>3, Invariant, PTL DEF Spec, ImplementsEventRow, Row!Spec

--------------------------------------------------------------------------------
(* The mailboxes, over the broadcast *)

MailPart == MailTypeOK /\ AnnouncerWrote /\ LaterAreConfirmed /\ SettledAreSent

\* A step that sends nothing and writes no row keeps what is known of the mails,
\* if nobody becomes an attendee, no job is taken back and the announcer goes on.
LEMMA QuietKeeps ==
    ASSUME MailPart, TypeOK, UNCHANGED <<versionVars, mailVars>>,
           owed' = owed, Attendees' \subseteq Attendees,
           \A u \in Updates, b \in Bookings : jobs[u][b] > 0 => jobs'[u][b] > 0,
           \A f \in Fields : announcer[f] # NoUpdate =>
               f \in changed'[announcer[f]] /\ pc'[announcer[f]] \notin {"idle", "write"}
    PROVE  MailPart'
<1>1. MailTypeOK' /\ AnnouncerWrote'
  BY DEF MailPart, MailTypeOK, AnnouncerWrote, versionVars, mailVars
<1>2. LaterAreConfirmed'
  BY DEF MailPart, LaterAreConfirmed, Informed, Announced, versionVars, mailVars
<1>3. SettledAreSent'
  <2> SUFFICES ASSUME NEW u \in Updates, NEW b \in settled'[u]
               PROVE  /\ jobs'[u][b] > 0
                      /\ b \in lost' \/ \A f \in Fields : seen'[b][f] >= returned'[u]
    BY DEF SettledAreSent
  <2>1. b \in settled[u] /\ b \in Bookings
    BY DEF MailPart, MailTypeOK, mailVars
  <2> QED
    BY <2>1 DEF MailPart, SettledAreSent, versionVars, mailVars
<1> QED
  BY <1>1, <1>2, <1>3 DEF MailPart

(***************************************************************************)
(* The requests                                                            *)
(***************************************************************************)

\* A cancellation makes no attendee, and an update's read, the announcer having
\* read before, changes nothing of him.
LEMMA MovesKeepMail ==
    ASSUME MailInv, UNCHANGED <<versionVars, mailVars>>,
           \/ \E b \in Bookings : CancelBooking(b)
           \/ \E u \in Updates : UpdateRead(u) \/ ReadAttendees(u)
           \/ \E d \in Deletes : DeleteRead(d) \/ DeleteWrite(d)
           \/ \E p \in Requests : RequestFails(p)
    PROVE  MailPart'
<1> USE DEF MailInv, IInv
<1>1. MailPart /\ TypeOK /\ owed' = owed /\ jobs' = jobs
  BY DEF MailPart, CancelBooking, UpdateRead, ReadAttendees, DeleteRead, DeleteWrite,
         RequestFails, rowVars, updateVars
<1>2. Attendees' \subseteq Attendees
  BY <1>1 DEF CancelBooking, UpdateRead, ReadAttendees, DeleteRead, DeleteWrite,
              RequestFails, rowVars, updateVars, Attendees, TypeOK
<1>3. ASSUME NEW f \in Fields, announcer[f] # NoUpdate
      PROVE  f \in changed'[announcer[f]] /\ pc'[announcer[f]] \notin {"idle", "write"}
  <2>1. /\ announcer[f] \in Updates /\ announcer[f] \in Requests /\ announcer[f] \notin Deletes
        /\ f \in changed[announcer[f]] /\ pc[announcer[f]] \notin {"idle", "write"}
    BY <1>3, RequestKinds DEF MailTypeOK, AnnouncerWrote
  <2>2. CASE \E b \in Bookings : CancelBooking(b)
    BY <2>1, <2>2 DEF CancelBooking, updateVars
  <2>3. CASE \E u \in Updates : UpdateRead(u)
    BY <2>1, <2>3, RequestKinds DEF UpdateRead, Goto, Answer, TypeOK
  <2>4. CASE \E u \in Updates : ReadAttendees(u)
    BY <2>1, <2>4, RequestKinds DEF ReadAttendees, Goto, Answer, TypeOK
  <2>5. CASE \E d \in Deletes : DeleteRead(d) \/ DeleteWrite(d)
    BY <2>1, <2>5, RequestKinds DEF DeleteRead, DeleteWrite, Goto, Answer, TypeOK, updateVars
  <2>6. CASE \E p \in Requests : RequestFails(p)
    BY <2>1, <2>6 DEF RequestFails, Answer, TypeOK, updateVars
  <2> QED
    BY <2>2, <2>3, <2>4, <2>5, <2>6
<1> QED
  BY <1>1, <1>2, <1>3, QuietKeeps

\* A batch adds jobs and takes none back.
LEMMA EnqueueKeepsMail ==
    ASSUME MailInv, UNCHANGED <<versionVars, mailVars>>, NEW u \in Updates, EnqueueBatch(u)
    PROVE  MailPart'
<1> USE DEF MailInv, IInv
<1>1. /\ MailPart /\ TypeOK /\ owed' = owed /\ Attendees' = Attendees /\ changed' = changed
  BY DEF MailPart, EnqueueBatch, rowVars, Attendees
<1>2. \A v \in Updates, b \in Bookings : jobs[v][b] > 0 => jobs'[v][b] > 0
  BY <1>1 DEF EnqueueBatch, AddBulk, TypeOK, JobCap
<1>3. ASSUME NEW f \in Fields, announcer[f] # NoUpdate
      PROVE  f \in changed'[announcer[f]] /\ pc'[announcer[f]] \notin {"idle", "write"}
  <2>1. /\ announcer[f] \in Updates /\ announcer[f] \in Requests
        /\ f \in changed[announcer[f]] /\ pc[announcer[f]] \notin {"idle", "write"}
    BY <1>3, RequestKinds DEF MailTypeOK, AnnouncerWrote
  <2>2. pc'[announcer[f]] \in {pc[announcer[f]], "done"}
    BY <1>1, <2>1, RequestKinds DEF EnqueueBatch, Answer, TypeOK
  <2> QED
    BY <1>1, <2>1, <2>2
<1> QED
  BY <1>1, <1>2, <1>3, QuietKeeps

\* Whoever becomes an attendee has a confirmation queued.
LEMMA BookKeepsMail ==
    ASSUME MailInv, NEW b \in Bookings, Book(b)
    PROVE  MailPart'
<1> USE DEF MailInv, IInv
<1>1. /\ UNCHANGED <<versionVars, rendered, settled, seen, lost>>
      /\ UNCHANGED <<owed, jobs, changed, pc>>
      /\ \A a \in Bookings : a # b => booking'[a] = booking[a]
      /\ confirmation' = [confirmation EXCEPT ![b] =
                             IF booking'[b] = "CONFIRMED" THEN "queued" ELSE @]
  BY DEF Book, Take, EndBooking, updateVars, TypeOK
<1>2. MailTypeOK' /\ AnnouncerWrote' /\ SettledAreSent'
  BY <1>1 DEF MailTypeOK, AnnouncerWrote, SettledAreSent, versionVars
<1>3. LaterAreConfirmed'
  <2> SUFFICES ASSUME NEW f \in ConfirmationFields, NEW a \in Attendees',
                      announcer'[f] # NoUpdate, a \notin owed'[announcer'[f]]
               PROVE  \/ confirmation'[a] = "queued"
                      \/ confirmation'[a] = "rendered" /\ rendered'[a] >= Announced(f)'
                      \/ Informed(a, f)'
                      \/ a \in lost'
    BY DEF LaterAreConfirmed
  <2>1. CASE a = b
    BY <1>1, <2>1 DEF Attendees, MailTypeOK
  <2>2. CASE a # b
    <3>1. a \in Attendees /\ confirmation'[a] = confirmation[a]
      BY <1>1, <2>2 DEF Attendees, MailTypeOK
    <3> QED
      BY <1>1, <3>1 DEF LaterAreConfirmed, Informed, Announced, versionVars
  <2> QED
    BY <2>1, <2>2
<1> QED
  BY <1>2, <1>3 DEF MailPart

\* All who are attendees at an announced write are owed a broadcast.
LEMMA UpdateKeepsMail ==
    ASSUME MailInv, NEW u \in Updates, Update(u)
    PROVE  MailPart'
<1> USE DEF MailInv, IInv
<1>1. /\ UNCHANGED <<mailVars, booking, jobs, changed>>
      /\ owed' = [owed EXCEPT ![u] = HoldsTickets]
      /\ version' = version + 1 /\ returned' = [returned EXCEPT ![u] = version + 1]
      /\ announcer' = [f \in Fields |-> IF f \in changed[u] THEN u ELSE announcer[f]]
      /\ pc[u] = "write" /\ u \in Requests
  BY RequestKinds DEF Update, UpdateWrite
<1>2. \A f \in Fields : announcer[f] # u
  BY <1>1, NoUpdateIsNone DEF AnnouncerWrote
<1>3. MailTypeOK'
  BY <1>1 DEF MailTypeOK, mailVars
<1>4. AnnouncerWrote'
  <2>1. changed[u] # {} => pc'[u] = "readAttendees"
    BY <1>1 DEF Update, UpdateWrite, Goto, TypeOK
  <2>2. \A p \in Requests : p # u => pc'[p] = pc[p]
    BY <1>1 DEF Update, UpdateWrite, Goto, Answer, TypeOK
  <2>3. ASSUME NEW f \in Fields, announcer'[f] # NoUpdate
        PROVE  f \in changed'[announcer'[f]] /\ pc'[announcer'[f]] \notin {"idle", "write"}
    BY <1>1, <1>2, <2>1, <2>2, <2>3, RequestKinds DEF AnnouncerWrote, MailTypeOK
  <2>4. \A v \in Updates : returned'[v] <= version'
    BY <1>1 DEF AnnouncerWrote, MailTypeOK
  <2> QED
    BY <2>3, <2>4 DEF AnnouncerWrote
<1>5. LaterAreConfirmed'
  <2> SUFFICES ASSUME NEW f \in ConfirmationFields, NEW b \in Attendees',
                      announcer'[f] # NoUpdate, b \notin owed'[announcer'[f]]
               PROVE  \/ confirmation'[b] = "queued"
                      \/ confirmation'[b] = "rendered" /\ rendered'[b] >= Announced(f)'
                      \/ Informed(b, f)'
                      \/ b \in lost'
    BY DEF LaterAreConfirmed
  <2>1. f \in Fields /\ b \in Attendees /\ b \in HoldsTickets
    BY <1>1 DEF ConfirmationFields, Fields, Attendees, HoldsTickets
  <2>2. f \notin changed[u]
    BY <1>1, <2>1 DEF TypeOK
  <2>3. announcer'[f] = announcer[f] /\ Announced(f)' = Announced(f)
    BY <1>1, <1>2, <2>1, <2>2 DEF Announced, MailTypeOK
  <2>4. owed'[announcer[f]] = owed[announcer[f]]
    BY <1>1, <1>2, <2>1, <2>3 DEF MailTypeOK, TypeOK
  <2> QED
    BY <1>1, <2>1, <2>3, <2>4 DEF LaterAreConfirmed, Informed, mailVars
<1>6. SettledAreSent'
  <2> SUFFICES ASSUME NEW v \in Updates, NEW b \in settled[v]
               PROVE  /\ jobs'[v][b] > 0
                      /\ b \in lost' \/ \A f \in Fields : seen'[b][f] >= returned'[v]
    BY <1>1 DEF SettledAreSent, mailVars
  <2>1. b \in Bookings /\ jobs[v][b] > 0
    BY DEF SettledAreSent, MailTypeOK
  <2>2. v # u
    BY <1>1, <2>1 DEF ToldLast
  <2> QED
    BY <1>1, <2>1, <2>2 DEF SettledAreSent, MailTypeOK, mailVars
<1> QED
  BY <1>3, <1>4, <1>5, <1>6 DEF MailPart

\* What a crash interrupts is queued again.
LEMMA CrashKeepsMail ==
    ASSUME MailInv, CrashAll
    PROVE  MailPart'
<1> USE DEF MailInv, IInv
<1>1. /\ UNCHANGED <<versionVars, rendered, settled, seen, lost, owed, jobs, changed>>
      /\ \A p \in Requests : pc'[p] \in {pc[p], "done"}
      /\ \A b \in Bookings : confirmation'[b] \in {confirmation[b], "queued"}
  BY DEF CrashAll, Crash, updateVars, TypeOK
<1>2. Attendees' \subseteq Attendees
  BY DEF CrashAll, Crash, Attendees, TypeOK
<1>3. MailTypeOK' /\ SettledAreSent'
  BY <1>1 DEF MailTypeOK, SettledAreSent, versionVars, CrashAll
<1>4. AnnouncerWrote'
  BY <1>1, RequestKinds DEF AnnouncerWrote, MailTypeOK, versionVars
<1>5. LaterAreConfirmed'
  <2>1. \A b \in Attendees' : b \in Attendees /\ b \in Bookings
    BY <1>2 DEF Attendees
  <2> QED
    BY <1>1, <2>1 DEF LaterAreConfirmed, Informed, Announced, versionVars
<1> QED
  BY <1>3, <1>4, <1>5 DEF MailPart

(***************************************************************************)
(* The worker                                                              *)
(***************************************************************************)

\* A mail leaves no field older than it was, and the fields it shows no older
\* than its version.
LEMMA ShownIsSeen ==
    ASSUME MailTypeOK, NEW b \in Bookings, NEW shown \in SUBSET Fields, NEW v \in Nat,
           Show(b, shown, v)
    PROVE  /\ seen' \in [Bookings -> [Fields -> Nat]]
           /\ \A a \in Bookings, f \in Fields : seen'[a][f] >= seen[a][f]
           /\ \A f \in shown : seen'[b][f] >= v
<1> DEFINE new == [f \in Fields |-> IF f \in shown /\ seen[b][f] < v THEN v ELSE seen[b][f]]
<1>1. seen \in [Bookings -> [Fields -> Nat]] /\ seen' = [seen EXCEPT ![b] = new]
  BY DEF MailTypeOK, Show
<1>2. \A f \in Fields : seen[b][f] \in Nat
  BY <1>1
<1>3. new \in [Fields -> Nat] /\ \A f \in Fields : new[f] >= seen[b][f]
  BY <1>2
<1>4. \A f \in shown : new[f] >= v
  BY <1>2
<1>5. seen'[b] = new /\ \A a \in Bookings : a # b => seen'[a] = seen[a]
  BY <1>1
<1>6. \A a \in Bookings, f \in Fields : seen[a][f] \in Nat
  BY <1>1
<1> HIDE DEF new
<1>7. seen' \in [Bookings -> [Fields -> Nat]]
  BY <1>1, <1>3
<1>8. ASSUME NEW a \in Bookings, NEW f \in Fields PROVE seen'[a][f] >= seen[a][f]
  BY <1>3, <1>5, <1>6
<1> QED
  BY <1>4, <1>5, <1>7, <1>8

\* What an attempt does to the mails seen.
LEMMA AttemptShows ==
    ASSUME MailInv, NEW b \in Bookings, Attempt(b)
    PROVE  /\ seen' \in [Bookings -> [Fields -> Nat]]
           /\ \A a \in Bookings, f \in Fields : seen'[a][f] >= seen[a][f]
           /\ SendConfirmation(b) =>
                  \A f \in ConfirmationFields : seen'[b][f] >= rendered[b]
           /\ \A u \in Updates : SendBroadcast(u, b) =>
                  \A f \in Fields : seen'[b][f] >= returned[u]
<1>1. MailTypeOK
  BY DEF MailInv
<1>2. CASE UNCHANGED seen /\ ~SendConfirmation(b) /\ \A u \in Updates : ~SendBroadcast(u, b)
  <2>1. \A a \in Bookings, f \in Fields : seen[a][f] \in Nat
    BY <1>1 DEF MailTypeOK
  <2> QED
    BY <1>1, <1>2, <2>1 DEF MailTypeOK
<1>3. CASE SendConfirmation(b)
  <2>1. ConfirmationFields \in SUBSET Fields /\ rendered[b] \in Nat
    BY <1>1 DEF ConfirmationFields, Fields, MailTypeOK
  <2>2. Show(b, ConfirmationFields, rendered[b]) /\ confirmation'[b] # confirmation[b]
        /\ UNCHANGED settled
    BY <1>1, <1>3 DEF SendConfirmation, MailTypeOK
  <2>3. \A u \in Updates : ~SendBroadcast(u, b)
    BY <2>2 DEF SendBroadcast
  <2> QED
    BY <1>1, <2>1, <2>2, <2>3, ShownIsSeen
<1>4. ASSUME NEW u \in Updates, SendBroadcast(u, b)
      PROVE  /\ seen' \in [Bookings -> [Fields -> Nat]]
             /\ \A a \in Bookings, f \in Fields : seen'[a][f] >= seen[a][f]
             /\ \A f \in Fields : seen'[b][f] >= returned[u]
  <2>1. Fields \in SUBSET Fields /\ returned[u] \in Nat /\ Show(b, Fields, returned[u])
    BY <1>1, <1>4 DEF MailTypeOK, SendBroadcast, BroadcastFields
  <2> QED
    BY <1>1, <2>1, ShownIsSeen
<1>5. (\E u \in Updates : SendBroadcast(u, b)) => ~SendConfirmation(b)
  BY <1>1 DEF SendBroadcast, SendConfirmation, MailTypeOK
<1>6. CASE \E u \in Updates : SendBroadcast(u, b)
  BY <1>4, <1>5, <1>6
<1>7. \/ SendConfirmation(b) \/ \E u \in Updates : SendBroadcast(u, b)
      \/ UNCHANGED seen /\ ~SendConfirmation(b) /\ \A u \in Updates : ~SendBroadcast(u, b)
  BY DEF Attempt, Render, LoseConfirmation, LoseBroadcast
<1> QED
  BY <1>2, <1>3, <1>6, <1>7

\* A mail more, a job ended with it or given up.
LEMMA AttemptKeepsMail ==
    ASSUME MailInv, NEW b \in Bookings, Attempt(b)
    PROVE  MailPart'
<1> USE DEF MailInv, IInv
<1>1. UNCHANGED <<vars, versionVars>>
  BY DEF Attempt, Render, SendConfirmation, LoseConfirmation, SendBroadcast, LoseBroadcast
<1>2. AnnouncerWrote' /\ Attendees' = Attendees /\ \A f \in Fields : Announced(f)' = Announced(f)
  BY <1>1 DEF AnnouncerWrote, Attendees, Announced, vars, rowVars, updateVars, versionVars
<1>3. /\ version \in Nat
      /\ \A f \in Fields : Announced(f) \in Nat /\ Announced(f) <= version
      /\ \A u \in Updates : returned[u] \in Nat
  BY DEF Announced, AnnouncerWrote, MailTypeOK
<1>4. /\ seen' \in [Bookings -> [Fields -> Nat]]
      /\ \A a \in Bookings, f \in Fields : seen'[a][f] >= seen[a][f]
      /\ \A a \in Bookings, f \in Fields : seen'[a][f] \in Nat /\ seen[a][f] \in Nat
      /\ SendConfirmation(b) => \A f \in ConfirmationFields : seen'[b][f] >= rendered[b]
      /\ \A u \in Updates : SendBroadcast(u, b) =>
             \A f \in Fields : seen'[b][f] >= returned[u]
  BY AttemptShows DEF MailTypeOK
<1>5. lost \subseteq lost' /\ MailTypeOK'
  BY <1>1, <1>4 DEF MailTypeOK, Attempt, Render, SendConfirmation, LoseConfirmation, SendBroadcast,
                    LoseBroadcast, EndBroadcast, versionVars
<1>6. LaterAreConfirmed'
  <2> SUFFICES ASSUME NEW f \in ConfirmationFields, NEW a \in Attendees,
                      announcer[f] # NoUpdate, a \notin owed[announcer[f]]
               PROVE  \/ confirmation'[a] = "queued"
                      \/ confirmation'[a] = "rendered" /\ rendered'[a] >= Announced(f)
                      \/ seen'[a][f] >= Announced(f)
                      \/ a \in lost'
    BY <1>1, <1>2 DEF LaterAreConfirmed, Informed, vars, updateVars, versionVars,
                      ConfirmationFields, Fields
  <2>1. /\ a \in Bookings /\ f \in Fields
        /\ Announced(f) \in Nat /\ Announced(f) <= version
        /\ seen'[a][f] >= seen[a][f] /\ seen'[a][f] \in Nat /\ seen[a][f] \in Nat
        /\ \/ confirmation[a] = "queued"
           \/ confirmation[a] = "rendered" /\ rendered[a] >= Announced(f)
           \/ seen[a][f] >= Announced(f)
           \/ a \in lost
    BY <1>3, <1>4 DEF LaterAreConfirmed, Informed, Attendees, ConfirmationFields, Fields
  <2>2. CASE seen[a][f] >= Announced(f) \/ a \in lost
    BY <1>5, <2>1, <2>2
  <2>3. CASE Render(b)
    BY <1>3, <1>5, <2>1, <2>3 DEF Render, MailTypeOK
  <2>4. CASE SendConfirmation(b)
    <3>1. rendered[b] \in Nat /\ seen'[b][f] >= rendered[b]
      BY <1>4, <2>4 DEF MailTypeOK
    <3> QED
      BY <1>5, <2>1, <2>4, <3>1 DEF SendConfirmation, MailTypeOK
  <2>5. CASE LoseConfirmation(b)
    BY <1>5, <2>1, <2>5 DEF LoseConfirmation, MailTypeOK
  <2>6. CASE \E u \in Updates : SendBroadcast(u, b) \/ LoseBroadcast(u, b)
    BY <1>5, <2>1, <2>2, <2>6 DEF SendBroadcast, LoseBroadcast
  <2> QED
    BY <2>3, <2>4, <2>5, <2>6 DEF Attempt
<1>7. SettledAreSent'
  <2> SUFFICES ASSUME NEW u \in Updates, NEW a \in settled'[u]
               PROVE  /\ jobs[u][a] > 0
                      /\ a \in lost' \/ \A f \in Fields : seen'[a][f] >= returned[u]
    BY <1>1 DEF SettledAreSent, vars, updateVars, versionVars
  <2>1. a \in Bookings
    BY <1>5 DEF MailTypeOK
  <2>2. CASE a \in settled[u]
    BY <1>3, <1>4, <1>5, <2>1, <2>2 DEF SettledAreSent
  <2>3. CASE a \notin settled[u]
    <3>1. a = b /\ (SendBroadcast(u, b) \/ LoseBroadcast(u, b))
      BY <2>3 DEF Attempt, Render, SendConfirmation, LoseConfirmation, SendBroadcast,
                  LoseBroadcast, EndBroadcast, MailTypeOK
    <3> QED
      BY <1>4, <3>1 DEF SendBroadcast, LoseBroadcast, Pending, MailTypeOK
  <2> QED
    BY <2>2, <2>3
<1> QED
  BY <1>2, <1>5, <1>6, <1>7 DEF MailPart

(***************************************************************************)
(* The theorems                                                            *)
(***************************************************************************)

LEMMA MailInitKeeps == MailInit => MailInv
<1> SUFFICES ASSUME MailInit PROVE MailInv
  OBVIOUS
<1>1. IInv
  BY InitKeeps DEF MailInit
<1>2. MailPart
  BY NoUpdateIsNone DEF MailInit, Init, MailPart, MailTypeOK, AnnouncerWrote,
                        LaterAreConfirmed, SettledAreSent, Attendees,
                        ConfirmationFields, Fields
<1> QED
  BY <1>1, <1>2 DEF MailInv, MailPart

\* Every step of this module is a step of EventBroadcast or a stutter of it.
LEMMA StepsOfEventBroadcast == [MailNext]_allVars => [Next]_vars
BY DEF MailNext, Request, Keep, Book, Update, CrashAll, Attempt, Render, SendConfirmation,
       LoseConfirmation, SendBroadcast, LoseBroadcast, Next, allVars

LEMMA MailNextKeeps == MailInv /\ [MailNext]_allVars => MailInv'
<1> SUFFICES ASSUME MailInv, [MailNext]_allVars PROVE MailInv'
  OBVIOUS
<1>1. IInv'
  BY StepsOfEventBroadcast, NextKeeps DEF MailInv
<1>2. MailPart'
  <2>1. CASE UNCHANGED allVars
    BY <2>1 DEF MailInv, MailPart, MailTypeOK, AnnouncerWrote, LaterAreConfirmed,
       SettledAreSent, Informed, Announced, Attendees, allVars, vars, rowVars, updateVars,
       versionVars, mailVars
  <2>2. CASE \E b \in Bookings : Book(b)
    BY <2>2, BookKeepsMail
  <2>3. CASE \E u \in Updates : Update(u)
    BY <2>3, UpdateKeepsMail
  <2>4. CASE \E u \in Updates : Keep(EnqueueBatch(u))
    BY <2>4, EnqueueKeepsMail DEF Keep
  <2>5. CASE \/ \E b \in Bookings : Keep(CancelBooking(b))
             \/ \E u \in Updates : Keep(UpdateRead(u)) \/ Keep(ReadAttendees(u))
             \/ \E d \in Deletes : Keep(DeleteRead(d)) \/ Keep(DeleteWrite(d))
             \/ \E p \in Requests : Keep(RequestFails(p))
    BY <2>5, MovesKeepMail DEF Keep
  <2>6. CASE CrashAll
    BY <2>6, CrashKeepsMail
  <2>7. CASE \E b \in Bookings : Attempt(b)
    BY <2>7, AttemptKeepsMail
  <2> QED
    BY <2>1, <2>2, <2>3, <2>4, <2>5, <2>6, <2>7 DEF MailNext, Request
<1> QED
  BY <1>1, <1>2 DEF MailInv, MailPart

\* Whoever is promised a change, has no mail that shows it and expects none, is
\* among those the broadcast missed.
LEMMA UninformedAreUntold ==
    ASSUME MailInv, NEW f \in Fields, announcer[f] # NoUpdate, outcome[announcer[f]] = "OK"
    PROVE  Uninformed(f) \subseteq Untold(announcer[f])
<1> USE DEF MailInv, IInv
<1>1. announcer[f] \in Updates /\ changed[announcer[f]] # {}
  BY DEF MailTypeOK, AnnouncerWrote
<1>2. recipients[announcer[f]] = {}
  BY <1>1 DEF AttendeesTold
<1>3. returned[announcer[f]] = Announced(f) /\ Announced(f) \in Nat
  BY <1>1 DEF Announced, MailTypeOK
<1>4. ASSUME NEW b \in Uninformed(f)
      PROVE  b \in Untold(announcer[f])
  <2>1. /\ b \in Attendees /\ b \in Bookings /\ b \notin lost
        /\ f \in ConfirmationFields \/ b \in owed[announcer[f]]
        /\ ~Informed(b, f) /\ ~ConfirmationExpected(b, f) /\ ~BroadcastExpected(b, f)
    BY DEF Uninformed, PromisedTo, Attendees
  <2>2. b \in owed[announcer[f]]
    BY <2>1 DEF LaterAreConfirmed, ConfirmationExpected
  <2>3. jobs[announcer[f]][b] = 0
    <3> SUFFICES ASSUME jobs[announcer[f]][b] # 0 PROVE FALSE
      OBVIOUS
    <3>1. jobs[announcer[f]][b] > 0
      BY <1>1, <2>1 DEF TypeOK, JobCap
    <3>2. b \in settled[announcer[f]]
      BY <1>1, <1>3, <2>1, <3>1 DEF BroadcastExpected, Pending
    <3>3. seen[b][f] >= returned[announcer[f]]
      BY <1>1, <2>1, <3>2 DEF SettledAreSent
    <3> QED
      BY <1>3, <2>1, <3>3 DEF Informed
  <2> QED
    BY <1>2, <2>1, <2>2, <2>3 DEF Untold
<1> QED
  BY <1>4

LEMMA InvInforms == MailInv => AttendeesInformed
<1> SUFFICES ASSUME MailInv, NEW f \in Fields, announcer[f] # NoUpdate,
                    outcome[announcer[f]] = "OK"
             PROVE  Cardinality(Uninformed(f)) <= faults * BATCH_SIZE
  BY DEF AttendeesInformed
<1>1. Uninformed(f) \subseteq Untold(announcer[f])
  BY UninformedAreUntold
<1>2. Untold(announcer[f]) \subseteq Bookings
  BY DEF Untold, Attendees
<1>3. Cardinality(Untold(announcer[f])) <= faults * BATCH_SIZE /\ faults \in Nat
  BY BoundsPositive DEF MailInv, IInv, MailTypeOK, AnnouncerWrote, AttendeesTold, TypeOK
<1> QED
  BY <1>1, <1>2, <1>3, LossShrinks

\* The invariant of the mails: for every attendee either his broadcast is on its
\* way, or his confirmation is one read late enough.
THEOREM MailInvariant == MailSpec => []MailInv
<1> QED
  BY MailInitKeeps, MailNextKeeps, PTL DEF MailSpec

\* No attendee whom the mails promise a change is left with what was true before
\* it, but for mails given up and one batch for each fault: those who held
\* tickets at the write read it in the broadcast, a field that confirmations show
\* later bookers read there.
THEOREM EveryoneInformed == MailSpec => []AttendeesInformed
<1>1. MailInv => AttendeesInformed
  BY InvInforms
<1> QED
  BY <1>1, MailInvariant, PTL

\* The composition keeps what EventBroadcast promises: it adds no behaviour to
\* the requests.
THEOREM RefinesEventBroadcast == MailSpec => Spec
<1>1. MailInit => Init
  BY DEF MailInit
<1> QED
  BY <1>1, StepsOfEventBroadcast, PTL DEF MailSpec, Spec

--------------------------------------------------------------------------------
(* The life of a confirmation *)

\* Nobody is mailed a confirmation of what is not committed.
DueIsCommitted ==
    \A b \in Bookings :
        confirmation[b] # "none" => booking[b] \in {"CONFIRMED", "CANCELLED"}

\* What a step may do to the confirmation of b.
LifeStep(b) ==
    \/ confirmation[b] = "none" /\ confirmation'[b] = "queued"
    \/ confirmation[b] \in {"queued", "rendered"}
       /\ confirmation'[b] \in {"queued", "rendered", "sent", "lost"}
    \/ confirmation'[b] = confirmation[b]

\* A commit queues the confirmation, a rollback does not.
LEMMA BookLife ==
    ASSUME MailInv, DueIsCommitted, NEW a \in Bookings, Book(a)
    PROVE  DueIsCommitted' /\ \A b \in Bookings : LifeStep(b)
<1>1. /\ booking \in [Bookings -> {"NONE", "TAKEN", "CONFIRMED", "CANCELLED"}]
      /\ confirmation \in [Bookings -> {"none", "queued", "rendered", "sent", "lost"}]
      /\ booking[a] \in {"NONE", "TAKEN"} /\ confirmation[a] = "none"
  BY DEF MailInv, IInv, TypeOK, MailTypeOK, DueIsCommitted, Book, Take, EndBooking
<1>2. /\ \A b \in Bookings : b # a => booking'[b] = booking[b]
      /\ \A b \in Bookings : b # a => confirmation'[b] = confirmation[b]
      /\ confirmation'[a] = IF booking'[a] = "CONFIRMED" THEN "queued" ELSE "none"
  BY <1>1 DEF Book, Take, EndBooking
<1> QED
  BY <1>1, <1>2 DEF DueIsCommitted, LifeStep

\* The other requests leave the confirmations alone, and cancel only what is committed.
LEMMA RequestLife ==
    ASSUME MailInv, DueIsCommitted, Request, \A b \in Bookings : ~Book(b)
    PROVE  DueIsCommitted' /\ \A b \in Bookings : LifeStep(b)
<1>1. UNCHANGED confirmation
  BY DEF Request, Keep, Update, mailVars
<1>2. \A b \in Bookings : booking'[b] # booking[b] => booking'[b] = "CANCELLED"
  BY DEF Request, Keep, Update, CancelBooking, UpdateRead, UpdateWrite, ReadAttendees, EnqueueBatch,
         DeleteRead, DeleteWrite, RequestFails, rowVars, MailInv, IInv, TypeOK
<1> QED
  BY <1>1, <1>2 DEF DueIsCommitted, LifeStep

\* A crash takes a confirmation back to the queue, and rolls back nothing that
\* was committed.
LEMMA CrashLife ==
    ASSUME MailInv, DueIsCommitted, CrashAll
    PROVE  DueIsCommitted' /\ \A b \in Bookings : LifeStep(b)
BY DEF CrashAll, Crash, MailInv, IInv, TypeOK, MailTypeOK, DueIsCommitted, LifeStep

\* An attempt moves the confirmation of one booking, while it is due.
LEMMA AttemptLife ==
    ASSUME MailInv, DueIsCommitted, NEW a \in Bookings, Attempt(a)
    PROVE  DueIsCommitted' /\ \A b \in Bookings : LifeStep(b)
<1>1. /\ UNCHANGED booking
      /\ confirmation \in [Bookings -> {"none", "queued", "rendered", "sent", "lost"}]
  BY DEF Attempt, Render, SendConfirmation, LoseConfirmation, SendBroadcast, LoseBroadcast,
         vars, rowVars, MailInv, MailTypeOK
<1>2. CASE \E u \in Updates : SendBroadcast(u, a) \/ LoseBroadcast(u, a)
  BY <1>1, <1>2 DEF SendBroadcast, LoseBroadcast, DueIsCommitted, LifeStep
<1>3. CASE Render(a) \/ SendConfirmation(a) \/ LoseConfirmation(a)
  BY <1>1, <1>3 DEF Render, SendConfirmation, LoseConfirmation, DueIsCommitted, LifeStep
<1> QED
  BY <1>2, <1>3 DEF Attempt

\* What AttendeeMail takes a confirmation to be is what NotificationPipeline makes
\* of it (SettledForGood there).
THEOREM SettledForGood == MailSpec => ImplementsLife
<1>1. MailInit => DueIsCommitted /\ Life!Init
  BY DEF MailInit, Init, DueIsCommitted, Life!Init, LifeOf
<1>2. ASSUME MailInv, DueIsCommitted, [MailNext]_allVars
      PROVE  DueIsCommitted' /\ \A b \in Bookings : LifeStep(b)
  <2>1. CASE Request
    BY <1>2, <2>1, BookLife, RequestLife
  <2>2. CASE CrashAll \/ \E b \in Bookings : Attempt(b)
    BY <1>2, <2>2, CrashLife, AttemptLife
  <2>3. CASE UNCHANGED allVars
    BY <1>2, <2>3 DEF allVars, vars, rowVars, mailVars, DueIsCommitted, LifeStep
  <2> QED
    BY <1>2, <2>1, <2>2, <2>3 DEF MailNext
<1>3. MailInv /\ DueIsCommitted /\ [MailNext]_allVars =>
         [Life!Next]_([b \in Bookings |-> LifeOf(b)])
  <2> SUFFICES ASSUME MailInv, DueIsCommitted, [MailNext]_allVars, NEW b \in Bookings
               PROVE  \/ LifeOf(b) = "none" /\ LifeOf(b)' = "due"
                      \/ LifeOf(b) = "due" /\ LifeOf(b)' \in {"sent", "lost"}
                      \/ LifeOf(b)' = LifeOf(b)
    BY DEF Life!Next, Life!FallsDue, Life!Settles
  <2> QED
    BY <1>2 DEF LifeStep, LifeOf
<1> QED
  BY <1>1, <1>2, <1>3, MailInvariant, PTL DEF MailSpec, ImplementsLife, Life!Spec
================================================================================
