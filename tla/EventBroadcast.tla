----------------------------- MODULE EventBroadcast -----------------------------
(***************************************************************************)
(* updateEvent of event.service.ts for one event: what it finds changed,   *)
(* and the jobs it enqueues in batches to tell the attendees, while others *)
(* book, cancel, update and delete the event.                              *)
(*                                                                         *)
(* A booking's transaction holds the lock of the event row from its        *)
(* decrement to its commit (BookingEngine); the update of the row waits.   *)
(***************************************************************************)
EXTENDS Integers, FiniteSets

CONSTANTS Values,         \* of the critical fields
          FirstContent,
          Unset,          \* a field an update leaves alone
          UpdateInputs,   \* what the updates may set
          Bookings, Updates, Deletes,
          customerOf,     \* the customer of a booking
          Free,           \* no transaction holds the event row
          BATCH_SIZE,     \* jobs enqueued with one call (50)
          MaxFaults       \* bound: failed calls and crashes

Requests == Updates \cup Deletes

\* A change of one of these is announced.
Fields == {"title", "eventDate", "location", "onlineLink"}
Contents == [Fields -> Values]

ASSUME RequestsDistinct == /\ Updates \cap Deletes = {}
                           /\ Free \notin Bookings
ASSUME ContentsTyped == FirstContent \in Contents /\ Unset \notin Values
ASSUME InputsTyped == UpdateInputs \subseteq [Fields -> Values \cup {Unset}]
ASSUME BookingsFinite == IsFiniteSet(Bookings)
ASSUME CustomersKnown == DOMAIN customerOf = Bookings
ASSUME BoundsPositive == BATCH_SIZE \in Nat \ {0} /\ MaxFaults \in Nat

\* Bound: one job, and more than one, is all that is told apart.
JobCap == 2

VARIABLES
    content, status,    \* the events row
    lock,               \* the booking whose transaction has updated the row
    booking,            \* NONE, TAKEN (uncommitted), CONFIRMED or CANCELLED
    wanted,             \* what an update sets
    changed,            \* the fields it found changed (changedFields)
    recipients,         \* attendees it has read and not enqueued a job for yet
    jobs,               \* jobs enqueued for an attendee, counted to JobCap
    owed,               \* history: the bookings that held tickets at its write
    pc, outcome,
    faults

rowVars == <<content, status, lock, booking>>
updateVars == <<wanted, changed, recipients, jobs, owed>>
vars == <<rowVars, updateVars, pc, outcome, faults>>

Init == /\ content = FirstContent
        /\ status = "UPCOMING"
        /\ lock = Free
        /\ booking = [b \in Bookings |-> "NONE"]
        /\ wanted \in [Updates -> UpdateInputs]
        /\ changed = [u \in Updates |-> {}]
        /\ recipients = [u \in Updates |-> {}]
        /\ jobs = [u \in Updates |-> [b \in Bookings |-> 0]]
        /\ owed = [u \in Updates |-> {}]
        /\ pc = [p \in Requests |-> "idle"]
        /\ outcome = [p \in Requests |-> "NONE"]
        /\ faults = 0

Goto(p, label) == pc' = [pc EXCEPT ![p] = label]

Answer(p, reply) == /\ pc' = [pc EXCEPT ![p] = "done"]
                    /\ outcome' = [outcome EXCEPT ![p] = reply]

Fault == faults < MaxFaults /\ faults' = faults + 1

HoldsTickets == {b \in Bookings : booking[b] \in {"TAKEN", "CONFIRMED"}}
Attendees == {b \in Bookings : booking[b] = "CONFIRMED"}

--------------------------------------------------------------------------------
(* createBooking and cancelBooking *)

\* Defect: tickets are taken without locking the event row.
TakeUnlocked(b) ==
    /\ booking[b] = "NONE"
    /\ lock = Free
    /\ status = "UPCOMING"
    /\ booking' = [booking EXCEPT ![b] = "TAKEN"]
    /\ UNCHANGED <<content, status, lock, updateVars, pc, outcome, faults>>

\* The conditional update of createBooking.
Take(b) ==
    /\ booking[b] = "NONE"
    /\ lock = Free
    /\ status = "UPCOMING"
    /\ lock' = b
    /\ booking' = [booking EXCEPT ![b] = "TAKEN"]
    /\ UNCHANGED <<content, status, updateVars, pc, outcome, faults>>

\* The transaction commits, or rolls back and may be tried again.
EndBooking(b) ==
    /\ booking[b] = "TAKEN"
    /\ \E s \in {"CONFIRMED", "NONE"} : booking' = [booking EXCEPT ![b] = s]
    /\ lock' = Free
    /\ UNCHANGED <<content, status, updateVars, pc, outcome, faults>>

\* cancelBooking, whose transaction needs the event row, too.
CancelBooking(b) ==
    /\ booking[b] = "CONFIRMED"
    /\ lock = Free
    /\ booking' = [booking EXCEPT ![b] = "CANCELLED"]
    /\ UNCHANGED <<content, status, lock, updateVars, pc, outcome, faults>>

--------------------------------------------------------------------------------
(* updateEvent *)

\* The critical fields that an input would change in the row.
Differing(input) == {f \in Fields : input[f] \notin {Unset, content[f]}}

\* Defect: a critical field is missing from the comparison.
UpdateReadPartial(u) ==
    /\ pc[u] = "idle"
    /\ IF status = "CANCELLED"
       THEN Answer(u, "EVENT_CANCELLED") /\ UNCHANGED changed
       ELSE /\ changed' = [changed EXCEPT ![u] = Differing(wanted[u]) \ {"onlineLink"}]
            /\ Goto(u, "write")
            /\ UNCHANGED outcome
    /\ UNCHANGED <<rowVars, wanted, recipients, jobs, owed, faults>>

\* The read, its checks, and the comparison that makes changedFields.  (That the
\* event exists and is the requester's own is checked, too: see OrganizerAnswer
\* of BookingEngine.)
UpdateRead(u) ==
    /\ pc[u] = "idle"
    /\ IF status = "CANCELLED"
       THEN Answer(u, "EVENT_CANCELLED") /\ UNCHANGED changed
       ELSE /\ changed' = [changed EXCEPT ![u] = Differing(wanted[u])]
            /\ Goto(u, "write")
            /\ UNCHANGED outcome
    /\ UNCHANGED <<rowVars, wanted, recipients, jobs, owed, faults>>

\* The update by id; the cache invalidation after it is EventCache's.
UpdateWrite(u) ==
    /\ pc[u] = "write"
    /\ lock = Free
    /\ content' = [f \in Fields |-> IF wanted[u][f] = Unset THEN content[f] ELSE wanted[u][f]]
    /\ owed' = [owed EXCEPT ![u] = HoldsTickets]
    /\ IF changed[u] # {} THEN Goto(u, "readAttendees") /\ UNCHANGED outcome
                          ELSE Answer(u, "OK")
    /\ UNCHANGED <<status, lock, booking, wanted, changed, recipients, jobs, faults>>

ReadAttendees(u) ==
    /\ pc[u] = "readAttendees"
    /\ recipients' = [recipients EXCEPT ![u] = Attendees]
    /\ IF Attendees = {} THEN Answer(u, "OK")
                         ELSE Goto(u, "enqueue") /\ UNCHANGED outcome
    /\ UNCHANGED <<rowVars, wanted, changed, jobs, owed, faults>>

AddBulk(u, S) ==
    jobs' = [jobs EXCEPT ![u] = [b \in Bookings |->
                IF b \in S /\ @[b] < JobCap THEN @[b] + 1 ELSE @[b]]]

\* The attendees of the next slice.
Slices(u) == {S \in SUBSET recipients[u] :
                 \/ Cardinality(S) = BATCH_SIZE
                 \/ S = recipients[u] /\ Cardinality(S) < BATCH_SIZE}

\* Defect: a batch that fails ends the loop, and the request is answered.
EnqueueBatchGivingUp(u) ==
    /\ pc[u] = "enqueue"
    /\ \E S \in Slices(u) :
          \/ /\ AddBulk(u, S)
             /\ recipients' = [recipients EXCEPT ![u] = @ \ S]
             /\ IF S = recipients[u] THEN Answer(u, "OK") ELSE UNCHANGED <<pc, outcome>>
             /\ UNCHANGED faults
          \/ Fault /\ Answer(u, "OK") /\ UNCHANGED <<jobs, recipients>>
    /\ UNCHANGED <<rowVars, wanted, changed, owed>>

\* addBulk of one slice; its failure is logged and the loop goes on.
EnqueueBatch(u) ==
    /\ pc[u] = "enqueue"
    /\ \E S \in Slices(u) :
          /\ \/ AddBulk(u, S) /\ UNCHANGED faults
             \/ Fault /\ UNCHANGED jobs
          /\ recipients' = [recipients EXCEPT ![u] = @ \ S]
          /\ IF S = recipients[u] THEN Answer(u, "OK") ELSE UNCHANGED <<pc, outcome>>
    /\ UNCHANGED <<rowVars, wanted, changed, owed>>

--------------------------------------------------------------------------------
(* deleteEvent, which tells nobody *)

DeleteRead(d) ==
    /\ pc[d] = "idle"
    /\ IF status = "CANCELLED" THEN Answer(d, "OK")
                               ELSE Goto(d, "write") /\ UNCHANGED outcome
    /\ UNCHANGED <<rowVars, updateVars, faults>>

DeleteWrite(d) ==
    /\ pc[d] = "write"
    /\ lock = Free
    /\ status' = "CANCELLED"
    /\ Answer(d, "OK")
    /\ UNCHANGED <<content, lock, booking, updateVars, faults>>

\* A statement fails: the rest of the request is not done.
RequestFails(p) ==
    /\ pc[p] \notin {"idle", "done"}
    /\ Fault
    /\ Answer(p, "INTERNAL_ERROR")
    /\ UNCHANGED <<rowVars, updateVars>>

\* The server dies, and PostgreSQL rolls back what is open.
Crash ==
    /\ Fault
    /\ lock' = Free
    /\ booking' = [b \in Bookings |-> IF booking[b] = "TAKEN" THEN "NONE" ELSE booking[b]]
    /\ pc' = [p \in Requests |-> IF pc[p] = "idle" THEN "idle" ELSE "done"]
    /\ outcome' = [p \in Requests |->
                      IF pc[p] \in {"idle", "done"} THEN outcome[p] ELSE "NO_RESPONSE"]
    /\ UNCHANGED <<content, status, updateVars>>

Next == \/ \E b \in Bookings : Take(b) \/ EndBooking(b) \/ CancelBooking(b)
        \/ \E u \in Updates : \/ UpdateRead(u) \/ UpdateWrite(u)
                              \/ ReadAttendees(u) \/ EnqueueBatch(u)
        \/ \E d \in Deletes : DeleteRead(d) \/ DeleteWrite(d)
        \/ \E p \in Requests : RequestFails(p)
        \/ Crash

Spec == Init /\ [][Next]_vars

--------------------------------------------------------------------------------
(* Properties *)

\* Every variable has its type, and the row is locked by the booking whose
\* tickets are taken and not committed.
TypeOK ==
    /\ content \in Contents
    /\ status \in {"UPCOMING", "CANCELLED"}
    /\ lock \in Bookings \cup {Free}
    /\ booking \in [Bookings -> {"NONE", "TAKEN", "CONFIRMED", "CANCELLED"}]
    /\ \A b \in Bookings : lock = b <=> booking[b] = "TAKEN"
    /\ wanted \in [Updates -> UpdateInputs]
    /\ changed \in [Updates -> SUBSET Fields]
    /\ recipients \in [Updates -> SUBSET Bookings]
    /\ jobs \in [Updates -> [Bookings -> 0..JobCap]]
    /\ owed \in [Updates -> SUBSET Bookings]
    /\ pc \in [Requests -> {"idle", "write", "readAttendees", "enqueue", "done"}]
    /\ outcome \in [Requests -> {"NONE", "OK", "EVENT_CANCELLED", "INTERNAL_ERROR",
                               "NO_RESPONSE"}]
    /\ faults \in 0..MaxFaults

\* Those who held tickets at the write of update u, an uncommitted booking
\* included, hold them still, and are neither told nor about to be.
Untold(u) == {b \in owed[u] \cap Attendees : b \notin recipients[u] /\ jobs[u][b] = 0}

\* An update that found a critical field changed is answered only once all who
\* are owed have a job that tells so; a failure of Redis costs the jobs of one
\* batch and never those of the batches after it.
AttendeesTold ==
    \A u \in Updates :
        outcome[u] = "OK" /\ changed[u] # {} =>
            /\ recipients[u] = {}
            /\ Cardinality(Untold(u)) <= faults * BATCH_SIZE

\* "Broadcasts event modifications in batches to all unique confirmed attendee
\* emails": a customer is told of an update once.  (The code has a job for each
\* booking: a customer who has booked twice is told twice.)
CustomersToldOnce ==
    \A u \in Updates : \A a, b \in Bookings :
        jobs[u][a] > 0 /\ jobs[u][b] > 0 /\ a # b => customerOf[a] # customerOf[b]

\* The one event, and its bookings, as BookingEngine makes them.
Row == INSTANCE EventRow WITH
           Events <- {0},
           eventOf <- [b \in Bookings |-> 0],
           status <- [e \in {0} |-> status],
           content <- [e \in {0} |-> content],
           lock <- [e \in {0} |-> lock]

ImplementsEventRow == Row!Spec

\* changedFields compares with the row as it was read, and the write does not
\* look at it again.  An update that found a field unchanged, and so does not
\* announce it, still changes the field if the row has changed since; but then
\* only because another update wrote meanwhile what it now replaces.
SilentIsOvertaken ==
    \A u \in Updates : \A f \in Fields \ changed[u] :
        pc[u] = "write" /\ wanted[u][f] \notin {Unset, content[f]} =>
            \E v \in Updates \ {u} :
                pc[v] \notin {"idle", "write"} /\ wanted[v][f] = content[f]

--------------------------------------------------------------------------------
(* The inductive invariant: what an update owes and to whom it has paid *)

\* Nobody is told before the attendees are read, and an answer comes last.
ToldLast ==
    /\ \A u \in Updates :
          pc[u] \in {"idle", "write", "readAttendees"} =>
              recipients[u] = {} /\ \A b \in Bookings : jobs[u][b] = 0
    /\ \A p \in Requests : pc[p] # "done" => outcome[p] = "NONE"

\* Who is to be told has booked and was not told yet.
RecipientsUntold ==
    \A u \in Updates : \A b \in recipients[u] :
        jobs[u][b] = 0 /\ booking[b] \in {"CONFIRMED", "CANCELLED"}

\* At the write no booking's transaction was open: who held tickets then had
\* them confirmed.
OwedAreBooked ==
    \A u \in Updates : \A b \in owed[u] : booking[b] \in {"CONFIRMED", "CANCELLED"}

\* While the batches are enqueued everyone owed is told or about to be, but for
\* a batch of them for each failure.
OwedAreListed ==
    \A u \in Updates :
        pc[u] = "enqueue" => Cardinality(Untold(u)) <= faults * BATCH_SIZE

IInv == /\ TypeOK /\ ToldLast /\ RecipientsUntold /\ OwedAreBooked /\ OwedAreListed
        /\ AttendeesTold
================================================================================
