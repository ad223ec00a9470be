----------------------------- MODULE BookingEngine -----------------------------
(***************************************************************************)
(* createBooking and cancelBooking of booking.service.ts, and the writes   *)
(* of event.service.ts they run against, as concurrent requests over       *)
(* PostgreSQL at READ COMMITTED.                                           *)
(*                                                                         *)
(* status, date, total, avail and bookingStatus are the committed rows.  A *)
(* transaction that has updated a row and not ended holds its row lock     *)
(* (eventLock, bookingLock); pending[p] is the availableTickets its        *)
(* uncommitted version of the event row holds.  A statement that finds the *)
(* row locked waits: its action is disabled until the lock is free.        *)
(***************************************************************************)
EXTENDS TicketConstants

CONSTANTS BookRequests,       \* POST /events/:id/book calls; each is also the id of the row it inserts
          CancelRequests,     \* PATCH /bookings/:id/cancel calls
          OrganizerRequests,  \* PUT and DELETE /events/:id calls
          BookInputs,         \* what a booking request may ask for
          CancelInputs,       \* what a cancel request may ask for
          OrganizerInputs,    \* what an organizer request may ask for
          Organizers, Owner,  \* Owner[e]: the organizer of event e
          MaxTime,            \* bound on the clock
          Free                \* no transaction holds the row

ASSUME MaxTimeNatural == MaxTime \in Nat

Requests == BookRequests \cup CancelRequests \cup OrganizerRequests

ASSUME RequestsDistinct ==
    /\ BookRequests \cap CancelRequests = {}
    /\ BookRequests \cap OrganizerRequests = {}
    /\ CancelRequests \cap OrganizerRequests = {}
    /\ Free \notin Requests

Times == 0..MaxTime

\* A booking id is the id of some row, existing or not, and the token's user.
Cancellations == [booking: BookRequests, customer: Customers]

\* An update gives a new date, or 0 for a body without eventDate.
Edits == [kind: {"update", "delete"}, event: Events, by: Organizers, date: Times]

ASSUME InputsTyped == /\ BookInputs \subseteq Orders
                      /\ CancelInputs \subseteq Cancellations
                      /\ OrganizerInputs \subseteq Edits
                      /\ Owner \in [Events -> Organizers]

VARIABLES
    order, cancelOf, edit,              \* the inputs of the requests
    now,                                \* the clock the database and the server share
    status, date, total, avail,         \* committed events rows
    bookingStatus,                      \* committed bookings rows, NONE if no such row
    eventLock, bookingLock,             \* who has updated the row and not ended
    pc, outcome,                        \* where each request is, what it answered
    began,                              \* NOW() of its transaction
    pending                             \* availableTickets of its uncommitted event row

inputs == <<order, cancelOf, edit>>
rows == <<status, date, total, avail, bookingStatus>>
locks == <<eventLock, bookingLock>>
vars == <<inputs, now, rows, locks, pc, outcome, began, pending>>

Init ==
    /\ order \in [BookRequests -> BookInputs]
    /\ cancelOf \in [CancelRequests -> CancelInputs]
    /\ edit \in [OrganizerRequests -> OrganizerInputs]
    /\ now = 0
    /\ status = [e \in Events |-> "ABSENT"]
    /\ date = [e \in Events |-> 0]
    /\ total = [e \in Events |-> 0]
    /\ avail = [e \in Events |-> 0]
    /\ bookingStatus = [b \in BookRequests |-> "NONE"]
    /\ eventLock = [e \in Events |-> Free]
    /\ bookingLock = [b \in BookRequests |-> Free]
    /\ pc = [p \in Requests |-> "idle"]
    /\ outcome = [p \in Requests |-> "NONE"]
    /\ began = [p \in Requests |-> 0]
    /\ pending = [p \in Requests |-> 0]

--------------------------------------------------------------------------------
(* Helpers *)

Exists(b) == bookingStatus[b] # "NONE"

\* findUnique by idempotencyKey: the committed rows with key k (at most one).
WithKey(k) == {b \in BookRequests : k # NoKey /\ Exists(b) /\ order[b].key = k}

\* Defect: the key is not scoped to its customer.
ReplayAnswerUnscoped(p, b) ==
    IF order[b].event # order[p].event \/ order[b].quantity # order[p].quantity
    THEN "DUPLICATE_BOOKING" ELSE "REPLAYED"

\* What a request whose key already names booking b is told.
ReplayAnswer(p, b) ==
    IF order[b].customer # order[p].customer THEN "FORBIDDEN"
    ELSE IF order[b].event # order[p].event \/ order[b].quantity # order[p].quantity
    THEN "DUPLICATE_BOOKING"
    ELSE "REPLAYED"

\* Defect: the WHERE clause forgets the status.
BookableCancelled(p) == LET e == order[p].event
                        IN avail[e] >= order[p].quantity /\ date[e] > began[p]

\* The WHERE clause of the decrement, on the committed row.
Bookable(p) == LET e == order[p].event
               IN  /\ avail[e] >= order[p].quantity
                   /\ status[e] = "UPCOMING"
                   /\ date[e] > began[p]

\* The code a missed decrement is reported with, in the order of the checks.
Diagnosis(p) ==
    LET e == order[p].event
    IN  IF status[e] = "ABSENT" THEN "EVENT_NOT_FOUND"
        ELSE IF status[e] # "UPCOMING" THEN "EVENT_CANCELLED"
        ELSE IF date[e] <= now THEN "PAST_EVENT"
        ELSE IF avail[e] = 0 THEN "SOLD_OUT"
        ELSE "INSUFFICIENT_TICKETS"

\* Defect: one booking for each customer and event is unique as well.
KeyHoldersPerCustomer(p) ==
    {bookingLock[b] : b \in {b \in BookRequests : /\ bookingLock[b] # Free
                                                /\ order[b].event = order[p].event
                                                /\ order[b].customer = order[p].customer}}

\* Transactions whose uncommitted change the unique index makes p wait for:
\* an insert of the same key, or an update of the row that has it.
KeyHolders(p) ==
    IF order[p].key = NoKey THEN {}
    ELSE {r \in BookRequests \ {p} : pc[r] = "commit" /\ order[r].key = order[p].key}
         \cup {bookingLock[b] : b \in {b \in WithKey(order[p].key) : bookingLock[b] # Free}}

Goto(p, label) == pc' = [pc EXCEPT ![p] = label]

Answer(p, code) == /\ pc' = [pc EXCEPT ![p] = "done"]
                   /\ outcome' = [outcome EXCEPT ![p] = code]

\* Defect: the event row's lock outlives the transaction.
EndTxLeaking(P) ==
    /\ bookingLock' = [b \in BookRequests |-> IF bookingLock[b] \in P THEN Free ELSE bookingLock[b]]
    /\ began' = [p \in Requests |-> IF p \in P THEN 0 ELSE began[p]]
    /\ pending' = [p \in Requests |-> IF p \in P THEN 0 ELSE pending[p]]
    /\ UNCHANGED eventLock

\* The transactions of the requests in P end: their row locks are free again,
\* and their uncommitted versions and start times mean nothing any more.
EndTx(P) ==
    /\ eventLock' = [e \in Events |-> IF eventLock[e] \in P THEN Free ELSE eventLock[e]]
    /\ bookingLock' = [b \in BookRequests |-> IF bookingLock[b] \in P THEN Free ELSE bookingLock[b]]
    /\ began' = [p \in Requests |-> IF p \in P THEN 0 ELSE began[p]]
    /\ pending' = [p \in Requests |-> IF p \in P THEN 0 ELSE pending[p]]

--------------------------------------------------------------------------------
(* The environment *)

Tick == /\ now < MaxTime
        /\ now' = now + 1
        /\ UNCHANGED <<inputs, rows, locks, pc, outcome, began, pending>>

\* createEvent: one INSERT, availableTickets initialised from totalCapacity,
\* the validator having checked that the date is in the future.
CreateEvent(e) ==
    /\ status[e] = "ABSENT"
    /\ \E c \in Capacities, d \in {d \in Times : d > now} :
          /\ date' = [date EXCEPT ![e] = d]
          /\ total' = [total EXCEPT ![e] = c]
          /\ avail' = [avail EXCEPT ![e] = c]
    /\ status' = [status EXCEPT ![e] = "UPCOMING"]
    /\ UNCHANGED <<inputs, now, bookingStatus, locks, pc, outcome, began, pending>>

--------------------------------------------------------------------------------
(* createBooking *)

FastPath(p) ==
    /\ pc[p] = "idle"
    /\ \/ /\ WithKey(order[p].key) = {}
          /\ Goto(p, "begin")
          /\ UNCHANGED outcome
       \/ \E b \in WithKey(order[p].key) : Answer(p, ReplayAnswer(p, b))
    /\ UNCHANGED <<inputs, now, rows, locks, began, pending>>

BeginTx(p) ==
    /\ pc[p] = "begin"
    /\ Goto(p, "decrement")
    /\ began' = [began EXCEPT ![p] = now]
    /\ UNCHANGED <<inputs, now, rows, locks, outcome, pending>>

\* Defect: availableTickets is read, decremented and written back without the lock.
DecrementUnlocked(p) ==
    LET e == order[p].event
    IN  /\ pc[p] = "decrement"
        /\ Bookable(p)
        /\ pending' = [pending EXCEPT ![p] = avail[e] - order[p].quantity]
        /\ Goto(p, "insert")
        /\ UNCHANGED <<inputs, now, rows, locks, outcome, began>>

\* The conditional UPDATE changes one row: it waits for the row lock, then
\* evaluates its WHERE clause again on the row it was given.
Decrement(p) ==
    LET e == order[p].event
    IN  /\ pc[p] = "decrement"
        /\ eventLock[e] = Free
        /\ Bookable(p)
        /\ eventLock' = [eventLock EXCEPT ![e] = p]
        /\ pending' = [pending EXCEPT ![p] = avail[e] - order[p].quantity]
        /\ Goto(p, "insert")
        /\ UNCHANGED <<inputs, now, rows, bookingLock, outcome, began>>

\* The UPDATE changes no row.
DecrementMisses(p) ==
    /\ pc[p] = "decrement"
    /\ ~Bookable(p)
    /\ Goto(p, "diagnose")
    /\ UNCHANGED <<inputs, now, rows, locks, outcome, began, pending>>

\* A second statement, with a snapshot of its own, says why; the AppError it
\* throws rolls the transaction back.
Diagnose(p) ==
    /\ pc[p] = "diagnose"
    /\ Answer(p, Diagnosis(p))
    /\ EndTx({p})
    /\ UNCHANGED <<inputs, now, rows>>

\* Defect: idempotencyKey has no unique index.
InsertUnindexed(p) ==
    /\ pc[p] = "insert"
    /\ Goto(p, "commit")
    /\ UNCHANGED <<inputs, now, rows, locks, outcome, began, pending>>

\* booking.create, then the outbox row in the same transaction.
Insert(p) ==
    /\ pc[p] = "insert"
    /\ KeyHolders(p) = {}
    /\ WithKey(order[p].key) = {}
    /\ Goto(p, "commit")
    /\ UNCHANGED <<inputs, now, rows, locks, outcome, began, pending>>

\* Defect: the insert gives up on a key another transaction has only inserted.
InsertConflictsEarly(p) ==
    /\ pc[p] = "insert"
    /\ KeyHolders(p) # {} \/ WithKey(order[p].key) # {}
    /\ EndTx({p})
    /\ Goto(p, "resolve")
    /\ UNCHANGED <<inputs, now, rows, outcome>>

\* booking.create breaks the unique index: the transaction rolls back and the
\* catch block takes over.
InsertConflicts(p) ==
    /\ pc[p] = "insert"
    /\ KeyHolders(p) = {}
    /\ WithKey(order[p].key) # {}
    /\ EndTx({p})
    /\ Goto(p, "resolve")
    /\ UNCHANGED <<inputs, now, rows, outcome>>

Commit(p) ==
    LET e == order[p].event
    IN  /\ pc[p] = "commit"
        /\ avail' = [avail EXCEPT ![e] = pending[p]]
        /\ bookingStatus' = [bookingStatus EXCEPT ![p] = "CONFIRMED"]
        /\ EndTx({p})
        /\ Goto(p, "committed")
        /\ UNCHANGED <<inputs, now, status, date, total, outcome>>

\* The rest of the try block (cache invalidation, enqueue) changes no row.
BookRespond(p) ==
    /\ pc[p] = "committed"
    /\ Answer(p, "CREATED")
    /\ UNCHANGED <<inputs, now, rows, locks, began, pending>>

Resolve(p) ==
    /\ pc[p] = "resolve"
    /\ \E b \in WithKey(order[p].key) : Answer(p, ReplayAnswer(p, b))
    /\ UNCHANGED <<inputs, now, rows, locks, began, pending>>

BookStep(p) == \/ BeginTx(p) \/ Decrement(p) \/ DecrementMisses(p) \/ Diagnose(p)
               \/ Insert(p) \/ InsertConflicts(p) \/ Commit(p) \/ BookRespond(p)
               \/ Resolve(p)

--------------------------------------------------------------------------------
(* cancelBooking *)

\* Defect: the booking's customer is not compared with the token's.
CancelRefusalUnowned(p) ==
    LET b == cancelOf[p].booking
    IN  IF ~Exists(b) THEN "BOOKING_NOT_FOUND"
        ELSE IF bookingStatus[b] = "CANCELLED" THEN "ALREADY_CANCELLED"
        ELSE IF date[order[b].event] <= now THEN "PAST_EVENT"
        ELSE "NONE"

\* What the read at the head of the transaction finds wrong, if anything.
CancelRefusal(p) ==
    LET b == cancelOf[p].booking
    IN  IF ~Exists(b) THEN "BOOKING_NOT_FOUND"
        ELSE IF order[b].customer # cancelOf[p].customer THEN "FORBIDDEN"
        ELSE IF bookingStatus[b] = "CANCELLED" THEN "ALREADY_CANCELLED"
        ELSE IF date[order[b].event] <= now THEN "PAST_EVENT"
        ELSE "NONE"

CancelRead(p) ==
    /\ pc[p] = "idle"
    /\ IF CancelRefusal(p) = "NONE"
       THEN Goto(p, "mark") /\ UNCHANGED outcome
       ELSE Answer(p, CancelRefusal(p))
    /\ UNCHANGED <<inputs, now, rows, locks, began, pending>>

\* Defect: the update is by id alone.
CancelMarkUnguarded(p) ==
    LET b == cancelOf[p].booking
    IN  /\ pc[p] = "mark"
        /\ bookingLock[b] = Free
        /\ bookingLock' = [bookingLock EXCEPT ![b] = p]
        /\ Goto(p, "restock")
        /\ UNCHANGED <<inputs, now, rows, eventLock, outcome, began, pending>>

\* updateMany WHERE status = CONFIRMED changes the row, and keeps it locked.
CancelMark(p) ==
    LET b == cancelOf[p].booking
    IN  /\ pc[p] = "mark"
        /\ bookingStatus[b] = "CONFIRMED"
        /\ bookingLock[b] = Free
        /\ bookingLock' = [bookingLock EXCEPT ![b] = p]
        /\ Goto(p, "restock")
        /\ UNCHANGED <<inputs, now, rows, eventLock, outcome, began, pending>>

\* updateMany changes no row: count = 0.
CancelMissed(p) ==
    /\ pc[p] = "mark"
    /\ bookingStatus[cancelOf[p].booking] # "CONFIRMED"
    /\ Answer(p, "ALREADY_CANCELLED")
    /\ EndTx({p})
    /\ UNCHANGED <<inputs, now, rows>>

\* Defect: the stock is restored by writing back a value read earlier.
CancelRestockUnlocked(p) ==
    LET b == cancelOf[p].booking
    IN  /\ pc[p] = "restock"
        /\ pending' = [pending EXCEPT ![p] = avail[order[b].event] + order[b].quantity]
        /\ Goto(p, "cancelCommit")
        /\ UNCHANGED <<inputs, now, rows, locks, outcome, began>>

CancelRestock(p) ==
    LET b == cancelOf[p].booking
        e == order[b].event
    IN  /\ pc[p] = "restock"
        /\ eventLock[e] = Free
        /\ eventLock' = [eventLock EXCEPT ![e] = p]
        /\ pending' = [pending EXCEPT ![p] = avail[e] + order[b].quantity]
        /\ Goto(p, "cancelCommit")
        /\ UNCHANGED <<inputs, now, rows, bookingLock, outcome, began>>

CancelCommit(p) ==
    LET b == cancelOf[p].booking
        e == order[b].event
    IN  /\ pc[p] = "cancelCommit"
        /\ avail' = [avail EXCEPT ![e] = pending[p]]
        /\ bookingStatus' = [bookingStatus EXCEPT ![b] = "CANCELLED"]
        /\ EndTx({p})
        /\ Goto(p, "cancelled")
        /\ UNCHANGED <<inputs, now, status, date, total, outcome>>

CancelRespond(p) ==
    /\ pc[p] = "cancelled"
    /\ Answer(p, "RESTOCKED")
    /\ UNCHANGED <<inputs, now, rows, locks, began, pending>>

CancelStep(p) == \/ CancelMark(p) \/ CancelMissed(p) \/ CancelRestock(p)
                 \/ CancelCommit(p) \/ CancelRespond(p)

--------------------------------------------------------------------------------
(* updateEvent and deleteEvent: a read with its checks, then one autocommitted *)
(* UPDATE by id, which repeats none of the checks                             *)

\* What validation and the read answer at once: a refusal, or the event as it
\* is for a delete of an event already cancelled.
OrganizerAnswer(p) ==
    LET r == edit[p]
    IN  IF r.kind = "update" /\ r.date # 0 /\ r.date <= now THEN "VALIDATION_ERROR"
        ELSE IF status[r.event] = "ABSENT" THEN "EVENT_NOT_FOUND"
        ELSE IF r.by # Owner[r.event] THEN "NOT_OWNER"
        ELSE IF status[r.event] # "CANCELLED" THEN "NONE"
        ELSE IF r.kind = "update" THEN "EVENT_CANCELLED" ELSE "OK"

OrganizerRead(p) ==
    /\ pc[p] = "idle"
    /\ IF OrganizerAnswer(p) = "NONE"
       THEN Goto(p, "write") /\ UNCHANGED outcome
       ELSE Answer(p, OrganizerAnswer(p))
    /\ UNCHANGED <<inputs, now, rows, locks, began, pending>>

UpdateWrite(p) ==
    LET e == edit[p].event
    IN  /\ pc[p] = "write"
        /\ edit[p].kind = "update"
        /\ eventLock[e] = Free
        /\ date' = [date EXCEPT ![e] = IF edit[p].date = 0 THEN @ ELSE edit[p].date]
        /\ Goto(p, "written")
        /\ UNCHANGED <<inputs, now, status, total, avail, bookingStatus, locks,
                       outcome, began, pending>>

DeleteWrite(p) ==
    LET e == edit[p].event
    IN  /\ pc[p] = "write"
        /\ edit[p].kind = "delete"
        /\ eventLock[e] = Free
        /\ status' = [status EXCEPT ![e] = "CANCELLED"]
        /\ Goto(p, "written")
        /\ UNCHANGED <<inputs, now, date, total, avail, bookingStatus, locks,
                       outcome, began, pending>>

\* Cache invalidation and the attendee broadcast change no events or bookings row.
OrganizerRespond(p) ==
    /\ pc[p] = "written"
    /\ Answer(p, "OK")
    /\ UNCHANGED <<inputs, now, rows, locks, began, pending>>

OrganizerStep(p) == UpdateWrite(p) \/ DeleteWrite(p) \/ OrganizerRespond(p)

--------------------------------------------------------------------------------
(* Failures *)

InFlight == {p \in Requests : pc[p] \notin {"idle", "done"}}

\* Any statement may fail (deadlock victim, interactive-transaction timeout,
\* lost connection): the transaction rolls back and the error handler answers
\* 500.  After the commit it is the commit's reply that was lost.
RequestFails(p) ==
    /\ p \in InFlight
    /\ EndTx({p})
    /\ Answer(p, "INTERNAL_ERROR")
    /\ UNCHANGED <<inputs, now, rows>>

\* The server process dies: every request in flight goes unanswered, and the
\* database rolls its open transactions back.
Crash ==
    /\ InFlight # {}
    /\ EndTx(InFlight)
    /\ pc' = [p \in Requests |-> IF p \in InFlight THEN "done" ELSE pc[p]]
    /\ outcome' = [p \in Requests |-> IF p \in InFlight THEN "NO_RESPONSE" ELSE outcome[p]]
    /\ UNCHANGED <<inputs, now, rows>>

--------------------------------------------------------------------------------
Next == \/ Tick
        \/ Crash
        \/ \E e \in Events : CreateEvent(e)
        \/ \E p \in BookRequests : FastPath(p) \/ BookStep(p)
        \/ \E p \in CancelRequests : CancelRead(p) \/ CancelStep(p)
        \/ \E p \in OrganizerRequests : OrganizerRead(p) \/ OrganizerStep(p)
        \/ \E p \in Requests : RequestFails(p)

Spec == Init /\ [][Next]_vars

(***************************************************************************)
(* Who waits for whom, and the cycles PostgreSQL's deadlock detector       *)
(* breaks by failing one of their members.                                 *)
(***************************************************************************)
LockOwner(lock) == IF lock = Free THEN {} ELSE {lock}

WaitsFor(p) ==
    CASE pc[p] = "decrement" /\ Bookable(p) -> LockOwner(eventLock[order[p].event])
      [] pc[p] = "insert"  -> KeyHolders(p)
      [] pc[p] = "mark" /\ bookingStatus[cancelOf[p].booking] = "CONFIRMED" ->
            LockOwner(bookingLock[cancelOf[p].booking])
      [] pc[p] = "restock" -> LockOwner(eventLock[order[cancelOf[p].booking].event])
      [] pc[p] = "write"   -> LockOwner(eventLock[edit[p].event])
      [] OTHER -> {}

Cycles == {S \in SUBSET Requests :
              S # {} /\ \A p \in S : WaitsFor(p) \cap S # {}}

DeadlockVictim(p) == /\ \E S \in Cycles : /\ p \in S
                                          /\ \A T \in Cycles : T \subseteq S => T = S
                     /\ RequestFails(p)

\* A request in flight keeps running (the event loop and the connection pool
\* serve it), and a deadlock is detected (deadlock_timeout).  Nothing makes a
\* request arrive, the clock advance, or a failure happen.
Fairness == /\ \A p \in BookRequests : WF_vars(BookStep(p))
            /\ \A p \in CancelRequests : WF_vars(CancelStep(p))
            /\ \A p \in OrganizerRequests : WF_vars(OrganizerStep(p))
            /\ WF_vars(\E p \in Requests : DeadlockVictim(p))

FairSpec == Spec /\ Fairness

--------------------------------------------------------------------------------
(* Properties *)

BookLabels == {"idle", "begin", "decrement", "diagnose", "insert", "commit",
               "committed", "resolve", "done"}
CancelLabels == {"idle", "mark", "restock", "cancelCommit", "cancelled", "done"}
OrganizerLabels == {"idle", "write", "written", "done"}
Labels == BookLabels \cup CancelLabels \cup OrganizerLabels

BookRefusals == {"FORBIDDEN", "DUPLICATE_BOOKING", "EVENT_NOT_FOUND", "EVENT_CANCELLED",
                 "PAST_EVENT", "SOLD_OUT", "INSUFFICIENT_TICKETS"}

Outcomes == BookRefusals \cup
            {"NONE", "CREATED", "REPLAYED", "RESTOCKED", "BOOKING_NOT_FOUND",
             "ALREADY_CANCELLED", "VALIDATION_ERROR", "NOT_OWNER", "OK",
             "INTERNAL_ERROR", "NO_RESPONSE"}

\* Every variable has its type.
TypeOK ==
    /\ order \in [BookRequests -> Orders]
    /\ cancelOf \in [CancelRequests -> Cancellations]
    /\ edit \in [OrganizerRequests -> Edits]
    /\ now \in Times
    /\ status \in [Events -> {"ABSENT", "UPCOMING", "CANCELLED"}]
    /\ date \in [Events -> Times]
    /\ total \in [Events -> Nat]
    /\ avail \in [Events -> Int]
    /\ bookingStatus \in [BookRequests -> {"NONE", "CONFIRMED", "CANCELLED"}]
    /\ eventLock \in [Events -> BookRequests \cup CancelRequests \cup {Free}]
    /\ bookingLock \in [BookRequests -> CancelRequests \cup {Free}]
    /\ pc \in [Requests -> Labels]
    /\ \A p \in BookRequests : pc[p] \in BookLabels
    /\ \A p \in CancelRequests : pc[p] \in CancelLabels
    /\ \A p \in OrganizerRequests : pc[p] \in OrganizerLabels
    /\ outcome \in [Requests -> Outcomes]
    /\ began \in [Requests -> Times]
    /\ pending \in [Requests -> Int]

\* The promise this module implements: a booking is the request that made it.
Inventory == INSTANCE TicketInventory WITH Bookings <- BookRequests

\* Every step of every interleaving, failure and crash is, on the committed
\* rows, one opening, booking or cancellation of TicketInventory or changes
\* nothing it can see: the two statements of each transaction act as one.
ImplementsInventory == Inventory!Spec

\* What the rest of the system sees of a booking on its event's row.
StageOf(b) == IF Exists(b) THEN bookingStatus[b]
              ELSE IF pc[b] \in {"insert", "commit"} THEN "TAKEN" ELSE "NONE"

Row == INSTANCE EventRow WITH
           Bookings <- BookRequests,
           eventOf <- [b \in BookRequests |-> order[b].event],
           content <- date,
           lock <- [e \in Events |-> IF eventLock[e] \in BookRequests THEN eventLock[e] ELSE Free],
           booking <- [b \in BookRequests |-> StageOf(b)]

\* Between the decrement and the commit or rollback of a booking its event's row
\* stays as it was found, whoever updates or cancels the event meanwhile: what
\* EventBroadcast takes for granted of bookings.
ImplementsEventRow == Row!Spec

\* Zero overselling, and stock and confirmed bookings adding up to the
\* capacity, at every moment, mid-transaction and after a crash included.
InventoryConserved == Inventory!Conserved /\ Inventory!NoOverselling

\* Two rows never share a key, whatever the interleaving of fast path, insert
\* and catch block.
OneBookingPerKey == Inventory!OneBookingPerKey

\* A request in the catch block for P2002 always finds the row that beat it.
ResolveFindsBooking ==
    \A p \in BookRequests : pc[p] = "resolve" => WithKey(order[p].key) # {}

\* A client may act on what it was told: 201 means the row exists; a refusal
\* means this request took no ticket; a replay names a row with the same
\* customer, event, quantity and key.  (500 and silence say nothing.)
AnswersAreTrue ==
    \A p \in BookRequests :
        /\ outcome[p] = "CREATED" => Exists(p)
        /\ outcome[p] \in BookRefusals \cup {"REPLAYED"} => ~Exists(p)
        /\ outcome[p] = "REPLAYED" =>
              \E b \in BookRequests : Exists(b) /\ order[b] = order[p]

\* Of several cancel requests for one booking at most one restocks, and once
\* one has, the booking stays cancelled.
CancelledOnce ==
    \A x, y \in CancelRequests :
        /\ pc[x] = "cancelled" \/ outcome[x] = "RESTOCKED"
        /\ pc[y] \in {"cancelCommit", "cancelled"} \/ outcome[y] = "RESTOCKED"
        /\ cancelOf[x].booking = cancelOf[y].booking
        => /\ x = y
           /\ bookingStatus[cancelOf[x].booking] = "CANCELLED"

\* No row lock is leaked: whoever has one is between the statement that took it
\* and the end of its transaction, on that row.
LocksAreHeld ==
    /\ \A e \in Events : eventLock[e] # Free =>
          \/ \E p \in BookRequests :
                /\ eventLock[e] = p /\ order[p].event = e
                /\ pc[p] \in {"insert", "commit"}
          \/ \E x \in CancelRequests :
                /\ eventLock[e] = x /\ order[cancelOf[x].booking].event = e
                /\ pc[x] = "cancelCommit"
    /\ \A b \in BookRequests : bookingLock[b] # Free =>
          \E x \in CancelRequests :
             /\ bookingLock[b] = x /\ cancelOf[x].booking = b
             /\ pc[x] \in {"restock", "cancelCommit"}

\* The one way to a deadlock: in every cycle of waiting requests a booking that
\* repeats a key waits in its insert for the cancel of the booking with that key,
\* which waits for an event.  Without keys, or without cancels, there is none.
DeadlocksAreRetries ==
    \A S \in Cycles :
        \E p \in S \cap BookRequests, x \in S \cap CancelRequests :
            /\ pc[p] = "insert" /\ pc[x] = "restock"
            /\ order[p].key # NoKey
            /\ order[p].key = order[cancelOf[x].booking].key

\* A booking is only ever committed for an event that is UPCOMING and whose
\* date lies after the start of the transaction, although both are checked
\* two statements earlier and organizers change them meanwhile.
BookedWhileOpen ==
    [][\A b \in BookRequests :
          ~Exists(b) /\ Exists(b)' =>
              LET e == order[b].event
              IN status[e] = "UPCOMING" /\ date[e] > began[b]]_vars

\* A booking is only ever cancelled by a request of the customer who owns it.
CancelledByOwner ==
    [][\A b \in BookRequests :
          bookingStatus[b] = "CONFIRMED" /\ bookingStatus'[b] # "CONFIRMED" =>
              /\ bookingStatus'[b] = "CANCELLED"
              /\ \E x \in CancelRequests :
                    /\ pc[x] = "cancelCommit"
                    /\ cancelOf[x] = [booking |-> b, customer |-> order[b].customer]]_vars

\* Every request that arrived is answered or dies with the server: no lock is
\* leaked, no deadlock outlives the detector.
EveryRequestAnswered ==
    \A p \in Requests : pc[p] \notin {"idle", "done"} ~> pc[p] = "done"

--------------------------------------------------------------------------------
(* The inductive invariant: what the row locks keep true between the         *)
(* statements of a transaction                                               *)

\* An event not created yet has no tickets and no bookings.
AbsentEvents ==
    /\ \A e \in Events : status[e] = "ABSENT" => total[e] = 0 /\ avail[e] = 0
    /\ \A b \in BookRequests : Exists(b) => status[order[b].event] # "ABSENT"

\* A request's row appears at its commit and not before, and its answer is
\* given at its end.
Progress ==
    /\ \A p \in BookRequests : /\ Exists(p) => pc[p] \in {"committed", "done"}
                               /\ pc[p] = "committed" => Exists(p)
    /\ \A p \in Requests : pc[p] # "done" => outcome[p] = "NONE"

\* Between the decrement and the commit the event row is the booking's own: its
\* version is the committed one less the tickets, and the WHERE clause still holds.
BookerOwnsEvent ==
    \A p \in BookRequests :
        pc[p] \in {"insert", "commit"} =>
            LET e == order[p].event
            IN  /\ eventLock[e] = p
                /\ Bookable(p)
                /\ pending[p] = avail[e] - order[p].quantity

\* Between the status change and the commit the booking row is the cancel's own,
\* and still confirmed to everyone else.
CancellerOwnsBooking ==
    \A x \in CancelRequests :
        pc[x] \in {"restock", "cancelCommit"} =>
            LET b == cancelOf[x].booking
            IN  /\ bookingLock[b] = x
                /\ bookingStatus[b] = "CONFIRMED"
                /\ cancelOf[x].customer = order[b].customer

\* Between the increment and the commit so is the event row.
CancellerOwnsEvent ==
    \A x \in CancelRequests :
        pc[x] = "cancelCommit" =>
            LET b == cancelOf[x].booking
                e == order[b].event
            IN  /\ eventLock[e] = x
                /\ pending[x] = avail[e] + order[b].quantity

\* A cancel past its read is for an existing booking of its own customer.
CancelChecked ==
    \A x \in CancelRequests :
        pc[x] = "mark" => /\ Exists(cancelOf[x].booking)
                          /\ cancelOf[x].customer = order[cancelOf[x].booking].customer

\* A key being inserted is no row's, and no other insert's.
InsertedKeysFresh ==
    \A p \in BookRequests :
        pc[p] = "commit" /\ order[p].key # NoKey =>
            /\ WithKey(order[p].key) = {}
            /\ \A r \in BookRequests :
                  pc[r] = "commit" /\ order[r].key = order[p].key => r = p

IInv == /\ TypeOK /\ AbsentEvents /\ Progress
        /\ BookerOwnsEvent /\ CancellerOwnsBooking /\ CancellerOwnsEvent /\ CancelChecked
        /\ InsertedKeysFresh /\ ResolveFindsBooking /\ AnswersAreTrue /\ CancelledOnce

--------------------------------------------------------------------------------
(* What the documents and comments say and the code does not do *)

\* "without dirty reads or deadlocks": no requests wait for each other in a
\* cycle.
NoDeadlock == Cycles = {}

\* A repeated request whose key already names its booking is replayed, never
\* told that the tickets it already holds are gone.
DuplicateIsReplayed ==
    [][\A p \in BookRequests :
          /\ pc[p] = "diagnose"
          /\ \E b \in WithKey(order[p].key) : order[b] = order[p]
          => outcome'[p] \notin {"SOLD_OUT", "INSUFFICIENT_TICKETS"}]_vars
================================================================================
