# Event booking: specifications

TLA+ models of the event-booking backend under `src/`, the TLC configurations
that check them, and TLAPS proofs about them.  Paths below are relative to the
repository (`src/services/...` is the program's source directory).

- [1. The system](#1-the-system)
- [2. Modules and how they correspond to the code](#2-modules-and-how-they-correspond-to-the-code)
- [3. The runs](#3-the-runs)
- [4. Fairness](#4-fairness)
- [5. What is proved](#5-what-is-proved)
- [6. Where the documents and the code part](#6-where-the-documents-and-the-code-part)
- [7. What is not modelled, and what is assumed](#7-what-is-not-modelled-and-what-is-assumed)
- [8. Plan](#8-plan)

## 1. The system

One Node.js process serves HTTP, runs the e-mail worker and sweeps the outbox.
PostgreSQL (through Prisma) holds users, events, bookings and notification
rows; Redis holds the event cache and the BullMQ queue.  Any number of
processes may run; what they share is the database and Redis.

| Component | State | Operations | Module |
|---|---|---|---|
| Booking engine (`services/booking.service.ts`) | `events.availableTickets`, `bookings` rows, row locks | `createBooking`, `cancelBooking` | `BookingEngine`, implementing `TicketInventory` and `EventRow` |
| Event administration (`services/event.service.ts`) | `events` rows | `createEvent`, `updateEvent`, `deleteEvent`, the broadcast to attendees | `BookingEngine` (writes), `EventBroadcast` (fan-out) |
| Event reads and cache (`utils/cache.ts`, `event.service.ts`) | Redis keys `events:detail:*`, `events:list:*` | `get`, `set`, `invalidateEventCache` | `EventCache` |
| Notification pipeline (`jobs/notificationQueue.ts`, `workers/emailWorker.ts`, `services/email.service.ts`) | `notification_logs` rows, BullMQ jobs | enqueue, process, deliver, record | `NotificationPipeline`, implementing `ConfirmationLife`; what a mail says and to whom: `AttendeeMail` |
| Outbox sweep (`services/reconciliation.service.ts`) | none of its own | find stale PENDING rows, enqueue again | `NotificationPipeline` |
| Authentication (`services/auth.service.ts`, `utils/otp.ts`) | `users` rows: owner, `isVerified`, code, expiry, attempts | `register`, `verifyOtp`, `resendOtp`, `login` | `OtpAuth`, implementing `Accounts` |
| Rate limits of the authentication routes (`middleware/rateLimit.middleware.ts`, `routes/auth.routes.ts`) | hits per address, in memory | `authRateLimit`, `otpRateLimit` in front of the services | `AuthLimits` |
| Process lifecycle (`server.ts`) | the server, the timers, the worker, the clients | `main`, `shutdown`, the signal handlers | `ServerLifecycle` |
| Health probe and heartbeat (`routes/health.routes.ts`, `workers/emailWorker.ts`) | the heartbeat key | `GET /health`, `emitHeartbeat`, the worker's stop | `HealthProbe` |
| QR tickets, HTTP layer, configuration | none that the others depend on | | not modelled (section 7) |

How they interact:

- `createBooking` decrements the event's stock, inserts the booking and its
  PENDING notification row in one transaction; after the commit it invalidates
  the cache and enqueues the e-mail without awaiting it.
- `updateEvent` and `deleteEvent` write by id the row whose lock bookings hold.
  `updateEvent` then reads the confirmed bookings and enqueues one job each.
- `register` and `resendOtp` write the user, then a notification row, then
  enqueue.
- The limiters stand before the authentication routes; they know addresses, the
  services know users, and each keeps a clock of its own.
- On a signal the process drains requests, worker and clients, one await after
  the other, racing a ten-second timer.
- The worker delivers what the queue holds and writes the outcome to the row;
  the sweep looks at rows that stay PENDING, without asking the queue.

What is hard, component by component, and what makes it correct:

- **Booking engine.** The check and the decrement are one conditional UPDATE,
  but everything else (why it missed, the insert and its unique index, the
  catch block, the cancel's read, mark and restock) is several statements of
  several transactions at READ COMMITTED, any of which may fail.  Correct means:
  stock and confirmed bookings add up to the capacity at every moment; a key
  names one row; the loser of an insert finds the winner; an answer can be
  relied on; one cancel restocks, and only the owner's; a booking commits only
  for an event still open; nobody waits for ever.
- **Pipeline.** Delivery is not atomic with the row's update, attempts are
  counted by BullMQ and again in the row, jobs stall and run again, and the
  sweep makes second jobs for rows that have one.  Correct means: SENT is true,
  FAILED is exhausted, no confirmation is PENDING where no one looks, and after
  finitely many faults every confirmation the sweep can reach is settled.
- **Authentication.** Every operation reads a row, awaits bcrypt, and writes by
  id without repeating its checks.  Correct means: of racing registrations one
  wins; no stale write takes back a verification or forgets attempts.
- **Cache.** Readers fill after a read that may be older than a write's
  invalidation; the invalidation is a DEL, a SCAN over a moving key space and
  another DEL; each can fail.  Correct means: what was cached at a commit is gone
  at its answer unless Redis refused the first DEL, staleness is bounded by the
  TTL, no request hangs.
- **Broadcast.** Who is an attendee is read after the row was written, in a
  race with open booking transactions.  Correct means: everyone who held tickets
  when the change was written is told; an update is silent about a field only if
  another was written under it.
- **Attendees' mail.** Jobs run in any order, a confirmation reads the event when
  it runs and a broadcast carries it as it was.  Correct means: field by field,
  whoever is promised a change ends up with a mail that shows the last announced
  value or a later one, unless a mail was given up.  A new place or date is promised
  to whoever holds tickets, a new online link to those who held them when it was
  written, since confirmations do not carry it.
- **Rate limits.** Attempts, expiry and two windows wind back at different times.
  Correct means: a lock-out ends, and together they keep a customer out for good
  only where so many wait behind one address that asking for codes uses up its hits.
- **Process.** Signals come twice and at any await; handlers, sweeps and enqueue
  calls outlive what they belong to.  Correct means: nothing a client waits for
  runs on a closed client, exit 0 cuts nothing off, a signal ends the process.
- **Health.** Four reads of four moments.  Correct means: each answer was true
  of some time in the probe's window, and dead workers are forgotten.

The `hazards` of `PROJECT.json` list these at their lines, with the properties
that watch each one, and say of the others why no property does.

## 2. Modules and how they correspond to the code

`PROJECT.json` maps every definition to its lines.  Common conventions: a
request is a process with a program counter `pc[p]`; an action runs from one
`await` to the next, or is one SQL statement where other transactions can see
the difference; `outcome[p]` is the code or status the client gets (`NONE`
before that); operators preceded by "Defect:" are not part of any
specification: each is a plausible bug of the operator after it, kept to show
that the properties notice it.

**`TicketInventory`** (abstract).  Events are opened, a booking takes its
tickets in one step, a cancellation returns them in one step.  No requests,
locks or failures.  This is what the service promises.  It has no run of its own:
every step of `booking` is checked to be one of its steps (`ImplementsInventory`).

**`EventRow`** (abstract).  What bookings and organizers promise each other about
one event's row: a booking takes its tickets from an upcoming event and locks the
row, its transaction ends one way or the other, and nobody writes the row before
that.  `BookingEngine` implements it statement by statement; `EventBroadcast`, which
asks whom an update tells, takes no more of bookings than this
(`ImplementsEventRow` in both).

**`ConfirmationLife`** (abstract).  A booking's confirmation is due from the commit,
then sent or lost, and what is settled is not taken up again.
`NotificationPipeline` implements it with rows, jobs, retries and sweeps,
`AttendeeMail` with a two-step job of its own (`ImplementsLife` in both).

**`Accounts`** (abstract).  An address has one owner for good, its account is
verified by a code sent to it and stays so, and tokens are given for verified
accounts only, to the owner's password or a code of the address.  `OtpAuth`
implements it (`ImplementsAccounts`).

**`TicketConstants`** declares what the promise and its implementation are both
parameterised by (events, customers, keys, capacities, what an order may be),
with the assumptions on it.

**`BookingEngine`** (EXTENDS `TicketConstants`, INSTANCEs `TicketInventory` and
`EventRow`).
`order`, `cancelOf`, `edit` are the validated inputs; `status`, `date`, `total`,
`avail`, `bookingStatus` are the *committed* rows; `eventLock` and `bookingLock`
say which transaction has updated a row and not ended; `pending[p]` is the
`availableTickets` of its uncommitted version.

| Action | Code (`booking.service.ts`, `event.service.ts`) |
|---|---|
| `FastPath` | the idempotency look-up before the transaction |
| `BeginTx`, `Decrement`, `DecrementMisses`, `Diagnose` | `$transaction`, the conditional UPDATE with `NOW()`, and the second SELECT that says why it changed no row |
| `Insert`, `InsertConflicts` | `tx.booking.create` and the outbox row; the unique index waits for an uncommitted row with the same key, then fails or goes on |
| `Commit`, `BookRespond` | the commit, and the rest of the try block |
| `Resolve` | the catch block for P2002 |
| `CancelRead`, `CancelMark`, `CancelMissed`, `CancelRestock`, `CancelCommit`, `CancelRespond` | `cancelBooking`, statement by statement |
| `CreateEvent`, `OrganizerRead`, `UpdateWrite`, `DeleteWrite`, `OrganizerRespond` | the organizers' calls |
| `RequestFails`, `Crash`, `Tick` | any statement failing (500), the process dying, the clock |

Row locking follows PostgreSQL at READ COMMITTED: an UPDATE whose WHERE clause
the committed row does not meet changes nothing and waits for nobody; one that
meets it waits for the lock and evaluates the clause again on the row it is then
given.  `Cycles` are the cycles of the resulting wait-for relation.

**`NotificationPipeline`.**  `status`, `attempts`, `old` are a row's
`deliveryStatus`, `attempts` and whether `createdAt` lies before the sweep's
cutoff; `job` is the queue, a record per slot with the row it was given, the
attempts made, the stalls and the step the worker is at; `toEnqueue` are calls
the server has still to make; `batch` is what running sweeps have read.
`Prepare`, `CreateLog`, `SendAccepted`, `SendFails`, `MarkSent`, `MarkFailed` are
`processEmailJob` and `deliverWithLogging`; `Take`, `Promote` and `JobFails` are
BullMQ's part as the code configures it (3 attempts, backoff); `SweepRead`,
`SweepHandle` are the sweep; `Crash` loses what the process remembers and stalls
its jobs.

**`OtpAuth`.**  `user` is the `users` row of an address, `seen` what a request
read of it before it awaited something, `issued` (history) the codes stored for
an address.  Each of the four operations is a read with its checks (`...Read`)
and a write or a comparison (`RegisterCreate`, `VerifyCount`, `VerifyActivate`,
`ResendWrite`, `LoginCompare`), then `Respond`.

**`EventCache`.**  A row's content is the number of writes it has seen.
`Lookup`, `Read`, `Fill` are the read-through path of `getEventById` and
`listEvents`; `Commit`, `DelDetail`, `Scan`, `DelLists` are a write and
`invalidateEventCache`.  A first DEL that Redis refuses is caught: the lists are
left alone and the request is answered as usual (`skipped`, a history variable,
remembers it, since `AnsweredIsInvalidated` does not speak of such a write).
`Scan(w, k)` is SCAN coming to one key: a key present
throughout is returned, one that comes or goes meanwhile may be or not.

**`EventBroadcast`.**  One event, as its four critical fields (`content`); an
update sets some of them (`wanted`) and announces those it found different from the
row it read (`changed`). `Take`, `EndBooking`, `CancelBooking` are the
booking engine as this module sees it (a transaction that holds the event row);
`UpdateRead`, `UpdateWrite`, `ReadAttendees`, `EnqueueBatch` are `updateEvent`,
`DeleteRead` and `DeleteWrite` are `deleteEvent`.  `jobs` counts the broadcast jobs
of an update for each booking; `customerOf` says whose booking it is.

**`AttendeeMail`** (EXTENDS `EventBroadcast`) composes the broadcast with the
worker.  `version` counts the updates written to the row; of what has been mailed
for a booking, `seen` keeps the newest version shown of each field: a broadcast shows
all four critical fields (`BroadcastFields`), a confirmation all but the online link
(`ConfirmationFields`).  `announcer` is, of each field, the last update that found it
changed.  `Book` and `Update` are the actions of
`EventBroadcast` with what they mean for mail (a confirmation queued, a version
returned); `Render`, `SendConfirmation`, `LoseConfirmation` are a confirmation
job, `SendBroadcast`, `LoseBroadcast` a broadcast job, which shows what its
update returned (`Settle` ends it one way or the other); `CrashAll` is the crash
of the process with what it has not enqueued.

**`ServerLifecycle`.**  `stage` is where `main` is, `pc[s]` where the shutdown of
signal `s` is: `Drained`, `CloseWorker`, `JobsDone`, `DisconnectDatabase`,
`DisconnectRedis`, `ExitCleanly` are its awaits, `ForcedExit` its timer, `Kill` a
signal without a handler, `Fatal` a start that fails.  `detached` is what no one
awaits: a sweep's run, an enqueue call, the handler of a request whose client
hung up.

**`HealthProbe`.**  `Select`, `Ping`, `AskQueue`, `GetHeartbeat` are the reads of
`GET /health`; `EmitHeartbeat`, `DeleteHeartbeat` share one key among all
workers, `Interval` is five seconds passing.  A command to a Redis that is down
waits in the client, as `maxRetriesPerRequest: null` has it.  `failed` and `shown`
(history) are what was down, and up, at some time since a probe began.

**`AuthLimits`.**  `limiter` holds hits and time left of both limiters for one
address; `Route` and `OtpRoute` are the routes of `auth.routes.ts`, whose `Serve...`
are the services of `OtpAuth`, each in one step.  `GiveCode` and `AskForCode` are
a customer who does what is needed, `Stray` the requests that do not help.  A
`Tick` is five minutes; `Restart` empties the limiters, which are given no store.

**`MCProcess`** checks the last three in one run.  They share no state; `subject`,
fixed at the start, says which of them moves, and the others stay as they are.  The
fairness of each is asked of it alone.

`MC...` modules hold the small input sets and the symmetry; `..._proofs` modules
hold the theorems.  Three instances also say what may come together in one
behaviour, since all of it at once is more than can be enumerated: the line-ups
of `MCBookingEngine` (which requests race, a constraint), the `Scenario` of
`MCNotificationPipeline` (how many faults beside which rows), of `MCAttendeeMail`
(which second actor) and of `MCProcess` (how many customers beside how many stray
requests).  They keep
requests and faults from arriving and nothing else: no step they forbid is one that
the fairness of the run asks for.

## 3. The runs

| Run | What it asks | Result |
|---|---|---|
| `booking` | Three line-ups. Three bookings, with a key or without, of two customers, race a cancel for three tickets; or two bookings race two cancels, by either customer, or a cancel and an organizer who cancels or moves the event, for two tickets. Conservation, key uniqueness, the catch block, true answers, one restock, by the owner, commits only while open, no deadlock but a repeated key's against its booking's cancel, refinement of `TicketInventory` and of `EventRow`. | holds |
| `booking_liveness` | Is every request that arrived answered? | holds under fairness |
| `booking_deadlock` | Are there no deadlocks, as the README says? | violated (section 6) |
| `booking_replay` | Is a duplicate always replayed, as a test says? | violated (section 6) |
| `pipeline` | Two jobs for a row, a row without a confirmation, retries, sweeps, up to two faults: are SENT and FAILED true, is PENDING always seen by someone, is what is settled never taken up again, is every confirmation settled unless more rows than the sweep takes wait for it again and again, does every job leave the queue? | holds, the last two under fairness |
| `pipeline_duplicate` | One booking, one e-mail? | violated (section 6) |
| `pipeline_starved` | Is every stale PENDING confirmation found, as the sweep's comment says? | violated under fairness (section 6) |
| `auth` | Two registrations, three verifications, a resend, a login on one address, a code that expires, one failure: one account, tokens for the verified only, no activation without a code sent, no attempt forgotten, refinement of `Accounts`. | holds |
| `cache` | Two readers, two writers, an event key and two list keys, one fault: is what was cached at a commit gone at its answer (but for a refused first DEL), do stale entries go, does no write hang? | holds, the last two under fairness |
| `mail` | A booking and an update of the place or the link, with a second booking, a second update or a delete, one fault and the worker: is everyone who held tickets told, is an update silent only when overtaken, does everyone have, or can expect, a mail with the last announced value of each field promised, and does it arrive? | holds, the last under fairness |
| `mail_twice` | Is a customer told of an update once? | violated (section 6) |
| `process` | *Server:* two signals, two connections, two jobs: is nothing served by closed clients, does exit 0 cut nothing off, does a signal end the process whatever hangs?  *Probe:* is each answer true of some time in its window, are dead workers forgotten, is a probe answered when Redis comes back?  *Limiters:* one customer with many wasted requests, two behind one address with one, or three with none: does a lock-out end, is each verified at last unless again and again three wait together? | holds, the five liveness properties under fairness |

Bounds, and why they are enough for the cases that matter:

- *Requests.*  A race needs two; three booking requests add a third that meets
  the outcome of the first two's race (a fast path after the catch block).
  Requests are used once: a client's retry is another request with the same
  input.  Symmetry permutes requests where no liveness is checked.  The first
  line-up of `booking` always has a request, its retry with the same key and a
  third that uses the key otherwise or none; the second has a cancel by the
  customer who booked beside one by anyone.  The line-ups are a CONSTRAINT, which is
  sound as every property of this run is one of states or of steps.
- *Capacity and quantity.*  A capacity of 2 or 3 with quantities 1 and 2 lets
  the last tickets be fought for, missed with some left (INSUFFICIENT_TICKETS)
  and with none (SOLD_OUT).  `MaxQuantity` stands for the validator's 10.
- *Clock.*  `MaxTime = 1` has a present and a future, which is all that the
  comparisons of an event's date with now and with the transaction's start tell
  apart.  An update then writes the date the event has: in the run it races as a write
  under the lock, and that moved dates do no harm is left to the proofs
  (`BookedOnlyWhileOpen`, `RefinesEventRow`), which hold for every `MaxTime`.
- *Attempts.*  In `pipeline`, `MAX_ATTEMPTS = 2` has a first attempt and a last one,
  which is all that the code compares; the code's 3 is used in
  `pipeline_duplicate`, and the proofs hold for every number.
  `MAX_OTP_ATTEMPTS = 2` in `auth` replaces 5: what matters is that it is reached
  by requests that read before it was.  `process` has the code's 5.
- *Slots, rows, faults.*  Two slots give one row two jobs at once; one fault is
  a crash or a failed call at any step, two let the second hit the recovery from
  the first.  In `pipeline` a confirmation meets two faults, or a job without a row;
  the job without a row meets one fault, after it has left the queue; an OTP's row
  meets a job without a row and a fault.  `SWEEP_TAKE = 1` stands for `take: 50`, so that
  two rows already crowd the sweep and `ConfirmationSettles` is about the rest.
  `DeliveryCap` and
  `JobCap` (2) tell one from more than one.
- *Mail.*  `BATCH_SIZE = 1` with two attendees makes two slices, so that a refused
  one leaves one attendee out and not the other; full slices followed by a
  shorter one are covered by the proofs, which hold for every size.  Two
  fields, a place and a link, with two values each, tell what both mails show from what
  only the broadcast does, and let an update restore what another changed.  Two
  updates meet one attendee in every order, so do an update and a delete; what two
  attendees add to each other is their batches, for which one update is enough.
- *Rate limits.*  The numbers are the code's own: 5 and 20 requests, 5 attempts, a
  window of three ticks, a code of two.  `MaxStray = 6` uses up the attempts and
  the window's hits, and more; retries of what is needed are not bounded.  Three
  customers at one address can keep one another out for ever: each asks for a
  code twice in a window, and five hits are gone.  That is what `VerifiedAtLast`
  excepts (`Crowded`, from the constants: `AsksPerWindow` times the number who wait);
  without the exception TLC finds it violated by three and not by two.  As `app.ts`
  sets no `trust proxy`, all customers behind one proxy share an address.
- *Process and probe.*  Two signals overlap in every pair of awaits; one worker of
  each kind, a TTL of three heartbeats as in the code, one probe, since probes
  write nothing.
- *Lists.*  With two list keys SCAN has a first and a second page.

`CHECK_DEADLOCK FALSE` is set wherever requests are used once: requests and bookings are finite in
number, so such a model comes to rest when all are answered (or the process has ended).  That no request is
stuck before that is what the liveness runs check.

Every property of a passing run has a mutant in `PROJECT.json`: the run with one
operator replaced by its "Defect" finds the property violated.

## 4. Fairness

- `BookingEngine`: weak fairness of each request's next step (the event loop and
  the connection pool serve it, a free lock is given to a waiter) and of
  failing *some* member of a deadlock (`deadlock_timeout`).  Weak fairness
  suffices for lock waits because requests are finite: a lock is finally free
  for good.  No request need arrive, no clock tick, no failure happen.
- `NotificationPipeline`: timers fire, the calls the process has queued are
  made, the interval keeps sweeping, and BullMQ serves jobs in order (strong
  fairness of `Take`: a place among the concurrent jobs is free again and
  again).  The provider may reject for ever, and which outcome a step has is
  never assumed: fairness is of `Work(j)`, the disjunction.
  That the sweep comes to a row is not assumed: a read takes any `SWEEP_TAKE` of the
  rows it could, and a backlog without end is an exception in the property
  (`Backlogged`).
- `EventCache`: Redis expires keys that have a TTL, and a call to Redis is
  answered or errs (the client retries for ever, `maxRetriesPerRequest: null`).
- `AttendeeMail` (`MailFairness`): an update that has written goes on to read the
  attendees and enqueue, and a job ends by delivery or by its last failure.  That
  jobs do end is not assumed out of the blue: `JobsLeave` and `ConfirmationSettles`
  of `NotificationPipeline` show it; that a confirmation is the same thing in both
  is proved (`SettledForGood`).
- `AuthLimits`: time passes; a customer who has no usable code asks for one sooner
  or later (weak), and one who has a code again and again does not let every one
  of them expire unused (strong: each code lives for two ticks only).  Both are
  assumptions about the customer, not about the code, and the property is
  conditional on them.
- `ServerLifecycle`: a timer fires (`ForcedExit`), nothing else: a request, a job or
  a connection may hang for ever.
- `HealthProbe`: intervals pass, a running worker's timer fires within its
  interval, and a read that can be made again and again is made (strong: ioredis
  sends what it has queued whenever it is connected).  Redis and the database may
  stay down; `AnsweredWhenRedisReturns` supposes that Redis does not.
- `OtpAuth` and the `booking` run: safety only.

The scenarios of section 2 forbid arrivals and faults.  Where a fault is one outcome
of a step that fairness asks for, the step has another that stays allowed.
Faults are finitely many (`MaxFaults`).

## 5. What is proved

The proofs hold for every value of the constants that meets the modules' named
assumptions: any sets of events, customers, keys, addresses, codes and rows, any finite
number of requests, jobs and faults, any capacity, attempt limit and batch size.

**`TicketInventory_proofs`.**  The invariant is `TypeOK`, stock not negative,
`Conserved` and key uniqueness.  `Conserved` counts tickets, so it needs that
the tickets of one booking are a finite set with as many elements as its
quantity and are disjoint from the others' (`TicketsCount`, `SoldTicketsFinite`,
`BookSells`, `CancelReturns`).  That only finitely many bookings have been made is
part of the invariant (`FinitelyMade`), so the set of those that may be is any
set, an infinite one included.  Theorems: `TicketsConserved`, `NeverOversold`,
`KeysUnique`.

**`BookingEngine_proofs`.**  None of the properties is inductive: that a commit
conserves the stock depends on nobody having changed the row since the
decrement.  `IInv` says what the locks keep: between decrement and commit the
event row is the booking's own, its WHERE clause still holds and the uncommitted
stock is the committed one less the tickets (`BookerOwnsEvent`), likewise for a
cancel (`CancellerOwnsBooking`, `CancellerOwnsEvent`, `CancelChecked`); a key
being inserted is nobody else's (`InsertedKeysFresh`); a row appears exactly at
its request's commit (`Progress`).  One lemma per action shows that it keeps
`IInv`.  From it: `InductiveInvariant`, `TypeCorrect`, `LoserFindsBooking`,
`AnswersTrue`, `RestockedOnce`, `BookedOnlyWhileOpen`, `CancelledOnlyByOwner`,
and `Refinement`: every step is a step of `TicketInventory` on the committed
rows, or invisible to it.  `StockConserved` and `KeysNameOneBooking` are the
inventory's own theorems carried over the refinement, not proved again.

*Locks and deadlocks.*  `LocksAreHeld` says the converse of what `IInv` says of
locks: not that who is at a statement holds what it needs, but that whatever is
locked is held by a transaction still open (`NoLockLeaks`).  It is inductive with
`TypeOK` and needs each way a transaction can end, a crash included.  With it the
wait-for relation has few edges: who holds an event and waits is a booking in its
insert, who holds a booking and waits is its cancel about to restock.  Following
a cycle from any member, one meets both, and the first waits for the second because
it repeats the key of the booking the second cancels
(`DeadlockNeedsRetryAndCancel`).  This bounds the disagreement `booking_deadlock`
finds: for any number of requests, it is the only deadlock there is.

*The event row.*  `RefinesEventRow` maps the events' locks and the bookings' stages
to `EventRow`: a write by an organizer finds the lock free (`WritersExist` adds that
the event an organizer has read is there).  A consequence in the abstract terms:
`WritesSeeNoOpenBooking`, no write falls into a booking's transaction.
`AttendeeMail_proofs` proves the same refinement of `EventBroadcast`.  The two
theorems are the two sides of one contract: what the broadcast takes for granted
of bookings is what the engine, for any sets of them, keeps.

**`OtpAuth_proofs`.**  A step answers, goes on from a read to a write, or writes
a row; `AnswerKeeps`, `GoesOnKeeps` and `WriteKeeps` say under which conditions
each keeps `IInv`, and the actions are shown to meet them.  The heart is
`WriteKeeps`: whatever the row has become since its writer read it, the write
keeps its owner and its verification.  Theorems: `Invariant`, `OneAccount`,
`TokenVerified`, `ActivationNeedsCode`, `AttemptsKept`.

`RefinesAccounts` needs one thing more, how a request came to be about to answer
(`OnTheWay`): the row a login compares with still has its owner, since owners are
only ever set once, and who is about to be given a token for an activation gave a
stored code.  Then every answer with a token is `GiveToken`, every write is
`Register`, `Reissue`, `Verify` or invisible.  In `Accounts` what entitles to a
token is never taken back (`EntitledStays`), hence `TokensAreEntitled`: whoever holds
a token is entitled to it at any later time, too.

**`NotificationPipeline_proofs`.**  That a row says SENT truly depends on which
row a worker holds between the provider's answer and its write, through crashes
and stalls in between.  `IInv` adds just that: a worker's row is its job's own or
one it created itself (`RowsInHand`), it is at `markSent` only after a delivery
(`AcceptedBeforeSent`), and a row not there was never tried (`AbsentIsUntried`).
Most steps give one queue slot a new record; `SlotKeeps` says which records and
writes keep `IInv`, and one lemma per action shows it is of that kind.
Theorems: `InductiveInvariant`, `SentIsTrue`, `FailedIsTrue`, `PendingIsSeen`,
`PendingHasJob`.

`SettledForGood` is the refinement of `ConfirmationLife`: a confirmation is due while
its row is PENDING or a call, a sweep's batch or a job may still come to it (`Due`).
That this ends for good rests on the sweep: it only ever reads PENDING rows, so
nothing can bring a settled row back, and only a job at its delivery counts one.
`AttendeeMail_proofs` proves the same of its own, simpler confirmations, so that
what its fairness takes from the pipeline is the same life.

**`EventCache_proofs`.**  Whether an old entry survives a write's invalidation
depends on SCAN meeting keys that readers fill meanwhile.  A reader fills once,
so those whose entries were cached at the commit never fill again
(`FillersAreDone`), and during the scan such an entry is still to be come to or
is among the keys returned (`EarlierAreListed`).  A write whose first DEL was refused
never scans, and the theorem leaves it out by name (`skipped`).  Theorems: `Invariant`,
`Invalidated`.

**`AttendeeMail_proofs`, the broadcast.**  The row lock makes everyone who held tickets at
the write a confirmed booking (`OwedAreBooked`), so the read that follows finds
whoever has not cancelled since; a batch moves attendees from those to be told
to those told (`RecipientsUntold`, `OwedAreListed`), and a fault costs one batch at
most, which is a count over finite sets (`BookingsFinite`).  `SilentOnlyIfOvertaken`
is inductive with it: an update that is going to write what differs from the row
without telling anybody has been overtaken by another's write.  Theorems:
`Invariant`, `EveryoneTold`, `SilentOnlyIfOvertaken`, `RefinesEventRow`.

**`AttendeeMail_proofs`, the mail.**  The argument is made for each field.  Whoever
held tickets at the last announced write of it is among the update's recipients.  If
confirmations show the field, whoever was confirmed after that write has one that will
be read late enough (`LaterAreConfirmed`); of the online link nothing is promised to
them (`PromisedTo`), because nothing tells them.  A broadcast that ended was sent or
given up (`SettledAreSent`).  Every step of the composition is a step of `EventBroadcast` or
leaves its variables alone (`RefinesEventBroadcast`), so its invariant carries
over.  Theorems: `MailInvariant`, `EveryoneInformed`, `RefinesEventBroadcast`,
`SettledForGood`.

**`ServerLifecycle_proofs`** (`ServerInv`).  Several shutdowns may be under way at once, and any
of them may be the one that closes something.  `Passed` says what holds once any
of them is past an await (the server is closing, the worker is, no connection or
job is left), and `ClientsOpen` that the clients are open until then.  Theorems:
`Invariant`, `ServedOpen`, `CleanExit`.

**`HealthProbe_proofs`.**  A probe's flags are read at different moments, and what
they tell is over by the time it answers.  `IInv` ties each flag to the history
kept beside it: a service read as in order was in order at some time since the
probe began, one read as out of order was out of order at some time
(`Witnessed`).  A read records the moment it reads in (`WatchRecords`), so each of
the reads keeps this for its own flag, the others for those read before.  Theorems:
`InductiveInvariant`, `FalseAlarmImpossible`, `HealthyIsTrue`, for any number of
probes and workers and any time to live.

Every safety property of a passing run, the refinements among them, is a theorem
here.  The inductive invariants themselves (`IInv` of each module, `MailInv`,
`LocksAreHeld`) were model-checked while they were found; being proved, they are
no longer part of a run.  Each contains, or is proved with, its module's type
invariant.

Only model-checked: the liveness properties (`EveryRequestAnswered`,
`ConfirmationSettles`, `JobsLeave`, `StaleEntriesGo`, `WritesAnswered`,
`ChangeArrives`, `SignalEndsProcess`, `GoneIsForgotten`, `LockoutEnds`,
`VerifiedAtLast`, `AnsweredWhenRedisReturns`), since the prover does not reason
about fairness; `AuthLimits`, whose properties are all of that kind; and the runs
that refute a document.

## 6. Where the documents and the code part

- **Deadlocks exist** (`booking_deadlock`).  `README.md:104` says concurrent
  transactions get a 409 "without dirty reads or deadlocks".  `createBooking`
  locks the event row and then waits, inserting, for whoever has updated the row
  with its key; `cancelBooking` locks that row first and then waits for the event.
  A duplicate whose fast path ran before the original committed, and a cancel of
  the original, wait for each other.  PostgreSQL fails one of them, so
  `EveryRequestAnswered` still holds; the client gets a 500.
- **A duplicate may be refused** (`booking_replay`).  `tests/booking.test.ts:247`
  says concurrent requests with one key resolve to one booking, answered 200 or
  201.  If the first takes the last tickets, the second's decrement misses before
  its insert meets the index: 409 SOLD_OUT.
- **A confirmation may be sent twice** (`pipeline_duplicate`).
  `docs/brain.md:95` speaks of deterministic job ids; `add()` is called without
  one, and the sweep makes a second job for a row whose first is waiting or in
  backoff.
- **The sweep may never find a row** (`pipeline_starved`).  `reconciliation.service.ts:10`
  says the sweep finds any pending notifications that failed to enqueue or got stuck.
  It reads 50 rows in no order and of every type (`:30`), and passes over all but
  confirmations (`:43`): rows nobody enqueues again stay PENDING, and 50 of them can
  be every read, while a confirmation whose enqueue call failed waits.  In the run
  a read takes one row, and one such row is enough.
- **A customer may be told twice** (`mail_twice`).  `docs/brain.md:194` says "all
  unique confirmed attendee emails", `docs/brain.md:100` "exclusively to unique
  confirmed attendees".  `updateEvent` makes one job for each confirmed booking
  (`event.service.ts:204`): whoever has booked twice is sent two mails.

The models have more behaviours that a reader of the documents would not expect.
No property states these, since the statement would be false or nothing promises
it; those the hazards name are found there with their lines.

- A refusal may be imprecise: `booking.service.ts:81` diagnoses "to return the
  precise HTTP error code", but by a second statement (`Diagnose`), which may
  quote a remaining count that covers the request.
- A cancel's fetch takes no lock (`CancelRead`), contrary to the comment at
  `booking.service.ts:253`.  The conditional update makes up for it
  (`CancelledOnce`): the second cancel is told ALREADY_CANCELLED.
- A change may be told to nobody, against `event.service.ts:138`: an update that
  restores what another has changed since it read finds nothing changed.  That it
  happens in no other way is `SilentIsOvertaken`.
- A cancelled event may be updated, against the answer at `event.service.ts:155`:
  the check is on a row read earlier, the write by id (`UpdateRead`,
  `DeleteWrite`, `UpdateWrite`).  It stays cancelled, though (`RefinesEventRow`).
- Broadcasts reach customers who have cancelled meanwhile, where
  `email.service.ts:200` speaks of confirmed attendees: recipients are fixed at the
  update.
- A replaced code may still activate, where `docs/phase2.md:11` says that a resend
  invalidates it: a verification that compared it before the resend marks the account
  verified after it (`VerifyRead`, `ResendWrite`, `VerifyActivate`).
- Who books after a change of the online link is not sent the link
  (`emailWorker.ts:62-77`), and customers who wait behind one address may keep each
  other from ever being verified (section 3).
- The advice to request a new code (`auth.service.ts:121`) may be refused: the
  fifth wrong code uses up the attempts and, with them, the hits of the limiter that
  `resend-otp` shares with `verify-otp`.
- A code may be refused for all of its ten minutes (`email.service.ts:83`): sent by
  the fifth request of a window of fifteen.
- Requests are not always drained, though `server.ts:32` logs so: `close` waits for
  sockets, not for handlers whose client hung up (`HangUp`, then `Drained`).
- A probe made while Redis is down waits in the client, where
  `health.routes.ts:12` says 503.  It is answered when Redis comes back.
- A worker in the server's process is reported dead: `emailWorker.ts:120` speaks
  of worker liveness, but only a standalone worker starts a heartbeat.
- A SENT row may turn PENDING by a second job, attempts in flight together may pass
  the OTP limit, a resend may leave a code on an account verified meanwhile, a
  confirmation may be of a booking cancelled meanwhile, and `deleteEvent` tells nobody at all.

## 7. What is not modelled, and what is assumed

- QR tickets: a pure signature.  HTTP routing, RBAC, validation, error mapping:
  stateless checks whose result is the input sets.  Configuration, logging, the
  API document: no state the properties depend on.  Templates count as the
  critical fields they show and their version, the choice of provider as part of a delivery's
  outcome.
- The general limit of 3000 requests a minute on `/api` is left out of
  `AuthLimits`; express-rate-limit, BullMQ, ioredis and PostgreSQL are modelled
  from how the code configures and uses them.
- Paging: `EventCache` has a list as one value.  How pages of one walk fit
  together (ties of `eventDate`, shifts, a total of another moment) is left out; the
  repository promises nothing about it.
- Seeding, migrations and the load-test scripts are not part of the running
  system.
- `bookingReference` and the QR token are taken to be unique when drawn; the code
  does not retry a collision, which is one of the ways `RequestFails`.
- CHECK constraints are not relied on: `prisma db push` does not create them.
- `createEvent`'s validation and insert are one step; the two SELECTs by which
  Prisma reads a booking and its event at the head of a cancel are one step.
- A list's `total`, counted by a second query, is left out of `EventCache`.
- `addBulk` is atomic (BullMQ sends one transaction).

## 8. Plan

In order of importance; done but for what is marked as left.

1. `TicketInventory`, `BookingEngine`, the refinement between them, their proofs.
2. `NotificationPipeline` with the sweep: safety, liveness, proofs.
3. `OtpAuth` and its proofs.
4. `EventCache` and its proofs.
5. `EventBroadcast`, `AttendeeMail` (the composition with the worker), their proofs.
6. `ServerLifecycle` and `HealthProbe` and their proofs.
7. `AuthLimits`.
8. Left: pages of the event list, as a walk that races organizers.
9. `EventRow`, `ConfirmationLife` and `Accounts`: what the components promise each
   other, and the proofs that both sides of each contract keep it.
10. Left: `AuthLimits` over `OtpAuth`'s interleavings, where requests that were
   admitted together are counted one after the other; and safety lemmas of
   `AuthLimits` (what a window's hits bound).
