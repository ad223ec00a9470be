------------------------------- MODULE EventCache -------------------------------
(***************************************************************************)
(* The read-through cache of events in Redis: getEventById and listEvents  *)
(* of event.service.ts fill it, and every write of an events row (by       *)
(* event.service.ts or booking.service.ts) invalidates it after its commit *)
(* with invalidateEventCache of cache.ts.                                  *)
(*                                                                         *)
(* The content of a row is the number of writes it has seen.               *)
(***************************************************************************)
EXTENDS Integers, FiniteSets

CONSTANTS Events,      \* an event is also the key events:detail:<id>
          Lists,       \* the keys events:list:<query>
          Readers,     \* GET /events and GET /events/:id calls
          Writers,     \* requests that write an events row
          NoEntry,
          MaxFaults    \* bound: Redis errors and crashes

Keys == Events \cup Lists

ASSUME KeysDistinct == Events \cap Lists = {} /\ Readers \cap Writers = {}
ASSUME FaultsNatural == MaxFaults \in Nat

VARIABLES
    version,   \* the writes each events row has seen, 0 if there is no such row
    cache,     \* Redis
    key,       \* the key each reader asks for
    got,       \* what a reader has read from the database
    target,    \* the row each writer writes
    toScan,    \* list keys the writer's SCAN has not come to
    found,     \* list keys it has returned
    earlier,   \* history: the entries in the cache when the writer committed
    skipped,   \* history: writers whose first DEL was answered with an error
    pc, outcome,
    faults

readerVars == <<key, got>>
writerVars == <<target, toScan, found, earlier, skipped>>
vars == <<version, cache, readerVars, writerVars, pc, outcome, faults>>

Init == /\ version = [e \in Events |-> 0]
        /\ cache = [k \in Keys |-> NoEntry]
        /\ key \in [Readers -> Keys]
        /\ got = [r \in Readers |-> NoEntry]
        /\ target \in [Writers -> Events]
        /\ toScan = [w \in Writers |-> {}]
        /\ found = [w \in Writers |-> {}]
        /\ earlier = [w \in Writers |-> {}]
        /\ skipped = {}
        /\ pc = [p \in Readers \cup Writers |-> "idle"]
        /\ outcome = [p \in Readers \cup Writers |-> "NONE"]
        /\ faults = 0

Goto(p, label) == pc' = [pc EXCEPT ![p] = label]

Answer(p, reply) == /\ pc' = [pc EXCEPT ![p] = "done"]
                    /\ outcome' = [outcome EXCEPT ![p] = reply]

Fault == faults < MaxFaults /\ faults' = faults + 1

Cached(k) == cache[k] # NoEntry

Remove(S) == cache' = [k \in Keys |-> IF k \in S THEN NoEntry ELSE cache[k]]

--------------------------------------------------------------------------------
(* getEventById and listEvents *)

\* The rows a key shows, as they are now.  (A list also shows a total, counted
\* by a second query, which may see a later write than the page does.)
Shown(k) == IF k \in Events THEN {k} ELSE Events
Current(k) == [e \in Shown(k) |-> version[e]]

\* cacheService.get: a hit is the answer; an error is logged and a miss.
Lookup(r) ==
    /\ pc[r] = "idle"
    /\ \/ Cached(key[r]) /\ Answer(r, "OK") /\ UNCHANGED faults
       \/ ~Cached(key[r]) /\ Goto(r, "read") /\ UNCHANGED <<outcome, faults>>
       \/ Fault /\ Goto(r, "read") /\ UNCHANGED outcome
    /\ UNCHANGED <<version, cache, readerVars, writerVars>>

\* The database is read; that there is no such event is not cached.
Read(r) ==
    /\ pc[r] = "read"
    /\ IF key[r] \in Events /\ version[key[r]] = 0
       THEN Answer(r, "EVENT_NOT_FOUND") /\ UNCHANGED got
       ELSE /\ got' = [got EXCEPT ![r] = Current(key[r])]
            /\ Goto(r, "fill")
            /\ UNCHANGED outcome
    /\ UNCHANGED <<version, cache, key, writerVars, faults>>

\* Defect: the entry is set without EX.
FillForever(r) ==
    /\ pc[r] = "fill"
    /\ cache' = [cache EXCEPT ![key[r]] = [rows |-> got[r], by |-> r, expires |-> FALSE]]
    /\ Answer(r, "OK")
    /\ got' = [got EXCEPT ![r] = NoEntry]
    /\ UNCHANGED <<version, key, writerVars, faults>>

\* cacheService.set with a TTL, whatever happened since the read; an error is logged.
Fill(r) ==
    /\ pc[r] = "fill"
    /\ \/ /\ cache' = [cache EXCEPT ![key[r]] = [rows |-> got[r], by |-> r, expires |-> TRUE]]
          /\ UNCHANGED faults
       \/ Fault /\ UNCHANGED cache
    /\ Answer(r, "OK")
    /\ got' = [got EXCEPT ![r] = NoEntry]
    /\ UNCHANGED <<version, key, writerVars>>

\* The TTL of an entry is over.
Expire(k) ==
    /\ Cached(k) /\ cache[k].expires
    /\ Remove({k})
    /\ UNCHANGED <<version, readerVars, writerVars, pc, outcome, faults>>

--------------------------------------------------------------------------------
(* A write and invalidateEventCache *)

\* The write commits.  createEvent invalidates the lists alone, the others the
\* event's own entry first.
Commit(w) ==
    LET e == target[w]
    IN  /\ pc[w] = "idle"
        /\ version' = [version EXCEPT ![e] = @ + 1]
        /\ earlier' = [earlier EXCEPT ![w] =
                          {cache[k].by : k \in {k \in Keys : Cached(k) /\ e \in Shown(k)}}]
        /\ IF version[e] = 0
           THEN Goto(w, "scan") /\ toScan' = [toScan EXCEPT ![w] = Lists]
           ELSE Goto(w, "delDetail") /\ UNCHANGED toScan
        /\ UNCHANGED <<cache, readerVars, target, found, skipped, outcome, faults>>

\* redis.del of the event's own key.  An error is caught: the lists are left
\* as they are and the request is answered as if nothing had happened.
DelDetail(w) ==
    /\ pc[w] = "delDetail"
    /\ \/ /\ Remove({target[w]})
          /\ Goto(w, "scan")
          /\ toScan' = [toScan EXCEPT ![w] = Lists]
          /\ UNCHANGED <<skipped, outcome, faults>>
       \/ /\ Fault
          /\ Answer(w, "OK")
          /\ skipped' = skipped \cup {w}
          /\ UNCHANGED <<cache, toScan>>
    /\ UNCHANGED <<version, readerVars, target, found, earlier>>

\* SCAN comes to key k: a key that is there from its start to its end is
\* returned, one that comes or goes meanwhile may be or not.
Scan(w, k) ==
    /\ pc[w] = "scan"
    /\ k \in toScan[w]
    /\ toScan' = [toScan EXCEPT ![w] = @ \ {k}]
    /\ found' = [found EXCEPT ![w] = IF Cached(k) THEN @ \cup {k} ELSE @]
    /\ UNCHANGED <<version, cache, readerVars, target, earlier, skipped, pc, outcome, faults>>

\* Defect: the first page of the scan is taken for all of it.
DelListsFirstPage(w) ==
    /\ pc[w] = "scan"
    /\ toScan[w] # Lists
    /\ Remove(found[w])
    /\ found' = [found EXCEPT ![w] = {}]
    /\ Answer(w, "OK")
    /\ UNCHANGED <<version, readerVars, target, toScan, earlier, skipped, faults>>

\* Defect: an error of the last DEL is swallowed by the listener, and the
\* promise the request awaits is never resolved.
DelListsHangs(w) ==
    /\ pc[w] = "scan"
    /\ toScan[w] = {}
    /\ \/ Remove(found[w]) /\ Answer(w, "OK") /\ UNCHANGED faults
       \/ Fault /\ Goto(w, "hung") /\ UNCHANGED <<cache, outcome>>
    /\ found' = [found EXCEPT ![w] = {}]
    /\ UNCHANGED <<version, readerVars, target, toScan, earlier, skipped>>

\* The stream's end event: one DEL of all the keys returned.
DelLists(w) ==
    /\ pc[w] = "scan"
    /\ toScan[w] = {}
    /\ Remove(found[w])
    /\ found' = [found EXCEPT ![w] = {}]
    /\ Answer(w, "OK")
    /\ UNCHANGED <<version, readerVars, target, toScan, earlier, skipped, faults>>

Write(w) == DelDetail(w) \/ (\E k \in Lists : Scan(w, k)) \/ DelLists(w)

\* The server dies.  An error of the SCAN or of the last DEL is one way: it is
\* nobody's to catch, and main exits on an unhandled rejection.
Crash ==
    /\ Fault
    /\ pc' = [p \in DOMAIN pc |-> IF pc[p] = "idle" THEN "idle" ELSE "done"]
    /\ outcome' = [p \in DOMAIN pc |->
                      IF pc[p] \in {"idle", "done"} THEN outcome[p] ELSE "NO_RESPONSE"]
    /\ got' = [r \in Readers |-> NoEntry]
    /\ toScan' = [w \in Writers |-> {}]
    /\ found' = [w \in Writers |-> {}]
    /\ UNCHANGED <<version, cache, key, target, earlier, skipped>>

Next == \/ \E r \in Readers : Lookup(r) \/ Read(r) \/ Fill(r)
        \/ \E w \in Writers : Commit(w) \/ Write(w)
        \/ \E k \in Keys : Expire(k)
        \/ Crash

Spec == Init /\ [][Next]_vars

\* Redis expires what has a TTL and answers what it is asked, if with an error.
Fairness == /\ \A k \in Keys : WF_vars(Expire(k))
            /\ \A w \in Writers : WF_vars(Write(w))

FairSpec == Spec /\ Fairness

--------------------------------------------------------------------------------
(* Properties *)

\* The content of key k: of an event that exists, or of a list.
Content(k, rows) == rows \in [Shown(k) -> Nat] /\ (k \in Events => rows[k] > 0)

Entry(k, entry) == /\ entry \in [rows : {entry.rows}, by : Readers, expires : BOOLEAN]
                   /\ Content(k, entry.rows)

\* Every variable has its type; no entry says that an event does not exist.
TypeOK ==
    /\ version \in [Events -> Nat]
    /\ DOMAIN cache = Keys /\ DOMAIN got = Readers
    /\ \A k \in Keys : Cached(k) => Entry(k, cache[k])
    /\ key \in [Readers -> Keys]
    /\ \A r \in Readers : got[r] = NoEntry \/ Content(key[r], got[r])
    /\ target \in [Writers -> Events]
    /\ toScan \in [Writers -> SUBSET Lists]
    /\ found \in [Writers -> SUBSET Lists]
    /\ earlier \in [Writers -> SUBSET Readers]
    /\ skipped \subseteq Writers
    /\ pc \in [Readers \cup Writers -> {"idle", "read", "fill", "delDetail", "scan", "done"}]
    /\ outcome \in [Readers \cup Writers ->
                       {"NONE", "OK", "EVENT_NOT_FOUND", "NO_RESPONSE"}]
    /\ faults \in 0..MaxFaults

Stale(k) == Cached(k) /\ cache[k].rows # Current(k)

\* Once a write is answered no entry is left that was cached when it committed,
\* however other readers and writers interleave with its scan, unless Redis
\* answered its first DEL with an error: then it is answered all the same.  (A
\* reader that read before the commit may still fill in the old row after it.)
AnsweredIsInvalidated ==
    \A w \in Writers, k \in Keys :
        outcome[w] = "OK" /\ w \notin skipped /\ Cached(k) /\ target[w] \in Shown(k) =>
            cache[k].by \notin earlier[w]

\* A stale entry does not stay: late fills, lost invalidations and crashes cost
\* a TTL and no more.
StaleEntriesGo == \A k \in Keys : Stale(k) ~> ~Stale(k)

\* A request whose write has committed is answered or dies with the server,
\* whichever call to Redis fails.
WritesAnswered == \A w \in Writers : pc[w] \notin {"idle", "done"} ~> pc[w] = "done"

--------------------------------------------------------------------------------
(* The inductive invariant: where an entry cached before a commit may still be *)

\* A reader about to fill has rows to fill in; what it has read of an event
\* exists, and so does what is cached.
FillsExist ==
    /\ \A r \in Readers :
          pc[r] = "fill" => /\ Content(key[r], got[r])
                            /\ key[r] \in Events => version[key[r]] > 0
    /\ \A k \in Events : Cached(k) => version[k] > 0

\* Whose entry is or was in the cache is done, and will not fill again.
FillersAreDone ==
    /\ \A k \in Keys : Cached(k) => pc[cache[k].by] = "done"
    /\ \A w \in Writers : \A r \in earlier[w] : pc[r] = "done"

\* During the scan an entry cached before the commit is a list's that the scan
\* has still to come to or has returned.
EarlierAreListed ==
    \A w \in Writers, k \in Keys :
        pc[w] = "scan" /\ Cached(k) /\ target[w] \in Shown(k) /\ cache[k].by \in earlier[w] =>
            k \in toScan[w] \cup found[w]

\* A request is answered at its end.
AnsweredLast == \A p \in Readers \cup Writers : pc[p] # "done" => outcome[p] = "NONE"

IInv == /\ TypeOK /\ FillsExist /\ FillersAreDone /\ EarlierAreListed
        /\ AnsweredLast /\ AnsweredIsInvalidated
================================================================================
