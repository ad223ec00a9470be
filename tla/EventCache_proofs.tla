---------------------------- MODULE EventCache_proofs ----------------------------
(***************************************************************************)
(* Proofs about EventCache, for any sets of keys, readers and writers and  *)
(* any number of faults.  The invariant is IInv: a reader fills once, so   *)
(* whoever's entry was cached at a write's commit never fills again, and   *)
(* the scan of that write has the entry before it or in what it returned.  *)
(***************************************************************************)
EXTENDS EventCache, TLAPS

\* A reader is no writer, and what it asks for is a key.
LEMMA Kinds ==
    ASSUME TypeOK
    PROVE  /\ \A r \in Readers : r \notin Writers /\ key[r] \in Keys
           /\ \A w \in Writers : target[w] \in Events /\ target[w] \notin Lists
           /\ Lists \subseteq Keys /\ Events \subseteq Keys
BY KeysDistinct DEF TypeOK, Keys

\* A fault is counted.
LEMMA FaultCounted ==
    ASSUME TypeOK, Fault
    PROVE  faults' \in 0..MaxFaults
BY FaultsNatural DEF TypeOK, Fault

\* An entry names a reader.
LEMMA EntryBy ==
    ASSUME TypeOK
    PROVE  /\ \A k \in Keys : Cached(k) => cache[k].by \in Readers
           /\ \A w \in Writers : earlier[w] \subseteq Readers
BY DEF TypeOK, Entry

(***************************************************************************)
(* Steps that put nothing into the cache                                   *)
(***************************************************************************)

\* No row is written, nothing is cached and what a scan must find stays: entries
\* go, requests move on, and a request only moves to a fill with rows.
LEMMA EntriesGoKeeps ==
    ASSUME IInv, TypeOK', UNCHANGED <<version, key, target, earlier>>,
           \A k \in Keys : cache'[k] = cache[k] \/ cache'[k] = NoEntry,
           \A r \in Readers : pc[r] = "done" => pc'[r] = "done",
           \A r \in Readers : pc'[r] = "fill" =>
               \/ pc[r] = "fill" /\ got'[r] = got[r]
               \/ /\ Content(key[r], got'[r])
                  /\ key[r] \in Events => version[key[r]] > 0,
           \A w \in Writers, k \in Keys :
               pc'[w] = "scan" /\ Cached(k)' /\ target[w] \in Shown(k)
                   /\ cache[k].by \in earlier[w] => k \in toScan'[w] \cup found'[w],
           \A w \in Writers, k \in Keys :
               outcome'[w] = "OK" /\ w \notin skipped' /\ Cached(k)' /\ target[w] \in Shown(k) =>
                   cache[k].by \notin earlier[w],
           \A p \in Readers \cup Writers : pc'[p] # "done" => outcome'[p] = "NONE"
    PROVE  IInv'
<1> USE DEF IInv
<1>1. \A k \in Keys : Cached(k)' => Cached(k) /\ cache'[k] = cache[k]
  BY DEF Cached
<1>2. \A k : Shown(k)' = Shown(k)
  BY DEF Shown
<1>3. FillsExist'
  BY <1>1, <1>2, Kinds DEF FillsExist
<1>4. FillersAreDone'
  BY <1>1, EntryBy DEF FillersAreDone
<1>5. EarlierAreListed'
  BY <1>1, <1>2 DEF EarlierAreListed
<1>6. AnsweredIsInvalidated'
  BY <1>1, <1>2 DEF AnsweredIsInvalidated
<1>7. AnsweredLast'
  BY DEF AnsweredLast
<1> QED
  BY <1>3, <1>4, <1>5, <1>6, <1>7

\* Removing keys leaves the others' entries as they are.
LEMMA RemoveTyped ==
    ASSUME TypeOK, NEW S, Remove(S)
    PROVE  /\ DOMAIN cache' = Keys
           /\ \A k \in Keys : cache'[k] = IF k \in S THEN NoEntry ELSE cache[k]
           /\ \A k \in Keys : cache'[k] = cache[k] \/ cache'[k] = NoEntry
           /\ \A k \in Keys : Cached(k)' => cache'[k] = cache[k] /\ Cached(k) /\ k \notin S
BY DEF Remove, Cached

\* A reader looks the key up: it is answered or goes on to the database.
LEMMA LookupKeeps ==
    ASSUME IInv, NEW r \in Readers, Lookup(r)
    PROVE  IInv'
<1> USE DEF IInv
<1>1. /\ TypeOK /\ r \notin Writers /\ faults' \in 0..MaxFaults
      /\ UNCHANGED <<version, cache, key, got, target, toScan, found, earlier, skipped>>
  BY Kinds, FaultCounted DEF Lookup, readerVars, writerVars, TypeOK
<1>2. TypeOK'
  BY <1>1 DEF Lookup, TypeOK, Goto, Answer, Cached
<1>3. /\ \A p \in Readers \cup Writers : p # r => pc'[p] = pc[p] /\ outcome'[p] = outcome[p]
      /\ pc[r] = "idle" /\ pc'[r] \in {"read", "done"}
      /\ pc'[r] # "done" => outcome'[r] = outcome[r]
  BY <1>1 DEF Lookup, TypeOK, Goto, Answer
<1> QED
  BY <1>1, <1>2, <1>3, EntriesGoKeeps DEF Cached, EarlierAreListed, AnsweredLast, AnsweredIsInvalidated

\* A reader reads rows that are there, or is told they are not.
LEMMA ReadKeeps ==
    ASSUME IInv, NEW r \in Readers, Read(r)
    PROVE  IInv'
<1> USE DEF IInv
<1>1. /\ TypeOK /\ r \notin Writers /\ key[r] \in Keys /\ pc[r] = "read"
      /\ UNCHANGED <<version, cache, key, target, toScan, found, earlier, skipped, faults>>
  BY Kinds DEF Read, writerVars
<1>2. ~(key[r] \in Events /\ version[key[r]] = 0) => Content(key[r], Current(key[r]))
  <2>1. Current(key[r]) \in [Shown(key[r]) -> Nat]
    BY <1>1 DEF Current, Shown, TypeOK
  <2>2. key[r] \in Events => Current(key[r])[key[r]] = version[key[r]]
                            /\ version[key[r]] \in Nat
    BY <1>1 DEF Current, Shown, TypeOK
  <2> QED
    BY <2>1, <2>2 DEF Content
<1>3. /\ \A p \in Readers \cup Writers : p # r => pc'[p] = pc[p] /\ outcome'[p] = outcome[p]
      /\ \A q \in Readers : q # r => got'[q] = got[q]
      /\ \/ pc'[r] = "done" /\ got'[r] = got[r]
         \/ /\ pc'[r] = "fill" /\ got'[r] = Current(key[r]) /\ outcome'[r] = outcome[r]
            /\ ~(key[r] \in Events /\ version[key[r]] = 0)
  BY <1>1 DEF Read, TypeOK, Goto, Answer
<1>4. TypeOK'
  <2>1. /\ \A q \in Readers : got'[q] = NoEntry \/ Content(key[q], got'[q])
        /\ DOMAIN got' = Readers
    BY <1>1, <1>2, <1>3 DEF TypeOK, Read
  <2>2. /\ pc' \in [Readers \cup Writers ->
                       {"idle", "read", "fill", "delDetail", "scan", "done"}]
        /\ outcome' \in [Readers \cup Writers ->
                       {"NONE", "OK", "EVENT_NOT_FOUND", "NO_RESPONSE"}]
    BY <1>1 DEF Read, TypeOK, Goto, Answer
  <2> QED
    BY <1>1, <2>1, <2>2 DEF TypeOK, Cached, Shown
<1>5. pc'[r] = "fill" => /\ Content(key[r], got'[r])
                         /\ key[r] \in Events => version[key[r]] > 0
  BY <1>1, <1>2, <1>3 DEF TypeOK
<1> QED
  BY <1>1, <1>3, <1>4, <1>5, EntriesGoKeeps DEF Cached, EarlierAreListed, AnsweredLast, AnsweredIsInvalidated

\* An entry's TTL is over.
LEMMA ExpireKeeps ==
    ASSUME IInv, NEW k \in Keys, Expire(k)
    PROVE  IInv'
<1> USE DEF IInv
<1>1. /\ TypeOK /\ Remove({k})
      /\ UNCHANGED <<version, key, got, target, toScan, found, earlier, skipped, pc, outcome, faults>>
  BY DEF Expire, readerVars, writerVars
<1>2. TypeOK'
  BY <1>1, RemoveTyped DEF TypeOK, Cached
<1> QED
  BY <1>1, <1>2, RemoveTyped, EntriesGoKeeps DEF EarlierAreListed, AnsweredLast, AnsweredIsInvalidated

\* The event's own key is deleted, or nothing is.
LEMMA DelDetailKeeps ==
    ASSUME IInv, NEW w \in Writers, DelDetail(w)
    PROVE  IInv'
<1> USE DEF IInv
<1>1. /\ TypeOK /\ pc[w] = "delDetail" /\ w \notin Readers
      /\ UNCHANGED <<version, key, got, target, found, earlier>>
  BY Kinds DEF DelDetail, readerVars
<1>2. CASE /\ Remove({target[w]})
           /\ Goto(w, "scan")
           /\ toScan' = [toScan EXCEPT ![w] = Lists]
           /\ UNCHANGED <<skipped, outcome, faults>>
  <2>1. TypeOK'
    BY <1>1, <1>2, RemoveTyped DEF TypeOK, Goto, Cached
  <2>2. /\ \A p \in Readers \cup Writers : p # w => pc'[p] = pc[p]
        /\ \A v \in Writers : toScan'[v] = IF v = w THEN Lists ELSE toScan[v]
    BY <1>1, <1>2 DEF TypeOK, Goto
  <2>3. \A k \in Keys : Cached(k)' /\ target[w] \in Shown(k) => k \in Lists
    BY <1>1, <1>2, RemoveTyped DEF Shown, Keys
  <2> QED
    BY <1>1, <1>2, <2>1, <2>2, <2>3, RemoveTyped, EntriesGoKeeps
       DEF EarlierAreListed, AnsweredLast, AnsweredIsInvalidated
<1>3. CASE /\ Fault
           /\ Answer(w, "OK")
           /\ skipped' = skipped \cup {w}
           /\ UNCHANGED <<cache, toScan>>
  <2>1. TypeOK'
    BY <1>1, <1>3, FaultCounted DEF TypeOK, Answer, Cached
  <2>2. \A p \in Readers \cup Writers :
           /\ pc'[p] = IF p = w THEN "done" ELSE pc[p]
           /\ outcome'[p] = IF p = w THEN "OK" ELSE outcome[p]
    BY <1>1, <1>3 DEF TypeOK, Answer
  <2> QED
    BY <1>1, <1>3, <2>1, <2>2, EntriesGoKeeps
       DEF Cached, EarlierAreListed, AnsweredLast, AnsweredIsInvalidated
<1> QED
  BY <1>2, <1>3 DEF DelDetail

\* The scan comes to a key and returns it if it is there.
LEMMA ScanKeeps ==
    ASSUME IInv, NEW w \in Writers, NEW k \in Lists, Scan(w, k)
    PROVE  IInv'
<1> USE DEF IInv
<1>1. /\ TypeOK /\ k \in toScan[w]
      /\ UNCHANGED <<version, cache, key, got, target, earlier, skipped, pc, outcome, faults>>
  BY DEF Scan, readerVars
<1>2. /\ \A v \in Writers : toScan'[v] = IF v = w THEN toScan[w] \ {k} ELSE toScan[v]
      /\ \A v \in Writers : found'[v] = IF v = w /\ Cached(k) THEN found[w] \cup {k} ELSE found[v]
  BY <1>1 DEF Scan, TypeOK
<1>3. TypeOK'
  BY <1>1 DEF Scan, TypeOK, Cached
<1> QED
  BY <1>1, <1>2, <1>3, EntriesGoKeeps DEF Cached, EarlierAreListed, AnsweredLast, AnsweredIsInvalidated

\* What was returned is deleted: after it nothing is left of what was cached at
\* the commit.
LEMMA DelListsKeeps ==
    ASSUME IInv, NEW w \in Writers, DelLists(w)
    PROVE  IInv'
<1> USE DEF IInv
<1>1. /\ TypeOK /\ pc[w] = "scan" /\ toScan[w] = {} /\ w \notin Readers
      /\ Remove(found[w])
      /\ UNCHANGED <<version, key, got, target, toScan, earlier, skipped, faults>>
  BY Kinds DEF DelLists, readerVars
<1>2. \A p \in Readers \cup Writers :
         /\ pc'[p] = IF p = w THEN "done" ELSE pc[p]
         /\ outcome'[p] = IF p = w THEN "OK" ELSE outcome[p]
  BY <1>1 DEF DelLists, TypeOK, Answer
<1>3. \A v \in Writers : found'[v] = IF v = w THEN {} ELSE found[v]
  BY <1>1 DEF DelLists, TypeOK
<1>4. TypeOK'
  BY <1>1, RemoveTyped DEF DelLists, TypeOK, Answer, Cached
<1>5. \A k \in Keys : Cached(k)' /\ target[w] \in Shown(k) => cache[k].by \notin earlier[w]
  BY <1>1, RemoveTyped DEF EarlierAreListed
<1> QED
  BY <1>1, <1>2, <1>3, <1>4, <1>5, RemoveTyped, EntriesGoKeeps
     DEF EarlierAreListed, AnsweredLast, AnsweredIsInvalidated

\* The server dies: nobody scans any more and nobody is answered OK.
LEMMA CrashKeeps ==
    ASSUME IInv, Crash
    PROVE  IInv'
<1> USE DEF IInv
<1>1. /\ TypeOK /\ faults' \in 0..MaxFaults
      /\ UNCHANGED <<version, cache, key, target, earlier, skipped>>
      /\ DOMAIN pc = Readers \cup Writers
  BY FaultCounted DEF Crash, TypeOK
<1>2. \A p \in Readers \cup Writers :
         /\ pc'[p] = IF pc[p] = "idle" THEN "idle" ELSE "done"
         /\ outcome'[p] = IF pc[p] \in {"idle", "done"} THEN outcome[p] ELSE "NO_RESPONSE"
  BY <1>1 DEF Crash
<1>3. TypeOK'
  BY <1>1 DEF Crash, TypeOK, Cached
<1> QED
  BY <1>1, <1>2, <1>3, EntriesGoKeeps DEF Cached, EarlierAreListed, AnsweredLast, AnsweredIsInvalidated

(***************************************************************************)
(* The fill and the commit                                                 *)
(***************************************************************************)

\* A reader's entry is nobody's earlier one: it was not done at their commits.
LEMMA FillKeeps ==
    ASSUME IInv, NEW r \in Readers, Fill(r)
    PROVE  IInv'
<1> USE DEF IInv
<1>1. /\ TypeOK /\ r \notin Writers /\ key[r] \in Keys /\ pc[r] = "fill"
      /\ UNCHANGED <<version, key, target, toScan, found, earlier, skipped>>
      /\ faults' \in 0..MaxFaults
  BY Kinds, FaultCounted DEF Fill, writerVars, TypeOK
<1>2. /\ \A p \in Readers \cup Writers :
             /\ pc'[p] = IF p = r THEN "done" ELSE pc[p]
             /\ outcome'[p] = IF p = r THEN "OK" ELSE outcome[p]
      /\ \A q \in Readers : q # r => got'[q] = got[q]
      /\ got'[r] = NoEntry
  BY <1>1 DEF Fill, TypeOK, Answer
<1> DEFINE entry == [rows |-> got[r], by |-> r, expires |-> TRUE]
<1>3. /\ Entry(key[r], entry) /\ entry.by = r
      /\ key[r] \in Events => version[key[r]] > 0
  <2>1. /\ Content(key[r], got[r])
        /\ key[r] \in Events => version[key[r]] > 0
    BY <1>1 DEF FillsExist
  <2>2. entry.rows = got[r] /\ entry.by = r /\ entry.expires = TRUE
    OBVIOUS
  <2>3. entry \in [rows : {entry.rows}, by : Readers, expires : BOOLEAN]
    OBVIOUS
  <2> QED
    BY <2>1, <2>2, <2>3 DEF Entry
<1> HIDE DEF entry
<1>4. /\ DOMAIN cache' = Keys
      /\ \A k \in Keys : cache'[k] = cache[k] \/ (k = key[r] /\ cache'[k] = entry)
  <2>1. CASE cache' = [cache EXCEPT ![key[r]] = entry]
    BY <1>1, <2>1 DEF TypeOK
  <2>2. CASE UNCHANGED cache
    BY <2>2 DEF TypeOK
  <2> QED
    BY <2>1, <2>2 DEF Fill, entry
<1>5. \A k \in Keys : Cached(k)' => \/ Cached(k) /\ cache'[k] = cache[k]
                                    \/ k = key[r] /\ cache'[k] = entry
  BY <1>4 DEF Cached
<1>6. \A w \in Writers : r \notin earlier[w]
  BY <1>1 DEF FillersAreDone
<1>7. \A k : Shown(k)' = Shown(k)
  BY DEF Shown
<1>8. TypeOK'
  <2>1. \A k \in Keys : Cached(k)' => Entry(k, cache'[k])
    BY <1>1, <1>3, <1>5 DEF TypeOK
  <2>2. /\ \A q \in Readers : got'[q] = NoEntry \/ Content(key[q], got'[q])
        /\ DOMAIN got' = Readers
    BY <1>1, <1>2 DEF TypeOK, Fill
  <2>3. /\ pc' \in [Readers \cup Writers ->
                       {"idle", "read", "fill", "delDetail", "scan", "done"}]
        /\ outcome' \in [Readers \cup Writers ->
                       {"NONE", "OK", "EVENT_NOT_FOUND", "NO_RESPONSE"}]
    BY <1>1 DEF Fill, TypeOK, Answer
  <2> QED
    BY <1>1, <1>4, <2>1, <2>2, <2>3 DEF TypeOK
<1>9. FillsExist'
  BY <1>1, <1>2, <1>3, <1>5, <1>7, Kinds DEF FillsExist
<1>10. FillersAreDone'
  BY EntryBy, <1>1, <1>2, <1>3, <1>5 DEF FillersAreDone
<1>11. EarlierAreListed'
  BY <1>1, <1>2, <1>3, <1>5, <1>6, <1>7 DEF EarlierAreListed
<1>12. AnsweredIsInvalidated'
  BY <1>1, <1>2, <1>3, <1>5, <1>6, <1>7 DEF AnsweredIsInvalidated
<1>13. AnsweredLast'
  BY <1>1, <1>2 DEF AnsweredLast
<1> QED
  BY <1>8, <1>9, <1>10, <1>11, <1>12, <1>13

\* At the commit every entry that shows the row is earlier, and all of it lies
\* before the writer: the event's own key first, the lists in the scan.
LEMMA CommitKeeps ==
    ASSUME IInv, NEW w \in Writers, Commit(w)
    PROVE  IInv'
<1> USE DEF IInv
<1> DEFINE e == target[w]
           S == {cache[k].by : k \in {k \in Keys : Cached(k) /\ e \in Shown(k)}}
<1>1. /\ TypeOK /\ w \notin Readers /\ e \in Events /\ pc[w] = "idle"
      /\ UNCHANGED <<cache, key, got, target, found, skipped, outcome, faults>>
      /\ version' = [version EXCEPT ![e] = @ + 1]
      /\ earlier' = [earlier EXCEPT ![w] = S]
  BY Kinds DEF Commit, readerVars
<1>2. /\ \A d \in Events : version'[d] \in Nat /\ version'[d] >= version[d]
      /\ version' \in [Events -> Nat]
  BY <1>1 DEF TypeOK
<1>3. S \subseteq Readers /\ \A r \in S : pc[r] = "done"
  BY <1>1, EntryBy DEF FillersAreDone
<1>4. \A v \in Writers : earlier'[v] = IF v = w THEN S ELSE earlier[v]
  BY <1>1 DEF TypeOK
<1>5. /\ \A p \in Readers \cup Writers : p # w => pc'[p] = pc[p]
      /\ \/ pc'[w] = "scan" /\ version[e] = 0 /\ toScan' = [toScan EXCEPT ![w] = Lists]
         \/ pc'[w] = "delDetail" /\ toScan' = toScan
      /\ pc' \in [Readers \cup Writers ->
                       {"idle", "read", "fill", "delDetail", "scan", "done"}]
      /\ toScan' \in [Writers -> SUBSET Lists]
  BY <1>1 DEF Commit, TypeOK, Goto
<1>6. \A k : /\ Shown(k)' = Shown(k) /\ Cached(k)' = Cached(k)
  BY <1>1 DEF Shown, Cached
<1> HIDE DEF S
<1>7. TypeOK'
  <2>1. earlier' \in [Writers -> SUBSET Readers]
    BY <1>1, <1>3 DEF TypeOK
  <2> QED
    BY <1>1, <1>2, <1>5, <1>6, <2>1 DEF TypeOK
<1>8. FillsExist'
  BY <1>1, <1>2, <1>5, <1>6, Kinds DEF FillsExist, TypeOK
<1>9. FillersAreDone'
  BY EntryBy, <1>1, <1>3, <1>4, <1>5, <1>6 DEF FillersAreDone
<1>10. EarlierAreListed'
  <2> SUFFICES ASSUME NEW v \in Writers, NEW k \in Keys,
                      pc'[v] = "scan", Cached(k), target[v] \in Shown(k),
                      cache[k].by \in earlier'[v]
               PROVE  k \in toScan'[v] \cup found'[v]
    BY <1>1, <1>6 DEF EarlierAreListed
  <2>1. CASE v # w
    BY <1>1, <1>4, <1>5, <2>1 DEF EarlierAreListed, TypeOK
  <2>2. CASE v = w
    <3>1. version[e] = 0 /\ toScan'[w] = Lists
      BY <1>1, <1>5, <2>2 DEF TypeOK
    <3>2. k \notin Events
      BY <2>2, <3>1 DEF FillsExist, Shown
    <3> QED
      BY <2>2, <3>1, <3>2 DEF Keys
  <2> QED
    BY <2>1, <2>2
<1>11. AnsweredIsInvalidated'
  <2>1. outcome[w] # "OK"
    BY <1>1 DEF AnsweredLast
  <2> QED
    BY <1>1, <1>4, <1>6, <2>1 DEF AnsweredIsInvalidated
<1>12. AnsweredLast'
  BY <1>1, <1>5 DEF AnsweredLast
<1> QED
  BY <1>7, <1>8, <1>9, <1>10, <1>11, <1>12

(***************************************************************************)
(* The theorems                                                            *)
(***************************************************************************)

\* At the start nothing is cached and nobody has committed.
LEMMA InitKeeps == Init => IInv
<1> SUFFICES ASSUME Init PROVE IInv
  OBVIOUS
<1>1. \A k \in Keys : ~Cached(k)
  BY DEF Init, Cached
<1>2. TypeOK
  BY <1>1, FaultsNatural DEF Init, TypeOK
<1>3. FillsExist /\ FillersAreDone
  BY <1>1 DEF Init, FillsExist, FillersAreDone, Keys
<1>4. EarlierAreListed /\ AnsweredLast /\ AnsweredIsInvalidated
  BY <1>1 DEF Init, EarlierAreListed, AnsweredLast, AnsweredIsInvalidated
<1> QED
  BY <1>2, <1>3, <1>4 DEF IInv

\* Every step keeps the invariant.
LEMMA NextKeeps == IInv /\ [Next]_vars => IInv'
<1> SUFFICES ASSUME IInv, [Next]_vars PROVE IInv'
  OBVIOUS
<1>1. ASSUME NEW r \in Readers, Lookup(r) \/ Read(r) \/ Fill(r) PROVE IInv'
  BY <1>1, LookupKeeps, ReadKeeps, FillKeeps
<1>2. ASSUME NEW w \in Writers, Commit(w) \/ Write(w) PROVE IInv'
  BY <1>2, CommitKeeps, DelDetailKeeps, ScanKeeps, DelListsKeeps DEF Write
<1>3. ASSUME NEW k \in Keys, Expire(k) PROVE IInv'
  BY <1>3, ExpireKeeps
<1>4. CASE Crash
  BY <1>4, CrashKeeps
<1>5. CASE UNCHANGED vars
  BY <1>5 DEF vars, readerVars, writerVars, IInv, TypeOK, FillsExist, FillersAreDone,
              EarlierAreListed, AnsweredLast, AnsweredIsInvalidated, Cached, Shown
<1> QED
  BY <1>1, <1>2, <1>3, <1>4, <1>5 DEF Next

\* Where an entry cached before a commit may still be, in every state.
THEOREM Invariant == Spec => []IInv
BY InitKeeps, NextKeeps, PTL DEF Spec

\* Once a write is answered no entry is left that was cached when it committed.
THEOREM Invalidated == Spec => []AnsweredIsInvalidated
<1>1. IInv => AnsweredIsInvalidated
  BY DEF IInv
<1> QED
  BY Invariant, <1>1, PTL
================================================================================
