--------------------------- MODULE SearchCacheProofs ---------------------------
(***************************************************************************)
(* StaleIsExplained, for any keys, routes, searches and writers.  It is    *)
(* inductive with the type invariant, whose last parts say that a writer   *)
(* keeps slots to visit and keys to delete only while its loop runs.       *)
(***************************************************************************)
EXTENDS SearchCache, TLAPS

(* The key slots a writer will still clear. *)
Pending == UNION {todo[w] \cup found[w] : w \in Writers}

LEMMA TypeInit == Init => TypeOK
<1>1. 0 \in 0..MaxVersion /\ 0 \in 0..MaxFaults
  BY CacheBoundsAssumption
<1> SUFFICES ASSUME Init PROVE TypeOK
  OBVIOUS
<1>2. /\ version \in [Routes -> 0..MaxVersion]
      /\ entry \in [Keys -> [Routes -> 0..MaxVersion]]
      /\ got \in [Searches -> [Routes -> 0..MaxVersion]]
  BY <1>1 DEF Init
<1>3. /\ spc \in [Searches -> {"idle", "get", "query"}]
      /\ key \in [Searches -> Keys \cup {NoKey}]
      /\ \A s \in Searches : spc[s] = "idle"
      /\ unread \in [Searches -> SUBSET Routes]
  BY DEF Init
<1>4. /\ wpc \in [Writers -> {"idle", "scan", "del"}]
      /\ todo \in [Writers -> SUBSET Keys] /\ \A w \in Writers : todo[w] = {}
      /\ found \in [Writers -> SUBSET Keys] /\ \A w \in Writers : found[w] = {}
  BY DEF Init
<1>5. cached \subseteq Keys /\ excused \subseteq Keys /\ dbFailed \in BOOLEAN
  BY DEF Init
<1>6. faults \in 0..MaxFaults
  BY <1>1 DEF Init
<1> QED BY <1>2, <1>3, <1>4, <1>5, <1>6 DEF TypeOK

LEMMA TypeStep == TypeOK /\ [Next]_vars => TypeOK'
<1> SUFFICES ASSUME TypeOK, [Next]_vars PROVE TypeOK'
  OBVIOUS
<1> USE ReadsAssumption, CacheBoundsAssumption DEF TypeOK
<1>1. CASE UNCHANGED vars
  BY <1>1 DEF vars, redisVars, searchVars, writerVars
<1>2. ASSUME NEW s \in Searches, NEW k \in Keys, Begin(s, k) PROVE TypeOK'
  BY <1>2 DEF Begin, redisVars, writerVars
<1>3. ASSUME NEW s \in Searches, Hit(s) PROVE TypeOK'
  BY <1>3 DEF Hit, Answer, redisVars, writerVars
<1>4. ASSUME NEW s \in Searches, Miss(s) PROVE TypeOK'
  <2>1. key[s] \in Keys
    BY <1>4 DEF Miss
  <2> QED BY <1>4, <2>1 DEF Miss, QueryInstead, Fault, redisVars, writerVars
<1>5. ASSUME NEW s \in Searches, Query(s) PROVE TypeOK'
  <2>1. PICK r \in unread[s] : /\ got' = [got EXCEPT ![s][r] = version[r]]
                               /\ unread' = [unread EXCEPT ![s] = @ \ {r}]
    BY <1>5 DEF Query
  <2>2. r \in Routes /\ version[r] \in 0..MaxVersion
    BY <2>1
  <2> QED BY <1>5, <2>1, <2>2 DEF Query, redisVars, writerVars
<1>6. ASSUME NEW s \in Searches, Fill(s) PROVE TypeOK'
  <2>1. key[s] \in Keys
    BY <1>6 DEF Fill
  <2> QED BY <1>6, <2>1 DEF Fill, Store, Answer, writerVars
<1>7. ASSUME NEW s \in Searches, QueryFails(s) \/ FillFails(s) PROVE TypeOK'
  <2>1. /\ Answer(s) /\ key[s] \in Keys
        /\ version' = version /\ wpc' = wpc /\ todo' = todo /\ found' = found
    BY <1>7 DEF QueryFails, FillFails, writerVars
  <2>2. /\ spc' \in [Searches -> {"idle", "get", "query"}]
        /\ key' \in [Searches -> Keys \cup {NoKey}]
        /\ \A t \in Searches : spc'[t] # "idle" => key'[t] \in Keys
        /\ unread' \in [Searches -> SUBSET Routes]
    BY <2>1 DEF Answer
  <2>3. got' \in [Searches -> [Routes -> 0..MaxVersion]]
    <3>1. 0 \in 0..MaxVersion
      OBVIOUS
    <3> QED BY <2>1, <3>1 DEF Answer
  <2>4. /\ cached' \subseteq Keys /\ excused' \subseteq Keys
        /\ entry' \in [Keys -> [Routes -> 0..MaxVersion]]
    BY <1>7, <2>1 DEF QueryFails, FillFails, Store, redisVars
  <2>5. dbFailed' \in BOOLEAN
    BY <1>7 DEF QueryFails, FillFails
  <2>6. faults' \in 0..MaxFaults
    BY <1>7 DEF QueryFails, FillFails, Fault
  <2> QED BY <2>1, <2>2, <2>3, <2>4, <2>5, <2>6
<1>8. ASSUME NEW w \in Writers, NEW r \in Routes, Write(w, r) PROVE TypeOK'
  BY <1>8 DEF Write, redisVars, searchVars
<1>9. ASSUME NEW w \in Writers, Scan(w) PROVE TypeOK'
  BY <1>9 DEF Scan, redisVars, searchVars
<1>10. ASSUME NEW w \in Writers, Delete(w) PROVE TypeOK'
  BY <1>10 DEF Delete, searchVars
<1>11. ASSUME NEW w \in Writers, Cleared(w) PROVE TypeOK'
  BY <1>11 DEF Cleared, redisVars, searchVars
<1>12. ASSUME NEW w \in Writers, ClearFails(w) PROVE TypeOK'
  BY <1>12 DEF ClearFails, Fault, searchVars
<1>13. ASSUME NEW k \in Keys, Expire(k) PROVE TypeOK'
  BY <1>13 DEF Expire, searchVars, writerVars
<1>14. CASE Crash
  BY <1>14 DEF Crash, Fault
<1> QED
  BY <1>1, <1>2, <1>3, <1>4, <1>5, <1>6, <1>7, <1>8, <1>9, <1>10, <1>11, <1>12, <1>13,
     <1>14 DEF Next, Search, Clear

-------------------------------------------------------------------------------
(* The invariant with its inner quantifier folded into Pending. *)
LEMMA PendingExplains ==
    StaleIsExplained <=>
        \A k \in cached : Outdated(entry[k], k) => k \in excused \cup Pending
  BY DEF StaleIsExplained, Pending

(* Enough for a step: no key leaves excused \cup Pending unless it leaves   *)
(* the cache, and what is new or newly outdated is in it.                   *)
LEMMA StaysExplained ==
    ASSUME StaleIsExplained,
           \A k \in cached' :
               \/ k \in cached /\ entry'[k] = entry[k] /\ version' = version
                  /\ (k \in excused \cup Pending => k \in (excused \cup Pending)')
               \/ k \in (excused \cup Pending)'
               \/ ~Outdated(entry[k], k)'
    PROVE  StaleIsExplained'
<1>1. SUFFICES ASSUME NEW k \in cached', Outdated(entry[k], k)'
      PROVE  k \in (excused \cup Pending)'
  BY DEF StaleIsExplained, Pending
<1>2. CASE k \in cached /\ entry'[k] = entry[k] /\ version' = version
           /\ (k \in excused \cup Pending => k \in (excused \cup Pending)')
  BY <1>1, <1>2, PendingExplains DEF Outdated
<1> QED BY <1>1, <1>2

LEMMA StaleStep == TypeOK /\ StaleIsExplained /\ [Next]_vars => StaleIsExplained'
<1> SUFFICES ASSUME TypeOK, StaleIsExplained, [Next]_vars PROVE StaleIsExplained'
  OBVIOUS
<1>1. CASE UNCHANGED <<version, redisVars, writerVars>>
  BY <1>1, StaysExplained DEF redisVars, writerVars, Pending
<1>2. CASE UNCHANGED vars
  BY <1>1, <1>2 DEF vars
<1>3. ASSUME NEW s \in Searches,
             Hit(s) \/ Miss(s) \/ Query(s) \/ QueryFails(s)
      PROVE  StaleIsExplained'
  BY <1>1, <1>3 DEF Hit, Miss, Query, QueryFails, redisVars, writerVars
<1>4. ASSUME NEW s \in Searches, NEW k \in Keys, Begin(s, k) PROVE StaleIsExplained'
  BY <1>1, <1>4 DEF Begin
<1>5. ASSUME NEW s \in Searches, Fill(s) \/ FillFails(s) PROVE StaleIsExplained'
  <2>1. CASE UNCHANGED redisVars
    BY <1>1, <1>5, <2>1 DEF Fill, FillFails
  <2>2. CASE Store(s)
    <3>1. key[s] \in Keys
      BY <1>5 DEF Fill, FillFails, TypeOK
    <3>2. version' = version /\ Pending' = Pending
      BY <1>5 DEF Fill, FillFails, writerVars, Pending
    <3>3. ASSUME NEW k \in cached', k # key[s]
          PROVE  k \in cached /\ entry'[k] = entry[k]
                 /\ (k \in excused \cup Pending => k \in (excused \cup Pending)')
      BY <2>2, <3>1, <3>2, <3>3 DEF Store, TypeOK
    <3>4. CASE Outdated(got[s], key[s])
      <4>1. key[s] \in excused'
        BY <2>2, <3>4 DEF Store
      <4> QED BY <3>2, <3>3, <4>1, StaysExplained
    <3>5. CASE ~Outdated(got[s], key[s])
      <4>1. entry'[key[s]] = got[s]
        BY <2>2, <3>1 DEF Store, TypeOK
      <4>2. \A k : k = key[s] => ~Outdated(entry[k], k)'
        BY <3>2, <3>5, <4>1 DEF Outdated
      <4> QED BY <3>2, <3>3, <4>2, StaysExplained
    <3> QED BY <3>4, <3>5
  <2> QED BY <1>5, <2>1, <2>2 DEF Fill, FillFails
<1>6. ASSUME NEW w \in Writers, NEW r \in Routes, Write(w, r) PROVE StaleIsExplained'
  <2>1. todo'[w] = Keys /\ cached' = cached
    BY <1>6 DEF Write, redisVars, TypeOK
  <2> QED BY <2>1, StaysExplained DEF Pending, TypeOK
<1>7. ASSUME NEW w \in Writers, Scan(w) PROVE StaleIsExplained'
  <2>1. version' = version /\ cached' = cached /\ entry' = entry /\ excused' = excused
    BY <1>7 DEF Scan, redisVars
  <2>2. found[w] = {}
    BY <1>7 DEF Scan, TypeOK
  <2>3. ASSUME NEW v \in Writers, NEW k \in cached, k \in todo[v] \cup found[v]
        PROVE  k \in todo'[v] \cup found'[v]
    BY <1>7, <2>2, <2>3 DEF Scan, TypeOK
  <2> QED BY <2>1, <2>3, StaysExplained DEF Pending
<1>8. ASSUME NEW w \in Writers, Delete(w) PROVE StaleIsExplained'
  <2>1. version' = version /\ entry' = entry /\ excused' = excused
        /\ cached' = cached \ found[w]
    BY <1>8 DEF Delete
  <2>2. ASSUME NEW v \in Writers, NEW k \in cached', k \in todo[v] \cup found[v]
        PROVE  k \in todo'[v] \cup found'[v]
    BY <1>8, <2>1, <2>2 DEF Delete, TypeOK
  <2> QED BY <2>1, <2>2, StaysExplained DEF Pending
<1>9. ASSUME NEW w \in Writers, Cleared(w) PROVE StaleIsExplained'
  BY <1>9, StaysExplained DEF Cleared, redisVars, Pending
<1>10. ASSUME NEW w \in Writers, ClearFails(w) PROVE StaleIsExplained'
  <2>1. /\ version' = version /\ cached' \subseteq cached /\ entry' = entry
        /\ excused' = excused \cup todo[w] \cup found[w]
    BY <1>10 DEF ClearFails
  <2>2. ASSUME NEW v \in Writers, v # w
        PROVE  todo'[v] = todo[v] /\ found'[v] = found[v]
    BY <1>10, <2>2 DEF ClearFails, TypeOK
  <2>3. \A k \in Pending : k \in excused' \cup Pending'
    BY <2>1, <2>2 DEF Pending
  <2> QED BY <2>1, <2>3, StaysExplained
<1>11. ASSUME NEW k \in Keys, Expire(k) PROVE StaleIsExplained'
  BY <1>11, StaysExplained DEF Expire, writerVars, Pending
<1>12. CASE Crash
  BY <1>12, StaysExplained DEF Crash, Pending
<1> QED
  BY <1>2, <1>3, <1>4, <1>5, <1>6, <1>7, <1>8, <1>9, <1>10, <1>11, <1>12
     DEF Next, Search, Clear

THEOREM CacheTypeCorrect == Spec => []TypeOK
  BY TypeInit, TypeStep, PTL DEF Spec

(* A result outdated by a write stays in the cache only until the clear of  *)
(* that write reaches its key, unless it was stored after the write or the  *)
(* clear failed.                                                            *)
THEOREM CacheStaleExplained == Spec => []StaleIsExplained
<1>1. Init => StaleIsExplained
  BY DEF Init, StaleIsExplained
<1> QED BY <1>1, CacheTypeCorrect, StaleStep, PTL DEF Spec
===============================================================================
