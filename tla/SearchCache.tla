------------------------------ MODULE SearchCache ------------------------------
(***************************************************************************)
(* The cache-aside flight search: FlightService.getFlights over Redis, and *)
(* _clearFlightCache, which every write of a flight runs after it.  Each   *)
(* Redis command and each query is one step, so a search can read the      *)
(* database before a write and store its result after the clear, and keys  *)
(* can appear behind the cursor of the SCAN loop.                          *)
(*                                                                         *)
(* What a query returns is abstracted to the version of its route: the     *)
(* number of writes to the flights it selects.  A one-way key reads one    *)
(* route, a round-trip key two, in parallel.  Search errors that do not    *)
(* depend on the cache (an unknown city) are left out.                     *)
(***************************************************************************)
EXTENDS Naturals, FiniteSets

CONSTANTS
    Routes,     \* directions and days a query can select
    Keys,       \* cache keys
    Reads,      \* Reads[k]: the routes whose flights the result of k holds
    Searches,   \* search requests that can be in progress
    Writers,    \* requests that write flights
    NoKey,
    MaxVersion, \* bound on the writes of a route
    MaxFaults   \* bound on failing Redis commands, queries and crashes

ASSUME ReadsAssumption == Reads \in [Keys -> SUBSET Routes]
ASSUME CacheBoundsAssumption == MaxVersion \in Nat /\ MaxFaults \in Nat

VARIABLES
    version,    \* version[r]: writes committed on route r
    cached,     \* keys present in Redis
    entry,      \* entry[k][r]: version of r in the result stored under k
    spc,        \* where search s is
    key,        \* the key it looks up
    unread,     \* routes it has still to query
    got,        \* got[s][r]: version its query of r returned
    wpc,        \* where writer w is
    todo,       \* key slots w's SCAN has still to visit
    found,      \* keys of w's last SCAN reply, to be deleted
    excused,    \* keys stored too late, or missed by a clear that failed (history)
    dbFailed,   \* a query has failed (history)
    faults

redisVars == <<cached, entry, excused>>
searchVars == <<spc, key, unread, got>>
writerVars == <<wpc, todo, found>>
vars == <<version, redisVars, searchVars, writerVars, dbFailed, faults>>

Init ==
    /\ version = [r \in Routes |-> 0]
    /\ cached = {}
    /\ entry = [k \in Keys |-> [r \in Routes |-> 0]]
    /\ spc = [s \in Searches |-> "idle"]
    /\ key = [s \in Searches |-> NoKey]
    /\ unread = [s \in Searches |-> {}]
    /\ got = [s \in Searches |-> [r \in Routes |-> 0]]
    /\ wpc = [w \in Writers |-> "idle"]
    /\ todo = [w \in Writers |-> {}]
    /\ found = [w \in Writers |-> {}]
    /\ excused = {}
    /\ dbFailed = FALSE
    /\ faults = 0

Fault ==
    /\ faults < MaxFaults
    /\ faults' = faults + 1

-------------------------------------------------------------------------------
(* Searching *)

Begin(s, k) ==
    /\ spc[s] = "idle"
    /\ spc' = [spc EXCEPT ![s] = "get"]
    /\ key' = [key EXCEPT ![s] = k]
    /\ UNCHANGED <<version, redisVars, unread, got, writerVars, dbFailed, faults>>

(* The search is answered, or refused with an error. *)
Answer(s) ==
    /\ spc' = [spc EXCEPT ![s] = "idle"]
    /\ key' = [key EXCEPT ![s] = NoKey]
    /\ unread' = [unread EXCEPT ![s] = {}]
    /\ got' = [got EXCEPT ![s] = [r \in Routes |-> 0]]

Hit(s) ==
    /\ spc[s] = "get" /\ key[s] \in cached
    /\ Answer(s)
    /\ UNCHANGED <<version, redisVars, writerVars, dbFailed, faults>>

(* A failed GET is a miss. *)
QueryInstead(s) ==
    /\ spc' = [spc EXCEPT ![s] = "query"]
    /\ unread' = [unread EXCEPT ![s] = Reads[key[s]]]
    /\ UNCHANGED <<key, got>>

Miss(s) ==
    /\ spc[s] = "get"
    /\ \/ key[s] \notin cached /\ UNCHANGED faults
       \/ Fault
    /\ QueryInstead(s)
    /\ UNCHANGED <<version, redisVars, writerVars, dbFailed>>

Query(s) ==
    /\ spc[s] = "query"
    /\ \E r \in unread[s] :
        /\ got' = [got EXCEPT ![s][r] = version[r]]
        /\ unread' = [unread EXCEPT ![s] = @ \ {r}]
    /\ UNCHANGED <<version, redisVars, spc, key, writerVars, dbFailed, faults>>

(* A query rejects: the search is refused. *)
QueryFails(s) ==
    /\ Fault
    /\ spc[s] = "query" /\ unread[s] # {}
    /\ dbFailed' = TRUE
    /\ Answer(s)
    /\ UNCHANGED <<version, redisVars, writerVars>>

Outdated(result, k) == \E r \in Reads[k] : result[r] < version[r]

(* SETEX: whatever was written since the queries, the result is stored. *)
Store(s) ==
    /\ cached' = cached \cup {key[s]}
    /\ entry' = [entry EXCEPT ![key[s]] = got[s]]
    /\ excused' = IF Outdated(got[s], key[s])
                  THEN excused \cup {key[s]} ELSE excused \ {key[s]}

Fill(s) ==
    /\ spc[s] = "query" /\ unread[s] = {}
    /\ Store(s)
    /\ Answer(s)
    /\ UNCHANGED <<version, writerVars, dbFailed, faults>>

(* Mutant: the SETEX is outside its try block. *)
FillFails_Throws(s) ==
    /\ Fault
    /\ spc[s] = "query" /\ unread[s] = {}
    /\ spc' = [spc EXCEPT ![s] = "error"]
    /\ UNCHANGED <<version, redisVars, key, unread, got, writerVars, dbFailed>>

(* The SETEX rejects, executed or not: the search is answered. *)
FillFails(s) ==
    /\ Fault
    /\ spc[s] = "query" /\ unread[s] = {}
    /\ Store(s) \/ UNCHANGED redisVars
    /\ Answer(s)
    /\ UNCHANGED <<version, writerVars, dbFailed>>

-------------------------------------------------------------------------------
(* Writing: create, update, destroy, decrementSeats, incrementSeats *)

(* The write commits (an increment too: its transaction does not reach the *)
(* repository), and then the clear begins.                                 *)
Write(w, r) ==
    /\ wpc[w] = "idle"
    /\ version[r] < MaxVersion
    /\ version' = [version EXCEPT ![r] = @ + 1]
    /\ wpc' = [wpc EXCEPT ![w] = "scan"]
    /\ todo' = [todo EXCEPT ![w] = Keys]
    /\ UNCHANGED <<redisVars, searchVars, found, dbFailed, faults>>

(* Mutant: an empty reply is taken for the end of the iteration. *)
Scan_EmptyEnds(w) ==
    /\ wpc[w] = "scan"
    /\ \E visited \in (SUBSET todo[w]) \ {{}} :
        /\ found' = [found EXCEPT ![w] = visited \cap cached]
        /\ wpc' = [wpc EXCEPT ![w] = IF visited \cap cached = {} THEN "idle" ELSE "del"]
        /\ todo' = [todo EXCEPT ![w] = IF visited \cap cached = {} THEN {} ELSE @ \ visited]
    /\ UNCHANGED <<version, redisVars, searchVars, dbFailed, faults>>

(* One SCAN call visits some slots, in an order of Redis's own, and returns *)
(* the keys it finds in them.                                               *)
Scan(w) ==
    /\ wpc[w] = "scan"
    /\ \E visited \in (SUBSET todo[w]) \ {{}} :
        /\ todo' = [todo EXCEPT ![w] = @ \ visited]
        /\ found' = [found EXCEPT ![w] = visited \cap cached]
        /\ wpc' = [wpc EXCEPT ![w] = IF visited \cap cached = {} THEN "scan" ELSE "del"]
    /\ UNCHANGED <<version, redisVars, searchVars, dbFailed, faults>>

(* Mutant: the cursor starts again after every DEL. *)
Delete_Restarts(w) ==
    /\ wpc[w] = "del"
    /\ cached' = cached \ found[w]
    /\ found' = [found EXCEPT ![w] = {}]
    /\ todo' = [todo EXCEPT ![w] = Keys]
    /\ wpc' = [wpc EXCEPT ![w] = "scan"]
    /\ UNCHANGED <<version, entry, excused, searchVars, dbFailed, faults>>

Delete(w) ==
    /\ wpc[w] = "del"
    /\ cached' = cached \ found[w]
    /\ found' = [found EXCEPT ![w] = {}]
    /\ wpc' = [wpc EXCEPT ![w] = "scan"]
    /\ UNCHANGED <<version, entry, excused, searchVars, todo, dbFailed, faults>>

(* The cursor is "0" again: all slots have been visited. *)
Cleared(w) ==
    /\ wpc[w] = "scan" /\ todo[w] = {}
    /\ wpc' = [wpc EXCEPT ![w] = "idle"]
    /\ UNCHANGED <<version, redisVars, searchVars, todo, found, dbFailed, faults>>

(* A SCAN or a DEL, executed or not, rejects: the loop ends with a log line *)
(* and the write stands.                                                    *)
ClearFails(w) ==
    /\ Fault
    /\ wpc[w] # "idle"
    /\ cached' \in {cached, cached \ found[w]}
    /\ excused' = excused \cup todo[w] \cup found[w]
    /\ wpc' = [wpc EXCEPT ![w] = "idle"]
    /\ todo' = [todo EXCEPT ![w] = {}]
    /\ found' = [found EXCEPT ![w] = {}]
    /\ UNCHANGED <<version, entry, searchVars, dbFailed>>

-------------------------------------------------------------------------------
(* The environment *)

(* The time limit of a key, 5 minutes, has passed. *)
Expire(k) ==
    /\ k \in cached
    /\ cached' = cached \ {k}
    /\ UNCHANGED <<version, entry, excused, searchVars, writerVars, dbFailed, faults>>

(* The flight service dies; Redis and the database do not. *)
Crash ==
    /\ Fault
    /\ \/ \E s \in Searches : spc[s] # "idle"
       \/ \E w \in Writers : wpc[w] # "idle"
    /\ excused' = excused \cup UNION {todo[w] \cup found[w] : w \in Writers}
    /\ spc' = [s \in Searches |-> "idle"]
    /\ key' = [s \in Searches |-> NoKey]
    /\ unread' = [s \in Searches |-> {}]
    /\ got' = [s \in Searches |-> [r \in Routes |-> 0]]
    /\ wpc' = [w \in Writers |-> "idle"]
    /\ todo' = [w \in Writers |-> {}]
    /\ found' = [w \in Writers |-> {}]
    /\ UNCHANGED <<version, cached, entry, dbFailed>>

-------------------------------------------------------------------------------
Search(s) == Hit(s) \/ Miss(s) \/ Query(s) \/ Fill(s)
Clear(w) == Scan(w) \/ Delete(w) \/ Cleared(w)

Next ==
    \/ \E s \in Searches :
        \/ \E k \in Keys : Begin(s, k)
        \/ Search(s) \/ QueryFails(s) \/ FillFails(s)
    \/ \E w \in Writers :
        \/ \E r \in Routes : Write(w, r)
        \/ Clear(w) \/ ClearFails(w)
    \/ \E k \in Keys : Expire(k)
    \/ Crash

Spec == Init /\ [][Next]_vars

(* Every request goes on when its command or query is answered. *)
Fairness ==
    /\ \A s \in Searches : WF_vars(Search(s))
    /\ \A w \in Writers : WF_vars(Clear(w))

FairSpec == Spec /\ Fairness

-------------------------------------------------------------------------------
TypeOK ==
    /\ version \in [Routes -> 0..MaxVersion]
    /\ cached \subseteq Keys
    /\ entry \in [Keys -> [Routes -> 0..MaxVersion]]
    /\ spc \in [Searches -> {"idle", "get", "query"}]
    /\ key \in [Searches -> Keys \cup {NoKey}]
    /\ \A s \in Searches : spc[s] # "idle" => key[s] \in Keys
    /\ unread \in [Searches -> SUBSET Routes]
    /\ got \in [Searches -> [Routes -> 0..MaxVersion]]
    /\ wpc \in [Writers -> {"idle", "scan", "del"}]
    /\ todo \in [Writers -> SUBSET Keys]
    /\ found \in [Writers -> SUBSET Keys]
    /\ \A w \in Writers : wpc[w] # "del" => found[w] = {}
    /\ \A w \in Writers : wpc[w] = "idle" => todo[w] = {}
    /\ excused \subseteq Keys
    /\ dbFailed \in BOOLEAN
    /\ faults \in 0..MaxFaults

(* An outdated result stays in the cache only while a writer has still to   *)
(* visit or delete its key, or if it was stored after the write that        *)
(* outdated it, or if a clear failed before it got there: keys that appear  *)
(* behind the cursor are never a reason.                                    *)
StaleIsExplained ==
    \A k \in cached :
        Outdated(entry[k], k) =>
            k \in excused \/ \E w \in Writers : k \in todo[w] \cup found[w]

(* Redis may fail at any command: every search is answered all the same,    *)
(* unless a query failed.                                                   *)
SearchesAnswered ==
    \A s \in Searches : (spc[s] # "idle") ~> (spc[s] = "idle" \/ dbFailed)

(* However many searches fill the cache meanwhile, a clear ends, and with   *)
(* it the request that waits for it.                                        *)
ClearsEnd == \A w \in Writers : (wpc[w] # "idle") ~> (wpc[w] = "idle")
===============================================================================
