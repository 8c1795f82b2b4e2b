----------------------------- MODULE GitLogCache -----------------------------
(***************************************************************************)
(* The cached gitiles log of Milo, src/milo/git/log.go.                    *)
(*                                                                         *)
(* Log(host, project, commitish, min) returns up to PageSize (100 in the   *)
(* code) commits starting at commitish.  Results are kept in memcache,     *)
(* keyed "host|project|commitish".  The last byte of a cache value says    *)
(* what the rest is: 0, a marshalled log; 1..99, the id of a descendant    *)
(* commit whose log contains this one that many positions down; 100..255,  *)
(* reserved.  readCache chases such pointers while the accumulated         *)
(* distance stays within 100 - min; on a miss, a cache failure or a value  *)
(* it cannot decode, call() asks gitiles and writeCache stores the log     *)
(* under the commitish, under the hash of its first commit, and a pointer  *)
(* under every ancestor reached through single-parent commits, unless the  *)
(* entry already there is at least as good.                                *)
(*                                                                         *)
(* Several goroutines (Procs) run Log() at once against one memcache.  A   *)
(* Get or a Set of one item is atomic; nothing else is: the probe of the   *)
(* ancestors' entries and the Set that follows it are separate steps,      *)
(* batch Sets may fail item by item, entries expire or are evicted at any  *)
(* time, and refs move between two requests or within one.                 *)
(*                                                                         *)
(* Host and project are fixed: the key of commitish x is x itself.  A      *)
(* commit hash is <<c, spelling>>; hex.EncodeToString always produces the  *)
(* "lower" spelling, while gitHash also matches other spellings.           *)
(***************************************************************************)
EXTENDS Integers, Sequences, SequencesExt, FiniteSets

CONSTANTS
    Procs,        \* goroutines serving requests that call Log()
    Commits,      \* commit ids; a larger id is a newer commit
    Parents,      \* Parents[c]: the parent commits of c
    Refs,         \* ref names, model values
    RefInit,      \* the commit each ref points to at first
    RefCommits,   \* commits a ref can be pushed to
    Spellings,    \* spellings of a 40-hex commit hash, "lower" among them
    Commitishes,  \* commitish arguments of Log()
    MinArgs,      \* min arguments of Log()
    PageSize,     \* 100: gitiles page size, bound of min, first reserved byte
    DefaultMin,   \* 50: the min used when min <= 0
    MaxCalls,     \* bound: Log() calls made by all goroutines together
    MaxEvictions, \* bound: entries that expire or are evicted
    MaxPushes,    \* bound: pushes to refs
    InitCache,    \* memcache content left by earlier or other Milo versions
    Missing, Empty, Err, Panic, None  \* model values

HashKeys == Commits \X Spellings
Keys == Refs \cup HashKeys

ASSUME /\ "lower" \in Spellings
       /\ \A c \in Commits : \A q \in Parents[c] : q \in Commits /\ q < c
       /\ RefInit \in [Refs -> Commits] /\ RefCommits \subseteq Commits
       /\ Commitishes \subseteq Keys
       /\ PageSize \in Nat \ {0, 1} /\ DefaultMin \in 1..PageSize
       \* Log() panics on min > 100: callers never pass one.
       /\ MinArgs \subseteq Int /\ \A m \in MinArgs : m <= PageSize

(* gitHash.MatchString: the commitish is a 40-hex commit hash.            *)
IsHash(x) == x \in HashKeys

(* hex.EncodeToString of a commit id, as a cache key (lower-case hex).    *)
HexKey(c) == <<c, "lower">>

(* The commits reachable from c, and gitiles' log order: newest first.    *)
RECURSIVE Ancestors(_)
Ancestors(c) == {c} \cup UNION {Ancestors(q) : q \in Parents[c]}

Newer(a, b) == a > b

History == [c \in Commits |-> SetToSortSeq(Ancestors(c), Newer)]

(* gitiles.Log with PageSize 100: the first page of the history of c.     *)
GitilesLog(c) ==
    SubSeq(History[c], 1, IF Len(History[c]) > PageSize
                          THEN PageSize ELSE Len(History[c]))

(* Cache values, by what their bytes are.  The last byte is meta.         *)
DirectValue(log) == [payload |-> "log", log |-> log, meta |-> 0]
(* Mutant: dist := byte(i) instead of byte(i + 1).                       *)
PointerValueOffByOne(id, d) == [payload |-> "id", id |-> id, meta |-> d - 1]
PointerValue(id, d) == [payload |-> "id", id |-> id, meta |-> d]
JunkValues == [payload : {"junk"}, meta : {0, PageSize}]
Value == {Empty} \cup JunkValues
           \cup [payload : {"log"}, log : Seq(Commits), meta : {0}]
           \cup [payload : {"id"}, id : Commits, meta : 1..PageSize - 1]

ASSUME InitCache \in [Keys -> {Missing} \cup Value]

CacheResults == {"hit", "miss", "failure-cache", "failure-decoding"}

VARIABLES
    cache,        \* memcache namespace "git-log": key -> value or Missing
    refTarget,    \* the commit each ref points to in the gitiles repository
    refHistory,   \* history: every commit each ref has pointed to
    pc,           \* where each goroutine is in Log()
    commitish,    \* logReq.commitish
    min,          \* logReq.min after defaulting
    e,            \* the cache key readCache is looking at
    dist,         \* readCache's accumulated distance
    cacheResult,  \* call()'s cacheResult
    res,          \* res.Log, the commits gitiles returned
    probed,       \* writeCache: ancestor distance -> value its Get found
    ret,          \* what Log() returned: commits, Err or Panic
    calls,        \* Log() calls made so far
    evictions,    \* entries expired or evicted so far
    pushes        \* ref pushes so far

procVars == <<pc, commitish, min, e, dist, cacheResult, res, probed, ret>>
envVars == <<calls, evictions, pushes>>
vars == <<cache, refTarget, refHistory, procVars, envVars>>

-----------------------------------------------------------------------------

Init ==
    /\ cache = InitCache
    /\ refTarget = RefInit
    /\ refHistory = [r \in Refs |-> {RefInit[r]}]
    /\ pc = [p \in Procs |-> "idle"]
    /\ commitish = [p \in Procs |-> None]
    /\ min = [p \in Procs |-> 0]
    /\ e = [p \in Procs |-> None]
    /\ dist = [p \in Procs |-> 0]
    /\ cacheResult = [p \in Procs |-> ""]
    /\ res = [p \in Procs |-> <<>>]
    /\ probed = [p \in Procs |-> <<>>]
    /\ ret = [p \in Procs |-> None]
    /\ calls = 0
    /\ evictions = 0
    /\ pushes = 0

(* Mutant: byte(101 - l.min).                                            *)
MaxDistOffByOne(m) == PageSize - m + 1

(* byte(100 - l.min): how far readCache may walk down pointers.           *)
MaxDist(m) == PageSize - m

(* The commit gitiles resolves the request's treeish to.                  *)
Target(p) == IF IsHash(commitish[p]) THEN commitish[p][1]
                                     ELSE refTarget[commitish[p]]

(* call() returns; the logReq and readCache's locals are dropped.  Its   *)
(* deferred logCounter.Add records cacheResult; the metric is left out    *)
(* (no property reads it).                                                *)
Finish(p, commits) ==
    /\ pc' = [pc EXCEPT ![p] = "done"]
    /\ ret' = [ret EXCEPT ![p] = commits]
    /\ e' = [e EXCEPT ![p] = None]
    /\ dist' = [dist EXCEPT ![p] = 0]
    /\ cacheResult' = [cacheResult EXCEPT ![p] = ""]
    /\ res' = [res EXCEPT ![p] = <<>>]
    /\ probed' = [probed EXCEPT ![p] = <<>>]

(* Log() and call() up to readCache: default min, set the namespace.      *)
Log(p, x, m) ==
    /\ pc[p] \in {"idle", "done"}
    /\ calls < MaxCalls
    /\ calls' = calls + 1
    /\ commitish' = [commitish EXCEPT ![p] = x]
    /\ min' = [min EXCEPT ![p] = IF m <= 0 THEN DefaultMin ELSE m]
    /\ \/ \* info.Namespace fails: returned before the metric is deferred
          Finish(p, Err)
       \/ /\ pc' = [pc EXCEPT ![p] = "read"]
          /\ ret' = [ret EXCEPT ![p] = None]
          /\ e' = [e EXCEPT ![p] = x]
          /\ UNCHANGED <<dist, cacheResult, res, probed>>
    /\ UNCHANGED <<cache, refTarget, refHistory, evictions, pushes>>

-----------------------------------------------------------------------------
(* readCache, one iteration of its loop: one memcache.Get and its decoding. *)

(* cacheResult is set: leave the loop and call gitiles.                   *)
StopReading(p, result) ==
    /\ cacheResult' = [cacheResult EXCEPT ![p] = result]
    /\ pc' = [pc EXCEPT ![p] = "fetch"]
    /\ UNCHANGED <<e, dist, ret, res, probed>>

(* Mutant: the pointer case recurses without `dist += meta`.             *)
FollowPointerNoDistance(p, v) ==
    /\ e' = [e EXCEPT ![p] = HexKey(v.id)]
    /\ UNCHANGED <<dist, pc, cacheResult, ret, res, probed>>

(* meta is a distance within budget: recurse into the descendant's entry. *)
FollowPointer(p, v) ==
    /\ dist' = [dist EXCEPT ![p] = @ + v.meta]
    /\ e' = [e EXCEPT ![p] = HexKey(v.id)]
    /\ UNCHANGED <<pc, cacheResult, ret, res, probed>>

(* meta == 0 and the log unmarshals: return decoded.Log[dist:].  Slicing   *)
(* past the end of the log panics.                                        *)
CacheHit(p, v) ==
    Finish(p, IF dist[p] <= Len(v.log)
              THEN SubSeq(v.log, dist[p] + 1, Len(v.log))
              ELSE Panic)

ReadCache(p) ==
    /\ pc[p] = "read"
    /\ LET v == cache[e[p]] IN
       \/ v = Missing /\ StopReading(p, "miss")
       \/ v = Empty /\ StopReading(p, "failure-decoding")
       \/ /\ v \notin {Missing, Empty}
          /\ \/ v.meta = 0 /\ v.payload = "log" /\ CacheHit(p, v)
             \/ v.meta = 0 /\ v.payload # "log"
                /\ StopReading(p, "failure-decoding")
             \/ v.meta >= PageSize /\ StopReading(p, "failure-decoding")
             \/ v.meta \in 1..PageSize - 1
                /\ dist[p] + v.meta <= MaxDist(min[p])
                /\ FollowPointer(p, v)
             \/ v.meta \in 1..PageSize - 1
                /\ dist[p] + v.meta > MaxDist(min[p])
                /\ StopReading(p, "miss")
    /\ UNCHANGED <<cache, refTarget, refHistory, commitish, min, envVars>>

(* memcache.Get fails: "cache failure", the loop ends.                    *)
ReadCacheFailure(p) ==
    /\ pc[p] = "read"
    /\ StopReading(p, "failure-cache")
    /\ UNCHANGED <<cache, refTarget, refHistory, commitish, min, envVars>>

-----------------------------------------------------------------------------
(* call() after a miss: Client() and gitiles Log, no retry.               *)
FetchGitiles(p) ==
    /\ pc[p] = "fetch"
    /\ \/ Finish(p, Err)
       \/ /\ res' = [res EXCEPT ![p] = GitilesLog(Target(p))]
          /\ pc' = [pc EXCEPT ![p] = "write"]
          /\ UNCHANGED <<ret, e, dist, cacheResult, probed>>
    /\ UNCHANGED <<cache, refTarget, refHistory, commitish, min, envVars>>

-----------------------------------------------------------------------------
(* writeCache.                                                            *)

(* Mutant: the loop does not stop at a merge commit.                     *)
AncestorDistsAnyParents(log) == 1..Len(log) - 1

(* The distances d at which writeCache offers a pointer: the loop over i  *)
(* while res.Log[i-1] has exactly one parent; res.Log[d+1] is d away.     *)
AncestorDists(log) ==
    {d \in 1..Len(log) - 1 :
        \A j \in 1..d : Cardinality(Parents[log[j]]) = 1}

AncestorKey(log, d) == HexKey(log[d + 1])

(* Marshal the log, then memcache.Get all ancestor entries at once; an    *)
(* item that misses or fails is treated as empty.                         *)
WriteCache(p) ==
    /\ pc[p] = "write"
    /\ \/ \* proto.Marshal fails: nothing is cached
          Finish(p, res[p])
       \/ \E failed \in SUBSET AncestorDists(res[p]) :
             /\ probed' = [probed EXCEPT ![p] =
                   [d \in AncestorDists(res[p]) |->
                       IF d \in failed THEN Missing
                       ELSE cache[AncestorKey(res[p], d)]]]
             /\ pc' = [pc EXCEPT ![p] = "set"]
             /\ UNCHANGED <<ret, e, dist, cacheResult, res>>
    /\ UNCHANGED <<cache, refTarget, refHistory, commitish, min, envVars>>

(* Mutant: a ref's log is not also stored under its first commit's hash. *)
DirectEntriesNoHashKey(p) == {<<commitish[p], DirectValue(res[p])>>}

(* The direct entries of the batch: the commitish, and for a ref also the *)
(* hash of the first commit.                                              *)
DirectEntries(p) ==
    {<<commitish[p], DirectValue(res[p])>>}
      \cup (IF ~IsHash(commitish[p]) /\ Len(res[p]) > 0
            THEN {<<HexKey(res[p][1]), DirectValue(res[p])>>} ELSE {})

(* "This cache entry is not worse than what we can offer."                *)
NotWorse(v, d) == v \notin {Missing, Empty} /\ v.meta <= d

PointerEntries(p) ==
    {<<AncestorKey(res[p], d), PointerValue(res[p][1], d)>> :
        d \in {d \in DOMAIN probed[p] : ~NotWorse(probed[p][d], d)}}

Batch(p) == DirectEntries(p) \cup PointerEntries(p)

(* memcache.Set of the batch; each item may fail on its own (logged).     *)
WriteCacheSet(p) ==
    /\ pc[p] = "set"
    /\ \E written \in SUBSET Batch(p) :
          cache' = [k \in Keys |->
                       IF \E it \in written : it[1] = k
                       THEN (CHOOSE it \in written : it[1] = k)[2]
                       ELSE cache[k]]
    /\ Finish(p, res[p])
    /\ UNCHANGED <<refTarget, refHistory, commitish, min, envVars>>

-----------------------------------------------------------------------------
(* The environment.                                                       *)

(* An entry expires (30s for a ref, 12h otherwise) or is evicted.         *)
Evict(k) ==
    /\ evictions < MaxEvictions
    /\ cache[k] # Missing
    /\ cache' = [cache EXCEPT ![k] = Missing]
    /\ evictions' = evictions + 1
    /\ UNCHANGED <<refTarget, refHistory, procVars, calls, pushes>>

(* Someone pushes ref r to commit c.                                      *)
MoveRef(r, c) ==
    /\ pushes < MaxPushes
    /\ refTarget[r] # c
    /\ refTarget' = [refTarget EXCEPT ![r] = c]
    /\ refHistory' = [refHistory EXCEPT ![r] = @ \cup {c}]
    /\ pushes' = pushes + 1
    /\ UNCHANGED <<cache, procVars, calls, evictions>>

(* All calls have been made and have returned.                            *)
Terminating ==
    /\ calls = MaxCalls
    /\ \A p \in Procs : pc[p] \in {"idle", "done"}
    /\ UNCHANGED vars

Next ==
    \/ \E p \in Procs :
          \/ \E x \in Commitishes, m \in MinArgs : Log(p, x, m)
          \/ ReadCache(p)
          \/ ReadCacheFailure(p)
          \/ FetchGitiles(p)
          \/ WriteCache(p)
          \/ WriteCacheSet(p)
    \/ \E k \in Keys : Evict(k)
    \/ \E r \in Refs, c \in RefCommits : MoveRef(r, c)
    \/ Terminating

(* A goroutine inside Log() keeps running; memcache and gitiles errors,   *)
(* evictions, pushes and new calls are never forced.                      *)
Fairness ==
    \A p \in Procs :
        /\ WF_vars(ReadCache(p))
        /\ WF_vars(FetchGitiles(p))
        /\ WF_vars(WriteCache(p))
        /\ WF_vars(WriteCacheSet(p))

Spec == Init /\ [][Next]_vars /\ Fairness

-----------------------------------------------------------------------------
(* Properties.                                                            *)

TypeOK ==
    /\ cache \in [Keys -> Value \cup {Missing}]
    /\ refTarget \in [Refs -> Commits]
    /\ refHistory \in [Refs -> SUBSET Commits]
    /\ pc \in [Procs -> {"idle", "read", "fetch", "write", "set", "done"}]
    /\ commitish \in [Procs -> Keys \cup {None}]
    /\ min \in [Procs -> 0..PageSize]
    /\ e \in [Procs -> Keys \cup {None}]
    /\ dist \in [Procs -> 0..PageSize - 1]
    /\ cacheResult \in [Procs -> CacheResults \cup {""}]
    /\ res \in [Procs -> Seq(Commits)]
    /\ \A p \in Procs : probed[p] \in [DOMAIN probed[p] -> Value \cup {Missing}]
    /\ \A p \in Procs : ret[p] \in {Err, Panic, None} \/ ret[p] \in Seq(Commits)
    /\ calls \in 0..MaxCalls
    /\ evictions \in 0..MaxEvictions
    /\ pushes \in 0..MaxPushes

(* The log of c, d positions down the log of its descendant id, is the    *)
(* log of c: what a pointer entry at c promises.                          *)
IsAncestorAt(c, id, d) ==
    /\ d < Len(History[id])
    /\ SubSeq(History[id], d + 1, Len(History[id])) = History[c]

(* Every entry readCache can decode is true: a log under a hash is the    *)
(* first page of that commit's history, a log under a ref that of a       *)
(* commit the ref pointed to, and a pointer under commit c names a        *)
(* descendant whose history continues, d positions down, with c's.  This  *)
(* is what writeCache's single-parent loop and its distances must keep    *)
(* under concurrent writers, partial Sets and evictions.                  *)
CacheConsistent ==
    \A k \in Keys :
        LET v == cache[k] IN
        \/ v \in {Missing, Empty} \cup JunkValues
        \/ /\ v.payload = "log"
           /\ k \in HashKeys => v.log = GitilesLog(k[1])
           /\ k \in Refs => \E t \in refHistory[k] : v.log = GitilesLog(t)
        \/ /\ v.payload = "id"
           /\ k \in HashKeys
           /\ v.meta \in 1..PageSize - 1
           /\ IsAncestorAt(k[1], v.id, v.meta)

(* Log() never panics, and what it returns is the history of what was     *)
(* asked for: for a hash, a prefix of that commit's history, whether it   *)
(* came from gitiles, a direct entry or a chain of pointers sliced by     *)
(* readCache; for a ref, the first page of a commit the ref pointed to.   *)
ResultIsHistory ==
    \A p \in Procs :
        pc[p] = "done" /\ ret[p] \notin {Err, None} =>
            /\ ret[p] # Panic
            /\ IsHash(commitish[p]) => IsPrefix(ret[p], History[commitish[p][1]])
            /\ commitish[p] \in Refs =>
                  \E t \in refHistory[commitish[p]] : ret[p] = GitilesLog(t)

(* For a hash, Log() returns at least min commits, or the whole history   *)
(* when it is shorter: the distance budget 100 - min of readCache must    *)
(* cut every pointer chain that would leave fewer.                        *)
ResultLongEnough ==
    \A p \in Procs :
        pc[p] = "done" /\ ret[p] \notin {Err, None, Panic} /\ IsHash(commitish[p]) =>
            Len(ret[p]) >= IF min[p] < Len(History[Target(p)])
                           THEN min[p] ELSE Len(History[Target(p)])

(* Every pointer writeCache is about to store names a commit whose direct *)
(* entry is stored by the same batch, so a chase along it can end in a    *)
(* hit (log.go's format comment: the descendant's entry is reachable).    *)
PointerTargetInBatch ==
    \A p \in Procs :
        pc[p] = "set" =>
            \A it \in PointerEntries(p) :
                \E d \in DirectEntries(p) : d[1] = HexKey(it[2].id)

(* Spec P5: storing a pointer never replaces an entry whose distance is   *)
(* already at most the new one (a direct entry has distance 0).           *)
NoPointerRegression ==
    [][\A k \in HashKeys :
         (/\ cache'[k] # cache[k]
          /\ cache'[k] \notin {Missing, Empty}
          /\ cache'[k].payload = "id"
          /\ cache[k] \notin {Missing, Empty}
          /\ cache[k].payload \in {"log", "id"})
         => cache'[k].meta < cache[k].meta]_cache

(* Every Log() call returns: readCache's pointer chase ends even on       *)
(* pointers that lead back to where it started, because every hop adds    *)
(* its distance to dist and the loop stops once dist passes maxDist.      *)
CallsReturn ==
    \A p \in Procs : pc[p] \in {"read", "fetch", "write", "set"} ~> pc[p] = "done"

=============================================================================
