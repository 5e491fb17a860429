------------------------------ MODULE ServeCache -------------------------------
(***************************************************************************)
(* The response cache of the HTTP server (main.rs).  A body is served      *)
(* fresh within its TTL, stale for a while longer with a refresh behind    *)
(* it, and otherwise built while the caller waits, one build per key       *)
(* under that key's lock.  The map of locks is itself swept.  The galaxy   *)
(* bodies are also rebuilt by a timer, outside the locks.                  *)
(***************************************************************************)
EXTENDS Integers, FiniteSets, FiniteSetsExt

CONSTANTS
    CacheKeys,   \* resources
    WarmKeys,    \* the galaxy bodies, rebuilt by the keep-warm task
    Workers,     \* slots for requests and refreshes under way
    Ttl,         \* the key's TTL
    StaleMax,    \* STALE_SERVE_MAX
    SweepAge,    \* age at which the sweep drops a body
    CacheMax,    \* MAX of evict_cache_if_large
    CacheKeep,   \* KEEP of evict_cache_if_large
    MaxClock,    \* bound: clock
    MaxVersion   \* bound: changes of the store

ASSUME CacheAssumption == IsFiniteSet(CacheKeys) /\ IsFiniteSet(Workers)

VARIABLES
    version,    \* state of the store; a build sees one version
    cache,      \* key -> option of [at, ver]
    locks,      \* build_locks: key -> lock in the map, 0 for none
    workers,    \* request and refresh tasks
    warming,    \* the keep-warm task: option of [key, ver]
    settled,    \* key -> newest version a build has put or a refresh found missing
    clock

scvars == <<version, cache, locks, workers, warming, settled, clock>>

NoTask == [pc |-> "free", key |-> "none", kind |-> "none", lock |-> 0, ver |-> 0]
Entry(k) == CHOOSE e \in cache[k] : TRUE
Fresh(k) == cache[k] # {} /\ clock - Entry(k).at < Ttl
Stale(k) == /\ cache[k] # {} /\ ~Fresh(k)
            /\ clock - Entry(k).at < Ttl + StaleMax
Held(l) == \E w \in Workers : workers[w].lock = l /\ workers[w].pc \in {"build", "insert"}

\* A lock no task has: identities of dropped locks are used again.
NewLock ==
    Min({l \in 1..(Cardinality(Workers) + Cardinality(CacheKeys)) :
           /\ \A k \in CacheKeys : locks[k] # l
           /\ \A w \in Workers : workers[w].lock # l})

\* evict_cache_if_large: above CacheMax entries only the newest CacheKeep stay.
Evict(c) ==
    LET full  == {k \in CacheKeys : c[k] # {}}
        at(k) == (CHOOSE e \in c[k] : TRUE).at
    IN  IF Cardinality(full) <= CacheMax THEN {c}
        ELSE {[k \in CacheKeys |-> IF k \in keep THEN c[k] ELSE {}] :
                keep \in {s \in kSubset(CacheKeep, full) :
                            \A x \in s, y \in full \ s : at(x) >= at(y)}}
-----------------------------------------------------------------------------
CacheInit ==
    /\ version = 0 /\ clock = 0
    /\ cache = [k \in CacheKeys |-> {}] /\ locks = [k \in CacheKeys |-> 0]
    /\ workers = [w \in Workers |-> NoTask]
    /\ warming = {}
    /\ settled = [k \in CacheKeys |-> 0]

StoreChanges ==
    /\ version < MaxVersion
    /\ version' = version + 1
    /\ UNCHANGED <<cache, locks, workers, warming, settled, clock>>

CacheTick ==
    /\ clock < MaxClock
    /\ clock' = clock + 1
    /\ UNCHANGED <<version, cache, locks, workers, warming, settled>>

\* serve_cached: a stale body is answered and refreshed behind; a cold key
\* waits.  A fresh body is answered and changes nothing.
Request(w, k) ==
    /\ workers[w].pc = "free" /\ ~Fresh(k)
    /\ workers' = [workers EXCEPT ![w] =
         [NoTask EXCEPT !.pc = "lock", !.key = k,
                        !.kind = IF Stale(k) THEN "refresh" ELSE "request"]]
    /\ UNCHANGED <<version, cache, locks, warming, settled, clock>>

\* The key's lock is taken out of the map, created when absent.
FindLock(w) ==
    LET k == workers[w].key
    IN  /\ workers[w].pc = "lock"
        /\ IF locks[k] = 0
           THEN locks' = [locks EXCEPT ![k] = NewLock] ELSE UNCHANGED locks
        /\ workers' = [workers EXCEPT ![w].pc = "acquire", ![w].lock = locks'[k]]
        /\ UNCHANGED <<version, cache, warming, settled, clock>>

\* Mutant form: a refresh does not look whether the key is being built.
RefreshAnyway(w) ==
    ~Held(workers[w].lock) \/ workers[w].kind = "refresh"

MayBuild(w) == ~Held(workers[w].lock)

\* lock().await for a request, which then looks again; try_lock for a refresh,
\* which gives up when the key is being built.
Acquire(w) ==
    /\ workers[w].pc = "acquire"
    /\ \/ /\ MayBuild(w)
          /\ workers' = [workers EXCEPT ![w] =
               IF @.kind = "request" /\ Fresh(@.key) THEN NoTask ELSE [@ EXCEPT !.pc = "build"]]
       \/ /\ workers[w].kind = "refresh" /\ ~MayBuild(w)
          /\ workers' = [workers EXCEPT ![w] = NoTask]
    /\ UNCHANGED <<version, cache, locks, warming, settled, clock>>

\* The build reads the store on the blocking pool.
Build(w) ==
    /\ workers[w].pc = "build"
    /\ workers' = [workers EXCEPT ![w].pc = "insert", ![w].ver = version]
    /\ UNCHANGED <<version, cache, locks, warming, settled, clock>>

Settle(w) == settled' = [settled EXCEPT ![workers[w].key] = Max({@, workers[w].ver})]

\* The map of locks is pruned in passing only when it is large.
Insert1(w) ==
    /\ workers[w].pc = "insert"
    /\ \E c \in Evict(cache) :
         cache' = [c EXCEPT ![workers[w].key] = {[at |-> clock, ver |-> workers[w].ver]}]
    /\ Settle(w)
    /\ workers' = [workers EXCEPT ![w] = NoTask]
    /\ UNCHANGED <<version, locks, warming, clock>>

\* The resource does not exist: a refresh drops its body, a request answers 404.
Missing(w) ==
    /\ workers[w].pc = "insert"
    /\ IF workers[w].kind = "refresh"
       THEN cache' = [cache EXCEPT ![workers[w].key] = {}] /\ Settle(w)
       ELSE UNCHANGED <<cache, settled>>
    /\ workers' = [workers EXCEPT ![w] = NoTask]
    /\ UNCHANGED <<version, locks, warming, clock>>

\* A build that fails, and a client that hangs up: the handler is dropped and
\* its lock with it, whatever the detached build still does is lost.
Abandon(w) ==
    /\ \/ workers[w].pc = "insert"
       \/ workers[w].kind = "request" /\ workers[w].pc # "free"
    /\ workers' = [workers EXCEPT ![w] = NoTask]
    /\ UNCHANGED <<version, cache, locks, warming, settled, clock>>

WarmBuild ==
    /\ warming = {}
    /\ \E k \in WarmKeys : warming' = {[key |-> k, ver |-> version]}
    /\ UNCHANGED <<version, cache, locks, workers, settled, clock>>

WarmInsert ==
    /\ \E x \in warming :
         cache' = [cache EXCEPT ![x.key] = {[at |-> clock, ver |-> x.ver]}]
    /\ warming' = {}
    /\ UNCHANGED <<version, locks, workers, settled, clock>>

\* Mutant form: the sweep forgets every lock, those in use too.
AllLocks == {k \in CacheKeys : locks[k] # 0}

\* strong_count = 1: no task holds the key's lock or waits for it.
UnusedLocks ==
    {k \in CacheKeys : locks[k] # 0 /\ \A w \in Workers : workers[w].lock # locks[k]}

Sweep ==
    /\ \E c \in Evict([k \in CacheKeys |->
                         IF cache[k] # {} /\ clock - Entry(k).at >= SweepAge THEN {} ELSE cache[k]]) :
         cache' = c
    /\ locks' = [k \in CacheKeys |-> IF k \in UnusedLocks THEN 0 ELSE locks[k]]
    /\ UNCHANGED <<version, workers, warming, settled, clock>>

CacheNext ==
    \/ StoreChanges \/ CacheTick \/ WarmBuild \/ WarmInsert \/ Sweep
    \/ \E w \in Workers : \/ \E k \in CacheKeys : Request(w, k)
                          \/ FindLock(w) \/ Acquire(w) \/ Build(w)
                          \/ Insert1(w) \/ Missing(w) \/ Abandon(w)

CacheSpec == CacheInit /\ [][CacheNext]_scvars
-----------------------------------------------------------------------------
\* What is served for a key never goes back to an older state of the store
\* once a newer one is in the cache, and a resource that a refresh found gone
\* does not come back from an older build: single-flight survives sweeps, refreshes and
\* clients that hang up (serve_cached).  The galaxy bodies are not held to it:
\* keep-warm writes them without the lock.
BodiesMoveForward ==
    \A k \in CacheKeys \ WarmKeys :
      Fresh(k) \/ Stale(k) => Entry(k).ver >= settled[k]
================================================================================
