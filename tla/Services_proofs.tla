--------------------------- MODULE Services_proofs ---------------------------
(***************************************************************************)
(* The services around the index, for every value of the bounds: the       *)
(* archive is kept and written by one handle at a time, a cached body      *)
(* never goes back, the holder lane stays within its bounds, listed art is *)
(* earned, a published report is true of the two books, a version gate     *)
(* vouches only for work that is done, and a published schedule is the     *)
(* chain's own.                                                            *)
(***************************************************************************)
EXTENDS ListedTokens, StoreUpkeep, Consistency, Witness, HolderLane, StoreAccess, ServeCache, FiniteSetTheorems, WellFoundedInduction, TLAPS

-----------------------------------------------------------------------------
(* Access to the store: any requests, readers, commits, crashes and losses *)

(* The inductive invariant *)

Files == [state : {"absent", "legacy", "ready"}, commit : Int, fresh : {"yes", "no"}]

\* Whoever can write is the owner of the lock file; so nobody can while it is
\* free, and an owner that takes it finds nobody.
OwnerWrites == Writers \subseteq {lease}

\* A worker that is up found an archive or was told to make one.
Found == worker # "down" => file.state # "absent"

\* A pooled handler reads.
OnlyListsWrite == \A r \in Asked : request[r] = "writing" => r \in ListRequests

FreshKept == file.fresh = "yes" => FreshOk = "yes"

AInv ==
    /\ file \in Files
    /\ DOMAIN request = Asked /\ OnlyListsWrite
    /\ OwnerWrites /\ Found /\ FreshKept
    /\ target.state # "torn"

-----------------------------------------------------------------------------
(* The lease *)

\* Nobody writes while the lock file is free.
LEMMA FreeMeansNobody == OwnerWrites /\ lease = "free" => Writers = {}
  BY NamesAssumption DEF OwnerWrites, Writers, Roles

\* At most one member, in terms of the cardinality the property is stated in.
LEMMA AtMostOne == ASSUME NEW S, NEW x, S \subseteq {x} PROVE Cardinality(S) <= 1
  <1>1. IsFiniteSet({x}) /\ Cardinality({x}) = 1
    BY FS_Singleton
  <1> QED
    BY <1>1, FS_Subset, FS_CardinalityType

\* What the writers are is told by four variables.
LEMMA WritersFrame ==
    ASSUME UNCHANGED <<session, worker, command>>,
           \A r \in ListRequests : request'[r] = "writing" <=> request[r] = "writing"
    PROVE  Writers' = Writers
  BY DEF Writers

\* A handle that takes the free lock file becomes the only writer.
LEMMA TakerIsAlone ==
    ASSUME NEW owner, OwnerWrites, WriterLease(owner), Writers' \subseteq Writers \cup {owner}
    PROVE  OwnerWrites'
  BY FreeMeansNobody DEF OwnerWrites, WriterLease

\* An owner that gives the lock file back was the only writer.
LEMMA NobodyAfter ==
    ASSUME NEW owner, OwnerWrites, owner \in Writers, Writers' \subseteq Writers \ {owner}
    PROVE  OwnerWrites'
  BY DEF OwnerWrites

-----------------------------------------------------------------------------
(* Opening a file *)

\* Opening leaves a file behind, and one that was there as it was.
LEMMA OpenedFile ==
    ASSUME file \in Files
    PROVE  /\ Created \in Files /\ Created.state # "absent"
           /\ file.state # "absent" => Created = file
           /\ [Created EXCEPT !.fresh = file.fresh] \in Files
           /\ [Created EXCEPT !.fresh = file.fresh].state # "absent"
           /\ [Created EXCEPT !.fresh = file.fresh].fresh = file.fresh
  <1>1. CASE file.state = "absent"
    BY <1>1 DEF Created, Files
  <1>2. CASE file.state # "absent"
    BY <1>2 DEF Created, Files
  <1> QED
    BY <1>1, <1>2

-----------------------------------------------------------------------------
(* One step per action *)

\* At the start nobody writes and no file was made.
LEMMA AccessStarts == AccessInit => AInv
  <1> SUFFICES ASSUME AccessInit PROVE AInv
    OBVIOUS
  <1>1. Writers = {}
    BY DEF AccessInit, Writers, Asked
  <1> QED
    BY <1>1 DEF AccessInit, AInv, OnlyListsWrite, OwnerWrites, Found, FreshKept, Files

\* The probe and the follower take the lock file under serve.
LEMMA ServeKeeps == AInv /\ (BootProbe \/ Serve \/ FollowerOpens \/ FollowerRefused \/ SessionEnds) => AInv'
  <1> SUFFICES ASSUME AInv, BootProbe \/ Serve \/ FollowerOpens \/ FollowerRefused \/ SessionEnds
               PROVE AInv'
    OBVIOUS
  <1> USE DEF AInv, OnlyListsWrite
  <1>1. CASE BootProbe
    <2>1. Writers' \subseteq Writers \cup {"probe"}
      BY <1>1 DEF BootProbe, Writers
    <2>2. OwnerWrites'
      BY <1>1, <2>1, TakerIsAlone DEF BootProbe
    <2>3. FreshKept'
      BY <1>1, OpenedFile DEF BootProbe, ProbePolicy, FreshKept
    <2> QED
      BY <1>1, <2>2, <2>3, OpenedFile DEF BootProbe, Found
  <1>2. CASE Serve
    <2>1. "probe" \in Writers
      BY <1>2 DEF Serve, Writers
    <2>2. Writers' \subseteq Writers \ {"probe"}
      BY <1>2, NamesAssumption DEF Serve, Writers, Roles
    <2>3. OwnerWrites'
      BY <2>1, <2>2, NobodyAfter
    <2> QED
      BY <1>2, <2>3 DEF Serve, Found, FreshKept
  <1>3. CASE FollowerOpens
    <2>1. Writers' \subseteq Writers \cup {"follower"}
      BY <1>3 DEF FollowerOpens, Writers
    <2>2. OwnerWrites'
      BY <1>3, <2>1, TakerIsAlone DEF FollowerOpens
    <2>3. file' = file
      BY <1>3, OpenedFile DEF FollowerOpens, Found
    <2> QED
      BY <1>3, <2>2, <2>3 DEF FollowerOpens, Found, FreshKept
  <1>4. CASE FollowerRefused
    <2>1. Writers' = Writers
      BY <1>4 DEF FollowerRefused, Writers
    <2> QED
      BY <1>4, <2>1 DEF FollowerRefused, OwnerWrites, Found, FreshKept
  <1>5. CASE SessionEnds
    <2>1. "follower" \in Writers
      BY <1>5 DEF SessionEnds, Writers
    <2>2. Writers' \subseteq Writers \ {"follower"}
      BY <1>5, NamesAssumption DEF SessionEnds, Writers, Roles
    <2>3. OwnerWrites'
      BY <2>1, <2>2, NobodyAfter
    <2> QED
      BY <1>5, <2>3 DEF SessionEnds, Found, FreshKept
  <1> QED
    BY <1>1, <1>2, <1>3, <1>4, <1>5

\* A list request takes the lock file while a worker is up, a pooled one never.
LEMMA RequestKeeps ==
    ASSUME NEW r \in Asked, AInv,
           \/ ListOpens(r) \/ ListRefused(r) \/ ListAnswers(r)
           \/ CheckOut(r) \/ CheckOutTimesOut(r) \/ PooledAnswers(r)
    PROVE  AInv'
  <1> USE DEF AInv, OnlyListsWrite
  <1>1. CASE ListOpens(r)
    <2>1. Writers' \subseteq Writers \cup {r}
      BY <1>1 DEF ListOpens, Writers, Asked
    <2>2. OwnerWrites'
      BY <1>1, <2>1, TakerIsAlone DEF ListOpens
    <2>3. file' = file
      BY <1>1, OpenedFile DEF ListOpens, Found
    <2> QED
      BY <1>1, <2>2, <2>3 DEF ListOpens, Found, FreshKept
  <1>2. CASE ListAnswers(r) /\ r \in ListRequests
    <2>1. r \in Writers
      BY <1>2 DEF ListAnswers, Writers
    <2>2. Writers' \subseteq Writers \ {r}
      BY <1>2, NamesAssumption DEF ListAnswers, Writers, Roles, Asked
    <2>3. OwnerWrites'
      BY <2>1, <2>2, NobodyAfter
    <2> QED
      BY <1>2, <2>3 DEF ListAnswers, Found, FreshKept
  <1>3. CASE ListRefused(r) \/ CheckOut(r) \/ CheckOutTimesOut(r) \/ PooledAnswers(r)
    <2>1. /\ UNCHANGED <<lease, file, worker, session, command, copy, target, losses>>
          /\ request' = [request EXCEPT ![r] = request'[r]]
          /\ request[r] # "writing" /\ request'[r] # "writing"
      BY <1>3 DEF ListRefused, CheckOut, CheckOutTimesOut, PooledAnswers
    <2>2. Writers' = Writers
      BY <2>1, WritersFrame DEF Asked
    <2> QED
      BY <2>1, <2>2 DEF OwnerWrites, Found, FreshKept
  <1> QED
    BY <1>1, <1>2, <1>3 DEF ListAnswers

\* Commands take the lock file as the worker does, whether one runs or not.
LEMMA CommandKeeps == AInv /\ (CommandOpens \/ CommandEnds \/ Commits) => AInv'
  <1> SUFFICES ASSUME AInv, CommandOpens \/ CommandEnds \/ Commits
               PROVE AInv'
    OBVIOUS
  <1> USE DEF AInv, OnlyListsWrite
  <1>1. CASE CommandOpens
    <2>1. Writers' \subseteq Writers \cup {"command"}
      BY <1>1 DEF CommandOpens, Writers
    <2>2. OwnerWrites'
      BY <1>1, <2>1, TakerIsAlone DEF CommandOpens
    <2> QED
      BY <1>1, <2>2, OpenedFile DEF CommandOpens, Found, FreshKept
  <1>2. CASE CommandEnds
    <2>1. "command" \in Writers
      BY <1>2 DEF CommandEnds, Writers
    <2>2. Writers' \subseteq Writers \ {"command"}
      BY <1>2, NamesAssumption DEF CommandEnds, Writers, Roles
    <2>3. OwnerWrites'
      BY <2>1, <2>2, NobodyAfter
    <2> QED
      BY <1>2, <2>3 DEF CommandEnds, Found, FreshKept, Files
  <1>3. CASE Commits
    <2>1. Writers' = Writers
      BY <1>3 DEF Commits, Writers
    <2> QED
      BY <1>3, <2>1 DEF Commits, OwnerWrites, Found, FreshKept, Files
  <1> QED
    BY <1>1, <1>2, <1>3

\* A backup reads, and only the rename touches what stands at the target.
LEMMA BackupKeeps == AInv /\ (BackupStarts \/ BackupSteps \/ BackupRenames \/ BackupDies) => AInv'
  <1> SUFFICES ASSUME AInv, BackupStarts \/ BackupSteps \/ BackupRenames \/ BackupDies
               PROVE AInv'
    OBVIOUS
  <1> USE DEF AInv
  <1>1. /\ UNCHANGED <<lease, file, worker, session, request, command>>
        /\ target'.state # "torn"
    BY DEF BackupStarts, BackupSteps, BackupRenames, BackupDies, TargetAfterStep
  <1>2. Writers' = Writers
    BY <1>1 DEF Writers
  <1> QED
    BY <1>1, <1>2 DEF OnlyListsWrite, OwnerWrites, Found, FreshKept

\* A process that dies gives back its own lease and no other.
LEMMA LossKeeps == AInv /\ (WorkerDies \/ CommandDies \/ FileLost) => AInv'
  <1> SUFFICES ASSUME AInv, WorkerDies \/ CommandDies \/ FileLost
               PROVE AInv'
    OBVIOUS
  <1> USE DEF AInv, OnlyListsWrite
  <1>1. CASE WorkerDies
    <2>1. Writers' = IF command = "open" THEN {"command"} ELSE {}
      BY <1>1 DEF WorkerDies, Writers, Asked
    <2>2. command = "open" => lease = "command"
      BY DEF OwnerWrites, Writers
    <2>3. OwnerWrites'
      BY <1>1, <2>1, <2>2 DEF WorkerDies, OwnerWrites
    <2> QED
      BY <1>1, <2>3 DEF WorkerDies, Found, FreshKept
  <1>2. CASE CommandDies
    <2>1. "command" \in Writers
      BY <1>2 DEF CommandDies, Writers
    <2>2. Writers' \subseteq Writers \ {"command"}
      BY <1>2, NamesAssumption DEF CommandDies, Writers, Roles
    <2>3. OwnerWrites'
      BY <2>1, <2>2, NobodyAfter
    <2> QED
      BY <1>2, <2>3 DEF CommandDies, Found, FreshKept
  <1>3. CASE FileLost
    <2>1. Writers' = Writers
      BY <1>3 DEF FileLost, Writers
    <2> QED
      BY <1>3, <2>1 DEF FileLost, OwnerWrites, Found, FreshKept, Files
  <1> QED
    BY <1>1, <1>2, <1>3

-----------------------------------------------------------------------------
\* Every step of a process, a request or a crash keeps the invariant.
LEMMA AccessKeeps == AInv /\ [AccessNext]_savars => AInv'
  <1> SUFFICES ASSUME AInv, [AccessNext]_savars PROVE AInv'
    OBVIOUS
  <1>1. CASE BootProbe \/ Serve \/ FollowerOpens \/ FollowerRefused \/ SessionEnds
    BY <1>1, ServeKeeps
  <1>2. ASSUME NEW r \in Asked,
               \/ ListOpens(r) \/ ListRefused(r) \/ ListAnswers(r)
               \/ CheckOut(r) \/ CheckOutTimesOut(r) \/ PooledAnswers(r)
        PROVE  AInv'
    BY <1>2, RequestKeeps
  <1>3. CASE CommandOpens \/ CommandEnds \/ Commits
    BY <1>3, CommandKeeps
  <1>4. CASE BackupStarts \/ BackupSteps \/ BackupRenames \/ BackupDies
    BY <1>4, BackupKeeps
  <1>5. CASE WorkerDies \/ CommandDies \/ FileLost
    BY <1>5, LossKeeps
  <1>6. CASE UNCHANGED savars
    <2>1. Writers' = Writers
      BY <1>6 DEF savars, Writers
    <2> QED
      BY <1>6, <2>1 DEF savars, AInv, OnlyListsWrite, OwnerWrites, Found, FreshKept
  <1> QED
    BY <1>1, <1>2, <1>3, <1>4, <1>5, <1>6 DEF AccessNext

\* For any requests, pool and number of crashes and losses: at most one handle
\* writes, an empty archive is made by the serve process only when it was told
\* to, and a backup is whole (writer.rs, open_with_policy, backup_to).
THEOREM ArchiveIsKept == AccessSpec => []ArchiveKept
  <1>1. AInv /\ [AccessNext]_savars => AInv'
    BY AccessKeeps
  <1>2. AInv => ArchiveKept
    BY AtMostOne DEF AInv, OwnerWrites, FreshKept, ArchiveKept
  <1> QED
    BY AccessStarts, <1>1, <1>2, PTL DEF AccessSpec

-----------------------------------------------------------------------------
(* Response cache: any keys, tasks, sweeps and changes of the store *)

(* The inductive invariant *)

Tasks == [pc : {"free", "lock", "acquire", "build", "insert"}, key : CacheKeys \cup {"none"},
          kind : {"none", "refresh", "request"}, lock : Nat, ver : Nat]

CacheTypes ==
    /\ version \in Nat
    /\ DOMAIN cache = CacheKeys
    /\ locks \in [CacheKeys -> Nat]
    /\ workers \in [Workers -> Tasks]
    /\ settled \in [CacheKeys -> Nat]

\* A task has the lock the map holds for its key, or none yet; so nothing
\* takes that lock out of the map while the task lives.
LocksInMap ==
    \A w \in Workers :
      /\ workers[w].pc # "free" => workers[w].key \in CacheKeys
      /\ workers[w].pc \in {"free", "lock"} => workers[w].lock = 0
      /\ workers[w].pc \in {"acquire", "build", "insert"} =>
           workers[w].lock # 0 /\ locks[workers[w].key] = workers[w].lock

\* No lock serves two keys.
LocksApart == \A j, k \in CacheKeys : locks[j] = locks[k] /\ locks[k] # 0 => j = k

Building(w) == workers[w].pc \in {"build", "insert"}

SingleFlight ==
    \A v, w \in Workers : Building(v) /\ Building(w) /\ workers[v].key = workers[w].key => v = w

\* A finished build saw at least what was settled for its key before.
BuildsAreNewer ==
    /\ \A k \in CacheKeys : settled[k] <= version
    /\ \A w \in Workers : workers[w].pc = "insert" =>
         settled[workers[w].key] <= workers[w].ver /\ workers[w].ver <= version

CachedIsSettled ==
    \A k \in CacheKeys \ WarmKeys : \A e \in cache[k] : e.ver \in Nat /\ e.ver >= settled[k]

\* Keep-warm writes the galaxy bodies and no other.
WarmsOnlyWarm == \A x \in warming : x.key \in WarmKeys

CacheInv ==
    WarmsOnlyWarm /\ CacheTypes /\ LocksInMap /\ LocksApart /\ SingleFlight /\ BuildsAreNewer /\ CachedIsSettled

-----------------------------------------------------------------------------
(* Numbers *)

\* Every set of numbers with a member has a least one.
LEMMA LeastNumber ==
    ASSUME NEW T \in SUBSET Nat, T # {}
    PROVE  Min(T) \in T
  <1>1. PICK x \in T : \A y \in T : <<y, x>> \notin OpToRel(<, Nat)
    BY NatLessThanWellFounded, WFMin
  <1>2. \A y \in T : x <= y
    <2> SUFFICES ASSUME NEW y \in T PROVE x <= y
      OBVIOUS
    <2>1. x \in Nat /\ y \in Nat
      OBVIOUS
    <2>2. ~(y < x)
      BY <1>1, <2>1 DEF OpToRel
    <2> QED
      BY <2>1, <2>2
  <1> QED
    BY <1>2 DEF Min

\* The newer of two versions.
LEMMA NewerOf ==
    ASSUME NEW a \in Nat, NEW b \in Nat
    PROVE  Max({a, b}) = IF a >= b THEN a ELSE b
  <1>1. CASE a >= b
    <2>1. \A x \in {a, b} : (\A y \in {a, b} : x >= y) <=> x = a
      BY <1>1
    <2> QED
      BY <1>1, <2>1 DEF Max
  <1>2. CASE ~(a >= b)
    <2>1. \A x \in {a, b} : (\A y \in {a, b} : x >= y) <=> x = b
      BY <1>2
    <2> QED
      BY <1>2, <2>1 DEF Max
  <1> QED
    BY <1>1, <1>2

-----------------------------------------------------------------------------
(* Locks *)

\* The values of a function are no more than its arguments.
LEMMA FewValues ==
    ASSUME NEW S, NEW f, DOMAIN f = S, IsFiniteSet(S)
    PROVE  /\ IsFiniteSet({f[x] : x \in S})
           /\ Cardinality({f[x] : x \in S}) <= Cardinality(S)
           /\ Cardinality({f[x] : x \in S}) \in Nat
  <1> DEFINE T == {f[x] : x \in S}
             g == [x \in S |-> f[x]]
  <1>1. g \in Surjection(S, T)
    BY DEF Surjection
  <1> QED
    BY <1>1, FS_Surjection, FS_CardinalityType

\* A key without a lock leaves one to be given out.
LEMMA FreshLock ==
    ASSUME CacheInv, NEW k \in CacheKeys, locks[k] = 0
    PROVE  /\ NewLock \in Nat \ {0}
           /\ \A j \in CacheKeys : locks[j] # NewLock
           /\ \A w \in Workers : workers[w].lock # NewLock
  <1> DEFINE N == Cardinality(Workers) + Cardinality(CacheKeys)
             ofKeys == {locks[j] : j \in CacheKeys}
             taskLock == [w \in Workers |-> workers[w].lock]
             ofTasks == {taskLock[w] : w \in Workers}
             used == ofKeys \cup ofTasks
             free == {l \in 1..N : /\ \A j \in CacheKeys : locks[j] # l
                                   /\ \A w \in Workers : workers[w].lock # l}
  <1>1. Cardinality(Workers) \in Nat /\ Cardinality(CacheKeys) \in Nat
    BY CacheAssumption, FS_CardinalityType
  <1>2. /\ IsFiniteSet(ofKeys) /\ Cardinality(ofKeys) \in Nat
        /\ Cardinality(ofKeys) <= Cardinality(CacheKeys)
    BY CacheAssumption, FewValues DEF CacheInv, CacheTypes
  <1>3. /\ IsFiniteSet(ofTasks) /\ Cardinality(ofTasks) \in Nat
        /\ Cardinality(ofTasks) <= Cardinality(Workers)
    <2>1. DOMAIN taskLock = Workers
      OBVIOUS
    <2> HIDE DEF taskLock
    <2> QED
      BY <2>1, CacheAssumption, FewValues
  <1>4. IsFiniteSet(used) /\ Cardinality(used) \in Nat /\ Cardinality(used) <= N
    <2>1. /\ IsFiniteSet(used)
          /\ Cardinality(used) = Cardinality(ofKeys) + Cardinality(ofTasks) - Cardinality(ofKeys \cap ofTasks)
      BY <1>2, <1>3, FS_Union
    <2>2. IsFiniteSet(ofKeys \cap ofTasks)
      BY <1>2, FS_Subset
    <2>3. Cardinality(ofKeys \cap ofTasks) \in Nat /\ Cardinality(used) \in Nat
      BY <2>1, <2>2, FS_CardinalityType
    <2> HIDE DEF ofKeys, ofTasks, used
    <2> QED
      BY <2>1, <2>3, <1>1, <1>2, <1>3
  <1>5. 0 \in used
    BY DEF CacheInv, CacheTypes
  <1>6. IsFiniteSet(used \ {0}) /\ Cardinality(used \ {0}) = Cardinality(used) - 1
    BY <1>4, <1>5, FS_RemoveElement
  <1>7. N \in Nat /\ IsFiniteSet(1..N) /\ Cardinality(1..N) = N
    <2>1. N \in Nat
      BY <1>1
    <2> HIDE DEF N
    <2> QED
      BY <2>1, FS_Interval
  <1>8. free # {}
    <2> SUFFICES ASSUME free = {} PROVE FALSE
      OBVIOUS
    <2>1. 1..N \subseteq used \ {0}
      <3> SUFFICES ASSUME NEW l \in 1..N PROVE l \in used /\ l # 0
        OBVIOUS
      <3> QED
        BY <1>7
    <2>2. Cardinality(1..N) <= Cardinality(used \ {0})
      BY <2>1, <1>6, FS_Subset
    <2> HIDE DEF N, used
    <2> QED
      BY <2>2, <1>4, <1>6, <1>7
  <1>9. free \in SUBSET Nat
    BY <1>7
  <1>10. NewLock = Min(free)
    BY DEF NewLock
  <1>11. NewLock \in free
    BY <1>8, <1>9, <1>10, LeastNumber
  <1> QED
    BY <1>11, <1>7

-----------------------------------------------------------------------------
(* Steps that put nothing in the cache *)

\* Eviction drops bodies and changes none.
LEMMA EvictDrops ==
    ASSUME NEW c, DOMAIN c = CacheKeys, NEW d \in Evict(c)
    PROVE  DOMAIN d = CacheKeys /\ \A k \in CacheKeys : d[k] = c[k] \/ d[k] = {}
  BY DEF Evict

\* Fewer bodies are no danger.
LEMMA FewerBodies ==
    ASSUME CachedIsSettled, settled' = settled,
           \A k \in CacheKeys : cache'[k] = cache[k] \/ cache'[k] = {}
    PROVE  CachedIsSettled'
  BY DEF CachedIsSettled

\* A cache that is empty holds nothing old.
LEMMA CacheStarts == CacheInit => CacheInv
  BY DEF CacheInit, CacheInv, CacheTypes, LocksInMap, LocksApart, SingleFlight, Building,
         BuildsAreNewer, CachedIsSettled, WarmsOnlyWarm, Tasks, NoTask

\* The store and the clock.
LEMMA TimeKeeps == CacheInv /\ (StoreChanges \/ CacheTick \/ UNCHANGED scvars) => CacheInv'
  <1> SUFFICES ASSUME CacheInv, StoreChanges \/ CacheTick \/ UNCHANGED scvars PROVE CacheInv'
    OBVIOUS
  <1>1. /\ UNCHANGED <<cache, locks, workers, warming, settled>>
        /\ version' \in Nat /\ version' >= version
    BY DEF StoreChanges, CacheTick, scvars, CacheInv, CacheTypes
  <1>2. /\ WarmsOnlyWarm' /\ CacheTypes' /\ LocksInMap' /\ LocksApart' /\ SingleFlight'
        /\ CachedIsSettled'
    BY <1>1 DEF CacheInv, WarmsOnlyWarm, CacheTypes, LocksInMap, LocksApart, SingleFlight,
                Building, CachedIsSettled, Tasks
  <1>3. BuildsAreNewer'
    BY <1>1 DEF CacheInv, CacheTypes, BuildsAreNewer, Tasks
  <1> QED
    BY <1>2, <1>3 DEF CacheInv

\* Keep-warm builds and inserts without the locks, but only its own keys.
LEMMA WarmKeeps == CacheInv /\ (WarmBuild \/ WarmInsert) => CacheInv'
  <1> SUFFICES ASSUME CacheInv, WarmBuild \/ WarmInsert PROVE CacheInv'
    OBVIOUS
  <1>1. /\ UNCHANGED <<version, locks, workers, settled>> /\ WarmsOnlyWarm'
        /\ DOMAIN cache' = CacheKeys /\ \A k \in CacheKeys \ WarmKeys : cache'[k] = cache[k]
    <2>1. CASE WarmBuild
      BY <2>1 DEF WarmBuild, WarmsOnlyWarm, CacheInv, CacheTypes
    <2>2. CASE WarmInsert
      BY <2>2 DEF WarmInsert, WarmsOnlyWarm, CacheInv, CacheTypes
    <2> QED
      BY <2>1, <2>2
  <1> QED
    BY <1>1 DEF CacheInv, CacheTypes, LocksInMap, LocksApart, SingleFlight, Building,
                BuildsAreNewer, CachedIsSettled, Tasks

\* The sweep drops old bodies, and locks that no task has.
LEMMA SweepKeeps == CacheInv /\ Sweep => CacheInv'
  <1> SUFFICES ASSUME CacheInv, Sweep PROVE CacheInv'
    OBVIOUS
  <1> DEFINE swept == [k \in CacheKeys |->
                         IF cache[k] # {} /\ clock - Entry(k).at >= SweepAge THEN {} ELSE cache[k]]
  <1>1. /\ UNCHANGED <<version, workers, warming, settled>> /\ cache' \in Evict(swept)
        /\ locks' = [k \in CacheKeys |-> IF k \in UnusedLocks THEN 0 ELSE locks[k]]
    BY DEF Sweep
  <1>2. DOMAIN cache' = CacheKeys /\ \A k \in CacheKeys : cache'[k] = swept[k] \/ cache'[k] = {}
    <2>1. DOMAIN swept = CacheKeys
      OBVIOUS
    <2> HIDE DEF swept
    <2> QED
      BY <1>1, <2>1, EvictDrops
  <1>3. \A k \in CacheKeys : swept[k] = cache[k] \/ swept[k] = {}
    OBVIOUS
  <1>4. CachedIsSettled'
    <2> HIDE DEF swept
    <2> QED
      BY <1>1, <1>2, <1>3, FewerBodies DEF CacheInv
  <1>5. CacheTypes' /\ LocksApart'
    BY <1>1, <1>2 DEF CacheInv, CacheTypes, LocksApart, Tasks
  <1>6. LocksInMap'
    BY <1>1 DEF CacheInv, CacheTypes, LocksInMap, UnusedLocks
  <1> QED
    BY <1>1, <1>4, <1>5, <1>6 DEF CacheInv, CacheTypes, WarmsOnlyWarm, SingleFlight, Building, BuildsAreNewer

-----------------------------------------------------------------------------
(* Steps of a task *)

\* A task that ends, or that has not yet a lock, disturbs no other.
LEMMA IdleKeeps ==
    ASSUME CacheInv, NEW w \in Workers, NEW task \in Tasks,
           task.pc \in {"free", "lock"}, task.lock = 0,
           task.pc = "lock" => task.key \in CacheKeys,
           workers' = [workers EXCEPT ![w] = task],
           UNCHANGED <<version, cache, locks, warming, settled>>
    PROVE  CacheInv'
  <1>1. CacheTypes' /\ WarmsOnlyWarm' /\ LocksApart' /\ CachedIsSettled'
    BY DEF CacheInv, CacheTypes, WarmsOnlyWarm, LocksApart, CachedIsSettled, Tasks
  <1>2. /\ \A v \in Workers : workers'[v] = IF v = w THEN task ELSE workers[v]
        /\ ~Building(w)'
    BY DEF CacheInv, CacheTypes, Building
  <1>3. LocksInMap'
    BY <1>2 DEF CacheInv, LocksInMap
  <1>4. SingleFlight'
    BY <1>2 DEF CacheInv, SingleFlight, Building
  <1>5. BuildsAreNewer'
    BY <1>2 DEF CacheInv, BuildsAreNewer
  <1> QED
    BY <1>1, <1>3, <1>4, <1>5 DEF CacheInv

\* NoTask is such a task.
LEMMA NoTaskIdle == NoTask \in Tasks /\ NoTask.pc = "free" /\ NoTask.lock = 0
  BY DEF NoTask, Tasks

\* A request or a refresh that begins.
LEMMA RequestBegins ==
    ASSUME CacheInv, NEW w \in Workers, NEW k \in CacheKeys, Request(w, k)
    PROVE  CacheInv'
  <1> DEFINE task == [NoTask EXCEPT !.pc = "lock", !.key = k,
                                    !.kind = IF Stale(k) THEN "refresh" ELSE "request"]
  <1>1. task \in Tasks /\ task.pc = "lock" /\ task.lock = 0 /\ task.key = k
    BY DEF NoTask, Tasks
  <1>2. workers' = [workers EXCEPT ![w] = task] /\ UNCHANGED <<version, cache, locks, warming, settled>>
    BY DEF Request
  <1> HIDE DEF task
  <1> QED
    BY <1>1, <1>2, IdleKeeps

\* The lock of the key, or a fresh one: the same that every other task of the
\* key has, and no other key's.
LEMMA FindLockKeeps ==
    ASSUME CacheInv, NEW w \in Workers, FindLock(w)
    PROVE  CacheInv'
  <1> DEFINE k == workers[w].key
  <1>1. /\ k \in CacheKeys /\ workers[w] \in Tasks /\ workers[w].pc = "lock" /\ workers[w].lock = 0
        /\ locks[k] \in Nat
    BY DEF FindLock, CacheInv, CacheTypes, LocksInMap, Tasks
  <1>2. UNCHANGED <<version, cache, warming, settled>>
    BY DEF FindLock
  <1>3. PICK l \in Nat \ {0} :
          /\ locks' = [locks EXCEPT ![k] = l]
          /\ locks[k] # 0 => l = locks[k]
          /\ locks[k] = 0 => \A j \in CacheKeys : locks[j] # l
    <2>1. CASE locks[k] = 0
      BY <2>1, <1>1, FreshLock DEF FindLock
    <2>2. CASE locks[k] # 0
      BY <2>2, <1>1 DEF FindLock, CacheInv, CacheTypes
    <2> QED
      BY <2>1, <2>2
  <1>4. /\ locks' \in [CacheKeys -> Nat] /\ locks'[k] = l
        /\ \A j \in CacheKeys : j # k => locks'[j] = locks[j]
    BY <1>1, <1>3 DEF CacheInv, CacheTypes
  <1>5. /\ workers' = [workers EXCEPT ![w] = [workers[w] EXCEPT !.pc = "acquire", !.lock = l]]
        /\ [workers[w] EXCEPT !.pc = "acquire", !.lock = l] \in Tasks
    BY <1>1, <1>4 DEF FindLock, Tasks, CacheInv, CacheTypes
  <1>6. /\ workers'[w].pc = "acquire" /\ workers'[w].lock = l /\ workers'[w].key = k
        /\ \A v \in Workers : v # w => workers'[v] = workers[v]
        /\ workers' \in [Workers -> Tasks]
    BY <1>1, <1>5 DEF CacheInv, CacheTypes, Tasks
  <1>7. CacheTypes' /\ WarmsOnlyWarm' /\ CachedIsSettled'
    BY <1>2, <1>4, <1>6 DEF CacheInv, CacheTypes, WarmsOnlyWarm, CachedIsSettled
  <1> HIDE DEF k
  <1>8. LocksInMap'
    <2> SUFFICES ASSUME NEW v \in Workers
                 PROVE  /\ workers'[v].pc # "free" => workers'[v].key \in CacheKeys
                        /\ workers'[v].pc \in {"free", "lock"} => workers'[v].lock = 0
                        /\ workers'[v].pc \in {"acquire", "build", "insert"} =>
                             workers'[v].lock # 0 /\ locks'[workers'[v].key] = workers'[v].lock
      BY DEF LocksInMap
    <2>1. CASE v = w
      BY <2>1, <1>1, <1>3, <1>4, <1>6
    <2>2. CASE v # w
      BY <2>2, <1>1, <1>3, <1>4, <1>6 DEF CacheInv, LocksInMap
    <2> QED
      BY <2>1, <2>2
  <1>9. LocksApart'
    BY <1>1, <1>3, <1>4 DEF CacheInv, LocksApart
  <1>10. SingleFlight'
    BY <1>6 DEF CacheInv, SingleFlight, Building
  <1>11. BuildsAreNewer'
    BY <1>2, <1>6 DEF CacheInv, BuildsAreNewer
  <1> QED
    BY <1>7, <1>8, <1>9, <1>10, <1>11 DEF CacheInv

\* A task goes on with the lock it has.
LEMMA GoesOn ==
    ASSUME CacheInv, NEW w \in Workers, NEW task \in Tasks,
           workers[w].pc \in {"acquire", "build"}, task.pc \in {"build", "insert"},
           task.key = workers[w].key, task.lock = workers[w].lock,
           task.pc = "insert" => task.ver = version,
           \A v \in Workers : Building(v) /\ workers[v].key = workers[w].key => v = w,
           workers' = [workers EXCEPT ![w] = task],
           UNCHANGED <<version, cache, locks, warming, settled>>
    PROVE  CacheInv'
  <1>1. CacheTypes' /\ WarmsOnlyWarm' /\ LocksApart' /\ CachedIsSettled'
    BY DEF CacheInv, CacheTypes, WarmsOnlyWarm, LocksApart, CachedIsSettled, Tasks
  <1>2. \A v \in Workers : workers'[v] = IF v = w THEN task ELSE workers[v]
    BY DEF CacheInv, CacheTypes
  <1>3. LocksInMap'
    BY <1>2 DEF CacheInv, LocksInMap
  <1>4. SingleFlight'
    BY <1>2 DEF CacheInv, SingleFlight, Building
  <1>5. BuildsAreNewer'
    <2>1. workers[w].key \in CacheKeys /\ version \in Nat /\ settled' = settled /\ version' = version
      BY DEF CacheInv, CacheTypes, LocksInMap
    <2> QED
      BY <2>1, <1>2 DEF CacheInv, BuildsAreNewer
  <1> QED
    BY <1>1, <1>3, <1>4, <1>5 DEF CacheInv

\* The lock is taken only when no task that has it is building.
LEMMA AcquireKeeps ==
    ASSUME CacheInv, NEW w \in Workers, Acquire(w)
    PROVE  CacheInv'
  <1> DEFINE task == [workers[w] EXCEPT !.pc = "build"]
  <1>1. /\ workers[w] \in Tasks /\ workers[w].pc = "acquire"
        /\ UNCHANGED <<version, cache, locks, warming, settled>>
    BY DEF Acquire, CacheInv, CacheTypes
  <1>2. CASE workers' = [workers EXCEPT ![w] = NoTask]
    BY <1>1, <1>2, NoTaskIdle, IdleKeeps
  <1>3. CASE MayBuild(w) /\ workers' = [workers EXCEPT ![w] = task]
    <2>1. /\ task \in Tasks /\ task.pc = "build" /\ task.key = workers[w].key
          /\ task.lock = workers[w].lock
      BY <1>1 DEF Tasks
    <2>2. \A v \in Workers : Building(v) /\ workers[v].key = workers[w].key => v = w
      BY <1>1, <1>3 DEF MayBuild, Held, Building, CacheInv, LocksInMap
    <2> HIDE DEF task
    <2> QED
      BY <1>1, <1>3, <2>1, <2>2, GoesOn
  <1>4. workers' = [workers EXCEPT ![w] = NoTask] \/ (MayBuild(w) /\ workers' = [workers EXCEPT ![w] = task])
    <2>1. CASE MayBuild(w) /\ workers' = [workers EXCEPT ![w] =
                 IF @.kind = "request" /\ Fresh(@.key) THEN NoTask ELSE [@ EXCEPT !.pc = "build"]]
      BY <2>1
    <2> QED
      BY <2>1 DEF Acquire
  <1> QED
    BY <1>2, <1>3, <1>4

\* A build sees the store as it is.
LEMMA BuildKeeps ==
    ASSUME CacheInv, NEW w \in Workers, Build(w)
    PROVE  CacheInv'
  <1> DEFINE task == [workers[w] EXCEPT !.pc = "insert", !.ver = version]
  <1>1. /\ workers[w] \in Tasks /\ workers[w].pc = "build" /\ version \in Nat
        /\ UNCHANGED <<version, cache, locks, warming, settled>>
        /\ workers' = [workers EXCEPT ![w] = task]
    BY DEF Build, CacheInv, CacheTypes
  <1>2. /\ task \in Tasks /\ task.pc = "insert" /\ task.key = workers[w].key
        /\ task.lock = workers[w].lock /\ task.ver = version
    BY <1>1 DEF Tasks
  <1>3. \A v \in Workers : Building(v) /\ workers[v].key = workers[w].key => v = w
    BY <1>1 DEF CacheInv, SingleFlight, Building
  <1> HIDE DEF task
  <1> QED
    BY <1>1, <1>2, <1>3, GoesOn

\* What a build puts is no older than what was settled before, and it is the
\* only one for its key; so is what a refresh finds gone.
LEMMA SettleKeeps ==
    ASSUME CacheInv, NEW w \in Workers, workers[w].pc = "insert", Settle(w),
           workers' = [workers EXCEPT ![w] = NoTask],
           UNCHANGED <<version, locks, warming>>, DOMAIN cache' = CacheKeys,
           \A k \in CacheKeys \ {workers[w].key} : cache'[k] = cache[k] \/ cache'[k] = {},
           \A e \in cache'[workers[w].key] : e.ver = workers[w].ver
    PROVE  CacheInv'
  <1> DEFINE k == workers[w].key
  <1>1. /\ k \in CacheKeys /\ workers[w] \in Tasks /\ workers[w].ver \in Nat /\ settled[k] \in Nat
        /\ settled[k] <= workers[w].ver /\ workers[w].ver <= version
    BY DEF CacheInv, CacheTypes, LocksInMap, BuildsAreNewer, Tasks
  <1>2. Max({settled[k], workers[w].ver}) = workers[w].ver
    BY <1>1, NewerOf
  <1>3. settled' = [settled EXCEPT ![k] = workers[w].ver]
    BY <1>2 DEF Settle
  <1>4. /\ settled' \in [CacheKeys -> Nat] /\ settled'[k] = workers[w].ver
        /\ \A j \in CacheKeys : j # k => settled'[j] = settled[j]
    BY <1>1, <1>3 DEF CacheInv, CacheTypes
  <1>5. /\ workers' \in [Workers -> Tasks]
        /\ \A v \in Workers : workers'[v] = IF v = w THEN NoTask ELSE workers[v]
    BY NoTaskIdle DEF CacheInv, CacheTypes
  <1>6. CacheTypes' /\ WarmsOnlyWarm' /\ LocksApart'
    BY <1>4, <1>5 DEF CacheInv, CacheTypes, WarmsOnlyWarm, LocksApart
  <1>7. LocksInMap' /\ SingleFlight'
    BY <1>5, NoTaskIdle DEF CacheInv, LocksInMap, SingleFlight, Building
  <1>8. \A v \in Workers : workers[v].pc = "insert" /\ workers[v].key = k => v = w
    BY DEF CacheInv, SingleFlight, Building
  <1>9. BuildsAreNewer'
    <2>1. \A j \in CacheKeys : settled'[j] <= version'
      BY <1>1, <1>4 DEF CacheInv, BuildsAreNewer
    <2>2. \A v \in Workers : workers'[v].pc = "insert" =>
            settled'[workers'[v].key] <= workers'[v].ver /\ workers'[v].ver <= version'
      BY <1>4, <1>5, <1>8, NoTaskIdle DEF CacheInv, BuildsAreNewer, LocksInMap
    <2> QED
      BY <2>1, <2>2 DEF BuildsAreNewer
  <1>10. CachedIsSettled'
    <2> SUFFICES ASSUME NEW j \in CacheKeys \ WarmKeys, NEW e \in cache'[j]
                 PROVE  e.ver \in Nat /\ e.ver >= settled'[j]
      BY DEF CachedIsSettled
    <2>1. CASE j = k
      BY <2>1, <1>1, <1>4
    <2>2. CASE j # k
      BY <2>2, <1>4 DEF CacheInv, CachedIsSettled
    <2> QED
      BY <2>1, <2>2
  <1> QED
    BY <1>6, <1>7, <1>9, <1>10 DEF CacheInv

\* A body put after eviction made room.
LEMMA InsertKeeps ==
    ASSUME CacheInv, NEW w \in Workers, Insert1(w)
    PROVE  CacheInv'
  <1> DEFINE k == workers[w].key
  <1>1. PICK c \in Evict(cache) : cache' = [c EXCEPT ![k] = {[at |-> clock, ver |-> workers[w].ver]}]
    BY DEF Insert1
  <1>2. DOMAIN c = CacheKeys /\ \A j \in CacheKeys : c[j] = cache[j] \/ c[j] = {}
    BY EvictDrops DEF CacheInv, CacheTypes
  <1>3. workers[w].pc = "insert" /\ k \in CacheKeys
    BY DEF Insert1, CacheInv, LocksInMap
  <1>4. /\ DOMAIN cache' = CacheKeys
        /\ \A j \in CacheKeys \ {k} : cache'[j] = cache[j] \/ cache'[j] = {}
        /\ \A e \in cache'[k] : e.ver = workers[w].ver
    BY <1>1, <1>2, <1>3
  <1> QED
    BY <1>3, <1>4, SettleKeeps DEF Insert1

\* A resource that is gone.
LEMMA MissingKeeps ==
    ASSUME CacheInv, NEW w \in Workers, Missing(w)
    PROVE  CacheInv'
  <1>1. workers[w].pc = "insert" /\ workers[w].key \in CacheKeys
    BY DEF Missing, CacheInv, LocksInMap
  <1>2. CASE workers[w].kind = "refresh"
    <2>1. cache' = [cache EXCEPT ![workers[w].key] = {}] /\ Settle(w)
      BY <1>2 DEF Missing
    <2>2. /\ DOMAIN cache' = CacheKeys
          /\ \A j \in CacheKeys \ {workers[w].key} : cache'[j] = cache[j] \/ cache'[j] = {}
          /\ \A e \in cache'[workers[w].key] : e.ver = workers[w].ver
      BY <1>1, <2>1 DEF CacheInv, CacheTypes
    <2> QED
      BY <1>1, <2>1, <2>2, SettleKeeps DEF Missing
  <1>3. CASE workers[w].kind # "refresh"
    BY <1>3, NoTaskIdle, IdleKeeps DEF Missing
  <1> QED
    BY <1>2, <1>3

\* A task that is given up keeps nothing.
LEMMA AbandonKeeps ==
    ASSUME CacheInv, NEW w \in Workers, Abandon(w)
    PROVE  CacheInv'
  BY NoTaskIdle, IdleKeeps DEF Abandon

-----------------------------------------------------------------------------
\* For any keys, tasks, TTLs and limits of the cache, through sweeps of bodies
\* and locks, evictions and callers that hang up: what can be served for a key
\* is never older than what a build put or a refresh found gone (serve_cached).
THEOREM NeverBackwards == CacheSpec => []BodiesMoveForward
  <1>1. CacheInv /\ [CacheNext]_scvars => CacheInv'
    <2> SUFFICES ASSUME CacheInv, [CacheNext]_scvars PROVE CacheInv'
      OBVIOUS
    <2>1. CASE StoreChanges \/ CacheTick \/ UNCHANGED scvars
      BY <2>1, TimeKeeps
    <2>2. CASE WarmBuild \/ WarmInsert
      BY <2>2, WarmKeeps
    <2>3. CASE Sweep
      BY <2>3, SweepKeeps
    <2>4. ASSUME NEW w \in Workers,
                 \/ \E k \in CacheKeys : Request(w, k)
                 \/ FindLock(w) \/ Acquire(w) \/ Build(w)
                 \/ Insert1(w) \/ Missing(w) \/ Abandon(w)
          PROVE  CacheInv'
      BY <2>4, RequestBegins, FindLockKeeps, AcquireKeeps, BuildKeeps, InsertKeeps,
         MissingKeeps, AbandonKeeps
    <2> QED
      BY <2>1, <2>2, <2>3, <2>4 DEF CacheNext
  <1>2. CacheInv => BodiesMoveForward
    BY DEF CacheInv, CachedIsSettled, BodiesMoveForward, Fresh, Stale, Entry
  <1> QED
    BY CacheStarts, <1>1, <1>2, PTL DEF CacheSpec

-----------------------------------------------------------------------------
(* The holder lane: any bucket, hour, life of a pass and size of the maps *)

(* The inductive invariant *)

\* The maps are dropped and restarts happen: each forgives one hourly count.
Forgiven == resets.boots + resets.dropped

LaneTypes ==
    /\ limiter = [tokens |-> limiter.tokens, ips |-> limiter.ips, lanes |-> limiter.lanes]
    /\ limiter.tokens \in Nat /\ laneTick \in Nat
    /\ ran = [all |-> ran.all, lane |-> ran.lane] /\ ran.all \in Nat
    /\ resets = [boots |-> resets.boots, dropped |-> resets.dropped, trades |-> resets.trades,
                 waited |-> resets.waited]
    /\ {resets.boots, resets.dropped, resets.waited} \subseteq Nat
    /\ heldAt \in [Holders -> Int] /\ holding \subseteq Holders

\* What the bucket holds and what it gave are paid for.
BucketPays == ran.all + limiter.tokens <= ToolBucket * (1 + resets.boots) + laneTick

\* No row counts more than the lane allows, whatever its hour.
RowsBounded ==
    \A h \in DOMAIN limiter.lanes : limiter.lanes[h].runs \in 0..LanePerHour

\* The runs of this hour are in the address's row, or were forgiven.
RunsAreCounted ==
    \A k \in DOMAIN ran.lane :
        /\ k \in Holders \X Nat /\ ran.lane[k] \in Nat
        /\ k[2] * HourLength <= laneTick
        /\ ran.lane[k] <= LanePerHour * (1 + Forgiven)
        /\ k[2] = Hour => ran.lane[k] <= RunsOf(limiter.lanes, k[1]) + LanePerHour * Forgiven

\* A pass outlives its holder's last holding by PassLife and the wait of a mint
\* at most, and so does a run on it. A mint under way has seen a holding.
HoldersHold ==
    /\ \A h \in Holders : heldAt[h] <= laneTick
    /\ \A h \in holding : heldAt[h] = laneTick
PassesExpire ==
    \A p \in passes : /\ p.holder \in Holders /\ p.expiry \in Int
                      /\ p.expiry <= heldAt[p.holder] + PassLife + resets.waited
MintsWereHeld ==
    \A m \in mints : m.holder \in Holders /\ m.at \in Nat /\ m.at <= heldAt[m.holder]
RunsWereHeld ==
    \A k \in DOMAIN ran.lane : k[2] * HourLength < heldAt[k[1]] + PassLife + resets.waited

LaneInv ==
    /\ LaneTypes /\ BucketPays /\ RowsBounded /\ RunsAreCounted
    /\ HoldersHold /\ PassesExpire /\ MintsWereHeld /\ RunsWereHeld

-----------------------------------------------------------------------------
(* Hours and rows *)

\* An hour began at or before now, and an hour that began and is not over is
\* the current one.
LEMMA HourBegan == LaneTypes => Hour \in Nat /\ Hour * HourLength <= laneTick
  BY LaneAssumption DEF LaneTypes, Hour

LEMMA HourGoesOn ==
    ASSUME NEW n \in Nat, NEW t \in Nat, n * HourLength <= t, n = (t + 1) \div HourLength
    PROVE  n = t \div HourLength
  BY LaneAssumption

\* Thinning keeps what counts this hour, unless it drops the map.
LEMMA ThinnedRow ==
    ASSUME NEW rows, NEW j
    PROVE  /\ Dropped(rows) \/ RunsOf(Thinned(rows), j) = RunsOf(rows, j)
           /\ RunsOf(Thinned(rows), j) \in {0, RunsOf(rows, j)}
           /\ DOMAIN Thinned(rows) \subseteq DOMAIN rows
           /\ j \in DOMAIN Thinned(rows) => Thinned(rows)[j] = rows[j]
  BY DEF RunsOf, Thinned, Dropped

-----------------------------------------------------------------------------
(* A slot *)

\* What a call does to the bucket.
Charged ==
    \/ limiter.tokens >= 1 /\ limiter'.tokens = limiter.tokens - 1 /\ ran'.all = ran.all + 1
    \/ limiter'.tokens = limiter.tokens /\ ran'.all = ran.all

\* One more run under k.
Counted(execs, k) == Written(execs, k, (IF k \in DOMAIN execs THEN execs[k] ELSE 0) + 1)

\* What it does to the lane: nothing, or one more run of h, or a refusal that
\* leaves its row.
LaneUntouched == limiter'.lanes = limiter.lanes /\ ran'.lane = ran.lane /\ resets' = resets
LaneCounts(h, n) ==
    /\ limiter'.lanes = WithRuns(Thinned(limiter.lanes), h,
                                 IF n = 1 THEN RunsOf(Thinned(limiter.lanes), h) + 1
                                 ELSE RunsOf(Thinned(limiter.lanes), h))
    /\ resets'.boots = resets.boots /\ resets'.waited = resets.waited
    /\ resets'.dropped = IF Dropped(limiter.lanes) THEN resets.dropped + 1 ELSE resets.dropped
LaneRuns(h) ==
    /\ LaneCounts(h, 1) /\ RunsOf(Thinned(limiter.lanes), h) < LanePerHour
    /\ ran'.lane = Counted(ran.lane, <<h, Hour>>)
LaneRefuses(h) == LaneCounts(h, 0) /\ ran'.lane = ran.lane

LEMMA AfterIpFacts ==
    ASSUME NEW l, NEW ip, l = [tokens |-> l.tokens, ips |-> l.ips, lanes |-> l.lanes], l.tokens \in Nat
    PROVE  /\ AfterIp(l, ip) = [tokens |-> AfterIp(l, ip).tokens, ips |-> AfterIp(l, ip).ips, lanes |-> l.lanes]
           /\ AfterIp(l, ip).tokens = IF l.tokens >= 1 /\ RunsOf(Thinned(l.ips), ip) < IpPerHour
                                      THEN l.tokens - 1 ELSE l.tokens
  <1>1. CASE l.tokens < 1
    BY <1>1 DEF AfterIp
  <1>2. CASE ~(l.tokens < 1) /\ RunsOf(Thinned(l.ips), ip) < IpPerHour
    <2>1. AfterIp(l, ip) = [tokens |-> l.tokens - 1, lanes |-> l.lanes,
                            ips |-> WithRuns(Thinned(l.ips), ip, RunsOf(Thinned(l.ips), ip) + 1)]
      BY <1>2 DEF AfterIp
    <2> QED
      BY <1>2, <2>1
  <1>3. CASE ~(l.tokens < 1) /\ ~(RunsOf(Thinned(l.ips), ip) < IpPerHour)
    BY <1>3 DEF AfterIp
  <1> QED
    BY <1>1, <1>2, <1>3

LEMMA SlotEffect ==
    ASSUME LaneTypes, NEW p, NEW ip, Slot(p, ip), UNCHANGED <<holding, laneTick, heldAt>>
    PROVE  /\ LaneTypes'
           /\ Charged
           /\ LaneUntouched \/ (HonoursPass(p) /\ (LaneRuns(p.holder) \/ LaneRefuses(p.holder)))
  <1> DEFINE h == p.holder
  <1>1. CASE HonoursPass(p) /\ LaneAllows(h)
    <2>1. limiter' = AfterLane(h) /\ limiter.tokens >= 1
      BY <1>1 DEF Slot, LaneAllows
    <2>2. limiter' = [tokens |-> limiter.tokens - 1, ips |-> limiter.ips,
                      lanes |-> WithRuns(Thinned(limiter.lanes), h, RunsOf(Thinned(limiter.lanes), h) + 1)]
      BY <1>1, <2>1 DEF AfterLane, LaneCharge, LaneTypes
    <2>3. ran' = [all |-> ran.all + 1, lane |-> Counted(ran.lane, <<h, Hour>>)]
      BY <1>1 DEF Slot, Counted
    <2>4. resets' = [boots |-> resets.boots, trades |-> resets.trades, waited |-> resets.waited,
                     dropped |-> IF Dropped(limiter.lanes) THEN resets.dropped + 1 ELSE resets.dropped]
      BY <1>1, <2>1 DEF Slot, LaneTypes
    <2> QED
      BY <1>1, <2>1, <2>2, <2>3, <2>4 DEF LaneTypes, Charged, LaneRuns, LaneCounts, LaneAllows
  <1>2. CASE HonoursPass(p) /\ ~LaneAllows(h) /\ limiter.tokens >= 1
    <2>1. AfterLane(h) = [tokens |-> limiter.tokens, ips |-> limiter.ips,
                          lanes |-> WithRuns(Thinned(limiter.lanes), h, RunsOf(Thinned(limiter.lanes), h))]
      BY <1>2 DEF AfterLane, LaneTypes
    <2>2. limiter' = AfterIp(AfterLane(h), ip)
      BY <1>2 DEF Slot
    <2>3. limiter' = [tokens |-> limiter'.tokens, ips |-> limiter'.ips, lanes |-> AfterLane(h).lanes]
          /\ limiter'.tokens = IF limiter.tokens >= 1 /\ RunsOf(Thinned(limiter.ips), ip) < IpPerHour
                               THEN limiter.tokens - 1 ELSE limiter.tokens
      BY <2>1, <2>2, AfterIpFacts DEF LaneTypes
    <2>4. ran' = [all |-> ran.all + (IF IpAllows(ip) THEN 1 ELSE 0), lane |-> ran.lane]
      BY <1>2 DEF Slot
    <2>5. resets' = [boots |-> resets.boots, trades |-> resets.trades, waited |-> resets.waited,
                     dropped |-> IF Dropped(limiter.lanes) THEN resets.dropped + 1 ELSE resets.dropped]
      BY <1>2 DEF Slot, LaneTypes
    <2>6. Charged
      BY <1>2, <2>3, <2>4 DEF LaneTypes, Charged, IpAllows
    <2>7. LaneTypes'
      BY <1>2, <2>3, <2>4, <2>5 DEF LaneTypes, IpAllows
    <2>8. LaneRefuses(h)
      BY <1>2, <2>1, <2>3, <2>4, <2>5 DEF LaneRefuses, LaneCounts
    <2> QED
      BY <1>2, <2>6, <2>7, <2>8
  <1>3. CASE ~HonoursPass(p) \/ limiter.tokens < 1
    <2>1. limiter' = AfterIp(limiter, ip)
      BY <1>3 DEF Slot, AfterLane, LaneAllows, LaneTypes
    <2>2. limiter' = [tokens |-> limiter'.tokens, ips |-> limiter'.ips, lanes |-> limiter.lanes]
          /\ limiter'.tokens = IF limiter.tokens >= 1 /\ RunsOf(Thinned(limiter.ips), ip) < IpPerHour
                               THEN limiter.tokens - 1 ELSE limiter.tokens
      BY <2>1, AfterIpFacts DEF LaneTypes
    <2>3. ran' = [all |-> ran.all + (IF IpAllows(ip) THEN 1 ELSE 0), lane |-> ran.lane]
      BY <1>3 DEF Slot, LaneAllows, LaneTypes
    <2>4. resets' = resets
      BY <1>3 DEF Slot, LaneTypes
    <2>5. Charged
      BY <2>2, <2>3 DEF LaneTypes, Charged, IpAllows
    <2>6. LaneTypes'
      BY <2>2, <2>3, <2>4 DEF LaneTypes, IpAllows
    <2>7. LaneUntouched
      BY <2>2, <2>3, <2>4 DEF LaneUntouched
    <2> QED
      BY <1>3, <2>5, <2>6, <2>7
  <1> QED
    BY <1>1, <1>2, <1>3 DEF LaneTypes
-----------------------------------------------------------------------------
(* The steps *)

LEMMA Forgiveness ==
    ASSUME NEW f \in Nat
    PROVE  /\ LanePerHour * f \in Nat
           /\ LanePerHour * (1 + f) = LanePerHour * f + LanePerHour
           /\ LanePerHour * (f + 1) = LanePerHour * f + LanePerHour
           /\ LanePerHour * (1 + (f + 1)) = LanePerHour * f + LanePerHour + LanePerHour
  BY LaneAssumption

\* After a row was written the runs of this hour, d of them new, are counted.
LEMMA CountsKeep ==
    ASSUME LaneInv, NEW h \in Holders, NEW d \in {0, 1}, LaneCounts(h, d),
           d = 1 => RunsOf(Thinned(limiter.lanes), h) < LanePerHour,
           UNCHANGED <<laneTick, heldAt>>, LaneTypes',
           ran'.lane = IF d = 1 THEN Counted(ran.lane, <<h, Hour>>) ELSE ran.lane
    PROVE  RowsBounded' /\ RunsAreCounted'
  <1> DEFINE rows == Thinned(limiter.lanes)
             n == RunsOf(rows, h)
             m == IF d = 1 THEN n + 1 ELSE n
             A == LanePerHour * Forgiven
             B == LanePerHour * Forgiven'
  <1>1. Forgiven \in Nat /\ Forgiven' \in Nat /\ Hour' = Hour /\ Hour \in Nat
        /\ Forgiven' = IF Dropped(limiter.lanes) THEN Forgiven + 1 ELSE Forgiven
    BY HourBegan DEF LaneInv, LaneTypes, LaneCounts, Forgiven, Hour
  <1>2. /\ A \in Nat /\ B \in Nat /\ LanePerHour \in Nat
        /\ LanePerHour * (1 + Forgiven) = A + LanePerHour
        /\ LanePerHour * (1 + Forgiven') = B + LanePerHour
        /\ B = IF Dropped(limiter.lanes) THEN A + LanePerHour ELSE A
    BY <1>1, Forgiveness, LaneAssumption
  <1>3. \A j : RunsOf(limiter.lanes, j) \in 0..LanePerHour /\ RunsOf(rows, j) \in 0..LanePerHour
    <2> TAKE j
    <2>1. RunsOf(limiter.lanes, j) \in 0..LanePerHour
      BY LaneAssumption DEF LaneInv, RowsBounded, RunsOf
    <2> QED
      BY <2>1, ThinnedRow, LaneAssumption
  <1>4. \A j : ~Dropped(limiter.lanes) => RunsOf(rows, j) = RunsOf(limiter.lanes, j)
    BY ThinnedRow
  <1>5. n \in Nat /\ m \in 0..LanePerHour /\ m = n + d
    BY <1>2, <1>3
  <1>6. limiter'.lanes = WithRuns(rows, h, m)
    BY DEF LaneCounts
  <1>a. \A j : j \in DOMAIN rows => j \in DOMAIN limiter.lanes /\ rows[j] = limiter.lanes[j]
    BY ThinnedRow
  <1> HIDE DEF rows, n, m
  <1>7. \A j : (RunsOf(limiter.lanes, j))' = IF j = h THEN m ELSE RunsOf(rows, j)
    BY <1>1, <1>6 DEF RunsOf, WithRuns, Written
  <1>8. RowsBounded'
    <2> SUFFICES ASSUME NEW j \in DOMAIN limiter'.lanes PROVE limiter'.lanes[j].runs \in 0..LanePerHour
      BY DEF RowsBounded
    <2>1. WithRuns(rows, h, m)[h].runs = m /\ DOMAIN WithRuns(rows, h, m) = DOMAIN rows \cup {h}
          /\ (j \in DOMAIN rows /\ j # h => WithRuns(rows, h, m)[j] = rows[j])
      BY DEF WithRuns, Written
    <2> QED
      BY <1>a, <2>1, <1>5, <1>6 DEF LaneInv, RowsBounded
  <1>9. RunsAreCounted'
    <2> SUFFICES ASSUME NEW k \in DOMAIN ran'.lane
                 PROVE  /\ k \in Holders \X Nat /\ ran'.lane[k] \in Nat
                        /\ k[2] * HourLength <= laneTick
                        /\ ran'.lane[k] <= B + LanePerHour
                        /\ k[2] = Hour => ran'.lane[k] <= (RunsOf(limiter.lanes, k[1]))' + B
      BY <1>1, <1>2 DEF RunsAreCounted
    <2>1. k \in DOMAIN ran.lane => /\ k \in Holders \X Nat /\ ran.lane[k] \in Nat
                                   /\ k[2] * HourLength <= laneTick
                                   /\ ran.lane[k] <= A + LanePerHour
                                   /\ k[2] = Hour => ran.lane[k] <= RunsOf(limiter.lanes, k[1]) + A
      BY <1>2 DEF LaneInv, RunsAreCounted
    <2> HIDE DEF A, B
    <2>2. CASE d = 1 /\ k = <<h, Hour>>
      <3> DEFINE old == IF k \in DOMAIN ran.lane THEN ran.lane[k] ELSE 0
      <3>1. ran'.lane[k] = old + 1
        BY <2>2 DEF Counted, Written
      <3>2. old \in Nat /\ old <= A + LanePerHour /\ old <= RunsOf(limiter.lanes, h) + A
        <4>1. CASE k \in DOMAIN ran.lane
          <5>1. k[1] = h /\ k[2] = Hour
            BY <2>2
          <5> QED
            BY <4>1, <5>1, <2>1
        <4>2. CASE k \notin DOMAIN ran.lane
          BY <4>2, <1>2, <1>3
        <4> QED
          BY <4>1, <4>2
      <3> HIDE DEF old
      <3>3. old + 1 <= m + B
        <4>1. CASE Dropped(limiter.lanes)
          BY <4>1, <3>2, <1>2, <1>5, <2>2
        <4>2. CASE ~Dropped(limiter.lanes)
          <5>1. n = RunsOf(limiter.lanes, h)
            BY <4>2, <1>4 DEF n
          <5> QED
            BY <4>2, <5>1, <3>2, <1>2, <1>5, <2>2
        <4> QED
          BY <4>1, <4>2
      <3>4. k \in Holders \X Nat /\ k[2] * HourLength <= laneTick /\ k[1] = h
        BY <2>2, <1>1, HourBegan DEF LaneInv
      <3>5. (RunsOf(limiter.lanes, k[1]))' = m
        BY <3>4, <1>7
      <3> QED
        BY <3>1, <3>2, <3>3, <3>4, <3>5, <1>2, <1>5
    <2>3. CASE ~(d = 1 /\ k = <<h, Hour>>)
      <3>1. k \in DOMAIN ran.lane /\ ran'.lane[k] = ran.lane[k]
        BY <2>3 DEF Counted, Written
      <3>2. ran.lane[k] <= B + LanePerHour
        BY <3>1, <2>1, <1>2
      <3>3. RunsOf(rows, k[1]) \in Nat /\ (k[1] = h => RunsOf(rows, k[1]) = n)
        BY <1>2, <1>3 DEF n
      <3>4. k[2] = Hour => ran.lane[k] <= RunsOf(rows, k[1]) + B
        <4>1. CASE Dropped(limiter.lanes)
          BY <4>1, <3>1, <3>3, <2>1, <1>2
        <4>2. CASE ~Dropped(limiter.lanes)
          <5>1. RunsOf(rows, k[1]) = RunsOf(limiter.lanes, k[1])
            BY <4>2, <1>4
          <5> QED
            BY <4>2, <5>1, <3>1, <2>1, <1>2
        <4> QED
          BY <4>1, <4>2
      <3>5. (RunsOf(limiter.lanes, k[1]))' = IF k[1] = h THEN m ELSE RunsOf(rows, k[1])
        BY <1>7
      <3>6. RunsOf(rows, k[1]) <= IF k[1] = h THEN m ELSE RunsOf(rows, k[1])
        BY <3>3, <1>5
      <3> QED
        BY <3>1, <3>2, <3>3, <3>4, <3>5, <3>6, <2>1, <1>2, <1>5
    <2> QED
      BY <2>2, <2>3
  <1> QED
    BY <1>8, <1>9

LEMMA SlotKeeps ==
    ASSUME LaneInv, NEW p \in passes \cup {NoPass}, NEW ip, Slot(p, ip),
           UNCHANGED <<holding, secret, laneTick, heldAt>>
    PROVE  /\ LaneTypes' /\ BucketPays' /\ RowsBounded' /\ RunsAreCounted'
           /\ HoldersHold' /\ RunsWereHeld' /\ resets'.waited = resets.waited
  <1> DEFINE h == p.holder
  <1>1. LaneTypes' /\ Charged /\ (LaneUntouched \/ (HonoursPass(p) /\ (LaneRuns(h) \/ LaneRefuses(h))))
    BY SlotEffect DEF LaneInv
  <1>2. resets'.boots = resets.boots /\ resets'.waited = resets.waited
    BY <1>1 DEF LaneUntouched, LaneRuns, LaneRefuses, LaneCounts
  <1>3. BucketPays'
    BY <1>1, <1>2 DEF LaneInv, LaneTypes, BucketPays, Charged
  <1>4. HoldersHold'
    BY DEF LaneInv, HoldersHold
  <1>5. CASE LaneUntouched
    <2>1. RowsBounded'
      BY <1>5 DEF LaneInv, RowsBounded, LaneUntouched
    <2>2. RunsAreCounted'
      BY <1>5 DEF LaneInv, RunsAreCounted, LaneUntouched, Forgiven, Hour, RunsOf
    <2>3. RunsWereHeld'
      BY <1>5 DEF LaneInv, RunsWereHeld, LaneUntouched
    <2> QED
      BY <1>1, <1>2, <1>3, <1>4, <2>1, <2>2, <2>3
  <1>6. CASE HonoursPass(p) /\ (LaneRuns(h) \/ LaneRefuses(h))
    <2>1. h \in Holders /\ p.expiry \in Int /\ laneTick < p.expiry /\ p.expiry <= heldAt[h] + PassLife + resets.waited
      BY <1>6 DEF HonoursPass, LaneInv, PassesExpire
    <2>2. RowsBounded' /\ RunsAreCounted'
      <3>1. CASE LaneRuns(h)
        BY <1>1, <2>1, <3>1, CountsKeep DEF LaneRuns
      <3>2. CASE LaneRefuses(h)
        <4>1. 0 \in {0, 1} /\ LaneCounts(h, 0) /\ ran'.lane = ran.lane /\ 0 # 1
          BY <3>2 DEF LaneRefuses
        <4> QED
          BY <1>1, <2>1, <4>1, CountsKeep
      <3> QED
        BY <1>6, <3>1, <3>2
    <2>3. RunsWereHeld'
      <3> SUFFICES ASSUME NEW k \in DOMAIN ran'.lane PROVE k[2] * HourLength < heldAt[k[1]] + PassLife + resets.waited
        BY <1>2 DEF RunsWereHeld
      <3>1. CASE k \in DOMAIN ran.lane
        BY <3>1 DEF LaneInv, RunsWereHeld
      <3>2. CASE k \notin DOMAIN ran.lane
        <4>1. k = <<h, Hour>>
          BY <1>6, <3>2 DEF LaneRuns, LaneRefuses, Counted, Written
        <4> QED
          BY <4>1, <2>1, HourBegan, LaneAssumption DEF LaneInv, LaneTypes
      <3> QED
        BY <3>1, <3>2
    <2> QED
      BY <1>1, <1>2, <1>3, <1>4, <2>2, <2>3
  <1> QED
    BY <1>1, <1>5, <1>6

LEMMA LaneStarts == LaneInit => LaneInv
  <1> SUFFICES ASSUME LaneInit PROVE LaneInv
    OBVIOUS
  <1> USE DEF LaneInit
  <1>1. LaneTypes
    BY LaneAssumption DEF LaneTypes, NewLimiter
  <1>2. BucketPays
    BY LaneAssumption DEF BucketPays, NewLimiter
  <1>3. RowsBounded
    BY DEF RowsBounded, NewLimiter
  <1>4. RunsAreCounted /\ RunsWereHeld
    BY DEF RunsAreCounted, RunsWereHeld
  <1>5. HoldersHold /\ PassesExpire /\ MintsWereHeld
    BY LaneAssumption DEF HoldersHold, PassesExpire, MintsWereHeld
  <1> QED
    BY <1>1, <1>2, <1>3, <1>4, <1>5 DEF LaneInv

LEMMA RunToolKeeps == LaneInv /\ RunTool => LaneInv'
  <1> SUFFICES ASSUME LaneInv, RunTool PROVE LaneInv'
    OBVIOUS
  <1>1. PICK p \in passes \cup {NoPass}, ip \in Ips : Slot(p, ip)
    BY DEF RunTool
  <1>2. UNCHANGED <<holding, mints, passes, secret, laneTick, heldAt>>
    BY DEF RunTool
  <1>3. PassesExpire' /\ MintsWereHeld'
    BY <1>1, <1>2, SlotKeeps DEF LaneInv, PassesExpire, MintsWereHeld
  <1> QED
    BY <1>1, <1>2, <1>3, SlotKeeps DEF LaneInv

LEMMA AskKeeps == LaneInv /\ AskPass => LaneInv'
  <1> SUFFICES ASSUME LaneInv, AskPass PROVE LaneInv'
    OBVIOUS
  <1>1. PICK h \in holding \cup {"none"}, p \in passes \cup {NoPass}, ip \in Ips :
          /\ Slot(p, ip)
          /\ mints' = IF Admitted /\ secret # Unarmed /\ h \in holding
                      THEN mints \cup {[holder |-> h, secret |-> secret, at |-> laneTick]} ELSE mints
    BY DEF AskPass
  <1>2. UNCHANGED <<holding, passes, secret, laneTick, heldAt>>
    BY DEF AskPass
  <1>3. PassesExpire'
    BY <1>1, <1>2, SlotKeeps DEF LaneInv, PassesExpire
  <1>4. MintsWereHeld'
    <2> SUFFICES ASSUME NEW m \in mints' PROVE m.holder \in Holders /\ m.at \in Nat /\ m.at <= heldAt[m.holder]
      BY <1>2 DEF MintsWereHeld
    <2>1. CASE m \in mints
      BY <2>1 DEF LaneInv, MintsWereHeld
    <2>2. CASE m \notin mints
      BY <1>1, <2>2 DEF LaneInv, LaneTypes, HoldersHold
    <2> QED
      BY <2>1, <2>2
  <1> QED
    BY <1>1, <1>2, <1>3, <1>4, SlotKeeps DEF LaneInv

\* What a mint waited is counted, so its pass is not too long.
LEMMA GrantKeeps == LaneInv /\ GrantPass => LaneInv'
  <1> SUFFICES ASSUME LaneInv, GrantPass PROVE LaneInv'
    OBVIOUS
  <1>1. PICK m \in mints :
          /\ mints' = mints \ {m}
          /\ passes' = passes \cup {[holder |-> m.holder, expiry |-> laneTick + PassLife, secret |-> m.secret]}
          /\ resets' = [resets EXCEPT !.waited = IF laneTick - m.at > @ THEN laneTick - m.at ELSE @]
          /\ UNCHANGED <<limiter, holding, secret, laneTick, ran, heldAt>>
    BY DEF GrantPass, PassFor
  <1>2. m.holder \in Holders /\ m.at \in Nat /\ m.at <= heldAt[m.holder] /\ heldAt[m.holder] <= laneTick
    BY DEF LaneInv, MintsWereHeld, HoldersHold
  <1>3. resets' = [boots |-> resets.boots, dropped |-> resets.dropped, trades |-> resets.trades,
                   waited |-> resets'.waited]
        /\ resets'.waited = IF laneTick - m.at > resets.waited THEN laneTick - m.at ELSE resets.waited
    BY <1>1 DEF LaneInv, LaneTypes
  <1>4. laneTick \in Nat /\ heldAt \in [Holders -> Int] /\ resets.waited \in Nat /\ PassLife \in Nat
    BY LaneAssumption DEF LaneInv, LaneTypes
  <1>5. resets'.waited \in Nat /\ resets.waited <= resets'.waited /\ laneTick <= m.at + resets'.waited
    BY <1>2, <1>3, <1>4
  <1>6. LaneTypes'
    BY <1>1, <1>3, <1>5 DEF LaneInv, LaneTypes
  <1>7. HoldersHold' /\ MintsWereHeld' /\ BucketPays' /\ RowsBounded' /\ RunsAreCounted'
    BY <1>1, <1>3 DEF LaneInv, HoldersHold, MintsWereHeld, BucketPays, RowsBounded, RunsAreCounted,
                      Forgiven, Hour, RunsOf
  <1>8. PassesExpire'
    <2> SUFFICES ASSUME NEW p \in passes'
                 PROVE  /\ p.holder \in Holders /\ p.expiry \in Int
                        /\ p.expiry <= heldAt[p.holder] + PassLife + resets'.waited
      BY <1>1 DEF PassesExpire
    <2>1. CASE p \in passes
      <3>1. p.holder \in Holders /\ p.expiry \in Int /\ p.expiry <= heldAt[p.holder] + PassLife + resets.waited
        BY <2>1 DEF LaneInv, PassesExpire
      <3> QED
        BY <3>1, <1>4, <1>5
    <2>2. CASE p \notin passes
      <3>1. p.holder = m.holder /\ p.expiry = laneTick + PassLife
        BY <1>1, <2>2
      <3> QED
        BY <3>1, <1>2, <1>4, <1>5
    <2> QED
      BY <2>1, <2>2
  <1>9. RunsWereHeld'
    <2> SUFFICES ASSUME NEW k \in DOMAIN ran.lane
                 PROVE  k[2] * HourLength < heldAt[k[1]] + PassLife + resets'.waited
      BY <1>1 DEF RunsWereHeld
    <2>1. k \in Holders \X Nat /\ k[2] * HourLength < heldAt[k[1]] + PassLife + resets.waited
      BY DEF LaneInv, RunsWereHeld, RunsAreCounted
    <2>2. k[2] * HourLength \in Int /\ heldAt[k[1]] \in Int
      BY <2>1, <1>4, LaneAssumption
    <2> QED
      BY <2>1, <2>2, <1>4, <1>5
  <1> QED
    BY <1>6, <1>7, <1>8, <1>9 DEF LaneInv

\* A later last holding only lets passes and runs live longer.
LEMMA TradeKeeps == LaneInv /\ Trade => LaneInv'
  <1> SUFFICES ASSUME LaneInv, Trade PROVE LaneInv'
    OBVIOUS
  <1>1. PICK h \in Holders :
          /\ holding' = IF h \in holding THEN holding \ {h} ELSE holding \cup {h}
          /\ heldAt' = [heldAt EXCEPT ![h] = laneTick]
    BY DEF Trade
  <1>2. /\ UNCHANGED <<limiter, mints, passes, secret, laneTick, ran>>
        /\ resets' = [boots |-> resets.boots, dropped |-> resets.dropped, trades |-> resets'.trades,
                      waited |-> resets.waited]
    BY DEF Trade, LaneInv, LaneTypes
  <1>3. LaneTypes'
    BY <1>1, <1>2 DEF LaneInv, LaneTypes
  <1>4. \A x \in Holders : heldAt[x] <= heldAt'[x]
    BY <1>1 DEF LaneInv, LaneTypes, HoldersHold
  <1>5. HoldersHold'
    BY <1>1, <1>2 DEF LaneInv, LaneTypes, HoldersHold
  <1>6. PassesExpire' /\ MintsWereHeld'
    BY <1>2, <1>3, <1>4, LaneAssumption DEF LaneInv, LaneTypes, PassesExpire, MintsWereHeld
  <1>7. RunsWereHeld'
    <2> SUFFICES ASSUME NEW k \in DOMAIN ran.lane PROVE k[2] * HourLength < heldAt'[k[1]] + PassLife + resets.waited
      BY <1>2 DEF RunsWereHeld
    <2>1. k \in Holders \X Nat /\ k[2] * HourLength < heldAt[k[1]] + PassLife + resets.waited
      BY DEF LaneInv, RunsWereHeld, RunsAreCounted
    <2> QED
      BY <2>1, <1>3, <1>4, LaneAssumption DEF LaneInv, LaneTypes
  <1>8. BucketPays' /\ RowsBounded'
    BY <1>2 DEF LaneInv, BucketPays, RowsBounded
  <1>9. RunsAreCounted'
    BY <1>2 DEF LaneInv, RunsAreCounted, Forgiven, Hour, RunsOf
  <1> QED
    BY <1>3, <1>5, <1>6, <1>7, <1>8, <1>9 DEF LaneInv

\* The clock pays one run, and an hour that begins has none yet.
LEMMA TickKeeps == LaneInv /\ Tick => LaneInv'
  <1> SUFFICES ASSUME LaneInv, Tick PROVE LaneInv'
    OBVIOUS
  <1>1. /\ laneTick' = laneTick + 1
        /\ limiter' = [tokens |-> IF limiter.tokens < ToolBucket THEN limiter.tokens + 1 ELSE limiter.tokens,
                       ips |-> limiter.ips, lanes |-> limiter.lanes]
        /\ heldAt' = [h \in Holders |-> IF h \in holding THEN laneTick + 1 ELSE heldAt[h]]
        /\ UNCHANGED <<holding, mints, passes, secret, ran, resets>>
    BY DEF Tick, LaneInv, LaneTypes
  <1>2. LaneTypes'
    BY <1>1 DEF LaneInv, LaneTypes
  <1>3. \A x \in Holders : heldAt[x] <= heldAt'[x]
    BY <1>1 DEF LaneInv, LaneTypes, HoldersHold
  <1>4. HoldersHold'
    BY <1>1 DEF LaneInv, LaneTypes, HoldersHold
  <1>5. PassesExpire' /\ MintsWereHeld'
    BY <1>1, <1>2, <1>3, LaneAssumption DEF LaneInv, LaneTypes, PassesExpire, MintsWereHeld
  <1>6. RunsWereHeld'
    <2> SUFFICES ASSUME NEW k \in DOMAIN ran.lane PROVE k[2] * HourLength < heldAt'[k[1]] + PassLife + resets.waited
      BY <1>1 DEF RunsWereHeld
    <2>1. k \in Holders \X Nat /\ k[2] * HourLength < heldAt[k[1]] + PassLife + resets.waited
      BY DEF LaneInv, RunsWereHeld, RunsAreCounted
    <2> QED
      BY <2>1, <1>2, <1>3, LaneAssumption DEF LaneInv, LaneTypes
  <1>7. BucketPays'
    BY <1>1, LaneAssumption DEF LaneInv, LaneTypes, BucketPays
  <1>8. RowsBounded'
    BY <1>1 DEF LaneInv, RowsBounded
  <1>9. RunsAreCounted'
    <2> SUFFICES ASSUME NEW k \in DOMAIN ran.lane
                 PROVE  /\ k \in Holders \X Nat /\ ran.lane[k] \in Nat
                        /\ k[2] * HourLength <= laneTick + 1
                        /\ ran.lane[k] <= LanePerHour * (1 + Forgiven)
                        /\ k[2] = Hour' => ran.lane[k] <= (RunsOf(limiter.lanes, k[1]))' + LanePerHour * Forgiven
      BY <1>1 DEF RunsAreCounted, Forgiven
    <2>1. /\ k \in Holders \X Nat /\ ran.lane[k] \in Nat
          /\ k[2] * HourLength <= laneTick
          /\ ran.lane[k] <= LanePerHour * (1 + Forgiven)
          /\ k[2] = Hour => ran.lane[k] <= RunsOf(limiter.lanes, k[1]) + LanePerHour * Forgiven
      BY DEF LaneInv, RunsAreCounted
    <2>2. k[2] \in Nat /\ k[2] * HourLength \in Nat /\ laneTick \in Nat
      BY <2>1, LaneAssumption DEF LaneInv, LaneTypes
    <2>3. ASSUME k[2] = Hour' PROVE Hour' = Hour
      <3>1. k[2] = (laneTick + 1) \div HourLength
        BY <2>3, <1>1 DEF Hour
      <3> QED
        BY <3>1, <2>1, <2>2, <2>3, HourGoesOn DEF Hour
    <2>4. Hour' = Hour => (RunsOf(limiter.lanes, k[1]))' = RunsOf(limiter.lanes, k[1])
      BY <1>1 DEF RunsOf
    <2> QED
      BY <2>1, <2>2, <2>3, <2>4
  <1> QED
    BY <1>2, <1>4, <1>5, <1>6, <1>7, <1>8, <1>9 DEF LaneInv

\* A restart fills the bucket and forgets the counts, once.
LEMMA RebootKeeps == LaneInv /\ Reboot => LaneInv'
  <1> SUFFICES ASSUME LaneInv, Reboot PROVE LaneInv'
    OBVIOUS
  <1>1. /\ limiter' = NewLimiter /\ mints' = {} /\ UNCHANGED <<holding, passes, laneTick, ran, heldAt>>
        /\ resets' = [boots |-> resets.boots + 1, dropped |-> resets.dropped, trades |-> resets.trades,
                      waited |-> resets.waited]
    BY DEF Reboot, LaneInv, LaneTypes
  <1>2. LaneTypes'
    BY <1>1, LaneAssumption DEF LaneInv, LaneTypes, NewLimiter
  <1>3. BucketPays'
    <2>1. ToolBucket * (1 + (resets.boots + 1)) = ToolBucket * (1 + resets.boots) + ToolBucket
      BY LaneAssumption DEF LaneInv, LaneTypes
    <2>2. ToolBucket * (1 + resets.boots) \in Nat
      BY LaneAssumption DEF LaneInv, LaneTypes
    <2>3. /\ ran.all \in Nat /\ limiter.tokens \in Nat /\ laneTick \in Nat /\ ToolBucket \in Nat
          /\ ran.all + limiter.tokens <= ToolBucket * (1 + resets.boots) + laneTick
      BY LaneAssumption DEF LaneInv, LaneTypes, BucketPays
    <2>4. limiter'.tokens = ToolBucket /\ ran'.all = ran.all /\ resets'.boots = resets.boots + 1 /\ laneTick' = laneTick
      BY <1>1 DEF NewLimiter
    <2> DEFINE A == ToolBucket * (1 + resets.boots)
               B == ToolBucket * (1 + (resets.boots + 1))
    <2> HIDE DEF A, B
    <2>5. ran.all + ToolBucket <= B + laneTick
      BY <2>1, <2>2, <2>3 DEF A, B
    <2> QED
      BY <2>4, <2>5 DEF BucketPays, B
  <1>4. RowsBounded'
    BY <1>1 DEF RowsBounded, NewLimiter
  <1>5. RunsAreCounted'
    <2>1. Forgiven \in Nat /\ Forgiven' = Forgiven + 1
      BY <1>1 DEF Forgiven, LaneInv, LaneTypes
    <2> SUFFICES ASSUME NEW k \in DOMAIN ran.lane
                 PROVE  /\ k \in Holders \X Nat /\ ran.lane[k] \in Nat
                        /\ k[2] * HourLength <= laneTick
                        /\ ran.lane[k] <= LanePerHour * (1 + (Forgiven + 1))
                        /\ ran.lane[k] <= (RunsOf(limiter.lanes, k[1]))' + LanePerHour * (Forgiven + 1)
      BY <1>1, <2>1 DEF RunsAreCounted
    <2>2. /\ k \in Holders \X Nat /\ ran.lane[k] \in Nat
          /\ k[2] * HourLength <= laneTick
          /\ ran.lane[k] <= LanePerHour * (1 + Forgiven)
      BY DEF LaneInv, RunsAreCounted
    <2>3. (RunsOf(limiter.lanes, k[1]))' = 0
      BY <1>1 DEF RunsOf, NewLimiter
    <2> DEFINE A == LanePerHour * Forgiven
    <2>4. /\ A \in Nat /\ LanePerHour \in Nat /\ LanePerHour * (1 + Forgiven) = A + LanePerHour
          /\ LanePerHour * (Forgiven + 1) = A + LanePerHour
          /\ LanePerHour * (1 + (Forgiven + 1)) = A + LanePerHour + LanePerHour
      BY <2>1, Forgiveness, LaneAssumption
    <2> HIDE DEF A
    <2> QED
      BY <2>2, <2>3, <2>4
  <1>6. HoldersHold' /\ PassesExpire' /\ MintsWereHeld' /\ RunsWereHeld'
    BY <1>1 DEF LaneInv, HoldersHold, PassesExpire, MintsWereHeld, RunsWereHeld
  <1> QED
    BY <1>2, <1>3, <1>4, <1>5, <1>6 DEF LaneInv

\* Anything else leaves the limiter alone.
LEMMA LaneStutters == LaneInv /\ UNCHANGED hlvars => LaneInv'
  BY DEF hlvars, LaneInv, LaneTypes, BucketPays, RowsBounded, RunsAreCounted, HoldersHold,
         PassesExpire, MintsWereHeld, RunsWereHeld, Forgiven, Hour, RunsOf

\* For any bucket, hourly counts, length of an hour, life of a pass and size of
\* the maps: what the tools run is paid by the bucket, the lane included, an
\* address stays within its hourly count once for every restart and dropped
\* map, and no pass works longer than its life, and the wait of a mint, after the
\* last holding (main.rs ToolLimiter, take_tool_slot, verify_lane_token).
THEOREM LaneIsBounded == LaneSpec => []LaneWithinBounds
  <1>1. LaneInv /\ [LaneNext]_hlvars => LaneInv'
    BY RunToolKeeps, AskKeeps, GrantKeeps, TradeKeeps, TickKeeps, RebootKeeps, LaneStutters DEF LaneNext
  <1>2. LaneInv => LaneWithinBounds
    <2> SUFFICES ASSUME LaneInv PROVE LaneWithinBounds
      OBVIOUS
    <2>1. ran.all <= ToolBucket * (1 + resets.boots) + laneTick
      <3>1. ToolBucket * (1 + resets.boots) \in Nat
        BY LaneAssumption DEF LaneInv, LaneTypes
      <3> QED
        BY <3>1 DEF LaneInv, LaneTypes, BucketPays
    <2>2. 1 + resets.boots + resets.dropped = 1 + Forgiven
      BY DEF LaneInv, LaneTypes, Forgiven
    <2> QED
      BY <2>1, <2>2 DEF LaneWithinBounds, LaneInv, RunsAreCounted, RunsWereHeld
  <1> QED
    BY LaneStarts, <1>1, <1>2, PTL DEF LaneSpec

-----------------------------------------------------------------------------
(* The witness: any list, contents, limits, losses and restarts *)

(* The inductive invariant *)

WitnessRows ==
    [url : Urls, observed : Arts \cup {None}, pending : Arts \cup {None},
     state : {"unavailable", "not_an_image", "witnessed", "delisted"},
     fails : Nat, count : Nat, next : Int]

Sightings == [art : Arts, at : Int, moved : BOOLEAN]

WitnessTypes ==
    /\ DOMAIN witness \subseteq Listed /\ \A c \in DOMAIN witness : witness[c] \in WitnessRows
    /\ sighted \in [Listed -> Seq(Sightings)]
    /\ published \in Publishable /\ hours \in Int
    /\ cycle = [pc |-> cycle.pc, entries |-> cycle.entries, now |-> cycle.now, left |-> cycle.left]
    /\ cycle.now \in Int /\ cycle.left \subseteq Listed
    /\ \A c \in cycle.left : cycle.entries[c] \in Urls

\* What is served was earned and its replacements counted.
ServesEarned(r, seen) ==
    r.observed # None =>
        /\ Earned(seen, r.observed)
        /\ r.observed # seen[1].art => r.count > 0
        /\ r.state \in {"witnessed", "delisted"}

\* Pending art is that of the latest good fetch, and an adoption waits for a
\* recheck unless the logo moved since.
PendingIsLatest(r, seen, mv) ==
    r.pending # None =>
        /\ seen # <<>> /\ r.pending = seen[Len(seen)].art
        /\ mv \/ r.next >= seen[Len(seen)].at + Recheck

RowHolds(r, seen, mv) ==
    /\ r.observed = None <=> seen = <<>>
    /\ ServesEarned(r, seen)
    /\ PendingIsLatest(r, seen, mv)

WitnessInv ==
    /\ WitnessTypes
    /\ \A c \in Listed \ DOMAIN witness : sighted[c] = <<>>
    /\ \A c \in DOMAIN witness : RowHolds(witness[c], sighted[c], c \in moved)

-----------------------------------------------------------------------------
(* One check of one row *)

LEMMA BackoffIsPositive == ASSUME NEW n \in Nat PROVE Backoff(n + 1) \in Nat
  <1>1. CASE n + 1 > 5
    BY <1>1, WitnessAssumption DEF Backoff
  <1>2. CASE n + 1 \in 1..5
    <2>1. n + 1 = 1 \/ n + 1 = 2 \/ n + 1 = 3 \/ n + 1 = 4 \/ n + 1 = 5
      BY <1>2
    <2>2. <<1, 2, 4, 8, 16>>[n + 1] \in Nat
      BY <2>1
    <2> QED
      BY <1>2, <2>2, WitnessAssumption DEF Backoff
  <1> QED
    BY <1>1, <1>2

\* What was earned stays earned.
LEMMA EarnedGrows ==
    ASSUME NEW seen \in Seq(Sightings), seen # <<>>, NEW s \in Sightings, NEW art, Earned(seen, art)
    PROVE  Earned(Append(seen, s), art) /\ Append(seen, s)[1] = seen[1]
  <1>1. Len(Append(seen, s)) = Len(seen) + 1 /\ \A i \in 1..Len(seen) : Append(seen, s)[i] = seen[i]
    OBVIOUS
  <1>2. Len(seen) \in Nat /\ Len(seen) >= 1
    OBVIOUS
  <1>3. Append(seen, s)[1] = seen[1]
    BY <1>1, <1>2
  <1>4. CASE seen[1].art = art
    BY <1>3, <1>4 DEF Earned
  <1>5. ASSUME NEW n \in 2..Len(seen), seen[n].art = art,
               seen[n].moved \/ (seen[n - 1].art = art /\ seen[n].at >= seen[n - 1].at + Recheck)
        PROVE  Earned(Append(seen, s), art)
    <2>1. n \in 2..Len(Append(seen, s)) /\ n \in 1..Len(seen) /\ n - 1 \in 1..Len(seen)
      BY <1>1, <1>2
    <2>2. Append(seen, s)[n] = seen[n] /\ Append(seen, s)[n - 1] = seen[n - 1]
      BY <1>1, <2>1
    <2> QED
      BY <1>5, <2>1, <2>2 DEF Earned
  <1> QED
    BY <1>3, <1>4, <1>5 DEF Earned

\* A good fetch.
LEMMA GoodFetchKeeps ==
    ASSUME NEW r \in WitnessRows, NEW seen \in Seq(Sightings), NEW mv \in BOOLEAN,
           RowHolds(r, seen, mv), NEW art \in Arts, NEW now \in Int, NEW replaced \in BOOLEAN,
           replaced \/ now >= r.next
    PROVE  /\ Judged(r, art, now, replaced).row \in WitnessRows
           /\ RowHolds(Judged(r, art, now, replaced).row,
                       Append(seen, [art |-> art, at |-> now, moved |-> replaced \/ mv]), FALSE)
  <1> DEFINE s == [art |-> art, at |-> now, moved |-> replaced \/ mv]
             more == Append(seen, s)
  <1>1. s \in Sightings
    BY DEF Sightings
  <1>2. /\ more \in Seq(Sightings) /\ more # <<>> /\ Len(more) = Len(seen) + 1 /\ Len(seen) \in Nat
        /\ more[Len(more)] = s
        /\ \A i \in 1..Len(seen) : more[i] = seen[i]
    BY <1>1
  <1>3. s.art = art /\ s.at = now /\ s.moved = (replaced \/ mv)
    OBVIOUS
  <1>4. art # None /\ Recheck \in Nat
    BY WitnessAssumption
  <1> HIDE DEF s, more
  <1>5. CASE r.observed = None
    <2>1. Judged(r, art, now, replaced).row = Seen(r, art, "witnessed", r.count, now)
      BY <1>5 DEF Judged
    <2>2. seen = <<>>
      BY <1>5 DEF RowHolds
    <2>3. more[1] = s
      BY <1>2, <2>2
    <2>4. Earned(more, art)
      BY <1>3, <2>3 DEF Earned
    <2> QED
      BY <1>2, <1>3, <1>4, <2>1, <2>3, <2>4
      DEF RowHolds, ServesEarned, PendingIsLatest, Seen, WitnessRows, s, more
  <1>6. CASE r.observed # None
    <2>1. /\ seen # <<>> /\ Earned(seen, r.observed)
          /\ r.observed # seen[1].art => r.count > 0
          /\ r.state \in {"witnessed", "delisted"}
      BY <1>6 DEF RowHolds, ServesEarned
    <2>2. Earned(more, r.observed) /\ more[1] = seen[1]
      BY <1>1, <2>1, EarnedGrows DEF more
    <2>3. Len(more) \in 2..Len(more) /\ Len(more) - 1 = Len(seen) /\ Len(seen) \in 1..Len(seen)
      BY <1>2, <2>1
    <2>4. more[Len(more) - 1] = seen[Len(seen)]
      BY <1>2, <2>3
    <2>5. ASSUME replaced \/ mv PROVE Earned(more, art)
      BY <1>2, <1>3, <2>3, <2>5 DEF Earned
    <2>6. CASE replaced
      <3>1. Judged(r, art, now, replaced).row = Replaced(r, art, now)
        BY <1>6, <2>6 DEF Judged
      <3>2. Replaced(r, art, now).observed # more[1].art => Replaced(r, art, now).count > 0
        BY <2>1, <2>2 DEF Replaced, Seen, WitnessRows
      <3>3. Replaced(r, art, now) \in WitnessRows
        BY <1>4 DEF Replaced, Seen, WitnessRows
      <3>4. /\ Replaced(r, art, now).observed = art /\ Replaced(r, art, now).pending = None
            /\ Replaced(r, art, now).state = "witnessed"
        BY DEF Replaced, Seen
      <3>5. RowHolds(Replaced(r, art, now), more, FALSE)
        BY <1>2, <1>4, <2>5, <2>6, <3>2, <3>4 DEF RowHolds, ServesEarned, PendingIsLatest
      <3> QED
        BY <3>1, <3>3, <3>5 DEF more, s
    <2>7. CASE ~replaced /\ r.observed = art
      <3>1. Judged(r, art, now, replaced).row = Settled(r, now)
        BY <1>6, <2>7 DEF Judged
      <3>2. Settled(r, now) \in WitnessRows
        BY <1>4 DEF Settled, Seen, WitnessRows
      <3> QED
        BY <1>2, <1>6, <2>1, <2>2, <3>1, <3>2
        DEF RowHolds, ServesEarned, PendingIsLatest, Settled, Seen, s, more
    <2>8. CASE ~replaced /\ r.observed # art /\ Agreed(r, art)
      <3>1. Judged(r, art, now, replaced).row = Adopted(r, art, now)
        BY <1>6, <2>8 DEF Judged
      <3>2. Adopted(r, art, now) \in WitnessRows
        BY <1>4 DEF Adopted, Seen, WitnessRows
      <3>3. /\ seen[Len(seen)].art = art
            /\ mv \/ r.next >= seen[Len(seen)].at + Recheck
        BY <1>4, <2>8 DEF RowHolds, PendingIsLatest, Agreed
      <3>4. seen[Len(seen)].at \in Int /\ r.next \in Int
        <4>1. seen[Len(seen)] \in Sightings
          BY <2>3
        <4> QED
          BY <4>1 DEF Sightings, WitnessRows
      <3>5. Earned(more, art)
        <4>1. CASE mv
          BY <2>5, <4>1
        <4>2. CASE ~mv
          <5>1. s.at >= seen[Len(seen)].at + Recheck
            BY <1>3, <1>4, <2>8, <3>3, <3>4, <4>2
          <5> QED
            BY <1>2, <1>3, <2>3, <2>4, <3>3, <5>1 DEF Earned
        <4> QED
          BY <4>1, <4>2
      <3>6. Adopted(r, art, now).count > 0
        BY DEF Adopted, Seen, WitnessRows
      <3> QED
        BY <1>2, <1>4, <2>1, <3>1, <3>2, <3>5, <3>6
        DEF RowHolds, ServesEarned, PendingIsLatest, Adopted, Seen, s, more
    <2>9. CASE ~replaced /\ r.observed # art /\ ~Agreed(r, art)
      <3> DEFINE held == [url |-> r.url, observed |-> r.observed, pending |-> art, state |-> r.state,
                          fails |-> 0, count |-> r.count, next |-> now + Recheck]
      <3>1. Judged(r, art, now, replaced).row = held
        BY <1>6, <2>9 DEF Judged, Settled, Seen
      <3>2. held \in WitnessRows
        BY <1>4 DEF WitnessRows
      <3>3. held.next >= more[Len(more)].at + Recheck /\ more[Len(more)].art = art
        BY <1>2, <1>3, <1>4
      <3>4. /\ held.observed = r.observed /\ held.count = r.count /\ held.state = r.state
            /\ held.pending = art
        OBVIOUS
      <3> HIDE DEF held
      <3> QED
        BY <1>2, <1>6, <2>1, <2>2, <3>1, <3>2, <3>3, <3>4
        DEF RowHolds, ServesEarned, PendingIsLatest, s, more
    <2> QED
      BY <2>6, <2>7, <2>8, <2>9
  <1> QED
    BY <1>5, <1>6

\* A fetch that failed or found something else.
LEMMA MissKeeps ==
    ASSUME NEW r \in WitnessRows, NEW seen \in Seq(Sightings), NEW mv \in BOOLEAN,
           RowHolds(r, seen, mv), NEW now \in Int, NEW replaced \in BOOLEAN, NEW outcome,
           replaced \/ now >= r.next
    PROVE  /\ Missed(r, outcome, now) \in WitnessRows
           /\ RowHolds(Missed(r, outcome, now), seen, mv \/ replaced)
  <1>1. r.fails \in Nat /\ r.next \in Int
    BY DEF WitnessRows
  <1>2. Backoff(r.fails + 1) \in Nat
    BY <1>1, BackoffIsPositive
  <1> DEFINE m == Missed(r, outcome, now)
  <1>3. /\ m.observed = r.observed /\ m.pending = r.pending /\ m.count = r.count
        /\ r.observed # None => m.state = r.state
        /\ m.next = now + Backoff(r.fails + 1)
    BY DEF Missed
  <1>4. m \in WitnessRows
    BY <1>2 DEF Missed, WitnessRows
  <1> HIDE DEF m
  <1>5. replaced \/ m.next >= r.next
    BY <1>1, <1>2, <1>3
  <1>6. PendingIsLatest(m, seen, mv \/ replaced)
    <2> SUFFICES ASSUME r.pending # None, ~(mv \/ replaced)
                 PROVE  /\ seen # <<>> /\ r.pending = seen[Len(seen)].art
                        /\ m.next >= seen[Len(seen)].at + Recheck
      BY <1>3 DEF PendingIsLatest, RowHolds
    <2>1. /\ seen # <<>> /\ r.pending = seen[Len(seen)].art
          /\ r.next >= seen[Len(seen)].at + Recheck
      BY DEF RowHolds, PendingIsLatest
    <2>2. seen[Len(seen)] \in Sightings
      BY <2>1
    <2>3. seen[Len(seen)].at \in Int /\ m.next \in Int /\ Recheck \in Nat
      BY <1>4, <2>2, WitnessAssumption DEF Sightings, WitnessRows
    <2> QED
      BY <1>1, <1>5, <2>1, <2>3
  <1>7. ServesEarned(m, seen)
    BY <1>3 DEF RowHolds, ServesEarned
  <1> QED
    BY <1>3, <1>4, <1>6, <1>7 DEF RowHolds, m

-----------------------------------------------------------------------------
(* The steps *)

\* The row a check starts from, with the url of the list.
Looked(c) == [Stored(c) EXCEPT !.url = cycle.entries[c]]

LEMMA LookedHolds ==
    ASSUME WitnessInv, NEW c \in cycle.left
    PROVE  /\ c \in Listed /\ Looked(c) \in WitnessRows /\ sighted[c] \in Seq(Sightings)
           /\ RowHolds(Looked(c), sighted[c], c \in moved)
           /\ Due(c) => IsReplaced(c) \/ cycle.now >= Looked(c).next
           /\ cycle.now \in Int
  <1>1. c \in Listed /\ cycle.entries[c] \in Urls /\ sighted[c] \in Seq(Sightings) /\ cycle.now \in Int
    BY DEF WitnessInv, WitnessTypes
  <1>2. CASE c \in DOMAIN witness
    <2>1. Stored(c) = witness[c] /\ witness[c] \in WitnessRows /\ RowHolds(witness[c], sighted[c], c \in moved)
      BY <1>2 DEF Stored, WitnessInv, WitnessTypes
    <2>2. Looked(c) = [url |-> cycle.entries[c], observed |-> witness[c].observed,
                       pending |-> witness[c].pending, state |-> witness[c].state,
                       fails |-> witness[c].fails, count |-> witness[c].count,
                       next |-> witness[c].next]
      BY <2>1 DEF Looked, WitnessRows
    <2>3. /\ Looked(c).observed = witness[c].observed /\ Looked(c).pending = witness[c].pending
          /\ Looked(c).state = witness[c].state /\ Looked(c).count = witness[c].count
          /\ Looked(c).next = witness[c].next
      BY <2>2
    <2>4. Looked(c) \in WitnessRows
      BY <1>1, <2>1, <2>2 DEF WitnessRows
    <2> QED
      BY <1>1, <2>1, <2>3, <2>4 DEF RowHolds, ServesEarned, PendingIsLatest, Due
  <1>3. CASE c \notin DOMAIN witness
    <2>1. Looked(c) = Blank(cycle.entries[c]) /\ Stored(c) = Blank(cycle.entries[c])
      BY <1>3 DEF Looked, Stored, Blank
    <2>2. sighted[c] = <<>>
      BY <1>1, <1>3 DEF WitnessInv
    <2>3. Looked(c) \in WitnessRows
      BY <1>1, <2>1 DEF WitnessRows, Blank
    <2> QED
      BY <1>1, <2>1, <2>2, <2>3 DEF RowHolds, ServesEarned, PendingIsLatest, Due, Blank
  <1> QED
    BY <1>2, <1>3

\* What a save leaves in the table.
LEMMA SavedRow ==
    ASSUME WitnessInv, NEW c \in Listed, NEW verdict, NEW upto \in Int, Save(c, verdict, upto),
           verdict.row \in WitnessRows,
           UNCHANGED <<published, hours>>, Passed(c),
           sighted' \in [Listed -> Seq(Sightings)],
           \A d \in Listed \ {c} : sighted'[d] = sighted[d] /\ (d \in moved' <=> d \in moved),
           upto = 0 => sighted' = sighted /\ moved' = moved,
           upto # 0 => RowHolds(verdict.row, sighted'[c], c \in moved')
    PROVE  WitnessInv'
  <1>1. /\ cycle' = [pc |-> cycle.pc, entries |-> cycle.entries, now |-> cycle.now,
                     left |-> cycle.left \ {c}]
    BY DEF WitnessInv, WitnessTypes, Passed
  <1>2. CASE upto = 0
    BY <1>1, <1>2 DEF WitnessInv, WitnessTypes, Save
  <1>3. CASE upto # 0
    <2>1. witness' = [d \in DOMAIN witness \cup {c} |-> IF d = c THEN verdict.row ELSE witness[d]]
      BY <1>3 DEF Save
    <2>2. DOMAIN witness' = DOMAIN witness \cup {c} /\ witness'[c] = verdict.row
      BY <2>1
    <2>3. \A d \in DOMAIN witness' \ {c} : d \in DOMAIN witness /\ witness'[d] = witness[d]
      BY <2>1
    <2>4. WitnessTypes'
      BY <1>1, <2>2, <2>3 DEF WitnessInv, WitnessTypes
    <2>5. \A d \in Listed \ DOMAIN witness' : sighted'[d] = <<>>
      BY <2>2 DEF WitnessInv
    <2>6. ASSUME NEW d \in DOMAIN witness' PROVE RowHolds(witness'[d], sighted'[d], d \in moved')
      <3>1. CASE d = c
        BY <1>3, <2>2, <3>1
      <3>2. CASE d # c
        <4>1. d \in DOMAIN witness /\ witness'[d] = witness[d] /\ d \in Listed
          BY <2>3, <3>2 DEF WitnessInv, WitnessTypes
        <4>2. RowHolds(witness[d], sighted[d], d \in moved)
          BY <4>1 DEF WitnessInv
        <4>3. sighted'[d] = sighted[d] /\ (d \in moved' <=> d \in moved)
          BY <3>2, <4>1
        <4> QED
          BY <4>1, <4>2, <4>3 DEF RowHolds, PendingIsLatest
      <3> QED
        BY <3>1, <3>2
    <2> QED
      BY <2>4, <2>5, <2>6 DEF WitnessInv
  <1> QED
    BY <1>2, <1>3

LEMMA WitnessStarts == WitnessInit => WitnessInv
  BY DEF WitnessInit, WitnessInv, WitnessTypes, NoCycle

LEMMA GoodKeeps ==
    ASSUME WitnessInv, NEW c \in Listed, CheckGood(c)
    PROVE  WitnessInv'
  <1>1. PICK art \in Arts, upto \in SaveSteps(c) :
          /\ Save(c, Judged(Looked(c), art, cycle.now, IsReplaced(c)), upto)
          /\ sighted' = IF upto = 0 THEN sighted
                        ELSE [sighted EXCEPT ![c] =
                                Append(@, [art |-> art, at |-> cycle.now, moved |-> IsReplaced(c) \/ c \in moved])]
          /\ moved' = IF upto = 0 THEN moved ELSE moved \ {c}
    BY DEF CheckGood, Looked
  <1>2. c \in cycle.left /\ Due(c) /\ Passed(c) /\ UNCHANGED <<published, hours>>
    BY DEF CheckGood
  <1>3. upto \in Int
    BY DEF SaveSteps
  <1>4. /\ Looked(c) \in WitnessRows /\ sighted[c] \in Seq(Sightings) /\ cycle.now \in Int
        /\ RowHolds(Looked(c), sighted[c], c \in moved)
        /\ IsReplaced(c) \/ cycle.now >= Looked(c).next
    BY <1>2, LookedHolds
  <1> DEFINE s == [art |-> art, at |-> cycle.now, moved |-> IsReplaced(c) \/ c \in moved]
             v == Judged(Looked(c), art, cycle.now, IsReplaced(c))
  <1>5. v.row \in WitnessRows /\ RowHolds(v.row, Append(sighted[c], s), FALSE)
    <2>1. IsReplaced(c) \in BOOLEAN /\ (c \in moved) \in BOOLEAN
      BY DEF IsReplaced
    <2> QED
      BY <1>4, <2>1, GoodFetchKeeps
  <1>6. s \in Sightings
    BY <1>4 DEF Sightings, IsReplaced
  <1>7. sighted \in [Listed -> Seq(Sightings)]
    BY DEF WitnessInv, WitnessTypes
  <1>8. Save(c, v, upto) /\ (upto # 0 => sighted' = [sighted EXCEPT ![c] = Append(@, s)])
    BY <1>1
  <1> HIDE DEF s, v
  <1>9. Append(sighted[c], s) \in Seq(Sightings)
    BY <1>4, <1>6
  <1>10. sighted' \in [Listed -> Seq(Sightings)]
    BY <1>1, <1>7, <1>8, <1>9
  <1>11. /\ \A d \in Listed \ {c} : sighted'[d] = sighted[d] /\ (d \in moved' <=> d \in moved)
         /\ upto = 0 => sighted' = sighted /\ moved' = moved
    BY <1>1, <1>7, <1>8
  <1>12. upto # 0 => RowHolds(v.row, sighted'[c], c \in moved')
    <2> SUFFICES ASSUME upto # 0 PROVE RowHolds(v.row, sighted'[c], c \in moved')
      OBVIOUS
    <2>1. sighted'[c] = Append(sighted[c], s) /\ (c \in moved' <=> FALSE)
      BY <1>1, <1>7, <1>8
    <2> QED
      BY <1>5, <2>1 DEF RowHolds, PendingIsLatest
  <1> QED
    BY <1>2, <1>3, <1>5, <1>8, <1>10, <1>11, <1>12, SavedRow

LEMMA BadKeeps ==
    ASSUME WitnessInv, NEW c \in Listed, CheckBad(c)
    PROVE  WitnessInv'
  <1>1. PICK outcome, upto :
          /\ upto \in SaveSteps(c)
          /\ Save(c, [row |-> Missed(Looked(c), outcome, cycle.now), blob |-> FALSE], upto)
          /\ moved' = IF upto # 0 /\ IsReplaced(c) THEN moved \cup {c} ELSE moved
    <2>1. PICK o \in {"not an image", "failed"} : \E upto \in SaveSteps(c) \ {1, 2} :
            /\ Save(c, [row |-> Missed(Looked(c), o, cycle.now), blob |-> FALSE], upto)
            /\ moved' = IF upto # 0 /\ IsReplaced(c) THEN moved \cup {c} ELSE moved
      BY Zenon DEF CheckBad, Looked
    <2>2. PICK u \in SaveSteps(c) \ {1, 2} :
            /\ Save(c, [row |-> Missed(Looked(c), o, cycle.now), blob |-> FALSE], u)
            /\ moved' = IF u # 0 /\ IsReplaced(c) THEN moved \cup {c} ELSE moved
      BY <2>1, Zenon
    <2>3. u \in SaveSteps(c)
      BY Zenon
    <2> QED
      BY <2>2, <2>3, Zenon
  <1>2. c \in cycle.left /\ Due(c) /\ Passed(c) /\ UNCHANGED <<published, hours, sighted>>
    BY DEF CheckBad
  <1>3. upto \in Int
    BY <1>1 DEF SaveSteps
  <1>4. /\ Looked(c) \in WitnessRows /\ sighted[c] \in Seq(Sightings) /\ cycle.now \in Int
        /\ RowHolds(Looked(c), sighted[c], c \in moved)
        /\ IsReplaced(c) \/ cycle.now >= Looked(c).next
    BY <1>2, LookedHolds
  <1> DEFINE m == Missed(Looked(c), outcome, cycle.now)
             v == [row |-> m, blob |-> FALSE]
  <1>5. m \in WitnessRows /\ RowHolds(m, sighted[c], (c \in moved) \/ IsReplaced(c))
    <2>1. IsReplaced(c) \in BOOLEAN
      BY DEF IsReplaced
    <2>2. (c \in moved) \in BOOLEAN
      OBVIOUS
    <2> QED
      BY <1>4, <2>1, <2>2, MissKeeps
  <1>6. Save(c, v, upto) /\ v.row = m
    BY <1>1
  <1> HIDE DEF m, v
  <1>7. /\ \A d \in Listed \ {c} : sighted'[d] = sighted[d] /\ (d \in moved' <=> d \in moved)
        /\ upto = 0 => sighted' = sighted /\ moved' = moved
        /\ sighted' \in [Listed -> Seq(Sightings)]
    BY <1>1, <1>2 DEF WitnessInv, WitnessTypes
  <1>8. upto # 0 => RowHolds(v.row, sighted'[c], c \in moved')
    <2> SUFFICES ASSUME upto # 0 PROVE RowHolds(v.row, sighted'[c], c \in moved')
      OBVIOUS
    <2>1. c \in moved' <=> (c \in moved) \/ IsReplaced(c)
      BY <1>1
    <2> QED
      BY <1>2, <1>5, <1>6, <2>1 DEF RowHolds, PendingIsLatest
  <1> QED
    BY <1>2, <1>3, <1>5, <1>6, <1>7, <1>8, SavedRow

LEMMA DelistKeeps == WitnessInv /\ Delist => WitnessInv'
  <1> SUFFICES ASSUME WitnessInv, Delist PROVE WitnessInv'
    OBVIOUS
  <1>1. /\ DOMAIN witness' = DOMAIN witness /\ UNCHANGED <<published, hours, sighted, moved>>
        /\ cycle' = NoCycle
    BY DEF Delist
  <1>2. ASSUME NEW c \in DOMAIN witness
        PROVE  /\ witness'[c] \in WitnessRows
               /\ RowHolds(witness'[c], sighted[c], c \in moved)
    <2>1. witness[c] \in WitnessRows /\ RowHolds(witness[c], sighted[c], c \in moved)
      BY DEF WitnessInv, WitnessTypes
    <2>2. \/ witness'[c] = witness[c]
          \/ witness'[c] = [witness[c] EXCEPT !.state = "delisted"]
      BY DEF Delist
    <2>3. /\ witness'[c] \in WitnessRows
          /\ witness'[c].observed = witness[c].observed /\ witness'[c].pending = witness[c].pending
          /\ witness'[c].count = witness[c].count /\ witness'[c].next = witness[c].next
          /\ witness'[c].state \in {witness[c].state, "delisted"}
      BY <2>1, <2>2 DEF WitnessRows
    <2> QED
      BY <2>1, <2>3 DEF RowHolds, ServesEarned, PendingIsLatest
  <1>3. WitnessTypes'
    BY <1>1, <1>2 DEF WitnessInv, WitnessTypes, NoCycle
  <1> QED
    BY <1>1, <1>2, <1>3 DEF WitnessInv

LEMMA WalkKeeps ==
    ASSUME WitnessInv, UNCHANGED <<witness, sighted, moved>>, published' \in Publishable, hours' \in Int,
           \/ cycle' = cycle \/ cycle' = NoCycle
           \/ \E c \in Listed : cycle' = [cycle EXCEPT !.left = @ \ {c}]
           \/ cycle' = [pc |-> "checking", entries |-> published, now |-> hours, left |-> DOMAIN published]
    PROVE  WitnessInv'
  <1>1. DOMAIN published \subseteq Listed /\ \A c \in DOMAIN published : published[c] \in Urls
    BY DEF WitnessInv, WitnessTypes, Publishable
  <1> DEFINE Whole ==
        /\ cycle' = [pc |-> cycle'.pc, entries |-> cycle'.entries, now |-> cycle'.now, left |-> cycle'.left]
        /\ cycle'.now \in Int /\ cycle'.left \subseteq Listed
        /\ \A c \in cycle'.left : cycle'.entries[c] \in Urls
  <1>2. Whole
    <2>1. CASE cycle' = cycle \/ cycle' = NoCycle
      BY <2>1 DEF WitnessInv, WitnessTypes, NoCycle
    <2>2. ASSUME NEW c \in Listed, cycle' = [cycle EXCEPT !.left = @ \ {c}]
          PROVE  Whole
      <3>1. cycle' = [pc |-> cycle.pc, entries |-> cycle.entries, now |-> cycle.now, left |-> cycle.left \ {c}]
        BY <2>2 DEF WitnessInv, WitnessTypes
      <3> QED
        BY <3>1 DEF WitnessInv, WitnessTypes
    <2>3. CASE cycle' = [pc |-> "checking", entries |-> published, now |-> hours, left |-> DOMAIN published]
      BY <1>1, <2>3 DEF WitnessInv, WitnessTypes
    <2> QED
      BY <2>1, <2>2, <2>3
  <1> QED
    BY <1>2 DEF WitnessInv, WitnessTypes

\* Art that is served was earned: the first ever shown, confirmed by a recheck,
\* or moved by its publisher (apply_check, save_effect), however often saves
\* tear, the worker restarts or the media database is lost.
THEOREM ArtIsEarned == WitnessSpec => []ServedArtEarned
  <1>1. WitnessInv /\ [WitnessNext]_wtvars => WitnessInv'
    <2> SUFFICES ASSUME WitnessInv, [WitnessNext]_wtvars PROVE WitnessInv'
      OBVIOUS
    <2>1. published \in Publishable /\ hours \in Int
      BY DEF WitnessInv, WitnessTypes
    <2>2. CASE StartCycle
      BY <2>1, <2>2, WalkKeeps DEF StartCycle
    <2>3. CASE Delist
      BY <2>3, DelistKeeps
    <2>4. CASE PublishList
      BY <2>1, <2>4, WalkKeeps DEF PublishList
    <2>5. CASE HourPasses
      BY <2>1, <2>5, WalkKeeps DEF HourPasses
    <2>6. CASE WorkerRestarts
      BY <2>1, <2>6, WalkKeeps DEF WorkerRestarts
    <2>7. CASE MediaLost
      BY <2>1, <2>7, WalkKeeps DEF MediaLost
    <2>8. ASSUME NEW c \in Listed, SkipEntry(c) PROVE WitnessInv'
      BY <2>1, <2>8, WalkKeeps DEF SkipEntry, Passed
    <2>9. ASSUME NEW c \in Listed, TableFull(c) PROVE WitnessInv'
      BY <2>1, <2>9, WalkKeeps DEF TableFull, Passed
    <2>10. ASSUME NEW c \in Listed, CheckGood(c) PROVE WitnessInv'
      BY <2>10, GoodKeeps
    <2>11. ASSUME NEW c \in Listed, CheckBad(c) PROVE WitnessInv'
      BY <2>11, BadKeeps
    <2>12. CASE UNCHANGED wtvars
      BY <2>1, <2>12, WalkKeeps DEF wtvars
    <2> QED
      BY <2>2, <2>3, <2>4, <2>5, <2>6, <2>7, <2>8, <2>9, <2>10, <2>11, <2>12 DEF WitnessNext
  <1>2. WitnessInv => ServedArtEarned
    BY DEF WitnessInv, RowHolds, ServesEarned, ServedArtEarned
  <1> QED
    BY WitnessStarts, <1>1, <1>2, PTL DEF WitnessSpec

-----------------------------------------------------------------------------
(* The cross-check: any networks, books, listings, caps and page sizes *)

(* The inductive invariant *)

\* What ConsistencyInit says of their side, which does not move.
TheirSide ==
    /\ theirBook.book \in TheirBooks /\ theirBook.list \in Listings
    /\ \A i \in DOMAIN theirBook.list :
         theirBook.list[i] = Unreadable \/ theirBook.list[i] \in DOMAIN theirBook.book
    /\ DOMAIN theirBook.book \subseteq {theirBook.list[i] : i \in DOMAIN theirBook.list}

\* A view of their token says nothing but what their book says.
TrueView(v, t) ==
    LET rows == theirBook.book[t].rows
    IN  /\ v.supply \in {{}, theirBook.book[t].supply}
        /\ v.holders \in {{}, {Cardinality(RowOwners(rows))}, {Len(rows)}}
        /\ v.bal \in {{}, {[o \in RowOwners(rows) |-> OwnerTotal(rows, o)]}}

TrueViews(views) == \A t \in DOMAIN views : t \in DOMAIN theirBook.book /\ TrueView(views[t], t)

\* Every token of the pages read has a view; the walk is whole when no page
\* is left.
ReadSoFar == {theirBook.list[i] : i \in {j \in DOMAIN theirBook.list : j <= walk.pages * PageLimit}}

Walked ==
    /\ walk.pages \in Nat /\ walk.fetched \in Int
    /\ TrueViews(walk.views)
    /\ walk.whole => DOMAIN theirBook.book \subseteq DOMAIN walk.views
    /\ check.pc = "walk" =>
         /\ ~walk.whole
         /\ walk.fetched = walk.pages * PageLimit
         /\ ReadSoFar \ {Unreadable} \subseteq DOMAIN walk.views

\* Our views say what our book says of its whole set of tokens.
OurViews(views, mine) ==
    /\ DOMAIN views = DOMAIN mine
    /\ \A t \in DOMAIN mine :
         /\ views[t].supply = mine[t].supply
         /\ views[t].holders = {Cardinality(DOMAIN mine[t].bal)}
         /\ views[t].bal \in {{}, {mine[t].bal}}

Comparing ==
    /\ check = [pc |-> check.pc, net |-> check.net, ours |-> check.ours, other |-> check.other,
                todo |-> check.todo, unfetched |-> check.unfetched]
    /\ check.net \in 0..Len(Nets)
    /\ check.pc \in {"stats", "holders"} =>
         /\ check.net \in DOMAIN Nets
         /\ OurViews(check.ours, ourBook[check.net])
         /\ TrueViews(check.other)
         /\ DOMAIN check.other = DOMAIN walk.views

CheckInv ==
    /\ TheirSide
    /\ reports = [n \in DOMAIN Nets |-> reports[n]]
    /\ Walked /\ Comparing /\ VerdictsAreTrue

\* A verdict, with the books it was made from.
TrueVerdict(n, t, v) ==
    /\ v.verdict = "differ" => SplitRows(t) \/ ~SameBooks(n, t)
    /\ v.verdict = "agree" => ourBook[n][t].supply = theirBook.book[t].supply
    /\ v.verdict = "only_kascov" => v.partial \/ t \notin DOMAIN theirBook.book
    /\ v.verdict = "only_other" => t \notin DOMAIN ourBook[n]

-----------------------------------------------------------------------------
(* Views *)

LEMMA FilledIsTrue ==
    ASSUME NEW v, NEW t, TrueView(v, t)
    PROVE  TrueView(FillStats(v, theirBook.book[t]), t)
  BY DEF TrueView, FillStats

LEMMA HoldersAreTrue ==
    ASSUME NEW v, NEW t, TrueView(v, t)
    PROVE  TrueView([supply |-> v.supply, holders |-> ParseHolders(theirBook.book[t].rows).holders,
                     bal |-> ParseHolders(theirBook.book[t].rows).bal], t)
  BY DEF TrueView, ParseHolders

LEMMA OneOf == ASSUME NEW x PROVE TheOne({x}) = x
  BY DEF TheOne

LEMMA ClassifiedTruly ==
    ASSUME NEW n \in DOMAIN Nets, NEW ours, NEW other, NEW t,
           OurViews(ours, ourBook[n]), TrueViews(other),
           t \in DOMAIN ours \cup DOMAIN other
    PROVE  LET v == ClassifyToken(View(ours, t), View(other, t))
           IN  /\ v = "differ" => SplitRows(t) \/ ~SameBooks(n, t)
               /\ v = "agree" => ourBook[n][t].supply = theirBook.book[t].supply
               /\ v = "only_kascov" => t \notin DOMAIN other
               /\ v = "only_other" => t \notin DOMAIN ourBook[n]
  <1>1. CASE t \notin DOMAIN other
    BY <1>1 DEF ClassifyToken, View
  <1>2. CASE t \in DOMAIN other /\ t \notin DOMAIN ours
    BY <1>2 DEF ClassifyToken, View, OurViews
  <1>3. CASE t \in DOMAIN other /\ t \in DOMAIN ours
    <2> DEFINE a == ours[t]
               b == other[t]
               mine == ourBook[n][t]
               rows == theirBook.book[t].rows
               sums == [o \in RowOwners(rows) |-> OwnerTotal(rows, o)]
    <2>1. View(ours, t) = {a} /\ View(other, t) = {b}
      BY <1>3 DEF View
    <2>2. TheOne({a}) = a /\ TheOne({b}) = b /\ {a} # {} /\ {b} # {}
      BY OneOf
    <2>3. /\ a.supply = mine.supply /\ a.holders = {Cardinality(DOMAIN mine.bal)}
          /\ a.bal \in {{}, {mine.bal}}
      BY <1>3 DEF OurViews
    <2>4. /\ b.supply \in {{}, theirBook.book[t].supply}
          /\ b.holders \in {{}, {Cardinality(RowOwners(rows))}, {Len(rows)}}
          /\ b.bal \in {{}, {sums}}
      BY <1>3 DEF TrueViews, TrueView
    <2>5. SplitRows(t) <=> Len(rows) # Cardinality(RowOwners(rows))
      BY DEF SplitRows
    <2>6. SameBooks(n, t) => /\ mine.supply = theirBook.book[t].supply
                             /\ DOMAIN mine.bal = RowOwners(rows)
                             /\ \A o \in RowOwners(rows) : mine.bal[o] = sums[o]
      BY DEF SameBooks
    <2>7. TheOne({mine.bal}) = mine.bal /\ TheOne({sums}) = sums /\ DOMAIN sums = RowOwners(rows)
      BY OneOf
    <2>8. DOMAIN ours = DOMAIN ourBook[n]
      BY DEF OurViews
    <2> DEFINE far == \E o \in DOMAIN TheOne(a.bal) :
                             \/ o \notin DOMAIN TheOne(b.bal)
                             \/ TheOne(a.bal)[o] # TheOne(b.bal)[o]
               v == ClassifyToken({a}, {b})
    <2>9. v = IF a.supply = {} \/ b.supply = {} THEN "not_comparable"
              ELSE IF \/ a.supply # b.supply
                      \/ b.holders # {} /\ a.holders # b.holders
                      \/ a.bal # {} /\ b.bal # {} /\ far
              THEN "differ" ELSE "agree"
      BY <2>2 DEF ClassifyToken
    <2>10. a.bal # {} /\ b.bal # {} /\ far => ~SameBooks(n, t)
      <3> SUFFICES ASSUME a.bal # {}, b.bal # {}, far, SameBooks(n, t) PROVE FALSE
        OBVIOUS
      <3>1. a.bal = {mine.bal} /\ b.bal = {sums}
        BY <2>3, <2>4
      <3>2. TheOne(a.bal) = mine.bal /\ TheOne(b.bal) = sums
        BY <3>1, <2>7
      <3> HIDE DEF a, b, mine, sums
      <3> QED
        BY <2>6, <2>7, <3>2
    <2> HIDE DEF a, b, mine, rows, sums, far, v
    <2>11. b.holders # {} /\ a.holders # b.holders => SplitRows(t) \/ ~SameBooks(n, t)
      BY <2>3, <2>4, <2>5, <2>6
    <2>12. /\ v = "differ" => SplitRows(t) \/ ~SameBooks(n, t)
           /\ v = "agree" => mine.supply = theirBook.book[t].supply
           /\ v # "only_kascov" /\ v # "only_other"
      BY <2>3, <2>4, <2>6, <2>9, <2>10, <2>11
    <2> QED
      BY <2>1, <2>12, <1>3 DEF mine, v
  <1> QED
    BY <1>1, <1>2, <1>3

-----------------------------------------------------------------------------
(* Listing pages *)

LEMMA MinOfTwo ==
    ASSUME NEW a \in Int, NEW b \in Int
    PROVE  Min({a, b}) = IF a <= b THEN a ELSE b
  <1> DEFINE m == IF a <= b THEN a ELSE b
  <1>1. m \in {a, b} /\ \A y \in {a, b} : m <= y
    OBVIOUS
  <1>2. \A x \in {a, b} : (\A y \in {a, b} : x <= y) => x = m
    OBVIOUS
  <1> HIDE DEF m
  <1>3. Min({a, b}) = m
    BY <1>1, <1>2 DEF Min
  <1> QED
    BY <1>3 DEF m

LEMMA MaxOfTwo ==
    ASSUME NEW a \in Int, NEW b \in Int
    PROVE  Max({a, b}) = IF a >= b THEN a ELSE b
  <1> DEFINE m == IF a >= b THEN a ELSE b
  <1>1. m \in {a, b} /\ \A y \in {a, b} : m >= y
    OBVIOUS
  <1>2. \A x \in {a, b} : (\A y \in {a, b} : x >= y) => x = m
    OBVIOUS
  <1> HIDE DEF m
  <1>3. Max({a, b}) = m
    BY <1>1, <1>2 DEF Max
  <1> QED
    BY <1>3 DEF m

LEMMA NextPage ==
    ASSUME NEW p \in Nat
    PROVE  p * PageLimit \in Nat /\ (p + 1) * PageLimit = p * PageLimit + PageLimit
  BY ConsistencyAssumption

LEMMA PageKeepsWalk ==
    ASSUME CheckInv, FetchPage
    PROVE  Walked' /\ Comparing'
  <1> USE DEF CheckInv
  <1>0. check.pc = "walk" /\ theirBook' = theirBook /\ ourBook' = ourBook
    BY DEF FetchPage
  <1>2. /\ check = [pc |-> check.pc, net |-> check.net, ours |-> check.ours, other |-> check.other,
                    todo |-> check.todo, unfetched |-> check.unfetched]
        /\ check.net \in 0..Len(Nets)
    BY DEF Comparing
  <1>3. CASE check' = [check EXCEPT !.pc = "nets"] /\ UNCHANGED walk
    <2>1. check' = [pc |-> "nets", net |-> check.net, ours |-> check.ours, other |-> check.other,
                    todo |-> check.todo, unfetched |-> check.unfetched]
      BY <1>2, <1>3
    <2> QED
      BY SMTT(20), <1>0, <1>2, <1>3, <2>1 DEF Walked, Comparing, TrueViews, TrueView
  <1>4. ASSUME NEW detailed \in BOOLEAN, NEW total \in BOOLEAN, NEW done \in BOOLEAN,
               done = (\/ PageCount < PageLimit
                       \/ total /\ walk.fetched + PageCount >= Len(theirBook.list)),
               walk' = [views |-> Assembled(detailed), pages |-> walk.pages + 1,
                        fetched |-> walk.fetched + PageCount, whole |-> done],
               check' = [check EXCEPT !.pc = IF done THEN "nets" ELSE "walk"]
        PROVE  Walked' /\ Comparing'
    <2> DEFINE list == theirBook.list
               base == walk.pages * PageLimit
               next == (walk.pages + 1) * PageLimit
               known == DOMAIN walk.views
               views == Assembled(detailed)
    <2>1. /\ Len(list) \in Nat /\ DOMAIN list = 1..Len(list) /\ PageLimit \in Nat \ {0}
          /\ walk.pages \in Nat /\ walk.fetched = base
      BY <1>0, ConsistencyAssumption DEF TheirSide, Walked
    <2>2. base \in Nat /\ next = base + PageLimit
      BY <2>1, NextPage
    <2>3. PageFirst = base + 1
      BY DEF PageFirst
    <2>4. ReadSoFar = {list[i] : i \in {j \in DOMAIN list : j <= base}}
      BY DEF ReadSoFar
    <2>5. walk'.pages = walk.pages + 1 /\ walk'.fetched = base + PageCount
          /\ walk'.whole = done /\ walk'.views = views
      BY <1>4, <2>1
    <2>6. ReadSoFar' = {list[i] : i \in {j \in DOMAIN list : j <= next}}
      BY <1>0, <2>5 DEF ReadSoFar
    <2>7. walk'.pages * PageLimit = next
      BY <2>5
    <2> HIDE DEF base, next, list, views
    <2>8. PageLast = IF Len(list) <= base + PageLimit THEN Len(list) ELSE base + PageLimit
      <3>1. PageFirst + PageLimit - 1 = base + PageLimit /\ base + PageLimit \in Int
        BY <2>1, <2>2, <2>3
      <3> QED
        BY SMTT(20), <2>1, <3>1, MinOfTwo DEF PageLast, list
    <2>9. PageCount = IF 0 >= PageLast - base THEN 0 ELSE PageLast - base
      <3>1. PageLast - PageFirst + 1 = PageLast - base /\ PageLast - base \in Int
        BY <2>1, <2>2, <2>3, <2>8
      <3> QED
        BY <3>1, MaxOfTwo DEF PageCount
    <2>10. PageFirst..PageLast \subseteq DOMAIN list
      BY <2>1, <2>2, <2>3, <2>8
    <2>11. PageItems \subseteq DOMAIN theirBook.book
      BY <2>10 DEF TheirSide, PageItems, list
    <2>12. ReadSoFar \ {Unreadable} \subseteq known /\ TrueViews(walk.views)
      BY <1>0 DEF Walked
    <2>13. DOMAIN views = known \cup PageItems
      BY DEF views, Assembled
    <2>14. TrueViews(views)
      <3> SUFFICES ASSUME NEW t \in known \cup PageItems
                   PROVE  t \in DOMAIN theirBook.book /\ TrueView(views[t], t)
        BY <2>13 DEF TrueViews
      <3>1. t \in DOMAIN theirBook.book
        BY <2>11, <2>12 DEF TrueViews
      <3> DEFINE v == IF t \in known THEN walk.views[t] ELSE NoView
      <3>2. TrueView(v, t)
        BY <2>12 DEF TrueViews, TrueView, NoView
      <3>3. views[t] = v \/ views[t] = FillStats(v, theirBook.book[t])
        BY DEF views, Assembled
      <3> HIDE DEF v
      <3> QED
        BY <3>1, <3>2, <3>3, FilledIsTrue
    <2>15. \A i \in DOMAIN list : i <= PageLast /\ list[i] # Unreadable => list[i] \in DOMAIN views
      <3> SUFFICES ASSUME NEW i \in DOMAIN list, i <= PageLast, list[i] # Unreadable
                   PROVE  list[i] \in known \cup PageItems
        BY <2>13
      <3>1. CASE i <= base
        <4>1. list[i] \in ReadSoFar
          BY <2>4, <3>1
        <4> QED
          BY <2>12, <4>1
      <3>2. CASE ~(i <= base)
        <4>1. i \in PageFirst..PageLast
          BY <2>1, <2>2, <2>3, <2>8, <3>2
        <4> QED
          BY <4>1 DEF PageItems, list
      <3> QED
        BY <3>1, <3>2
    <2>16. done => PageLast = Len(list)
      <3>1. done => PageCount < PageLimit \/ base + PageCount >= Len(list)
        BY <1>4, <2>1 DEF list
      <3>2. Len(list) \in Nat /\ base \in Nat /\ PageLimit \in Nat \ {0}
        BY <2>1, <2>2
      <3> QED
        BY <2>8, <2>9, <3>1, <3>2
    <2>17. ~done => PageCount = PageLimit /\ PageLast = next
      BY <1>4, <2>1, <2>2, <2>8, <2>9
    <2>18. check' = [pc |-> IF done THEN "nets" ELSE "walk", net |-> check.net, ours |-> check.ours,
                     other |-> check.other, todo |-> check.todo, unfetched |-> check.unfetched]
      BY <1>2, <1>4
    <2>19. PageCount \in Int
      BY <2>1, <2>2, <2>8, <2>9
    <2>20. done => DOMAIN theirBook.book \subseteq DOMAIN views
      <3> SUFFICES ASSUME done, NEW t \in DOMAIN theirBook.book PROVE t \in DOMAIN views
        OBVIOUS
      <3>1. PICK i \in DOMAIN list : t = list[i]
        BY DEF TheirSide, list
      <3>2. t # Unreadable
        BY ConsistencyAssumption DEF TheirSide
      <3> QED
        BY <2>1, <2>15, <2>16, <3>1, <3>2
    <2>21. ~done => ReadSoFar' \ {Unreadable} \subseteq DOMAIN views
      BY <2>6, <2>15, <2>17
    <2>22. TrueViews(walk.views)'
      BY <1>0, <2>5, <2>14 DEF TrueViews, TrueView
    <2>23. Walked'
      <3>1. walk'.pages \in Nat /\ walk'.fetched \in Int
        BY <2>1, <2>2, <2>5, <2>19
      <3>2. walk'.whole => DOMAIN theirBook'.book \subseteq DOMAIN walk'.views
        BY <1>0, <2>5, <2>20
      <3>3. check'.pc = "walk" => ~done
        BY <2>18
      <3>4. ~done => ~walk'.whole /\ walk'.fetched = walk'.pages * PageLimit
        BY <2>2, <2>5, <2>7, <2>17
      <3> QED
        BY <2>5, <2>21, <2>22, <3>1, <3>2, <3>3, <3>4 DEF Walked
    <2>24. Comparing'
      BY <1>2, <2>18 DEF Comparing
    <2> QED
      BY <2>23, <2>24
  <1> QED
    BY <1>3, <1>4 DEF FetchPage

-----------------------------------------------------------------------------
(* The other steps *)

\* Steps that leave the books, the walk and the reports alone.
LEMMA ComparingKeeps ==
    ASSUME CheckInv, UNCHANGED <<ourBook, theirBook, walk>>, check'.pc # "walk", Comparing',
           \/ UNCHANGED reports
           \/ \E r : \E n \in DOMAIN Nets :
                /\ reports' = [reports EXCEPT ![n] = {r}]
                /\ \A t \in DOMAIN r.verdicts : TrueVerdict(n, t, r.verdicts[t])
    PROVE  CheckInv'
  <1>1. TheirSide' /\ Walked'
    BY DEF CheckInv, TheirSide, Walked, TrueViews, TrueView
  <1>2. CASE UNCHANGED reports
    BY <1>1, <1>2 DEF CheckInv, VerdictsAreTrue, SplitRows, SameBooks
  <1>3. ASSUME NEW n \in DOMAIN Nets, NEW r, reports' = [reports EXCEPT ![n] = {r}],
               \A t \in DOMAIN r.verdicts : TrueVerdict(n, t, r.verdicts[t])
        PROVE  CheckInv'
    <2>1. /\ reports' = [m \in DOMAIN Nets |-> IF m = n THEN {r} ELSE reports[m]]
          /\ reports' = [m \in DOMAIN Nets |-> reports'[m]]
      BY <1>3 DEF CheckInv
    <2>2. \A m \in DOMAIN Nets : \A s \in reports'[m] :
            (m = n /\ s = r) \/ s \in reports[m]
      BY <2>1
    <2>3. \A m \in DOMAIN Nets : \A s \in reports'[m] : \A t \in DOMAIN s.verdicts :
            TrueVerdict(m, t, s.verdicts[t])
      BY <1>3, <2>2 DEF CheckInv, VerdictsAreTrue, TrueVerdict
    <2>4. VerdictsAreTrue'
      BY <2>3 DEF VerdictsAreTrue, TrueVerdict, SplitRows, SameBooks
    <2> QED
      BY <1>1, <2>1, <2>4 DEF CheckInv
  <1> QED
    BY <1>2, <1>3

LEMMA CheckStarts == ConsistencyInit => CheckInv
  <1> SUFFICES ASSUME ConsistencyInit PROVE CheckInv
    OBVIOUS
  <1>1. TheirSide
    BY DEF ConsistencyInit, TheirSide
  <1>2. Walked
    BY DEF ConsistencyInit, Walked, NewWalk, Idle, TrueViews
  <1>3. Comparing
    BY ConsistencyAssumption DEF ConsistencyInit, Comparing, Idle
  <1>4. VerdictsAreTrue /\ reports = [n \in DOMAIN Nets |-> reports[n]]
    BY DEF ConsistencyInit, VerdictsAreTrue
  <1> QED
    BY <1>1, <1>2, <1>3, <1>4 DEF CheckInv

LEMMA BeginKeeps ==
    ASSUME CheckInv, BeginRun
    PROVE  CheckInv'
  <1>1. /\ walk' = NewWalk /\ UNCHANGED <<ourBook, theirBook, reports>>
        /\ check' = [pc |-> "walk", net |-> 0, ours |-> << >>, other |-> << >>,
                     todo |-> {}, unfetched |-> {}]
    BY DEF BeginRun, Idle
  <1>2. TheirSide' /\ VerdictsAreTrue' /\ (reports = [n \in DOMAIN Nets |-> reports[n]])'
    BY <1>1 DEF CheckInv, TheirSide, VerdictsAreTrue, SplitRows, SameBooks
  <1>3. 0 * PageLimit = 0
    BY ConsistencyAssumption
  <1>4. ReadSoFar' = {}
    <2>1. walk'.pages * PageLimit = 0
      BY <1>1, <1>3 DEF NewWalk
    <2>2. \A j \in DOMAIN theirBook.list : ~(j <= 0)
      BY ConsistencyAssumption DEF CheckInv, TheirSide
    <2>3. theirBook' = theirBook
      BY <1>1
    <2> QED
      BY <2>1, <2>2, <2>3 DEF ReadSoFar
  <1>5. Walked'
    BY <1>1, <1>3, <1>4 DEF Walked, NewWalk, TrueViews
  <1>6. Comparing'
    BY <1>1, ConsistencyAssumption DEF Comparing
  <1> QED
    BY <1>2, <1>5, <1>6 DEF CheckInv

LEMMA StartKeeps ==
    ASSUME CheckInv, StartNetwork
    PROVE  CheckInv'
  <1> DEFINE n == check.net + 1
             mine == ourBook[n]
             both == DOMAIN mine \cap DOMAIN walk.views
             plain == [t \in DOMAIN mine |->
                        [supply |-> mine[t].supply, holders |-> {Cardinality(DOMAIN mine[t].bal)},
                         bal |-> {}]]
  <1>1. /\ check.pc = "nets" /\ check.net < Len(Nets)
        /\ UNCHANGED <<ourBook, theirBook, walk>>
    BY DEF StartNetwork
  <1>2. n \in DOMAIN Nets /\ n \in 0..Len(Nets)
    BY <1>1, ConsistencyAssumption DEF CheckInv, Comparing
  <1>3. check = [pc |-> check.pc, net |-> check.net, ours |-> check.ours, other |-> check.other,
                 todo |-> check.todo, unfetched |-> check.unfetched]
    BY DEF CheckInv, Comparing
  <1>4. CASE /\ check' = [check EXCEPT !.net = n]
             /\ \/ UNCHANGED reports
                \/ Publish1(n, [reason |-> TRUE, verdicts |-> << >>])
    <2>1. check' = [pc |-> "nets", net |-> n, ours |-> check.ours, other |-> check.other,
                    todo |-> check.todo, unfetched |-> check.unfetched]
      BY <1>1, <1>3, <1>4
    <2>2. Comparing' /\ check'.pc # "walk"
      BY <1>2, <2>1 DEF Comparing
    <2>3. \/ UNCHANGED reports
          \/ \E r : \E m \in DOMAIN Nets :
                /\ reports' = [reports EXCEPT ![m] = {r}]
                /\ \A t \in DOMAIN r.verdicts : TrueVerdict(m, t, r.verdicts[t])
      <3>1. CASE Publish1(n, [reason |-> TRUE, verdicts |-> << >>])
        <4> DEFINE r == [reason |-> TRUE, verdicts |-> << >>]
        <4>1. reports' = [reports EXCEPT ![n] = {r}] /\ DOMAIN r.verdicts = {}
          BY <3>1 DEF Publish1
        <4> HIDE DEF r, n
        <4> QED
          BY <1>2, <4>1
      <3> QED
        BY <1>4, <3>1
    <2> QED
      BY <1>1, <2>2, <2>3, ComparingKeeps
  <1>5. ASSUME NEW topsRead \in BOOLEAN,
               check' = [pc |-> "stats", net |-> n,
                         ours |-> [t \in DOMAIN mine |->
                           IF topsRead /\ t \in both
                           THEN [plain[t] EXCEPT !.bal = {mine[t].bal}] ELSE plain[t]],
                         other |-> walk.views, todo |-> both, unfetched |-> both],
               UNCHANGED reports
        PROVE  CheckInv'
    <2>1. /\ check'.pc = "stats" /\ check'.net = n /\ check'.other = walk.views
          /\ check' = [pc |-> check'.pc, net |-> check'.net, ours |-> check'.ours, other |-> check'.other,
                       todo |-> check'.todo, unfetched |-> check'.unfetched]
      BY <1>5
    <2>2. OurViews(check'.ours, mine)
      <3>1. DOMAIN check'.ours = DOMAIN mine
        BY <1>5
      <3>2. ASSUME NEW t \in DOMAIN mine
            PROVE  /\ check'.ours[t].supply = mine[t].supply
                   /\ check'.ours[t].holders = {Cardinality(DOMAIN mine[t].bal)}
                   /\ check'.ours[t].bal \in {{}, {mine[t].bal}}
        <4>1. plain[t] = [supply |-> mine[t].supply, holders |-> {Cardinality(DOMAIN mine[t].bal)},
                          bal |-> {}]
          OBVIOUS
        <4>2. check'.ours[t] = IF topsRead /\ t \in both
                               THEN [plain[t] EXCEPT !.bal = {mine[t].bal}] ELSE plain[t]
          BY <1>5
        <4> HIDE DEF plain, mine, both, n
        <4> QED
          BY <4>1, <4>2
      <3> HIDE DEF plain, mine, both, n
      <3> QED
        BY <3>1, <3>2 DEF OurViews
    <2>3. TrueViews(walk.views)
      BY DEF CheckInv, Walked
    <2>4. Comparing'
      BY <1>1, <1>2, <2>1, <2>2, <2>3 DEF Comparing, OurViews, TrueViews, TrueView
    <2> QED
      BY <1>1, <1>5, <2>1, <2>4, ComparingKeeps
  <1> QED
    BY <1>4, <1>5 DEF StartNetwork

LEMMA FetchKeeps ==
    ASSUME CheckInv, check.pc \in {"stats", "holders"}, NEW pc \in {"stats", "holders"}, NEW view,
           NEW todo, NEW unfetched, Goes(pc, view, todo, unfetched),
           Current \in DOMAIN check.other => TrueView(view, Current),
           UNCHANGED <<ourBook, theirBook, walk, reports>>
    PROVE  CheckInv'
  <1>1. check' = [pc |-> pc, net |-> check.net, ours |-> check.ours,
                  other |-> [check.other EXCEPT ![Current] = view],
                  todo |-> todo, unfetched |-> unfetched]
    BY DEF Goes
  <1>2. /\ check.net \in 0..Len(Nets) /\ check.net \in DOMAIN Nets
        /\ OurViews(check.ours, ourBook[check.net]) /\ TrueViews(check.other)
        /\ DOMAIN check.other = DOMAIN walk.views
    BY DEF CheckInv, Comparing
  <1> DEFINE more == [check.other EXCEPT ![Current] = view]
  <1>3. DOMAIN more = DOMAIN walk.views /\ TrueViews(more)
    <2>1. DOMAIN more = DOMAIN check.other
      OBVIOUS
    <2>2. ASSUME NEW t \in DOMAIN more PROVE t \in DOMAIN theirBook.book /\ TrueView(more[t], t)
      <3>1. more[t] = IF t = Current THEN view ELSE check.other[t]
        BY <2>1
      <3> HIDE DEF more
      <3> QED
        BY <1>2, <2>1, <3>1 DEF TrueViews
    <2> HIDE DEF more
    <2> QED
      BY <1>2, <2>1, <2>2 DEF TrueViews
  <1>4. /\ check' = [pc |-> check'.pc, net |-> check'.net, ours |-> check'.ours, other |-> check'.other,
                     todo |-> check'.todo, unfetched |-> check'.unfetched]
        /\ check'.pc = pc /\ check'.net = check.net /\ check'.ours = check.ours /\ check'.other = more
    BY <1>1
  <1> HIDE DEF more
  <1>5. Comparing'
    BY SMTT(20), <1>2, <1>3, <1>4 DEF Comparing, OurViews, TrueViews, TrueView
  <1> QED
    BY <1>4, <1>5, ComparingKeeps

LEMMA CompareKeeps ==
    ASSUME CheckInv, Compare
    PROVE  CheckInv'
  <1> DEFINE n == check.net
             judge(t) == ClassifyToken(View(check.ours, t), View(check.other, t))
             told == [t \in DOMAIN check.ours \cup DOMAIN check.other |->
                           [verdict |-> judge(t),
                            stopped |-> judge(t) = "not_comparable" /\ t \in check.unfetched /\ StopReason,
                            partial |-> ~walk.whole]]
             r == [reason |-> FALSE, verdicts |-> told]
  <1>1. /\ n \in DOMAIN Nets /\ n \in 0..Len(Nets)
        /\ OurViews(check.ours, ourBook[n]) /\ TrueViews(check.other)
        /\ walk.whole => DOMAIN theirBook.book \subseteq DOMAIN check.other
    BY DEF CheckInv, Comparing, Walked, Compare
  <1>2. reports' = [reports EXCEPT ![n] = {r}] /\ UNCHANGED <<ourBook, theirBook, walk>>
    BY DEF Compare, Publish1
  <1>3. check' = [pc |-> "nets", net |-> n, ours |-> << >>, other |-> << >>,
                  todo |-> {}, unfetched |-> {}]
    BY DEF Compare, Idle
  <1>4. Comparing' /\ check'.pc # "walk"
    BY <1>1, <1>3 DEF Comparing
  <1>5. ASSUME NEW t \in DOMAIN check.ours \cup DOMAIN check.other
        PROVE  TrueVerdict(n, t, told[t])
    <2>1. /\ judge(t) = "differ" => SplitRows(t) \/ ~SameBooks(n, t)
          /\ judge(t) = "agree" => ourBook[n][t].supply = theirBook.book[t].supply
          /\ judge(t) = "only_kascov" => t \notin DOMAIN check.other
          /\ judge(t) = "only_other" => t \notin DOMAIN ourBook[n]
      BY <1>1, ClassifiedTruly
    <2>2. told[t].verdict = judge(t) /\ told[t].partial = ~walk.whole
      OBVIOUS
    <2> HIDE DEF judge, told, n
    <2> QED
      BY <1>1, <2>1, <2>2 DEF TrueVerdict
  <1>6. DOMAIN r.verdicts = DOMAIN check.ours \cup DOMAIN check.other /\ r.verdicts = told
    OBVIOUS
  <1> HIDE DEF n, told, r
  <1>7. \E s : \E m \in DOMAIN Nets :
                /\ reports' = [reports EXCEPT ![m] = {s}]
                /\ \A t \in DOMAIN s.verdicts : TrueVerdict(m, t, s.verdicts[t])
    BY <1>1, <1>2, <1>5, <1>6
  <1> QED
    BY <1>2, <1>4, <1>7, ComparingKeeps

\* Every step of a run, whatever its requests are answered, keeps the invariant.
LEMMA CheckKeeps == CheckInv /\ [ConsistencyNext]_cvars => CheckInv'
  <1> SUFFICES ASSUME CheckInv, [ConsistencyNext]_cvars PROVE CheckInv'
    OBVIOUS
  <1>1. CASE BeginRun
    BY <1>1, BeginKeeps
  <1>2. CASE FetchPage
    <2>1. UNCHANGED <<ourBook, theirBook, reports>>
      BY <1>2 DEF FetchPage
    <2>2. TheirSide' /\ VerdictsAreTrue' /\ (reports = [n \in DOMAIN Nets |-> reports[n]])'
      BY <2>1 DEF CheckInv, TheirSide, VerdictsAreTrue, SplitRows, SameBooks
    <2> QED
      BY <1>2, <2>2, PageKeepsWalk DEF CheckInv
  <1>3. CASE StartNetwork
    BY <1>3, StartKeeps
  <1>4. CASE FetchStats
    <2>1. PICK told :
            Goes("holders", IF told = "ok" THEN FillStats(check.other[Current], theirBook.book[Current])
                            ELSE check.other[Current], check.todo, check.unfetched)
      BY <1>4 DEF FetchStats
    <2>2. check.pc = "stats" /\ UNCHANGED <<ourBook, theirBook, walk, reports>>
      BY <1>4 DEF FetchStats
    <2>3. Current \in DOMAIN check.other => TrueView(check.other[Current], Current)
      BY <2>2 DEF CheckInv, Comparing, TrueViews
    <2>4. Current \in DOMAIN check.other =>
            TrueView(IF told = "ok" THEN FillStats(check.other[Current], theirBook.book[Current])
                     ELSE check.other[Current], Current)
      BY <2>3, FilledIsTrue
    <2> QED
      BY <2>1, <2>2, <2>4, FetchKeeps
  <1>5. CASE FetchHolders
    <2> DEFINE h == ParseHolders(theirBook.book[Current].rows)
               view(told) == IF told = "ok"
                               THEN [supply |-> check.other[Current].supply,
                                     holders |-> h.holders, bal |-> h.bal]
                               ELSE check.other[Current]
    <2>1. PICK told, unfetched :
            Goes("stats", view(told), check.todo \ {Current}, unfetched)
      BY <1>5 DEF FetchHolders
    <2>2. check.pc = "holders" /\ UNCHANGED <<ourBook, theirBook, walk, reports>>
      BY <1>5 DEF FetchHolders
    <2>3. Current \in DOMAIN check.other => TrueView(check.other[Current], Current)
      BY <2>2 DEF CheckInv, Comparing, TrueViews
    <2>4. Current \in DOMAIN check.other => TrueView(view(told), Current)
      BY <2>3, HoldersAreTrue
    <2> HIDE DEF view
    <2> QED
      BY <2>1, <2>2, <2>4, FetchKeeps
  <1>6. CASE Compare
    BY <1>6, CompareKeeps
  <1>7. CASE EndRun
    <2>1. check' = Idle /\ UNCHANGED <<ourBook, theirBook, walk, reports>>
      BY <1>7 DEF EndRun
    <2>2. Comparing' /\ check'.pc # "walk"
      BY <2>1, ConsistencyAssumption DEF Comparing, Idle
    <2> QED
      BY <2>1, <2>2, ComparingKeeps
  <1>8. CASE UNCHANGED cvars
    <2>1. UNCHANGED <<ourBook, theirBook, walk, check, reports>>
      BY <1>8 DEF cvars
    <2>2. TheirSide' /\ Walked'
      BY <2>1 DEF CheckInv, TheirSide, Walked, ReadSoFar, TrueViews, TrueView
    <2>3. Comparing'
      BY <2>1 DEF CheckInv, Comparing, OurViews, TrueViews, TrueView
    <2>4. VerdictsAreTrue' /\ (reports = [n \in DOMAIN Nets |-> reports[n]])'
      BY <2>1 DEF CheckInv, VerdictsAreTrue, SplitRows, SameBooks
    <2> QED
      BY <2>2, <2>3, <2>4 DEF CheckInv
  <1> QED
    BY <1>1, <1>2, <1>3, <1>4, <1>5, <1>6, <1>7, <1>8 DEF ConsistencyNext

\* What a published report says of a token is true of the two books, whatever
\* requests failed, were refused or were never made (classify_pair over
\* assemble_discovery, parse_other_holders and read_ours).
THEOREM ReportsAreTrue == ConsistencySpec => []VerdictsAreTrue
  <1>1. CheckInv /\ [ConsistencyNext]_cvars => CheckInv'
    BY CheckKeeps
  <1>2. CheckInv => VerdictsAreTrue
    BY DEF CheckInv
  <1> QED
    BY CheckStarts, <1>1, <1>2, PTL DEF ConsistencySpec

-----------------------------------------------------------------------------
(* Upkeep: any builds, items, batches, faults and deaths *)

(* The inductive invariant *)

Latest == Version[opened[Len(opened)]]
StampOf(v) == <<v.derivation, v.classifier, v.restamp>>
NamedOf(c) == {i \in DOMAIN stamp : Owner[i] = c /\ stamp[i] = Named}
Derived(c) == c \in DOMAIN tokens /\ tokens[c] = <<Latest.derivation, NamedOf(c)>>

Rows ==
    /\ DOMAIN stamp \subseteq Items
    /\ stamp = [i \in DOMAIN stamp |-> stamp[i]]
    /\ \A i \in DOMAIN stamp : IF Column[i] = "hash"
         THEN stamp[i] = Unread \/ (gates.abi # <<>> /\ stamp[i] = <<"hash", gates.abi[1]>>)
         ELSE stamp[i] \in {Unread, Generic, Named}

Gates == [classifier : {<<>>} \cup {<<Version[b].classifier>> : b \in Builds},
          abi : {<<>>} \cup {<<Version[b].abi>> : b \in Builds},
          restamp : {<<>>} \cup {<<Version[b].restamp>> : b \in Builds},
          token : {<<>>} \cup {StampOf(Version[b]) : b \in Builds},
          market : {<<>>} \cup {<<Version[b].matcher>> : b \in Builds}]
Ready == {"restamp", "force", "derive", "delete", "chunks", "programs", "stamp", "markets", "finish", "live"}
Steps == Ready \cup {"down", "reclassify", "rehash", "template", "reveal", "tag", "hash"}
Procs == [pc : Steps, mode : {"serve", "restamp", "reverify"}, build : Builds \cup {0}, after : Nat,
          ids : SUBSET {Owner[i] : i \in Items}]

Processes ==
    /\ gates \in Gates /\ proc \in Procs /\ opened \in Seq(Builds)
    /\ proc.pc # "down" => opened # <<>> /\ proc.build = opened[Len(opened)]

Unsettled == [template |-> {"down", "reclassify", "rehash", "template"},
              reveal |-> {"down", "reclassify", "rehash", "template", "reveal"},
              tag |-> {"down", "reclassify", "rehash", "template", "reveal", "tag"},
              hash |-> {"down", "reclassify", "rehash", "template", "reveal", "tag", "hash"}]

Progress ==
    /\ proc.pc \notin {"down", "reclassify"} => gates.classifier = <<Latest.classifier>>
    /\ proc.pc \notin {"down", "reclassify", "rehash"} => gates.abi = <<Latest.abi>>
    /\ \A i \in DOMAIN stamp : stamp[i] = Unread => proc.pc \in Unsettled[Column[i]]

Readings ==
    \A i \in DOMAIN stamp : Column[i] # "hash" /\ stamp[i] = Generic =>
        /\ i \in Rereads => gates.classifier # <<>> /\ NamedFrom[i] > gates.classifier[1]
        /\ i \notin Rereads => \A b \in Builds : NamedFrom[i] > Version[b].classifier
        /\ Column[i] = "reveal" /\ gates.restamp # <<>> => LocatedFrom[i] > gates.restamp[1]
        /\ Column[i] = "reveal" /\ proc.pc = "restamp" /\ i <= proc.after => LocatedFrom[i] > Latest.restamp

Behind ==
    /\ gates.restamp # <<>> => opened # <<>> /\ gates.restamp[1] <= Latest.restamp
    /\ gates.token # <<>> => /\ opened # <<>>
                             /\ gates.token[1] <= Latest.derivation
                             /\ gates.token[2] <= Latest.classifier
                             /\ gates.token[3] <= Latest.restamp

Vouched == opened # <<>> /\ gates.token = StampOf(Latest)

TokenRows ==
    /\ tokens = [c \in DOMAIN tokens |-> tokens[c]]
    /\ DOMAIN tokens \subseteq Candidates
    /\ proc.pc = "chunks" => proc.ids \subseteq Candidates
    /\ proc.pc \in {"delete", "chunks", "programs", "stamp"} => ~Vouched
    /\ proc.pc \in {"chunks", "programs", "stamp"} =>
         \A c \in Candidates : (proc.pc = "chunks" /\ c \in proc.ids) \/ Derived(c)
    /\ Vouched => /\ gates.classifier = <<Latest.classifier>>
                  /\ \A i \in DOMAIN stamp : Column[i] # "hash" => stamp[i] # Unread
                  /\ late = {} => \A c \in Candidates \ queue : Derived(c)

UpkeepInv == Rows /\ Processes /\ Progress /\ Readings /\ Behind /\ TokenRows
-----------------------------------------------------------------------------
(* What is written in a column *)

LEMMA Marks ==
    /\ Unread # Generic /\ Unread # Named /\ Generic # Named
    /\ \A x : <<"hash", x>> # Unread /\ <<"hash", x>> # Generic /\ <<"hash", x>> # Named
  <1>1. Len(Unread) = 0 /\ Len(Generic) = 1 /\ Len(Named) = 1 /\ \A x : Len(<<"hash", x>>) = 2
    BY DEF Unread, Generic, Named
  <1>2. Generic[1] = "generic" /\ Named[1] = "named"
    BY DEF Generic, Named
  <1> QED
    BY <1>1, <1>2

\* Nothing is unread once the columns have been filled.
LEMMA AllRead ==
    ASSUME UpkeepAssumption, UpkeepInv, proc.pc \in Ready
    PROVE  \A i \in DOMAIN stamp : stamp[i] # Unread
  <1> SUFFICES ASSUME NEW i \in DOMAIN stamp, stamp[i] = Unread PROVE FALSE
    OBVIOUS
  <1>1. i \in Items /\ Column[i] \in {"template", "reveal", "tag", "hash"}
    BY DEF UpkeepInv, Rows, UpkeepAssumption
  <1>2. proc.pc \in Unsettled[Column[i]]
    BY DEF UpkeepInv, Progress
  <1> QED
    BY <1>1, <1>2 DEF Unsettled, Ready

\* Steps of a process that is through with the columns, or that dies: they
\* read and write other tables.
LEMMA QuietKeeps ==
    ASSUME UpkeepAssumption, UpkeepInv, UNCHANGED <<stamp, tokens, queue, opened, late>>,
           gates' \in Gates, proc' \in Procs,
           gates'.classifier = gates.classifier, gates'.abi = gates.abi, gates'.restamp = gates.restamp,
           gates'.token \in {gates.token, <<>>},
           \/ proc'.pc = "down"
           \/ /\ proc.pc \in Ready /\ proc'.pc \in Ready \ {"restamp", "chunks", "programs"}
              /\ proc'.build = proc.build
              /\ proc'.pc = "stamp" => proc.pc = "programs"
              /\ proc'.pc = "delete" => ~Vouched
    PROVE  UpkeepInv'
  <1>1. Latest' = Latest /\ Candidates' = Candidates /\ (\A c : NamedOf(c)' = NamedOf(c))
    BY DEF Latest, Candidates, NamedOf
  <1>2. Rows'
    BY DEF UpkeepInv, Rows
  <1>3. Processes'
    BY DEF UpkeepInv, Processes, Ready
  <1>4. Progress'
    <2>1. CASE proc'.pc = "down"
      <3>1. \A i \in DOMAIN stamp : "down" \in Unsettled[Column[i]]
        BY DEF UpkeepInv, Rows, UpkeepAssumption, Unsettled
      <3> QED
        BY <2>1, <3>1 DEF Progress
    <2>2. CASE proc'.pc # "down"
      BY <2>2, <1>1, AllRead DEF UpkeepInv, Progress, Ready
    <2> QED
      BY <2>1, <2>2
  <1>5. Readings'
    BY <1>1 DEF UpkeepInv, Readings, Ready
  <1>6. Behind'
    BY <1>1 DEF UpkeepInv, Behind
  <1>7. Vouched' => Vouched
    <2>1. StampOf(Latest) # <<>>
      BY DEF StampOf
    <2> QED
      BY <1>1, <2>1 DEF Vouched
  <1>8. \A c : Derived(c)' = Derived(c)
    BY <1>1 DEF Derived
  <1>9. TokenRows'
    BY <1>1, <1>7, <1>8 DEF UpkeepInv, TokenRows, Ready
  <1> QED
    BY <1>2, <1>3, <1>4, <1>5, <1>6, <1>9 DEF UpkeepInv

-----------------------------------------------------------------------------
(* Steps that leave every column as it is *)

LEMMA MovesIn ==
    ASSUME UpkeepInv, proc.pc # "down", NEW pc \in Steps, NEW after \in Nat,
           NEW ids \in SUBSET {Owner[i] : i \in Items}, MovesTo(pc, after, ids)
    PROVE  /\ proc' \in Procs /\ proc'.pc = pc /\ proc'.after = after /\ proc'.ids = ids
           /\ proc'.build = proc.build /\ V = Latest /\ proc.build \in Builds /\ opened # <<>>
  <1>1. proc.mode \in {"serve", "restamp", "reverify"} /\ proc.build \in Builds \cup {0}
    BY DEF UpkeepInv, Processes, Procs
  <1>2. proc.build = opened[Len(opened)] /\ opened # <<>> /\ opened \in Seq(Builds)
    BY DEF UpkeepInv, Processes
  <1>3. proc.build \in Builds
    BY <1>2
  <1> QED
    BY <1>1, <1>2, <1>3 DEF MovesTo, Procs, V, Latest

LEMMA ToMoves ==
    ASSUME UpkeepInv, proc.pc # "down", NEW pc \in Steps, To(pc)
    PROVE  /\ proc' \in Procs /\ proc'.pc = pc /\ proc'.after = proc.after /\ proc'.ids = proc.ids
           /\ proc'.build = proc.build /\ V = Latest /\ proc.build \in Builds /\ opened # <<>>
  <1>1. proc.after \in Nat /\ proc.ids \in SUBSET {Owner[i] : i \in Items}
    BY DEF UpkeepInv, Processes, Procs
  <1> QED
    BY <1>1, MovesIn DEF To

LEMMA DownIsProc == Down \in Procs /\ Down.pc = "down"
  BY DEF Down, Procs, Steps

LEMMA StampIsToken ==
    ASSUME UpkeepInv, proc.pc # "down" PROVE TokenStamp = StampOf(Latest)
  BY DEF UpkeepInv, Processes, TokenStamp, StampOf, V, Latest

LEMMA ForceKeeps == ASSUME UpkeepAssumption, UpkeepInv, ForceReverify PROVE UpkeepInv'
  <1>1. gates \in Gates
    BY DEF UpkeepInv, Processes
  <1>2. /\ gates' \in Gates /\ gates'.classifier = gates.classifier /\ gates'.abi = gates.abi
        /\ gates'.restamp = gates.restamp /\ gates'.token = <<>>
    BY <1>1 DEF ForceReverify, Gates
  <1>3. proc.pc = "force" /\ To("derive") /\ UNCHANGED <<stamp, tokens, queue, opened, late>>
    BY DEF ForceReverify, derivedTables
  <1>4. proc' \in Procs /\ proc'.pc = "derive" /\ proc'.build = proc.build
    BY <1>3, ToMoves DEF Steps, Ready
  <1> QED
    BY <1>2, <1>3, <1>4, QuietKeeps DEF Ready

LEMMA BeginDerivationKeeps == ASSUME UpkeepAssumption, UpkeepInv, BeginDerivation PROVE UpkeepInv'
  <1>1. proc.pc = "derive" /\ UNCHANGED <<stamp, gates, tokens, queue, opened, late>>
    BY DEF BeginDerivation
  <1>2. PICK pc \in Steps :
           To(pc) /\ pc \in {"live", "down", "markets", "delete"} /\ (pc = "delete" => gates.token # TokenStamp)
    BY DEF BeginDerivation, Done, Steps, Ready
  <1>3. proc' \in Procs /\ proc'.pc = pc /\ proc'.build = proc.build
    BY <1>1, <1>2, ToMoves
  <1>4. pc = "delete" => ~Vouched
    BY <1>1, <1>2, StampIsToken DEF Vouched
  <1>5. gates \in Gates
    BY DEF UpkeepInv, Processes
  <1>9. \/ proc'.pc = "down"
        \/ /\ proc.pc \in Ready /\ proc'.pc \in Ready \ {"restamp", "chunks", "programs"}
           /\ proc'.pc # "stamp"
    BY <1>1, <1>2, <1>3 DEF Ready
  <1> QED
    <2>1. CASE proc'.pc = "down"
      BY <1>1, <1>3, <1>5, <2>1, QuietKeeps
    <2>2. CASE proc'.pc # "down"
      <3>1. /\ proc.pc \in Ready /\ proc'.pc \in Ready \ {"restamp", "chunks", "programs"}
            /\ proc'.pc # "stamp" /\ (proc'.pc = "delete" => ~Vouched)
        BY <1>3, <1>4, <1>9, <2>2
      <3> QED
        BY <1>1, <1>3, <1>5, <3>1, QuietKeeps
    <2> QED
      BY <2>1, <2>2

LEMMA ProgramsKeeps == ASSUME UpkeepAssumption, UpkeepInv, DerivePrograms PROVE UpkeepInv'
  <1>1. proc.pc = "programs" /\ To("stamp") /\ UNCHANGED <<stamp, gates, tokens, queue, opened, late>>
    BY DEF DerivePrograms
  <1>2. proc' \in Procs /\ proc'.pc = "stamp" /\ proc'.build = proc.build
    BY <1>1, ToMoves DEF Steps, Ready
  <1>3. gates \in Gates
    BY DEF UpkeepInv, Processes
  <1> QED
    BY <1>1, <1>2, <1>3, QuietKeeps DEF Ready

LEMMA MarketsKeeps == ASSUME UpkeepAssumption, UpkeepInv, MarketsPass PROVE UpkeepInv'
  <1>1. proc.pc = "markets" /\ UNCHANGED <<stamp, tokens, queue, opened, late>>
    BY DEF MarketsPass
  <1>2. PICK pc \in Steps : To(pc) /\ pc \in {"live", "down", "finish"}
    BY DEF MarketsPass, Done, Steps, Ready
  <1>3. proc' \in Procs /\ proc'.pc = pc /\ proc'.build = proc.build /\ V = Latest /\ proc.build \in Builds
    BY <1>1, <1>2, ToMoves
  <1>4. gates \in Gates
    BY DEF UpkeepInv, Processes
  <1>5. gates' = gates \/ gates' = [gates EXCEPT !.market = <<V.matcher>>]
    BY DEF MarketsPass
  <1>6. V.matcher \in {Version[b].matcher : b \in Builds}
    BY <1>3 DEF V
  <1>7. /\ gates' \in Gates /\ gates'.classifier = gates.classifier /\ gates'.abi = gates.abi
        /\ gates'.restamp = gates.restamp /\ gates'.token = gates.token
    BY <1>4, <1>5, <1>6 DEF Gates
  <1>9. \/ proc'.pc = "down"
        \/ /\ proc.pc \in Ready /\ proc'.pc \in Ready \ {"restamp", "chunks", "programs"}
           /\ proc'.pc # "stamp" /\ proc'.pc # "delete"
    BY <1>1, <1>2, <1>3 DEF Ready
  <1> QED
    BY <1>1, <1>3, <1>7, <1>9, QuietKeeps

LEMMA FinishKeeps == ASSUME UpkeepAssumption, UpkeepInv, FinishRun PROVE UpkeepInv'
  <1>1. proc.pc = "finish" /\ UNCHANGED <<stamp, gates, tokens, queue, opened, late>>
    BY DEF FinishRun
  <1>2. PICK pc \in Steps : To(pc) /\ pc \in {"live", "down"}
    BY DEF FinishRun, Done, Steps, Ready
  <1>3. proc' \in Procs /\ proc'.pc = pc /\ proc'.build = proc.build
    BY <1>1, <1>2, ToMoves
  <1>4. gates \in Gates
    BY DEF UpkeepInv, Processes
  <1>9. \/ proc'.pc = "down"
        \/ /\ proc.pc \in Ready /\ proc'.pc \in Ready \ {"restamp", "chunks", "programs"}
           /\ proc'.pc # "stamp" /\ proc'.pc # "delete"
    BY <1>1, <1>2, <1>3 DEF Ready
  <1> QED
    BY <1>1, <1>3, <1>4, <1>9, QuietKeeps

LEMMA FaultKeeps == ASSUME UpkeepAssumption, UpkeepInv, StatementFails \/ ProcessDies PROVE UpkeepInv'
  <1>1. proc.pc # "down" /\ UNCHANGED <<stamp, gates, tokens, queue, opened, late>>
    BY DEF StatementFails, ProcessDies, derivedTables
  <1>2. gates \in Gates
    BY DEF UpkeepInv, Processes
  <1>3. CASE proc' = Down
    BY <1>1, <1>2, <1>3, DownIsProc, QuietKeeps
  <1>4. CASE StatementFails /\ proc' # Down
    <2>1. proc.pc \in {"delete", "chunks", "stamp", "restamp", "derive", "finish"}
      BY <1>4 DEF StatementFails
    <2>2. PICK pc \in Steps : To(pc) /\ pc \in {"derive", "live"}
      BY <1>4 DEF StatementFails, Steps, Ready
    <2>3. proc' \in Procs /\ proc'.pc = pc /\ proc'.build = proc.build
      BY <1>1, <2>2, ToMoves
    <2>4. /\ proc.pc \in Ready /\ proc'.pc \in Ready \ {"restamp", "chunks", "programs"}
          /\ proc'.pc # "stamp" /\ proc'.pc # "delete"
      BY <2>1, <2>2, <2>3 DEF Ready
    <2> QED
      BY <1>1, <1>2, <2>4, <2>3, QuietKeeps
  <1> QED
    BY <1>3, <1>4 DEF ProcessDies

-----------------------------------------------------------------------------
(* Steps that read stored bytes again *)

LEMMA NamedStay ==
    ASSUME UpkeepInv, \A i \in DOMAIN stamp : i \in DOMAIN stamp' /\ (stamp[i] = Named => stamp'[i] = Named)
    PROVE  Candidates \subseteq Candidates'
  BY DEF Candidates

LEMMA SameNamed ==
    ASSUME DOMAIN stamp' = DOMAIN stamp, \A i \in DOMAIN stamp : stamp'[i] = Named <=> stamp[i] = Named
    PROVE  Candidates' = Candidates /\ \A c : NamedOf(c)' = NamedOf(c)
  BY DEF Candidates, NamedOf

\* The token rows survive, when what they rest on does as long as the gate
\* vouches for them.
LEMMA RereadKeeps ==
    ASSUME UpkeepInv, UNCHANGED <<tokens, queue, opened>>, gates'.token = gates.token,
           \A i \in DOMAIN stamp : i \in DOMAIN stamp' /\ (stamp[i] = Named => stamp'[i] = Named),
           proc'.pc \notin {"delete", "chunks", "programs", "stamp"},
           Vouched => /\ gates'.classifier = <<Latest.classifier>>
                      /\ \A i \in DOMAIN stamp' : Column[i] # "hash" => stamp'[i] # Unread
                      /\ late' = {} => /\ late = {} /\ DOMAIN stamp' = DOMAIN stamp
                                        /\ \A i \in DOMAIN stamp : stamp'[i] = Named <=> stamp[i] = Named
    PROVE  TokenRows'
  <1>1. Latest' = Latest /\ (Vouched' <=> Vouched)
    BY DEF Latest, Vouched
  <1>2. DOMAIN tokens' \subseteq Candidates'
    BY NamedStay DEF UpkeepInv, TokenRows
  <1>3. ASSUME Vouched, late' = {}
        PROVE  \A c \in Candidates' \ queue' : Derived(c)'
    <2>1. Candidates' = Candidates /\ \A c : NamedOf(c)' = NamedOf(c)
      BY <1>3, SameNamed
    <2>2. \A c : Derived(c)' = Derived(c)
      BY <2>1, <1>1 DEF Derived
    <2> QED
      BY <1>3, <2>1, <2>2 DEF UpkeepInv, TokenRows
  <1> QED
    BY <1>1, <1>2, <1>3 DEF UpkeepInv, TokenRows

LEMMA ReclassifyKeeps == ASSUME UpkeepAssumption, UpkeepInv, ReclassifyIfStale PROVE UpkeepInv'
  <1>1. proc.pc = "reclassify" /\ To("rehash") /\ UNCHANGED <<tokens, queue, opened, late>>
    BY DEF ReclassifyIfStale, derivedTables
  <1>2. /\ proc' \in Procs /\ proc'.pc = "rehash" /\ proc'.build = proc.build /\ V = Latest
        /\ proc.build \in Builds /\ opened # <<>>
    BY <1>1, ToMoves DEF Steps
  <1>3. Latest' = Latest
    BY <1>1 DEF Latest
  <1>4. gates \in Gates
    BY DEF UpkeepInv, Processes
  <1>5. CASE gates.classifier = <<V.classifier>>
    <2>1. UNCHANGED <<stamp, gates>>
      BY <1>5 DEF ReclassifyIfStale
    <2>2. Rows' /\ Processes' /\ Behind'
      BY <1>1, <1>2, <1>3, <2>1 DEF UpkeepInv, Rows, Processes, Behind
    <2>3. Progress'
      <3>1. \A i \in DOMAIN stamp : "rehash" \in Unsettled[Column[i]]
        BY DEF UpkeepInv, Rows, UpkeepAssumption, Unsettled
      <3> QED
        BY <1>2, <1>3, <1>5, <2>1, <3>1 DEF UpkeepInv, Progress
    <2>4. Readings'
      BY <1>2, <1>3, <2>1 DEF UpkeepInv, Readings
    <2>5. TokenRows'
      BY <1>1, <1>2, <2>1, RereadKeeps DEF UpkeepInv, TokenRows
    <2> QED
      BY <2>2, <2>3, <2>4, <2>5 DEF UpkeepInv
  <1>6. CASE gates.classifier # <<V.classifier>>
    <2>1. /\ stamp' = Cleared({i \in DOMAIN stamp \cap Rereads : stamp[i] = Generic})
          /\ gates' = [gates EXCEPT !.classifier = <<V.classifier>>]
      BY <1>6 DEF ReclassifyIfStale
    <2>2. /\ DOMAIN stamp' = DOMAIN stamp /\ stamp' = [i \in DOMAIN stamp' |-> stamp'[i]]
          /\ \A i \in DOMAIN stamp :
                stamp'[i] = IF i \in Rereads /\ stamp[i] = Generic THEN Unread ELSE stamp[i]
      BY <2>1 DEF Cleared
    <2>3. V.classifier \in {Version[b].classifier : b \in Builds}
      BY <1>2 DEF V
    <2>4. /\ gates' \in Gates /\ gates'.classifier = <<Latest.classifier>> /\ gates'.abi = gates.abi
          /\ gates'.restamp = gates.restamp /\ gates'.token = gates.token
      BY <1>2, <1>4, <2>1, <2>3 DEF Gates
    <2>5. Rows'
      BY <2>2, <2>4, Marks DEF UpkeepInv, Rows
    <2>6. Processes' /\ Behind'
      BY <1>1, <1>2, <1>3, <2>4 DEF UpkeepInv, Processes, Behind
    <2>7. Progress'
      <3>1. \A i \in DOMAIN stamp : "rehash" \in Unsettled[Column[i]]
        BY DEF UpkeepInv, Rows, UpkeepAssumption, Unsettled
      <3> QED
        BY <1>2, <1>3, <2>2, <2>4, <3>1 DEF UpkeepInv, Progress
    <2>8. Readings'
      <3> SUFFICES ASSUME NEW i \in DOMAIN stamp', Column[i] # "hash", stamp'[i] = Generic
                   PROVE  /\ i \notin Rereads /\ (\A b \in Builds : NamedFrom[i] > Version[b].classifier)
                          /\ Column[i] = "reveal" /\ gates.restamp # <<>> => LocatedFrom[i] > gates.restamp[1]
        BY <1>2, <2>4 DEF Readings
      <3>1. stamp[i] = Generic /\ i \notin Rereads
        BY <2>2, Marks
      <3> QED
        BY <2>2, <3>1 DEF UpkeepInv, Readings
    <2>9. TokenRows'
      <3>1. ~Vouched
        BY <1>2, <1>6 DEF UpkeepInv, TokenRows
      <3> QED
        BY <1>1, <1>2, <2>2, <2>4, <3>1, Marks, RereadKeeps
    <2> QED
      BY <2>5, <2>6, <2>7, <2>8, <2>9 DEF UpkeepInv
  <1> QED
    BY <1>5, <1>6

LEMMA RehashKeeps == ASSUME UpkeepAssumption, UpkeepInv, RehashIfStale PROVE UpkeepInv'
  <1>1. proc.pc = "rehash" /\ To("template") /\ UNCHANGED <<tokens, queue, opened, late>>
    BY DEF RehashIfStale, derivedTables
  <1>2. /\ proc' \in Procs /\ proc'.pc = "template" /\ proc'.build = proc.build /\ V = Latest
        /\ proc.build \in Builds /\ opened # <<>>
    BY <1>1, ToMoves DEF Steps
  <1>3. Latest' = Latest
    BY <1>1 DEF Latest
  <1>4. gates \in Gates
    BY DEF UpkeepInv, Processes
  <1>5. gates.classifier = <<Latest.classifier>>
    BY <1>1 DEF UpkeepInv, Progress
  <1>6. \A i \in DOMAIN stamp : "template" \in Unsettled[Column[i]]
    BY DEF UpkeepInv, Rows, UpkeepAssumption, Unsettled
  <1>7. CASE gates.abi = <<V.abi>>
    <2>1. UNCHANGED <<stamp, gates>>
      BY <1>7 DEF RehashIfStale
    <2>2. Rows' /\ Processes' /\ Behind'
      BY <1>1, <1>2, <1>3, <2>1 DEF UpkeepInv, Rows, Processes, Behind
    <2>3. Progress'
      BY <1>2, <1>3, <1>5, <1>6, <1>7, <2>1 DEF UpkeepInv, Progress
    <2>4. Readings'
      BY <1>2, <1>3, <2>1 DEF UpkeepInv, Readings
    <2>5. TokenRows'
      BY <1>1, <1>2, <2>1, RereadKeeps DEF UpkeepInv, TokenRows
    <2> QED
      BY <2>2, <2>3, <2>4, <2>5 DEF UpkeepInv
  <1>8. CASE gates.abi # <<V.abi>>
    <2>1. /\ stamp' = Cleared({i \in DOMAIN stamp : Column[i] = "hash"})
          /\ gates' = [gates EXCEPT !.abi = <<V.abi>>]
      BY <1>8 DEF RehashIfStale
    <2>2. /\ DOMAIN stamp' = DOMAIN stamp /\ stamp' = [i \in DOMAIN stamp' |-> stamp'[i]]
          /\ \A i \in DOMAIN stamp : stamp'[i] = IF Column[i] = "hash" THEN Unread ELSE stamp[i]
      BY <2>1 DEF Cleared
    <2>3. V.abi \in {Version[b].abi : b \in Builds}
      BY <1>2 DEF V
    <2>4. /\ gates' \in Gates /\ gates'.abi = <<Latest.abi>> /\ gates'.classifier = gates.classifier
          /\ gates'.restamp = gates.restamp /\ gates'.token = gates.token
      BY <1>2, <1>4, <2>1, <2>3 DEF Gates
    <2>5. Rows'
      BY <2>2, <2>4 DEF UpkeepInv, Rows
    <2>6. Processes' /\ Behind'
      BY <1>1, <1>2, <1>3, <2>4 DEF UpkeepInv, Processes, Behind
    <2>7. Progress'
      BY <1>2, <1>3, <1>5, <1>6, <2>2, <2>4 DEF Progress
    <2>8. Readings'
      BY <1>2, <2>2, <2>4 DEF UpkeepInv, Readings
    <2>9. TokenRows'
      <3>1. \A i \in DOMAIN stamp : stamp'[i] = Named <=> stamp[i] = Named
        BY <2>2, Marks DEF UpkeepInv, Rows
      <3>2. Vouched => \A i \in DOMAIN stamp' : Column[i] # "hash" => stamp'[i] # Unread
        BY <2>2 DEF UpkeepInv, TokenRows
      <3> QED
        BY <1>1, <1>2, <1>5, <2>2, <2>4, <3>1, <3>2, RereadKeeps
    <2> QED
      BY <2>5, <2>6, <2>7, <2>8, <2>9 DEF UpkeepInv
  <1> QED
    BY <1>7, <1>8

\* What a reading says, and what a generic one leaves to later versions.
LEMMA ReadsRight ==
    ASSUME UpkeepAssumption, NEW i \in Items, proc.build \in Builds
    PROVE  /\ Column[i] = "hash" => Reads(i) = <<"hash", V.abi>>
           /\ Column[i] # "hash" => Reads(i) \in {Generic, Named}
           /\ Column[i] # "hash" /\ Reads(i) = Generic =>
                /\ NamedFrom[i] > V.classifier
                /\ Column[i] = "reveal" => LocatedFrom[i] > V.restamp
                /\ i \notin Rereads => \A b \in Builds : NamedFrom[i] > Version[b].classifier
  <1>1. /\ NamedFrom[i] \in Nat /\ LocatedFrom[i] \in Nat
        /\ \A b \in Builds : Version[b].classifier \in Nat /\ Version[b].restamp \in Nat
    BY DEF UpkeepAssumption
  <1>2. V.classifier \in Nat /\ V.restamp \in Nat
    BY <1>1 DEF V
  <1>3. CASE Column[i] = "hash"
    BY <1>3 DEF Reads
  <1>4. CASE Column[i] # "hash"
    <2>1. Reads(i) = IF NamedFrom[i] <= V.classifier \/ (Column[i] = "reveal" /\ LocatedFrom[i] <= V.restamp)
                     THEN Named ELSE Generic
      BY <1>4 DEF Reads
    <2>2. ASSUME i \notin Rereads, ~(NamedFrom[i] <= V.classifier), NEW b \in Builds
          PROVE  NamedFrom[i] > Version[b].classifier
      <3>1. NamedFrom[i] <= Version[b].classifier => NamedFrom[i] <= Version[proc.build].classifier
        BY <1>4, <2>2 DEF UpkeepAssumption
      <3> QED
        BY <1>1, <2>2, <3>1 DEF V
    <2> QED
      BY <1>1, <1>2, <1>4, <2>1, <2>2, Marks
  <1> QED
    BY <1>3, <1>4

\* A reading made now agrees with what the gates say.
LEMMA ReadsFit ==
    ASSUME UpkeepAssumption, UpkeepInv, NEW i \in Items,
           proc.pc \notin {"down", "reclassify", "rehash"}
    PROVE  /\ Column[i] = "hash" => gates.abi # <<>> /\ Reads(i) = <<"hash", gates.abi[1]>>
           /\ Column[i] # "hash" => Reads(i) \in {Generic, Named}
           /\ Column[i] # "hash" /\ Reads(i) = Generic =>
                /\ i \in Rereads => gates.classifier # <<>> /\ NamedFrom[i] > gates.classifier[1]
                /\ i \notin Rereads => \A b \in Builds : NamedFrom[i] > Version[b].classifier
                /\ Column[i] = "reveal" => LocatedFrom[i] > Latest.restamp
                /\ Column[i] = "reveal" /\ gates.restamp # <<>> => LocatedFrom[i] > gates.restamp[1]
  <1>1. proc.build \in Builds /\ V = Latest
    <2>1. proc.build = opened[Len(opened)] /\ opened # <<>> /\ opened \in Seq(Builds)
      BY DEF UpkeepInv, Processes
    <2> QED
      BY <2>1 DEF V, Latest
  <1>2. gates.classifier = <<Latest.classifier>> /\ gates.abi = <<Latest.abi>>
    BY DEF UpkeepInv, Progress
  <1>3. gates.restamp # <<>> => gates.restamp[1] <= Latest.restamp /\ gates.restamp[1] \in Nat
    <2>1. \A b \in Builds : Version[b].restamp \in Nat
      BY DEF UpkeepAssumption
    <2>2. gates.restamp # <<>> => \E b \in Builds : gates.restamp = <<Version[b].restamp>>
      BY DEF UpkeepInv, Processes, Gates
    <2> QED
      BY <2>1, <2>2 DEF UpkeepInv, Behind
  <1>4. Latest.restamp \in Nat /\ LocatedFrom[i] \in Nat
    BY <1>1 DEF UpkeepAssumption, V
  <1> HIDE DEF Latest
  <1>5. gates.classifier[1] = Latest.classifier /\ gates.abi[1] = Latest.abi /\ gates.abi # <<>> /\ gates.classifier # <<>>
    BY <1>2
  <1> QED
    BY <1>1, <1>3, <1>4, <1>5, ReadsRight

LEMMA BackfillKeeps == ASSUME UpkeepAssumption, UpkeepInv, Backfill PROVE UpkeepInv'
  <1>1. /\ proc.pc \in {"template", "reveal", "tag", "hash"}
        /\ UNCHANGED <<gates, tokens, queue, opened, late>>
    BY DEF Backfill, AfterColumn, derivedTables
  <1>2. Latest' = Latest
    BY <1>1 DEF Latest
  <1> DEFINE unread == {i \in DOMAIN stamp : Column[i] = proc.pc /\ stamp[i] = Unread}
  <1>3. CASE unread = {}
    <2>1. /\ MovesTo(IF proc.pc = "hash" /\ proc.mode = "reverify" THEN "force" ELSE AfterColumn[proc.pc], 0, {})
          /\ UNCHANGED stamp
      BY <1>3 DEF Backfill
    <2>2. PICK pc \in Steps :
             /\ MovesTo(pc, 0, {})
             /\ proc.pc = "template" => pc = "reveal"
             /\ proc.pc = "reveal" => pc = "tag"
             /\ proc.pc = "tag" => pc = "hash"
             /\ proc.pc = "hash" => pc \in {"force", "restamp"}
      BY <1>1, <2>1 DEF AfterColumn, Steps, Ready
    <2>3. /\ proc' \in Procs /\ proc'.pc = pc /\ proc'.after = 0 /\ proc'.build = proc.build
          /\ opened # <<>>
      BY <1>1, <2>2, MovesIn
    <2>4. Rows' /\ Processes' /\ Behind'
      BY <1>1, <1>2, <2>1, <2>3 DEF UpkeepInv, Rows, Processes, Behind
    <2>5. Progress'
      <3>1. \A i \in DOMAIN stamp : stamp[i] = Unread => pc \in Unsettled[Column[i]]
        <4> SUFFICES ASSUME NEW i \in DOMAIN stamp, stamp[i] = Unread PROVE pc \in Unsettled[Column[i]]
          OBVIOUS
        <4>1. Column[i] \in {"template", "reveal", "tag", "hash"} /\ Column[i] # proc.pc
          BY <1>3 DEF UpkeepInv, Rows, UpkeepAssumption
        <4>2. proc.pc \in Unsettled[Column[i]]
          BY DEF UpkeepInv, Progress
        <4> QED
          BY <1>1, <2>2, <4>1, <4>2 DEF Unsettled
      <3> QED
        BY <1>1, <1>2, <2>1, <2>3, <3>1 DEF UpkeepInv, Progress
    <2>6. Readings'
      <3>1. \A i \in DOMAIN stamp : ~(i <= 0)
        BY DEF UpkeepInv, Rows, UpkeepAssumption
      <3> QED
        BY <1>1, <1>2, <2>1, <2>3, <3>1 DEF UpkeepInv, Readings
    <2>7. TokenRows'
      <3>1. pc \notin {"delete", "chunks", "programs", "stamp"}
        BY <1>1, <2>2
      <3> QED
        BY <1>1, <2>1, <2>3, <3>1, RereadKeeps DEF UpkeepInv, TokenRows
    <2> QED
      BY <2>4, <2>5, <2>6, <2>7 DEF UpkeepInv
  <1>4. CASE unread # {}
    <2>1. PICK batch \in SUBSET unread : stamp' = [i \in DOMAIN stamp |-> IF i \in batch THEN Reads(i) ELSE stamp[i]]
      BY <1>4 DEF Backfill, kSubset
    <2>2. UNCHANGED proc
      BY <1>4 DEF Backfill
    <2>3. /\ DOMAIN stamp' = DOMAIN stamp /\ stamp' = [i \in DOMAIN stamp' |-> stamp'[i]]
          /\ \A i \in DOMAIN stamp : stamp'[i] = IF i \in batch THEN Reads(i) ELSE stamp[i]
          /\ \A i \in batch : i \in DOMAIN stamp /\ stamp[i] = Unread /\ Column[i] = proc.pc
      BY <2>1
    <2>4. DOMAIN stamp \subseteq Items
      BY DEF UpkeepInv, Rows
    <2>5. \A i \in batch :
            /\ Column[i] = "hash" => gates.abi # <<>> /\ Reads(i) = <<"hash", gates.abi[1]>>
            /\ Column[i] # "hash" => Reads(i) \in {Generic, Named}
            /\ Column[i] # "hash" /\ Reads(i) = Generic =>
                 /\ i \in Rereads => gates.classifier # <<>> /\ NamedFrom[i] > gates.classifier[1]
                 /\ i \notin Rereads => \A b \in Builds : NamedFrom[i] > Version[b].classifier
                 /\ Column[i] = "reveal" /\ gates.restamp # <<>> => LocatedFrom[i] > gates.restamp[1]
      BY <1>1, <2>3, <2>4, ReadsFit
    <2>6. Rows'
      BY <1>1, <2>3, <2>5, Marks DEF UpkeepInv, Rows
    <2>7. Processes' /\ Behind'
      BY <1>1, <1>2, <2>2 DEF UpkeepInv, Processes, Behind
    <2>8. Progress'
      BY <1>1, <1>2, <2>2, <2>3, <2>5, Marks DEF UpkeepInv, Progress
    <2>9. Readings'
      BY <1>1, <1>2, <2>2, <2>3, <2>5 DEF UpkeepInv, Readings
    <2>10. TokenRows'
      <3>1. ASSUME Vouched PROVE \A i \in batch : Column[i] = "hash"
        BY <3>1, <2>3 DEF UpkeepInv, TokenRows
      <3>2. Vouched => /\ \A i \in DOMAIN stamp' : Column[i] # "hash" => stamp'[i] # Unread
                       /\ \A i \in DOMAIN stamp : stamp'[i] = Named <=> stamp[i] = Named
        BY <2>3, <2>5, <3>1, Marks DEF UpkeepInv, TokenRows
      <3>3. Vouched => gates.classifier = <<Latest.classifier>>
        BY DEF UpkeepInv, TokenRows
      <3>4. \A i \in DOMAIN stamp : i \in DOMAIN stamp' /\ (stamp[i] = Named => stamp'[i] = Named)
        BY <2>3, Marks
      <3> QED
        BY <1>1, <2>2, <2>3, <3>2, <3>3, <3>4, RereadKeeps
    <2> QED
      BY <2>6, <2>7, <2>8, <2>9, <2>10 DEF UpkeepInv
  <1> QED
    BY <1>3, <1>4

LEMMA RestampKeeps == ASSUME UpkeepAssumption, UpkeepInv, Restamp PROVE UpkeepInv'
  <1>1. proc.pc = "restamp" /\ UNCHANGED <<tokens, queue, opened>>
    BY DEF Restamp, derivedTables
  <1>2. Latest' = Latest /\ gates \in Gates
    BY <1>1 DEF Latest, UpkeepInv, Processes
  <1>3. proc.after \in Nat
    BY DEF UpkeepInv, Processes, Procs
  <1>4. DOMAIN stamp \subseteq Items /\ DOMAIN stamp \subseteq Nat
    BY DEF UpkeepInv, Rows, UpkeepAssumption
  <1>5. V = Latest /\ proc.build \in Builds /\ opened # <<>>
    <2>1. proc.build = opened[Len(opened)] /\ opened # <<>> /\ opened \in Seq(Builds)
      BY <1>1 DEF UpkeepInv, Processes
    <2> QED
      BY <2>1 DEF V, Latest
  <1>6. Latest.restamp \in Nat /\ \A i \in Items : LocatedFrom[i] \in Nat
    BY <1>5 DEF UpkeepAssumption, V
  <1>7. \A i \in DOMAIN stamp : stamp[i] # Unread
    BY <1>1, AllRead DEF Ready
  <1>8. gates.classifier = <<Latest.classifier>> /\ gates.abi = <<Latest.abi>>
    BY <1>1 DEF UpkeepInv, Progress
  <1> DEFINE todo == {i \in DOMAIN stamp : Column[i] = "reveal" /\ i > proc.after /\ stamp[i] \in {Unread, Generic}}
  <1>9. CASE gates.restamp = <<V.restamp>>
    <2>1. To("derive") /\ UNCHANGED <<stamp, gates, late>>
      BY <1>9 DEF Restamp
    <2>2. proc' \in Procs /\ proc'.pc = "derive" /\ proc'.build = proc.build
      BY <1>1, <2>1, ToMoves DEF Steps, Ready
    <2> QED
      BY <1>1, <1>2, <2>1, <2>2, QuietKeeps DEF Ready
  <1>10. CASE gates.restamp # <<V.restamp>> /\ todo = {}
    <2>1. /\ To("derive") /\ gates' = [gates EXCEPT !.restamp = <<V.restamp>>]
          /\ UNCHANGED <<stamp, late>>
      BY <1>10 DEF Restamp
    <2>2. proc' \in Procs /\ proc'.pc = "derive" /\ proc'.build = proc.build
      BY <1>1, <2>1, ToMoves DEF Steps, Ready
    <2>3. V.restamp \in {Version[b].restamp : b \in Builds}
      BY <1>5 DEF V
    <2>4. /\ gates' \in Gates /\ gates'.restamp = <<Latest.restamp>> /\ gates'.classifier = gates.classifier
          /\ gates'.abi = gates.abi /\ gates'.token = gates.token
      BY <1>2, <1>5, <2>1, <2>3 DEF Gates
    <2>5. Rows' /\ Processes'
      BY <1>1, <2>1, <2>2, <2>4 DEF UpkeepInv, Rows, Processes
    <2>6. Behind'
      BY <1>1, <1>2, <1>5, <1>6, <2>4 DEF UpkeepInv, Behind
    <2>7. Progress'
      BY <1>2, <1>7, <1>8, <2>1, <2>4 DEF Progress
    <2>8. Readings'
      <3>1. ASSUME NEW i \in DOMAIN stamp, Column[i] = "reveal", stamp[i] = Generic
            PROVE  LocatedFrom[i] > Latest.restamp
        <4>1. ~(i > proc.after)
          BY <1>10, <3>1
        <4>2. i <= proc.after
          BY <1>3, <1>4, <4>1
        <4> QED
          BY <1>1, <3>1, <4>2 DEF UpkeepInv, Readings
      <3> QED
        BY <2>1, <2>2, <2>4, <3>1 DEF UpkeepInv, Readings
    <2>9. TokenRows'
      BY <1>1, <1>8, <2>1, <2>2, <2>4, <1>7, RereadKeeps
    <2> QED
      BY <2>5, <2>6, <2>7, <2>8, <2>9 DEF UpkeepInv
  <1>11. CASE gates.restamp # <<V.restamp>> /\ todo # {}
    <2>1. PICK last \in todo :
             /\ MovesTo("restamp", last, {})
             /\ stamp' = [i \in DOMAIN stamp |->
                           IF i \in {j \in {k \in todo : k <= last} : LocatedFrom[j] <= V.restamp} THEN Named ELSE stamp[i]]
             /\ late' = IF gates.token = TokenStamp
                        THEN late \cup {j \in {k \in todo : k <= last} : LocatedFrom[j] <= V.restamp} ELSE late
             /\ UNCHANGED gates
      BY <1>11 DEF Restamp
    <2> DEFINE found == {j \in {k \in todo : k <= last} : LocatedFrom[j] <= Latest.restamp}
    <2>2. /\ DOMAIN stamp' = DOMAIN stamp /\ stamp' = [i \in DOMAIN stamp' |-> stamp'[i]]
          /\ \A i \in DOMAIN stamp : stamp'[i] = IF i \in found THEN Named ELSE stamp[i]
      BY <1>5, <2>1
    <2>3. found \subseteq DOMAIN stamp /\ \A i \in found : stamp[i] \in {Unread, Generic} /\ Column[i] = "reveal"
      OBVIOUS
    <2>4. late' = IF Vouched THEN late \cup found ELSE late
      BY <1>1, <1>5, <2>1, StampIsToken DEF Vouched
    <2>5. /\ proc' \in Procs /\ proc'.pc = "restamp" /\ proc'.after = last /\ proc'.build = proc.build
      BY <1>1, <1>4, <2>1, MovesIn DEF Steps, Ready
    <2>6. \A i \in DOMAIN stamp : Column[i] = "reveal" /\ i <= last /\ stamp'[i] = Generic => LocatedFrom[i] > Latest.restamp
      <3> SUFFICES ASSUME NEW i \in DOMAIN stamp, Column[i] = "reveal", i <= last, stamp'[i] = Generic
                   PROVE  LocatedFrom[i] > Latest.restamp
        OBVIOUS
      <3>1. i \notin found /\ stamp[i] = Generic
        BY <2>2, Marks
      <3>2. CASE i <= proc.after
        BY <1>1, <3>1, <3>2 DEF UpkeepInv, Readings
      <3>3. CASE ~(i <= proc.after)
        <4>1. i \in {k \in todo : k <= last}
          BY <1>3, <1>4, <3>1, <3>3
        <4>2. ~(LocatedFrom[i] <= Latest.restamp)
          BY <3>1, <4>1
        <4> QED
          BY <1>4, <1>6, <4>2
      <3> QED
        BY <3>2, <3>3
    <2> HIDE DEF found
    <2>7. Rows'
      BY <2>1, <2>2, <2>3, Marks DEF UpkeepInv, Rows
    <2>8. Processes' /\ Behind'
      BY <1>1, <1>2, <2>1, <2>5 DEF UpkeepInv, Processes, Behind
    <2>9. Progress'
      BY <1>2, <1>7, <1>8, <2>1, <2>2, Marks DEF Progress
    <2>10. Readings'
      BY <1>2, <2>1, <2>2, <2>5, <2>6, Marks DEF UpkeepInv, Readings
    <2>11. TokenRows'
      <3>1. \A i \in DOMAIN stamp : i \in DOMAIN stamp' /\ stamp'[i] # Unread /\ (stamp[i] = Named => stamp'[i] = Named)
        BY <1>7, <2>2, Marks
      <3>2. ASSUME Vouched, late' = {}
            PROVE  late = {} /\ \A i \in DOMAIN stamp : stamp'[i] = Named <=> stamp[i] = Named
        BY <2>2, <2>4, <3>2
      <3> QED
        BY <1>1, <1>8, <2>1, <2>2, <2>5, <3>1, <3>2, RereadKeeps
    <2> QED
      BY <2>7, <2>8, <2>9, <2>10, <2>11 DEF UpkeepInv
  <1> QED
    BY <1>9, <1>10, <1>11

-----------------------------------------------------------------------------
(* Steps that write token rows or the gate *)

\* Only the token rows, the place and the gate for them are at stake.
LEMMA DeriverKeeps ==
    ASSUME UpkeepAssumption, UpkeepInv, UNCHANGED <<stamp, opened>>, gates' \in Gates,
           gates'.classifier = gates.classifier, gates'.abi = gates.abi, gates'.restamp = gates.restamp,
           gates'.token \in {gates.token, StampOf(Latest)},
           proc.pc \in Ready, proc' \in Procs, proc'.pc \in Ready \ {"restamp"}, proc'.build = proc.build,
           TokenRows'
    PROVE  UpkeepInv'
  <1>1. Latest' = Latest
    BY DEF Latest
  <1>2. opened # <<>> /\ opened \in Seq(Builds) /\ Latest \in {Version[b] : b \in Builds}
    <2>1. opened # <<>> /\ opened \in Seq(Builds)
      BY DEF UpkeepInv, Processes, Ready
    <2>2. opened[Len(opened)] \in Builds
      BY <2>1
    <2> QED
      BY <2>1, <2>2 DEF Latest
  <1>3. Rows' /\ Processes'
    BY DEF UpkeepInv, Rows, Processes, Ready
  <1>4. Progress'
    BY <1>1, AllRead DEF UpkeepInv, Progress, Ready
  <1>5. Readings'
    BY <1>1 DEF UpkeepInv, Readings, Ready
  <1>6. Behind'
    <2>1. Latest.derivation \in Nat /\ Latest.classifier \in Nat /\ Latest.restamp \in Nat
      BY <1>2 DEF UpkeepAssumption
    <2>2. StampOf(Latest)[1] = Latest.derivation /\ StampOf(Latest)[2] = Latest.classifier /\ StampOf(Latest)[3] = Latest.restamp
      BY DEF StampOf
    <2> HIDE DEF Latest
    <2> QED
      BY <1>1, <1>2, <2>1, <2>2 DEF UpkeepInv, Behind
  <1> QED
    BY <1>3, <1>4, <1>5, <1>6 DEF UpkeepInv

LEMMA DeleteKeeps == ASSUME UpkeepAssumption, UpkeepInv, DeleteDerived PROVE UpkeepInv'
  <1>1. /\ proc.pc = "delete" /\ tokens' = <<>> /\ MovesTo("chunks", proc.after, Candidates)
        /\ UNCHANGED <<stamp, gates, queue, opened, late>>
    BY DEF DeleteDerived
  <1>2. Candidates \in SUBSET {Owner[i] : i \in Items} /\ proc.after \in Nat
    BY DEF UpkeepInv, Rows, Candidates, Processes, Procs
  <1>3. proc' \in Procs /\ proc'.pc = "chunks" /\ proc'.ids = Candidates /\ proc'.build = proc.build
    BY <1>1, <1>2, MovesIn DEF Steps, Ready
  <1>4. Latest' = Latest /\ Candidates' = Candidates /\ (Vouched' <=> Vouched)
    BY <1>1 DEF Latest, Candidates, Vouched
  <1>5. tokens' = [c \in DOMAIN tokens' |-> tokens'[c]] /\ DOMAIN tokens' \subseteq Candidates
    BY <1>1
  <1>6. TokenRows'
    BY <1>1, <1>3, <1>4, <1>5 DEF UpkeepInv, TokenRows
  <1> QED
    BY <1>1, <1>3, <1>6, DeriverKeeps DEF UpkeepInv, Processes, Ready

LEMMA DerivedNow ==
    ASSUME UpkeepInv, proc.pc # "down", NEW c PROVE Derivation(c) = <<Latest.derivation, NamedOf(c)>>
  BY DEF UpkeepInv, Processes, Derivation, NamedOf, V, Latest

LEMMA ChunkKeeps == ASSUME UpkeepAssumption, UpkeepInv, DeriveChunk PROVE UpkeepInv'
  <1>1. proc.pc = "chunks" /\ UNCHANGED <<stamp, gates, queue, opened, late>>
    BY DEF DeriveChunk
  <1>2. PICK chunk \in SUBSET proc.ids :
          /\ tokens' = [c \in DOMAIN tokens \cup chunk |-> IF c \in chunk THEN Derivation(c) ELSE tokens[c]]
          /\ MovesTo(IF proc.ids = chunk THEN "programs" ELSE "chunks", proc.after, proc.ids \ chunk)
    BY DEF DeriveChunk
  <1>3. proc.after \in Nat /\ proc.ids \ chunk \in SUBSET {Owner[i] : i \in Items}
    BY DEF UpkeepInv, Processes, Procs
  <1>4. PICK pc \in Steps : /\ MovesTo(pc, proc.after, proc.ids \ chunk) /\ pc \in {"chunks", "programs"}
                            /\ pc = "programs" => proc.ids = chunk
    BY <1>2 DEF Steps, Ready
  <1>5. proc' \in Procs /\ proc'.pc = pc /\ proc'.ids = proc.ids \ chunk /\ proc'.build = proc.build
    BY <1>1, <1>3, <1>4, MovesIn
  <1>6. Latest' = Latest /\ Candidates' = Candidates /\ (Vouched' <=> Vouched) /\ (\A c : NamedOf(c)' = NamedOf(c))
    BY <1>1 DEF Latest, Candidates, Vouched, NamedOf
  <1>7. /\ DOMAIN tokens' = DOMAIN tokens \cup chunk /\ tokens' = [c \in DOMAIN tokens' |-> tokens'[c]]
        /\ \A c \in chunk : Derived(c)'
        /\ \A c : c \notin chunk /\ Derived(c) => Derived(c)'
    BY <1>1, <1>2, <1>6, DerivedNow DEF Derived
  <1>8. chunk \subseteq Candidates /\ DOMAIN tokens \subseteq Candidates /\ ~Vouched
        /\ \A c \in Candidates : c \in proc.ids \/ Derived(c)
    BY <1>1 DEF UpkeepInv, TokenRows
  <1>9. TokenRows'
    <2>1. \A c \in Candidates : (pc = "chunks" /\ c \in proc.ids \ chunk) \/ Derived(c)'
      BY <1>4, <1>7, <1>8
    <2> QED
      BY <1>1, <1>4, <1>5, <1>6, <1>7, <1>8, <2>1 DEF UpkeepInv, TokenRows
  <1>10. proc'.pc \in Ready \ {"restamp"} /\ proc.pc \in Ready
    BY <1>1, <1>4, <1>5 DEF Ready
  <1> QED
    BY <1>1, <1>5, <1>9, <1>10, DeriverKeeps DEF UpkeepInv, Processes

LEMMA RecordKeeps == ASSUME UpkeepAssumption, UpkeepInv, RecordStamp PROVE UpkeepInv'
  <1>1. /\ proc.pc = "stamp" /\ To("finish") /\ gates' = [gates EXCEPT !.token = TokenStamp]
        /\ UNCHANGED <<stamp, tokens, queue, opened>>
    BY DEF RecordStamp, derivedTables
  <1>2. /\ proc' \in Procs /\ proc'.pc = "finish" /\ proc'.build = proc.build
        /\ proc.build \in Builds /\ opened # <<>> /\ V = Latest
    BY <1>1, ToMoves DEF Steps, Ready
  <1>3. TokenStamp = StampOf(Latest) /\ StampOf(Latest) \in {StampOf(Version[b]) : b \in Builds}
    BY <1>1, <1>2, StampIsToken DEF V
  <1>4. gates \in Gates
    BY DEF UpkeepInv, Processes
  <1>5. /\ gates' \in Gates /\ gates'.classifier = gates.classifier /\ gates'.abi = gates.abi
        /\ gates'.restamp = gates.restamp /\ gates'.token = StampOf(Latest)
    BY <1>1, <1>3, <1>4 DEF Gates
  <1>6. Latest' = Latest /\ Candidates' = Candidates /\ (\A c : NamedOf(c)' = NamedOf(c))
    BY <1>1 DEF Latest, Candidates, NamedOf
  <1>7. \A c \in Candidates : Derived(c)'
    BY <1>1, <1>6 DEF UpkeepInv, TokenRows, Derived
  <1>8. (\A i \in DOMAIN stamp : stamp[i] # Unread) /\ gates.classifier = <<Latest.classifier>>
    BY <1>1, AllRead DEF Ready, UpkeepInv, Progress
  <1>9. TokenRows'
    BY <1>1, <1>2, <1>5, <1>6, <1>7, <1>8 DEF UpkeepInv, TokenRows
  <1> QED
    BY <1>1, <1>2, <1>5, <1>9, DeriverKeeps DEF Ready

LEMMA DrainKeeps == ASSUME UpkeepAssumption, UpkeepInv, DrainQueue PROVE UpkeepInv'
  <1>1. proc.pc = "live" /\ queue' = {} /\ UNCHANGED <<stamp, gates, proc, opened, late>>
    BY DEF DrainQueue
  <1> DEFINE hit == queue \cap (DOMAIN tokens \cup Candidates)
  <1>2. tokens' = [c \in DOMAIN tokens \cup hit |-> IF c \in hit THEN Derivation(c) ELSE tokens[c]]
    BY DEF DrainQueue
  <1>3. Latest' = Latest /\ Candidates' = Candidates /\ (Vouched' <=> Vouched) /\ (\A c : NamedOf(c)' = NamedOf(c))
    BY <1>1 DEF Latest, Candidates, Vouched, NamedOf
  <1>4. /\ DOMAIN tokens' = DOMAIN tokens \cup hit /\ tokens' = [c \in DOMAIN tokens' |-> tokens'[c]]
        /\ \A c \in hit : Derived(c)'
        /\ \A c : c \notin hit /\ Derived(c) => Derived(c)'
    BY <1>1, <1>2, <1>3, DerivedNow DEF Derived
  <1>5. DOMAIN tokens \subseteq Candidates
    BY DEF UpkeepInv, TokenRows
  <1>6. ASSUME Vouched, late = {} PROVE \A c \in Candidates : Derived(c)'
    <2>1. \A c \in Candidates \ queue : Derived(c)
      BY <1>6 DEF UpkeepInv, TokenRows
    <2> QED
      BY <1>4, <2>1
  <1>7. TokenRows'
    BY <1>1, <1>3, <1>4, <1>5, <1>6 DEF UpkeepInv, TokenRows
  <1> QED
    BY <1>1, <1>7, DeriverKeeps DEF Ready, UpkeepInv, Processes

LEMMA WriteKeeps == ASSUME UpkeepAssumption, UpkeepInv, WriteRow PROVE UpkeepInv'
  <1>1. proc.pc = "live" /\ UNCHANGED <<gates, tokens, proc, opened, late>>
    BY DEF WriteRow
  <1>2. PICK i \in Items \ DOMAIN stamp :
          /\ stamp' = [j \in DOMAIN stamp \cup {i} |-> IF j = i THEN Reads(i) ELSE stamp[j]]
          /\ queue' = queue \cup {Owner[i]}
    BY DEF WriteRow
  <1>3. /\ DOMAIN stamp' = DOMAIN stamp \cup {i} /\ stamp' = [j \in DOMAIN stamp' |-> stamp'[j]]
        /\ stamp'[i] = Reads(i) /\ \A j \in DOMAIN stamp : stamp'[j] = stamp[j]
    BY <1>2
  <1>4. Latest' = Latest /\ (Vouched' <=> Vouched)
    BY <1>1 DEF Latest, Vouched
  <1>5. /\ Column[i] = "hash" => gates.abi # <<>> /\ Reads(i) = <<"hash", gates.abi[1]>>
        /\ Column[i] # "hash" => Reads(i) \in {Generic, Named}
        /\ Column[i] # "hash" /\ Reads(i) = Generic =>
             /\ i \in Rereads => gates.classifier # <<>> /\ NamedFrom[i] > gates.classifier[1]
             /\ i \notin Rereads => \A b \in Builds : NamedFrom[i] > Version[b].classifier
             /\ Column[i] = "reveal" /\ gates.restamp # <<>> => LocatedFrom[i] > gates.restamp[1]
    BY <1>1, ReadsFit
  <1>6. Reads(i) # Unread
    BY <1>5, Marks
  <1>7. Rows'
    BY <1>1, <1>2, <1>3, <1>5 DEF UpkeepInv, Rows
  <1>8. Processes' /\ Behind'
    BY <1>1, <1>4 DEF UpkeepInv, Processes, Behind
  <1>9. Progress'
    BY <1>1, <1>3, <1>4, <1>6 DEF UpkeepInv, Progress
  <1>10. Readings'
    BY <1>1, <1>3, <1>5 DEF UpkeepInv, Readings
  <1>11. Candidates \subseteq Candidates'
    BY <1>3, NamedStay
  <1>12. \A c : c \in Candidates' /\ c # Owner[i] => c \in Candidates /\ NamedOf(c)' = NamedOf(c)
    BY <1>2, <1>3 DEF Candidates, NamedOf
  <1>13. ASSUME Vouched, late' = {} PROVE \A c \in Candidates' \ queue' : Derived(c)'
    <2> SUFFICES ASSUME NEW c \in Candidates' \ queue' PROVE Derived(c)'
      OBVIOUS
    <2>1. c # Owner[i] /\ c \notin queue
      BY <1>2
    <2>2. c \in Candidates /\ NamedOf(c)' = NamedOf(c)
      BY <1>12, <2>1
    <2>3. Derived(c)
      BY <1>1, <1>13, <2>1, <2>2 DEF UpkeepInv, TokenRows
    <2> QED
      BY <1>1, <1>4, <2>2, <2>3 DEF Derived
  <1>14. TokenRows'
    <2>1. Vouched => /\ gates.classifier = <<Latest.classifier>>
                     /\ \A j \in DOMAIN stamp' : Column[j] # "hash" => stamp'[j] # Unread
      BY <1>3, <1>6 DEF UpkeepInv, TokenRows
    <2>2. tokens' = [c \in DOMAIN tokens' |-> tokens'[c]] /\ DOMAIN tokens' \subseteq Candidates'
      BY <1>1, <1>11 DEF UpkeepInv, TokenRows
    <2> QED
      BY <1>1, <1>4, <1>13, <2>1, <2>2 DEF TokenRows
  <1> QED
    BY <1>7, <1>8, <1>9, <1>10, <1>14 DEF UpkeepInv

-----------------------------------------------------------------------------
(* Another process *)

LEMMA OpenKeeps == ASSUME UpkeepAssumption, ~Rollbacks, UpkeepInv, OpenStore PROVE UpkeepInv'
  <1>1. proc.pc = "down" /\ UNCHANGED <<stamp, gates, tokens, queue, late>>
    BY DEF OpenStore, derivedTables
  <1>2. PICK b \in Builds, mode \in {"serve", "restamp", "reverify"} :
          /\ opened # <<>> => opened[Len(opened)] <= b
          /\ proc' = [pc |-> "reclassify", mode |-> mode, build |-> b, after |-> 0, ids |-> {}]
          /\ opened' = Append(opened, b)
    BY DEF OpenStore
  <1>3. opened \in Seq(Builds)
    BY DEF UpkeepInv, Processes
  <1>4. opened' \in Seq(Builds) /\ opened' # <<>> /\ opened'[Len(opened')] = b
    BY <1>2, <1>3
  <1>5. Latest' = Version[b]
    BY <1>4 DEF Latest
  <1>6. proc' \in Procs /\ proc'.pc = "reclassify" /\ proc'.build = b
    BY <1>2 DEF Procs, Steps
  <1>7. gates \in Gates
    BY DEF UpkeepInv, Processes
  <1>8. opened # <<>> => /\ Latest.derivation <= Version[b].derivation /\ Latest.classifier <= Version[b].classifier
                         /\ Latest.restamp <= Version[b].restamp
                         /\ Latest.derivation \in Nat /\ Latest.classifier \in Nat /\ Latest.restamp \in Nat
    <2> SUFFICES ASSUME opened # <<>>
                 PROVE  /\ Latest.derivation <= Version[b].derivation /\ Latest.classifier <= Version[b].classifier
                        /\ Latest.restamp <= Version[b].restamp
                        /\ Latest.derivation \in Nat /\ Latest.classifier \in Nat /\ Latest.restamp \in Nat
      OBVIOUS
    <2> DEFINE a == opened[Len(opened)]
    <2>1. a \in Builds /\ a <= b
      BY <1>2, <1>3
    <2> HIDE DEF a
    <2>2. /\ Version[a].derivation <= Version[b].derivation /\ Version[a].classifier <= Version[b].classifier
          /\ Version[a].restamp <= Version[b].restamp
          /\ Version[a].derivation \in Nat /\ Version[a].classifier \in Nat /\ Version[a].restamp \in Nat
      BY <2>1 DEF UpkeepAssumption
    <2> QED
      BY <2>2 DEF Latest, a
  <1>9. Version[b].derivation \in Nat /\ Version[b].classifier \in Nat /\ Version[b].restamp \in Nat
    BY DEF UpkeepAssumption
  <1>10. Rows' /\ Processes'
    BY <1>1, <1>2, <1>4, <1>6, <1>7 DEF UpkeepInv, Rows, Processes
  <1>11. Progress'
    <2>1. \A i \in DOMAIN stamp : "reclassify" \in Unsettled[Column[i]]
      BY DEF UpkeepInv, Rows, UpkeepAssumption, Unsettled
    <2> QED
      BY <1>1, <1>6, <2>1 DEF Progress
  <1>12. Readings'
    BY <1>1, <1>6 DEF UpkeepInv, Readings
  <1>13. gates.token # <<>> => /\ gates.token[1] \in Nat /\ gates.token[2] \in Nat /\ gates.token[3] \in Nat
    <2>1. gates.token # <<>> => \E d \in Builds : gates.token = StampOf(Version[d])
      BY <1>7 DEF Gates
    <2>2. \A d \in Builds : /\ StampOf(Version[d])[1] \in Nat /\ StampOf(Version[d])[2] \in Nat
                             /\ StampOf(Version[d])[3] \in Nat
      BY DEF UpkeepAssumption, StampOf
    <2> QED
      BY <2>1, <2>2
  <1>14. gates.restamp # <<>> => gates.restamp[1] \in Nat
    <2>1. gates.restamp # <<>> => \E d \in Builds : gates.restamp = <<Version[d].restamp>>
      BY <1>7 DEF Gates
    <2>2. \A d \in Builds : Version[d].restamp \in Nat
      BY DEF UpkeepAssumption
    <2> QED
      BY <2>1, <2>2
  <1>15. Behind'
    <2>1. gates.restamp # <<>> => opened # <<>> /\ gates.restamp[1] <= Latest.restamp
      BY DEF UpkeepInv, Behind
    <2>2. gates.token # <<>> => /\ opened # <<>> /\ gates.token[1] <= Latest.derivation
                                /\ gates.token[2] <= Latest.classifier /\ gates.token[3] <= Latest.restamp
      BY DEF UpkeepInv, Behind
    <2> HIDE DEF Latest
    <2>3. gates.restamp # <<>> => gates.restamp[1] <= Version[b].restamp
      BY ONLY SMTT(20), <1>8, <1>9, <1>14, <2>1
    <2>4. gates.token # <<>> => /\ gates.token[1] <= Version[b].derivation
                                /\ gates.token[2] <= Version[b].classifier /\ gates.token[3] <= Version[b].restamp
      BY ONLY SMTT(20), <1>8, <1>9, <1>13, <2>2
    <2> QED
      BY <1>1, <1>4, <1>5, <2>3, <2>4 DEF Behind
  <1>16. Vouched' => Vouched /\ StampOf(Latest') = StampOf(Latest)
    <2> SUFFICES ASSUME gates.token = StampOf(Version[b]) PROVE opened # <<>> /\ gates.token = StampOf(Latest)
      BY <1>1, <1>5 DEF Vouched
    <2>1. gates.token # <<>> /\ gates.token[1] = Version[b].derivation
          /\ gates.token[2] = Version[b].classifier /\ gates.token[3] = Version[b].restamp
      BY DEF StampOf
    <2>2. opened # <<>> /\ gates.token[1] <= Latest.derivation /\ gates.token[2] <= Latest.classifier
          /\ gates.token[3] <= Latest.restamp
      BY <2>1 DEF UpkeepInv, Behind
    <2>3. Latest.derivation = Version[b].derivation /\ Latest.classifier = Version[b].classifier
          /\ Latest.restamp = Version[b].restamp
      <3> HIDE DEF Latest
      <3> QED
        BY <1>8, <1>9, <2>1, <2>2
    <2> QED
      BY <2>2, <2>3 DEF StampOf
  <1>17. Vouched' => Vouched /\ Latest'.classifier = Latest.classifier /\ Latest'.derivation = Latest.derivation
    <2>1. \A v, w : StampOf(v) = StampOf(w) => v.classifier = w.classifier /\ v.derivation = w.derivation
      BY DEF StampOf
    <2> QED
      BY <1>16, <2>1
  <1>18. Candidates' = Candidates /\ (\A c : NamedOf(c)' = NamedOf(c))
    BY <1>1 DEF Candidates, NamedOf
  <1>19. Vouched' => \A c : Derived(c) => Derived(c)'
    BY <1>1, <1>17, <1>18 DEF Derived
  <1>20. TokenRows'
    BY <1>1, <1>6, <1>17, <1>18, <1>19 DEF UpkeepInv, TokenRows
  <1> QED
    BY <1>10, <1>11, <1>12, <1>15, <1>20 DEF UpkeepInv

LEMMA UpkeepStarts == UpkeepAssumption /\ UpInit => UpkeepInv
  <1> SUFFICES ASSUME UpkeepAssumption, UpInit PROVE UpkeepInv
    OBVIOUS
  <1>1. /\ stamp = [i \in Legacy |-> Unread] /\ Legacy \subseteq Items /\ tokens = <<>> /\ opened = <<>>
        /\ gates = [classifier |-> <<>>, abi |-> <<>>, restamp |-> <<>>, token |-> <<>>, market |-> <<>>]
        /\ proc = Down
    BY DEF UpInit, UpkeepAssumption
  <1>2. proc \in Procs /\ proc.pc = "down"
    BY <1>1, DownIsProc
  <1>3. Rows
    BY <1>1, Marks DEF Rows
  <1>4. Processes
    BY <1>1, <1>2 DEF Processes, Gates
  <1>5. Progress
    <2>1. \A i \in DOMAIN stamp : "down" \in Unsettled[Column[i]]
      BY <1>3 DEF Rows, UpkeepAssumption, Unsettled
    <2> QED
      BY <1>2, <2>1 DEF Progress
  <1>6. Readings /\ Behind
    BY <1>1, Marks DEF Readings, Behind
  <1>7. TokenRows
    BY <1>1, <1>2 DEF TokenRows, Vouched
  <1> QED
    BY <1>3, <1>4, <1>5, <1>6, <1>7 DEF UpkeepInv

LEMMA UpkeepKeeps ==
    ASSUME UpkeepAssumption, ~Rollbacks, UpkeepInv, [UpNext]_upvars
    PROVE  UpkeepInv'
  <1>1. CASE OpenStore
    BY <1>1, OpenKeeps
  <1>2. CASE ReclassifyIfStale
    BY <1>2, ReclassifyKeeps
  <1>3. CASE RehashIfStale
    BY <1>3, RehashKeeps
  <1>4. CASE Backfill
    BY <1>4, BackfillKeeps
  <1>5. CASE Restamp
    BY <1>5, RestampKeeps
  <1>6. CASE ForceReverify
    BY <1>6, ForceKeeps
  <1>7. CASE BeginDerivation
    BY <1>7, BeginDerivationKeeps
  <1>8. CASE DeleteDerived
    BY <1>8, DeleteKeeps
  <1>9. CASE DeriveChunk
    BY <1>9, ChunkKeeps
  <1>10. CASE DerivePrograms
    BY <1>10, ProgramsKeeps
  <1>11. CASE RecordStamp
    BY <1>11, RecordKeeps
  <1>12. CASE MarketsPass
    BY <1>12, MarketsKeeps
  <1>13. CASE FinishRun
    BY <1>13, FinishKeeps
  <1>14. CASE StatementFails \/ ProcessDies
    BY <1>14, FaultKeeps
  <1>15. CASE WriteRow
    BY <1>15, WriteKeeps
  <1>16. CASE DrainQueue
    BY <1>16, DrainKeeps
  <1>17. CASE UNCHANGED upvars
    BY <1>17 DEF upvars, UpkeepInv, Rows, Processes, Progress, Readings, Behind, TokenRows, Latest, Candidates,
                NamedOf, Derived, Vouched
  <1> QED
    BY <1>1, <1>2, <1>3, <1>4, <1>5, <1>6, <1>7, <1>8, <1>9, <1>10, <1>11, <1>12, <1>13, <1>14, <1>15, <1>16, <1>17 DEF UpNext

LEMMA UpkeepEntails == ASSUME UpkeepAssumption, UpkeepInv PROVE GatesTellTruth
  <1>1. ASSUME proc.pc = "live" PROVE V = Latest /\ proc.build \in Builds /\ opened # <<>>
    <2>1. proc.build = opened[Len(opened)] /\ opened # <<>> /\ opened \in Seq(Builds)
      BY <1>1 DEF UpkeepInv, Processes
    <2> QED
      BY <2>1 DEF V, Latest
  <1>2. StampsSettled
    <2> SUFFICES ASSUME proc.pc = "live", gates.restamp = <<V.restamp>>, NEW i \in DOMAIN stamp
                 PROVE  stamp[i] # Unread /\ (Column[i] = "hash" \/ Reads(i) = Named => stamp[i] = Reads(i))
      BY DEF StampsSettled
    <2>1. stamp[i] # Unread
      BY AllRead DEF Ready
    <2>2. i \in Items
      BY DEF UpkeepInv, Rows
    <2>3. gates.classifier = <<Latest.classifier>> /\ gates.abi = <<Latest.abi>>
      BY DEF UpkeepInv, Progress
    <2>4. CASE Column[i] = "hash"
      <3>1. stamp[i] = <<"hash", gates.abi[1]>>
        BY <2>1, <2>4 DEF UpkeepInv, Rows
      <3>2. gates.abi[1] = Latest.abi
        BY <2>3
      <3> QED
        BY <1>1, <2>1, <2>2, <2>4, <3>1, <3>2, ReadsRight
    <2>5. CASE Column[i] # "hash" /\ Reads(i) = Named
      <3> SUFFICES ASSUME stamp[i] = Generic PROVE FALSE
        BY <2>1, <2>5 DEF UpkeepInv, Rows
      <3>1. /\ NamedFrom[i] \in Nat /\ LocatedFrom[i] \in Nat /\ Latest.classifier \in Nat /\ Latest.restamp \in Nat
        BY <1>1, <2>2 DEF UpkeepAssumption, V
      <3>2. i \in Rereads => NamedFrom[i] > gates.classifier[1]
        BY <2>5 DEF UpkeepInv, Readings
      <3>3. i \notin Rereads => NamedFrom[i] > Latest.classifier
        BY <1>1, <2>5 DEF UpkeepInv, Readings, V
      <3>4. gates.restamp # <<>> /\ gates.restamp[1] = Latest.restamp
        BY <1>1
      <3>5. Column[i] = "reveal" => LocatedFrom[i] > Latest.restamp
        BY <2>5, <3>4 DEF UpkeepInv, Readings
      <3>6. NamedFrom[i] > Latest.classifier
        BY <2>3, <3>2, <3>3
      <3>7. Reads(i) = Generic
        <4> HIDE DEF Latest
        <4> QED
          BY <1>1, <2>5, <3>1, <3>5, <3>6 DEF Reads
      <3> QED
        BY <2>5, <3>7, Marks
    <2> QED
      BY <2>1, <2>4, <2>5
  <1>3. ServedTokensWhole
    <2> SUFFICES ASSUME proc.pc = "live", gates.token = TokenStamp, queue = {}, late = {}
                 PROVE  tokens = [c \in Candidates |-> Derivation(c)]
      BY DEF ServedTokensWhole
    <2>1. Vouched
      BY <1>1, StampIsToken DEF Vouched
    <2>2. \A c \in Candidates : Derived(c)
      BY <2>1 DEF UpkeepInv, TokenRows
    <2>3. DOMAIN tokens = Candidates /\ tokens = [c \in DOMAIN tokens |-> tokens[c]]
      BY <2>2 DEF UpkeepInv, TokenRows, Derived
    <2>4. \A c \in Candidates : tokens[c] = Derivation(c)
      BY <2>2, DerivedNow DEF Derived
    <2> QED
      BY <2>3, <2>4
  <1> QED
    BY <1>2, <1>3 DEF GatesTellTruth

\* For any builds deployed in order, any stored readings and any batch size,
\* however often a process dies or a statement fails: a version gate vouches
\* only for work that is done (open_writer, reclassify_if_stale,
\* restamp_kcc20_if_stale, derive_tokens_if_stale).
THEOREM GatesAreTrue == ASSUME ~Rollbacks PROVE UpSpec => []GatesTellTruth
  <1>1. UpInit => UpkeepInv
    BY UpkeepStarts, UpkeepAssumption
  <1>2. UpkeepInv /\ [UpNext]_upvars => UpkeepInv'
    BY UpkeepKeeps, UpkeepAssumption
  <1>3. UpkeepInv => GatesTellTruth
    BY UpkeepEntails, UpkeepAssumption
  <1> QED
    BY <1>1, <1>2, <1>3, PTL DEF UpSpec

-----------------------------------------------------------------------------
(* Listed tokens and their schedules (ListedTokens.tla).  The invariant: the *)
(* cells come in the order of their transactions, each spend pays for the    *)
(* cells it made, a cell continues its parent or belongs to a later plan,    *)
(* and a stored schedule is that of a genesis cell of a lock of its token.   *)
LiCellsOK ==
    /\ cells \in Seq(ToSet(cells)) /\ ghost.tx \in Nat
    /\ \A c \in DOMAIN cells :
         /\ cells[c].tx \in GenesisTx..ghost.tx
         /\ cells[c].spent = 0 \/ cells[c].spent \in (cells[c].tx + 1)..ghost.tx
         /\ cells[c].claimed \in Int /\ cells[c].plan.start \in Int /\ cells[c].plan.total \in Int
    /\ \A c, d \in DOMAIN cells :
         /\ c < d => cells[c].tx <= cells[d].tx
         /\ cells[c].spent = cells[d].spent /\ cells[c].spent # 0 => c = d
LiGenesisOK ==
    /\ ghost.tx >= GenesisTx => \A i \in DOMAIN GenesisCells :
         /\ i \in DOMAIN cells
         /\ cells[i].lock = GenesisCells[i].lock /\ cells[i].plan = GenesisCells[i].plan
         /\ cells[i].tx = GenesisTx
    /\ \A c \in DOMAIN cells : cells[c].tx = GenesisTx => c \in DOMAIN GenesisCells /\ cells[c].parent = 0
LiPaid(c, p) ==
    /\ p \in DOMAIN cells /\ p < c /\ cells[p].spent = cells[c].tx
    /\ \/ cells[c].parent = p /\ cells[c].plan = cells[p].plan
       \/ cells[c].parent = cells[p].parent /\ cells[c].plan.start = cells[p].plan.start + 1
LiContinues(c, p) ==
    /\ p \in DOMAIN cells /\ p < c /\ cells[p].plan.start <= cells[c].plan.start
    /\ cells[p].plan.start = cells[c].plan.start =>
         /\ cells[p].spent = cells[c].tx /\ cells[p].plan = cells[c].plan
         /\ cells[p].claimed <= cells[c].claimed /\ cells[c].claimed <= cells[c].plan.total
LiLineageOK ==
    \A c \in DOMAIN cells :
      /\ cells[c].tx # GenesisTx => \E p \in DOMAIN cells : LiPaid(c, p)
      /\ cells[c].parent # 0 => LiContinues(c, cells[c].parent)
      /\ \A d \in DOMAIN cells :
           /\ cells[c].parent # 0 /\ cells[c].parent = cells[d].parent
           /\ cells[c].plan = cells[cells[c].parent].plan /\ cells[d].plan = cells[cells[c].parent].plan
           => c = d
LiSchedulesOK ==
    \A t \in DOMAIN schedules :
      /\ schedules[t].cell \in DOMAIN GenesisCells
      /\ schedules[t].plan = GenesisCells[schedules[t].cell].plan
      /\ GenesisCells[schedules[t].cell].lock \in Locks(t)
LiFetchedOK == fetched.body \in Lists \cup {<<>>}
LiInv == LiCellsOK /\ LiGenesisOK /\ LiLineageOK /\ LiSchedulesOK /\ LiFetchedOK
LEMMA SmallestOf ==
    ASSUME NEW T \in SUBSET Nat, T # {}
    PROVE  \E m \in T : \A k \in T : m <= k
  <1>1. PICK x \in T : \A y \in T : <<y, x>> \notin OpToRel(<, Nat)
    BY NatLessThanWellFounded, WFMin
  <1>2. \A y \in T : x <= y
    <2> SUFFICES ASSUME NEW y \in T PROVE x <= y
      OBVIOUS
    <2>1. x \in Nat /\ y \in Nat
      OBVIOUS
    <2>2. ~(y < x)
      BY <1>1, <2>1 DEF OpToRel
    <2> QED
      BY <2>1, <2>2
  <1> QED
    BY <1>2

-----------------------------------------------------------------------------
(* What the invariant says of the line of a lock cell *)

\* The line of a cell holds the cell, whatever continues a cell of the line,
\* and nothing else.
LEMMA LiLine ==
    ASSUME LiInv, NEW g \in DOMAIN cells
    PROVE  /\ g \in Descendants(g)
           /\ \A d \in DOMAIN cells : cells[d].parent \in Descendants(g) => d \in Descendants(g)
           /\ \A c \in Descendants(g) : /\ c \in DOMAIN cells /\ g <= c
                                        /\ cells[g].plan.start <= cells[c].plan.start
                                        /\ c = g \/ cells[c].parent \in Descendants(g)
  <1> DEFINE L == Descendants(g)
             closed(S) == g \in S /\ \A d \in DOMAIN cells : cells[d].parent \in S => d \in S
  <1>1. \A c \in L : c \in DOMAIN cells /\ \A S \in SUBSET DOMAIN cells : closed(S) => c \in S
    BY DEF Descendants
  <1>2. g \in L
    BY DEF Descendants
  <1>3. \A d \in DOMAIN cells : cells[d].parent \in L => d \in L
    <2> SUFFICES ASSUME NEW d \in DOMAIN cells, cells[d].parent \in L,
                        NEW S \in SUBSET DOMAIN cells, closed(S)
                 PROVE  d \in S
      BY DEF Descendants
    <2>1. cells[d].parent \in S
      BY <1>1
    <2> QED
      BY <2>1
  <1> HIDE DEF L
  <1>4. LiCellsOK /\ LiLineageOK
    BY DEF LiInv
  <1>5. DOMAIN cells \subseteq Nat /\ 0 \notin DOMAIN cells
    <2>1. PICK e \in Seq(ToSet(cells)) : e = cells
      BY <1>4 DEF LiCellsOK
    <2>2. DOMAIN e = 1..Len(e) /\ Len(e) \in Nat
      OBVIOUS
    <2> QED
      BY <2>1, <2>2
  <1>6. \A c \in L : g <= c /\ cells[g].plan.start <= cells[c].plan.start
    <2> DEFINE S == {c \in DOMAIN cells : g <= c /\ cells[g].plan.start <= cells[c].plan.start}
    <2>1. g \in S
      BY <1>4, <1>5 DEF LiCellsOK
    <2>2. ASSUME NEW d \in DOMAIN cells, cells[d].parent \in S PROVE d \in S
      <3>1. cells[d].parent \in DOMAIN cells /\ g <= cells[d].parent
            /\ cells[g].plan.start <= cells[cells[d].parent].plan.start
        BY <2>2
      <3>2. cells[d].parent # 0
        BY <3>1, <1>5
      <3>3. LiContinues(d, cells[d].parent)
        BY <3>2, <1>4 DEF LiLineageOK
      <3>4. PICK p \in DOMAIN cells : p = cells[d].parent
        BY <3>1
      <3>5. p < d /\ cells[p].plan.start <= cells[d].plan.start
        BY <3>3, <3>4 DEF LiContinues
      <3>6. cells[p].plan.start \in Int /\ cells[d].plan.start \in Int /\ cells[g].plan.start \in Int
        BY <1>4 DEF LiCellsOK
      <3>7. g \in Nat /\ p \in Nat /\ d \in Nat
        BY <1>5
      <3> QED
        BY <3>1, <3>4, <3>5, <3>6, <3>7
    <2>3. S \in SUBSET DOMAIN cells /\ closed(S)
      BY <2>1, <2>2
    <2> HIDE DEF S
    <2>4. L \subseteq S
      BY <1>1, <2>3
    <2> QED
      BY <2>4 DEF S
  <1>7. \A c \in L : c = g \/ cells[c].parent \in L
    <2> DEFINE S == {c \in L : c = g \/ cells[c].parent \in L}
    <2>1. S \in SUBSET DOMAIN cells /\ S \subseteq L
      BY <1>1
    <2>2. closed(S)
      BY <1>2, <1>3
    <2> HIDE DEF S
    <2>3. L \subseteq S
      BY <1>1, <2>1, <2>2
    <2> QED
      BY <2>3 DEF S
  <1> QED
    BY <1>1, <1>2, <1>3, <1>6, <1>7 DEF L

\* The cells of the line that keep the plan of its first cell follow each
\* other: each but the last has its continuation among them, and what is
\* claimed only grows.
LiOfPlan(g) == {c \in Descendants(g) : cells[c].plan = cells[g].plan}

LEMMA LiParent ==
    ASSUME LiInv, NEW g \in DOMAIN cells, NEW c \in LiOfPlan(g), c # g
    PROVE  /\ cells[c].parent \in LiOfPlan(g) /\ cells[c].parent < c
           /\ cells[cells[c].parent].spent = cells[c].tx
           /\ cells[cells[c].parent].claimed <= cells[c].claimed /\ cells[c].claimed <= cells[c].plan.total
  <1>1. LiCellsOK /\ LiLineageOK
    BY DEF LiInv
  <1>2. c \in Descendants(g) /\ cells[c].plan = cells[g].plan /\ c \in DOMAIN cells
    BY LiLine DEF LiOfPlan
  <1>3. PICK p \in Descendants(g) : p = cells[c].parent
    BY <1>2, LiLine
  <1>4. p \in DOMAIN cells /\ cells[g].plan.start <= cells[p].plan.start
    BY LiLine
  <1>5. p # 0
    <2>1. PICK e \in Seq(ToSet(cells)) : e = cells
      BY <1>1 DEF LiCellsOK
    <2>2. DOMAIN e = 1..Len(e) /\ Len(e) \in Nat
      OBVIOUS
    <2> QED
      BY <2>1, <2>2, <1>4
  <1>6. LiContinues(c, p)
    BY <1>1, <1>2, <1>3, <1>5 DEF LiLineageOK
  <1>7. cells[p].plan.start <= cells[g].plan.start
    BY <1>2, <1>6 DEF LiContinues
  <1>8. cells[p].plan.start \in Int /\ cells[g].plan.start \in Int
    BY <1>1, <1>4 DEF LiCellsOK
  <1>9. cells[p].plan.start = cells[g].plan.start
    BY <1>4, <1>7, <1>8
  <1>10. /\ p < c /\ cells[p].spent = cells[c].tx /\ cells[p].plan = cells[c].plan
         /\ cells[p].claimed <= cells[c].claimed /\ cells[c].claimed <= cells[c].plan.total
    BY <1>2, <1>6, <1>9 DEF LiContinues
  <1> QED
    BY <1>2, <1>3, <1>10 DEF LiOfPlan

LEMMA LiChain ==
    ASSUME LiInv, NEW g \in DOMAIN cells, NEW i \in LiOfPlan(g), NEW j \in LiOfPlan(g), j < i
    PROVE  (\E k \in LiOfPlan(g) : cells[k].parent = j /\ k # g) /\ cells[j].claimed <= cells[i].claimed
  <1> DEFINE P == LiOfPlan(g)
             next(a, b) == \E k \in P : cells[k].parent = a /\ k # g /\ k <= b
             good(b) == \A a \in P : a < b => next(a, b) /\ cells[a].claimed <= cells[b].claimed
  <1>1. LiCellsOK /\ LiLineageOK
    BY DEF LiInv
  <1>2. DOMAIN cells \subseteq Nat /\ 0 \notin DOMAIN cells
    <2>1. PICK e \in Seq(ToSet(cells)) : e = cells
      BY <1>1 DEF LiCellsOK
    <2>2. DOMAIN e = 1..Len(e) /\ Len(e) \in Nat
      OBVIOUS
    <2> QED
      BY <2>1, <2>2
  <1>3. \A c \in P : c \in DOMAIN cells /\ c \in Nat /\ g <= c /\ cells[c].plan = cells[g].plan
                     /\ cells[c].claimed \in Int
    BY <1>1, <1>2, LiLine DEF LiOfPlan, LiCellsOK
  <1>4. \A c \in P : c # g =>
           /\ cells[c].parent \in P /\ cells[c].parent < c
           /\ cells[cells[c].parent].claimed <= cells[c].claimed
    BY LiParent
  <1>5. \A c, d \in P : c # g /\ d # g /\ cells[c].parent = cells[d].parent => c = d
    <2> SUFFICES ASSUME NEW c \in P, NEW d \in P, c # g, d # g, cells[c].parent = cells[d].parent
                 PROVE  c = d
      OBVIOUS
    <2>1. cells[c].parent \in P
      BY <1>4
    <2>2. PICK p \in P : p = cells[c].parent
      BY <2>1
    <2>3. p # 0 /\ cells[p].plan = cells[g].plan
      BY <2>2, <1>2, <1>3
    <2> HIDE DEF P
    <2> QED
      BY <2>2, <2>3, <1>1, <1>3 DEF LiLineageOK
  <1> HIDE DEF P
  <1>6. \A b \in P : good(b)
    <2> SUFFICES ASSUME NEW b0 \in P, ~good(b0) PROVE FALSE
      OBVIOUS
    <2> DEFINE T == {b \in P : ~good(b)}
    <2>1. T \in SUBSET Nat /\ T # {}
      BY <1>3
    <2>2. PICK b \in T : \A x \in T : b <= x
      <3> HIDE DEF T
      <3> QED
        BY <2>1, SmallestOf
    <2>3. PICK a \in P : a < b /\ ~(next(a, b) /\ cells[a].claimed <= cells[b].claimed)
      OBVIOUS
    <2>4. b \in P /\ b \in Nat /\ a \in Nat /\ g \in Nat /\ g <= a
      BY <1>2, <1>3
    <2>5. b # g /\ cells[b].parent \in P /\ cells[b].parent < b
      BY <2>3, <2>4, <1>4
    <2>6. PICK p \in P : p = cells[b].parent
      BY <2>5
    <2>7. p < b /\ p \in Nat /\ cells[p].claimed <= cells[b].claimed
      BY <2>4, <2>5, <2>6, <1>3, <1>4
    <2>8. next(p, b)
      BY <2>4, <2>5, <2>6
    <2>9. good(p)
      <3> SUFFICES ASSUME ~good(p) PROVE FALSE
        OBVIOUS
      <3>1. p \in T
        OBVIOUS
      <3>2. b <= p
        BY <2>2, <3>1
      <3> QED
        BY <2>4, <2>7, <3>2
    <2>10. CASE a = p
      BY <2>3, <2>7, <2>8, <2>10
    <2>11. CASE a < p
      <3>1. next(a, p) /\ cells[a].claimed <= cells[p].claimed
        BY <2>9, <2>11
      <3>2. next(a, b)
        <4>1. PICK k \in P : cells[k].parent = a /\ k # g /\ k <= p
          BY <3>1
        <4>2. k <= b
          BY <4>1, <2>4, <2>7, <1>3
        <4> QED
          BY <4>1, <4>2
      <3>3. cells[a].claimed <= cells[b].claimed
        BY <3>1, <2>4, <2>7, <1>3
      <3> QED
        BY <2>3, <3>2, <3>3
    <2>12. CASE p < a
      <3>1. good(a)
        BY <2>2, <2>3, <2>4
      <3>2. PICK k \in P : cells[k].parent = p /\ k # g /\ k <= a
        BY <2>12, <3>1
      <3>3. k = b
        BY <3>2, <2>4, <2>5, <2>6, <1>5
      <3> QED
        BY <2>3, <2>4, <3>2, <3>3
    <2> QED
      BY <2>4, <2>7, <2>10, <2>11, <2>12
  <1>7. next(j, i) /\ cells[j].claimed <= cells[i].claimed
    BY <1>6 DEF P
  <1> QED
    BY <1>7 DEF P

\* The walk from the genesis cell of a schedule stays on the cells of its plan.
LEMMA LiWalk ==
    ASSUME LiInv, NEW s, s.cell \in DOMAIN cells, s.plan = cells[s.cell].plan
    PROVE  States(s) \subseteq LiOfPlan(s.cell)
  <1> DEFINE g == s.cell
             P == LiOfPlan(g)
             closed(S) == g \in S /\ \A i \in S : WalksTo(i, s) \subseteq S
  <1>1. LiCellsOK /\ LiLineageOK
    BY DEF LiInv
  <1>2. g \in P /\ P \subseteq DOMAIN cells
    BY LiLine DEF LiOfPlan
  <1>3. ASSUME NEW i \in P, NEW c \in WalksTo(i, s) PROVE c \in P
    <2>1. ~LiveCells(i) /\ c \in Matches(i, s.plan)
      BY DEF WalksTo
    <2>2. c \in DOMAIN cells /\ cells[c].tx = cells[i].spent /\ cells[c].plan = cells[g].plan
      BY <2>1 DEF Matches, OutputsOf
    <2>3. i \in DOMAIN cells /\ cells[i].plan = cells[g].plan /\ i \in Descendants(g)
      BY LiLine DEF LiOfPlan
    <2>4. cells[i].spent # 0
      BY <2>1 DEF LiveCells
    <2>5. cells[c].tx # GenesisTx
      <3>1. cells[i].tx \in GenesisTx..ghost.tx /\ cells[i].spent \in (cells[i].tx + 1)..ghost.tx /\ ghost.tx \in Nat
        BY <2>3, <2>4, <1>1 DEF LiCellsOK
      <3> QED
        BY <3>1, <2>2 DEF GenesisTx
    <2>6. PICK p \in DOMAIN cells : LiPaid(c, p)
      BY <2>2, <2>5, <1>1 DEF LiLineageOK
    <2>7. p = i
      BY <2>2, <2>3, <2>4, <2>6, <1>1 DEF LiPaid, LiCellsOK
    <2>8. cells[c].plan.start \in Int /\ cells[i].plan.start = cells[c].plan.start
      BY <2>2, <2>3, <1>1 DEF LiCellsOK
    <2>9. cells[c].parent = i
      BY <2>6, <2>7, <2>8 DEF LiPaid
    <2>10. c \in Descendants(g)
      BY <2>2, <2>3, <2>9, <1>2, LiLine
    <2> QED
      BY <2>2, <2>10 DEF LiOfPlan
  <1>4. closed(P)
    BY <1>2, <1>3
  <1>5. \A c \in States(s) : \A S \in SUBSET DOMAIN cells : closed(S) => c \in S
    BY DEF States
  <1> HIDE DEF P
  <1> QED
    BY <1>2, <1>4, <1>5 DEF P

LEMMA LiSays ==
    LiInv => ListedFactsAreProven
  <1> SUFFICES ASSUME LiInv PROVE ListedFactsAreProven
    OBVIOUS
  <1>1. LiCellsOK /\ LiGenesisOK /\ LiLineageOK /\ LiSchedulesOK
    BY DEF LiInv
  <1>2. ASSUME NEW t, Visible(t)
        PROVE  /\ schedules[t].cell \in DOMAIN cells /\ schedules[t].plan = cells[schedules[t].cell].plan
               /\ cells[schedules[t].cell].lock \in Locks(t) /\ cells[schedules[t].cell].tx = GenesisTx
    <2>1. t \in DOMAIN schedules /\ schedules[t].cell \in DOMAIN cells
      BY <1>2 DEF Visible
    <2>2. schedules[t].cell \in DOMAIN GenesisCells
          /\ schedules[t].plan = GenesisCells[schedules[t].cell].plan
          /\ GenesisCells[schedules[t].cell].lock \in Locks(t)
      BY <2>1, <1>1 DEF LiSchedulesOK
    <2>3. ghost.tx >= GenesisTx
      <3>1. cells[schedules[t].cell].tx \in GenesisTx..ghost.tx /\ ghost.tx \in Nat
        BY <2>1, <1>1 DEF LiCellsOK
      <3> QED
        BY <3>1 DEF GenesisTx
    <2> QED
      BY <2>1, <2>2, <2>3, <1>1 DEF LiGenesisOK
  <1>3. ASSUME NEW t \in DOMAIN schedules, Visible(t)
        PROVE  LET s == schedules[t]
                   line == Descendants(s.cell)
               IN  /\ States(s) \subseteq line
                   /\ \A claimed \in CurrentClaimed(s) :
                        \A i \in line : LiveCells(i) /\ cells[i].plan = s.plan => cells[i].claimed = claimed
    <2>1. PICK s : s = schedules[t]
      OBVIOUS
    <2>2. PICK g \in DOMAIN cells : g = s.cell /\ s.plan = cells[g].plan
      BY <2>1, <1>2, <1>3
    <2>3. States(s) \subseteq LiOfPlan(g)
      BY <2>2, LiWalk
    <2>4. States(s) \subseteq Descendants(g)
      BY <2>3 DEF LiOfPlan
    <2>5. ASSUME NEW claimed \in CurrentClaimed(s), NEW i \in Descendants(g), LiveCells(i), cells[i].plan = s.plan
          PROVE  cells[i].claimed = claimed
      <3>1. PICK j \in States(s) : (LiveCells(j) \/ cells[j].claimed = s.plan.total) /\ claimed = cells[j].claimed
        BY DEF CurrentClaimed
      <3>2. i \in LiOfPlan(g) /\ j \in LiOfPlan(g)
        BY <2>2, <2>3, <2>5, <3>1 DEF LiOfPlan
      <3>3. i \in DOMAIN cells /\ j \in DOMAIN cells /\ DOMAIN cells \subseteq Nat
        <4>1. PICK e \in Seq(ToSet(cells)) : e = cells
          BY <1>1 DEF LiCellsOK
        <4>2. DOMAIN e = 1..Len(e) /\ Len(e) \in Nat
          OBVIOUS
        <4> QED
          BY <3>2, <4>1, <4>2, LiLine DEF LiOfPlan
      <3>4. ASSUME NEW a \in LiOfPlan(g), NEW b \in LiOfPlan(g), a < b PROVE ~LiveCells(a)
        <4>1. PICK k \in LiOfPlan(g) : cells[k].parent = a /\ k # g
          BY <3>4, LiChain
        <4>2. cells[a].spent = cells[k].tx
          BY <4>1, LiParent
        <4>3. k \in DOMAIN cells
          BY LiLine DEF LiOfPlan
        <4>4. cells[k].tx \in GenesisTx..ghost.tx /\ ghost.tx \in Nat
          BY <4>3, <1>1 DEF LiCellsOK
        <4> QED
          BY <4>2, <4>4 DEF LiveCells, GenesisTx
      <3>5. CASE i = j
        BY <3>1, <3>5
      <3>6. CASE i < j
        BY <2>5, <3>2, <3>4, <3>6
      <3>7. CASE j < i
        <4>1. cells[j].claimed = s.plan.total
          BY <3>1, <3>2, <3>4, <3>7
        <4>2. cells[j].claimed <= cells[i].claimed
          BY <3>2, <3>7, LiChain
        <4>3. i # g
          <5>1. g <= j
            BY <3>2, LiLine DEF LiOfPlan
          <5> QED
            BY <5>1, <3>3, <3>7
        <4>4. cells[i].claimed <= s.plan.total
          BY <4>3, <3>2, <2>5, LiParent
        <4>5. cells[i].claimed \in Int /\ cells[j].claimed \in Int
          BY <3>3, <1>1 DEF LiCellsOK
        <4> QED
          BY <4>1, <4>2, <4>4, <4>5, <3>1
      <3> QED
        BY <3>3, <3>5, <3>6, <3>7
    <2> QED
      BY <2>1, <2>2, <2>4, <2>5
  <1>4. ASSUME NEW list \in Lists, NEW n \in DOMAIN list, CreatorMatches(list[n])
        PROVE  \/ [type |-> "key", id |-> list[n].keys[1]] \in Owners[list[n].token]
               \/ \E c \in DOMAIN cells : cells[c].tx = GenesisTx /\ cells[c].lock \in Locks(list[n].token)
                                          /\ cells[c].plan.creator = list[n].keys[1]
    <2>1. CASE [type |-> "key", id |-> list[n].keys[1]] \in Owners[list[n].token]
      BY <2>1
    <2>2. CASE Visible(list[n].token) /\ schedules[list[n].token].plan.creator = list[n].keys[1]
      <3>1. PICK c \in DOMAIN cells : c = schedules[list[n].token].cell
        BY <2>2, <1>2
      <3>2. cells[c].tx = GenesisTx /\ cells[c].lock \in Locks(list[n].token)
            /\ schedules[list[n].token].plan = cells[c].plan
        BY <2>2, <3>1, <1>2
      <3> QED
        BY <2>2, <3>2
    <2> QED
      BY <2>1, <2>2, <1>4 DEF CreatorMatches
  <1> QED
    BY <1>3, <1>4 DEF ListedFactsAreProven
-----------------------------------------------------------------------------
(* The steps *)

LEMMA LiLaunched ==
    ASSUME cells = GenesisCells, ghost.tx = GenesisTx
    PROVE  LiCellsOK /\ LiGenesisOK /\ LiLineageOK
  <1>1. LiCellsOK
    BY FreshLocks DEF LiCellsOK, GenesisTx
  <1>2. LiGenesisOK
    BY FreshLocks DEF LiGenesisOK, GenesisTx
  <1>3. LiLineageOK
    BY FreshLocks DEF LiLineageOK, GenesisTx
  <1> QED
    BY <1>1, <1>2, <1>3

LEMMA LiRelaunched ==
    ASSUME cells' = GenesisCells, ghost'.tx = GenesisTx
    PROVE  LiCellsOK' /\ LiGenesisOK' /\ LiLineageOK'
  <1>1. LiCellsOK'
    BY FreshLocks DEF LiCellsOK, GenesisTx
  <1>2. LiGenesisOK'
    BY FreshLocks DEF LiGenesisOK, GenesisTx
  <1>3. LiLineageOK'
    BY FreshLocks DEF LiLineageOK, GenesisTx
  <1> QED
    BY <1>1, <1>2, <1>3

LEMMA LiPlaces ==
    LiCellsOK => DOMAIN cells = 1..Len(cells) /\ Len(cells) \in Nat
  <1> SUFFICES ASSUME LiCellsOK PROVE DOMAIN cells = 1..Len(cells) /\ Len(cells) \in Nat
    OBVIOUS
  <1>1. PICK e \in Seq(ToSet(cells)) : e = cells
    BY DEF LiCellsOK
  <1>2. DOMAIN e = 1..Len(e) /\ Len(e) \in Nat
    OBVIOUS
  <1> QED
    BY <1>1, <1>2

\* A claim: the cells there were keep everything but the mark of the spend;
\* the new ones are a continuation, of which there is at most one, and cells
\* of other plans.
LiSame(c) ==
    /\ cells'[c].lock = cells[c].lock /\ cells'[c].tx = cells[c].tx /\ cells'[c].plan = cells[c].plan
    /\ cells'[c].claimed = cells[c].claimed /\ cells'[c].parent = cells[c].parent
LiChild(c, i) ==
    /\ cells'[c].plan = cells[i].plan /\ cells'[c].parent = i
    /\ cells'[c].claimed \in cells[i].claimed..cells[i].plan.total
LiOther(c, i) ==
    /\ cells'[c].plan.start = cells[i].plan.start + 1 /\ cells'[c].plan.total = cells[i].plan.total
    /\ cells'[c].parent = cells[i].parent /\ cells'[c].claimed \in Int
LiClaimed(i) ==
    /\ i \in DOMAIN cells /\ cells[i].spent = 0
    /\ cells' \in Seq(ToSet(cells')) /\ ghost'.tx = ghost.tx + 1
    /\ \A c \in DOMAIN cells :
         /\ c \in DOMAIN cells' /\ LiSame(c)
         /\ cells'[c].spent = IF c = i THEN ghost.tx + 1 ELSE cells[c].spent
    /\ \A c \in DOMAIN cells' \ DOMAIN cells :
         /\ c \in Nat /\ c > Len(cells) /\ cells'[c].tx = ghost.tx + 1 /\ cells'[c].spent = 0
         /\ LiChild(c, i) \/ LiOther(c, i)
         /\ \A d \in DOMAIN cells' \ DOMAIN cells : LiChild(c, i) /\ LiChild(d, i) => c = d

LEMMA LiOneMore ==
    ASSUME NEW x \in Nat, NEW y \in Nat, NEW z \in Nat, y = 0 \/ y = 1, z > x, z <= x + y
    PROVE  y = 1 /\ z = x + 1
  OBVIOUS

LEMMA LiJoined ==
    ASSUME NEW R, NEW a \in Seq(R), NEW b \in Seq(R), NEW d \in Seq(R), Len(b) \in {0, 1}, Len(d) \in {0, 1},
           NEW e, e = a \o b \o d
    PROVE  /\ e \in Seq(R) /\ DOMAIN e = 1..(Len(a) + Len(b) + Len(d)) /\ Len(a) \in Nat
           /\ \A k \in DOMAIN a : k \in DOMAIN e /\ e[k] = a[k]
           /\ \A k \in DOMAIN e \ DOMAIN a :
                /\ k \in Nat /\ k > Len(a)
                /\ \/ Len(b) = 1 /\ k = Len(a) + 1 /\ e[k] = b[1]
                   \/ Len(d) = 1 /\ k = Len(a) + Len(b) + 1 /\ e[k] = d[1]
  <1>1. PICK ab \in Seq(R) : ab = a \o b
    <2>1. a \o b \in Seq(R)
      BY ONLY a \in Seq(R), b \in Seq(R)
    <2> QED
      BY <2>1
  <1>2. /\ Len(ab) = Len(a) + Len(b) /\ DOMAIN ab = 1..(Len(a) + Len(b)) /\ DOMAIN a = 1..Len(a) /\ Len(a) \in Nat
        /\ \A k \in 1..Len(a) : ab[k] = a[k]
        /\ \A k \in 1..Len(b) : ab[Len(a) + k] = b[k]
    BY <1>1
  <1>3. /\ e \in Seq(R) /\ DOMAIN e = 1..(Len(ab) + Len(d))
        /\ \A k \in 1..Len(ab) : e[k] = ab[k]
        /\ \A k \in 1..Len(d) : e[Len(ab) + k] = d[k]
    BY <1>1
  <1>4. \A k \in DOMAIN a : k \in DOMAIN e /\ e[k] = a[k]
    BY <1>2, <1>3
  <1>5. ASSUME NEW k \in DOMAIN e \ DOMAIN a
        PROVE  /\ k \in Nat /\ k > Len(a)
               /\ \/ Len(b) = 1 /\ k = Len(a) + 1 /\ e[k] = b[1]
                  \/ Len(d) = 1 /\ k = Len(a) + Len(b) + 1 /\ e[k] = d[1]
    <2>1. PICK la \in Nat : la = Len(a)
      BY <1>2
    <2>2. PICK lb \in Nat : lb = Len(b) /\ (lb = 0 \/ lb = 1)
      OBVIOUS
    <2>3. PICK ld \in Nat : ld = Len(d) /\ (ld = 0 \/ ld = 1)
      OBVIOUS
    <2>4. Len(ab) = la + lb /\ DOMAIN e = 1..(la + lb + ld) /\ DOMAIN a = 1..la
      BY <1>2, <1>3, <2>1, <2>2, <2>3
    <2>5. k \in Nat /\ k > la /\ k <= la + lb + ld
      BY <2>4
    <2>6. CASE k <= la + lb
      <3>1. lb = 1 /\ k = la + 1
        BY <2>1, <2>2, <2>5, <2>6, LiOneMore
      <3>2. e[k] = ab[k] /\ ab[la + 1] = b[1]
        BY <3>1, <2>1, <2>2, <2>4, <2>5, <2>6, <1>2, <1>3
      <3> QED
        BY <2>1, <2>2, <2>5, <3>1, <3>2
    <2>7. CASE k > la + lb
      <3>1. ld = 1 /\ k = la + lb + 1
        <4>1. PICK m \in Nat : m = la + lb
          BY <2>1, <2>2
        <4>2. k > m /\ k <= m + ld
          BY <2>5, <2>7, <4>1
        <4>3. ld = 1 /\ k = m + 1
          BY <2>3, <2>5, <4>1, <4>2, LiOneMore
        <4> QED
          BY <4>1, <4>3
      <3>2. e[la + lb + 1] = d[1]
        BY <3>1, <2>3, <2>4, <1>3
      <3> QED
        BY <2>1, <2>2, <2>3, <2>5, <3>1, <3>2
    <2> QED
      BY <2>5, <2>6, <2>7
  <1> QED
    BY <1>2, <1>3, <1>4, <1>5

LEMMA LiClaimShape ==
    ASSUME LiInv, Claim
    PROVE  \E i : LiClaimed(i)
  <1>0. PICK i \in DOMAIN cells :
          \E after \in {<<>>} \cup [1..1 -> cells[i].claimed..cells[i].plan.total],
             beside \in {<<>>, <<1>>}, shown \in SUBSET (1..Plan.total), sig \in {"kept", "lost"} :
          /\ LiveCells(i)
          /\ cells' = [n \in DOMAIN cells |->
                IF n = i THEN SpentCell(cells[n], ghost.tx + 1, sig, shown) ELSE cells[n]]
              \o [n \in DOMAIN beside |->
                CellFrom(cells[i], ghost.tx + 1, OtherPlan(cells[i].plan), beside[n], cells[i].parent)]
              \o [n \in DOMAIN after |-> CellFrom(cells[i], ghost.tx + 1, cells[i].plan, after[n], i)]
    BY ZenonT(120) DEF Claim
  <1>1. LiCellsOK
    BY DEF LiInv
  <1>2. PICK after \in {<<>>} \cup [1..1 -> cells[i].claimed..cells[i].plan.total],
             beside \in {<<>>, <<1>>}, shown \in SUBSET (1..Plan.total), sig \in {"kept", "lost"} :
          /\ LiveCells(i)
          /\ cells' = [n \in DOMAIN cells |->
                IF n = i THEN SpentCell(cells[n], ghost.tx + 1, sig, shown) ELSE cells[n]]
              \o [n \in DOMAIN beside |->
                CellFrom(cells[i], ghost.tx + 1, OtherPlan(cells[i].plan), beside[n], cells[i].parent)]
              \o [n \in DOMAIN after |-> CellFrom(cells[i], ghost.tx + 1, cells[i].plan, after[n], i)]
    BY <1>0
  <1>3. ghost'.tx = ghost.tx + 1
    BY DEF Claim
  <1>4. PICK nb \in {0, 1} : DOMAIN beside = 1..nb /\ (nb = 1 => beside[1] = 1)
    <2>1. CASE beside = <<>>
      BY <2>1
    <2>2. CASE beside = <<1>>
      BY <2>2
    <2> QED
      BY <2>1, <2>2
  <1>5. PICK na \in {0, 1} : DOMAIN after = 1..na /\ (na = 1 => after[1] \in cells[i].claimed..cells[i].plan.total)
    <2>1. CASE after = <<>>
      BY <2>1
    <2>2. CASE after \in [1..1 -> cells[i].claimed..cells[i].plan.total]
      BY <2>2
    <2> QED
      BY <2>1, <2>2
  <1> DEFINE sc(n) == SpentCell(cells[n], ghost.tx + 1, sig, shown)
             oc(n) == CellFrom(cells[i], ghost.tx + 1, OtherPlan(cells[i].plan), beside[n], cells[i].parent)
             cc(n) == CellFrom(cells[i], ghost.tx + 1, cells[i].plan, after[n], i)
             R == ToSet(cells) \cup {sc(n) : n \in DOMAIN cells} \cup {oc(n) : n \in 1..nb} \cup {cc(n) : n \in 1..na}
  <1>6. PICK f : f = [n \in DOMAIN cells |-> IF n = i THEN sc(n) ELSE cells[n]]
    OBVIOUS
  <1>7. PICK g : g = [n \in 1..nb |-> oc(n)]
    OBVIOUS
  <1>8. PICK h : h = [n \in 1..na |-> cc(n)]
    OBVIOUS
  <1>9. cells' = f \o g \o h
    BY <1>2, <1>4, <1>5, <1>6, <1>7, <1>8
  <1> HIDE DEF sc, oc, cc
  <1>10. DOMAIN cells = 1..Len(cells) /\ Len(cells) \in Nat
    BY <1>1, LiPlaces
  <1>11. f \in [1..Len(cells) -> R]
    <2>1. \A n \in DOMAIN cells : cells[n] \in R /\ sc(n) \in R
      BY DEF ToSet
    <2> HIDE DEF R
    <2> QED
      BY <2>1, <1>6, <1>10
  <1>12. g \in [1..nb -> R] /\ h \in [1..na -> R]
    BY <1>7, <1>8
  <1> HIDE DEF R
  <1>13. f \in Seq(R) /\ Len(f) = Len(cells) /\ DOMAIN f = DOMAIN cells
    BY <1>10, <1>11
  <1>14. g \in Seq(R) /\ Len(g) = nb /\ h \in Seq(R) /\ Len(h) = na
    BY <1>4, <1>5, <1>12
  <1>15. PICK e : e = cells'
    OBVIOUS
  <1>16. /\ e \in Seq(R) /\ DOMAIN e = 1..(Len(f) + Len(g) + Len(h))
         /\ \A k \in DOMAIN f : k \in DOMAIN e /\ e[k] = f[k]
         /\ \A k \in DOMAIN e \ DOMAIN f :
                /\ k \in Nat /\ k > Len(f)
                /\ \/ Len(g) = 1 /\ k = Len(f) + 1 /\ e[k] = g[1]
                   \/ Len(h) = 1 /\ k = Len(f) + Len(g) + 1 /\ e[k] = h[1]
    BY SMTT(20), <1>9, <1>13, <1>14, <1>15, LiJoined
  <1>17. e \in Seq(ToSet(e))
    <2>0. e \in Seq(R)
      BY <1>16
    <2>1. DOMAIN e = 1..Len(e) /\ Len(e) \in Nat /\ e = [k \in 1..Len(e) |-> e[k]]
      BY ONLY <2>0
    <2>2. \A k \in 1..Len(e) : e[k] \in ToSet(e)
      BY <2>1 DEF ToSet
    <2> QED
      BY ONLY <2>1, <2>2
  <1>18. ASSUME NEW c \in DOMAIN cells
         PROVE  /\ c \in DOMAIN cells' /\ LiSame(c)
                /\ cells'[c].spent = IF c = i THEN ghost.tx + 1 ELSE cells[c].spent
    <2>1. c \in DOMAIN cells' /\ cells'[c] = IF c = i THEN sc(c) ELSE cells[c]
      BY <1>6, <1>13, <1>15, <1>16
    <2>2. /\ sc(c).lock = cells[c].lock /\ sc(c).tx = cells[c].tx /\ sc(c).plan = cells[c].plan
          /\ sc(c).claimed = cells[c].claimed /\ sc(c).parent = cells[c].parent /\ sc(c).spent = ghost.tx + 1
      <3>1. PICK x : x = cells[c]
        OBVIOUS
      <3>2. PICK t : t = ghost.tx + 1
        OBVIOUS
      <3>3. sc(c) = SpentCell(x, t, sig, shown)
        BY <3>1, <3>2 DEF sc
      <3>4. /\ sc(c).lock = x.lock /\ sc(c).tx = x.tx /\ sc(c).plan = x.plan
            /\ sc(c).claimed = x.claimed /\ sc(c).parent = x.parent /\ sc(c).spent = t
        BY ONLY <3>3 DEF SpentCell
      <3> QED
        BY <3>1, <3>2, <3>4
    <2> QED
      BY <2>1, <2>2 DEF LiSame
  <1>19. nb = 1 => oc(1).tx = ghost.tx + 1 /\ oc(1).spent = 0 /\ oc(1).plan.start = cells[i].plan.start + 1
                   /\ oc(1).plan.total = cells[i].plan.total /\ oc(1).parent = cells[i].parent /\ oc(1).claimed = 1
    <2> SUFFICES ASSUME nb = 1
                 PROVE  oc(1).tx = ghost.tx + 1 /\ oc(1).spent = 0 /\ oc(1).plan.start = cells[i].plan.start + 1
                   /\ oc(1).plan.total = cells[i].plan.total /\ oc(1).parent = cells[i].parent /\ oc(1).claimed = 1
      OBVIOUS
    <2>1. PICK x : x = cells[i]
      OBVIOUS
    <2>2. PICK t : t = ghost.tx + 1
      OBVIOUS
    <2>3. PICK y : y = x.plan.start + 1
      OBVIOUS
    <2>4. PICK z : z = OtherPlan(x.plan)
      OBVIOUS
    <2>5. z.start = y /\ z.total = x.plan.total
      BY ONLY <2>3, <2>4 DEF OtherPlan
    <2>6. oc(1) = CellFrom(x, t, z, 1, x.parent)
      BY <2>1, <2>2, <2>4, <1>4 DEF oc
    <2>7. oc(1).tx = t /\ oc(1).spent = 0 /\ oc(1).plan = z /\ oc(1).parent = x.parent /\ oc(1).claimed = 1
      BY ONLY <2>6 DEF CellFrom
    <2> QED
      BY <2>1, <2>2, <2>3, <2>5, <2>7
  <1>20. na = 1 => cc(1).tx = ghost.tx + 1 /\ cc(1).spent = 0 /\ cc(1).plan = cells[i].plan /\ cc(1).parent = i
                   /\ cc(1).claimed \in cells[i].claimed..cells[i].plan.total
    <2> SUFFICES ASSUME na = 1
                 PROVE  cc(1).tx = ghost.tx + 1 /\ cc(1).spent = 0 /\ cc(1).plan = cells[i].plan /\ cc(1).parent = i
                   /\ cc(1).claimed \in cells[i].claimed..cells[i].plan.total
      OBVIOUS
    <2>1. PICK x : x = cells[i]
      OBVIOUS
    <2>2. PICK t : t = ghost.tx + 1
      OBVIOUS
    <2>3. PICK v \in cells[i].claimed..cells[i].plan.total : v = after[1]
      BY <1>5
    <2>4. cc(1) = CellFrom(x, t, x.plan, v, i)
      BY <2>1, <2>2, <2>3 DEF cc
    <2>5. cc(1).tx = t /\ cc(1).spent = 0 /\ cc(1).plan = x.plan /\ cc(1).parent = i /\ cc(1).claimed = v
      BY ONLY <2>4 DEF CellFrom
    <2> QED
      BY <2>1, <2>2, <2>3, <2>5
  <1>21. ASSUME NEW c \in DOMAIN cells' \ DOMAIN cells
         PROVE  /\ c \in Nat /\ c > Len(cells)
                /\ \/ nb = 1 /\ c = Len(cells) + 1 /\ cells'[c] = oc(1)
                   \/ na = 1 /\ c = Len(cells) + nb + 1 /\ cells'[c] = cc(1)
    <2>1. c \in DOMAIN e \ DOMAIN f
      BY <1>13, <1>15
    <2>2. /\ c \in Nat /\ c > Len(f)
          /\ \/ Len(g) = 1 /\ c = Len(f) + 1 /\ e[c] = g[1]
             \/ Len(h) = 1 /\ c = Len(f) + Len(g) + 1 /\ e[c] = h[1]
      BY <2>1, <1>16
    <2>3. (nb = 1 => g[1] = oc(1)) /\ (na = 1 => h[1] = cc(1))
      BY <1>7, <1>8
    <2> QED
      BY <2>2, <2>3, <1>13, <1>14, <1>15
  <1>22. cells[i].plan.start \in Int
    BY <1>1 DEF LiCellsOK
  <1>23. ASSUME nb = 1, NEW c, cells'[c] = oc(1) PROVE LiOther(c, i) /\ ~LiChild(c, i)
    <2>1. cells'[c].plan.start = cells[i].plan.start + 1
      BY <1>19, <1>23
    <2>2. ~LiChild(c, i)
      <3>1. cells'[c].plan # cells[i].plan
        BY <2>1, <1>22
      <3> QED
        BY <3>1 DEF LiChild
    <2> QED
      BY <2>1, <2>2, <1>19, <1>23 DEF LiOther
  <1>24. ASSUME na = 1, NEW c, cells'[c] = cc(1) PROVE LiChild(c, i)
    BY <1>20, <1>24 DEF LiChild
  <1>25. ASSUME NEW c \in DOMAIN cells' \ DOMAIN cells
         PROVE  /\ c \in Nat /\ c > Len(cells) /\ cells'[c].tx = ghost.tx + 1 /\ cells'[c].spent = 0
                /\ LiChild(c, i) \/ LiOther(c, i)
                /\ LiChild(c, i) => c = Len(cells) + nb + 1
    BY <1>19, <1>20, <1>21, <1>23, <1>24
  <1>27. LiveCells(i) => cells[i].spent = 0
    BY DEF LiveCells
  <1> QED
    BY <1>2, <1>3, <1>15, <1>17, <1>18, <1>25, <1>27 DEF LiClaimed

LEMMA LiClaimKeeps ==
    ASSUME LiInv, NEW i, LiClaimed(i)
    PROVE  LiCellsOK' /\ LiGenesisOK' /\ LiLineageOK'
  <1>1. LiCellsOK /\ LiGenesisOK /\ LiLineageOK
    BY DEF LiInv
  <1>2. DOMAIN cells = 1..Len(cells) /\ Len(cells) \in Nat /\ DOMAIN cells \subseteq Nat
    BY <1>1, LiPlaces
  <1>3. PICK n \in Nat : n = ghost.tx
    BY <1>1 DEF LiCellsOK
  <1>4. /\ i \in DOMAIN cells /\ cells[i].spent = 0
        /\ cells' \in Seq(ToSet(cells')) /\ ghost'.tx = n + 1
    BY <1>3 DEF LiClaimed
  <1>5. \A c \in DOMAIN cells :
          /\ c \in DOMAIN cells' /\ cells'[c].lock = cells[c].lock /\ cells'[c].tx = cells[c].tx
          /\ cells'[c].plan = cells[c].plan /\ cells'[c].claimed = cells[c].claimed
          /\ cells'[c].parent = cells[c].parent
          /\ cells'[c].spent = IF c = i THEN n + 1 ELSE cells[c].spent
    BY <1>3 DEF LiClaimed, LiSame
  <1>6. \A c \in DOMAIN cells' \ DOMAIN cells :
          /\ c \in Nat /\ c > Len(cells) /\ cells'[c].tx = n + 1 /\ cells'[c].spent = 0
          /\ LiChild(c, i) \/ LiOther(c, i)
    BY <1>3 DEF LiClaimed
  <1>7. \A c, d \in DOMAIN cells' \ DOMAIN cells : LiChild(c, i) /\ LiChild(d, i) => c = d
    BY DEF LiClaimed
  <1>8. \A c \in DOMAIN cells :
          /\ c \in Nat /\ c <= Len(cells) /\ cells[c].tx \in Int /\ 1 <= cells[c].tx /\ cells[c].tx <= n
          /\ cells[c].spent = 0 \/ (cells[c].spent \in Int /\ cells[c].tx < cells[c].spent /\ cells[c].spent <= n)
          /\ cells[c].claimed \in Int /\ cells[c].plan.start \in Int /\ cells[c].plan.total \in Int
    <2> SUFFICES ASSUME NEW c \in DOMAIN cells
                 PROVE
          /\ c \in Nat /\ c <= Len(cells) /\ cells[c].tx \in Int /\ 1 <= cells[c].tx /\ cells[c].tx <= n
          /\ cells[c].spent = 0 \/ (cells[c].spent \in Int /\ cells[c].tx < cells[c].spent /\ cells[c].spent <= n)
          /\ cells[c].claimed \in Int /\ cells[c].plan.start \in Int /\ cells[c].plan.total \in Int
      OBVIOUS
    <2>1. /\ cells[c].tx \in 1..n
          /\ cells[c].spent = 0 \/ cells[c].spent \in (cells[c].tx + 1)..n
          /\ cells[c].claimed \in Int /\ cells[c].plan.start \in Int /\ cells[c].plan.total \in Int
      BY <1>1, <1>3 DEF LiCellsOK, GenesisTx
    <2> QED
      BY <2>1, <1>2, <1>3
  <1>9. ASSUME NEW c \in DOMAIN cells' \ DOMAIN cells
        PROVE  cells'[c].claimed \in Int /\ cells'[c].plan.start \in Int /\ cells'[c].plan.total \in Int
    <2>1. CASE LiChild(c, i)
      BY <2>1, <1>4, <1>8 DEF LiChild
    <2>2. CASE LiOther(c, i)
      BY <2>2, <1>4, <1>8 DEF LiOther
    <2> QED
      BY <2>1, <2>2, <1>6
  <1>10. LiCellsOK'
    <2>1. ASSUME NEW c \in DOMAIN cells'
          PROVE  /\ cells'[c].tx \in 1..(n + 1)
                 /\ cells'[c].spent = 0 \/ cells'[c].spent \in (cells'[c].tx + 1)..(n + 1)
                 /\ cells'[c].claimed \in Int /\ cells'[c].plan.start \in Int /\ cells'[c].plan.total \in Int
      <3>1. CASE c \in DOMAIN cells
        <4>1. cells'[c].tx = cells[c].tx /\ cells[c].tx \in Int /\ 1 <= cells[c].tx /\ cells[c].tx <= n
              /\ cells'[c].claimed = cells[c].claimed /\ cells'[c].plan = cells[c].plan
              /\ cells'[c].spent = IF c = i THEN n + 1 ELSE cells[c].spent
          BY <3>1, <1>5, <1>8
        <4>2. CASE c = i
          BY <3>1, <4>1, <4>2, <1>3, <1>8
        <4>3. CASE c # i
          BY <3>1, <4>1, <4>3, <1>3, <1>8
        <4> QED
          BY <4>2, <4>3
      <3>2. CASE c \notin DOMAIN cells
        BY <3>2, <1>3, <1>6, <1>9
      <3> QED
        BY <3>1, <3>2
    <2>2. ASSUME NEW c \in DOMAIN cells', NEW d \in DOMAIN cells', c < d
          PROVE  cells'[c].tx <= cells'[d].tx
      <3>1. CASE c \in DOMAIN cells /\ d \in DOMAIN cells
        BY <2>2, <3>1, <1>1, <1>5 DEF LiCellsOK
      <3>2. CASE c \in DOMAIN cells /\ d \notin DOMAIN cells
        BY <3>2, <1>3, <1>5, <1>6, <1>8
      <3>3. CASE c \notin DOMAIN cells /\ d \in DOMAIN cells
        BY <2>2, <3>3, <1>2, <1>6, <1>8
      <3>4. CASE c \notin DOMAIN cells /\ d \notin DOMAIN cells
        BY <3>4, <1>3, <1>6
      <3> QED
        BY <3>1, <3>2, <3>3, <3>4
    <2>3. ASSUME NEW c \in DOMAIN cells', NEW d \in DOMAIN cells', cells'[c].spent = cells'[d].spent,
                 cells'[c].spent # 0
          PROVE  c = d
      <3>1. c \in DOMAIN cells /\ d \in DOMAIN cells
        BY <2>3, <1>6
      <3>2. CASE c = i
        BY <2>3, <3>1, <3>2, <1>3, <1>5, <1>8
      <3>3. CASE d = i
        BY <2>3, <3>1, <3>3, <1>3, <1>5, <1>8
      <3>4. CASE c # i /\ d # i
        BY <2>3, <3>1, <3>4, <1>1, <1>5 DEF LiCellsOK
      <3> QED
        BY <3>2, <3>3, <3>4
    <2>4. ghost'.tx \in Nat
      BY <1>3, <1>4
    <2> QED
      BY <2>1, <2>2, <2>3, <2>4, <1>4 DEF LiCellsOK, GenesisTx
  <1>11. n >= 1
    BY <1>3, <1>4, <1>8
  <1>12. LiGenesisOK'
    <2>1. ASSUME NEW k \in DOMAIN GenesisCells
          PROVE  /\ k \in DOMAIN cells'
                 /\ cells'[k].lock = GenesisCells[k].lock /\ cells'[k].plan = GenesisCells[k].plan
                 /\ cells'[k].tx = GenesisTx
      <3>1. k \in DOMAIN cells /\ cells[k].lock = GenesisCells[k].lock /\ cells[k].plan = GenesisCells[k].plan
            /\ cells[k].tx = GenesisTx
        BY <1>1, <1>3, <1>11 DEF LiGenesisOK, GenesisTx
      <3> QED
        BY <3>1, <1>5
    <2>2. ASSUME NEW c \in DOMAIN cells', cells'[c].tx = GenesisTx
          PROVE  c \in DOMAIN GenesisCells /\ cells'[c].parent = 0
      <3>1. c \in DOMAIN cells
        BY <2>2, <1>3, <1>6, <1>11 DEF GenesisTx
      <3> QED
        BY <2>2, <3>1, <1>1, <1>5 DEF LiGenesisOK
    <2> QED
      BY <2>1, <2>2 DEF LiGenesisOK
  <1>13. ASSUME NEW c \in DOMAIN cells', cells'[c].tx # GenesisTx
         PROVE  \E p \in DOMAIN cells' : LiPaid(c, p)'
    <2>1. CASE c \in DOMAIN cells
      <3>1. PICK p \in DOMAIN cells : LiPaid(c, p)
        BY <2>1, <1>1, <1>5, <1>13 DEF LiLineageOK
      <3>2. p # i
        <4>1. cells[p].spent = cells[c].tx
          BY <3>1 DEF LiPaid
        <4> QED
          BY <2>1, <4>1, <1>4, <1>8
      <3>3. LiPaid(c, p)'
        BY <2>1, <3>1, <3>2, <1>5 DEF LiPaid
      <3> QED
        BY <3>1, <3>3, <1>5
    <2>2. CASE c \notin DOMAIN cells
      <3>1. i \in DOMAIN cells' /\ i < c /\ cells'[i].spent = n + 1 /\ cells'[c].tx = n + 1
            /\ cells'[i].plan = cells[i].plan /\ cells'[i].parent = cells[i].parent
        BY <2>2, <1>2, <1>4, <1>5, <1>6, <1>8
      <3>2. LiChild(c, i) \/ LiOther(c, i)
        BY <2>2, <1>6
      <3>3. LiPaid(c, i)'
        BY <3>1, <3>2 DEF LiPaid, LiChild, LiOther
      <3> QED
        BY <3>1, <3>3
    <2> QED
      BY <2>1, <2>2
  <1>14. ASSUME NEW c \in DOMAIN cells', cells'[c].parent # 0
         PROVE  \E p \in DOMAIN cells : p = cells'[c].parent /\ LiContinues(c, p)'
    <2>1. CASE c \in DOMAIN cells
      <3>1. PICK p : p = cells[c].parent
        OBVIOUS
      <3>2. p # 0 /\ LiContinues(c, p) /\ cells'[c].parent = p
        BY <2>1, <3>1, <1>1, <1>5, <1>14 DEF LiLineageOK
      <3>3. p \in DOMAIN cells /\ p < c /\ cells[p].plan.start <= cells[c].plan.start
            /\ (cells[p].plan.start = cells[c].plan.start =>
                  /\ cells[p].spent = cells[c].tx /\ cells[p].plan = cells[c].plan
                  /\ cells[p].claimed <= cells[c].claimed /\ cells[c].claimed <= cells[c].plan.total)
        BY <3>2 DEF LiContinues
      <3>4. cells[p].spent = cells[c].tx => p # i
        BY <2>1, <1>4, <1>8
      <3>5. LiContinues(c, p)'
        <4>1. p \in DOMAIN cells' /\ p < c /\ cells'[p].plan.start <= cells'[c].plan.start
          BY <2>1, <3>3, <1>5
        <4>2. cells'[p].plan.start = cells'[c].plan.start =>
                  /\ cells'[p].spent = cells'[c].tx /\ cells'[p].plan = cells'[c].plan
                  /\ cells'[p].claimed <= cells'[c].claimed /\ cells'[c].claimed <= cells'[c].plan.total
          BY <2>1, <3>3, <3>4, <1>5
        <4> QED
          BY <4>1, <4>2 DEF LiContinues
      <3> QED
        BY <3>2, <3>3, <3>5
    <2>2. CASE c \notin DOMAIN cells /\ LiChild(c, i)
      <3>1. cells'[c].parent = i /\ cells'[c].plan = cells[i].plan
            /\ cells'[c].claimed \in cells[i].claimed..cells[i].plan.total
        BY <2>2 DEF LiChild
      <3>2. i \in DOMAIN cells' /\ i < c /\ cells'[i].spent = n + 1 /\ cells'[c].tx = n + 1
            /\ cells'[i].plan = cells[i].plan /\ cells'[i].claimed = cells[i].claimed
        BY <2>2, <1>2, <1>4, <1>5, <1>6, <1>8
      <3>3. cells[i].claimed <= cells'[c].claimed /\ cells'[c].claimed <= cells[i].plan.total
            /\ cells[i].plan.start <= cells[i].plan.start
        BY <3>1, <1>4, <1>8
      <3>4. LiContinues(c, i)'
        BY <3>1, <3>2, <3>3 DEF LiContinues
      <3> QED
        BY <3>1, <3>4, <1>4
    <2>3. CASE c \notin DOMAIN cells /\ LiOther(c, i)
      <3>1. PICK p : p = cells[i].parent
        OBVIOUS
      <3>2. cells'[c].parent = p /\ p # 0 /\ cells'[c].plan.start = cells[i].plan.start + 1
        BY <2>3, <3>1, <1>14 DEF LiOther
      <3>3. LiContinues(i, p)
        BY <3>1, <3>2, <1>1, <1>4 DEF LiLineageOK
      <3>4. p \in DOMAIN cells /\ p < i /\ cells[p].plan.start <= cells[i].plan.start
        BY <3>3 DEF LiContinues
      <3>5. p \in DOMAIN cells' /\ cells'[p].plan.start = cells[p].plan.start /\ p < c
        BY <2>3, <3>4, <1>2, <1>4, <1>5, <1>6, <1>8
      <3>6. cells[p].plan.start \in Int /\ cells[i].plan.start \in Int
        BY <3>4, <1>4, <1>8
      <3>7. cells'[p].plan.start <= cells'[c].plan.start /\ cells'[p].plan.start # cells'[c].plan.start
        BY <3>2, <3>4, <3>5, <3>6
      <3>8. LiContinues(c, p)'
        BY <3>5, <3>7 DEF LiContinues
      <3> QED
        BY <3>2, <3>4, <3>8
    <2> QED
      BY <2>1, <2>2, <2>3, <1>6
  <1>15. ASSUME NEW c \in DOMAIN cells' \ DOMAIN cells, cells'[c].parent # 0,
                cells'[c].plan = cells'[cells'[c].parent].plan
         PROVE  LiChild(c, i)
    <2> SUFFICES ASSUME ~LiChild(c, i) PROVE FALSE
      OBVIOUS
    <2>1. LiOther(c, i)
      BY <1>6
    <2>2. PICK p : p = cells[i].parent
      OBVIOUS
    <2>3. cells'[c].parent = p /\ p # 0 /\ cells'[c].plan.start = cells[i].plan.start + 1
      BY <2>1, <2>2, <1>15 DEF LiOther
    <2>4. LiContinues(i, p)
      BY <2>2, <2>3, <1>1, <1>4 DEF LiLineageOK
    <2>5. p \in DOMAIN cells /\ cells[p].plan.start <= cells[i].plan.start
      BY <2>4 DEF LiContinues
    <2>6. cells[p].plan.start \in Int /\ cells[i].plan.start \in Int
      BY <2>5, <1>4, <1>8
    <2>7. cells'[p].plan.start = cells[p].plan.start
      BY <2>5, <1>5
    <2>8. cells'[c].plan.start = cells'[p].plan.start
      BY <2>3, <1>15
    <2> QED
      BY <2>3, <2>5, <2>6, <2>7, <2>8
  <1>16. ASSUME NEW c \in DOMAIN cells', NEW d \in DOMAIN cells',
                cells'[c].parent # 0, cells'[c].parent = cells'[d].parent,
                cells'[c].plan = cells'[cells'[c].parent].plan, cells'[d].plan = cells'[cells'[c].parent].plan
         PROVE  c = d
    <2>1. PICK p \in DOMAIN cells : p = cells'[c].parent
      BY <1>14, <1>16
    <2>2. p # 0 /\ p = cells'[d].parent /\ cells'[c].plan = cells[p].plan /\ cells'[d].plan = cells[p].plan
      BY <2>1, <1>5, <1>16
    <2>3. CASE c \in DOMAIN cells /\ d \in DOMAIN cells
      <3>1. cells[c].parent = p /\ cells[d].parent = p /\ cells[c].plan = cells[p].plan /\ cells[d].plan = cells[p].plan
        BY <2>1, <2>2, <2>3, <1>5
      <3> QED
        BY <2>2, <2>3, <3>1, <1>1 DEF LiLineageOK
    <2>4. ASSUME NEW a \in DOMAIN cells, cells[a].parent = i, cells[a].plan = cells[i].plan PROVE FALSE
      <3>1. i # 0
        BY <1>2, <1>4
      <3>2. LiContinues(a, i)
        BY <2>4, <3>1, <1>1 DEF LiLineageOK
      <3>3. cells[i].spent = cells[a].tx
        BY <2>4, <3>2 DEF LiContinues
      <3>4. 1 <= cells[a].tx /\ cells[a].tx \in Int
        BY <1>8
      <3> QED
        BY <3>3, <3>4, <1>4
    <2>5. CASE c \notin DOMAIN cells /\ d \notin DOMAIN cells
      BY <2>5, <1>7, <1>15, <1>16
    <2>6. CASE c \notin DOMAIN cells /\ d \in DOMAIN cells
      <3>1. LiChild(c, i)
        BY <2>6, <1>15, <1>16
      <3>2. p = i
        BY <2>1, <3>1 DEF LiChild
      <3> QED
        BY <2>2, <2>4, <2>6, <3>2, <1>5
    <2>7. CASE c \in DOMAIN cells /\ d \notin DOMAIN cells
      <3>1. LiChild(d, i)
        BY <2>7, <1>15, <1>16
      <3>2. p = i
        BY <2>2, <3>1 DEF LiChild
      <3> QED
        BY <2>1, <2>2, <2>4, <2>7, <3>2, <1>5
    <2> QED
      BY <2>3, <2>5, <2>6, <2>7
  <1>17. LiLineageOK'
    <2>1. ASSUME NEW c \in DOMAIN cells', cells'[c].parent # 0
          PROVE  LiContinues(c, cells[c].parent)'
      <3>1. PICK p \in DOMAIN cells : p = cells'[c].parent /\ LiContinues(c, p)'
        BY <2>1, <1>14
      <3> QED
        BY <3>1 DEF LiContinues
    <2> QED
      BY <2>1, <1>13, <1>16 DEF LiLineageOK
  <1> QED
    BY <1>10, <1>12, <1>17

\* A reorg: the cells of the last transaction are the last ones; those that
\* stay keep everything but the spends it made.
LiUndone ==
    /\ cells' \in Seq(ToSet(cells')) /\ ghost'.tx = ghost.tx - 1 /\ ghost.tx >= GenesisTx
    /\ \A c : c \in DOMAIN cells' <=> c \in DOMAIN cells /\ cells[c].tx < ghost.tx
    /\ \A c \in DOMAIN cells' :
         LiSame(c) /\ cells'[c].spent = IF cells[c].spent = ghost.tx THEN 0 ELSE cells[c].spent

LEMMA LiReorgShape ==
    ASSUME LiInv, Reorg
    PROVE  LiUndone
  <1> DEFINE B == {m \in DOMAIN cells : cells[m].tx < ghost.tx}
             sc(n) == SpentCell(cells[n], 0, "lost", {})
             R == ToSet(cells) \cup {sc(n) : n \in DOMAIN cells}
  <1>1. LiCellsOK
    BY DEF LiInv
  <1>2. DOMAIN cells = 1..Len(cells) /\ Len(cells) \in Nat
    BY <1>1, LiPlaces
  <1>3. /\ cells' = [n \in B |-> IF cells[n].spent = ghost.tx THEN sc(n) ELSE cells[n]]
        /\ ghost'.tx = ghost.tx - 1 /\ ghost.tx >= GenesisTx
    BY DEF Reorg
  <1>4. PICK k \in Nat : B = 1..k
    <2> DEFINE T == {m \in Nat : m # 0 /\ m \notin B}
    <2>1. Len(cells) + 1 \in T
      BY <1>2
    <2>2. PICK m \in T : \A x \in T : m <= x
      <3> HIDE DEF T
      <3>1. T \subseteq Nat
        BY DEF T
      <3> QED
        BY <2>1, <3>1, SmallestOf
    <2>3. PICK k \in Nat : k = m - 1
      BY <2>2
    <2>4. \A x \in 1..k : x \in B
      <3> SUFFICES ASSUME NEW x \in 1..k, x \notin B PROVE FALSE
        OBVIOUS
      <3>1. x \in T
        OBVIOUS
      <3>2. m <= x
        BY <2>2, <3>1
      <3> QED
        BY <2>3, <3>2
    <2>5. ASSUME NEW x \in B PROVE x \in 1..k
      <3>1. x \in 1..Len(cells) /\ cells[x].tx < ghost.tx
        BY <1>2
      <3> SUFFICES ASSUME x > k PROVE FALSE
        BY <2>3, <3>1
      <3>2. m \in DOMAIN cells /\ m \notin B /\ m <= x /\ x # m
        BY <1>2, <2>2, <2>3, <2>5, <3>1
      <3>3. m < x
        BY <2>2, <3>1, <3>2
      <3>4. cells[m].tx <= cells[x].tx
        BY <3>1, <3>2, <3>3, <1>1, <1>2 DEF LiCellsOK
      <3>5. cells[m].tx \in Int /\ cells[x].tx \in Int /\ ghost.tx \in Int
        BY <3>1, <3>2, <1>1, <1>2 DEF LiCellsOK, GenesisTx
      <3>6. cells[m].tx < ghost.tx
        BY <3>1, <3>4, <3>5
      <3> QED
        BY <3>2, <3>6
    <2> QED
      BY <2>4, <2>5
  <1>5. cells' \in [B -> R]
    <2>1. \A n \in DOMAIN cells : cells[n] \in R /\ sc(n) \in R
      BY DEF ToSet
    <2> HIDE DEF R, sc
    <2> QED
      BY <2>1, <1>3
  <1> HIDE DEF R
  <1>6. PICK e \in [1..k -> R] : e = cells'
    BY <1>4, <1>5
  <1>7. e \in Seq(ToSet(e))
    <2>1. \A j \in 1..k : e[j] \in ToSet(e)
      BY DEF ToSet
    <2>2. e \in [1..k -> ToSet(e)]
      BY <2>1
    <2> QED
      BY <2>2
  <1>8. \A c : c \in DOMAIN cells' <=> c \in DOMAIN cells /\ cells[c].tx < ghost.tx
    BY <1>3
  <1>9. ASSUME NEW c \in DOMAIN cells'
        PROVE  LiSame(c) /\ cells'[c].spent = IF cells[c].spent = ghost.tx THEN 0 ELSE cells[c].spent
    <2>1. cells'[c] = IF cells[c].spent = ghost.tx THEN sc(c) ELSE cells[c]
      BY <1>3
    <2>2. /\ sc(c).lock = cells[c].lock /\ sc(c).tx = cells[c].tx /\ sc(c).plan = cells[c].plan
          /\ sc(c).claimed = cells[c].claimed /\ sc(c).parent = cells[c].parent /\ sc(c).spent = 0
      <3>1. PICK x : x = cells[c]
        OBVIOUS
      <3>2. sc(c) = SpentCell(x, 0, "lost", {})
        BY <3>1
      <3>3. /\ sc(c).lock = x.lock /\ sc(c).tx = x.tx /\ sc(c).plan = x.plan
            /\ sc(c).claimed = x.claimed /\ sc(c).parent = x.parent /\ sc(c).spent = 0
        BY ONLY <3>2 DEF SpentCell
      <3> QED
        BY <3>1, <3>3
    <2> HIDE DEF sc
    <2> QED
      BY <2>1, <2>2 DEF LiSame
  <1> QED
    BY <1>3, <1>6, <1>7, <1>8, <1>9 DEF LiUndone

LEMMA LiReorgKeeps ==
    ASSUME LiInv, LiUndone
    PROVE  LiCellsOK' /\ LiGenesisOK' /\ LiLineageOK'
  <1>1. LiCellsOK /\ LiGenesisOK /\ LiLineageOK
    BY DEF LiInv
  <1>2. PICK n \in Nat : n = ghost.tx /\ n >= 1
    BY <1>1 DEF LiCellsOK, LiUndone, GenesisTx
  <1>3. cells' \in Seq(ToSet(cells')) /\ ghost'.tx = n - 1 /\ n - 1 \in Nat
    BY <1>2 DEF LiUndone
  <1>4. \A c \in DOMAIN cells' :
          /\ c \in DOMAIN cells /\ cells[c].tx < n /\ cells'[c].lock = cells[c].lock /\ cells'[c].tx = cells[c].tx
          /\ cells'[c].plan = cells[c].plan /\ cells'[c].claimed = cells[c].claimed
          /\ cells'[c].parent = cells[c].parent
          /\ cells'[c].spent = IF cells[c].spent = n THEN 0 ELSE cells[c].spent
    BY <1>2 DEF LiUndone, LiSame
  <1>5. \A c \in DOMAIN cells : cells[c].tx < n => c \in DOMAIN cells'
    BY <1>2 DEF LiUndone
  <1>6. \A c \in DOMAIN cells :
          /\ cells[c].tx \in Int /\ 1 <= cells[c].tx /\ cells[c].tx <= n
          /\ cells[c].spent = 0 \/ (cells[c].spent \in Int /\ cells[c].tx < cells[c].spent /\ cells[c].spent <= n)
          /\ cells[c].claimed \in Int /\ cells[c].plan.start \in Int /\ cells[c].plan.total \in Int
    <2> SUFFICES ASSUME NEW c \in DOMAIN cells
                 PROVE
          /\ cells[c].tx \in Int /\ 1 <= cells[c].tx /\ cells[c].tx <= n
          /\ cells[c].spent = 0 \/ (cells[c].spent \in Int /\ cells[c].tx < cells[c].spent /\ cells[c].spent <= n)
          /\ cells[c].claimed \in Int /\ cells[c].plan.start \in Int /\ cells[c].plan.total \in Int
      OBVIOUS
    <2>1. /\ cells[c].tx \in 1..n
          /\ cells[c].spent = 0 \/ cells[c].spent \in (cells[c].tx + 1)..n
          /\ cells[c].claimed \in Int /\ cells[c].plan.start \in Int /\ cells[c].plan.total \in Int
      BY <1>1, <1>2 DEF LiCellsOK, GenesisTx
    <2> QED
      BY <2>1, <1>2
  <1>7. LiCellsOK'
    <2>1. ASSUME NEW c \in DOMAIN cells'
          PROVE  /\ cells'[c].tx \in 1..(n - 1)
                 /\ cells'[c].spent = 0 \/ cells'[c].spent \in (cells'[c].tx + 1)..(n - 1)
                 /\ cells'[c].claimed \in Int /\ cells'[c].plan.start \in Int /\ cells'[c].plan.total \in Int
      <3>1. c \in DOMAIN cells /\ cells[c].tx < n /\ cells'[c].tx = cells[c].tx
            /\ cells'[c].plan = cells[c].plan /\ cells'[c].claimed = cells[c].claimed
            /\ cells'[c].spent = IF cells[c].spent = n THEN 0 ELSE cells[c].spent
        BY <1>4
      <3>2. CASE cells[c].spent = n
        BY <3>1, <3>2, <1>2, <1>6
      <3>3. CASE cells[c].spent # n
        BY <3>1, <3>3, <1>2, <1>6
      <3> QED
        BY <3>2, <3>3
    <2>2. ASSUME NEW c \in DOMAIN cells', NEW d \in DOMAIN cells', c < d
          PROVE  cells'[c].tx <= cells'[d].tx
      BY <2>2, <1>1, <1>4 DEF LiCellsOK
    <2>3. ASSUME NEW c \in DOMAIN cells', NEW d \in DOMAIN cells', cells'[c].spent = cells'[d].spent,
                 cells'[c].spent # 0
          PROVE  c = d
      BY <2>3, <1>1, <1>4 DEF LiCellsOK
    <2> QED
      BY <2>1, <2>2, <2>3, <1>3 DEF LiCellsOK, GenesisTx
  <1>8. LiGenesisOK'
    <2>1. ASSUME NEW k \in DOMAIN GenesisCells, ghost'.tx >= GenesisTx
          PROVE  /\ k \in DOMAIN cells'
                 /\ cells'[k].lock = GenesisCells[k].lock /\ cells'[k].plan = GenesisCells[k].plan
                 /\ cells'[k].tx = GenesisTx
      <3>1. k \in DOMAIN cells /\ cells[k].lock = GenesisCells[k].lock /\ cells[k].plan = GenesisCells[k].plan
            /\ cells[k].tx = GenesisTx
        BY <1>1, <1>2 DEF LiGenesisOK, GenesisTx
      <3>2. cells[k].tx < n
        BY <2>1, <3>1, <1>2, <1>3 DEF GenesisTx
      <3>3. k \in DOMAIN cells'
        BY <3>1, <3>2, <1>5
      <3> QED
        BY <3>1, <3>3, <1>4
    <2>2. ASSUME NEW c \in DOMAIN cells', cells'[c].tx = GenesisTx
          PROVE  c \in DOMAIN GenesisCells /\ cells'[c].parent = 0
      BY <2>2, <1>1, <1>4 DEF LiGenesisOK
    <2> QED
      BY <2>1, <2>2 DEF LiGenesisOK
  <1>9. ASSUME NEW c \in DOMAIN cells', NEW p \in DOMAIN cells, p < c PROVE p \in DOMAIN cells'
    <2>1. c \in DOMAIN cells /\ cells[c].tx < n
      BY <1>4
    <2>2. cells[p].tx <= cells[c].tx
      BY <2>1, <1>1, <1>9 DEF LiCellsOK
    <2>3. cells[p].tx < n
      BY <2>1, <2>2, <1>2, <1>6
    <2> QED
      BY <2>3, <1>5
  <1>10. ASSUME NEW c \in DOMAIN cells', cells'[c].tx # GenesisTx
         PROVE  \E p \in DOMAIN cells' : LiPaid(c, p)'
    <2>1. c \in DOMAIN cells /\ cells[c].tx < n /\ cells'[c].tx = cells[c].tx /\ cells'[c].plan = cells[c].plan
          /\ cells'[c].parent = cells[c].parent
      BY <1>4
    <2>2. PICK p \in DOMAIN cells : LiPaid(c, p)
      BY <2>1, <1>1, <1>10 DEF LiLineageOK
    <2>3. p < c /\ cells[p].spent = cells[c].tx
          /\ \/ cells[c].parent = p /\ cells[c].plan = cells[p].plan
             \/ cells[c].parent = cells[p].parent /\ cells[c].plan.start = cells[p].plan.start + 1
      BY <2>2 DEF LiPaid
    <2>4. p \in DOMAIN cells'
      BY <2>3, <1>9
    <2>5. cells'[p].spent = cells[p].spent /\ cells'[p].plan = cells[p].plan /\ cells'[p].parent = cells[p].parent
      BY <2>1, <2>3, <2>4, <1>2, <1>4, <1>6
    <2>6. LiPaid(c, p)'
      BY <2>1, <2>3, <2>4, <2>5 DEF LiPaid
    <2> QED
      BY <2>4, <2>6
  <1>11. ASSUME NEW c \in DOMAIN cells', cells'[c].parent # 0
         PROVE  LiContinues(c, cells[c].parent)'
    <2>1. c \in DOMAIN cells /\ cells[c].tx < n /\ cells'[c].tx = cells[c].tx /\ cells'[c].plan = cells[c].plan
          /\ cells'[c].parent = cells[c].parent /\ cells'[c].claimed = cells[c].claimed
      BY <1>4
    <2>2. PICK p : p = cells[c].parent
      OBVIOUS
    <2>3. LiContinues(c, p)
      BY <2>1, <2>2, <1>1, <1>11 DEF LiLineageOK
    <2>4. p \in DOMAIN cells /\ p < c /\ cells[p].plan.start <= cells[c].plan.start
          /\ (cells[p].plan.start = cells[c].plan.start =>
                /\ cells[p].spent = cells[c].tx /\ cells[p].plan = cells[c].plan
                /\ cells[p].claimed <= cells[c].claimed /\ cells[c].claimed <= cells[c].plan.total)
      BY <2>3 DEF LiContinues
    <2>5. p \in DOMAIN cells'
      BY <2>4, <1>9
    <2>6. /\ cells'[p].plan = cells[p].plan /\ cells'[p].claimed = cells[p].claimed
          /\ cells[p].spent = cells[c].tx => cells'[p].spent = cells[p].spent
      BY <2>1, <2>5, <1>2, <1>4, <1>6
    <2>7. LiContinues(c, p)'
      BY <2>1, <2>4, <2>5, <2>6 DEF LiContinues
    <2> QED
      BY <2>1, <2>2, <2>7 DEF LiContinues
  <1>12. ASSUME NEW c \in DOMAIN cells', NEW d \in DOMAIN cells',
                cells'[c].parent # 0, cells'[c].parent = cells'[d].parent,
                cells'[c].plan = cells'[cells'[c].parent].plan, cells'[d].plan = cells'[cells'[c].parent].plan
         PROVE  c = d
    <2>1. c \in DOMAIN cells /\ d \in DOMAIN cells /\ cells'[c].parent = cells[c].parent
          /\ cells'[d].parent = cells[d].parent /\ cells'[c].plan = cells[c].plan /\ cells'[d].plan = cells[d].plan
      BY <1>4
    <2>2. PICK p : p = cells[c].parent
      OBVIOUS
    <2>3. LiContinues(c, p)
      BY <2>1, <2>2, <1>1, <1>12 DEF LiLineageOK
    <2>4. p \in DOMAIN cells'
      BY <2>3, <1>9 DEF LiContinues
    <2>5. cells'[p].plan = cells[p].plan
      BY <2>4, <1>4
    <2> QED
      BY <2>1, <2>2, <2>5, <1>1, <1>12 DEF LiLineageOK
  <1>13. LiLineageOK'
    BY <1>10, <1>11, <1>12 DEF LiLineageOK
  <1> QED
    BY <1>7, <1>8, <1>13

LEMMA LiBiggest ==
    ASSUME NEW n \in Nat, NEW T \in SUBSET (1..n), T # {}
    PROVE  \E k \in T : \A m \in T : m <= k
  <1> DEFINE U == {u \in Nat : n - u \in T}
  <1>1. U # {}
    <2>1. PICK x \in T : TRUE
      OBVIOUS
    <2>2. PICK u \in Nat : u = n - x
      <3>1. x \in 1..n
        BY <2>1
      <3>2. n - x \in Nat
        BY <3>1
      <3> QED
        BY <3>2
    <2>3. n - u = x
      BY <2>1, <2>2
    <2> QED
      BY <2>1, <2>2, <2>3
  <1>2. PICK u \in U : \A v \in U : u <= v
    <2> HIDE DEF U
    <2>1. U \subseteq Nat
      BY DEF U
    <2> QED
      BY <1>1, <2>1, SmallestOf
  <1>3. ASSUME NEW m \in T PROVE m <= n - u
    <2>1. PICK v \in Nat : v = n - m
      <3>1. m \in 1..n
        OBVIOUS
      <3>2. n - m \in Nat
        BY <3>1
      <3> QED
        BY <3>2
    <2>2. m \in 1..n /\ n - v = m
      BY <2>1
    <2>3. v \in U
      BY <2>1, <2>2
    <2>4. u <= v
      BY <1>2, <2>3
    <2> QED
      BY <2>1, <2>2, <2>4, <1>2
  <1> QED
    BY <1>2, <1>3

\* What a list proves is a schedule of a lock cell of the genesis transaction.
LEMMA LiSchedule ==
    ASSUME LiInv, NEW e, ProvenCells(e) # {}
    PROVE  /\ ScheduleOf(e).cell \in DOMAIN GenesisCells
           /\ ScheduleOf(e).plan = GenesisCells[ScheduleOf(e).cell].plan
           /\ GenesisCells[ScheduleOf(e).cell].lock \in Locks(e.token)
  <1>1. LiCellsOK /\ LiGenesisOK
    BY DEF LiInv
  <1>2. DOMAIN cells \subseteq Nat
    BY <1>1, LiPlaces
  <1>3. ProvenCells(e) \subseteq {i \in DOMAIN cells : cells[i].lock \in Locks(e.token) /\ cells[i].tx = GenesisTx}
    BY DEF ProvenCells
  <1>4. PICK i \in ProvenCells(e) : \A k \in ProvenCells(e) : i <= k
    BY <1>2, <1>3, SmallestOf
  <1>5. PICK m : m = Min(ProvenCells(e))
    OBVIOUS
  <1>6. m \in ProvenCells(e)
    BY <1>4, <1>5 DEF Min
  <1>7. m \in DOMAIN cells /\ cells[m].lock \in Locks(e.token) /\ cells[m].tx = GenesisTx
    BY <1>3, <1>6
  <1>8. m \in DOMAIN GenesisCells /\ cells[m].lock = GenesisCells[m].lock /\ cells[m].plan = GenesisCells[m].plan
    <2>1. m \in DOMAIN GenesisCells
      BY <1>1, <1>7 DEF LiGenesisOK
    <2>2. ghost.tx >= GenesisTx
      <3>1. cells[m].tx \in GenesisTx..ghost.tx /\ ghost.tx \in Nat
        BY <1>1, <1>7 DEF LiCellsOK
      <3> QED
        BY <3>1 DEF GenesisTx
    <2> QED
      BY <2>1, <2>2, <1>1 DEF LiGenesisOK
  <1>9. ScheduleOf(e) = [lock |-> cells[m].lock, plan |-> cells[m].plan, cell |-> m]
    BY <1>5 DEF ScheduleOf
  <1> QED
    BY <1>7, <1>8, <1>9

LEMMA LiProved ==
    ASSUME LiInv, NEW list \in Lists \cup {<<>>}, schedules' = Proved(list)
    PROVE  LiSchedulesOK'
  <1>1. LiSchedulesOK
    BY DEF LiInv
  <1>2. PICK n : schedules' = PutSchedules(list, n)
    BY DEF Proved
  <1>3. DOMAIN list = 1..Len(list) /\ Len(list) \in Nat
    <2>1. CASE list = <<>>
      BY <2>1
    <2>2. CASE list \in Lists
      <3>1. PICK l \in Seq(ToSet(list)) : l = list
        BY <2>2, PublishedLists
      <3>2. DOMAIN l = 1..Len(l) /\ Len(l) \in Nat
        OBVIOUS
      <3> QED
        BY <3>1, <3>2
    <2> QED
      BY <2>1, <2>2
  <1>4. ASSUME NEW t \in DOMAIN schedules'
        PROVE  /\ schedules'[t].cell \in DOMAIN GenesisCells
               /\ schedules'[t].plan = GenesisCells[schedules'[t].cell].plan
               /\ GenesisCells[schedules'[t].cell].lock \in Locks(t)
    <2> DEFINE E == Entries(list, n, t)
    <2>1. CASE E = {}
      <3>1. schedules'[t] = schedules[t]
        BY <2>1, <1>2 DEF PutSchedules
      <3>2. t \in DOMAIN schedules
        BY <2>1, <1>2 DEF PutSchedules, Entries
      <3> QED
        BY <3>1, <3>2, <1>1 DEF LiSchedulesOK
    <2>2. CASE E # {}
      <3>1. E \subseteq 1..Len(list)
        BY <1>3 DEF Entries
      <3>2. PICK k \in E : \A m \in E : m <= k
        <4> HIDE DEF E
        <4> QED
          BY <2>2, <3>1, <1>3, LiBiggest
      <3>3. PICK c : c = CHOOSE j \in E : \A m \in E : m <= j
        OBVIOUS
      <3>4. c \in E
        BY <3>2, <3>3
      <3>5. list[c].token = t /\ ProvenCells(list[c]) # {}
        BY <3>4 DEF Entries
      <3>6. schedules'[t] = ScheduleOf(list[c])
        BY <2>2, <3>3, <1>2 DEF PutSchedules
      <3> QED
        BY <3>5, <3>6, LiSchedule
    <2> QED
      BY <2>1, <2>2
  <1> QED
    BY <1>4 DEF LiSchedulesOK

LEMMA LiStep ==
    LiInv /\ [ListedNext]_ltvars => LiInv'
  <1> SUFFICES ASSUME LiInv, [ListedNext]_ltvars PROVE LiInv'
    OBVIOUS
  <1>1. LiSchedulesOK /\ LiFetchedOK /\ LiCellsOK /\ LiGenesisOK /\ LiLineageOK
    BY DEF LiInv
  <1>2. cells' = cells /\ ghost' = ghost => LiCellsOK' /\ LiGenesisOK' /\ LiLineageOK'
    <2> SUFFICES ASSUME cells' = cells, ghost' = ghost PROVE LiCellsOK' /\ LiGenesisOK' /\ LiLineageOK'
      OBVIOUS
    <2>1. LiCellsOK'
      BY <1>1 DEF LiCellsOK
    <2>2. LiGenesisOK'
      BY <1>1 DEF LiGenesisOK
    <2>3. LiLineageOK'
      BY <1>1 DEF LiLineageOK, LiPaid, LiContinues
    <2> QED
      BY <2>1, <2>2, <2>3
  <1>3. schedules' = schedules => LiSchedulesOK'
    BY <1>1 DEF LiSchedulesOK
  <1>4. fetched' = fetched => LiFetchedOK'
    BY <1>1 DEF LiFetchedOK
  <1>5. CASE Claim
    <2>1. PICK i : LiClaimed(i)
      BY <1>5, LiClaimShape
    <2>2. schedules' = schedules /\ fetched' = fetched
      BY <1>5 DEF Claim
    <2> QED
      BY <2>1, <2>2, <1>3, <1>4, LiClaimKeeps DEF LiInv
  <1>6. CASE Reorg
    <2>1. schedules' = schedules /\ fetched' = fetched
      BY <1>6 DEF Reorg
    <2> QED
      BY <2>1, <1>3, <1>4, <1>6, LiReorgShape, LiReorgKeeps DEF LiInv
  <1>7. CASE Relaunch
    <2>1. schedules' = schedules /\ fetched' = fetched /\ cells' = GenesisCells /\ ghost'.tx = GenesisTx
      BY <1>7 DEF Relaunch
    <2> QED
      BY <2>1, <1>3, <1>4, LiRelaunched DEF LiInv
  <1>8. CASE SessionTurns
    BY <1>2, <1>3, <1>4, <1>8 DEF SessionTurns, LiInv
  <1>9. CASE Wait
    BY <1>2, <1>3, <1>4, <1>9 DEF Wait, LiInv
  <1>10. ASSUME NEW next, Loaded(next) PROVE next.body \in Lists \cup {<<>>}
    BY <1>1, <1>10 DEF Loaded, LiFetchedOK
  <1>11. CASE VestingRequest
    <2>1. PICK next : /\ Loaded(next) /\ fetched' = next
                      /\ schedules' = IF followerSession = "free" THEN Proved(next.body) ELSE schedules
      BY <1>11 DEF VestingRequest
    <2>2. LiFetchedOK'
      BY <2>1, <1>10 DEF LiFetchedOK
    <2>3. PICK list \in Lists \cup {<<>>} : list = next.body
      BY <2>1, <1>10
    <2>4. LiSchedulesOK'
      <3>1. CASE followerSession = "free"
        BY <2>1, <2>3, <3>1, LiProved
      <3>2. CASE followerSession # "free"
        BY <2>1, <3>2, <1>3
      <3> QED
        BY <3>1, <3>2
    <2> QED
      BY <2>2, <2>4, <1>2, <1>11 DEF VestingRequest, LiInv
  <1>12. CASE RegistryRequest
    <2>1. PICK next : Loaded(next) /\ fetched' = next
      BY <1>12 DEF RegistryRequest
    <2>2. LiFetchedOK'
      BY <2>1, <1>10 DEF LiFetchedOK
    <2> QED
      BY <2>2, <1>2, <1>3, <1>12 DEF RegistryRequest, LiInv
  <1>13. CASE UNCHANGED ltvars
    BY <1>2, <1>3, <1>4, <1>13 DEF ltvars, LiInv
  <1> QED
    BY <1>5, <1>6, <1>7, <1>8, <1>9, <1>11, <1>12, <1>13 DEF ListedNext

\* What is published about a listed token is what the chain committed to, for
\* any lists, owners and genesis cells, any claims, cells beside them and
\* reorganisations (store.rs vesting_states, registry.rs check).
THEOREM ListedFactsAreEarned == ListedSpec => []ListedFactsAreProven
  <1>1. ListedInit => LiInv
    <2> SUFFICES ASSUME ListedInit PROVE LiInv
      OBVIOUS
    <2>1. cells = GenesisCells /\ ghost.tx = GenesisTx /\ schedules = <<>> /\ fetched.body = <<>>
      BY DEF ListedInit
    <2>2. LiSchedulesOK
      BY <2>1 DEF LiSchedulesOK
    <2>3. LiFetchedOK
      BY <2>1 DEF LiFetchedOK
    <2> QED
      BY <2>1, <2>2, <2>3, LiLaunched DEF LiInv
  <1>2. LiInv /\ [ListedNext]_ltvars => LiInv'
    BY LiStep
  <1>3. LiInv => ListedFactsAreProven
    BY LiSays
  <1> QED
    BY <1>1, <1>2, <1>3, PTL DEF ListedSpec
=============================================================================
