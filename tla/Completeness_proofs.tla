-------------------------- MODULE Completeness_proofs --------------------------
(***************************************************************************)
(* For every chain and every node behaviour: what the index promises beyond *)
(* its tables.  No block is refused by the envelopes of an older one, token *)
(* tables that are out of date are named by queued work, and, unless a call *)
(* failed or a recovery left a batch above its anchor, no covenant activity *)
(* of the indexed chain was skipped.  All of it holds under the follower.  *)
(* Whatever fails, no activity is missing as long as the node never returns *)
(* to a branch it left and re_anchor is not stopped half-way.              *)
(***************************************************************************)
EXTENDS Tables_proofs, Follower

-----------------------------------------------------------------------------
(* Application envelopes *)

\* An envelope belongs to a block with a batch, which accepted its transaction.
AppRows ==
    \A t \in AppTxs :
        apps[t] # NoBlock => apps[t] \in DOMAIN batches /\ t \in AcceptedTxs(apps[t])

LEMMA AppsFrame ==
    ASSUME AppRows, apps' = apps, DOMAIN batches \subseteq DOMAIN batches'
    PROVE  AppRows'
BY DEF AppRows

LEMMA EmptyKeepsApps ==
    ASSUME AppRows, NEW b, NEW daa, ApplyAcceptedBlock(EmptyBatch(b, daa))
    PROVE  AppRows'
<1> DEFINE B == EmptyBatch(b, daa)
<1>1. B.apps = {}
  BY DEF EmptyBatch
<1>2. CASE AlreadyApplied(B)
  BY <1>2, AppsFrame DEF ApplyAcceptedBlock, storeVars, tables
<1>3. CASE ~AlreadyApplied(B)
  <2>1. /\ apps' = [t \in AppTxs |-> IF t \in B.apps THEN B.block ELSE apps[t]]
        /\ batches' = IF B.daa > 0
                        THEN [x \in DOMAIN batches \cup {B.block} |->
                                IF x = B.block THEN [first |-> nextSeq, last |-> nextSeq' - 1]
                                               ELSE batches[x]]
                        ELSE batches
    BY <1>3 DEF ApplyAcceptedBlock
  <2>2. DOMAIN batches \subseteq DOMAIN batches'
    BY <2>1
  <2> HIDE DEF B
  <2>3. \A t \in AppTxs : apps'[t] = apps[t]
    BY <1>1, <2>1
  <2> QED
    BY <2>2, <2>3 DEF AppRows
<1> QED
  BY <1>2, <1>3

LEMMA ApplyKeepsApps ==
    ASSUME AppRows, NEW b \in Blocks, ApplyAcceptedBlock(Classify(b))
    PROVE  AppRows'
<1> DEFINE B == Classify(b)
<1>1. B.block = b /\ B.daa > 0 /\ B.apps = AcceptedTxs(b) \cap AppTxs
  BY TreeAssumption DEF Classify
<1>2. CASE AlreadyApplied(B)
  BY <1>2, AppsFrame DEF ApplyAcceptedBlock, storeVars, tables
<1>3. CASE ~AlreadyApplied(B)
  <2>1. /\ apps' = [t \in AppTxs |-> IF t \in B.apps THEN B.block ELSE apps[t]]
        /\ DOMAIN batches' = DOMAIN batches \cup {b}
    BY <1>1, <1>3 DEF ApplyAcceptedBlock
  <2> HIDE DEF B
  <2> QED
    BY <1>1, <2>1 DEF AppRows
<1> QED
  BY <1>2, <1>3

LEMMA RollbackKeepsApps ==
    ASSUME AppRows, NEW R, RollbackRemovedBlocks(R)
    PROVE  AppRows'
<1> DEFINE C == Canonical(R)
<1>1. CASE C = {}
  BY <1>1, AppsFrame DEF RollbackRemovedBlocks, storeVars, tables
<1>2. CASE C # {}
  <2>1. apps' = AppsWithout(C) /\ DOMAIN batches' = DOMAIN batches \ C
    BY <1>2 DEF RollbackRemovedBlocks
  <2> HIDE DEF C
  <2> QED
    BY <2>1 DEF AppRows, AppsWithout
<1> QED
  BY <1>1, <1>2

LEMMA NextApps == AppRows /\ [Next]_vars => AppRows'
<1> SUFFICES ASSUME AppRows, [Next]_vars PROVE AppRows'
  OBVIOUS
<1>1. ASSUME UNCHANGED <<apps, batches>> PROVE AppRows'
  BY <1>1, AppsFrame
<1>2. CASE RollBack \/ \E a \in Blocks : ReAnchor(a)
  BY <1>2, RollbackKeepsApps DEF RollBack, ReAnchor
<1>3. CASE StartFreshIndex
  BY <1>3, EmptyKeepsApps DEF StartFreshIndex
<1>4. ASSUME NEW b \in Blocks, ProcessBlock(b) PROVE AppRows'
  BY <1>1, <1>4, ApplyKeepsApps DEF ProcessBlock, storeVars, tables
<1>5. CASE FinishPass
  BY <1>1, <1>5, EmptyKeepsApps DEF FinishPass, FinalCheckpoint, storeVars, tables
<1>6. CASE NodeStep \/ BeginPass \/ BeginPassWithoutTip \/ WalkRefused \/ Interrupted
           \/ ProbeCursor \/ Repoint \/ RestartAtSink \/ Drain \/ UNCHANGED vars
  BY <1>1, <1>6
  DEF NodeStep, SinkMoves, NodeSwitches, BeginPass, SetTip, BeginPassWithoutTip, WalkRefused,
      Interrupted, ProbeCursor, Repoint, CheckpointCursor, RestartAtSink, ResetCursor, Drain,
      DrainProjection, vars, storeVars, tables
<1>7. ASSUME NEW b \in Blocks, Walk(b) \/ ApplyRefused(b) PROVE AppRows'
  BY <1>1, <1>7 DEF Walk, ApplyRefused, storeVars, tables
<1> QED
  BY <1>2, <1>3, <1>4, <1>5, <1>6, <1>7 DEF Next, PassStep, RecoveryStep

-----------------------------------------------------------------------------
(* Batches of a swept index *)

Sound == resets = 0 /\ unswept = 0

\* IndexBelowCursor of every block with a batch, event or no event.
BatchInv ==
    Sound =>
        /\ \A b \in DOMAIN batches : cursor # NoBlock /\ b \in Path[cursor]
        /\ pc = "apply" => /\ \A x \in todo : DOMAIN batches \subseteq Path[x] \ {x}
                           /\ lastSeen # NoBlock => DOMAIN batches \subseteq Path[lastSeen]
        /\ pc = "repoint" => DOMAIN batches \subseteq Path[anchor]

\* What the index forfeited stays forfeited.
LEMMA StaysSound == IndexInv /\ [Next]_vars => (Sound' => Sound)
<1> SUFFICES ASSUME IndexInv, [Next]_vars, Sound' PROVE Sound
  OBVIOUS
<1>1. resets' = 0 => resets = 0
  BY DEF Next, NodeStep, SinkMoves, NodeSwitches, PassStep, BeginPass, BeginPassWithoutTip,
         StartFreshIndex, Walk, WalkRefused, RollBack, ProcessBlock, ApplyRefused, FinishPass,
         Interrupted, RecoveryStep, ProbeCursor, ReAnchor, Repoint, RestartAtSink, Drain, vars, historyVars
<1>2. unswept' = 0 => unswept = 0
  BY DEF Next, NodeStep, SinkMoves, NodeSwitches, PassStep, BeginPass, BeginPassWithoutTip,
         StartFreshIndex, Walk, WalkRefused, RollBack, ProcessBlock, ApplyRefused, FinishPass,
         Interrupted, RecoveryStep, ProbeCursor, ReAnchor, Repoint, RestartAtSink, Drain, vars, historyVars
<1> QED
  BY <1>1, <1>2 DEF Sound

\* A block still to be applied has no batch: applying it moves the cursor.
LEMMA ProcessedIsNew ==
    ASSUME IndexInv, BatchInv, Sound, NEW b \in Blocks, ProcessBlock(b)
    PROVE  /\ b \notin DOMAIN batches
           /\ IF CommitsBlock(Classify(b))
                THEN ~AlreadyApplied(Classify(b)) /\ cursor' = b
                     /\ DOMAIN batches' = DOMAIN batches \cup {b}
                ELSE UNCHANGED storeVars
<1>1. b \notin DOMAIN batches
  BY DEF BatchInv, ProcessBlock, First
<1>2. CASE CommitsBlock(Classify(b))
  <2>1. Classify(b).block = b /\ Classify(b).daa > 0
    BY TreeAssumption DEF Classify
  <2>2. ~AlreadyApplied(Classify(b)) /\ ApplyAcceptedBlock(Classify(b))
    BY <1>1, <1>2, <2>1 DEF AlreadyApplied, ProcessBlock
  <2>3. cursor' = b /\ DOMAIN batches' = DOMAIN batches \cup {b}
    BY <2>1, <2>2 DEF ApplyAcceptedBlock
  <2> QED
    BY <1>1, <1>2, <2>2, <2>3
<1>3. CASE ~CommitsBlock(Classify(b))
  BY <1>1, <1>3 DEF ProcessBlock
<1> QED
  BY <1>2, <1>3

LEMMA NextBatches == IndexInv /\ BatchInv /\ [Next]_vars => BatchInv'
<1> SUFFICES ASSUME IndexInv, BatchInv, [Next]_vars, Sound' PROVE BatchInv'
  BY DEF BatchInv
<1>1. /\ Sound
      /\ \A b \in DOMAIN batches : cursor # NoBlock /\ b \in Path[cursor]
  BY StaysSound DEF BatchInv
<1>2. ASSUME UNCHANGED <<batches, cursor>>,
             pc' = "apply" => pc = "apply" /\ UNCHANGED <<todo, lastSeen>>,
             pc' = "repoint" => pc = "repoint" /\ UNCHANGED anchor
      PROVE  BatchInv'
  BY <1>1, <1>2 DEF BatchInv
<1>3. CASE StartFreshIndex
  <2>1. /\ pc = "start" /\ pc' = "walk" /\ ApplyAcceptedBlock(EmptyBatch(lastSeen, 0))
    BY <1>3 DEF StartFreshIndex
  <2>2. lastSeen \in Blocks /\ DOMAIN batches = {}
    BY <2>1 DEF IndexInv, ChainInv, PassInv, Struct, Optional
  <2>3. cursor' = lastSeen /\ DOMAIN batches' \in {{}, {lastSeen}}
    BY <2>1, <2>2, EmptyEffect
  <2> QED
    BY <2>1, <2>2, <2>3, TreeAssumption DEF BatchInv
<1>4. ASSUME NEW s \in Blocks, Walk(s) PROVE BatchInv'
  <2>1. /\ pc = "walk" /\ removed' = WalkRemoves(cursor, s) /\ todo' = WalkAdds(cursor, s)
        /\ pc' = IF removed' = {} THEN "apply" ELSE "rollback"
        /\ UNCHANGED <<batches, cursor, lastSeen>>
    BY <1>4 DEF Walk, storeVars, tables
  <2>2. cursor \in Blocks /\ lastSeen = NoBlock
    BY <2>1 DEF IndexInv, ChainInv, PassInv, Struct, Optional
  <2>3. removed' = {} => todo' = {} \/ (Path[cursor] \subseteq Path[s] /\ todo' = Path[s] \ Path[cursor])
    BY <2>1 DEF WalkRemoves, WalkAdds, RemovedFrom, AddedFrom
  <2>4. ASSUME removed' = {}, NEW x \in todo', NEW b \in DOMAIN batches PROVE b \in Path[x] \ {x}
    <3>1. b \in Path[cursor] /\ x \in Path[s] /\ x \notin Path[cursor] /\ b \in Path[s]
      BY <1>1, <2>3, <2>4
    <3>2. x \in Path[b] => x \in Path[cursor]
      BY <2>2, <3>1, TreeAssumption
    <3> QED
      BY <3>1, <3>2, TreeAssumption
  <2> QED
    BY <1>1, <2>1, <2>2, <2>4 DEF BatchInv
<1>5. CASE RollBack
  <2>1. /\ pc = "rollback" /\ pc' = "apply" /\ UNCHANGED <<cursor, todo, lastSeen>>
        /\ DOMAIN batches' = DOMAIN batches \ removed
    BY <1>5, RollbackEffect DEF RollBack
  <2>2. lastSeen = NoBlock
    BY <2>1 DEF IndexInv, ChainInv, PassInv
  <2>3. PICK s \in Blocks : removed = Path[cursor] \ Path[s] /\ todo = Path[s] \ Path[cursor]
    BY <1>1, <2>1 DEF IndexInv, ChainInv, RollbackReady, RemovedFrom, AddedFrom, Sound
  <2>4. ASSUME NEW x \in todo, NEW b \in DOMAIN batches \ removed PROVE b \in Path[x] \ {x}
    <3>1. /\ b \in Path[cursor] /\ b \in Path[s] /\ x \in Path[s] /\ x \notin Path[cursor]
          /\ cursor \in Blocks
      BY <1>1, <2>3, <2>4 DEF IndexInv, Struct, Optional
    <3>2. x \in Path[b] => x \in Path[cursor]
      BY <3>1, TreeAssumption
    <3> QED
      BY <3>1, <3>2, TreeAssumption
  <2> QED
    BY <1>1, <2>1, <2>2, <2>4 DEF BatchInv
<1>6. ASSUME NEW b \in Blocks, ProcessBlock(b) PROVE BatchInv'
  <2>1. /\ pc = "apply" /\ pc' = "apply" /\ lastSeen' = b /\ todo' = todo \ {b} /\ b \in todo
        /\ \A x \in todo : b \in Path[x] /\ DOMAIN batches \subseteq Path[x] \ {x}
    BY <1>1, <1>6 DEF ProcessBlock, First, BatchInv
  <2>2. IF CommitsBlock(Classify(b))
          THEN cursor' = b /\ DOMAIN batches' = DOMAIN batches \cup {b}
          ELSE UNCHANGED <<cursor, batches>>
    BY <1>1, <1>6, ProcessedIsNew DEF storeVars, tables
  <2>3. b \in Path[b] /\ b # NoBlock
    BY TreeAssumption
  <2>4. DOMAIN batches' \subseteq DOMAIN batches \cup {b}
    BY <2>2
  <2>5. \A x \in todo' : DOMAIN batches' \subseteq Path[x] \ {x}
    BY <2>1, <2>4
  <2>6. DOMAIN batches' \subseteq Path[b]
    BY <2>1, <2>3, <2>4
  <2>7. \A a \in DOMAIN batches' : cursor' # NoBlock /\ a \in Path[cursor']
    BY <1>1, <2>2, <2>3, <2>6
  <2> QED
    BY <2>1, <2>5, <2>6, <2>7 DEF BatchInv
<1>7. CASE FinishPass
  <2>1. pc = "apply" /\ pc' = "idle"
    BY <1>7 DEF FinishPass, PassEnds
  <2>2. CASE since > 0
    <3>1. lastSeen \in Blocks /\ lastSeen # NoBlock /\ ApplyAcceptedBlock(EmptyBatch(lastSeen, Daa[lastSeen]))
      BY <1>7, <2>2 DEF FinishPass, FinalCheckpoint, IndexInv, ChainInv, PassInv, Struct, Optional
    <3>2. \/ UNCHANGED <<batches, cursor>>
          \/ /\ cursor' = lastSeen
             /\ DOMAIN batches' \subseteq DOMAIN batches \cup {lastSeen}
      BY <3>1, EmptyEffect
    <3>3. DOMAIN batches \subseteq Path[lastSeen] /\ lastSeen \in Path[lastSeen]
      BY <1>1, <2>1, <3>1, TreeAssumption DEF BatchInv
    <3> QED
      BY <1>1, <2>1, <3>1, <3>2, <3>3 DEF BatchInv
  <2>3. CASE ~(since > 0)
    BY <1>2, <1>7, <2>1, <2>3 DEF FinishPass, FinalCheckpoint, storeVars, tables
  <2> QED
    BY <2>2, <2>3
<1>8. ASSUME NEW a \in Blocks, ReAnchor(a) PROVE BatchInv'
  <2>1. /\ pc' = "repoint" /\ anchor' = a /\ cursor' = cursor
        /\ DOMAIN batches' \subseteq DOMAIN batches
        /\ unswept' = IF DOMAIN batches' \subseteq Path[a] THEN unswept ELSE 1
    BY <1>8, RollbackEffect DEF ReAnchor
  <2>2. DOMAIN batches' \subseteq Path[a]
    BY <2>1 DEF Sound
  <2> QED
    BY <1>1, <2>1, <2>2 DEF BatchInv
<1>9. CASE Repoint
  <2>1. pc = "repoint" /\ pc' = "idle" /\ cursor' = anchor /\ batches' = batches
    BY <1>9 DEF Repoint, PassEnds, CheckpointCursor, tables
  <2>2. DOMAIN batches \subseteq Path[anchor] /\ anchor # NoBlock
    BY <1>1, <2>1 DEF BatchInv, IndexInv, ChainInv, PassInv
  <2> QED
    BY <2>1, <2>2 DEF BatchInv
<1>10. CASE RestartAtSink
  BY <1>10 DEF RestartAtSink, Sound
<1>11. CASE NodeStep
  BY <1>2, <1>11 DEF NodeStep, SinkMoves, NodeSwitches, passVars, storeVars, tables
<1>12. CASE BeginPass
  BY <1>2, <1>12 DEF BeginPass, SetTip, tables
<1>13. CASE BeginPassWithoutTip
  BY <1>2, <1>13 DEF BeginPassWithoutTip, PassEnds, PassGoesTo, storeVars, tables
<1>14. CASE WalkRefused \/ Interrupted \/ ProbeCursor \/ Drain \/ UNCHANGED vars
  BY <1>2, <1>14
  DEF WalkRefused, Interrupted, PassEnds, ProbeCursor, PassGoesTo, Drain, DrainProjection, passVars,
      vars, storeVars, tables
<1>15. ASSUME NEW b \in Blocks, ApplyRefused(b) PROVE BatchInv'
  BY <1>2, <1>15 DEF ApplyRefused, PassEnds, storeVars, tables
<1> QED
  BY <1>3, <1>4, <1>5, <1>6, <1>7, <1>8, <1>9, <1>10, <1>11, <1>12, <1>13, <1>14, <1>15
  DEF Next, PassStep, RecoveryStep

\* What a batch can meet: its own chain, and envelopes of that chain only.
LEMMA NothingRefused ==
    ASSUME BatchInv, AppRows, Sound, pc = "apply", NEW b \in Blocks, b \in todo
    PROVE  ~ApplyFails(Classify(b))
<1> SUFFICES ASSUME ApplyFails(Classify(b)) PROVE FALSE
  OBVIOUS
<1>1. PICK t \in AcceptedTxs(b) \cap AppTxs : apps[t] # NoBlock
  BY DEF ApplyFails, Classify
<1>2. apps[t] \in DOMAIN batches /\ t \in AcceptedTxs(apps[t])
  BY <1>1 DEF AppRows
<1>3. apps[t] \in Path[b] \ {b} /\ b \in Path[b]
  BY <1>2, TreeAssumption DEF BatchInv
<1> QED
  BY <1>1, <1>2, <1>3, AcceptedOnce

\* Envelopes are keyed by transaction, and a transaction is accepted again only
\* after the block that held it was rolled back: the primary key refuses no block.
THEOREM NeverRefused == Spec => []ApplyNeverRefused
<1>1. Init => AppRows /\ BatchInv
  BY DEF Init, StoreInit, AppRows, BatchInv
<1>2. Spec => [](AppRows /\ BatchInv)
  BY <1>1, NextApps, NextBatches, IndexInvariance, PTL DEF Spec
<1>3. ASSUME IndexInv, AppRows, BatchInv PROVE ApplyNeverRefused
  <2>1. todo \subseteq Blocks
    BY <1>3 DEF IndexInv, Struct
  <2> QED
    BY <1>3, <2>1, NothingRefused DEF ApplyNeverRefused, Sound
<1> QED
  BY <1>2, <1>3, IndexInvariance, PTL

-----------------------------------------------------------------------------
(* The projection queue *)

\* Queued work names deliveries that exist, and the projection is not ahead.
WorkInv ==
    /\ work \subseteq 1..(nextSeq - 1)
    /\ projected \in Nat /\ projected < nextSeq

\* A covenant's token tables are its rows, or some queued delivery names it.
Covered(v) ==
    \/ derived[v] = Own(v)
    \/ \E r \in log : r.cov = v /\ r.seq \in Queued

QueueInv ==
    /\ WorkInv
    /\ \A v \in Covenants : Covered(v)

\* The end of a chunk is one of the queued deliveries.
LEMMA ChunkEnds ==
    ASSUME NEW limit \in Nat \ {0}, Queued # {}, Queued \subseteq Nat, IsFiniteSet(Queued)
    PROVE  ChunkEnd(limit) \in Queued
<1> DEFINE R == {p \in Queued \X Queued : p[1] < p[2]}
           n == Cardinality(Queued)
           upTo(w) == {x \in Queued : x <= w}
           Ends(w) == IF n <= limit THEN upTo(w) = Queued ELSE Cardinality(upTo(w)) = limit
<1>1. Orders(R, Queued)
  BY DEF Orders
<1>2. /\ \A x, y \in Queued : Place(x, R, Queued) = Place(y, R, Queued) => x = y
      /\ {Place(x, R, Queued) : x \in Queued} = 0..(n - 1)
      /\ n \in Nat
  BY <1>1, PlacesAreDense
<1>3. \A w \in Queued : {x \in Queued : <<x, w>> \in R} = {x \in Queued : x < w}
  OBVIOUS
<1>4. \A x, y \in Queued : <<x, y>> \in R <=> x < y
  OBVIOUS
<1> HIDE DEF R
<1>5. n # 0
  BY FS_EmptySet
<1>6. ASSUME NEW w \in Queued
      PROVE  /\ IsFiniteSet(upTo(w))
             /\ Cardinality(upTo(w)) = Place(w, R, Queued) + 1
  <2> DEFINE below == {x \in Queued : x < w}
  <2>1. below = {x \in Queued : <<x, w>> \in R}
    BY <1>3
  <2>2. upTo(w) = below \cup {w} /\ w \notin below /\ below \in SUBSET Queued
    <3>1. \A x \in Queued : x \in Nat
      OBVIOUS
    <3>2. \A x \in Queued : x <= w <=> x < w \/ x = w
      BY <3>1
    <3>3. ~(w < w)
      BY <3>1
    <3> QED
      BY <3>2, <3>3
  <2> HIDE DEF below
  <2>3. IsFiniteSet(below)
    BY <2>2, FS_Subset
  <2>4. IsFiniteSet(below \cup {w}) /\ Cardinality(below \cup {w}) = Cardinality(below) + 1
    BY <2>2, <2>3, FS_AddElement
  <2> QED
    BY <2>1, <2>2, <2>4 DEF Place
<1>7. \E w \in Queued : Ends(w)
  <2>1. CASE n <= limit
    <3>1. n - 1 \in 0..(n - 1)
      BY <1>2, <1>5
    <3>2. PICK w \in Queued : Place(w, R, Queued) = n - 1
      BY <1>2, <3>1
    <3>3. Cardinality(upTo(w)) = n
      <4> HIDE DEF upTo, n
      <4> QED
        BY <1>2, <1>6, <3>2
    <3>4. upTo(w) \in SUBSET Queued
      OBVIOUS
    <3>5. upTo(w) = Queued
      <4> HIDE DEF upTo
      <4> QED
        BY <3>3, <3>4, FS_Subset
    <3> QED
      BY <2>1, <3>5
  <2>2. CASE ~(n <= limit)
    <3>1. limit - 1 \in 0..(n - 1)
      BY <1>2, <2>2
    <3>2. PICK w \in Queued : Place(w, R, Queued) = limit - 1
      BY <1>2, <3>1
    <3>3. Cardinality(upTo(w)) = limit
      BY <1>2, <1>6, <3>2
    <3> QED
      BY <2>2, <3>3
  <2> QED
    BY <2>1, <2>2
<1>8. ChunkEnd(limit) = CHOOSE w \in Queued : Ends(w)
  BY DEF ChunkEnd
<1> HIDE DEF Ends
<1> QED
  BY <1>7, <1>8

LEMMA QueueFrame ==
    ASSUME QueueInv, UNCHANGED <<rows, log, nextSeq, work, projected, derived>>
    PROVE  QueueInv'
BY DEF QueueInv, WorkInv, Covered, Own, Queued

\* A transaction that queues a delivery for every covenant whose rows it changes.
LEMMA QueueGrows ==
    ASSUME QueueInv, UNCHANGED <<projected, derived>>, log \subseteq log', work \subseteq work',
           nextSeq \in Nat \ {0}, nextSeq' \in Nat, nextSeq' >= nextSeq,
           \A w \in work' : w \in work \/ w \in nextSeq..(nextSeq' - 1),
           \A v \in Covenants : Own(v)' = Own(v) \/ \E r \in log' : r.cov = v /\ r.seq \in work' /\ r.seq >= nextSeq
    PROVE  QueueInv'
<1>1. WorkInv'
  <2>1. \A w \in work : w \in 1..(nextSeq - 1)
    BY DEF QueueInv, WorkInv
  <2>2. \A w \in work' : w \in 1..(nextSeq' - 1)
    BY <2>1
  <2>3. projected' \in Nat /\ projected' < nextSeq'
    BY DEF QueueInv, WorkInv
  <2> QED
    BY <2>2, <2>3 DEF WorkInv
<1>2. Queued \subseteq Queued'
  BY DEF Queued
<1>3. ASSUME NEW v \in Covenants PROVE Covered(v)'
  <2>1. CASE Own(v)' = Own(v)
    BY <1>2, <1>3, <2>1 DEF QueueInv, Covered
  <2>2. CASE Own(v)' # Own(v)
    <3>1. PICK r \in log' : r.cov = v /\ r.seq \in work' /\ r.seq >= nextSeq
      BY <2>2
    <3>2. r.seq \in 1..(nextSeq' - 1) /\ projected \in Nat /\ projected < nextSeq
      BY <1>1, <3>1 DEF WorkInv, QueueInv
    <3>3. r.seq > projected'
      BY <3>1, <3>2
    <3> QED
      BY <3>1, <3>3 DEF Covered, Queued
  <2> QED
    BY <2>1, <2>2
<1> QED
  BY <1>1, <1>3 DEF QueueInv

LEMMA EmptyKeepsQueue ==
    ASSUME QueueInv, nextSeq \in Nat, NEW b, NEW daa, ApplyAcceptedBlock(EmptyBatch(b, daa))
    PROVE  QueueInv'
<1> DEFINE B == EmptyBatch(b, daa)
<1>1. B.events = {}
  BY DEF EmptyBatch
<1>2. CASE AlreadyApplied(B)
  BY <1>2, QueueFrame DEF ApplyAcceptedBlock, storeVars, tables, queues
<1>3. CASE ~AlreadyApplied(B)
  <2>1. /\ rows' = rows \cup NewRows(B) /\ log' = log \cup AcceptedRecords(B)
        /\ nextSeq' = nextSeq + Cardinality(B.events)
        /\ work' = work \cup {r.seq : r \in AcceptedRecords(B)}
        /\ UNCHANGED <<projected, derived>>
    BY <1>3 DEF ApplyAcceptedBlock
  <2> HIDE DEF B
  <2>2. NewRows(B) = {} /\ AcceptedRecords(B) = {} /\ Cardinality(B.events) = 0
    BY <1>1, FS_EmptySet DEF NewRows, AcceptedRecords
  <2>3. {r.seq : r \in AcceptedRecords(B)} = {}
    BY <2>2
  <2> QED
    BY <2>1, <2>2, <2>3, QueueFrame
<1> QED
  BY <1>2, <1>3

\* Every accepted event is queued, ...
LEMMA ApplyKeepsQueue ==
    ASSUME QueueInv, nextSeq \in Nat \ {0}, NEW b \in Blocks, ApplyAcceptedBlock(Classify(b))
    PROVE  QueueInv'
<1> DEFINE B == Classify(b)
           A == AcceptedRecords(B)
<1>1. CASE AlreadyApplied(B)
  BY <1>1, QueueFrame DEF ApplyAcceptedBlock, storeVars, tables, queues
<1>2. CASE ~AlreadyApplied(B)
  <2>1. /\ rows' = rows \cup NewRows(B) /\ log' = log \cup A
        /\ nextSeq' = nextSeq + Cardinality(B.events)
        /\ work' = work \cup {r.seq : r \in A}
        /\ UNCHANGED <<projected, derived>>
    BY <1>2 DEF ApplyAcceptedBlock
  <2>2. Keys(B)
    BY ClassifiedKeys
  <2> HIDE DEF B
  <2>3. /\ Cardinality(B.events) \in Nat
        /\ \A e \in B.events : StreamSeq(B, e) \in nextSeq..(nextSeq + Cardinality(B.events) - 1)
    BY <2>2, AcceptedNumbers
  <2>4. \A r \in A : \E e \in B.events : r.seq = StreamSeq(B, e) /\ r.cov = e.cov
    BY DEF AcceptedRecords
  <2>5. ASSUME NEW e \in B.events PROVE \E r \in A : r.seq = StreamSeq(B, e) /\ r.cov = e.cov
    <3> DEFINE r == [seq |-> StreamSeq(B, e), kind |-> "accepted", cov |-> e.cov, tx |-> e.tx,
                     block |-> B.block, source |-> 0]
    <3>1. r \in A
      BY DEF AcceptedRecords
    <3> QED
      BY <3>1
  <2>6. \A r \in NewRows(B) : \E e \in B.events : r.cov = e.cov
    BY DEF NewRows
  <2> HIDE DEF A
  <2>7. nextSeq' \in Nat /\ nextSeq' >= nextSeq /\ \A r \in A : r.seq \in nextSeq..(nextSeq' - 1)
    BY <2>1, <2>3, <2>4
  <2>8. ASSUME NEW v \in Covenants
        PROVE  Own(v)' = Own(v) \/ \E r \in log' : r.cov = v /\ r.seq \in work' /\ r.seq >= nextSeq
    <3>1. CASE \E r \in NewRows(B) : r.cov = v
      BY <2>1, <2>5, <2>6, <2>7, <3>1
    <3>2. CASE ~\E r \in NewRows(B) : r.cov = v
      BY <2>1, <3>2 DEF Own
    <3> QED
      BY <3>1, <3>2
  <2> QED
    BY <2>1, <2>7, <2>8, QueueGrows
<1> QED
  BY <1>1, <1>2

\* ... and so is every removal, by the record that takes its delivery back.
LEMMA RollbackKeepsQueue ==
    ASSUME QueueInv, LogInv, NEW R, RollbackRemovedBlocks(R)
    PROVE  QueueInv'
<1> DEFINE C == Canonical(R)
           D == RemovalRecords(C)
<1>1. CASE C = {}
  BY <1>1, QueueFrame DEF RollbackRemovedBlocks, storeVars, tables, queues
<1>2. CASE C # {}
  <2>1. /\ rows' = {r \in rows : r.block \notin C} /\ log' = log \cup D
        /\ nextSeq' = nextSeq + Cardinality(Sources(C))
        /\ work' = work \cup {r.seq : r \in D}
        /\ UNCHANGED <<projected, derived>>
    BY <1>2 DEF RollbackRemovedBlocks, EnqueueRemovals
  <2>2. C \in SUBSET DOMAIN batches
    BY DEF Canonical
  <2> HIDE DEF C
  <2>3. /\ Cardinality(Sources(C)) \in Nat
        /\ {r.seq : r \in D} = nextSeq..(nextSeq + Cardinality(Sources(C)) - 1)
    BY <2>2, RemovalNumbers
  <2>4. nextSeq \in Nat \ {0}
    BY DEF LogInv, LogTypes
  <2>5. nextSeq' \in Nat /\ nextSeq' >= nextSeq /\ \A r \in D : r.seq \in nextSeq..(nextSeq' - 1)
    BY <2>1, <2>3, <2>4
  <2>6. ASSUME NEW r \in rows, r.block \in C PROVE \E d \in D : d.cov = r.cov
    <3>1. [cov |-> r.cov, tx |-> r.tx, block |-> r.block, seq |-> r.stream] \in
            {[cov |-> q.cov, tx |-> q.tx, block |-> q.block, seq |-> q.seq] :
                q \in {q \in log : q.kind = "accepted" /\ ~\E d \in log : d.source = q.seq}}
      BY DEF LogInv, LogReplaysToIndex
    <3>2. PICK q \in log : /\ q.kind = "accepted" /\ ~\E d \in log : d.source = q.seq
                           /\ q.cov = r.cov /\ q.block = r.block
      BY <3>1
    <3>3. q \in Sources(C)
      BY <2>6, <3>2 DEF Sources, LogInv, RangesStand, Cited
    <3> DEFINE d == [seq |-> nextSeq + Rank(q, Sources(C), RemovalBefore), kind |-> "removed",
                     cov |-> q.cov, tx |-> q.tx, block |-> q.block, source |-> q.seq]
    <3>4. d \in D
      BY <3>3 DEF RemovalRecords
    <3>5. d.cov = r.cov
      BY <3>2
    <3> QED
      BY <3>4, <3>5
  <2> HIDE DEF D
  <2>7. ASSUME NEW v \in Covenants
        PROVE  Own(v)' = Own(v) \/ \E r \in log' : r.cov = v /\ r.seq \in work' /\ r.seq >= nextSeq
    <3>1. CASE \E r \in rows : r.cov = v /\ r.block \in C
      <4>1. PICK d \in D : d.cov = v
        BY <2>6, <3>1
      <4> QED
        BY <2>1, <2>4, <2>5, <4>1
    <3>2. CASE ~\E r \in rows : r.cov = v /\ r.block \in C
      BY <2>1, <3>2 DEF Own
    <3> QED
      BY <3>1, <3>2
  <2> QED
    BY <2>1, <2>4, <2>5, <2>7, QueueGrows
<1> QED
  BY <1>1, <1>2

\* A drained chunk brings every covenant it names up to date; the others are
\* named by what is left.
LEMMA DrainKeepsQueue ==
    ASSUME QueueInv, LogInv, DrainProjection(ProjectionChunk)
    PROVE  QueueInv'
<1> DEFINE last == ChunkEnd(ProjectionChunk)
           touched == {r.cov : r \in {q \in log : q.seq \in Queued /\ q.seq <= last}}
<1>1. /\ Queued # {}
      /\ derived' = [v \in Covenants |-> IF v \in touched THEN {r \in rows : r.cov = v} ELSE derived[v]]
      /\ projected' = last /\ work' = LeftInQueue(last)
      /\ UNCHANGED <<rows, log, nextSeq>>
  BY DEF DrainProjection, tables
<1>2. nextSeq \in Nat \ {0} /\ work \subseteq 1..(nextSeq - 1)
  BY DEF QueueInv, WorkInv, LogInv, LogTypes
<1>3. Queued \subseteq 1..(nextSeq - 1)
  BY <1>2 DEF Queued
<1>4. IsFiniteSet(Queued)
  <2>1. IsFiniteSet(1..(nextSeq - 1))
    <3>1. 1 \in Int /\ nextSeq - 1 \in Int
      BY <1>2
    <3> QED
      BY <3>1, FS_Interval
  <2>2. Queued \in SUBSET (1..(nextSeq - 1))
    BY <1>3
  <2> QED
    BY <2>1, <2>2, FS_Subset
<1>5. last \in Queued
  <2>1. ProjectionChunk \in Nat \ {0}
    BY EngineAssumption
  <2>2. Queued \subseteq Nat
    BY <1>3
  <2> QED
    BY <1>1, <1>4, <2>1, <2>2, ChunkEnds
<1> HIDE DEF last
<1>6. last \in 1..(nextSeq - 1)
  BY <1>3, <1>5
<1>7. WorkInv'
  <2>1. work' \subseteq work
    BY <1>1 DEF LeftInQueue
  <2>2. last \in Nat /\ last < nextSeq
    BY <1>2, <1>6
  <2> QED
    BY <1>1, <1>2, <2>1, <2>2 DEF WorkInv
<1>8. ASSUME NEW v \in Covenants PROVE Covered(v)'
  <2>1. Own(v)' = Own(v)
    BY <1>1 DEF Own
  <2>2. CASE v \in touched
    <3> HIDE DEF touched
    <3> QED
      BY <1>1, <2>1, <2>2 DEF Covered, Own
  <2>3. CASE v \notin touched /\ derived[v] = Own(v)
    <3> HIDE DEF touched
    <3> QED
      BY <1>1, <2>1, <2>3 DEF Covered
  <2>4. CASE v \notin touched /\ derived[v] # Own(v)
    <3>1. PICK r \in log : r.cov = v /\ r.seq \in Queued
      BY <2>4 DEF QueueInv, Covered
    <3>2. ~(r.seq <= last)
      BY <2>4, <3>1
    <3>3. r.seq \in work /\ r.seq > last
      BY <1>3, <1>6, <3>1, <3>2 DEF Queued
    <3>4. r.seq \in Queued'
      BY <1>1, <3>3 DEF Queued, LeftInQueue
    <3> QED
      BY <1>1, <3>1, <3>4 DEF Covered
  <2> QED
    BY <2>2, <2>3, <2>4
<1> QED
  BY <1>7, <1>8 DEF QueueInv

LEMMA NextQueue == LogInv /\ QueueInv /\ [Next]_vars => QueueInv'
<1> SUFFICES ASSUME LogInv, QueueInv, [Next]_vars PROVE QueueInv'
  OBVIOUS
<1>1. ASSUME UNCHANGED <<rows, log, nextSeq, work, projected, derived>> PROVE QueueInv'
  BY <1>1, QueueFrame
<1>2. nextSeq \in Nat \ {0}
  BY DEF LogInv, LogTypes
<1>3. CASE RollBack \/ \E a \in Blocks : ReAnchor(a)
  BY <1>3, RollbackKeepsQueue DEF RollBack, ReAnchor
<1>4. CASE StartFreshIndex
  BY <1>2, <1>4, EmptyKeepsQueue DEF StartFreshIndex
<1>5. ASSUME NEW b \in Blocks, ProcessBlock(b) PROVE QueueInv'
  BY <1>1, <1>2, <1>5, ApplyKeepsQueue DEF ProcessBlock, storeVars, tables, queues
<1>6. CASE FinishPass
  BY <1>1, <1>2, <1>6, EmptyKeepsQueue DEF FinishPass, FinalCheckpoint, storeVars, tables, queues
<1>7. CASE Drain
  BY <1>7, DrainKeepsQueue DEF Drain
<1>8. CASE NodeStep \/ BeginPass \/ BeginPassWithoutTip \/ WalkRefused \/ Interrupted
           \/ ProbeCursor \/ Repoint \/ RestartAtSink \/ UNCHANGED vars
  BY <1>1, <1>8
  DEF NodeStep, SinkMoves, NodeSwitches, BeginPass, SetTip, BeginPassWithoutTip, WalkRefused,
      Interrupted, ProbeCursor, Repoint, CheckpointCursor, RestartAtSink, ResetCursor,
      vars, storeVars, tables, queues
<1>9. ASSUME NEW b \in Blocks, Walk(b) \/ ApplyRefused(b) PROVE QueueInv'
  BY <1>1, <1>9 DEF Walk, ApplyRefused, storeVars, tables, queues
<1> QED
  BY <1>3, <1>4, <1>5, <1>6, <1>7, <1>8, <1>9 DEF Next, PassStep, RecoveryStep

\* No acceptance, no rollback and no drained chunk leaves token tables silently
\* stale: what they were built from is the index, or queued work names them.
THEOREM ProjectionNeverForgets == Spec => []ProjectionCovered
<1>1. Init => QueueInv
  BY DEF Init, StoreInit, QueueInv, WorkInv, Covered, Own
<1>2. Spec => []QueueInv
  BY <1>1, NextQueue, LogInvariance, PTL DEF Spec
<1>3. QueueInv => ProjectionCovered
  BY DEF QueueInv, Covered, Own, ProjectionCovered
<1> QED
  BY <1>2, <1>3, PTL

-----------------------------------------------------------------------------
(* The node *)

\* The sink is the heaviest block the node can be asked about.
NodeInv == /\ sink \in Blocks
           /\ KnowsUpTo(sink, unknown)

LEMMA InitNode == Init => NodeInv
<1> SUFFICES ASSUME Init PROVE NodeInv
  OBVIOUS
<1>1. sink = Root /\ unknown = Blocks \ Path[Root] /\ Root \in Blocks
  BY EngineAssumption DEF Init
<1>2. ASSUME NEW x \in Blocks \ unknown PROVE Weight[x] <= Weight[Root]
  <2>1. x \in Path[Root]
    BY <1>1
  <2>2. Weight[x] \in Nat /\ Weight[Root] \in Nat /\ (x # Root => Weight[x] < Weight[Root])
    BY <1>1, <2>1, TreeAssumption
  <2> QED
    BY <2>2
<1> QED
  BY <1>1, <1>2 DEF NodeInv, KnowsUpTo

LEMMA NextNode == NodeInv /\ [Next]_vars => NodeInv'
<1> SUFFICES ASSUME NodeInv, [Next]_vars PROVE NodeInv'
  OBVIOUS
<1>1. ASSUME UNCHANGED nodeVars PROVE NodeInv'
  BY <1>1 DEF nodeVars, NodeInv, KnowsUpTo
<1>2. ASSUME NEW b \in Blocks, SinkMoves(b) PROVE NodeInv'
  <2>1. sink' = b /\ unknown' = unknown \ (Path[b] \ Path[sink]) /\ Weight[b] > Weight[sink]
    BY <1>2 DEF SinkMoves
  <2>2. ASSUME NEW x \in Blocks \ unknown' PROVE Weight[x] <= Weight[b]
    <3>1. Weight[x] \in Nat /\ Weight[b] \in Nat /\ Weight[sink] \in Nat
      BY TreeAssumption DEF NodeInv
    <3>2. CASE x \notin unknown
      <4>1. Weight[x] <= Weight[sink]
        BY <3>2 DEF NodeInv, KnowsUpTo
      <4> QED
        BY <2>1, <3>1, <4>1
    <3>3. CASE x \in unknown
      <4>1. x \in Path[b]
        BY <2>1, <3>3
      <4>2. x # b => Weight[x] < Weight[b]
        BY <4>1, TreeAssumption
      <4> QED
        BY <3>1, <4>2
    <3> QED
      BY <3>2, <3>3
  <2> QED
    BY <2>1, <2>2 DEF NodeInv, KnowsUpTo
<1>3. ASSUME NEW view \in NodeViews, NodeSwitches(view[1], view[2]) PROVE NodeInv'
  <2>1. view[1] \in Blocks /\ KnowsUpTo(view[1], view[2])
    BY EngineAssumption
  <2>2. sink' = view[1] /\ unknown' = view[2]
    BY <1>3 DEF NodeSwitches
  <2> QED
    BY <2>1, <2>2 DEF NodeInv, KnowsUpTo
<1>4. CASE NodeStep
  BY <1>2, <1>3, <1>4 DEF NodeStep
<1>5. ASSUME NEW b \in Blocks, \/ Walk(b) \/ ProcessBlock(b) \/ ApplyRefused(b) \/ ReAnchor(b)
      PROVE  NodeInv'
  BY <1>1, <1>5 DEF Walk, ProcessBlock, ApplyRefused, ReAnchor
<1>6. CASE BeginPass \/ BeginPassWithoutTip \/ StartFreshIndex \/ WalkRefused \/ RollBack
           \/ FinishPass \/ Interrupted \/ ProbeCursor \/ Repoint \/ RestartAtSink \/ Drain
           \/ UNCHANGED vars
  BY <1>1, <1>6
  DEF BeginPass, BeginPassWithoutTip, StartFreshIndex, WalkRefused, RollBack, FinishPass,
      Interrupted, ProbeCursor, Repoint, RestartAtSink, Drain, vars
<1> QED
  BY <1>4, <1>5, <1>6 DEF Next, PassStep, RecoveryStep

\* So a walk that takes blocks away adds some: the chain the node answers with
\* is never a part of the one it leaves.
LEMMA WalkAddsSome ==
    ASSUME NodeInv, NEW b \in Blocks, NEW s \in WalkEnds(b), WalkRemoves(b, s) # {}
    PROVE  WalkAdds(b, s) # {}
<1>1. b \notin unknown /\ WalkRemoves(b, s) = Path[b] \ Path[s] /\ WalkAdds(b, s) = Path[s] \ Path[b]
  BY DEF WalkRemoves, WalkAdds, RemovedFrom, AddedFrom
<1>2. s \in Blocks /\ s \in Path[s]
  BY TreeAssumption DEF WalkEnds, AddedFrom, NodeInv
<1>3. CASE s = sink
  <2> SUFFICES ASSUME s \in Path[b] PROVE FALSE
    BY <1>1, <1>2
  <2>1. s # b
    BY <1>1
  <2>2. Weight[s] < Weight[b] /\ Weight[s] \in Nat /\ Weight[b] \in Nat
    BY <1>2, <2>1, TreeAssumption
  <2>3. Weight[b] <= Weight[s]
    BY <1>1, <1>3 DEF NodeInv, KnowsUpTo
  <2> QED
    BY <2>2, <2>3
<1>4. CASE s # sink
  BY <1>1, <1>2, <1>4 DEF WalkEnds, AddedFrom
<1> QED
  BY <1>3, <1>4

-----------------------------------------------------------------------------
(* Completeness *)

\* What rows say, and what they should say of a part of the chain when the chain
\* in skipped lies below the index.
Entries(R) == {<<r.block, r.tx, r.cov>> : r \in R}

ActiveAbove(skipped, b, t, v) ==
    \/ \E c \in Outputs[t] : CovenantOf[c] = v
    \/ \E c \in Inputs[t] :
          /\ CovenantOf[c] = v
          /\ \E a \in Path[b] \ skipped : \E u \in AcceptedTxs(a) : c \in Outputs[u]

Due(skipped, S) ==
    {x \in (S \ skipped) \X Txs \X Covenants :
        x[2] \in AcceptedTxs(x[1]) /\ ActiveAbove(skipped, x[1], x[2], x[3])}

Covers(R, skipped, S) == Entries(R) = Due(skipped, S)

IsDue(skipped, S, b, t, v) ==
    /\ b \in S /\ b \notin skipped /\ t \in Txs /\ v \in Covenants
    /\ t \in AcceptedTxs(b) /\ ActiveAbove(skipped, b, t, v)

\* Covers, entry by entry.
LEMMA CoversIs ==
    ASSUME NEW R, NEW skipped, NEW S
    PROVE  Covers(R, skipped, S) <=>
                /\ \A r \in R : IsDue(skipped, S, r.block, r.tx, r.cov)
                /\ \A b, t, v : IsDue(skipped, S, b, t, v) =>
                      \E r \in R : r.block = b /\ r.tx = t /\ r.cov = v
<1>1. \A b, t, v : <<b, t, v>> \in Due(skipped, S) <=> IsDue(skipped, S, b, t, v)
  BY DEF Due, IsDue
<1>2. \A x \in Due(skipped, S) : x = <<x[1], x[2], x[3]>>
  BY DEF Due
<1>3. \A r \in R : <<r.block, r.tx, r.cov>> \in Entries(R)
  BY DEF Entries
<1>4. \A x \in Entries(R) : \E r \in R : x = <<r.block, r.tx, r.cov>>
  BY DEF Entries
<1>5. Covers(R, skipped, S) <=> /\ \A x \in Entries(R) : x \in Due(skipped, S)
                                /\ \A x \in Due(skipped, S) : x \in Entries(R)
  BY DEF Covers
<1>6. ASSUME Covers(R, skipped, S)
      PROVE  /\ \A r \in R : IsDue(skipped, S, r.block, r.tx, r.cov)
             /\ \A b, t, v : IsDue(skipped, S, b, t, v) =>
                      \E r \in R : r.block = b /\ r.tx = t /\ r.cov = v
  <2>1. \A r \in R : <<r.block, r.tx, r.cov>> \in Due(skipped, S)
    BY <1>3, <1>5, <1>6
  <2>2. ASSUME NEW b, NEW t, NEW v, IsDue(skipped, S, b, t, v)
        PROVE  \E r \in R : r.block = b /\ r.tx = t /\ r.cov = v
    <3>1. <<b, t, v>> \in Entries(R)
      BY <1>1, <1>5, <1>6, <2>2
    <3>2. PICK r \in R : <<b, t, v>> = <<r.block, r.tx, r.cov>>
      BY <1>4, <3>1
    <3> QED
      BY <3>2
  <2> QED
    BY <1>1, <2>1, <2>2
<1>7. ASSUME \A r \in R : IsDue(skipped, S, r.block, r.tx, r.cov),
             \A b, t, v : IsDue(skipped, S, b, t, v) =>
                      \E r \in R : r.block = b /\ r.tx = t /\ r.cov = v
      PROVE  Covers(R, skipped, S)
  <2>1. ASSUME NEW x \in Entries(R) PROVE x \in Due(skipped, S)
    BY <1>1, <1>4, <1>7, <2>1
  <2>2. ASSUME NEW x \in Due(skipped, S) PROVE x \in Entries(R)
    <3>1. PICK b, t, v : x = <<b, t, v>>
      BY <1>2
    <3>2. PICK r \in R : r.block = b /\ r.tx = t /\ r.cov = v
      BY <1>1, <1>7, <2>2, <3>1
    <3> QED
      BY <1>3, <3>1, <3>2
  <2> QED
    BY <1>5, <2>1, <2>2
<1> QED
  BY <1>6, <1>7

\* Rows that go leave what is due of the rest of the chain.
LEMMA CoversLess ==
    ASSUME NEW R, NEW skipped, NEW S, Covers(R, skipped, S),
           NEW gone, NEW T, T \subseteq S, \A r \in R : r.block \in T <=> r.block \notin gone,
           NEW kept, kept = {r \in R : r.block \notin gone}
    PROVE  Covers(kept, skipped, T)
<1>1. /\ \A r \in R : IsDue(skipped, S, r.block, r.tx, r.cov)
      /\ \A b, t, v : IsDue(skipped, S, b, t, v) =>
                      \E r \in R : r.block = b /\ r.tx = t /\ r.cov = v
  BY CoversIs
<1>2. \A r \in kept : IsDue(skipped, T, r.block, r.tx, r.cov)
  BY <1>1 DEF IsDue
<1>3. ASSUME NEW b, NEW t, NEW v, IsDue(skipped, T, b, t, v)
      PROVE  \E r \in kept : r.block = b /\ r.tx = t /\ r.cov = v
  <2>1. IsDue(skipped, S, b, t, v) /\ b \in T
    BY <1>3 DEF IsDue
  <2> QED
    BY <1>1, <2>1
<1> QED
  BY <1>2, <1>3, CoversIs

\* What is skipped matters only where the chain is looked at.
LEMMA CoversAbove ==
    ASSUME NEW R, NEW S \in SUBSET Blocks, \A b \in S : Path[b] \subseteq S,
           NEW skipped, NEW other, \A b \in S : b \in skipped <=> b \in other,
           Covers(R, skipped, S)
    PROVE  Covers(R, other, S)
<1>1. ASSUME NEW b \in S, NEW t, NEW v
      PROVE  ActiveAbove(skipped, b, t, v) <=> ActiveAbove(other, b, t, v)
  <2>1. Path[b] \ skipped = Path[b] \ other
    OBVIOUS
  <2> QED
    BY <2>1 DEF ActiveAbove
<1>2. Due(skipped, S) = Due(other, S)
  <2>1. S \ skipped = S \ other
    OBVIOUS
  <2>2. ASSUME NEW x \in (S \ skipped) \X Txs \X Covenants
        PROVE  ActiveAbove(skipped, x[1], x[2], x[3]) <=> ActiveAbove(other, x[1], x[2], x[3])
    BY <1>1
  <2> QED
    BY <2>1, <2>2 DEF Due
<1> QED
  BY <1>2 DEF Covers

\* What classify finds in a block is what is due of it, when the store holds what
\* is due of the chain below.
LEMMA ClassifyFindsDue ==
    ASSUME CoinsAgree, NEW b \in Blocks, Indexed \subseteq Path[b] \ {b}, b \notin base,
           Covers(rows, base, Path[b] \ {b}), NEW i \in DOMAIN Accepted[b], NEW v
    PROVE  v \in Touched(b, i) <=> ActiveAbove(base, b, Accepted[b][i], v)
<1> DEFINE t == Accepted[b][i]
<1>1. /\ \A r \in rows : IsDue(base, Path[b] \ {b}, r.block, r.tx, r.cov)
      /\ \A a, u, w : IsDue(base, Path[b] \ {b}, a, u, w) =>
                      \E r \in rows : r.block = a /\ r.tx = u /\ r.cov = w
  BY CoversIs
<1>2. /\ t \in Txs /\ t \in AcceptedTxs(b) /\ Outputs[t] \subseteq Coins /\ Inputs[t] \subseteq Coins
      /\ b \in Path[b]
  BY Listed, DataAssumption, TreeAssumption
<1>3. \A a \in Indexed : a \in Path[b] /\ a # b /\ a \notin base
  BY <1>1 DEF Indexed, IsDue
<1>4. ASSUME NEW c \in Inputs[t]
      PROVE  c \in SpentBy(b, i) <=>
                \E a \in Path[b] \ base : \E u \in AcceptedTxs(a) : c \in Outputs[u]
  <2>1. c \in Coins /\ Takes(c, b)
    BY <1>2, <1>4 DEF Takes
  <2>2. ASSUME Live(c) PROVE \E a \in Path[b] \ base : \E u \in AcceptedTxs(a) : c \in Outputs[u]
    <3>1. created[c] \in Indexed /\ Makes(c, created[c])
      BY <2>1, <2>2 DEF CoinsAgree, Live
    <3> QED
      BY <1>3, <3>1 DEF Makes
  <2>3. ASSUME NEW j \in 1..(i - 1), c \in Outputs[Accepted[b][j]]
        PROVE  \E a \in Path[b] \ base : \E u \in AcceptedTxs(a) : c \in Outputs[u]
    <3>1. j \in DOMAIN Accepted[b]
      BY Listed
    <3>2. Accepted[b][j] \in AcceptedTxs(b)
      BY <3>1, Listed
    <3> QED
      BY <1>2, <2>3, <3>2
  <2>4. ASSUME NEW a \in Path[b] \ base, NEW u \in AcceptedTxs(a), c \in Outputs[u]
        PROVE  c \in SpentBy(b, i)
    <3>1. CASE a = b
      <4>1. PICK j \in DOMAIN Accepted[b] : u = Accepted[b][j]
        BY <3>1, Listed
      <4>2. ~(i <= j)
        BY <2>4, <4>1, ConsensusAssumption
      <4>3. j \in 1..(i - 1)
        BY <4>2, Listed
      <4> QED
        BY <2>4, <4>1, <4>3 DEF SpentBy
    <3>2. CASE a # b
      <4>1. a \in Blocks /\ u \in Txs
        BY TreeAssumption, Listed
      <4>2. CovenantOf[c] \in Covenants
        BY <2>1, DataAssumption
      <4>3. IsDue(base, Path[b] \ {b}, a, u, CovenantOf[c])
        BY <2>4, <3>2, <4>1, <4>2 DEF IsDue, ActiveAbove
      <4>4. a \in Indexed /\ Makes(c, a)
        <5>1. PICK r \in rows : r.block = a
          BY <1>1, <4>3
        <5>2. a \in Indexed
          BY <5>1 DEF Indexed
        <5>3. Makes(c, a)
          BY <2>4 DEF Makes
        <5> QED
          BY <5>2, <5>3
      <4>5. created[c] # NoBlock
        BY <2>1, <4>4 DEF CoinsAgree
      <4>6. spent[c] = NoBlock
        <5> SUFFICES ASSUME spent[c] # NoBlock PROVE FALSE
          OBVIOUS
        <5>1. spent[c] \in Indexed /\ Takes(c, spent[c])
          BY <2>1 DEF CoinsAgree
        <5> QED
          BY <1>2, <1>3, <2>1, <5>1, OneSpender
      <4> QED
        BY <4>5, <4>6 DEF SpentBy, Live
    <3> QED
      BY <3>1, <3>2
  <2> QED
    BY <2>2, <2>3, <2>4 DEF SpentBy
<1>5. v \in Touched(b, i) <=> \/ \E c \in Outputs[t] : CovenantOf[c] = v
                              \/ \E c \in SpentBy(b, i) : CovenantOf[c] = v
  BY DEF Touched
<1>6. SpentBy(b, i) \subseteq Inputs[t]
  BY DEF SpentBy
<1> HIDE DEF t
<1>7. v \in Touched(b, i) <=> ActiveAbove(base, b, t, v)
  BY <1>4, <1>5, <1>6 DEF ActiveAbove
<1> QED
  BY <1>7 DEF t

\* Applying a block adds what is due of it.
LEMMA ProcessCovers ==
    ASSUME CoinsAgree, nextSeq \in Nat, NEW b \in Blocks, Indexed \subseteq Path[b] \ {b}, b \notin base,
           Covers(rows, base, Path[b] \ {b})
    PROVE  Covers(rows \cup NewRows(Classify(b)), base, Path[b])
<1> DEFINE B == Classify(b)
           N == NewRows(B)
<1>1. /\ \A r \in rows : IsDue(base, Path[b] \ {b}, r.block, r.tx, r.cov)
      /\ \A p, u, w : IsDue(base, Path[b] \ {b}, p, u, w) =>
                      \E r \in rows : r.block = p /\ r.tx = u /\ r.cov = w
  BY CoversIs
<1>2. \A r \in N : \E e \in B.events : r.block = b /\ r.tx = e.tx /\ r.cov = e.cov
  <2>1. B.block = b
    BY DEF Classify
  <2> HIDE DEF B
  <2> QED
    BY <2>1 DEF NewRows
<1>3. \A e \in B.events : \E r \in N : r.block = b /\ r.tx = e.tx /\ r.cov = e.cov
  <2>1. B.block = b
    BY DEF Classify
  <2>2. Keys(B)
    BY ClassifiedKeys
  <2> HIDE DEF B
  <2>3. \A e \in B.events : RowOf(B, e) \in N
    BY <2>2, RowPerEvent
  <2>4. \A e \in B.events : RowOf(B, e).block = b /\ RowOf(B, e).tx = e.tx /\ RowOf(B, e).cov = e.cov
    BY <2>1 DEF RowOf
  <2> QED
    BY <2>3, <2>4
<1>4. \A i \in DOMAIN Accepted[b] : \A v : v \in Touched(b, i) <=> ActiveAbove(base, b, Accepted[b][i], v)
  BY ClassifyFindsDue
<1> HIDE DEF N
<1>5. ASSUME NEW r \in rows \cup N PROVE IsDue(base, Path[b], r.block, r.tx, r.cov)
  <2>1. CASE r \in rows
    BY <1>1, <2>1 DEF IsDue
  <2>2. CASE r \in N
    <3>1. PICK e \in B.events : r.block = b /\ r.tx = e.tx /\ r.cov = e.cov
      BY <1>2, <2>2
    <3>2. /\ e.index \in DOMAIN Accepted[b] /\ e.tx = Accepted[b][e.index]
          /\ e.cov \in Touched(b, e.index) /\ e.cov \in Covenants
      BY ClassifiedEvents
    <3>3. e.tx \in Txs /\ e.tx \in AcceptedTxs(b) /\ b \in Path[b]
      BY <3>2, Listed, TreeAssumption
    <3>4. ActiveAbove(base, b, e.tx, e.cov)
      BY <1>4, <3>2
    <3> QED
      BY <3>1, <3>2, <3>3, <3>4 DEF IsDue
  <2> QED
    BY <2>1, <2>2
<1>6. ASSUME NEW a, NEW t, NEW v, IsDue(base, Path[b], a, t, v)
      PROVE  \E r \in rows \cup N : r.block = a /\ r.tx = t /\ r.cov = v
  <2>1. CASE a # b
    <3>1. IsDue(base, Path[b] \ {b}, a, t, v)
      BY <1>6, <2>1 DEF IsDue
    <3>2. PICK r \in rows : r.block = a /\ r.tx = t /\ r.cov = v
      BY <3>1, CoversIs
    <3> QED
      BY <3>2
  <2>2. CASE a = b
    <3>1. t \in AcceptedTxs(b) /\ ActiveAbove(base, b, t, v)
      BY <1>6, <2>2 DEF IsDue
    <3>2. PICK i \in DOMAIN Accepted[b] : Accepted[b][i] = t
      BY <3>1, Listed
    <3>3. v \in Touched(b, i)
      BY <1>4, <3>1, <3>2
    <3>4. PICK e \in B.events : e.cov = v /\ e.tx = Accepted[b][i]
      BY <3>3, ClassifiedEvents
    <3> QED
      BY <1>3, <2>2, <3>2, <3>4
  <2> QED
    BY <2>1, <2>2
<1>7. Covers(rows \cup N, base, Path[b])
  BY <1>5, <1>6, CoversIs
<1> QED
  BY <1>7 DEF N

Convex(S) == \A x, z \in S : \A y \in Path[z] : x \in Path[y] => y \in S

\* The chain the fresh start skipped is the lower end of the cursor's chain, and a
\* pass applies a stretch of chain without holes above it.
BaseInv ==
    /\ base \subseteq Blocks
    /\ \A b \in base : Path[b] \subseteq base
    /\ cursor # NoBlock => base \subseteq Path[cursor]
    /\ pc \in {"rollback", "apply"} => todo \cap base = {} /\ Convex(todo)
    /\ pc = "repoint" => base \subseteq Path[anchor]

\* Between passes the rows are what is due up to the cursor; while a pass applies
\* blocks, what is due up to the last one it saw, whether it was committed or not.
CoverInv ==
    /\ failures \in Nat
    /\ failures = 0 /\ Sound =>
          /\ BaseInv
          /\ pc \in {"idle", "walk", "rollback", "probe"} /\ cursor # NoBlock => Covers(rows, base, Path[cursor])
          /\ pc = "rollback" => todo # {}
          /\ pc = "apply" =>
                /\ \A x \in todo : Covers(rows, base, Path[x] \ todo)
                /\ lastSeen # NoBlock => Covers(rows, base, Path[lastSeen])
                /\ todo = {} /\ lastSeen = NoBlock => Covers(rows, base, Path[cursor])
                /\ since > 0 => lastSeen \notin DOMAIN batches
                /\ since = 0 /\ lastSeen # NoBlock => cursor = lastSeen
          /\ pc = "repoint" => Covers(rows, base, Path[anchor])

\* Two blocks of one chain are each below the other only when they are the same.
LEMMA NoCycle ==
    ASSUME NEW a \in Blocks, NEW b \in Blocks, a \in Path[b], b \in Path[a]
    PROVE  a = b
<1> SUFFICES ASSUME a # b PROVE FALSE
  OBVIOUS
<1>1. Daa[a] < Daa[b] /\ Daa[b] < Daa[a] /\ Daa[a] \in Nat /\ Daa[b] \in Nat
  BY TreeAssumption
<1> QED
  BY <1>1

\* A rollback leaves the rows of the other blocks: every row has a batch.
LEMMA RollbackRows ==
    ASSUME RowTypes, NEW R, RollbackRemovedBlocks(R)
    PROVE  rows' = {r \in rows : r.block \notin R}
<1>1. \A r \in rows : r.block \in DOMAIN batches
  BY DEF RowTypes
<1>2. CASE Canonical(R) = {}
  <2>1. rows' = rows
    BY <1>2 DEF RollbackRemovedBlocks, storeVars, tables
  <2> QED
    BY <1>1, <1>2, <2>1 DEF Canonical
<1>3. CASE Canonical(R) # {}
  <2>1. rows' = {r \in rows : r.block \notin Canonical(R)}
    BY <1>3 DEF RollbackRemovedBlocks
  <2> QED
    BY <1>1, <2>1 DEF Canonical
<1> QED
  BY <1>2, <1>3

\* The walk's stretch of chain hangs on what it shares with the cursor's chain.
LEMMA StretchAbove ==
    ASSUME NEW c \in Blocks, NEW s \in Blocks, NEW x \in Path[s] \ Path[c]
    PROVE  Path[x] \ (Path[s] \ Path[c]) = Path[c] \cap Path[s]
<1>1. x \in Blocks /\ Path[x] \subseteq Path[s]
  BY TreeAssumption
<1>2. ASSUME NEW y \in Path[c] \cap Path[s] PROVE y \in Path[x]
  <2>1. y \in Blocks /\ Path[y] \subseteq Path[c]
    BY TreeAssumption
  <2> QED
    BY <2>1, TreeAssumption
<1> QED
  BY <1>1, <1>2

\* The stretch has no holes.
LEMMA StretchConvex ==
    ASSUME NEW c \in Blocks, NEW s \in Blocks
    PROVE  Convex(Path[s] \ Path[c])
<1>1. ASSUME NEW x \in Path[s] \ Path[c], NEW z \in Path[s] \ Path[c], NEW y \in Path[z],
             x \in Path[y]
      PROVE  y \in Path[s] \ Path[c]
  <2>1. z \in Blocks /\ y \in Blocks /\ y \in Path[s]
    BY <1>1, TreeAssumption
  <2>2. y \notin Path[c]
    BY <1>1, <2>1, TreeAssumption
  <2> QED
    BY <2>1, <2>2
<1> QED
  BY <1>1 DEF Convex

\* Without its first block a stretch is one still, and hangs on that block.
LEMMA StretchShrinks ==
    ASSUME NEW S \in SUBSET Blocks, Convex(S), NEW b \in S, \A x \in S : b \in Path[x]
    PROVE  /\ Path[b] \ S = Path[b] \ {b}
           /\ Convex(S \ {b})
           /\ \A x \in S \ {b} : Path[x] \ (S \ {b}) = Path[b]
<1>1. b \in Path[b] /\ b \in Blocks
  BY TreeAssumption
<1>2. Path[b] \ S = Path[b] \ {b}
  BY <1>1, NoCycle
<1>3. Convex(S \ {b})
  <2>1. ASSUME NEW x \in S \ {b}, NEW z \in S \ {b}, NEW y \in Path[z], x \in Path[y]
        PROVE  y \in S \ {b}
    <3>1. y \in S /\ x \in Blocks
      BY <2>1 DEF Convex
    <3>2. y # b
      BY <1>1, <2>1, <3>1, NoCycle
    <3> QED
      BY <3>1, <3>2
  <2> QED
    BY <2>1 DEF Convex
<1>4. ASSUME NEW x \in S \ {b} PROVE Path[x] \ (S \ {b}) = Path[b]
  <2>1. x \in S /\ x \in Blocks /\ b \in Path[x]
    OBVIOUS
  <2>2. ASSUME NEW y \in Path[x], y \notin S \ {b} PROVE y \in Path[b]
    <3>1. CASE y = b
      BY <1>1, <3>1
    <3>2. CASE y # b
      <4>1. b \notin Path[y]
        BY <2>1, <2>2, <3>2 DEF Convex
      <4> QED
        BY <2>1, <4>1, TreeAssumption
    <3> QED
      BY <3>1, <3>2
  <2>3. ASSUME NEW y \in Path[b] PROVE y \in Path[x] /\ y \notin S \ {b}
    <3>1. y \in Path[x]
      BY <2>1, <2>3, TreeAssumption
    <3>2. y \in S => y = b
      BY <1>1, <2>3, NoCycle
    <3> QED
      BY <3>1, <3>2
  <2> QED
    BY <2>2, <2>3
<1> QED
  BY <1>2, <1>3, <1>4

\* The next block of a pass: what is below it is covered, then it is.
LEMMA ProcessKeepsCover ==
    ASSUME IndexInv, nextSeq \in Nat, TablesInv, BatchInv, CoverInv, Sound, failures = 0,
           NEW b \in Blocks, ProcessBlock(b)
    PROVE  /\ cursor' # NoBlock /\ base' = base \cap Path[cursor']
           /\ base' \subseteq Blocks /\ \A a \in base' : Path[a] \subseteq base'
           /\ todo' \cap base' = {} /\ Convex(todo')
           /\ \A x \in todo' : Covers(rows', base', Path[x] \ todo')
           /\ Covers(rows', base', Path[b])
           /\ since' > 0 => b \notin DOMAIN batches'
           /\ since' = 0 => cursor' = b
<1>1. /\ pc = "apply" /\ b \in todo /\ todo' = todo \ {b} /\ base' = base \cap Path[cursor']
      /\ \A x \in todo : b \in Path[x]
      /\ todo \subseteq Blocks /\ since \in Nat
  BY DEF ProcessBlock, First, IndexInv, Struct
<1>2. /\ base \subseteq Blocks /\ \A a \in base : Path[a] \subseteq base
      /\ cursor # NoBlock => base \subseteq Path[cursor]
      /\ todo \cap base = {} /\ Convex(todo)
      /\ Covers(rows, base, Path[b] \ todo)
  BY <1>1 DEF CoverInv, BaseInv
<1>3. CoinsAgree /\ Indexed \subseteq Path[b] \ {b}
  BY <1>1 DEF TablesInv, Sound, IndexInv, ChainInv, ApplyReady
<1>4. /\ Path[b] \ todo = Path[b] \ {b} /\ Convex(todo')
      /\ \A x \in todo' : Path[x] \ todo' = Path[b]
  BY <1>1, <1>2, StretchShrinks
<1>5. Covers(rows \cup NewRows(Classify(b)), base, Path[b])
  <2>1. Covers(rows, base, Path[b] \ {b}) /\ b \notin base
    BY <1>1, <1>2, <1>4
  <2> QED
    BY <1>3, <2>1, ProcessCovers
<1>6. Path[b] \in SUBSET Blocks /\ \A a \in Path[b] : Path[a] \subseteq Path[b]
  BY TreeAssumption
<1>7. cursor # NoBlock
  BY <1>1 DEF IndexInv, ChainInv, PassInv
<1>8. cursor' # NoBlock /\ Covers(rows', base', Path[b])
  <2>1. CASE CommitsBlock(Classify(b))
    <3>1. ~AlreadyApplied(Classify(b)) /\ cursor' = b
      BY <2>1, ProcessedIsNew
    <3>2. rows' = rows \cup NewRows(Classify(b))
      BY <2>1, <3>1 DEF ProcessBlock, ApplyAcceptedBlock
    <3>3. base' = base \cap Path[b] /\ b # NoBlock
      BY <1>1, <3>1, TreeAssumption
    <3>4. Covers(rows \cup NewRows(Classify(b)), base \cap Path[b], Path[b])
      BY <1>5, <1>6, CoversAbove
    <3> QED
      BY <3>1, <3>2, <3>3, <3>4
  <2>2. CASE ~CommitsBlock(Classify(b))
    <3>1. UNCHANGED <<rows, cursor>> /\ Classify(b).events = {}
      BY <2>2 DEF ProcessBlock, CommitsBlock, storeVars, tables
    <3>2. NewRows(Classify(b)) = {}
      BY <3>1 DEF NewRows
    <3>3. base' = base /\ rows \cup NewRows(Classify(b)) = rows
      BY <1>1, <1>2, <1>7, <3>1, <3>2
    <3> QED
      BY <1>5, <1>7, <3>1, <3>3
  <2> QED
    BY <2>1, <2>2
<1>9. base' \subseteq Blocks /\ \A a \in base' : Path[a] \subseteq base'
  <2>1. cursor' \in Blocks
    <3>1. cursor' = b \/ cursor' = cursor
      <4>1. CASE CommitsBlock(Classify(b))
        BY <4>1, ProcessedIsNew
      <4>2. CASE ~CommitsBlock(Classify(b))
        BY <4>2 DEF ProcessBlock, storeVars
      <4> QED
        BY <4>1, <4>2
    <3> QED
      BY <1>7, <3>1 DEF IndexInv, Struct, Optional
  <2> QED
    BY <1>1, <1>2, <2>1, TreeAssumption
<1>10. todo' \cap base' = {}
  BY <1>1, <1>2
<1>11. \A x \in todo' : Covers(rows', base', Path[x] \ todo')
  BY <1>4, <1>8
<1>12. /\ since' > 0 => b \notin DOMAIN batches'
       /\ since' = 0 => cursor' = b
  <2>1. CASE CommitsBlock(Classify(b))
    <3>1. since' = 0
      BY <2>1 DEF ProcessBlock
    <3>2. cursor' = b
      BY <2>1, ProcessedIsNew
    <3> QED
      BY <3>1, <3>2
  <2>2. CASE ~CommitsBlock(Classify(b))
    <3>1. since' = since + 1 /\ batches' = batches /\ b \notin DOMAIN batches
      BY <2>2, ProcessedIsNew DEF ProcessBlock, storeVars, tables
    <3> QED
      BY <1>1, <3>1
  <2> QED
    BY <2>1, <2>2
<1> QED
  BY <1>1, <1>4, <1>8, <1>9, <1>10, <1>11, <1>12

LEMMA WalkKeepsCover ==
    ASSUME IndexInv, NodeInv, CoverInv, Sound, failures = 0, NEW s \in Blocks, Walk(s),
           UNCHANGED <<rows, batches, cursor, base, lastSeen, since, failures, resets, unswept>>
    PROVE  CoverInv'
<1>1. /\ pc = "walk" /\ s \in WalkEnds(cursor)
      /\ removed' = WalkRemoves(cursor, s) /\ todo' = WalkAdds(cursor, s)
      /\ pc' = IF removed' = {} THEN "apply" ELSE "rollback"
  BY DEF Walk
<1>2. cursor \in Blocks /\ cursor # NoBlock /\ lastSeen = NoBlock /\ since = 0
  BY <1>1, TreeAssumption DEF IndexInv, ChainInv, PassInv, Struct, Optional
<1>3. BaseInv /\ Covers(rows, base, Path[cursor]) /\ base \subseteq Path[cursor]
  BY <1>1, <1>2 DEF CoverInv, BaseInv
<1>4. todo' = {} \/ (todo' = Path[s] \ Path[cursor] /\ removed' = Path[cursor] \ Path[s])
  BY <1>1 DEF WalkRemoves, WalkAdds, RemovedFrom, AddedFrom
<1>5. Convex(todo') /\ todo' \cap base' = {}
  <2>1. Convex({})
    BY DEF Convex
  <2> QED
    BY <1>2, <1>3, <1>4, <2>1, StretchConvex
<1>6. BaseInv'
  BY <1>1, <1>3, <1>5 DEF BaseInv
<1>7. CASE removed' # {}
  <2>1. todo' # {}
    BY <1>1, <1>2, <1>7, WalkAddsSome
  <2> QED
    BY <1>1, <1>2, <1>3, <1>6, <1>7, <2>1 DEF CoverInv
<1>8. CASE removed' = {}
  <2>1. ASSUME NEW x \in todo' PROVE Path[x] \ todo' = Path[cursor]
    <3>1. todo' = Path[s] \ Path[cursor] /\ Path[cursor] \subseteq Path[s]
      BY <1>4, <1>8, <2>1
    <3>2. Path[x] \ todo' = Path[cursor] \cap Path[s]
      BY <1>2, <2>1, <3>1, StretchAbove
    <3> QED
      BY <3>1, <3>2
  <2>2. \A x \in todo' : Covers(rows', base', Path[x] \ todo')
    BY <1>3, <2>1
  <2> QED
    BY <1>1, <1>2, <1>3, <1>6, <1>8, <2>2 DEF CoverInv
<1> QED
  BY <1>7, <1>8

LEMMA RollBackKeepsCover ==
    ASSUME IndexInv, TablesInv, CoverInv, Sound, failures = 0, RollBack
    PROVE  CoverInv'
<1>1. /\ pc = "rollback" /\ pc' = "apply" /\ RollbackRemovedBlocks(removed)
      /\ UNCHANGED <<base, todo, since, lastSeen, anchor, failures>>
  BY DEF RollBack, historyVars
<1>2. cursor' = cursor /\ cursor \in Blocks /\ cursor # NoBlock /\ lastSeen = NoBlock /\ since = 0
  BY <1>1, RollbackEffect, TreeAssumption DEF IndexInv, ChainInv, PassInv, Struct, Optional
<1>3. rows' = {r \in rows : r.block \notin removed}
  BY <1>1, RollbackRows DEF TablesInv
<1>4. PICK s \in Blocks : removed = Path[cursor] \ Path[s] /\ todo = Path[s] \ Path[cursor]
  BY <1>1 DEF Sound, IndexInv, ChainInv, RollbackReady, RemovedFrom, AddedFrom
<1>5. BaseInv /\ Covers(rows, base, Path[cursor]) /\ todo # {}
  BY <1>1, <1>2 DEF CoverInv
<1>6. Covers(rows', base, Path[cursor] \cap Path[s])
  <2>1. \A r \in rows : r.block \in Path[cursor]
    BY <1>5, CoversIs DEF IsDue
  <2>2. \A r \in rows : r.block \in Path[cursor] \cap Path[s] <=> r.block \notin removed
    BY <1>4, <2>1
  <2>3. Path[cursor] \cap Path[s] \subseteq Path[cursor]
    OBVIOUS
  <2> QED
    BY <1>3, <1>5, <2>2, <2>3, CoversLess
<1>7. \A x \in todo : Covers(rows', base', Path[x] \ todo)
  <2>1. \A x \in todo : Path[x] \ todo = Path[cursor] \cap Path[s]
    BY <1>2, <1>4, StretchAbove
  <2>2. Covers(rows', base', Path[cursor] \cap Path[s])
    BY <1>1, <1>3, <1>6
  <2> QED
    BY <2>1, <2>2
<1>8. BaseInv'
  BY <1>1, <1>2, <1>5 DEF BaseInv
<1> QED
  BY <1>1, <1>2, <1>5, <1>7, <1>8 DEF CoverInv

LEMMA ReAnchorKeepsCover ==
    ASSUME IndexInv, TablesInv, CoverInv, Sound, failures = 0, NEW a \in Blocks, ReAnchor(a)
    PROVE  CoverInv'
<1>1. /\ pc = "probe" /\ pc' = "repoint" /\ RollbackRemovedBlocks(RollbackAbove(a))
      /\ anchor' = a /\ a \in Indexed /\ base' = base /\ failures' \in Nat
  <2>1. failures' = failures \/ FailureHappens
    BY DEF ReAnchor
  <2>2. failures' \in Nat
    BY <2>1 DEF FailureHappens, CoverInv
  <2> QED
    BY <2>2 DEF ReAnchor, Candidates, Indexed
<1>2. cursor' = cursor /\ cursor \in Blocks /\ cursor # NoBlock
  BY <1>1, RollbackEffect, TreeAssumption DEF IndexInv, ChainInv, PassInv, Struct, Optional
<1>3. rows' = {r \in rows : r.block \notin RollbackAbove(a)}
  BY <1>1, RollbackRows DEF TablesInv
<1>4. BaseInv /\ Covers(rows, base, Path[cursor])
  BY <1>1, <1>2 DEF CoverInv
<1>5. \A r \in rows : r.block \in Path[cursor] /\ r.block \notin base
  BY <1>4, CoversIs DEF IsDue
<1>6. a \in Path[cursor] /\ a \notin base /\ Path[a] \subseteq Path[cursor]
  BY <1>1, <1>2, <1>5, TreeAssumption DEF Indexed
<1>7. ASSUME NEW r \in rows PROVE r.block \in Path[a] <=> r.block \notin RollbackAbove(a)
  <2>1. r.block \in RollbackAbove(a) <=> Daa[r.block] > Daa[a]
    BY DEF RollbackAbove, AcceptingBlocksAbove
  <2>2. r.block \in Path[a] => ~(Daa[r.block] > Daa[a])
    <3>1. Daa[r.block] \in Nat /\ Daa[a] \in Nat
      BY <1>2, <1>5, TreeAssumption
    <3> QED
      BY <3>1, TreeAssumption
  <2>3. ~(Daa[r.block] > Daa[a]) => r.block \in Path[a]
    BY <1>2, <1>5, <1>6, ChainByDaa
  <2> QED
    BY <2>1, <2>2, <2>3
<1>8. Covers(rows', base', Path[a])
  BY <1>1, <1>3, <1>4, <1>6, <1>7, CoversLess
<1>9. base \subseteq Path[a]
  BY <1>2, <1>4, <1>6, TreeAssumption DEF BaseInv
<1>10. BaseInv'
  BY <1>1, <1>2, <1>4, <1>9 DEF BaseInv
<1> QED
  BY <1>1, <1>8, <1>10 DEF CoverInv

LEMMA StartKeepsCover ==
    ASSUME IndexInv, TablesInv, CoverInv, Sound, StartFreshIndex
    PROVE  CoverInv'
<1>1. /\ pc = "start" /\ pc' = "walk" /\ ApplyAcceptedBlock(EmptyBatch(lastSeen, 0))
      /\ base' = Path[lastSeen] /\ failures' = failures
  BY DEF StartFreshIndex
<1>2. lastSeen \in Blocks /\ DOMAIN batches = {}
  BY <1>1 DEF IndexInv, ChainInv, PassInv, Struct, Optional
<1>3. rows = {}
  BY <1>2 DEF TablesInv, RowTypes
<1>4. cursor' = lastSeen
  BY <1>1, <1>2, EmptyEffect
<1>5. rows' = {}
  <2>1. Indexed' = Indexed
    BY <1>1, <1>2, EmptyEffect
  <2> QED
    BY <1>3, <2>1 DEF Indexed
<1>6. Covers({}, Path[lastSeen], Path[lastSeen])
  BY DEF Covers, Entries, Due
<1>7. BaseInv'
  BY <1>1, <1>2, <1>4, TreeAssumption DEF BaseInv
<1> QED
  BY <1>1, <1>4, <1>5, <1>6, <1>7 DEF CoverInv

LEMMA FinishKeepsCover ==
    ASSUME IndexInv, BatchInv, CoverInv, Sound, failures = 0, FinishPass
    PROVE  CoverInv'
<1>1. /\ pc = "apply" /\ pc' = "idle" /\ todo = {} /\ FinalCheckpoint
      /\ base' = base \cap Path[cursor'] /\ failures' = failures
  BY DEF FinishPass, PassEnds
<1>2. cursor # NoBlock /\ lastSeen \in Optional(Blocks) /\ since \in Nat /\ cursor \in Blocks
  BY <1>1, TreeAssumption DEF IndexInv, ChainInv, PassInv, Struct, Optional
<1>3. BaseInv /\ base \subseteq Path[cursor]
  BY <1>1, <1>2 DEF CoverInv, BaseInv
<1>4. CASE since > 0
  <2>1. lastSeen \in Blocks /\ lastSeen # NoBlock /\ lastSeen \notin DOMAIN batches
    BY <1>1, <1>2, <1>4 DEF IndexInv, ChainInv, PassInv, Optional, CoverInv
  <2>2. ApplyAcceptedBlock(EmptyBatch(lastSeen, Daa[lastSeen]))
    BY <1>1, <1>4 DEF FinalCheckpoint
  <2>3. cursor' = lastSeen
    BY <2>1, <2>2, EmptyEffect
  <2>4. rows' = rows
    <3> DEFINE B == EmptyBatch(lastSeen, Daa[lastSeen])
    <3>1. NewRows(B) = {}
      BY DEF EmptyBatch, NewRows
    <3>2. rows' = rows \/ rows' = rows \cup NewRows(B)
      BY <2>2 DEF ApplyAcceptedBlock, storeVars, tables
    <3> QED
      BY <3>1, <3>2
  <2>5. Covers(rows, base, Path[lastSeen])
    BY <1>1, <2>1 DEF CoverInv
  <2>6. Covers(rows, base \cap Path[lastSeen], Path[lastSeen])
    <3>1. Path[lastSeen] \in SUBSET Blocks /\ \A x \in Path[lastSeen] : Path[x] \subseteq Path[lastSeen]
      BY <2>1, TreeAssumption
    <3> QED
      BY <2>5, <3>1, CoversAbove
  <2>7. BaseInv'
    BY <1>1, <1>3, <2>1, <2>3, TreeAssumption DEF BaseInv
  <2> QED
    BY <1>1, <2>3, <2>4, <2>6, <2>7 DEF CoverInv
<1>5. CASE ~(since > 0)
  <2>1. UNCHANGED <<rows, cursor>> /\ base' = base
    BY <1>1, <1>3, <1>5 DEF FinalCheckpoint, storeVars, tables
  <2>2. Covers(rows, base, Path[cursor])
    BY <1>1, <1>2, <1>5 DEF CoverInv
  <2>3. BaseInv'
    BY <1>1, <1>3, <2>1 DEF BaseInv
  <2> QED
    BY <1>1, <2>1, <2>2, <2>3 DEF CoverInv
<1> QED
  BY <1>4, <1>5

\* A step that leaves the rows, the chain below the index and the cursor alone.
LEMMA CoverFrame ==
    ASSUME CoverInv, UNCHANGED <<rows, batches, cursor, base, failures, resets, unswept>>,
           \/ UNCHANGED <<pc, todo, since, lastSeen, anchor>>
           \/ pc \in {"idle", "walk", "probe"} /\ pc' \in {"idle", "start", "walk", "probe"}
    PROVE  CoverInv'
<1>1. CASE UNCHANGED <<pc, todo, since, lastSeen, anchor>>
  BY <1>1 DEF CoverInv, BaseInv, Sound
<1>2. CASE pc \in {"idle", "walk", "probe"} /\ pc' \in {"idle", "start", "walk", "probe"}
  BY <1>2 DEF CoverInv, BaseInv, Sound
<1> QED
  BY <1>1, <1>2

LEMMA NextCover ==
    /\ IndexInv /\ LogInv /\ TablesInv /\ BatchInv /\ AppRows /\ NodeInv /\ CoverInv
    /\ [Next]_vars
    => CoverInv'
<1> SUFFICES ASSUME IndexInv, LogInv, TablesInv, BatchInv, AppRows, NodeInv, CoverInv, [Next]_vars
             PROVE  CoverInv'
  OBVIOUS
<1>1. failures \in Nat /\ MaxFailures \in Nat /\ nextSeq \in Nat
  BY EngineAssumption DEF CoverInv, LogInv, LogTypes
<1>2. failures' = failures \/ failures' = failures + 1
  BY DEF Next, NodeStep, SinkMoves, NodeSwitches, PassStep, BeginPass, BeginPassWithoutTip,
         StartFreshIndex, Walk, WalkRefused, RollBack, ProcessBlock, ApplyRefused, FinishPass,
         Interrupted, RecoveryStep, ProbeCursor, ReAnchor, Repoint, RestartAtSink, Drain, vars,
         FailureHappens
<1>3. failures' \in Nat
  BY <1>1, <1>2
<1>4. CASE failures' # 0 \/ ~Sound'
  BY <1>3, <1>4 DEF CoverInv
<1>5. CASE failures' = 0 /\ Sound'
  <2>1. failures = 0 /\ failures' = failures /\ Sound
    BY <1>1, <1>2, <1>5, StaysSound
  <2>2. ~FailureHappens
    BY <1>1, <2>1 DEF FailureHappens
  <2>3. CASE NodeStep
    BY <2>3, CoverFrame DEF NodeStep, SinkMoves, NodeSwitches, passVars, historyVars, storeVars, tables
  <2>4. CASE BeginPass
    <3>1. UNCHANGED <<rows, batches, cursor, base, failures, resets, unswept>>
      BY <2>4 DEF BeginPass, SetTip, historyVars, tables
    <3> QED
      BY <2>4, <3>1, CoverFrame DEF BeginPass
  <2>5. CASE StartFreshIndex
    BY <2>1, <2>5, StartKeepsCover
  <2>6. ASSUME NEW s \in Blocks, Walk(s) PROVE CoverInv'
    <3>1. UNCHANGED <<rows, batches, cursor, base, lastSeen, since, failures, resets, unswept>>
      BY <2>6 DEF Walk, historyVars, storeVars, tables
    <3> QED
      BY <2>1, <2>6, <3>1, WalkKeepsCover
  <2>7. CASE WalkRefused
    BY <2>7, CoverFrame DEF WalkRefused, PassEnds, historyVars, storeVars, tables
  <2>8. CASE RollBack
    BY <2>1, <2>8, RollBackKeepsCover
  <2>9. ASSUME NEW b \in Blocks, ProcessBlock(b) PROVE CoverInv'
    <3>1. /\ cursor' # NoBlock /\ base' = base \cap Path[cursor']
          /\ base' \subseteq Blocks /\ \A a \in base' : Path[a] \subseteq base'
          /\ todo' \cap base' = {} /\ Convex(todo')
          /\ \A x \in todo' : Covers(rows', base', Path[x] \ todo')
          /\ Covers(rows', base', Path[b])
          /\ since' > 0 => b \notin DOMAIN batches'
          /\ since' = 0 => cursor' = b
      BY <1>1, <2>1, <2>9, ProcessKeepsCover
    <3>2. pc' = "apply" /\ lastSeen' = b /\ b # NoBlock
      BY <2>9, TreeAssumption DEF ProcessBlock
    <3>3. BaseInv'
      BY <3>1, <3>2 DEF BaseInv
    <3> QED
      BY <1>3, <3>1, <3>2, <3>3 DEF CoverInv
  <2>10. ASSUME NEW b \in Blocks, ApplyRefused(b) PROVE CoverInv'
    BY <2>1, <2>10, NothingRefused DEF ApplyRefused, First
  <2>11. CASE FinishPass
    BY <2>1, <2>11, FinishKeepsCover
  <2>12. CASE BeginPassWithoutTip \/ Interrupted
    BY <2>2, <2>12 DEF BeginPassWithoutTip, Interrupted
  <2>13. CASE ProbeCursor
    BY <2>1, <2>13, CoverFrame DEF ProbeCursor, PassGoesTo, historyVars, storeVars, tables
  <2>14. ASSUME NEW a \in Blocks, ReAnchor(a) PROVE CoverInv'
    BY <2>1, <2>14, ReAnchorKeepsCover
  <2>15. CASE Repoint
    <3>1. /\ pc = "repoint" /\ pc' = "idle" /\ cursor' = anchor
          /\ UNCHANGED <<rows, base, failures>>
      BY <2>15 DEF Repoint, PassEnds, CheckpointCursor, historyVars, tables
    <3>2. BaseInv /\ Covers(rows, base, Path[anchor])
      BY <2>1, <3>1 DEF CoverInv
    <3>3. BaseInv'
      BY <3>1, <3>2 DEF BaseInv
    <3> QED
      BY <1>3, <3>1, <3>2, <3>3 DEF CoverInv
  <2>16. CASE RestartAtSink
    BY <1>5, <2>16 DEF RestartAtSink, Sound
  <2>17. CASE Drain
    BY <2>17, CoverFrame DEF Drain, DrainProjection, historyVars, passVars, tables
  <2>18. CASE UNCHANGED vars
    BY <2>18, CoverFrame DEF vars, historyVars, passVars, storeVars, tables
  <2> QED
    BY <2>3, <2>4, <2>5, <2>6, <2>7, <2>8, <2>9, <2>10, <2>11, <2>12, <2>13, <2>14, <2>15, <2>16,
       <2>17, <2>18
    DEF Next, PassStep, RecoveryStep
<1> QED
  BY <1>4, <1>5

\* No covenant activity of the indexed chain is ever skipped: with no failed call,
\* no restart at the sink and no batch left above an anchor, the index holds every
\* entry of the cursor's chain above the fresh start, and nothing else.
THEOREM IndexMissesNothing == Spec => []CompleteUnlessFailed
<1>1. Init => AppRows /\ BatchInv /\ NodeInv /\ CoverInv
  <2>1. Init => AppRows /\ BatchInv
    BY DEF Init, StoreInit, AppRows, BatchInv
  <2>2. Init => CoverInv
    BY DEF Init, StoreInit, CoverInv, BaseInv
  <2> QED
    BY <2>1, <2>2, InitNode
<1>2. Spec => [](AppRows /\ BatchInv /\ NodeInv /\ CoverInv)
  BY <1>1, NextApps, NextBatches, NextNode, NextCover, IndexInvariance, LogInvariance,
     TablesInvariance, PTL DEF Spec
<1>3. CoverInv => CompleteUnlessFailed
  <2> SUFFICES ASSUME CoverInv, failures = 0, unswept = 0, pc = "idle", resets = 0, cursor # NoBlock
               PROVE  {<<r.block, r.tx, r.cov>> : r \in rows} =
                        {x \in (Path[cursor] \ base) \X Txs \X Covenants :
                            x[2] \in AcceptedTxs(x[1]) /\ Active(x[1], x[2], x[3])}
    BY DEF CompleteUnlessFailed, IndexComplete
  <2>1. Covers(rows, base, Path[cursor])
    BY DEF CoverInv, Sound
  <2> QED
    BY <2>1 DEF Covers, Entries, Due, ActiveAbove, Active
<1> QED
  BY <1>2, <1>3, PTL

-----------------------------------------------------------------------------
(* Completeness through failures *)

\* The sink moves along blocks the node had not shown before, and nothing it has
\* shown is forgotten: no reorganisation returns to an abandoned branch.
NeverReturns ==
    /\ unknown' = unknown \ (Path[sink'] \ Path[sink])
    /\ Path[sink'] \ Path[sink] \subseteq unknown

\* The process does not stop between the two transactions of re_anchor.
AtOnce == pc = "repoint" /\ pc' # pc => cursor' = anchor

\* What the engine holds, it has from the node.
Shown == Blocks \ unknown
ShownInv ==
    /\ sink \in Shown
    /\ \A x \in Shown : Path[x] \subseteq Shown
    /\ {cursor, lastSeen, anchor} \ {NoBlock} \subseteq Shown
    /\ DOMAIN batches \subseteq Shown
    /\ todo \subseteq Shown

\* The block whose chain the rows are taken from.
Reach == IF pc = "repoint" THEN anchor ELSE cursor

\* The rows are what is due of a lower end T of that chain.  A failure after a
\* rollback leaves T below the cursor, but never below what the sink's chain shares.
StandsOn(T) ==
    /\ T \subseteq Path[Reach]
    /\ \A x \in T : Path[x] \subseteq T
    /\ Path[Reach] \cap Path[sink] \subseteq T
    /\ pc = "rollback" => Path[cursor] \ removed \subseteq T
    /\ Covers(rows, base, T)

\* A batch outside that chain which the sink's chain still holds (left by a rollback
\* that spares blocks without events) is above it and owes nothing.
OnOneChain(x, y) == x \in Path[y] \/ y \in Path[x]
OwesNothing(x) == Due(base, {x}) = {}
Leftover(x) == Reach \in Path[x] /\ OwesNothing(x)
BatchesFit == \A x \in DOMAIN batches \cap Path[sink] : x \in Path[Reach] \/ Leftover(x)

\* What a pass holds fits the rows: the blocks to come are due on top of them.
StretchFits ==
    /\ todo \cap Path[cursor] = {}
    /\ \A x \in todo \cap DOMAIN batches : Leftover(x)
    /\ \A x \in DOMAIN batches \cap Path[sink] : \A b \in todo : OnOneChain(x, b)

LoopFits ==
    /\ \A x \in todo : Covers(rows, base, Path[x] \ todo)
    /\ lastSeen # NoBlock => Covers(rows, base, Path[lastSeen])
    /\ since > 0 =>
         /\ lastSeen \notin Path[cursor]
         /\ \A x \in DOMAIN batches \cap Path[sink] : OnOneChain(x, lastSeen)

PassFits ==
    /\ pc \in {"rollback", "apply"} => StretchFits
    /\ pc = "rollback" => removed \cap Path[sink] = {}
    /\ pc = "apply" => LoopFits

OneWayInv ==
    resets = 0 =>
        /\ ShownInv /\ BaseInv
        /\ cursor # NoBlock =>
             /\ \E T \in SUBSET Path[Reach] : StandsOn(T)
             /\ BatchesFit
             /\ PassFits

-----------------------------------------------------------------------------

\* A block that owes nothing adds nothing to what is due.
LEMMA OwesNothingCovers ==
    ASSUME NEW b \in Blocks, Covers(rows, base, Path[b] \ {b}), OwesNothing(b)
    PROVE  Covers(rows, base, Path[b])
<1>1. b \in Path[b]
  BY TreeAssumption
<1>2. Due(base, Path[b]) = Due(base, Path[b] \ {b}) \cup Due(base, {b})
  BY <1>1 DEF Due
<1> QED
  BY <1>2 DEF Covers, OwesNothing

\* An indexed block of T owes something, so a block without rows owes nothing.
LEMMA NoRowsOwesNothing ==
    ASSUME NEW T, Covers(rows, base, T), NEW x \in T, x \notin Indexed
    PROVE  OwesNothing(x)
<1>1. \A b, t, v : IsDue(base, T, b, t, v) => \E r \in rows : r.block = b /\ r.tx = t /\ r.cov = v
  BY CoversIs
<1>2. ASSUME NEW e \in Due(base, {x}) PROVE FALSE
  <2>1. e[1] = x /\ IsDue(base, T, x, e[2], e[3])
    BY <1>2 DEF Due, IsDue
  <2> QED
    BY <1>1, <2>1 DEF Indexed
<1> QED
  BY <1>2 DEF OwesNothing

LEMMA InitOneWay == Init => OneWayInv
<1> SUFFICES ASSUME Init PROVE OneWayInv
  OBVIOUS
<1>1. /\ sink = Root /\ unknown = Blocks \ Path[Root] /\ Root \in Blocks /\ DOMAIN batches = {}
      /\ todo = {} /\ cursor = NoBlock /\ lastSeen = NoBlock /\ anchor = NoBlock /\ base = {}
      /\ pc = "idle"
  BY EngineAssumption DEF Init, StoreInit
<1>2. Shown = Path[Root] /\ Root \in Path[Root]
  BY <1>1, TreeAssumption DEF Shown
<1>3. ShownInv
  BY <1>1, <1>2, TreeAssumption DEF ShownInv
<1>4. BaseInv
  BY <1>1 DEF BaseInv
<1> QED
  BY <1>1, <1>3, <1>4 DEF OneWayInv

\* The node moves: of the blocks the engine knows, none joins the sink's chain.
LEMMA NodeKeepsOneWay ==
    ASSUME IndexInv, OneWayInv, NeverReturns, sink' \in Blocks,
           UNCHANGED <<rows, batches, cursor, base, resets, pc, todo, removed, since, lastSeen, anchor>>
    PROVE  OneWayInv'
<1> SUFFICES ASSUME resets = 0 PROVE OneWayInv'
  BY DEF OneWayInv
<1>1. ShownInv /\ BaseInv /\ sink \in Blocks
  BY DEF OneWayInv, IndexInv, Struct
<1>2. BaseInv'
  BY <1>1 DEF BaseInv
<1>3. Shown' = Shown \cup Path[sink'] /\ sink' \in Path[sink']
  <2>1. Path[sink] \subseteq Shown /\ Path[sink'] \subseteq Blocks
    BY <1>1, TreeAssumption DEF ShownInv
  <2>2. Shown' = Shown \cup (Path[sink'] \ Path[sink])
    BY <2>1 DEF NeverReturns, Shown
  <2> QED
    BY <2>1, <2>2, TreeAssumption
<1>4. ShownInv'
  <2>1. \A x \in Shown' : Path[x] \subseteq Shown'
    BY <1>1, <1>3, TreeAssumption DEF ShownInv
  <2> QED
    BY <1>1, <1>3, <2>1 DEF ShownInv
<1>5. \A x \in Shown : x \in Path[sink'] => x \in Path[sink]
  BY DEF NeverReturns, Shown
<1>6. ASSUME cursor # NoBlock
      PROVE  (\E T \in SUBSET Path[Reach] : StandsOn(T))' /\ BatchesFit' /\ PassFits'
  <2>1. /\ Reach' = Reach /\ Reach \in Shown /\ cursor \in Shown
        /\ Path[Reach] \subseteq Shown /\ Path[cursor] \subseteq Shown
    BY <1>1, <1>6 DEF Reach, ShownInv, IndexInv, ChainInv, PassInv
  <2>2. PICK T \in SUBSET Path[Reach] : StandsOn(T)
    BY <1>6 DEF OneWayInv
  <2>3. Path[Reach'] \cap Path[sink'] \subseteq T
    BY <1>5, <2>1, <2>2 DEF StandsOn
  <2>4. StandsOn(T)'
    BY <2>1, <2>2, <2>3 DEF StandsOn
  <2>5. BatchesFit /\ PassFits
    BY <1>6 DEF OneWayInv
  <2>6. DOMAIN batches \cap Path[sink'] \subseteq DOMAIN batches \cap Path[sink]
    BY <1>1, <1>5 DEF ShownInv
  <2>7. BatchesFit'
    BY <2>1, <2>5, <2>6 DEF BatchesFit, Leftover, OwesNothing
  <2>8. StretchFits => StretchFits'
    BY <2>1, <2>6 DEF StretchFits, Leftover, OwesNothing, OnOneChain
  <2>9. LoopFits => LoopFits'
    BY <2>6 DEF LoopFits, OnOneChain
  <2>10. pc = "rollback" => removed \subseteq Path[cursor]
    BY DEF IndexInv, ChainInv, RollbackReady, RemovedFrom
  <2>11. pc = "rollback" => removed' \cap Path[sink'] = {}
    BY <1>5, <2>1, <2>5, <2>10 DEF PassFits
  <2> QED
    BY <2>1, <2>2, <2>4, <2>5, <2>7, <2>8, <2>9, <2>11 DEF PassFits
<1> QED
  BY <1>2, <1>4, <1>6 DEF OneWayInv

\* A step that keeps what the rows stand for: whatever a pass held, it may drop.
LEMMA DropKeepsOneWay ==
    ASSUME OneWayInv, UNCHANGED <<rows, batches, cursor, base, resets, sink, unknown>>,
           Reach' = Reach, pc' \in {"idle", "start", "walk", "probe"},
           todo' \subseteq todo, lastSeen' \in {sink, lastSeen, NoBlock},
           anchor' \in {anchor, NoBlock}
    PROVE  OneWayInv'
<1> SUFFICES ASSUME resets = 0 PROVE OneWayInv'
  BY DEF OneWayInv
<1>1. ShownInv /\ BaseInv
  BY DEF OneWayInv
<1>2. Shown' = Shown
  BY DEF Shown
<1>3. ShownInv'
  BY <1>1, <1>2 DEF ShownInv
<1>4. BaseInv'
  BY <1>1 DEF BaseInv
<1>5. ASSUME cursor # NoBlock
      PROVE  (\E T \in SUBSET Path[Reach] : StandsOn(T))' /\ BatchesFit' /\ PassFits'
  <2>1. PICK T \in SUBSET Path[Reach] : StandsOn(T)
    BY <1>5 DEF OneWayInv
  <2>2. StandsOn(T)'
    BY <2>1 DEF StandsOn
  <2>3. BatchesFit'
    BY <1>5 DEF OneWayInv, BatchesFit, Leftover, OwesNothing
  <2>4. PassFits'
    BY DEF PassFits
  <2> QED
    BY <2>1, <2>2, <2>3, <2>4
<1> QED
  BY <1>3, <1>4, <1>5 DEF OneWayInv

LEMMA StartKeepsOneWay ==
    ASSUME IndexInv, TablesInv, OneWayInv, StartFreshIndex
    PROVE  OneWayInv'
<1> SUFFICES ASSUME resets = 0 PROVE OneWayInv'
  BY DEF OneWayInv, StartFreshIndex
<1>1. /\ pc = "start" /\ pc' = "walk" /\ ApplyAcceptedBlock(EmptyBatch(lastSeen, 0))
      /\ base' = Path[lastSeen] /\ lastSeen' = NoBlock
      /\ UNCHANGED <<todo, anchor, sink, unknown, resets>>
  BY DEF StartFreshIndex, nodeVars
<1>2. lastSeen \in Blocks /\ DOMAIN batches = {}
  BY <1>1 DEF IndexInv, ChainInv, PassInv, Struct, Optional
<1>3. rows = {}
  BY <1>2 DEF TablesInv, RowTypes
<1>4. cursor' = lastSeen /\ DOMAIN batches' \subseteq {lastSeen} /\ Indexed' = Indexed
  BY <1>1, <1>2, EmptyEffect
<1>5. rows' = {}
  BY <1>3, <1>4 DEF Indexed
<1>6. Path[lastSeen] \subseteq Blocks /\ lastSeen \in Path[lastSeen]
      /\ \A x \in Path[lastSeen] : Path[x] \subseteq Path[lastSeen]
  BY <1>2, TreeAssumption
<1>7. ShownInv /\ Shown' = Shown
  BY <1>1 DEF OneWayInv, Shown
<1>8. lastSeen \in Shown
  BY <1>2, <1>7, TreeAssumption DEF ShownInv
<1>9. ShownInv'
  BY <1>1, <1>4, <1>7, <1>8 DEF ShownInv
<1>10. BaseInv'
  BY <1>1, <1>4, <1>6 DEF BaseInv
<1>11. Reach' = lastSeen
  BY <1>1, <1>4 DEF Reach
<1>12. Covers({}, Path[lastSeen], Path[lastSeen])
  BY DEF Covers, Entries, Due
<1>13. PICK T : T = Path[lastSeen]
  OBVIOUS
<1>14. StandsOn(T)' /\ T \in SUBSET Path[Reach']
  BY <1>1, <1>5, <1>6, <1>11, <1>12, <1>13 DEF StandsOn
<1>15. BatchesFit' /\ PassFits'
  BY <1>1, <1>4, <1>6, <1>11 DEF BatchesFit, PassFits
<1> QED
  BY <1>9, <1>10, <1>14, <1>15 DEF OneWayInv

\* The walk: the sink's chain above the cursor is due on top of what stands, once
\* the blocks that left the chain are gone.
LEMMA WalkKeepsOneWay ==
    ASSUME IndexInv, OneWayInv, NEW s \in Blocks, Walk(s)
    PROVE  OneWayInv'
<1> SUFFICES ASSUME resets = 0 PROVE OneWayInv'
  BY DEF OneWayInv, Walk, historyVars
<1>1. /\ pc = "walk" /\ s \in WalkEnds(cursor)
      /\ removed' = WalkRemoves(cursor, s) /\ todo' = WalkAdds(cursor, s)
      /\ pc' = IF removed' = {} THEN "apply" ELSE "rollback"
      /\ UNCHANGED <<rows, batches, cursor, base, resets, sink, unknown, lastSeen, since, anchor>>
  BY DEF Walk, historyVars, storeVars, tables, nodeVars
<1>2. /\ cursor \in Blocks /\ cursor # NoBlock /\ lastSeen = NoBlock /\ since = 0 /\ sink \in Blocks
      /\ DOMAIN batches \subseteq Blocks
  BY <1>1, TreeAssumption DEF IndexInv, ChainInv, PassInv, Struct, Optional
<1>3. ShownInv /\ BaseInv /\ BatchesFit /\ Shown' = Shown /\ Reach = cursor /\ Reach' = cursor
  BY <1>1, <1>2 DEF OneWayInv, Shown, Reach
<1>4. removed' = Path[cursor] \ Path[s] /\ todo' = Path[s] \ Path[cursor]
  <2>1. cursor \notin unknown
    BY <1>2, <1>3 DEF ShownInv, Shown
  <2> QED
    BY <1>1, <2>1 DEF WalkRemoves, WalkAdds, RemovedFrom, AddedFrom
<1>5. s \in Path[sink] /\ Path[s] \subseteq Path[sink]
  <2>1. s = sink \/ s \in Path[sink]
    BY <1>1, <1>3 DEF WalkEnds, AddedFrom
  <2> QED
    BY <1>2, <2>1, TreeAssumption
<1>6. ShownInv'
  BY <1>1, <1>3, <1>4, <1>5 DEF ShownInv
<1>7. BaseInv'
  <2>1. Convex(todo')
    BY <1>2, <1>4, StretchConvex
  <2> QED
    BY <1>1, <1>2, <1>3, <1>4, <2>1 DEF BaseInv
<1>8. PICK T \in SUBSET Path[cursor] : StandsOn(T)
  BY <1>2, <1>3 DEF OneWayInv
<1>9. StandsOn(T)'
  BY <1>1, <1>3, <1>4, <1>5, <1>8 DEF StandsOn
<1>10. BatchesFit'
  BY <1>1, <1>3 DEF BatchesFit, Leftover, OwesNothing
<1>11. StretchFits'
  <2>1. \A x \in todo' \cap DOMAIN batches' : Leftover(x)'
    BY <1>1, <1>3, <1>4, <1>5, <1>10 DEF BatchesFit
  <2>2. \A x \in DOMAIN batches' \cap Path[sink'] : \A b \in todo' : OnOneChain(x, b)
    BY <1>1, <1>2, <1>4, <1>5, TreeAssumption DEF OnOneChain
  <2> QED
    BY <1>1, <1>4, <2>1, <2>2 DEF StretchFits, OnOneChain
<1>12. removed' \cap Path[sink] = {}
  <2> SUFFICES ASSUME NEW y \in Path[cursor], y \notin Path[s], y \in Path[sink] PROVE FALSE
    BY <1>4
  <2>1. s \in Path[y]
    BY <1>2, <1>5, TreeAssumption
  <2>2. s \in Path[cursor]
    BY <1>2, <2>1, TreeAssumption
  <2>3. s # sink
    OBVIOUS
  <2> QED
    BY <1>1, <2>2, <2>3 DEF WalkEnds, AddedFrom
<1>13. pc' = "apply" => LoopFits'
  <2> SUFFICES ASSUME removed' = {} PROVE LoopFits'
    BY <1>1
  <2>1. Path[cursor] \subseteq Path[sink]
    BY <1>4, <1>5
  <2>2. T = Path[cursor] /\ Covers(rows, base, T)
    BY <1>3, <1>8, <2>1 DEF StandsOn
  <2>3. ASSUME NEW x \in todo' PROVE Path[x] \ todo' = Path[cursor]
    <3>1. Path[x] \ todo' = Path[cursor] \cap Path[s]
      BY <1>2, <1>4, <2>3, StretchAbove
    <3> QED
      BY <1>4, <3>1
  <2>4. \A x \in todo' : Covers(rows', base', Path[x] \ todo')
    BY <1>1, <2>2, <2>3
  <2> QED
    BY <1>1, <1>2, <2>4 DEF LoopFits
<1>14. PassFits'
  BY <1>1, <1>11, <1>12, <1>13 DEF PassFits
<1> QED
  BY <1>1, <1>3, <1>6, <1>7, <1>8, <1>9, <1>10, <1>14 DEF OneWayInv

LEMMA RollBackKeepsOneWay ==
    ASSUME IndexInv, TablesInv, OneWayInv, RollBack
    PROVE  OneWayInv'
<1> SUFFICES ASSUME resets = 0 PROVE OneWayInv'
  BY DEF OneWayInv, RollBack, historyVars
<1>1. /\ pc = "rollback" /\ pc' = "apply" /\ RollbackRemovedBlocks(removed)
      /\ UNCHANGED <<base, todo, since, lastSeen, anchor, resets, sink, unknown>>
  BY DEF RollBack, historyVars, nodeVars
<1>2. /\ cursor' = cursor /\ cursor \in Blocks /\ cursor # NoBlock /\ lastSeen = NoBlock /\ since = 0
      /\ DOMAIN batches' = DOMAIN batches \ removed
  BY <1>1, RollbackEffect, TreeAssumption DEF IndexInv, ChainInv, PassInv, Struct, Optional
<1>3. rows' = {r \in rows : r.block \notin removed}
  BY <1>1, RollbackRows DEF TablesInv
<1>4. PICK s \in Blocks : removed = Path[cursor] \ Path[s] /\ todo = Path[s] \ Path[cursor]
  BY <1>1 DEF IndexInv, ChainInv, RollbackReady, RemovedFrom, AddedFrom
<1>5. /\ ShownInv /\ BaseInv /\ BatchesFit /\ StretchFits /\ removed \cap Path[sink] = {}
      /\ Shown' = Shown /\ Reach = cursor /\ Reach' = cursor
  BY <1>1, <1>2 DEF OneWayInv, PassFits, Shown, Reach
<1>6. PICK T \in SUBSET Path[cursor] : StandsOn(T)
  BY <1>2, <1>5 DEF OneWayInv
<1>7. PICK K : K = Path[cursor] \cap Path[s]
  OBVIOUS
<1>8. K \subseteq T /\ Covers(rows, base, T)
  BY <1>1, <1>4, <1>6, <1>7 DEF StandsOn
<1>9. Covers(rows', base, K)
  <2>1. \A r \in rows : r.block \in T
    BY <1>8, CoversIs DEF IsDue
  <2>2. \A r \in rows : r.block \in K <=> r.block \notin removed
    BY <1>4, <1>7, <2>1
  <2> QED
    BY <1>3, <1>8, <2>2, CoversLess
<1>10. StandsOn(K)'
  <2>1. \A x \in K : Path[x] \subseteq K
    BY <1>2, <1>7, TreeAssumption
  <2>2. Path[cursor] \cap Path[sink] \subseteq K
    BY <1>4, <1>5, <1>7
  <2>3. K \subseteq Path[cursor]
    BY <1>7
  <2> QED
    BY <1>1, <1>5, <1>9, <2>1, <2>2, <2>3 DEF StandsOn
<1>11. BatchesFit' /\ StretchFits'
  <2>1. DOMAIN batches' \subseteq DOMAIN batches
    BY <1>2
  <2>2. \A x : Leftover(x)' <=> Leftover(x)
    BY <1>1, <1>5 DEF Leftover, OwesNothing
  <2> QED
    BY <1>1, <1>2, <1>5, <2>1, <2>2 DEF BatchesFit, StretchFits, OnOneChain
<1>12. LoopFits'
  <2>1. \A x \in todo : Path[x] \ todo = K
    BY <1>2, <1>4, <1>7, StretchAbove
  <2>2. \A x \in todo' : Covers(rows', base', Path[x] \ todo')
    BY <1>1, <1>9, <2>1
  <2> QED
    BY <1>1, <1>2, <2>2 DEF LoopFits
<1>13. ShownInv' /\ BaseInv'
  BY <1>1, <1>2, <1>5 DEF ShownInv, BaseInv
<1>14. PassFits'
  BY <1>1, <1>11, <1>12 DEF PassFits
<1>15. K \in SUBSET Path[cursor]
  BY <1>7
<1> QED
  BY <1>5, <1>10, <1>11, <1>13, <1>14, <1>15 DEF OneWayInv


\* The cursor moves up to b, with the block's transaction or the final checkpoint.
LEMMA CursorAdvances ==
    ASSUME IndexInv, OneWayInv, resets = 0, cursor # NoBlock, pc = "apply", pc' \in {"apply", "idle"},
           sink' = sink, NEW b \in Blocks, b \notin Path[cursor], b \in Shown,
           \A x \in DOMAIN batches \cap Path[sink] : OnOneChain(x, b),
           cursor' = b, base' = base \cap Path[cursor'],
           DOMAIN batches' \subseteq DOMAIN batches \cup {b},
           Covers(rows', base, Path[b])
    PROVE  /\ \E T \in SUBSET Path[Reach'] : StandsOn(T)'
           /\ BatchesFit'
           /\ Covers(rows', base', Path[b])
           /\ base' \subseteq Path[b] /\ base' \subseteq base /\ \A a \in base' : Path[a] \subseteq base'
           /\ \A x \in DOMAIN batches : Leftover(x) /\ b \in Path[x] => Leftover(x)'
<1>1. /\ BaseInv /\ BatchesFit /\ Reach = cursor /\ Reach' = b /\ cursor \in Blocks
      /\ DOMAIN batches \subseteq Blocks
  BY DEF OneWayInv, Reach, IndexInv, Struct, Optional
<1>2. Path[b] \in SUBSET Blocks /\ b \in Path[b] /\ \A a \in Path[b] : Path[a] \subseteq Path[b]
  BY TreeAssumption
<1>3. Covers(rows', base', Path[b])
  <2>1. Covers(rows', base \cap Path[b], Path[b])
    BY <1>2, CoversAbove
  <2> QED
    BY <2>1
<1>4. PICK T : T = Path[b]
  OBVIOUS
<1>5. StandsOn(T)' /\ T \in SUBSET Path[Reach']
  BY <1>1, <1>2, <1>3, <1>4 DEF StandsOn
<1>6. ASSUME NEW x \in DOMAIN batches, Leftover(x), b \in Path[x] PROVE Leftover(x)'
  <2>1. cursor \in Path[x] /\ x \in Blocks
    BY <1>1, <1>6 DEF Leftover
  <2>2. cursor \in Path[b]
    BY <1>6, <2>1, TreeAssumption
  <2>3. Path[cursor] \subseteq Path[b]
    BY <1>2, <2>2
  <2>4. base' = base
    BY <1>1, <2>3 DEF BaseInv
  <2> QED
    BY <1>1, <1>6, <2>4 DEF Leftover, OwesNothing
<1>7. ASSUME NEW x \in DOMAIN batches' \cap Path[sink] PROVE x \in Path[b] \/ Leftover(x)'
  <2>1. CASE x = b
    BY <1>2, <2>1
  <2>2. CASE x # b /\ x \notin Path[b]
    <3>1. x \in DOMAIN batches /\ x \in Blocks /\ b \in Path[x]
      BY <1>1, <1>7, <2>2 DEF OnOneChain
    <3>2. x \notin Path[cursor]
      BY <1>1, <3>1, TreeAssumption
    <3>3. Leftover(x)
      BY <1>1, <1>7, <3>1, <3>2 DEF BatchesFit
    <3> QED
      BY <1>6, <3>1, <3>3
  <2> QED
    BY <2>1, <2>2
<1>8. BatchesFit'
  BY <1>1, <1>7 DEF BatchesFit
<1>9. base' \subseteq Path[b] /\ base' \subseteq base /\ \A a \in base' : Path[a] \subseteq base'
  BY <1>1, <1>2 DEF BaseInv
<1> QED
  BY <1>3, <1>5, <1>6, <1>8, <1>9

\* The next block of a pass.  One that has a batch already is a leftover and owes
\* nothing, so that the store may answer it with no change.
LEMMA ProcessKeepsOneWay ==
    ASSUME IndexInv, nextSeq \in Nat, TablesInv, OneWayInv, NEW b \in Blocks, ProcessBlock(b)
    PROVE  OneWayInv'
<1> SUFFICES ASSUME resets = 0 PROVE OneWayInv'
  BY DEF OneWayInv, ProcessBlock
<1>1. /\ pc = "apply" /\ pc' = "apply" /\ b \in todo /\ todo' = todo \ {b} /\ lastSeen' = b
      /\ base' = base \cap Path[cursor'] /\ \A x \in todo : b \in Path[x]
      /\ todo \subseteq Blocks /\ since \in Nat /\ DOMAIN batches \subseteq Blocks
      /\ UNCHANGED <<sink, unknown, removed, anchor, resets>>
  BY DEF ProcessBlock, First, IndexInv, Struct, nodeVars
<1>2. cursor # NoBlock /\ cursor \in Blocks
  BY <1>1, TreeAssumption DEF IndexInv, ChainInv, PassInv, Struct, Optional
<1>3. /\ ShownInv /\ BaseInv /\ BatchesFit /\ StretchFits /\ LoopFits
      /\ Shown' = Shown /\ Reach = cursor /\ Reach' = cursor'
  BY <1>1, <1>2 DEF OneWayInv, PassFits, Shown, Reach
<1>4. CoinsAgree /\ Indexed \subseteq Path[b] \ {b}
  BY <1>1 DEF TablesInv, IndexInv, ChainInv, ApplyReady
<1>5. todo \cap base = {} /\ Convex(todo) /\ base \subseteq Path[cursor] /\ b \notin Path[cursor]
      /\ b \in Shown
  BY <1>1, <1>2, <1>3 DEF BaseInv, StretchFits, ShownInv
<1>6. /\ Path[b] \ todo = Path[b] \ {b} /\ Convex(todo')
      /\ \A x \in todo' : Path[x] \ todo' = Path[b]
  BY <1>1, <1>5, StretchShrinks
<1>7. Covers(rows, base, Path[b] \ {b}) /\ b \notin base
  BY <1>1, <1>3, <1>5, <1>6 DEF LoopFits
<1>8. Covers(rows \cup NewRows(Classify(b)), base, Path[b])
  BY <1>4, <1>7, ProcessCovers
<1>9. Classify(b).block = b /\ Classify(b).daa > 0
  BY TreeAssumption DEF Classify
<1>10. \A x \in DOMAIN batches \cap Path[sink] : \A y \in todo : OnOneChain(x, y)
  BY <1>3 DEF StretchFits
<1>11. CASE CommitsBlock(Classify(b)) /\ ~AlreadyApplied(Classify(b))
  <2>1. /\ cursor' = b /\ rows' = rows \cup NewRows(Classify(b)) /\ since' = 0
        /\ DOMAIN batches' = DOMAIN batches \cup {b}
    BY <1>9, <1>11 DEF ProcessBlock, ApplyAcceptedBlock
  <2>2. Covers(rows', base, Path[b])
    BY <1>8, <2>1
  <2>3. /\ \E T \in SUBSET Path[Reach'] : StandsOn(T)'
        /\ BatchesFit'
        /\ Covers(rows', base', Path[b])
        /\ base' \subseteq Path[b] /\ base' \subseteq base /\ \A a \in base' : Path[a] \subseteq base'
        /\ \A x \in DOMAIN batches : Leftover(x) /\ b \in Path[x] => Leftover(x)'
    BY <1>1, <1>2, <1>5, <1>10, <2>1, <2>2, CursorAdvances
  <2>4. ShownInv'
    BY <1>1, <1>3, <1>5, <2>1 DEF ShownInv
  <2>5. BaseInv'
    BY <1>1, <1>3, <1>5, <1>6, <2>1, <2>3 DEF BaseInv
  <2>6. todo' \cap Path[b] = {}
    BY <1>1, NoCycle
  <2>7. \A x \in todo' \cap DOMAIN batches' : Leftover(x)'
    BY <1>1, <1>3, <2>1, <2>3 DEF StretchFits
  <2>8. \A x \in DOMAIN batches' \cap Path[sink] : \A y \in todo' : OnOneChain(x, y)
    BY <1>1, <1>10, <2>1 DEF OnOneChain
  <2>9. StretchFits'
    BY <1>1, <2>1, <2>6, <2>7, <2>8 DEF StretchFits, OnOneChain
  <2>10. \A x \in todo' : Covers(rows', base', Path[x] \ todo')
    BY <1>6, <2>3
  <2>11. LoopFits'
    <3>1. Covers(rows', base', Path[lastSeen'])
      BY <1>1, <2>3
    <3>2. ~(since' > 0)
      BY <2>1
    <3> QED
      BY <2>10, <3>1, <3>2 DEF LoopFits
  <2> QED
    BY <1>1, <2>3, <2>4, <2>5, <2>9, <2>11 DEF OneWayInv, PassFits
<1>12. CASE ~CommitsBlock(Classify(b)) \/ AlreadyApplied(Classify(b))
  <2>1. UNCHANGED <<rows, cursor, batches>>
    BY <1>12 DEF ProcessBlock, ApplyAcceptedBlock, storeVars, tables
  <2>2. base' = base
    BY <1>1, <1>5, <2>1
  <2>3. Covers(rows, base, Path[b])
    <3>1. CASE AlreadyApplied(Classify(b))
      <4>1. b \in DOMAIN batches
        BY <1>9, <3>1 DEF AlreadyApplied
      <4>2. OwesNothing(b)
        BY <1>1, <1>3, <4>1 DEF StretchFits, Leftover
      <4> QED
        BY <1>7, <4>2, OwesNothingCovers
    <3>2. CASE ~CommitsBlock(Classify(b))
      <4>1. NewRows(Classify(b)) = {}
        BY <3>2 DEF CommitsBlock, NewRows
      <4>2. rows \cup NewRows(Classify(b)) = rows
        BY <4>1
      <4> QED
        BY <1>8, <4>2
    <3> QED
      BY <1>12, <3>1, <3>2
  <2>4. ShownInv'
    BY <1>1, <1>3, <1>5, <2>1 DEF ShownInv
  <2>5. BaseInv'
    BY <1>1, <1>3, <1>5, <1>6, <2>1, <2>2 DEF BaseInv
  <2>6. PICK T \in SUBSET Path[Reach] : StandsOn(T)
    BY <1>2 DEF OneWayInv
  <2>7. StandsOn(T)' /\ T \in SUBSET Path[Reach']
    BY <1>1, <1>3, <2>1, <2>2, <2>6 DEF StandsOn
  <2>8. \A x : Leftover(x)' <=> Leftover(x)
    BY <1>3, <2>1, <2>2 DEF Leftover, OwesNothing
  <2>9. BatchesFit' /\ StretchFits'
    BY <1>1, <1>3, <2>1, <2>8 DEF BatchesFit, StretchFits, OnOneChain
  <2>10. \A x \in todo' : Covers(rows', base', Path[x] \ todo')
    BY <1>6, <2>1, <2>2, <2>3
  <2>11. LoopFits'
    BY <1>1, <1>5, <1>10, <2>1, <2>2, <2>3, <2>10 DEF LoopFits, OnOneChain
  <2> QED
    BY <1>1, <2>4, <2>5, <2>7, <2>9, <2>11 DEF OneWayInv, PassFits
<1> QED
  BY <1>11, <1>12


LEMMA FinishKeepsOneWay ==
    ASSUME IndexInv, OneWayInv, FinishPass
    PROVE  OneWayInv'
<1> SUFFICES ASSUME resets = 0 PROVE OneWayInv'
  BY DEF OneWayInv, FinishPass
<1>1. /\ pc = "apply" /\ pc' = "idle" /\ todo' = {} /\ anchor' = NoBlock /\ lastSeen' = NoBlock
      /\ FinalCheckpoint /\ base' = base \cap Path[cursor']
      /\ UNCHANGED <<sink, unknown, resets>>
  BY DEF FinishPass, PassEnds, nodeVars
<1>2. cursor # NoBlock /\ cursor \in Blocks /\ lastSeen \in Optional(Blocks) /\ since \in Nat
  BY <1>1, TreeAssumption DEF IndexInv, ChainInv, PassInv, Struct, Optional
<1>3. /\ ShownInv /\ BaseInv /\ LoopFits /\ base \subseteq Path[cursor] /\ Shown' = Shown
      /\ Reach = cursor /\ Reach' = cursor'
  BY <1>1, <1>2 DEF OneWayInv, PassFits, BaseInv, Shown, Reach
<1>4. ASSUME UNCHANGED <<rows, batches, cursor>> PROVE OneWayInv'
  <2>1. base' = base
    BY <1>1, <1>3, <1>4
  <2> QED
    BY <1>1, <1>3, <1>4, <2>1, DropKeepsOneWay
<1>5. CASE ~(since > 0)
  BY <1>1, <1>4, <1>5 DEF FinalCheckpoint, storeVars, tables
<1>6. CASE since > 0
  <2>1. lastSeen \in Blocks /\ lastSeen # NoBlock /\ lastSeen \in Shown
    BY <1>1, <1>2, <1>3, <1>6 DEF IndexInv, ChainInv, PassInv, Optional, ShownInv
  <2> DEFINE B == EmptyBatch(lastSeen, Daa[lastSeen])
  <2>2. ApplyAcceptedBlock(B)
    BY <1>1, <1>6 DEF FinalCheckpoint
  <2>3. CASE AlreadyApplied(B)
    BY <1>4, <2>2, <2>3 DEF ApplyAcceptedBlock, storeVars, tables
  <2>4. CASE ~AlreadyApplied(B)
    <3>1. B.block = lastSeen /\ B.daa > 0 /\ NewRows(B) = {}
      BY <2>1, TreeAssumption DEF EmptyBatch, NewRows
    <3>2. /\ rows' = rows \cup NewRows(B) /\ cursor' = B.block
          /\ DOMAIN batches' = DOMAIN batches \cup {B.block}
      BY <2>2, <2>4, <3>1 DEF ApplyAcceptedBlock
    <3> HIDE DEF B
    <3>3. rows' = rows /\ cursor' = lastSeen /\ DOMAIN batches' = DOMAIN batches \cup {lastSeen}
      BY <3>1, <3>2
    <3>4. PICK l \in Blocks : l = lastSeen
      BY <2>1
    <3>5. /\ Covers(rows', base, Path[l]) /\ l \notin Path[cursor]
          /\ \A x \in DOMAIN batches \cap Path[sink] : OnOneChain(x, l)
      BY <1>3, <1>6, <2>1, <3>3, <3>4 DEF LoopFits
    <3>6. /\ \E T \in SUBSET Path[Reach'] : StandsOn(T)'
          /\ BatchesFit' /\ base' \subseteq Path[l] /\ base' \subseteq base
          /\ \A a \in base' : Path[a] \subseteq base'
      <4>1. sink' = sink /\ cursor' = l /\ pc' = "idle" /\ l \in Shown
            /\ DOMAIN batches' \subseteq DOMAIN batches \cup {l}
        BY <1>1, <2>1, <3>3, <3>4
      <4> QED
        BY <1>1, <1>2, <3>5, <4>1, CursorAdvances
    <3>7. ShownInv'
      BY <1>1, <1>3, <2>1, <3>3 DEF ShownInv
    <3>8. BaseInv'
      BY <1>1, <1>3, <3>3, <3>4, <3>6 DEF BaseInv
    <3>9. PassFits'
      BY <1>1 DEF PassFits
    <3> QED
      BY <3>6, <3>7, <3>8, <3>9 DEF OneWayInv
  <2> QED
    BY <2>3, <2>4
<1> QED
  BY <1>5, <1>6

\* The recovery cuts the rows back to the anchor's chain; the batches it leaves above
\* the anchor, if the sink's chain holds them, never had a row.
LEMMA ReAnchorKeepsOneWay ==
    ASSUME IndexInv, TablesInv, OneWayInv, NEW a \in Blocks, ReAnchor(a)
    PROVE  OneWayInv'
<1> SUFFICES ASSUME resets = 0 PROVE OneWayInv'
  BY DEF OneWayInv, ReAnchor
<1>1. /\ pc = "probe" /\ pc' = "repoint" /\ RollbackRemovedBlocks(RollbackAbove(a))
      /\ anchor' = a /\ a \in Indexed
      /\ UNCHANGED <<base, resets, sink, unknown, todo, lastSeen>>
  BY DEF ReAnchor, Candidates, Indexed, nodeVars
<1>2. /\ cursor' = cursor /\ cursor \in Blocks /\ cursor # NoBlock /\ DOMAIN batches \subseteq Blocks
      /\ DOMAIN batches' = DOMAIN batches \ RollbackAbove(a)
  BY <1>1, RollbackEffect, TreeAssumption DEF IndexInv, ChainInv, PassInv, Struct, Optional
<1>3. rows' = {r \in rows : r.block \notin RollbackAbove(a)}
  BY <1>1, RollbackRows DEF TablesInv
<1>4. /\ ShownInv /\ BaseInv /\ BatchesFit /\ Shown' = Shown /\ Reach = cursor /\ Reach' = a
  BY <1>1, <1>2 DEF OneWayInv, Shown, Reach
<1>5. PICK T \in SUBSET Path[cursor] : StandsOn(T)
  BY <1>2, <1>4 DEF OneWayInv
<1>6. Covers(rows, base, T) /\ \A r \in rows : r.block \in T /\ r.block \notin base
  BY <1>5, CoversIs DEF StandsOn, IsDue
<1>7. /\ a \in T /\ a \notin base /\ Path[a] \subseteq T /\ a \in Path[cursor]
  BY <1>1, <1>5, <1>6 DEF Indexed, StandsOn
<1>8. ASSUME NEW x \in T PROVE x \in Path[a] <=> ~(Daa[x] > Daa[a])
  <2>1. x \in Path[cursor] /\ x \in Blocks /\ Daa[x] \in Nat /\ Daa[a] \in Nat
    BY <1>2, TreeAssumption
  <2>2. x \in Path[a] => ~(Daa[x] > Daa[a])
    BY <2>1, TreeAssumption
  <2> QED
    BY <1>2, <1>7, <2>1, <2>2, ChainByDaa
<1>9. \A x : x \in RollbackAbove(a) <=> x \in Indexed /\ Daa[x] > Daa[a]
  BY DEF RollbackAbove, AcceptingBlocksAbove, Indexed
<1>10. Covers(rows', base, Path[a])
  <2>1. \A r \in rows : r.block \in Path[a] <=> r.block \notin RollbackAbove(a)
    BY <1>6, <1>8, <1>9 DEF Indexed
  <2> QED
    BY <1>3, <1>6, <1>7, <2>1, CoversLess
<1>11. PICK S : S = Path[a]
  OBVIOUS
<1>12. StandsOn(S)' /\ S \in SUBSET Path[Reach']
  <2>1. \A x \in S : Path[x] \subseteq S
    BY <1>11, TreeAssumption
  <2> QED
    BY <1>1, <1>4, <1>10, <1>11, <2>1 DEF StandsOn
<1>13. ASSUME NEW x \in DOMAIN batches' \cap Path[sink], x \notin Path[a]
       PROVE  a \in Path[x] /\ OwesNothing(x)
  <2>1. x \in DOMAIN batches /\ x \notin RollbackAbove(a) /\ x \in Blocks
    BY <1>2, <1>13
  <2>2. CASE x \in Path[cursor]
    <3>1. x \in T
      BY <1>4, <1>5, <1>13, <2>2 DEF StandsOn
    <3>2. x \notin Indexed
      BY <1>8, <1>9, <1>13, <2>1, <3>1
    <3>3. a \in Path[x]
      BY <1>2, <1>7, <1>13, <2>2, TreeAssumption
    <3> QED
      BY <1>6, <3>1, <3>2, <3>3, NoRowsOwesNothing
  <2>3. CASE x \notin Path[cursor]
    <3>1. cursor \in Path[x] /\ OwesNothing(x)
      BY <1>4, <1>13, <2>1, <2>3 DEF BatchesFit, Leftover
    <3> QED
      BY <1>7, <2>1, <3>1, TreeAssumption
  <2> QED
    BY <2>2, <2>3
<1>14. BatchesFit' /\ PassFits'
  <2>1. BatchesFit'
    BY <1>1, <1>4, <1>13 DEF BatchesFit, Leftover, OwesNothing
  <2> QED
    BY <1>1, <2>1 DEF PassFits
<1>15. ShownInv'
  <2>1. a \in Shown
    BY <1>2, <1>4, <1>7, TreeAssumption DEF ShownInv
  <2> QED
    BY <1>1, <1>2, <1>4, <2>1 DEF ShownInv
<1>16. BaseInv'
  <2>1. base \subseteq Path[a]
    BY <1>2, <1>4, <1>7, TreeAssumption DEF BaseInv
  <2> QED
    BY <1>1, <1>2, <1>4, <2>1 DEF BaseInv
<1> QED
  BY <1>12, <1>14, <1>15, <1>16 DEF OneWayInv

LEMMA RepointKeepsOneWay ==
    ASSUME IndexInv, OneWayInv, Repoint
    PROVE  OneWayInv'
<1> SUFFICES ASSUME resets = 0 PROVE OneWayInv'
  BY DEF OneWayInv, Repoint, historyVars
<1>1. /\ pc = "repoint" /\ pc' = "idle" /\ cursor' = anchor /\ todo' = {} /\ lastSeen' = NoBlock
      /\ anchor' = NoBlock /\ UNCHANGED <<rows, batches, base, resets, sink, unknown>>
  BY DEF Repoint, PassEnds, CheckpointCursor, historyVars, nodeVars, tables
<1>2. anchor # NoBlock /\ cursor # NoBlock
  BY <1>1 DEF IndexInv, ChainInv, PassInv
<1>3. ShownInv /\ BaseInv /\ BatchesFit /\ Shown' = Shown /\ Reach' = Reach
  BY <1>1, <1>2 DEF OneWayInv, Shown, Reach
<1>4. PICK T \in SUBSET Path[Reach] : StandsOn(T)
  BY <1>2 DEF OneWayInv
<1>5. StandsOn(T)'
  BY <1>1, <1>3, <1>4 DEF StandsOn
<1>6. BatchesFit' /\ PassFits'
  BY <1>1, <1>3 DEF BatchesFit, Leftover, OwesNothing, PassFits
<1>7. ShownInv' /\ BaseInv'
  BY <1>1, <1>2, <1>3 DEF ShownInv, BaseInv
<1> QED
  BY <1>3, <1>4, <1>5, <1>6, <1>7 DEF OneWayInv

LEMMA NextOneWay ==
    /\ IndexInv /\ LogInv /\ TablesInv /\ OneWayInv
    /\ [Next]_vars /\ [NeverReturns]_vars /\ [AtOnce]_vars
    => OneWayInv'
<1> SUFFICES ASSUME IndexInv, LogInv, TablesInv, OneWayInv,
                    [Next]_vars, [NeverReturns]_vars, [AtOnce]_vars
             PROVE  OneWayInv'
  OBVIOUS
<1>1. nextSeq \in Nat
  BY DEF LogInv, LogTypes
<1>2. AtOnce
  BY DEF AtOnce, vars, passVars
<1>3. CASE NodeStep
  <2>1. /\ UNCHANGED <<rows, batches, cursor, base, resets, pc, todo, removed, since, lastSeen, anchor>>
        /\ sink' \in Blocks
    BY <1>3, EngineAssumption DEF NodeStep, SinkMoves, NodeSwitches, passVars, historyVars, storeVars, tables
  <2>2. CASE NeverReturns
    BY <2>1, <2>2, NodeKeepsOneWay
  <2>3. CASE UNCHANGED vars
    <3>1. NeverReturns
      BY <2>3 DEF NeverReturns, vars, nodeVars
    <3> QED
      BY <2>1, <3>1, NodeKeepsOneWay
  <2> QED
    BY <2>2, <2>3
<1>4. CASE BeginPass \/ BeginPassWithoutTip \/ WalkRefused \/ Interrupted \/ ProbeCursor
           \/ \E b \in Blocks : ApplyRefused(b)
  <2>1. /\ UNCHANGED <<rows, batches, cursor, base, resets, sink, unknown>>
        /\ pc' \in {"idle", "start", "walk", "probe"}
        /\ todo' \subseteq todo /\ lastSeen' \in {sink, lastSeen, NoBlock}
        /\ anchor' \in {anchor, NoBlock}
    BY <1>4
    DEF BeginPass, SetTip, BeginPassWithoutTip, WalkRefused, Interrupted, ProbeCursor, ApplyRefused,
        PassEnds, PassGoesTo, historyVars, nodeVars, storeVars, tables
  <2>2. Reach' = Reach
    BY <1>2, <2>1 DEF Reach, AtOnce
  <2> QED
    BY <2>1, <2>2, DropKeepsOneWay
<1>5. CASE StartFreshIndex
  BY <1>5, StartKeepsOneWay
<1>6. ASSUME NEW s \in Blocks, Walk(s) PROVE OneWayInv'
  BY <1>6, WalkKeepsOneWay
<1>7. CASE RollBack
  BY <1>7, RollBackKeepsOneWay
<1>8. ASSUME NEW b \in Blocks, ProcessBlock(b) PROVE OneWayInv'
  BY <1>1, <1>8, ProcessKeepsOneWay
<1>9. CASE FinishPass
  BY <1>9, FinishKeepsOneWay
<1>10. ASSUME NEW a \in Blocks, ReAnchor(a) PROVE OneWayInv'
  BY <1>10, ReAnchorKeepsOneWay
<1>11. CASE Repoint
  BY <1>11, RepointKeepsOneWay
<1>12. CASE RestartAtSink
  BY <1>12 DEF RestartAtSink, OneWayInv
<1>13. CASE Drain \/ UNCHANGED vars
  <2>1. UNCHANGED <<rows, batches, cursor, base, resets, sink, unknown, passVars>>
    BY <1>13 DEF Drain, DrainProjection, vars, historyVars, nodeVars, storeVars, tables
  <2>2. NeverReturns
    BY <2>1 DEF NeverReturns
  <2>3. sink \in Blocks
    BY DEF IndexInv, Struct
  <2> QED
    BY <2>1, <2>2, <2>3, NodeKeepsOneWay DEF passVars
<1> QED
  BY <1>3, <1>4, <1>5, <1>6, <1>7, <1>8, <1>9, <1>10, <1>11, <1>12, <1>13
  DEF Next, PassStep, RecoveryStep

\* Whatever fails and whenever, the index misses nothing of the chain: as long as no
\* reorganisation returns to a branch the node abandoned, and no process stops between
\* the two transactions of re_anchor.
THEOREM OneWayMissesNothing ==
    Spec /\ [][NeverReturns]_vars /\ [][AtOnce]_vars => []IndexComplete
<1>1. Spec /\ [][NeverReturns]_vars /\ [][AtOnce]_vars => []OneWayInv
  BY InitOneWay, NextOneWay, IndexInvariance, LogInvariance, TablesInvariance, PTL DEF Spec
<1>2. IndexInv /\ OneWayInv => IndexComplete
  <2> SUFFICES ASSUME IndexInv, OneWayInv, pc = "idle", resets = 0, cursor # NoBlock,
                      cursor \in Path[sink]
               PROVE  {<<r.block, r.tx, r.cov>> : r \in rows} =
                        {x \in (Path[cursor] \ base) \X Txs \X Covenants :
                            x[2] \in AcceptedTxs(x[1]) /\ Active(x[1], x[2], x[3])}
    BY DEF IndexComplete
  <2>1. PICK T \in SUBSET Path[Reach] : StandsOn(T)
    BY DEF OneWayInv
  <2>2. Reach = cursor /\ sink \in Blocks
    BY DEF Reach, IndexInv, Struct
  <2>3. Path[cursor] \subseteq Path[sink]
    BY <2>2, TreeAssumption
  <2>4. Covers(rows, base, Path[cursor])
    <3>1. T = Path[cursor]
      BY <2>1, <2>2, <2>3 DEF StandsOn
    <3> QED
      BY <2>1, <3>1 DEF StandsOn
  <2> QED
    BY <2>4 DEF Covers, Entries, Due, ActiveAbove, Active
<1> QED
  BY <1>1, <1>2, IndexInvariance, PTL

-----------------------------------------------------------------------------
(* The follower *)

\* Whatever the loop does is a step of the engine, or none.
LEMMA LoopRefines == ASSUME LoopStep PROVE [Next]_vars
  <1> USE DEF Next, PassStep, RecoveryStep
  <1>1. CASE StartPass
    BY <1>1 DEF StartPass
  <1>2. CASE InsidePass
    BY <1>2 DEF InsidePass
  <1>3. CASE PassSucceeds
    BY <1>3 DEF PassSucceeds
  <1>4. CASE PassFails
    BY <1>4 DEF PassFails
  <1>5. CASE NotWedged \/ TakePending \/ NotCaughtUp
    BY <1>5 DEF NotWedged, TakePending, NotCaughtUp
  <1>6. CASE Recovering
    BY <1>6 DEF Recovering
  <1>7. CASE Recovered
    BY <1>7 DEF Recovered
  <1>8. CASE NotRecovered
    BY <1>8 DEF NotRecovered
  <1>9. CASE CaughtUp
    BY <1>9 DEF CaughtUp
  <1>10. CASE DrainChunk
    BY <1>10 DEF DrainChunk
  <1> QED
    BY <1>1, <1>2, <1>3, <1>4, <1>5, <1>6, <1>7, <1>8, <1>9, <1>10 DEF LoopStep

\* The loop that decides when a pass or a recovery runs, counts errors, coalesces
\* wake-ups and drains the queue only restricts the engine, which may do all of
\* this at any time (follow_forever over sync_once and re_anchor).
THEOREM FollowerRunsTheEngine == FollowerSpec => Spec
  <1>1. FollowerInit => Init
    BY DEF FollowerInit
  <1>2. [FollowerNext]_allVars => [Next]_vars
    <2> SUFFICES ASSUME [FollowerNext]_allVars PROVE [Next]_vars
      OBVIOUS
    <2>1. CASE LoopStep
      BY <2>1, LoopRefines
    <2>2. CASE Environment
      BY <2>2 DEF Environment, Next
    <2>3. CASE CrashRestart
      BY <2>3 DEF CrashRestart, Next, PassStep
    <2>4. CASE UNCHANGED allVars
      BY <2>4 DEF allVars
    <2> QED
      BY <2>1, <2>2, <2>3, <2>4 DEF FollowerNext
  <1> QED
    BY <1>1, <1>2, PTL DEF FollowerSpec, Spec

\* So everything shown of the engine holds under the follower, for every limit at
\* which it asks for recovery.
THEOREM FollowerKeepsTheIndex ==
    FollowerSpec => /\ ServesOneChain
                    /\ [](/\ IndexBelowCursor /\ TablesAgree
                          /\ LogReplaysToIndex /\ LogInOrder
                          /\ ApplyNeverRefused /\ ProjectionCovered /\ CompleteUnlessFailed)
  BY FollowerRunsTheEngine, Implements, BelowCursor, TablesTellOneStory, LogTellsIndex, LogOrder,
     NeverRefused, ProjectionNeverForgets, IndexMissesNothing, PTL

=============================================================================
