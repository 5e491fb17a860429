-------------------------- MODULE SyncEngine_proofs --------------------------
(***************************************************************************)
(* For every chain, every node behaviour and any number of failures: the   *)
(* index is a set of blocks of one chain, below the cursor, and implements *)
(* ChainIndex (the invariant is ChainInv with the types it rests on); the  *)
(* delivery log is dense and says exactly what the index says (each of the *)
(* store's transactions keeps that, in whatever order the engine calls     *)
(* them); and removals come newest block first (which needs to know what a *)
(* pass and a recovery roll back).                                         *)
(***************************************************************************)
EXTENDS SyncEngine, FiniteSetTheorems, TLAPS

\* The types the argument needs.
Struct ==
    /\ Indexed \subseteq Blocks
    /\ cursor \in Optional(Blocks)
    /\ DOMAIN batches \subseteq Blocks
    /\ sink \in Blocks
    /\ pc \in {"idle", "start", "walk", "rollback", "apply", "probe", "repoint"}
    /\ todo \subseteq Blocks
    /\ removed \subseteq Blocks
    /\ since \in Nat
    /\ lastSeen \in Optional(Blocks)
    /\ anchor \in Optional(Blocks)
    /\ resets \in {0, 1}

IndexInv == Struct /\ ChainInv

-----------------------------------------------------------------------------
(* What each transaction of the store does to the indexed blocks, the      *)
(* batches and the cursor.                                                 *)

\* apply_accepted_block on a classified block: a replay changes nothing, else
\* the block gets a batch, becomes the cursor, and is indexed or has no events.
LEMMA ApplyEffect ==
    ASSUME NEW b \in Blocks, ApplyAcceptedBlock(Classify(b))
    PROVE  \/ UNCHANGED <<Indexed, batches, cursor>>
           \/ /\ cursor' = b
              /\ DOMAIN batches' = DOMAIN batches \cup {b}
              /\ Indexed' = Indexed \/ Indexed' = Indexed \cup {b}
<1> DEFINE B == Classify(b)
<1>1. B.block = b /\ B.daa = Daa[b] /\ B.events = NewEvents(b)
  BY DEF Classify
<1>2. Daa[b] > 0
  BY TreeAssumption
<1>3. CASE AlreadyApplied(B)
  BY <1>3 DEF ApplyAcceptedBlock, storeVars, tables, Indexed
<1>4. CASE ~AlreadyApplied(B)
  <2>1. rows' = rows \cup NewRows(B) /\ cursor' = b
    BY <1>1, <1>4 DEF ApplyAcceptedBlock
  <2>2. DOMAIN batches' = DOMAIN batches \cup {b}
    BY <1>1, <1>2, <1>4 DEF ApplyAcceptedBlock
  <2>3. \A r \in NewRows(B) : r.block = b
    BY <1>1 DEF NewRows
  <2>4. CASE NewRows(B) = {}
    BY <2>1, <2>2, <2>4 DEF Indexed
  <2>5. CASE NewRows(B) # {}
    BY <2>1, <2>2, <2>3, <2>5 DEF Indexed
  <2> QED
    BY <2>4, <2>5
<1> QED
  BY <1>3, <1>4

\* An empty batch moves the cursor and, when it carries a DAA score, leaves a
\* batch behind; it indexes nothing.
LEMMA EmptyEffect ==
    ASSUME NEW b \in Blocks, NEW daa, ApplyAcceptedBlock(EmptyBatch(b, daa))
    PROVE  /\ Indexed' = Indexed
           /\ \/ b \in DOMAIN batches /\ UNCHANGED <<batches, cursor>>
              \/ /\ cursor' = b
                 /\ DOMAIN batches' \in {DOMAIN batches, DOMAIN batches \cup {b}}
<1> DEFINE B == EmptyBatch(b, daa)
<1>1. B.block = b /\ B.daa = daa /\ B.events = {}
  BY DEF EmptyBatch
<1>2. NewRows(B) = {}
  BY <1>1 DEF NewRows
<1>3. CASE AlreadyApplied(B)
  BY <1>1, <1>3 DEF ApplyAcceptedBlock, AlreadyApplied, storeVars, tables, Indexed
<1>4. CASE ~AlreadyApplied(B)
  <2>1. rows' = rows /\ cursor' = b
    BY <1>1, <1>2, <1>4 DEF ApplyAcceptedBlock
  <2>2. DOMAIN batches' \in {DOMAIN batches, DOMAIN batches \cup {b}}
    <3>1. CASE daa > 0
      BY <1>1, <1>4, <3>1 DEF ApplyAcceptedBlock
    <3>2. CASE ~(daa > 0)
      BY <1>1, <1>4, <3>2 DEF ApplyAcceptedBlock
    <3> QED
      BY <3>1, <3>2
  <2> QED
    BY <2>1, <2>2 DEF Indexed
<1> QED
  BY <1>3, <1>4

\* rollback_removed_blocks takes back the blocks it finds a batch for, and
\* leaves the cursor.
LEMMA RollbackEffect ==
    ASSUME NEW R, RollbackRemovedBlocks(R)
    PROVE  /\ Indexed' = Indexed \ (R \cap DOMAIN batches)
           /\ DOMAIN batches' = DOMAIN batches \ R
           /\ cursor' = cursor
<1> DEFINE C == Canonical(R)
<1>1. C = R \cap DOMAIN batches
  BY DEF Canonical
<1>2. CASE C = {}
  BY <1>1, <1>2 DEF RollbackRemovedBlocks, storeVars, tables, Indexed
<1>3. CASE C # {}
  <2>1. rows' = {r \in rows : r.block \notin C} /\ cursor' = cursor
    BY <1>3 DEF RollbackRemovedBlocks
  <2>2. DOMAIN batches' = DOMAIN batches \ C
    BY <1>3 DEF RollbackRemovedBlocks
  <2> QED
    BY <1>1, <2>1, <2>2 DEF Indexed
<1> QED
  BY <1>2, <1>3

-----------------------------------------------------------------------------
(* The tree *)

\* Two blocks of one chain are ordered by their DAA scores.
LEMMA ChainByDaa ==
    ASSUME NEW c \in Blocks, NEW a \in Path[c], NEW b \in Path[c], ~(Daa[b] > Daa[a])
    PROVE  b \in Path[a]
<1>1. a \in Blocks /\ b \in Blocks /\ Daa[a] \in Nat /\ Daa[b] \in Nat
  BY TreeAssumption
<1>2. a \in Path[b] \/ b \in Path[a]
  BY TreeAssumption
<1>3. a \in Path[b] /\ a # b => Daa[a] < Daa[b]
  BY <1>1, TreeAssumption
<1>4. b = a => b \in Path[a]
  BY <1>1, TreeAssumption
<1> QED
  BY <1>1, <1>2, <1>3, <1>4

-----------------------------------------------------------------------------
(* The invariant *)

\* It holds of the empty index.
LEMMA InitIndexInv == Init => IndexInv
<1> SUFFICES ASSUME Init PROVE IndexInv
  OBVIOUS
<1>1. Indexed = {} /\ DOMAIN batches = {}
  BY DEF Init, StoreInit, Indexed
<1>2. Struct
  BY <1>1, EngineAssumption DEF Init, StoreInit, Struct, Optional
<1>3. ChainInv
  BY <1>1 DEF Init, StoreInit, ChainInv, PassInv
<1> QED
  BY <1>2, <1>3 DEF IndexInv

\* A pass that ends, for whatever reason, without a transaction.
LEMMA EndsQuietly ==
    ASSUME IndexInv, PassEnds, UNCHANGED <<rows, batches, cursor, sink>>,
           resets' = resets
    PROVE  IndexInv'
<1>1. Indexed' = Indexed
  BY DEF Indexed
<1>2. Struct'
  BY <1>1 DEF IndexInv, Struct, PassEnds, Optional
<1>3. ChainInv'
  BY <1>1 DEF IndexInv, Struct, ChainInv, PassInv, PassEnds
<1> QED
  BY <1>2, <1>3 DEF IndexInv

\* The node and the projection queue touch none of it.
LEMMA OutsideSteps ==
    ASSUME IndexInv, UNCHANGED <<rows, batches, cursor, passVars, resets>>,
           sink' \in Blocks
    PROVE  IndexInv'
<1>1. Indexed' = Indexed
  BY DEF Indexed
<1>2. Struct'
  BY <1>1 DEF IndexInv, Struct, passVars
<1>3. ChainInv'
  BY <1>1 DEF IndexInv, ChainInv, PassInv, RollbackReady, ApplyReady, passVars
<1> QED
  BY <1>2, <1>3 DEF IndexInv

\* Rolling back blocks of the walk leaves what lies on the new chain.
LEMMA RollBackStep ==
    ASSUME IndexInv, RollBack
    PROVE  IndexInv'
<1>1. /\ Indexed' = Indexed \ (removed \cap DOMAIN batches)
      /\ DOMAIN batches' = DOMAIN batches \ removed
      /\ cursor' = cursor
  BY RollbackEffect DEF RollBack
<1>2. /\ pc = "rollback" /\ pc' = "apply" /\ removed' = {} /\ sink' = sink
      /\ UNCHANGED <<todo, since, lastSeen, anchor, resets>>
  BY DEF RollBack, nodeVars, historyVars
<1>3. Struct'
  BY <1>1, <1>2 DEF IndexInv, Struct
<1>4. PassInv'
  BY <1>1, <1>2 DEF IndexInv, ChainInv, PassInv
<1>5. ASSUME resets = 0
      PROVE  /\ \A b \in Indexed' : cursor' # NoBlock /\ b \in Path[cursor']
             /\ Indexed' \subseteq DOMAIN batches'
             /\ ApplyReady'
  <2>1. PICK s \in Blocks : removed = Path[cursor] \ Path[s] /\ todo = Path[s] \ Path[cursor]
    BY <1>2, <1>5 DEF IndexInv, ChainInv, RollbackReady, RemovedFrom, AddedFrom
  <2>2. /\ \A b \in Indexed : cursor # NoBlock /\ b \in Path[cursor]
        /\ Indexed \subseteq DOMAIN batches
        /\ lastSeen = NoBlock
    BY <1>2, <1>5 DEF IndexInv, ChainInv, PassInv
  <2>3. Indexed' \subseteq Path[s] \cap Path[cursor]
    BY <1>1, <2>1, <2>2
  <2>4. ASSUME NEW x \in todo, NEW b \in Indexed' PROVE b \in Path[x] /\ b # x
    <3>1. x \in Path[s] /\ b \in Path[s] /\ x \notin Path[cursor] /\ b \in Path[cursor]
      BY <2>1, <2>3, <2>4
    <3>2. cursor \in Blocks
      BY <1>1, <2>2, <2>4 DEF IndexInv, Struct, Optional
    <3>3. x \in Path[b] => x \in Path[cursor]
      BY <3>1, <3>2, TreeAssumption
    <3> QED
      BY <3>1, <3>3, TreeAssumption
  <2> QED
    BY <1>1, <1>2, <2>2, <2>4 DEF ApplyReady
<1> QED
  BY <1>2, <1>3, <1>4, <1>5 DEF IndexInv, ChainInv

\* A processed block lies above everything indexed and below the rest of todo.
LEMMA ProcessStep ==
    ASSUME IndexInv, NEW b \in Blocks, ProcessBlock(b)
    PROVE  IndexInv'
<1>1. /\ pc = "apply" /\ pc' = "apply" /\ lastSeen' = b /\ todo' = todo \ {b}
      /\ \A x \in todo : b \in Path[x]
      /\ b \in todo
      /\ sink' = sink
      /\ UNCHANGED <<removed, anchor, resets>>
  BY DEF ProcessBlock, First, nodeVars
<1>2. \/ UNCHANGED <<Indexed, batches, cursor>>
      \/ /\ cursor' = b
         /\ DOMAIN batches' = DOMAIN batches \cup {b}
         /\ Indexed' = Indexed \/ Indexed' = Indexed \cup {b}
  <2>1. CASE CommitsBlock(Classify(b))
    BY <2>1, ApplyEffect DEF ProcessBlock
  <2>2. CASE ~CommitsBlock(Classify(b))
    BY <2>2 DEF ProcessBlock, storeVars, tables, Indexed
  <2> QED
    BY <2>1, <2>2
<1>3. since' \in Nat
  BY DEF ProcessBlock, IndexInv, Struct
<1>4. cursor # NoBlock /\ cursor' # NoBlock
  BY <1>1, <1>2, TreeAssumption DEF IndexInv, ChainInv, PassInv
<1>5. Struct'
  BY <1>1, <1>2, <1>3 DEF IndexInv, Struct, Optional
<1>6. PassInv'
  BY <1>1, <1>4, TreeAssumption DEF PassInv
<1>7. ASSUME resets = 0
      PROVE  /\ \A a \in Indexed' : a \in Path[cursor']
             /\ Indexed' \subseteq DOMAIN batches'
             /\ ApplyReady'
  <2>1. /\ \A a \in Indexed : a \in Path[cursor]
        /\ Indexed \subseteq DOMAIN batches
        /\ \A x \in todo : Indexed \subseteq Path[x] \ {x}
    BY <1>1, <1>7 DEF IndexInv, ChainInv, ApplyReady
  <2>2. b \in Path[b]
    BY TreeAssumption
  <2>3. Indexed' \subseteq Indexed \cup {b}
    BY <1>2
  <2>4. \A x \in todo' : Indexed' \subseteq Path[x] \ {x}
    BY <1>1, <2>1, <2>3
  <2>5. Indexed' \subseteq Path[b]
    BY <1>1, <2>1, <2>2, <2>3
  <2>6. \A a \in Indexed' : a \in Path[cursor']
    BY <1>2, <2>1, <2>5
  <2>7. Indexed' \subseteq DOMAIN batches'
    BY <1>2, <2>1
  <2> QED
    BY <1>1, <2>4, <2>5, <2>6, <2>7 DEF ApplyReady
<1> QED
  BY <1>1, <1>4, <1>5, <1>6, <1>7 DEF IndexInv, ChainInv

\* The two transactions of re_anchor: what stays lies below the anchor.
LEMMA ReAnchorStep ==
    ASSUME IndexInv, NEW a \in Blocks, ReAnchor(a)
    PROVE  IndexInv'
<1>1. /\ Indexed' = Indexed \ (RollbackAbove(a) \cap DOMAIN batches)
      /\ DOMAIN batches' = DOMAIN batches \ RollbackAbove(a)
      /\ cursor' = cursor
  BY RollbackEffect DEF ReAnchor
<1>2. /\ pc = "probe" /\ pc' = "repoint" /\ anchor' = a /\ sink' = sink
      /\ a \in Indexed
      /\ UNCHANGED <<todo, removed, since, lastSeen, resets>>
  BY DEF ReAnchor, nodeVars, Candidates, Indexed
<1>3. RollbackAbove(a) = {b \in Indexed : Daa[b] > Daa[a]}
  BY DEF RollbackAbove, AcceptingBlocksAbove, Indexed
<1>4. Struct'
  BY <1>1, <1>2 DEF IndexInv, Struct, Optional
<1>5. PassInv'
  BY <1>1, <1>2, TreeAssumption DEF IndexInv, ChainInv, PassInv
<1>6. ASSUME resets = 0
      PROVE  /\ \A b \in Indexed' : cursor' # NoBlock /\ b \in Path[cursor']
             /\ Indexed' \subseteq DOMAIN batches'
             /\ Indexed' \subseteq Path[a]
  <2>1. /\ \A b \in Indexed : cursor # NoBlock /\ b \in Path[cursor]
        /\ Indexed \subseteq DOMAIN batches
    BY <1>6 DEF IndexInv, ChainInv
  <2>2. Indexed' = {b \in Indexed : ~(Daa[b] > Daa[a])}
    BY <1>1, <1>3, <2>1
  <2>3. cursor \in Blocks /\ a \in Path[cursor]
    BY <1>2, <2>1 DEF IndexInv, Struct, Optional
  <2>4. Indexed' \subseteq Path[a]
    BY <2>1, <2>2, <2>3, ChainByDaa
  <2> QED
    BY <1>1, <1>3, <2>1, <2>2, <2>4
<1> QED
  BY <1>2, <1>4, <1>5, <1>6 DEF IndexInv, ChainInv

\* The last transaction of a pass moves the cursor to the last block walked.
LEMMA FinishStep ==
    ASSUME IndexInv, FinishPass
    PROVE  IndexInv'
<1>1. /\ pc = "apply" /\ sink' = sink /\ resets' = resets
      /\ PassEnds
  BY DEF FinishPass, nodeVars
<1>2. CASE since > 0
  <2>1. lastSeen \in Blocks /\ cursor # NoBlock
    BY <1>1, <1>2 DEF IndexInv, ChainInv, PassInv, Struct, Optional
  <2>2. ApplyAcceptedBlock(EmptyBatch(lastSeen, Daa[lastSeen]))
    BY <1>2 DEF FinishPass, FinalCheckpoint
  <2>3. /\ Indexed' = Indexed
        /\ \/ DOMAIN batches' = DOMAIN batches /\ cursor' = cursor
           \/ /\ cursor' = lastSeen
              /\ DOMAIN batches' \in {DOMAIN batches, DOMAIN batches \cup {lastSeen}}
    BY <2>1, <2>2, EmptyEffect
  <2>4. Struct'
    BY <1>1, <2>1, <2>3 DEF IndexInv, Struct, PassEnds, Optional
  <2>5. PassInv'
    BY <1>1, <2>1, <2>3, TreeAssumption DEF PassInv, PassEnds
  <2>6. resets = 0 => /\ \A b \in Indexed' : cursor' # NoBlock /\ b \in Path[cursor']
                      /\ Indexed' \subseteq DOMAIN batches'
    BY <1>1, <2>1, <2>3, TreeAssumption DEF IndexInv, ChainInv, ApplyReady
  <2> QED
    BY <1>1, <2>4, <2>5, <2>6 DEF IndexInv, ChainInv, PassEnds
<1>3. CASE ~(since > 0)
  <2>1. UNCHANGED <<rows, batches, cursor>>
    BY <1>3 DEF FinishPass, FinalCheckpoint, storeVars, tables
  <2> QED
    BY <1>1, <2>1, EndsQuietly
<1> QED
  BY <1>2, <1>3

\* The fresh index gets its cursor before anything is indexed.
LEMMA StartStep ==
    ASSUME IndexInv, StartFreshIndex
    PROVE  IndexInv'
<1>1. /\ pc = "start" /\ pc' = "walk" /\ lastSeen' = NoBlock /\ sink' = sink
      /\ UNCHANGED <<todo, removed, since, anchor, resets>>
      /\ ApplyAcceptedBlock(EmptyBatch(lastSeen, 0))
  BY DEF StartFreshIndex, nodeVars
<1>2. cursor = NoBlock /\ lastSeen \in Blocks /\ DOMAIN batches = {} /\ since = 0
  BY <1>1 DEF IndexInv, ChainInv, PassInv, Struct, Optional
<1>3. /\ Indexed' = Indexed
      /\ cursor' = lastSeen
      /\ DOMAIN batches' \in {{}, {lastSeen}}
  BY <1>1, <1>2, EmptyEffect
<1>4. Struct'
  BY <1>1, <1>2, <1>3 DEF IndexInv, Struct, Optional
<1>5. PassInv'
  BY <1>1, <1>2, <1>3, TreeAssumption DEF PassInv
<1>6. resets = 0 => Indexed = {}
  BY <1>2 DEF IndexInv, ChainInv
<1> QED
  BY <1>1, <1>3, <1>4, <1>5, <1>6 DEF IndexInv, ChainInv

\* The walk from the cursor: removed and added blocks of one answer.
LEMMA WalkStep ==
    ASSUME IndexInv, NEW s \in Blocks, Walk(s)
    PROVE  IndexInv'
<1>1. /\ pc = "walk" /\ s \in WalkEnds(cursor) /\ sink' = sink
      /\ removed' = WalkRemoves(cursor, s) /\ todo' = WalkAdds(cursor, s)
      /\ pc' = IF removed' = {} THEN "apply" ELSE "rollback"
      /\ UNCHANGED <<rows, batches, cursor, since, lastSeen, anchor, resets>>
  BY DEF Walk, nodeVars, storeVars, tables, historyVars
<1>2. cursor \in Blocks /\ lastSeen = NoBlock /\ since = 0
  BY <1>1 DEF IndexInv, ChainInv, PassInv, Struct, Optional
<1>3. \/ removed' = {} /\ todo' = {}
      \/ /\ removed' = Path[cursor] \ Path[s]
         /\ todo' = Path[s] \ Path[cursor]
  BY <1>1 DEF WalkRemoves, WalkAdds, RemovedFrom, AddedFrom
<1>4. Indexed' = Indexed
  BY <1>1 DEF Indexed
<1>5. Struct'
  BY <1>1, <1>2, <1>3, <1>4, TreeAssumption DEF IndexInv, Struct
<1>6. PassInv'
  BY <1>1, <1>2, TreeAssumption DEF PassInv
<1>7. pc' = "rollback" => RollbackReady'
  BY <1>1, <1>2, <1>3 DEF RollbackReady, RemovedFrom, AddedFrom
<1>8. ASSUME resets = 0, removed' = {} PROVE ApplyReady'
  <2>1. ASSUME NEW x \in todo', NEW b \in Indexed PROVE b \in Path[x] /\ b # x
    <3>1. b \in Path[cursor]
      BY <1>8, <2>1 DEF IndexInv, ChainInv
    <3>2. b \in Path[s] /\ x \in Path[s] /\ x \notin Path[cursor]
      BY <1>1, <1>3, <1>8, <2>1, <3>1
    <3>3. x \in Path[b] => x \in Path[cursor]
      BY <1>2, <3>1, TreeAssumption
    <3> QED
      BY <1>2, <3>1, <3>2, <3>3, TreeAssumption
  <2> QED
    BY <1>1, <1>2, <1>4, <2>1 DEF ApplyReady
<1> QED
  BY <1>1, <1>4, <1>5, <1>6, <1>7, <1>8 DEF IndexInv, ChainInv

\* Every step of the specification preserves the invariant.
LEMMA NextIndexInv == IndexInv /\ [Next]_vars => IndexInv'
<1> SUFFICES ASSUME IndexInv, [Next]_vars PROVE IndexInv'
  OBVIOUS
<1>1. ASSUME NEW b \in Blocks, SinkMoves(b) PROVE IndexInv'
  BY <1>1, OutsideSteps DEF SinkMoves, storeVars, tables, historyVars
<1>2. ASSUME NEW view \in NodeViews, NodeSwitches(view[1], view[2]) PROVE IndexInv'
  <2>1. sink' \in Blocks
    BY <1>2, EngineAssumption DEF NodeSwitches
  <2> QED
    BY <1>2, <2>1, OutsideSteps DEF NodeSwitches, storeVars, tables, historyVars
<1>3. CASE BeginPass
  <2>1. /\ pc = "idle" /\ sink' = sink
        /\ pc' = IF cursor = NoBlock THEN "start" ELSE "walk"
        /\ lastSeen' = IF cursor = NoBlock THEN sink ELSE NoBlock
        /\ UNCHANGED <<rows, batches, cursor, todo, removed, since, anchor, resets>>
    BY <1>3 DEF BeginPass, SetTip, nodeVars, tables, historyVars
  <2>2. Indexed' = Indexed
    BY <2>1 DEF Indexed
  <2>3. Struct'
    BY <2>1, <2>2 DEF IndexInv, Struct, Optional
  <2>4. ChainInv'
    BY <2>1, <2>2, TreeAssumption DEF IndexInv, Struct, ChainInv, PassInv
  <2> QED
    BY <2>3, <2>4 DEF IndexInv
<1>4. CASE BeginPassWithoutTip
  <2>1. /\ pc = "idle" /\ sink' = sink
        /\ UNCHANGED <<rows, batches, cursor, resets>>
    BY <1>4 DEF BeginPassWithoutTip, storeVars, nodeVars, tables, historyVars
  <2>2. CASE cursor = NoBlock
    BY <1>4, <2>1, <2>2, EndsQuietly DEF BeginPassWithoutTip
  <2>3. CASE cursor # NoBlock
    <3>1. pc' = "walk" /\ UNCHANGED <<todo, removed, since, lastSeen, anchor>>
      BY <1>4, <2>3 DEF BeginPassWithoutTip, PassGoesTo
    <3>2. Indexed' = Indexed
      BY <2>1 DEF Indexed
    <3>3. Struct'
      BY <2>1, <3>1, <3>2 DEF IndexInv, Struct
    <3>4. ChainInv'
      BY <2>1, <2>3, <3>1, <3>2 DEF IndexInv, ChainInv, PassInv
    <3> QED
      BY <3>3, <3>4 DEF IndexInv
  <2> QED
    BY <2>2, <2>3
<1>5. CASE StartFreshIndex
  BY <1>5, StartStep
<1>6. CASE \E s \in Blocks : Walk(s)
  BY <1>6, WalkStep
<1>7. CASE WalkRefused
  BY <1>7, EndsQuietly DEF WalkRefused, storeVars, nodeVars, tables, historyVars
<1>8. CASE RollBack
  BY <1>8, RollBackStep
<1>9. ASSUME NEW b \in Blocks, ProcessBlock(b) PROVE IndexInv'
  BY <1>9, ProcessStep
<1>10. ASSUME NEW b \in Blocks, ApplyRefused(b) PROVE IndexInv'
  BY <1>10, EndsQuietly DEF ApplyRefused, storeVars, nodeVars, tables, historyVars
<1>11. CASE FinishPass
  BY <1>11, FinishStep
<1>12. CASE Interrupted
  BY <1>12, EndsQuietly DEF Interrupted, storeVars, nodeVars, tables, historyVars
<1>13. CASE ProbeCursor
  <2>1. /\ pc = "idle" /\ pc' = "probe" /\ sink' = sink /\ cursor # NoBlock
        /\ UNCHANGED <<rows, batches, cursor, todo, removed, since, lastSeen, anchor, resets>>
    BY <1>13 DEF ProbeCursor, PassGoesTo, storeVars, nodeVars, tables, historyVars
  <2>2. Indexed' = Indexed
    BY <2>1 DEF Indexed
  <2>3. Struct'
    BY <2>1, <2>2 DEF IndexInv, Struct
  <2>4. ChainInv'
    BY <2>1, <2>2 DEF IndexInv, ChainInv, PassInv
  <2> QED
    BY <2>3, <2>4 DEF IndexInv
<1>14. ASSUME NEW a \in Blocks, ReAnchor(a) PROVE IndexInv'
  BY <1>14, ReAnchorStep
<1>15. CASE Repoint
  <2>1. /\ pc = "repoint" /\ cursor' = anchor /\ sink' = sink /\ PassEnds
        /\ UNCHANGED <<rows, batches, resets>>
    BY <1>15 DEF Repoint, CheckpointCursor, nodeVars, tables, historyVars
  <2>2. Indexed' = Indexed
    BY <2>1 DEF Indexed
  <2>3. Struct'
    BY <2>1, <2>2 DEF IndexInv, Struct, PassEnds, Optional
  <2>4. ChainInv'
    BY <2>1, <2>2 DEF IndexInv, ChainInv, PassInv, PassEnds
  <2> QED
    BY <2>3, <2>4 DEF IndexInv
<1>16. CASE RestartAtSink
  <2>1. /\ cursor' = sink /\ sink' = sink /\ resets' = 1 /\ PassEnds
        /\ UNCHANGED <<rows, batches>>
    BY <1>16 DEF RestartAtSink, ResetCursor, nodeVars, tables
  <2>2. Indexed' = Indexed
    BY <2>1 DEF Indexed
  <2>3. Struct'
    BY <2>1, <2>2 DEF IndexInv, Struct, PassEnds, Optional
  <2>4. ChainInv'
    BY <2>1, TreeAssumption DEF IndexInv, Struct, ChainInv, PassInv, PassEnds
  <2> QED
    BY <2>3, <2>4 DEF IndexInv
<1>17. CASE Drain
  <2>1. UNCHANGED <<rows, batches, cursor, passVars, resets, sink>>
    BY <1>17 DEF Drain, DrainProjection, tables, nodeVars, historyVars
  <2> QED
    BY <2>1, OutsideSteps DEF IndexInv, Struct
<1>18. CASE UNCHANGED vars
  <2>1. UNCHANGED <<rows, batches, cursor, passVars, resets, sink>>
    BY <1>18 DEF vars, storeVars, tables, nodeVars, historyVars
  <2> QED
    BY <2>1, OutsideSteps DEF IndexInv, Struct
<1> QED
  BY <1>1, <1>2, <1>3, <1>4, <1>5, <1>6, <1>7, <1>8, <1>9, <1>10, <1>11, <1>12,
     <1>13, <1>14, <1>15, <1>16, <1>17, <1>18
  DEF Next, NodeStep, PassStep, RecoveryStep

\* The invariant holds throughout, for every chain and every environment.
THEOREM IndexInvariance == Spec => []IndexInv
  BY InitIndexInv, NextIndexInv, PTL DEF Spec

\* What the engine holds in memory at each point of a pass always agrees with
\* the rows, batches and cursor that earlier transactions left in the store.
THEOREM ChainInvariance == Spec => []ChainInv
<1>1. IndexInv => ChainInv
  BY DEF IndexInv
<1> QED
  BY <1>1, IndexInvariance, PTL

\* The event rows always lie on the cursor's chain, and the blocks a pass still
\* has to apply extend that chain.
THEOREM BelowCursor == Spec => []IndexBelowCursor
<1>1. IndexInv => IndexBelowCursor
  BY DEF IndexInv, ChainInv, ApplyReady, IndexBelowCursor
<1> QED
  BY <1>1, IndexInvariance, PTL

-----------------------------------------------------------------------------
(* The engine implements ChainIndex *)

\* A step that leaves the rows and the reset mark alone is a stutter.
LEMMA Stutters ==
    ASSUME rows' = rows, resets' = resets
    PROVE  [Index!Next]_<<Indexed, resets>>
  BY DEF Indexed

\* A rollback keeps a set of rows that is closed under taking older blocks.
LEMMA RetractStep ==
    ASSUME IndexInv, resets = 0, resets' = 0,
           NEW R, RollbackRemovedBlocks(R),
           \A a \in Indexed \ R, c \in Indexed : c \in Path[a] => c \notin R
    PROVE  [Index!Next]_<<Indexed, resets>>
<1>1. Indexed' = Indexed \ (R \cap DOMAIN batches)
  BY RollbackEffect
<1>2. Indexed \subseteq DOMAIN batches
  BY DEF IndexInv, ChainInv
<1>3. Indexed' = Indexed \ R
  BY <1>1, <1>2
<1>4. Index!Retract(Indexed \ R)
  BY <1>3 DEF Index!Retract
<1> QED
  BY <1>4 DEF Index!Next

\* Every step of the engine is a step of ChainIndex or a stutter.
LEMMA NextRefines ==
    ASSUME IndexInv, IndexInv', [Next]_vars
    PROVE  [Index!Next]_<<Indexed, resets>>
<1>1. CASE resets = 1
  <2>1. resets' = 1
    BY <1>1 DEF Next, NodeStep, PassStep, RecoveryStep, SinkMoves, NodeSwitches,
         BeginPass, BeginPassWithoutTip, StartFreshIndex, Walk, WalkRefused, RollBack,
         ProcessBlock, ApplyRefused, FinishPass, Interrupted, ProbeCursor, ReAnchor,
         Repoint, RestartAtSink, Drain, vars, historyVars
  <2>2. Indexed' \in SUBSET Blocks
    BY DEF IndexInv, Struct
  <2> QED
    BY <1>1, <2>1, <2>2 DEF Index!Next
<1>2. CASE resets = 0
  <2>1. ASSUME NEW b \in Blocks, SinkMoves(b) PROVE [Index!Next]_<<Indexed, resets>>
    BY <2>1, Stutters DEF SinkMoves, storeVars, tables, historyVars
  <2>2. ASSUME NEW b, NEW S, NodeSwitches(b, S) PROVE [Index!Next]_<<Indexed, resets>>
    BY <2>2, Stutters DEF NodeSwitches, storeVars, tables, historyVars
  <2>3. CASE BeginPass \/ BeginPassWithoutTip
    BY <2>3, Stutters DEF BeginPass, BeginPassWithoutTip, SetTip, storeVars, tables, historyVars
  <2>4. CASE StartFreshIndex
    <3>1. lastSeen \in Blocks
      BY <2>4 DEF StartFreshIndex, IndexInv, ChainInv, PassInv, Struct, Optional
    <3>2. Indexed' = Indexed /\ resets' = resets
      BY <2>4, <3>1, EmptyEffect DEF StartFreshIndex
    <3> QED
      BY <3>2
  <2>5. CASE (\E s \in Blocks : Walk(s)) \/ WalkRefused \/ Interrupted
    BY <2>5, Stutters DEF Walk, WalkRefused, Interrupted, storeVars, tables, historyVars
  <2>6. CASE RollBack
    <3>1. RollbackRemovedBlocks(removed) /\ resets' = 0 /\ pc = "rollback"
      BY <1>2, <2>6 DEF RollBack, historyVars
    <3>2. PICK s \in Blocks : removed = Path[cursor] \ Path[s]
      BY <1>2, <3>1 DEF IndexInv, ChainInv, RollbackReady, RemovedFrom
    <3>3. \A b \in Indexed : b \in Path[cursor]
      BY <1>2 DEF IndexInv, ChainInv
    <3>4. ASSUME NEW a \in Indexed \ removed, NEW c \in Indexed, c \in Path[a]
          PROVE  c \notin removed
      <4>1. a \in Path[s]
        BY <3>2, <3>3
      <4> QED
        BY <3>2, <3>4, <4>1, TreeAssumption
    <3> QED
      BY <1>2, <3>1, <3>4, RetractStep
  <2>7. ASSUME NEW b \in Blocks, ProcessBlock(b) PROVE [Index!Next]_<<Indexed, resets>>
    <3>1. resets' = resets /\ pc = "apply" /\ b \in todo
      BY <2>7 DEF ProcessBlock, First
    <3>2. Indexed' = Indexed \/ Indexed' = Indexed \cup {b}
      <4>1. CASE CommitsBlock(Classify(b))
        BY <2>7, <4>1, ApplyEffect DEF ProcessBlock
      <4>2. CASE ~CommitsBlock(Classify(b))
        BY <2>7, <4>2 DEF ProcessBlock, storeVars, tables, Indexed
      <4> QED
        BY <4>1, <4>2
    <3>3. \A a \in Indexed : a \in Path[b] \ {b}
      BY <1>2, <3>1 DEF IndexInv, ChainInv, ApplyReady
    <3>4. CASE Indexed' = Indexed \cup {b}
      BY <1>2, <3>1, <3>3, <3>4 DEF Index!Next, Index!Extend
    <3> QED
      BY <3>1, <3>2, <3>4
  <2>8. ASSUME NEW b \in Blocks, ApplyRefused(b) PROVE [Index!Next]_<<Indexed, resets>>
    BY <2>8, Stutters DEF ApplyRefused, storeVars, tables, historyVars
  <2>9. CASE FinishPass
    <3>1. CASE since > 0
      <4>1. lastSeen \in Blocks
        BY <3>1 DEF IndexInv, ChainInv, PassInv, Struct, Optional
      <4>2. Indexed' = Indexed /\ resets' = resets
        BY <2>9, <3>1, <4>1, EmptyEffect DEF FinishPass, FinalCheckpoint
      <4> QED
        BY <4>2
    <3>2. CASE ~(since > 0)
      BY <2>9, <3>2, Stutters DEF FinishPass, FinalCheckpoint, storeVars, tables
    <3> QED
      BY <3>1, <3>2
  <2>10. CASE ProbeCursor
    BY <2>10, Stutters DEF ProbeCursor, storeVars, tables, historyVars
  <2>11. ASSUME NEW a \in Blocks, ReAnchor(a) PROVE [Index!Next]_<<Indexed, resets>>
    <3>1. RollbackRemovedBlocks(RollbackAbove(a)) /\ resets' = 0
      BY <1>2, <2>11 DEF ReAnchor
    <3>2. RollbackAbove(a) = {b \in Indexed : Daa[b] > Daa[a]}
      BY DEF RollbackAbove, AcceptingBlocksAbove, Indexed
    <3>3. ASSUME NEW b \in Indexed \ RollbackAbove(a), NEW c \in Indexed, c \in Path[b]
          PROVE  c \notin RollbackAbove(a)
      <4>1. /\ a \in Blocks /\ b \in Blocks /\ c \in Blocks
            /\ Daa[a] \in Nat /\ Daa[b] \in Nat /\ Daa[c] \in Nat
        BY TreeAssumption DEF IndexInv, Struct
      <4>2. c = b \/ Daa[c] < Daa[b]
        BY <3>3, <4>1, TreeAssumption
      <4> QED
        BY <3>2, <4>1, <4>2
    <3> QED
      BY <1>2, <3>1, <3>3, RetractStep
  <2>12. CASE Repoint
    BY <2>12, Stutters DEF Repoint, CheckpointCursor, tables, historyVars
  <2>13. CASE RestartAtSink
    <3>1. rows' = rows /\ resets' = 1
      BY <2>13 DEF RestartAtSink, ResetCursor, tables
    <3> QED
      BY <3>1 DEF Index!Next, Index!Forfeit, Indexed
  <2>14. CASE Drain
    BY <2>14, Stutters DEF Drain, DrainProjection, tables, historyVars
  <2>15. CASE UNCHANGED vars
    BY <2>15, Stutters DEF vars, storeVars, tables, historyVars
  <2> QED
    BY <2>1, <2>2, <2>3, <2>4, <2>5, <2>6, <2>7, <2>8, <2>9, <2>10, <2>11, <2>12,
       <2>13, <2>14, <2>15
    DEF Next, NodeStep, PassStep, RecoveryStep
<1> QED
  BY <1>1, <1>2 DEF IndexInv, Struct

\* Whatever the node does and whatever fails, the readers of the index see what
\* ChainIndex allows.
THEOREM Implements == Spec => ServesOneChain
<1>1. Init => Index!Init
  BY DEF Init, StoreInit, Index!Init, Indexed
<1>2. IndexInv /\ IndexInv' /\ [Next]_vars => [Index!Next]_<<Indexed, resets>>
  BY NextRefines
<1> QED
  BY <1>1, <1>2, IndexInvariance, PTL DEF Spec, ServesOneChain, Index!Spec

-----------------------------------------------------------------------------
(* Ranks: the members of a finite set under a strict total order are       *)
(* numbered from zero without a hole.  The order is a set of pairs.        *)

Orders(R, S) ==
    /\ \A x \in S : <<x, x>> \notin R
    /\ \A x, y \in S : x # y => <<x, y>> \in R \/ <<y, x>> \in R
    /\ \A x, y, z \in S : <<x, y>> \in R /\ <<y, z>> \in R => <<x, z>> \in R

Place(x, R, S) == Cardinality({y \in S : <<y, x>> \in R})

\* Whatever precedes a member is a finite set that leaves the member out.
LEMMA PlaceBound ==
    ASSUME NEW S, IsFiniteSet(S), NEW R, Orders(R, S), NEW x \in S
    PROVE  /\ IsFiniteSet({y \in S : <<y, x>> \in R})
           /\ Place(x, R, S) \in Nat /\ Place(x, R, S) < Cardinality(S)
<1> DEFINE before == {y \in S : <<y, x>> \in R}
<1>1. IsFiniteSet(before) /\ Cardinality(before) <= Cardinality(S)
  <2>1. before \in SUBSET S
    OBVIOUS
  <2> QED
    BY <2>1, FS_Subset
<1>2. Cardinality(before) \in Nat /\ Cardinality(S) \in Nat
  BY <1>1, FS_CardinalityType
<1>3. Cardinality(before) # Cardinality(S)
  <2>1. before \in SUBSET S /\ before # S
    BY DEF Orders
  <2> HIDE DEF before
  <2> QED
    BY <2>1, FS_Subset
<1> QED
  BY <1>1, <1>2, <1>3 DEF Place

\* A later member has a larger place.
LEMMA PlaceGrows ==
    ASSUME NEW S, IsFiniteSet(S), NEW R, Orders(R, S), NEW x \in S, NEW y \in S, <<x, y>> \in R
    PROVE  Place(x, R, S) < Place(y, R, S)
<1> DEFINE upTo == {z \in S : <<z, x>> \in R}
           below == {z \in S : <<z, y>> \in R}
<1>1. IsFiniteSet(upTo) /\ IsFiniteSet(below) /\ Cardinality(upTo) \in Nat /\ Cardinality(below) \in Nat
  BY PlaceBound, FS_CardinalityType
<1>2. x \notin upTo /\ upTo \cup {x} \in SUBSET below
  BY DEF Orders
<1> HIDE DEF upTo, below
<1>3. Cardinality(upTo \cup {x}) = Cardinality(upTo) + 1
  BY <1>1, <1>2, FS_AddElement
<1>4. Cardinality(upTo \cup {x}) <= Cardinality(below)
  BY <1>1, <1>2, FS_Subset
<1> QED
  BY <1>1, <1>3, <1>4 DEF Place, upTo, below

\* So places are the numbers below the size of the set, each taken once.
LEMMA PlacesAreDense ==
    ASSUME NEW S, IsFiniteSet(S), NEW R, Orders(R, S)
    PROVE  /\ \A x, y \in S : Place(x, R, S) = Place(y, R, S) => x = y
           /\ {Place(x, R, S) : x \in S} = 0..(Cardinality(S) - 1)
           /\ Cardinality(S) \in Nat
<1> DEFINE n == Cardinality(S)
           f == [x \in S |-> Place(x, R, S)]
<1>1. n \in Nat
  BY FS_CardinalityType
<1>2. \A x, y \in S : Place(x, R, S) = Place(y, R, S) => x = y
  <2> SUFFICES ASSUME NEW x \in S, NEW y \in S, Place(x, R, S) = Place(y, R, S), x # y PROVE FALSE
    OBVIOUS
  <2>1. Place(x, R, S) \in Nat /\ Place(y, R, S) \in Nat
    BY PlaceBound
  <2>2. CASE <<x, y>> \in R
    BY <2>1, <2>2, PlaceGrows
  <2>3. CASE <<y, x>> \in R
    BY <2>1, <2>3, PlaceGrows
  <2> QED
    BY <2>2, <2>3 DEF Orders
<1>3. \A x \in S : Place(x, R, S) \in 0..(n - 1)
  <2> SUFFICES ASSUME NEW x \in S PROVE Place(x, R, S) \in 0..(n - 1)
    OBVIOUS
  <2>1. Place(x, R, S) \in Nat /\ Place(x, R, S) < n
    BY PlaceBound
  <2> QED
    BY <1>1, <2>1
<1>4. f \in Injection(S, 0..(n - 1))
  BY <1>2, <1>3 DEF Injection, IsInjective
<1>5. IsFiniteSet(0..(n - 1)) /\ Cardinality(0..(n - 1)) = n
  <2>1. CASE n = 0
    BY <1>1, <2>1, FS_Interval
  <2>2. CASE n # 0
    <3>1. 0 \in Int /\ n - 1 \in Int /\ ~(0 > n - 1)
      BY <1>1, <2>2
    <3> HIDE DEF n
    <3> QED
      BY <1>1, <3>1, FS_Interval
  <2> QED
    BY <2>1, <2>2
<1>6. f \in Surjection(S, 0..(n - 1))
  BY <1>4, <1>5, FS_Injection
<1>7. {Place(x, R, S) : x \in S} = 0..(n - 1)
  BY <1>3, <1>6 DEF Surjection
<1> QED
  BY <1>1, <1>2, <1>7

-----------------------------------------------------------------------------
(* The numbers a transaction gives to its records *)

\* The events of a batch are told apart by transaction and covenant.
Keys(B) ==
    /\ IsFiniteSet(B.events)
    /\ \A e \in B.events : e.index \in Int /\ e.cov \in Int
    /\ \A e, f \in B.events : e.index = f.index /\ e.cov = f.cov => e = f

\* So are those of a classified block; an empty batch has none.
LEMMA ClassifiedKeys ==
    ASSUME NEW b \in Blocks
    PROVE  Keys(Classify(b))
<1> DEFINE E == NewEvents(b)
           n == Len(Accepted[b])
<1>1. Accepted[b] \in Seq(Txs) /\ n \in Nat /\ DOMAIN Accepted[b] = 1..n
  BY DataAssumption
<1>2. \A i \in 1..n : Touched(b, i) \subseteq Covenants
  <2> SUFFICES ASSUME NEW i \in 1..n PROVE Touched(b, i) \subseteq Covenants
    OBVIOUS
  <2>1. Accepted[b][i] \in Txs
    BY <1>1
  <2>2. SpentBy(b, i) \cup Outputs[Accepted[b][i]] \subseteq Coins
    BY <2>1, DataAssumption DEF SpentBy
  <2> QED
    BY <2>2, DataAssumption DEF Touched
<1>3. \A e \in E : /\ e.index \in 1..n /\ e.cov \in Covenants
                   /\ e = [index |-> e.index, tx |-> Accepted[b][e.index], cov |-> e.cov,
                           kind |-> KindOf(b, e.index, e.cov)]
  BY <1>1, <1>2 DEF NewEvents
<1>4. \A e, f \in E : e.index = f.index /\ e.cov = f.cov => e = f
  BY <1>3
<1>5. IsFiniteSet(E)
  <2> DEFINE key == [e \in E |-> <<e.index, e.cov>>]
  <2>1. key \in Injection(E, (1..n) \X Covenants)
    BY <1>3, <1>4 DEF Injection, IsInjective
  <2>2. IsFiniteSet(1..n)
    BY <1>1, FS_Interval
  <2>3. IsFiniteSet((1..n) \X Covenants)
    BY <2>2, DataAssumption, FS_Product
  <2> QED
    BY <2>1, <2>3, FS_Injection
<1>6. Classify(b).events = E
  BY DEF Classify
<1> QED
  BY <1>3, <1>4, <1>5, <1>6, DataAssumption DEF Keys

\* An empty batch has no events to number.
LEMMA EmptyKeys ==
    ASSUME NEW b, NEW daa
    PROVE  Keys(EmptyBatch(b, daa)) /\ EmptyBatch(b, daa).events = {}
BY FS_EmptySet DEF Keys, EmptyBatch

\* Events take the numbers from nextSeq on, each one.
LEMMA AcceptedNumbers ==
    ASSUME NEW B, Keys(B), nextSeq \in Nat
    PROVE  /\ Cardinality(B.events) \in Nat
           /\ \A e \in B.events : StreamSeq(B, e) \in nextSeq..(nextSeq + Cardinality(B.events) - 1)
           /\ \A e, f \in B.events : StreamSeq(B, e) = StreamSeq(B, f) => e = f
           /\ {StreamSeq(B, e) : e \in B.events} = nextSeq..(nextSeq + Cardinality(B.events) - 1)
<1> DEFINE S == B.events
           R == {p \in S \X S : EventBefore(p[1], p[2])}
           n == Cardinality(S)
<1>1. Orders(R, S)
  BY DEF Orders, Keys, EventBefore
<1>2. \A e \in S : StreamSeq(B, e) = nextSeq + Place(e, R, S)
  <2> SUFFICES ASSUME NEW e \in S PROVE StreamSeq(B, e) = nextSeq + Place(e, R, S)
    OBVIOUS
  <2>1. {y \in S : EventBefore(y, e)} = {y \in S : <<y, e>> \in R}
    OBVIOUS
  <2> QED
    BY <2>1 DEF StreamSeq, Rank, Place
<1>3. /\ \A x, y \in S : Place(x, R, S) = Place(y, R, S) => x = y
      /\ {Place(x, R, S) : x \in S} = 0..(n - 1)
      /\ n \in Nat
  <2>1. IsFiniteSet(S)
    BY DEF Keys
  <2> HIDE DEF R, S
  <2> QED
    BY <1>1, <2>1, PlacesAreDense
<1> HIDE DEF R, S, n
<1>4. \A x \in S : Place(x, R, S) \in 0..(n - 1)
  BY <1>3
<1>5. \A i \in 0..(n - 1) : \E x \in S : Place(x, R, S) = i
  BY <1>3
<1>6. \A e \in S : StreamSeq(B, e) \in nextSeq..(nextSeq + n - 1)
  BY <1>2, <1>3, <1>4
<1>7. \A e, f \in S : StreamSeq(B, e) = StreamSeq(B, f) => e = f
  BY <1>2, <1>3, <1>4
<1>8. ASSUME NEW m \in nextSeq..(nextSeq + n - 1) PROVE \E e \in S : StreamSeq(B, e) = m
  <2>1. m - nextSeq \in 0..(n - 1)
    BY <1>3
  <2>2. PICK e \in S : Place(e, R, S) = m - nextSeq
    BY <1>5, <2>1
  <2> QED
    BY <1>2, <2>2
<1>9. {StreamSeq(B, e) : e \in S} = nextSeq..(nextSeq + n - 1)
  BY <1>6, <1>8
<1> QED
  BY <1>3, <1>6, <1>7, <1>9 DEF S, n

-----------------------------------------------------------------------------
(* The inductive invariant *)

\* A record that some removal takes back.
Cited(r) == \E d \in log : d.source = r.seq

LogTypes ==
    /\ nextSeq \in Nat \ {0}
    /\ IsFiniteSet(log)
    /\ \A r \in log : /\ r.seq \in 1..(nextSeq - 1) /\ r.block \in Blocks
                      /\ r.kind \in {"accepted", "removed"}
                      /\ IF r.kind = "accepted" THEN r.source = 0 ELSE r.source \in 1..(nextSeq - 1)
    /\ \A b \in DOMAIN batches : batches[b].first \in Int /\ batches[b].last \in Int

\* The range of a block's current batch names exactly the deliveries of the
\* block that stand; those of earlier batches, and of blocks without a batch,
\* have been taken back.
RangesStand ==
    \A r \in log : r.kind = "accepted" =>
      (~Cited(r) <=> /\ r.block \in DOMAIN batches
                     /\ batches[r.block].first <= r.seq /\ r.seq <= batches[r.block].last)

LogInv == LogTypes /\ LogIsDense /\ RangesStand /\ LogReplaysToIndex

-----------------------------------------------------------------------------
(* Removals *)

\* Removals take the numbers from nextSeq on, each one, and cite each of the
\* deliveries to take back once.
LEMMA RemovalNumbers ==
    ASSUME LogInv, NEW C \in SUBSET DOMAIN batches
    PROVE  /\ Cardinality(Sources(C)) \in Nat
           /\ {r.seq : r \in RemovalRecords(C)} = nextSeq..(nextSeq + Cardinality(Sources(C)) - 1)
           /\ \A r \in RemovalRecords(C) :
                /\ r.kind = "removed" /\ r.block \in Blocks
                /\ \E q \in Sources(C) : r.source = q.seq /\ r.block = q.block
           /\ \A r, q \in RemovalRecords(C) : r.seq = q.seq \/ r.source = q.source => r = q
           /\ \A r, q \in RemovalRecords(C) : Daa[r.block] > Daa[q.block] => r.seq < q.seq
           /\ \A q \in Sources(C) : \E r \in RemovalRecords(C) : r.source = q.seq
<1> DEFINE S == Sources(C)
           R == {p \in S \X S : RemovalBefore(p[1], p[2])}
           n == Cardinality(S)
           D == RemovalRecords(C)
           rec(r) == [seq |-> nextSeq + Place(r, R, S), kind |-> "removed", cov |-> r.cov,
                      tx |-> r.tx, block |-> r.block, source |-> r.seq]
<1>1. S \in SUBSET log
  BY DEF Sources
<1>2. \A r \in S : r.seq \in Nat /\ Daa[r.block] \in Nat /\ r.block \in Blocks
  BY <1>1, TreeAssumption DEF LogInv, LogTypes
<1>3. \A r, q \in S : r.seq = q.seq => r = q
  BY <1>1 DEF LogInv, LogIsDense
<1>4. Orders(R, S)
  BY <1>2, <1>3 DEF Orders, RemovalBefore
<1>5. IsFiniteSet(S)
  BY <1>1, FS_Subset DEF LogInv, LogTypes
<1>6. \A r \in S : Rank(r, S, RemovalBefore) = Place(r, R, S)
  <2> SUFFICES ASSUME NEW r \in S PROVE Rank(r, S, RemovalBefore) = Place(r, R, S)
    OBVIOUS
  <2>1. {y \in S : RemovalBefore(y, r)} = {y \in S : <<y, r>> \in R}
    OBVIOUS
  <2> QED
    BY <2>1 DEF Rank, Place
<1>7. D = {rec(r) : r \in S}
  BY <1>6 DEF RemovalRecords
<1> HIDE DEF R, S, D
<1>8. /\ \A x, y \in S : Place(x, R, S) = Place(y, R, S) => x = y
      /\ {Place(x, R, S) : x \in S} = 0..(n - 1)
      /\ n \in Nat
  BY <1>4, <1>5, PlacesAreDense
<1> HIDE DEF n
<1>9. nextSeq \in Nat /\ \A x \in S : Place(x, R, S) \in 0..(n - 1)
  BY <1>8 DEF LogInv, LogTypes
<1>10. {r.seq : r \in D} = nextSeq..(nextSeq + n - 1)
  <2>1. \A r \in D : r.seq \in nextSeq..(nextSeq + n - 1)
    BY <1>7, <1>8, <1>9
  <2>2. ASSUME NEW m \in nextSeq..(nextSeq + n - 1) PROVE \E r \in D : r.seq = m
    <3>1. m - nextSeq \in 0..(n - 1)
      BY <1>8, <1>9
    <3>2. PICK x \in S : Place(x, R, S) = m - nextSeq
      BY <1>8, <3>1
    <3>3. rec(x) \in D /\ rec(x).seq = m
      BY <1>7, <1>9, <3>2
    <3> QED
      BY <3>3
  <2> QED
    BY <2>1, <2>2
<1>11. \A r \in D : /\ r.kind = "removed" /\ r.block \in Blocks
                    /\ \E q \in S : r.source = q.seq /\ r.block = q.block
  BY <1>2, <1>7
<1>12. \A r, q \in D : r.seq = q.seq \/ r.source = q.source => r = q
  <2> SUFFICES ASSUME NEW x \in S, NEW y \in S,
                      rec(x).seq = rec(y).seq \/ rec(x).source = rec(y).source
               PROVE  x = y
    BY <1>7
  <2>1. CASE rec(x).seq = rec(y).seq
    <3>1. Place(x, R, S) = Place(y, R, S)
      BY <1>8, <1>9, <2>1
    <3> QED
      BY <1>8, <3>1
  <2>2. CASE rec(x).source = rec(y).source
    BY <1>3, <2>2
  <2> QED
    BY <2>1, <2>2
<1>13. \A q \in S : \E r \in D : r.source = q.seq
  <2> SUFFICES ASSUME NEW q \in S PROVE \E r \in D : r.source = q.seq
    OBVIOUS
  <2>1. rec(q) \in D /\ rec(q).source = q.seq
    BY <1>7
  <2> QED
    BY <2>1
<1>14. \A r, q \in D : Daa[r.block] > Daa[q.block] => r.seq < q.seq
  <2> SUFFICES ASSUME NEW x \in S, NEW y \in S, Daa[x.block] > Daa[y.block]
               PROVE  rec(x).seq < rec(y).seq
    BY <1>7
  <2>1. <<x, y>> \in R
    BY DEF R, RemovalBefore
  <2>2. Place(x, R, S) < Place(y, R, S)
    BY <1>4, <1>5, <2>1, PlaceGrows
  <2>3. Place(x, R, S) \in Int /\ Place(y, R, S) \in Int
    BY <1>8, <1>9
  <2> QED
    BY <1>9, <2>2, <2>3
<1> QED
  BY <1>8, <1>10, <1>11, <1>12, <1>13, <1>14 DEF D, S, n

-----------------------------------------------------------------------------
(* The transactions *)

\* Whatever leaves the log, the rows and the batches alone.
LEMMA LogFrame ==
    ASSUME LogInv, UNCHANGED <<log, nextSeq, batches, rows>>
    PROVE  LogInv'
BY DEF LogInv, LogTypes, LogIsDense, RangesStand, Cited, LogReplaysToIndex

\* apply_accepted_block: the new records are those of the new rows, and a block
\* that comes back finds its former deliveries taken back.
LEMMA ApplyKeepsLog ==
    ASSUME LogInv, NEW B, Keys(B), B.events = {} \/ (B.block \in Blocks /\ B.daa > 0),
           ApplyAcceptedBlock(B)
    PROVE  LogInv'
<1> DEFINE b == B.block
           n == Cardinality(B.events)
           A == AcceptedRecords(B)
<1>1. CASE AlreadyApplied(B)
  <2>1. UNCHANGED <<log, nextSeq, batches, rows>>
    BY <1>1 DEF ApplyAcceptedBlock, storeVars, tables
  <2> QED
    BY <2>1, LogFrame
<1>2. CASE ~AlreadyApplied(B)
  <2>1. /\ rows' = rows \cup NewRows(B) /\ log' = log \cup A /\ nextSeq' = nextSeq + n
        /\ batches' = IF B.daa > 0
                        THEN [x \in DOMAIN batches \cup {b} |->
                                IF x = b THEN [first |-> nextSeq, last |-> nextSeq' - 1] ELSE batches[x]]
                        ELSE batches
        /\ b \notin DOMAIN batches
    BY <1>2 DEF ApplyAcceptedBlock, AlreadyApplied
  <2>2. nextSeq \in Nat \ {0}
    BY DEF LogInv, LogTypes
  <2>3. /\ n \in Nat
        /\ \A e \in B.events : StreamSeq(B, e) \in nextSeq..(nextSeq + n - 1)
        /\ \A e, f \in B.events : StreamSeq(B, e) = StreamSeq(B, f) => e = f
        /\ {StreamSeq(B, e) : e \in B.events} = nextSeq..(nextSeq + n - 1)
    BY <2>2, AcceptedNumbers
  <2>4. /\ \A r \in A : /\ r.kind = "accepted" /\ r.source = 0 /\ r.block = b
                        /\ r.seq \in nextSeq..(nextSeq + n - 1)
        /\ \A r, q \in A : r.seq = q.seq => r = q
        /\ {r.seq : r \in A} = nextSeq..(nextSeq + n - 1)
    <3> DEFINE rec(e) == [seq |-> StreamSeq(B, e), kind |-> "accepted", cov |-> e.cov, tx |-> e.tx,
                          block |-> b, source |-> 0]
    <3>1. A = {rec(e) : e \in B.events}
      BY DEF AcceptedRecords
    <3>2. \A r \in A : /\ r.kind = "accepted" /\ r.source = 0 /\ r.block = b
                       /\ \E e \in B.events : r.seq = StreamSeq(B, e)
      BY <3>1
    <3>3. \A r, q \in A : r.seq = q.seq => r = q
      BY <2>3, <3>1
    <3>4. ASSUME NEW e \in B.events PROVE \E r \in A : r.seq = StreamSeq(B, e)
      <4>1. rec(e) \in A /\ rec(e).seq = StreamSeq(B, e)
        BY <3>1
      <4> QED
        BY <4>1
    <3> HIDE DEF A, n, rec
    <3>5. {r.seq : r \in A} = {StreamSeq(B, e) : e \in B.events}
      BY <3>2, <3>4
    <3> QED
      BY <2>3, <3>2, <3>3, <3>5
  <2>5. IsFiniteSet(A)
    <3> DEFINE num == [r \in A |-> r.seq]
    <3>1. num \in Injection(A, nextSeq..(nextSeq + n - 1))
      <4> HIDE DEF A, n
      <4> QED
        BY <2>4 DEF Injection, IsInjective
    <3>2. IsFiniteSet(nextSeq..(nextSeq + n - 1))
      <4>1. nextSeq \in Int /\ nextSeq + n - 1 \in Int
        BY <2>2, <2>3
      <4> QED
        BY <4>1, FS_Interval
    <3> HIDE DEF num
    <3> QED
      BY <3>1, <3>2, FS_Injection
  <2>6. A # {} => B.daa > 0 /\ b \in Blocks
    BY DEF AcceptedRecords
  <2> HIDE DEF A, n
  <2>7. LogTypes'
    <3>1. IsFiniteSet(log') /\ nextSeq' \in Nat \ {0}
      <4>1. IsFiniteSet(log \cup A)
        BY <2>5, FS_Union DEF LogInv, LogTypes
      <4> QED
        BY <2>1, <2>2, <2>3, <4>1
    <3>2. \A r \in log : r.seq \in 1..(nextSeq' - 1) /\ (r.source \in 1..(nextSeq - 1) => r.source \in 1..(nextSeq' - 1))
      BY <2>1, <2>2, <2>3 DEF LogInv, LogTypes
    <3>3. \A r \in A : r.seq \in 1..(nextSeq' - 1)
      BY <2>1, <2>2, <2>3, <2>4
    <3>4. \A r \in log' : /\ r.seq \in 1..(nextSeq' - 1) /\ r.block \in Blocks
                          /\ r.kind \in {"accepted", "removed"}
                          /\ IF r.kind = "accepted" THEN r.source = 0 ELSE r.source \in 1..(nextSeq' - 1)
      BY <2>1, <2>4, <2>6, <3>2, <3>3 DEF LogInv, LogTypes
    <3>5. \A x \in DOMAIN batches' : batches'[x].first \in Int /\ batches'[x].last \in Int
      BY <2>1, <2>2, <2>3 DEF LogInv, LogTypes
    <3> QED
      BY <3>1, <3>4, <3>5 DEF LogTypes
  <2>8. /\ \A r \in log : r.seq < nextSeq /\ r.seq > 0 /\ r.seq \in Nat
        /\ \A r \in A : r.seq >= nextSeq /\ r.seq \in Nat
    BY <2>2, <2>3, <2>4 DEF LogInv, LogTypes
  <2>9. LogIsDense'
    <3>1. {r.seq : r \in log'} = 1..(nextSeq' - 1)
      <4>1. {r.seq : r \in log'} = {r.seq : r \in log} \cup {r.seq : r \in A}
        BY <2>1
      <4>2. {r.seq : r \in log} = 1..(nextSeq - 1)
        BY DEF LogInv, LogIsDense
      <4> QED
        BY <4>1, <4>2, <2>1, <2>2, <2>3, <2>4
    <3>2. \A r, q \in log' : r.seq = q.seq => r = q
      BY <2>1, <2>2, <2>4, <2>8 DEF LogInv, LogIsDense
    <3>3. \A r \in log' : r.kind = "removed" => r \in log /\ r.source # 0
      BY <2>1, <2>2, <2>4 DEF LogInv, LogTypes
    <3>4. \A r, q \in log' : /\ r.kind = "removed" => r.source < r.seq
                             /\ r.kind = "removed" /\ r.source = q.source => r = q
      BY <2>1, <2>4, <3>3 DEF LogInv, LogIsDense
    <3>5. \A r, q \in log' : /\ r.seq = q.seq => r = q
                             /\ r.kind = "removed" => r.source < r.seq
                             /\ r.kind = "removed" /\ r.source = q.source => r = q
      BY <3>2, <3>4, Zenon
    <3> QED
      BY <3>1, <3>5 DEF LogIsDense
  <2>10. /\ \A r \in log : Cited(r)' <=> Cited(r)
         /\ \A r \in A : ~Cited(r)'
    <3>1. \A d \in log : d.source < nextSeq /\ d.source \in Nat
      BY <2>2 DEF LogInv, LogTypes
    <3> QED
      BY <2>1, <2>2, <2>4, <2>8, <3>1 DEF Cited
  <2>11. RangesStand'
    <3> SUFFICES ASSUME NEW r \in log', r.kind = "accepted"
                 PROVE  ~Cited(r)' <=> /\ r.block \in DOMAIN batches'
                                       /\ batches'[r.block].first <= r.seq /\ r.seq <= batches'[r.block].last
      BY DEF RangesStand, Cited
    <3>1. CASE r \in log /\ (r.block # b \/ ~(B.daa > 0))
      BY <2>1, <2>10, <3>1 DEF LogInv, RangesStand
    <3>2. CASE r \in log /\ r.block = b /\ B.daa > 0
      <4>1. Cited(r)'
        BY <2>1, <2>10, <3>2 DEF LogInv, RangesStand
      <4>2. batches'[b].first = nextSeq
        BY <2>1, <3>2
      <4> QED
        BY <2>2, <2>8, <3>2, <4>1, <4>2
    <3>3. CASE r \in A
      <4>1. b \in DOMAIN batches' /\ batches'[b].first = nextSeq /\ batches'[b].last = nextSeq + n - 1
        <5>1. B.daa > 0
          BY <2>6, <3>3
        <5>2. batches' = [x \in DOMAIN batches \cup {b} |->
                            IF x = b THEN [first |-> nextSeq, last |-> nextSeq' - 1] ELSE batches[x]]
          BY <2>1, <5>1
        <5>3. b \in DOMAIN batches' /\ batches'[b] = [first |-> nextSeq, last |-> nextSeq' - 1]
          BY <5>2
        <5>4. nextSeq' - 1 = nextSeq + n - 1
          BY <2>1, <2>2, <2>3
        <5>5. batches'[b].first = nextSeq /\ batches'[b].last = nextSeq' - 1
          BY ONLY <5>3
        <5> QED
          BY ONLY <5>3, <5>4, <5>5
      <4> QED
        BY <2>2, <2>3, <2>4, <2>10, <3>3, <4>1
    <3> QED
      BY <2>1, <3>1, <3>2, <3>3
  <2>12. LogReplaysToIndex'
    <3> DEFINE shown(r) == [cov |-> r.cov, tx |-> r.tx, block |-> r.block, seq |-> r.stream]
               told(r) == [cov |-> r.cov, tx |-> r.tx, block |-> r.block, seq |-> r.seq]
               stands == {q \in log : q.kind = "accepted" /\ ~Cited(q)}
               now == {q \in log' : q.kind = "accepted" /\ ~Cited(q)'}
    <3>1. now = stands \cup A
      BY <2>1, <2>4, <2>10
    <3>2. {shown(r) : r \in NewRows(B)} = {told(r) : r \in A}
      <4> DEFINE key(e) == [cov |-> e.cov, tx |-> e.tx, block |-> b, seq |-> StreamSeq(B, e)]
                 row(e) == [cov |-> e.cov, seq |-> CovenantSeq(B, e), kind |-> e.kind, tx |-> e.tx,
                            block |-> b, stream |-> StreamSeq(B, e)]
                 rec(e) == [seq |-> StreamSeq(B, e), kind |-> "accepted", cov |-> e.cov, tx |-> e.tx,
                            block |-> b, source |-> 0]
      <4>1. NewRows(B) = {row(e) : e \in B.events} /\ A = {rec(e) : e \in B.events}
        BY DEF NewRows, A, AcceptedRecords
      <4>2. \A e \in B.events : shown(row(e)) = key(e) /\ told(rec(e)) = key(e)
        OBVIOUS
      <4> HIDE DEF A, shown, told, key, row, rec
      <4>3. {shown(r) : r \in NewRows(B)} = {key(e) : e \in B.events}
        BY <4>1, <4>2
      <4>4. {told(r) : r \in A} = {key(e) : e \in B.events}
        BY <4>1, <4>2
      <4> QED
        BY <4>3, <4>4
    <3>3. {shown(r) : r \in rows} = {told(r) : r \in stands}
      BY DEF LogInv, LogReplaysToIndex, Cited
    <3>4. {shown(r) : r \in rows'} = {told(r) : r \in now}
      <4>1. {shown(r) : r \in rows'} = {shown(r) : r \in rows} \cup {shown(r) : r \in NewRows(B)}
        BY <2>1
      <4>2. {told(r) : r \in now} = {told(r) : r \in stands} \cup {told(r) : r \in A}
        BY <3>1
      <4> HIDE DEF shown, told, stands, now
      <4> QED
        BY <3>2, <3>3, <4>1, <4>2
    <3> QED
      BY <3>4 DEF LogReplaysToIndex, Cited
  <2> QED
    BY <2>7, <2>9, <2>11, <2>12 DEF LogInv
<1> QED
  BY <1>1, <1>2

\* rollback_removed_blocks: what goes from the index is what stands of the
\* removed blocks, and each of it is taken back once.
LEMMA RollbackKeepsLog ==
    ASSUME LogInv, NEW R, RollbackRemovedBlocks(R)
    PROVE  LogInv'
<1> DEFINE C == Canonical(R)
           n == Cardinality(Sources(C))
           D == RemovalRecords(C)
<1>1. CASE C = {}
  <2>1. UNCHANGED <<log, nextSeq, batches, rows>>
    BY <1>1 DEF RollbackRemovedBlocks, storeVars, tables
  <2> QED
    BY <2>1, LogFrame
<1>2. CASE C # {}
  <2>1. /\ rows' = {r \in rows : r.block \notin C} /\ log' = log \cup D /\ nextSeq' = nextSeq + n
        /\ batches' = [b \in DOMAIN batches \ C |-> batches[b]]
    BY <1>2 DEF RollbackRemovedBlocks
  <2>2. C \in SUBSET DOMAIN batches
    BY DEF Canonical
  <2> HIDE DEF C
  <2>3. nextSeq \in Nat \ {0}
    BY DEF LogInv, LogTypes
  <2>4. /\ n \in Nat
        /\ {r.seq : r \in D} = nextSeq..(nextSeq + n - 1)
        /\ \A r \in D : r.kind = "removed" /\ r.block \in Blocks /\ \E q \in Sources(C) : r.source = q.seq
        /\ \A r, q \in D : r.seq = q.seq \/ r.source = q.source => r = q
        /\ \A q \in Sources(C) : \E r \in D : r.source = q.seq
    BY <2>2, RemovalNumbers
  <2>5. /\ \A q \in Sources(C) : q \in log /\ q.kind = "accepted" /\ q.block \in C /\ ~Cited(q)
        /\ \A q \in log : q.kind = "accepted" /\ ~Cited(q) /\ q.block \in C => q \in Sources(C)
    BY <2>2 DEF LogInv, RangesStand, Sources
  <2> HIDE DEF D, n
  <2>6. /\ \A r \in D : r.seq \in nextSeq..(nextSeq + n - 1)
        /\ \A r \in log : r.seq \in 1..(nextSeq - 1) /\ r.block \in Blocks
    BY <2>4 DEF LogInv, LogTypes
  <2>7. /\ \A r \in log : r.seq < nextSeq /\ r.seq > 0 /\ r.seq \in Nat
        /\ \A r \in D : r.seq >= nextSeq /\ r.seq \in Nat /\ r.source \in 1..(nextSeq - 1)
    BY <2>3, <2>4, <2>5, <2>6
  <2>8. IsFiniteSet(D)
    <3> DEFINE num == [r \in D |-> r.seq]
    <3>1. num \in Injection(D, nextSeq..(nextSeq + n - 1))
      BY <2>4, <2>6 DEF Injection, IsInjective
    <3>2. IsFiniteSet(nextSeq..(nextSeq + n - 1))
      <4>1. nextSeq \in Int /\ nextSeq + n - 1 \in Int
        BY <2>3, <2>4
      <4> QED
        BY <4>1, FS_Interval
    <3> HIDE DEF num
    <3> QED
      BY <3>1, <3>2, FS_Injection
  <2>9. LogTypes'
    <3>1. IsFiniteSet(log') /\ nextSeq' \in Nat \ {0}
      <4>1. IsFiniteSet(log \cup D)
        BY <2>8, FS_Union DEF LogInv, LogTypes
      <4> QED
        BY <2>1, <2>3, <2>4, <4>1
    <3>2. \A m \in 1..(nextSeq - 1) : m \in 1..(nextSeq' - 1)
      BY <2>1, <2>3, <2>4
    <3>3. \A r \in log : r.seq \in 1..(nextSeq' - 1) /\ (r.source \in 1..(nextSeq - 1) => r.source \in 1..(nextSeq' - 1))
      BY <2>6, <3>2
    <3>4. \A r \in D : r.seq \in 1..(nextSeq' - 1) /\ r.source \in 1..(nextSeq' - 1)
      BY <2>1, <2>3, <2>4, <2>6, <2>7, <3>2
    <3>5. \A r \in log' : /\ r.seq \in 1..(nextSeq' - 1) /\ r.block \in Blocks
                          /\ r.kind \in {"accepted", "removed"}
                          /\ IF r.kind = "accepted" THEN r.source = 0 ELSE r.source \in 1..(nextSeq' - 1)
      BY <2>1, <2>4, <3>3, <3>4 DEF LogInv, LogTypes
    <3>6. \A x \in DOMAIN batches' : batches'[x].first \in Int /\ batches'[x].last \in Int
      BY <2>1 DEF LogInv, LogTypes
    <3> QED
      BY <3>1, <3>5, <3>6 DEF LogTypes
  <2>10. LogIsDense'
    <3>1. {r.seq : r \in log'} = 1..(nextSeq' - 1)
      <4>1. {r.seq : r \in log'} = {r.seq : r \in log} \cup {r.seq : r \in D}
        BY <2>1
      <4>2. {r.seq : r \in log} = 1..(nextSeq - 1)
        BY DEF LogInv, LogIsDense
      <4> QED
        BY <4>1, <4>2, <2>1, <2>3, <2>4
    <3>2. \A r, q \in log' : r.seq = q.seq => r = q
      BY <2>1, <2>3, <2>4, <2>7 DEF LogInv, LogIsDense
    <3>3. \A r \in log' : r.kind = "removed" => r.source < r.seq
      BY <2>1, <2>3, <2>7 DEF LogInv, LogIsDense
    <3>4. ASSUME NEW r \in log, NEW q \in D PROVE r.source # q.source
      BY <2>4, <2>5 DEF Cited
    <3>5. \A r, q \in log' : r.kind = "removed" /\ r.source = q.source => r = q
      BY <2>1, <2>4, <3>4 DEF LogInv, LogIsDense
    <3> QED
      BY <3>1, <3>2, <3>3, <3>5 DEF LogIsDense
  <2>11. \A r \in log : Cited(r)' <=> Cited(r) \/ r \in Sources(C)
    <3> SUFFICES ASSUME NEW r \in log PROVE Cited(r)' <=> Cited(r) \/ r \in Sources(C)
      OBVIOUS
    <3>1. Cited(r)' <=> (\E d \in log \cup D : d.source = r.seq)
      BY <2>1 DEF Cited
    <3>2. (\E d \in D : d.source = r.seq) => r \in Sources(C)
      <4> SUFFICES ASSUME NEW d \in D, d.source = r.seq PROVE r \in Sources(C)
        OBVIOUS
      <4>1. PICK q \in Sources(C) : d.source = q.seq
        BY <2>4
      <4>2. q \in log /\ q.seq = r.seq
        BY <2>5, <4>1
      <4>3. q = r
        BY <4>2 DEF LogInv, LogIsDense
      <4> QED
        BY <4>1, <4>3
    <3>3. r \in Sources(C) => \E d \in D : d.source = r.seq
      BY <2>4
    <3> QED
      BY <3>1, <3>2, <3>3 DEF Cited
  <2>12. RangesStand'
    <3> SUFFICES ASSUME NEW r \in log', r.kind = "accepted"
                 PROVE  ~Cited(r)' <=> /\ r.block \in DOMAIN batches'
                                       /\ batches'[r.block].first <= r.seq /\ r.seq <= batches'[r.block].last
      BY DEF RangesStand, Cited
    <3>1. r \in log
      BY <2>1, <2>4
    <3>2. ~Cited(r) <=> /\ r.block \in DOMAIN batches
                        /\ batches[r.block].first <= r.seq /\ r.seq <= batches[r.block].last
      BY <3>1 DEF LogInv, RangesStand
    <3>3. Cited(r)' <=> Cited(r) \/ r.block \in C
      BY <2>5, <2>11, <3>1
    <3> QED
      BY <2>1, <3>2, <3>3
  <2>13. LogReplaysToIndex'
    <3> DEFINE shown(r) == [cov |-> r.cov, tx |-> r.tx, block |-> r.block, seq |-> r.stream]
               told(r) == [cov |-> r.cov, tx |-> r.tx, block |-> r.block, seq |-> r.seq]
               stands == {q \in log : q.kind = "accepted" /\ ~Cited(q)}
               now == {q \in log' : q.kind = "accepted" /\ ~Cited(q)'}
               kept(Img) == {x \in Img : x.block \notin C}
    <3>1. now = {q \in stands : q.block \notin C}
      <4>1. \A q \in log' : q.kind = "accepted" => q \in log
        BY <2>1, <2>4
      <4>2. \A q \in log : q.kind = "accepted" => (~Cited(q)' <=> ~Cited(q) /\ q.block \notin C)
        BY <2>5, <2>11
      <4> QED
        BY <2>1, <4>1, <4>2
    <3>2. \A r : shown(r).block = r.block /\ told(r).block = r.block
      OBVIOUS
    <3>3. {shown(r) : r \in rows} = {told(r) : r \in stands}
      BY DEF LogInv, LogReplaysToIndex, Cited
    <3> HIDE DEF shown, told, stands, now
    <3>4. {shown(r) : r \in rows'} = kept({shown(r) : r \in rows})
      BY <2>1, <3>2
    <3>5. {told(r) : r \in now} = kept({told(r) : r \in stands})
      BY <3>1, <3>2
    <3>6. {shown(r) : r \in rows'} = {told(r) : r \in now}
      BY <3>3, <3>4, <3>5
    <3> QED
      BY <3>6 DEF LogReplaysToIndex, Cited, shown, told, now
  <2> QED
    BY <2>9, <2>10, <2>12, <2>13 DEF LogInv
<1> QED
  BY <1>1, <1>2

-----------------------------------------------------------------------------
(* The engine *)

\* An empty log over an empty index.
LEMMA InitLog == Init => LogInv
<1> SUFFICES ASSUME Init PROVE LogInv
  OBVIOUS
<1>1. rows = {} /\ log = {} /\ nextSeq = 1 /\ batches = <<>>
  BY DEF Init, StoreInit
<1>2. LogTypes /\ RangesStand /\ LogReplaysToIndex
  BY <1>1, FS_EmptySet DEF LogTypes, RangesStand, LogReplaysToIndex
<1>3. LogIsDense
  BY <1>1 DEF LogIsDense
<1> QED
  BY <1>2, <1>3 DEF LogInv

\* Every step is one of the two transactions above or leaves the log alone: the
\* lemma needs nothing of the point a pass has reached.
LEMMA NextLog == LogInv /\ [Next]_vars => LogInv'
<1> SUFFICES ASSUME LogInv, [Next]_vars PROVE LogInv'
  OBVIOUS
<1> USE DEF storeVars, tables
<1>1. ASSUME NEW b, NEW daa, ApplyAcceptedBlock(EmptyBatch(b, daa)) PROVE LogInv'
  <2> DEFINE B == EmptyBatch(b, daa)
  <2>1. Keys(B) /\ B.events = {}
    BY EmptyKeys
  <2>2. ApplyAcceptedBlock(B)
    BY <1>1
  <2> HIDE DEF B
  <2> QED
    BY <2>1, <2>2, ApplyKeepsLog
<1>2. ASSUME NEW b \in Blocks, ApplyAcceptedBlock(Classify(b)) PROVE LogInv'
  <2>1. Classify(b).block = b /\ Classify(b).daa > 0
    BY TreeAssumption DEF Classify
  <2> QED
    BY <1>2, <2>1, ClassifiedKeys, ApplyKeepsLog
<1>3. CASE NodeStep
  BY <1>3, LogFrame DEF NodeStep, SinkMoves, NodeSwitches
<1>4. CASE BeginPass
  BY <1>4, LogFrame DEF BeginPass, SetTip
<1>5. CASE BeginPassWithoutTip
  BY <1>5, LogFrame DEF BeginPassWithoutTip
<1>6. CASE StartFreshIndex
  BY <1>1, <1>6 DEF StartFreshIndex
<1>7. ASSUME NEW s \in Blocks, Walk(s) PROVE LogInv'
  BY <1>7, LogFrame DEF Walk
<1>8. CASE WalkRefused
  BY <1>8, LogFrame DEF WalkRefused
<1>9. CASE RollBack
  BY <1>9, RollbackKeepsLog DEF RollBack
<1>10. ASSUME NEW b \in Blocks, ProcessBlock(b) PROVE LogInv'
  <2>1. CASE CommitsBlock(Classify(b))
    BY <1>2, <1>10, <2>1 DEF ProcessBlock
  <2>2. CASE ~CommitsBlock(Classify(b))
    BY <1>10, <2>2, LogFrame DEF ProcessBlock
  <2> QED
    BY <2>1, <2>2
<1>11. ASSUME NEW b \in Blocks, ApplyRefused(b) PROVE LogInv'
  BY <1>11, LogFrame DEF ApplyRefused
<1>12. CASE FinishPass
  <2>1. CASE since > 0
    BY <1>1, <1>12, <2>1 DEF FinishPass, FinalCheckpoint
  <2>2. CASE ~(since > 0)
    BY <1>12, <2>2, LogFrame DEF FinishPass, FinalCheckpoint
  <2> QED
    BY <2>1, <2>2
<1>13. CASE Interrupted
  BY <1>13, LogFrame DEF Interrupted
<1>14. CASE ProbeCursor
  BY <1>14, LogFrame DEF ProbeCursor
<1>15. ASSUME NEW a \in Blocks, ReAnchor(a) PROVE LogInv'
  BY <1>15, RollbackKeepsLog DEF ReAnchor
<1>16. CASE Repoint
  BY <1>16, LogFrame DEF Repoint, CheckpointCursor
<1>17. CASE RestartAtSink
  BY <1>17, LogFrame DEF RestartAtSink, ResetCursor
<1>18. CASE Drain
  BY <1>18, LogFrame DEF Drain, DrainProjection
<1>19. CASE UNCHANGED vars
  BY <1>19, LogFrame DEF vars
<1> QED
  BY <1>3, <1>4, <1>5, <1>6, <1>7, <1>8, <1>9, <1>10, <1>11, <1>12, <1>13, <1>14, <1>15, <1>16,
     <1>17, <1>18, <1>19
  DEF Next, PassStep, RecoveryStep

\* The invariant holds throughout.
THEOREM LogInvariance == Spec => []LogInv
  BY InitLog, NextLog, PTL DEF Spec

\* A client that replays the delivery log from the start and takes back what the
\* removals cite holds exactly the covenant_events of the index.
THEOREM LogTellsIndex == Spec => []LogReplaysToIndex
<1>1. LogInv => LogReplaysToIndex
  BY DEF LogInv
<1> QED
  BY <1>1, LogInvariance, PTL

\* Stream sequences have no hole and no duplicate, and a delivery is taken back
\* at most once and after it was made.
THEOREM LogDense == Spec => []LogIsDense
<1>1. LogInv => LogIsDense
  BY DEF LogInv
<1> QED
  BY <1>1, LogInvariance, PTL

-----------------------------------------------------------------------------
(* The order of removals: here the point a pass has reached matters.       *)

\* Records added at the end of the log disturb nothing that was said of the
\* earlier ones.
LEMMA GrowKeepsOrder ==
    ASSUME LogInv, RemovalsNewestFirst, resets' = 0 => resets = 0,
           NEW N, log' = log \cup N, \A r \in N : r.seq \in Nat /\ r.seq >= nextSeq,
           resets = 0 => \A d \in N, q \in log :
               d.kind = "removed" /\ q.kind = "accepted"
                   /\ (\A e \in log' : e.source = q.seq => e.seq > d.seq)
                   => q.block = d.block \/ d.block \notin Path[q.block],
           \A d, q \in N : ~(d.kind = "removed" /\ q.kind = "accepted")
    PROVE  RemovalsNewestFirst'
<1> SUFFICES ASSUME resets' = 0, NEW d \in log', NEW q \in log',
                    d.kind = "removed", q.kind = "accepted", q.seq < d.seq,
                    \A e \in log' : e.source = q.seq => e.seq > d.seq
             PROVE  q.block = d.block \/ d.block \notin Path[q.block]
  BY DEF RemovalsNewestFirst
<1>1. CASE d \in N
  BY <1>1
<1>2. CASE d \in log
  <2>1. d.seq \in Nat /\ d.seq < nextSeq /\ nextSeq \in Nat
    BY <1>2 DEF LogInv, LogTypes
  <2>2. q \in log
    BY <2>1
  <2> QED
    BY <1>2, <2>2 DEF RemovalsNewestFirst
<1> QED
  BY <1>1, <1>2

\* apply_accepted_block adds no removal.
LEMMA ApplyKeepsOrder ==
    ASSUME LogInv, RemovalsNewestFirst, resets' = 0 => resets = 0,
           NEW B, Keys(B), ApplyAcceptedBlock(B)
    PROVE  RemovalsNewestFirst'
<1>1. CASE AlreadyApplied(B)
  <2>1. log' = log
    BY <1>1 DEF ApplyAcceptedBlock, storeVars, tables
  <2> QED
    BY <2>1 DEF RemovalsNewestFirst
<1>2. CASE ~AlreadyApplied(B)
  <2>1. log' = log \cup AcceptedRecords(B)
    BY <1>2 DEF ApplyAcceptedBlock
  <2>2. nextSeq \in Nat
    BY DEF LogInv, LogTypes
  <2>3. \A e \in B.events : StreamSeq(B, e) \in nextSeq..(nextSeq + Cardinality(B.events) - 1)
    BY <2>2, AcceptedNumbers
  <2>4. \A r \in AcceptedRecords(B) : r.kind = "accepted" /\ \E e \in B.events : r.seq = StreamSeq(B, e)
    BY DEF AcceptedRecords
  <2>5. Cardinality(B.events) \in Nat
    BY FS_CardinalityType DEF Keys
  <2>6. \A r \in AcceptedRecords(B) : r.kind = "accepted" /\ r.seq \in Nat /\ r.seq >= nextSeq
    BY <2>2, <2>3, <2>4, <2>5
  <2> QED
    BY <2>1, <2>6, GrowKeepsOrder
<1> QED
  BY <1>1, <1>2

\* Blocks to roll back that take every indexed block above them along.
TakesWhatIsAbove(R) ==
    \A a \in Canonical(R), b \in Indexed : a \in Path[b] /\ a # b => b \in R

\* rollback_removed_blocks: a later block of the same chain that still stands
\* is taken back by the same transaction, and with a smaller number.
LEMMA RollbackKeepsOrder ==
    ASSUME LogInv, RemovalsNewestFirst, resets' = 0 => resets = 0,
           NEW R, RollbackRemovedBlocks(R), resets = 0 => TakesWhatIsAbove(R)
    PROVE  RemovalsNewestFirst'
<1> DEFINE C == Canonical(R)
           D == RemovalRecords(C)
<1>1. CASE C = {}
  <2>1. log' = log
    BY <1>1 DEF RollbackRemovedBlocks, storeVars, tables
  <2> QED
    BY <2>1 DEF RemovalsNewestFirst
<1>2. CASE C # {}
  <2>1. log' = log \cup D
    BY <1>2 DEF RollbackRemovedBlocks
  <2>2. C \in SUBSET DOMAIN batches /\ C = R \cap DOMAIN batches
    BY DEF Canonical
  <2>3. TakesWhatIsAbove(R) => \A a \in C, b \in Indexed : a \in Path[b] /\ a # b => b \in R
    BY DEF TakesWhatIsAbove
  <2> HIDE DEF C
  <2>4. nextSeq \in Nat \ {0}
    BY DEF LogInv, LogTypes
  <2>5. /\ Cardinality(Sources(C)) \in Nat
        /\ {r.seq : r \in D} = nextSeq..(nextSeq + Cardinality(Sources(C)) - 1)
        /\ \A r \in D : /\ r.kind = "removed" /\ r.block \in Blocks
                        /\ \E q \in Sources(C) : r.source = q.seq /\ r.block = q.block
        /\ \A r, q \in D : Daa[r.block] > Daa[q.block] => r.seq < q.seq
        /\ \A q \in Sources(C) : \E r \in D : r.source = q.seq
    BY <2>2, RemovalNumbers
  <2>6. /\ \A q \in Sources(C) : q \in log /\ q.kind = "accepted" /\ q.block \in C
        /\ \A q \in log : q.kind = "accepted" /\ ~Cited(q) /\ q.block \in C => q \in Sources(C)
    BY <2>2 DEF LogInv, RangesStand, Sources
  <2> HIDE DEF D
  <2>7. \A r \in D : r.seq \in Nat /\ r.seq >= nextSeq
    <3>1. \A r \in D : r.seq \in nextSeq..(nextSeq + Cardinality(Sources(C)) - 1)
      BY <2>5
    <3> QED
      BY <2>4, <2>5, <3>1
  <2>8. ASSUME resets = 0, NEW d \in D, NEW q \in log, q.kind = "accepted",
               \A e \in log' : e.source = q.seq => e.seq > d.seq
        PROVE  q.block = d.block \/ d.block \notin Path[q.block]
    <3> SUFFICES ASSUME q.block # d.block, d.block \in Path[q.block] PROVE FALSE
      OBVIOUS
    <3>1. ~Cited(q)
      <4> SUFFICES ASSUME NEW e \in log, e.source = q.seq PROVE FALSE
        BY DEF Cited
      <4>1. e.seq > d.seq
        BY <2>1, <2>8
      <4>2. e.seq \in Nat /\ e.seq < nextSeq
        BY DEF LogInv, LogTypes
      <4> QED
        BY <2>4, <2>7, <4>1, <4>2
    <3>2. q.block \in DOMAIN batches /\ q.block \in Blocks
      BY <2>8, <3>1 DEF LogInv, LogTypes, RangesStand
    <3>3. q.block \in Indexed
      <4> DEFINE shown(r) == [cov |-> r.cov, tx |-> r.tx, block |-> r.block, seq |-> r.stream]
                 told(r) == [cov |-> r.cov, tx |-> r.tx, block |-> r.block, seq |-> r.seq]
                 stands == {x \in log : x.kind = "accepted" /\ ~Cited(x)}
      <4>1. {shown(r) : r \in rows} = {told(r) : r \in stands}
        BY DEF LogInv, LogReplaysToIndex, Cited
      <4>2. q \in stands
        BY <2>8, <3>1
      <4>3. \A r : shown(r).block = r.block /\ told(r).block = r.block
        OBVIOUS
      <4> HIDE DEF shown, told, stands
      <4>4. told(q) \in {shown(r) : r \in rows}
        BY <4>1, <4>2
      <4>5. PICK r \in rows : told(q) = shown(r)
        BY <4>4
      <4>6. q.block = r.block
        BY <4>3, <4>5
      <4> QED
        BY <4>6 DEF Indexed
    <3>4. d.block \in C
      BY <2>5, <2>6
    <3>5. q \in Sources(C)
      <4>1. q.block \in R
        BY <2>3, <2>8, <3>3, <3>4
      <4> QED
        BY <2>2, <2>6, <2>8, <3>1, <3>2, <4>1
    <3>6. PICK e \in D : e.source = q.seq
      BY <2>5, <3>5
    <3>7. e.block = q.block
      <4>1. PICK x \in Sources(C) : e.source = x.seq /\ e.block = x.block
        BY <2>5
      <4>2. x = q
        BY <2>6, <3>6, <4>1 DEF LogInv, LogIsDense
      <4> QED
        BY <4>1, <4>2
    <3>8. Daa[e.block] > Daa[d.block]
      BY <3>2, <3>7, TreeAssumption
    <3>9. e.seq < d.seq
      BY <2>5, <3>8
    <3>10. e.seq > d.seq
      BY <2>1, <2>8, <3>6
    <3> QED
      BY <2>7, <3>9, <3>10
  <2>9. \A d, q \in D : ~(d.kind = "removed" /\ q.kind = "accepted")
    BY <2>5
  <2>10. resets = 0 => \A d \in D, q \in log :
               d.kind = "removed" /\ q.kind = "accepted"
                   /\ (\A e \in log' : e.source = q.seq => e.seq > d.seq)
                   => q.block = d.block \/ d.block \notin Path[q.block]
    BY <2>8
  <2> QED
    BY <2>1, <2>7, <2>9, <2>10, GrowKeepsOrder
<1> QED
  BY <1>1, <1>2

\* What a pass rolls back is what leaves the chain, ...
LEMMA WalkTakesAbove ==
    ASSUME IndexInv, pc = "rollback", resets = 0
    PROVE  TakesWhatIsAbove(removed)
<1>1. ASSUME NEW a \in removed, NEW b \in Indexed, a \in Path[b] PROVE b \in removed
  <2>1. PICK s \in Blocks : removed = RemovedFrom(cursor, s)
    BY DEF IndexInv, ChainInv, RollbackReady
  <2>2. b \in Path[cursor] /\ b \in Blocks
    BY <1>1 DEF IndexInv, Struct, ChainInv
  <2>3. b \notin Path[s]
    BY <1>1, <2>1, TreeAssumption DEF RemovedFrom
  <2> QED
    BY <2>1, <2>2, <2>3 DEF RemovedFrom
<1> QED
  BY <1>1 DEF TakesWhatIsAbove, Canonical

\* ... and what a recovery rolls back is all that lies above its anchor.
LEMMA AnchorTakesAbove ==
    ASSUME IndexInv, NEW anchored \in Blocks
    PROVE  TakesWhatIsAbove(RollbackAbove(anchored))
<1> DEFINE R == RollbackAbove(anchored)
<1>1. R = {b \in Indexed : Daa[b] > Daa[anchored]}
  BY DEF RollbackAbove, AcceptingBlocksAbove, Indexed
<1>2. Indexed \subseteq Blocks
  BY DEF IndexInv, Struct
<1> HIDE DEF R
<1>3. ASSUME NEW a \in R, NEW b \in Indexed, a \in Path[b], a # b PROVE b \in R
  <2>1. Daa[a] < Daa[b] /\ Daa[a] \in Nat /\ Daa[b] \in Nat /\ Daa[anchored] \in Nat
    BY <1>1, <1>2, <1>3, TreeAssumption
  <2> QED
    BY <1>1, <1>3, <2>1
<1>4. TakesWhatIsAbove(R)
  BY <1>3 DEF TakesWhatIsAbove, Canonical
<1> QED
  BY <1>4 DEF R

\* So both keep the order of the removals.
LEMMA NextOrder == IndexInv /\ LogInv /\ RemovalsNewestFirst /\ [Next]_vars => RemovalsNewestFirst'
<1> SUFFICES ASSUME IndexInv, LogInv, RemovalsNewestFirst, [Next]_vars PROVE RemovalsNewestFirst'
  OBVIOUS
<1>1. resets' = 0 => resets = 0
  BY DEF Next, NodeStep, SinkMoves, NodeSwitches, PassStep, BeginPass, BeginPassWithoutTip,
         StartFreshIndex, Walk, WalkRefused, RollBack, ProcessBlock, ApplyRefused, FinishPass,
         Interrupted, RecoveryStep, ProbeCursor, ReAnchor, Repoint, RestartAtSink, Drain, vars, historyVars
<1>2. ASSUME log' = log PROVE RemovalsNewestFirst'
  BY <1>1, <1>2 DEF RemovalsNewestFirst
<1>3. ASSUME NEW b, NEW daa, ApplyAcceptedBlock(EmptyBatch(b, daa)) PROVE RemovalsNewestFirst'
  <2> DEFINE B == EmptyBatch(b, daa)
  <2>1. Keys(B)
    BY EmptyKeys
  <2>2. ApplyAcceptedBlock(B)
    BY <1>3
  <2> HIDE DEF B
  <2> QED
    BY <1>1, <2>1, <2>2, ApplyKeepsOrder
<1>4. ASSUME NEW b \in Blocks, ApplyAcceptedBlock(Classify(b)) PROVE RemovalsNewestFirst'
  BY <1>1, <1>4, ClassifiedKeys, ApplyKeepsOrder
<1>5. CASE RollBack
  <2>1. pc = "rollback" /\ RollbackRemovedBlocks(removed)
    BY <1>5 DEF RollBack
  <2> QED
    BY <1>1, <2>1, WalkTakesAbove, RollbackKeepsOrder
<1>6. ASSUME NEW a \in Blocks, ReAnchor(a) PROVE RemovalsNewestFirst'
  <2>1. RollbackRemovedBlocks(RollbackAbove(a))
    BY <1>6 DEF ReAnchor
  <2> QED
    BY <1>1, <2>1, AnchorTakesAbove, RollbackKeepsOrder
<1>7. CASE StartFreshIndex
  BY <1>3, <1>7 DEF StartFreshIndex
<1>8. ASSUME NEW b \in Blocks, ProcessBlock(b) PROVE RemovalsNewestFirst'
  BY <1>2, <1>4, <1>8 DEF ProcessBlock, storeVars, tables
<1>9. CASE FinishPass
  BY <1>2, <1>3, <1>9 DEF FinishPass, FinalCheckpoint, storeVars, tables
<1>10. CASE NodeStep \/ BeginPass \/ BeginPassWithoutTip \/ WalkRefused \/ Interrupted
            \/ ProbeCursor \/ Repoint \/ RestartAtSink \/ Drain \/ UNCHANGED vars
  BY <1>2, <1>10
  DEF NodeStep, SinkMoves, NodeSwitches, BeginPass, SetTip, BeginPassWithoutTip, WalkRefused,
      Interrupted, ProbeCursor, Repoint, CheckpointCursor, RestartAtSink, ResetCursor, Drain,
      DrainProjection, vars, storeVars, tables
<1>11. ASSUME NEW b \in Blocks, Walk(b) \/ ApplyRefused(b) PROVE RemovalsNewestFirst'
  BY <1>2, <1>11 DEF Walk, ApplyRefused, storeVars, tables
<1> QED
  BY <1>5, <1>6, <1>7, <1>8, <1>9, <1>10, <1>11 DEF Next, PassStep, RecoveryStep

\* The log can be paged through and left at any point: it has no hole, and a block
\* is taken back only after every later block the reader still holds.
THEOREM LogOrder == Spec => []LogInOrder
<1>1. Init => RemovalsNewestFirst
  BY DEF Init, StoreInit, RemovalsNewestFirst
<1>2. Spec => []RemovalsNewestFirst
  BY <1>1, NextOrder, IndexInvariance, LogInvariance, PTL DEF Spec
<1>3. LogIsDense /\ RemovalsNewestFirst => LogInOrder
  BY DEF LogInOrder
<1> QED
  BY <1>2, <1>3, LogDense, PTL
==============================================================================
