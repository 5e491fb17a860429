------------------------------ MODULE SyncEngine ------------------------------
(***************************************************************************)
(* One network's sync engine (sync.rs) between a node that reorganises,    *)
(* fails and forgets at any moment, and the canonical store.  A pass is a  *)
(* sequence of store transactions with node calls, that is awaits, between *)
(* them; the process may also die between any two of them.  Everything     *)
(* outside the store (the walk in progress) is lost on a failure.          *)
(***************************************************************************)
EXTENDS CanonicalStore

CONSTANTS
    Root,               \* the sink the node starts with
    NodeViews,          \* <<sink, unknown>> pairs a reconnect or pruning may lead to
    CheckpointEvery,    \* CHECKPOINT_EVERY
    WedgeLag,           \* WEDGE_LAG_DAA
    Answers,            \* how nodes answer a stranded cursor: "refuse", "empty" (an empty walk)
    ProjectionChunk,    \* OPTIONAL_PROJECTION_CHUNK
    MaxFailures,        \* bound: failed calls and crashes
    MaxSwitches         \* bound: changes of what the node can walk from

\* The sink is the heaviest block a node knows of (GHOSTDAG selects by blue
\* work, a tie by hash).
KnowsUpTo(b, unseen) == \A x \in Blocks \ unseen : Weight[x] <= Weight[b]

ASSUME EngineAssumption ==
    /\ Root \in Blocks
    /\ NodeViews \subseteq Blocks \X SUBSET Blocks
    /\ \A view \in NodeViews : view[1] \notin view[2] /\ KnowsUpTo(view[1], view[2])
    /\ CheckpointEvery \in Nat \ {0}
    /\ WedgeLag \in Nat
    /\ Answers \subseteq {"refuse", "empty"}
    /\ ProjectionChunk \in Nat \ {0}
    /\ {MaxFailures, MaxSwitches} \subseteq Nat

VARIABLES
    sink,       \* the node's sink
    unknown,    \* blocks the node cannot walk from: not seen yet, or pruned
    answers,    \* what it does when asked to
    pc,         \* where the engine is
    todo,       \* ChainStep::added, what is left of it
    removed,    \* ChainStep::removed
    since,      \* since_checkpoint
    lastSeen,   \* last_seen
    anchor,     \* re_anchor's choice, between its two transactions
    base,       \* history: chain below the index, skipped by its fresh start
    resets,     \* history: 1 once the cursor was reset without a rollback
    unswept,    \* history: 1 once a recovery left a batch above its anchor
    failures, switches      \* counters for the bounds

nodeVars == <<sink, unknown, answers, switches>>
passVars == <<pc, todo, removed, since, lastSeen, anchor>>
historyVars == <<base, resets, unswept>>
vars == <<storeVars, nodeVars, passVars, historyVars, failures>>

Init ==
    /\ StoreInit
    /\ sink = Root
    /\ unknown = Blocks \ Path[Root]
    /\ answers = "refuse"      \* the first node has forgotten nothing yet
    /\ pc = "idle"
    /\ todo = {}
    /\ removed = {}
    /\ since = 0
    /\ lastSeen = NoBlock
    /\ anchor = NoBlock
    /\ base = {}
    /\ failures = 0 /\ switches = 0 /\ resets = 0 /\ unswept = 0

-----------------------------------------------------------------------------
(* The node *)

\* The sink follows blue work: a new tip of the same chain or, on a reorg, of
\* another branch, at any moment of a pass.  The node knows what it added.
SinkMoves(b) ==
    /\ Weight[b] > Weight[sink]
    /\ sink' = b
    /\ unknown' = unknown \ (Path[b] \ Path[sink])
    /\ UNCHANGED <<historyVars, storeVars, answers, switches, passVars, failures>>

\* Pruning, or a reconnect to a node that lags, pruned differently or never saw
\* a branch, changes the sink and what can be walked from.
NodeSwitches(b, S) ==
    /\ switches < MaxSwitches
    /\ <<b, S>> # <<sink, unknown>>
    /\ sink' = b
    /\ unknown' = S
    /\ answers' \in Answers
    /\ switches' = switches + 1
    /\ UNCHANGED <<historyVars, storeVars, passVars, failures>>

Refuses(b) == b \in unknown /\ answers = "refuse"

\* The answer to a walk from b that ends at s.  The node caps its answers: a long
\* one ends below the sink.
WalkRemoves(b, s) == IF b \in unknown THEN {} ELSE RemovedFrom(b, s)
WalkAdds(b, s) == IF b \in unknown THEN {} ELSE AddedFrom(b, s)
WalkEnds(b) == {sink} \cup AddedFrom(b, sink)

-----------------------------------------------------------------------------
(* A sync pass: sync_once_measured_with_decoder *)

\* The pass returns (Ok or Err): what it held in memory is gone.
PassEnds ==
    /\ pc' = "idle"
    /\ todo' = {} /\ removed' = {}
    /\ since' = 0 /\ lastSeen' = NoBlock
    /\ anchor' = NoBlock

PassGoesTo(where) ==
    /\ pc' = where
    /\ UNCHANGED <<todo, removed, since, lastSeen, anchor>>

FailureHappens ==
    /\ failures < MaxFailures
    /\ failures' = failures + 1

\* dag_info answers, the tip is recorded; a fresh index starts at the sink.
BeginPass ==
    /\ pc = "idle"
    /\ pc' = IF cursor = NoBlock THEN "start" ELSE "walk"
    /\ lastSeen' = IF cursor = NoBlock THEN sink ELSE NoBlock
    /\ UNCHANGED <<todo, removed, since, anchor>>
    /\ SetTip(Daa[sink])
    /\ UNCHANGED <<historyVars, nodeVars, failures>>

\* dag_info fails: only a fresh index needs its answer.
BeginPassWithoutTip ==
    /\ pc = "idle"
    /\ FailureHappens
    /\ IF cursor = NoBlock THEN PassEnds ELSE PassGoesTo("walk")
    /\ UNCHANGED <<historyVars, storeVars, nodeVars>>

StartFreshIndex ==
    /\ pc = "start"
    /\ ApplyAcceptedBlock(EmptyBatch(lastSeen, 0))
    /\ base' = Path[lastSeen]
    /\ pc' = "walk"
    /\ lastSeen' = NoBlock
    /\ UNCHANGED <<todo, removed, since, anchor>>
    /\ UNCHANGED <<nodeVars, failures, resets, unswept>>

Walk(s) ==
    /\ pc = "walk"
    /\ ~Refuses(cursor)
    /\ s \in WalkEnds(cursor)
    /\ removed' = WalkRemoves(cursor, s)
    /\ todo' = WalkAdds(cursor, s)
    /\ pc' = IF removed' = {} THEN "apply" ELSE "rollback"
    /\ UNCHANGED <<historyVars, storeVars, nodeVars, since, lastSeen, anchor, failures>>

WalkRefused ==
    /\ pc = "walk"
    /\ Refuses(cursor)
    /\ PassEnds
    /\ UNCHANGED <<historyVars, storeVars, nodeVars, failures>>

RollBack ==
    /\ pc = "rollback"
    /\ RollbackRemovedBlocks(removed)
    /\ removed' = {}
    /\ pc' = "apply"
    /\ UNCHANGED <<historyVars, nodeVars, todo, since, lastSeen, anchor, failures>>

\* A block is committed for its events, or as a checkpoint every so often.
CommitsBlock(B) == B.events # {} \/ since + 1 >= CheckpointEvery

\* One turn of the loop: body fetched, accepted bodies resolved, classified.
ProcessBlock(b) ==
    /\ pc = "apply" /\ First(b, todo)
    /\ todo' = todo \ {b}
    /\ lastSeen' = b
    /\ IF CommitsBlock(Classify(b))
         THEN ApplyAcceptedBlock(Classify(b)) /\ since' = 0
         ELSE since' = since + 1 /\ UNCHANGED storeVars
    /\ base' = base \cap Path[cursor']
    /\ UNCHANGED <<nodeVars, pc, removed, anchor, failures, resets, unswept>>

\* The transaction of a block fails on a constraint, and with it the pass.
ApplyRefused(b) ==
    /\ pc = "apply" /\ First(b, todo)
    /\ CommitsBlock(Classify(b)) /\ ApplyFails(Classify(b))
    /\ PassEnds
    /\ UNCHANGED <<historyVars, storeVars, nodeVars, failures>>

\* Mutant: the pass ends without its final checkpoint.
NoFinalCheckpoint == UNCHANGED storeVars

\* Mutant: the checkpoint takes the node's tip, not the last block walked.
CheckpointsTip ==
    IF since > 0 THEN ApplyAcceptedBlock(EmptyBatch(sink, Daa[sink]))
                 ELSE UNCHANGED storeVars

\* The final checkpoint, an empty batch with the last block's DAA.
FinalCheckpoint ==
    IF since > 0 THEN ApplyAcceptedBlock(EmptyBatch(lastSeen, Daa[lastSeen]))
                 ELSE UNCHANGED storeVars

FinishPass ==
    /\ pc = "apply" /\ todo = {}
    /\ FinalCheckpoint
    /\ base' = base \cap Path[cursor']
    /\ PassEnds
    /\ UNCHANGED <<nodeVars, failures, resets, unswept>>

\* A node call fails (walk, block body, an accepted body still unresolved
\* after the retry, a probe of the recovery), or the process dies, at any
\* moment: committed transactions stay.
Interrupted ==
    /\ FailureHappens
    /\ PassEnds
    /\ UNCHANGED <<historyVars, storeVars, nodeVars>>

-----------------------------------------------------------------------------
(* Recovery of a stranded cursor: recover_wedged_cursor and re_anchor.  The *)
(* follower decides when to try; the engine must survive it at any time.    *)

Lagging == processed # 0 /\ tip # 0 /\ tip - processed > WedgeLag

\* While lagging, an empty walk is not believed.
Walkable(b) ==
    /\ ~Refuses(b)
    /\ ~(Lagging /\ WalkRemoves(b, sink) = {} /\ WalkAdds(b, sink) = {})

\* recent_accepting_blocks and spread_accepting_blocks: blocks with events.
Candidates == {r.block : r \in rows} \ {cursor}

AcceptingBlocksAbove(daa) == {b \in {r.block : r \in rows} : Daa[b] > daa}

\* A probe that fails for another reason looks like an unwalkable cursor.
ProbeCursor ==
    /\ pc = "idle" /\ cursor # NoBlock
    /\ \/ ~Walkable(cursor) /\ UNCHANGED failures
       \/ FailureHappens
    /\ PassGoesTo("probe")
    /\ UNCHANGED <<historyVars, storeVars, nodeVars>>

\* Mutant: the first block above the anchor is spared.
RollbackWellAbove(a) == AcceptingBlocksAbove(Daa[a] + 1)

\* Mutant: the block under the cursor is spared.
RollbackBelowCursor(a) == {b \in AcceptingBlocksAbove(Daa[a]) : Daa[b] < Daa[cursor]}

RollbackAbove(a) == AcceptingBlocksAbove(Daa[a])

NewestWalkable(a) == \A c \in Candidates : Daa[c] > Daa[a] => ~Walkable(c)

\* The newest walkable block of our own history; the blocks above it go.  A
\* failing probe makes it skip a walkable candidate.
ReAnchor(a) ==
    /\ pc = "probe"
    /\ a \in Candidates /\ Walkable(a)
    /\ \/ NewestWalkable(a) /\ UNCHANGED failures
       \/ FailureHappens
    /\ RollbackRemovedBlocks(RollbackAbove(a))
    /\ pc' = "repoint"
    /\ anchor' = a
    /\ unswept' = IF DOMAIN batches' \subseteq Path[a] THEN unswept ELSE 1
    /\ UNCHANGED <<base, resets, nodeVars, todo, removed, since, lastSeen>>

\* Its second transaction, checkpoint_cursor.
Repoint ==
    /\ pc = "repoint"
    /\ CheckpointCursor(anchor)
    /\ PassEnds
    /\ UNCHANGED <<historyVars, nodeVars, failures>>

\* NothingWalkable, and the node can walk from its own sink.
RestartAtSink ==
    /\ pc = "probe"
    /\ \/ (\A c \in Candidates : ~Walkable(c)) /\ UNCHANGED failures
       \/ FailureHappens
    /\ ResetCursor(sink)
    /\ resets' = 1
    /\ PassEnds
    /\ UNCHANGED <<nodeVars, base, unswept>>

-----------------------------------------------------------------------------
(* Between passes the follower drains a chunk of projection work. *)

Drain ==
    /\ pc = "idle"
    /\ DrainProjection(ProjectionChunk)
    /\ UNCHANGED <<historyVars, nodeVars, passVars, failures>>

NodeStep ==
    \/ \E b \in Blocks : SinkMoves(b)
    \/ \E view \in NodeViews : NodeSwitches(view[1], view[2])

PassStep ==
    \/ BeginPass
    \/ BeginPassWithoutTip
    \/ StartFreshIndex
    \/ \E s \in Blocks : Walk(s)
    \/ WalkRefused
    \/ RollBack
    \/ \E b \in Blocks : ProcessBlock(b) \/ ApplyRefused(b)
    \/ FinishPass
    \/ Interrupted

RecoveryStep ==
    \/ ProbeCursor
    \/ \E a \in Blocks : ReAnchor(a)
    \/ Repoint
    \/ RestartAtSink

Next == NodeStep \/ PassStep \/ RecoveryStep \/ Drain

Spec == Init /\ [][Next]_vars

-----------------------------------------------------------------------------
(* Properties *)

EventRow == [cov : Covenants, seq : Nat, kind : Kinds, tx : Txs, block : Blocks, stream : Nat]
LogRow == [seq : Nat, kind : {"accepted", "removed"}, cov : Covenants, tx : Txs,
           block : Blocks, source : Nat]

\* The columns and the pass's locals keep their types.
TypeOK ==
    /\ rows \subseteq EventRow
    /\ created \in [Coins -> Optional(Blocks)]
    /\ spent \in [Coins -> Optional(Blocks)]
    /\ DOMAIN summary \subseteq Covenants
    /\ \A v \in DOMAIN summary :
          summary[v] \in [events : Nat \ {0}, last : Nat, complete : BOOLEAN]
    /\ DOMAIN batches \subseteq Blocks
    /\ \A b \in DOMAIN batches : batches[b] \in [first : Nat, last : Nat]
    /\ log \subseteq LogRow
    /\ nextSeq \in Nat \ {0}
    /\ apps \in [AppTxs -> Optional(Blocks)]
    /\ work \subseteq Nat
    /\ projected \in Nat
    /\ derived \in [Covenants -> SUBSET EventRow]
    /\ cursor \in Optional(Blocks)
    /\ processed \in Nat
    /\ tip \in Nat
    /\ sink \in Blocks
    /\ unknown \subseteq Blocks
    /\ answers \in {"refuse", "empty"}
    /\ pc \in {"idle", "start", "walk", "rollback", "apply", "probe", "repoint"}
    /\ todo \subseteq Blocks
    /\ removed \subseteq Blocks
    /\ since \in Nat
    /\ lastSeen \in Optional(Blocks)
    /\ anchor \in Optional(Blocks)
    /\ base \subseteq Blocks
    /\ failures \in Nat /\ switches \in Nat /\ {resets, unswept} \subseteq {0, 1}

Indexed == {r.block : r \in rows}

\* The index implements ChainIndex: whatever fails and whenever, its readers
\* see one chain that grows and shrinks at its newest end.
Index == INSTANCE ChainIndex WITH held <- Indexed, forfeited <- resets

ServesOneChain == Index!Spec

\* Only virtual-chain acceptance creates history: whatever the node does
\* between two transactions, every event row lies on the chain of the cursor,
\* and the blocks still to come extend that same chain.
IndexBelowCursor ==
    resets = 0 =>
        /\ \A b \in Indexed : cursor # NoBlock /\ b \in Path[cursor]
        /\ pc = "apply" => \A x \in todo : Indexed \subseteq Path[x] \ {x}

\* IndexBelowCursor as an induction needs it: every block with rows has a batch
\* (so a rollback finds it), and what the engine holds in memory at each point
\* of a pass agrees with the rows it will write or take back next.
PassInv ==
    /\ cursor = NoBlock => DOMAIN batches = {} /\ pc \in {"idle", "start"}
    /\ pc = "start" => cursor = NoBlock /\ lastSeen # NoBlock
    /\ pc \in {"idle", "walk", "rollback"} => lastSeen = NoBlock
    /\ pc # "apply" => since = 0
    /\ since > 0 => lastSeen # NoBlock
    /\ pc = "repoint" => anchor # NoBlock

RollbackReady ==
    \E s \in Blocks : removed = RemovedFrom(cursor, s) /\ todo = AddedFrom(cursor, s)

ApplyReady ==
    /\ \A x \in todo : Indexed \subseteq Path[x] \ {x}
    /\ lastSeen # NoBlock => Indexed \subseteq Path[lastSeen]

ChainInv ==
    /\ PassInv
    /\ resets = 0 =>
          /\ \A b \in Indexed : cursor # NoBlock /\ b \in Path[cursor]
          /\ Indexed \subseteq DOMAIN batches
          /\ pc = "rollback" => RollbackReady
          /\ pc = "apply" => ApplyReady
          /\ pc = "repoint" => Indexed \subseteq Path[anchor]

\* A client that replays the delivery log from the start, taking back each
\* accepted record a removal cites, holds exactly the index.
LogReplaysToIndex ==
    {[cov |-> r.cov, tx |-> r.tx, block |-> r.block, seq |-> r.stream] : r \in rows} =
    {[cov |-> r.cov, tx |-> r.tx, block |-> r.block, seq |-> r.seq] :
        r \in {q \in log : q.kind = "accepted" /\ ~\E d \in log : d.source = q.seq}}

\* Stream sequence numbers are dense and unique, and a delivery is taken back
\* at most once, after it was made: nothing a reader paged past can change.
LogIsDense ==
    /\ {r.seq : r \in log} = 1..(nextSeq - 1)
    /\ \A r, q \in log :
          /\ r.seq = q.seq => r = q
          /\ r.kind = "removed" => r.source < r.seq
          /\ r.kind = "removed" /\ r.source = q.source => r = q

\* Removed accepting blocks reverse every effect keyed to them: the coin table
\* is what the indexed blocks alone would have written.
CoinsMatchIndex ==
    resets = 0 =>
        \A c \in Coins :
            LET makes(b) == c \in UNION {Outputs[t] : t \in AcceptedTxs(b)}
                takes(b) == c \in UNION {Inputs[t] : t \in AcceptedTxs(b)}
            IN  /\ created[c] = NoBlock <=> \A b \in Indexed : ~makes(b)
                /\ created[c] # NoBlock => created[c] \in Indexed /\ makes(created[c])
                /\ spent[c] # NoBlock => created[c] # NoBlock /\ takes(spent[c])
                /\ created[c] # NoBlock =>
                      (spent[c] = NoBlock <=> \A b \in Indexed : ~takes(b))

\* A covenant has a row exactly while it has events, its count is right, its
\* events are numbered without a hole, and lineage_complete tells whether the
\* first of them proved the genesis.
SummariesMatchRows ==
    /\ DOMAIN summary = {r.cov : r \in rows}
    /\ resets = 0 => \A v \in DOMAIN summary :
          LET own == {r \in rows : r.cov = v}
          IN  /\ summary[v].events = Cardinality(own)
              /\ {r.seq : r \in own} = 0..(Cardinality(own) - 1)
              /\ summary[v].complete <=> \E r \in own : r.seq = 0 /\ r.kind = "genesis"

\* Token tables that are out of date are always named by queued work: no
\* acceptance and no rollback leaves a projection silently stale.
ProjectionCovered ==
    \A v \in Covenants :
        \/ derived[v] = {r \in rows : r.cov = v}
        \/ \E r \in log : r.cov = v /\ r.seq \in Queued

\* The primary keys of the application tables never refuse a block, unless a
\* recovery left the envelopes of a block without events behind.
ApplyNeverRefused ==
    resets = 0 /\ unswept = 0 /\ pc = "apply" =>
        \A b \in todo : First(b, todo) => ~ApplyFails(Classify(b))

\* What the index should hold for the chain of b, from the chain alone: every
\* covenant a transaction creates outputs for, or spends a watched output of.
Active(b, t, v) ==
    \/ \E c \in Outputs[t] : CovenantOf[c] = v
    \/ \E c \in Inputs[t] :
          /\ CovenantOf[c] = v
          /\ \E a \in Path[b] \ base : \E u \in AcceptedTxs(a) : c \in Outputs[u]

\* Between passes, an index whose cursor is on the selected chain is complete
\* up to the cursor: no accepted covenant activity was skipped.
IndexComplete ==
    pc = "idle" /\ resets = 0 /\ cursor # NoBlock /\ cursor \in Path[sink] =>
        {<<r.block, r.tx, r.cov>> : r \in rows} =
            {x \in (Path[cursor] \ base) \X Txs \X Covenants :
                x[2] \in AcceptedTxs(x[1]) /\ Active(x[1], x[2], x[3])}

\* Without a failed call or a crash that is so whatever the node reorganises,
\* back and forth, between two transactions of a pass, and through a recovery
\* that swept everything above its anchor.
CompleteUnlessFailed == failures = 0 /\ unswept = 0 => IndexComplete

\* store.rs, accepting_blocks_above: blocks without covenant activity "carry
\* nothing to undo": a recovery that leaves them loses nothing.  Not so: their
\* batches stay (README, section 4).
NothingToUndo == failures = 0 => IndexComplete

\* Whether the chain accepted r's transaction before q's.
Position(r) == CHOOSE i \in DOMAIN Accepted[r.block] : Accepted[r.block][i] = r.tx
AcceptedBefore(r, q) ==
    \/ r.block # q.block /\ r.block \in Path[q.block]
    \/ r.block = q.block /\ Position(r) < Position(q)

\* Events of one covenant are numbered, and delivered, in the order in which
\* the chain accepted them, across blocks and inside one.
LineageOrdered ==
    resets = 0 =>
        \A r, q \in rows : r.cov = q.cov =>
            /\ r.seq < q.seq <=> AcceptedBefore(r, q)
            /\ r.stream < q.stream <=> AcceptedBefore(r, q)

\* Events, coins and summaries tell the same story of the indexed blocks.
TablesAgree == CoinsMatchIndex /\ SummariesMatchRows /\ LineageOrdered

\* A client that stops anywhere in the log holds a history without a hole: a
\* block is taken back only after every later block the client still holds.
RemovalsNewestFirst ==
    resets = 0 =>
        \A d, q \in log :
            d.kind = "removed" /\ q.kind = "accepted" /\ q.seq < d.seq
                /\ (\A e \in log : e.source = q.seq => e.seq > d.seq)
                => q.block = d.block \/ d.block \notin Path[q.block]

\* The log is one that can be paged through and left at any point.
LogInOrder == LogIsDense /\ RemovalsNewestFirst

\* store.rs: processed_daa "can never run ahead of what the index contains".
\* Not so between a rollback and the next applied block (README, section 4).
ProcessedNotAhead ==
    processed # 0 => \E b \in DOMAIN batches : Daa[b] >= processed

=============================================================================
