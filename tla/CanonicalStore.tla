---------------------------- MODULE CanonicalStore ----------------------------
(***************************************************************************)
(* The SQLite index: its tables as variables, its write transactions as    *)
(* action formulas (store.rs, store_delivery.rs, store_application.rs,     *)
(* projection.rs), and the classifier that turns an accepted block into    *)
(* rows (sync.rs, classify).  Every formula below is one committed         *)
(* transaction; SyncEngine says who calls it and when.                     *)
(***************************************************************************)
EXTENDS Chain

VARIABLES
    rows,       \* covenant_events
    created,    \* covenant_utxos: coin -> created_block, NoBlock when no row
    spent,      \* covenant_utxos: coin -> spent_block, NoBlock when unspent
    summary,    \* covenants: one record per row, its domain is the table
    batches,    \* canonical_batches: block -> its range of the delivery log
    log,        \* delivery_log, rows keyed by seq
    nextSeq,    \* meta next_stream_seq
    apps,       \* application_envelopes (primary key txid): tx -> block
    work,       \* optional_projection_work: delivery seqs to project
    projected,  \* meta optional_projection_cursor
    derived,    \* covenant -> the event rows its token tables were built from
    cursor,     \* meta cursor
    processed,  \* meta processed_daa, 0 when unset
    tip         \* meta tip_daa, 0 when unset

tables == <<rows, created, spent, summary, batches, log, nextSeq, apps>>
queues == <<work, projected, derived>>
storeVars == <<tables, queues, cursor, processed, tip>>

Optional(S) == S \cup {NoBlock}
Kinds == {"genesis", "transition", "burn"}

StoreInit ==
    /\ rows = {}
    /\ created = [c \in Coins |-> NoBlock]
    /\ spent = [c \in Coins |-> NoBlock]
    /\ summary = <<>>
    /\ batches = <<>>
    /\ log = {}
    /\ nextSeq = 1
    /\ apps = [t \in AppTxs |-> NoBlock]
    /\ work = {}
    /\ projected = 0
    /\ derived = [v \in Covenants |-> {}]
    /\ cursor = NoBlock
    /\ processed = 0
    /\ tip = 0

-----------------------------------------------------------------------------
(* classify: what one accepted block does to the covenants, judged against *)
(* the live coins and known covenants of the store, with an overlay of     *)
(* what earlier transactions of the same block created.                    *)

Live(c) == created[c] # NoBlock /\ spent[c] = NoBlock
KnownCovenant(v) == v \in DOMAIN summary

\* Mutant: no created_overlay, chains inside one accepting block are missed.
SpentByStoreOnly(b, i) == {c \in Inputs[Accepted[b][i]] : Live(c)}

SpentBy(b, i) ==
    {c \in Inputs[Accepted[b][i]] :
        Live(c) \/ \E j \in 1..(i - 1) : c \in Outputs[Accepted[b][j]]}

Touched(b, i) ==
    {CovenantOf[c] : c \in SpentBy(b, i) \cup Outputs[Accepted[b][i]]}

KindOf(b, i, v) ==
    LET consumes == \E c \in SpentBy(b, i) : CovenantOf[c] = v
        produces == \E c \in Outputs[Accepted[b][i]] : CovenantOf[c] = v
        seen     == KnownCovenant(v) \/ \E j \in 1..(i - 1) : v \in Touched(b, j)
    IN  CASE consumes /\ ~produces -> "burn"
          [] ~consumes /\ ~seen /\ v \in ProvesGenesis[Accepted[b][i]] -> "genesis"
          [] OTHER -> "transition"

NewEvents(b) ==
    UNION {{[index |-> i, tx |-> Accepted[b][i], cov |-> v, kind |-> KindOf(b, i, v)] :
                v \in Touched(b, i)} : i \in DOMAIN Accepted[b]}

\* An AcceptedBlockBatch as classify prepares it, and AcceptedBlockBatch::empty.
Classify(b) ==
    [block   |-> b,
     daa     |-> Daa[b],
     events  |-> NewEvents(b),
     created |-> UNION {Outputs[t] : t \in AcceptedTxs(b)},
     spent   |-> UNION {SpentBy(b, i) : i \in DOMAIN Accepted[b]},
     apps    |-> AcceptedTxs(b) \cap AppTxs]

EmptyBatch(b, daa) ==
    [block |-> b, daa |-> daa, events |-> {}, created |-> {}, spent |-> {}, apps |-> {}]

-----------------------------------------------------------------------------
(* apply_accepted_block *)

\* Position of x in S under a strict order: rows of one transaction take
\* consecutive stream sequence numbers.
Rank(x, S, Before(_, _)) == Cardinality({y \in S : Before(y, x)})

\* Mutant: the block's events are numbered last transaction first.
LastTxFirst(e, f) ==
    \/ e.index > f.index
    \/ e.index = f.index /\ e.cov < f.cov

EventBefore(e, f) ==
    \/ e.index < f.index
    \/ e.index = f.index /\ e.cov < f.cov

StreamSeq(B, e) == nextSeq + Rank(e, B.events, EventBefore)

\* Mutant: the maximum is read once for the block.
OneSeqPerBlock(B, e) ==
    Cardinality({r \in rows : r.cov = e.cov})

\* COALESCE(MAX(seq), -1) + 1, once per event of the same covenant.
CovenantSeq(B, e) ==
    LET taken == {r.seq : r \in {q \in rows : q.cov = e.cov}}
        base  == IF taken = {} THEN 0 ELSE 1 + CHOOSE n \in taken : \A m \in taken : m <= n
    IN  base + Cardinality({f \in B.events : f.cov = e.cov /\ EventBefore(f, e)})

NewRows(B) ==
    {[cov |-> e.cov, seq |-> CovenantSeq(B, e), kind |-> e.kind, tx |-> e.tx,
      block |-> B.block, stream |-> StreamSeq(B, e)] : e \in B.events}

AcceptedRecords(B) ==
    {[seq |-> StreamSeq(B, e), kind |-> "accepted", cov |-> e.cov, tx |-> e.tx,
      block |-> B.block, source |-> 0] : e \in B.events}

\* INSERT ... ON CONFLICT DO NOTHING, then event_count + 1 per event: the
\* first event of a new covenant decides lineage_complete.
SummaryAfter(B) ==
    LET hit(v) == {e \in B.events : e.cov = v}
        first(v) == CHOOSE e \in hit(v) : \A f \in hit(v) : ~EventBefore(f, e)
        touched == {e.cov : e \in B.events}
    IN  [v \in DOMAIN summary \cup touched |->
            IF v \notin touched THEN summary[v]
            ELSE IF KnownCovenant(v)
                   THEN [summary[v] EXCEPT !.events = @ + Cardinality(hit(v)), !.last = B.daa]
                   ELSE [events   |-> Cardinality(hit(v)),
                         last     |-> B.daa,
                         complete |-> first(v).kind = "genesis"]]

\* Created rows land before spends are marked (a block can spend its own
\* outputs).
WriteCoins(B) ==
    /\ created' = [c \in Coins |-> IF c \in B.created THEN B.block ELSE created[c]]
    /\ spent' = [c \in Coins |->
                    IF c \in B.spent THEN B.block
                    ELSE IF c \in B.created THEN NoBlock ELSE spent[c]]

\* A plain INSERT under the primary key txid: a transaction that already has
\* an envelope makes the whole block fail.
ApplyFails(B) ==
    /\ B.block \notin DOMAIN batches
    /\ \E t \in B.apps : apps[t] # NoBlock

AlreadyApplied(B) == B.block \in DOMAIN batches

ApplyAcceptedBlock(B) ==
    /\ ~ApplyFails(B)
    /\ IF AlreadyApplied(B)
         THEN UNCHANGED storeVars
         ELSE /\ WriteCoins(B)
              /\ rows' = rows \cup NewRows(B)
              /\ summary' = SummaryAfter(B)
              /\ log' = log \cup AcceptedRecords(B)
              /\ nextSeq' = nextSeq + Cardinality(B.events)
              /\ work' = work \cup {r.seq : r \in AcceptedRecords(B)}
              /\ apps' = [t \in AppTxs |-> IF t \in B.apps THEN B.block ELSE apps[t]]
              /\ cursor' = B.block
              /\ processed' = IF B.daa > 0 THEN B.daa ELSE processed
              /\ batches' = IF B.daa > 0
                              THEN [b \in DOMAIN batches \cup {B.block} |->
                                      IF b = B.block
                                        THEN [first |-> nextSeq, last |-> nextSeq' - 1]
                                        ELSE batches[b]]
                              ELSE batches
              /\ UNCHANGED <<projected, derived, tip>>

-----------------------------------------------------------------------------
(* rollback_removed_blocks *)

\* Mutant: every delivery the block ever made, earlier stays on the chain too.
EverDelivered(C) == {r \in log : r.kind = "accepted" /\ r.block \in C}

\* Mutant: the range of the batch read as half open.
AllButLast(C) ==
    {r \in log : /\ r.kind = "accepted" /\ r.block \in C
                 /\ batches[r.block].first <= r.seq /\ r.seq < batches[r.block].last}

\* The deliveries to take back: those of each block's current batch.
Sources(C) ==
    {r \in log : /\ r.kind = "accepted" /\ r.block \in C
                 /\ batches[r.block].first <= r.seq /\ r.seq <= batches[r.block].last}

\* Mutant: oldest block first.
OldestFirst(r, s) ==
    \/ Daa[r.block] < Daa[s.block]
    \/ Daa[r.block] = Daa[s.block] /\ r.seq < s.seq

\* Blocks come newest first (the node lists removed blocks so, and so does
\* accepting_blocks_above), the deliveries of one block in stream order.
RemovalBefore(r, s) ==
    \/ Daa[r.block] > Daa[s.block]
    \/ Daa[r.block] = Daa[s.block] /\ r.seq < s.seq

RemovalRecords(C) ==
    {[seq |-> nextSeq + Rank(r, Sources(C), RemovalBefore), kind |-> "removed",
      cov |-> r.cov, tx |-> r.tx, block |-> r.block, source |-> r.seq] : r \in Sources(C)}

\* Mutant: rows of removed blocks go, their spends stay marked.
UnspendNothing(C) ==
    /\ created' = [c \in Coins |-> IF created[c] \in C THEN NoBlock ELSE created[c]]
    /\ spent' = [c \in Coins |-> IF created[c] \in C THEN NoBlock ELSE spent[c]]

\* Unspend what the removed blocks spent, delete what they created.
UndoCoins(C) ==
    /\ created' = [c \in Coins |-> IF created[c] \in C THEN NoBlock ELSE created[c]]
    /\ spent' = [c \in Coins |->
                    IF spent[c] \in C \/ created[c] \in C THEN NoBlock ELSE spent[c]]

\* Mutant: the covenants left without events are not deleted.
KeepsEmpty(C) ==
    [v \in DOMAIN summary |->
        [summary[v] EXCEPT
            !.events = @ - Cardinality({r \in rows : r.cov = v /\ r.block \in C})]]

\* event_count loses the removed events, a covenant without events loses its
\* row; last_activity_daa and lineage_complete are left as they are.
SummaryWithout(C) ==
    LET left(v) == summary[v].events - Cardinality({r \in rows : r.cov = v /\ r.block \in C})
    IN  [v \in {u \in DOMAIN summary : left(u) > 0} |->
            [summary[v] EXCEPT !.events = left(v)]]

\* Mutant: application rows outlive their block.
KeepsEnvelopes(C) == apps

\* store_application::rollback_removed
AppsWithout(C) == [t \in AppTxs |-> IF apps[t] \in C THEN NoBlock ELSE apps[t]]

\* Mutant: removals are recorded but the token tables are not told.
EnqueueNothing(C) == work

\* projection::enqueue, once per removal record.
EnqueueRemovals(C) == work \cup {r.seq : r \in RemovalRecords(C)}

\* Blocks that were never applied (or were already rolled back) are skipped.
Canonical(removed) == removed \cap DOMAIN batches

RollbackRemovedBlocks(removed) ==
    LET C == Canonical(removed) IN
    IF C = {}
      THEN UNCHANGED storeVars
      ELSE /\ log' = log \cup RemovalRecords(C)
           /\ nextSeq' = nextSeq + Cardinality(Sources(C))
           /\ work' = EnqueueRemovals(C)
           /\ apps' = AppsWithout(C)
           /\ UndoCoins(C)
           /\ rows' = {r \in rows : r.block \notin C}
           /\ summary' = SummaryWithout(C)
           /\ batches' = [b \in DOMAIN batches \ C |-> batches[b]]
           /\ UNCHANGED <<projected, derived, cursor, processed, tip>>

-----------------------------------------------------------------------------
(* The small transactions on meta *)

\* set_tip
SetTip(daa) ==
    /\ tip' = daa
    /\ UNCHANGED <<tables, queues, cursor, processed>>

\* checkpoint_cursor: re_anchor's repoint, with the anchor's own DAA.
CheckpointCursor(b) ==
    /\ cursor' = b
    /\ processed' = Daa[b]
    /\ UNCHANGED <<tables, queues, tip>>

\* reset_cursor: the last resort, indexed data stays.
ResetCursor(b) ==
    /\ cursor' = b
    /\ UNCHANGED <<tables, queues, processed, tip>>

-----------------------------------------------------------------------------
(* drain_optional_projection_chunk: one transaction re-derives the token   *)
(* tables of the covenants named by the oldest queued deliveries.          *)

Queued == {w \in work : w > projected}

\* The last of the first `limit` queued deliveries.
ChunkEnd(limit) ==
    CHOOSE w \in Queued :
        LET upTo == {x \in Queued : x <= w}
        IN  IF Cardinality(Queued) <= limit THEN upTo = Queued
                                            ELSE Cardinality(upTo) = limit

LeftInQueue(last) == {w \in work : w > last}

DrainProjection(limit) ==
    /\ Queued # {}
    /\ LET last == ChunkEnd(limit)
           touched == {r.cov : r \in {q \in log : q.seq \in Queued /\ q.seq <= last}}
       IN  /\ derived' = [v \in Covenants |->
                            IF v \in touched THEN {r \in rows : r.cov = v} ELSE derived[v]]
           /\ projected' = last
           /\ work' = LeftInQueue(last)
    /\ UNCHANGED <<tables, cursor, processed, tip>>

=============================================================================
