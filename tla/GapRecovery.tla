------------------------------ MODULE GapRecovery ------------------------------
(***************************************************************************)
(* recover_gap (sync.rs, store.rs): after a wedge was answered by a reset  *)
(* of the cursor to the sink, the window that was skipped is walked on a   *)
(* copy of the database and merged in: blocks inside it are captured,      *)
(* later ones reconciled, and one final transaction puts the affected      *)
(* covenants in order.  A run can stop at any point and be started again,  *)
(* on another node.                                                        *)
(***************************************************************************)
EXTENDS CanonicalStore, FiniteSetsExt

CONSTANTS
    Sink,        \* tip of the canonical chain
    DeadTip,     \* tip of a branch the index may have died on; Sink for none
    MinGap,      \* min_gap_daa
    BatchLen,    \* chain blocks per node answer
    NodeBodies,  \* sets of transactions whose bodies a node still has
    Anchors,     \* where a walk may start: pruning points and archival anchors
    Windows,     \* explicit bounds an operator may give
    MaxResets,   \* bound: cursor resets before the copy is taken
    MaxRuns      \* bound: runs started

VARIABLES
    meta,   \* [pending, walk, recoveries]
    walker, \* the run [pc, lo, hi, stop, at, todo, next, bodies]
    past    \* what really happened, for the properties: the resets, the blocks they
            \* skipped, the runs, the windows asked for, the bodies no node had, and
            \* whether a run was diverted to other bounds while one was pending

\* A walk starts on the chain; nodes answer with at least one block.
ASSUME GapAssumption ==
    /\ Sink \in Blocks /\ DeadTip \in Blocks
    /\ BatchLen \in Nat \ {0}
    /\ NodeBodies \subseteq SUBSET Txs
    /\ Anchors \subseteq Path[Sink]
    /\ Windows \subseteq Nat \X Nat

gvars == <<meta, walker, past>>
allvars == <<storeVars, gvars>>

Quiet == [pc |-> "idle", lo |-> 0, hi |-> 0, stop |-> 0, at |-> NoBlock, todo |-> {},
          next |-> NoBlock, bodies |-> {}]
RowBefore(r, s) ==
    \/ Daa[r.block] < Daa[s.block]
    \/ Daa[r.block] = Daa[s.block] /\ r.seq < s.seq
RowsOf(v) == {r \in rows : r.cov = v}
-----------------------------------------------------------------------------
GapInit ==
    /\ StoreInit
    /\ meta = [pending |-> <<>>, walk |-> NoBlock, recoveries |-> {}]
    /\ walker = [Quiet EXCEPT !.pc = "live"]
    /\ past = [resets |-> 0, skipped |-> {}, runs |-> 0, asked |-> {}, missed |-> {},
               diverted |-> FALSE]

\* Production before the copy: it follows a chain, and a reset jumps ahead.
IndexNext ==
    /\ walker.pc = "live"
    /\ \E tipBlock \in {Sink, DeadTip}, b \in Blocks :
         /\ past.resets > 0 => tipBlock = Sink
         /\ cursor # NoBlock => cursor \in Path[tipBlock]
         /\ LET ahead == IF cursor = NoBlock THEN Path[tipBlock] ELSE Path[tipBlock] \ Path[cursor]
            IN  First(b, ahead)
         /\ ApplyAcceptedBlock(Classify(b))
    /\ UNCHANGED gvars

SinkReset ==
    /\ walker.pc = "live" /\ past.resets < MaxResets /\ cursor # NoBlock /\ meta.recoveries = {}
    /\ \E b \in Path[Sink] :
         /\ Daa[b] > Daa[cursor]
         /\ ResetCursor(b)
         /\ past' = [past EXCEPT !.resets = @ + 1,
                       !.skipped = @ \cup {x \in Path[b] : x \notin Path[cursor]}]
    /\ UNCHANGED <<meta, walker>>

TakeCopy ==
    /\ walker.pc = "live" /\ past.resets > 0 /\ meta.recoveries = {}
    /\ walker' = Quiet
    /\ UNCHANGED <<storeVars, meta, past>>
-----------------------------------------------------------------------------
(* The window of a run *)

\* find_daa_gap: the widest stretch without events that is wide enough.
Scores == {Daa[r.block] : r \in rows}
Stretches ==
    {w \in Scores \X Scores :
        /\ w[1] < w[2] /\ \A d \in Scores : ~(w[1] < d /\ d < w[2])
        /\ w[2] - w[1] >= MinGap}
WidestGap == {w \in Stretches : \A x \in Stretches : x[2] - x[1] <= w[2] - w[1]}

OnRecord(w) == \E x \in meta.recoveries : x[1] <= w[1] /\ w[2] <= x[2]

\* Mutant form: a run always looks for the gap itself.
DetectsAgain == IF meta.recoveries # {} THEN {} ELSE WidestGap

\* Without bounds a pending window is resumed, a recorded one ends the run,
\* and only otherwise the gap is looked for.
FoundWindow ==
    IF meta.pending # <<>> THEN {meta.pending}
    ELSE IF meta.recoveries # {} THEN {} ELSE WidestGap

\* What a run leaves in meta before it walks, while it walks and at the end: the
\* window it took, the block it last advanced past, and the finished recovery,
\* which the other two retire with.
TakenUp(w) == [meta EXCEPT !.pending = w]
WalkedTo(b) == [meta EXCEPT !.walk = b]
Completed == [pending |-> <<>>, walk |-> NoBlock,
              recoveries |-> meta.recoveries \cup {<<walker.lo, walker.hi>>}]

\* Explicit bounds are those of indexed blocks.  A saved walk cursor is used
\* whatever window it was saved for.
BeginRecovery ==
    /\ walker.pc = "idle" /\ past.runs < MaxRuns
    /\ \E explicit, archival \in BOOLEAN, anchor \in Anchors, bodies \in NodeBodies :
       \E w \in IF explicit THEN Windows ELSE FoundWindow :
         LET at == IF meta.walk # NoBlock THEN meta.walk ELSE anchor
             late == {b \in past.skipped \cap Path[anchor] : w[1] <= Daa[b]}
         IN  /\ archival \/ ~OnRecord(w)
             /\ w[2] <= processed
             /\ meta' = TakenUp(w)
             /\ walker' = [Quiet EXCEPT !.pc = "walk", !.lo = w[1], !.hi = w[2],
                             !.stop = Max({processed, w[2]}), !.bodies = bodies, !.at = at]
             /\ past' = [past EXCEPT
                   !.runs = @ + 1,
                   !.asked = IF meta.pending = <<>> \/ explicit THEN @ \cup {w} ELSE @,
                   !.diverted = @ \/ (explicit /\ meta.pending \notin {<<>>, w}),
                   !.missed = IF meta.walk = NoBlock
                              THEN @ \cup UNION {AcceptedTxs(b) : b \in late} ELSE @]
    /\ UNCHANGED storeVars

\* One answer of the node: up to BatchLen blocks after the walk's cursor, none
\* when it is at the sink; a batch that ends below the window is passed over.
FetchBatch ==
    /\ walker.pc = "walk" /\ walker.todo = {}
    /\ LET ahead == Path[Sink] \ Path[walker.at]
           batch == {b \in ahead : Cardinality(Path[b] \cap ahead) <= BatchLen}
           last  == CHOOSE b \in batch : \A x \in batch : x \in Path[b]
       IN  IF ahead = {}
           THEN walker' = [walker EXCEPT !.pc = "finalize"] /\ UNCHANGED meta
           ELSE IF Daa[last] < walker.lo
           THEN /\ walker' = [walker EXCEPT !.at = last]
                /\ meta' = WalkedTo(last)
           ELSE walker' = [walker EXCEPT !.todo = batch, !.next = last] /\ UNCHANGED meta
    /\ UNCHANGED <<storeVars, past>>

\* The node prunes, disconnects, or reorganises under the walk: the run ends
\* with an error, or the process with it.
RunStops ==
    /\ walker.pc \in {"walk", "finalize"}
    /\ walker' = Quiet
    /\ UNCHANGED <<storeVars, meta, past>>
-----------------------------------------------------------------------------
(* What a block of the walk contributes *)

Known1(b) == {i \in DOMAIN Accepted[b] : Accepted[b][i] \in walker.bodies}
Tx(b, i) == Accepted[b][i]

SpentIn(b, i) ==
    {c \in Inputs[Tx(b, i)] : Live(c) \/ \E j \in Known1(b) : j < i /\ c \in Outputs[Tx(b, j)]}

\* Mutant form: the kind live sync would give, gap-born covenants are known already.
NoRescue(b, e) == e.kind

\* Genesis rescue: nothing chronologically earlier and the id recomputes.
Rescued(b, e) ==
    IF /\ e.cov \in ProvesGenesis[e.tx]
       /\ \A r \in RowsOf(e.cov) : Daa[r.block] > Daa[b]
    THEN "genesis" ELSE e.kind

CaptureEvents(b) ==
    LET touched(i) == {CovenantOf[c] : c \in SpentIn(b, i) \cup Outputs[Tx(b, i)]}
        kind(i, v) ==
          LET consumes == \E c \in SpentIn(b, i) : CovenantOf[c] = v
              produces == \E c \in Outputs[Tx(b, i)] : CovenantOf[c] = v
              seen     == KnownCovenant(v) \/ \E j \in Known1(b) : j < i /\ v \in touched(j)
          IN  CASE consumes /\ ~produces -> "burn"
                [] ~consumes /\ ~seen /\ v \in ProvesGenesis[Tx(b, i)] -> "genesis"
                [] OTHER -> "transition"
    IN  UNION {{[index |-> i, tx |-> Tx(b, i), cov |-> v, kind |-> kind(i, v)] : v \in touched(i)}
                 : i \in Known1(b)}

\* In the window: everything the follower would have recorded.
Capture(b) ==
    [block |-> b, daa |-> Daa[b], apps |-> {},
     events  |-> {[e EXCEPT !.kind = Rescued(b, e)] : e \in CaptureEvents(b)},
     created |-> UNION {Outputs[Tx(b, i)] : i \in Known1(b)},
     spent   |-> UNION {SpentIn(b, i) : i \in Known1(b)}]

\* reconcile_block, after it: spends of coins that are still live, each with a
\* burn that gives way to an event the follower recorded.
Reconcile(b) ==
    LET hit(i) == {c \in Inputs[Tx(b, i)] : Live(c)}
    IN  [block |-> b, daa |-> Daa[b], apps |-> {}, created |-> {},
         events |-> UNION {{[index |-> i, tx |-> Tx(b, i), cov |-> CovenantOf[c], kind |-> "burn"]
                              : c \in hit(i)} : i \in Known1(b)},
         spent  |-> UNION {hit(i) : i \in Known1(b)}]

\* Mutant form: an event is inserted whether or not its transaction is there.
EveryEvent(B) == B.events

\* Dedup on covenant and transaction.
NotYetHeld(B) == {e \in B.events : ~\E r \in rows : r.cov = e.cov /\ r.tx = e.tx}

\* merge_recovered_block: existing coins, spends and events win; provisional
\* sequence numbers; no cursor, no delivery record, no queue.
MergeRecovered(B) ==
    LET new    == NotYetHeld(B)
        fresh  == {c \in B.created : created[c] = NoBlock}
        unspent(c) == c \in fresh \/ Live(c)
    IN  /\ created' = [c \in Coins |-> IF c \in fresh THEN B.block ELSE created[c]]
        /\ spent' = [c \in Coins |-> IF c \in B.spent /\ unspent(c) THEN B.block ELSE spent[c]]
        /\ rows' = rows \cup {[cov |-> e.cov, seq |-> CovenantSeq([B EXCEPT !.events = new], e),
                               kind |-> e.kind, tx |-> e.tx, block |-> B.block, stream |-> 0] : e \in new}
        /\ summary' = [v \in DOMAIN summary \cup {e.cov : e \in new} |->
                         IF KnownCovenant(v) THEN summary[v]
                         ELSE [events |-> 0, last |-> 0, complete |-> FALSE]]
        /\ UNCHANGED <<batches, log, nextSeq, apps, queues, cursor, processed, tip>>

NextOf == CHOOSE b \in walker.todo : \A x \in walker.todo : b \in Path[x]

\* The next block of the batch; past the reconcile ceiling the walk is over.
WalkBlock ==
    /\ walker.pc = "walk" /\ walker.todo # {}
    /\ LET b == NextOf
           over == Daa[b] > walker.stop
           rest == walker.todo \ {b}
           passed == rest = {} /\ ~over
       IN  /\ walker' = [walker EXCEPT
                !.pc = IF over THEN "finalize" ELSE "walk",
                !.todo = IF over THEN {} ELSE rest,
                !.at = IF passed THEN walker.next ELSE @]
           /\ meta' = WalkedTo(IF passed THEN walker.next ELSE meta.walk)
           /\ IF over \/ Daa[b] < walker.lo
              THEN UNCHANGED <<storeVars, past>>
              ELSE /\ MergeRecovered(IF Daa[b] <= walker.hi THEN Capture(b) ELSE Reconcile(b))
                   /\ past' = [past EXCEPT !.missed = @ \cup (AcceptedTxs(b) \ walker.bodies)]

\* Mutant form: covenants keep the numbers the merge gave them.
KeepsSeq(r) == r.seq

\* Position in the order (DAA score, number so far).
PlaceIn(r) == Cardinality({s \in RowsOf(r.cov) : RowBefore(s, r)})

\* finalize_gap_recovery: covenants with an event in the window are numbered
\* again, their summaries recomputed and their tokens derived again; the
\* recovery is recorded and the window and walk cursor retire with it.
Finalize ==
    /\ walker.pc = "finalize"
    /\ LET refresh == {r.cov : r \in {q \in rows : walker.lo <= Daa[q.block] /\ Daa[q.block] <= walker.hi}}
           first(v) == CHOOSE r \in RowsOf(v) : PlaceIn(r) = 0
           newest(v) == CHOOSE r \in RowsOf(v) : \A s \in RowsOf(v) : ~RowBefore(r, s)
       IN  /\ rows' = {IF r.cov \in refresh THEN [r EXCEPT !.seq = PlaceIn(r)] ELSE r : r \in rows}
           /\ summary' = [v \in DOMAIN summary |->
                IF v \in refresh
                THEN [events |-> Cardinality(RowsOf(v)), last |-> Daa[newest(v).block],
                      complete |-> first(v).kind = "genesis"]
                ELSE summary[v]]
           /\ derived' = [v \in Covenants |->
                IF v \in refresh THEN {r \in rows' : r.cov = v} ELSE derived[v]]
    /\ meta' = Completed
    /\ walker' = Quiet
    /\ UNCHANGED <<created, spent, batches, log, nextSeq, apps, work, projected, cursor,
                   processed, tip, past>>

\* The healed copy goes back into production.
Restore ==
    /\ walker.pc = "idle" /\ meta.recoveries # {} /\ meta.pending = <<>>
    /\ walker' = [Quiet EXCEPT !.pc = "live"]
    /\ UNCHANGED <<storeVars, meta, past>>

GapNext ==
    \/ IndexNext \/ SinkReset \/ TakeCopy \/ Restore \/ BeginRecovery \/ FetchBatch \/ WalkBlock
    \/ Finalize \/ RunStops

GapSpec == GapInit /\ [][GapNext]_allvars
-----------------------------------------------------------------------------
(* The history a follower that never skipped a block would hold. *)

Reached == {b \in Path[Sink] : Daa[b] <= Max({processed} \cup {w[2] : w \in meta.recoveries})}
Before(b, i) == (UNION {AcceptedTxs(a) : a \in Path[b] \ {b}}) \cup {Tx(b, j) : j \in 1..(i - 1)}
Covs(coins) == {CovenantOf[c] : c \in coins}

\* Consensus on the canonical chain: a coin is spent after it was made, and the id
\* of a covenant commits to the transaction that founds it, by an output of its own.
ASSUME LineageAssumption ==
    \A b \in Path[Sink] : \A i \in DOMAIN Accepted[b] :
        /\ \A c \in Inputs[Tx(b, i)] : \E u \in Before(b, i) : c \in Outputs[u]
        /\ \A v \in ProvesGenesis[Tx(b, i)] :
              /\ v \in Covs(Outputs[Tx(b, i)]) \ Covs(Inputs[Tx(b, i)])
              /\ \A u \in Before(b, i) : v \notin Covs(Inputs[u] \cup Outputs[u])

TrueKind(b, i, v) ==
    LET t == Tx(b, i) IN
    CASE v \in Covs(Inputs[t]) /\ v \notin Covs(Outputs[t]) -> "burn"
      [] /\ v \notin Covs(Inputs[t]) /\ v \in ProvesGenesis[t]
         /\ \A u \in Before(b, i) : v \notin Covs(Inputs[u] \cup Outputs[u]) -> "genesis"
      [] OTHER -> "transition"

TrueEvents ==
    UNION {UNION {{[cov |-> v, tx |-> Tx(b, i), kind |-> TrueKind(b, i, v)] :
                     v \in Covs(Inputs[Tx(b, i)] \cup Outputs[Tx(b, i)])}
                    : i \in DOMAIN Accepted[b]} : b \in Reached}

HeldEvents == {[cov |-> r.cov, tx |-> r.tx, kind |-> r.kind] : r \in rows}

\* A recovery has ended and all that was skipped lies in each window asked for; no
\* run was diverted from a pending window, every body could be read, every
\* walk began below its window, and what the index holds of a branch that
\* died is on the chain too.
Healed ==
    /\ meta.recoveries # {} /\ walker.pc \in {"idle", "live"} /\ meta.pending = <<>>
    /\ \A b \in past.skipped, w \in past.asked : w[1] <= Daa[b] /\ Daa[b] <= w[2]
    /\ past.missed = {} /\ ~past.diverted /\ past.resets = 1
    /\ \A r \in rows : \E b \in Path[Sink] : r.tx \in AcceptedTxs(b)

\* A recovered index is the index of a follower that never skipped anything:
\* the same events with the same kinds in chain order, the same coins and
\* spends, the same summaries, whatever interruptions and restarts the walk
\* had (recover_gap, merge_recovered_block, finalize_gap_recovery).
HistoryRestored ==
    Healed =>
      /\ HeldEvents = TrueEvents
      /\ \A r, s \in rows : r.cov = s.cov /\ r.seq < s.seq => Daa[r.block] <= Daa[s.block]
      /\ \A v \in DOMAIN summary :
           /\ {r.seq : r \in RowsOf(v)} = 0..(summary[v].events - 1)
           /\ summary[v].complete <=> \E r \in RowsOf(v) : r.seq = 0 /\ r.kind = "genesis"
      /\ \A c \in Coins :
           /\ created[c] # NoBlock <=> \E b \in Reached : \E t \in AcceptedTxs(b) : c \in Outputs[t]
           /\ spent[c] # NoBlock <=> \E b \in Reached : \E t \in AcceptedTxs(b) : c \in Inputs[t]

\* reconcile_block says that every burn it adds is a spend with no
\* continuation: the transaction binds no output to the covenant.  Not so when
\* a detected window ends too early (README, section 4).
BurnsAreFinal ==
    \A r \in rows : r.kind = "burn" => r.cov \notin Covs(Outputs[r.tx])
================================================================================
