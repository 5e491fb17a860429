------------------------------- MODULE Backfills -------------------------------
(***************************************************************************)
(* The two one-shot backfills an older database goes through: delivery     *)
(* records for its events (store_delivery.rs backfill_delivery_batch, run  *)
(* offline in bounded transactions) and acceptance positions for its rows  *)
(* (sync.rs backfill_tx_index, walked over the node's chain at the start   *)
(* of a session).  Either may be cut short; following goes on around them. *)
(***************************************************************************)
EXTENDS Integers, Sequences, FiniteSets, SequencesExt

CONSTANTS
    Positions,     \* block id -> accepted positions that carry an event
    LegacyBlocks,  \* ids 1..LegacyBlocks are in the database that is upgraded
    BatchSize,     \* --batch-size
    ResponseCap,   \* chain blocks in one node response
    MaxRestarts    \* bound: restarts and failed walks

\* Block ids are given out in order; a database that is upgraded has a first block.
ASSUME LegacyAssumption ==
    /\ LegacyBlocks \in Nat \ {0}
    /\ Positions \in Seq(SUBSET (Nat \ {0}))
    /\ LegacyBlocks <= Len(Positions)
    /\ \A b \in DOMAIN Positions : IsFiniteSet(Positions[b])
ASSUME BatchAssumption == BatchSize \in Nat \ {0} /\ ResponseCap \in Nat \ {0}

VARIABLES
    world,     \* the node: [chain, pruned, next, forks]: ids, height of the pruning point, next fresh id,
               \* and for each block it left, the height of that block's parent
    synced,    \* accepting blocks of the store, in order
    eventRows,      \* event <<block, position>> -> [index, seq]: tx_index and delivery_stream_seq, 0 for NULL
    dlog,      \* delivery_log [kind, source, event]
    ranges,    \* canonical_batches: block -> <<first_stream_seq, last_stream_seq>>
    migrated,  \* delivery_backfill_complete
    marked,    \* tx_index_backfilled_to [done, at]: at is a block id, 0 without one
    runner,    \* [mode, cursor, stop] of the process
    ghosts     \* [restarts, prunedAtDone]

bfvars == <<world, synced, eventRows, dlog, ranges, migrated, marked, runner, ghosts>>

NoSeq == 0
EventsIn(b) == {<<b, p>> : p \in Positions[b]}
HeightOf(b) == CHOOSE h \in DOMAIN world.chain : world.chain[h] = b
OnNode(b) == \E h \in DOMAIN world.chain : world.chain[h] = b
Offline == [mode |-> "offline", cursor |-> 0, stop |-> 0]
Following == [mode |-> "following", cursor |-> 0, stop |-> 0]
-----------------------------------------------------------------------------
\* A database written before delivery records existed; some of its newest
\* rows may already carry their position.
BackfillInit ==
    /\ world = [chain |-> [h \in 1..LegacyBlocks |-> h], pruned |-> 1, next |-> LegacyBlocks + 1, forks |-> <<>>]
    /\ synced = [h \in 1..LegacyBlocks |-> h]
    /\ \E captured \in 1..(LegacyBlocks + 1) :
         eventRows = [e \in UNION {EventsIn(b) : b \in 1..LegacyBlocks} |->
                    [index |-> IF e[1] >= captured THEN e[2] ELSE 0, seq |-> NoSeq]]
    /\ dlog = <<>> /\ ranges = <<>> /\ migrated = FALSE
    /\ marked = [done |-> FALSE, at |-> 0]
    /\ runner = Offline
    /\ ghosts = [restarts |-> 0, prunedAtDone |-> 0]

\* ORDER BY blue score, daa, tx_index, covenant: rows without a position come
\* first and in an order that has nothing to do with acceptance.
EventsBefore(e, f) ==
    \/ e[1] < f[1]
    \/ /\ e[1] = f[1]
       /\ \/ eventRows[e].index < eventRows[f].index
          \/ eventRows[e].index = eventRows[f].index /\ e[2] > f[2]

\* The range of block b once its rows were given the numbers ns.
\* Mutant form: the range of a block stays what its first batch made it.
KeepsRange(b, ns) == IF b \in DOMAIN ranges THEN ranges[b] ELSE <<Min(ns), Max(ns)>>
WidenRange(b, ns) ==
    IF b \notin DOMAIN ranges THEN <<Min(ns), Max(ns)>>
    ELSE <<Min(ns \cup {ranges[b][1]}), Max(ns \cup {ranges[b][2]})>>

LogRecord(kind, source, event) == [kind |-> kind, source |-> source, event |-> event]
Numbered(e, n) == [index |-> eventRows[e].index, seq |-> n]

\* ORDER BY .. LIMIT: the first rows of the order, all of them when they fit.
Batches(todo) ==
    {batch \in UNION {[1..n -> todo] : n \in 0..BatchSize} :
        /\ \A i, j \in DOMAIN batch : i < j => EventsBefore(batch[i], batch[j])
        /\ \A i \in DOMAIN batch, e \in todo \ ToSet(batch) : EventsBefore(batch[i], e)
        /\ Len(batch) < BatchSize => todo = ToSet(batch)}

\* backfill_delivery_batch: one transaction.
MigrateBatch ==
    /\ runner.mode = "offline" /\ ~migrated
    /\ LET todo == {e \in DOMAIN eventRows : eventRows[e].seq = NoSeq}
       IN  \E batch \in Batches(todo) :
             LET at(e) == Len(dlog) + CHOOSE i \in DOMAIN batch : batch[i] = e
                 given(b) == {at(e) : e \in {f \in ToSet(batch) : f[1] = b}}
             IN  /\ dlog' = dlog \o [i \in DOMAIN batch |-> LogRecord("accepted", NoSeq, batch[i])]
                 /\ eventRows' = [e \in DOMAIN eventRows |->
                                     IF e \in ToSet(batch) THEN Numbered(e, at(e)) ELSE eventRows[e]]
                 /\ ranges' = [b \in DOMAIN ranges \cup {e[1] : e \in ToSet(batch)} |->
                                  IF given(b) = {} THEN ranges[b] ELSE WidenRange(b, given(b))]
                 /\ migrated' = (ToSet(batch) = todo)
    /\ UNCHANGED <<world, synced, marked, runner, ghosts>>

\* Store::open refuses an unmigrated database; backfill_tx_index is entered
\* once per session until it is done.
Start ==
    /\ runner.mode = "offline" /\ migrated
    /\ IF marked.done
       THEN runner' = Following
       ELSE runner' = [mode |-> "walking", stop |-> Last(synced),
                       cursor |-> IF marked.at # 0 THEN marked.at ELSE world.chain[world.pruned]]
    /\ UNCHANGED <<world, synced, eventRows, dlog, ranges, migrated, marked, ghosts>>

\* virtual_chain_from: nothing below the pruning point; a start that left the
\* selected chain answers from the fork.  Forks here are one block deep.
PlaceOf(b) == IF OnNode(b) THEN HeightOf(b) ELSE world.forks[b]
Walkable(b) == PlaceOf(b) >= world.pruned
FollowersOf(b) ==
    LET h == PlaceOf(b)
    IN  SubSeq(world.chain, h + 1, IF h + ResponseCap < Len(world.chain) THEN h + ResponseCap ELSE Len(world.chain))

\* The batch ends with the sync cursor when the response holds it.
UpToStop(added) ==
    IF runner.stop \in ToSet(added)
    THEN SubSeq(added, 1, CHOOSE i \in DOMAIN added : added[i] = runner.stop)
    ELSE added

\* stamp_tx_indices: only rows still NULL.
Stamped(batch) ==
    [e \in DOMAIN eventRows |-> IF e[1] \in ToSet(batch) /\ eventRows[e].index = 0
                           THEN [index |-> e[2], seq |-> eventRows[e].seq] ELSE eventRows[e]]

Finish == /\ marked' = [done |-> TRUE, at |-> 0]
          /\ ghosts' = [restarts |-> ghosts.restarts, prunedAtDone |-> world.pruned]
          /\ runner' = Following

\* One response.  A stale resume point restarts from the pruning point within
\* the step.
Response == UpToStop(FollowersOf(IF Walkable(runner.cursor) THEN runner.cursor ELSE world.chain[world.pruned]))
AtLast(batch) == [done |-> FALSE, at |-> Last(batch)]

\* Stamps, then progress, then the end of the walk.
WalkStep ==
    /\ runner.mode = "walking"
    /\ IF Response = <<>>
       THEN Finish /\ eventRows' = eventRows
       ELSE /\ eventRows' = Stamped(Response)
            /\ IF Last(Response) = runner.stop
               THEN Finish
               ELSE /\ marked' = AtLast(Response)
                    /\ runner' = [mode |-> "walking", cursor |-> Last(Response), stop |-> runner.stop]
                    /\ ghosts' = ghosts
    /\ UNCHANGED <<world, synced, dlog, ranges, migrated>>

\* The three are transactions of their own: the process, or the walk, may end
\* before the second or before the third of them.
WalkBreaks ==
    /\ runner.mode = "walking" /\ ghosts.restarts < MaxRestarts
    /\ Response # <<>> /\ eventRows' = Stamped(Response)
    /\ marked' \in {marked, AtLast(Response)}
    /\ runner' \in {Offline, Following}
    /\ ghosts' = [restarts |-> ghosts.restarts + 1, prunedAtDone |-> ghosts.prunedAtDone]
    /\ UNCHANGED <<world, synced, dlog, ranges, migrated>>

\* Mutant form: a walk that broke off counts as finished.
GivesUp == [done |-> TRUE, at |-> 0]
MarkOfBroken == marked

\* The node fails: the walk is given up for this session, following goes on.
WalkFails ==
    /\ runner.mode = "walking" /\ ghosts.restarts < MaxRestarts
    /\ marked' = MarkOfBroken
    /\ runner' = Following
    /\ ghosts' = [restarts |-> ghosts.restarts + 1, prunedAtDone |-> ghosts.prunedAtDone]
    /\ UNCHANGED <<world, synced, eventRows, dlog, ranges, migrated>>

\* The process ends at any point between transactions.
Restart ==
    /\ runner.mode # "offline" /\ ghosts.restarts < MaxRestarts
    /\ runner' = Offline
    /\ ghosts' = [restarts |-> ghosts.restarts + 1, prunedAtDone |-> ghosts.prunedAtDone]
    /\ UNCHANGED <<world, synced, eventRows, dlog, ranges, migrated, marked>>
-----------------------------------------------------------------------------
(* Following, and the node *)

\* The numbers of a finite set, ascending.
Ascending(S) ==
    {s \in [1..Cardinality(S) -> S] : ToSet(s) = S /\ \A i, j \in DOMAIN s : i < j => s[i] < s[j]}

FollowAdd ==
    /\ runner.mode = "following"
    /\ Len(synced) < Len(world.chain) /\ IsPrefix(synced, world.chain) /\ Walkable(Last(synced))
    /\ LET b == world.chain[Len(synced) + 1]
       IN  \E ps \in Ascending(Positions[b]) :
             LET at(e) == Len(dlog) + CHOOSE i \in DOMAIN ps : ps[i] = e[2]
             IN  /\ synced' = Append(synced, b)
                 /\ eventRows' = [e \in DOMAIN eventRows \cup EventsIn(b) |->
                                     IF e \in EventsIn(b) THEN [index |-> e[2], seq |-> at(e)] ELSE eventRows[e]]
                 /\ dlog' = dlog \o [i \in DOMAIN ps |-> LogRecord("accepted", NoSeq, <<b, ps[i]>>)]
                 /\ ranges' = [c \in DOMAIN ranges \cup {b} |->
                                  IF c # b THEN ranges[c]
                                  ELSE IF ps = <<>> THEN <<NoSeq, NoSeq>>
                                  ELSE <<Len(dlog) + 1, Len(dlog) + Len(ps)>>]
    /\ UNCHANGED <<world, migrated, marked, runner, ghosts>>

\* append_removed_deliveries reads the range of the block's batch only.
SourcesOf(b) ==
    IF b \notin DOMAIN ranges THEN {}
    ELSE {n \in DOMAIN dlog : /\ ranges[b][1] <= n /\ n <= ranges[b][2]
                              /\ dlog[n].kind = "accepted" /\ dlog[n].event[1] = b}

\* rollback_removed_blocks skips a block without a canonical batch.
FollowRemove ==
    /\ runner.mode = "following" /\ ~IsPrefix(synced, world.chain)
    /\ LET b == Last(synced)
       IN  \E sources \in Ascending(SourcesOf(b)) :
             /\ synced' = Front(synced)
             /\ dlog' = dlog \o [i \in DOMAIN sources |-> LogRecord("removed", sources[i], dlog[sources[i]].event)]
             /\ eventRows' = IF b \in DOMAIN ranges
                             THEN [e \in {x \in DOMAIN eventRows : x[1] # b} |-> eventRows[e]] ELSE eventRows
             /\ ranges' = [c \in DOMAIN ranges \ {b} |-> ranges[c]]
    /\ UNCHANGED <<world, migrated, marked, runner, ghosts>>

NodeExtends ==
    /\ world.next \in DOMAIN Positions
    /\ world' = [chain |-> Append(world.chain, world.next), pruned |-> world.pruned,
                 next |-> world.next + 1, forks |-> world.forks]
    /\ UNCHANGED <<synced, eventRows, dlog, ranges, migrated, marked, runner, ghosts>>

\* The tip is replaced: at most one store block is off the node's chain.
NodeReorgs ==
    /\ world.next \in DOMAIN Positions /\ Len(world.chain) > world.pruned + 1
    /\ world' = [chain |-> [world.chain EXCEPT ![Len(world.chain)] = world.next], pruned |-> world.pruned,
                 next |-> world.next + 1,
                 forks |-> [b \in DOMAIN world.forks \cup {Last(world.chain)} |->
                              IF b = Last(world.chain) THEN Len(world.chain) - 1 ELSE world.forks[b]]]
    /\ UNCHANGED <<synced, eventRows, dlog, ranges, migrated, marked, runner, ghosts>>

NodePrunes ==
    /\ world.pruned < Len(world.chain) - 1
    /\ world' = [chain |-> world.chain, pruned |-> world.pruned + 1, next |-> world.next, forks |-> world.forks]
    /\ UNCHANGED <<synced, eventRows, dlog, ranges, migrated, marked, runner, ghosts>>

BackfillNext ==
    \/ MigrateBatch \/ Start \/ WalkStep \/ WalkBreaks \/ WalkFails \/ Restart
    \/ FollowAdd \/ FollowRemove \/ NodeExtends \/ NodeReorgs \/ NodePrunes

BackfillSpec == BackfillInit /\ [][BackfillNext]_bfvars
-----------------------------------------------------------------------------
\* A backfill that reports itself done is done, whatever was cut short on the
\* way: from then on the delivery log replays to the event rows and each row
\* names its own accepted record (backfill_delivery_batch), also across the
\* removal of a block whose rows straddled two batches; and a row still
\* without a position lies where the node could no longer answer
\* (backfill_tx_index).
DoneMeansWhole ==
    /\ migrated =>
         LET removed == {dlog[n].source : n \in {k \in DOMAIN dlog : dlog[k].kind = "removed"}}
             standing == {n \in DOMAIN dlog : dlog[n].kind = "accepted" /\ n \notin removed}
         IN  /\ {dlog[n].event : n \in standing} = DOMAIN eventRows
             /\ \A e \in DOMAIN eventRows : eventRows[e].seq \in standing /\ dlog[eventRows[e].seq].event = e
    /\ DOMAIN eventRows = UNION {EventsIn(synced[i]) : i \in DOMAIN synced}
    /\ marked.done => \A e \in DOMAIN eventRows :
         eventRows[e].index = e[2] \/ ~OnNode(e[1]) \/ HeightOf(e[1]) <= ghosts.prunedAtDone
================================================================================
