# kascov in TLA+

kascov follows a Kaspa node, keeps a SQLite index of every covenant (its UTXOs,
its lifecycle events) and serves it: HTTP API, Server-Sent-Events stream,
webhooks, explorer. This directory is a TLA+ account of the parts of it whose
correctness depends on order: of commits against chain reorganisations, of
crashes between two transactions, of a reader's replay against live broadcasts,
of one build of the program against the next on the same database.

Contents: 1 inventory, 2 modules and the code, 3 runs, 4 findings, 5 bounds,
6 fairness, 7 proofs, 8 abstractions and what is left out, 9 plan.

## 1. Inventory

| component | state | operations | interacts with | hard parts |
|---|---|---|---|---|
| node (external, `node/mod.rs` is the client) | selected chain, sink, block bodies, mempool | `dag_info`, `virtual_chain_from`, `block_with_txs`, `mempool_txs`, wake-ups | sync engine, pending poller, lab | reorganises between any two calls; calls fail; bodies pruned |
| canonical store (`store.rs`, `store_delivery.rs`) | covenants, events, utxos, canonical batches, delivery log, meta (cursor, processed DAA, tip) | apply block, roll back, checkpoint, re-anchor reads, gap merge | sync engine (only writer), readers | what commits together and what does not |
| sync engine (`sync.rs`) | none of its own: a pass over node and store | pass, re-anchor, gap recovery, tx-index backfill | node, store, follower | reorg or failure in the middle of a pass |
| follower (`follower.rs`, `performance.rs`) | error counter, progress watch, wake-up schedule | reconcile loop, recovery, publication | all of the above | wake-ups lost or coalesced; successful passes that do nothing |
| writer hand-off (`follower.rs`) | bounded channel, one atomic per request | `mutate` | HTTP handlers, follower | time-out against a starting operation |
| delivery stream (`stream.rs`, `delivery.rs`) | broadcast channel, per-client cursor, slots and permits | subscribe, replay, live frames, checkpoints, cut | store readers, follower | hand-over from replay to live; lag |
| projection queue (`projection.rs`) | queue of delivery records to project, cursor | initialize, enqueue, drain | store | work enqueued while a drain lags |
| gap recovery (`sync.rs`, `store.rs`) | pending gap, walk cursor, copy of the database | detect, walk, merge, finalise | node, store | interruption at every step |
| tokens and market (`tokens.rs`, `market.rs`, candles in `main.rs`) | token tables, market programs | prove cells, derive, judge, price, chart | store, projection queue | proofs that come only when a cell is spent |
| application protocols (`store_application.rs`, kascov-argent) | outputs, decode failures, totals kept by triggers | apply, roll back, repair | store, operator | repairs long after the fact |
| pending feed (`pending.rs`) | mempool observations | poll, resolve, replace, expire | node, follower, stream | acceptance racing the poll |
| webhooks (`main.rs`) | subscriptions, bounded queue, failure counts in memory | subscribe, post, retire | follower, writer hand-off | ids looked up, posted to and deleted in separate steps |
| durable reads (`main.rs`, `store_delivery.rs`) | cursors kept by clients | poll, snapshot | store readers | several reads at several commits |
| store upkeep (`store.rs`, `tokens.rs`, `main.rs`) | version stamps, gates, verification log | reclassify, restamp, rebuild | several builds of the program | a gate set too early |
| backfills (`store_delivery.rs`, `sync.rs`) | markers in meta | batches, walk | follower | a block straddling two batches |
| store access (`writer.rs`, `read_pool.rs`, `store.rs`) | file lock, pool, backup file | open, probe, check out, back up | everything | a lost file, a crash during a copy |
| list pages (`api.rs`, `store.rs`) | cursors kept by clients | ten paged lists | store readers | ties, rows that come and go |
| response cache (`main.rs`) | bodies, locks per key | serve, refresh, sweep, keep warm | all read handlers | single flight through a map that is swept |
| registry, vesting, witness (`registry.rs`, `witness.rs`) | cached list, proven schedules, witnessed art, media database | fetch, check, prove, save | store, the outside web | sources that flap; statements that fail one by one |
| consistency check (`main.rs`) | reports per network, request budget | discover, fetch, classify | another indexer | what was not fetched must not look like a difference |
| lab and deploy (`kascov-labkit`, `main.rs`) | wallet outputs, bucket, wallet lock | build, submit, refund | node | amounts that fit only just |
| preflight (`preflight.rs`, kascov-sim) | none | verdict on a transaction | none | whole against isolated execution |
| limiter and holder lane (`main.rs`) | bucket, counts per address, passes | take, mint, verify | tool handlers | the lane must not widen the bucket |
| decode, og, galaxy, read-only handlers | none | pure functions, SQL reads | store | breadth of data rather than order |
| web explorer and client packages | page state, event cache | fetch, SSE, render | API | out-of-order answers |

How they interact. There is one writer: a handle that may write holds an
exclusive file lock (the lease) and the follower's task holds it for a session.
Everything that changes the index goes through it, either as a sync pass or as
an operation handed to it over `WriterHandle::mutate`. A pass asks the node for
the chain between the stored cursor and the sink, rolls back what was removed
and applies what was added, one SQLite transaction per block, with node calls
(awaits) in between. Each transaction appends to the delivery log, and only
after the commit are its records broadcast to SSE clients, resolved in the
pending feed and queued for webhooks. Readers use their own connections and see
committed states only; what they publish is cached per resource. A process of
another build may open the database next and finds the stamps of the last one.

What makes each part correct, in the order in which it matters:

- the index holds exactly the covenant activity of the chain up to its cursor
  (`IndexComplete`, `CompleteUnlessFailed`, `ChainInv`, `TablesAgree`),
  in spite of reorganisations, failures and recovery, and a gap that was walked
  afterwards leaves no trace (`HistoryRestored`);
- the delivery log says the same as the index, in an order a client can stop in
  (`LogReplaysToIndex`, `LogInOrder`: sequences without a hole, removals newest
  block first);
- derived tables are up to date or known to be stale (`ProjectionCovered`,
  `RowIsCurrent`, `AppRowsFollowCoins`, `GatesTellTruth`, `DoneMeansWhole`);
- what is concluded from them is proven (`VerdictsProven`, `KnownKindsStay`,
  `PriceRestsOnReplay`, `CandlesRestOnReplay`, `ListedFactsAreProven`, `VerdictsAreTrue`,
  `ServedArtEarned`, `VerdictsHold`);
- the follower gets to the sink and out of a stranded cursor (`CatchesUp`,
  `StrandedCursorRecovers`);
- a call of `mutate` says the truth (`FailedCallChangedNothing`,
  `AppliedExactlyOnce`) and returns (`EveryCallReturns`);
- clients are told everything, once and in order (`NoGapUnlessSilent`,
  `IdsGrow`, `SlotsAccounted`, `EveryoneCatchesUp`, `EndsAreTold`,
  `PollsSkipNothing`, `PagesCoverStableRows`, `BodiesMoveForward`), and a
  subscriber is given up only for what it did (`RetiredForCause`);
- money and archives are kept (`WalletKept`, `LaneWithinBounds`, `ArchiveKept`).

`PROJECT.json` lists every hazard at its line with the properties that watch it.

## 2. Modules and the code

    Chain ── CanonicalStore ──┬── SyncEngine ── Follower
      │                       │     │
      └── ChainIndex ─────────┼─────┘ └── SyncEngine_proofs ── Tables_proofs
                              │                 ├── Completeness_proofs
                              └── GapRecovery ──┴── GapRecovery_proofs
    WriterMutation *   DeliveryStream *
    TokenLedger *   Applications *  StoreUpkeep *   Backfills *  StoreAccess *
    PendingFeed *   Webhooks *      DurableReads *  Paging *     ServeCache *
    ListedTokens *  Witness *       Consistency *   Lab *        Preflight *   HolderLane *

A star marks a module with theorems: those of `DeliveryStream` and `Applications` are
in `DeliveryStream_proofs`, those about what a caller is told (`WriterMutation`, `Lab`,
`Preflight`, `Paging`, `Backfills`) in `Requests_proofs`, those about clients of the index, the
token rows they read and the pending lane in `Clients_proofs`, those about the services
around it in `Services_proofs`; `Completeness_proofs` extends `Follower`, too. The modules
of the last four lines stand alone: each meets the rest through committed rows, which
it takes as its own input. `MCHistory` and `MCServices` put several of them side by
side for TLC: a constant variable `scenario` says which one runs.

`Chain` (external: the node). A tree of chain blocks given by `Path`, the
selected chain up to each block; what each block accepts; coins and covenants.
`RemovedFrom`/`AddedFrom` are a truthful answer of
`get_virtual_chain_from_block`. Its assumptions are what consensus guarantees:
chains are linear, DAA scores grow, a coin is created once and spent once after
that, a transaction is accepted once per chain, and a block spends nothing that it creates later.

`CanonicalStore` (`store.rs`, `store_delivery.rs`, `store_application.rs`,
`projection.rs`, `classify` of `sync.rs`). One variable per table or meta key
and one action formula per transaction:

| TLA+ | code |
|---|---|
| `Classify(b)`, `SpentBy`, `Touched`, `KindOf` | `classify` with its overlays for coins and covenants created earlier in the same block |
| `ApplyAcceptedBlock(B)` | `apply_accepted_block`: early return on a known batch, rows, coins, summaries, batch, log, applications, projection work, cursor, processed DAA |
| `ApplyFails(B)` | the plain inserts under a primary key that refuse the whole transaction |
| `RollbackRemovedBlocks(S)` | `rollback_removed_blocks`: removal records newest first, rows, coins, summaries, applications, batches; the cursor stays |
| `CheckpointCursor`, `ResetCursor`, `SetTip` | the meta updates |
| `DrainProjection(n)` | `drain_optional_projection_chunk` |

`SyncEngine` (`sync.rs`). `pc` is the point a pass has reached; every action
ends at a commit or an await, so a reorganisation (`SinkMoves`), a change of
what the node can walk from (`NodeSwitches`) or a failure or crash
(`Interrupted`) can come between any two. `BeginPass`, `StartFreshIndex`,
`Walk`/`WalkRefused`, `RollBack`, `ProcessBlock`/`ApplyRefused`, `FinishPass`
are `sync_once_measured_with_decoder`; `ProbeCursor`, `ReAnchor`, `Repoint`,
`RestartAtSink` are `recover_wedged_cursor` and `re_anchor`. Recovery may start
whenever the code's own test allows it: the engine must survive it at any time.
`base` (the chain below a fresh index's first block), `resets` and `unswept`
(whether a recovery left a batch above its anchor) are history. Of the node it is
assumed that it reports the heaviest block it knows (`KnowsUpTo`).

`ChainIndex` is the abstract specification: the blocks that have events are
blocks of one chain, grow by a later block at a time and shrink only from the
newest end; restarting at the sink of a foreign chain forfeits this. `SyncEngine`
implements it with `held <- Indexed`, `forfeited <- resets`.

`Follower` (`follow_forever`, `performance.rs`) adds the loop that decides when
a pass or a recovery runs: error counter, `ProgressWatch` (`Observe`), coalesced
wake-ups (`notified`), the check of cursor against sink after a pass, a drained
chunk when quiet. It extends `SyncEngine` and conjoins its actions.

`GapRecovery` (`recover_gap`, `reconcile_block`, `merge_recovered_block`,
`finalize_gap_recovery`) extends `CanonicalStore`: an index that lost a window
to a reset, the explicit or detected window (`FoundWindow`), the copy it is
walked on, one block captured or reconciled per step, the resumable walk cursor,
the final transaction that orders the affected covenants (`PlaceIn`). A run may
stop anywhere and be started again on another node.

`TokenLedger` (`tokens.rs`, `market.rs`). The true state of a cell is in `outs`;
the indexer sees it only when it is proven (`ProveDirect`, `Proven`). Accepting
or removing a transaction re-derives the rows of everything it affects
(`Affected`): balances, supply, kinds of events (`ClassifyRow`), the verdict
(`Flag`, `Judged`), trades with the time of their block, and the market program
(`DeriveMarketProgram`), which no rollback rewrites. `Candles` are those of
`candle_buckets`: `CandleGates` restates the gates of `token_candles`, which are not
those of `market_summary` word for word, and `Charted` the trades they admit.

`WriterMutation` (`WriterHandle::mutate`, `WriterMutation::apply`,
`await_with_mutations`): the channel, the atomic, the oneshot; a caller that
times out (`TimeoutElapses`) and tries to cancel (`Cancel`) in two steps; a
follower that receives, claims and operates in three; dropped futures and a
follower that stops.

`DeliveryStream` (`stream.rs`): commit and broadcast apart; admission by
`fetch_add` and comparison; subscribe before reading the high-water mark; pages
of replay under a permit; discarding what the replay covered; checkpoints for
filtered clients; lag, cuts, restarts, and batches broadcast twice or never.

What clients are told otherwise:

| module | code | notes |
|---|---|---|
| `PendingFeed` | `pending.rs`, `resolve_accepted_pending` of `follower.rs` | every await of the poller is a step: the mempool read, the look-up of each transaction, the decision, each broadcast; the follower resolves in between |
| `Webhooks` | `subscribe_handler`, `webhook_delivery_forever` | `try_send`, look-up, posts, counts, the deletion through the writer |
| `DurableReads` | `events_page_json`, `build_grid_snapshot` | information and page are read at different commits |
| `Paging` | the page queries of `store.rs`, `tokens.rs`, `store_application.rs`, `page_market_entries` | one sort key per list, cursors as the handlers build them, a row written between two pages; the market list is sorted and cut in memory, by market id alone |
| `ServeCache` | `serve_cached`, `serve`, `evict_cache_if_large`, keep-warm | the task that waits for a lock and the map that forgets it |

What a database goes through:

| module | code | notes |
|---|---|---|
| `StoreUpkeep` | `Store::open`, `reclassify_if_stale`, `derive_tokens_if_stale`, `restamp` | three builds with different stamps; death between commits, failing statements |
| `Backfills` | `backfill_delivery_batch`, `backfill_tx_index` | batches that cut through a block, restarts, removals meanwhile; stamps, progress and end of a walk commit apart, and `WalkBreaks` stops between them |
| `StoreAccess` | `WriterLease`, `open_with_policy`, `probe_archives_at_boot`, `ReadPool`, `backup_to` | a file that is lost, commands beside the server |
| `Applications` | `apply_accepted`, `rollback_removed`, `repair_application_failures`, the decoder's outcomes | manifests approved over time |

What is concluded or spent:

| module | code | notes |
|---|---|---|
| `ListedTokens` | `registry.rs`, `vesting_states`, `put_vesting_schedules` | lists that lie, claims, cells of other plans beside them, reorgs |
| `Witness` | `witness_forever`, `apply_check`, `save_effect` | each statement of a save may be the last |
| `Consistency` | `consistency_forever`, `polite_get`, `classify_token` | any request fails, is refused or is never made |
| `Preflight` | `preflight::run`, `build_tx`, isolated execution | one pure verdict per request, checked against what a node would take: commitments, compute, transient and storage mass each against its limit, a storage mass that has no value, execution |
| `Lab` | `kascov-labkit`, `deploy_handler` | selection, fees, escrow, unconfirmed chains, bucket and refund |
| `HolderLane` | `ToolLimiter`, `take_tool_slot`, `lane_mint_handler`, `verify_lane_token` | hours, restarts, the map that is dropped when full; a mint is a tool run like any other, on the lane if its caller has a pass, and its balance (`AskPass`) and pass (`GrantPass`) are two steps |

The `MC*` modules fix data for TLC; the cfgs give the other constants their
values. Definitions that begin with the comment "Mutant:" or "Mutant form:" are
faulty variants of the definition below them; nothing uses them, they exist to
show that a property notices the fault.

## 3. Runs

| run | checks | what it shows |
|---|---|---|
| failures | ChainInv, LogReplaysToIndex, LogInOrder, TablesAgree, ApplyNeverRefused, CompleteUnlessFailed, ServesOneChain | whatever the node reorganises between two transactions (to the other branch and back), with a failure or crash at any point, pruning or a node switch, and recovery: rows, coins, summaries and log agree, the index implements `ChainIndex`, and as long as nothing failed and no recovery left a batch behind it is exactly the activity of the chain up to its cursor |
| catchup | IndexComplete, ProjectionCovered, CatchesUp | under the follower, with lost notifications and two failures anywhere, the index stays complete provided a reorganisation never returns to an abandoned branch (the exact counterpart of finding `lost`), no token table is stale without queued work, and the loop reaches the sink and empties the queue |
| stranded | StrandedCursorRecovers | a node that refuses the cursor drives the error counter to recovery, one that answers with empty successes is caught by `ProgressWatch`, and a reconnect may change one kind of node into the other |
| mutation | FailedCallChangedNothing, AppliedExactlyOnce, EveryCallReturns | the hand-off under time-outs, dropped futures, a full channel and a follower that ends |
| stream | NoGapUnlessSilent, SlotsAccounted | two clients for one slot with replay, hand-over, lag, reconnect, restart, a batch broadcast twice and one that never is; a refusal gives back the slot it counted |
| drains | SlotsAccounted, IdsGrow, EveryoneCatchesUp | two streams, one replay permit and a buffer of one: slots and permits are kept to, every frame has an id above the one before, and everyone ends up with everything |
| history | HistoryRestored, RowIsCurrent, VerdictsProven, PriceRestsOnReplay, CandlesRestOnReplay, KnownKindsStay, GatesTellTruth, EndsAreTold, RetiredForCause, PollsSkipNothing, PagesCoverStableRows, ArchiveKept | a gap walked in two runs with stops and another node restores events, kinds, coins and summaries; token rows equal a fresh derivation after any sequence of acceptances, removals and late drains; verdicts, prices and candles rest on proof; the passes of newer builds set no gate before their work is done, and no session, probe or copy puts an empty archive in the place of a lost one. Beside the stream, clients are told by the pending lane while poller and follower race and reads fail, by webhooks that fail, are removed, re-created and retired, by polling with page sizes that leave the store a record to spare, while the log grows, and by walking any list page by page |
| services | AppRowsFollowCoins, ListedFactsAreProven, VerdictsAreTrue, BodiesMoveForward, WalletKept, DoneMeansWhole, ServedArtEarned, VerdictsHold, LaneWithinBounds | ten services, one behaviour each, under the interleavings, restarts and partial failures their code handles |
| lost, unswept, registry, refetch | one property each | expected violations: section 4 |

Most properties need several steps of several actors to break; each one has at
least one mutant in `PROJECT.json` that TLC refutes under the run's own cfg.

`CHECK_DEADLOCK FALSE` is used where the system may really stop: a quiet chain
leaves every stream waiting, the follower of `WriterMutation` may end, a service
that used up the bounds of its inputs waits for more.

## 4. Findings

Four runs expect a violation; each states what a comment or a document of the
repository says, and TLC shows a behaviour of the code that contradicts it.

1. `lost`. `rollback_removed_blocks` commits and leaves the cursor on the removed
   branch; the cursor moves with the first block applied afterwards. If the pass
   fails in between and the node then returns to the old branch, the next walk
   from the unchanged cursor reports nothing to re-apply and the rolled-back
   events are missing for good (docs: "Cursor advance and data changes commit
   together"). `failures` shows that a failure is necessary, `catchup` that the
   return to the branch is.
2. `unswept`. `re_anchor` rolls back `accepting_blocks_above`, which lists blocks
   with events only; the batch of an event-less checkpoint block above the anchor
   stays ("blocks the cursor visited without covenant activity ... carry nothing to
   undo"). When the chain comes back to that block, its apply is taken for a replay:
   the cursor stays on the other branch, whose rows the same pass has just rolled
   back. If the node then returns to that branch, the walk from the cursor reports
   nothing and the events are missing for good, although no call failed. An
   application envelope of such a block stays as well, and refuses the block that
   accepts its transaction next. `CompleteUnlessFailed` and `ApplyNeverRefused`
   exempt exactly this (`unswept = 0`) and are proved otherwise.
3. `registry`. The checked registry proves listed schedules, and stores them,
   inside `read_pool.query`, whose connections are read-only: the first schedule
   that is proven makes the whole answer fail, until the vesting API happens to
   store it ("either surface can warm the durable proof cache").
4. `refetch`. When the media database is lost ("losing it costs a refetch"), a
   recheck that finds the same art stores no bytes: the row keeps saying
   witnessed and the logo is not served until the art changes. In this run no
   statement fails (`MaxMishaps = 0`) and the database is lost once.

Smaller disagreements and oddities met while modelling. Where a definition is
named it states the claim and TLC refutes it with the module's `Spec`.

*Index and follower.* `ProcessedNotAhead`: after a rollback `processed_daa` is
ahead of what the index holds ("this can never run ahead of what the index
contains"). `CatchesUp` with a lagging node and a reset: blocks above the reset
cursor still have batches, every apply returns early, the cursor does not move
and the follower walks the same blocks without a pause until the sink passes
the last of them. `RecoveryUnwedges`: `reset_cursor` keeps application rows of
the abandoned chain; a new chain that accepts the same transaction is refused by
the primary key on every pass. `NoGap` without its premise: `re_anchor` drops
the removal records it commits, so they are in the log and never broadcast. A
rollback leaves `last_activity_daa` at the removed event. `IndexComplete` can fail
even if the node never returns to an abandoned branch: `re_anchor` commits its
rollback and moves the cursor in a second transaction, so if a probe failed for
another reason than a left branch (a time-out) and the process stops between the two,
a cursor that is still on the chain stands above rows that are gone, and no later walk
from it applies them again (TLC refutes `IndexComplete` with `Spec`, the node of
`catchup` and two failures). Run `catchup` bounds the failures so that no recovery
moves a healthy cursor.

*Gap recovery.* `BurnsAreFinal`: a detected window that ends too early, because
the chain was quiet, leaves a burn where a continuation lies beyond it. The walk
cursor is not tied to its window; a pruning point above the start of the window
is recorded as recovered, and what "a re-run picks up" is then skipped because a
recovered gap makes a re-run a no-op. Merged events have no stream sequence.

*Upkeep and backfills.* `ServedTokensWhole` holds only without `late` readings:
`derive_tokens_if_stale` stores the restamp version of the build, not the one the
restamp recorded. Where the restamp failed (follower.rs:390 logs and goes on) or was
left out (`reverify` starts without one), the gate vouches for it all the same, and
the reveals that a later restamp locates are never derived, although the composite
stamp exists so that they are (tokens.rs:72). `PendingClears`: tokens.json compares the stored
composite stamp with `TOKEN_DERIVATION_VERSION`, so `derivation.pending` stays
true. With `Rollbacks = TRUE` (an older build run in between) `ServedTokensWhole`
fails. A market error during a derivation is swallowed and the run recorded
"ok"; a failed `finish` leaves a row that the next build reports interrupted;
`finish_derivation_run` counts five of eight matched skeletons. Rows migrated
before positions were stamped keep `order_complete = false`.

*Applications.* `RemovalsReachFilters`: removal records carry no application, so
a stream filtered by application is not told of removals ("Removed accepting
blocks reverse every effect keyed to them"). Repair candidates are taken in DAA
order under a limit: envelopes that always fail starve later ones. A failure
whose outputs were all there already stays unrepaired; a duplicate id whose first
entry is rejected blocks the second.

*Telling clients.* `SnapshotMeetsStream`: the rows of the grid are read before
`delivery_high_water`, so a record committed in between is in neither.
`--event-page-size` is not bounded above while the store never returns more than
1,001 records: with a limit of 1,001 or more a full page looks complete,
`has_more` stays false and `next` goes to the high-water mark, past records that
were never sent. `PageAssumption` excludes it; without it TLC refutes
`PollsSkipNothing`. A client that sends only `after_daa` never gets past a group
of equal DAA larger than its limit; holders whose balance moves during a walk are
missed or doubled; cached pages have different ages. The market list is paged by market
id: where two tokens name one covenant as their market, a page that ends between the
two never serves the second (`page_market_entries` keeps what is below the last id).

*Cache and access.* `ListsServed`: ten list handlers of `api.rs` (from line 143 on)
open the store with `Store::open`, that is as a writer; while the follower holds its
session the lease is taken and they answer 503 ("the follower and the handlers keep
their own connections"). A cold 404 leaves an old body that can still be served
stale; keep-warm writes without the lock. The backup restarts on every commit
where the CLI reference says `VACUUM INTO`; `FreshDb::Allow` re-creates a lost
file at the next session.

*Registry, witness, consistency.* Two locks of one plan spent in one transaction
cannot be told apart; a `UNIQUE(lock)` conflict aborts the rest of a list. A
replaced url whose first fetch fails needs two sightings ("adopts on the first
good fetch"); a covenant listed again stays delisted while its art is unchanged;
art, failure, art counts as two consecutive checks. The other indexer's row count
is compared as a holder count, and a walk cut short after its first page can only
say `only_kascov`.

*Lab, preflight, lane.* `settle_escrow` lacks the dust guard of its siblings;
deploys in quick succession may choose the same unconfirmed output; a refund
after midnight credits the new day. `ready` is said of outputs that exceed the
inputs; isolated version-0 inputs take the version-1 budget of zero and may be
called failing; inputs past the sixteenth are not executed. Lane holders share
the global bucket, so the anonymous floor can shrink.

*Tokens.* The spot price divides by a reserve that may be stale by one reveal;
`market_programs` is unchanged when a rollback removes its evidence, which
`PriceRestsOnReplay` shows the summary survives.

## 5. Bounds

| bound | value | why it is enough |
|---|---|---|
| blocks | 6: two branches of two and three above a common block | reorg away and back, a block without events, one with two transactions of one covenant, one that burns and creates |
| covenants, coins, transactions | 2, 3, 4 | genesis, transition and burn of one covenant, a second covenant created in the same block, an application transaction accepted on both branches |
| `CheckpointEvery` | 2 (code 500) | both sides of the comparison are met on branches of length three |
| `WedgeLag` | 0 to 2 (code 18,000 DAA) | the heights span 4: lagging and not lagging both occur |
| `MaxFailures`, `MaxSwitches` | 0 to 2; 0 or 1 | one failure reaches every gap between two transactions; two drive the follower to its `ErrorLimit`; a switch to every view of `NodeViews` |
| `ErrorLimit`, `WedgePasses` | 2 | counting, reaching the limit and being cleared |
| `ProjectionChunk` | 1 or 8 | a chunk smaller and larger than the queue |
| `Requests`, `Capacity` | 3, 2 | a full channel |
| clients, `MaxLog`, `Buffer`, `PageSize` | 2; 3 or 4; 1 or 2; 2 | more than a page, more than a buffer, batches of one and two, records inside and outside a filter |
| `MaxStreams`, `MaxReplays`, `MaxBreaks`, `MaxAgain`, `MaxSilent` | 1 or 2; 1; 1; 0 or 1; 0 or 1 | two clients race for the last slot or the only permit; one cut or restart, one batch sent twice, one never sent |
| gap: nine blocks, three anchors, `MaxRuns`, `MaxResets` | 2, 1 | a run that stops anywhere and one that completes, with a node that pruned in between; every position of the window's ends; a covenant that lives across each of them |
| ledger: worlds of `MCTokenLedger`, `MaxTxs`, `MaxIns`, `BucketTime` | 3, 2, 2 | launch, transfer and market trade; merge of two cells; a minter and what it pins; a lie in each field; a rollback of each; two trades in one candle and in two, in and out of the order of their times |
| pending: transactions, `MaxPending`, `Grace`, `MaxAge` | 2 in conflict, 1, 1, 2 | replacement, overflow, expiry within the grace period and after it |
| webhooks: `MaxHooks`, `MaxFailures`, `HookQueue` | 2, 2, 1 | an id that is given out again, a full queue, a success between two failures |
| upkeep: three builds, five items | | the second names more, the third locates and derives otherwise; one item per kind of stamp |
| backfills: four legacy blocks, batches of two | | a block with two events in one batch, across two, and none |
| paging: four rows in two places, limits 1 and 2 | | ties on every leading column, save that each row of the market list has a market of its own; one write between pages |
| cache: one cold and one warm key, two workers, clock 2 | | fresh, stale, expired and swept; a waiter whose lock is dropped |
| access: two list and two pooled requests, backup in two steps | | pool exhausted; a commit during the copy; a crash in each step |
| lists, schedules, lock cells | 2, 2, 3 | a wrong key, a wrong plan; two claims; one reorg |
| witness: two covenants, two urls, two pieces of art, `RowsMax` 1, three hours; failed statements and losses of the media database are bounded apart | | a flap, a move, a full table, a back-off shorter than the recheck |
| consistency: two networks, five requests | | denial and exhaustion at every request of a run |
| lab: two clients, three outputs, four transactions | | a chain of two unconfirmed spends, two deploys for one wallet |
| preflight: two inputs, three outputs, caps of 2 | | every commitment absent, zero, enough and too large; each mass below and above its limit, storage mass beyond what can be computed; inputs beyond the cap |
| lane: two holders, one address, two hours, `MaxMints` | | a pass that expires, a restart, a dropped map, a holding sold while a mint waits |

In `MCHistory` and `MCServices` a part that does not run has one initial state, so the
scenarios do not multiply. The theorems of section 7 do not depend on any bound.
No symmetry of TLC's is used: blocks, coins and clients are distinguishable by their
data. Only in `MCServices` is the first list of `Witness` taken up to an exchange of names
(`MCFirstLists`), and in `HolderLane` none or both begin as holders (`MCFirstHoldings`);
one of them may buy or sell.

## 6. Fairness

- `Follower`: weak fairness of the loop as a whole. `follow_forever` is one
  task; when nothing else wakes it a five-second watchdog does, and every node
  call has a time-out, so some step is always taken. Nothing is assumed of the
  node: that it and the failures fall silent is the bound on their number.
- `WriterMutation`: the ten-second timer fires, tasks that can run are polled,
  an operation that started ends. Nothing is assumed of `Receive`, because the
  follower does not look at the channel during parts of its loop.
- `DeliveryStream`: the broadcast goes on and every stream task that can run is
  polled; a client that was cut off or turned away tries again, as
  `EventSource` does.

Everything else (`Spec` without fairness) is checked for safety only.

## 7. Proofs

Checked by TLAPS for every value of the constants that satisfies the named
assumptions.

`Requests_proofs`, what a caller is told. The writer hand-off (from
`CapacityAssumption`, `NoRequestAssumption`; any set of requests, any capacity):
`TypeCorrect`, `FailedCallSafe`, `ExactlyOnce`.
The two properties speak of callers and of the store, which meet only through
the atomic and the oneshot, so neither is inductive. `IInv` adds what links
them: a mutation in the channel is there once, unanswered and not RUNNING
(`QueueInv`); the one in hand is RUNNING exactly when claimed (`HandInv`); the
oneshot agrees with the store and only RUNNING requests are answered by their
operation (`ReplyInv`); a timed-out caller has left CANCELED behind for good
(`CallerInv`). Beside it:

- `WalletIsKept` (`WalletKept`; from `LabAssumption`; any funds, values, clients,
  fees). A transaction balances because what it spends was there and was big enough
  when it was built, and still is when it is submitted: an output id is given out
  once (`OnlyOnce`), a request about to submit found an output that pays for its birth
  (`WellFunded`), a demo run has on its last change the fees of the steps left
  (`DemoFunded`). A token of the endpoint is in the bucket, held by a request or spent
  on a birth (`BucketCounts`), which bounds the births of a day.
- `VerdictsAreSound` (`VerdictsHold`; from `PreflightAssumption`; any shapes, counts,
  budgets and limits). A request that tells everything is parsed into what it says
  (`ParsedWhole`), so both sides see the same commitments, masses and executions
  (`SameCommitment`, `SameSizes`, `SameStorageMass`, `AllExecuted`); no finding
  then means the node takes it (`ReadyIsTaken`), and what it takes has no finding that
  is an error (`TakenIsClear`). Sums over sequences are library folds, given their
  value by `SumsExist` and compared by `Ladder`.
- `NothingIsSkipped` (`PagesCoverStableRows`; from `PagingAssumption`; any rows, keys,
  page sizes, writes). Of the rows the writer left alone, those up to the cursor came
  once and the others not yet (`ServedOnce`). A page keeps this because no two rows of
  a list share a key (`KeysDiffer`), keys are strictly and totally ordered
  (`LexFollows`, `LexDecides`), the rows past the cursor therefore have ranks that grow
  with their keys (`RanksGrow`), and a page that is not full has them all
  (`ShortIsAll`).
- `BackfillsAreWhole` (`DoneMeansWhole`; from `LegacyAssumption`, `BatchAssumption`; any
  database, batch size, response cap and restarts). "Done" is a flag set once, while
  blocks go on being followed and removed. `BfInv` keeps the log and the rows together
  under both: an accepted record that nothing took back is named by the row it is
  about and by no other (`BfLogOK`), and lies in the range of its block (`BfRangesOK`),
  which is all a removal goes by, also when two batches cut through that block. Of the
  walk it says what its cursor means (`BfWalkOK`): a row that still lacks its position
  is above the block the walk has reached, at or below the pruning point, or no longer
  on the node; so when the walk meets the end it began with, only the last two are left.

`SyncEngine_proofs` (from `TreeAssumption`, `DataAssumption`,
`EngineAssumption`; any tree of blocks, any number of failures and switches):

- `ChainInvariance`, and from it `BelowCursor`: every event row lies on the chain
  of the cursor, and the blocks a pass has still to apply extend that chain.
  `IndexBelowCursor` alone is not inductive: that a rollback finds the rows of a
  removed block needs the rows to be covered by batches, that an applied block
  extends the index needs what was walked to agree with what was rolled back
  (`RollbackReady`, `ApplyReady`), and the second transaction of `re_anchor`
  needs what the first left (`Indexed \subseteq Path[anchor]`). `ChainInv` says
  so for each point of a pass and contains the other; TLC checks it in run `failures`,
  and `IndexInv` adds the types. The lemmas `ApplyEffect`, `EmptyEffect`, `RollbackEffect` say
  what the store's transactions do to the blocks, batches and cursor, so that the
  step lemmas never look at rows; `ChainByDaa` is why rolling back above a DAA
  score leaves a prefix of the chain.
- `Implements`: `Spec => ServesOneChain`, the refinement of `ChainIndex`. Every
  step extends, retracts, forfeits or stutters; the retracting steps need
  `IndexInv` to know that what goes is the newest end.

In the same module, about the log the streams read: `LogTellsIndex`, `LogDense` and
`LogOrder`.

- Numbers first: `Rank` counts predecessors, and in a finite set under a strict
  total order these counts are the numbers from zero on, each taken once
  (`PlacesAreDense`); events are ordered by transaction and covenant, removals by
  DAA score and former number (`AcceptedNumbers`, `RemovalNumbers`).
- `LogReplaysToIndex` says which deliveries stand, the code takes back what lies
  in the range of a block's batch. `RangesStand` says that the two agree, also
  for a block that was removed and accepted again and so delivered twice. With it
  `LogInv` is kept by each transaction of the store whatever the order of calls:
  nothing about passes is needed.
- `RemovalsNewestFirst` does need it: a rollback must take along every indexed
  block above one it takes (`TakesWhatIsAbove`). That follows from `IndexInv`: a
  pass removes what leaves the cursor's chain, a recovery all above a DAA score.

`DeliveryStream_proofs` (from `StreamAssumption`; any clients and filters, any
buffer, page size and limits): `NothingMissed`, that is `NoGapUnlessSilent`. The
promise looks at a Last-Event-ID and the frames that arrived; what makes it true
lies in four places between log and client, so `IInv` says where each record of
the filter is: received, if it is at or below the Last-Event-ID or the record
passed over last (`Held`); queued or on a page not yet read, if it is at or below
the high-water mark of the start (`Replayed`); in the receiver or still to be
broadcast, if it is above, and before every later one (`Coming`). The hand-over
is safe because the mark is read after the subscription (`ReadyKeeps`), a
restart because nothing but the Last-Event-ID survives it (`OffKeeps`).
`SlotsNeverLeak`, that is `SlotsAccounted`: the counter of streams is the number
of clients in a phase that took a slot, refusals included, and neither the
admitted streams nor the replays exceed their limits; counter and phase change
together in every step (`SlotsStep`). `IsFiniteSet(Clients)` is assumed for it.
`IdsOnlyGrow` (the action property `IdsGrow`): every frame, of the replay, live or a
checkpoint (`SendsFrame`), has an id above the one before. What is queued comes before the pages
still to be read, these before what is in the receiver, and that before what is still
to be broadcast, all above the Last-Event-ID (`OrderInv`). A batch that is broadcast a
second time breaks this order, and the model then does send an older id again; hence
the premise `again = 0`.

In the same module `AppRowsAreCoins` (`AppRowsFollowCoins`; from `FiniteTransactions`;
any transactions, manifests, approvals, reorganisations and repairs). A repair adds rows
long after their block, by what the store still knows. `ApInv` is why that is enough: a
transaction is on the chain once (`ApChainOK`), a coin belongs to an accepted block and
its covenant's event row names the accepted record of that block (`ApRowsOK`,
`ApLogOK`); a failure is of an accepted block and the record that repaired it cites the
record it repaired (`ApFailuresOK`), so a rollback, which goes by block, takes rows,
failures, records and counts alike.

`Tables_proofs` (as above): `TablesTellOneStory`, that is `TablesAgree`. Two kinds
of facts, kept apart in `TablesInv`. What is counted (`CountsMatch`: summaries
count rows, a row per effect) survives any order of the store's transactions. What
is ordered (`CoinsAgree`, `Numbered`, `GenesisTold`, `Ordered`) needs to know that a
pass only applies blocks above the index and that a rollback takes along what is
above: the coin a rollback un-spends is one whose spender went, the number a lineage
goes back to is that of what stayed. This part is forfeited by a reset.

`Completeness_proofs` (as above), what the index promises beyond its tables:

- `NeverRefused` (`ApplyNeverRefused`): an envelope belongs to a block that has a
  batch and accepts its transaction (`AppRows`), and all batches lie on one chain
  below what is applied (`BatchInv`), on which a transaction is accepted once.
- `ProjectionNeverForgets` (`ProjectionCovered`): a covenant's token tables rest on
  its rows, or a delivery that names it is queued (`QueueInv`). `ChunkEnds` shows
  that a drained chunk ends at a queued delivery, so nothing below it stays behind.
- `IndexMissesNothing` (`CompleteUnlessFailed`): between passes the rows are what is
  due between the start of the index and the cursor, while a pass applies blocks
  what is due up to the last one it saw (`CoverInv`). It leans on the node's answers
  (`NodeInv`: the sink is the heaviest block it can be asked about, so a probe that
  refuses a candidate says that the candidate left the chain) and on `BatchInv`: a
  block that is taken for a replay would be skipped. That is where `unswept = 0` is
  used, and finding `unswept` what happens without it.
- `OneWayMissesNothing` (`IndexComplete`): the same with any number of failures and
  crashes, from two premises on the steps of a behaviour: the node never returns to a
  branch it left (`NeverReturns`) and no stop falls between the two transactions of
  `re_anchor` (`AtOnce`). Each names a way in which the property fails without it
  (finding `lost`, section 4). With failures the cursor may stand on a dead branch above
  rows that are gone, so the rows are complete not for the path of the cursor but for
  the part of it that is still to be rolled back or on the chain (`StandsOn`), which
  every rollback shrinks from above (`OneWayInv`); what is missing lies on blocks the
  node has abandoned, and no sink contains them again.
- `FollowerRunsTheEngine`: `FollowerSpec => Spec`. Each step of the session loop, with
  its error counter, `ProgressWatch`, recovery and projection drain, is a step of
  `SyncEngine` or leaves its variables alone, so the theorems above hold under the
  follower as well: `FollowerKeepsTheIndex`.

`GapRecovery_proofs` (from `TreeAssumption`, `DataAssumption`, `GapAssumption`,
`LineageAssumption`; any chain, bodies, anchors, windows and batch length, and any
number of resets and runs, stopped anywhere): `RecoveryRestoresHistory`, that is
`HistoryRestored`, as long as no block of a branch that died was applied
(`OnTheChain`). `LineageAssumption` is what consensus promises of the canonical chain:
a coin is spent after it was made, and a covenant's id commits to the transaction that
founds it. `Healed` names runs of which nothing was lost, which is known only at the
end; so `GapInv` is a conditional, `GapFair => Sound`, and carries over steps because
what was lost stays lost (`FairOnce`). `Sound` compares no two histories. It says

- what the tables say is so (`RowsSound`, `CoinsSound`): a row's kind is that of its
  transaction (`TxKind`), which does not depend on when it is looked at. This is where
  the genesis rescue is needed (`CaptureFits`), and why a block live sync followed
  lacks only spends of coins made where it did not look (`FollowedTold`), which
  `reconcile_block` supplies (`ReconcileFills`);
- how far nothing is missing (`WholeIn`): up to the walk cursor, behind the block the
  walk is at, and everywhere once it is over. A saved cursor may serve another run
  because what it promises is about the tables (`BeginKeeps`), and a start below the
  window or a batch passed over is sound because nothing was skipped there
  (`WholeAnyway`);
- that a lineage is numbered in order and summarised (`Tidy`), or that a window is
  pending and one of its rows is of a skipped block (`Late`). The second is what makes
  `finalize_gap_recovery` enough, which renumbers only covenants with a row in the
  window: a merged row of a block above it is there because a coin it spends was made
  in the gap (`NewsIsLate`).

`Clients_proofs`, one inductive invariant for each part:

- `OnlyForCause` (`RetiredForCause`; from `HookAssumption`). The count in memory never
  exceeds the failures in a row there were (`CountedReally`), because ids are never
  given out twice (`Keyed`) and a restart only forgets; a retired id is neither
  subscribed nor in a round under way (`GoneForGood`).
- `NothingSkipped` (`PollsSkipNothing`; from `PageAssumption`). A page with fewer
  records than were asked for has them all (`FewAreAll`), a longer one is a prefix
  (`OldestIsPrefix`), and the high-water mark was read before it (`BehindLog`), so the
  cursor may move to the later of the two. The first fact is where the page size
  matters.
- `RowsAreCurrent` (`RowIsCurrent`), `VerdictsAreProven` (`VerdictsProven`),
  `PricesRestOnReplay` (`PriceRestsOnReplay`), `KindsStay` (the action property
  `KnownKindsStay`; all from `LedgerAssumption`). `LedgerInv` says that the stored row is
  a fresh derivation unless the token is queued (`RowIsKept`), under the pin of the
  minter unless the minter is (`PinIsKept`), and that the program was judged by the
  row's own trades (`ProgramIsKept`), though no rollback rewrites it. That a verdict
  is true rests on two facts of the derivation alone: a proven transaction has proven
  inputs, so amounts add up along the history (`Summable` and the lemmas on sums over
  finite sets), and what is proven of a history stays so in a longer one, which
  `KindsStay` needs as well.
- `LastWordIsTrue` (`EndsAreTold`; from `PendingAssumption`; any transactions,
  conflicts, faults, reorgs, timing). A hint about an untracked transaction, heard or
  still on its way, is overruled by a newer resolution on its way, or one that was
  heard is the newest word (`WordsInOrder`): every removal is a revision of its own,
  newer than any word before it. A timer runs only for what had left the pool by the
  poll's clock reading (`TimersRunLate`), so what was dropped had its grace before it
  was indexed, if it ever was (`DroppedLate`).

`Services_proofs`, likewise:

- `ArchiveIsKept` (`ArchiveKept`; from `NamesAssumption`; any requests, readers,
  losses). Whoever can write owns the lock file (`OwnerWrites`), hence at most one
  handle can; a worker that is up found an archive or was allowed to make one
  (`Found`), so no session makes one (`FreshKept`); a copy is never under its final
  name before it is whole.
- `NeverBackwards` (`BodiesMoveForward`; from `CacheAssumption`; any keys, tasks,
  sweeps). A task that waits or builds has the lock the map holds for its key
  (`LocksInMap`), since a sweep spares locks in use, and no lock serves two keys
  (`LocksApart`); so one task builds for a key at a time (`SingleFlight`) and has seen
  at least what was settled before it began (`BuildsAreNewer`). A fresh lock exists
  because there are fewer tasks and keys than numbers.
- `LaneIsBounded` (`LaneWithinBounds`; from `LaneAssumption`). Tokens in the bucket and
  runs taken from it add up (`BucketPays`), an address's row of this hour counts its
  runs since the last restart or dropped map (`RunsAreCounted`), and a pass expires by
  the last holding plus its life and the longest wait of a mint, whose balance was read
  before its pass was written (`MintsWereHeld`, `PassesExpire`).
- `ArtIsEarned` (`ServedArtEarned`; from `WitnessAssumption`). Pending art is that of
  the latest good fetch and is not looked at again before the recheck, unless the
  logo moved (`PendingIsLatest`); statements of a save that never ran leave the row as
  it was, so this also holds after any of them.
- `ReportsAreTrue` (`VerdictsAreTrue`; from `ConsistencyAssumption`). A view holds
  nothing that the book behind it does not say (`OurViews`, `TrueViews`), and a walk is
  called whole only when every token of the listing was read (`Walked`).
- `GatesAreTrue` (`GatesTellTruth`; from `UpkeepAssumption` and `~Rollbacks`). Versions
  only grow with the builds, so a stamp once passed never comes back (`Behind`); what
  is unread is in a column whose pass is still to come (`Progress`); a reading that
  stays generic is one that no classifier up to the recorded one names (`Readings`);
  and while the token gate vouches for this build every candidate's row is this
  build's, unless queued (`TokenRows`). `~Rollbacks` is needed: an older build in
  between leaves rows the newer one's gates vouch for (section 4).
- `ListedFactsAreEarned` (`ListedFactsAreProven`; from `PublishedLists`, `FreshLocks`; any
  lists, owners, lock cells, claims and reorganisations). What a walk may conclude from a
  revealed amount rests on the shape of the lineage: a spend pays at most one cell of the
  same plan, the cells beside it belong to later plans, and claimed amounts never fall
  along it (`LiLineageOK`); a stored schedule is that of a genesis cell of a lock of its
  token (`LiSchedulesOK`, `LiGenesisOK`). The states of a walk, defined as a least closed
  set, then lie among the descendants of its first cell, and an unspent cell of the same
  plan is the last of them. A reorganisation cuts cells in the order of their
  transactions (`LiCellsOK`), so no cell outlives the one that paid for it.

Only model-checked: everything temporal under fairness (out of the prover's reach).
`CandlesRestOnReplay` is, too: a candle is a recursion over the trades.
Two invariants are proved under a premise that their run does without.
`IndexComplete` is false of `Spec` without those of `OneWayMissesNothing`; run
`catchup` checks it under premises of its own, on the order in which the node returns
to a branch and on when the failures happen. `HistoryRestored` is proved for an index
that never applied a block of a branch that died; run `history` has such a branch.

## 8. Abstractions, and what is left out

- A transaction of SQLite is one step; readers see committed states.
- In `CanonicalStore` token tables are abstracted to the set of event rows they
  were derived from (`derived`); amounts are in `TokenLedger`.
- `re_anchor` samples candidates (the latest, and a spread of older ones); with
  at most eight indexed blocks the samples are all of them, which the model takes.
- The node's capped answers are over-approximated: a walk may end at any block
  between cursor and sink. A failed probe may skip any candidate.
- `CommitAgain` broadcasts any range of the log again; the code only ranges that
  belong to one block.
- A client starts with cursor 0, as with `?after=0`; a client that asks for the
  newest position starts like one that has received everything.
- The resolutions of one critical section of the pending lane are removed and sent in
  any order; the code's is that of admission in the poller, of a hash set in the
  follower.
- One counter `streams` stands for slots and subscribers: every subscriber holds
  a slot.
- A token's schedule is proven from one lock: where several of its locks prove the same
  plan `ScheduleOf` takes the first cell, the code the first cell of the last lock. What
  lies beside a lock's continuation has another plan.
- The node's forks in `Backfills` are one block deep: `world.forks` remembers where each
  block it left was attached, so that a walk may start from one.
- Scripts and hashes are data: a cell is proven or not, a program runs on so
  many units, a schedule reproduces a commitment or does not.
- Another program's answers (node, other indexer, list publisher, image host,
  webhook receiver) are chosen from small sets that contain the truth, a lie and
  a failure.
- In `Preflight` the serialized size is counted in units, transient mass is a multiple
  of it, and storage mass is the sum of the outputs' shares less that of the inputs'
  (KIP-9's harmonic form, which the library replaces by an arithmetic mean on the side of
  the inputs when there are more of them). Both sides of `VerdictsHold` use it, as the service and the node
  share the library. Findings that only inform are left out.
- The wall clock is a bounded counter; time-outs that only bound a wait are left
  out where both outcomes are already possible.

Not modelled inside modelled parts: `reorg_log`, health gauges, stream epochs,
reset streams and the size limit of a frame, `publish_handler` and the price
cache, the pool's shutdown flag, trade statistics, and the
one-time initialisation of the projection queue in an archive of an older build
(`projection.rs` `initialize`: a fresh archive starts with an empty queue).

Not modelled at all, and why:

- byte-level decoding (`kascov-decode`, disassembly) and script execution
  (`kascov-sim`): pure functions of bytes; the models take their outcomes;
- the read-only handlers (simulate, debug, templates, families, galaxy, search),
  og cards, bots' HTML: queries and formatting without state, behind the
  cache of `ServeCache` and the cursors of `Paging`;
- benchmarks, metrics, tuning: measurement;
- the web explorer and the client packages: their side of the protocols is the
  client of `DeliveryStream` and the poller of `DurableReads`; rendering has no
  order to get wrong.

## 9. Plan

Done: the index and its recovery, gap recovery, the follower, the hand-off, all
ways of telling clients, the derived tables and their upkeep, the services around
them; the theorems of section 7.

What a next step would take on:

1. `DeliveryStream` composed with `CanonicalStore`'s log, its `Batches` coming
   from real applies and rollbacks; epochs and reset streams.
2. The liveness of the services that promise it: a pending entry is resolved or
   expires, a wait for a cache lock ends, a backfill that keeps being started
   completes.
3. Proofs: `HistoryRestored` for an index that applied blocks of a dead branch: the
   rows of such a block name it, not the one on the chain that accepted the same
   transaction.
