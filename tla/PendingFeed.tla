------------------------------ MODULE PendingFeed ------------------------------
(***************************************************************************)
(* The pending lane of one network (pending.rs): a poller diffs the node's *)
(* mempool and tracks covenant transactions, a hint is broadcast when one  *)
(* is tracked and a resolution when it is accepted, replaced or dropped.   *)
(* The follower resolves accepted transactions at the same time; both      *)
(* change the feed under its lock and broadcast after releasing it.        *)
(***************************************************************************)
EXTENDS Integers, FiniteSets, SequencesExt

CONSTANTS
    PTxs,        \* transactions
    Conflicts,   \* pairs {a, b} that spend the same outpoint
    MaxPending,  \* MAX_PENDING
    Grace,       \* KASCOV_MEMPOOL_DROP_GRACE_MS, in ticks
    MaxAge,      \* KASCOV_MEMPOOL_MAX_AGE_MS, in ticks
    MaxTick,     \* bound: clock
    MaxFaults    \* bound: failed calls and reorganisations

ASSUME PendingAssumption ==
    /\ IsFiniteSet(PTxs) /\ {Grace, MaxAge, MaxTick} \subseteq Nat

VARIABLES
    mempool,   \* the node's mempool
    indexed,   \* transactions with events in the store
    feed,      \* PendingFeed: entries [seen, leaving], status, revision
    poller,    \* where poll_mempool_forever is, with its locals
    follower,  \* what the follower still has to resolve and to send
    news,      \* per transaction, the broadcast with the highest revision so far
    tick,      \* clock
    history    \* when a transaction first left the pool and was indexed, which were dropped; faults

pvars == <<mempool, indexed, feed, poller, follower, news, tick, history>>

Never == -1
Tracked == DOMAIN feed.entries
Msg(t, kind, rev) == [tx |-> t, kind |-> kind, rev |-> rev]
Feed(entries, status, revision) == [entries |-> entries, status |-> status, revision |-> revision]
Entry(seen, leaving) == [seen |-> seen, leaving |-> leaving]
Poller(pc, cur, todo, prev, retry, now, outbox) ==
    [pc |-> pc, cur |-> cur, todo |-> todo, prev |-> prev, retry |-> retry, now |-> now, outbox |-> outbox]
Past(left, at, dropped, faults, blind) ==
    [left |-> left, indexed |-> at, dropped |-> dropped, faults |-> faults, blind |-> blind]
-----------------------------------------------------------------------------
(* PendingFeed methods; each is one critical section. *)

SetStatus(f, s) == IF f.status = s THEN f ELSE Feed(f.entries, s, f.revision + 1)

MarkDisabled(f) ==
    LET g == SetStatus(f, "disabled")
    IN  IF DOMAIN g.entries = {} THEN g ELSE Feed(<< >>, "disabled", g.revision + 1)

\* Mutant form: a removal is not a new revision.
RemovesQuietly(f, n) == f.revision
\* The revision after n removals.
Removals(f, n) == f.revision + n

\* remove, for all of S in one critical section.
Removed(f, S) == Feed([x \in DOMAIN f.entries \ S |-> f.entries[x]], f.status, Removals(f, Cardinality(S)))

\* The resolutions of S are sent in the order of the removals: that of a HashSet
\* in the follower, of first admission in the poller.  Any order is taken.
Resolutions(f, S, kind) ==
    {[i \in DOMAIN turn |-> Msg(turn[i], kind[turn[i]], Removals(f, i))] :
        turn \in {g \in [1..Cardinality(S) -> S] : \A t \in S : \E i \in DOMAIN g : g[i] = t}}

FeedFull(f, t) == t \notin DOMAIN f.entries /\ Cardinality(DOMAIN f.entries) >= MaxPending

\* insert_at: a known entry is only touched when its events changed.
Insert(f, t, changed) ==
    IF t \in DOMAIN f.entries
    THEN IF changed THEN Feed(f.entries, f.status, f.revision + 1) ELSE f
    ELSE Feed([x \in DOMAIN f.entries \cup {t} |-> IF x = t THEN Entry(tick, Never) ELSE f.entries[x]],
              f.status, f.revision + 1)
-----------------------------------------------------------------------------
PendingInit ==
    /\ mempool = {} /\ indexed = {}
    /\ feed = Feed(<< >>, "starting", 0)
    /\ poller = Poller("idle", {}, {}, {}, {}, 0, <<>>)
    /\ follower = [todo |-> {}, outbox |-> <<>>]
    /\ news = [t \in PTxs |-> [kind |-> "none", rev |-> 0]]
    /\ tick = 0
    /\ history = Past([t \in PTxs |-> Never], [t \in PTxs |-> Never], {}, 0, {})

\* The node: a conflicting transaction pushes out the one it replaces.
EnterPool(t) ==
    /\ t \notin mempool \cup indexed /\ history.left[t] = Never
    /\ LET out == {u \in mempool : {t, u} \in Conflicts}
       IN  /\ mempool' = (mempool \ out) \cup {t}
           /\ history' = [history EXCEPT !.left = [u \in PTxs |->
                             IF u \in out /\ history.left[u] = Never THEN tick ELSE history.left[u]]]
    /\ UNCHANGED <<indexed, feed, poller, follower, news, tick>>

\* Mined or evicted.
LeavePool(t) ==
    /\ t \in mempool
    /\ mempool' = mempool \ {t}
    /\ history' = [history EXCEPT !.left = [history.left EXCEPT ![t] = IF @ = Never THEN tick ELSE @]]
    /\ UNCHANGED <<indexed, feed, poller, follower, news, tick>>

\* The follower commits the block that accepts t; it resolves afterwards.
Index(t) ==
    /\ t \notin indexed \cup mempool /\ history.left[t] # Never /\ follower.outbox = <<>>
    /\ \A u \in indexed : {t, u} \notin Conflicts
    /\ indexed' = indexed \cup {t}
    /\ follower' = [follower EXCEPT !.todo = @ \cup {t}]
    /\ history' = [history EXCEPT !.indexed = [@ EXCEPT ![t] = tick]]
    /\ UNCHANGED <<mempool, feed, poller, news, tick>>

\* A reorganisation takes the acceptance back; the transaction returns to the pool.
RollBack(t) ==
    /\ t \in indexed /\ history.faults < MaxFaults /\ follower = [todo |-> {}, outbox |-> <<>>]
    /\ \A u \in mempool : {t, u} \notin Conflicts
    /\ indexed' = indexed \ {t}
    /\ mempool' = mempool \cup {t}
    /\ history' = Past(history.left, [history.indexed EXCEPT ![t] = Never],
                      history.dropped \ {t}, history.faults + 1, history.blind)
    /\ UNCHANGED <<feed, poller, follower, news, tick>>

Clock ==
    /\ tick < MaxTick
    /\ tick' = tick + 1
    /\ UNCHANGED <<mempool, indexed, feed, poller, follower, news, history>>
-----------------------------------------------------------------------------
(* poll_mempool_forever *)

PollAnswers ==
    /\ poller.pc = "idle"
    /\ poller' = Poller("diff", mempool, mempool \ poller.prev, poller.prev, {}, tick, <<>>)
    /\ feed' = SetStatus(feed, "live")
    /\ UNCHANGED <<mempool, indexed, follower, news, tick, history>>

\* The store or the node cannot be reached, or the call fails: the next
\* session sees the whole pool as new.
PollFails ==
    /\ poller.pc = "idle" /\ history.faults < MaxFaults
    /\ feed' = SetStatus(feed, "reconnecting")
    /\ poller' = [poller EXCEPT !.prev = {}]
    /\ history' = [history EXCEPT !.faults = @ + 1]
    /\ UNCHANGED <<mempool, indexed, follower, news, tick>>

\* mempool_unsupported: the poller ends.
PollUnsupported ==
    /\ poller.pc = "idle" /\ history.faults < MaxFaults
    /\ feed' = MarkDisabled(feed)
    /\ poller' = [poller EXCEPT !.pc = "ended"]
    /\ history' = [history EXCEPT !.faults = @ + 1]
    /\ UNCHANGED <<mempool, indexed, follower, news, tick>>

\* classify_pending: it may fail, and finds no covenant where t touches none.
Classified(t, why) ==
    /\ why = "failed" => history.faults < MaxFaults
    /\ why = "none" => t \notin Tracked

\* classify_pending fails, or finds no covenant, or the set is full.
SkipNew(t) ==
    /\ poller.pc = "diff" /\ poller.outbox = <<>> /\ t \in poller.todo
    /\ \E why \in {"failed", "none", "overflow"} :
         /\ Classified(t, why)
         /\ why = "overflow" => FeedFull(feed, t)
         /\ poller' = Poller("diff", poller.cur, poller.todo \ {t}, poller.prev,
                             IF why = "none" THEN poller.retry ELSE poller.retry \cup {t}, poller.now, <<>>)
         /\ history' = IF why = "failed" THEN [history EXCEPT !.faults = @ + 1] ELSE history
    /\ UNCHANGED <<mempool, indexed, feed, follower, news, tick>>

\* track_pending_transaction_at under the lock; the hint is sent later.
TrackNew(t) ==
    /\ poller.pc = "diff" /\ poller.outbox = <<>> /\ t \in poller.todo
    /\ ~FeedFull(feed, t)
    /\ \E changed \in BOOLEAN :
         LET f == Insert(feed, t, changed)
         IN  /\ changed => t \in Tracked
             /\ feed' = f
             /\ poller' = Poller("diff", poller.cur, poller.todo \ {t}, poller.prev, poller.retry, poller.now,
                                 <<Msg(t, "pending", f.revision)>>)
    /\ UNCHANGED <<mempool, indexed, follower, news, tick, history>>

Confirmed(t) == t \in indexed /\ t \notin history.blind

ReplacementFor(t) == \E u \in poller.cur : {t, u} \in Conflicts

\* Mutant form: the grace timer is not consulted.
DropsAtOnce(t) ==
    LET e == feed.entries[t]
    IN  IF poller.now - e.seen >= MaxAge THEN "aged"
        ELSE IF t \in poller.cur THEN "stays"
        ELSE IF Confirmed(t) THEN "accepted"
        ELSE IF ReplacementFor(t) THEN "replaced" ELSE "dropped"

\* What the resolution pass decides about one tracked transaction.
Decide(t) ==
    LET e == feed.entries[t]
        since == IF e.leaving = Never THEN poller.now ELSE e.leaving
    IN  IF poller.now - e.seen >= MaxAge THEN "aged"
        ELSE IF t \in poller.cur THEN "stays"
        ELSE IF Confirmed(t) THEN "accepted"
        ELSE IF ReplacementFor(t) THEN "replaced"
        ELSE IF poller.now - since >= Grace THEN "dropped" ELSE "leaving"

Kept(t) == Decide(t) \in {"stays", "leaving"}

\* events_by_txid fails for some transaction during the coming pass.
ReadsFail ==
    /\ poller.pc = "diff" /\ poller.todo = {} /\ poller.outbox = <<>>
    /\ history.blind = {} /\ history.faults < MaxFaults
    /\ history' = Past(history.left, history.indexed, history.dropped, history.faults + 1, Tracked)
    /\ Tracked # {}
    /\ UNCHANGED <<mempool, indexed, feed, poller, follower, news, tick>>

\* The whole pass holds the lock.
ResolvePass ==
    /\ poller.pc = "diff" /\ poller.todo = {} /\ poller.outbox = <<>>
    /\ LET gone == {t \in Tracked : ~Kept(t)}
           left == Removed(feed, gone)
           told == [t \in gone |-> IF Decide(t) = "aged" THEN "dropped" ELSE Decide(t)]
           timer(t) == IF Decide(t) = "stays" THEN Never
                       ELSE IF feed.entries[t].leaving = Never THEN poller.now
                       ELSE feed.entries[t].leaving
       IN  /\ feed' = Feed([t \in DOMAIN left.entries |-> Entry(left.entries[t].seen, timer(t))],
                           left.status, left.revision)
           /\ \E sent \in Resolutions(feed, gone, told) :
                poller' = Poller("send", poller.cur, {}, poller.prev, poller.retry, poller.now, sent)
    /\ history' = Past(history.left, history.indexed,
                       history.dropped \cup {t \in Tracked \ history.blind : Decide(t) = "dropped"},
                       history.faults, {})
    /\ UNCHANGED <<mempool, indexed, follower, news, tick>>

\* Only ids that were classified and admitted are remembered.
EndPoll ==
    /\ poller.pc = "send" /\ poller.outbox = <<>>
    /\ poller' = Poller("idle", {}, {}, poller.cur \ poller.retry, {}, 0, <<>>)
    /\ UNCHANGED <<mempool, indexed, feed, follower, news, tick, history>>
-----------------------------------------------------------------------------
(* resolve_accepted_pending: under the lock, then the broadcasts. *)

ResolveAccepted ==
    /\ follower.todo # {} /\ follower.outbox = <<>>
    /\ LET mine == follower.todo \cap Tracked
       IN  /\ feed' = Removed(feed, mine)
           /\ \E sent \in Resolutions(feed, mine, [t \in mine |-> "accepted"]) :
                follower' = [todo |-> {}, outbox |-> sent]
    /\ UNCHANGED <<mempool, indexed, poller, news, tick, history>>

\* A subscriber keeps, per transaction, what carries the highest revision.
Hears(m) == IF m.rev > news[m.tx].rev
            THEN [news EXCEPT ![m.tx] = [kind |-> m.kind, rev |-> m.rev]] ELSE news

PollerSends ==
    /\ poller.outbox # <<>>
    /\ news' = Hears(Head(poller.outbox))
    /\ poller' = [poller EXCEPT !.outbox = Tail(@)]
    /\ UNCHANGED <<mempool, indexed, feed, follower, tick, history>>

FollowerSends ==
    /\ follower.outbox # <<>>
    /\ news' = Hears(Head(follower.outbox))
    /\ follower' = [follower EXCEPT !.outbox = Tail(@)]
    /\ UNCHANGED <<mempool, indexed, feed, poller, tick, history>>

PollerStep ==
    \/ PollAnswers \/ ResolvePass \/ EndPoll \/ PollerSends
    \/ \E t \in PTxs : TrackNew(t) \/ SkipNew(t)

ResolverStep == ResolveAccepted \/ FollowerSends

PendingNext ==
    \/ \E t \in PTxs : EnterPool(t) \/ LeavePool(t) \/ Index(t) \/ RollBack(t)
    \/ Clock \/ PollFails \/ PollUnsupported \/ ReadsFail
    \/ PollerStep \/ ResolverStep

PendingSpec == PendingInit /\ [][PendingNext]_pvars
-----------------------------------------------------------------------------
Unsent(t) == \E m \in ToSet(poller.outbox) \cup ToSet(follower.outbox) : m.tx = t

\* However the poller's and the follower's broadcasts cross, a subscriber that
\* goes by the revision never keeps a row the snapshot has given up: the
\* newest word on an untracked transaction is its resolution, unless the feed
\* was switched off (pending_sse_jsons, resolve_accepted_pending, remove).
NewestSettles ==
    \A t \in PTxs :
      t \notin Tracked /\ ~Unsent(t) /\ feed.status # "disabled" => news[t].kind # "pending"

\* A transaction that the follower indexed within the grace of first
\* leaving the pool is never reported dropped, however the poll's clock reading, its
\* pass and the follower interleave (leaving_since, drop grace); ageing out
\* and an unreadable store are the exceptions the code makes.
GraceHolds ==
    \A t \in history.dropped :
      history.indexed[t] # Never => history.indexed[t] - history.left[t] >= Grace

\* What a subscriber is told of a transaction's end is true and the last word
\* (pending_sse_jsons, poll_mempool_forever, resolve_accepted_pending).
EndsAreTold == NewestSettles /\ GraceHolds
================================================================================
