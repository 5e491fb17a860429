---------------------------- MODULE DeliveryStream ----------------------------
(***************************************************************************)
(* The Server-Sent-Events stream of delivery records (stream.rs).  The     *)
(* follower commits records to the delivery log and only then broadcasts   *)
(* them; each client replays the log from its Last-Event-ID and is handed  *)
(* over to the broadcast while commits go on.  A client that falls behind  *)
(* the broadcast buffer is cut off and comes back to the log.              *)
(*                                                                         *)
(* A frame is written to the client in the step that makes it: frames on   *)
(* the wire are lost with the connection and the client's Last-Event-ID    *)
(* moves only when a frame arrives.                                        *)
(***************************************************************************)
EXTENDS Integers, Sequences, FiniteSets

CONSTANTS
    Clients,        \* SSE clients
    Topics,         \* what a filter can tell apart (covenant, application...)
    Everything,     \* the default filter
    Filter,         \* client -> topic, or Everything
    Batches,        \* what one transaction may append, sequences of topics
    Buffer,         \* DELIVERY_BUFFER
    PageSize,       \* replay_page_size
    MaxStreams,     \* max_streams
    MaxReplays,     \* max_replays
    MaxLog,         \* bound: records committed
    MaxSilent,      \* bound: transactions that are never broadcast
    MaxAgain,       \* bound: batches broadcast a second time
    MaxBreaks       \* bound: connections cut from outside, and server restarts

ASSUME StreamAssumption ==
    /\ IsFiniteSet(Clients)
    /\ Everything \notin Topics
    /\ Filter \in [Clients -> Topics \cup {Everything}]
    /\ Batches \subseteq Seq(Topics)
    /\ {Buffer, PageSize, MaxStreams, MaxReplays} \subseteq Nat \ {0}
    /\ {MaxLog, MaxSilent, MaxAgain, MaxBreaks} \subseteq Nat

VARIABLES
    log,        \* delivery_log, dense: the record with stream_seq n is log[n]
    toSend,     \* ids of committed records the follower is broadcasting, in order
    streams,    \* DeliveryHub::streams
    conn,       \* client -> how far its request got
    inbox,      \* client -> ids its broadcast receiver has not read, oldest first
    through,    \* client -> discard_through, the high-water mark it started with
    replayAt,   \* client -> ReplayState::cursor
    replaying,  \* client -> 1 while it holds a replay permit
    queued,     \* client -> ids of the replay frames to send
    mark,       \* client -> live_checkpoint, 0 when none
    skipped,    \* client -> live_checkpoint_count
    lastId,     \* client -> Last-Event-ID, kept by the client
    got,        \* client -> ids of the delivery frames it received
    silent, again, breaks       \* counters for the bounds

serverVars == <<inbox, through, replayAt, replaying, queued, mark, skipped>>
clientVars == <<lastId, got>>
vars == <<log, toSend, streams, conn, serverVars, clientVars, silent, again, breaks>>

Init ==
    /\ log = <<>>
    /\ toSend = <<>>
    /\ streams = 0
    /\ conn = [c \in Clients |-> "off"]
    /\ inbox = [c \in Clients |-> <<>>]
    /\ through = [c \in Clients |-> 0]
    /\ replayAt = [c \in Clients |-> 0]
    /\ replaying = [c \in Clients |-> 0]
    /\ queued = [c \in Clients |-> {}]
    /\ mark = [c \in Clients |-> 0]
    /\ skipped = [c \in Clients |-> 0]
    /\ lastId = [c \in Clients |-> 0]
    /\ got = [c \in Clients |-> {}]
    /\ silent = 0 /\ again = 0 /\ breaks = 0

Least(n, S) == n \in S /\ \A m \in S : n <= m
Filtered(c) == Filter[c] # Everything

\* delivery_matches
Matches(c, n) == Filter[c] \in {Everything, log[n]}

-----------------------------------------------------------------------------
(* The follower: commit first, then broadcast record by record. *)

Ids(from, to) == [i \in 1..(to - from + 1) |-> from + i - 1]

Commit(batch) ==
    /\ toSend = <<>>
    /\ Len(log) + Len(batch) <= MaxLog
    /\ log' = log \o batch
    /\ toSend' = Ids(Len(log) + 1, Len(log) + Len(batch))
    /\ UNCHANGED <<streams, conn, serverVars, clientVars, silent, again, breaks>>

\* The rollback inside re_anchor: the removal records it commits are dropped.
CommitSilently(batch) ==
    /\ toSend = <<>>
    /\ silent < MaxSilent
    /\ Len(log) + Len(batch) <= MaxLog
    /\ log' = log \o batch
    /\ silent' = silent + 1
    /\ UNCHANGED <<toSend, streams, conn, serverVars, clientVars, again, breaks>>

\* apply_accepted_block meets a block it holds already (the cursor was reset
\* below it) and returns the records of the first time, to be published again.
CommitAgain(from, to) ==
    /\ toSend = <<>>
    /\ again < MaxAgain
    /\ toSend' = Ids(from, to)
    /\ again' = again + 1
    /\ UNCHANGED <<log, streams, conn, serverVars, clientVars, silent, breaks>>

Listening(c) == conn[c] \in {"subscribed", "open"}

Publish ==
    /\ toSend # <<>>
    /\ toSend' = Tail(toSend)
    /\ inbox' = [c \in Clients |->
                    IF Listening(c) THEN Append(inbox[c], Head(toSend)) ELSE inbox[c]]
    /\ UNCHANGED <<log, streams, conn, through, replayAt, replaying, queued, mark, skipped,
                   clientVars, silent, again, breaks>>

-----------------------------------------------------------------------------
(* Opening a stream: stream_handler *)

Full == streams >= MaxStreams

\* try_subscribe: fetch_add, and the comparison of what it returned.
Knock(c) ==
    /\ conn[c] = "off"
    /\ streams' = streams + 1
    /\ conn' = [conn EXCEPT ![c] = IF Full THEN "refused" ELSE "admitted"]
    /\ UNCHANGED <<log, toSend, serverVars, clientVars, silent, again, breaks>>

\* Mutant: the refusal does not take back what it added.
KeepsCount == streams

CountBack == streams - 1

\* ... its fetch_sub, and the 503.
TurnAway(c) ==
    /\ conn[c] = "refused"
    /\ streams' = CountBack
    /\ conn' = [conn EXCEPT ![c] = "off"]
    /\ UNCHANGED <<log, toSend, serverVars, clientVars, silent, again, breaks>>

Subscribe(c) ==
    /\ conn[c] = "admitted"
    /\ conn' = [conn EXCEPT ![c] = "subscribed"]
    /\ inbox' = [inbox EXCEPT ![c] = <<>>]
    /\ UNCHANGED <<log, toSend, streams, through, replayAt, replaying, queued, mark, skipped,
                   clientVars, silent, again, breaks>>

\* The response and everything the server held for it are dropped.
Closes(c) ==
    /\ conn' = [conn EXCEPT ![c] = "off"]
    /\ streams' = streams - 1
    /\ inbox' = [inbox EXCEPT ![c] = <<>>]
    /\ through' = [through EXCEPT ![c] = 0]
    /\ replayAt' = [replayAt EXCEPT ![c] = 0]
    /\ replaying' = [replaying EXCEPT ![c] = 0]
    /\ queued' = [queued EXCEPT ![c] = {}]
    /\ mark' = [mark EXCEPT ![c] = 0]
    /\ skipped' = [skipped EXCEPT ![c] = 0]
    /\ UNCHANGED clientVars

\* Mutant: try_acquire always succeeds.
AlwaysFree == TRUE

PermitFree == Cardinality({c \in Clients : replaying[c] = 1}) < MaxReplays

\* delivery_stream_info, and the cursor select_stream_start takes: the client's
\* Last-Event-ID (or its ?after, before the first frame with an id).
HighWater == Len(log)
After(c) == lastId[c]
NeedsReplay(c) == After(c) < HighWater

\* The high-water mark is read AFTER the subscription; a client that needs a
\* replay needs a permit.
Ready(c) ==
    /\ conn[c] = "subscribed"
    /\ NeedsReplay(c) => PermitFree
    /\ conn' = [conn EXCEPT ![c] = "open"]
    /\ through' = [through EXCEPT ![c] = HighWater]
    /\ replayAt' = [replayAt EXCEPT ![c] = After(c)]
    /\ replaying' = [replaying EXCEPT ![c] = IF NeedsReplay(c) THEN 1 ELSE 0]
    /\ UNCHANGED <<log, toSend, streams, inbox, queued, mark, skipped, clientVars,
                   silent, again, breaks>>

\* 429, historical replay capacity exhausted.
NoPermit(c) ==
    /\ conn[c] = "subscribed"
    /\ NeedsReplay(c) /\ ~PermitFree
    /\ Closes(c)
    /\ UNCHANGED <<log, toSend, silent, again, breaks>>

-----------------------------------------------------------------------------
(* Frames: next_stream_frame *)

\* A frame with id n reaches the client: a delivery, or a checkpoint when the
\* record is not one of its own.
Receives(c, n) ==
    /\ lastId' = [lastId EXCEPT ![c] = n]
    /\ got' = [got EXCEPT ![c] = IF Matches(c, n) THEN @ \cup {n} ELSE @]

SendQueued(c, n) ==
    /\ conn[c] = "open"
    /\ Least(n, queued[c])
    /\ Receives(c, n)
    /\ queued' = [queued EXCEPT ![c] = @ \ {n}]
    /\ UNCHANGED <<log, toSend, streams, conn, inbox, through, replayAt, replaying, mark, skipped,
                   silent, again, breaks>>

\* replay_page: a page of the log, cut at the high-water mark.
PageEnd(c) ==
    IF replayAt[c] + PageSize <= through[c] THEN replayAt[c] + PageSize ELSE through[c]

ReplayPage(c) ==
    /\ conn[c] = "open" /\ queued[c] = {} /\ replaying[c] = 1
    /\ replayAt[c] < through[c]
    /\ queued' = [queued EXCEPT ![c] =
                    {n \in (replayAt[c] + 1)..PageEnd(c) :
                        Matches(c, n) \/ (Filtered(c) /\ n = PageEnd(c))}]
    /\ replayAt' = [replayAt EXCEPT ![c] = PageEnd(c)]
    /\ UNCHANGED <<log, toSend, streams, conn, inbox, through, replaying, mark, skipped,
                   clientVars, silent, again, breaks>>

\* Mutant: the replay is over and nobody clears it.
NeverEnds(c) == FALSE

AllSent(c) == replayAt[c] >= through[c]

\* The permit goes back as soon as the last page is sent.
EndReplay(c) ==
    /\ conn[c] = "open" /\ queued[c] = {} /\ replaying[c] = 1
    /\ AllSent(c)
    /\ replaying' = [replaying EXCEPT ![c] = 0]
    /\ UNCHANGED <<log, toSend, streams, conn, inbox, through, replayAt, queued, mark, skipped,
                   clientVars, silent, again, breaks>>

Live(c) == conn[c] = "open" /\ queued[c] = {} /\ replaying[c] = 0
Lagged(c) == Len(inbox[c]) > Buffer

\* Mutant: off by one, the last record of the replay comes again.
KeepsLast(c, n) == n < through[c]

\* A record at or below the high-water mark of the start was in the replay.
Discards(c, n) == n <= through[c]

\* live_checkpoint_count has reached replay_page_size.
Pageful(c) == Filtered(c) /\ skipped[c] + 1 >= PageSize

\* The broadcast receiver yields its oldest record.
Recv(c) ==
    /\ Live(c) /\ ~Lagged(c) /\ inbox[c] # <<>>
    /\ inbox' = [inbox EXCEPT ![c] = Tail(@)]
    /\ LET n == Head(inbox[c]) IN
       IF Discards(c, n)
         THEN UNCHANGED <<mark, skipped, clientVars>>
         ELSE IF Matches(c, n) \/ Pageful(c)
                THEN /\ Receives(c, n)
                     /\ mark' = [mark EXCEPT ![c] = 0]
                     /\ skipped' = [skipped EXCEPT ![c] = 0]
                ELSE /\ mark' = [mark EXCEPT ![c] = n]
                     /\ skipped' = [skipped EXCEPT ![c] = @ + 1]
                     /\ UNCHANGED clientVars
    /\ UNCHANGED <<log, toSend, streams, conn, through, replayAt, replaying, queued,
                   silent, again, breaks>>

\* A second after the first record passed over, its checkpoint is sent.
CheckpointTimer(c) ==
    /\ Live(c) /\ mark[c] # 0
    /\ Receives(c, mark[c])
    /\ mark' = [mark EXCEPT ![c] = 0]
    /\ skipped' = [skipped EXCEPT ![c] = 0]
    /\ UNCHANGED <<log, toSend, streams, conn, inbox, through, replayAt, replaying, queued,
                   silent, again, breaks>>

\* Mutant: what the receiver missed is skipped, as it is for pending frames.
SkipsMissed(c) ==
    /\ Live(c) /\ Lagged(c)
    /\ inbox' = [inbox EXCEPT ![c] = SubSeq(@, Len(@) - Buffer + 1, Len(@))]
    /\ UNCHANGED <<log, toSend, streams, conn, through, replayAt, replaying, queued, mark, skipped,
                   clientVars, silent, again, breaks>>

\* RecvError::Lagged ends the response; the client comes back to the log.
CutOff(c) ==
    /\ Live(c) /\ Lagged(c)
    /\ Closes(c)
    /\ UNCHANGED <<log, toSend, silent, again, breaks>>

\* The client leaves, the fifteen minutes are over, or a read of the log fails.
Breaks(c) ==
    /\ conn[c] \in {"admitted", "subscribed", "open"}
    /\ breaks < MaxBreaks
    /\ breaks' = breaks + 1
    /\ Closes(c)
    /\ UNCHANGED <<log, toSend, silent, again>>

\* The server dies, perhaps between a commit and its broadcast.
Restart ==
    /\ breaks < MaxBreaks
    /\ breaks' = breaks + 1
    /\ toSend' = <<>>
    /\ streams' = 0
    /\ conn' = [c \in Clients |-> "off"]
    /\ inbox' = [c \in Clients |-> <<>>]
    /\ through' = [c \in Clients |-> 0]
    /\ replayAt' = [c \in Clients |-> 0]
    /\ replaying' = [c \in Clients |-> 0]
    /\ queued' = [c \in Clients |-> {}]
    /\ mark' = [c \in Clients |-> 0]
    /\ skipped' = [c \in Clients |-> 0]
    /\ UNCHANGED <<log, clientVars, silent, again>>

FollowerStep ==
    \/ \E batch \in Batches : Commit(batch) \/ CommitSilently(batch)
    \/ \E from, to \in 1..Len(log) : from <= to /\ CommitAgain(from, to)
    \/ Publish

\* What the server's tasks and a retrying client do by themselves.
StreamStep(c) ==
    \/ Knock(c)
    \/ TurnAway(c)
    \/ Subscribe(c)
    \/ Ready(c)
    \/ NoPermit(c)
    \/ \E n \in queued[c] : SendQueued(c, n)
    \/ ReplayPage(c)
    \/ EndReplay(c)
    \/ Recv(c)
    \/ CheckpointTimer(c)
    \/ CutOff(c)

Next ==
    \/ FollowerStep
    \/ \E c \in Clients : StreamStep(c) \/ Breaks(c)
    \/ Restart

Spec == Init /\ [][Next]_vars

\* Tasks that can run are polled, and a client that was cut off or turned away
\* tries again.
FairSpec ==
    /\ Spec
    /\ WF_vars(Publish)
    /\ \A c \in Clients : WF_vars(StreamStep(c))

-----------------------------------------------------------------------------
(* Properties *)

\* Every id a stream holds names a record of the log, and the count of skipped
\* records is sent as a checkpoint before it reaches a page.
TypeOK ==
    /\ log \in Seq(Topics)
    /\ toSend \in Seq(1..Len(log))
    /\ streams \in Nat
    /\ conn \in [Clients -> {"off", "refused", "admitted", "subscribed", "open"}]
    /\ inbox \in [Clients -> Seq(1..Len(log))]
    /\ through \in [Clients -> 0..Len(log)]
    /\ replayAt \in [Clients -> 0..Len(log)]
    /\ replaying \in [Clients -> {0, 1}]
    /\ queued \in [Clients -> SUBSET (1..Len(log))]
    /\ mark \in [Clients -> 0..Len(log)]
    /\ skipped \in [Clients -> 0..(PageSize - 1)]
    /\ lastId \in [Clients -> 0..Len(log)]
    /\ got \in [Clients -> SUBSET (1..Len(log))]
    /\ silent \in 0..MaxSilent /\ again \in 0..MaxAgain /\ breaks \in 0..MaxBreaks

\* The promise of a Last-Event-ID: a client that holds id n holds every record
\* up to n that its filter selects, across replays, hand-overs, cuts and
\* restarts.
NoGap ==
    \A c \in Clients : {n \in 1..lastId[c] : Matches(c, n)} \subseteq got[c]

\* The promise is kept as long as every committed record is also broadcast, at
\* least once, or the process dies before it can be.
NoGapUnlessSilent == silent = 0 => NoGap

\* The steps that send a frame with an id to c: a record of a page, a broadcast
\* record or the checkpoint of a pageful of others, and a checkpoint in time.
SendsFrame(c) ==
    \/ \E n \in queued[c] : SendQueued(c, n)
    \/ /\ Recv(c)
       /\ ~Discards(c, Head(inbox[c]))
       /\ Matches(c, Head(inbox[c])) \/ Pageful(c)
    \/ CheckpointTimer(c)

\* The ids a client sees only grow: each frame has an id above the one before,
\* so no record is sent to it twice and none out of order, although replay and
\* broadcast overlap, as long as no batch is broadcast a second time.
IdsGrow ==
    [][again = 0 => \A c \in Clients :
          /\ lastId'[c] >= lastId[c]
          /\ SendsFrame(c) => lastId'[c] > lastId[c]]_vars

\* Every admitted stream holds one slot of max_streams, and no refusal, cut or
\* restart leaks one.
SlotsAccounted ==
    /\ streams = Cardinality({c \in Clients : conn[c] # "off"})
    /\ Cardinality({c \in Clients : conn[c] \notin {"off", "refused"}}) <= MaxStreams
    /\ Cardinality({c \in Clients : replaying[c] = 1}) <= MaxReplays

\* When the chain falls silent every client ends up with all its records.
EveryoneCatchesUp ==
    <>[](\A c \in Clients : got[c] = {n \in 1..Len(log) : Matches(c, n)})

=============================================================================
