---------------------------- MODULE WriterMutation ----------------------------
(***************************************************************************)
(* HTTP handlers never touch the canonical database themselves: they hand  *)
(* a closure to the follower task, the only writer, over a bounded channel *)
(* (WriterHandle::mutate, follower.rs).  Caller and follower run on        *)
(* different threads and meet in one atomic byte per request: the caller   *)
(* may give up after ten seconds, the follower may be about to run the     *)
(* closure, and a compare-and-exchange decides which of the two happened.  *)
(***************************************************************************)
EXTENDS Integers, Sequences, FiniteSets

CONSTANTS Requests,     \* calls of WriterHandle::mutate
          Capacity,     \* bound of the mpsc channel (writer_channel)
          NoRequest     \* nothing in the follower's hands

ASSUME CapacityAssumption == Capacity \in Nat \ {0}
ASSUME NoRequestAssumption == NoRequest \notin Requests

VARIABLES
    queue,      \* the mpsc channel, oldest mutation first
    state,      \* request -> the shared AtomicU8
    hand,       \* the mutation the follower received and has not finished
    phase,      \* how far WriterMutation::apply got with it
    reply,      \* request -> the oneshot channel
    caller,     \* request -> where the calling task is
    applied,    \* request -> how often its operation changed the store
    writer      \* is the follower task still alive

vars == <<queue, state, hand, phase, reply, caller, applied, writer>>

AtomicStates == {"queued", "running", "canceled"}
Replies == {"empty", "ok", "err", "closed"}
\* Where a caller's future can be: before the call, inside tokio's timeout,
\* timed out but not yet at its own compare_exchange, awaiting the result of
\* an operation that had already started.
Pending == {"waiting", "expired", "late"}
\* How mutate returns, and "gone" for a future dropped by its HTTP server.
Outcomes == {"ok", "err", "unavailable", "timed_out", "stopped", "gone"}

\* The atomic byte, the oneshots, the callers and the channel keep their types.
TypeOK ==
    /\ queue \in Seq(Requests)
    /\ state \in [Requests -> AtomicStates]
    /\ hand \in Requests \cup {NoRequest}
    /\ phase \in {"idle", "received", "claimed"}
    /\ reply \in [Requests -> Replies]
    /\ caller \in [Requests -> {"idle"} \cup Pending \cup Outcomes]
    /\ applied \in [Requests -> Nat]
    /\ writer \in {"alive", "stopped"}

Init ==
    /\ queue = <<>>
    /\ state = [r \in Requests |-> "queued"]
    /\ hand = NoRequest
    /\ phase = "idle"
    /\ reply = [r \in Requests |-> "empty"]
    /\ caller = [r \in Requests |-> "idle"]
    /\ applied = [r \in Requests |-> 0]
    /\ writer = "alive"

-----------------------------------------------------------------------------
(* The calling task *)

\* try_send: never waits, refuses a full channel and a follower that is gone.
TrySend(r) ==
    /\ caller[r] = "idle"
    /\ \/ /\ writer = "alive" /\ Len(queue) < Capacity
          /\ queue' = Append(queue, r)
          /\ caller' = [caller EXCEPT ![r] = "waiting"]
       \/ /\ writer = "stopped" \/ Len(queue) >= Capacity
          /\ caller' = [caller EXCEPT ![r] = "unavailable"]
          /\ UNCHANGED queue
    /\ UNCHANGED <<state, hand, phase, reply, applied, writer>>

\* Mutant: a caller that awaits its result without a timeout.
NeverElapses(r) == FALSE

\* timeout() polls the result first, so it only expires over an empty oneshot;
\* the caller's thread then needs another step to reach its compare_exchange.
TimeoutElapses(r) ==
    /\ caller[r] = "waiting"
    /\ reply[r] = "empty"
    /\ caller' = [caller EXCEPT ![r] = "expired"]
    /\ UNCHANGED <<queue, state, hand, phase, reply, applied, writer>>

\* Mutant: a plain store of CANCELED where the exchange is needed.
CancelsAnyway(r) == TRUE

\* Does the caller's compare_exchange(QUEUED, CANCELED) find QUEUED?
WinsCancel(r) == state[r] = "queued"

\* compare_exchange(QUEUED, CANCELED): on success the call fails for good, on
\* failure the operation has started and its own result is awaited.
Cancel(r) ==
    /\ caller[r] = "expired"
    /\ IF WinsCancel(r)
         THEN /\ state' = [state EXCEPT ![r] = "canceled"]
              /\ caller' = [caller EXCEPT ![r] = "timed_out"]
         ELSE /\ caller' = [caller EXCEPT ![r] = "late"]
              /\ UNCHANGED state
    /\ UNCHANGED <<queue, hand, phase, reply, applied, writer>>

\* The RecvError of a dropped sender becomes "canonical writer stopped".
ReturnOf(result) ==
    IF result = "closed" THEN "stopped" ELSE result

TakeResult(r) ==
    /\ caller[r] \in {"waiting", "late"}
    /\ reply[r] # "empty"
    /\ caller' = [caller EXCEPT ![r] = ReturnOf(reply[r])]
    /\ UNCHANGED <<queue, state, hand, phase, reply, applied, writer>>

\* The HTTP server drops the handler's future at an await point; the queued
\* mutation and its atomic stay as they are.
CallerDropped(r) ==
    /\ caller[r] \in {"waiting", "late"}
    /\ caller' = [caller EXCEPT ![r] = "gone"]
    /\ UNCHANGED <<queue, state, hand, phase, reply, applied, writer>>

-----------------------------------------------------------------------------
(* The follower task *)

\* await_with_mutations: recv() wins the select.
Receive ==
    /\ writer = "alive" /\ phase = "idle" /\ queue # <<>>
    /\ hand' = Head(queue)
    /\ queue' = Tail(queue)
    /\ phase' = "received"
    /\ UNCHANGED <<state, reply, caller, applied, writer>>

\* WriterMutation::apply, its compare_exchange(QUEUED, RUNNING).  A lost
\* exchange drops the mutation, and with it the sending half of its oneshot.
Claim ==
    /\ phase = "received"
    /\ IF state[hand] = "queued"
         THEN /\ state' = [state EXCEPT ![hand] = "running"]
              /\ phase' = "claimed"
              /\ UNCHANGED <<hand, reply>>
         ELSE /\ reply' = [reply EXCEPT ![hand] = "closed"]
              /\ hand' = NoRequest
              /\ phase' = "idle"
              /\ UNCHANGED state
    /\ UNCHANGED <<queue, caller, applied, writer>>

\* Mutant: the closure answers Ok whatever the operation returned.
AlwaysOk(ok) == "ok"

\* result_tx.send(operation(store)): the caller gets the operation's Result.
ResultOf(ok) == IF ok THEN "ok" ELSE "err"

\* The closure: operation(store) and, in the same call, result_tx.send.  An
\* operation that fails rolls its transaction back.
Operate(ok) ==
    /\ phase = "claimed"
    /\ applied' = IF ok THEN [applied EXCEPT ![hand] = @ + 1] ELSE applied
    /\ reply' = [reply EXCEPT ![hand] = ResultOf(ok)]
    /\ hand' = NoRequest
    /\ phase' = "idle"
    /\ UNCHANGED <<queue, state, caller, writer>>

\* The follower task ends (a panic inside the operation or elsewhere): the
\* receiver, every mutation still in it and the one in hand are dropped.
WriterStops ==
    /\ writer = "alive"
    /\ writer' = "stopped"
    /\ LET dropped == {queue[i] : i \in DOMAIN queue} \cup ({hand} \ {NoRequest})
       IN  reply' = [r \in Requests |->
                        IF r \in dropped THEN "closed" ELSE reply[r]]
    /\ queue' = <<>>
    /\ hand' = NoRequest
    /\ phase' = "idle"
    /\ UNCHANGED <<state, caller, applied>>

CallerStep(r) ==
    \/ TrySend(r)
    \/ TimeoutElapses(r)
    \/ Cancel(r)
    \/ TakeResult(r)
    \/ CallerDropped(r)

Next ==
    \/ \E r \in Requests : CallerStep(r)
    \/ Receive
    \/ Claim
    \/ \E ok \in BOOLEAN : Operate(ok)
    \/ WriterStops

Spec == Init /\ [][Next]_vars

(***************************************************************************)
(* Fairness: the runtime's timer fires, tasks that can run are polled and  *)
(* an operation that started ends.  Nothing is assumed of Receive: during  *)
(* a sync pass the follower does not look at the channel at all.           *)
(***************************************************************************)
Fairness ==
    /\ \A r \in Requests :
          /\ WF_vars(TimeoutElapses(r))
          /\ WF_vars(Cancel(r))
          /\ WF_vars(TakeResult(r))
    /\ WF_vars(Claim)
    /\ WF_vars(\E ok \in BOOLEAN : Operate(ok))

FairSpec == Spec /\ Fairness

-----------------------------------------------------------------------------
(* Properties *)

\* A caller told "canonical writer mutation timed out" (or that the channel
\* was full, or that its operation failed) may retry: its operation has not
\* changed the store, although it may still sit in the channel.
FailedCallChangedNothing ==
    \A r \in Requests :
        caller[r] \in {"timed_out", "unavailable", "err", "stopped"}
            => applied[r] = 0

\* A caller told Ok has its operation in the store exactly once, and no
\* operation is ever run twice, whoever is still listening.
AppliedExactlyOnce ==
    \A r \in Requests :
        /\ applied[r] <= 1
        /\ caller[r] = "ok" => applied[r] = 1

\* Every call returns (or its future was dropped), even when the follower
\* never looks at the channel again.
EveryCallReturns ==
    \A r \in Requests : caller[r] \in Pending ~> caller[r] \in Outcomes

=============================================================================
