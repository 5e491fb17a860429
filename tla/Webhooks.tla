------------------------------- MODULE Webhooks --------------------------------
(***************************************************************************)
(* Webhook subscriptions of one network and the task that posts to them    *)
(* (main.rs, store.rs).  The follower puts committed records into a        *)
(* bounded queue with try_send; one task drains it, looks the event and    *)
(* its subscribers up, posts, counts failures per subscription in memory   *)
(* and deletes a subscription through the writer after too many in a row.  *)
(***************************************************************************)
EXTENDS Integers, Sequences, FiniteSets

CONSTANTS
    HookEvents,    \* records the follower may publish: [cov, kind]
    HookRequests,  \* bodies of /subscribe: [url, cov, kind]; Unfiltered is an omitted filter
    HookQueue,     \* HOOK_QUEUE
    MaxFailures,   \* WEBHOOK_MAX_FAILURES
    MaxHooks,      \* bound: subscriptions ever made
    MaxPublished,  \* bound: records published
    MaxHookFaults  \* bound: restarts and failed reads

ASSUME HookAssumption == MaxFailures \in Nat

VARIABLES
    hooks,      \* webhook_subscriptions: id -> [cov, kind]
    nextHook,   \* the AUTOINCREMENT sequence
    hookQueue,  \* the channel
    sender,     \* webhook_delivery_forever: its probe, its event, the rows it matched
    failures,   \* id -> consecutive failures, in memory
    streak,     \* id -> posts that really failed since the last one that succeeded
    retired,    \* ids the task has deleted
    hookCount   \* [published, faults]

hvars == <<hooks, nextHook, hookQueue, sender, failures, streak, retired, hookCount>>

Unfiltered == "any"
EventKinds == {"genesis", "transition", "burn"}
Drop(f, id) == [x \in DOMAIN f \ {id} |-> f[x]]
Put(f, id, v) == [x \in DOMAIN f \cup {id} |-> IF x = id THEN v ELSE f[x]]
CountOf(f, id) == IF id \in DOMAIN f THEN f[id] ELSE 0
-----------------------------------------------------------------------------
HookInit ==
    /\ hooks = << >> /\ nextHook = 1 /\ hookQueue = <<>>
    /\ sender = [probe |-> "unknown", todo |-> {}]
    /\ failures = << >> /\ streak = << >> /\ retired = {}
    /\ hookCount = [published |-> 0, faults |-> 0]

\* What subscribe_handler accepts: an http url, a real kind or none, a whole
\* covenant id or none.
Acceptable(q) == q.url = "http" /\ q.kind \in EventKinds \cup {Unfiltered} /\ q.cov # "malformed"

\* Mutant form: the table without AUTOINCREMENT takes the next free rowid.
FreeRowId == IF DOMAIN hooks = {} THEN 1
             ELSE 1 + CHOOSE id \in DOMAIN hooks : \A x \in DOMAIN hooks : x <= id

NewId == nextHook

SubscribeHook ==
    /\ nextHook <= MaxHooks
    /\ \E q \in HookRequests :
         /\ Acceptable(q)
         /\ hooks' = Put(hooks, NewId, [cov |-> q.cov, kind |-> q.kind])
    /\ streak' = Put(streak, NewId, 0)
    /\ nextHook' = nextHook + 1
    /\ UNCHANGED <<hookQueue, sender, failures, retired, hookCount>>

\* delete_subscription_secured with the right secret; a wrong one changes nothing.
Unsubscribe ==
    /\ \E id \in DOMAIN hooks : hooks' = Drop(hooks, id)
    /\ UNCHANGED <<nextHook, hookQueue, sender, failures, streak, retired, hookCount>>

\* try_send: a record that finds the queue full is lost.
PublishEvents ==
    /\ hookCount.published < MaxPublished
    /\ \E e \in HookEvents :
         hookQueue' = IF Len(hookQueue) < HookQueue THEN Append(hookQueue, e) ELSE hookQueue
    /\ hookCount' = [hookCount EXCEPT !.published = @ + 1]
    /\ UNCHANGED <<hooks, nextHook, sender, failures, streak, retired>>

\* The ten seconds of the probe are over.
ProbeExpires ==
    /\ sender.probe # "unknown"
    /\ sender' = [sender EXCEPT !.probe = "unknown"]
    /\ UNCHANGED <<hooks, nextHook, hookQueue, failures, streak, retired, hookCount>>

Matching(e) ==
    {id \in DOMAIN hooks : hooks[id].cov \in {Unfiltered, e.cov} /\ hooks[id].kind \in {Unfiltered, e.kind}}

\* One record is taken; the lookup fails when the event was rolled back
\* meanwhile or the store cannot be read, and the record is skipped.
Receive ==
    /\ sender.todo = {} /\ hookQueue # <<>>
    /\ LET known == IF sender.probe # "unknown" THEN sender.probe
                    ELSE IF DOMAIN hooks # {} THEN "some" ELSE "nobody"
       IN  \E found \in {"found", "gone"} :
             /\ found = "gone" => hookCount.faults < MaxHookFaults
             /\ sender' = [probe |-> known,
                           todo |-> IF known = "some" /\ found = "found"
                                    THEN Matching(Head(hookQueue)) ELSE {}]
             /\ hookCount' = [hookCount EXCEPT !.faults =
                                IF found = "gone" THEN @ + 1 ELSE @]
    /\ hookQueue' = Tail(hookQueue)
    /\ UNCHANGED <<hooks, nextHook, failures, streak, retired>>

\* Mutant form: a success does not clear the count.
KeepsCounting(f, id) == f

AfterSuccess(f, id) == Drop(f, id)

\* deliver_webhook to one of the matched rows, which may be gone by now.
PostSucceeds ==
    /\ \E id \in sender.todo :
         /\ sender' = [sender EXCEPT !.todo = @ \ {id}]
         /\ failures' = AfterSuccess(failures, id)
         /\ streak' = Put(streak, id, 0)
    /\ UNCHANGED <<hooks, nextHook, hookQueue, retired, hookCount>>

\* A refused target, or three attempts without a 2xx.  The deletion waits for
\* the writer; when that fails the count starts again.
PostFails ==
    /\ \E id \in sender.todo :
         LET n == CountOf(failures, id) + 1
         IN  /\ sender' = [sender EXCEPT !.todo = @ \ {id}]
             /\ streak' = Put(streak, id, CountOf(streak, id) + 1)
             /\ IF n < MaxFailures
                THEN failures' = Put(failures, id, n) /\ UNCHANGED <<hooks, retired>>
                ELSE /\ failures' = Drop(failures, id)
                     /\ \/ hooks' = Drop(hooks, id)
                           /\ retired' = IF id \in DOMAIN hooks THEN retired \cup {id} ELSE retired
                        \/ UNCHANGED <<hooks, retired>>
    /\ UNCHANGED <<nextHook, hookQueue, hookCount>>

\* The queue and the counts are gone; the table and its sequence are not.
HookRestart ==
    /\ hookCount.faults < MaxHookFaults
    /\ hookQueue' = <<>> /\ failures' = << >>
    /\ sender' = [probe |-> "unknown", todo |-> {}]
    /\ hookCount' = [hookCount EXCEPT !.faults = @ + 1]
    /\ UNCHANGED <<hooks, nextHook, streak, retired>>

HookNext ==
    \/ SubscribeHook \/ Unsubscribe \/ PublishEvents \/ ProbeExpires \/ Receive
    \/ PostSucceeds \/ PostFails \/ HookRestart

HookSpec == HookInit /\ [][HookNext]_hvars
-----------------------------------------------------------------------------
\* The task gives up only on a subscriber that really failed the full number
\* of times in a row, and never on one that merely took over the number, the
\* count or the place of another (webhook_delivery_forever over ids that are
\* looked up, posted to and deleted in separate steps).
RetiredForCause == \A id \in retired : streak[id] >= MaxFailures
================================================================================
