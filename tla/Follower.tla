------------------------------- MODULE Follower -------------------------------
(***************************************************************************)
(* The follower task of one network (follow_forever, follower.rs): it      *)
(* decides when the sync engine runs a pass and when it tries to recover a *)
(* stranded cursor.  Two detectors demand recovery: three failed passes in *)
(* a row, and ProgressWatch (sync.rs), which sees passes that succeed and  *)
(* change nothing while the tip runs away.  The counters live in memory.   *)
(***************************************************************************)
EXTENDS SyncEngine

CONSTANTS
    ErrorLimit,     \* consecutive_errors that trigger recovery
    WedgePasses     \* WEDGE_PASSES

ASSUME FollowerAssumption == ErrorLimit \in Nat \ {0} /\ WedgePasses \in Nat \ {0}

VARIABLES
    errors,     \* consecutive_errors, saturating at ErrorLimit
    watch,      \* ProgressWatch: last_processed and stuck_passes
    mode,       \* what the loop does next
    notified    \* ReconcileSchedule: 1 while a chain notification waits

followVars == <<errors, watch, mode, notified>>
allVars == <<vars, followVars>>

FollowerInit ==
    /\ Init
    /\ errors = 0
    /\ watch = [last |-> 0, stuck |-> 0]
    /\ mode = "wait"
    /\ notified = 0

-----------------------------------------------------------------------------
(* ProgressWatch::observe, fed with what the pass left in the store *)

\* Mutant: any known progress mark counts as progress.
HasProgress == processed' # 0

Advanced == processed' # 0 /\ processed' # watch.last
StillLagging == processed' # 0 /\ tip' # 0 /\ tip' - processed' > WedgeLag

DemandsRecovery ==
    ~Advanced /\ StillLagging /\ watch.stuck + 1 >= WedgePasses

Observe ==
    watch' = [last  |-> IF Advanced THEN processed' ELSE watch.last,
              stuck |-> IF Advanced \/ ~StillLagging \/ DemandsRecovery
                          THEN 0 ELSE watch.stuck + 1]

-----------------------------------------------------------------------------
(* The loop *)

\* ReconcileSchedule::next takes the waiting notification, or the five-second
\* watchdog fires; a loop that goes round again asks nobody.
Wakes ==
    \/ mode = "wait" /\ notified' = 0
    \/ mode = "again" /\ UNCHANGED notified

StartPass ==
    /\ Wakes
    /\ BeginPass \/ (BeginPassWithoutTip /\ pc' # "idle")
    /\ mode' = "pass"
    /\ UNCHANGED <<errors, watch>>

InsidePass ==
    /\ mode = "pass"
    /\ \/ StartFreshIndex \/ RollBack
       \/ \E b \in Blocks : Walk(b) \/ ProcessBlock(b)
    /\ UNCHANGED followVars

\* Ok: errors forgotten, progress observed.
PassSucceeds ==
    /\ mode = "pass"
    /\ FinishPass
    /\ errors' = 0
    /\ Observe
    /\ mode' = IF DemandsRecovery THEN "demanded" ELSE "settle"
    /\ UNCHANGED notified

\* Mutant: every failure starts counting from one again.
ForgetsErrors == 1

CountedErrors == IF errors < ErrorLimit THEN errors + 1 ELSE ErrorLimit

\* Err: count it; at the limit try to recover, else sleep and reconnect.
PassFails ==
    /\ \/ mode = "pass" /\ (WalkRefused \/ Interrupted \/ \E b \in Blocks : ApplyRefused(b))
       \/ mode \in {"wait", "again"} /\ BeginPassWithoutTip /\ pc' = "idle"
    /\ errors' = CountedErrors
    /\ mode' = IF CountedErrors >= ErrorLimit THEN "failed" ELSE "wait"
    /\ notified' = IF mode' = "wait" THEN 0 ELSE notified
    /\ UNCHANGED watch

\* Recovery changed nothing: go on after a good pass, reconnect after a bad one.
CarriesOn ==
    /\ mode' = IF mode = "demanded" THEN "settle" ELSE "wait"
    /\ notified' = IF mode = "demanded" THEN notified ELSE 0

\* re_anchor's first answer: the cursor walks, the trouble is elsewhere.
NotWedged ==
    /\ mode \in {"demanded", "failed"}
    /\ pc = "idle"
    /\ cursor = NoBlock \/ Walkable(cursor)
    /\ CarriesOn
    /\ UNCHANGED <<vars, errors, watch>>

Recovering ==
    /\ mode \in {"demanded", "failed"}
    /\ ProbeCursor \/ \E a \in Blocks : ReAnchor(a)
    /\ UNCHANGED followVars

Recovered ==
    /\ mode \in {"demanded", "failed"}
    /\ Repoint \/ RestartAtSink
    /\ errors' = 0
    /\ mode' = "again"
    /\ UNCHANGED <<watch, notified>>

\* recover_wedged_cursor returns false: a node call or a transaction failed,
\* or the node cannot even walk from its own sink.
NotRecovered ==
    /\ mode \in {"demanded", "failed"}
    /\ Interrupted
    /\ CarriesOn
    /\ UNCHANGED <<errors, watch>>

\* After a good pass: a waiting notification starts another one at once, ...
TakePending ==
    /\ mode = "settle" /\ notified = 1
    /\ notified' = 0
    /\ mode' = "again"
    /\ UNCHANGED <<vars, errors, watch>>

\* ... and so does a cursor that is not the node's sink; a failed lookup of
\* the sink counts as caught up.
NotCaughtUp ==
    /\ mode = "settle" /\ notified = 0
    /\ cursor # sink
    /\ mode' = "again"
    /\ UNCHANGED <<vars, errors, watch, notified>>

CaughtUp ==
    /\ mode = "settle" /\ notified = 0
    /\ \/ cursor = sink /\ UNCHANGED vars
       \/ Interrupted
    /\ mode' = "drain"
    /\ UNCHANGED <<errors, watch, notified>>

\* A chunk of projection work, put off while a notification waits.
DrainChunk ==
    /\ mode = "drain"
    /\ IF notified = 1 \/ Queued = {} THEN UNCHANGED vars ELSE Drain
    /\ mode' = "wait"
    /\ UNCHANGED <<errors, watch, notified>>

\* The process dies and restarts: only the store survives.
CrashRestart ==
    /\ Interrupted
    /\ errors' = 0
    /\ watch' = [last |-> 0, stuck |-> 0]
    /\ mode' = "wait"
    /\ notified' = 0

\* A change of the virtual chain is announced, unless the connection loses it.
Environment ==
    /\ NodeStep
    /\ notified' \in {notified, 1}
    /\ UNCHANGED <<errors, watch, mode>>

LoopStep ==
    \/ StartPass
    \/ InsidePass
    \/ PassSucceeds
    \/ PassFails
    \/ NotWedged
    \/ Recovering
    \/ Recovered
    \/ NotRecovered
    \/ TakePending
    \/ NotCaughtUp
    \/ CaughtUp
    \/ DrainChunk

FollowerNext == LoopStep \/ Environment \/ CrashRestart

FollowerSpec == FollowerInit /\ [][FollowerNext]_allVars

\* The runtime keeps polling the task: the watchdog wakes it when the node is
\* silent.  Nothing is assumed of the node or of the end of an outage beyond
\* the bounds on failures and switches.
FollowerFairSpec == FollowerSpec /\ WF_allVars(LoopStep)

-----------------------------------------------------------------------------
(* Properties *)

\* consecutive_errors and the passes ProgressWatch counts stay within the
\* limits at which each of them asks for recovery.
FollowerTypeOK ==
    /\ errors \in 0..ErrorLimit
    /\ watch \in [last : Nat, stuck : 0..WedgePasses]
    /\ mode \in {"wait", "again", "pass", "settle", "drain", "demanded", "failed"}
    /\ notified \in {0, 1}

\* A cursor the node cannot walk from, and whose answers show it (an error, or
\* silence while lagging).
Stranded == cursor \in unknown /\ (answers = "empty" => Lagging)

\* A stranded cursor does not stay stranded: whether the node refuses it or
\* answers with an empty walk, one of the two detectors leads to recovery.
StrandedCursorRecovers == []<>~Stranded

\* store.rs: reset_cursor is the recovery where "sync would otherwise wedge
\* forever": passes do not keep failing once recovery has run.  Not so when the
\* new chain accepts a transaction whose application row was kept (README,
\* section 4).
RecoveryUnwedges == []<>(errors < ErrorLimit)

\* Once the node and the failures are quiet the cursor reaches the sink and the
\* projection queue runs dry.
CatchesUp == <>[](cursor = sink) /\ <>[](Queued = {})

=============================================================================
