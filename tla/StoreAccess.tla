------------------------------ MODULE StoreAccess ------------------------------
(***************************************************************************)
(* Who may open one network's database, and how.  A writer handle is       *)
(* guarded by an exclusive lock on <db>.writer.lock that lives as long as  *)
(* the handle (writer.rs); the follower holds one for a whole session, a   *)
(* command for its run, the boot probe and the list handlers of api.rs for *)
(* a moment each.  The other handlers read through a bounded pool          *)
(* (read_pool.rs), and `kascov backup` copies the file under a reader.     *)
(***************************************************************************)
EXTENDS Integers, FiniteSets, TLC

CONSTANTS
    ListRequests,     \* requests for the list endpoints of api.rs
    PooledRequests,   \* requests for handlers that use read_pool
    MaxReaders,       \* --read-pool
    FileSteps,        \* backup steps a whole copy takes
    FreshOk,          \* KASCOV_FRESH_OK: "yes" or "no"
    MaxCommits,       \* bound: commits
    MaxLosses         \* bound: crashes, and files lost while the worker is down

Asked == ListRequests \cup PooledRequests

\* The other owners of the lock file.
Roles == {"follower", "probe", "command"}

ASSUME NamesAssumption == ListRequests \cap (Roles \cup {"free"}) = {}

VARIABLES
    lease,      \* owner of the lock file, or "free"
    file,       \* [state, commit, fresh]: "absent", "legacy" (delivery not migrated) or "ready"
    worker,     \* the serve process: "down", "probing" or "up"
    session,    \* its follower: "closed", "open" or "asleep"
    request,    \* request -> "new", "writing", "reading", "served" or "refused"
    command,    \* migrate-delivery or another offline command: "idle" or "open"
    copy,       \* the backup: [pc, base, done]
    target,     \* the file the backup is for: [state, commit]
    losses

savars == <<lease, file, worker, session, request, command, copy, target, losses>>

AccessInit ==
    /\ lease = "free"
    /\ file \in {[state |-> s, commit |-> 0, fresh |-> "no"] : s \in {"absent", "legacy", "ready"}}
    /\ worker = "down" /\ session = "closed" /\ command = "idle"
    /\ request = [r \in Asked |-> "new"]
    /\ copy = [pc |-> "idle", base |-> 0, done |-> 0]
    /\ target = [state |-> "none", commit |-> 0]
    /\ losses = 0

\* fs2 try_lock_exclusive: refused while any other handle holds the lock, one
\* of the same process included.  Mutant form: a shared lock.
SharedLock(owner) == lease' = owner
WriterLease(owner) == lease = "free" /\ lease' = owner
\* Opening without the refusal policy makes a missing database, already in the
\* current schema.
Created == IF file.state = "absent" THEN [state |-> "ready", commit |-> 0, fresh |-> "yes"] ELSE file
Usable == file.state # "legacy"
-----------------------------------------------------------------------------
(* serve: probe_archives_at_boot, then the tasks *)

\* Mutant form: the probe opens with FreshDb::Allow.
ProbeAllows == TRUE
ProbePolicy == file.state # "absent" \/ FreshOk = "yes"

\* A refusal, a taken lock or an unmigrated database ends the boot.
BootProbe ==
    /\ worker = "down" /\ ProbePolicy /\ Usable
    /\ WriterLease("probe")
    /\ file' = Created /\ worker' = "probing"
    /\ UNCHANGED <<session, request, command, copy, target, losses>>
Serve ==
    /\ worker = "probing"
    /\ worker' = "up" /\ lease' = "free"
    /\ UNCHANGED <<file, session, request, command, copy, target, losses>>

\* follow_forever: open, or sleep and try again; a session that ends drops the
\* store.
FollowerOpens ==
    /\ worker = "up" /\ session # "open" /\ Usable
    /\ WriterLease("follower")
    /\ session' = "open" /\ file' = Created
    /\ UNCHANGED <<worker, request, command, copy, target, losses>>
FollowerRefused ==
    /\ worker = "up" /\ session = "closed" /\ (lease # "free" \/ ~Usable)
    /\ session' = "asleep"
    /\ UNCHANGED <<lease, file, worker, request, command, copy, target, losses>>
SessionEnds ==
    /\ session = "open"
    /\ session' = "closed" /\ lease' = "free"
    /\ UNCHANGED <<file, worker, request, command, copy, target, losses>>

Commits ==
    /\ session = "open" \/ command = "open"
    /\ file.commit < MaxCommits
    /\ file' = [file EXCEPT !.commit = @ + 1]
    /\ UNCHANGED <<lease, worker, session, request, command, copy, target, losses>>
-----------------------------------------------------------------------------
(* requests *)

\* token_holders_handler and the other nine list handlers call Store::open.
ListOpens(r) ==
    /\ worker = "up" /\ request[r] = "new" /\ r \in ListRequests /\ Usable
    /\ WriterLease(r)
    /\ request' = [request EXCEPT ![r] = "writing"] /\ file' = Created
    /\ UNCHANGED <<worker, session, command, copy, target, losses>>
ListRefused(r) ==
    /\ worker = "up" /\ request[r] = "new" /\ r \in ListRequests
    /\ lease # "free" \/ ~Usable
    /\ request' = [request EXCEPT ![r] = "refused"]
    /\ UNCHANGED <<lease, file, worker, session, command, copy, target, losses>>
ListAnswers(r) ==
    /\ request[r] = "writing"
    /\ request' = [request EXCEPT ![r] = "served"] /\ lease' = "free"
    /\ UNCHANGED <<file, worker, session, command, copy, target, losses>>

\* query_with: check out within the timeout, read, give back.
PooledReaders == {r \in PooledRequests : request[r] = "reading"}
CheckOut(r) ==
    /\ worker = "up" /\ request[r] = "new" /\ r \in PooledRequests
    /\ file.state # "absent" /\ Cardinality(PooledReaders) < MaxReaders
    /\ request' = [request EXCEPT ![r] = "reading"]
    /\ UNCHANGED <<lease, file, worker, session, command, copy, target, losses>>
CheckOutTimesOut(r) ==
    /\ worker = "up" /\ request[r] = "new" /\ r \in PooledRequests
    /\ file.state = "absent" \/ Cardinality(PooledReaders) = MaxReaders
    /\ request' = [request EXCEPT ![r] = "refused"]
    /\ UNCHANGED <<lease, file, worker, session, command, copy, target, losses>>
PooledAnswers(r) ==
    /\ request[r] = "reading"
    /\ request' = [request EXCEPT ![r] = "served"]
    /\ UNCHANGED <<lease, file, worker, session, command, copy, target, losses>>
-----------------------------------------------------------------------------
(* commands *)

\* open_for_delivery_migration takes a legacy file, the other commands do not;
\* both may create one.
CommandOpens ==
    /\ command = "idle"
    /\ WriterLease("command")
    /\ command' = "open" /\ file' = [Created EXCEPT !.fresh = file.fresh]
    /\ UNCHANGED <<worker, session, request, copy, target, losses>>
CommandEnds ==
    /\ command = "open"
    /\ command' = "idle" /\ lease' = "free"
    /\ file' = [file EXCEPT !.state = "ready"]
    /\ UNCHANGED <<worker, session, request, copy, target, losses>>

\* Mutant form: the pages are copied straight into the target.
StraightToTarget(done) == [state |-> IF done = FileSteps THEN "whole" ELSE "torn", commit |-> copy'.base]
TargetAfterStep(done) == target

\* backup_to: a step copies 256 pages; sqlite starts over when another
\* connection committed since the copy began.
BackupStarts ==
    /\ copy.pc = "idle" /\ file.state # "absent"
    /\ copy' = [pc |-> "copying", base |-> file.commit, done |-> 0]
    /\ UNCHANGED <<lease, file, worker, session, request, command, target, losses>>
BackupSteps ==
    /\ copy.pc = "copying" /\ copy.done < FileSteps
    /\ copy' = IF copy.base = file.commit THEN [copy EXCEPT !.done = @ + 1]
               ELSE [copy EXCEPT !.base = file.commit, !.done = 1]
    /\ target' = TargetAfterStep(copy'.done)
    /\ UNCHANGED <<lease, file, worker, session, request, command, losses>>
\* quick_check, then the rename.
BackupRenames ==
    /\ copy.pc = "copying" /\ copy.done = FileSteps
    /\ copy' = [copy EXCEPT !.pc = "idle"]
    /\ target' = [state |-> "whole", commit |-> copy.base]
    /\ UNCHANGED <<lease, file, worker, session, request, command, losses>>
-----------------------------------------------------------------------------
(* losses *)

\* The kernel drops the locks of a dead process.
WorkerDies ==
    /\ worker # "down" /\ losses < MaxLosses
    /\ worker' = "down" /\ session' = "closed"
    /\ lease' = IF lease = "command" THEN lease ELSE "free"
    /\ request' = [r \in Asked |-> "new"]
    /\ losses' = losses + 1
    /\ UNCHANGED <<file, command, copy, target>>
CommandDies ==
    /\ command = "open" /\ losses < MaxLosses
    /\ command' = "idle" /\ lease' = "free" /\ losses' = losses + 1
    /\ UNCHANGED <<file, worker, session, request, copy, target>>
BackupDies ==
    /\ copy.pc = "copying" /\ losses < MaxLosses
    /\ copy' = [copy EXCEPT !.pc = "idle"] /\ losses' = losses + 1
    /\ UNCHANGED <<lease, file, worker, session, request, command, target>>
\* The volume is not mounted, or the file was moved, before a boot.
FileLost ==
    /\ worker = "down" /\ command = "idle" /\ copy.pc = "idle"
    /\ file.state # "absent" /\ losses < MaxLosses
    /\ file' = [state |-> "absent", commit |-> 0, fresh |-> "no"] /\ losses' = losses + 1
    /\ UNCHANGED <<lease, worker, session, request, command, copy, target>>

AccessNext ==
    \/ BootProbe \/ Serve \/ FollowerOpens \/ FollowerRefused \/ SessionEnds \/ Commits
    \/ \E r \in Asked : ListOpens(r) \/ ListRefused(r) \/ ListAnswers(r)
    \/ \E r \in Asked : CheckOut(r) \/ CheckOutTimesOut(r) \/ PooledAnswers(r)
    \/ CommandOpens \/ CommandEnds \/ BackupStarts \/ BackupSteps \/ BackupRenames
    \/ WorkerDies \/ CommandDies \/ BackupDies \/ FileLost
AccessSpec == AccessInit /\ [][AccessNext]_savars
-----------------------------------------------------------------------------
Writers == {r \in ListRequests : request[r] = "writing"}
    \cup (IF session = "open" THEN {"follower"} ELSE {})
    \cup (IF worker = "probing" THEN {"probe"} ELSE {})
    \cup (IF command = "open" THEN {"command"} ELSE {})

\* At most one handle can write, the serve process never puts an empty archive
\* in the place of a lost one unless told to, and what stands at the backup
\* target is always one whole committed state, through crashes of any of them
\* (writer.rs, store.rs open_with_policy and backup_to, main.rs
\* probe_archives_at_boot).
ArchiveKept ==
    /\ Cardinality(Writers) <= 1
    /\ file.fresh = "yes" => FreshOk = "yes"
    /\ target.state # "torn"

\* No list request has been turned away while the follower holds its session
\* (main.rs:1801 "the follower and the handlers keep their own connections").
ListsServed == \A r \in ListRequests : request[r] = "refused" => session # "open"
=============================================================================
