------------------------------- MODULE MCHistory -------------------------------
(***************************************************************************)
(* The history a walk of the chain puts back, the rows a token's history   *)
(* is derived into, the passes of a new build over them, the file they lie *)
(* in, and what clients are told of it by the pending lane, by webhooks,   *)
(* by polling and page by page; scenario names the one that runs, the      *)
(* others stay as they start.                                              *)
(***************************************************************************)
EXTENDS MCGapRecovery, MCTokenLedger, StoreUpkeep, PendingFeed, Webhooks, DurableReads,
        Paging, StoreAccess

VARIABLE scenario

\* Mempool.
MCConflicts == {{"a", "b"}}

\* Webhooks: a subscription to everything, to one covenant's burns, and two
\* that are refused.
Body(url, cov, kind) == [url |-> url, cov |-> cov, kind |-> kind]
MCHookRequests == {Body("http", Unfiltered, Unfiltered), Body("http", "c1", "burn"),
                   Body("ftp", Unfiltered, Unfiltered), Body("http", "malformed", Unfiltered)}
MCHookEvents == {[cov |-> "c1", kind |-> "burn"], [cov |-> "c2", kind |-> "genesis"]}

\* Three builds: the second classifies better, the third locates and derives
\* differently.
BuildOf(classifier, restamp, derivation, matcher) ==
    [classifier |-> classifier, abi |-> classifier, restamp |-> restamp,
     derivation |-> derivation, matcher |-> matcher]
MCVersion == <<BuildOf(1, 1, 1, 1), BuildOf(2, 1, 1, 2), BuildOf(2, 2, 2, 2)>>
MCColumn == <<"template", "reveal", "reveal", "tag", "hash">>
MCOwner == <<1, 1, 2, 2, 1>>
MCNamedFrom == <<2, 9, 1, 2, 1>>
MCLocatedFrom == <<9, 2, 9, 9, 9>>

\* Paging: the tokens of the rows.
MCTokenOf == <<1, 2, 1, 2>>

Init ==
    /\ scenario \in {"recovery", "ledger", "upkeep", "access", "pending", "webhooks", "durable", "paging"}
    /\ IF scenario = "ledger" THEN TRUE ELSE world = CHOOSE w \in Worlds : TRUE
    /\ IF scenario = "durable" THEN TRUE
       ELSE durablePoller = [size |-> 1, limit |-> 1, cursor |-> 0, got |-> {}, pc |-> "idle", high |-> 0]
    /\ IF scenario = "paging" THEN TRUE
       ELSE /\ list = <<>>
            /\ pageWalk = [kind |-> "grid", limit |-> 1, cursor |-> NoCursor, phase |-> "walking", writes |-> 0]
    /\ IF scenario = "access" THEN TRUE ELSE file = [state |-> "ready", commit |-> 0, fresh |-> "no"]
    /\ GapInit /\ LedgerInit /\ UpInit /\ AccessInit
    /\ PendingInit /\ HookInit /\ DurableInit /\ PagingInit

stored == <<allvars, lvars, upvars, savars>>
told == <<pvars, hvars, drvars, pgvars>>

Next ==
    /\ UNCHANGED scenario
    /\ \/ scenario = "recovery" /\ GapNext /\ UNCHANGED <<lvars, upvars, savars, told>>
       \/ scenario = "ledger" /\ LedgerNext /\ UNCHANGED <<allvars, upvars, savars, told>>
       \/ scenario = "upkeep" /\ UpNext /\ UNCHANGED <<allvars, lvars, savars, told>>
       \/ scenario = "access" /\ AccessNext /\ UNCHANGED <<allvars, lvars, upvars, told>>
       \/ scenario = "pending" /\ PendingNext /\ UNCHANGED <<stored, hvars, drvars, pgvars>>
       \/ scenario = "webhooks" /\ HookNext /\ UNCHANGED <<stored, pvars, drvars, pgvars>>
       \/ scenario = "durable" /\ DurableNext /\ UNCHANGED <<stored, pvars, hvars, pgvars>>
       \/ scenario = "paging" /\ PagingNext /\ UNCHANGED <<stored, pvars, hvars, drvars>>

Spec == Init /\ [][Next]_<<scenario, stored, told>>
=============================================================================
