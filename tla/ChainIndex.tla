------------------------------ MODULE ChainIndex ------------------------------
(***************************************************************************)
(* What the index promises its readers, without cursors, passes, batches   *)
(* or failures: the accepting blocks it shows are always blocks of one     *)
(* chain; they grow by one later block of that chain at a time, and shrink *)
(* only from the newest end.  Restarting at the sink of a reset network    *)
(* forfeits the promise for good.                                          *)
(***************************************************************************)
EXTENDS Chain

VARIABLES
    held,       \* accepting blocks with indexed events
    forfeited   \* 1 after a restart that kept another chain's history

Extend(b) ==
    /\ \A a \in held : a \in Path[b] \ {b}
    /\ held' = held \cup {b}
    /\ UNCHANGED forfeited

\* What stays is closed under taking older blocks.
Retract(keep) ==
    /\ \A a \in keep, c \in held : c \in Path[a] => c \in keep
    /\ held' = keep
    /\ UNCHANGED forfeited

Forfeit ==
    /\ forfeited' = 1
    /\ UNCHANGED held

Init == held = {} /\ forfeited = 0

Next ==
    \/ forfeited = 0 /\ \E b \in Blocks : Extend(b)
    \/ forfeited = 0 /\ \E keep \in SUBSET held : Retract(keep)
    \/ Forfeit
    \/ forfeited = 1 /\ held' \in SUBSET Blocks /\ UNCHANGED forfeited

Spec == Init /\ [][Next]_<<held, forfeited>>

=============================================================================
