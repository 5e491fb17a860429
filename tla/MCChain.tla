------------------------------- MODULE MCChain -------------------------------
(***************************************************************************)
(* A chain that reorganises away from a branch and back onto it:           *)
(*                                                                         *)
(*     g(1) - a1(2) - a2(3) - a3(6)          blue work in brackets         *)
(*                 \- b2(4) - b3(5)                                        *)
(*                                                                         *)
(* a1 creates covenant 1, a2 moves it, a3 burns it and creates covenant 2; *)
(* b2 has no covenant activity and b3 moves and burns covenant 1 in one    *)
(* block.  The application transaction is the move.                        *)
(***************************************************************************)
EXTENDS Integers, TLC

CONSTANTS g, a1, a2, a3, b2, b3, make1, move1, burn1, make2, c1, c2, c3

MCBlocks == {g, a1, a2, a3, b2, b3}
MCPath == (g :> {g}) @@ (a1 :> {g, a1}) @@ (a2 :> {g, a1, a2}) @@ (a3 :> {g, a1, a2, a3})
          @@ (b2 :> {g, a1, b2}) @@ (b3 :> {g, a1, b2, b3})
MCDaa == (g :> 1) @@ (a1 :> 2) @@ (a2 :> 3) @@ (a3 :> 4) @@ (b2 :> 3) @@ (b3 :> 4)
MCWeight == (g :> 1) @@ (a1 :> 2) @@ (a2 :> 3) @@ (a3 :> 6) @@ (b2 :> 4) @@ (b3 :> 5)
\* The same blocks when the first branch never comes back.
MCWeightOneWay == (g :> 1) @@ (a1 :> 2) @@ (a2 :> 3) @@ (a3 :> 4) @@ (b2 :> 5) @@ (b3 :> 6)
\* The empty block b2 leads, then the first branch, then b3, then a3.
MCWeightTwice == (g :> 1) @@ (a1 :> 2) @@ (b2 :> 3) @@ (a2 :> 4) @@ (b3 :> 5) @@ (a3 :> 6)
MCTxs == {make1, move1, burn1, make2}
MCAccepted == (g :> <<>>) @@ (a1 :> <<make1>>) @@ (a2 :> <<move1>>)
              @@ (a3 :> <<burn1, make2>>) @@ (b2 :> <<>>) @@ (b3 :> <<move1, burn1>>)
MCCoins == {c1, c2, c3}
MCInputs == (make1 :> {}) @@ (move1 :> {c1}) @@ (burn1 :> {c2}) @@ (make2 :> {})
MCOutputs == (make1 :> {c1}) @@ (move1 :> {c2}) @@ (burn1 :> {}) @@ (make2 :> {c3})
MCCovenantOf == (c1 :> 1) @@ (c2 :> 1) @@ (c3 :> 2)
MCProvesGenesis == (make1 :> {1}) @@ (move1 :> {}) @@ (burn1 :> {}) @@ (make2 :> {2})

\* A node whose sink is b knows nothing heavier, may have pruned its own chain
\* below a horizon, and either keeps or dropped every other branch.
MCAllViews ==
    {<<b, {x \in MCBlocks : \/ MCWeight[x] > MCWeight[b]
                            \/ x \in MCPath[b] /\ MCDaa[x] < h
                            \/ x \notin MCPath[b] /\ ~branches}>> :
        b \in MCBlocks, h \in 1..4, branches \in BOOLEAN}

MCNodeViews == {view \in MCAllViews : view[1] \notin view[2]}

\* Fewer views: no other branch survives, the chain is kept or mostly pruned.
MCFewViews ==
    {<<b, {x \in MCBlocks : \/ MCWeight[x] > MCWeight[b]
                            \/ x \in MCPath[b] /\ MCDaa[x] < h
                            \/ x \notin MCPath[b]}>> : b \in {b2, a3}, h \in {1, 3}}

\* A node on the second branch that never saw the first.
MCStrandingView == {<<b2, {a2, a3, b3}>>}

\* A node that abandoned the first branch and pruned what is below its sink.
MCPrunedView == {<<b2, MCBlocks \ {b2}>>}

\* A node on the first branch that never saw the second.
MCFirstBranchView == {<<a2, {b2, b3, a3}>>}

\* A node that lags: it has only seen the root.
MCLaggingView == {<<g, MCBlocks \ {g}>>}

=============================================================================
