----------------------------- MODULE MCGapRecovery -----------------------------
(***************************************************************************)
(* A chain of eight blocks and a branch of one.  Covenant 1 is born before *)
(* the gap and moved in it, 2 is born in the gap and burnt after it, 3 is  *)
(* born in the gap and moved on both sides of a second gap.                *)
(***************************************************************************)
EXTENDS GapRecovery, TLC

MCBlocks == 1..9
MCNoBlock == 0
MCPath == [b \in MCBlocks |-> IF b = 9 THEN {1, 2, 9} ELSE 1..b]
MCDaa == [b \in MCBlocks |-> IF b = 9 THEN 3 ELSE b]
MCAccepted == <<<<"make1">>, <<>>, <<"move1", "make2">>, <<"make3">>, <<"move3">>,
                <<"burn2">>, <<"again3">>, <<"burn3">>, <<"move1">>>>
MCTxs == {"make1", "move1", "make2", "make3", "move3", "burn2", "again3", "burn3"}
MCCoins == {"a", "b", "c", "d", "e", "f"}
MCInputs == [t \in MCTxs |->
    CASE t = "move1" -> {"a"} [] t = "burn2" -> {"c"} [] t = "move3" -> {"d"}
      [] t = "again3" -> {"e"} [] t = "burn3" -> {"f"} [] OTHER -> {}]
MCOutputs == [t \in MCTxs |->
    CASE t = "make1" -> {"a"} [] t = "move1" -> {"b"} [] t = "make2" -> {"c"}
      [] t = "make3" -> {"d"} [] t = "move3" -> {"e"} [] t = "again3" -> {"f"} [] OTHER -> {}]
MCCovenantOf == [c \in MCCoins |->
    CASE c \in {"a", "b"} -> 1 [] c = "c" -> 2 [] OTHER -> 3]
MCProvesGenesis == [t \in MCTxs |->
    CASE t = "make1" -> {1} [] t = "make2" -> {2} [] t = "make3" -> {3} [] OTHER -> {}]
MCBodies == {MCTxs, MCTxs \ {"make2"}}
MCWindows == {<<1, 5>>, <<3, 6>>}
================================================================================
