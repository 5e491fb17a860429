----------------------------- MODULE MCListedTokens -----------------------------
(* Two tokens launched together: one vested through lock "l", one paid to a    *)
(* key; a publisher that tells the truth, a wrong key, or a wrong schedule.    *)
EXTENDS ListedTokens, TLC

MCPlan == [creator |-> "k1", total |-> 2, start |-> 1, duration |-> 2]
MCCell == [lock |-> "l", tx |-> 1, plan |-> MCPlan, claimed |-> 0, parent |-> 0,
           spent |-> 0, sig |-> "lost", shows |-> {}]
MCGenesis == <<MCCell, [MCCell EXCEPT !.plan.creator = "k2"]>>
MCOwners == "t" :> {[type |-> "cov", id |-> "l"]} @@
            "u" :> {[type |-> "key", id |-> "k2"], [type |-> "cov", id |-> "l"]}
MCEntry(token, key, total) ==
    [token |-> token, keys |-> <<key>>, plans |-> <<[total |-> total, start |-> 1, duration |-> 2]>>]
MCLists == {<<MCEntry("t", "k1", 2)>>, <<MCEntry("t", "k2", 2), MCEntry("u", "k1", 2)>>}
=============================================================================
