------------------------------- MODULE MCServices -------------------------------
(***************************************************************************)
(* The services around the index, one per behaviour: scenario names the    *)
(* one that runs, the others stay as they start.                           *)
(***************************************************************************)
EXTENDS MCApplications, MCListedTokens, Consistency, ServeCache, Lab,
        Backfills, Witness, Preflight, HolderLane

VARIABLE scenario

Scenarios == {"applications", "listed", "consistency", "cache", "lab", "deploy",
              "backfills", "witness", "preflight", "lane"}
-----------------------------------------------------------------------------
\* Consistency: two networks; books that agree, differ, or leave tokens out.
Ours(supply, bal) == [supply |-> supply, bal |-> bal]
Theirs(supply, holders) == [supply |-> supply, rows |-> holders]
Holder(owner, amount, mapped) == [owner |-> owner, amount |-> amount, mapped |-> mapped]
Both == ("x" :> 1) @@ ("y" :> 1)
MCNets == <<"m", "k">>
MCOurBooks ==
    {<<>>, "t" :> Ours({2}, "x" :> 2), ("t" :> Ours({2}, Both)) @@ ("u" :> Ours({}, "x" :> 2)),
     "u" :> Ours({2}, Both), "w" :> Ours({1}, "x" :> 1)}
MCTheirBooks ==
    {<<>>, "t" :> Theirs({2}, <<Holder("x", 1, TRUE), Holder("x", 1, TRUE)>>),
     ("t" :> Theirs({2}, <<Holder("x", 1, TRUE), Holder("y", 1, FALSE)>>))
       @@ ("u" :> Theirs({3}, <<Holder("x", 3, TRUE)>>)),
     ("t" :> Theirs({}, <<Holder("x", 2, TRUE)>>))
       @@ ("u" :> Theirs({2}, <<Holder("x", 1, TRUE), Holder("y", 1, TRUE)>>))}
MCListings == {<<>>, <<"t">>, <<"t", "?", "u">>, <<"u", "t">>}

\* The lab's wallet.
MCFunds == <<13, 9>>

\* Blocks 1..4 are in the upgraded database; every other one carries events
\* at several positions.
MCPositions == <<{1}, {1, 2}, {}, {1, 3}, {2}, {1}>>

MCLaunch == <<MCCell>>

\* Preflight: commitments absent, zero, enough and beyond the wire field;
\* scripts that run on the free units, on one budget unit, or on more; a long
\* witness that costs little to run.
InputShape(spelled, budget, sigops, units, valid, alone) ==
    [spelled |-> spelled, budget |-> budget, sigops |-> sigops, witness |-> "given", spk |-> "given",
     amount |-> 4, bytes |-> 1, units |-> units, valid |-> valid, alone |-> alone]
Plainest == InputShape("camel", 1, NotGiven, 1, "yes", "yes")
MCVersions == {NotGiven, 0, 1, 2}
MCInputShapes ==
    {InputShape("camel", b, NotGiven, u, "yes", "yes") : b \in {NotGiven, 0, 1}, u \in {1, 3}}
    \cup {InputShape("camel", b, NotGiven, 1, "yes", "no") : b \in {0, 1}}
    \cup {InputShape("camel", b, NotGiven, 1, "no", "yes") : b \in {0, 1}}
    \cup {InputShape("camel", 3, NotGiven, 1, "yes", "yes")}
    \cup {InputShape("snake", 1, NotGiven, u, "yes", "yes") : u \in {1, 3}}
    \cup {InputShape("camel", NotGiven, s, 3, "yes", "yes") : s \in {1, 3}}
    \cup {[Plainest EXCEPT !.witness = "none"], [Plainest EXCEPT !.spk = "none"],
          [Plainest EXCEPT !.amount = NotGiven], [Plainest EXCEPT !.budget = 0, !.bytes = 3]}
MCOutputShapes == {[value |-> v, spk |-> "given"] : v \in {0, 1, 4}} \cup {[value |-> 4, spk |-> "none"]}
-----------------------------------------------------------------------------
\* Covenants and urls are alike: the first list is taken up to an exchange of
\* names.  Of the holders none or both begin with the token.
MCFirstLists ==
    {<<>>, "c" :> "u", ("c" :> "u") @@ ("d" :> "u"), ("c" :> "u") @@ ("d" :> "v")}
MCFirstHoldings == {{}, {"a", "b"}}

\* What a service that does not run begins with, where it has a choice.
Rests(names, start) == IF scenario \in names THEN TRUE ELSE start

Init ==
    /\ scenario \in Scenarios
    /\ Rests({"consistency"}, ourBook = [n \in DOMAIN MCNets |-> <<>>])
    /\ Rests({"consistency"}, theirBook = [book |-> <<>>, list |-> <<>>])
    /\ Rests({"applications"}, manifest = <<>>)
    /\ Rests({"backfills"}, eventRows = [e \in UNION {EventsIn(b) : b \in 1..LegacyBlocks} |->
                                           [index |-> e[2], seq |-> NoSeq]])
    /\ Rests({"witness"}, published = <<>>)
    /\ Rests({"preflight"}, submitted = [version |-> 1, inputs |-> <<>>, outputs |-> <<>>])
    /\ Rests({"lane"}, holding = {})
    /\ Rests({"lane"}, secret = Unarmed)
    /\ published \in MCFirstLists /\ holding \in MCFirstHoldings
    /\ AppInit /\ ListedInit /\ ConsistencyInit /\ CacheInit
    /\ LabInit /\ BackfillInit /\ WitnessInit /\ PreflightInit /\ LaneInit
-----------------------------------------------------------------------------
small == <<pfvars, hlvars>>
stores == <<bfvars, appvars>>
lists == <<ltvars, wtvars, cvars>>
serving == <<scvars, labvars>>

Next ==
    /\ UNCHANGED scenario
    /\ \/ scenario = "applications" /\ AppNext /\ UNCHANGED <<small, bfvars, lists, serving>>
       \/ scenario = "backfills" /\ BackfillNext /\ UNCHANGED <<small, appvars, lists, serving>>
       \/ scenario = "listed" /\ ListedNext /\ UNCHANGED <<small, stores, wtvars, cvars, serving>>
       \/ scenario = "witness" /\ WitnessNext /\ UNCHANGED <<small, stores, ltvars, cvars, serving>>
       \/ scenario = "consistency" /\ ConsistencyNext /\ UNCHANGED <<small, stores, ltvars, wtvars, serving>>
       \/ scenario = "cache" /\ CacheNext /\ UNCHANGED <<small, stores, lists, labvars>>
       \/ scenario = "lab" /\ (Confirm \/ CliNext) /\ UNCHANGED <<small, stores, lists, scvars>>
       \/ scenario = "deploy" /\ (Confirm \/ EndpointNext \/ AnchorSelfSend)
            /\ UNCHANGED <<small, stores, lists, scvars>>
       \/ scenario = "preflight" /\ PreflightNext /\ UNCHANGED <<hlvars, stores, lists, serving>>
       \/ scenario = "lane" /\ LaneNext /\ UNCHANGED <<pfvars, stores, lists, serving>>

vars == <<scenario, small, stores, lists, serving>>
Spec == Init /\ [][Next]_vars
=============================================================================
