---- MODULE MCApplications ----
EXTENDS Applications, TLC
Decl(i, app, art, ok) == [index |-> i, app |-> app, art |-> art, rebuilds |-> ok]
Env(f, s, d) == <<[form |-> f, size |-> s, declares |-> d]>>
MCAppTxs == [t1 |-> [spends |-> {}, makes |-> <<"c", "d">>,
                     envelope |-> Env("whole", 1, <<Decl(1, "a", 1, TRUE), Decl(2, "b", 1, TRUE)>>)],
             t2 |-> [spends |-> {<<"t1", 2>>}, makes |-> <<"d">>,
                     envelope |-> Env("whole", 2, <<Decl(1, "b", 1, TRUE), Decl(2, "a", 1, TRUE)>>)],
             t3 |-> [spends |-> {<<"t1", 1>>}, makes |-> <<"c">>,
                     envelope |-> Env("whole", 1, <<Decl(1, "a", 2, TRUE)>>)]]
App(id, on, art, max) == [id |-> id, on |-> on, art |-> art, max |-> max, sound |-> TRUE]
MCManifests == {<< >>, <<<<App("a", TRUE, 1, 1)>>>>, <<<<App("a", TRUE, 1, 1), App("b", TRUE, 1, 2)>>>>,
                <<<<App("a", FALSE, 1, 1), [App("b", TRUE, 1, 2) EXCEPT !.sound = FALSE], App("b", TRUE, 1, 2)>>>>,
                <<<<App("a", TRUE, 2, 2), App("b", TRUE, 1, 1)>>>>}
====
