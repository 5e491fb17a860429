---- MODULE MCTokenLedger ----
EXTENDS TokenLedger

Cell(type, id, amount, minter) == [type |-> type, id |-> id, amount |-> amount, minter |-> minter]
Shape(outs, form, sigs, args, kas, co, at) ==
    [outs |-> outs, form |-> form, sigs |-> sigs, args |-> args, kas |-> kas, co |-> co, at |-> at]

W(n) == Cell(0, "w", n, 0)
M(n) == Cell(2, "m", n, 0)

\* (vkas + kas) * inventory = 8 on the honest curve
MCShapes == {
    Shape(<<M(4), W(1)>>, "p2sh", "kept", "foreign", 1, 0, 0),
    Shape(<<M(2), W(3)>>, "p2sh", "kept", "own", 3, 0, 1),
    Shape(<<M(4), W(1)>>, "p2sh", "lost", "own", 1, 0, NoTime),
    Shape(<<M(2), W(3)>>, "p2sh", "kept", "none", 3, 1, 0),
    Shape(<<W(3), Cell(2, "v", 1, 0)>>, "bare", "kept", "none", 3, 0, 2),
    Shape(<<Cell(3, "p", 1, 1), Cell(1, "s", 0, 0)>>, "p2sh", "kept", "foreign", 1, 0, 0),
    Shape(<<Cell(4, "u", 1, 0)>>, "bare", "kept", "none", 1, 0, 0),
    Shape(<<W(1)>>, "alien", "kept", "none", 1, 0, 0),
    Shape(<< >>, "bare", "kept", "none", 1, 0, 0)}

Prog(shape, vkas, selfLen, names) ==
    [shape |-> shape, vkas |-> vkas, creator |-> <<"c", "c">>, len |-> 9, selfLen |-> selfLen, names |-> names]
Honest == Prog("curve", <<1, 1>>, <<9, 9>>, "token")
Liar == Prog("curve", <<1, 2>>, <<9, 9>>, "token")
World(lineage, runs, minter) == [lineage |-> lineage, runs |-> runs, minter |-> minter]
MCWorlds == {World("complete", Honest, "quiet"), World("partial", Liar, "moves")}
====
