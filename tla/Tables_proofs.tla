----------------------------- MODULE Tables_proofs -----------------------------
(***************************************************************************)
(* For every chain, every node behaviour and any number of failures: event *)
(* rows, coins and covenant summaries tell the same story of the indexed   *)
(* blocks, and every lineage is numbered in the order of acceptance.  What *)
(* is counted needs nothing of the engine; what is ordered needs to know   *)
(* that a pass only applies blocks above the index and that a rollback     *)
(* takes what is above along.                                              *)
(***************************************************************************)
EXTENDS SyncEngine_proofs

-----------------------------------------------------------------------------
(* What consensus says of one chain *)

Makes(c, b) == c \in UNION {Outputs[t] : t \in AcceptedTxs(b)}
Takes(c, b) == c \in UNION {Inputs[t] : t \in AcceptedTxs(b)}

\* What a block accepts is a transaction of its list.
LEMMA Listed ==
    ASSUME NEW b \in Blocks
    PROVE  /\ DOMAIN Accepted[b] = 1..Len(Accepted[b]) /\ Len(Accepted[b]) \in Nat
           /\ \A i \in DOMAIN Accepted[b] : Accepted[b][i] \in Txs /\ Accepted[b][i] \in AcceptedTxs(b)
           /\ \A t \in AcceptedTxs(b) : t \in Txs /\ \E i \in DOMAIN Accepted[b] : Accepted[b][i] = t
<1>1. Accepted[b] \in Seq(Txs)
  BY DataAssumption
<1> QED
  BY <1>1 DEF AcceptedTxs

\* A chain accepts a transaction once.
LEMMA AcceptedOnce ==
    ASSUME NEW top \in Blocks, NEW a \in Path[top], NEW b \in Path[top],
           NEW t, t \in AcceptedTxs(a), t \in AcceptedTxs(b)
    PROVE  a = b
<1>1. a \in Blocks /\ b \in Blocks
  BY TreeAssumption
<1>2. a # b => a \in Path[b] \ {b} \/ b \in Path[a] \ {a}
  BY <1>1, TreeAssumption
<1> QED
  BY <1>1, <1>2, ConsensusAssumption

\* A coin has one creating block on a chain, ...
LEMMA OneCreator ==
    ASSUME NEW top \in Blocks, NEW a \in Path[top], NEW b \in Path[top],
           NEW c \in Coins, Makes(c, a), Makes(c, b)
    PROVE  a = b
<1>1. a \in Blocks /\ b \in Blocks
  BY TreeAssumption
<1>2. PICK t \in AcceptedTxs(a), u \in AcceptedTxs(b) : c \in Outputs[t] /\ c \in Outputs[u]
  BY DEF Makes
<1>3. t \in Txs /\ u \in Txs
  BY <1>1, Listed
<1>4. t = u
  BY <1>2, <1>3, ConsensusAssumption
<1> QED
  BY <1>4, AcceptedOnce

\* ... and one spending block.
LEMMA OneSpender ==
    ASSUME NEW top \in Blocks, NEW a \in Path[top], NEW b \in Path[top],
           NEW c \in Coins, Takes(c, a), Takes(c, b)
    PROVE  a = b
<1>1. a \in Blocks /\ b \in Blocks
  BY TreeAssumption
<1>2. PICK t \in AcceptedTxs(a), u \in AcceptedTxs(b) : c \in Inputs[t] /\ c \in Inputs[u]
  BY DEF Takes
<1>3. a # b => a \in Path[b] \ {b} \/ b \in Path[a] \ {a}
  BY <1>1, TreeAssumption
<1> QED
  BY <1>1, <1>2, <1>3, ConsensusAssumption

\* An earlier block of the chain never spends what a later one creates.
LEMMA NotSpentBefore ==
    ASSUME NEW b \in Blocks, NEW a \in Path[b] \ {b}, NEW c \in Coins, Takes(c, a)
    PROVE  ~Makes(c, b)
BY ConsensusAssumption DEF Makes, Takes

-----------------------------------------------------------------------------
(* Coins *)

CoinTypes == created \in [Coins -> Optional(Blocks)] /\ spent \in [Coins -> Optional(Blocks)]

\* CoinsMatchIndex as an induction needs it: a spend is keyed to an indexed
\* block, so a rollback finds it.
CoinsAgree ==
    \A c \in Coins :
        /\ created[c] = NoBlock <=> \A b \in Indexed : ~Makes(c, b)
        /\ created[c] # NoBlock => created[c] \in Indexed /\ Makes(c, created[c])
        /\ spent[c] # NoBlock => created[c] # NoBlock /\ spent[c] \in Indexed /\ Takes(c, spent[c])
        /\ created[c] # NoBlock => (spent[c] = NoBlock <=> \A b \in Indexed : ~Takes(c, b))

\* What classify finds: a block that creates or spends a watched coin has an
\* event, and it spends the live coins and its own that its inputs name.
LEMMA ClassifiedCoins ==
    ASSUME NEW b \in Blocks
    PROVE  LET B == Classify(b) IN
           /\ \A c : c \in B.created <=> Makes(c, b)
           /\ \A c \in B.spent : c \in Coins /\ Takes(c, b) /\ (Live(c) \/ Makes(c, b))
           /\ \A c \in Coins : Takes(c, b) /\ (Live(c) \/ Makes(c, b)) => c \in B.spent
           /\ B.events = {} => B.created = {} /\ B.spent = {}
<1> DEFINE B == Classify(b)
           D == DOMAIN Accepted[b]
<1>1. /\ D = 1..Len(Accepted[b]) /\ Len(Accepted[b]) \in Nat
      /\ \A i \in D : Accepted[b][i] \in Txs /\ Accepted[b][i] \in AcceptedTxs(b)
      /\ \A t \in AcceptedTxs(b) : t \in Txs /\ \E i \in D : Accepted[b][i] = t
  BY Listed
<1>2. B.spent = UNION {SpentBy(b, i) : i \in D} /\ B.created = UNION {Outputs[t] : t \in AcceptedTxs(b)}
  BY DEF Classify
<1>3. \A c : c \in B.created <=> Makes(c, b)
  BY <1>2 DEF Makes
<1>4. ASSUME NEW i \in D, NEW c \in SpentBy(b, i)
      PROVE  c \in Coins /\ Takes(c, b) /\ (Live(c) \/ Makes(c, b))
  <2>1. c \in Inputs[Accepted[b][i]] /\ Inputs[Accepted[b][i]] \subseteq Coins
    BY <1>1, DataAssumption DEF SpentBy
  <2>2. ASSUME ~Live(c) PROVE Makes(c, b)
    <3>1. PICK j \in 1..(i - 1) : c \in Outputs[Accepted[b][j]]
      BY <2>2 DEF SpentBy
    <3>2. j \in D
      BY <1>1
    <3> QED
      BY <1>1, <3>1, <3>2 DEF Makes
  <2> QED
    BY <1>1, <2>1, <2>2 DEF Takes
<1>5. ASSUME NEW c \in Coins, Takes(c, b), Live(c) \/ Makes(c, b)
      PROVE  \E i \in D : c \in SpentBy(b, i)
  <2>1. PICK i \in D : c \in Inputs[Accepted[b][i]]
    BY <1>1, <1>5 DEF Takes
  <2>2. CASE Live(c)
    BY <2>1, <2>2 DEF SpentBy
  <2>3. CASE Makes(c, b)
    <3>1. PICK j \in D : c \in Outputs[Accepted[b][j]]
      BY <1>1, <2>3 DEF Makes
    <3>2. ~(i <= j)
      BY <2>1, <3>1, ConsensusAssumption
    <3>3. j \in 1..(i - 1)
      BY <1>1, <3>2
    <3> QED
      BY <2>1, <3>1, <3>3 DEF SpentBy
  <2> QED
    BY <1>5, <2>2, <2>3
<1>6. ASSUME NEW i \in D, NEW v \in Touched(b, i) PROVE B.events # {}
  <2>1. [index |-> i, tx |-> Accepted[b][i], cov |-> v, kind |-> KindOf(b, i, v)] \in NewEvents(b)
    BY <1>6 DEF NewEvents
  <2> QED
    BY <2>1 DEF Classify
<1>7. ASSUME NEW c, c \in B.created \/ c \in B.spent PROVE B.events # {}
  <2>1. CASE c \in B.created
    <3>1. PICK i \in D : c \in Outputs[Accepted[b][i]]
      BY <1>1, <1>2, <2>1
    <3>2. CovenantOf[c] \in Touched(b, i)
      BY <3>1 DEF Touched
    <3> QED
      BY <1>6, <3>2
  <2>2. CASE c \in B.spent
    <3>1. PICK i \in D : c \in SpentBy(b, i)
      BY <1>2, <2>2
    <3>2. CovenantOf[c] \in Touched(b, i)
      BY <3>1 DEF Touched
    <3> QED
      BY <1>6, <3>2
  <2> QED
    BY <1>7, <2>1, <2>2
<1>8. \A c \in B.spent : \E i \in D : c \in SpentBy(b, i)
  BY <1>2
<1>9. \A c : (\E i \in D : c \in SpentBy(b, i)) => c \in B.spent
  BY <1>2
<1> HIDE DEF B, D
<1>10. /\ \A c \in B.spent : c \in Coins /\ Takes(c, b) /\ (Live(c) \/ Makes(c, b))
       /\ \A c \in Coins : Takes(c, b) /\ (Live(c) \/ Makes(c, b)) => c \in B.spent
  BY <1>4, <1>5, <1>8, <1>9
<1>11. B.events = {} => B.created = {} /\ B.spent = {}
  BY <1>7
<1> QED
  BY <1>3, <1>10, <1>11 DEF B

\* A classified block above the index: its coins are new, its spends the first.
LEMMA ApplyKeepsCoins ==
    ASSUME CoinTypes, CoinsAgree, NEW b \in Blocks, Indexed \subseteq Path[b] \ {b},
           WriteCoins(Classify(b)),
           Indexed' = IF Classify(b).events = {} THEN Indexed ELSE Indexed \cup {b}
    PROVE  CoinTypes' /\ CoinsAgree'
<1> DEFINE B == Classify(b)
<1>1. /\ \A c : c \in B.created <=> Makes(c, b)
      /\ \A c \in B.spent : c \in Coins /\ Takes(c, b) /\ (Live(c) \/ Makes(c, b))
      /\ \A c \in Coins : Takes(c, b) /\ (Live(c) \/ Makes(c, b)) => c \in B.spent
      /\ B.events = {} => B.created = {} /\ B.spent = {}
  BY ClassifiedCoins
<1>2. B.block = b
  BY DEF Classify
<1>3. /\ created' = [c \in Coins |-> IF c \in B.created THEN b ELSE created[c]]
      /\ spent' = [c \in Coins |-> IF c \in B.spent THEN b
                                   ELSE IF c \in B.created THEN NoBlock ELSE spent[c]]
      /\ Indexed' = IF B.events = {} THEN Indexed ELSE Indexed \cup {b}
  BY <1>2 DEF WriteCoins
<1> HIDE DEF B
<1>4. b # NoBlock /\ b \in Path[b]
  BY TreeAssumption
<1>5. CoinTypes'
  BY <1>3 DEF CoinTypes, Optional
<1>6. \A a \in Indexed : a \in Path[b] /\ a # b
  OBVIOUS
<1>7. ASSUME NEW c \in Coins, Makes(c, b), NEW a \in Indexed PROVE ~Makes(c, a) /\ ~Takes(c, a)
  BY <1>4, <1>6, <1>7, OneCreator, NotSpentBefore
<1>8. ASSUME NEW c \in Coins, Takes(c, b), NEW a \in Indexed PROVE ~Takes(c, a)
  BY <1>4, <1>6, <1>8, OneSpender
<1>9. ASSUME NEW c \in Coins
      PROVE  /\ created'[c] = NoBlock <=> \A a \in Indexed' : ~Makes(c, a)
             /\ created'[c] # NoBlock => created'[c] \in Indexed' /\ Makes(c, created'[c])
             /\ spent'[c] # NoBlock => /\ created'[c] # NoBlock
                                       /\ spent'[c] \in Indexed' /\ Takes(c, spent'[c])
             /\ created'[c] # NoBlock => (spent'[c] = NoBlock <=> \A a \in Indexed' : ~Takes(c, a))
  <2>1. /\ created'[c] = IF Makes(c, b) THEN b ELSE created[c]
        /\ spent'[c] = IF c \in B.spent THEN b ELSE IF Makes(c, b) THEN NoBlock ELSE spent[c]
    BY <1>1, <1>3
  <2>2. /\ created[c] = NoBlock <=> \A a \in Indexed : ~Makes(c, a)
        /\ created[c] # NoBlock => created[c] \in Indexed /\ Makes(c, created[c])
        /\ spent[c] # NoBlock => created[c] # NoBlock /\ spent[c] \in Indexed /\ Takes(c, spent[c])
        /\ created[c] # NoBlock => (spent[c] = NoBlock <=> \A a \in Indexed : ~Takes(c, a))
    BY DEF CoinsAgree
  <2>3. Live(c) <=> created[c] # NoBlock /\ spent[c] = NoBlock
    BY DEF Live
  <2>4. /\ c \in B.spent <=> Takes(c, b) /\ (Live(c) \/ Makes(c, b))
        /\ c \in B.spent \/ Makes(c, b) => Indexed' = Indexed \cup {b}
        /\ Indexed' = Indexed \/ Indexed' = Indexed \cup {b}
    BY <1>1, <1>3
  <2>5. CASE Makes(c, b)
    <3>1. created'[c] = b /\ Indexed' = Indexed \cup {b}
      BY <2>1, <2>4, <2>5
    <3>2. \A a \in Indexed : ~Takes(c, a)
      BY <1>7, <2>5
    <3>3. spent'[c] = IF Takes(c, b) THEN b ELSE NoBlock
      BY <2>1, <2>4, <2>5
    <3> QED
      BY <1>4, <2>5, <3>1, <3>2, <3>3
  <2>6. CASE ~Makes(c, b) /\ c \in B.spent
    <3>1. created'[c] = created[c] /\ created[c] # NoBlock /\ Indexed' = Indexed \cup {b} /\ Takes(c, b)
      BY <2>1, <2>3, <2>4, <2>6
    <3>2. spent'[c] = b
      BY <2>1, <2>6
    <3> QED
      BY <1>4, <2>2, <2>6, <3>1, <3>2
  <2>7. CASE ~Makes(c, b) /\ c \notin B.spent
    <3>1. created'[c] = created[c] /\ spent'[c] = spent[c]
      BY <2>1, <2>7
    <3>2. created[c] # NoBlock /\ spent[c] = NoBlock => ~Takes(c, b)
      BY <2>3, <2>4, <2>7
    <3> QED
      BY <2>2, <2>4, <2>7, <3>1, <3>2
  <2> QED
    BY <2>5, <2>6, <2>7
<1> QED
  BY <1>5, <1>9 DEF CoinsAgree

\* A rollback of indexed blocks undoes what they alone did.
LEMMA RollbackKeepsCoins ==
    ASSUME CoinTypes, CoinsAgree, NEW top \in Blocks, Indexed \subseteq Path[top],
           NEW C, NoBlock \notin C, UndoCoins(C), Indexed' = Indexed \ C
    PROVE  CoinTypes' /\ CoinsAgree'
<1>1. /\ created' = [c \in Coins |-> IF created[c] \in C THEN NoBlock ELSE created[c]]
      /\ spent' = [c \in Coins |-> IF spent[c] \in C \/ created[c] \in C THEN NoBlock ELSE spent[c]]
  BY DEF UndoCoins
<1>2. CoinTypes'
  BY <1>1 DEF CoinTypes, Optional
<1>3. ASSUME NEW c \in Coins
      PROVE  /\ created'[c] = NoBlock <=> \A a \in Indexed' : ~Makes(c, a)
             /\ created'[c] # NoBlock => created'[c] \in Indexed' /\ Makes(c, created'[c])
             /\ spent'[c] # NoBlock => /\ created'[c] # NoBlock
                                       /\ spent'[c] \in Indexed' /\ Takes(c, spent'[c])
             /\ created'[c] # NoBlock => (spent'[c] = NoBlock <=> \A a \in Indexed' : ~Takes(c, a))
  <2>1. /\ created'[c] = IF created[c] \in C THEN NoBlock ELSE created[c]
        /\ spent'[c] = IF spent[c] \in C \/ created[c] \in C THEN NoBlock ELSE spent[c]
    BY <1>1
  <2>2. /\ created[c] = NoBlock <=> \A a \in Indexed : ~Makes(c, a)
        /\ created[c] # NoBlock => created[c] \in Indexed /\ Makes(c, created[c])
        /\ spent[c] # NoBlock => created[c] # NoBlock /\ spent[c] \in Indexed /\ Takes(c, spent[c])
        /\ created[c] # NoBlock => (spent[c] = NoBlock <=> \A a \in Indexed : ~Takes(c, a))
    BY DEF CoinsAgree
  <2>3. \A a \in Indexed : Makes(c, a) /\ created[c] # NoBlock => a = created[c]
    BY <2>2, OneCreator
  <2>4. \A a \in Indexed : Takes(c, a) /\ spent[c] # NoBlock => a = spent[c]
    BY <2>2, OneSpender
  <2> QED
    BY <2>1, <2>2, <2>3, <2>4
<1> QED
  BY <1>2, <1>3 DEF CoinsAgree

-----------------------------------------------------------------------------
(* Numbers inside a covenant *)

Own(v) == {r \in rows : r.cov = v}

\* The events of a covenant are numbered from zero without a hole.
Numbered == \A v \in Covenants : {r.seq : r \in Own(v)} = 0..(Cardinality(Own(v)) - 1)

Hits(B, v) == {e \in B.events : e.cov = v}

\* The largest number taken, plus one, is how many are taken.
LEMMA NextFree ==
    ASSUME NEW n \in Nat
    PROVE  LET taken == 0..(n - 1)
           IN  n = IF taken = {} THEN 0 ELSE 1 + CHOOSE m \in taken : \A k \in taken : k <= m
<1> DEFINE taken == 0..(n - 1)
           Top(m) == \A k \in taken : k <= m
<1>1. CASE n = 0
  <2>1. taken = {}
    BY <1>1
  <2> QED
    BY <1>1, <2>1
<1>2. CASE n # 0
  <2>1. n - 1 \in taken /\ Top(n - 1)
    BY <1>2
  <2>2. (CHOOSE m \in taken : Top(m)) \in taken /\ Top(CHOOSE m \in taken : Top(m))
    BY <2>1
  <2> DEFINE top == CHOOSE m \in taken : Top(m)
  <2>3. top \in taken /\ Top(top)
    BY <2>2
  <2> HIDE DEF top
  <2>4. top = n - 1
    BY <2>1, <2>3
  <2>5. taken # {} /\ 1 + top = n
    BY <2>1, <2>4
  <2> QED
    BY <2>5 DEF top
<1> QED
  BY <1>1, <1>2

\* The events of one batch on one covenant continue its numbering, in the order
\* of the batch.
LEMMA CovenantNumbers ==
    ASSUME NEW B, Keys(B), Numbered, IsFiniteSet(rows), NEW v \in Covenants
    PROVE  LET n == Cardinality(Own(v))
               h == Cardinality(Hits(B, v))
           IN  /\ n \in Nat /\ h \in Nat
               /\ {CovenantSeq(B, e) : e \in Hits(B, v)} = n..(n + h - 1)
               /\ \A e \in Hits(B, v) : CovenantSeq(B, e) \in n..(n + h - 1)
               /\ \A e, f \in Hits(B, v) : CovenantSeq(B, e) < CovenantSeq(B, f) <=> EventBefore(e, f)
<1> DEFINE S == Hits(B, v)
           R == {p \in S \X S : EventBefore(p[1], p[2])}
           n == Cardinality(Own(v))
           h == Cardinality(S)
<1>1. IsFiniteSet(S)
  <2>1. S \in SUBSET B.events
    BY DEF Hits
  <2> QED
    BY <2>1, FS_Subset DEF Keys
<1>2. IsFiniteSet(Own(v))
  <2>1. Own(v) \in SUBSET rows
    BY DEF Own
  <2> QED
    BY <2>1, FS_Subset
<1>3. n \in Nat /\ h \in Nat
  BY <1>1, <1>2, FS_CardinalityType
<1>4. Orders(R, S)
  BY DEF Orders, Keys, EventBefore, Hits
<1>5. \A e \in S : CovenantSeq(B, e) = n + Place(e, R, S)
  <2> SUFFICES ASSUME NEW e \in S PROVE CovenantSeq(B, e) = n + Place(e, R, S)
    OBVIOUS
  <2> DEFINE taken == {r.seq : r \in {q \in rows : q.cov = e.cov}}
  <2>1. e.cov = v /\ e \in B.events
    BY DEF Hits
  <2>2. {f \in B.events : f.cov = e.cov /\ EventBefore(f, e)} = {y \in S : <<y, e>> \in R}
    BY <2>1 DEF Hits
  <2>3. taken = 0..(n - 1)
    BY <2>1 DEF Numbered, Own
  <2>4. CovenantSeq(B, e) = (IF taken = {} THEN 0 ELSE 1 + CHOOSE m \in taken : \A k \in taken : k <= m)
                            + Cardinality({f \in B.events : f.cov = e.cov /\ EventBefore(f, e)})
    BY DEF CovenantSeq
  <2> HIDE DEF taken, n, S, R
  <2>5. n = IF taken = {} THEN 0 ELSE 1 + CHOOSE m \in taken : \A k \in taken : k <= m
    BY <1>3, <2>3, NextFree
  <2> QED
    BY <2>2, <2>4, <2>5 DEF Place
<1>6. \A e, f \in S : EventBefore(e, f) <=> <<e, f>> \in R
  OBVIOUS
<1>7. \A e, f \in S : EventBefore(e, f) \/ EventBefore(f, e) \/ e = f
  BY DEF Keys, EventBefore, Hits
<1> HIDE DEF S, R, n, h
<1>8. /\ {Place(e, R, S) : e \in S} = 0..(h - 1)
      /\ h = Cardinality(S)
  BY <1>1, <1>4, PlacesAreDense DEF h
<1>9. \A e \in S : Place(e, R, S) \in 0..(h - 1)
  BY <1>8
<1>10. \A i \in 0..(h - 1) : \E e \in S : Place(e, R, S) = i
  BY <1>8
<1>11. \A e \in S : CovenantSeq(B, e) \in n..(n + h - 1)
  BY <1>3, <1>5, <1>9
<1>12. ASSUME NEW m \in n..(n + h - 1) PROVE \E e \in S : CovenantSeq(B, e) = m
  <2>1. m - n \in 0..(h - 1)
    BY <1>3
  <2>2. PICK e \in S : Place(e, R, S) = m - n
    BY <1>10, <2>1
  <2> QED
    BY <1>3, <1>5, <2>2
<1>13. {CovenantSeq(B, e) : e \in S} = n..(n + h - 1)
  BY <1>11, <1>12
<1>14. ASSUME NEW e \in S, NEW f \in S
       PROVE  CovenantSeq(B, e) < CovenantSeq(B, f) <=> EventBefore(e, f)
  <2>1. Place(e, R, S) \in Nat /\ Place(f, R, S) \in Nat
    BY <1>1, <1>4, PlaceBound
  <2>2. EventBefore(e, f) => Place(e, R, S) < Place(f, R, S)
    BY <1>1, <1>4, <1>6, PlaceGrows
  <2>3. EventBefore(f, e) => Place(f, R, S) < Place(e, R, S)
    BY <1>1, <1>4, <1>6, PlaceGrows
  <2> QED
    BY <1>3, <1>5, <1>7, <2>1, <2>2, <2>3
<1> QED
  BY <1>3, <1>11, <1>13, <1>14 DEF S, n, h

\* The stream numbers of a batch follow the same order.
LEMMA StreamNumbers ==
    ASSUME NEW B, Keys(B), nextSeq \in Nat
    PROVE  \A e, f \in B.events : StreamSeq(B, e) < StreamSeq(B, f) <=> EventBefore(e, f)
<1> DEFINE S == B.events
           R == {p \in S \X S : EventBefore(p[1], p[2])}
<1>1. Orders(R, S) /\ IsFiniteSet(S)
  BY DEF Orders, Keys, EventBefore
<1>2. \A e \in S : StreamSeq(B, e) = nextSeq + Place(e, R, S)
  <2> SUFFICES ASSUME NEW e \in S PROVE StreamSeq(B, e) = nextSeq + Place(e, R, S)
    OBVIOUS
  <2>1. {y \in S : EventBefore(y, e)} = {y \in S : <<y, e>> \in R}
    OBVIOUS
  <2> QED
    BY <2>1 DEF StreamSeq, Rank, Place
<1>3. \A e, f \in S : EventBefore(e, f) <=> <<e, f>> \in R
  OBVIOUS
<1>4. \A e, f \in S : EventBefore(e, f) \/ EventBefore(f, e) \/ e = f
  BY DEF Keys, EventBefore
<1> HIDE DEF S, R
<1>5. ASSUME NEW e \in S, NEW f \in S
      PROVE  StreamSeq(B, e) < StreamSeq(B, f) <=> EventBefore(e, f)
  <2>1. Place(e, R, S) \in Nat /\ Place(f, R, S) \in Nat
    BY <1>1, PlaceBound
  <2>2. EventBefore(e, f) => Place(e, R, S) < Place(f, R, S)
    BY <1>1, <1>3, PlaceGrows
  <2>3. EventBefore(f, e) => Place(f, R, S) < Place(e, R, S)
    BY <1>1, <1>3, PlaceGrows
  <2> QED
    BY <1>2, <1>4, <2>1, <2>2, <2>3
<1> QED
  BY <1>5 DEF S

-----------------------------------------------------------------------------
(* Rows and summaries *)

\* A row belongs to a block that has a batch, so a rollback finds it.
RowTypes ==
    /\ IsFiniteSet(rows)
    /\ \A r \in rows : /\ r.cov \in Covenants
                       /\ r.block \in DOMAIN batches /\ r.tx \in AcceptedTxs(r.block)
                       /\ r.stream \in Nat /\ r.stream < nextSeq

CountsMatch ==
    /\ DOMAIN summary = {r.cov : r \in rows}
    /\ \A v \in DOMAIN summary :
          /\ summary[v] \in [events : Nat, last : Nat, complete : BOOLEAN]
          /\ summary[v].events = Cardinality(Own(v))

\* lineage_complete tells whether the first event proved the genesis.
GenesisTold ==
    \A v \in DOMAIN summary :
        summary[v].complete <=> \E r \in Own(v) : r.seq = 0 /\ r.kind = "genesis"

Ordered ==
    \A r, q \in rows : r.cov = q.cov =>
        /\ r.seq < q.seq <=> AcceptedBefore(r, q)
        /\ r.stream < q.stream <=> AcceptedBefore(r, q)

RowOf(B, e) ==
    [cov |-> e.cov, seq |-> CovenantSeq(B, e), kind |-> e.kind, tx |-> e.tx,
     block |-> B.block, stream |-> StreamSeq(B, e)]

\* A batch makes one row per event.
LEMMA RowPerEvent ==
    ASSUME NEW B, Keys(B), nextSeq \in Nat
    PROVE  /\ NewRows(B) = {RowOf(B, e) : e \in B.events}
           /\ IsFiniteSet(NewRows(B))
           /\ \A v : /\ {r \in NewRows(B) : r.cov = v} = {RowOf(B, e) : e \in Hits(B, v)}
                     /\ IsFiniteSet(Hits(B, v))
                     /\ Cardinality({r \in NewRows(B) : r.cov = v}) = Cardinality(Hits(B, v))
<1> DEFINE row(e) == RowOf(B, e)
<1>1. NewRows(B) = {row(e) : e \in B.events}
  BY DEF NewRows, RowOf
<1>2. \A e, f \in B.events : row(e) = row(f) => e = f
  <2>1. \A e \in B.events : row(e).stream = StreamSeq(B, e)
    BY DEF RowOf
  <2> HIDE DEF row
  <2> QED
    BY <2>1, AcceptedNumbers
<1>3. IsFiniteSet(B.events)
  BY DEF Keys
<1>4. \A e \in B.events : row(e).cov = e.cov
  BY DEF RowOf
<1> HIDE DEF row
<1>5. ASSUME NEW S \in SUBSET B.events
      PROVE  IsFiniteSet({row(e) : e \in S}) /\ Cardinality({row(e) : e \in S}) = Cardinality(S)
  <2> DEFINE f == [e \in S |-> row(e)]
             T == {row(e) : e \in S}
  <2>1. f \in Bijection(S, T)
    BY <1>2 DEF Bijection, Injection, IsInjective, Surjection
  <2>2. IsFiniteSet(S)
    BY <1>3, FS_Subset
  <2>3. ExistsBijection(S, T)
    BY <2>1 DEF ExistsBijection
  <2> HIDE DEF T
  <2>4. IsFiniteSet(T) /\ Cardinality(T) = Cardinality(S)
    BY <2>2, <2>3, FS_Bijection
  <2> QED
    BY <2>4 DEF T
<1>6. ASSUME NEW v
      PROVE  /\ {r \in NewRows(B) : r.cov = v} = {row(e) : e \in Hits(B, v)}
             /\ IsFiniteSet(Hits(B, v))
             /\ Cardinality({r \in NewRows(B) : r.cov = v}) = Cardinality(Hits(B, v))
  <2>1. Hits(B, v) \in SUBSET B.events
    BY DEF Hits
  <2>2. {r \in NewRows(B) : r.cov = v} = {row(e) : e \in Hits(B, v)}
    BY <1>1, <1>4 DEF Hits
  <2>3. Cardinality({row(e) : e \in Hits(B, v)}) = Cardinality(Hits(B, v))
    BY <1>5, <2>1
  <2> QED
    BY <1>3, <2>1, <2>2, <2>3, FS_Subset
<1>7. IsFiniteSet(NewRows(B))
  BY <1>1, <1>5
<1> QED
  BY <1>1, <1>6, <1>7 DEF row

\* What classify says of the events of a block.
LEMMA ClassifiedEvents ==
    ASSUME NEW b \in Blocks
    PROVE  /\ \A e \in Classify(b).events :
                  /\ e.index \in DOMAIN Accepted[b] /\ e.tx = Accepted[b][e.index]
                  /\ e.cov \in Touched(b, e.index) /\ e.cov \in Covenants
                  /\ e.kind = KindOf(b, e.index, e.cov)
           /\ \A i \in DOMAIN Accepted[b] : \A v \in Touched(b, i) :
                  \E e \in Classify(b).events : e.index = i /\ e.cov = v /\ e.tx = Accepted[b][i]
<1>1. Classify(b).events = NewEvents(b)
  BY DEF Classify
<1>2. ASSUME NEW i \in DOMAIN Accepted[b] PROVE Touched(b, i) \subseteq Covenants
  <2>1. Accepted[b][i] \in Txs
    BY Listed
  <2>2. SpentBy(b, i) \cup Outputs[Accepted[b][i]] \subseteq Coins
    BY <2>1, DataAssumption DEF SpentBy
  <2> QED
    BY <2>2, DataAssumption DEF Touched
<1>3. \A e \in NewEvents(b) : /\ e.index \in DOMAIN Accepted[b] /\ e.tx = Accepted[b][e.index]
                              /\ e.cov \in Touched(b, e.index)
                              /\ e.kind = KindOf(b, e.index, e.cov)
  BY DEF NewEvents
<1>4. ASSUME NEW i \in DOMAIN Accepted[b], NEW v \in Touched(b, i)
      PROVE  \E e \in NewEvents(b) : e.index = i /\ e.cov = v /\ e.tx = Accepted[b][i]
  <2> DEFINE e == [index |-> i, tx |-> Accepted[b][i], cov |-> v, kind |-> KindOf(b, i, v)]
  <2>1. e \in NewEvents(b)
    BY <1>4 DEF NewEvents
  <2> QED
    BY <2>1
<1> QED
  BY <1>1, <1>2, <1>3, <1>4

\* No row comes from the block yet.
NoRowsFrom(b) == IsFiniteSet(rows) /\ \A r \in rows : r.cov \in Covenants /\ r.block # b

\* The rows of a classified block are new ones, and each covenant's are counted.
LEMMA ApplyAddsRows ==
    ASSUME NEW b \in Blocks, NoRowsFrom(b), nextSeq \in Nat,
           rows' = rows \cup NewRows(Classify(b))
    PROVE  /\ IsFiniteSet(rows')
           /\ \A r \in NewRows(Classify(b)) :
                 /\ r.cov \in Covenants /\ r.block = b /\ r.tx \in AcceptedTxs(b)
                 /\ r.stream \in nextSeq..(nextSeq + Cardinality(Classify(b).events) - 1)
                 /\ r \notin rows
           /\ \A v : /\ Own(v)' = Own(v) \cup {r \in NewRows(Classify(b)) : r.cov = v}
                     /\ Cardinality(Own(v))' = Cardinality(Own(v)) + Cardinality(Hits(Classify(b), v))
                     /\ Cardinality(Own(v)) \in Nat /\ Cardinality(Hits(Classify(b), v)) \in Nat
<1> DEFINE B == Classify(b)
           N == NewRows(B)
<1>1. Keys(B) /\ B.block = b
  BY ClassifiedKeys DEF Classify
<1>2. \A e \in B.events : e.cov \in Covenants /\ e.tx \in AcceptedTxs(b)
  BY ClassifiedEvents, Listed
<1> HIDE DEF B
<1>3. /\ N = {RowOf(B, e) : e \in B.events}
      /\ IsFiniteSet(N)
      /\ \A v : /\ IsFiniteSet(Hits(B, v))
                /\ Cardinality({r \in N : r.cov = v}) = Cardinality(Hits(B, v))
  BY <1>1, RowPerEvent
<1>4. \A e \in B.events : StreamSeq(B, e) \in nextSeq..(nextSeq + Cardinality(B.events) - 1)
  BY <1>1, AcceptedNumbers
<1>5. \A r \in N : /\ r.cov \in Covenants /\ r.block = b /\ r.tx \in AcceptedTxs(b)
                   /\ r.stream \in nextSeq..(nextSeq + Cardinality(B.events) - 1)
  BY <1>1, <1>2, <1>3, <1>4 DEF RowOf
<1>6. rows' = rows \cup N
  BY DEF B
<1> HIDE DEF N
<1>7. IsFiniteSet(rows')
  <2>1. IsFiniteSet(rows \cup N)
    BY <1>3, FS_Union DEF NoRowsFrom
  <2> QED
    BY <1>6, <2>1
<1>8. \A r \in N : r \notin rows
  BY <1>5 DEF NoRowsFrom
<1>9. ASSUME NEW v
      PROVE  /\ Own(v)' = Own(v) \cup {r \in N : r.cov = v}
             /\ Cardinality(Own(v))' = Cardinality(Own(v)) + Cardinality(Hits(B, v))
             /\ Cardinality(Own(v)) \in Nat /\ Cardinality(Hits(B, v)) \in Nat
  <2> DEFINE M == {r \in N : r.cov = v}
  <2>1. Own(v)' = Own(v) \cup M
    BY <1>6 DEF Own
  <2>2. M \in SUBSET N /\ Own(v) \in SUBSET rows /\ Own(v) \cap M = {}
    BY <1>8 DEF Own
  <2>3. Cardinality(M) = Cardinality(Hits(B, v)) /\ IsFiniteSet(Hits(B, v))
    BY <1>3
  <2> HIDE DEF M
  <2>4. IsFiniteSet(M) /\ IsFiniteSet(Own(v))
    BY <1>3, <2>2, FS_Subset DEF NoRowsFrom
  <2>5. Cardinality(M) \in Nat /\ Cardinality(Own(v)) \in Nat
    BY <2>4, FS_CardinalityType
  <2>6. Cardinality(Own(v) \cup M) = Cardinality(Own(v)) + Cardinality(M) - Cardinality({})
    BY <2>2, <2>4, FS_Union
  <2>7. Cardinality({}) = 0
    BY FS_EmptySet
  <2> QED
    BY <2>1, <2>3, <2>5, <2>6, <2>7 DEF M
<1> QED
  BY <1>5, <1>7, <1>8, <1>9 DEF B, N

\* In the engine such a row finds its batch.
LEMMA ApplyKeepsRows ==
    ASSUME RowTypes, nextSeq \in Nat, NEW b \in Blocks, b \notin DOMAIN batches,
           rows' = rows \cup NewRows(Classify(b)),
           nextSeq' = nextSeq + Cardinality(Classify(b).events),
           DOMAIN batches' = DOMAIN batches \cup {b}
    PROVE  /\ RowTypes'
           /\ NoRowsFrom(b)
           /\ \A r \in NewRows(Classify(b)) : r.block = b /\ r.stream >= nextSeq /\ r \notin rows
<1> DEFINE B == Classify(b)
           N == NewRows(B)
<1>1. NoRowsFrom(b)
  BY DEF NoRowsFrom, RowTypes
<1>2. /\ IsFiniteSet(rows')
      /\ \A r \in N : /\ r.cov \in Covenants /\ r.block = b /\ r.tx \in AcceptedTxs(b)
                       /\ r.stream \in nextSeq..(nextSeq + Cardinality(B.events) - 1)
                       /\ r \notin rows
  BY <1>1, ApplyAddsRows
<1>3. Keys(B)
  BY ClassifiedKeys
<1>4. rows' = rows \cup N /\ nextSeq' = nextSeq + Cardinality(B.events)
  OBVIOUS
<1> HIDE DEF B, N
<1>5. Cardinality(B.events) \in Nat
  BY <1>3, AcceptedNumbers
<1>6. \A r \in N : r.stream \in Nat /\ r.stream >= nextSeq /\ r.stream < nextSeq'
  BY <1>2, <1>4, <1>5
<1>7. \A r \in rows : r.stream \in Nat /\ r.stream < nextSeq'
  BY <1>4, <1>5 DEF RowTypes
<1>8. RowTypes'
  BY <1>2, <1>4, <1>6, <1>7 DEF RowTypes
<1> QED
  BY <1>1, <1>2, <1>6, <1>8 DEF B, N

\* event_count follows the rows.
LEMMA ApplyKeepsCounts ==
    ASSUME NEW b \in Blocks, NoRowsFrom(b), CountsMatch, nextSeq \in Nat,
           rows' = rows \cup NewRows(Classify(b)),
           summary' = SummaryAfter(Classify(b))
    PROVE  CountsMatch'
<1> DEFINE B == Classify(b)
           touched == {e.cov : e \in B.events}
           first(v) == CHOOSE e \in Hits(B, v) : \A f \in Hits(B, v) : ~EventBefore(f, e)
<1>1. Keys(B) /\ B.daa \in Nat
  BY ClassifiedKeys, TreeAssumption DEF Classify
<1>2. \A v : /\ Cardinality(Own(v))' = Cardinality(Own(v)) + Cardinality(Hits(B, v))
             /\ Cardinality(Own(v)) \in Nat /\ Cardinality(Hits(B, v)) \in Nat
  BY ApplyAddsRows
<1>3. {r.cov : r \in NewRows(B)} = touched
  <2>1. NewRows(B) = {RowOf(B, e) : e \in B.events}
    BY <1>1, RowPerEvent
  <2>2. \A e : RowOf(B, e).cov = e.cov
    BY DEF RowOf
  <2> HIDE DEF B
  <2> QED
    BY <2>1, <2>2
<1>4. rows' = rows \cup NewRows(B) /\ summary' = SummaryAfter(B)
  OBVIOUS
<1> HIDE DEF B
<1>5. summary' = [v \in DOMAIN summary \cup touched |->
            IF v \notin touched THEN summary[v]
            ELSE IF v \in DOMAIN summary
                   THEN [summary[v] EXCEPT !.events = @ + Cardinality(Hits(B, v)), !.last = B.daa]
                   ELSE [events   |-> Cardinality(Hits(B, v)),
                         last     |-> B.daa,
                         complete |-> first(v).kind = "genesis"]]
  BY <1>4 DEF SummaryAfter, Hits, KnownCovenant
<1>6. DOMAIN summary' = {r.cov : r \in rows'}
  <2>1. {r.cov : r \in rows'} = {r.cov : r \in rows} \cup {r.cov : r \in NewRows(B)}
    BY <1>4
  <2> QED
    BY <1>3, <1>5, <2>1 DEF CountsMatch
<1> HIDE DEF first
<1>7. ASSUME NEW v \in DOMAIN summary'
      PROVE  /\ summary'[v] \in [events : Nat, last : Nat, complete : BOOLEAN]
             /\ summary'[v].events = Cardinality(Own(v))'
  <2>1. CASE v \notin touched
    <3>1. Hits(B, v) = {}
      BY <2>1 DEF Hits
    <3>2. Cardinality(Own(v))' = Cardinality(Own(v))
      BY <1>2, <3>1, FS_EmptySet
    <3>3. v \in DOMAIN summary /\ summary'[v] = summary[v]
      BY <1>5, <1>7, <2>1
    <3> QED
      BY <3>2, <3>3 DEF CountsMatch
  <2>2. CASE v \in touched /\ v \in DOMAIN summary
    <3> DEFINE s == summary[v]
               h == Cardinality(Hits(B, v))
    <3>1. s \in [events : Nat, last : Nat, complete : BOOLEAN] /\ s.events = Cardinality(Own(v))
      BY <2>2 DEF CountsMatch
    <3>2. summary'[v] = [s EXCEPT !.events = s.events + h, !.last = B.daa]
      BY <1>5, <2>2
    <3>3. h \in Nat /\ Cardinality(Own(v))' = Cardinality(Own(v)) + h
      BY <1>2
    <3> HIDE DEF s, h
    <3>4. s = [events |-> s.events, last |-> s.last, complete |-> s.complete]
      BY <3>1
    <3>5. summary'[v] = [events |-> s.events + h, last |-> B.daa, complete |-> s.complete]
      BY <3>2, <3>4
    <3> QED
      BY <1>1, <3>1, <3>3, <3>5
  <2>3. CASE v \in touched /\ v \notin DOMAIN summary
    <3>1. Own(v) = {}
      BY <2>3 DEF CountsMatch, Own
    <3>2. Cardinality(Own(v))' = Cardinality(Hits(B, v)) /\ Cardinality(Hits(B, v)) \in Nat
      <4>1. Cardinality(Own(v)) = 0
        BY <3>1, FS_EmptySet
      <4> QED
        BY <1>2, <4>1
    <3>3. summary'[v] = [events |-> Cardinality(Hits(B, v)), last |-> B.daa,
                         complete |-> first(v).kind = "genesis"]
      BY <1>5, <2>3
    <3> QED
      BY <1>1, <3>2, <3>3
  <2> QED
    BY <2>1, <2>2, <2>3
<1> QED
  BY <1>6, <1>7 DEF CountsMatch

\* A row's place in the list of its block.
LEMMA PositionIs ==
    ASSUME NEW b \in Blocks, NEW i \in DOMAIN Accepted[b],
           NEW r, r.block = b, r.tx = Accepted[b][i]
    PROVE  Position(r) = i
<1>1. \A j \in DOMAIN Accepted[b] : Accepted[b][j] = Accepted[b][i] => j = i
  BY ConsensusAssumption
<1> QED
  BY <1>1 DEF Position

\* A classified block above the index continues the numbering of each lineage.
LEMMA ApplyKeepsNumbers ==
    ASSUME NEW b \in Blocks, NoRowsFrom(b), Numbered, nextSeq \in Nat,
           rows' = rows \cup NewRows(Classify(b))
    PROVE  Numbered'
<1> DEFINE B == Classify(b)
           N == NewRows(B)
<1>1. Keys(B)
  BY ClassifiedKeys
<1>2. N = {RowOf(B, e) : e \in B.events}
  BY <1>1, RowPerEvent
<1>3. \A v : /\ Own(v)' = Own(v) \cup {r \in N : r.cov = v}
             /\ Cardinality(Own(v))' = Cardinality(Own(v)) + Cardinality(Hits(B, v))
  BY ApplyAddsRows
<1> HIDE DEF B, N
<1>4. SUFFICES ASSUME NEW v \in Covenants,
                      NEW own, own = Own(v)', NEW k, k = Cardinality(Own(v))'
               PROVE  {r.seq : r \in own} = 0..(k - 1)
  BY DEF Numbered
<1> DEFINE n == Cardinality(Own(v))
           h == Cardinality(Hits(B, v))
           M == {r \in N : r.cov = v}
<1>5. /\ n \in Nat /\ h \in Nat
      /\ {CovenantSeq(B, e) : e \in Hits(B, v)} = n..(n + h - 1)
  BY <1>1, CovenantNumbers DEF NoRowsFrom
<1>6. \A e : RowOf(B, e).cov = e.cov /\ RowOf(B, e).seq = CovenantSeq(B, e)
  BY DEF RowOf
<1>7. {r.seq : r \in M} = {CovenantSeq(B, e) : e \in Hits(B, v)}
  BY <1>2, <1>6 DEF Hits
<1>8. own = Own(v) \cup M /\ k = n + h
  BY <1>3, <1>4
<1>9. {r.seq : r \in Own(v)} = 0..(n - 1)
  BY DEF Numbered
<1> HIDE DEF M, n, h
<1>10. {r.seq : r \in own} = {r.seq : r \in Own(v)} \cup {r.seq : r \in M}
  BY <1>8
<1>11. (0..(n - 1)) \cup (n..(n + h - 1)) = 0..(n + h - 1)
  BY <1>5
<1>12. {r.seq : r \in own} = 0..(n + h - 1)
  BY <1>5, <1>7, <1>9, <1>10, <1>11
<1> QED
  BY <1>5, <1>8, <1>12

\* The first row of a new covenant decides lineage_complete.
LEMMA ApplyKeepsGenesis ==
    ASSUME NEW b \in Blocks, NoRowsFrom(b), CountsMatch, Numbered, GenesisTold, nextSeq \in Nat,
           rows' = rows \cup NewRows(Classify(b)),
           summary' = SummaryAfter(Classify(b))
    PROVE  GenesisTold'
<1> DEFINE B == Classify(b)
           N == NewRows(B)
           touched == {e.cov : e \in B.events}
           first(v) == CHOOSE e \in Hits(B, v) : \A f \in Hits(B, v) : ~EventBefore(f, e)
<1>1. Keys(B)
  BY ClassifiedKeys
<1>2. N = {RowOf(B, e) : e \in B.events}
  BY <1>1, RowPerEvent
<1>3. \A v : Own(v)' = Own(v) \cup {r \in N : r.cov = v}
  BY ApplyAddsRows
<1>4. \A e \in B.events : e.cov \in Covenants
  BY ClassifiedEvents
<1>5. summary' = SummaryAfter(B)
  OBVIOUS
<1> HIDE DEF B
<1>6. summary' = [v \in DOMAIN summary \cup touched |->
            IF v \notin touched THEN summary[v]
            ELSE IF v \in DOMAIN summary
                   THEN [summary[v] EXCEPT !.events = @ + Cardinality(Hits(B, v)), !.last = B.daa]
                   ELSE [events   |-> Cardinality(Hits(B, v)),
                         last     |-> B.daa,
                         complete |-> first(v).kind = "genesis"]]
  BY <1>5 DEF SummaryAfter, Hits, KnownCovenant
<1>7. \A e : /\ RowOf(B, e).cov = e.cov /\ RowOf(B, e).seq = CovenantSeq(B, e)
             /\ RowOf(B, e).kind = e.kind
  BY DEF RowOf
<1> HIDE DEF N
<1>8. SUFFICES ASSUME NEW v \in DOMAIN summary'
               PROVE  summary'[v].complete <=> \E r \in Own(v)' : r.seq = 0 /\ r.kind = "genesis"
  BY DEF GenesisTold
<1> DEFINE M == {r \in N : r.cov = v}
<1>9. Own(v)' = Own(v) \cup M
  BY <1>3
<1>10. CASE v \notin touched
  <2>1. summary'[v] = summary[v] /\ v \in DOMAIN summary
    BY <1>6, <1>8, <1>10
  <2>2. M = {}
    BY <1>2, <1>7, <1>10
  <2> QED
    BY <1>9, <2>1, <2>2 DEF GenesisTold
<1>11. CASE v \in touched
  <2> DEFINE n == Cardinality(Own(v))
             h == Cardinality(Hits(B, v))
  <2>1. v \in Covenants
    BY <1>4, <1>11
  <2>2. /\ n \in Nat /\ h \in Nat
        /\ \A e \in Hits(B, v) : CovenantSeq(B, e) \in n..(n + h - 1)
        /\ {CovenantSeq(B, e) : e \in Hits(B, v)} = n..(n + h - 1)
        /\ \A e, f \in Hits(B, v) : CovenantSeq(B, e) < CovenantSeq(B, f) <=> EventBefore(e, f)
    BY <1>1, <2>1, CovenantNumbers DEF NoRowsFrom
  <2>3. \A r \in M : \E e \in Hits(B, v) : r = RowOf(B, e)
    BY <1>2, <1>7 DEF Hits
  <2>4. \A e \in Hits(B, v) : RowOf(B, e) \in M
    BY <1>2, <1>7 DEF Hits
  <2> HIDE DEF M
  <2>5. CASE v \in DOMAIN summary
    <3>1. PICK q \in Own(v) : TRUE
      BY <2>5 DEF CountsMatch, Own
    <3>2. n # 0
      <4>1. IsFiniteSet(Own(v))
        <5>1. Own(v) \in SUBSET rows
          BY DEF Own
        <5> QED
          BY <5>1, FS_Subset DEF NoRowsFrom
      <4> QED
        BY <3>1, <4>1, FS_EmptySet
    <3> HIDE DEF n, h
    <3>3. \A r \in M : r.seq # 0
      BY <1>7, <2>2, <2>3, <3>2
    <3> DEFINE s == summary[v]
    <3>4. summary'[v] = [s EXCEPT !.events = s.events + h, !.last = B.daa]
      BY <1>6, <1>11, <2>5 DEF h
    <3>5. s \in [events : Nat, last : Nat, complete : BOOLEAN]
      BY <2>5 DEF CountsMatch
    <3>6. s.complete <=> \E r \in Own(v) : r.seq = 0 /\ r.kind = "genesis"
      BY <2>5 DEF GenesisTold
    <3> HIDE DEF s
    <3>7. summary'[v].complete = s.complete
      BY <3>4, <3>5
    <3> QED
      BY <1>9, <3>3, <3>6, <3>7
  <2>6. CASE v \notin DOMAIN summary
    <3>1. Own(v) = {}
      BY <2>6 DEF CountsMatch, Own
    <3>2. n = 0
      BY <3>1, FS_EmptySet
    <3>3. h # 0
      <4>1. IsFiniteSet(Hits(B, v))
        BY <1>1, RowPerEvent
      <4>2. Hits(B, v) # {}
        BY <1>11 DEF Hits
      <4> QED
        BY <4>1, <4>2, FS_EmptySet
    <3> DEFINE initial == first(v)
    <3>4. summary'[v].complete <=> initial.kind = "genesis"
      <4> DEFINE told == initial.kind = "genesis"
      <4>1. summary'[v] = [events |-> Cardinality(Hits(B, v)), last |-> B.daa, complete |-> told]
        BY <1>6, <1>11, <2>6
      <4> HIDE DEF told
      <4>2. summary'[v].complete = told
        BY <4>1
      <4> QED
        BY <4>2 DEF told
    <3>5. \A e, f \in Hits(B, v) : EventBefore(e, f) \/ EventBefore(f, e) \/ e = f
      BY <1>1 DEF Keys, EventBefore, Hits
    <3> DEFINE Lowest(e) == \A f \in Hits(B, v) : ~EventBefore(f, e)
    <3> HIDE DEF n, h
    <3>6. 0 \in n..(n + h - 1)
      BY <2>2, <3>2, <3>3
    <3>7. PICK e0 \in Hits(B, v) : CovenantSeq(B, e0) = 0
      BY <2>2, <3>6
    <3>8. \A e \in Hits(B, v) : CovenantSeq(B, e) \in Nat
      BY <2>2, <3>2
    <3>9. Lowest(e0)
      BY <2>2, <3>7, <3>8
    <3>10. \A e \in Hits(B, v) : Lowest(e) => e = e0
      BY <3>5, <3>9
    <3>11. initial = e0
      BY <3>9, <3>10
    <3> HIDE DEF initial
    <3>12. \A e \in Hits(B, v) : CovenantSeq(B, e) = 0 => e = e0
      BY <2>2, <3>5, <3>7
    <3>13. (\E r \in M : r.seq = 0 /\ r.kind = "genesis") <=> e0.kind = "genesis"
      BY <1>7, <2>3, <2>4, <3>7, <3>12
    <3> QED
      BY <1>9, <3>1, <3>4, <3>11, <3>13
  <2> QED
    BY <2>5, <2>6
<1> QED
  BY <1>10, <1>11

\* Rows of a block above the index come after the rows that stand; among
\* themselves they follow the list of the block.
LEMMA ApplyKeepsPlaces ==
    ASSUME RowTypes, CountsMatch, Numbered, Ordered, nextSeq \in Nat,
           NEW b \in Blocks, b \notin DOMAIN batches, Indexed \subseteq Path[b] \ {b},
           rows' = rows \cup NewRows(Classify(b)),
           nextSeq' = nextSeq + Cardinality(Classify(b).events),
           DOMAIN batches' = DOMAIN batches \cup {b}
    PROVE  Ordered'
<1> DEFINE B == Classify(b)
           N == NewRows(B)
<1>1. Keys(B) /\ B.block = b
  BY ClassifiedKeys DEF Classify
<1>2. N = {RowOf(B, e) : e \in B.events}
  BY <1>1, RowPerEvent
<1>3. \A r \in N : r.block = b /\ r.stream >= nextSeq
  BY ApplyKeepsRows
<1>4. \A e \in B.events : /\ e.index \in DOMAIN Accepted[b] /\ e.tx = Accepted[b][e.index]
                          /\ e.cov \in Covenants
  BY ClassifiedEvents
<1>5. rows' = rows \cup N
  OBVIOUS
<1> HIDE DEF B, N
<1>6. \A e : /\ RowOf(B, e).cov = e.cov /\ RowOf(B, e).seq = CovenantSeq(B, e)
             /\ RowOf(B, e).stream = StreamSeq(B, e) /\ RowOf(B, e).tx = e.tx
             /\ RowOf(B, e).block = B.block
  BY DEF RowOf
<1>7. /\ \A e \in B.events : StreamSeq(B, e) \in Nat
      /\ \A e, f \in B.events : StreamSeq(B, e) < StreamSeq(B, f) <=> EventBefore(e, f)
  BY <1>1, AcceptedNumbers, StreamNumbers
<1>8. \A v \in Covenants :
         /\ Cardinality(Own(v)) \in Nat
         /\ \A e \in Hits(B, v) : /\ CovenantSeq(B, e) \in Nat
                                  /\ CovenantSeq(B, e) >= Cardinality(Own(v))
         /\ \A e, f \in Hits(B, v) : CovenantSeq(B, e) < CovenantSeq(B, f) <=> EventBefore(e, f)
  <2> SUFFICES ASSUME NEW v \in Covenants
               PROVE  /\ Cardinality(Own(v)) \in Nat
                      /\ \A e \in Hits(B, v) : /\ CovenantSeq(B, e) \in Nat
                                               /\ CovenantSeq(B, e) >= Cardinality(Own(v))
                      /\ \A e, f \in Hits(B, v) :
                            CovenantSeq(B, e) < CovenantSeq(B, f) <=> EventBefore(e, f)
    OBVIOUS
  <2> DEFINE n == Cardinality(Own(v))
             h == Cardinality(Hits(B, v))
  <2>1. /\ n \in Nat /\ h \in Nat
        /\ \A e \in Hits(B, v) : CovenantSeq(B, e) \in n..(n + h - 1)
        /\ \A e, f \in Hits(B, v) : CovenantSeq(B, e) < CovenantSeq(B, f) <=> EventBefore(e, f)
    BY <1>1, CovenantNumbers DEF RowTypes
  <2> HIDE DEF n, h
  <2>2. \A e \in Hits(B, v) : CovenantSeq(B, e) \in Nat /\ CovenantSeq(B, e) >= n
    BY <2>1
  <2> QED
    BY <2>1, <2>2 DEF n
<1>9. ASSUME NEW r \in rows, NEW q \in N, r.cov = q.cov
      PROVE  /\ AcceptedBefore(r, q) /\ ~AcceptedBefore(q, r)
             /\ r.seq < q.seq /\ ~(q.seq < r.seq)
             /\ r.stream < q.stream /\ ~(q.stream < r.stream)
  <2>1. r.block \in Path[b] /\ r.block # b /\ q.block = b
    BY <1>3 DEF Indexed
  <2>2. b \notin Path[r.block]
    BY <2>1, TreeAssumption
  <2>3. AcceptedBefore(r, q) /\ ~AcceptedBefore(q, r)
    BY <2>1, <2>2 DEF AcceptedBefore
  <2>4. r.stream \in Nat /\ r.stream < nextSeq /\ q.stream \in Nat /\ q.stream >= nextSeq
    BY <1>2, <1>3, <1>6, <1>7 DEF RowTypes
  <2> DEFINE v == q.cov
             n == Cardinality(Own(v))
  <2>5. PICK e \in B.events : q = RowOf(B, e)
    BY <1>2
  <2>6. v \in Covenants /\ e \in Hits(B, v)
    BY <1>4, <1>6, <2>5 DEF Hits
  <2>7. n \in Nat /\ q.seq \in Nat /\ q.seq >= n
    BY <1>6, <1>8, <2>5, <2>6
  <2>8. r.seq \in 0..(n - 1)
    <3>1. {x.seq : x \in Own(v)} = 0..(n - 1)
      BY <2>6 DEF Numbered
    <3>2. r \in Own(v)
      BY <1>9 DEF Own
    <3> QED
      BY <3>1, <3>2
  <2> HIDE DEF n
  <2> QED
    BY <2>3, <2>4, <2>7, <2>8
<1>10. ASSUME NEW r \in N, NEW q \in N, r.cov = q.cov
       PROVE  /\ r.seq < q.seq <=> AcceptedBefore(r, q)
              /\ r.stream < q.stream <=> AcceptedBefore(r, q)
  <2>1. PICK e \in B.events : r = RowOf(B, e)
    BY <1>2
  <2>2. PICK f \in B.events : q = RowOf(B, f)
    BY <1>2
  <2>3. Position(r) = e.index /\ Position(q) = f.index /\ r.block = b /\ q.block = b
    BY <1>1, <1>4, <1>6, <2>1, <2>2, PositionIs
  <2>4. AcceptedBefore(r, q) <=> e.index < f.index
    BY <2>3 DEF AcceptedBefore
  <2>5. e.cov = f.cov /\ e.cov \in Int
    BY <1>1, <1>6, <1>10, <2>1, <2>2 DEF Keys
  <2>6. EventBefore(e, f) <=> e.index < f.index
    BY <2>5 DEF EventBefore
  <2>7. e \in Hits(B, e.cov) /\ f \in Hits(B, e.cov) /\ e.cov \in Covenants
    BY <1>4, <2>5 DEF Hits
  <2> QED
    BY <1>6, <1>7, <1>8, <2>1, <2>2, <2>4, <2>6, <2>7
<1> QED
  BY <1>5, <1>9, <1>10 DEF Ordered

\* A finite set of numbers that holds every number below one of its own is an
\* interval from zero.
LEMMA DownClosed ==
    ASSUME NEW S \in SUBSET Nat, IsFiniteSet(S), \A m \in S : \A k \in Nat : k < m => k \in S
    PROVE  S = 0..(Cardinality(S) - 1)
<1> DEFINE R == {p \in S \X S : p[1] < p[2]}
<1>1. Orders(R, S)
  BY DEF Orders
<1>2. ASSUME NEW m \in S PROVE Place(m, R, S) = m
  <2>1. {y \in S : <<y, m>> \in R} = 0..(m - 1)
    <3>1. {y \in S : <<y, m>> \in R} = {y \in S : y < m}
      OBVIOUS
    <3>2. m \in Nat
      OBVIOUS
    <3> HIDE DEF R
    <3>3. \A y \in S : y \in Nat
      OBVIOUS
    <3>4. \A y \in S : y < m => y \in 0..(m - 1)
      BY <3>2, <3>3
    <3>5. \A y \in 0..(m - 1) : y \in S /\ y < m
      BY <3>2
    <3> QED
      BY <3>1, <3>4, <3>5
  <2>2. m \in Nat /\ Cardinality(0..(m - 1)) = m
    <3>1. m \in Nat /\ 0 \in Int /\ m - 1 \in Int
      OBVIOUS
    <3>2. Cardinality(0..(m - 1)) = IF 0 > m - 1 THEN 0 ELSE (m - 1) - 0 + 1
      BY <3>1, FS_Interval
    <3> QED
      BY <3>1, <3>2
  <2> HIDE DEF R
  <2> QED
    BY <2>1, <2>2 DEF Place
<1> HIDE DEF R
<1>3. /\ \A x, y \in S : Place(x, R, S) = Place(y, R, S) => x = y
      /\ {Place(x, R, S) : x \in S} = 0..(Cardinality(S) - 1)
      /\ Cardinality(S) \in Nat
  BY <1>1, PlacesAreDense
<1>4. {Place(x, R, S) : x \in S} = S
  BY <1>2
<1> QED
  BY <1>3, <1>4

\* Dense numbering gives each row a number of its own.
LEMMA SeqsDistinct ==
    ASSUME Numbered, IsFiniteSet(rows), NEW v \in Covenants
    PROVE  \A r, q \in Own(v) : r.seq = q.seq => r = q
<1> DEFINE n == Cardinality(Own(v))
           f == [r \in Own(v) |-> r.seq]
<1>1. IsFiniteSet(Own(v)) /\ n \in Nat
  <2>1. Own(v) \in SUBSET rows
    BY DEF Own
  <2> QED
    BY <2>1, FS_Subset, FS_CardinalityType
<1>2. {r.seq : r \in Own(v)} = 0..(n - 1)
  BY DEF Numbered
<1> HIDE DEF n
<1>3. f \in Surjection(Own(v), 0..(n - 1))
  BY <1>2 DEF Surjection
<1>4. Cardinality(0..(n - 1)) = n
  <2>1. 0 \in Int /\ n - 1 \in Int
    BY <1>1
  <2>2. Cardinality(0..(n - 1)) = IF 0 > n - 1 THEN 0 ELSE (n - 1) - 0 + 1
    BY <2>1, FS_Interval
  <2> QED
    BY <1>1, <2>2
<1>5. f \in Injection(Own(v), 0..(n - 1))
  BY <1>1, <1>3, <1>4, FS_SurjSameCardinalityImpliesInj DEF n
<1> QED
  BY <1>5 DEF Injection, IsInjective

Gone(v, C) == {r \in rows : r.cov = v /\ r.block \in C}

\* A rollback takes rows away, and counts them.
LEMMA RollbackKeepsRows ==
    ASSUME RowTypes, nextSeq \in Nat, nextSeq' \in Nat, nextSeq' >= nextSeq, NEW C,
           rows' = {r \in rows : r.block \notin C}, DOMAIN batches' = DOMAIN batches \ C
    PROVE  /\ RowTypes'
           /\ \A v : /\ Own(v)' = {r \in Own(v) : r.block \notin C}
                     /\ Cardinality(Own(v))' = Cardinality(Own(v)) - Cardinality(Gone(v, C))
                     /\ Cardinality(Own(v)) \in Nat /\ Cardinality(Gone(v, C)) \in Nat
                     /\ Cardinality(Own(v))' \in Nat
                     /\ Cardinality(Own(v))' > 0 <=> v \in {r.cov : r \in rows'}
<1>1. RowTypes'
  <2>1. IsFiniteSet(rows')
    <3>1. {r \in rows : r.block \notin C} \in SUBSET rows
      OBVIOUS
    <3>2. IsFiniteSet({r \in rows : r.block \notin C})
      BY <3>1, FS_Subset DEF RowTypes
    <3> QED
      BY <3>2
  <2>2. \A r \in rows : r.stream < nextSeq'
    BY DEF RowTypes
  <2> QED
    BY <2>1, <2>2 DEF RowTypes
<1>2. ASSUME NEW v, NEW kept, kept = Own(v)'
      PROVE  /\ kept = {r \in Own(v) : r.block \notin C}
             /\ Cardinality(kept) = Cardinality(Own(v)) - Cardinality(Gone(v, C))
             /\ Cardinality(Own(v)) \in Nat /\ Cardinality(Gone(v, C)) \in Nat
             /\ Cardinality(kept) \in Nat
             /\ Cardinality(kept) > 0 <=> v \in {r.cov : r \in rows'}
  <2> DEFINE gone == Gone(v, C)
  <2>1. kept = {r \in Own(v) : r.block \notin C}
    BY <1>2 DEF Own
  <2>2. kept = Own(v) \ gone /\ Own(v) \cap gone = gone /\ gone \in SUBSET rows /\ Own(v) \in SUBSET rows
    BY <2>1 DEF Own, Gone
  <2>3. v \in {r.cov : r \in rows'} <=> kept # {}
    BY <2>1 DEF Own
  <2> HIDE DEF gone
  <2>4. IsFiniteSet(Own(v)) /\ IsFiniteSet(gone)
    BY <2>2, FS_Subset DEF RowTypes
  <2>5. IsFiniteSet(kept) /\ Cardinality(kept) = Cardinality(Own(v)) - Cardinality(gone)
    <3>1. /\ IsFiniteSet(Own(v) \ gone)
          /\ Cardinality(Own(v) \ gone) = Cardinality(Own(v)) - Cardinality(Own(v) \cap gone)
      BY <2>4, FS_Difference
    <3> QED
      BY <2>2, <3>1
  <2>6. Cardinality(Own(v)) \in Nat /\ Cardinality(gone) \in Nat /\ Cardinality(kept) \in Nat
    BY <2>4, <2>5, FS_CardinalityType
  <2>7. Cardinality(kept) = 0 <=> kept = {}
    BY <2>5, FS_EmptySet
  <2>8. Cardinality(kept) > 0 <=> kept # {}
    BY <2>6, <2>7
  <2> QED
    BY <2>1, <2>3, <2>5, <2>6, <2>8 DEF gone
<1> QED
  BY <1>1, <1>2

\* event_count loses what went, and a covenant without events its row.
LEMMA RollbackKeepsCounts ==
    ASSUME RowTypes, CountsMatch, nextSeq \in Nat, nextSeq' \in Nat, nextSeq' >= nextSeq, NEW C,
           rows' = {r \in rows : r.block \notin C}, DOMAIN batches' = DOMAIN batches \ C,
           summary' = SummaryWithout(C)
    PROVE  /\ CountsMatch'
           /\ \A v \in DOMAIN summary' : v \in DOMAIN summary /\ summary'[v].complete = summary[v].complete
<1> DEFINE left(v) == summary[v].events - Cardinality(Gone(v, C))
<1>1. \A v : /\ Cardinality(Own(v))' = Cardinality(Own(v)) - Cardinality(Gone(v, C))
             /\ Cardinality(Own(v)) \in Nat /\ Cardinality(Gone(v, C)) \in Nat
             /\ Cardinality(Own(v))' \in Nat
             /\ Cardinality(Own(v))' > 0 <=> v \in {r.cov : r \in rows'}
  BY RollbackKeepsRows
<1>2. /\ DOMAIN summary' = {v \in DOMAIN summary : left(v) > 0}
      /\ \A v \in DOMAIN summary' : summary'[v] = [summary[v] EXCEPT !.events = left(v)]
  BY DEF SummaryWithout, Gone
<1>3. /\ DOMAIN summary = {r.cov : r \in rows}
      /\ \A v \in DOMAIN summary :
          /\ summary[v] \in [events : Nat, last : Nat, complete : BOOLEAN]
          /\ summary[v].events = Cardinality(Own(v))
  BY DEF CountsMatch
<1>4. \A v \in DOMAIN summary : left(v) = Cardinality(Own(v))'
  BY <1>1, <1>3
<1> HIDE DEF left
<1>5. DOMAIN summary' = {r.cov : r \in rows'}
  <2>1. \A v \in {r.cov : r \in rows'} : v \in DOMAIN summary
    BY <1>3
  <2> QED
    BY <1>1, <1>2, <1>4, <2>1
<1>6. ASSUME NEW v \in DOMAIN summary'
      PROVE  /\ summary'[v] \in [events : Nat, last : Nat, complete : BOOLEAN]
             /\ summary'[v].events = Cardinality(Own(v))'
             /\ v \in DOMAIN summary
             /\ summary'[v].complete = summary[v].complete
  <2>1. PICK s : s = summary[v]
    OBVIOUS
  <2>2. PICK k : k = Cardinality(Own(v))'
    OBVIOUS
  <2>3. k \in Nat
    BY <1>1, <2>2
  <2>4. v \in DOMAIN summary /\ summary'[v] = [s EXCEPT !.events = k]
    BY <1>2, <1>4, <2>1, <2>2
  <2>5. s \in [events : Nat, last : Nat, complete : BOOLEAN]
    BY <1>3, <2>1, <2>4
  <2>6. s = [events |-> s.events, last |-> s.last, complete |-> s.complete]
    BY <2>5
  <2>7. summary'[v] = [events |-> k, last |-> s.last, complete |-> s.complete]
    BY <2>4, <2>6
  <2> QED
    BY <2>1, <2>2, <2>3, <2>4, <2>5, <2>7
<1> QED
  BY <1>5, <1>6 DEF CountsMatch

\* What goes is the newest end of each lineage: the numbers that stay have no
\* hole, and the event that told the genesis goes last.
LEMMA RollbackKeepsPlaces ==
    ASSUME RowTypes, CountsMatch, Numbered, GenesisTold, Ordered,
           nextSeq \in Nat, nextSeq' \in Nat, nextSeq' >= nextSeq, NEW C,
           \A r, q \in rows : r.block \in C /\ AcceptedBefore(r, q) => q.block \in C,
           rows' = {r \in rows : r.block \notin C}, DOMAIN batches' = DOMAIN batches \ C,
           summary' = SummaryWithout(C)
    PROVE  Numbered' /\ GenesisTold' /\ Ordered'
<1>1. \A v : Own(v)' = {r \in Own(v) : r.block \notin C}
  BY RollbackKeepsRows
<1>2. Ordered'
  BY DEF Ordered, AcceptedBefore, Position
<1>3. ASSUME NEW v \in Covenants, NEW r \in Own(v), NEW q \in Own(v), r.seq < q.seq, q.block \notin C
      PROVE  r.block \notin C
  <2>1. r \in rows /\ q \in rows /\ r.cov = q.cov
    BY DEF Own
  <2>2. AcceptedBefore(r, q)
    BY <1>3, <2>1 DEF Ordered
  <2> QED
    BY <1>3, <2>1, <2>2
<1>4. ASSUME NEW v \in Covenants, NEW kept, kept = Own(v)'
      PROVE  {r.seq : r \in kept} = 0..(Cardinality(kept) - 1)
  <2> DEFINE S == {r.seq : r \in kept}
             n == Cardinality(Own(v))
             f == [r \in kept |-> r.seq]
  <2>1. \A r, q \in Own(v) : r.seq = q.seq => r = q
    BY SeqsDistinct DEF RowTypes
  <2>2. kept = {r \in Own(v) : r.block \notin C}
    BY <1>1, <1>4
  <2>3. {r.seq : r \in Own(v)} = 0..(n - 1)
    BY DEF Numbered
  <2>4. IsFiniteSet(Own(v)) /\ n \in Nat
    <3>1. Own(v) \in SUBSET rows
      BY DEF Own
    <3> QED
      BY <3>1, FS_Subset, FS_CardinalityType DEF RowTypes
  <2>5. IsFiniteSet(kept)
    <3>1. kept \in SUBSET Own(v)
      BY <2>2
    <3> QED
      BY <2>4, <3>1, FS_Subset
  <2> HIDE DEF n
  <2>6. S \in SUBSET Nat
    BY <2>2, <2>3, <2>4
  <2>7. \A r \in kept, k \in Nat : k < r.seq => k \in S
    <3> SUFFICES ASSUME NEW r \in kept, NEW k \in Nat, k < r.seq PROVE k \in S
      OBVIOUS
    <3>1. r \in Own(v) /\ r.block \notin C /\ r.seq \in 0..(n - 1)
      BY <2>2, <2>3
    <3>2. k \in 0..(n - 1)
      BY <2>4, <3>1
    <3>3. PICK q \in Own(v) : q.seq = k
      BY <2>3, <3>2
    <3>4. q.block \notin C
      BY <1>3, <3>1, <3>3
    <3> QED
      BY <2>2, <3>3, <3>4
  <2>8. f \in Bijection(kept, S)
    BY <2>1, <2>2 DEF Bijection, Injection, IsInjective, Surjection
  <2>9. ExistsBijection(kept, S)
    BY <2>8 DEF ExistsBijection
  <2>10. \A m \in S : \A k \in Nat : k < m => k \in S
    BY <2>7
  <2> HIDE DEF S
  <2>11. IsFiniteSet(S) /\ Cardinality(S) = Cardinality(kept)
    BY <2>5, <2>9, FS_Bijection
  <2>12. S = 0..(Cardinality(S) - 1)
    BY <2>6, <2>10, <2>11, DownClosed
  <2> QED
    BY <2>11, <2>12 DEF S
<1>5. Numbered'
  BY <1>4 DEF Numbered
<1>6. ASSUME NEW v \in DOMAIN summary'
      PROVE  summary'[v].complete <=> \E r \in Own(v)' : r.seq = 0 /\ r.kind = "genesis"
  <2>1. v \in DOMAIN summary /\ summary'[v].complete = summary[v].complete
    BY RollbackKeepsCounts
  <2>2. PICK q \in rows' : q.cov = v
    <3>1. CountsMatch'
      BY RollbackKeepsCounts
    <3> QED
      BY <3>1 DEF CountsMatch
  <2>3. v \in Covenants /\ q \in Own(v) /\ q.block \notin C
    BY <2>2 DEF RowTypes, Own
  <2>4. q.seq \in Nat
    <3>1. {r.seq : r \in Own(v)} = 0..(Cardinality(Own(v)) - 1)
      BY <2>3 DEF Numbered
    <3> QED
      BY <2>3, <3>1
  <2>5. ASSUME NEW r \in Own(v), r.seq = 0 PROVE r.block \notin C
    <3>1. CASE q.seq = 0
      <4>1. r = q
        BY <2>3, <2>5, <3>1, SeqsDistinct DEF RowTypes
      <4> QED
        BY <2>3, <4>1
    <3>2. CASE q.seq # 0
      BY <1>3, <2>3, <2>4, <2>5, <3>2
    <3> QED
      BY <3>1, <3>2
  <2>6. summary[v].complete <=> \E r \in Own(v) : r.seq = 0 /\ r.kind = "genesis"
    BY <2>1 DEF GenesisTold
  <2> QED
    BY <1>1, <2>1, <2>5, <2>6
<1>7. GenesisTold'
  BY <1>6 DEF GenesisTold
<1> QED
  BY <1>2, <1>5, <1>7

-----------------------------------------------------------------------------
(* The transactions *)

\* The counts hold whatever happened; the rest is forfeited by a reset.
TablesInv ==
    /\ RowTypes /\ CoinTypes /\ CountsMatch
    /\ resets = 0 => CoinsAgree /\ Numbered /\ GenesisTold /\ Ordered

\* A step that may add a batch and leaves the rows, coins and summaries alone.
LEMMA TablesFrame ==
    ASSUME TablesInv, UNCHANGED <<rows, created, spent, nextSeq>>,
           DOMAIN summary' = DOMAIN summary, \A v \in DOMAIN summary : summary'[v] = summary[v],
           DOMAIN batches \subseteq DOMAIN batches', resets' = 0 => resets = 0
    PROVE  TablesInv'
<1>1. RowTypes' /\ CoinTypes'
  BY DEF TablesInv, RowTypes, CoinTypes
<1>2. CountsMatch'
  BY DEF TablesInv, CountsMatch, Own
<1>3. CoinsAgree => CoinsAgree'
  BY DEF CoinsAgree, Indexed
<1>4. /\ Numbered => Numbered'
      /\ GenesisTold => GenesisTold'
      /\ Ordered => Ordered'
  BY DEF Numbered, GenesisTold, Ordered, Own, AcceptedBefore, Position
<1> QED
  BY <1>1, <1>2, <1>3, <1>4 DEF TablesInv

LEMMA EmptyKeepsTables ==
    ASSUME TablesInv, nextSeq \in Nat, NEW b, NEW daa, ApplyAcceptedBlock(EmptyBatch(b, daa)),
           resets' = resets
    PROVE  TablesInv'
<1> DEFINE B == EmptyBatch(b, daa)
<1>1. B.block = b /\ B.daa = daa /\ B.events = {} /\ B.created = {} /\ B.spent = {}
  BY DEF EmptyBatch
<1>2. CASE AlreadyApplied(B)
  <2>1. UNCHANGED <<rows, created, spent, nextSeq, summary, batches>>
    BY <1>2 DEF ApplyAcceptedBlock, storeVars, tables
  <2> QED
    BY <2>1, TablesFrame
<1>3. CASE ~AlreadyApplied(B)
  <2>1. /\ WriteCoins(B) /\ rows' = rows \cup NewRows(B) /\ summary' = SummaryAfter(B)
        /\ nextSeq' = nextSeq + Cardinality(B.events)
        /\ batches' = IF B.daa > 0
                        THEN [x \in DOMAIN batches \cup {B.block} |->
                                IF x = B.block THEN [first |-> nextSeq, last |-> nextSeq' - 1]
                                               ELSE batches[x]]
                        ELSE batches
    BY <1>3 DEF ApplyAcceptedBlock
  <2>2. DOMAIN batches \subseteq DOMAIN batches'
    BY <2>1
  <2> HIDE DEF B
  <2>3. created' = created /\ spent' = spent
    BY <1>1, <2>1 DEF WriteCoins, TablesInv, CoinTypes
  <2>4. NewRows(B) = {}
    BY <1>1 DEF NewRows
  <2>5. nextSeq' = nextSeq
    BY <1>1, <2>1, FS_EmptySet
  <2>6. {e.cov : e \in B.events} = {}
    BY <1>1
  <2>7. DOMAIN summary' = DOMAIN summary /\ \A v \in DOMAIN summary : summary'[v] = summary[v]
    BY <2>1, <2>6 DEF SummaryAfter
  <2> QED
    BY <2>1, <2>2, <2>3, <2>4, <2>5, <2>7, TablesFrame
<1> QED
  BY <1>2, <1>3

\* apply_accepted_block above the index.
LEMMA ApplyKeepsTables ==
    ASSUME TablesInv, nextSeq \in Nat, NEW b \in Blocks, ApplyAcceptedBlock(Classify(b)),
           resets' = resets, resets = 0 => Indexed \subseteq Path[b] \ {b}
    PROVE  TablesInv'
<1> DEFINE B == Classify(b)
<1>1. B.block = b /\ B.daa = Daa[b] /\ Daa[b] > 0
  BY TreeAssumption DEF Classify
<1>2. CASE AlreadyApplied(B)
  <2>1. UNCHANGED <<rows, created, spent, nextSeq, summary, batches>>
    BY <1>2 DEF ApplyAcceptedBlock, storeVars, tables
  <2> QED
    BY <2>1, TablesFrame
<1>3. CASE ~AlreadyApplied(B)
  <2>1. /\ WriteCoins(B) /\ rows' = rows \cup NewRows(B) /\ summary' = SummaryAfter(B)
        /\ nextSeq' = nextSeq + Cardinality(B.events)
        /\ b \notin DOMAIN batches
    BY <1>1, <1>3 DEF ApplyAcceptedBlock, AlreadyApplied
  <2>2. DOMAIN batches' = DOMAIN batches \cup {b}
    BY <1>1, <1>3 DEF ApplyAcceptedBlock
  <2>3. Keys(B)
    BY ClassifiedKeys
  <2>4. NewRows(B) = {RowOf(B, e) : e \in B.events}
    BY <2>3, RowPerEvent
  <2>5. \A r \in NewRows(B) : r.block = b
    BY <1>1 DEF NewRows
  <2>6. Indexed' = IF B.events = {} THEN Indexed ELSE Indexed \cup {b}
    <3> HIDE DEF B
    <3>1. CASE B.events = {}
      BY <2>1, <2>4, <3>1 DEF Indexed
    <3>2. CASE B.events # {}
      <4>1. PICK e \in B.events : TRUE
        BY <3>2
      <4>2. RowOf(B, e) \in NewRows(B)
        BY <2>4
      <4>3. Indexed' = {r.block : r \in rows} \cup {r.block : r \in NewRows(B)}
        BY <2>1 DEF Indexed
      <4>4. {r.block : r \in NewRows(B)} = {b}
        BY <2>5, <4>2
      <4> QED
        BY <3>2, <4>3, <4>4 DEF Indexed
    <3> QED
      BY <3>1, <3>2
  <2>7. RowTypes' /\ NoRowsFrom(b)
    BY <2>1, <2>2, ApplyKeepsRows DEF TablesInv
  <2>8. CountsMatch'
    BY <2>1, <2>7, ApplyKeepsCounts DEF TablesInv
  <2>9. resets = 0 => CoinsAgree'
    BY <2>1, <2>6, ApplyKeepsCoins DEF TablesInv
  <2>10. CoinTypes'
    <3>1. b \in Optional(Blocks) /\ NoBlock \in Optional(Blocks)
      BY DEF Optional
    <3> HIDE DEF B
    <3> QED
      BY <1>1, <2>1, <3>1 DEF CoinTypes, WriteCoins, TablesInv
  <2>11. resets = 0 => Numbered' /\ GenesisTold' /\ Ordered'
    BY <2>1, <2>2, <2>7, ApplyKeepsNumbers, ApplyKeepsGenesis, ApplyKeepsPlaces DEF TablesInv
  <2> QED
    BY <2>7, <2>8, <2>9, <2>10, <2>11 DEF TablesInv
<1> QED
  BY <1>2, <1>3

\* rollback_removed_blocks of blocks that take along what is above them.
LEMMA RollbackKeepsTables ==
    ASSUME TablesInv, LogInv, NEW R, RollbackRemovedBlocks(R), resets' = resets,
           DOMAIN batches \subseteq Blocks, 
           resets = 0 => /\ TakesWhatIsAbove(R)
                         /\ Indexed = {} \/ \E top \in Blocks : Indexed \subseteq Path[top]
    PROVE  TablesInv'
<1> DEFINE C == Canonical(R)
<1>1. C = R \cap DOMAIN batches
  BY DEF Canonical
<1>2. CASE C = {}
  <2>1. UNCHANGED <<rows, created, spent, nextSeq, summary, batches>>
    BY <1>2 DEF RollbackRemovedBlocks, storeVars, tables
  <2> QED
    BY <2>1, TablesFrame
<1>3. CASE C # {}
  <2>1. /\ UndoCoins(C) /\ rows' = {r \in rows : r.block \notin C} /\ summary' = SummaryWithout(C)
        /\ nextSeq' = nextSeq + Cardinality(Sources(C))
    BY <1>3 DEF RollbackRemovedBlocks
  <2>2. DOMAIN batches' = DOMAIN batches \ C
    BY <1>3 DEF RollbackRemovedBlocks
  <2>3. C \in SUBSET DOMAIN batches /\ NoBlock \notin C
    BY <1>1, TreeAssumption
  <2>4. TakesWhatIsAbove(R) => \A a \in C, b \in Indexed : a \in Path[b] /\ a # b => b \in R
    BY DEF TakesWhatIsAbove
  <2> HIDE DEF C
  <2>5. nextSeq \in Nat /\ nextSeq' \in Nat /\ nextSeq' >= nextSeq
    <3>1. Cardinality(Sources(C)) \in Nat /\ nextSeq \in Nat
      BY <2>3, RemovalNumbers DEF LogInv, LogTypes
    <3> QED
      BY <2>1, <3>1
  <2>6. RowTypes' /\ CountsMatch'
    BY <2>1, <2>2, <2>5, RollbackKeepsRows, RollbackKeepsCounts DEF TablesInv
  <2>7. Indexed' = Indexed \ C
    BY <2>1 DEF Indexed
  <2>8. CoinTypes'
    BY <2>1 DEF CoinTypes, UndoCoins, TablesInv, Optional
  <2>9. ASSUME resets = 0 PROVE CoinsAgree'
    <3>1. CASE Indexed = {}
      <4>1. PICK top \in Blocks : TRUE
        BY EngineAssumption
      <4>2. Indexed \subseteq Path[top]
        BY <3>1
      <4> QED
        BY <2>1, <2>3, <2>7, <2>9, <4>2, RollbackKeepsCoins DEF TablesInv
    <3>2. CASE \E top \in Blocks : Indexed \subseteq Path[top]
      BY <2>1, <2>3, <2>7, <2>9, <3>2, RollbackKeepsCoins DEF TablesInv
    <3> QED
      BY <2>9, <3>1, <3>2
  <2>10. ASSUME resets = 0 PROVE Numbered' /\ GenesisTold' /\ Ordered'
    <3>1. ASSUME NEW r \in rows, NEW q \in rows, r.block \in C, AcceptedBefore(r, q)
          PROVE  q.block \in C
      <4>1. q.block \in Indexed /\ q.block \in DOMAIN batches
        BY DEF Indexed, TablesInv, RowTypes
      <4> QED
        BY <1>1, <2>4, <2>10, <3>1, <4>1 DEF AcceptedBefore, C
    <3> QED
      BY <2>1, <2>2, <2>5, <2>10, <3>1, RollbackKeepsPlaces DEF TablesInv
  <2> QED
    BY <2>6, <2>8, <2>9, <2>10 DEF TablesInv
<1> QED
  BY <1>2, <1>3

-----------------------------------------------------------------------------
(* The engine *)

LEMMA InitTables == Init => TablesInv
<1> SUFFICES ASSUME Init PROVE TablesInv
  OBVIOUS
<1>1. /\ rows = {} /\ summary = <<>> /\ batches = <<>> /\ nextSeq = 1
      /\ created = [c \in Coins |-> NoBlock] /\ spent = [c \in Coins |-> NoBlock]
  BY DEF Init, StoreInit
<1>2. Indexed = {} /\ \A v : Own(v) = {}
  BY <1>1 DEF Indexed, Own
<1>3. RowTypes /\ CoinTypes /\ CountsMatch /\ GenesisTold /\ Ordered
  BY <1>1, FS_EmptySet DEF RowTypes, CoinTypes, CountsMatch, GenesisTold, Ordered, Optional
<1>4. CoinsAgree
  BY <1>1, <1>2 DEF CoinsAgree
<1>5. ASSUME NEW v \in Covenants PROVE {r.seq : r \in Own(v)} = 0..(Cardinality(Own(v)) - 1)
  <2>1. Cardinality(Own(v)) = 0
    BY <1>2, FS_EmptySet
  <2>2. 0..(Cardinality(Own(v)) - 1) = {}
    BY <2>1
  <2> QED
    BY <1>2, <2>2
<1>6. Numbered
  BY <1>5 DEF Numbered
<1> QED
  BY <1>3, <1>4, <1>6 DEF TablesInv

\* A pass applies above the index, a pass and a recovery take along what is
\* above: the invariant needs IndexInv for that, and LogInv for the numbers.
LEMMA NextTables == IndexInv /\ LogInv /\ TablesInv /\ [Next]_vars => TablesInv'
<1> SUFFICES ASSUME IndexInv, LogInv, TablesInv, [Next]_vars PROVE TablesInv'
  OBVIOUS
<1>1. nextSeq \in Nat /\ DOMAIN batches \subseteq Blocks
  BY DEF LogInv, LogTypes, IndexInv, Struct
<1>2. ASSUME UNCHANGED <<rows, created, spent, summary, batches, nextSeq>>, resets' = 0 => resets = 0
      PROVE  TablesInv'
  BY <1>2, TablesFrame
<1>3. ASSUME resets = 0 PROVE Indexed = {} \/ \E top \in Blocks : Indexed \subseteq Path[top]
  BY <1>3 DEF IndexInv, ChainInv, Struct, Optional
<1>4. CASE RollBack
  <2>1. pc = "rollback" /\ RollbackRemovedBlocks(removed) /\ resets' = resets
    BY <1>4 DEF RollBack, historyVars
  <2>2. ASSUME resets = 0 PROVE TakesWhatIsAbove(removed)
    BY <2>1, <2>2, WalkTakesAbove
  <2> QED
    BY <1>1, <1>3, <2>1, <2>2, RollbackKeepsTables
<1>5. ASSUME NEW a \in Blocks, ReAnchor(a) PROVE TablesInv'
  <2>1. RollbackRemovedBlocks(RollbackAbove(a)) /\ resets' = resets
    BY <1>5 DEF ReAnchor
  <2>2. TakesWhatIsAbove(RollbackAbove(a))
    BY AnchorTakesAbove
  <2> QED
    BY <1>1, <1>3, <2>1, <2>2, RollbackKeepsTables
<1>6. CASE StartFreshIndex
  BY <1>1, <1>6, EmptyKeepsTables DEF StartFreshIndex
<1>7. ASSUME NEW b \in Blocks, ProcessBlock(b) PROVE TablesInv'
  <2>1. /\ b \in todo /\ pc = "apply" /\ resets' = resets
        /\ IF CommitsBlock(Classify(b)) THEN ApplyAcceptedBlock(Classify(b)) ELSE UNCHANGED storeVars
    BY <1>7 DEF ProcessBlock, First
  <2>2. CASE CommitsBlock(Classify(b))
    <3>1. resets = 0 => Indexed \subseteq Path[b] \ {b}
      BY <2>1 DEF IndexInv, ChainInv, ApplyReady
    <3> QED
      BY <1>1, <2>1, <2>2, <3>1, ApplyKeepsTables
  <2>3. CASE ~CommitsBlock(Classify(b))
    BY <1>2, <2>1, <2>3 DEF storeVars, tables
  <2> QED
    BY <2>2, <2>3
<1>8. CASE FinishPass
  <2>1. CASE since > 0
    BY <1>1, <1>8, <2>1, EmptyKeepsTables DEF FinishPass, FinalCheckpoint
  <2>2. CASE ~(since > 0)
    BY <1>2, <1>8, <2>2 DEF FinishPass, FinalCheckpoint, storeVars, tables
  <2> QED
    BY <2>1, <2>2
<1>9. CASE NodeStep \/ BeginPass \/ BeginPassWithoutTip \/ WalkRefused \/ Interrupted
           \/ ProbeCursor \/ Repoint \/ RestartAtSink \/ Drain \/ UNCHANGED vars
  BY <1>2, <1>9
  DEF NodeStep, SinkMoves, NodeSwitches, BeginPass, SetTip, BeginPassWithoutTip, WalkRefused,
      Interrupted, ProbeCursor, Repoint, CheckpointCursor, RestartAtSink, ResetCursor, Drain,
      DrainProjection, vars, storeVars, tables, historyVars
<1>10. ASSUME NEW b \in Blocks, Walk(b) \/ ApplyRefused(b) PROVE TablesInv'
  BY <1>2, <1>10 DEF Walk, ApplyRefused, storeVars, tables, historyVars
<1> QED
  BY <1>4, <1>5, <1>6, <1>7, <1>8, <1>9, <1>10 DEF Next, PassStep, RecoveryStep

\* The tables' invariant holds throughout.
THEOREM TablesInvariance == Spec => []TablesInv
  BY InitTables, NextTables, IndexInvariance, LogInvariance, PTL DEF Spec

\* Removed accepting blocks reverse every effect keyed to them: coins, counts,
\* genesis verdicts and the numbering of each lineage are what the indexed blocks
\* alone would have written, after any sequence of applies and rollbacks.
THEOREM TablesTellOneStory == Spec => []TablesAgree
<1>1. ASSUME TablesInv PROVE TablesAgree
  <2>1. CoinsMatchIndex
    BY <1>1 DEF TablesInv, CoinsMatchIndex, CoinsAgree, Makes, Takes
  <2>2. SummariesMatchRows
    <3>1. \A v \in DOMAIN summary : v \in Covenants
      BY <1>1 DEF TablesInv, CountsMatch, RowTypes
    <3>2. ASSUME resets = 0, NEW v \in DOMAIN summary
          PROVE  /\ summary[v].events = Cardinality(Own(v))
                 /\ {r.seq : r \in Own(v)} = 0..(Cardinality(Own(v)) - 1)
                 /\ summary[v].complete <=> \E r \in Own(v) : r.seq = 0 /\ r.kind = "genesis"
      <4>1. CountsMatch /\ Numbered /\ GenesisTold
        BY <1>1, <3>2 DEF TablesInv
      <4>2. summary[v].events = Cardinality(Own(v))
        BY <4>1 DEF CountsMatch
      <4>3. {r.seq : r \in Own(v)} = 0..(Cardinality(Own(v)) - 1)
        BY <3>1, <4>1 DEF Numbered
      <4>4. summary[v].complete <=> \E r \in Own(v) : r.seq = 0 /\ r.kind = "genesis"
        BY <4>1 DEF GenesisTold
      <4> QED
        BY <4>2, <4>3, <4>4
    <3>3. DOMAIN summary = {r.cov : r \in rows}
      BY <1>1 DEF TablesInv, CountsMatch
    <3> QED
      BY <3>2, <3>3 DEF SummariesMatchRows, Own
  <2>3. LineageOrdered
    BY <1>1 DEF TablesInv, LineageOrdered, Ordered
  <2> QED
    BY <2>1, <2>2, <2>3 DEF TablesAgree
<1> QED
  BY <1>1, TablesInvariance, PTL

=============================================================================
