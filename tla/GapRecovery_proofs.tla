-------------------------- MODULE GapRecovery_proofs --------------------------
(***************************************************************************)
(* For every chain, every set of bodies, anchors and windows and any       *)
(* number of runs, stopped anywhere: a recovery that ends leaves the       *)
(* history of an index that never skipped a block (recover_gap,            *)
(* merge_recovered_block, finalize_gap_recovery).  Rows and coins never    *)
(* say anything that is not so; what a walk has passed misses nothing; and *)
(* a lineage is in order, or waits for the finalize of the pending window. *)
(***************************************************************************)
EXTENDS Tables_proofs, GapRecovery

-----------------------------------------------------------------------------
(* The canonical chain *)

\* On one chain the order is that of the scores.
LEMMA OnChain ==
    ASSUME NEW b \in Path[Sink]
    PROVE  /\ b \in Blocks /\ b # NoBlock /\ b \in Path[b] /\ Path[b] \subseteq Path[Sink]
           /\ Daa[b] \in Nat /\ Daa[b] > 0
           /\ \A a \in Path[Sink] : a \in Path[b] <=> Daa[a] <= Daa[b]
           /\ \A a \in Path[Sink] : Daa[a] = Daa[b] => a = b
<1>1. Sink \in Blocks
  BY GapAssumption
<1>2. b \in Blocks
  BY <1>1, TreeAssumption
<1>3. b # NoBlock /\ b \in Path[b] /\ Path[b] \subseteq Path[Sink] /\ Daa[b] \in Nat /\ Daa[b] > 0
  BY <1>1, <1>2, TreeAssumption
<1>4. ASSUME NEW a \in Path[Sink]
      PROVE  /\ a \in Path[b] => a = b \/ Daa[a] < Daa[b]
             /\ b \in Path[a] => a = b \/ Daa[b] < Daa[a]
             /\ a \in Path[b] \/ b \in Path[a]
             /\ Daa[a] \in Nat
  <2>1. a \in Blocks
    BY <1>1, TreeAssumption
  <2> QED
    BY <1>1, <1>2, <2>1, TreeAssumption
<1>5. ASSUME NEW a \in Path[Sink]
      PROVE  (a \in Path[b] <=> Daa[a] <= Daa[b]) /\ (Daa[a] = Daa[b] => a = b)
  <2>1. a = b => a \in Path[b]
    BY <1>3
  <2> QED
    BY <1>3, <1>4, <2>1
<1> QED
  BY <1>2, <1>3, <1>5

Touches(t, v) == v \in Covs(Inputs[t] \cup Outputs[t])

\* What becomes of a covenant in a transaction, whenever it is looked at.
TxKind(t, v) ==
    IF v \in ProvesGenesis[t] THEN "genesis"
    ELSE IF v \in Covs(Inputs[t]) /\ v \notin Covs(Outputs[t]) THEN "burn" ELSE "transition"

\* A spent coin was made on the chain, not later.
LEMMA InputsMade ==
    ASSUME NEW b \in Path[Sink], NEW t \in AcceptedTxs(b), NEW c \in Inputs[t]
    PROVE  c \in Coins /\ \E a \in Path[b] : Makes(c, a)
<1>1. b \in Blocks /\ b \in Path[b]
  BY OnChain
<1>2. PICK i \in DOMAIN Accepted[b] : Tx(b, i) = t /\ t \in Txs
  BY <1>1, Listed DEF Tx
<1>3. PICK u \in Before(b, i) : c \in Outputs[u]
  BY <1>2, LineageAssumption
<1>4. DOMAIN Accepted[b] = 1..Len(Accepted[b]) /\ Len(Accepted[b]) \in Nat
  BY <1>1, Listed
<1>5. CASE u \in UNION {AcceptedTxs(a) : a \in Path[b] \ {b}}
  BY <1>2, <1>3, <1>5, DataAssumption DEF Makes
<1>6. CASE u \in {Tx(b, j) : j \in 1..(i - 1)}
  <2>1. PICK j \in 1..(i - 1) : u = Tx(b, j)
    BY <1>6
  <2>2. j \in DOMAIN Accepted[b]
    BY <1>4, <2>1
  <2>3. u \in AcceptedTxs(b)
    BY <2>1, <2>2 DEF Tx, AcceptedTxs
  <2> QED
    BY <1>1, <1>2, <1>3, <2>3, DataAssumption DEF Makes
<1>7. u \in UNION {AcceptedTxs(a) : a \in Path[b] \ {b}} \/ u \in {Tx(b, j) : j \in 1..(i - 1)}
  <2>1. u \in Before(b, i) /\ i \in Int
    BY <1>4
  <2> QED
    BY ONLY <2>1 DEF Before
<1> QED
  BY <1>5, <1>6, <1>7

\* Nothing of a covenant comes before the transaction that founds it.
LEMMA GenesisIsFirst ==
    ASSUME NEW b \in Path[Sink], NEW i \in DOMAIN Accepted[b], NEW v \in ProvesGenesis[Tx(b, i)]
    PROVE  /\ v \in Covs(Outputs[Tx(b, i)]) /\ v \notin Covs(Inputs[Tx(b, i)])
           /\ \A j \in 1..(i - 1) : ~Touches(Tx(b, j), v)
           /\ \A a \in Path[b] \ {b} : \A u \in AcceptedTxs(a) : ~Touches(u, v)
<1>1. /\ v \in Covs(Outputs[Tx(b, i)]) \ Covs(Inputs[Tx(b, i)])
      /\ \A u \in Before(b, i) : v \notin Covs(Inputs[u] \cup Outputs[u])
  BY LineageAssumption
<1>2. \A j \in 1..(i - 1) : Tx(b, j) \in Before(b, i)
  <2>1. i \in Int
    BY OnChain, Listed
  <2> QED
    BY ONLY <2>1 DEF Before
<1>3. \A a \in Path[b] \ {b} : \A u \in AcceptedTxs(a) : u \in Before(b, i)
  BY DEF Before
<1> QED
  BY <1>1, <1>2, <1>3 DEF Touches

\* The kind in the true history is that of the transaction.
LEMMA TrueKindIs ==
    ASSUME NEW b \in Path[Sink], NEW i \in DOMAIN Accepted[b], NEW v
    PROVE  TrueKind(b, i, v) = TxKind(Tx(b, i), v)
<1> DEFINE t == Tx(b, i)
<1>1. CASE v \in ProvesGenesis[t]
  <2>1. v \in Covs(Outputs[t]) /\ v \notin Covs(Inputs[t])
    BY <1>1, GenesisIsFirst
  <2>2. \A u \in Before(b, i) : v \notin Covs(Inputs[u] \cup Outputs[u])
    BY <1>1, LineageAssumption
  <2> QED
    BY <1>1, <2>1, <2>2 DEF TrueKind, TxKind
<1>2. CASE v \notin ProvesGenesis[t]
  BY <1>2 DEF TrueKind, TxKind
<1> QED
  BY <1>1, <1>2

\* classify tells the kind from what it can see of the inputs; only that a covenant
\* is known from later blocks can mislead it.
LEMMA KindIs ==
    ASSUME NEW b \in Path[Sink], NEW i \in DOMAIN Accepted[b], NEW v \in Touched(b, i)
    PROVE  /\ Touches(Tx(b, i), v) /\ v \in Covenants
           /\ v \notin ProvesGenesis[Tx(b, i)] => KindOf(b, i, v) = TxKind(Tx(b, i), v)
           /\ ~KnownCovenant(v) => KindOf(b, i, v) = TxKind(Tx(b, i), v)
           /\ KindOf(b, i, v) \in Kinds
<1> DEFINE t == Tx(b, i)
           consumes == \E c \in SpentBy(b, i) : CovenantOf[c] = v
           produces == \E c \in Outputs[t] : CovenantOf[c] = v
           seen == KnownCovenant(v) \/ \E j \in 1..(i - 1) : v \in Touched(b, j)
<1>1. /\ b \in Blocks /\ t \in Txs /\ t = Accepted[b][i]
      /\ DOMAIN Accepted[b] = 1..Len(Accepted[b]) /\ Len(Accepted[b]) \in Nat
      /\ \A j \in DOMAIN Accepted[b] : Accepted[b][j] \in Txs
  BY OnChain, Listed DEF Tx
<1>2. KindOf(b, i, v) = CASE consumes /\ ~produces -> "burn"
                          [] ~consumes /\ ~seen /\ v \in ProvesGenesis[t] -> "genesis"
                          [] OTHER -> "transition"
  BY <1>1 DEF KindOf
<1>3. \A j \in DOMAIN Accepted[b] : \A u \in Touched(b, j) : Touches(Tx(b, j), u)
  BY DEF Touched, SpentBy, Touches, Covs, Tx
<1>4. Touches(t, v) /\ v \in Covenants
  <2>1. SpentBy(b, i) \cup Outputs[t] \subseteq Coins
    BY <1>1, DataAssumption DEF SpentBy
  <2> QED
    BY <1>1, <1>3, <2>1, DataAssumption DEF Touched
<1>5. (consumes \/ produces) /\ (consumes => v \in Covs(Inputs[t])) /\ (produces <=> v \in Covs(Outputs[t]))
  BY <1>1 DEF Touched, SpentBy, Covs
<1> HIDE DEF consumes, produces
<1>6. CASE v \notin ProvesGenesis[t]
  <2>1. KindOf(b, i, v) = IF consumes /\ ~produces THEN "burn" ELSE "transition"
    BY <1>2, <1>6
  <2> QED
    BY <1>4, <1>5, <1>6, <2>1 DEF TxKind, Kinds
<1>7. CASE v \in ProvesGenesis[t]
  <2>1. /\ v \in Covs(Outputs[t]) /\ v \notin Covs(Inputs[t])
        /\ \A j \in 1..(i - 1) : ~Touches(Tx(b, j), v)
    BY <1>7, GenesisIsFirst
  <2>2. \A j \in 1..(i - 1) : v \notin Touched(b, j)
    <3>1. \A j \in 1..(i - 1) : j \in DOMAIN Accepted[b]
      BY <1>1
    <3> QED
      BY <1>3, <2>1, <3>1
  <2>3. seen <=> KnownCovenant(v)
    BY <2>2
  <2> HIDE DEF seen
  <2>4. KindOf(b, i, v) = IF KnownCovenant(v) THEN "transition" ELSE "genesis"
    BY <1>2, <1>5, <1>7, <2>1, <2>3
  <2> QED
    BY <1>4, <1>7, <2>4 DEF TxKind, Kinds
<1> QED
  BY <1>6, <1>7

-----------------------------------------------------------------------------
(* What a block contributes *)

ReachedNow == {b \in Path[Sink] : Daa[b] <= processed}
Followed == ReachedNow \ past.skipped

Told(t, v) == \E r \in rows : r.tx = t /\ r.cov = v
Shows(b) == \A t \in AcceptedTxs(b) : \A c \in Outputs[t] : created[c] # NoBlock /\ Told(t, CovenantOf[c])
Whole(b) ==
    /\ Shows(b)
    /\ \A t \in AcceptedTxs(b) : \A c \in Inputs[t] : spent[c] # NoBlock /\ Told(t, CovenantOf[c])

\* Rows say what is true of their transactions, and a block that has one shows all
\* its outputs.
RowsSound ==
    \A r \in rows :
        /\ r.block \in ReachedNow /\ r.tx \in AcceptedTxs(r.block)
        /\ Touches(r.tx, r.cov) /\ r.kind = TxKind(r.tx, r.cov)
        /\ Shows(r.block)

\* A coin was made, and spent, by the block that says so, with an event.
CoinsSound ==
    \A c \in Coins :
        /\ created[c] # NoBlock =>
             /\ created[c] \in ReachedNow
             /\ \E t \in AcceptedTxs(created[c]) : c \in Outputs[t] /\ Told(t, CovenantOf[c])
        /\ spent[c] # NoBlock =>
             /\ created[c] # NoBlock /\ spent[c] \in ReachedNow
             /\ \E t \in AcceptedTxs(spent[c]) : c \in Inputs[t] /\ Told(t, CovenantOf[c])

\* What live sync applied shows its outputs, and the spends it could see.
FollowedTold ==
    \A b \in Followed :
        /\ Shows(b)
        /\ \A t \in AcceptedTxs(b) : \A c \in Inputs[t] :
              (\E a \in Followed : Makes(c, a)) => spent[c] # NoBlock /\ Told(t, CovenantOf[c])

Tells(B, t, v) == \E e \in B.events : e.tx = t /\ e.cov = v
IsNew(c, B) == c \in B.created /\ created[c] = NoBlock

\* A batch that says nothing wrong of a block ...
Fits(B, b) ==
    /\ B.block = b /\ Keys(B)
    /\ \A e \in B.events :
          /\ e.tx \in AcceptedTxs(b) /\ e.cov \in Covenants /\ Touches(e.tx, e.cov) /\ e.kind \in Kinds
          /\ ~Told(e.tx, e.cov) => e.kind = TxKind(e.tx, e.cov)
    /\ \A c \in B.created :
          c \in Coins /\ \E t \in AcceptedTxs(b) : c \in Outputs[t] /\ Tells(B, t, CovenantOf[c])
    /\ \A c \in B.spent :
          /\ c \in Coins /\ (created[c] # NoBlock \/ c \in B.created)
          /\ \E t \in AcceptedTxs(b) : c \in Inputs[t] /\ Tells(B, t, CovenantOf[c])

\* ... and shows its outputs, or leaves nothing out.
FitsOutputs(B, b) ==
    \A t \in AcceptedTxs(b) : \A c \in Outputs[t] :
        /\ created[c] # NoBlock \/ c \in B.created
        /\ Told(t, CovenantOf[c]) \/ Tells(B, t, CovenantOf[c])
Fills(B, b) ==
    /\ FitsOutputs(B, b)
    /\ \A t \in AcceptedTxs(b) : \A c \in Inputs[t] :
          /\ spent[c] # NoBlock \/ c \in B.spent
          /\ Told(t, CovenantOf[c]) \/ Tells(B, t, CovenantOf[c])

\* Events with a place in the list of a block and a covenant of their own have keys.
LEMMA KeyedEvents ==
    ASSUME NEW b \in Blocks, NEW B,
           \A e \in B.events : e.index \in DOMAIN Accepted[b] /\ e.cov \in Covenants,
           \A e, f \in B.events : e.index = f.index /\ e.cov = f.cov => e = f
    PROVE  Keys(B)
<1> DEFINE E == B.events
           D == DOMAIN Accepted[b]
           key == [e \in E |-> <<e.index, e.cov>>]
<1>1. D = 1..Len(Accepted[b]) /\ Len(Accepted[b]) \in Nat
  BY Listed
<1>2. key \in Injection(E, D \X Covenants)
  BY DEF Injection, IsInjective
<1>3. IsFiniteSet(D)
  BY <1>1, FS_Interval
<1>4. IsFiniteSet(D \X Covenants)
  BY <1>3, DataAssumption, FS_Product
<1>5. IsFiniteSet(E)
  <2> HIDE DEF E, D
  <2> QED
    BY <1>2, <1>4, FS_Injection
<1>6. Covenants \subseteq Int /\ D \subseteq Int
  BY <1>1, DataAssumption
<1> QED
  BY <1>5, <1>6 DEF Keys

\* What classify says of coins.
LEMMA ClassifyReads ==
    ASSUME NEW b \in Path[Sink]
    PROVE  LET B == Classify(b) IN
           /\ \A c \in B.created :
                 c \in Coins /\ \E t \in AcceptedTxs(b) : c \in Outputs[t] /\ Tells(B, t, CovenantOf[c])
           /\ \A c \in B.spent :
                 /\ c \in Coins /\ (created[c] # NoBlock \/ c \in B.created)
                 /\ \E t \in AcceptedTxs(b) : c \in Inputs[t] /\ Tells(B, t, CovenantOf[c])
           /\ \A t \in AcceptedTxs(b) : \A c \in Outputs[t] :
                 c \in B.created /\ Tells(B, t, CovenantOf[c])
<1> DEFINE B == Classify(b)
<1>1. b \in Blocks
  BY OnChain
<1>2. \A i \in DOMAIN Accepted[b] : \A v \in Touched(b, i) :
            \E e \in B.events : e.index = i /\ e.cov = v /\ e.tx = Accepted[b][i]
  BY <1>1, ClassifiedEvents
<1>3. B.created = UNION {Outputs[t] : t \in AcceptedTxs(b)}
      /\ B.spent = UNION {SpentBy(b, i) : i \in DOMAIN Accepted[b]}
  BY DEF Classify
<1>4. /\ \A i \in DOMAIN Accepted[b] : Accepted[b][i] \in Txs /\ Accepted[b][i] \in AcceptedTxs(b)
      /\ \A t \in AcceptedTxs(b) : t \in Txs /\ \E i \in DOMAIN Accepted[b] : Accepted[b][i] = t
      /\ \A t \in Txs : Outputs[t] \subseteq Coins /\ Inputs[t] \subseteq Coins
  BY <1>1, Listed, DataAssumption
<1>5. \A c \in B.spent : c \in Coins /\ Takes(c, b) /\ (Live(c) \/ Makes(c, b))
  BY <1>1, ClassifiedCoins
<1> HIDE DEF B
<1>6. ASSUME NEW t \in AcceptedTxs(b), NEW c \in Outputs[t]
      PROVE  c \in B.created /\ Tells(B, t, CovenantOf[c]) /\ c \in Coins
  <2>1. PICK i \in DOMAIN Accepted[b] : Accepted[b][i] = t
    BY <1>4
  <2>2. CovenantOf[c] \in Touched(b, i)
    BY <1>6, <2>1 DEF Touched
  <2> QED
    BY <1>2, <1>3, <1>4, <1>6, <2>1, <2>2 DEF Tells
<1>7. ASSUME NEW c \in B.spent
      PROVE  /\ c \in Coins /\ (created[c] # NoBlock \/ c \in B.created)
             /\ \E t \in AcceptedTxs(b) : c \in Inputs[t] /\ Tells(B, t, CovenantOf[c])
  <2>1. PICK i \in DOMAIN Accepted[b] : c \in SpentBy(b, i)
    BY <1>3, <1>7
  <2>2. CovenantOf[c] \in Touched(b, i) /\ c \in Inputs[Accepted[b][i]]
    BY <2>1 DEF Touched, SpentBy
  <2>3. Tells(B, Accepted[b][i], CovenantOf[c])
    BY <1>2, <2>2 DEF Tells
  <2>4. created[c] # NoBlock \/ c \in B.created
    BY <1>3, <1>5, <1>7 DEF Live, Makes
  <2> QED
    BY <1>4, <1>5, <1>7, <2>2, <2>3, <2>4
<1>8. \A c \in B.created : c \in Coins /\ \E t \in AcceptedTxs(b) : c \in Outputs[t] /\ Tells(B, t, CovenantOf[c])
  BY <1>3, <1>6
<1> QED
  BY <1>6, <1>7, <1>8 DEF B

\* What classify prepares for the next block of the chain fits, ...
LEMMA ClassifyFits ==
    ASSUME NEW b \in Path[Sink],
           \A v : KnownCovenant(v) => \E a \in Path[b] \ {b} : \E t \in AcceptedTxs(a) : Touches(t, v)
    PROVE  Fits(Classify(b), b) /\ FitsOutputs(Classify(b), b)
<1> DEFINE B == Classify(b)
<1>1. b \in Blocks /\ B.block = b /\ Keys(B)
  BY OnChain, ClassifiedKeys DEF Classify
<1>2. \A e \in B.events :
            /\ e.index \in DOMAIN Accepted[b] /\ e.tx = Accepted[b][e.index]
            /\ e.cov \in Touched(b, e.index) /\ e.cov \in Covenants
            /\ e.kind = KindOf(b, e.index, e.cov)
  BY <1>1, ClassifiedEvents
<1>3. /\ \A c \in B.created :
            c \in Coins /\ \E t \in AcceptedTxs(b) : c \in Outputs[t] /\ Tells(B, t, CovenantOf[c])
      /\ \A c \in B.spent :
            /\ c \in Coins /\ (created[c] # NoBlock \/ c \in B.created)
            /\ \E t \in AcceptedTxs(b) : c \in Inputs[t] /\ Tells(B, t, CovenantOf[c])
      /\ \A t \in AcceptedTxs(b) : \A c \in Outputs[t] :
            c \in B.created /\ Tells(B, t, CovenantOf[c])
  BY ClassifyReads
<1>4. \A i \in DOMAIN Accepted[b] : Accepted[b][i] \in AcceptedTxs(b)
  BY <1>1, Listed
<1> HIDE DEF B
<1>5. ASSUME NEW e \in B.events
      PROVE  /\ e.tx \in AcceptedTxs(b) /\ e.cov \in Covenants /\ Touches(e.tx, e.cov) /\ e.kind \in Kinds
             /\ e.kind = TxKind(e.tx, e.cov)
  <2> DEFINE i == e.index
             v == e.cov
  <2>1. i \in DOMAIN Accepted[b] /\ v \in Touched(b, i) /\ e.tx = Tx(b, i) /\ e.kind = KindOf(b, i, v)
    BY <1>2 DEF Tx
  <2>2. /\ Touches(Tx(b, i), v) /\ v \in Covenants /\ KindOf(b, i, v) \in Kinds
        /\ v \notin ProvesGenesis[Tx(b, i)] => KindOf(b, i, v) = TxKind(Tx(b, i), v)
        /\ ~KnownCovenant(v) => KindOf(b, i, v) = TxKind(Tx(b, i), v)
    BY <2>1, KindIs
  <2>3. v \in ProvesGenesis[Tx(b, i)] => ~KnownCovenant(v)
    BY <2>1, <2>2, GenesisIsFirst
  <2> QED
    BY <1>2, <1>4, <2>1, <2>2, <2>3
<1>6. Fits(B, b)
  BY <1>1, <1>3, <1>5 DEF Fits, B
<1>7. FitsOutputs(B, b)
  BY <1>3 DEF FitsOutputs
<1> QED
  BY <1>6, <1>7 DEF B

\* ... and sees every spend of a coin that is held or its own.
LEMMA ClassifySees ==
    ASSUME NEW b \in Path[Sink], NEW t \in AcceptedTxs(b), NEW c \in Inputs[t],
           Live(c) \/ Makes(c, b)
    PROVE  c \in Classify(b).spent /\ Tells(Classify(b), t, CovenantOf[c])
<1>1. b \in Blocks
  BY OnChain
<1>2. t \in Txs
  BY <1>1, Listed
<1>3. c \in Coins /\ Takes(c, b)
  BY <1>2, DataAssumption DEF Takes
<1>4. c \in Classify(b).spent
  BY <1>1, <1>3, ClassifiedCoins
<1>5. PICK i \in DOMAIN Accepted[b] : c \in SpentBy(b, i)
  BY <1>4 DEF Classify
<1>6. Accepted[b][i] = t
  <2>1. PICK j \in DOMAIN Accepted[b] : Accepted[b][j] = t
    BY <1>1, Listed
  <2>2. c \in Inputs[Accepted[b][i]] \cap Inputs[Accepted[b][j]]
    BY <1>5, <2>1 DEF SpentBy
  <2> QED
    BY <1>1, <2>1, <2>2, ConsensusAssumption
<1>7. CovenantOf[c] \in Touched(b, i)
  BY <1>5 DEF Touched
<1>8. \E e \in Classify(b).events : e.index = i /\ e.cov = CovenantOf[c] /\ e.tx = Accepted[b][i]
  BY <1>1, <1>7, ClassifiedEvents
<1> QED
  BY <1>4, <1>6, <1>8 DEF Tells

\* A spend that is marked is told, for the transaction that made it.
LEMMA SpendIsTold ==
    ASSUME NEW b \in Path[Sink], NEW t \in AcceptedTxs(b), NEW c \in Inputs[t],
           CoinsSound, spent[c] # NoBlock
    PROVE  Told(t, CovenantOf[c]) /\ spent[c] = b
<1>1. c \in Coins /\ b \in Blocks /\ Sink \in Blocks
  BY InputsMade, OnChain, GapAssumption
<1>2. /\ spent[c] \in Path[Sink]
      /\ \E u \in AcceptedTxs(spent[c]) : c \in Inputs[u] /\ Told(u, CovenantOf[c])
  BY <1>1 DEF CoinsSound, ReachedNow
<1>3. PICK u \in AcceptedTxs(spent[c]) : c \in Inputs[u] /\ Told(u, CovenantOf[c])
  BY <1>2
<1>4. spent[c] = b
  BY <1>1, <1>2, <1>3, OneSpender DEF Takes
<1>5. t = u
  <2>1. PICK i \in DOMAIN Accepted[b], j \in DOMAIN Accepted[b] : Accepted[b][i] = t /\ Accepted[b][j] = u
    BY <1>1, <1>3, <1>4, Listed
  <2>2. c \in Inputs[Accepted[b][i]] \cap Inputs[Accepted[b][j]]
    BY <1>3, <2>1
  <2> QED
    BY <1>1, <2>1, <2>2, ConsensusAssumption
<1> QED
  BY <1>3, <1>4, <1>5

\* What a block spends was made by a whole block, if not by itself.
LEMMA WholeMakers ==
    ASSUME NEW b \in Path[Sink], NEW t \in AcceptedTxs(b), NEW c \in Inputs[t],
           \A a \in Path[b] \ {b} : Whole(a), ~Makes(c, b)
    PROVE  created[c] # NoBlock
<1>1. PICK a \in Path[b] : Makes(c, a)
  BY InputsMade
<1>2. a \in Path[b] \ {b}
  BY <1>1
<1> QED
  BY <1>1, <1>2 DEF Whole, Shows, Makes

\* With all bodies at hand a walk reads a block as classify does.
LEMMA WholeBodies ==
    ASSUME NEW b \in Blocks, AcceptedTxs(b) \subseteq walker.bodies
    PROVE  /\ Known1(b) = DOMAIN Accepted[b]
           /\ \A i \in DOMAIN Accepted[b] : SpentIn(b, i) = SpentBy(b, i)
           /\ CaptureEvents(b) = NewEvents(b)
<1> DEFINE D == DOMAIN Accepted[b]
           touched(i) == {CovenantOf[c] : c \in SpentIn(b, i) \cup Outputs[Tx(b, i)]}
           consumes(i, v) == \E c \in SpentIn(b, i) : CovenantOf[c] = v
           produces(i, v) == \E c \in Outputs[Tx(b, i)] : CovenantOf[c] = v
           seen(i, v) == KnownCovenant(v) \/ \E j \in Known1(b) : j < i /\ v \in touched(j)
           kind(i, v) == CASE consumes(i, v) /\ ~produces(i, v) -> "burn"
                           [] ~consumes(i, v) /\ ~seen(i, v) /\ v \in ProvesGenesis[Tx(b, i)] -> "genesis"
                           [] OTHER -> "transition"
<1>1. Known1(b) = D
  BY DEF Known1, AcceptedTxs
<1>2. D = 1..Len(Accepted[b]) /\ Len(Accepted[b]) \in Nat
  BY Listed
<1>3. \A i \in D : \A j : j \in D /\ j < i <=> j \in 1..(i - 1)
  BY <1>2
<1>4. ASSUME NEW i \in D PROVE SpentIn(b, i) = SpentBy(b, i)
  BY <1>1, <1>3 DEF SpentIn, SpentBy, Tx
<1>5. ASSUME NEW i \in D PROVE touched(i) = Touched(b, i)
  BY <1>4 DEF Touched, Tx
<1>6. ASSUME NEW i \in D, NEW v PROVE kind(i, v) = KindOf(b, i, v)
  <2>1. consumes(i, v) <=> \E c \in SpentBy(b, i) : CovenantOf[c] = v
    BY <1>4
  <2>2. seen(i, v) <=> KnownCovenant(v) \/ \E j \in 1..(i - 1) : v \in Touched(b, j)
    <3>1. \A j \in 1..(i - 1) : j \in D /\ j < i
      BY <1>3
    <3>2. \A j \in D : j < i => j \in 1..(i - 1)
      BY <1>3
    <3> HIDE DEF touched, D
    <3> QED
      BY <1>1, <1>5, <3>1, <3>2
  <2>3. produces(i, v) <=> \E c \in Outputs[Accepted[b][i]] : CovenantOf[c] = v
    BY DEF Tx
  <2> HIDE DEF seen, consumes, produces
  <2> QED
    BY <2>1, <2>2, <2>3 DEF KindOf, Tx
<1>7. CaptureEvents(b) =
        UNION {{[index |-> i, tx |-> Tx(b, i), cov |-> v, kind |-> kind(i, v)] : v \in touched(i)}
                 : i \in Known1(b)}
  BY DEF CaptureEvents
<1>8. NewEvents(b) =
        UNION {{[index |-> i, tx |-> Tx(b, i), cov |-> v, kind |-> KindOf(b, i, v)] : v \in Touched(b, i)}
                 : i \in D}
  BY DEF NewEvents, Tx
<1> HIDE DEF kind, touched, D
<1>9. \A i \in D : {[index |-> i, tx |-> Tx(b, i), cov |-> v, kind |-> kind(i, v)] : v \in touched(i)} =
                   {[index |-> i, tx |-> Tx(b, i), cov |-> v, kind |-> KindOf(b, i, v)] : v \in Touched(b, i)}
  BY <1>5, <1>6
<1>10. CaptureEvents(b) = NewEvents(b)
  BY <1>1, <1>7, <1>8, <1>9
<1> QED
  BY <1>1, <1>4, <1>10 DEF D

\* A captured block is classified, but for the rescue of a genesis.
LEMMA CaptureIs ==
    ASSUME NEW b \in Path[Sink], AcceptedTxs(b) \subseteq walker.bodies
    PROVE  LET B == Capture(b) IN
           /\ B.block = b /\ Keys(B)
           /\ B.created = Classify(b).created /\ B.spent = Classify(b).spent
           /\ \A e \in B.events : \E i \in DOMAIN Accepted[b] :
                 /\ e.index = i /\ e.tx = Tx(b, i) /\ e.cov \in Touched(b, i)
                 /\ e.kind = IF /\ e.cov \in ProvesGenesis[Tx(b, i)]
                                /\ \A r \in RowsOf(e.cov) : Daa[r.block] > Daa[b]
                             THEN "genesis" ELSE KindOf(b, i, e.cov)
           /\ \A t, v : Tells(Classify(b), t, v) => Tells(B, t, v)
<1> DEFINE B == Capture(b)
           E == NewEvents(b)
<1>1. b \in Blocks
  BY OnChain
<1>2. /\ Known1(b) = DOMAIN Accepted[b]
      /\ \A i \in DOMAIN Accepted[b] : SpentIn(b, i) = SpentBy(b, i)
      /\ CaptureEvents(b) = E
  BY <1>1, WholeBodies
<1>3. B.events = {[e EXCEPT !.kind = Rescued(b, e)] : e \in E}
  BY <1>2 DEF Capture
<1>4. B.block = b /\ B.created = UNION {Outputs[Tx(b, i)] : i \in DOMAIN Accepted[b]}
      /\ B.spent = UNION {SpentIn(b, i) : i \in DOMAIN Accepted[b]}
  BY <1>2 DEF Capture
<1>5. B.created = Classify(b).created
  BY <1>4 DEF Classify, AcceptedTxs, Tx
<1>6. B.spent = Classify(b).spent
  BY <1>2, <1>4 DEF Classify
<1>7. \A e \in E : \E i \in DOMAIN Accepted[b] : \E v \in Touched(b, i) :
         e = [index |-> i, tx |-> Tx(b, i), cov |-> v, kind |-> KindOf(b, i, v)]
  BY DEF NewEvents, Tx
<1> HIDE DEF B, E
<1>8. \A e \in E : [e EXCEPT !.kind = Rescued(b, e)] =
                   [index |-> e.index, tx |-> e.tx, cov |-> e.cov, kind |-> Rescued(b, e)]
  BY <1>7
<1>9. ASSUME NEW e \in B.events
      PROVE  \E i \in DOMAIN Accepted[b] :
                 /\ e.index = i /\ e.tx = Tx(b, i) /\ e.cov \in Touched(b, i)
                 /\ e.kind = IF /\ e.cov \in ProvesGenesis[Tx(b, i)]
                                /\ \A r \in RowsOf(e.cov) : Daa[r.block] > Daa[b]
                             THEN "genesis" ELSE KindOf(b, i, e.cov)
  <2>0. PICK d \in E : e = [d EXCEPT !.kind = Rescued(b, d)]
    BY ONLY <1>3, <1>9
  <2>1. e = [index |-> d.index, tx |-> d.tx, cov |-> d.cov, kind |-> Rescued(b, d)]
    BY <1>8, <2>0
  <2>2a. PICK i \in DOMAIN Accepted[b] : \E v \in Touched(b, i) :
           d = [index |-> i, tx |-> Tx(b, i), cov |-> v, kind |-> KindOf(b, i, v)]
    BY <1>7
  <2>2. PICK v \in Touched(b, i) :
           d = [index |-> i, tx |-> Tx(b, i), cov |-> v, kind |-> KindOf(b, i, v)]
    BY <2>2a
  <2>3. d.index = i /\ d.tx = Tx(b, i) /\ d.cov = v /\ d.kind = KindOf(b, i, v)
    BY <2>2
  <2>4. e.index = i /\ e.tx = Tx(b, i) /\ e.cov = v /\ e.kind = Rescued(b, d)
    BY <2>1, <2>3
  <2> QED
    BY <2>3, <2>4 DEF Rescued
<1>10. ASSUME NEW t, NEW v, Tells(Classify(b), t, v) PROVE Tells(B, t, v)
  <2>1. PICK e \in E : e.tx = t /\ e.cov = v
    BY <1>10 DEF Tells, Classify, E
  <2> DEFINE f == [index |-> e.index, tx |-> e.tx, cov |-> e.cov, kind |-> Rescued(b, e)]
  <2>2. f \in B.events
    BY <1>3, <1>8
  <2>3. f.tx = t /\ f.cov = v
    BY <2>1
  <2> QED
    BY <2>2, <2>3 DEF Tells
<1>11. Keys(B)
  <2>1. \A e \in B.events : \E d \in E :
           e = [index |-> d.index, tx |-> d.tx, cov |-> d.cov, kind |-> Rescued(b, d)]
    BY <1>3, <1>8
  <2>2. \A d, f \in E : d.index = f.index /\ d.cov = f.cov => d = f
    <3>1. Keys(Classify(b)) /\ Classify(b).events = E
      BY <1>1, ClassifiedKeys DEF Classify, E
    <3> QED
      BY <3>1 DEF Keys
  <2>3. \A e, f \in B.events : e.index = f.index /\ e.cov = f.cov => e = f
    <3> SUFFICES ASSUME NEW e \in B.events, NEW f \in B.events, e.index = f.index, e.cov = f.cov
                 PROVE  e = f
      OBVIOUS
    <3>1. PICK d \in E : e = [index |-> d.index, tx |-> d.tx, cov |-> d.cov, kind |-> Rescued(b, d)]
      BY <2>1
    <3>2. PICK g \in E : f = [index |-> g.index, tx |-> g.tx, cov |-> g.cov, kind |-> Rescued(b, g)]
      BY <2>1
    <3>3. d.index = g.index /\ d.cov = g.cov
      BY <3>1, <3>2
    <3>4. d = g
      BY <2>2, <3>3
    <3> QED
      BY <3>1, <3>2, <3>4
  <2>4. \A e \in B.events : e.index \in DOMAIN Accepted[b] /\ e.cov \in Covenants
    <3>1. \A i \in DOMAIN Accepted[b] : Touched(b, i) \subseteq Covenants
      BY KindIs
    <3> QED
      BY <1>9, <3>1
  <2> QED
    BY <1>1, <2>3, <2>4, KeyedEvents
<1> QED
  BY <1>4, <1>5, <1>6, <1>9, <1>10, <1>11 DEF B

\* What is captured of a block in the window says nothing wrong, ...
LEMMA CaptureFits ==
    ASSUME NEW b \in Path[Sink], AcceptedTxs(b) \subseteq walker.bodies, RowsSound
    PROVE  Fits(Capture(b), b) /\ FitsOutputs(Capture(b), b)
<1> DEFINE B == Capture(b)
           C == Classify(b)
<1>1. /\ B.block = b /\ Keys(B) /\ B.created = C.created /\ B.spent = C.spent
      /\ \A e \in B.events : \E i \in DOMAIN Accepted[b] :
            /\ e.index = i /\ e.tx = Tx(b, i) /\ e.cov \in Touched(b, i)
            /\ e.kind = IF /\ e.cov \in ProvesGenesis[Tx(b, i)]
                           /\ \A r \in RowsOf(e.cov) : Daa[r.block] > Daa[b]
                        THEN "genesis" ELSE KindOf(b, i, e.cov)
      /\ \A t, v : Tells(C, t, v) => Tells(B, t, v)
  BY CaptureIs
<1>2. /\ \A c \in C.created : c \in Coins /\ \E t \in AcceptedTxs(b) : c \in Outputs[t] /\ Tells(C, t, CovenantOf[c])
      /\ \A c \in C.spent :
            /\ c \in Coins /\ (created[c] # NoBlock \/ c \in C.created)
            /\ \E t \in AcceptedTxs(b) : c \in Inputs[t] /\ Tells(C, t, CovenantOf[c])
      /\ \A t \in AcceptedTxs(b) : \A c \in Outputs[t] :
            c \in C.created /\ Tells(C, t, CovenantOf[c])
  BY ClassifyReads
<1> HIDE DEF B, C
<1>3. ASSUME NEW e \in B.events
      PROVE  /\ e.tx \in AcceptedTxs(b) /\ e.cov \in Covenants /\ Touches(e.tx, e.cov) /\ e.kind \in Kinds
             /\ ~Told(e.tx, e.cov) => e.kind = TxKind(e.tx, e.cov)
  <2> DEFINE v == e.cov
  <2>1. PICK i \in DOMAIN Accepted[b] :
            /\ e.tx = Tx(b, i) /\ v \in Touched(b, i)
            /\ e.kind = IF /\ v \in ProvesGenesis[Tx(b, i)]
                           /\ \A r \in RowsOf(v) : Daa[r.block] > Daa[b]
                        THEN "genesis" ELSE KindOf(b, i, v)
    BY <1>1
  <2>2. /\ Touches(Tx(b, i), v) /\ v \in Covenants /\ KindOf(b, i, v) \in Kinds
        /\ v \notin ProvesGenesis[Tx(b, i)] => KindOf(b, i, v) = TxKind(Tx(b, i), v)
    BY <2>1, KindIs
  <2>3. Tx(b, i) \in AcceptedTxs(b)
    BY DEF Tx, AcceptedTxs
  <2>4. ASSUME v \in ProvesGenesis[Tx(b, i)], ~Told(Tx(b, i), v), NEW r \in RowsOf(v)
        PROVE  Daa[r.block] > Daa[b]
    <3>1. /\ r \in rows /\ r.cov = v /\ r.block \in Path[Sink] /\ r.tx \in AcceptedTxs(r.block)
          /\ Touches(r.tx, v) /\ Shows(r.block)
      BY DEF RowsSound, RowsOf, ReachedNow
    <3>2. r.block \notin Path[b] \ {b}
      BY <2>4, <3>1, GenesisIsFirst
    <3>3. r.block # b
      <4>1. PICK c \in Outputs[Tx(b, i)] : CovenantOf[c] = v
        BY <2>4, GenesisIsFirst DEF Covs
      <4> QED
        BY <2>3, <2>4, <3>1, <4>1 DEF Shows
    <3>4. Daa[b] \in Nat /\ Daa[r.block] \in Nat /\ (r.block \in Path[b] <=> Daa[r.block] <= Daa[b])
      BY <3>1, OnChain
    <3> QED
      BY <3>2, <3>3, <3>4
  <2>5. v \in ProvesGenesis[Tx(b, i)] /\ ~Told(Tx(b, i), v) => e.kind = TxKind(Tx(b, i), v)
    BY <2>1, <2>4 DEF TxKind
  <2> QED
    BY <2>1, <2>2, <2>3, <2>5 DEF Kinds
<1>4. Fits(B, b)
  BY <1>1, <1>2, <1>3 DEF Fits
<1>5. FitsOutputs(B, b)
  BY <1>1, <1>2 DEF FitsOutputs
<1> QED
  BY <1>4, <1>5 DEF B

\* In the window nothing is left out, once the blocks before are whole.
LEMMA CaptureFills ==
    ASSUME NEW b \in Path[Sink], AcceptedTxs(b) \subseteq walker.bodies, RowsSound, CoinsSound,
           \A a \in Path[b] \ {b} : Whole(a)
    PROVE  Fills(Capture(b), b)
<1> DEFINE B == Capture(b)
           C == Classify(b)
<1>1. /\ B.created = C.created /\ B.spent = C.spent
      /\ \A t, v : Tells(C, t, v) => Tells(B, t, v)
  BY CaptureIs
<1>2. FitsOutputs(B, b)
  BY CaptureFits
<1> HIDE DEF B, C
<1>3. ASSUME NEW t \in AcceptedTxs(b), NEW c \in Inputs[t]
      PROVE  /\ spent[c] # NoBlock \/ c \in B.spent
             /\ Told(t, CovenantOf[c]) \/ Tells(B, t, CovenantOf[c])
  <2>1. CASE Live(c) \/ Makes(c, b)
    BY <1>1, <2>1, ClassifySees DEF C
  <2>2. CASE ~Live(c) /\ ~Makes(c, b)
    <3>1. spent[c] # NoBlock
      BY <2>2, WholeMakers DEF Live
    <3> QED
      BY <3>1, SpendIsTold
  <2> QED
    BY <2>1, <2>2
<1> QED
  BY <1>2, <1>3 DEF Fills, B

\* Above the window live sync was there: it showed the outputs, and missed at most
\* what it could not know to be live.
LEMMA ReconcileFits ==
    ASSUME NEW b \in Followed, AcceptedTxs(b) \subseteq walker.bodies, FollowedTold
    PROVE  Fits(Reconcile(b), b) /\ FitsOutputs(Reconcile(b), b)
<1> DEFINE B == Reconcile(b)
           hit(i) == {c \in Inputs[Tx(b, i)] : Live(c)}
           D == DOMAIN Accepted[b]
<1>1. /\ b \in Path[Sink] /\ b \in Blocks /\ Shows(b)
      /\ \A i \in D : Tx(b, i) \in Txs /\ Tx(b, i) \in AcceptedTxs(b)
      /\ \A t \in Txs : Inputs[t] \subseteq Coins /\ Outputs[t] \subseteq Coins
  BY OnChain, Listed, DataAssumption DEF Followed, ReachedNow, FollowedTold, Tx
<1>2. Known1(b) = D
  BY <1>1, WholeBodies
<1>3. /\ B.block = b /\ B.created = {} /\ B.spent = UNION {hit(i) : i \in D}
      /\ B.events = UNION {{[index |-> i, tx |-> Tx(b, i), cov |-> CovenantOf[c], kind |-> "burn"]
                              : c \in hit(i)} : i \in D}
  BY <1>2 DEF Reconcile
<1> HIDE DEF B
<1>4. \A e \in B.events : \E i \in D : \E c \in hit(i) :
         e = [index |-> i, tx |-> Tx(b, i), cov |-> CovenantOf[c], kind |-> "burn"]
  BY <1>3
<1>5. ASSUME NEW e \in B.events
      PROVE  /\ e.index \in D /\ e.tx = Tx(b, e.index) /\ e.kind = "burn"
             /\ \E c \in Inputs[Tx(b, e.index)] : c \in Coins /\ e.cov = CovenantOf[c]
  <2>0. PICK i \in D : \E c \in hit(i) :
           e = [index |-> i, tx |-> Tx(b, i), cov |-> CovenantOf[c], kind |-> "burn"]
    BY <1>4
  <2>1. PICK c \in hit(i) :
           e = [index |-> i, tx |-> Tx(b, i), cov |-> CovenantOf[c], kind |-> "burn"]
    BY <2>0
  <2> QED
    BY <1>1, <2>1
<1>6. \A e, f \in B.events : e.index = f.index /\ e.cov = f.cov => e = f
  BY <1>4
<1>7. ASSUME NEW e \in B.events
      PROVE  /\ e.tx \in AcceptedTxs(b) /\ e.cov \in Covenants /\ Touches(e.tx, e.cov) /\ e.kind \in Kinds
             /\ ~Told(e.tx, e.cov) => e.kind = TxKind(e.tx, e.cov)
  <2> DEFINE t == Tx(b, e.index)
             v == e.cov
  <2>1. e.index \in D /\ e.tx = t /\ e.kind = "burn" /\ \E c \in Inputs[t] : c \in Coins /\ v = CovenantOf[c]
    BY <1>5
  <2>2. t \in AcceptedTxs(b) /\ v \in Covenants /\ v \in Covs(Inputs[t])
    BY <1>1, <2>1, DataAssumption DEF Covs
  <2>3. Touches(t, v)
    BY <2>2 DEF Touches, Covs
  <2>4. v \in Covs(Outputs[t]) => Told(t, v)
    BY <1>1, <2>2 DEF Shows, Covs
  <2>5. v \in ProvesGenesis[t] => v \in Covs(Outputs[t])
    BY <1>1, <2>1, GenesisIsFirst
  <2> QED
    BY <2>1, <2>2, <2>3, <2>4, <2>5 DEF TxKind, Kinds
<1>8. Keys(B)
  BY <1>1, <1>5, <1>6, <1>7, KeyedEvents
<1>9. ASSUME NEW i \in D, NEW c \in hit(i)
      PROVE  Tells(B, Tx(b, i), CovenantOf[c]) /\ c \in Coins
  <2> DEFINE e == [index |-> i, tx |-> Tx(b, i), cov |-> CovenantOf[c], kind |-> "burn"]
  <2>1. e \in B.events
    BY <1>3
  <2>2. e.tx = Tx(b, i) /\ e.cov = CovenantOf[c]
    OBVIOUS
  <2> QED
    BY <1>1, <2>1, <2>2 DEF Tells
<1>10. ASSUME NEW c \in B.spent
       PROVE  /\ c \in Coins /\ created[c] # NoBlock
              /\ \E t \in AcceptedTxs(b) : c \in Inputs[t] /\ Tells(B, t, CovenantOf[c])
  <2>1. PICK i \in D : c \in hit(i)
    BY <1>3, <1>10
  <2> QED
    BY <1>1, <1>9, <2>1 DEF Live
<1>11. Fits(B, b)
  BY <1>3, <1>7, <1>8, <1>10 DEF Fits
<1>12. FitsOutputs(B, b)
  BY <1>1 DEF FitsOutputs, Shows
<1> QED
  BY <1>11, <1>12 DEF B

\* ... and, after whole blocks, it leaves nothing out.
LEMMA ReconcileFills ==
    ASSUME NEW b \in Followed, AcceptedTxs(b) \subseteq walker.bodies, FollowedTold, CoinsSound,
           \A a \in Path[b] \ {b} : Whole(a)
    PROVE  Fills(Reconcile(b), b)
<1> DEFINE B == Reconcile(b)
<1>1. b \in Path[Sink] /\ b \in Blocks
  BY OnChain DEF Followed, ReachedNow
<1>2. FitsOutputs(B, b)
  BY ReconcileFits
<1>3. Known1(b) = DOMAIN Accepted[b]
  BY <1>1, WholeBodies
<1>4. ASSUME NEW t \in AcceptedTxs(b), NEW c \in Inputs[t]
      PROVE  /\ spent[c] # NoBlock \/ c \in B.spent
             /\ Told(t, CovenantOf[c]) \/ Tells(B, t, CovenantOf[c])
  <2>1. CASE Makes(c, b)
    BY <2>1 DEF FollowedTold
  <2>2. CASE spent[c] # NoBlock
    BY <1>1, <2>2, SpendIsTold
  <2>3. CASE ~Makes(c, b) /\ spent[c] = NoBlock
    <3>1. Live(c)
      BY <1>1, <2>3, WholeMakers DEF Live
    <3>2. PICK i \in DOMAIN Accepted[b] : Tx(b, i) = t
      BY <1>1, Listed DEF Tx
    <3> DEFINE e == [index |-> i, tx |-> Tx(b, i), cov |-> CovenantOf[c], kind |-> "burn"]
    <3>3. e \in B.events /\ c \in B.spent
      BY <1>3, <3>1, <3>2 DEF Reconcile
    <3>4. e.tx = t /\ e.cov = CovenantOf[c]
      BY <3>2
    <3> QED
      BY <3>3, <3>4 DEF Tells
  <2> QED
    BY <2>1, <2>2, <2>3
<1> QED
  BY <1>2, <1>4 DEF Fills

-----------------------------------------------------------------------------
(* Taking up a batch *)

\* What both transactions, the live one and the merge, do with one.
TakesUp(B) ==
    /\ created' = [c \in Coins |-> IF IsNew(c, B) THEN B.block ELSE created[c]]
    /\ spent' = [c \in Coins |->
                   IF c \in B.spent /\ (IsNew(c, B) \/ Live(c)) THEN B.block ELSE spent[c]]
    /\ rows \subseteq rows'
    /\ \A r \in rows' \ rows :
          r.block = B.block
          /\ \E e \in B.events : r.tx = e.tx /\ r.cov = e.cov /\ r.kind = e.kind /\ ~Told(e.tx, e.cov)
    /\ \A e \in B.events : Told(e.tx, e.cov)'

\* Nothing that was told or marked is taken back.
LEMMA NothingLost ==
    ASSUME NEW B, TakesUp(B), B.block # NoBlock
    PROVE  /\ \A t, v : Told(t, v) => Told(t, v)'
           /\ \A c \in Coins : /\ created[c] # NoBlock => created'[c] # NoBlock
                               /\ spent[c] # NoBlock => spent'[c] # NoBlock
           /\ \A b \in Blocks : (Shows(b) => Shows(b)') /\ (Whole(b) => Whole(b)')
<1>1. \A t, v : Told(t, v) => Told(t, v)'
  BY DEF TakesUp, Told
<1>2. \A c \in Coins : /\ created[c] # NoBlock => created'[c] # NoBlock
                       /\ spent[c] # NoBlock => spent'[c] # NoBlock
  BY DEF TakesUp
<1>3. \A b \in Blocks : \A t \in AcceptedTxs(b) : Inputs[t] \subseteq Coins /\ Outputs[t] \subseteq Coins
  BY Listed, DataAssumption
<1>4. \A b \in Blocks : Shows(b) => Shows(b)'
  BY <1>1, <1>2, <1>3 DEF Shows
<1>5. \A b \in Blocks : Whole(b) => Whole(b)'
  BY <1>1, <1>2, <1>3, <1>4 DEF Whole
<1> QED
  BY <1>1, <1>2, <1>4, <1>5

\* A batch that fits leaves rows and coins sound.
LEMMA TakeUpSound ==
    ASSUME NEW b \in Path[Sink], NEW B, Fits(B, b), FitsOutputs(B, b), TakesUp(B),
           RowsSound, CoinsSound, ReachedNow \subseteq ReachedNow', b \in ReachedNow'
    PROVE  RowsSound' /\ CoinsSound' /\ Shows(b)'
<1>1. /\ b \in Blocks /\ b # NoBlock /\ B.block = b /\ ReachedNow \subseteq Blocks
      /\ Path[Sink] \subseteq Blocks
  BY OnChain DEF Fits, ReachedNow
<1>2. /\ \A t, v : Told(t, v) => Told(t, v)'
      /\ \A a \in Blocks : Shows(a) => Shows(a)'
      /\ \A c \in Coins : /\ created[c] # NoBlock => created'[c] # NoBlock
                          /\ spent[c] # NoBlock => spent'[c] # NoBlock
  BY <1>1, NothingLost
<1>3. \A t, v : Tells(B, t, v) => Told(t, v)'
  BY DEF Tells, TakesUp
<1>4. \A c \in Coins : /\ created'[c] = IF IsNew(c, B) THEN b ELSE created[c]
                       /\ spent'[c] = IF c \in B.spent /\ (IsNew(c, B) \/ Live(c)) THEN b ELSE spent[c]
  BY <1>1 DEF TakesUp
<1>5. Shows(b)'
  <2> SUFFICES ASSUME NEW t \in AcceptedTxs(b), NEW c \in Outputs[t]
               PROVE  created'[c] # NoBlock /\ Told(t, CovenantOf[c])'
    BY DEF Shows
  <2>1. c \in Coins
    BY <1>1, Listed, DataAssumption
  <2>2. Told(t, CovenantOf[c]) \/ Tells(B, t, CovenantOf[c])
    BY DEF FitsOutputs
  <2>3. created[c] # NoBlock \/ c \in B.created
    BY DEF FitsOutputs
  <2> QED
    BY <1>1, <1>2, <1>3, <1>4, <2>1, <2>2, <2>3 DEF IsNew
<1>6. RowsSound'
  <2> SUFFICES ASSUME NEW r \in rows'
               PROVE  /\ r.block \in ReachedNow' /\ r.tx \in AcceptedTxs(r.block)
                      /\ Touches(r.tx, r.cov) /\ r.kind = TxKind(r.tx, r.cov)
                      /\ Shows(r.block)'
    BY DEF RowsSound
  <2>1. CASE r \in rows
    <3>1. /\ r.block \in ReachedNow /\ r.tx \in AcceptedTxs(r.block)
          /\ Touches(r.tx, r.cov) /\ r.kind = TxKind(r.tx, r.cov)
          /\ Shows(r.block)
      BY <2>1 DEF RowsSound
    <3>2. r.block \in Blocks
      BY <1>1, <3>1
    <3> QED
      BY <1>2, <3>1, <3>2
  <2>2. CASE r \notin rows
    <3>1. PICK e \in B.events : /\ r.block = b /\ r.tx = e.tx /\ r.cov = e.cov /\ r.kind = e.kind
                                /\ ~Told(e.tx, e.cov)
      BY <1>1, <2>2 DEF TakesUp
    <3> QED
      BY <1>5, <3>1 DEF Fits
  <2> QED
    BY <2>1, <2>2
<1>7. CoinsSound'
  <2> SUFFICES ASSUME NEW c \in Coins
               PROVE  /\ created'[c] # NoBlock =>
                           /\ created'[c] \in ReachedNow'
                           /\ \E t \in AcceptedTxs(created'[c]) : c \in Outputs[t] /\ Told(t, CovenantOf[c])'
                      /\ spent'[c] # NoBlock =>
                           /\ created'[c] # NoBlock /\ spent'[c] \in ReachedNow'
                           /\ \E t \in AcceptedTxs(spent'[c]) : c \in Inputs[t] /\ Told(t, CovenantOf[c])'
    BY DEF CoinsSound
  <2>1. ASSUME created'[c] # NoBlock
        PROVE  /\ created'[c] \in ReachedNow'
               /\ \E t \in AcceptedTxs(created'[c]) : c \in Outputs[t] /\ Told(t, CovenantOf[c])'
    <3>1. CASE IsNew(c, B)
      <4>1. \E t \in AcceptedTxs(b) : c \in Outputs[t] /\ Tells(B, t, CovenantOf[c])
        BY <3>1 DEF Fits, IsNew
      <4> QED
        BY <1>3, <1>4, <3>1, <4>1
    <3>2. CASE ~IsNew(c, B)
      <4>1. created'[c] = created[c] /\ created[c] # NoBlock
        BY <1>4, <2>1, <3>2
      <4> QED
        BY <1>2, <4>1 DEF CoinsSound
    <3> QED
      BY <3>1, <3>2
  <2>2. ASSUME spent'[c] # NoBlock
        PROVE  /\ created'[c] # NoBlock /\ spent'[c] \in ReachedNow'
               /\ \E t \in AcceptedTxs(spent'[c]) : c \in Inputs[t] /\ Told(t, CovenantOf[c])'
    <3>1. CASE c \in B.spent /\ (IsNew(c, B) \/ Live(c))
      <4>1. \E t \in AcceptedTxs(b) : c \in Inputs[t] /\ Tells(B, t, CovenantOf[c])
        BY <3>1 DEF Fits
      <4>2. created'[c] # NoBlock
        BY <1>1, <1>2, <1>4, <3>1 DEF Live
      <4> QED
        BY <1>3, <1>4, <3>1, <4>1, <4>2
    <3>2. CASE ~(c \in B.spent /\ (IsNew(c, B) \/ Live(c)))
      <4>1. spent'[c] = spent[c] /\ spent[c] # NoBlock
        BY <1>4, <2>2, <3>2
      <4> QED
        BY <1>2, <4>1 DEF CoinsSound
    <3> QED
      BY <3>1, <3>2
  <2> QED
    BY <2>1, <2>2
<1> QED
  BY <1>5, <1>6, <1>7

\* One that leaves nothing out makes its block whole.
LEMMA TakeUpWhole ==
    ASSUME NEW b \in Path[Sink], NEW B, Fits(B, b), Fills(B, b), TakesUp(B)
    PROVE  Whole(b)'
<1>1. b \in Blocks /\ b # NoBlock /\ B.block = b
  BY OnChain DEF Fits
<1>2. /\ \A t, v : Told(t, v) => Told(t, v)'
      /\ \A c \in Coins : /\ created[c] # NoBlock => created'[c] # NoBlock
                          /\ spent[c] # NoBlock => spent'[c] # NoBlock
  BY <1>1, NothingLost
<1>3. \A t, v : Tells(B, t, v) => Told(t, v)'
  BY DEF Tells, TakesUp
<1>4. \A c \in Coins : /\ created'[c] = IF IsNew(c, B) THEN b ELSE created[c]
                       /\ spent'[c] = IF c \in B.spent /\ (IsNew(c, B) \/ Live(c)) THEN b ELSE spent[c]
  BY <1>1 DEF TakesUp
<1>5. \A t \in AcceptedTxs(b) : Inputs[t] \subseteq Coins /\ Outputs[t] \subseteq Coins
  BY <1>1, Listed, DataAssumption
<1>6. ASSUME NEW t \in AcceptedTxs(b), NEW c \in Outputs[t]
      PROVE  created'[c] # NoBlock /\ Told(t, CovenantOf[c])'
  <2>1. /\ created[c] # NoBlock \/ c \in B.created
        /\ Told(t, CovenantOf[c]) \/ Tells(B, t, CovenantOf[c])
    BY DEF Fills, FitsOutputs
  <2> QED
    BY <1>1, <1>2, <1>3, <1>4, <1>5, <2>1 DEF IsNew
<1>7. ASSUME NEW t \in AcceptedTxs(b), NEW c \in Inputs[t]
      PROVE  spent'[c] # NoBlock /\ Told(t, CovenantOf[c])'
  <2>1. /\ spent[c] # NoBlock \/ c \in B.spent
        /\ Told(t, CovenantOf[c]) \/ Tells(B, t, CovenantOf[c])
    BY DEF Fills
  <2>2. c \in Coins
    BY <1>5
  <2>3. CASE spent[c] # NoBlock
    BY <1>2, <1>3, <2>1, <2>2, <2>3
  <2>4. CASE spent[c] = NoBlock
    <3>1. c \in B.spent /\ (created[c] # NoBlock \/ c \in B.created)
      BY <2>1, <2>4 DEF Fits
    <3>2. IsNew(c, B) \/ Live(c)
      BY <2>4, <3>1 DEF IsNew, Live
    <3> QED
      BY <1>1, <1>2, <1>3, <1>4, <2>1, <2>2, <3>1, <3>2
  <2> QED
    BY <2>3, <2>4
<1> QED
  BY <1>6, <1>7 DEF Whole, Shows

\* The merge takes up a batch of the walk.
LEMMA MergeTakesUp ==
    ASSUME NEW B, MergeRecovered(B)
    PROVE  TakesUp(B)
<1> DEFINE new == NotYetHeld(B)
           row(e) == [cov |-> e.cov, seq |-> CovenantSeq([B EXCEPT !.events = new], e),
                      kind |-> e.kind, tx |-> e.tx, block |-> B.block, stream |-> 0]
<1>1. created' = [c \in Coins |-> IF IsNew(c, B) THEN B.block ELSE created[c]]
  BY DEF MergeRecovered, IsNew
<1>2. spent' = [c \in Coins |->
                   IF c \in B.spent /\ (IsNew(c, B) \/ Live(c)) THEN B.block ELSE spent[c]]
  BY DEF MergeRecovered, IsNew
<1>3. rows' = rows \cup {row(e) : e \in new}
  BY DEF MergeRecovered
<1>4. \A e : row(e).cov = e.cov /\ row(e).tx = e.tx /\ row(e).kind = e.kind /\ row(e).block = B.block
  OBVIOUS
<1>5. new = {e \in B.events : ~Told(e.tx, e.cov)}
  BY DEF NotYetHeld, Told
<1> HIDE DEF row, new
<1>6. \A r \in rows' \ rows :
          r.block = B.block
          /\ \E e \in B.events : r.tx = e.tx /\ r.cov = e.cov /\ r.kind = e.kind /\ ~Told(e.tx, e.cov)
  BY <1>3, <1>4, <1>5
<1>7. ASSUME NEW e \in B.events PROVE \E r \in rows' : r.tx = e.tx /\ r.cov = e.cov
  <2>1. CASE e \in new
    BY <1>3, <1>4, <2>1
  <2>2. CASE e \notin new
    BY <1>3, <1>5, <2>2 DEF Told
  <2> QED
    BY <2>1, <2>2
<1> QED
  BY <1>1, <1>2, <1>3, <1>6, <1>7 DEF TakesUp, Told

\* And so does the transaction of live sync, for a block above the index.
LEMMA ApplyTakesUp ==
    ASSUME NEW b \in Path[Sink], b \notin ReachedNow, RowsSound, CoinsSound, nextSeq \in Nat,
           WriteCoins(Classify(b)), rows' = rows \cup NewRows(Classify(b))
    PROVE  TakesUp(Classify(b))
<1> DEFINE B == Classify(b)
<1>1. b \in Blocks /\ Sink \in Blocks /\ B.block = b /\ Keys(B)
  BY OnChain, GapAssumption, ClassifiedKeys DEF Classify
<1>2. /\ \A c \in B.created : c \in Coins /\ Makes(c, b)
      /\ \A c \in B.spent : c \in Coins /\ (Live(c) \/ Makes(c, b))
      /\ \A c : Makes(c, b) => c \in B.created
  BY <1>1, ClassifiedCoins, ClassifyReads
<1>3. \A e \in B.events : e.tx \in AcceptedTxs(b)
  BY <1>1, ClassifiedEvents, Listed
<1>4. /\ created' = [c \in Coins |-> IF c \in B.created THEN b ELSE created[c]]
      /\ spent' = [c \in Coins |-> IF c \in B.spent THEN b
                                   ELSE IF c \in B.created THEN NoBlock ELSE spent[c]]
  BY <1>1 DEF WriteCoins
<1>5. NewRows(B) = {RowOf(B, e) : e \in B.events}
  BY <1>1, RowPerEvent
<1>6. \A e : RowOf(B, e).cov = e.cov /\ RowOf(B, e).tx = e.tx /\ RowOf(B, e).kind = e.kind
             /\ RowOf(B, e).block = b
  BY <1>1 DEF RowOf
<1>7. rows' = rows \cup NewRows(B)
  OBVIOUS
<1> HIDE DEF B
<1>8. \A c \in Coins : c \in B.created => created[c] = NoBlock
  <2> SUFFICES ASSUME NEW c \in Coins, c \in B.created, created[c] # NoBlock PROVE FALSE
    OBVIOUS
  <2>1. created[c] \in Path[Sink] /\ created[c] \in ReachedNow /\ Makes(c, created[c])
    BY DEF CoinsSound, ReachedNow, Makes
  <2> QED
    BY <1>1, <1>2, <2>1, OneCreator
<1>9. \A c \in Coins : created[c] = NoBlock => spent[c] = NoBlock
  BY DEF CoinsSound
<1>10. \A e \in B.events : ~Told(e.tx, e.cov)
  <2> SUFFICES ASSUME NEW e \in B.events, NEW r \in rows, r.tx = e.tx PROVE FALSE
    BY DEF Told
  <2>1. r.block \in ReachedNow /\ r.tx \in AcceptedTxs(r.block)
    BY DEF RowsSound
  <2>2. r.block \in Path[Sink]
    BY <2>1 DEF ReachedNow
  <2> QED
    BY <1>1, <1>3, <2>1, <2>2, AcceptedOnce
<1>11. \A c \in Coins : IsNew(c, B) <=> c \in B.created
  BY <1>8 DEF IsNew
<1>12. created' = [c \in Coins |-> IF IsNew(c, B) THEN B.block ELSE created[c]]
  BY <1>1, <1>4, <1>11 DEF B
<1>13. ASSUME NEW c \in Coins
       PROVE  (IF c \in B.spent THEN b ELSE IF c \in B.created THEN NoBlock ELSE spent[c]) =
              IF c \in B.spent /\ (IsNew(c, B) \/ Live(c)) THEN b ELSE spent[c]
  BY <1>2, <1>8, <1>9, <1>11
<1>14. B.block = b
  BY <1>1 DEF B
<1>15. spent' = [c \in Coins |->
                   IF c \in B.spent /\ (IsNew(c, B) \/ Live(c)) THEN B.block ELSE spent[c]]
  BY <1>4, <1>13, <1>14
<1>16. \A r \in rows' \ rows :
          r.block = B.block
          /\ \E e \in B.events : r.tx = e.tx /\ r.cov = e.cov /\ r.kind = e.kind /\ ~Told(e.tx, e.cov)
  BY <1>5, <1>6, <1>7, <1>10, <1>14
<1>17. \A e \in B.events : \E r \in rows' : r.tx = e.tx /\ r.cov = e.cov
  BY <1>5, <1>6, <1>7
<1> QED
  BY <1>7, <1>12, <1>15, <1>16, <1>17 DEF TakesUp, Told, B

-----------------------------------------------------------------------------
(* First and last *)

\* Place zero is that of the first, and there is one.
LEMMA HasFirst ==
    ASSUME NEW S, IsFiniteSet(S), NEW R, Orders(R, S)
    PROVE  /\ \A x \in S : Place(x, R, S) = 0 <=> \A y \in S : <<y, x>> \notin R
           /\ S # {} => \E x \in S : Place(x, R, S) = 0
<1>1. ASSUME NEW x \in S
      PROVE  Place(x, R, S) = 0 <=> \A y \in S : <<y, x>> \notin R
  <2> DEFINE before == {y \in S : <<y, x>> \in R}
  <2>1. IsFiniteSet(before)
    BY PlaceBound
  <2>2. Place(x, R, S) = Cardinality(before)
    BY DEF Place
  <2>3. Cardinality(before) = 0 <=> before = {}
    <3> HIDE DEF before
    <3> QED
      BY <2>1, FS_EmptySet
  <2> QED
    BY <2>2, <2>3
<1>2. ASSUME S # {} PROVE \E x \in S : Place(x, R, S) = 0
  <2>1. {Place(x, R, S) : x \in S} = 0..(Cardinality(S) - 1) /\ Cardinality(S) \in Nat
    BY PlacesAreDense
  <2>2. Cardinality(S) # 0
    BY <1>2, FS_EmptySet
  <2>3. 0 \in 0..(Cardinality(S) - 1)
    BY <2>1, <2>2
  <2> QED
    BY <2>1, <2>3
<1> QED
  BY <1>1, <1>2

\* A finite set of numbers has a greatest.
LEMMA HasGreatest ==
    ASSUME NEW S \in SUBSET Nat, IsFiniteSet(S), S # {}
    PROVE  \E n \in S : \A m \in S : m <= n
<1> DEFINE R == {p \in S \X S : p[1] > p[2]}
<1>1. Orders(R, S)
  BY DEF Orders
<1>2. \A m, n \in S : <<m, n>> \notin R => m <= n
  OBVIOUS
<1> HIDE DEF R
<1>3. PICK n \in S : \A m \in S : <<m, n>> \notin R
  BY <1>1, HasFirst
<1> QED
  BY <1>2, <1>3

\* The canonical chain is finite, and any part of it has two ends.
LEMMA ChainIsFinite == IsFiniteSet(Path[Sink])
<1> DEFINE S == Path[Sink]
           top == Daa[Sink]
           f == [b \in S |-> Daa[b]]
<1>1. Sink \in S
  BY GapAssumption, TreeAssumption
<1>2. top \in Nat /\ \A b \in S : Daa[b] \in Nat /\ Daa[b] <= top
  BY <1>1, OnChain
<1>3. \A a, b \in S : Daa[a] = Daa[b] => a = b
  BY OnChain
<1> HIDE DEF S, top
<1>4. f \in Injection(S, 0..top)
  BY <1>2, <1>3 DEF Injection, IsInjective
<1>5. IsFiniteSet(0..top)
  BY <1>2, FS_Interval
<1>6. IsFiniteSet(S)
  BY <1>4, <1>5, FS_Injection
<1> QED
  BY <1>6 DEF S

\* Blocks of the chain have a last one and a first one.
LEMMA ChainHasEnds ==
    ASSUME NEW S \in SUBSET Path[Sink], S # {}
    PROVE  /\ \E b \in S : \A x \in S : x \in Path[b]
           /\ \E b \in S : \A x \in S : b \in Path[x]
<1> DEFINE up == {p \in S \X S : Daa[p[1]] < Daa[p[2]]}
           down == {p \in S \X S : Daa[p[1]] > Daa[p[2]]}
<1>1. IsFiniteSet(S)
  BY ChainIsFinite, FS_Subset
<1>2. /\ \A a, b \in S : a \in Path[b] <=> Daa[a] <= Daa[b]
      /\ \A a, b \in S : Daa[a] = Daa[b] => a = b
      /\ \A a \in S : Daa[a] \in Nat
  BY OnChain
<1>3. Orders(up, S)
  BY <1>2 DEF Orders
<1>4. Orders(down, S)
  BY <1>2 DEF Orders
<1>5. \A a, b \in S : (<<a, b>> \in up <=> Daa[a] < Daa[b]) /\ (<<a, b>> \in down <=> Daa[a] > Daa[b])
  OBVIOUS
<1> HIDE DEF up, down
<1>6. PICK b \in S : \A x \in S : <<x, b>> \notin up
  BY <1>1, <1>3, HasFirst
<1>7. PICK d \in S : \A x \in S : <<x, d>> \notin down
  BY <1>1, <1>4, HasFirst
<1>8. \A x \in S : b \in Path[x]
  <2> TAKE x \in S
  <2>1. ~(Daa[x] < Daa[b]) /\ Daa[x] \in Nat /\ Daa[b] \in Nat
    BY <1>2, <1>5, <1>6
  <2> QED
    BY <1>2, <2>1
<1>9. \A x \in S : x \in Path[d]
  <2> TAKE x \in S
  <2>1. ~(Daa[x] > Daa[d]) /\ Daa[x] \in Nat /\ Daa[d] \in Nat
    BY <1>2, <1>5, <1>7
  <2> QED
    BY <1>2, <2>1
<1> QED
  BY <1>8, <1>9

-----------------------------------------------------------------------------
(* The order of a lineage *)

Record == [cov : Covenants, seq : Nat, kind : Kinds, tx : Txs, block : Blocks, stream : Nat]
RowsAreRecords == rows \subseteq Record /\ IsFiniteSet(rows)
SeqsUnique == \A r, s \in rows : r.cov = s.cov /\ r.seq = s.seq => r = s

\* Rows of a covenant are in order of score and number, and its places are
\* those finalize gives.
LEMMA PlaceInIs ==
    ASSUME RowsAreRecords, SeqsUnique, NEW v
    PROVE  LET S == RowsOf(v)
               R == {p \in S \X S : RowBefore(p[1], p[2])}
           IN  /\ IsFiniteSet(S) /\ Orders(R, S)
               /\ \A r, s \in S : <<r, s>> \in R <=> RowBefore(r, s)
               /\ \A r \in S : PlaceIn(r) = Place(r, R, S)
<1> DEFINE S == RowsOf(v)
           R == {p \in S \X S : RowBefore(p[1], p[2])}
<1>1. IsFiniteSet(S)
  <2>1. S \in SUBSET rows
    BY DEF RowsOf
  <2> QED
    BY <2>1, FS_Subset DEF RowsAreRecords
<1>2. \A r \in S : r \in rows /\ r.cov = v /\ r.seq \in Nat /\ Daa[r.block] \in Nat
  BY TreeAssumption DEF RowsOf, RowsAreRecords, Record
<1>3. \A r, s \in S : <<r, s>> \in R <=> RowBefore(r, s)
  OBVIOUS
<1>4. \A r \in S : PlaceIn(r) = Place(r, R, S)
  <2> SUFFICES ASSUME NEW r \in S PROVE PlaceIn(r) = Place(r, R, S)
    OBVIOUS
  <2>1. {s \in RowsOf(r.cov) : RowBefore(s, r)} = {s \in S : <<s, r>> \in R}
    BY <1>2
  <2> QED
    BY <2>1 DEF PlaceIn, Place
<1> HIDE DEF R
<1>5. \A r, s \in S : r # s => r.seq # s.seq
  BY <1>2 DEF SeqsUnique
<1>6. Orders(R, S)
  <2> HIDE DEF S
  <2>1. \A x \in S : ~RowBefore(x, x)
    BY <1>2 DEF RowBefore
  <2>2. \A x, y \in S : x # y => RowBefore(x, y) \/ RowBefore(y, x)
    BY <1>2, <1>5 DEF RowBefore
  <2>3. \A x, y, z \in S : RowBefore(x, y) /\ RowBefore(y, z) => RowBefore(x, z)
    BY <1>2 DEF RowBefore
  <2> QED
    BY ONLY <1>3, <2>1, <2>2, <2>3 DEF Orders
<1> QED
  BY <1>1, <1>3, <1>4, <1>6 DEF R

\* The numbers a merge gives are new and distinct.
LEMMA FreshNumbers ==
    ASSUME RowsAreRecords, NEW C, Keys(C), NEW e \in C.events
    PROVE  /\ CovenantSeq(C, e) \in Nat
           /\ \A r \in RowsOf(e.cov) : r.seq < CovenantSeq(C, e)
           /\ \A f \in C.events : f.cov = e.cov /\ CovenantSeq(C, f) = CovenantSeq(C, e) => f = e
<1> DEFINE v == e.cov
           taken == {r.seq : r \in RowsOf(v)}
           above == IF taken = {} THEN 0 ELSE 1 + CHOOSE n \in taken : \A m \in taken : m <= n
           S == {f \in C.events : f.cov = v}
           R == {p \in S \X S : EventBefore(p[1], p[2])}
<1>1. IsFiniteSet(S)
  <2>1. S \in SUBSET C.events
    OBVIOUS
  <2> QED
    BY <2>1, FS_Subset DEF Keys
<1>2. Orders(R, S)
  BY DEF Orders, Keys, EventBefore
<1>3. \A f \in S : CovenantSeq(C, f) = above + Place(f, R, S)
  <2> SUFFICES ASSUME NEW f \in S PROVE CovenantSeq(C, f) = above + Place(f, R, S)
    OBVIOUS
  <2>1. f.cov = v /\ f \in C.events
    OBVIOUS
  <2>2. {g \in C.events : g.cov = f.cov /\ EventBefore(g, f)} = {g \in S : <<g, f>> \in R}
    BY <2>1
  <2>3. {r.seq : r \in {q \in rows : q.cov = f.cov}} = taken
    BY <2>1 DEF RowsOf
  <2> DEFINE held == {r.seq : r \in {q \in rows : q.cov = f.cov}}
  <2>4. CovenantSeq(C, f) = (IF held = {} THEN 0 ELSE 1 + CHOOSE m \in held : \A k \in held : k <= m)
                            + Cardinality({g \in C.events : g.cov = f.cov /\ EventBefore(g, f)})
    BY DEF CovenantSeq
  <2>5. held = taken
    BY <2>3
  <2> HIDE DEF held, taken, S, R
  <2> QED
    BY <2>2, <2>4, <2>5 DEF Place
<1>4. IsFiniteSet(taken) /\ taken \in SUBSET Nat
  <2> DEFINE own == RowsOf(v)
             f == [r \in own |-> r.seq]
  <2>1. IsFiniteSet(own) /\ \A r \in own : r.seq \in Nat
    <3>1. own \in SUBSET rows
      BY DEF RowsOf
    <3> QED
      BY <3>1, FS_Subset DEF RowsAreRecords, Record
  <2> HIDE DEF own
  <2>2. f \in Surjection(own, {r.seq : r \in own})
    BY DEF Surjection
  <2>3. IsFiniteSet({r.seq : r \in own})
    BY <2>1, <2>2, FS_Surjection
  <2> QED
    BY <2>1, <2>3 DEF own
<1>5. above \in Nat /\ \A m \in taken : m < above
  <2> HIDE DEF taken
  <2>1. CASE taken = {}
    BY <2>1
  <2>2. CASE taken # {}
    <3>1. PICK n \in taken : \A m \in taken : m <= n
      BY <1>4, <2>2, HasGreatest
    <3> DEFINE top == CHOOSE k \in taken : \A m \in taken : m <= k
    <3>2. top \in taken /\ \A m \in taken : m <= top
      BY <3>1
    <3>3. above = 1 + top
      BY <2>2
    <3> HIDE DEF top, above
    <3> QED
      BY <1>4, <3>2, <3>3
  <2> QED
    BY <2>1, <2>2
<1>6. \A r \in RowsOf(v) : r.seq \in taken
  OBVIOUS
<1>7. e \in S /\ \A f \in C.events : f.cov = v => f \in S
  OBVIOUS
<1> HIDE DEF taken, above, S, R
<1>8. \A f \in S : Place(f, R, S) \in Nat
  BY <1>1, <1>2, PlaceBound
<1>9. \A f, g \in S : Place(f, R, S) = Place(g, R, S) => f = g
  BY <1>1, <1>2, PlacesAreDense
<1>10. CovenantSeq(C, e) \in Nat /\ CovenantSeq(C, e) >= above
  BY <1>3, <1>5, <1>7, <1>8
<1>11. \A r \in RowsOf(v) : r.seq < CovenantSeq(C, e)
  <2> TAKE r \in RowsOf(v)
  <2>1. r.seq \in Nat /\ r.seq < above
    BY <1>4, <1>5, <1>6
  <2> QED
    BY <1>5, <1>10, <2>1
<1>12. ASSUME NEW f \in C.events, f.cov = v, CovenantSeq(C, f) = CovenantSeq(C, e) PROVE f = e
  <2>1. f \in S /\ Place(f, R, S) \in Nat /\ Place(e, R, S) \in Nat
    BY <1>7, <1>8, <1>12
  <2>2. above + Place(f, R, S) = above + Place(e, R, S)
    BY <1>3, <1>7, <1>12, <2>1
  <2>3. Place(f, R, S) = Place(e, R, S)
    BY <1>5, <2>1, <2>2
  <2> QED
    BY <1>7, <1>9, <2>1, <2>3
<1> QED
  BY <1>10, <1>11, <1>12 DEF v

-----------------------------------------------------------------------------
(* Numbers and summaries *)

Entry == [events : Nat, last : Nat, complete : BOOLEAN]
SummaryTypes ==
    /\ DOMAIN summary = {r.cov : r \in rows}
    /\ \A v \in DOMAIN summary : summary[v] \in Entry

\* A lineage in order of score, numbered from zero, with the summary it should have.
Tidy(v) ==
    /\ \A r, s \in RowsOf(v) : r.seq < s.seq => Daa[r.block] <= Daa[s.block]
    /\ {r.seq : r \in RowsOf(v)} = 0..(Cardinality(RowsOf(v)) - 1)
    /\ summary[v].events = Cardinality(RowsOf(v))
    /\ summary[v].complete <=> \E r \in RowsOf(v) : r.seq = 0 /\ r.kind = "genesis"

\* A row of it comes from a skipped block, so the next finalize numbers it again.
Late(v) == \E r \in RowsOf(v) : r.block \in past.skipped

NumberPart ==
    /\ RowsAreRecords /\ SeqsUnique /\ SummaryTypes
    /\ \A v \in DOMAIN summary : Tidy(v) \/ (meta.pending # <<>> /\ Late(v))

\* An event live sync did not record, of a block it applied, spends a coin made in
\* a block that was skipped.
LEMMA NewsIsLate ==
    ASSUME NEW b \in ReachedNow, \A a \in Path[b] \ {b} : Whole(a), RowsSound, FollowedTold,
           processed \in Nat, NEW t \in AcceptedTxs(b), NEW v, Touches(t, v), ~Told(t, v)
    PROVE  b \in past.skipped \/ Late(v)
<1> SUFFICES ASSUME b \notin past.skipped PROVE Late(v)
  OBVIOUS
<1>1. b \in Path[Sink] /\ Sink \in Blocks /\ b \in Followed
  BY GapAssumption DEF ReachedNow, Followed
<1>2. Shows(b) /\ \A c \in Inputs[t] : (\E a \in Followed : Makes(c, a)) => Told(t, CovenantOf[c])
  BY <1>1 DEF FollowedTold
<1>3. v \notin Covs(Outputs[t])
  BY <1>2 DEF Shows, Covs
<1>4. PICK c \in Inputs[t] : CovenantOf[c] = v
  BY <1>3 DEF Touches, Covs
<1>5. PICK a \in Path[b] : Makes(c, a)
  BY <1>1, <1>4, InputsMade
<1>6. a \notin Followed
  BY <1>2, <1>4, <1>5
<1>7. a \in ReachedNow
  <2>1. a \in Path[Sink] /\ Daa[b] \in Nat
    BY <1>1, OnChain
  <2>2. Daa[a] <= Daa[b] /\ Daa[a] \in Nat
    BY <1>1, <2>1, OnChain
  <2>3. Daa[a] \in Int /\ Daa[b] \in Int /\ Daa[b] <= processed
    BY <2>1, <2>2 DEF ReachedNow
  <2> QED
    BY <2>1, <2>2, <2>3 DEF ReachedNow
<1>8. a \in past.skipped /\ a # b /\ a \in Path[Sink]
  BY <1>1, <1>6, <1>7 DEF Followed, ReachedNow
<1>9. Whole(a)
  BY <1>8
<1>10. PICK u \in AcceptedTxs(a) : c \in Outputs[u]
  BY <1>5 DEF Makes
<1>11. PICK r \in rows : r.tx = u /\ r.cov = v
  BY <1>4, <1>9, <1>10 DEF Whole, Shows, Told
<1>12. r.block \in Path[Sink] /\ r.tx \in AcceptedTxs(r.block)
  BY DEF RowsSound, ReachedNow
<1>13. r.block = a
  BY <1>1, <1>8, <1>11, <1>12, AcceptedOnce
<1> QED
  BY <1>8, <1>11, <1>13 DEF Late, RowsOf

\* The merge of a block keeps every lineage in order but those with late rows.
LEMMA MergeKeepsNumbers ==
    ASSUME NEW b \in Path[Sink], NEW B, Fits(B, b), MergeRecovered(B),
           B = [block |-> B.block, daa |-> B.daa, apps |-> B.apps, events |-> B.events,
                created |-> B.created, spent |-> B.spent],
           \A e \in B.events : ~Told(e.tx, e.cov) => b \in past.skipped \/ Late(e.cov),
           NumberPart, meta.pending # <<>>, meta'.pending = meta.pending,
           past'.skipped = past.skipped
    PROVE  NumberPart'
<1> DEFINE new == NotYetHeld(B)
           C == [B EXCEPT !.events = new]
           seq(e) == CovenantSeq(C, e)
           row(e) == [cov |-> e.cov, seq |-> seq(e),
                      kind |-> e.kind, tx |-> e.tx, block |-> B.block, stream |-> 0]
           fresh == {row(e) : e \in new}
           named == {e.cov : e \in new}
<1>1. /\ b \in Blocks /\ B.block = b /\ Keys(B)
      /\ \A e \in B.events : e.cov \in Covenants /\ e.kind \in Kinds /\ e.tx \in Txs
  BY OnChain, Listed DEF Fits
<1>2. new \in SUBSET B.events /\ \A e \in new : ~Told(e.tx, e.cov)
  BY DEF NotYetHeld, Told
<1>3. rows' = rows \cup fresh
  BY DEF MergeRecovered
<1>4. summary' = [v \in DOMAIN summary \cup named |->
                    IF v \in DOMAIN summary THEN summary[v]
                    ELSE [events |-> 0, last |-> 0, complete |-> FALSE]]
  BY DEF MergeRecovered, KnownCovenant
<1>5. C.events = new
  <2>1. C = [[block |-> B.block, daa |-> B.daa, apps |-> B.apps, events |-> B.events,
              created |-> B.created, spent |-> B.spent] EXCEPT !.events = new]
    OBVIOUS
  <2> HIDE DEF new, C
  <2> QED
    BY <2>1
<1> HIDE DEF C, new
<1>6. IsFiniteSet(new)
  BY <1>1, <1>2, FS_Subset DEF Keys
<1>7. Keys(C)
  BY <1>1, <1>2, <1>5, <1>6 DEF Keys
<1>8. \A e \in new : /\ seq(e) \in Nat /\ \A r \in RowsOf(e.cov) : r.seq < seq(e)
                     /\ \A f \in new : f.cov = e.cov /\ seq(f) = seq(e) => f = e
  BY <1>5, <1>7, FreshNumbers DEF NumberPart
<1> HIDE DEF seq
<1>9. \A e \in new : row(e) \in Record
  BY <1>1, <1>2, <1>8 DEF Record
<1>10. \A e : row(e).cov = e.cov /\ row(e).seq = seq(e) /\ row(e).block = b
  BY <1>1
<1> HIDE DEF row
<1>11. IsFiniteSet(fresh)
  <2> DEFINE f == [e \in new |-> row(e)]
  <2>1. f \in Surjection(new, fresh)
    BY DEF Surjection
  <2> QED
    BY <1>6, <2>1, FS_Surjection
<1>12. \A r \in fresh : \E e \in new : r = row(e)
  OBVIOUS
<1>13. \A e \in new : row(e) \in fresh
  OBVIOUS
<1>14. {r.cov : r \in fresh} = named
  BY <1>10
<1> HIDE DEF fresh
<1>15. RowsAreRecords'
  <2>1. IsFiniteSet(rows \cup fresh)
    BY <1>11, FS_Union DEF NumberPart, RowsAreRecords
  <2>2. IsFiniteSet(rows')
    BY <1>3, <2>1
  <2> QED
    BY <1>3, <1>9, <1>12, <2>2 DEF NumberPart, RowsAreRecords
<1>16. SeqsUnique'
  <2> SUFFICES ASSUME NEW r \in rows', NEW s \in rows', r.cov = s.cov, r.seq = s.seq PROVE r = s
    BY DEF SeqsUnique
  <2>1. CASE r \in rows /\ s \in rows
    BY <2>1 DEF NumberPart, SeqsUnique
  <2>2. ASSUME NEW x \in rows, NEW y \in fresh, x.cov = y.cov PROVE x.seq # y.seq
    <3>1. PICK e \in new : y = row(e)
      BY <1>12
    <3>2. x \in RowsOf(e.cov)
      BY <1>10, <2>2, <3>1 DEF RowsOf
    <3>3. x.seq < seq(e) /\ seq(e) \in Nat /\ x.seq \in Nat
      BY <1>8, <3>2 DEF NumberPart, RowsAreRecords, Record
    <3> QED
      BY <1>10, <3>1, <3>3
  <2>3. CASE r \in fresh /\ s \in fresh
    <3>1. PICK e \in new : r = row(e)
      BY <1>12, <2>3
    <3>2. PICK f \in new : s = row(f)
      BY <1>12, <2>3
    <3>3. e.cov = f.cov /\ seq(e) = seq(f)
      BY <1>10, <3>1, <3>2
    <3> QED
      BY <1>8, <3>1, <3>2, <3>3
  <2> QED
    BY <1>3, <2>1, <2>2, <2>3
<1>17. SummaryTypes'
  <2>1. DOMAIN summary' = {r.cov : r \in rows} \cup {r.cov : r \in fresh}
    BY <1>4, <1>14 DEF NumberPart, SummaryTypes
  <2>2. DOMAIN summary' = {r.cov : r \in rows'}
    BY <1>3, <2>1
  <2>3. ASSUME NEW v \in DOMAIN summary' PROVE summary'[v] \in Entry
    <3>1. v \in DOMAIN summary => summary[v] \in Entry
      BY DEF NumberPart, SummaryTypes
    <3> QED
      BY <1>4, <2>3, <3>1 DEF Entry
  <2> QED
    BY <2>2, <2>3 DEF SummaryTypes
<1>18. \A v : Late(v) => Late(v)'
  BY <1>3 DEF Late, RowsOf
<1>19. ASSUME NEW v \in named PROVE Late(v)'
  <2>1. PICK e \in new : e.cov = v
    BY <1>19
  <2>2. b \in past.skipped \/ Late(v)
    BY <1>2, <2>1
  <2>3. row(e) \in rows' /\ row(e).cov = v /\ row(e).block = b
    BY <1>3, <1>10, <1>13, <2>1
  <2>4. CASE b \in past.skipped
    BY <2>3, <2>4 DEF Late, RowsOf
  <2> QED
    BY <1>18, <2>2, <2>4
<1>20. ASSUME NEW v \in DOMAIN summary', v \notin named, Tidy(v) PROVE Tidy(v)'
  <2>1. \A r \in fresh : r.cov # v
    BY <1>14, <1>20
  <2>2. RowsOf(v)' = RowsOf(v)
    BY <1>3, <2>1 DEF RowsOf
  <2>3. summary'[v] = summary[v]
    BY <1>4, <1>20
  <2>4. Cardinality(RowsOf(v)') = Cardinality(RowsOf(v))
    BY <2>2
  <2> QED
    BY ONLY <1>20, <2>2, <2>3, <2>4 DEF Tidy
<1>21. \A v \in DOMAIN summary' : Tidy(v)' \/ (meta'.pending # <<>> /\ Late(v)')
  <2> TAKE v \in DOMAIN summary'
  <2>1. CASE v \in named
    BY <1>19, <2>1
  <2>2. CASE v \notin named
    <3>1. v \in DOMAIN summary
      BY <1>4, <2>2
    <3>2. Tidy(v) \/ Late(v)
      BY <3>1 DEF NumberPart
    <3> QED
      BY <1>18, <1>20, <2>2, <3>2
  <2> QED
    BY <2>1, <2>2
<1> QED
  BY <1>15, <1>16, <1>17, <1>21 DEF NumberPart

\* Rows that differ in their numbers alone tell the same.
LEMMA SameTelling ==
    ASSUME \A r \in rows : \E s \in rows' : s.cov = r.cov /\ s.tx = r.tx /\ s.kind = r.kind /\ s.block = r.block,
           \A s \in rows' : \E r \in rows : s.cov = r.cov /\ s.tx = r.tx /\ s.kind = r.kind /\ s.block = r.block,
           created' = created, spent' = spent, processed' = processed, past' = past
    PROVE  /\ \A t, v : Told(t, v) <=> Told(t, v)'
           /\ \A b : (Shows(b) <=> Shows(b)') /\ (Whole(b) <=> Whole(b)')
           /\ ReachedNow' = ReachedNow /\ Followed' = Followed
           /\ RowsSound => RowsSound'
           /\ CoinsSound => CoinsSound'
           /\ FollowedTold => FollowedTold'
<1>1. \A t, v : Told(t, v) <=> Told(t, v)'
  BY DEF Told
<1>2. \A b : Shows(b) <=> Shows(b)'
  BY <1>1 DEF Shows
<1>3. \A b : Whole(b) <=> Whole(b)'
  BY <1>1, <1>2 DEF Whole
<1>4. ReachedNow' = ReachedNow
  BY DEF ReachedNow
<1>5. Followed' = Followed
  BY <1>4 DEF Followed
<1>6. ASSUME RowsSound PROVE RowsSound'
  BY <1>2, <1>4, <1>6 DEF RowsSound
<1>7. ASSUME CoinsSound PROVE CoinsSound'
  BY <1>1, <1>4, <1>7 DEF CoinsSound
<1>8. ASSUME FollowedTold PROVE FollowedTold'
  BY <1>1, <1>2, <1>5, <1>8 DEF FollowedTold
<1> QED
  BY <1>1, <1>2, <1>3, <1>4, <1>5, <1>6, <1>7, <1>8

\* finalize puts every lineage it numbers again in order, and those are all that
\* were not.
LEMMA FinalizeTidies ==
    ASSUME NumberPart, Finalize, past' = past,
           \A x \in past.skipped : walker.lo <= Daa[x] /\ Daa[x] <= walker.hi
    PROVE  /\ RowsAreRecords' /\ SeqsUnique' /\ SummaryTypes'
           /\ \A v \in DOMAIN summary' : Tidy(v)'
           /\ \A r \in rows : \E s \in rows' : s.cov = r.cov /\ s.tx = r.tx /\ s.kind = r.kind /\ s.block = r.block
           /\ \A s \in rows' : \E r \in rows : s.cov = r.cov /\ s.tx = r.tx /\ s.kind = r.kind /\ s.block = r.block
<1> DEFINE refresh == {r.cov : r \in {q \in rows : walker.lo <= Daa[q.block] /\ Daa[q.block] <= walker.hi}}
           first(v) == CHOOSE r \in RowsOf(v) : PlaceIn(r) = 0
           newest(v) == CHOOSE r \in RowsOf(v) : \A s \in RowsOf(v) : ~RowBefore(r, s)
           Again(r) == IF r.cov \in refresh THEN [r EXCEPT !.seq = PlaceIn(r)] ELSE r
<1>1. rows' = {Again(r) : r \in rows}
  BY DEF Finalize, Completed
<1>2. summary' = [v \in DOMAIN summary |->
                IF v \in refresh
                THEN [events |-> Cardinality(RowsOf(v)), last |-> Daa[newest(v).block],
                      complete |-> first(v).kind = "genesis"]
                ELSE summary[v]]
  BY DEF Finalize, Completed
<1>3. \A v \in DOMAIN summary : v \notin refresh => Tidy(v)
  <2> SUFFICES ASSUME NEW v, v \notin refresh, NEW r \in RowsOf(v), r.block \in past.skipped PROVE FALSE
    BY DEF NumberPart, Late
  <2>1. r \in rows /\ r.cov = v
    BY DEF RowsOf
  <2> QED
    BY <2>1
<1> HIDE DEF refresh
<1>4. ASSUME NEW v
      PROVE  LET S == RowsOf(v)
                 R == {p \in S \X S : RowBefore(p[1], p[2])}
             IN  /\ IsFiniteSet(S) /\ Orders(R, S)
                 /\ \A r, s \in S : <<r, s>> \in R <=> RowBefore(r, s)
                 /\ \A r \in S : PlaceIn(r) = Place(r, R, S)
  BY PlaceInIs DEF NumberPart
<1>5. \A r \in rows : r \in Record /\ r \in RowsOf(r.cov)
  BY DEF NumberPart, RowsAreRecords, RowsOf
<1>6. ASSUME NEW v
      PROVE  /\ IsFiniteSet(RowsOf(v)) /\ Cardinality(RowsOf(v)) \in Nat
             /\ \A r \in RowsOf(v) : PlaceIn(r) \in Nat
             /\ \A r, s \in RowsOf(v) : RowBefore(r, s) => PlaceIn(r) < PlaceIn(s)
             /\ \A r, s \in RowsOf(v) : PlaceIn(r) = PlaceIn(s) => r = s
             /\ {PlaceIn(r) : r \in RowsOf(v)} = 0..(Cardinality(RowsOf(v)) - 1)
             /\ RowsOf(v) # {} => \E r \in RowsOf(v) : PlaceIn(r) = 0
             /\ RowsOf(v) # {} => \E r \in RowsOf(v) : \A s \in RowsOf(v) : ~RowBefore(r, s)
  <2> DEFINE S == RowsOf(v)
             R == {p \in S \X S : RowBefore(p[1], p[2])}
             Q == {p \in S \X S : RowBefore(p[2], p[1])}
  <2>1. /\ IsFiniteSet(S) /\ Orders(R, S)
        /\ \A r, s \in S : <<r, s>> \in R <=> RowBefore(r, s)
        /\ \A r \in S : PlaceIn(r) = Place(r, R, S)
    BY <1>4
  <2>2. \A r, s \in S : <<r, s>> \in Q <=> <<s, r>> \in R
    OBVIOUS
  <2> HIDE DEF S, R, Q
  <2>3. Orders(Q, S)
    BY <2>1, <2>2 DEF Orders
  <2>4. Cardinality(S) \in Nat /\ \A r \in S : Place(r, R, S) \in Nat
    BY <2>1, PlaceBound, FS_CardinalityType
  <2>5. \A r, s \in S : <<r, s>> \in R => Place(r, R, S) < Place(s, R, S)
    BY <2>1, PlaceGrows
  <2>6. /\ \A r, s \in S : Place(r, R, S) = Place(s, R, S) => r = s
        /\ {Place(r, R, S) : r \in S} = 0..(Cardinality(S) - 1)
    BY <2>1, PlacesAreDense
  <2>7. {PlaceIn(r) : r \in S} = {Place(r, R, S) : r \in S}
    BY <2>1
  <2>8. S # {} => \E r \in S : Place(r, R, S) = 0
    BY <2>1, HasFirst
  <2>9. ASSUME S # {} PROVE \E r \in S : \A s \in S : ~RowBefore(r, s)
    <3>1. PICK r \in S : \A s \in S : <<s, r>> \notin Q
      BY <2>1, <2>3, <2>9, HasFirst
    <3> QED
      BY <2>1, <2>2, <3>1
  <2>10. /\ \A r \in S : PlaceIn(r) \in Nat
         /\ \A r, s \in S : RowBefore(r, s) => PlaceIn(r) < PlaceIn(s)
         /\ \A r, s \in S : PlaceIn(r) = PlaceIn(s) => r = s
         /\ S # {} => \E r \in S : PlaceIn(r) = 0
    BY <2>1, <2>4, <2>5, <2>6, <2>8
  <2> QED
    BY <2>1, <2>4, <2>6, <2>7, <2>9, <2>10 DEF S
<1>7. \A r \in rows : /\ Again(r).cov = r.cov /\ Again(r).tx = r.tx /\ Again(r).kind = r.kind
                      /\ Again(r).block = r.block /\ Again(r) \in Record
                      /\ Again(r).seq = IF r.cov \in refresh THEN PlaceIn(r) ELSE r.seq
  <2> TAKE r \in rows
  <2>1. r \in Record /\ PlaceIn(r) \in Nat
    BY <1>5, <1>6
  <2> QED
    BY <2>1 DEF Record
<1> HIDE DEF Again
<1>8. ASSUME NEW v
      PROVE  RowsOf(v)' = {Again(r) : r \in RowsOf(v)}
  <2>1. RowsOf(v)' = {s \in {Again(r) : r \in rows} : s.cov = v}
    BY <1>1 DEF RowsOf
  <2> QED
    BY <1>7, <2>1 DEF RowsOf
<1>9. \A r, s \in rows : r.cov = s.cov /\ Again(r).seq = Again(s).seq => r = s
  <2> SUFFICES ASSUME NEW r \in rows, NEW s \in rows, r.cov = s.cov, Again(r).seq = Again(s).seq
               PROVE  r = s
    OBVIOUS
  <2>1. CASE r.cov \in refresh
    BY <1>5, <1>6, <1>7, <2>1
  <2>2. CASE r.cov \notin refresh
    BY <1>7, <2>2 DEF NumberPart, SeqsUnique
  <2> QED
    BY <2>1, <2>2
<1>10. ASSUME NEW v
       PROVE  IsFiniteSet(RowsOf(v)') /\ Cardinality(RowsOf(v)') = Cardinality(RowsOf(v))
  <2> DEFINE S == RowsOf(v)
             T == {Again(r) : r \in S}
             f == [r \in S |-> Again(r)]
  <2>1. \A r, s \in S : Again(r) = Again(s) => r = s
    BY <1>9, <1>7 DEF RowsOf
  <2>2. f \in Bijection(S, T)
    <3> HIDE DEF S
    <3> QED
      BY <2>1 DEF Bijection, Injection, IsInjective, Surjection
  <2>3. ExistsBijection(S, T)
    BY <2>2 DEF ExistsBijection
  <2>4. IsFiniteSet(S)
    BY <1>6
  <2> HIDE DEF S, T
  <2>5. IsFiniteSet(T) /\ Cardinality(T) = Cardinality(S)
    BY <2>3, <2>4, FS_Bijection
  <2>6. RowsOf(v)' = T
    BY <1>8 DEF S, T
  <2> QED
    BY <2>5, <2>6 DEF S
<1>11. /\ \A r \in rows : \E s \in rows' : s.cov = r.cov /\ s.tx = r.tx /\ s.kind = r.kind /\ s.block = r.block
       /\ \A s \in rows' : \E r \in rows : s.cov = r.cov /\ s.tx = r.tx /\ s.kind = r.kind /\ s.block = r.block
  BY <1>1, <1>7
<1>12. RowsAreRecords'
  <2> DEFINE f == [r \in rows |-> Again(r)]
  <2>1. f \in Surjection(rows, rows')
    BY <1>1 DEF Surjection
  <2>2. IsFiniteSet(rows')
    BY <2>1, FS_Surjection DEF NumberPart, RowsAreRecords
  <2> QED
    BY <1>1, <1>7, <2>2 DEF RowsAreRecords
<1>13. SeqsUnique'
  <2> SUFFICES ASSUME NEW x \in rows', NEW y \in rows', x.cov = y.cov, x.seq = y.seq PROVE x = y
    BY DEF SeqsUnique
  <2>1. PICK r \in rows : x = Again(r)
    BY <1>1
  <2>2. PICK s \in rows : y = Again(s)
    BY <1>1
  <2> QED
    BY <1>7, <1>9, <2>1, <2>2
<1>14. SummaryTypes'
  <2>1. DOMAIN summary' = {r.cov : r \in rows'}
    <3>1. DOMAIN summary' = {r.cov : r \in rows}
      BY <1>2 DEF NumberPart, SummaryTypes
    <3>2. {r.cov : r \in rows'} = {r.cov : r \in rows}
      BY <1>11
    <3> QED
      BY <3>1, <3>2
  <2>2. ASSUME NEW v \in DOMAIN summary', v \in refresh PROVE summary'[v] \in Entry
    <3>1. RowsOf(v) # {}
      BY <1>2, <2>2 DEF NumberPart, SummaryTypes, RowsOf
    <3>2. newest(v) \in RowsOf(v)
      BY <1>6, <3>1
    <3>3. newest(v) \in Record
      BY <3>2 DEF RowsOf, NumberPart, RowsAreRecords
    <3> HIDE DEF newest
    <3>4. Daa[newest(v).block] \in Nat
      BY <3>3, TreeAssumption DEF Record
    <3> DEFINE told == first(v).kind = "genesis"
    <3>5. told \in BOOLEAN
      OBVIOUS
    <3>6. summary'[v] = [events |-> Cardinality(RowsOf(v)), last |-> Daa[newest(v).block], complete |-> told]
      BY <1>2, <2>2
    <3> HIDE DEF told
    <3> QED
      BY <1>6, <3>4, <3>5, <3>6 DEF Entry
  <2>3. ASSUME NEW v \in DOMAIN summary', v \notin refresh PROVE summary'[v] \in Entry
    BY <1>2, <2>3 DEF NumberPart, SummaryTypes
  <2> QED
    BY <2>1, <2>2, <2>3 DEF SummaryTypes
<1>15. ASSUME NEW v \in DOMAIN summary', v \in refresh PROVE Tidy(v)'
  <2> DEFINE S == RowsOf(v)
             T == RowsOf(v)'
  <2>1. T = {Again(r) : r \in S} /\ Cardinality(T) = Cardinality(S)
    BY <1>8, <1>10
  <2>2. \A r \in S : /\ r \in rows /\ Again(r).seq = PlaceIn(r) /\ Again(r).block = r.block
                     /\ Again(r).kind = r.kind
    BY <1>7, <1>15 DEF RowsOf
  <2>3. \A x, y \in T : x.seq < y.seq => Daa[x.block] <= Daa[y.block]
    <3> SUFFICES ASSUME NEW x \in T, NEW y \in T, x.seq < y.seq PROVE Daa[x.block] <= Daa[y.block]
      OBVIOUS
    <3>1. PICK r \in S : x = Again(r)
      BY <2>1
    <3>2. PICK s \in S : y = Again(s)
      BY <2>1
    <3>3. PlaceIn(r) < PlaceIn(s) /\ PlaceIn(r) \in Nat /\ PlaceIn(s) \in Nat
      BY <1>6, <2>2, <3>1, <3>2
    <3>4. ~RowBefore(s, r)
      BY <1>6, <3>3
    <3>5. Daa[r.block] \in Nat /\ Daa[s.block] \in Nat
      BY <1>5, <2>2, TreeAssumption DEF Record
    <3> QED
      BY <2>2, <3>1, <3>2, <3>4, <3>5 DEF RowBefore
  <2>4. {x.seq : x \in T} = {PlaceIn(r) : r \in S}
    <3> HIDE DEF S, T
    <3> QED
      BY <2>1, <2>2
  <2>5. {x.seq : x \in T} = 0..(Cardinality(T) - 1)
    BY <1>6, <2>1, <2>4
  <2> DEFINE told == first(v).kind = "genesis"
  <2>6. summary'[v] = [events |-> Cardinality(S), last |-> Daa[newest(v).block], complete |-> told]
    BY <1>2, <1>15
  <2>7. S # {}
    BY <1>2, <1>15 DEF NumberPart, SummaryTypes, RowsOf
  <2>8. PICK r0 \in S : PlaceIn(r0) = 0
    BY <1>6, <2>7
  <2>9. first(v) = r0
    BY <1>6, <2>8
  <2> HIDE DEF first, newest
  <2>10. told <=> \E x \in T : x.seq = 0 /\ x.kind = "genesis"
    <3>1. ASSUME told PROVE \E x \in T : x.seq = 0 /\ x.kind = "genesis"
      <4>1. Again(r0) \in T /\ Again(r0).seq = 0 /\ Again(r0).kind = "genesis"
        BY <2>1, <2>2, <2>8, <2>9, <3>1
      <4> QED
        BY <4>1
    <3>2. ASSUME NEW x \in T, x.seq = 0, x.kind = "genesis" PROVE told
      <4>1. PICK r \in S : x = Again(r)
        BY <2>1
      <4>2. r = r0
        BY <1>6, <2>2, <2>8, <3>2, <4>1
      <4> QED
        BY <2>2, <2>9, <3>2, <4>1, <4>2
    <3> QED
      BY <3>1, <3>2
  <2> HIDE DEF told
  <2>11. summary'[v].events = Cardinality(T) /\ summary'[v].complete = told
    BY <2>1, <2>6
  <2> QED
    BY ONLY <2>3, <2>5, <2>10, <2>11 DEF Tidy
<1>16. ASSUME NEW v \in DOMAIN summary', v \notin refresh PROVE Tidy(v)'
  <2>1. \A r \in RowsOf(v) : Again(r) = r
    BY <1>16 DEF Again, RowsOf
  <2>2. RowsOf(v)' = RowsOf(v)
    BY <1>8, <2>1
  <2>3. Tidy(v) /\ summary'[v] = summary[v]
    BY <1>2, <1>3, <1>16
  <2>4. Cardinality(RowsOf(v)') = Cardinality(RowsOf(v))
    BY <2>2
  <2> QED
    BY ONLY <2>2, <2>3, <2>4 DEF Tidy
<1> QED
  BY <1>11, <1>12, <1>13, <1>14, <1>15, <1>16

\* Live sync keeps every lineage in order when it finds them so.
LEMMA ApplyKeepsTidy ==
    ASSUME NEW b \in Path[Sink], b \notin ReachedNow, RowsSound, NumberPart, meta.pending = <<>>,
           processed \in Nat, nextSeq \in Nat,
           rows' = rows \cup NewRows(Classify(b)), summary' = SummaryAfter(Classify(b))
    PROVE  RowsAreRecords' /\ SeqsUnique' /\ SummaryTypes' /\ \A v \in DOMAIN summary' : Tidy(v)'
<1> DEFINE B == Classify(b)
           N == NewRows(B)
<1>1. b \in Blocks /\ B.block = b /\ Keys(B)
  BY OnChain, ClassifiedKeys DEF Classify
<1>2. \A v \in DOMAIN summary : Tidy(v)
  BY DEF NumberPart
<1>3. \A v : Own(v) = RowsOf(v) /\ Own(v)' = RowsOf(v)'
  BY DEF Own, RowsOf
<1>4. NoRowsFrom(b)
  BY DEF NoRowsFrom, NumberPart, RowsAreRecords, Record, RowsSound
<1>5. CountsMatch
  BY <1>2, <1>3 DEF NumberPart, SummaryTypes, Entry, CountsMatch, Tidy
<1>6. GenesisTold
  BY <1>2, <1>3 DEF GenesisTold, Tidy
<1>7. Numbered
  <2> SUFFICES ASSUME NEW v \in Covenants
               PROVE  {r.seq : r \in Own(v)} = 0..(Cardinality(Own(v)) - 1)
    BY DEF Numbered
  <2>1. CASE v \in DOMAIN summary
    BY <1>2, <1>3, <2>1 DEF Tidy
  <2>2. CASE v \notin DOMAIN summary
    <3>1. Own(v) = {}
      BY <2>2 DEF NumberPart, SummaryTypes, Own
    <3>2. Cardinality(Own(v)) = 0
      BY <3>1, FS_EmptySet
    <3> QED
      BY <3>1, <3>2
  <2> QED
    BY <2>1, <2>2
<1>8. CountsMatch'
  BY <1>1, <1>4, <1>5, ApplyKeepsCounts
<1>9. Numbered'
  BY <1>1, <1>4, <1>7, ApplyKeepsNumbers
<1>10. GenesisTold'
  BY <1>1, <1>4, <1>5, <1>6, <1>7, ApplyKeepsGenesis
<1>11. /\ IsFiniteSet(rows')
       /\ \A r \in N : /\ r.cov \in Covenants /\ r.block = b /\ r.tx \in AcceptedTxs(b)
                       /\ r.stream \in nextSeq..(nextSeq + Cardinality(B.events) - 1)
  BY <1>1, <1>4, ApplyAddsRows
<1>12. N = {RowOf(B, e) : e \in B.events}
  BY <1>1, RowPerEvent
<1>13. \A e \in B.events : e.kind \in Kinds /\ e.tx \in Txs /\ e.cov \in Covenants
  <2> TAKE e \in B.events
  <2>1. /\ e.index \in DOMAIN Accepted[b] /\ e.tx = Accepted[b][e.index]
        /\ e.cov \in Touched(b, e.index) /\ e.cov \in Covenants /\ e.kind = KindOf(b, e.index, e.cov)
    BY <1>1, ClassifiedEvents
  <2> QED
    BY <1>1, <2>1, KindIs, Listed
<1>14. rows' = rows \cup N
  OBVIOUS
<1>15. \A e \in B.events : StreamSeq(B, e) \in Nat
  BY <1>1, AcceptedNumbers
<1> HIDE DEF B, N
<1>16. \A e : RowOf(B, e).cov = e.cov /\ RowOf(B, e).seq = CovenantSeq(B, e)
  BY DEF RowOf
<1>17. \A e \in B.events :
          /\ CovenantSeq(B, e) \in Nat
          /\ \A r \in RowsOf(e.cov) : r.seq < CovenantSeq(B, e)
          /\ \A f \in B.events : f.cov = e.cov /\ CovenantSeq(B, f) = CovenantSeq(B, e) => f = e
  BY <1>1, FreshNumbers DEF NumberPart
<1>18. \A e \in B.events : RowOf(B, e) \in Record
  BY <1>1, <1>13, <1>15, <1>17 DEF RowOf, Record
<1>19. RowsAreRecords'
  BY <1>11, <1>12, <1>14, <1>18 DEF NumberPart, RowsAreRecords
<1>20. ASSUME NEW x \in rows, NEW y \in N, x.cov = y.cov
       PROVE  x.seq < y.seq /\ x.seq \in Nat /\ y.seq \in Nat
  <2>1. PICK e \in B.events : y = RowOf(B, e)
    BY <1>12
  <2>2. x \in RowsOf(e.cov) /\ x.seq \in Nat
    BY <1>16, <1>20, <2>1 DEF RowsOf, NumberPart, RowsAreRecords, Record
  <2> QED
    BY <1>16, <1>17, <2>1, <2>2
<1>21. SeqsUnique'
  <2> SUFFICES ASSUME NEW r \in rows', NEW s \in rows', r.cov = s.cov, r.seq = s.seq PROVE r = s
    BY DEF SeqsUnique
  <2>1. CASE r \in rows /\ s \in rows
    BY <2>1 DEF NumberPart, SeqsUnique
  <2>2. CASE r \in N /\ s \in N
    <3>1. PICK e \in B.events : r = RowOf(B, e)
      BY <1>12, <2>2
    <3>2. PICK f \in B.events : s = RowOf(B, f)
      BY <1>12, <2>2
    <3> QED
      BY <1>16, <1>17, <3>1, <3>2
  <2>3. CASE r \in rows /\ s \in N
    <3>1. r.seq < s.seq /\ r.seq \in Nat /\ s.seq \in Nat
      BY <1>20, <2>3
    <3> QED
      BY <3>1
  <2>4. CASE r \in N /\ s \in rows
    <3>1. s.seq < r.seq /\ s.seq \in Nat /\ r.seq \in Nat
      BY <1>20, <2>4
    <3> QED
      BY <3>1
  <2> QED
    BY <1>14, <2>1, <2>2, <2>3, <2>4
<1>22. SummaryTypes'
  BY <1>8 DEF CountsMatch, SummaryTypes, Entry
<1>23. ASSUME NEW v \in DOMAIN summary' PROVE Tidy(v)'
  <2> DEFINE T == RowsOf(v)'
  <2>1. T = Own(v)'
    BY <1>3
  <2>2. summary'[v].events = Cardinality(T)
    BY <1>8, <1>23, <2>1 DEF CountsMatch
  <2>3. summary'[v].complete <=> \E r \in T : r.seq = 0 /\ r.kind = "genesis"
    BY <1>10, <1>23, <2>1 DEF GenesisTold
  <2>4. v \in Covenants
    BY <1>19, <1>22, <1>23 DEF SummaryTypes, RowsAreRecords, Record
  <2>5. {r.seq : r \in T} = 0..(Cardinality(T) - 1)
    BY <1>9, <2>1, <2>4 DEF Numbered
  <2>6. \A x, y \in T : x.seq < y.seq => Daa[x.block] <= Daa[y.block]
    <3> SUFFICES ASSUME NEW x \in T, NEW y \in T, x.seq < y.seq PROVE Daa[x.block] <= Daa[y.block]
      OBVIOUS
    <3>1. x \in rows \cup N /\ y \in rows \cup N /\ x.cov = v /\ y.cov = v
      BY <1>14 DEF RowsOf
    <3>2. \A r \in rows : Daa[r.block] \in Nat /\ Daa[r.block] <= processed
      BY OnChain DEF RowsSound, ReachedNow
    <3>3. \A r \in N : r.block = b
      BY <1>11
    <3>4. Daa[b] \in Nat /\ Daa[b] > processed
      BY OnChain DEF ReachedNow
    <3>5. CASE x \in rows /\ y \in rows
      <4>1. x \in RowsOf(v) /\ y \in RowsOf(v) /\ v \in DOMAIN summary
        BY <3>1, <3>5 DEF RowsOf, NumberPart, SummaryTypes
      <4> QED
        BY <1>2, <4>1 DEF Tidy
    <3>6. CASE x \in rows /\ y \in N
      BY <3>2, <3>3, <3>4, <3>6
    <3>7. CASE x \in N /\ y \in N
      BY <3>3, <3>4, <3>7
    <3>8. CASE x \in N /\ y \in rows
      <4>1. y.seq < x.seq /\ y.seq \in Nat /\ x.seq \in Nat
        BY <1>20, <3>1, <3>8
      <4> QED
        BY <4>1
    <3> QED
      BY <3>1, <3>5, <3>6, <3>7, <3>8
  <2> QED
    BY ONLY <2>2, <2>3, <2>5, <2>6 DEF Tidy
<1> QED
  BY <1>19, <1>21, <1>22, <1>23

-----------------------------------------------------------------------------
(* What a walk leaves behind it *)

WholeIn(S) == \A b \in S : Daa[b] <= processed => Whole(b)

\* A block is whole without a walk when what was skipped up to it accepted nothing.
LEMMA WholeAnyway ==
    ASSUME NEW b \in Path[Sink], processed \in Nat, Daa[b] <= processed, FollowedTold,
           \A x \in Path[b] : x \in past.skipped => AcceptedTxs(x) = {}
    PROVE  Whole(b)
<1>1. /\ b \in Path[b] /\ Path[b] \subseteq Path[Sink] /\ Daa[b] \in Nat
      /\ \A x \in Path[b] : Daa[x] <= Daa[b] /\ Daa[x] \in Nat
  BY OnChain
<1>2. CASE b \in past.skipped
  BY <1>1, <1>2 DEF Whole, Shows
<1>3. CASE b \notin past.skipped
  <2>1. b \in Followed
    BY <1>3 DEF Followed, ReachedNow
  <2>2. ASSUME NEW t \in AcceptedTxs(b), NEW c \in Inputs[t]
        PROVE  spent[c] # NoBlock /\ Told(t, CovenantOf[c])
    <3>1. PICK a \in Path[b] : Makes(c, a)
      BY InputsMade
    <3>2. a \in Path[Sink] /\ a \notin past.skipped
      BY <1>1, <3>1 DEF Makes
    <3>3. Daa[a] <= processed
      BY <1>1, <3>1
    <3>4. a \in Followed
      BY <3>2, <3>3 DEF Followed, ReachedNow
    <3> QED
      BY <2>1, <3>1, <3>4 DEF FollowedTold
  <2> QED
    BY <2>1, <2>2 DEF FollowedTold, Whole
<1> QED
  BY <1>2, <1>3

\* The next block of a walk, ...
LEMMA NextIsFirst ==
    ASSUME walker.todo # {}, walker.todo \subseteq Path[Sink]
    PROVE  NextOf \in walker.todo /\ \A x \in walker.todo : NextOf \in Path[x]
<1>1. \E b \in walker.todo : \A x \in walker.todo : b \in Path[x]
  BY ChainHasEnds
<1> QED
  BY <1>1 DEF NextOf

\* ... and the batch a node answers.
LEMMA BatchFollows ==
    ASSUME walker.at \in Path[Sink], Path[Sink] \ Path[walker.at] # {}
    PROVE  LET ahead == Path[Sink] \ Path[walker.at]
               batch == {b \in ahead : Cardinality(Path[b] \cap ahead) <= BatchLen}
               last  == CHOOSE b \in batch : \A x \in batch : x \in Path[b]
           IN  /\ last \in batch /\ batch \subseteq Path[last] /\ last \in Path[Sink]
               /\ Path[last] \ batch \subseteq Path[walker.at]
<1> DEFINE ahead == Path[Sink] \ Path[walker.at]
           batch == {b \in ahead : Cardinality(Path[b] \cap ahead) <= BatchLen}
           last  == CHOOSE b \in batch : \A x \in batch : x \in Path[b]
<1>1. ahead \in SUBSET Path[Sink] /\ ahead # {}
  OBVIOUS
<1>2. PICK n \in ahead : \A x \in ahead : n \in Path[x]
  BY <1>1, ChainHasEnds
<1>3. \A x \in ahead : /\ x \in Path[x] /\ Path[x] \subseteq Path[Sink]
                       /\ \A y \in Path[x] : Path[y] \subseteq Path[x] /\ y \in Blocks
  <2> TAKE x \in ahead
  <2>1. x \in Blocks /\ x \in Path[x] /\ Path[x] \subseteq Path[Sink]
    BY <1>1, OnChain
  <2> QED
    BY <2>1, TreeAssumption
<1>4. Path[n] \cap ahead = {n}
  <2>1. \A y \in Path[n] \cap ahead : y = n
    <3> TAKE y \in Path[n] \cap ahead
    <3>1. n \in Path[y] /\ y \in Path[Sink] /\ n \in Path[Sink]
      BY <1>1, <1>2
    <3>2. Daa[n] <= Daa[y] /\ Daa[y] <= Daa[n] /\ Daa[n] \in Nat /\ Daa[y] \in Nat
      BY <3>1, OnChain
    <3>3. Daa[n] = Daa[y]
      BY <3>2
    <3> QED
      BY <3>1, <3>3, OnChain
  <2> HIDE DEF ahead
  <2> QED
    BY <1>3, <2>1
<1>5. n \in batch
  <2>1. Cardinality(Path[n] \cap ahead) = 1
    BY <1>4, FS_Singleton
  <2>2. 1 <= BatchLen
    BY GapAssumption
  <2> HIDE DEF ahead
  <2> QED
    BY <2>1, <2>2
<1>6. ASSUME NEW b \in batch, NEW x \in Path[b] \cap ahead PROVE x \in batch
  <2>1. b \in ahead /\ x \in ahead /\ Path[x] \cap ahead \in SUBSET (Path[b] \cap ahead)
    BY <1>3, <1>6
  <2>2. IsFiniteSet(Path[b] \cap ahead)
    <3>1. Path[b] \cap ahead \in SUBSET Path[Sink]
      OBVIOUS
    <3> QED
      BY <3>1, ChainIsFinite, FS_Subset
  <2> HIDE DEF ahead
  <2>3. /\ Cardinality(Path[x] \cap ahead) <= Cardinality(Path[b] \cap ahead)
        /\ Cardinality(Path[x] \cap ahead) \in Nat /\ Cardinality(Path[b] \cap ahead) \in Nat
    BY <2>1, <2>2, FS_Subset, FS_CardinalityType
  <2>4. Cardinality(Path[b] \cap ahead) <= BatchLen /\ BatchLen \in Nat
    BY GapAssumption
  <2>5. Cardinality(Path[x] \cap ahead) <= BatchLen
    BY <2>3, <2>4
  <2> QED
    BY <2>1, <2>5
<1>7. batch \in SUBSET Path[Sink] /\ batch # {} /\ batch \subseteq ahead
  BY <1>1, <1>5
<1> HIDE DEF batch
<1>8. \E b \in batch : \A x \in batch : x \in Path[b]
  BY <1>7, ChainHasEnds
<1>9. last \in batch /\ \A x \in batch : x \in Path[last]
  BY <1>8
<1> HIDE DEF last
<1>10. last \in Path[Sink] /\ Path[last] \subseteq Path[Sink]
  BY <1>3, <1>7, <1>9
<1>11. Path[last] \ batch \subseteq Path[walker.at]
  BY <1>6, <1>9, <1>10
<1> QED
  BY <1>9, <1>10, <1>11 DEF batch, last

-----------------------------------------------------------------------------
(* The invariant *)

Shape ==
    /\ past = [resets |-> past.resets, skipped |-> past.skipped, runs |-> past.runs,
               asked |-> past.asked, missed |-> past.missed, diverted |-> past.diverted]
    /\ meta = [pending |-> meta.pending, walk |-> meta.walk, recoveries |-> meta.recoveries]
    /\ walker = [pc |-> walker.pc, lo |-> walker.lo, hi |-> walker.hi, stop |-> walker.stop,
                 at |-> walker.at, todo |-> walker.todo, next |-> walker.next,
                 bodies |-> walker.bodies]

\* What Healed asks of the runs so far.
GapFair ==
    /\ past.missed = {} /\ ~past.diverted
    /\ \A b \in past.skipped, w \in past.asked : w[1] <= Daa[b] /\ Daa[b] <= w[2]

\* The cursor is on the chain; up to it a block was applied or skipped.
ChainPart ==
    /\ past.skipped \subseteq Path[Sink]
    /\ cursor = NoBlock => processed = 0 /\ past.skipped = {} /\ DOMAIN batches = {}
    /\ cursor # NoBlock =>
          /\ cursor \in Path[Sink] /\ processed <= Daa[cursor]
          /\ past.skipped \subseteq Path[cursor] /\ DOMAIN batches \subseteq Path[cursor]
          /\ \A x \in Path[cursor] : Daa[x] <= processed \/ x \in past.skipped

\* A window under way or done was asked for and ends at or below the index.
WindowPart ==
    /\ meta.pending = <<>> => meta.walk = NoBlock
    /\ walker.pc = "live" => meta.pending = <<>>
    /\ meta.pending # <<>> =>
          meta.pending \in past.asked /\ meta.pending \in Nat \X Nat /\ meta.pending[2] <= processed
    /\ \A w \in meta.recoveries : w \in past.asked /\ w \in Nat \X Nat /\ w[2] <= processed
    /\ walker.pc \in {"walk", "finalize"} =>
          meta.pending = <<walker.lo, walker.hi>> /\ walker.stop = processed

\* All that a walk has passed is whole, and all of the chain once it is over.
WalkPart ==
    /\ meta.walk # NoBlock => meta.walk \in Path[Sink] /\ WholeIn(Path[meta.walk])
    /\ walker.pc = "walk" =>
          /\ walker.at \in Path[Sink] /\ WholeIn(Path[walker.at])
          /\ walker.todo # {} =>
                /\ walker.next \in walker.todo /\ walker.next \in Path[Sink]
                /\ walker.todo \subseteq Path[walker.next]
                /\ WholeIn(Path[walker.next] \ walker.todo)
    /\ walker.pc = "finalize" \/ meta.recoveries # {} => WholeIn(Path[Sink])

TablePart == processed \in Nat /\ nextSeq \in Nat /\ RowsSound /\ CoinsSound /\ FollowedTold

\* With nothing lost and every window wide enough, all of it holds.
Sound == TablePart /\ ChainPart /\ WindowPart /\ WalkPart /\ NumberPart

\* The inductive invariant.
GapInv == Shape /\ (GapFair => Sound)

-----------------------------------------------------------------------------
(* Before the copy *)

\* Nothing of the predicates moves with the tables at rest.
LEMMA TablesAtRest ==
    ASSUME rows' = rows, created' = created, spent' = spent, summary' = summary,
           processed' = processed, nextSeq' = nextSeq, past'.skipped = past.skipped
    PROVE  /\ TablePart => TablePart'
           /\ \A b : Whole(b) <=> Whole(b)'
           /\ \A S : WholeIn(S) => WholeIn(S)'
           /\ RowsAreRecords => RowsAreRecords'
           /\ SeqsUnique => SeqsUnique'
           /\ SummaryTypes => SummaryTypes'
           /\ \A v : (Tidy(v) => Tidy(v)') /\ (Late(v) => Late(v)')
<1>1. \A t, v : Told(t, v) <=> Told(t, v)'
  BY DEF Told
<1>2. \A b : Shows(b) <=> Shows(b)'
  BY <1>1 DEF Shows
<1>3. \A b : Whole(b) <=> Whole(b)'
  BY <1>1, <1>2 DEF Whole
<1>4. ReachedNow' = ReachedNow /\ Followed' = Followed
  BY DEF ReachedNow, Followed
<1>5. RowsSound => RowsSound'
  BY <1>2, <1>4 DEF RowsSound
<1>6. CoinsSound => CoinsSound'
  BY <1>1, <1>4 DEF CoinsSound
<1>7. FollowedTold => FollowedTold'
  BY <1>1, <1>2, <1>4 DEF FollowedTold
<1>8. TablePart => TablePart'
  BY <1>5, <1>6, <1>7 DEF TablePart
<1>9. \A S : WholeIn(S) => WholeIn(S)'
  BY <1>3 DEF WholeIn
<1>10. (RowsAreRecords => RowsAreRecords') /\ (SeqsUnique => SeqsUnique') /\ (SummaryTypes => SummaryTypes')
  BY DEF RowsAreRecords, SeqsUnique, SummaryTypes
<1>11. \A v : RowsOf(v)' = RowsOf(v)
  BY DEF RowsOf
<1>12. ASSUME NEW v PROVE Tidy(v) => Tidy(v)'
  <2>1. RowsOf(v)' = RowsOf(v)
    BY <1>11
  <2>2. Cardinality(RowsOf(v)') = Cardinality(RowsOf(v))
    BY <2>1
  <2>3. summary' = summary
    OBVIOUS
  <2> QED
    BY ONLY <2>1, <2>2, <2>3 DEF Tidy
<1>13. \A v : Late(v) => Late(v)'
  BY <1>11 DEF Late
<1> QED
  BY <1>3, <1>8, <1>9, <1>10, <1>12, <1>13

\* With all before it whole, classify leaves nothing out either.
LEMMA ClassifyFills ==
    ASSUME NEW b \in Path[Sink], RowsSound, CoinsSound, FitsOutputs(Classify(b), b),
           \A a \in Path[b] \ {b} : Whole(a)
    PROVE  Fills(Classify(b), b)
<1> DEFINE B == Classify(b)
<1> SUFFICES ASSUME NEW t \in AcceptedTxs(b), NEW c \in Inputs[t]
             PROVE  /\ spent[c] # NoBlock \/ c \in B.spent
                    /\ Told(t, CovenantOf[c]) \/ Tells(B, t, CovenantOf[c])
  BY DEF Fills
<1>1. CASE Live(c) \/ Makes(c, b)
  BY <1>1, ClassifySees
<1>2. CASE ~Live(c) /\ ~Makes(c, b)
  <2>1. spent[c] # NoBlock
    BY <1>2, WholeMakers DEF Live
  <2> QED
    BY <2>1, SpendIsTold
<1> QED
  BY <1>1, <1>2

\* The next block joins those that were followed, and all it could see is told.
LEMMA NextIsFollowed ==
    ASSUME NEW b \in Path[Sink], b \notin ReachedNow, TakesUp(Classify(b)), CoinsSound, FollowedTold,
           processed \in Nat, Followed' \subseteq Followed \cup {b}, Shows(b)'
    PROVE  FollowedTold'
<1> DEFINE B == Classify(b)
<1>1. b \in Blocks /\ b # NoBlock /\ B.block = b /\ Sink \in Blocks
  BY OnChain, GapAssumption DEF Classify
<1> HIDE DEF B
<1>2. /\ \A t, v : Told(t, v) => Told(t, v)'
      /\ \A c \in Coins : /\ created[c] # NoBlock => created'[c] # NoBlock
                          /\ spent[c] # NoBlock => spent'[c] # NoBlock
      /\ \A a \in Blocks : Shows(a) => Shows(a)'
  BY <1>1, NothingLost DEF B
<1>3. \A t, v : Tells(B, t, v) => Told(t, v)'
  BY DEF Tells, TakesUp, B
<1>4. Followed \subseteq Path[Sink] /\ Path[Sink] \subseteq Blocks
  BY OnChain DEF Followed, ReachedNow
<1>5. Daa[b] > processed /\ Daa[b] \in Nat
  BY OnChain DEF ReachedNow
<1> SUFFICES ASSUME NEW d \in Followed'
             PROVE  /\ Shows(d)'
                    /\ \A t \in AcceptedTxs(d) : \A c \in Inputs[t] :
                          (\E a \in Followed' : Makes(c, a)) => spent'[c] # NoBlock /\ Told(t, CovenantOf[c])'
  BY DEF FollowedTold
<1>6. Shows(d)'
  BY <1>2, <1>4 DEF FollowedTold
<1>7. ASSUME NEW t \in AcceptedTxs(d), NEW c \in Inputs[t], NEW a \in Followed', Makes(c, a)
      PROVE  spent'[c] # NoBlock /\ Told(t, CovenantOf[c])'
  <2>1. d \in Path[Sink] /\ a \in Path[Sink] /\ c \in Coins
    BY <1>4, InputsMade
  <2>2. CASE d \in Followed
    <3>1. PICK x \in Path[d] : Makes(c, x)
      BY <2>1, InputsMade
    <3>2. x \in Path[Sink] /\ Daa[x] <= Daa[d] /\ Daa[x] \in Nat /\ Daa[d] \in Nat
      <4>1. x \in Path[Sink]
        BY <2>1, <3>1, OnChain
      <4> QED
        BY <2>1, <3>1, <4>1, OnChain
    <3>3. x = a
      BY <1>1, <1>7, <2>1, <3>1, <3>2, OneCreator
    <3>4. Daa[d] <= processed
      BY <2>2 DEF Followed, ReachedNow
    <3>5. a # b
      BY <1>5, <3>2, <3>3, <3>4
    <3>6. a \in Followed
      BY <3>5
    <3> QED
      BY <1>2, <1>7, <2>1, <2>2, <3>6 DEF FollowedTold
  <2>3. CASE d = b
    <3>1. CASE spent[c] # NoBlock
      BY <1>2, <2>1, <2>3, <3>1, SpendIsTold
    <3>2. CASE spent[c] = NoBlock
      <4>1. Live(c) \/ Makes(c, b)
        <5>1. CASE a \in Followed
          <6>1. Shows(a)
            BY <5>1 DEF FollowedTold
          <6>2. created[c] # NoBlock
            BY <1>7, <6>1 DEF Shows, Makes
          <6> QED
            BY <3>2, <6>2 DEF Live
        <5>2. CASE a = b
          BY <1>7, <5>2
        <5> QED
          BY <5>1, <5>2
      <4>2. c \in B.spent /\ Tells(B, t, CovenantOf[c])
        BY <2>3, <4>1, ClassifySees DEF B
      <4>3. Live(c) \/ IsNew(c, B)
        <5>1. Makes(c, b) => c \in B.created
          BY <1>1, ClassifiedCoins DEF B
        <5> QED
          BY <3>2, <4>1, <5>1 DEF Live, IsNew
      <4>4. spent'[c] = b
        BY <1>1, <2>1, <4>2, <4>3 DEF TakesUp, B
      <4> QED
        BY <1>1, <1>3, <4>2, <4>4
    <3> QED
      BY <3>1, <3>2
  <2> QED
    BY <2>2, <2>3
<1> QED
  BY <1>6, <1>7

\* No block of a branch that died was applied.
OnTheChain == cursor # NoBlock => cursor \in Path[Sink]

\* The next block of live sync.
LEMMA IndexNextKeeps ==
    ASSUME GapFair, Sound, IndexNext, OnTheChain'
    PROVE  Sound'
<1>1. PICK tipBlock \in {Sink, DeadTip}, b \in Blocks :
         /\ cursor # NoBlock => cursor \in Path[tipBlock]
         /\ LET ahead == IF cursor = NoBlock THEN Path[tipBlock] ELSE Path[tipBlock] \ Path[cursor]
            IN  First(b, ahead)
         /\ ApplyAcceptedBlock(Classify(b))
  BY DEF IndexNext
<1> DEFINE B == Classify(b)
           ahead == IF cursor = NoBlock THEN Path[tipBlock] ELSE Path[tipBlock] \ Path[cursor]
<1>2. walker.pc = "live" /\ past' = past /\ meta' = meta /\ walker' = walker
  BY DEF IndexNext, gvars
<1>3. /\ processed \in Nat /\ nextSeq \in Nat /\ RowsSound /\ CoinsSound /\ FollowedTold
      /\ ChainPart /\ WindowPart /\ WalkPart /\ NumberPart
  BY DEF Sound, TablePart
<1>4. Sink \in Blocks /\ tipBlock \in Blocks
  BY GapAssumption
<1>5. b \in ahead /\ \A x \in ahead : b \in Path[x]
  BY <1>1 DEF First
<1>6. b \in Path[Sink] /\ b \in Path[tipBlock] /\ (cursor # NoBlock => b \notin Path[cursor])
  <2>1. b \in Path[tipBlock] /\ (cursor # NoBlock => b \notin Path[cursor])
    BY <1>5
  <2>2. b \notin DOMAIN batches
    BY <1>3, <2>1 DEF ChainPart
  <2>3. cursor' = b
    <3>1. B.block = b
      BY DEF Classify
    <3> HIDE DEF B
    <3>2. ApplyAcceptedBlock(B)
      BY <1>1 DEF B
    <3>3. ~AlreadyApplied(B)
      BY <2>2, <3>1 DEF AlreadyApplied
    <3> QED
      BY <3>1, <3>2, <3>3 DEF ApplyAcceptedBlock
  <2>4. b # NoBlock
    BY TreeAssumption
  <2> QED
    BY <2>1, <2>3, <2>4 DEF OnTheChain
<1>7. /\ b # NoBlock /\ b \in Path[b] /\ Path[b] \subseteq Path[Sink] /\ Path[b] \subseteq Path[tipBlock]
      /\ Daa[b] \in Nat /\ Daa[b] > 0
      /\ \A a \in Path[Sink] : a \in Path[b] <=> Daa[a] <= Daa[b]
  <2>1. Path[b] \subseteq Path[tipBlock]
    BY <1>4, <1>6, TreeAssumption
  <2> QED
    BY <1>6, <2>1, OnChain
<1>8. \A x \in Path[b] \ {b} : cursor # NoBlock /\ x \in Path[cursor]
  <2> TAKE x \in Path[b] \ {b}
  <2>1. x \in Path[tipBlock] /\ x \in Path[Sink]
    BY <1>7
  <2>2. b \notin Path[x]
    <3>1. Daa[x] <= Daa[b] /\ Daa[x] \in Nat /\ Daa[x] # Daa[b]
      BY <1>6, <1>7, <2>1, OnChain
    <3>2. ~(Daa[b] <= Daa[x])
      BY <1>7, <3>1
    <3> QED
      BY <1>6, <2>1, <3>2, OnChain
  <2> QED
    BY <1>5, <2>1, <2>2
<1>9. Daa[b] > processed
  <2>1. CASE cursor = NoBlock
    BY <1>3, <1>7, <2>1 DEF ChainPart
  <2>2. CASE cursor # NoBlock
    <3>1. cursor \in Path[Sink] /\ processed <= Daa[cursor] /\ b \notin Path[cursor]
      BY <1>3, <1>6, <2>2 DEF ChainPart
    <3>2. ~(Daa[b] <= Daa[cursor]) /\ Daa[cursor] \in Nat
      BY <1>6, <3>1, OnChain
    <3> QED
      BY <1>3, <1>7, <3>1, <3>2
  <2> QED
    BY <2>1, <2>2
<1>10. b \notin DOMAIN batches /\ b \notin past.skipped
  BY <1>3, <1>6 DEF ChainPart
<1>11. B.block = b /\ B.daa = Daa[b]
  BY DEF Classify
<1> HIDE DEF B
<1>12. ~AlreadyApplied(B)
  BY <1>10, <1>11 DEF AlreadyApplied
<1>13. /\ WriteCoins(B) /\ rows' = rows \cup NewRows(B) /\ summary' = SummaryAfter(B)
       /\ nextSeq' = nextSeq + Cardinality(B.events) /\ cursor' = b
       /\ processed' = Daa[b] /\ DOMAIN batches' = DOMAIN batches \cup {b}
  <2>1. ApplyAcceptedBlock(B)
    BY <1>1 DEF B
  <2>2. /\ WriteCoins(B) /\ rows' = rows \cup NewRows(B) /\ summary' = SummaryAfter(B)
        /\ nextSeq' = nextSeq + Cardinality(B.events) /\ cursor' = B.block
        /\ processed' = IF B.daa > 0 THEN B.daa ELSE processed
        /\ batches' = IF B.daa > 0
                              THEN [x \in DOMAIN batches \cup {B.block} |->
                                      IF x = B.block
                                        THEN [first |-> nextSeq, last |-> nextSeq' - 1]
                                        ELSE batches[x]]
                              ELSE batches
    BY <1>12, <2>1 DEF ApplyAcceptedBlock
  <2> QED
    BY <1>7, <1>11, <2>2
<1>14. b \notin ReachedNow
  BY <1>3, <1>7, <1>9 DEF ReachedNow
<1>15. TakesUp(B)
  BY <1>3, <1>6, <1>13, <1>14, ApplyTakesUp DEF B
<1>16. \A v : KnownCovenant(v) => \E a \in Path[b] \ {b} : \E t \in AcceptedTxs(a) : Touches(t, v)
  <2> SUFFICES ASSUME NEW v, v \in DOMAIN summary
               PROVE  \E a \in Path[b] \ {b} : \E t \in AcceptedTxs(a) : Touches(t, v)
    BY DEF KnownCovenant
  <2>1. PICK r \in rows : r.cov = v
    BY <1>3 DEF NumberPart, SummaryTypes
  <2>2. r.block \in ReachedNow /\ r.tx \in AcceptedTxs(r.block) /\ Touches(r.tx, v)
    BY <1>3, <2>1 DEF RowsSound
  <2>3. r.block \in Path[Sink] /\ Daa[r.block] <= processed /\ Daa[r.block] \in Nat
    BY <2>2, OnChain DEF ReachedNow
  <2>4. r.block \in Path[b] /\ r.block # b
    BY <1>3, <1>7, <1>9, <2>3
  <2> QED
    BY <2>2, <2>4
<1>17. Fits(B, b) /\ FitsOutputs(B, b)
  BY <1>6, <1>16, ClassifyFits DEF B
<1>18. ReachedNow \subseteq ReachedNow' /\ b \in ReachedNow'
  <2>1. \A x \in ReachedNow : Daa[x] <= Daa[b]
    BY <1>3, <1>7, <1>9, OnChain DEF ReachedNow
  <2> QED
    BY <1>6, <1>7, <1>13, <2>1 DEF ReachedNow
<1>19. RowsSound' /\ CoinsSound' /\ Shows(b)'
  BY <1>3, <1>6, <1>15, <1>17, <1>18, TakeUpSound
<1>20. Followed' \subseteq Followed \cup {b}
  <2> SUFFICES ASSUME NEW x \in Path[Sink], Daa[x] <= Daa[b], x \notin past.skipped, x # b
               PROVE  Daa[x] <= processed
    BY <1>2, <1>13 DEF Followed, ReachedNow
  <2>1. x \in Path[b] \ {b}
    BY <1>7
  <2> QED
    BY <1>3, <1>8, <2>1 DEF ChainPart
<1>21. FollowedTold'
  BY <1>3, <1>6, <1>14, <1>15, <1>19, <1>20, NextIsFollowed DEF B
<1>22. processed' \in Nat /\ nextSeq' \in Nat
  <2>1. Keys(B)
    BY <1>17 DEF Fits
  <2> QED
    BY <1>3, <1>7, <1>13, <2>1, AcceptedNumbers
<1>23. TablePart'
  BY <1>19, <1>21, <1>22 DEF TablePart
<1>24. ChainPart'
  <2>1. past'.skipped \subseteq Path[Sink] /\ past'.skipped \subseteq Path[b] /\ DOMAIN batches' \subseteq Path[b]
    <3>1. CASE cursor = NoBlock
      BY <1>2, <1>3, <1>7, <1>13, <3>1 DEF ChainPart
    <3>2. CASE cursor # NoBlock
      <4>1. cursor \in Path[Sink] /\ b \notin Path[cursor]
        BY <1>3, <1>6, <3>2 DEF ChainPart
      <4>2. cursor \in Path[b] /\ b \in Blocks
        <5>1. ~(Daa[b] <= Daa[cursor]) /\ Daa[cursor] \in Nat
          BY <1>6, <4>1, OnChain
        <5> QED
          BY <1>7, <4>1, <5>1
      <4>3. Path[cursor] \subseteq Path[b]
        BY <4>2, TreeAssumption
      <4> QED
        BY <1>2, <1>3, <1>7, <1>13, <3>2, <4>3 DEF ChainPart
    <3> QED
      BY <3>1, <3>2
  <2>2. \A x \in Path[b] : Daa[x] <= Daa[b]
    BY <1>7
  <2> QED
    BY <1>6, <1>7, <1>13, <2>1, <2>2 DEF ChainPart
<1>25. WindowPart'
  <2>1. meta.pending = <<>>
    BY <1>2, <1>3 DEF WindowPart
  <2>2. \A w \in meta.recoveries : w[2] <= processed'
    BY <1>3, <1>7, <1>9, <1>13 DEF WindowPart
  <2> QED
    BY <1>2, <1>3, <2>1, <2>2 DEF WindowPart
<1>26. WalkPart'
  <2>1. meta.walk = NoBlock
    BY <1>2, <1>3 DEF WindowPart
  <2>2. ASSUME meta.recoveries # {}, NEW a \in Path[Sink], Daa[a] <= processed' PROVE Whole(a)'
    <3>1. PICK w \in meta.recoveries : TRUE
      BY <2>2
    <3>2. w \in past.asked /\ w[2] \in Nat /\ w[2] <= processed
      BY <1>3 DEF WindowPart
    <3>3. \A x \in past.skipped : Daa[x] <= w[2]
      BY <3>2 DEF GapFair
    <3>4. \A x \in Path[b] \ {b} : Daa[x] <= processed
      <4> TAKE x \in Path[b] \ {b}
      <4>1. Daa[x] <= processed \/ x \in past.skipped
        BY <1>3, <1>8 DEF ChainPart
      <4>2. Daa[x] \in Nat
        BY <1>7, OnChain
      <4> QED
        BY <1>3, <3>2, <3>3, <4>1, <4>2
    <3>5. \A x \in Path[b] \ {b} : Whole(x)
      BY <1>3, <1>7, <2>2, <3>4 DEF WalkPart, WholeIn
    <3>6. Whole(b)'
      <4>1. Fills(B, b)
        BY <1>3, <1>6, <1>17, <3>5, ClassifyFills DEF B
      <4> QED
        BY <1>6, <1>15, <1>17, <4>1, TakeUpWhole
    <3>7. a \in Path[b]
      BY <1>7, <1>13, <2>2
    <3>8. a # b => Whole(a)'
      <4>1. a \in Blocks
        BY OnChain
      <4> QED
        BY <1>7, <1>11, <1>15, <3>5, <3>7, <4>1, NothingLost
    <3> QED
      BY <3>6, <3>8
  <2> QED
    BY <1>2, <2>1, <2>2 DEF WalkPart, WholeIn
<1>27. NumberPart'
  <2>1. meta.pending = <<>>
    BY <1>2, <1>3 DEF WindowPart
  <2>2. RowsAreRecords' /\ SeqsUnique' /\ SummaryTypes' /\ \A v \in DOMAIN summary' : Tidy(v)'
    BY <1>3, <1>6, <1>13, <1>14, <2>1, ApplyKeepsTidy DEF B
  <2> QED
    BY <2>2 DEF NumberPart
<1> QED
  BY <1>23, <1>24, <1>25, <1>26, <1>27 DEF Sound

\* The cursor jumps ahead, and what lies between is skipped.
LEMMA SinkResetKeeps ==
    ASSUME Shape, GapFair, Sound, SinkReset
    PROVE  Sound'
<1>1. PICK b \in Path[Sink] :
         /\ Daa[b] > Daa[cursor] /\ ResetCursor(b)
         /\ past' = [past EXCEPT !.resets = @ + 1,
                       !.skipped = @ \cup {x \in Path[b] : x \notin Path[cursor]}]
  BY DEF SinkReset
<1> DEFINE gone == past.skipped \cup {x \in Path[b] : x \notin Path[cursor]}
<1>2. /\ walker.pc = "live" /\ cursor # NoBlock /\ meta.recoveries = {} /\ meta' = meta /\ walker' = walker
      /\ past'.skipped = gone /\ past'.asked = past.asked
  <2>1. past = [resets |-> past.resets, skipped |-> past.skipped, runs |-> past.runs,
                asked |-> past.asked, missed |-> past.missed, diverted |-> past.diverted]
    BY DEF Shape
  <2>2. past'.skipped = gone /\ past'.asked = past.asked
    BY <1>1, <2>1
  <2> QED
    BY <2>2 DEF SinkReset
<1>3. /\ rows' = rows /\ created' = created /\ spent' = spent /\ summary' = summary
      /\ processed' = processed /\ nextSeq' = nextSeq /\ batches' = batches /\ cursor' = b
  BY <1>1 DEF ResetCursor, tables, queues
<1>4. TablePart /\ ChainPart /\ WindowPart /\ WalkPart /\ NumberPart
  BY DEF Sound
<1> HIDE DEF gone
<1>5. \A t, v : Told(t, v) <=> Told(t, v)'
  BY <1>3 DEF Told
<1>6. \A a : Shows(a) <=> Shows(a)'
  BY <1>3, <1>5 DEF Shows
<1>7. ReachedNow' = ReachedNow
  BY <1>3 DEF ReachedNow
<1>8. Followed' \subseteq Followed
  BY <1>2, <1>7 DEF Followed, gone
<1>9. RowsSound'
  BY <1>3, <1>4, <1>6, <1>7 DEF TablePart, RowsSound
<1>10. CoinsSound'
  BY <1>3, <1>4, <1>5, <1>7 DEF TablePart, CoinsSound
<1>11. FollowedTold'
  <2>1. FollowedTold
    BY <1>4 DEF TablePart
  <2> QED
    BY <1>3, <1>5, <1>6, <1>8, <2>1 DEF FollowedTold
<1>12. TablePart'
  BY <1>3, <1>4, <1>9, <1>10, <1>11 DEF TablePart
<1>13. ChainPart'
  <2>1. cursor \in Path[Sink] /\ processed <= Daa[cursor] /\ b # NoBlock /\ Path[b] \subseteq Path[Sink]
    BY <1>2, <1>4, OnChain DEF ChainPart
  <2>2. Daa[b] \in Nat /\ Daa[cursor] \in Nat /\ cursor \in Path[b]
    BY <1>1, <2>1, OnChain
  <2>3. Path[cursor] \subseteq Path[b]
    BY <2>1, <2>2, OnChain, TreeAssumption
  <2>4. processed \in Nat
    BY <1>4 DEF TablePart
  <2>5. processed <= Daa[b]
    BY <1>1, <2>1, <2>2, <2>4
  <2>6. gone \subseteq Path[b]
    BY <1>2, <1>4, <2>3 DEF ChainPart, gone
  <2>7. \A x \in Path[b] : Daa[x] <= processed \/ x \in gone
    BY <1>2, <1>4 DEF ChainPart, gone
  <2>8. DOMAIN batches \subseteq Path[b]
    BY <1>2, <1>4, <2>3 DEF ChainPart
  <2> QED
    BY <1>2, <1>3, <2>1, <2>5, <2>6, <2>7, <2>8 DEF ChainPart
<1>14. WindowPart'
  BY <1>2, <1>3, <1>4 DEF WindowPart
<1>15. WalkPart'
  BY <1>2, <1>4 DEF WalkPart, WindowPart
<1>16. NumberPart'
  <2>1. \A v \in DOMAIN summary : Tidy(v)
    BY <1>2, <1>4 DEF NumberPart, WindowPart
  <2>2. \A v : RowsOf(v)' = RowsOf(v)
    BY <1>3 DEF RowsOf
  <2>3. ASSUME NEW v \in DOMAIN summary PROVE Tidy(v)'
    <3>1. Tidy(v) /\ RowsOf(v)' = RowsOf(v)
      BY <2>1, <2>2
    <3>2. Cardinality(RowsOf(v)') = Cardinality(RowsOf(v)) /\ summary' = summary
      BY <1>3, <3>1
    <3> QED
      BY ONLY <3>1, <3>2 DEF Tidy
  <2>4. RowsAreRecords' /\ SeqsUnique' /\ SummaryTypes'
    BY <1>3, <1>4 DEF NumberPart, RowsAreRecords, SeqsUnique, SummaryTypes
  <2> QED
    BY <1>3, <2>3, <2>4 DEF NumberPart
<1> QED
  BY <1>12, <1>13, <1>14, <1>15, <1>16 DEF Sound

\* A copy, a restart and a stop only move the runner.
LEMMA PauseKeeps ==
    ASSUME Sound, UNCHANGED <<storeVars, meta, past>>, walker'.pc \notin {"walk", "finalize"},
           walker'.pc = "live" => meta.pending = <<>>
    PROVE  Sound'
<1>1. TablePart /\ ChainPart /\ WindowPart /\ WalkPart /\ NumberPart
  BY DEF Sound
<1>2. /\ rows' = rows /\ created' = created /\ spent' = spent /\ summary' = summary
      /\ processed' = processed /\ nextSeq' = nextSeq /\ past' = past
      /\ cursor' = cursor /\ batches' = batches /\ meta' = meta
  BY DEF storeVars, tables
<1>3. past'.skipped = past.skipped
  BY <1>2
<1>4. /\ TablePart' /\ RowsAreRecords' /\ SeqsUnique' /\ SummaryTypes'
      /\ \A S : WholeIn(S) => WholeIn(S)'
      /\ \A v : (Tidy(v) => Tidy(v)') /\ (Late(v) => Late(v)')
  BY <1>1, <1>2, <1>3, TablesAtRest DEF NumberPart
<1>5. ChainPart'
  BY <1>1, <1>2 DEF ChainPart
<1>6. WindowPart'
  BY <1>1, <1>2 DEF WindowPart
<1>7. WalkPart'
  <2>1. meta'.walk # NoBlock => meta'.walk \in Path[Sink] /\ WholeIn(Path[meta.walk])'
    BY <1>1, <1>2, <1>4 DEF WalkPart
  <2>2. meta'.recoveries # {} => WholeIn(Path[Sink])'
    BY <1>1, <1>2, <1>4 DEF WalkPart
  <2> QED
    BY <1>2, <2>1, <2>2 DEF WalkPart
<1>8. NumberPart'
  BY <1>1, <1>2, <1>4 DEF NumberPart
<1> QED
  BY <1>4, <1>5, <1>6, <1>7, <1>8 DEF Sound

\* A run begins where the last one stopped, or below its window.
LEMMA BeginKeeps ==
    ASSUME Shape, Sound, GapFair', BeginRecovery
    PROVE  Sound'
<1>1. PICK explicit \in BOOLEAN, archival \in BOOLEAN, start \in Anchors, bodies \in NodeBodies :
       \E w \in IF explicit THEN Windows ELSE FoundWindow :
         LET at == IF meta.walk # NoBlock THEN meta.walk ELSE start
             late == {b \in past.skipped \cap Path[start] : w[1] <= Daa[b]}
         IN  /\ archival \/ ~OnRecord(w)
             /\ w[2] <= processed
             /\ meta' = [meta EXCEPT !.pending = w]
             /\ walker' = [Quiet EXCEPT !.pc = "walk", !.lo = w[1], !.hi = w[2],
                             !.stop = Max({processed, w[2]}), !.bodies = bodies, !.at = at]
             /\ past' = [past EXCEPT
                   !.runs = @ + 1,
                   !.asked = IF meta.pending = <<>> \/ explicit THEN @ \cup {w} ELSE @,
                   !.diverted = @ \/ (explicit /\ meta.pending \notin {<<>>, w}),
                   !.missed = IF meta.walk = NoBlock
                              THEN @ \cup UNION {AcceptedTxs(b) : b \in late} ELSE @]
  BY DEF BeginRecovery, TakenUp
<1>2. PICK w \in IF explicit THEN Windows ELSE FoundWindow :
         LET at == IF meta.walk # NoBlock THEN meta.walk ELSE start
             late == {b \in past.skipped \cap Path[start] : w[1] <= Daa[b]}
         IN  /\ w[2] <= processed
             /\ meta' = [meta EXCEPT !.pending = w]
             /\ walker' = [Quiet EXCEPT !.pc = "walk", !.lo = w[1], !.hi = w[2],
                             !.stop = Max({processed, w[2]}), !.bodies = bodies, !.at = at]
             /\ past' = [past EXCEPT
                   !.runs = @ + 1,
                   !.asked = IF meta.pending = <<>> \/ explicit THEN @ \cup {w} ELSE @,
                   !.diverted = @ \/ (explicit /\ meta.pending \notin {<<>>, w}),
                   !.missed = IF meta.walk = NoBlock
                              THEN @ \cup UNION {AcceptedTxs(b) : b \in late} ELSE @]
  BY <1>1
<1> DEFINE at == IF meta.walk # NoBlock THEN meta.walk ELSE start
           late == {b \in past.skipped \cap Path[start] : w[1] <= Daa[b]}
<1>3. /\ TablePart /\ ChainPart /\ WindowPart /\ WalkPart /\ NumberPart
      /\ processed \in Nat /\ FollowedTold
  BY DEF Sound, TablePart
<1>4. /\ rows' = rows /\ created' = created /\ spent' = spent /\ summary' = summary
      /\ processed' = processed /\ nextSeq' = nextSeq
      /\ cursor' = cursor /\ batches' = batches
  BY DEF BeginRecovery, TakenUp, storeVars, tables
<1>5. /\ past'.skipped = past.skipped
      /\ past'.asked = (IF meta.pending = <<>> \/ explicit THEN past.asked \cup {w} ELSE past.asked)
      /\ past'.missed = (IF meta.walk = NoBlock
                         THEN past.missed \cup (UNION {AcceptedTxs(b) : b \in late}) ELSE past.missed)
  <2>1. past = [resets |-> past.resets, skipped |-> past.skipped, runs |-> past.runs,
                asked |-> past.asked, missed |-> past.missed, diverted |-> past.diverted]
    BY DEF Shape
  <2> HIDE DEF late
  <2> QED
    BY <1>2, <2>1 DEF late
<1>6. meta'.pending = w /\ meta'.walk = meta.walk /\ meta'.recoveries = meta.recoveries
  <2>1. meta = [pending |-> meta.pending, walk |-> meta.walk, recoveries |-> meta.recoveries]
    BY DEF Shape
  <2> QED
    BY <1>2, <2>1
<1>7. /\ walker'.pc = "walk" /\ walker'.lo = w[1] /\ walker'.hi = w[2] /\ walker'.todo = {}
      /\ walker'.stop = Max({processed, w[2]}) /\ walker'.at = at
  BY <1>2 DEF Quiet
<1>8. w \in Nat \X Nat
  <2>1. CASE explicit
    BY <2>1, GapAssumption
  <2>2. CASE ~explicit /\ meta.pending # <<>>
    BY <1>3, <2>2 DEF FoundWindow, WindowPart
  <2>3. CASE ~explicit /\ meta.pending = <<>>
    <3>1. w \in Scores \X Scores
      BY <2>3 DEF FoundWindow, WidestGap, Stretches
    <3>2. Scores \subseteq Nat
      BY <1>3, TreeAssumption DEF Scores, NumberPart, RowsAreRecords, Record
    <3> QED
      BY <3>1, <3>2
  <2> QED
    BY <2>1, <2>2, <2>3
<1>9. w \in past'.asked
  <2>1. CASE meta.pending = <<>> \/ explicit
    BY <1>5, <2>1
  <2>2. CASE ~explicit /\ meta.pending # <<>>
    BY <1>3, <1>5, <2>2 DEF FoundWindow, WindowPart
  <2> QED
    BY <2>1, <2>2
<1>10. past.asked \subseteq past'.asked
  BY <1>5
<1>11. w # <<>> /\ w = <<w[1], w[2]>> /\ w[2] <= processed
  BY <1>2, <1>8
<1>12. Max({processed, w[2]}) = processed
  <2>1. processed \in {processed, w[2]} /\ \A y \in {processed, w[2]} : processed >= y
    BY <1>3, <1>8, <1>11
  <2>2. \A x \in {processed, w[2]} : (\A y \in {processed, w[2]} : x >= y) => x = processed
    BY <1>3, <1>8, <1>11
  <2> QED
    BY <2>1, <2>2 DEF Max
<1>13. /\ TablePart' /\ RowsAreRecords' /\ SeqsUnique' /\ SummaryTypes'
       /\ \A b : Whole(b) <=> Whole(b)'
       /\ \A S : WholeIn(S) => WholeIn(S)'
       /\ \A v : (Tidy(v) => Tidy(v)') /\ (Late(v) => Late(v)')
  BY <1>3, <1>4, <1>5, TablesAtRest DEF NumberPart
<1>14. ChainPart'
  BY <1>3, <1>4, <1>5 DEF ChainPart
<1>15. WindowPart'
  <2>1. \A x \in meta.recoveries : x \in past'.asked /\ x \in Nat \X Nat /\ x[2] <= processed
    BY <1>3, <1>10 DEF WindowPart
  <2> QED
    BY <1>4, <1>6, <1>7, <1>8, <1>9, <1>11, <1>12, <2>1 DEF WindowPart
<1>16. at \in Path[Sink] /\ WholeIn(Path[at])
  <2>1. CASE meta.walk # NoBlock
    BY <1>3, <2>1 DEF WalkPart
  <2>2. CASE meta.walk = NoBlock
    <3>1. at = start /\ start \in Path[Sink] /\ Path[start] \subseteq Path[Sink]
      BY <2>2, GapAssumption, OnChain
    <3>2. \A b \in late : AcceptedTxs(b) = {}
      <4>1. past'.missed = {}
        BY DEF GapFair
      <4>2. UNION {AcceptedTxs(b) : b \in late} = {}
        BY <1>5, <2>2, <4>1
      <4> HIDE DEF late
      <4> QED
        BY <4>2
    <3>3. ASSUME NEW a \in Path[start], Daa[a] <= processed PROVE Whole(a)
      <4>1. a \in Path[Sink] /\ Path[a] \subseteq Path[start]
        <5>1. start \in Blocks
          BY <3>1, OnChain
        <5> QED
          BY <3>1, <5>1, TreeAssumption
      <4>2. ASSUME NEW x \in Path[a], x \in past.skipped PROVE AcceptedTxs(x) = {}
        <5>1. w[1] <= Daa[x]
          BY <1>5, <1>9, <4>2 DEF GapFair
        <5>2. x \in late
          BY <4>1, <4>2, <5>1
        <5> QED
          BY <3>2, <5>2
      <4> QED
        BY <1>3, <3>3, <4>1, <4>2, WholeAnyway
    <3> QED
      BY <3>1, <3>3 DEF WholeIn
  <2> QED
    BY <2>1, <2>2
<1>17. WalkPart'
  <2> PICK from : from = at
    OBVIOUS
  <2> PICK saved : saved = meta.walk
    OBVIOUS
  <2> HIDE DEF at
  <2>1. saved # NoBlock => saved \in Path[Sink] /\ WholeIn(Path[saved])'
    <3>1. saved # NoBlock => saved \in Path[Sink] /\ WholeIn(Path[saved])
      BY <1>3 DEF WalkPart
    <3> QED
      BY <1>13, <3>1
  <2>2. meta.recoveries # {} => WholeIn(Path[Sink])'
    BY <1>3, <1>13 DEF WalkPart
  <2>3. from \in Path[Sink] /\ WholeIn(Path[from])'
    <3>1. from \in Path[Sink] /\ WholeIn(Path[from])
      BY <1>16
    <3> QED
      BY <1>13, <3>1
  <2>4. meta'.walk = saved /\ walker'.at = from
    BY <1>6, <1>7
  <2> QED
    BY <1>6, <1>7, <2>1, <2>2, <2>3, <2>4 DEF WalkPart
<1>18. NumberPart'
  BY <1>3, <1>4, <1>6, <1>11, <1>13 DEF NumberPart
<1> QED
  BY <1>13, <1>14, <1>15, <1>17, <1>18 DEF Sound

-----------------------------------------------------------------------------
(* The walk *)

\* A block that is taken up whole keeps the tables sound and all that was whole.
LEMMA MergeKeeps ==
    ASSUME NEW b \in ReachedNow, NEW B, Fits(B, b), Fills(B, b), MergeRecovered(B),
           B = [block |-> B.block, daa |-> B.daa, apps |-> B.apps, events |-> B.events,
                created |-> B.created, spent |-> B.spent],
           TablePart, NumberPart, \A a \in Path[b] \ {b} : Whole(a),
           meta.pending # <<>>, meta'.pending = meta.pending, past'.skipped = past.skipped
    PROVE  /\ TablePart' /\ NumberPart' /\ Whole(b)'
           /\ \A a \in Blocks : Whole(a) => Whole(a)'
           /\ processed' = processed /\ cursor' = cursor /\ batches' = batches
<1>1. /\ processed' = processed /\ cursor' = cursor /\ batches' = batches /\ nextSeq' = nextSeq
  BY DEF MergeRecovered
<1>2. /\ b \in Path[Sink] /\ b \in Blocks /\ b # NoBlock /\ B.block = b /\ FitsOutputs(B, b)
  BY OnChain DEF ReachedNow, Fits, Fills
<1>3. TakesUp(B)
  BY MergeTakesUp
<1>4. /\ processed \in Nat /\ nextSeq \in Nat /\ RowsSound /\ CoinsSound /\ FollowedTold
  BY DEF TablePart
<1>5. /\ \A t, v : Told(t, v) => Told(t, v)'
      /\ \A c \in Coins : spent[c] # NoBlock => spent'[c] # NoBlock
      /\ \A a \in Blocks : (Shows(a) => Shows(a)') /\ (Whole(a) => Whole(a)')
  BY <1>2, <1>3, NothingLost
<1>6. ReachedNow' = ReachedNow /\ Followed' = Followed
  BY <1>1 DEF ReachedNow, Followed
<1>7. ReachedNow \subseteq ReachedNow' /\ b \in ReachedNow'
  BY <1>6
<1>8. RowsSound' /\ CoinsSound'
  BY <1>2, <1>3, <1>4, <1>7, TakeUpSound
<1>9. Whole(b)'
  BY <1>2, <1>3, TakeUpWhole
<1>10. FollowedTold'
  <2>1. Followed \subseteq Path[Sink] /\ Path[Sink] \subseteq Blocks
    BY OnChain DEF Followed, ReachedNow
  <2>2. \A d \in Followed : \A t \in AcceptedTxs(d) : Inputs[t] \subseteq Coins
    BY <2>1, Listed, DataAssumption
  <2> QED
    BY <1>4, <1>5, <1>6, <2>1, <2>2 DEF FollowedTold
<1>11. TablePart'
  BY <1>1, <1>4, <1>8, <1>10 DEF TablePart
<1>12. NumberPart'
  <2>1. \A e \in B.events : ~Told(e.tx, e.cov) => b \in past.skipped \/ Late(e.cov)
    <3> TAKE e \in B.events
    <3>1. e.tx \in AcceptedTxs(b) /\ Touches(e.tx, e.cov)
      BY DEF Fits
    <3> QED
      BY <1>4, <3>1, NewsIsLate
  <2> QED
    BY <1>2, <2>1, MergeKeepsNumbers
<1> QED
  BY <1>1, <1>5, <1>9, <1>11, <1>12

\* The next block of a walk.
LEMMA WalkBlockKeeps ==
    ASSUME Shape, GapFair, GapFair', Sound, WalkBlock
    PROVE  Sound'
<1> PICK b : b = NextOf
  OBVIOUS
<1> DEFINE over == Daa[b] > walker.stop
           rest == walker.todo \ {b}
           passed == rest = {} /\ ~over
<1>1. /\ walker.pc = "walk" /\ walker.todo # {}
      /\ walker' = [walker EXCEPT
                !.pc = IF over THEN "finalize" ELSE "walk",
                !.todo = IF over THEN {} ELSE rest,
                !.at = IF passed THEN walker.next ELSE @]
      /\ meta' = [meta EXCEPT !.walk = IF passed THEN walker.next ELSE @]
      /\ IF over \/ Daa[b] < walker.lo
         THEN UNCHANGED <<storeVars, past>>
         ELSE /\ MergeRecovered(IF Daa[b] <= walker.hi THEN Capture(b) ELSE Reconcile(b))
              /\ past' = [past EXCEPT !.missed = @ \cup (AcceptedTxs(b) \ walker.bodies)]
  BY DEF WalkBlock, WalkedTo
<1>2. /\ TablePart /\ ChainPart /\ WindowPart /\ WalkPart /\ NumberPart
      /\ processed \in Nat /\ FollowedTold /\ RowsSound /\ CoinsSound
  BY DEF Sound, TablePart
<1>3. /\ walker.next \in walker.todo /\ walker.next \in Path[Sink]
      /\ walker.todo \subseteq Path[walker.next]
      /\ WholeIn(Path[walker.next] \ walker.todo)
      /\ walker.at \in Path[Sink] /\ WholeIn(Path[walker.at])
  BY <1>1, <1>2 DEF WalkPart
<1>4. /\ meta.pending = <<walker.lo, walker.hi>> /\ walker.stop = processed
      /\ meta.pending # <<>>
      /\ walker.lo \in Nat /\ walker.hi \in Nat /\ walker.hi <= processed
      /\ meta.pending \in past.asked
  <2>1. meta.pending = <<walker.lo, walker.hi>> /\ walker.stop = processed
    BY <1>1, <1>2 DEF WindowPart
  <2>2. meta.pending # <<>>
    BY <2>1
  <2>3. meta.pending \in past.asked /\ meta.pending \in Nat \X Nat /\ meta.pending[2] <= processed
    BY <1>2, <2>2 DEF WindowPart
  <2> QED
    BY <2>1, <2>2, <2>3
<1>5. \A x \in past.skipped : walker.lo <= Daa[x] /\ Daa[x] <= walker.hi
  <2>1. \A x \in past.skipped : meta.pending[1] <= Daa[x] /\ Daa[x] <= meta.pending[2]
    BY <1>4 DEF GapFair
  <2> QED
    BY <1>4, <2>1
<1>6. /\ walker'.pc = (IF over THEN "finalize" ELSE "walk")
      /\ walker'.todo = (IF over THEN {} ELSE rest)
      /\ walker'.at = (IF passed THEN walker.next ELSE walker.at)
      /\ walker'.lo = walker.lo /\ walker'.hi = walker.hi /\ walker'.stop = walker.stop
      /\ walker'.next = walker.next
  <2>1. walker = [pc |-> walker.pc, lo |-> walker.lo, hi |-> walker.hi, stop |-> walker.stop,
                  at |-> walker.at, todo |-> walker.todo, next |-> walker.next,
                  bodies |-> walker.bodies]
    BY DEF Shape
  <2> HIDE DEF over, rest, passed
  <2> QED
    BY <1>1, <2>1
<1>7. /\ meta'.pending = meta.pending /\ meta'.recoveries = meta.recoveries
      /\ meta'.walk = (IF passed THEN walker.next ELSE meta.walk)
  <2>1. meta = [pending |-> meta.pending, walk |-> meta.walk, recoveries |-> meta.recoveries]
    BY DEF Shape
  <2> HIDE DEF over, rest, passed
  <2> QED
    BY <1>1, <2>1
<1>8. /\ past'.skipped = past.skipped /\ past'.asked = past.asked
      /\ ~over /\ ~(Daa[b] < walker.lo) => AcceptedTxs(b) \subseteq walker.bodies
  <2>1. past = [resets |-> past.resets, skipped |-> past.skipped, runs |-> past.runs,
                asked |-> past.asked, missed |-> past.missed, diverted |-> past.diverted]
    BY DEF Shape
  <2> HIDE DEF over
  <2>2. past'.skipped = past.skipped /\ past'.asked = past.asked
    BY <1>1, <2>1
  <2>3. ASSUME ~over, ~(Daa[b] < walker.lo) PROVE AcceptedTxs(b) \subseteq walker.bodies
    <3>1. past'.missed = past.missed \cup (AcceptedTxs(b) \ walker.bodies)
      BY <1>1, <2>1, <2>3
    <3>2. past'.missed = {}
      BY DEF GapFair
    <3> QED
      BY <3>1, <3>2
  <2> QED
    BY <2>2, <2>3
<1>9. /\ b \in walker.todo /\ \A x \in walker.todo : b \in Path[x]
  <2>1. walker.todo \subseteq Path[Sink]
    BY <1>3, OnChain
  <2> QED
    BY <1>1, <2>1, NextIsFirst
<1>10. /\ b \in Path[Sink] /\ b \in Path[walker.next] /\ b \in Blocks /\ Daa[b] \in Nat
       /\ Path[b] \subseteq Path[Sink] /\ Path[b] \subseteq Path[walker.next] /\ b \in Path[b]
       /\ \A a \in Path[Sink] : a \in Path[b] <=> Daa[a] <= Daa[b]
  <2>1. b \in Path[walker.next] /\ walker.next \in Blocks /\ Path[walker.next] \subseteq Path[Sink]
    BY <1>3, <1>9, OnChain
  <2>2. b \in Path[Sink] /\ Path[b] \subseteq Path[walker.next]
    BY <2>1, TreeAssumption
  <2> QED
    BY <2>1, <2>2, OnChain
<1>11. \A a \in Path[b] \ {b} : a \notin walker.todo
  <2> TAKE a \in Path[b] \ {b}
  <2>1. a \in Path[Sink] /\ Daa[a] <= Daa[b] /\ Daa[a] \in Nat /\ Daa[a] # Daa[b]
    BY <1>10, OnChain
  <2>2. ~(Daa[b] <= Daa[a])
    BY <1>10, <2>1
  <2>3. b \notin Path[a]
    BY <1>10, <2>1, <2>2, OnChain
  <2> QED
    BY <1>9, <2>3
<1>12. ASSUME NEW a \in Path[b] \ {b}, Daa[a] <= processed PROVE Whole(a)
  <2>1. a \in Path[walker.next] \ walker.todo
    BY <1>10, <1>11
  <2> QED
    BY <1>3, <1>12, <2>1 DEF WholeIn
<1> HIDE DEF passed, rest
<1>13. /\ TablePart' /\ NumberPart'
       /\ processed' = processed /\ cursor' = cursor /\ batches' = batches
       /\ \A a \in Blocks : Whole(a) => Whole(a)'
       /\ ~over => Whole(b)'
  <2>1. CASE over \/ Daa[b] < walker.lo
    <3>1. /\ rows' = rows /\ created' = created /\ spent' = spent /\ summary' = summary
          /\ processed' = processed /\ nextSeq' = nextSeq
          /\ cursor' = cursor /\ batches' = batches
      BY <1>1, <2>1 DEF storeVars, tables
    <3>2. /\ TablePart => TablePart' /\ (\A a : Whole(a) <=> Whole(a)')
          /\ (RowsAreRecords => RowsAreRecords') /\ (SeqsUnique => SeqsUnique') /\ (SummaryTypes => SummaryTypes')
          /\ \A v : (Tidy(v) => Tidy(v)') /\ (Late(v) => Late(v)')
      BY <1>8, <3>1, TablesAtRest
    <3>3. NumberPart'
      BY <1>2, <1>7, <3>1, <3>2 DEF NumberPart
    <3>4. TablePart'
      <4>1. TablePart => TablePart'
        BY <1>8, <3>1, TablesAtRest
      <4> QED
        BY <1>2, <4>1
    <3>5. \A a : Whole(a) <=> Whole(a)'
      BY <1>8, <3>1, TablesAtRest
    <3>6. ~over => Whole(b)'
      <4> SUFFICES ASSUME ~over PROVE Whole(b)'
        OBVIOUS
      <4>1. Daa[b] < walker.lo /\ Daa[b] <= processed
        BY <1>4, <1>10, <1>2, <2>1
      <4>2. \A x \in Path[b] : x \notin past.skipped
        <5> TAKE x \in Path[b]
        <5>1. Daa[x] <= Daa[b] /\ Daa[x] \in Nat
          BY <1>10, OnChain
        <5>2. ~(walker.lo <= Daa[x])
          BY <1>4, <1>10, <4>1, <5>1
        <5> QED
          BY <1>5, <5>2
      <4>3. Whole(b)
        BY <1>2, <1>10, <4>1, <4>2, WholeAnyway
      <4> QED
        BY <3>5, <4>3
    <3> QED
      BY <3>1, <3>3, <3>4, <3>5, <3>6
  <2>2. CASE ~over /\ ~(Daa[b] < walker.lo)
    <3>1. Daa[b] <= processed /\ walker.lo <= Daa[b]
      BY <1>2, <1>4, <1>10, <2>2
    <3>2. b \in ReachedNow
      BY <1>10, <3>1 DEF ReachedNow
    <3>3. AcceptedTxs(b) \subseteq walker.bodies
      BY <1>8, <2>2
    <3>4. \A a \in Path[b] \ {b} : Whole(a)
      <4> TAKE a \in Path[b] \ {b}
      <4>1. Daa[a] <= Daa[b] /\ Daa[a] \in Nat
        BY <1>10, OnChain
      <4>2. Daa[a] <= processed
        BY <1>2, <1>10, <3>1, <4>1
      <4> QED
        BY <1>12, <4>2
    <3>5. CASE Daa[b] <= walker.hi
      <4>1. Fits(Capture(b), b) /\ Fills(Capture(b), b)
        BY <1>2, <1>10, <3>3, <3>4, CaptureFits, CaptureFills
      <4> PICK B : B = Capture(b)
        OBVIOUS
      <4>2. MergeRecovered(B)
        BY <1>1, <2>2, <3>5
      <4>3. B = [block |-> B.block, daa |-> B.daa, apps |-> B.apps, events |-> B.events,
                 created |-> B.created, spent |-> B.spent]
        <5>1. PICK es, cs, ss : Capture(b) = [block |-> b, daa |-> Daa[b], apps |-> {},
                                              events |-> es, created |-> cs, spent |-> ss]
          BY DEF Capture
        <5> QED
          BY <5>1
      <4> QED
        BY <1>2, <1>4, <1>7, <1>8, <3>2, <3>4, <4>1, <4>2, <4>3, MergeKeeps
    <3>6. CASE ~(Daa[b] <= walker.hi)
      <4>1. b \in Followed
        BY <1>5, <3>2, <3>6 DEF Followed
      <4>2. Fits(Reconcile(b), b) /\ Fills(Reconcile(b), b)
        BY <1>2, <3>3, <3>4, <4>1, ReconcileFits, ReconcileFills
      <4> PICK B : B = Reconcile(b)
        OBVIOUS
      <4>3. MergeRecovered(B)
        BY <1>1, <2>2, <3>6
      <4>4. B = [block |-> B.block, daa |-> B.daa, apps |-> B.apps, events |-> B.events,
                 created |-> B.created, spent |-> B.spent]
        <5>1. PICK es, cs, ss : Reconcile(b) = [block |-> b, daa |-> Daa[b], apps |-> {},
                                              events |-> es, created |-> cs, spent |-> ss]
          BY DEF Reconcile
        <5> QED
          BY <5>1
      <4> QED
        BY <1>2, <1>4, <1>7, <1>8, <3>2, <3>4, <4>2, <4>3, <4>4, MergeKeeps
    <3> QED
      BY <3>5, <3>6
  <2> QED
    BY <2>1, <2>2
<1>14. \A S \in SUBSET Path[Sink] : WholeIn(S) => WholeIn(S)'
  <2>1. Path[Sink] \subseteq Blocks
    BY OnChain
  <2> QED
    BY <1>13, <2>1 DEF WholeIn
<1>15. ChainPart'
  BY <1>2, <1>8, <1>13 DEF ChainPart
<1>16. WindowPart'
  <2>1. walker'.pc \in {"walk", "finalize"}
    BY <1>6
  <2> QED
    BY <1>2, <1>4, <1>6, <1>7, <1>8, <1>13, <2>1 DEF WindowPart
<1>17. over => WholeIn(Path[Sink])
  <2> SUFFICES ASSUME over, NEW a \in Path[Sink], Daa[a] <= processed PROVE Whole(a)
    BY DEF WholeIn
  <2>1. Daa[a] \in Nat /\ Daa[a] <= Daa[b] /\ Daa[a] # Daa[b]
    BY <1>2, <1>4, <1>10, OnChain
  <2>2. a \in Path[b] \ {b}
    BY <1>10, <2>1
  <2> QED
    BY <1>12, <2>2
<1> PICK n, at, saved, left : n = walker.next /\ at = walker.at /\ saved = meta.walk /\ left = rest
  OBVIOUS
<1>18. Path[at] \in SUBSET Path[Sink] /\ Path[n] \in SUBSET Path[Sink] /\ n \in Path[Sink] /\ at \in Path[Sink]
  BY <1>3, OnChain
<1>19. ASSUME ~over PROVE WholeIn(Path[n] \ left)'
  <2> PICK S : S = Path[n] \ walker.todo
    OBVIOUS
  <2>1. S \in SUBSET Path[Sink] /\ WholeIn(S)
    BY <1>3, <1>18
  <2>2. WholeIn(S)'
    BY <1>14, <2>1
  <2>3. \A x \in S : Daa[x] <= processed' => Whole(x)'
    BY <2>2 DEF WholeIn
  <2>4. \A x \in Path[n] \ left : x = b \/ x \in S
    <3>1. left = walker.todo \ {b}
      BY DEF rest
    <3>2. S = Path[n] \ walker.todo
      OBVIOUS
    <3> QED
      BY <3>1, <3>2
  <2>5. \A x \in Path[n] \ left : Daa[x] <= processed' => Whole(x)'
    BY <1>13, <1>19, <2>3, <2>4
  <2> QED
    BY <2>5 DEF WholeIn
<1>20. passed => WholeIn(Path[n])'
  <2> SUFFICES ASSUME passed PROVE WholeIn(Path[n])'
    OBVIOUS
  <2>1. ~over /\ left = {}
    BY DEF passed
  <2>2. WholeIn(Path[n] \ left)'
    BY <1>19, <2>1
  <2>3. Path[n] \ left = Path[n]
    BY <2>1
  <2> QED
    BY <2>2, <2>3
<1>21. saved # NoBlock => saved \in Path[Sink] /\ WholeIn(Path[saved])'
  <2> SUFFICES ASSUME saved # NoBlock PROVE saved \in Path[Sink] /\ WholeIn(Path[saved])'
    OBVIOUS
  <2>1. saved \in Path[Sink] /\ WholeIn(Path[saved])
    BY <1>2 DEF WalkPart
  <2>2. Path[saved] \in SUBSET Path[Sink]
    BY <2>1, OnChain
  <2> QED
    BY <1>14, <2>1, <2>2
<1>22. WholeIn(Path[at])'
  <2>1. WholeIn(Path[at])
    BY <1>3
  <2> QED
    BY <1>14, <1>18, <2>1
<1>23. over \/ meta.recoveries # {} => WholeIn(Path[Sink])'
  <2> SUFFICES ASSUME over \/ meta.recoveries # {} PROVE WholeIn(Path[Sink])'
    OBVIOUS
  <2>1. WholeIn(Path[Sink])
    BY <1>2, <1>17 DEF WalkPart
  <2> QED
    BY <1>14, <2>1
<1>24. left # {} => n \in left /\ left \subseteq Path[n]
  <2> SUFFICES ASSUME left # {} PROVE n \in left /\ left \subseteq Path[n]
    OBVIOUS
  <2>1. left = walker.todo \ {b} /\ n \in walker.todo /\ walker.todo \subseteq Path[n]
    BY <1>3 DEF rest
  <2>2. n # b
    BY <1>11, <2>1
  <2> QED
    BY <2>1, <2>2
<1>25. WalkPart'
  <2>1. meta'.walk = (IF passed THEN n ELSE saved) /\ walker'.at = (IF passed THEN n ELSE at)
        /\ walker'.next = n /\ meta'.recoveries = meta.recoveries
    BY <1>6, <1>7
  <2>2. walker'.pc = (IF over THEN "finalize" ELSE "walk") /\ walker'.todo = (IF over THEN {} ELSE left)
    BY <1>6
  <2>3. n # NoBlock
    BY <1>18, OnChain
  <2> HIDE DEF over
  <2>4. meta'.walk # NoBlock => meta'.walk \in Path[Sink] /\ WholeIn(Path[meta.walk])'
    <3>1. CASE passed
      BY <1>18, <1>20, <2>1, <3>1
    <3>2. CASE ~passed
      BY <1>21, <2>1, <3>2
    <3> QED
      BY <3>1, <3>2
  <2>5. walker'.at \in Path[Sink] /\ WholeIn(Path[walker.at])'
    <3>1. CASE passed
      BY <1>18, <1>20, <2>1, <3>1
    <3>2. CASE ~passed
      BY <1>18, <1>22, <2>1, <3>2
    <3> QED
      BY <3>1, <3>2
  <2>6. ASSUME walker'.pc = "walk", walker'.todo # {}
        PROVE  /\ walker'.next \in walker'.todo /\ walker'.next \in Path[Sink]
               /\ walker'.todo \subseteq Path[walker'.next]
               /\ WholeIn(Path[walker.next] \ walker.todo)'
    <3>1. ~over /\ walker'.todo = left /\ left # {}
      BY <2>2, <2>6
    <3>2. WholeIn(Path[n] \ left)'
      BY <1>19, <3>1
    <3> QED
      BY <1>18, <1>24, <2>1, <3>1, <3>2
  <2>7. walker'.pc = "finalize" \/ meta'.recoveries # {} => WholeIn(Path[Sink])'
    BY <1>23, <2>1, <2>2
  <2> QED
    BY ONLY <2>4, <2>5, <2>6, <2>7 DEF WalkPart
<1> QED
  BY <1>13, <1>15, <1>16, <1>25 DEF Sound

\* With the tables at rest, what a change of the runner and of the meta table has to keep.
LEMMA RunnerKeeps ==
    ASSUME Sound, UNCHANGED <<storeVars, past>>, meta'.pending = meta.pending,
           meta'.recoveries = meta.recoveries, WindowPart', WalkPart'
    PROVE  Sound'
<1>1. TablePart /\ ChainPart /\ NumberPart
  BY DEF Sound
<1>2. /\ rows' = rows /\ created' = created /\ spent' = spent /\ summary' = summary
      /\ processed' = processed /\ nextSeq' = nextSeq /\ past' = past
      /\ cursor' = cursor /\ batches' = batches
  BY DEF storeVars, tables
<1>3. past'.skipped = past.skipped
  BY <1>2
<1>4. /\ TablePart' /\ RowsAreRecords' /\ SeqsUnique' /\ SummaryTypes'
      /\ \A v : (Tidy(v) => Tidy(v)') /\ (Late(v) => Late(v)')
  BY <1>1, <1>2, <1>3, TablesAtRest DEF NumberPart
<1>5. ChainPart'
  BY <1>1, <1>2 DEF ChainPart
<1>6. NumberPart'
  BY <1>1, <1>2, <1>4 DEF NumberPart
<1> QED
  BY <1>4, <1>5, <1>6 DEF Sound

\* The next answer of the node, or none.
LEMMA FetchKeeps ==
    ASSUME Shape, GapFair, Sound, FetchBatch
    PROVE  Sound'
<1> PICK from : from = walker.at
  OBVIOUS
<1> DEFINE ahead == Path[Sink] \ Path[from]
           batch == {b \in ahead : Cardinality(Path[b] \cap ahead) <= BatchLen}
           last  == CHOOSE b \in batch : \A x \in batch : x \in Path[b]
<1>1. /\ walker.pc = "walk" /\ walker.todo = {} /\ UNCHANGED <<storeVars, past>>
      /\ IF ahead = {}
         THEN walker' = [walker EXCEPT !.pc = "finalize"] /\ UNCHANGED meta
         ELSE IF Daa[last] < walker.lo
         THEN /\ walker' = [walker EXCEPT !.at = last]
              /\ meta' = [meta EXCEPT !.walk = last]
         ELSE walker' = [walker EXCEPT !.todo = batch, !.next = last] /\ UNCHANGED meta
  BY DEF FetchBatch, WalkedTo
<1>2. /\ TablePart /\ WindowPart /\ WalkPart /\ processed \in Nat /\ FollowedTold
  BY DEF Sound, TablePart
<1>3. from \in Path[Sink] /\ WholeIn(Path[from])
  BY <1>1, <1>2 DEF WalkPart
<1>4. ahead # {} => /\ last \in batch /\ batch \subseteq Path[last] /\ last \in Path[Sink]
                    /\ Path[last] \ batch \subseteq Path[from]
  BY <1>3, BatchFollows
<1> PICK B, l : B = batch /\ l = last
  OBVIOUS
<1>5. ahead # {} => l \in B /\ B \subseteq Path[l] /\ l \in Path[Sink] /\ Path[l] \ B \subseteq Path[from]
  BY <1>4
<1>6. /\ ahead = {} => walker' = [walker EXCEPT !.pc = "finalize"] /\ meta' = meta
      /\ ahead # {} /\ Daa[l] < walker.lo => /\ walker' = [walker EXCEPT !.at = l]
                                             /\ meta' = [meta EXCEPT !.walk = l]
      /\ ahead # {} /\ ~(Daa[l] < walker.lo) =>
             walker' = [walker EXCEPT !.todo = B, !.next = l] /\ meta' = meta
  BY <1>1
<1> HIDE DEF batch, last
<1>7. /\ walker = [pc |-> walker.pc, lo |-> walker.lo, hi |-> walker.hi, stop |-> walker.stop,
                   at |-> walker.at, todo |-> walker.todo, next |-> walker.next,
                   bodies |-> walker.bodies]
      /\ meta = [pending |-> meta.pending, walk |-> meta.walk, recoveries |-> meta.recoveries]
  BY DEF Shape
<1>8. /\ ahead = {} => /\ walker'.pc = "finalize" /\ meta'.walk = meta.walk
      /\ ahead # {} => walker'.pc = "walk"
      /\ ahead # {} /\ Daa[l] < walker.lo => walker'.at = l /\ meta'.walk = l /\ walker'.todo = {}
      /\ ahead # {} /\ ~(Daa[l] < walker.lo) =>
             walker'.at = from /\ walker'.todo = B /\ walker'.next = l /\ meta'.walk = meta.walk
      /\ walker'.lo = walker.lo /\ walker'.hi = walker.hi /\ walker'.stop = walker.stop
      /\ meta'.pending = meta.pending /\ meta'.recoveries = meta.recoveries
  <2> HIDE DEF ahead
  <2>1. CASE ahead = {}
    BY <1>1, <1>6, <1>7, <2>1
  <2>2. CASE ahead # {} /\ Daa[l] < walker.lo
    BY <1>1, <1>6, <1>7, <2>2
  <2>3. CASE ahead # {} /\ ~(Daa[l] < walker.lo)
    BY <1>1, <1>6, <1>7, <2>3
  <2> QED
    BY <2>1, <2>2, <2>3
<1>9. walker'.pc \in {"walk", "finalize"}
  BY <1>8
<1>10. processed' = processed /\ past' = past /\ \A S : WholeIn(S) => WholeIn(S)'
  <2>1. /\ rows' = rows /\ created' = created /\ spent' = spent /\ summary' = summary
        /\ processed' = processed /\ nextSeq' = nextSeq /\ past' = past
    BY <1>1 DEF storeVars, tables
  <2>2. past'.skipped = past.skipped
    BY <2>1
  <2> QED
    BY <2>1, <2>2, TablesAtRest
<1>11. /\ meta.pending = <<walker.lo, walker.hi>> /\ walker.stop = processed /\ meta.pending # <<>>
       /\ walker.lo \in Nat
       /\ \A x \in past.skipped : walker.lo <= Daa[x]
  <2>1. meta.pending = <<walker.lo, walker.hi>> /\ walker.stop = processed
    BY <1>1, <1>2 DEF WindowPart
  <2>2. meta.pending # <<>>
    BY <2>1
  <2>3. meta.pending \in past.asked /\ meta.pending \in Nat \X Nat
    BY <1>2, <2>2 DEF WindowPart
  <2>4. \A x \in past.skipped : meta.pending[1] <= Daa[x]
    BY <2>3 DEF GapFair
  <2> QED
    BY <2>1, <2>2, <2>3, <2>4
<1>12. WindowPart'
  BY <1>2, <1>8, <1>9, <1>10, <1>11 DEF WindowPart
<1>13. ahead = {} => WholeIn(Path[Sink])
  BY <1>3 DEF WholeIn
<1>14. ASSUME ahead # {}, Daa[l] < walker.lo PROVE WholeIn(Path[l])
  <2>1. l \in Path[Sink] /\ Path[l] \subseteq Path[Sink] /\ Daa[l] \in Nat
    BY <1>5, <1>14, OnChain
  <2> SUFFICES ASSUME NEW a \in Path[l], Daa[a] <= processed PROVE Whole(a)
    BY DEF WholeIn
  <2>2. a \in Path[Sink] /\ Daa[a] <= Daa[l] /\ Daa[a] \in Nat
    BY <2>1, OnChain
  <2>3. ASSUME NEW x \in Path[a] PROVE x \notin past.skipped
    <3>1. x \in Path[Sink] /\ Daa[x] \in Nat
      BY <2>2, OnChain
    <3>2. Daa[x] <= Daa[a]
      BY <2>2, <3>1, OnChain
    <3>3. ~(walker.lo <= Daa[x])
      BY <1>11, <1>14, <2>1, <2>2, <3>1, <3>2
    <3> QED
      BY <1>11, <3>3
  <2> QED
    BY <1>2, <2>2, <2>3, WholeAnyway
<1>15. ahead # {} => WholeIn(Path[l] \ B)
  BY <1>3, <1>5 DEF WholeIn
<1> HIDE DEF ahead
<1> PICK saved : saved = meta.walk
  OBVIOUS
<1>16. saved # NoBlock => saved \in Path[Sink] /\ WholeIn(Path[saved])
  BY <1>2 DEF WalkPart
<1>17. meta.recoveries # {} => WholeIn(Path[Sink])
  BY <1>2 DEF WalkPart
<1>18. WalkPart'
  <2>1. meta'.walk # NoBlock => meta'.walk \in Path[Sink] /\ WholeIn(Path[meta.walk])'
    <3>1. CASE ahead # {} /\ Daa[l] < walker.lo
      <4>1. l \in Path[Sink] /\ WholeIn(Path[l])'
        BY <1>5, <1>10, <1>14, <3>1
      <4> QED
        BY <1>8, <3>1, <4>1
    <3>2. CASE ~(ahead # {} /\ Daa[l] < walker.lo)
      <4>1. meta'.walk = saved
        BY <1>8, <3>2
      <4>2. saved # NoBlock => saved \in Path[Sink] /\ WholeIn(Path[saved])'
        BY <1>10, <1>16
      <4> QED
        BY <4>1, <4>2
    <3> QED
      BY <3>1, <3>2
  <2>2. walker'.pc = "walk" => walker'.at \in Path[Sink] /\ WholeIn(Path[walker.at])'
    <3> SUFFICES ASSUME ahead # {} PROVE walker'.at \in Path[Sink] /\ WholeIn(Path[walker.at])'
      BY <1>8
    <3>1. CASE Daa[l] < walker.lo
      <4>1. l \in Path[Sink] /\ WholeIn(Path[l])'
        BY <1>5, <1>10, <1>14, <3>1
      <4> QED
        BY <1>8, <3>1, <4>1
    <3>2. CASE ~(Daa[l] < walker.lo)
      <4>1. from \in Path[Sink] /\ WholeIn(Path[from])'
        BY <1>3, <1>10
      <4> QED
        BY <1>8, <3>2, <4>1
    <3> QED
      BY <3>1, <3>2
  <2>3. ASSUME walker'.pc = "walk", walker'.todo # {}
        PROVE  /\ walker'.next \in walker'.todo /\ walker'.next \in Path[Sink]
               /\ walker'.todo \subseteq Path[walker'.next]
               /\ WholeIn(Path[walker.next] \ walker.todo)'
    <3>1. ahead # {} /\ ~(Daa[l] < walker.lo) /\ walker'.todo = B /\ walker'.next = l
      BY <1>8, <2>3
    <3>2. WholeIn(Path[l] \ B)'
      BY <1>10, <1>15, <3>1
    <3> QED
      BY <1>5, <3>1, <3>2
  <2>4. walker'.pc = "finalize" \/ meta'.recoveries # {} => WholeIn(Path[Sink])'
    <3>1. walker'.pc = "finalize" \/ meta'.recoveries # {} => WholeIn(Path[Sink])
      BY <1>8, <1>13, <1>17
    <3> QED
      BY <1>10, <3>1
  <2> QED
    BY ONLY <2>1, <2>2, <2>3, <2>4 DEF WalkPart
<1> QED
  BY <1>1, <1>8, <1>12, <1>18, RunnerKeeps

\* The affected covenants are put in order and the window retires.
LEMMA FinalizeKeeps ==
    ASSUME GapFair, Sound, Finalize
    PROVE  Sound'
<1>1. /\ TablePart /\ ChainPart /\ WindowPart /\ WalkPart /\ NumberPart
      /\ processed \in Nat /\ nextSeq \in Nat /\ FollowedTold /\ RowsSound /\ CoinsSound
  BY DEF Sound, TablePart
<1>2. /\ walker.pc = "finalize" /\ walker' = Quiet
      /\ meta' = [pending |-> <<>>, walk |-> NoBlock,
                  recoveries |-> meta.recoveries \cup {<<walker.lo, walker.hi>>}]
      /\ created' = created /\ spent' = spent /\ batches' = batches /\ nextSeq' = nextSeq
      /\ cursor' = cursor /\ processed' = processed /\ past' = past
  BY DEF Finalize, Completed
<1>3. /\ meta.pending = <<walker.lo, walker.hi>> /\ meta.pending \in past.asked
      /\ meta.pending \in Nat \X Nat /\ walker.hi <= processed
      /\ \A x \in past.skipped : walker.lo <= Daa[x] /\ Daa[x] <= walker.hi
  <2>1. meta.pending = <<walker.lo, walker.hi>>
    BY <1>1, <1>2 DEF WindowPart
  <2>2. meta.pending # <<>>
    BY <2>1
  <2>3. meta.pending \in past.asked /\ meta.pending \in Nat \X Nat /\ meta.pending[2] <= processed
    BY <1>1, <2>2 DEF WindowPart
  <2>4. \A x \in past.skipped : meta.pending[1] <= Daa[x] /\ Daa[x] <= meta.pending[2]
    BY <2>3 DEF GapFair
  <2> QED
    BY <2>1, <2>3, <2>4
<1>4. /\ RowsAreRecords' /\ SeqsUnique' /\ SummaryTypes'
      /\ \A v \in DOMAIN summary' : Tidy(v)'
      /\ \A r \in rows : \E s \in rows' : s.cov = r.cov /\ s.tx = r.tx /\ s.kind = r.kind /\ s.block = r.block
      /\ \A s \in rows' : \E r \in rows : s.cov = r.cov /\ s.tx = r.tx /\ s.kind = r.kind /\ s.block = r.block
  BY <1>1, <1>2, <1>3, FinalizeTidies
<1>5. NumberPart'
  BY <1>4 DEF NumberPart
<1>6. /\ RowsSound' /\ CoinsSound' /\ FollowedTold' /\ \A b : Whole(b) <=> Whole(b)'
  BY <1>1, <1>2, <1>4, SameTelling
<1>7. TablePart'
  BY <1>1, <1>2, <1>6 DEF TablePart
<1>8. ChainPart'
  BY <1>1, <1>2 DEF ChainPart
<1>9. WindowPart'
  <2>1. \A w \in meta'.recoveries : w \in past.asked /\ w \in Nat \X Nat /\ w[2] <= processed
    <3> TAKE w \in meta'.recoveries
    <3>1. CASE w \in meta.recoveries
      BY <1>1, <3>1 DEF WindowPart
    <3>2. CASE w = <<walker.lo, walker.hi>>
      BY <1>3, <3>2
    <3> QED
      BY <1>2, <3>1, <3>2
  <2>2. meta'.pending = <<>> /\ meta'.walk = NoBlock /\ walker'.pc = "idle"
    BY <1>2 DEF Quiet
  <2> QED
    BY <1>2, <2>1, <2>2 DEF WindowPart
<1>10. WholeIn(Path[Sink])'
  <2>1. WholeIn(Path[Sink])
    BY <1>1, <1>2 DEF WalkPart
  <2> QED
    BY <1>2, <1>6, <2>1 DEF WholeIn
<1>11. WalkPart'
  <2>1. meta'.walk = NoBlock /\ walker'.pc = "idle"
    BY <1>2 DEF Quiet
  <2> QED
    BY <1>10, <2>1 DEF WalkPart
<1> QED
  BY <1>5, <1>7, <1>8, <1>9, <1>11 DEF Sound

-----------------------------------------------------------------------------
(* The invariant holds *)

\* The records have their fields, ...
LEMMA InitShape == GapInit => Shape
BY DEF GapInit, Shape, Quiet

\* What a run changes when it starts.
LEMMA BeginChanges ==
    ASSUME BeginRecovery
    PROVE  \E explicit, w, from, bodies, lost :
             /\ meta' = [meta EXCEPT !.pending = w]
             /\ walker' = [Quiet EXCEPT !.pc = "walk", !.lo = w[1], !.hi = w[2],
                             !.stop = Max({processed, w[2]}), !.bodies = bodies, !.at = from]
             /\ past' = [past EXCEPT
                   !.runs = @ + 1,
                   !.asked = IF meta.pending = <<>> \/ explicit THEN @ \cup {w} ELSE @,
                   !.diverted = @ \/ (explicit /\ meta.pending \notin {<<>>, w}),
                   !.missed = IF meta.walk = NoBlock THEN @ \cup lost ELSE @]
<1>1. PICK explicit \in BOOLEAN, archival \in BOOLEAN, start \in Anchors, bodies \in NodeBodies :
       \E w \in IF explicit THEN Windows ELSE FoundWindow :
         LET at == IF meta.walk # NoBlock THEN meta.walk ELSE start
             late == {b \in past.skipped \cap Path[start] : w[1] <= Daa[b]}
         IN  /\ archival \/ ~OnRecord(w)
             /\ w[2] <= processed
             /\ meta' = [meta EXCEPT !.pending = w]
             /\ walker' = [Quiet EXCEPT !.pc = "walk", !.lo = w[1], !.hi = w[2],
                             !.stop = Max({processed, w[2]}), !.bodies = bodies, !.at = at]
             /\ past' = [past EXCEPT
                   !.runs = @ + 1,
                   !.asked = IF meta.pending = <<>> \/ explicit THEN @ \cup {w} ELSE @,
                   !.diverted = @ \/ (explicit /\ meta.pending \notin {<<>>, w}),
                   !.missed = IF meta.walk = NoBlock
                              THEN @ \cup UNION {AcceptedTxs(b) : b \in late} ELSE @]
  BY DEF BeginRecovery, TakenUp
<1>2. PICK w \in IF explicit THEN Windows ELSE FoundWindow :
         LET at == IF meta.walk # NoBlock THEN meta.walk ELSE start
             late == {b \in past.skipped \cap Path[start] : w[1] <= Daa[b]}
         IN  /\ meta' = [meta EXCEPT !.pending = w]
             /\ walker' = [Quiet EXCEPT !.pc = "walk", !.lo = w[1], !.hi = w[2],
                             !.stop = Max({processed, w[2]}), !.bodies = bodies, !.at = at]
             /\ past' = [past EXCEPT
                   !.runs = @ + 1,
                   !.asked = IF meta.pending = <<>> \/ explicit THEN @ \cup {w} ELSE @,
                   !.diverted = @ \/ (explicit /\ meta.pending \notin {<<>>, w}),
                   !.missed = IF meta.walk = NoBlock
                              THEN @ \cup UNION {AcceptedTxs(b) : b \in late} ELSE @]
  BY <1>1
<1> PICK from, lost : from = (IF meta.walk # NoBlock THEN meta.walk ELSE start)
                      /\ lost = UNION {AcceptedTxs(b) : b \in {b \in past.skipped \cap Path[start] : w[1] <= Daa[b]}}
  OBVIOUS
<1> QED
  BY <1>2

\* ... whatever happens.
LEMMA NextShape ==
    ASSUME Shape, [GapNext]_allvars
    PROVE  Shape'
<1>1. /\ past = [resets |-> past.resets, skipped |-> past.skipped, runs |-> past.runs,
                 asked |-> past.asked, missed |-> past.missed, diverted |-> past.diverted]
      /\ meta = [pending |-> meta.pending, walk |-> meta.walk, recoveries |-> meta.recoveries]
      /\ walker = [pc |-> walker.pc, lo |-> walker.lo, hi |-> walker.hi, stop |-> walker.stop,
                   at |-> walker.at, todo |-> walker.todo, next |-> walker.next,
                   bodies |-> walker.bodies]
  BY DEF Shape
<1>2. CASE UNCHANGED allvars
  BY <1>1, <1>2 DEF allvars, gvars, Shape
<1>3. CASE IndexNext
  BY <1>1, <1>3 DEF IndexNext, gvars, Shape
<1>4. CASE SinkReset
  <2>1. meta' = meta /\ walker' = walker
    BY <1>4 DEF SinkReset
  <2>2. PICK s : past' = [past EXCEPT !.resets = @ + 1, !.skipped = s]
    BY <1>4 DEF SinkReset
  <2> QED
    BY <1>1, <2>1, <2>2 DEF Shape
<1>5. CASE TakeCopy
  BY <1>1, <1>5 DEF TakeCopy, Quiet, Shape
<1>6. CASE Restore
  BY <1>1, <1>6 DEF Restore, Quiet, Shape
<1>7. CASE BeginRecovery
  <2>1. PICK explicit, w, from, bodies, lost :
             /\ meta' = [meta EXCEPT !.pending = w]
             /\ walker' = [Quiet EXCEPT !.pc = "walk", !.lo = w[1], !.hi = w[2],
                             !.stop = Max({processed, w[2]}), !.bodies = bodies, !.at = from]
             /\ past' = [past EXCEPT
                   !.runs = @ + 1,
                   !.asked = IF meta.pending = <<>> \/ explicit THEN @ \cup {w} ELSE @,
                   !.diverted = @ \/ (explicit /\ meta.pending \notin {<<>>, w}),
                   !.missed = IF meta.walk = NoBlock THEN @ \cup lost ELSE @]
    BY <1>7, BeginChanges
  <2> QED
    BY <1>1, <2>1 DEF Quiet, Shape
<1>8. CASE FetchBatch
  <2>1. /\ past' = past
        /\ \/ walker' = [walker EXCEPT !.pc = "finalize"] /\ meta' = meta
           \/ \E l : walker' = [walker EXCEPT !.at = l] /\ meta' = [meta EXCEPT !.walk = l]
           \/ \E B, l : walker' = [walker EXCEPT !.todo = B, !.next = l] /\ meta' = meta
    BY <1>8 DEF FetchBatch, WalkedTo
  <2>2. CASE walker' = [walker EXCEPT !.pc = "finalize"] /\ meta' = meta
    BY <1>1, <2>1, <2>2 DEF Shape
  <2>3. CASE \E l : walker' = [walker EXCEPT !.at = l] /\ meta' = [meta EXCEPT !.walk = l]
    BY <1>1, <2>1, <2>3 DEF Shape
  <2>4. CASE \E B, l : walker' = [walker EXCEPT !.todo = B, !.next = l] /\ meta' = meta
    BY <1>1, <2>1, <2>4 DEF Shape
  <2> QED
    BY <2>1, <2>2, <2>3, <2>4
<1>9. CASE WalkBlock
  <2>1. /\ \E p, r, a : walker' = [walker EXCEPT !.pc = p, !.todo = r, !.at = a]
        /\ \E x : meta' = [meta EXCEPT !.walk = x]
        /\ past' = past \/ \E m : past' = [past EXCEPT !.missed = m]
    BY <1>9 DEF WalkBlock, WalkedTo
  <2>2. PICK p, r, a : walker' = [walker EXCEPT !.pc = p, !.todo = r, !.at = a]
    BY <2>1
  <2>3. PICK x : meta' = [meta EXCEPT !.walk = x]
    BY <2>1
  <2>4. past' = past \/ \E m : past' = [past EXCEPT !.missed = m]
    BY <2>1
  <2> QED
    BY <1>1, <2>2, <2>3, <2>4 DEF Shape
<1>10. CASE Finalize
  <2>1. /\ \E R : meta' = [pending |-> <<>>, walk |-> NoBlock, recoveries |-> R]
        /\ walker' = Quiet /\ past' = past
    BY <1>10 DEF Finalize, Completed
  <2> QED
    BY <1>1, <2>1 DEF Quiet, Shape
<1>11. CASE RunStops
  BY <1>1, <1>11 DEF RunStops, Quiet, Shape
<1> QED
  BY <1>2, <1>3, <1>4, <1>5, <1>6, <1>7, <1>8, <1>9, <1>10, <1>11 DEF GapNext

\* What the runs lost stays lost, and what was asked for or skipped stays so.
LEMMA FairOnce ==
    ASSUME Shape, [GapNext]_allvars, GapFair'
    PROVE  GapFair
<1> SUFFICES /\ past.missed \subseteq past'.missed /\ (past.diverted => past'.diverted)
             /\ past.skipped \subseteq past'.skipped /\ past.asked \subseteq past'.asked
  BY DEF GapFair
<1>1. past = [resets |-> past.resets, skipped |-> past.skipped, runs |-> past.runs,
              asked |-> past.asked, missed |-> past.missed, diverted |-> past.diverted]
  BY DEF Shape
<1>2. CASE past' = past
  BY <1>2
<1>3. CASE SinkReset
  <2>1. PICK s : past' = [past EXCEPT !.resets = @ + 1, !.skipped = @ \cup s]
    BY <1>3 DEF SinkReset
  <2> QED
    BY <1>1, <2>1
<1>4. CASE BeginRecovery
  <2>1. PICK explicit, w, from, bodies, lost :
             /\ meta' = [meta EXCEPT !.pending = w]
             /\ walker' = [Quiet EXCEPT !.pc = "walk", !.lo = w[1], !.hi = w[2],
                             !.stop = Max({processed, w[2]}), !.bodies = bodies, !.at = from]
             /\ past' = [past EXCEPT
                   !.runs = @ + 1,
                   !.asked = IF meta.pending = <<>> \/ explicit THEN @ \cup {w} ELSE @,
                   !.diverted = @ \/ (explicit /\ meta.pending \notin {<<>>, w}),
                   !.missed = IF meta.walk = NoBlock THEN @ \cup lost ELSE @]
    BY <1>4, BeginChanges
  <2>2. /\ past'.asked = (IF meta.pending = <<>> \/ explicit THEN past.asked \cup {w} ELSE past.asked)
        /\ past'.missed = (IF meta.walk = NoBlock THEN past.missed \cup lost ELSE past.missed)
        /\ past'.skipped = past.skipped
        /\ past'.diverted = (past.diverted \/ (explicit /\ meta.pending \notin {<<>>, w}))
    BY <1>1, <2>1
  <2> QED
    BY <2>2
<1>5. CASE WalkBlock
  <2>1. past' = past \/ \E m : past' = [past EXCEPT !.missed = @ \cup m]
    BY <1>5 DEF WalkBlock, WalkedTo
  <2>2. CASE \E m : past' = [past EXCEPT !.missed = @ \cup m]
    BY <1>1, <2>2
  <2> QED
    BY <1>2, <2>1, <2>2
<1>6. past' = past \/ SinkReset \/ BeginRecovery \/ WalkBlock
  BY DEF GapNext, IndexNext, TakeCopy, Restore, FetchBatch, WalkedTo, Finalize, Completed, RunStops, allvars, gvars
<1> QED
  BY <1>2, <1>3, <1>4, <1>5, <1>6

\* An index that was never filled is sound.
LEMMA InitSound == GapInit => Sound
<1> SUFFICES ASSUME GapInit PROVE Sound
  OBVIOUS
<1>1. /\ rows = {} /\ created = [c \in Coins |-> NoBlock] /\ spent = [c \in Coins |-> NoBlock]
      /\ summary = <<>> /\ batches = <<>> /\ nextSeq = 1 /\ cursor = NoBlock /\ processed = 0
      /\ meta = [pending |-> <<>>, walk |-> NoBlock, recoveries |-> {}]
      /\ walker.pc = "live" /\ past.skipped = {}
  BY DEF GapInit, StoreInit, Quiet
<1>2. ReachedNow = {}
  BY <1>1, OnChain DEF ReachedNow
<1>3. RowsSound /\ CoinsSound /\ FollowedTold
  BY <1>1, <1>2 DEF RowsSound, CoinsSound, FollowedTold, Followed
<1>4. TablePart
  BY <1>1, <1>3 DEF TablePart
<1>5. ChainPart /\ WindowPart /\ WalkPart
  BY <1>1 DEF ChainPart, WindowPart, WalkPart
<1>6. NumberPart
  <2>1. RowsAreRecords /\ SeqsUnique
    BY <1>1, FS_EmptySet DEF RowsAreRecords, SeqsUnique
  <2>2. SummaryTypes
    BY <1>1 DEF SummaryTypes
  <2> QED
    BY <1>1, <2>1, <2>2 DEF NumberPart
<1> QED
  BY <1>4, <1>5, <1>6 DEF Sound

\* Every step keeps the invariant.
LEMMA NextSound ==
    ASSUME GapInv, [GapNext]_allvars, OnTheChain'
    PROVE  GapInv'
<1>1. Shape /\ Shape'
  BY NextShape DEF GapInv
<1> SUFFICES ASSUME GapFair' PROVE Sound'
  BY <1>1 DEF GapInv
<1>2. GapFair /\ Sound
  BY <1>1, FairOnce DEF GapInv
<1>3. CASE UNCHANGED allvars
  <2>1. UNCHANGED <<storeVars, meta, past>> /\ meta'.pending = meta.pending /\ meta'.recoveries = meta.recoveries
    BY <1>3 DEF allvars, gvars
  <2>2. WindowPart'
    BY <1>2, <1>3 DEF Sound, WindowPart, allvars, gvars, storeVars, tables
  <2>3. WalkPart'
    <3>1. /\ rows' = rows /\ created' = created /\ spent' = spent /\ summary' = summary
          /\ processed' = processed /\ nextSeq' = nextSeq /\ past'.skipped = past.skipped
          /\ meta' = meta /\ walker' = walker
      BY <1>3 DEF allvars, gvars, storeVars, tables
    <3>2. \A S : WholeIn(S) => WholeIn(S)'
      BY <3>1, TablesAtRest
    <3>3. meta.walk # NoBlock => WholeIn(Path[meta.walk])'
      <4> PICK saved : saved = meta.walk
        OBVIOUS
      <4>1. saved # NoBlock => WholeIn(Path[saved])'
        BY <1>2, <3>2 DEF Sound, WalkPart
      <4> QED
        BY <3>1, <4>1
    <3>4. walker.pc = "walk" => WholeIn(Path[walker.at])'
      <4> PICK at : at = walker.at
        OBVIOUS
      <4>1. walker.pc = "walk" => WholeIn(Path[at])'
        BY <1>2, <3>2 DEF Sound, WalkPart
      <4> QED
        BY <3>1, <4>1
    <3>5. walker.pc = "walk" /\ walker.todo # {} => WholeIn(Path[walker.next] \ walker.todo)'
      <4> PICK n, left : n = walker.next /\ left = walker.todo
        OBVIOUS
      <4>1. walker.pc = "walk" /\ left # {} => WholeIn(Path[n] \ left)'
        BY <1>2, <3>2 DEF Sound, WalkPart
      <4> QED
        BY <3>1, <4>1
    <3>6. walker.pc = "finalize" \/ meta.recoveries # {} => WholeIn(Path[Sink])'
      BY <1>2, <3>2 DEF Sound, WalkPart
    <3> QED
      BY <1>2, <3>1, <3>3, <3>4, <3>5, <3>6 DEF Sound, WalkPart
  <2> QED
    BY <1>2, <2>1, <2>2, <2>3, RunnerKeeps
<1>4. CASE IndexNext
  BY <1>2, <1>4, IndexNextKeeps
<1>5. CASE SinkReset
  BY <1>1, <1>2, <1>5, SinkResetKeeps
<1>6. CASE TakeCopy
  <2>1. meta.pending = <<>>
    BY <1>2, <1>6 DEF Sound, WindowPart, TakeCopy
  <2> QED
    BY <1>2, <1>6, <2>1, PauseKeeps DEF TakeCopy, Quiet
<1>7. CASE Restore
  BY <1>2, <1>7, PauseKeeps DEF Restore, Quiet
<1>8. CASE RunStops
  <2>1. walker'.pc = "idle"
    BY <1>8 DEF RunStops, Quiet
  <2> QED
    BY <1>2, <1>8, <2>1, PauseKeeps DEF RunStops
<1>9. CASE BeginRecovery
  BY <1>1, <1>2, <1>9, BeginKeeps
<1>10. CASE FetchBatch
  BY <1>1, <1>2, <1>10, FetchKeeps
<1>11. CASE WalkBlock
  BY <1>1, <1>2, <1>11, WalkBlockKeeps
<1>12. CASE Finalize
  BY <1>2, <1>12, FinalizeKeeps
<1> QED
  BY <1>3, <1>4, <1>5, <1>6, <1>7, <1>8, <1>9, <1>10, <1>11, <1>12 DEF GapNext

-----------------------------------------------------------------------------
(* What it says of a healed index *)

\* A healed index that is sound is that of a follower that never skipped a block.
LEMMA HealedIsRestored ==
    ASSUME GapInv, Healed
    PROVE  /\ HeldEvents = TrueEvents
           /\ \A r, s \in rows : r.cov = s.cov /\ r.seq < s.seq => Daa[r.block] <= Daa[s.block]
           /\ \A v \in DOMAIN summary :
                /\ {r.seq : r \in RowsOf(v)} = 0..(summary[v].events - 1)
                /\ summary[v].complete <=> \E r \in RowsOf(v) : r.seq = 0 /\ r.kind = "genesis"
           /\ \A c \in Coins :
                /\ created[c] # NoBlock <=> \E b \in Reached : \E t \in AcceptedTxs(b) : c \in Outputs[t]
                /\ spent[c] # NoBlock <=> \E b \in Reached : \E t \in AcceptedTxs(b) : c \in Inputs[t]
<1>1. Sound /\ meta.pending = <<>> /\ meta.recoveries # {}
  BY DEF GapInv, GapFair, Healed
<1>2. /\ processed \in Nat /\ RowsSound /\ CoinsSound /\ NumberPart /\ WindowPart
      /\ \A b \in ReachedNow : Whole(b)
  BY <1>1 DEF Sound, TablePart, WalkPart, WholeIn, ReachedNow
<1>3. Reached = ReachedNow
  <2> DEFINE ends == {processed} \cup {w[2] : w \in meta.recoveries}
  <2>1. \A x \in ends : x \in Nat /\ x <= processed
    BY <1>2 DEF WindowPart
  <2>2. processed \in ends
    OBVIOUS
  <2> HIDE DEF ends
  <2>3. processed \in ends /\ \A y \in ends : processed >= y
    BY <1>2, <2>1, <2>2
  <2>4. Max(ends) \in ends /\ \A y \in ends : Max(ends) >= y
    BY <2>3 DEF Max
  <2>5. Max(ends) = processed
    <3> PICK m : m = Max(ends)
      OBVIOUS
    <3>1. m \in Nat /\ m <= processed /\ m >= processed
      BY <2>1, <2>3, <2>4
    <3> QED
      BY <1>2, <3>1
  <2> QED
    BY <2>5 DEF Reached, ReachedNow, ends
<1>4. ReachedNow \subseteq Path[Sink] /\ Path[Sink] \subseteq Blocks
  BY OnChain DEF ReachedNow
<1>5. \A b \in Blocks : \A i \in DOMAIN Accepted[b] : Tx(b, i) \in AcceptedTxs(b)
  BY Listed DEF Tx
<1>6. \A b \in Blocks : \A t \in AcceptedTxs(b) : \E i \in DOMAIN Accepted[b] : Tx(b, i) = t
  BY Listed DEF Tx
<1>7. ASSUME NEW b \in ReachedNow, NEW t \in AcceptedTxs(b), NEW v, Touches(t, v)
      PROVE  Told(t, v)
  BY <1>2, <1>7 DEF Touches, Covs, Whole, Shows
<1>8. ASSUME NEW x \in HeldEvents PROVE x \in TrueEvents
  <2>1. PICK r \in rows : x = [cov |-> r.cov, tx |-> r.tx, kind |-> r.kind]
    BY <1>8 DEF HeldEvents
  <2>2. PICK b \in ReachedNow : r.block = b /\ r.tx \in AcceptedTxs(b) /\ Touches(r.tx, r.cov)
                                /\ r.kind = TxKind(r.tx, r.cov)
    BY <1>2 DEF RowsSound
  <2>3. b \in Blocks /\ b \in Path[Sink]
    BY <1>4
  <2>4. PICK i \in DOMAIN Accepted[b] : Tx(b, i) = r.tx
    BY <1>6, <2>2, <2>3
  <2>5. r.kind = TrueKind(b, i, r.cov)
    BY <2>2, <2>3, <2>4, TrueKindIs
  <2>6. x = [cov |-> r.cov, tx |-> Tx(b, i), kind |-> TrueKind(b, i, r.cov)]
    BY <2>1, <2>4, <2>5
  <2>7. r.cov \in Covs(Inputs[Tx(b, i)] \cup Outputs[Tx(b, i)]) /\ b \in Reached
    BY <1>3, <2>2, <2>4 DEF Touches
  <2>8. x \in {[cov |-> v, tx |-> Tx(b, i), kind |-> TrueKind(b, i, v)] :
                v \in Covs(Inputs[Tx(b, i)] \cup Outputs[Tx(b, i)])}
    BY <2>6, <2>7
  <2>9. x \in UNION {{[cov |-> v, tx |-> Tx(b, j), kind |-> TrueKind(b, j, v)] :
                     v \in Covs(Inputs[Tx(b, j)] \cup Outputs[Tx(b, j)])}
                    : j \in DOMAIN Accepted[b]}
    BY <2>4, <2>8
  <2> QED
    BY <2>7, <2>9 DEF TrueEvents
<1>9. ASSUME NEW x \in TrueEvents PROVE x \in HeldEvents
  <2>1. PICK b \in Reached : x \in UNION {{[cov |-> v, tx |-> Tx(b, i), kind |-> TrueKind(b, i, v)] :
                     v \in Covs(Inputs[Tx(b, i)] \cup Outputs[Tx(b, i)])}
                    : i \in DOMAIN Accepted[b]}
    BY <1>9 DEF TrueEvents
  <2>2. PICK i \in DOMAIN Accepted[b] : x \in {[cov |-> v, tx |-> Tx(b, i), kind |-> TrueKind(b, i, v)] :
                     v \in Covs(Inputs[Tx(b, i)] \cup Outputs[Tx(b, i)])}
    BY <2>1
  <2>3. PICK v \in Covs(Inputs[Tx(b, i)] \cup Outputs[Tx(b, i)]) :
            x = [cov |-> v, tx |-> Tx(b, i), kind |-> TrueKind(b, i, v)]
    BY <2>2
  <2>4. b \in ReachedNow /\ b \in Path[Sink] /\ b \in Blocks /\ Tx(b, i) \in AcceptedTxs(b)
    BY <1>3, <1>4, <1>5
  <2>5. Told(Tx(b, i), v)
    BY <1>7, <2>3, <2>4 DEF Touches
  <2>6. PICK r \in rows : r.tx = Tx(b, i) /\ r.cov = v
    BY <2>5 DEF Told
  <2>7. r.kind = TrueKind(b, i, v)
    BY <1>2, <2>4, <2>6, TrueKindIs DEF RowsSound
  <2> QED
    BY <2>3, <2>6, <2>7 DEF HeldEvents
<1>10. HeldEvents = TrueEvents
  BY <1>8, <1>9
<1>11. \A v \in DOMAIN summary : Tidy(v)
  BY <1>1, <1>2 DEF NumberPart
<1>12. ASSUME NEW r \in rows, NEW s \in rows, r.cov = s.cov, r.seq < s.seq
       PROVE  Daa[r.block] <= Daa[s.block]
  <2>1. r.cov \in DOMAIN summary /\ r \in RowsOf(r.cov) /\ s \in RowsOf(r.cov)
    BY <1>2, <1>12 DEF NumberPart, SummaryTypes, RowsOf
  <2>2. Tidy(r.cov)
    BY <1>11, <2>1
  <2> QED
    BY <1>12, <2>1, <2>2 DEF Tidy
<1>13. ASSUME NEW v \in DOMAIN summary
       PROVE  /\ {r.seq : r \in RowsOf(v)} = 0..(summary[v].events - 1)
              /\ summary[v].complete <=> \E r \in RowsOf(v) : r.seq = 0 /\ r.kind = "genesis"
  <2>1. Tidy(v)
    BY <1>11
  <2> QED
    BY ONLY <2>1 DEF Tidy
<1>14. ASSUME NEW c \in Coins
       PROVE  /\ created[c] # NoBlock <=> \E b \in Reached : \E t \in AcceptedTxs(b) : c \in Outputs[t]
              /\ spent[c] # NoBlock <=> \E b \in Reached : \E t \in AcceptedTxs(b) : c \in Inputs[t]
  BY <1>2, <1>3 DEF CoinsSound, Whole, Shows
<1> QED
  BY <1>10, <1>12, <1>13, <1>14

\* Every history that recover_gap ends is that of an index that never skipped a block,
\* however often runs were stopped and started and whatever they were asked for: as
\* long as no block of a branch that died was applied.
THEOREM RecoveryRestoresHistory ==
    GapSpec /\ []OnTheChain => []HistoryRestored
<1>1. GapInit => GapInv
  BY InitShape, InitSound DEF GapInv
<1>2. GapInv /\ [GapNext]_allvars /\ OnTheChain' => GapInv'
  BY NextSound
<1>3. GapInv => HistoryRestored
  BY HealedIsRestored DEF HistoryRestored
<1> QED
  BY <1>1, <1>2, <1>3, PTL DEF GapSpec
================================================================================
