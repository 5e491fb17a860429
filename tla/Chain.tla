-------------------------------- MODULE Chain --------------------------------
(***************************************************************************)
(* The node's view of the block DAG, as the indexer sees it through        *)
(* ChainSource: a tree of chain blocks (every block has one selected       *)
(* parent) and, for each block, the list of transactions it accepts.  The  *)
(* tree is given by Path, the selected chain from the root up to a block,  *)
(* so that no recursion is needed to walk it.  Covenant outputs are Coins. *)
(***************************************************************************)
EXTENDS Integers, Sequences, FiniteSets

CONSTANTS
    Blocks,         \* chain blocks, on every branch
    NoBlock,        \* an absent block hash (a NULL column, a missing cursor)
    Path,           \* block -> blocks of its selected chain, itself included
    Daa,            \* block -> DAA score
    Weight,         \* block -> blue work, which decides what the sink may become
    Txs,            \* transactions that may touch a covenant
    Accepted,       \* block -> sequence of the transactions it accepts
    Coins,          \* covenant outputs
    Covenants,      \* covenant ids, ordered like the 32-byte ids
    Inputs,         \* transaction -> coins it spends
    Outputs,        \* transaction -> coins it creates
    CovenantOf,     \* coin -> covenant id bound to it
    ProvesGenesis,  \* transaction -> covenants whose id recomputes from it
    AppTxs          \* transactions carrying an application envelope

\* The node's tree: chains are prefix closed and linear, DAA scores and blue
\* work grow along a chain.
ASSUME TreeAssumption ==
    /\ NoBlock \notin Blocks
    /\ Path \in [Blocks -> SUBSET Blocks]
    /\ Daa \in [Blocks -> Nat \ {0}]
    /\ Weight \in [Blocks -> Nat]
    /\ \A b \in Blocks : b \in Path[b]
    /\ \A b \in Blocks : \A a \in Path[b] :
          /\ Path[a] \subseteq Path[b]
          /\ a # b => Daa[a] < Daa[b] /\ Weight[a] < Weight[b]
    /\ \A b \in Blocks : \A a, c \in Path[b] : a \in Path[c] \/ c \in Path[a]

ASSUME DataAssumption ==
    /\ Accepted \in [Blocks -> Seq(Txs)]
    /\ Covenants \subseteq Nat
    /\ Inputs \in [Txs -> SUBSET Coins]
    /\ Outputs \in [Txs -> SUBSET Coins]
    /\ CovenantOf \in [Coins -> Covenants]
    /\ ProvesGenesis \in [Txs -> SUBSET Covenants]
    /\ AppTxs \subseteq Txs
    /\ IsFiniteSet(Covenants)

AcceptedTxs(b) == {Accepted[b][i] : i \in DOMAIN Accepted[b]}

\* Consensus: along one chain a transaction is accepted once, a coin has one
\* creator, is spent once, and never before it was created (nor by a transaction
\* listed before its creator in the same block).
ASSUME ConsensusAssumption ==
    /\ \A t, u \in Txs : t # u => Outputs[t] \cap Outputs[u] = {}
    /\ \A b \in Blocks : \A i, j \in DOMAIN Accepted[b] :
          /\ i # j => /\ Accepted[b][i] # Accepted[b][j]
                      /\ Inputs[Accepted[b][i]] \cap Inputs[Accepted[b][j]] = {}
          /\ i <= j => Inputs[Accepted[b][i]] \cap Outputs[Accepted[b][j]] = {}
    /\ \A b \in Blocks : \A a \in Path[b] \ {b} :
          /\ AcceptedTxs(a) \cap AcceptedTxs(b) = {}
          /\ \A t \in AcceptedTxs(a), u \in AcceptedTxs(b) :
                Inputs[t] \cap Inputs[u] = {} /\ Inputs[t] \cap Outputs[u] = {}

-----------------------------------------------------------------------------
(* get_virtual_chain_from_block, answered truthfully for a given sink *)

RemovedFrom(cursor, sink) == Path[cursor] \ Path[sink]
AddedFrom(cursor, sink) == Path[sink] \ Path[cursor]

\* The next block of a chain segment in the order the node lists it.
First(b, segment) == b \in segment /\ \A x \in segment : b \in Path[x]

=============================================================================
