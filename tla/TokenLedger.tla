------------------------------ MODULE TokenLedger ------------------------------
(***************************************************************************)
(* KCC20 token accounting: what tokens.rs derives about one token from the *)
(* accepted transactions that touched it, and what market.rs publishes     *)
(* about the covenant it trades against.                                   *)
(*                                                                         *)
(* txs is the accepted history of the token covenant.  A transaction       *)
(* consumes cells, creates cells and may move the KAS of the market        *)
(* covenant.  The true state of a cell is in outs; the indexer sees it     *)
(* only when it is proven (a bare script, a spend that reveals the         *)
(* program, or a sigscript that carries the fields).  row and program are  *)
(* the stored rows; every accepted or removed transaction is followed by   *)
(* the projection that re-derives them.                                    *)
(***************************************************************************)
EXTENDS Integers, Sequences, FiniteSets

CONSTANTS
    Shapes,       \* transactions but for their inputs: [outs, form, sigs, args, kas, co, at],
                  \* where a cell state in outs is [type, id, amount, minter] and at the time of
                  \* the accepting block, NoTime in a row from before times were kept
    Worlds,       \* [lineage, runs, minter]: was the genesis seen, which program the market
                  \* covenant runs (see MatchProgram), and does the minter covenant move
    Market,       \* the identifier of the market covenant
    Quantum,      \* KAS_QUANTUM_SOMPI, and the unit of a program's vkas
    GrowthPpm,    \* INVARIANT_MAX_GROWTH_PPM
    MinExercised, \* MIN_EXERCISED_TRADES
    MinQuote,     \* MIN_PRICEABLE_QUOTE_SOMPI
    BucketTime,   \* width of a candle
    MaxInt,       \* i64::MAX
    MaxTxs,       \* bound: transactions in the history
    MaxIns,       \* bound: token inputs of a transaction
    MaxPinTxs     \* bound: history length up to which the minter covenant moves

\* Amounts are a program's integers; the KAS of a covenant is what its outputs
\* hold.
ASSUME LedgerAssumption ==
    \A s \in Shapes :
        /\ s.kas \in Nat
        /\ IsFiniteSet(DOMAIN s.outs) /\ \A k \in DOMAIN s.outs : s.outs[k].amount \in Int

VARIABLES
    txs,      \* accepted transactions of the token covenant, by seq
    world,    \* a member of Worlds
    vault,    \* what the cells of the minter covenant reveal: it pins the token or not
    pinned,   \* the token_minters row
    queued,   \* covenants with projection work: "token", "minter"
    row,      \* the tokens row with its event, balance and trade rows
    program   \* the market_programs row

lvars == <<txs, world, vault, pinned, queued, row, program>>

None == "none"
NoTime == -1
Pin == {"pins", "silent"}
-----------------------------------------------------------------------------
(* Cells: covenant_utxos rows of the token. *)

Outs(h, i) == {<<i, k>> : k \in DOMAIN h[i].outs}

LoadCells(h) == UNION {Outs(h, i) : i \in DOMAIN h}

StateOf(h, c) == h[c[1]].outs[c[2]]

FormOf(h, c) == h[c[1]].form

LiveCells(h) == {c \in LoadCells(h) : \A j \in DOMAIN h : c \notin h[j].ins}

\* The spend was seen with its signature script, and so opens the commitment.
Opened(h, c) == \E j \in DOMAIN h : c \in h[j].ins /\ h[j].sigs = "kept"

ProveDirect(h) ==
    {c \in LoadCells(h) : \/ FormOf(h, c) = "bare"
                          \/ FormOf(h, c) = "p2sh" /\ Opened(h, c)}

\* Mutant form: recovery gives up on a cell whose spend was not captured.
CarriedLive(h, c) ==
    /\ FormOf(h, c) = "p2sh"
    /\ \/ h[c[1]].args = "foreign"
       \/ h[c[1]].args = "own" /\ h[c[1]].sigs = "kept" /\ h[c[1]].ins # {}
    /\ c \in LiveCells(h)
    /\ StateOf(h, c).type \in 0..3 /\ StateOf(h, c).minter \in {0, 1}

\* A captured sigscript of the creating transaction (its own or that of a
\* co-spent covenant) carries owner and amount; type and minter are tried.
Carried(h, c) ==
    /\ FormOf(h, c) = "p2sh"
    /\ \/ h[c[1]].args = "foreign"
       \/ h[c[1]].args = "own" /\ h[c[1]].sigs = "kept" /\ h[c[1]].ins # {}
    /\ StateOf(h, c).type \in 0..3 /\ StateOf(h, c).minter \in {0, 1}

\* A proven program among the inputs and the sibling outputs to splice into.
HasBase(h, S, i) == S \cap (h[i].ins \cup Outs(h, i)) # {}

\* prove_recovered: repeated until nothing changes.
Proven(h) ==
    LET reach[n \in 0..Len(h)] ==
          IF n = 0 THEN ProveDirect(h)
          ELSE LET S == reach[n - 1]
               IN  S \cup {c \in LoadCells(h) : Carried(h, c) /\ HasBase(h, S, c[1])}
    IN  reach[Len(h)]

Judged(h, P, c) ==
    /\ c \in P
    /\ StateOf(h, c).type \in 0..3
    /\ StateOf(h, c).amount \in 0..MaxInt
    /\ StateOf(h, c).minter \in {0, 1}

\* The sum of f over a finite part of its domain.
Total(f, S) ==
    LET add[s \in SUBSET DOMAIN f] ==
          IF s = {} THEN 0 ELSE LET x == CHOOSE y \in s : TRUE IN f[x] + add[s \ {x}]
    IN  add[S]

Amounts(h) == [c \in LoadCells(h) |-> StateOf(h, c).amount]

Sum(h, S) == Total(Amounts(h), S)

OwnerOf(h, c) == <<StateOf(h, c).type, StateOf(h, c).id>>

Owned(h, S, o) == {c \in S : OwnerOf(h, c) = o}

HasMinter(h, S) == \E c \in S : StateOf(h, c).minter = 1
-----------------------------------------------------------------------------
(* Classification of one event, and the verdict over all of them. *)

\* covenant_events.kind: the first event is a genesis when the lineage is whole.
EventKind(h, w, i) == IF i = 1 /\ w.lineage = "complete" THEN "genesis" ELSE "transition"

SidesJudged(h, P, i) == \A c \in h[i].ins \cup Outs(h, i) : Judged(h, P, c)

ClassifyRow(h, w, P, i) ==
    LET isum == Sum(h, h[i].ins)
        osum == Sum(h, Outs(h, i))
    IN  IF ~SidesJudged(h, P, i) THEN "unknown"
        ELSE IF h[i].ins = {} THEN IF EventKind(h, w, i) = "genesis" THEN "genesis" ELSE "unknown"
        ELSE IF h[i].outs = <<>> \/ osum < isum THEN "burn"
        ELSE IF osum > isum THEN "mint"
        ELSE IF Cardinality(h[i].ins) > 1 THEN "merge"
        ELSE IF Len(h[i].outs) > 1 THEN "split" ELSE "transfer"

\* A hash-proven violation: a minter or a changed sum without a minter input.
BreaksRule(h, i) ==
    /\ h[i].ins # {} /\ h[i].outs # <<>>
    /\ ~HasMinter(h, h[i].ins)
    /\ HasMinter(h, Outs(h, i)) \/ Sum(h, Outs(h, i)) # Sum(h, h[i].ins)

\* Mutant form: a terminal burn without a minter counts as a violation.
FlagBurns(h, w, P, i) ==
    IF ClassifyRow(h, w, P, i) = "unknown" THEN "unvalidated"
    ELSE IF BreaksRule(h, i) THEN "invalid"
    ELSE IF h[i].outs = <<>> /\ ~HasMinter(h, h[i].ins) /\ Sum(h, h[i].ins) > 0 THEN "invalid"
    ELSE "clean"

Flag(h, w, P, i) ==
    IF ClassifyRow(h, w, P, i) = "unknown" THEN "unvalidated"
    ELSE IF BreaksRule(h, i) THEN "invalid"
    ELSE IF h[i].outs = <<>> /\ ~HasMinter(h, h[i].ins) /\ Sum(h, h[i].ins) > 0 THEN "unvalidated"
    ELSE "clean"

\* Amount by which the event changed the supply; 0 when it is not understood.
SupplyDelta(h, w, P, i) ==
    IF ClassifyRow(h, w, P, i) = "unknown" THEN 0
    ELSE Sum(h, Outs(h, i)) - Sum(h, h[i].ins)

Frontier(h, P) == {c \in LiveCells(h) : Judged(h, P, c)}

HeldBy(h, S, types) == Sum(h, {c \in S : StateOf(h, c).type \in types})

Balance(h, S, o) == Sum(h, Owned(h, S, o))
-----------------------------------------------------------------------------
(* Trades: the token moved against the inventory of exactly one covenant,  *)
(* and that covenant's KAS moved the other way in the same transaction.    *)

KasBefore(h, i) == IF i = 1 THEN 0 ELSE h[i - 1].kas

Owners(h, i) == {OwnerOf(h, c) : c \in h[i].ins \cup Outs(h, i)}

Delta(h, i, o) == Balance(h, Outs(h, i), o) - Balance(h, h[i].ins, o)

Movers(h, i) == {o \in Owners(h, i) : o[1] = 2 /\ Delta(h, i, o) # 0}

KasDelta(h, i, o) == IF o[2] = Market THEN h[i].kas - KasBefore(h, i) ELSE 0

Abs(n) == IF n < 0 THEN -n ELSE n

IsTrade(h, P, i) ==
    /\ SidesJudged(h, P, i)
    /\ Cardinality(Movers(h, i)) = 1
    /\ \E o \in Movers(h, i) :
         /\ KasDelta(h, i, o) # 0
         /\ (KasDelta(h, i, o) > 0) = (Delta(h, i, o) < 0)
         /\ \A S \in {h[i].ins, Outs(h, i)} : Balance(h, S, o) <= MaxInt

\* Takers on the other side; the counterparty is stored when there is one.
Takers(h, i, o) ==
    {x \in Owners(h, i) : /\ x[1] # 2 /\ Delta(h, i, x) # 0
                          /\ (Delta(h, i, x) > 0) # (Delta(h, i, o) > 0)}

ExtractTrade(h, i) ==
    LET o == CHOOSE x \in Movers(h, i) : TRUE
    IN  [seq |-> i, market |-> o[2],
         side |-> IF KasDelta(h, i, o) > 0 THEN "buy" ELSE "sell",
         base |-> Abs(Delta(h, i, o)), quote |-> Abs(KasDelta(h, i, o)),
         k0 |-> KasBefore(h, i), k1 |-> h[i].kas,
         b0 |-> Balance(h, h[i].ins, o), b1 |-> Balance(h, Outs(h, i), o),
         co |-> h[i].co, at |-> h[i].at,
         taker |-> IF Cardinality(Takers(h, i, o)) = 1
                   THEN CHOOSE x \in Takers(h, i, o) : TRUE ELSE None]

Trades(h, P) == {ExtractTrade(h, i) : i \in {j \in DOMAIN h : IsTrade(h, P, j)}}
-----------------------------------------------------------------------------
(* The market program: constants read out of revealed bytes, then replayed. *)

Agreed(sites) == Cardinality({sites[i] : i \in DOMAIN sites}) = 1

\* A program is [shape, vkas, creator, len, selfLen, names]: shape names the
\* audited build whose bytes it equals outside the slots, or "other".
MatchProgram(p) ==
    /\ p.shape \in {"curve", "pool"}
    /\ Agreed(p.creator)
    /\ p.shape = "curve" => /\ Agreed(p.vkas)
                            /\ \A i \in DOMAIN p.selfLen : p.selfLen[i] = p.len

VKas(p) == IF p.shape = "curve" THEN p.vkas[1] * Quantum ELSE 0

\* bracket and growth fee, in basis points of the quote
FeeModel(p) == IF p.shape = "curve" THEN <<0, 125>> ELSE <<20, 20>>

BracketAt(p, t, fee) ==
    LET V == VKas(p)
        q == Quantum + (t.quote * fee) \div 10000
        buy == t.side = "buy"
        lo == IF buy THEN V + t.k0 - q ELSE V + t.k1 - q
        hi == IF buy THEN V + t.k1 + q ELSE V + t.k0 + q
    IN  /\ t.base > 0 /\ t.quote > 0 /\ t.b0 > 0 /\ t.b1 > 0
        /\ lo * t.base <= t.quote * (IF buy THEN t.b0 ELSE t.b1)
        /\ t.quote * (IF buy THEN t.b1 ELSE t.b0) <= hi * t.base
BracketHolds(p, t) == BracketAt(p, t, FeeModel(p)[1])

InvariantHolds(p, t) ==
    LET before == (VKas(p) + t.k0) * t.b0
        growth == (VKas(p) + t.k1) * t.b1 - before
        fee == FeeModel(p)[2]
        big == IF t.b0 > t.b1 THEN t.b0 ELSE t.b1
    IN  /\ growth >= 0
        /\ IF fee = 0 THEN growth * 1000000 <= before * GrowthPpm
           ELSE growth <= ((t.quote * fee) \div 10000 + Quantum) * big

Priceable(p, t) == t.co = 0 /\ BracketHolds(p, t)

Replayed(p, T) == {t \in T : t.market = Market /\ Priceable(p, t)}

Violating(p, T) == {t \in Replayed(p, T) : ~InvariantHolds(p, t)}

\* The replay stops at the first violation.
Exercised(p, T) ==
    Cardinality({t \in Replayed(p, T) : \A v \in Violating(p, T) : t.seq < v.seq})

\* The market covenant was spent with a captured signature script.
Revealed(h) == \E i \in DOMAIN h : h[i].kas # KasBefore(h, i) /\ h[i].sigs = "kept" /\ i > 1

\* Mutant form: a program that matched once is never replayed again.
SkipsKnown(h, w, T, old) ==
    IF ~Revealed(h) \/ old.exercised >= MinExercised THEN old
    ELSE IF ~MatchProgram(w.runs) THEN [skeleton |-> "unmatched", ok |-> FALSE, exercised |-> 0]
    ELSE [skeleton |-> w.runs.shape, ok |-> Violating(w.runs, T) = {},
          exercised |-> Exercised(w.runs, T)]

UnmatchedRow == [skeleton |-> "unmatched", ok |-> FALSE, exercised |-> 0]
\* The program is judged by the trades of the token it names.
ReplayedRow(p, T) ==
    LET named == IF p.names = "token" THEN T ELSE {}
    IN  [skeleton |-> p.shape, ok |-> Violating(p, named) = {}, exercised |-> Exercised(p, named)]

\* derive_market_program: without a reveal the stored row stays as it is.
DeriveMarketProgram(h, w, T, old) ==
    IF ~Revealed(h) THEN old
    ELSE IF ~MatchProgram(w.runs) THEN UnmatchedRow ELSE ReplayedRow(w.runs, T)
-----------------------------------------------------------------------------
(* derive_token: the whole derived state of the token. *)

NoRow == [status |-> "absent"]

Placeholder == [status |-> "unvalidated", kinds |-> <<>>, supply |-> None, held |-> None,
                unresolved |-> 0, market |-> None, trades |-> {}]

CovenantHolders(h, F) ==
    {o[2] : o \in {x \in {OwnerOf(h, c) : c \in F} : x[1] = 2 /\ Balance(h, F, x) # 0}}

\* Several holders are told apart by their programs, judged while the trade
\* rows of the token are deleted.
JudgedAlone(h, w, F, old) ==
    IF Cardinality(CovenantHolders(h, F)) > 1 /\ Market \in CovenantHolders(h, F)
    THEN DeriveMarketProgram(h, w, {}, old) ELSE old

MarketLink(h, w, F, old) ==
    LET covs == CovenantHolders(h, F)
    IN  CASE Cardinality(covs) = 1 -> CHOOSE c \in covs : TRUE
          [] /\ Cardinality(covs) > 1 /\ Market \in covs
             /\ JudgedAlone(h, w, F, old).skeleton \in {"curve", "pool"} -> Market
          [] OTHER -> None

\* Mutant form: published as soon as no rule was broken.
ProvableIfValid(h, w, P) == \A i \in DOMAIN h : Flag(h, w, P, i) # "invalid"

Provable(h, w, P) ==
    /\ \A i \in DOMAIN h : Flag(h, w, P, i) = "clean"
    /\ w.lineage = "complete"

\* What the history of a token with proven evidence says of it.
Account(h, w) ==
    LET P == Proven(h)
        F == Frontier(h, P)
        unresolved == LiveCells(h) \ F
        deltas == [i \in DOMAIN h |-> SupplyDelta(h, w, P, i)]
        supply == Total(deltas, DOMAIN h)
        minted == Total(deltas, {i \in DOMAIN h : i > 1 /\ deltas[i] > 0})
        burned == -Total(deltas, {i \in DOMAIN h : deltas[i] < 0})
        fits == supply >= 0 /\ \A n \in {supply, minted, burned} : n <= MaxInt
        audited == Sum(h, F) = supply /\ unresolved = {}
        split == <<HeldBy(h, F, {2}), HeldBy(h, F, {0, 3}), HeldBy(h, F, {1})>>
        shown == Provable(h, w, P) /\ fits /\ audited
    IN  [status |-> IF \E i \in DOMAIN h : Flag(h, w, P, i) = "invalid" THEN "invalid"
                    ELSE IF shown THEN "verified" ELSE "unvalidated",
         kinds |-> [i \in DOMAIN h |-> ClassifyRow(h, w, P, i)],
         supply |-> IF shown THEN <<supply, minted, burned>> ELSE None,
         held |-> IF shown THEN split ELSE None,
         unresolved |-> Cardinality(unresolved),
         trades |-> Trades(h, P)]

DeriveToken(h, w, pin, old) ==
    LET a == Account(h, w)
    IN  IF ProveDirect(h) = {} THEN IF pin = "pins" THEN Placeholder ELSE NoRow
        ELSE [status |-> a.status, kinds |-> a.kinds, supply |-> a.supply, held |-> a.held,
              unresolved |-> a.unresolved, market |-> MarketLink(h, w, Frontier(h, Proven(h)), old),
              trades |-> a.trades]

\* Mutant form: only the tokens pinned now are re-derived.
PinnedNow(old, new) == new = "pins"

\* derive_minter: tokens linked before or after are re-derived.
Affected(old, new) == old = "pins" \/ new = "pins"

\* is_token or has_token_evidence
IsToken == row.status # "absent" \/ ProveDirect(txs) # {}

\* rederive_affected: the token rows first, then the market they link to.
Rederive(pin) ==
    /\ row' = DeriveToken(txs, world, pin, program)
    /\ program' =
         LET F == Frontier(txs, Proven(txs))
             alone == IF ProveDirect(txs) = {} THEN program
                      ELSE JudgedAlone(txs, world, F, program)
         IN  IF row'.status = "absent" \/ row'.market # Market THEN alone
             ELSE DeriveMarketProgram(txs, world, row'.trades, alone)
-----------------------------------------------------------------------------
LedgerInit ==
    /\ txs = <<>>
    /\ world \in Worlds
    /\ vault = "silent" /\ pinned = "silent" /\ queued = {}
    /\ row = NoRow
    /\ program = [skeleton |-> None, ok |-> FALSE, exercised |-> 0]

\* The chain accepts a transaction of the token covenant.  What one drained
\* chunk covers does not matter to a derivation that starts from scratch, so
\* one change at a time is left unprojected.
Accept ==
    /\ Len(txs) < MaxTxs /\ "token" \notin queued
    /\ \E s \in Shapes, ins \in SUBSET LiveCells(txs) :
         /\ Cardinality(ins) <= MaxIns
         /\ txs = <<>> <=> ins = {}
         /\ txs = <<>> => s.outs # <<>>
         /\ txs' = Append(txs, [ins |-> ins, outs |-> s.outs, form |-> s.form, sigs |-> s.sigs,
                               args |-> s.args, kas |-> s.kas, co |-> s.co, at |-> s.at])
    /\ queued' = queued \cup {"token"}
    /\ UNCHANGED <<world, vault, pinned, row, program>>

\* A reorganisation removes the newest transactions.
RollBackTxs ==
    /\ "token" \notin queued
    /\ \E n \in 0..Len(txs) - 1 : txs' = SubSeq(txs, 1, n)
    /\ queued' = queued \cup {"token"}
    /\ UNCHANGED <<world, vault, pinned, row, program>>

\* The minter covenant reveals a pin, or the reveal is rolled back.
MinterEvent ==
    /\ world.minter = "moves" /\ Len(txs) <= MaxPinTxs /\ "minter" \notin queued
    /\ vault' \in Pin \ {vault}
    /\ queued' = queued \cup {"minter"}
    /\ UNCHANGED <<txs, world, pinned, row, program>>

\* drain_optional_projection_chunk
Drain ==
    LET pin == IF "minter" \in queued THEN vault ELSE pinned
    IN  /\ queued # {}
        /\ queued' = {}
        /\ pinned' = pin
        /\ IF \/ "token" \in queued /\ IsToken
              \/ "minter" \in queued /\ Affected(pinned, vault)
           THEN Rederive(pin)
           ELSE UNCHANGED <<row, program>>
        /\ UNCHANGED <<txs, world, vault>>

LedgerNext == Accept \/ RollBackTxs \/ MinterEvent \/ Drain

LedgerSpec == LedgerInit /\ [][LedgerNext]_lvars
-----------------------------------------------------------------------------
(* What the API publishes: market_summary. *)

Publishable == {t \in row.trades : t.market = Market /\ Priceable(world.runs, t)}

Gated ==
    /\ row.status # "absent" /\ row.market = Market
    /\ program.skeleton \in {"curve", "pool"}
    /\ program.ok
    /\ program.exercised >= MinExercised

PublishesPrice == Gated /\ \E t \in Publishable : t.quote >= MinQuote
-----------------------------------------------------------------------------
(* token_candles restates the gates of market_summary and adds its own.    *)

\* The bracket fee is a table of its own here; a shape it lacks has no candles.
CandleFee == [curve |-> 0, pool |-> 20]

\* Mutant form: the gates stop at the formula.
GatesButReplay ==
    /\ row.status = "verified" /\ row.market = Market
    /\ program.skeleton \in DOMAIN CandleFee /\ program.ok
    /\ \A t \in row.trades : t.at # NoTime
CandleGates ==
    /\ row.status = "verified" /\ row.market = Market
    /\ program.skeleton \in DOMAIN CandleFee /\ program.ok
    /\ program.exercised >= MinExercised
    /\ \A t \in row.trades : t.at # NoTime

Charted ==
    IF ~CandleGates THEN {}
    ELSE {t \in row.trades : /\ t.co = 0 /\ t.market = Market /\ t.quote >= MinQuote
                             /\ BracketAt(world.runs, t, CandleFee[program.skeleton])}

\* Prices are compared as fractions.
PriceLess(a, b) == a.quote * b.base < b.quote * a.base

BucketOf(t) == t.at \div BucketTime

Started(t) == [open |-> t, high |-> t, low |-> t, close |-> t, volume |-> t.quote, count |-> 1]
Widened(c, t) ==
    [open |-> c.open, high |-> IF PriceLess(c.high, t) THEN t ELSE c.high,
     low |-> IF PriceLess(t, c.low) THEN t ELSE c.low, close |-> t,
     volume |-> c.volume + t.quote, count |-> c.count + 1]

\* bucket -> candle, the trades taken in the order of the chain.
Candles ==
    LET upTo[n \in 0..MaxTxs] ==
          IF n = 0 THEN <<>>
          ELSE LET so == upTo[n - 1]
                   new == {t \in Charted : t.seq = n}
                   now == {BucketOf(t) : t \in new}
               IN  [b \in DOMAIN so \cup now |->
                      IF b \notin now THEN so[b]
                      ELSE LET t == CHOOSE x \in new : TRUE
                           IN  IF b \in DOMAIN so THEN Widened(so[b], t) ELSE Started(t)]
    IN  upTo[MaxTxs]

-----------------------------------------------------------------------------
Settled == queued = {}

\* The stored rows are what a fresh derivation of the accepted history and of
\* the pins gives, whatever was accepted, removed and drained in between
\* (rederive_affected with derive_minter, drain_optional_projection_chunk).
RowIsCurrent ==
    Settled =>
      LET fresh == DeriveToken(txs, world, vault, program)
      IN  /\ row.status = fresh.status
          /\ row.status # "absent" => /\ row.kinds = fresh.kinds
                                      /\ row.supply = fresh.supply

\* "Never a false verified": a verified token has the supply that its cells
\* really hold, proven or not, every step of its history kept the rule, and
\* the split by owner type adds up to the supply (derive_token's final audit).
VerifiedIsTrue ==
    Settled /\ row.status = "verified" =>
      /\ row.supply[1] = Sum(txs, LiveCells(txs))
      /\ row.held[1] + row.held[2] + row.held[3] = row.supply[1]
      /\ \A i \in DOMAIN txs : ~BreaksRule(txs, i)
      /\ world.lineage = "complete"

\* A token is called invalid only for a violation that happened.
InvalidIsProven ==
    Settled /\ row.status = "invalid" =>
      \E i \in DOMAIN txs : BreaksRule(txs, i)

\* No verdict is given on less than the chain holds, in either direction.
VerdictsProven == VerifiedIsTrue /\ InvalidIsProven

\* Every trade on the accepted chain was seen with its signature script; rows
\* from before the index stored them lack it.
TradesCaptured == \A t \in row.trades : txs[t.seq].sigs = "kept"

\* A price is published only on the strength of trades that are still on the
\* accepted chain, none of which contradicts the program, and only for a
\* program that agrees with itself (market_summary over market_programs,
\* which no rollback rewrites by itself).
PriceRestsOnReplay ==
    Settled /\ PublishesPrice /\ world.runs.names = "token" /\ TradesCaptured =>
      LET T == Replayed(world.runs, Trades(txs, Proven(txs)))
      IN  /\ Cardinality(T) >= MinExercised
          /\ \A t \in T : InvariantHolds(world.runs, t)
          /\ world.runs.shape = "curve" => Agreed(world.runs.vkas)

\* Nothing is charted that the summary would refuse to price: a candle is made
\* of trades that are on the accepted chain now, where the program replays
\* them, every one of them in the candle of its time and inside its range, and
\* the candles' counts add up to the trades (token_candles,
\* candle_buckets: "nothing here may admit a trade the summary would refuse").
CandlesRestOnReplay ==
    Settled /\ Charted # {} /\ world.runs.names = "token" /\ TradesCaptured =>
      /\ PublishesPrice
      /\ Charted \subseteq Replayed(world.runs, Trades(txs, Proven(txs)))
      /\ \A t \in Charted :
           LET c == Candles[BucketOf(t)]
           IN  /\ ~PriceLess(t, c.low) /\ ~PriceLess(c.high, t)
               /\ c.open.seq <= t.seq /\ t.seq <= c.close.seq
      /\ Total([b \in DOMAIN Candles |-> Candles[b].count], DOMAIN Candles) = Cardinality(Charted)

\* Learning never rewrites: accepting more transactions may explain an event
\* that was unknown, and never changes the kind of one that was understood
\* (spend-time reveals and witness recovery, prove_direct and prove_recovered).
KnownKindsStay ==
    [][Len(txs') > Len(txs) =>
         LET P == Proven(txs)
             Q == Proven(txs')
         IN  \A i \in DOMAIN txs :
               LET kind == ClassifyRow(txs, world, P, i)
               IN  kind # "unknown" => ClassifyRow(txs', world, Q, i) = kind]_lvars
================================================================================
