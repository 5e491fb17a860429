---------------------------------- MODULE Lab ----------------------------------
(***************************************************************************)
(* The lab's transaction builders (kascov-labkit) and the custodial deploy *)
(* endpoint in front of one of them (main.rs).  A builder reads the node's *)
(* confirmed outputs, shapes a transaction to the contract's own           *)
(* arithmetic and submits it; the demo spends its own unconfirmed outputs. *)
(* The endpoint charges a token bucket, waits for the wallet, and gives    *)
(* the charge back when it gave up before building.                        *)
(***************************************************************************)
EXTENDS Integers, FiniteSets, SequencesExt

CONSTANTS
    Fee,          \* FEE
    ContractFee,  \* the 1000 sompi a contract's arithmetic gives up
    NetFee,       \* the fee of a spend with a fee input, at its compute budget
    Dust,         \* the least change an output is made for
    Pledge,       \* of every Mecenas
    Values,       \* coin values asked for
    Funds,        \* amounts of the wallet's first outputs
    Clients,      \* requests of the deploy endpoint under way
    BucketCap,    \* DEPLOY_BUCKET_CAP
    PerIp,        \* DEPLOY_PER_IP_PER_DAY
    Transitions,  \* of a demo run
    MaxTx,        \* bound: transactions submitted
    MaxCharges,   \* bound: requests the endpoint admits
    MaxRefill     \* bound: refills of the bucket

\* A funding output and a pledge are worth something, dust is not nothing; the
\* endpoint takes values of one coin and more.
ASSUME LabAssumption ==
    /\ {Fee, ContractFee, NetFee, Transitions, BucketCap} \subseteq Nat
    /\ {Dust, Pledge} \cup Values \subseteq Nat \ {0}
    /\ DOMAIN Funds \subseteq Nat /\ \A n \in DOMAIN Funds : Funds[n] \in Nat
    /\ IsFiniteSet(Clients)

VARIABLES
    utxos,      \* confirmed outputs: id -> [amount, kind]
    pool,       \* the node's mempool
    txCount,    \* transactions accepted
    lastTx,     \* the last accepted: [kind, in, outs]
    demo,       \* a demo run: [pc, coin, left]
    client,     \* deploy_handler: [pc, value, from]
    bucket,     \* DeployLimiter: [tokens, day, count]
    tally       \* [charges, refills, births]: births are coins the endpoint put on the chain

labvars == <<utxos, pool, txCount, lastTx, demo, client, bucket, tally>>

Kinds3 == {"mecenas", "escrow", "will"}
Bucket(tokens, day, count) == [tokens |-> tokens, day |-> day, count |-> count]
NoTx == [kind |-> "none", in |-> 0, outs |-> <<>>, fee |-> 0]
-----------------------------------------------------------------------------
LabInit ==
    /\ utxos = [i \in {<<0, n>> : n \in DOMAIN Funds} |-> [amount |-> Funds[i[2]], kind |-> "plain"]]
    /\ pool = {} /\ txCount = 0 /\ lastTx = NoTx
    /\ demo = [pc |-> "idle", coin |-> <<0, 0>>, amount |-> 0, left |-> 0]
    /\ client = [c \in Clients |-> [pc |-> "idle", value |-> 0, from |-> <<0, 0>>]]
    /\ bucket = Bucket(BucketCap, 0, 0)
    /\ tally = [charges |-> 0, refills |-> 0, births |-> 0]

\* The node: an input must exist, confirmed or not, and not be spent already.
Spendable(i) ==
    /\ i \in DOMAIN utxos \/ \E t \in pool : i[1] = t.n /\ i[2] \in DOMAIN t.outs
    /\ \A t \in pool : i \notin t.ins
Accepts(ins) == \A i \in ins : Spendable(i)

Out(a, k) == [amount |-> a, kind |-> k]

Submit(kind, ins, total, outs, fee) ==
    /\ txCount < MaxTx
    /\ txCount' = txCount + 1
    /\ pool' = pool \cup {[n |-> txCount', ins |-> ins, outs |-> outs]}
    /\ lastTx' = [kind |-> kind, in |-> total, outs |-> outs, fee |-> fee]

Confirm ==
    /\ \E t \in pool :
         /\ t.ins \subseteq DOMAIN utxos
         /\ pool' = pool \ {t}
         /\ LET made == {<<t.n, i>> : i \in {j \in DOMAIN t.outs : t.outs[j].kind # "paid"}}
            IN  utxos' = [i \in (DOMAIN utxos \ t.ins) \cup made |->
                            IF i \in made THEN t.outs[i[2]] ELSE utxos[i]]
    /\ UNCHANGED <<txCount, lastTx, demo, client, bucket, tally>>

\* max_by_key over the plain outputs the node reports as confirmed.
Plain == {i \in DOMAIN utxos : utxos[i].kind = "plain"}
Largest(set) == {i \in set : \A j \in set : utxos[j].amount <= utxos[i].amount}
-----------------------------------------------------------------------------
(* The builders: the outputs each makes, and when it refuses. *)

\* deploy: the coin, and change unless it would be dust.
CanFund(from, value) ==
    LET change == utxos[from].amount - value - Fee
    IN  change = 0 \/ change >= Dust
BirthOuts(from, value, kind) ==
    LET change == utxos[from].amount - value - Fee
    IN  IF change >= Dust THEN <<Out(value, kind), Out(change, "plain")>> ELSE <<Out(value, kind)>>

Deploy(from, value, kind) ==
    Submit("deploy", {from}, utxos[from].amount, BirthOuts(from, value, kind), Fee)

\* The change of a separate fee input takes up what the contract gave away.
FeeInputs == Largest({i \in Plain : utxos[i].amount > NetFee + Dust})
FeeChange(fund) == Out(utxos[fund].amount + ContractFee - NetFee, "plain")

\* Mutant form: the coin continues whenever the pledge can be paid once.
ContinuesWithLess(value) == value - Pledge - ContractFee < 0

\* Mecenas ends when the next pledge and its fee could not be left behind.
Terminal(value) == value - Pledge - ContractFee <= Pledge + ContractFee

MecenasOuts(value, change) ==
    IF Terminal(value) THEN <<Out(value - ContractFee, "paid"), change>>
    ELSE <<Out(Pledge, "paid"), Out(value - Pledge - ContractFee, "mecenas"), change>>

ConstrainedOuts(coin, change) ==
    IF utxos[coin].kind = "mecenas" THEN MecenasOuts(utxos[coin].amount, change)
    ELSE <<Out(utxos[coin].amount - ContractFee, "will"), change>>

SpendConstrained ==
    /\ \E coin \in DOMAIN utxos, fund \in FeeInputs :
         /\ utxos[coin].kind \in {"mecenas", "will"} /\ utxos[coin].amount > ContractFee
         /\ Accepts({coin, fund})
         /\ Submit(utxos[coin].kind, {coin, fund}, utxos[coin].amount + utxos[fund].amount,
                   ConstrainedOuts(coin, FeeChange(fund)), NetFee)
    /\ UNCHANGED <<utxos, demo, client, bucket, tally>>

\* settle_escrow does not look whether the coin covers the contract's fee;
\* build_constrained_spend does.
SettleEscrow ==
    /\ \E coin \in DOMAIN utxos, fund \in FeeInputs :
         /\ utxos[coin].kind = "escrow"
         /\ Accepts({coin, fund})
         /\ Submit("escrow", {coin, fund}, utxos[coin].amount + utxos[fund].amount,
                   <<Out(utxos[coin].amount - ContractFee, "paid"), FeeChange(fund)>>, NetFee)
    /\ UNCHANGED <<utxos, demo, client, bucket, tally>>

\* spend of a pure-signature entrypoint pays its fee out of the coin.
SpendPure ==
    /\ \E coin \in DOMAIN utxos :
         /\ utxos[coin].kind \in {"mecenas", "will"} /\ utxos[coin].amount > NetFee
         /\ Accepts({coin})
         /\ Submit("pure", {coin}, utxos[coin].amount,
                   <<Out(utxos[coin].amount - NetFee, "plain")>>, NetFee)
    /\ UNCHANGED <<utxos, demo, client, bucket, tally>>

\* anchor_self_send leaves as much as it pays.
AnchorSelfSend ==
    /\ \E i \in Largest(Plain) :
         /\ utxos[i].amount > 2 * Fee
         /\ Accepts({i})
         /\ Submit("anchor", {i}, utxos[i].amount, <<Out(utxos[i].amount - Fee, "plain")>>, Fee)
    /\ UNCHANGED <<utxos, demo, client, bucket, tally>>

\* The command line's deploy of a contract.
CliDeploy ==
    /\ \E kind \in Kinds3, value \in Values, from \in Largest(Plain) :
         /\ utxos[from].amount >= value + Fee /\ CanFund(from, value)
         /\ Accepts({from})
         /\ Deploy(from, value, kind)
    /\ UNCHANGED <<utxos, demo, client, bucket, tally>>

\* Every fee of the run and a last output above dust.
DemoNeeds == Fee * (Transitions + 2) + Dust

DemoBegin ==
    /\ demo.pc = "idle"
    /\ \E i \in Largest(Plain) :
         /\ utxos[i].amount >= DemoNeeds
         /\ demo' = [pc |-> "genesis", coin |-> i, amount |-> utxos[i].amount, left |-> Transitions]
    /\ UNCHANGED <<utxos, pool, txCount, lastTx, client, bucket, tally>>

\* Genesis, transitions and burn each spend the output before, confirmed or
\* not; a refusal by the node ends the run.
DemoStep ==
    /\ demo.pc \in {"genesis", "run"}
    /\ LET burn == demo.pc = "run" /\ demo.left = 0
           next == demo.amount - Fee
       IN  \/ /\ Accepts({demo.coin})
              /\ Submit("demo", {demo.coin}, demo.amount, <<Out(next, IF burn THEN "plain" ELSE "demo")>>, Fee)
              /\ demo' = [pc |-> IF burn THEN "done" ELSE "run", coin |-> <<txCount', 1>>,
                          amount |-> next,
                          left |-> IF demo.pc = "run" /\ ~burn THEN demo.left - 1 ELSE demo.left]
           \/ /\ ~Accepts({demo.coin})
              /\ demo' = [demo EXCEPT !.pc = "done"]
              /\ UNCHANGED <<pool, txCount, lastTx>>
    /\ UNCHANGED <<utxos, client, bucket, tally>>
-----------------------------------------------------------------------------
(* The deploy endpoint: DeployLimiter and deploy_handler, for one address. *)

Refill ==
    /\ tally.refills < MaxRefill
    /\ tally' = [tally EXCEPT !.refills = @ + 1]
    /\ bucket' = Bucket(Min({bucket.tokens + 1, BucketCap}), bucket.day, bucket.count)
    /\ UNCHANGED <<utxos, pool, txCount, lastTx, demo, client>>

Midnight ==
    /\ bucket.day = 0
    /\ bucket' = Bucket(bucket.tokens, 1, 0)
    /\ UNCHANGED <<utxos, pool, txCount, lastTx, demo, client, tally>>

\* try_take: the bucket first, then the address.
Charge(c) ==
    /\ tally.charges < MaxCharges
    /\ client[c].pc = "idle" /\ bucket.tokens >= 1 /\ bucket.count < PerIp
    /\ tally' = [tally EXCEPT !.charges = @ + 1]
    /\ bucket' = Bucket(bucket.tokens - 1, bucket.day, bucket.count + 1)
    /\ \E v \in Values : client' = [client EXCEPT ![c] = [pc |-> "waiting", value |-> v, from |-> @.from]]
    /\ UNCHANGED <<utxos, pool, txCount, lastTx, demo>>

InFlight == {c \in Clients : client[c].pc \in {"preflight", "building", "submitting"}}

\* deploy_inflight: one handler at a time from here on.
TakeWallet(c) ==
    /\ client[c].pc = "waiting" /\ InFlight = {}
    /\ client' = [client EXCEPT ![c].pc = "preflight"]
    /\ UNCHANGED <<utxos, pool, txCount, lastTx, demo, bucket, tally>>

Refunded == Bucket(Min({bucket.tokens + 1, BucketCap}), bucket.day, Max({bucket.count - 1, 0}))

\* No connection, no balance, or too little: the charge is given back.
PreflightFails(c) ==
    /\ client[c].pc = "preflight"
    /\ bucket' = Refunded
    /\ client' = [client EXCEPT ![c].pc = "idle"]
    /\ UNCHANGED <<utxos, pool, txCount, lastTx, demo, tally>>

WalletCovers(c) ==
    /\ client[c].pc = "preflight"
    /\ \E i \in Plain : utxos[i].amount >= client[c].value + Fee
    /\ client' = [client EXCEPT ![c].pc = "building"]
    /\ UNCHANGED <<utxos, pool, txCount, lastTx, demo, bucket, tally>>

\* deploy reads the outputs again; too little or a dust change is an error.
BuildBirth(c) ==
    /\ client[c].pc = "building"
    /\ \E from \in Largest(Plain) :
         /\ utxos[from].amount >= client[c].value + Fee /\ CanFund(from, client[c].value)
         /\ client' = [client EXCEPT ![c] = [pc |-> "submitting", value |-> @.value, from |-> from]]
    /\ UNCHANGED <<utxos, pool, txCount, lastTx, demo, bucket, tally>>

\* The outpoint may be gone since, or spent by a transaction not confirmed yet.
SubmitBirth(c) ==
    /\ client[c].pc = "submitting" /\ client[c].from \in DOMAIN utxos
    /\ Accepts({client[c].from})
    /\ Deploy(client[c].from, client[c].value, "mecenas")
    /\ tally' = [tally EXCEPT !.births = @ + 1]
    /\ client' = [client EXCEPT ![c].pc = "idle"]
    /\ UNCHANGED <<utxos, demo, bucket>>

\* Mutant form: any failed deploy gives the charge back.
RefundsAll == Refunded

AfterFailure == bucket

\* deploy failed, or its answer was lost after the node took the transaction;
\* the next deploy may then find the same funding output.
DeployFails(c) ==
    /\ client[c].pc \in {"building", "submitting"}
    /\ \/ UNCHANGED <<pool, txCount, lastTx, tally>>
       \/ /\ client[c].pc = "submitting" /\ client[c].from \in DOMAIN utxos
          /\ Accepts({client[c].from})
          /\ Deploy(client[c].from, client[c].value, "mecenas")
          /\ tally' = [tally EXCEPT !.births = @ + 1]
    /\ bucket' = AfterFailure
    /\ client' = [client EXCEPT ![c].pc = "idle"]
    /\ UNCHANGED <<utxos, demo>>

\* The client hangs up: the handler is dropped where it stands.
HangUp(c) ==
    /\ client[c].pc # "idle"
    /\ client' = [client EXCEPT ![c].pc = "idle"]
    /\ UNCHANGED <<utxos, pool, txCount, lastTx, demo, bucket, tally>>

\* The command line, the endpoint, and the chain they share.
CliNext ==
    \/ SpendConstrained \/ SettleEscrow \/ SpendPure \/ AnchorSelfSend \/ CliDeploy \/ DemoBegin \/ DemoStep

EndpointNext ==
    \/ Refill \/ Midnight
    \/ \E c \in Clients : \/ Charge(c) \/ TakeWallet(c) \/ PreflightFails(c) \/ WalletCovers(c)
                          \/ BuildBirth(c) \/ SubmitBirth(c) \/ DeployFails(c) \/ HangUp(c)

LabNext == Confirm \/ CliNext \/ EndpointNext

LabSpec == LabInit /\ [][LabNext]_labvars
-----------------------------------------------------------------------------
SumOuts(outs) == FoldLeft(LAMBDA acc, out : acc + out.amount, 0, outs)

\* Every transaction the lab puts on the wire pays exactly the fee its builder
\* meant, has no empty or negative output, and leaves no coin that cannot
\* move again: a Mecenas that goes on can pay its pledge and fee, a demo run
\* always reaches its burn with change to spare.  Excepted is an escrow that
\* holds no more than the contract's fee, which settle_escrow does not refuse.
LabTxBalances ==
    LET outs == lastTx.outs
    IN  \/ lastTx.kind = "none"
        \/ lastTx.kind = "escrow" /\ outs[1].amount <= 0
        \/ /\ lastTx.in = SumOuts(outs) + lastTx.fee
           /\ \A i \in DOMAIN outs :
                /\ outs[i].amount > 0
                /\ outs[i].kind = "plain" /\ lastTx.kind \in {"deploy", "demo"} => outs[i].amount >= Dust
                /\ outs[i].kind = "mecenas" /\ lastTx.kind = "mecenas" =>
                     outs[i].amount > Pledge + ContractFee

\* The custodial wallet cannot be drained faster than the bucket refills,
\* whatever fails, is refunded, lost or hung up on the way (DeployLimiter's
\* "only sound bound").
DrainBounded ==
    tally.births + bucket.tokens + Cardinality({c \in Clients : client[c].pc # "idle"})
        <= BucketCap + tally.refills

\* The lab loses no coin to its own arithmetic and no more of the wallet than
\* it meant to give.
WalletKept == LabTxBalances /\ DrainBounded
================================================================================
