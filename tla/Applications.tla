----------------------------- MODULE Applications -----------------------------
(***************************************************************************)
(* Argent applications on top of the accepted chain (kascov-argent,        *)
(* store_application.rs): a transaction's envelope declares application    *)
(* states for its outputs, the decoder accepts what the approved manifest  *)
(* allows, and store rows and delivery records keep outputs and failures   *)
(* apart.  An operator may approve more later and repair old failures.     *)
(***************************************************************************)
EXTENDS Integers, Sequences, FiniteSets, SequencesExt

CONSTANTS
    AppTransactions,      \* tx -> [spends, makes, envelope]: outpoints spent, covenant of each output,
                 \* and option of [form, size, declares]
    Manifests,   \* option of a manifest file: sequence of [id, on, art, max, sound]
    RepairLimit, \* --batch-size
    MaxChain,    \* bound: blocks accepted
    MaxApprovals \* bound: manifests deployed

\* A transaction has finitely many outputs, and its envelope declares finitely
\* many; output index 0 is the row of a failed envelope.
ASSUME FiniteTransactions == \A t \in DOMAIN AppTransactions :
    /\ IsFiniteSet(DOMAIN AppTransactions[t].makes) /\ 0 \notin DOMAIN AppTransactions[t].makes
    /\ AppTransactions[t].envelope # <<>> => IsFiniteSet(DOMAIN AppTransactions[t].envelope[1].declares)

VARIABLES
    manifest,    \* the file in use
    chain,       \* accepted blocks [id, tx]: one transaction per block
    coins,       \* covenant_utxos: outpoint -> [cov, created, spent]
    eventSeq,    \* covenant_events: <<tx, cov>> -> delivery_stream_seq
    outputRows,  \* application_outputs: outpoint -> [app, cov, created, spent]
    failureRows, \* application_decode_failures: id -> [tx, index, block, repaired]
    envelopes,   \* application_envelopes: tx -> [block, status]
    deliveries,  \* delivery_log [kind, source, tx, cov, block, apps]
    counts,      \* application_decode_failure_counts [total, unrepaired]
    made         \* [blocks, failures, approvals] so far

appvars == <<manifest, chain, coins, eventSeq, outputRows, failureRows, envelopes, deliveries, counts, made>>

NoBlockYet == 0
WholeTx == 0   \* output_index NULL
-----------------------------------------------------------------------------
(* ApprovedManifest and ArgentDecoder *)

\* An id is taken by its first entry, also when that entry is rejected.
Approved(file) ==
    {file[i] : i \in {j \in DOMAIN file :
        /\ file[j].id # "" /\ file[j].sound
        /\ \A k \in 1..(j - 1) : file[k].id # file[j].id}}

\* decode_limits: the widest limit of an enabled application.
Enabled1(file) == {a \in Approved(file) : a.on}
Widest(file) == CHOOSE n \in {a.max : a \in Enabled1(file)} : \A a \in Enabled1(file) : a.max <= n

\* decode_envelope
Readable(e, file) ==
    /\ e.form = "whole" /\ e.size <= Widest(file)
    /\ \A i, j \in DOMAIN e.declares : e.declares[i].index = e.declares[j].index => i = j

\* decode_output: approved, within its own limits, bound to a covenant and
\* rebuilt to the very output that was accepted.
DecodesTo(t, d, file) ==
    \E a \in Enabled1(file) :
        /\ a.id = d.app /\ a.art = d.art
        /\ AppTransactions[t].envelope[1].size <= a.max
        /\ d.index \in DOMAIN AppTransactions[t].makes
        /\ d.rebuilds

\* ApplicationDecoder::preprocess: declared outputs, failures by output index.
Preprocess(t, option) ==
    IF AppTransactions[t].envelope = <<>> \/ option = <<>>
    THEN [raw |-> FALSE, outputs |-> {}, failures |-> {}]
    ELSE LET e == AppTransactions[t].envelope[1]
             file == option[1] IN
      IF Enabled1(file) = {} \/ ~Readable(e, file)
      THEN [raw |-> TRUE, outputs |-> {}, failures |-> {WholeTx}]
      ELSE LET good == {d \in ToSet(e.declares) : DecodesTo(t, d, file)} IN
           [raw |-> TRUE, outputs |-> good,
            failures |-> {d.index : d \in ToSet(e.declares) \ good}]

Status(p) == IF p.failures = {} THEN "valid" ELSE IF p.outputs = {} THEN "failed" ELSE "partial"

CovsOf(t) == {coins[o].cov : o \in AppTransactions[t].spends \cap DOMAIN coins}
             \cup {AppTransactions[t].makes[i] : i \in DOMAIN AppTransactions[t].makes}
-----------------------------------------------------------------------------
AppInit ==
    /\ manifest \in Manifests
    /\ chain = <<>> /\ coins = <<>> /\ eventSeq = <<>> /\ outputRows = <<>> /\ failureRows = <<>>
    /\ envelopes = <<>> /\ deliveries = <<>>
    /\ counts = [total |-> 0, unrepaired |-> 0]
    /\ made = [blocks |-> 0, failures |-> 0, approvals |-> 0]

\* The operator deploys another manifest.
Approve ==
    /\ made.approvals < MaxApprovals
    /\ manifest' \in Manifests \ {manifest}
    /\ made' = [blocks |-> made.blocks, failures |-> made.failures, approvals |-> made.approvals + 1]
    /\ UNCHANGED <<chain, coins, eventSeq, outputRows, failureRows, envelopes, deliveries, counts>>

OnChain == {chain[i].tx : i \in DOMAIN chain}
Merge(new, old) == [x \in DOMAIN old \cup DOMAIN new |-> IF x \in DOMAIN new THEN new[x] ELSE old[x]]

Coin(cov, created, spent) == [cov |-> cov, created |-> created, spent |-> spent]
Row(app, cov, created, spent) == [app |-> app, cov |-> cov, created |-> created, spent |-> spent]
Failure(t, index, block, repaired) == [tx |-> t, index |-> index, block |-> block, repaired |-> repaired]
Delivery(kind, source, t, cov, block, apps) ==
    [kind |-> kind, source |-> source, tx |-> t, cov |-> cov, block |-> block, apps |-> apps]

\* The members of a finite set, in one order.
Listing(S) == CHOOSE s \in [1..Cardinality(S) -> S] : ToSet(s) = S

Outpoints(t) == {<<t, i>> : i \in DOMAIN AppTransactions[t].makes}
CovOf(o) == AppTransactions[o[1]].makes[o[2]]
Declared(p, o) == CHOOSE d \in p.outputs : d.index = o[2]
Spends(t, rows, o) == o \in AppTransactions[t].spends /\ rows[o].spent = NoBlockYet

\* apply_accepted_block with store_application::apply_accepted: coins, event
\* rows with their delivery records, application outputs, failures, spends.
AcceptTx(t, block) ==
    LET p == Preprocess(t, manifest)
        covs == Listing(CovsOf(t))
        fails == Listing(p.failures)
        first == made.failures + 1
        apps(c) == {d.app : d \in {e \in p.outputs : AppTransactions[t].makes[e.index] = c}}
    IN  /\ coins' = [o \in DOMAIN coins \cup Outpoints(t) |->
             IF o \in Outpoints(t) THEN Coin(CovOf(o), block, NoBlockYet)
             ELSE IF Spends(t, coins, o) THEN Coin(coins[o].cov, coins[o].created, block)
             ELSE coins[o]]
        /\ deliveries' = deliveries \o [i \in DOMAIN covs |->
             Delivery("accepted", 0, t, covs[i], block, apps(covs[i]))]
        /\ eventSeq' = Merge([x \in {<<t, c>> : c \in CovsOf(t)} |->
             Len(deliveries) + CHOOSE i \in DOMAIN covs : covs[i] = x[2]], eventSeq)
        /\ outputRows' = [o \in DOMAIN outputRows \cup {<<t, d.index>> : d \in p.outputs} |->
             IF o \in {<<t, d.index>> : d \in p.outputs}
             THEN Row(Declared(p, o).app, CovOf(o), block, NoBlockYet)
             ELSE IF Spends(t, outputRows, o)
             THEN Row(outputRows[o].app, outputRows[o].cov, outputRows[o].created, block)
             ELSE outputRows[o]]
        /\ failureRows' = Merge([n \in first..(made.failures + Len(fails)) |->
             Failure(t, fails[n - made.failures], block, 0)], failureRows)
        /\ counts' = [total |-> counts.total + Len(fails), unrepaired |-> counts.unrepaired + Len(fails)]
        /\ envelopes' = IF p.raw THEN Merge([x \in {t} |-> [block |-> block, status |-> Status(p)]], envelopes)
                        ELSE envelopes
        /\ made' = [blocks |-> block, failures |-> made.failures + Len(fails), approvals |-> made.approvals]

\* One transaction per accepting block is enough: what two in one block share
\* is what two in consecutive blocks share.
AcceptBlock ==
    /\ made.blocks < MaxChain
    /\ \E t \in DOMAIN AppTransactions \ OnChain :
         /\ \A o \in AppTransactions[t].spends : o \in DOMAIN coins /\ coins[o].spent = NoBlockYet
         /\ AcceptTx(t, made.blocks + 1)
         /\ chain' = Append(chain, [id |-> made.blocks + 1, tx |-> t])
    /\ UNCHANGED manifest

\* The numbers of a finite set, ascending.
InLogOrder(S) ==
    {s \in [1..Cardinality(S) -> S] : ToSet(s) = S /\ \A i, j \in DOMAIN s : i < j => s[i] < s[j]}

\* rollback_removed_blocks with rollback_removed: removal records for the
\* accepted deliveries of the block, then its rows.
RemoveBlock ==
    /\ chain # <<>>
    /\ LET block == Last(chain).id
           gone == {n \in DOMAIN failureRows : failureRows[n].block = block}
       IN  /\ \E sources \in InLogOrder({n \in DOMAIN deliveries :
                                         deliveries[n].kind = "accepted" /\ deliveries[n].block = block}) :
                deliveries' = deliveries \o [i \in DOMAIN sources |->
                  LET r == deliveries[sources[i]] IN Delivery("removed", sources[i], r.tx, r.cov, r.block, r.apps)]
           /\ coins' = [o \in {x \in DOMAIN coins : coins[x].created # block} |->
                IF coins[o].spent = block THEN Coin(coins[o].cov, coins[o].created, NoBlockYet) ELSE coins[o]]
           /\ outputRows' = [o \in {x \in DOMAIN outputRows : outputRows[x].created # block} |->
                IF outputRows[o].spent = block
                THEN Row(outputRows[o].app, outputRows[o].cov, outputRows[o].created, NoBlockYet) ELSE outputRows[o]]
           /\ eventSeq' = [x \in {y \in DOMAIN eventSeq : deliveries[eventSeq[y]].block # block} |-> eventSeq[x]]
           /\ failureRows' = [n \in DOMAIN failureRows \ gone |-> failureRows[n]]
           /\ counts' = [total |-> counts.total - Cardinality(gone),
                         unrepaired |-> counts.unrepaired
                           - Cardinality({n \in gone : failureRows[n].repaired = 0})]
           /\ envelopes' = [t \in {x \in DOMAIN envelopes : envelopes[x].block # block} |-> envelopes[t]]
    /\ chain' = Front(chain)
    /\ UNCHANGED <<manifest, made>>
-----------------------------------------------------------------------------
(* repair_application_failures *)

Unrepaired(t) == {n \in DOMAIN failureRows : failureRows[n].tx = t /\ failureRows[n].repaired = 0}

\* The oldest transactions with a failure, up to the limit, by their place on the chain.
RepairCandidates ==
    LET failed == {i \in DOMAIN chain : chain[i].tx \in DOMAIN envelopes /\ Unrepaired(chain[i].tx) # {}}
    IN  {i \in failed : Cardinality({j \in failed : j < i}) < RepairLimit}
Candidates == {chain[i].tx : i \in RepairCandidates}

\* Mutant form: a repaired output counts as unspent, as it does when accepted.
InsertedUnspent(o) == NoBlockYet
SpentSoFar(o) == coins[o].spent

\* The outputs that decode by now and have a coin but no row, in the order
\* they are taken: transactions by chain, outputs by index.
Repairable == {o \in DOMAIN coins \ DOMAIN outputRows :
    o[1] \in Candidates /\ \E d \in Preprocess(o[1], manifest).outputs : d.index = o[2]}
TakenBefore(o, q) ==
    \E i, j \in DOMAIN chain :
        chain[i].tx = o[1] /\ chain[j].tx = q[1] /\ (i < j \/ (i = j /\ o[2] < q[2]))
Repairs == {s \in [1..Cardinality(Repairable) -> Repairable] :
    ToSet(s) = Repairable /\ \A i, j \in DOMAIN s : i < j => TakenBefore(s[i], s[j])}

\* The failure rows a repaired output mends: its own, and whatever is left of
\* its transaction when nothing fails any more - then by the first of them.
MendedBy(f, s) ==
    LET own == {i \in DOMAIN s : s[i] = <<f.tx, f.index>>}
        kin == {i \in DOMAIN s : s[i][1] = f.tx /\ Preprocess(f.tx, manifest).failures = {}}
    IN  IF f.repaired # 0 THEN {} ELSE IF own # {} THEN own
        ELSE {i \in kin : \A j \in kin : i <= j}

\* One transaction of the database; repair-argent refuses to run without a manifest.
RepairFailures ==
    /\ manifest # <<>> /\ RepairCandidates # {}
    /\ \E s \in Repairs :
         /\ outputRows' = [o \in DOMAIN outputRows \cup Repairable |->
              IF o \in Repairable
              THEN Row(Declared(Preprocess(o[1], manifest), o).app, coins[o].cov, coins[o].created, SpentSoFar(o))
              ELSE outputRows[o]]
         /\ failureRows' = [n \in DOMAIN failureRows |->
              LET f == failureRows[n] IN
              IF MendedBy(f, s) = {} THEN f
              ELSE Failure(f.tx, f.index, f.block, Len(deliveries) + CHOOSE i \in MendedBy(f, s) : TRUE)]
         /\ counts' = [total |-> counts.total, unrepaired |-> counts.unrepaired
              - Cardinality({n \in DOMAIN failureRows : MendedBy(failureRows[n], s) # {}})]
         /\ deliveries' = deliveries \o [i \in DOMAIN s |->
              Delivery("projection_repaired", eventSeq[<<s[i][1], coins[s[i]].cov>>], s[i][1], coins[s[i]].cov,
                       coins[s[i]].created, {Declared(Preprocess(s[i][1], manifest), s[i]).app})]
    /\ envelopes' = [t \in DOMAIN envelopes |->
         IF t \in Candidates
         THEN [block |-> envelopes[t].block, status |-> Status(Preprocess(t, manifest))] ELSE envelopes[t]]
    /\ UNCHANGED <<manifest, chain, coins, eventSeq, made>>

AppNext == Approve \/ AcceptBlock \/ RemoveBlock \/ RepairFailures

AppSpec == AppInit /\ [][AppNext]_appvars
-----------------------------------------------------------------------------
\* Repairs come late and rows stay coherent with the coins: an application
\* output is live, spent and created exactly where its coin is; a failure
\* marked repaired names a repair record of its transaction that is still on
\* the chain; and the trigger-kept totals are the totals
\* (repair_application_failures against apply_accepted and rollback_removed).
AppRowsFollowCoins ==
    /\ \A o \in DOMAIN outputRows :
         /\ o \in DOMAIN coins
         /\ outputRows[o].created = coins[o].created /\ outputRows[o].spent = coins[o].spent
    /\ \A n \in DOMAIN failureRows : failureRows[n].repaired # 0 =>
         LET r == deliveries[failureRows[n].repaired]
         IN  /\ r.kind = "projection_repaired" /\ r.tx = failureRows[n].tx
             /\ r.block \in {chain[i].id : i \in DOMAIN chain}
             /\ deliveries[r.source].kind = "accepted" /\ deliveries[r.source].tx = r.tx
    /\ counts.total = Cardinality(DOMAIN failureRows)
    /\ counts.unrepaired = Cardinality({n \in DOMAIN failureRows : failureRows[n].repaired = 0})

\* "Removed accepting blocks reverse every effect keyed to them": a client
\* that filters the log by application and was told of an application state
\* of a block is told of the removal of the block.  Not so: removal records
\* carry no applications (README, section 4).
RemovalsReachFilters ==
    \A n \in DOMAIN deliveries : \A a \in deliveries[n].apps :
        deliveries[n].kind # "removed" /\ (\A i \in DOMAIN chain : chain[i].id # deliveries[n].block) =>
            \E m \in (n + 1)..Len(deliveries) :
                /\ deliveries[m].kind = "removed" /\ deliveries[m].block = deliveries[n].block
                /\ deliveries[m].tx = deliveries[n].tx /\ a \in deliveries[m].apps
================================================================================
