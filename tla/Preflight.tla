------------------------------- MODULE Preflight -------------------------------
(***************************************************************************)
(* The verdict on a transaction before it is broadcast (preflight.rs run): *)
(* the submitted JSON is read the way a node's serializer would, its       *)
(* commitments and masses are checked, and the inputs that carry their     *)
(* witness and utxo are executed, in the real transaction when every input *)
(* is populated and in a fabricated one otherwise.                         *)
(***************************************************************************)
EXTENDS Integers, FiniteSets, SequencesExt

CONSTANTS
    Versions,      \* version fields that may be submitted, NotGiven among them
    InputShapes,   \* inputs: [spelled, budget, sigops, witness, spk, amount, bytes, units, valid, alone]
    OutputShapes,  \* outputs: [value, spk]
    InputCounts, OutputCounts,   \* how many of each a request carries
    FreeUnits,     \* script units granted without a commitment
    UnitsPer,      \* script units of one budget unit or sigop
    WireMax,       \* largest commitment the wire field holds
    IoCap,         \* MAX_TX_IO
    ExecCap,       \* EXEC_INPUT_CAP
    ComputeLimit, TransientLimit, StorageLimit,   \* block_mass_limits
    TransientPer,  \* transient mass of what is one gram of compute mass when serialized
    MassParameter, \* storage_mass_parameter
    MassMax        \* largest storage mass the calculator can hold

VARIABLES
    submitted,   \* the submitted transaction: [version, inputs, outputs]
    report     \* NoReport, or [verdict, findings]

pfvars == <<submitted, report>>

NotGiven == -1
Fields == Nat \cup {NotGiven}

\* What the fields of a request may hold; one sigop fits the wire field.
ASSUME PreflightAssumption ==
    /\ Versions \subseteq Fields /\ InputCounts \cup OutputCounts \subseteq Nat
    /\ InputShapes \subseteq [spelled : {"camel", "snake"}, budget : Fields, sigops : Fields,
                               witness : {"given", "none"}, spk : {"given", "none"}, amount : Fields,
                               bytes : Nat, units : Nat, valid : {"yes", "no"}, alone : {"yes", "no"}]
    /\ OutputShapes \subseteq [value : Nat, spk : {"given", "none"}]
    /\ {FreeUnits, UnitsPer, IoCap, ExecCap, TransientPer, MassParameter} \subseteq Nat
    /\ {ComputeLimit, TransientLimit, StorageLimit, MassMax} \subseteq Nat
    /\ WireMax \in Nat \ {0}
NoReport == [verdict |-> "none", findings |-> {}]
Submissions == [version : Versions, inputs : UNION {[1..n -> InputShapes] : n \in InputCounts},
             outputs : UNION {[1..n -> OutputShapes] : n \in OutputCounts}]

PreflightInit == submitted \in Submissions /\ report = NoReport
-----------------------------------------------------------------------------
(* parse *)

\* Every field may be spelled in snake_case except the budget, which the
\* serializers of old SDKs drop in that spelling.
ReadBudget(in) == IF in.spelled = "camel" THEN in.budget ELSE NotGiven
FirstOf(s, cap) == SubSeq(s, 1, IF Len(s) < cap THEN Len(s) ELSE cap)
Parsed(r) ==
    [version |-> IF r.version = NotGiven THEN 1 ELSE r.version,
     inputs |-> [i \in DOMAIN FirstOf(r.inputs, IoCap) |-> [r.inputs[i] EXCEPT !.budget = ReadBudget(r.inputs[i])]],
     outputs |-> FirstOf(r.outputs, IoCap)]
-----------------------------------------------------------------------------
(* The engine and the mass calculator *)

Clamp(n) == IF n > WireMax THEN WireMax ELSE n
Given(n, default) == IF n = NotGiven THEN default ELSE n
\* build_tx: what an input commits to.
Committed(version, in) == Clamp(IF version = 1 THEN Given(in.budget, 0) ELSE Given(in.sigops, 1))
Allowance(commitment) == commitment * UnitsPer + FreeUnits
RunsInTx(version, in) == in.valid = "yes" /\ in.units <= Allowance(Committed(version, in))
RunsAlone(in, budget) == in.alone = "yes" /\ in.units <= Allowance(Clamp(budget))

SumOf(ns) == FoldLeft(LAMBDA acc, n : acc + n, 0, ns)
\* The serialized size, an output being the unit of length.
Size(tx) == Len(tx.outputs) + SumOf([i \in DOMAIN tx.inputs |-> tx.inputs[i].bytes])
ComputeMass(tx) == Size(tx) + SumOf([i \in DOMAIN tx.inputs |-> Committed(tx.version, tx.inputs[i])])
TransientMass(tx) == TransientPer * Size(tx)
\* KIP-9: what the outputs split finer than the inputs, when the outputs'
\* shares can be added up at all.
OutputShares(tx) == SumOf([i \in DOMAIN tx.outputs |-> MassParameter \div tx.outputs[i].value])
InputShares(tx) == SumOf([i \in DOMAIN tx.inputs |-> MassParameter \div tx.inputs[i].amount])
StorageComputable(tx) == OutputShares(tx) <= MassMax
StorageMass(tx) == IF OutputShares(tx) > InputShares(tx) THEN OutputShares(tx) - InputShares(tx) ELSE 0
-----------------------------------------------------------------------------
(* run *)

\* The first of the inputs that carry what an execution needs.
Executable(tx) ==
    LET told == {i \in DOMAIN tx.inputs :
                    tx.inputs[i].witness = "given" /\ tx.inputs[i].spk = "given" /\ tx.inputs[i].amount # NotGiven}
    IN  {i \in told : Cardinality({j \in told : j <= i}) <= ExecCap}
Populated(tx) == tx.inputs # <<>> /\ \A i \in DOMAIN tx.inputs : tx.inputs[i].spk = "given" /\ tx.inputs[i].amount # NotGiven

BudgetsExpressible(tx) == \A i \in DOMAIN tx.inputs : tx.inputs[i].budget \in 0..WireMax
\* The findings on the commitment of one input; a zero budget is forgiven when
\* the witness runs on the free units.
BudgetFindings(tx, i) ==
    LET in == tx.inputs[i]
        unstated == in.budget = NotGiven
        probed == i \in Executable(tx) /\ RunsAlone(in, WireMax) /\ in.units <= FreeUnits
    IN  IF tx.version = 0
        THEN (IF unstated THEN {} ELSE {"budget_on_v0"}) \cup (IF in.sigops > WireMax THEN {"sigop_overflow"} ELSE {})
        ELSE IF tx.version # 1 THEN {}
        ELSE IF in.budget > WireMax THEN {"budget_overflow"}
        ELSE IF unstated /\ in.sigops > 0 THEN {"sigop_count_on_v1"}
        ELSE IF in.budget <= 0 /\ ~probed THEN {"budget_missing"} ELSE {}

OutputsOk(tx) == \A i \in DOMAIN tx.outputs : tx.outputs[i].value > 0 /\ tx.outputs[i].spk = "given"
AmountsKnown(tx) == \A i \in DOMAIN tx.inputs : tx.inputs[i].amount > 0
\* Masses, and the context of an execution, need every input's commitment.
Buildable(tx) ==
    /\ tx.version \in {0, 1} /\ tx.inputs # <<>> /\ tx.outputs # <<>>
    /\ tx.version = 0 \/ BudgetsExpressible(tx)
\* Storage mass is left out when an amount is missing or an output is bad.
StorageAsked(tx) == AmountsKnown(tx) /\ OutputsOk(tx)
\* Mutant forms: only two of the three masses are held against their limit, and
\* a storage mass that has no value is taken for none.
OverTwo(tx) ==
    \/ ComputeMass(tx) > ComputeLimit
    \/ StorageAsked(tx) /\ StorageComputable(tx) /\ StorageMass(tx) > StorageLimit
NeverOverflows(tx) == FALSE
OverLimit(tx) ==
    \/ ComputeMass(tx) > ComputeLimit
    \/ TransientMass(tx) > TransientLimit
    \/ StorageAsked(tx) /\ StorageComputable(tx) /\ StorageMass(tx) > StorageLimit
Overflows(tx) == StorageAsked(tx) /\ ~StorageComputable(tx)

\* Real context when it can be had, else each input by itself, which takes a
\* version 0 input's commitment for a zero budget.
\* Mutant form: every input is judged by itself.
PassesAlone(tx, i) == RunsAlone(tx.inputs[i], Given(tx.inputs[i].budget, 0))
Passes(tx, i) ==
    IF Buildable(tx) /\ Populated(tx) THEN RunsInTx(tx.version, tx.inputs[i])
    ELSE RunsAlone(tx.inputs[i], Given(tx.inputs[i].budget, 0))

ErrorCodes == {"no_inputs", "no_outputs", "too_many_io", "budget_overflow", "sigop_count_on_v1", "budget_missing",
               "sigop_overflow", "output_bad", "storage_mass_incomputable", "mass_exceeds_limit",
               "input_script_failed"}
\* Findings that only inform are left out.
Findings(r, tx) ==
    (UNION {BudgetFindings(tx, i) : i \in DOMAIN tx.inputs})
    \cup {code \in {"version_missing"} : r.version = NotGiven}
    \cup {code \in {"version_unknown"} : tx.version > 1}
    \cup {code \in {"too_many_io"} : Len(r.inputs) > IoCap \/ Len(r.outputs) > IoCap}
    \cup {code \in {"no_inputs"} : tx.inputs = <<>>} \cup {code \in {"no_outputs"} : tx.outputs = <<>>}
    \cup {code \in {"output_bad"} : ~OutputsOk(tx)}
    \cup {code \in {"storage_mass_incomputable"} : Buildable(tx) /\ Overflows(tx)}
    \cup {code \in {"mass_exceeds_limit"} : Buildable(tx) /\ OverLimit(tx)}
    \cup {code \in {"input_script_failed"} : \E i \in Executable(tx) : ~Passes(tx, i)}

VerdictOf(r, tx) ==
    IF Findings(r, tx) \cap ErrorCodes # {} THEN "will_fail"
    ELSE IF Buildable(tx) /\ ~OverLimit(tx) THEN "ready" ELSE "incomplete"

\* preflight_handler.
Answer ==
    /\ report = NoReport
    /\ report' = [verdict |-> VerdictOf(submitted, Parsed(submitted)), findings |-> Findings(submitted, Parsed(submitted))]
    /\ UNCHANGED submitted

PreflightNext == Answer
PreflightSpec == PreflightInit /\ [][PreflightNext]_pfvars
-----------------------------------------------------------------------------
(* What a node does with the submitted transaction; whether its utxos exist *)
(* and its values balance is left to the node. Its masses come from the     *)
(* same library.                                                            *)
OnWire(in) == IF in.spelled = "camel" THEN Given(in.budget, 0) ELSE 0
NodeTakes(r) ==
    /\ Len(r.inputs) \in 1..IoCap /\ Len(r.outputs) \in 1..IoCap
    /\ \A i \in DOMAIN r.outputs : r.outputs[i].value > 0 /\ r.outputs[i].spk = "given"
    /\ LET version == Given(r.version, 1)
           commits(in) == IF version = 1 THEN OnWire(in) ELSE Given(in.sigops, 1)
       IN  /\ \A i \in DOMAIN r.inputs :
                 /\ commits(r.inputs[i]) <= WireMax
                 /\ r.inputs[i].valid = "yes" /\ r.inputs[i].units <= Allowance(commits(r.inputs[i]))
           /\ Size(r) + SumOf([i \in DOMAIN r.inputs |-> commits(r.inputs[i])]) <= ComputeLimit
           /\ TransientPer * Size(r) <= TransientLimit
           /\ OutputShares(r) <= MassMax /\ OutputShares(r) <= StorageLimit + InputShares(r)

\* A request that tells all there is to tell.
TellsAll(r) ==
    /\ Len(r.inputs) <= ExecCap
    /\ \A i \in DOMAIN r.inputs : r.inputs[i].witness = "given" /\ r.inputs[i].spk = "given" /\ r.inputs[i].amount > 0
StatesBudgets(r) == Given(r.version, 1) = 1 => \A i \in DOMAIN r.inputs : ReadBudget(r.inputs[i]) # NotGiven
Standalone(r) == \A i \in DOMAIN r.inputs : r.inputs[i].valid = r.inputs[i].alone

\* On a request that tells everything, "ready" is only said of a transaction a
\* node takes and "will_fail" only of one it refuses, as long as a zero budget
\* need not be judged outside the transaction (preflight.rs run, build_tx).
VerdictsHold ==
    /\ report.verdict = "ready" /\ TellsAll(submitted) => NodeTakes(submitted)
    /\ report.verdict = "will_fail" /\ TellsAll(submitted) /\ StatesBudgets(submitted) /\ Standalone(submitted)
         /\ submitted.version <= 1 => ~NodeTakes(submitted)
=============================================================================
