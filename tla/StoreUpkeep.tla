------------------------------ MODULE StoreUpkeep ------------------------------
(***************************************************************************)
(* What a process does to a database another build left behind (store.rs,  *)
(* follower.rs, main.rs): Store::open clears and re-reads stale stamps in  *)
(* bounded transactions, the follower or an operator's command restamps    *)
(* reveals and rebuilds the token tables behind version gates, and the     *)
(* verification log records each pass.  The process may die between any    *)
(* two commits and any statement may fail; the next one may be another     *)
(* build.                                                                  *)
(***************************************************************************)
EXTENDS Integers, FiniteSets, Sequences, FiniteSetsExt

CONSTANTS
    Builds,      \* the builds that get deployed, in order
    Version,     \* build -> [classifier, abi, restamp, derivation, matcher]
    Items,       \* readings of stored bytes, in rowid order
    Column,      \* item -> "template", "reveal", "tag" or "hash"
    Owner,       \* item -> covenant
    NamedFrom,   \* item -> classifier version whose registry names it
    LocatedFrom, \* item -> restamp version whose locator finds its state block
    Rereads,     \* items whose generic reading a classifier may improve
    Legacy,      \* items in the database before the columns existed
    ReadBatch,   \* rows per transaction of a backfill
    MaxOpens,    \* bound: processes started
    MaxStoreFaults, \* bound: statements that fail
    Rollbacks    \* whether an older build may follow a newer one

\* Builds are numbered as they were made: a version once reached is not taken
\* back, and what a classifier learned to name, it re-reads.
ASSUME UpkeepAssumption ==
    /\ Builds \subseteq Nat /\ Items \subseteq Nat \ {0} /\ Legacy \subseteq Items
    /\ \A i \in Items : /\ Column[i] \in {"template", "reveal", "tag", "hash"}
                        /\ {NamedFrom[i], LocatedFrom[i]} \subseteq Nat
    /\ \A b \in Builds : {Version[b].classifier, Version[b].restamp, Version[b].derivation} \subseteq Nat
    /\ \A a, b \in Builds : a <= b =>
         /\ Version[a].classifier <= Version[b].classifier
         /\ Version[a].restamp <= Version[b].restamp
         /\ Version[a].derivation <= Version[b].derivation
    /\ \A i \in Items \ Rereads : Column[i] # "hash" =>
         \A a, b \in Builds : NamedFrom[i] <= Version[a].classifier => NamedFrom[i] <= Version[b].classifier

VARIABLES
    stamp,    \* item -> what the column holds, <<>> for NULL; its domain is the table
    gates,    \* meta: classifier, abi, restamp, token, market; <<>> when unset
    tokens,   \* covenant -> what its derived rows rest on
    verdicts, \* market_programs: covenant -> what its verdict rests on
    queue,    \* covenants waiting in the projection queue
    runs,     \* derivation_runs: outcomes, oldest first
    proc,     \* the process [pc, mode, build, after, ids]
    opened,   \* builds of the processes so far
    faulted,  \* statements that failed so far
    late      \* ghost: items restamped after the token gate vouched for their version

upvars == <<stamp, gates, tokens, verdicts, queue, runs, proc, opened, faulted, late>>
derivedTables == <<tokens, verdicts, queue, runs>>

Unread == <<>>
Generic == <<"generic">>
Named == <<"named">>

V == Version[proc.build]
Down == [pc |-> "down", mode |-> "serve", build |-> 0, after |-> 0, ids |-> {}]

\* registry().decode and kcc20::revealed_template; kcc1_template_hash.
Reads(i) ==
    IF Column[i] = "hash" THEN <<"hash", V.abi>>
    ELSE IF \/ NamedFrom[i] <= V.classifier
            \/ Column[i] = "reveal" /\ LocatedFrom[i] <= V.restamp
    THEN Named ELSE Generic

\* Mutant form: the derivation constant alone.
DerivationOnly == <<V.derivation>>

\* token_derivation_stamp: composed of every version that changes a reading.
TokenStamp == <<V.derivation, V.classifier, V.restamp>>

Candidates == {Owner[i] : i \in {j \in DOMAIN stamp : Column[j] \in {"template", "reveal"} /\ stamp[j] = Named}}
Derivation(c) == <<V.derivation, {i \in DOMAIN stamp : Owner[i] = c /\ stamp[i] = Named}>>
Verdict(c) == <<V.matcher, IF c \in DOMAIN tokens THEN tokens[c] ELSE <<>>>>
-----------------------------------------------------------------------------
UpInit ==
    /\ stamp = [i \in Legacy |-> Unread]
    /\ gates = [classifier |-> <<>>, abi |-> <<>>, restamp |-> <<>>, token |-> <<>>, market |-> <<>>]
    /\ tokens = <<>> /\ verdicts = <<>> /\ queue = {} /\ runs = <<>>
    /\ proc = Down /\ opened = <<>> /\ faulted = 0 /\ late = {}

\* serve, restamp or reverify: one holder of the writer lease.
OpenStore ==
    /\ proc.pc = "down" /\ Len(opened) < MaxOpens
    /\ \E b \in Builds, mode \in {"serve", "restamp", "reverify"} :
         /\ ~Rollbacks /\ opened # <<>> => opened[Len(opened)] <= b
         /\ proc' = [pc |-> "reclassify", mode |-> mode, build |-> b, after |-> 0, ids |-> {}]
         /\ opened' = Append(opened, b)
    /\ UNCHANGED <<stamp, gates, derivedTables, faulted, late>>

MovesTo(pc, after, ids) ==
    proc' = [pc |-> pc, mode |-> proc.mode, build |-> proc.build, after |-> after, ids |-> ids]
To(pc) == MovesTo(pc, proc.after, proc.ids)

\* Mutant form: the gate is recorded, what it guards is not cleared.
ClearsNothing(S) == stamp
Cleared(S) == [i \in DOMAIN stamp |-> IF i \in S THEN Unread ELSE stamp[i]]

ReclassifyIfStale ==
    /\ proc.pc = "reclassify" /\ To("rehash")
    /\ IF gates.classifier = <<V.classifier>> THEN UNCHANGED <<stamp, gates>>
       ELSE /\ stamp' = Cleared({i \in DOMAIN stamp \cap Rereads : stamp[i] = Generic})
            /\ gates' = [gates EXCEPT !.classifier = <<V.classifier>>]
    /\ UNCHANGED <<derivedTables, opened, faulted, late>>

RehashIfStale ==
    /\ proc.pc = "rehash" /\ To("template")
    /\ IF gates.abi = <<V.abi>> THEN UNCHANGED <<stamp, gates>>
       ELSE /\ stamp' = Cleared({i \in DOMAIN stamp : Column[i] = "hash"})
            /\ gates' = [gates EXCEPT !.abi = <<V.abi>>]
    /\ UNCHANGED <<derivedTables, opened, faulted, late>>

AfterColumn == [template |-> "reveal", reveal |-> "tag", tag |-> "hash", hash |-> "restamp"]

\* backfill_templates, backfill_payload_tags, backfill_kcc1_hashes: one batch.
Backfill ==
    /\ proc.pc \in DOMAIN AfterColumn
    /\ LET unread == {i \in DOMAIN stamp : Column[i] = proc.pc /\ stamp[i] = Unread} IN
       IF unread = {}
       THEN /\ MovesTo(IF proc.pc = "hash" /\ proc.mode = "reverify" THEN "force"
                       ELSE AfterColumn[proc.pc], 0, {})
            /\ UNCHANGED stamp
       ELSE /\ \E batch \in kSubset(Min({ReadBatch, Cardinality(unread)}), unread) :
                 stamp' = [i \in DOMAIN stamp |-> IF i \in batch THEN Reads(i) ELSE stamp[i]]
            /\ UNCHANGED proc
    /\ UNCHANGED <<gates, derivedTables, opened, faulted, late>>

\* restamp_kcc20_if_stale: one batch in rowid order, the gate at the end.
Restamp ==
    /\ proc.pc = "restamp"
    /\ LET todo == {i \in DOMAIN stamp : /\ Column[i] = "reveal" /\ i > proc.after
                                         /\ stamp[i] \in {Unread, Generic}}
       IN  IF gates.restamp = <<V.restamp>>
           THEN To("derive") /\ UNCHANGED <<stamp, gates, late>>
           ELSE IF todo = {}
           THEN /\ To("derive") /\ gates' = [gates EXCEPT !.restamp = <<V.restamp>>]
                /\ UNCHANGED <<stamp, late>>
           ELSE \E last \in todo :
                LET batch == {i \in todo : i <= last}
                    found == {i \in batch : LocatedFrom[i] <= V.restamp}
                IN  /\ Cardinality(batch) = Min({ReadBatch, Cardinality(todo)})
                    /\ MovesTo("restamp", last, {})
                    /\ stamp' = [i \in DOMAIN stamp |-> IF i \in found THEN Named ELSE stamp[i]]
                    /\ late' = IF gates.token = TokenStamp THEN late \cup found ELSE late
                    /\ UNCHANGED gates
    /\ UNCHANGED <<derivedTables, opened, faulted>>

\* force_reverify: the gates go in one statement.
ForceReverify ==
    /\ proc.pc = "force" /\ To("derive")
    /\ gates' = [classifier |-> gates.classifier, abi |-> gates.abi, restamp |-> gates.restamp,
                 token |-> <<>>, market |-> <<>>]
    /\ UNCHANGED <<stamp, derivedTables, opened, faulted, late>>
-----------------------------------------------------------------------------
(* derive_tokens_if_stale *)

Done == IF proc.mode = "serve" THEN "live" ELSE "down"
Relabelled == [n \in DOMAIN runs |-> IF runs[n] = "open" THEN "interrupted" ELSE runs[n]]
Closed(outcome) == [runs EXCEPT ![Len(runs)] = outcome]

\* begin_derivation_run, unless both gates are current.
BeginDerivation ==
    /\ proc.pc = "derive"
    /\ IF gates.token = TokenStamp /\ gates.market = <<V.matcher>>
       THEN To(Done) /\ UNCHANGED runs
       ELSE /\ To(IF gates.token = TokenStamp THEN "markets" ELSE "delete")
            /\ runs' = Append(Relabelled, "open")
    /\ UNCHANGED <<stamp, gates, tokens, verdicts, queue, opened, faulted, late>>

DeleteDerived ==
    /\ proc.pc = "delete"
    /\ tokens' = <<>>
    /\ MovesTo("chunks", proc.after, Candidates)
    /\ UNCHANGED <<stamp, gates, verdicts, queue, runs, opened, faulted, late>>

DeriveChunk ==
    /\ proc.pc = "chunks"
    /\ LET chunk == {c \in proc.ids : Cardinality({d \in proc.ids : d <= c}) <= ReadBatch} IN
       /\ tokens' = [c \in DOMAIN tokens \cup chunk |-> IF c \in chunk THEN Derivation(c) ELSE tokens[c]]
       /\ MovesTo(IF proc.ids = chunk THEN "programs" ELSE "chunks", proc.after, proc.ids \ chunk)
    /\ UNCHANGED <<stamp, gates, verdicts, queue, runs, opened, faulted, late>>

\* rederive_market_programs over every linked or stored market: an error stops
\* it part way and is swallowed by a full pass.
ReadMarkets(S) == [c \in DOMAIN verdicts \cup S |-> IF c \in S THEN Verdict(c) ELSE verdicts[c]]

DerivePrograms ==
    /\ proc.pc = "programs" /\ To("stamp")
    /\ LET all == DOMAIN tokens \cup DOMAIN verdicts IN
       \E read \in IF faulted < MaxStoreFaults THEN SUBSET all ELSE {all} :
         /\ verdicts' = ReadMarkets(read)
         /\ faulted' = IF read = all THEN faulted ELSE faulted + 1
    /\ UNCHANGED <<stamp, gates, tokens, queue, runs, opened, late>>

RecordStamp ==
    /\ proc.pc = "stamp" /\ To("finish")
    /\ gates' = [gates EXCEPT !.token = TokenStamp] /\ late' = {}
    /\ UNCHANGED <<stamp, derivedTables, opened, faulted>>

\* The pass over the markets alone, which records its gate itself.
MarketsPass ==
    /\ proc.pc = "markets"
    /\ LET all == DOMAIN tokens \cup DOMAIN verdicts IN
       \/ /\ verdicts' = ReadMarkets(all) /\ To("finish")
          /\ gates' = [gates EXCEPT !.market = <<V.matcher>>]
          /\ UNCHANGED <<runs, faulted>>
       \/ /\ faulted < MaxStoreFaults /\ faulted' = faulted + 1
          /\ \E read \in SUBSET all : verdicts' = ReadMarkets(read)
          /\ runs' = Closed("failed") /\ To(Done)
          /\ UNCHANGED gates
    /\ UNCHANGED <<stamp, tokens, queue, opened, late>>

FinishRun ==
    /\ proc.pc = "finish" /\ To(Done)
    /\ runs' = Closed("ok")
    /\ UNCHANGED <<stamp, gates, tokens, verdicts, queue, opened, faulted, late>>

\* A statement fails: an open or a command ends with the error; in serve the
\* follower logs it and goes on, a failed pass closing its row as failed.
StatementFails ==
    /\ proc.pc \notin {"down", "live", "programs", "markets"} /\ faulted < MaxStoreFaults
    /\ LET passes == proc.pc \in {"delete", "chunks", "stamp"} IN
       /\ runs' = IF passes THEN Closed("failed") ELSE runs
       /\ IF proc.mode = "serve" /\ (passes \/ proc.pc \in {"restamp", "derive", "finish"})
          THEN To(IF proc.pc = "restamp" THEN "derive" ELSE "live")
          ELSE proc' = Down
    /\ faulted' = faulted + 1
    /\ UNCHANGED <<stamp, gates, tokens, verdicts, queue, opened, late>>

ProcessDies ==
    /\ proc.pc # "down" /\ proc' = Down
    /\ UNCHANGED <<stamp, gates, derivedTables, opened, faulted, late>>
-----------------------------------------------------------------------------
(* The follower *)

\* A block's rows are stamped as they are written.
WriteRow ==
    /\ proc.pc = "live"
    /\ \E i \in Items \ DOMAIN stamp :
         /\ stamp' = [j \in DOMAIN stamp \cup {i} |-> IF j = i THEN Reads(i) ELSE stamp[j]]
         /\ queue' = queue \cup {Owner[i]}
    /\ UNCHANGED <<gates, tokens, verdicts, runs, proc, opened, faulted, late>>

\* rederive_affected, for the tokens among them.
DrainQueue ==
    /\ proc.pc = "live" /\ queue # {}
    /\ LET hit == queue \cap (DOMAIN tokens \cup Candidates) IN
       /\ tokens' = [c \in DOMAIN tokens \cup hit |-> IF c \in hit THEN Derivation(c) ELSE tokens[c]]
       /\ verdicts' = [c \in DOMAIN verdicts \cup hit |->
                         IF c \in hit THEN <<V.matcher, Derivation(c)>> ELSE verdicts[c]]
    /\ queue' = {}
    /\ UNCHANGED <<stamp, gates, runs, proc, opened, faulted, late>>

UpNext ==
    \/ OpenStore \/ ReclassifyIfStale \/ RehashIfStale \/ Backfill \/ Restamp \/ ForceReverify
    \/ BeginDerivation \/ DeleteDerived \/ DeriveChunk \/ DerivePrograms \/ RecordStamp
    \/ MarketsPass \/ FinishRun \/ StatementFails \/ ProcessDies \/ WriteRow \/ DrainQueue

UpSpec == UpInit /\ [][UpNext]_upvars
-----------------------------------------------------------------------------
(* Properties *)

\* Whatever builds ran before and wherever they died, a process that follows
\* the chain has left no stored reading behind its own decoder: nothing is
\* unread, no hash is of another ABI, and nothing its registry or locator can
\* name is filed as generic (reclassify_if_stale, the backfills,
\* restamp_kcc20_if_stale), as long as the restamp did not fail.
StampsSettled ==
    proc.pc = "live" /\ gates.restamp = <<V.restamp>> =>
        \A i \in DOMAIN stamp :
            /\ stamp[i] # Unread
            /\ Column[i] = "hash" \/ Reads(i) = Named => stamp[i] = Reads(i)

\* When the token gate says that the derivation is complete, it is: a row for
\* each candidate, each derived by this build from the readings now stored,
\* and none besides (derive_tokens_if_stale: "the last completed
\* token-derivation version").  Excepted are readings that a restamp found
\* only after the gate: the gate takes the restamp version from the build,
\* not from what the restamp recorded (README, section 4).
ServedTokensWhole ==
    proc.pc = "live" /\ gates.token = TokenStamp /\ queue = {} /\ late = {} =>
        tokens = [c \in Candidates |-> Derivation(c)]

\* A version gate never vouches for work an interrupted, failed or older run
\* left undone (open_writer, reclassify_if_stale, derive_tokens_if_stale).
GatesTellTruth == StampsSettled /\ ServedTokensWhole

\* tokens.json says "pending" unless the stored stamp is
\* TOKEN_DERIVATION_VERSION and the queue is empty.
Pending == gates.token # <<V.derivation>> \/ queue # {}

\* token_derivation_version() serves as the "derivation pending" signal: it is
\* off once the derivation is complete and the queue has drained.  Not so: the
\* stored stamp names the reader versions too (README, section 4).
PendingClears == proc.pc = "live" /\ gates.token = TokenStamp /\ queue = {} => ~Pending
================================================================================
