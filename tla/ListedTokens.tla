------------------------------ MODULE ListedTokens ------------------------------
(***************************************************************************)
(* A launchpad's published token list checked against the index, and the   *)
(* vesting schedules proven from it.  A listed schedule is stored only     *)
(* when it reproduces the P2SH commitment of a lock cell of the token's    *)
(* genesis transaction; the claims made since are recovered by walking the *)
(* lock cell's spends (store.rs vesting_states, decode vesting.rs).        *)
(***************************************************************************)
EXTENDS Integers, Sequences, FiniteSets, SequencesExt

CONSTANTS
    Lists,        \* bodies the publisher may serve: sequences of entries [token, keys, plans]
    Owners,       \* token -> owners of its genesis outputs, [type, id]
    GenesisCells, \* lock cells of the genesis transactions
    Plan,         \* the plan of every lock that is ours: [creator, total, start, duration]
    TtlOk, TtlErr,   \* LIST_TTL_OK, LIST_TTL_ERR
    MaxListedTx, MaxCells, MaxReorgs, MaxListClock   \* bounds

GenesisTx == 1

\* What the publisher serves is a list.
ASSUME PublishedLists == \A list \in Lists : list \in Seq(ToSet(list))
\* The launch pays fresh lock cells: nothing claimed from them, nothing spent.
ASSUME FreshLocks ==
    /\ GenesisCells \in Seq(ToSet(GenesisCells))
    /\ \A i \in DOMAIN GenesisCells :
         /\ GenesisCells[i].tx = GenesisTx /\ GenesisCells[i].parent = 0 /\ GenesisCells[i].claimed = 0
         /\ GenesisCells[i].spent = 0 /\ GenesisCells[i].sig = "lost" /\ GenesisCells[i].shows = {}
         /\ GenesisCells[i].plan.start \in Int /\ GenesisCells[i].plan.total \in Int

VARIABLES
    cells,      \* rows of the lock covenants, [lock, tx, plan, claimed, parent, spent, sig, shows]
    schedules,  \* vesting_schedules: token -> [lock, plan, cell]
    fetched,    \* registry_cache: [at, body], body <<>> after a failed fetch
    followerSession,      \* "free", or "held" by the follower's session
    answer,     \* the last registry answer: "none", "ok" or "failed"
    listClock, ghost   \* ghost: [tx, reorgs]

ltvars == <<cells, schedules, fetched, followerSession, answer, listClock, ghost>>

LiveCells(i) == cells[i].spent = 0

ListedInit ==
    /\ cells = GenesisCells
    /\ schedules = <<>>
    /\ fetched = [at |-> -TtlOk - TtlErr, body |-> <<>>]
    /\ followerSession = "free" /\ answer = "none" /\ listClock = 0
    /\ ghost = [tx |-> GenesisTx, reorgs |-> 0]
-----------------------------------------------------------------------------
(* The chain, as the follower writes it into the index *)

\* A spent cell, a cell paid by a spend of c, and the plan of a lock beside it.
SpentCell(c, tx, sig, shows) ==
    [lock |-> c.lock, tx |-> c.tx, plan |-> c.plan, claimed |-> c.claimed, parent |-> c.parent,
     spent |-> tx, sig |-> sig, shows |-> shows]
CellFrom(c, tx, plan, claimed, parent) ==
    [lock |-> c.lock, tx |-> tx, plan |-> plan, claimed |-> claimed, parent |-> parent,
     spent |-> 0, sig |-> "lost", shows |-> {}]
OtherPlan(p) == [creator |-> p.creator, total |-> p.total, start |-> p.start + 1, duration |-> p.duration]

\* A claim leaves nothing or one continuation, and perhaps a cell of another
\* plan under the same covenant.  The witness shows the integers it pushes.
Claim ==
    /\ followerSession = "held" /\ ghost.tx < MaxListedTx
    /\ \E i \in DOMAIN cells : \E after \in {<<>>} \cup [1..1 -> cells[i].claimed..cells[i].plan.total],
          beside \in {<<>>, <<1>>}, shown \in SUBSET (1..Plan.total), sig \in {"kept", "lost"} :
         /\ LiveCells(i) /\ Len(cells) + Len(after) + Len(beside) <= MaxCells
         /\ sig = "lost" => shown = {}
         /\ cells' = [n \in DOMAIN cells |->
                IF n = i THEN SpentCell(cells[n], ghost.tx + 1, sig, shown) ELSE cells[n]]
              \o [n \in DOMAIN beside |->
                CellFrom(cells[i], ghost.tx + 1, OtherPlan(cells[i].plan), beside[n], cells[i].parent)]
              \o [n \in DOMAIN after |-> CellFrom(cells[i], ghost.tx + 1, cells[i].plan, after[n], i)]
    /\ ghost' = [tx |-> ghost.tx + 1, reorgs |-> ghost.reorgs]
    /\ UNCHANGED <<schedules, fetched, followerSession, answer, listClock>>

\* The last block goes: its cells are deleted, its spends undone.
Reorg ==
    /\ followerSession = "held" /\ ghost.reorgs < MaxReorgs /\ ghost.tx >= GenesisTx
    /\ cells' = [n \in {m \in DOMAIN cells : cells[m].tx < ghost.tx} |->
                   IF cells[n].spent = ghost.tx THEN SpentCell(cells[n], 0, "lost", {}) ELSE cells[n]]
    /\ ghost' = [tx |-> ghost.tx - 1, reorgs |-> ghost.reorgs + 1]
    /\ UNCHANGED <<schedules, fetched, followerSession, answer, listClock>>
Relaunch ==
    /\ followerSession = "held" /\ ghost.tx < GenesisTx
    /\ cells' = GenesisCells /\ ghost' = [tx |-> GenesisTx, reorgs |-> ghost.reorgs]
    /\ UNCHANGED <<schedules, fetched, followerSession, answer, listClock>>

SessionTurns ==
    /\ followerSession' = IF followerSession = "free" THEN "held" ELSE "free"
    /\ UNCHANGED <<cells, schedules, fetched, answer, listClock, ghost>>
Wait ==
    /\ listClock < MaxListClock /\ listClock' = listClock + 1
    /\ UNCHANGED <<cells, schedules, fetched, followerSession, answer, ghost>>
-----------------------------------------------------------------------------
(* Proving the listed schedules *)

\* prove_genesis_lock: the claimed plan, at nothing claimed, hashes to the
\* cell's commitment.
Proves(plan, i) == cells[i].plan = plan /\ plan.duration > 0 /\ cells[i].claimed = 0
Indexed(t) == ghost.tx >= GenesisTx
Locks(t) == {o.id : o \in {o \in Owners[t] : o.type = "cov"}}
\* Cells of the token's locks the listed plan reproduces.
ProvenCells(e) ==
    IF e.keys = <<>> \/ e.plans = <<>> \/ ~Indexed(e.token) THEN {}
    ELSE LET p == e.plans[1]
             plan == [creator |-> e.keys[1], total |-> p.total, start |-> p.start, duration |-> p.duration]
         IN  {i \in DOMAIN cells : cells[i].lock \in Locks(e.token) /\ cells[i].tx = GenesisTx /\ Proves(plan, i)}

\* prove_and_put_vesting_schedule: one row a token, one token a lock; a lock
\* already taken fails the statement and the rest of the list with it.
Taken(s, t, i) == \E u \in DOMAIN s \ {t} : s[u].lock = cells[i].lock
\* The locks of a token that prove the same plan are told apart by nothing:
\* the model takes the first cell, whichever of them the loop keeps.
ScheduleOf(e) ==
    LET i == Min(ProvenCells(e)) IN [lock |-> cells[i].lock, plan |-> cells[i].plan, cell |-> i]

\* The table once the first n entries of the list are in: of each token, the
\* last entry that proved anything.
Entries(list, n, t) == {k \in DOMAIN list : k <= n /\ list[k].token = t /\ ProvenCells(list[k]) # {}}
PutSchedules(list, n) ==
    [t \in DOMAIN schedules \cup {list[k].token : k \in {m \in DOMAIN list : Entries(list, n, list[m].token) # {}}} |->
        IF Entries(list, n, t) = {} THEN schedules[t]
        ELSE ScheduleOf(list[CHOOSE k \in Entries(list, n, t) : \A m \in Entries(list, n, t) : m <= k])]
Proved(list) ==
    LET bad == {n \in DOMAIN list : ProvenCells(list[n]) # {}
                  /\ Taken(PutSchedules(list, n - 1), list[n].token, Min(ProvenCells(list[n])))}
    IN  PutSchedules(list, IF bad = {} THEN Len(list) ELSE Min(bad) - 1)

\* registry_list_cached: one fetch under the lock, a failure kept for less long.
ListIsFresh == listClock - fetched.at < (IF fetched.body = <<>> THEN TtlErr ELSE TtlOk)
Loaded(next) ==
    IF ListIsFresh THEN next = fetched
    ELSE next \in {[at |-> listClock, body |-> b] : b \in Lists \cup {<<>>}}

\* GET /vesting: the refresh needs the writer session.
VestingRequest ==
    /\ \E next \in {fetched} \cup {[at |-> listClock, body |-> b] : b \in Lists \cup {<<>>}} :
         /\ Loaded(next) /\ fetched' = next
         /\ schedules' = IF followerSession = "free" THEN Proved(next.body) ELSE schedules
    /\ UNCHANGED <<cells, followerSession, answer, listClock, ghost>>

\* GET /registry.json calls the same function on a pooled reader, where the
\* INSERT of any provable entry fails and the whole answer with it.
RegistryRequest ==
    /\ \E next \in {fetched} \cup {[at |-> listClock, body |-> b] : b \in Lists \cup {<<>>}} :
         /\ Loaded(next) /\ fetched' = next
         /\ answer' = IF next.body = <<>> \/ \E n \in DOMAIN next.body : ProvenCells(next.body[n]) # {}
                      THEN "failed" ELSE "ok"
    /\ UNCHANGED <<cells, schedules, followerSession, listClock, ghost>>

ListedNext ==
    Claim \/ Reorg \/ Relaunch \/ SessionTurns \/ Wait \/ VestingRequest \/ RegistryRequest
ListedSpec == ListedInit /\ [][ListedNext]_ltvars
-----------------------------------------------------------------------------
(* What is served *)

\* vesting_schedule: hidden while its genesis cell is not in the index.
Visible(t) == t \in DOMAIN schedules /\ schedules[t].cell \in DOMAIN cells

\* A continuation is recovered from the witness that made it, or from its own
\* later reveal.
RecoveredState(i, c) == cells[i].sig = "kept" /\ cells[c].claimed \in {0} \cup cells[i].shows
Revealed(c) == ~LiveCells(c) /\ cells[c].sig = "kept"
OutputsOf(i) == {c \in DOMAIN cells : cells[c].tx = cells[i].spent /\ cells[c].lock = cells[i].lock}
\* Mutant form: a revealed state is not compared with the schedule.
AnyReveal(i, plan) ==
    {c \in OutputsOf(i) : ((cells[c].plan = plan /\ RecoveredState(i, c)) \/ Revealed(c)) /\ cells[c].claimed >= cells[i].claimed}
Matches(i, plan) ==
    {c \in OutputsOf(i) : cells[c].plan = plan /\ (RecoveredState(i, c) \/ Revealed(c)) /\ cells[c].claimed >= cells[i].claimed}

\* vesting_states: from a spent cell with something left to claim the walk goes
\* on to its only match; the states are the cells it reaches from the genesis cell.
WalksTo(i, s) ==
    LET m == Matches(i, s.plan)
    IN  IF LiveCells(i) \/ cells[i].claimed = s.plan.total \/ Cardinality(m) # 1 THEN {} ELSE m
States(s) ==
    {c \in DOMAIN cells : \A S \in SUBSET DOMAIN cells :
        s.cell \in S /\ (\A i \in S : WalksTo(i, s) \subseteq S) => c \in S}

\* vesting_value: nothing is published for a walk that broke off.
CurrentClaimed(s) ==
    {cells[i].claimed : i \in {j \in States(s) : LiveCells(j) \/ cells[j].claimed = s.plan.total}}

\* registry.rs check, the creator's key.
CreatorMatches(e) ==
    /\ e.keys # <<>> /\ Indexed(e.token)
    /\ \/ [type |-> "key", id |-> e.keys[1]] \in Owners[e.token]
       \/ Visible(e.token) /\ schedules[e.token].plan.creator = e.keys[1]
-----------------------------------------------------------------------------
\* The cell and every continuation of it.
Descendants(i) ==
    {c \in DOMAIN cells : \A S \in SUBSET DOMAIN cells :
        i \in S /\ (\A d \in DOMAIN cells : cells[d].parent \in S => d \in S) => c \in S}

\* What is published about a listed token is what the chain committed to: the
\* claimed amount is that of every cell of the lock still unspent, the walk
\* never leaves the lineage of the lock, and a creator's key is matched only
\* where the genesis transaction carries it, through claims, cells of other
\* plans beside them, lost signatures and reorgs (store.rs vesting_states, registry.rs check).
ListedFactsAreProven ==
    /\ \A t \in DOMAIN schedules : Visible(t) =>
         LET s == schedules[t]
             line == Descendants(s.cell)
         IN  /\ States(s) \subseteq line
             /\ \A claimed \in CurrentClaimed(s) :
                  \A i \in line : LiveCells(i) /\ cells[i].plan = s.plan => cells[i].claimed = claimed
    /\ \A list \in Lists : \A n \in DOMAIN list : CreatorMatches(list[n]) =>
         \/ [type |-> "key", id |-> list[n].keys[1]] \in Owners[list[n].token]
         \/ \E c \in DOMAIN cells : cells[c].tx = GenesisTx /\ cells[c].lock \in Locks(list[n].token)
                                    /\ cells[c].plan.creator = list[n].keys[1]

\* The checked registry is served whatever it proves (main.rs:3983 "This is
\* shared by the checked registry and vesting APIs, so either surface can warm
\* the durable proof cache.").
RegistryServed == answer = "failed" => fetched.body = <<>>
=============================================================================
