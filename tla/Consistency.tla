------------------------------ MODULE Consistency ------------------------------
(***************************************************************************)
(* The cross-check with another indexer (main.rs): one task walks their    *)
(* listing page by page, compares each followed network's token book with  *)
(* it and publishes a report per network.  Every request goes through one  *)
(* budget that also stops at the first 402, 403 or 429.  An option is a    *)
(* set with at most one element.                                           *)
(***************************************************************************)
EXTENDS Integers, Sequences, FiniteSets, FiniteSetsExt

CONSTANTS
    Nets,        \* followed networks, in order
    OurBooks,    \* books a network may hold: token -> [supply, bal]
    TheirBooks,  \* books they may hold: token -> [supply, rows]
    Listings,    \* orders in which they may list their tokens, with unreadable items
    RequestCap,  \* CONSISTENCY_REQUEST_CAP
    PageLimit,   \* CONSISTENCY_PAGE_LIMIT
    MaxRounds    \* bound: runs of the task

Unreadable == "?"

\* No token has the name that stands for an unreadable item.
ASSUME ConsistencyAssumption ==
    /\ PageLimit \in Nat \ {0}
    /\ \A l \in Listings \cup {Nets} : Len(l) \in Nat /\ DOMAIN l = 1..Len(l)
    /\ \A b \in TheirBooks : Unreadable \notin DOMAIN b

VARIABLES
    ourBook,    \* network -> its book
    theirBook,  \* their book and listing
    gate,       \* PolitenessGate [spent, denied]
    walk,       \* the discovery walk [views, pages, fetched, whole]
    check,      \* the comparison under way [pc, net, ours, other, todo, unfetched]
    reports,    \* network -> option of its latest report
    round       \* runs begun

cvars == <<ourBook, theirBook, gate, walk, check, reports, round>>

TheOne(option) == CHOOSE x \in option : TRUE
NoView == [supply |-> {}, holders |-> {}, bal |-> {}]
-----------------------------------------------------------------------------
(* What the other side's answers say. *)

RowOwners(rows) == {rows[i].owner : i \in DOMAIN rows}
OwnerTotal(rows, o) ==
    MapThenSumSet(LAMBDA i : IF rows[i].owner = o THEN rows[i].amount ELSE 0, DOMAIN rows)

\* Mutant form: rows whose owner cannot be mapped are left out of the balances.
GuessesOwners(rows) ==
    LET kept == SelectSeq(rows, LAMBDA r : r.mapped)
    IN  [holders |-> {Len(rows)},
         bal |-> {[o \in RowOwners(kept) |-> OwnerTotal(kept, o)]}]

\* parse_other_holders: rows are counted, balances summed per owner, and given
\* only when normalize_owner mapped every owner.
ParseHolders(rows) ==
    [holders |-> {Len(rows)},
     bal |-> IF \A i \in DOMAIN rows : rows[i].mapped
             THEN {[o \in RowOwners(rows) |-> OwnerTotal(rows, o)]} ELSE {}]

\* json_supply and json_holders on an item of the listing or a stats body.
FillStats(view, book) ==
    [supply |-> IF view.supply = {} THEN book.supply ELSE view.supply,
     holders |-> IF view.holders = {} THEN {Cardinality(RowOwners(book.rows))} ELSE view.holders,
     bal |-> view.bal]

\* classify_pair, over options of views.
ClassifyToken(ours, other) ==
    IF other = {} THEN "only_kascov"
    ELSE IF ours = {} THEN "only_other"
    ELSE LET a == TheOne(ours)
             b == TheOne(other)
         IN  IF a.supply = {} \/ b.supply = {} THEN "not_comparable"
             ELSE IF \/ a.supply # b.supply
                     \/ b.holders # {} /\ a.holders # b.holders
                     \/ /\ a.bal # {} /\ b.bal # {}
                        /\ \E o \in DOMAIN TheOne(a.bal) :
                             \/ o \notin DOMAIN TheOne(b.bal)
                             \/ TheOne(a.bal)[o] # TheOne(b.bal)[o]
             THEN "differ" ELSE "agree"
-----------------------------------------------------------------------------
NewGate == [spent |-> 0, denied |-> FALSE]
NewWalk == [views |-> << >>, pages |-> 0, fetched |-> 0, whole |-> FALSE]
Idle == [pc |-> "idle", net |-> 0, ours |-> << >>, other |-> << >>,
         todo |-> {}, unfetched |-> {}]

ConsistencyInit ==
    /\ ourBook \in [DOMAIN Nets -> OurBooks]
    /\ \E b \in TheirBooks, l \in Listings :
         /\ \A i \in DOMAIN l : l[i] = Unreadable \/ l[i] \in DOMAIN b
         /\ DOMAIN b \subseteq {l[i] : i \in DOMAIN l}
         /\ theirBook = [book |-> b, list |-> l]
    /\ gate = NewGate /\ walk = NewWalk /\ check = Idle
    /\ reports = [n \in DOMAIN Nets |-> {}]
    /\ round = 0

MayRequest == ~gate.denied /\ gate.spent < RequestCap
StopReason == gate.denied \/ gate.spent >= RequestCap

\* The outcomes of polite_get: no request at all, an answer, a failure of the
\* call or of its body, or a refusal that ends the run's requests.
PoliteGet(answer) ==
    IF ~MayRequest THEN answer = "none" /\ UNCHANGED gate
    ELSE /\ answer \in {"ok", "failed", "refused"}
         /\ gate' = [spent |-> gate.spent + 1, denied |-> answer = "refused"]

BeginRun ==
    /\ check.pc = "idle" /\ round < MaxRounds
    /\ round' = round + 1 /\ gate' = NewGate /\ walk' = NewWalk
    /\ check' = [Idle EXCEPT !.pc = "walk"]
    /\ UNCHANGED <<ourBook, theirBook, reports>>

\* The items of the next page, by position in their listing.
PageFirst == walk.pages * PageLimit + 1
PageLast == Min({Len(theirBook.list), PageFirst + PageLimit - 1})
PageCount == Max({0, PageLast - PageFirst + 1})
PageItems == {theirBook.list[i] : i \in PageFirst..PageLast} \ {Unreadable}

\* assemble_discovery: the items may say what they know of the token or only
\* its id.
Assembled(detailed) ==
    [t \in DOMAIN walk.views \cup PageItems |->
       LET v == IF t \in DOMAIN walk.views THEN walk.views[t] ELSE NoView
       IN  IF t \in PageItems /\ detailed THEN FillStats(v, theirBook.book[t]) ELSE v]

\* One page of fetch_discovery_pages; the total may be missing from the
\* envelope.
FetchPage ==
    /\ check.pc = "walk"
    /\ \/ /\ \E answer \in {"none", "failed", "refused"} : PoliteGet(answer)
          /\ check' = [check EXCEPT !.pc = "nets"]
          /\ UNCHANGED walk
       \/ /\ PoliteGet("ok")
          /\ \E detailed, total \in BOOLEAN :
               LET done == \/ PageCount < PageLimit
                           \/ total /\ walk.fetched + PageCount >= Len(theirBook.list)
               IN  /\ walk' = [views |-> Assembled(detailed), pages |-> walk.pages + 1,
                               fetched |-> walk.fetched + PageCount, whole |-> done]
                   /\ check' = [check EXCEPT !.pc = IF done THEN "nets" ELSE "walk"]
    /\ UNCHANGED <<ourBook, theirBook, reports, round>>

Publish1(n, report) == reports' = [reports EXCEPT ![n] = {report}]

\* read_ours for the next network, and the run-level reasons under which
\* nothing is compared.  A network whose store cannot be read keeps its report.
StartNetwork ==
    /\ check.pc = "nets" /\ check.net < Len(Nets)
    /\ LET n     == check.net + 1
           mine  == ourBook[n]
           views == [t \in DOMAIN mine |->
                       [supply |-> mine[t].supply, holders |-> {Cardinality(DOMAIN mine[t].bal)},
                        bal |-> {}]]
           both  == DOMAIN mine \cap DOMAIN walk.views
           mute  == \/ walk.pages = 0 \/ DOMAIN walk.views = {}
                    \/ both = {} /\ DOMAIN mine # {}
       IN  \/ /\ check' = [check EXCEPT !.net = n]
              /\ UNCHANGED reports
           \/ /\ mute
              /\ check' = [check EXCEPT !.net = n]
              /\ Publish1(n, [reason |-> TRUE, verdicts |-> << >>])
           \/ /\ ~mute
              /\ \E topsRead \in BOOLEAN :
                   check' = [pc |-> "stats", net |-> n,
                             ours |-> [t \in DOMAIN mine |->
                               IF topsRead /\ t \in both
                               THEN [views[t] EXCEPT !.bal = {mine[t].bal}] ELSE views[t]],
                             other |-> walk.views, todo |-> both, unfetched |-> both]
              /\ UNCHANGED reports
    /\ UNCHANGED <<ourBook, theirBook, gate, walk, round>>

\* The two requests about one common token, in a fixed order.
Current == CHOOSE t \in check.todo : \A i, j \in DOMAIN theirBook.list :
             theirBook.list[i] = t /\ theirBook.list[j] \in check.todo => i <= j

\* The comparison goes on with another view of the current token.
Goes(pc, view, todo, unfetched) ==
    check' = [pc |-> pc, net |-> check.net, ours |-> check.ours,
              other |-> [check.other EXCEPT ![Current] = view],
              todo |-> todo, unfetched |-> unfetched]

FetchStats ==
    /\ check.pc = "stats" /\ check.todo # {} /\ MayRequest
    /\ \E answer \in {"ok", "failed", "refused"} :
         LET view == check.other[Current]
         IN  /\ PoliteGet(answer)
             /\ Goes("holders",
                     IF answer = "ok" THEN FillStats(view, theirBook.book[Current]) ELSE view,
                     check.todo, check.unfetched)
    /\ UNCHANGED <<ourBook, theirBook, walk, reports, round>>

FetchHolders ==
    /\ check.pc = "holders"
    /\ \E answer \in {"none", "ok", "failed", "refused"} :
         LET view == check.other[Current]
             h == ParseHolders(theirBook.book[Current].rows)
             spent == gate'.denied \/ gate'.spent >= RequestCap
         IN  /\ PoliteGet(answer)
             /\ Goes("stats",
                     IF answer = "ok" THEN [supply |-> view.supply, holders |-> h.holders, bal |-> h.bal]
                     ELSE view,
                     check.todo \ {Current},
                     IF spent THEN check.unfetched ELSE check.unfetched \ {Current})
    /\ UNCHANGED <<ourBook, theirBook, walk, reports, round>>

View(views, t) == IF t \in DOMAIN views THEN {views[t]} ELSE {}

\* The union of both directories is classified and the report replaced.
Compare ==
    /\ check.pc = "stats" /\ (check.todo = {} \/ ~MayRequest)
    /\ Publish1(check.net,
         [reason |-> FALSE,
          verdicts |-> [t \in DOMAIN check.ours \cup DOMAIN check.other |->
            LET v == ClassifyToken(View(check.ours, t), View(check.other, t))
            IN  [verdict |-> v,
                 stopped |-> v = "not_comparable" /\ t \in check.unfetched /\ StopReason,
                 partial |-> ~walk.whole]]])
    /\ check' = [Idle EXCEPT !.pc = "nets", !.net = check.net]
    /\ UNCHANGED <<ourBook, theirBook, gate, walk, round>>

\* All networks done; the next run starts with a fresh gate.
EndRun ==
    /\ check.pc = "nets" /\ check.net = Len(Nets)
    /\ check' = Idle
    /\ UNCHANGED <<ourBook, theirBook, gate, walk, reports, round>>

ConsistencyNext ==
    \/ BeginRun \/ FetchPage \/ StartNetwork \/ FetchStats \/ FetchHolders
    \/ Compare \/ EndRun

ConsistencySpec == ConsistencyInit /\ [][ConsistencyNext]_cvars
-----------------------------------------------------------------------------
SplitRows(t) == Len(theirBook.book[t].rows) # Cardinality(RowOwners(theirBook.book[t].rows))

\* The two books say the same of a token: supply, owners and each owner's total.
SameBooks(n, t) ==
    LET a == ourBook[n][t]
        b == theirBook.book[t]
    IN  /\ a.supply = b.supply
        /\ DOMAIN a.bal = RowOwners(b.rows)
        /\ \A o \in DOMAIN a.bal : a.bal[o] = OwnerTotal(b.rows, o)

\* What a published report says of a token is true of the two books it was
\* made from, whatever requests failed or were never made: a difference exists,
\* agreement covers the supply, a token said to be on one side is absent on the
\* other.  Two readings are excepted because the code reports them otherwise:
\* a listing cut short after its first page still yields only_kascov, and
\* an owner with several rows is counted once per row (parse_other_holders).
VerdictsAreTrue ==
    \A n \in DOMAIN Nets : \A r \in reports[n] : \A t \in DOMAIN r.verdicts :
      LET v == r.verdicts[t]
      IN  /\ v.verdict = "differ" => SplitRows(t) \/ ~SameBooks(n, t)
          /\ v.verdict = "agree" => ourBook[n][t].supply = theirBook.book[t].supply
          /\ v.verdict = "only_kascov" => v.partial \/ t \notin DOMAIN theirBook.book
          /\ v.verdict = "only_other" => t \notin DOMAIN ourBook[n]
================================================================================
