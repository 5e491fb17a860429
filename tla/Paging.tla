-------------------------------- MODULE Paging --------------------------------
(***************************************************************************)
(* A reader walking one of the store's lists page by page while the writer *)
(* changes it.  Every list is sorted by a compound key, a page starts      *)
(* strictly past the key the previous one ended on, and one row more than  *)
(* asked for is read to learn whether another page follows.                *)
(***************************************************************************)
EXTENDS Integers, FiniteSets

CONSTANTS
    Walked,      \* the lists walked, a subset of AllKinds
    RowIds,     \* row ids: covenant ids, owners, event or row numbers
    Places,     \* values of the leading key: daa or balance
    TokenOf,    \* row id -> token, for the trades of all tokens
    MaxLimit,   \* the endpoint's largest page
    MaxWrites   \* bound: changes of the list during a walk

AllKinds == {"grid", "directory", "trades", "holders", "tokenTrades",
             "eventsUp", "eventsDown", "outputs", "failures", "markets"}
ASSUME PagingAssumption ==
    /\ Walked \subseteq AllKinds
    /\ RowIds \subseteq Nat /\ IsFiniteSet(RowIds) /\ Places \subseteq Int
    /\ TokenOf \in [RowIds -> Int]
    /\ MaxLimit \in Nat \ {0}

VARIABLES
    list,     \* row id -> leading key, for the rows there are
    pageWalk,     \* [kind, limit, cursor, phase, writes]
    pages,    \* <<row, part>> -> how often a page carried it
    stable    \* rows whose key is what it was when the walk began

pgvars == <<list, pageWalk, pages, stable>>

NoCursor == <<>>
\* The sort key of each list's rows; a descending column is negated.
GridKey(i, place) == <<-place, -i>>
DirectoryKey(i, place) == <<-place, -i>>
GlobalTradesKey(i, place) == <<-place, -TokenOf[i], -i>>
HoldersKey(i, place) == <<-place, i>>
TokenTradesKey(i) == <<-i>>
EventsKey(i, newestFirst) == IF newestFirst THEN <<-i>> ELSE <<i>>
OutputsKey(i) == <<i>>
FailuresKey(i) == <<i>>
\* The markets, or the pools among them, are listed by market id: one row each.
MarketsKey(i) == <<-i>>

SortKey(kind, i, place) ==
    CASE kind = "grid"        -> GridKey(i, place)
      [] kind = "directory"   -> DirectoryKey(i, place)
      [] kind = "trades"      -> GlobalTradesKey(i, place)
      [] kind = "holders"     -> HoldersKey(i, place)
      [] kind = "tokenTrades" -> TokenTradesKey(i)
      [] kind = "eventsUp"    -> EventsKey(i, FALSE)
      [] kind = "eventsDown"  -> EventsKey(i, TRUE)
      [] kind = "outputs"     -> OutputsKey(i)
      [] kind = "failures"    -> FailuresKey(i)
      [] kind = "markets"     -> MarketsKey(i)
Lex(a, b) == \E n \in DOMAIN a : a[n] < b[n] /\ \A m \in 1..(n - 1) : a[m] = b[m]
\* Mutant form: the cursor compares the leading column alone.
PastLeading(cursor, key) == cursor = NoCursor \/ cursor[1] < key[1]
PastCursor(cursor, key) == cursor = NoCursor \/ Lex(cursor, key)

\* An event comes with all its deltas.
Parts(kind, i) == IF kind \in {"eventsUp", "eventsDown"} /\ i % 2 = 0 THEN {1, 2} ELSE {1}
\* The application pages are clamped a second time by the store.
StoreCap(kind, n) == IF kind \in {"outputs", "failures"} /\ n > MaxLimit + 1 THEN MaxLimit + 1 ELSE n
-----------------------------------------------------------------------------
Walk(kind, limit, cursor, phase, writes) ==
    [kind |-> kind, limit |-> limit, cursor |-> cursor, phase |-> phase, writes |-> writes]

PagingInit ==
    /\ list \in UNION {[S -> Places] : S \in SUBSET RowIds}
    /\ \E k \in Walked, limit \in 1..MaxLimit :
         pageWalk = Walk(k, limit, NoCursor, "walking", 0)
    /\ pages = [x \in RowIds \X {1, 2} |-> 0]
    /\ stable = DOMAIN list

KeyOf(i) == SortKey(pageWalk.kind, i, list[i])
PastRows == {i \in DOMAIN list : PastCursor(pageWalk.cursor, KeyOf(i))}
\* ORDER BY the key LIMIT n
FirstRows(n) == {i \in PastRows : Cardinality({j \in PastRows : Lex(KeyOf(j), KeyOf(i))}) < n}

\* One page: over-fetch by one, truncate, and name the last row as the cursor
\* when more remain.
ReadPage ==
    /\ pageWalk.phase = "walking"
    /\ LET fetched == FirstRows(StoreCap(pageWalk.kind, pageWalk.limit + 1))
           more == Cardinality(fetched) > pageWalk.limit
           page == IF more THEN FirstRows(pageWalk.limit) ELSE fetched
       IN  /\ pages' = [x \in DOMAIN pages |->
                          IF x[1] \in page /\ x[2] \in Parts(pageWalk.kind, x[1]) THEN pages[x] + 1 ELSE pages[x]]
           /\ IF more
              THEN \E last \in page :
                     /\ \A i \in page : ~Lex(KeyOf(last), KeyOf(i))
                     /\ pageWalk' = Walk(pageWalk.kind, pageWalk.limit, KeyOf(last), "walking", pageWalk.writes)
              ELSE pageWalk' = Walk(pageWalk.kind, pageWalk.limit, pageWalk.cursor, "done", pageWalk.writes)
    /\ UNCHANGED <<list, stable>>

\* The writer: a new row, a row that moves, a row a reorg takes back.
ListWrite ==
    /\ pageWalk.phase = "walking" /\ pageWalk.writes < MaxWrites
    /\ \E i \in RowIds :
         /\ \/ \E p \in Places : list' = [j \in DOMAIN list \cup {i} |-> IF j = i THEN p ELSE list[j]]
            \/ list' = [j \in DOMAIN list \ {i} |-> list[j]]
         /\ list' # list
         /\ stable' = stable \ {i}
    /\ pageWalk' = Walk(pageWalk.kind, pageWalk.limit, pageWalk.cursor, "walking", pageWalk.writes + 1)
    /\ UNCHANGED pages

PagingNext == ReadPage \/ ListWrite
PagingSpec == PagingInit /\ [][PagingNext]_pgvars
-----------------------------------------------------------------------------
\* A finished walk has served every row the writer left alone exactly once and
\* whole, whatever moved around it: no page boundary inside a group of equal
\* leading keys drops or repeats a row (store.rs list_page,
\* global_token_trades_page, token_balances_page; tokens.rs token_events_page;
\* api.rs trim_complete_event_page, page_market_entries).
PagesCoverStableRows ==
    pageWalk.phase = "done" =>
      \A i \in stable : \A n \in Parts(pageWalk.kind, i) : pages[<<i, n>>] = 1
=============================================================================
