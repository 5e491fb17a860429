------------------------------ MODULE DurableReads ------------------------------
(***************************************************************************)
(* The two ways a client without an open stream meets the delivery log: it *)
(* polls /events page by page, and it loads a snapshot and continues from  *)
(* the stream_cursor printed in it.  Both answers are put together from    *)
(* several reads of a database the writer keeps committing to.             *)
(***************************************************************************)
EXTENDS Integers, Sequences, FiniteSets

CONSTANTS
    PageSizes,    \* --event-page-size values
    StorePage,    \* MAX_PUBLIC_DELIVERY_PAGE
    MaxRecords,   \* bound: records ever committed
    MaxGrids      \* bound: snapshots built

\* parse_events_request clamps a limit to --event-page-size, which nothing bounds
\* above; the promise to pollers needs it to leave room for the record beyond the
\* page (README, section 4).
ASSUME PageAssumption ==
    /\ StorePage \in Nat
    /\ \A size \in PageSizes : size \in Nat /\ size < StorePage

VARIABLES
    records,   \* delivery_log: "match" or "other" by stream sequence, for the poller's filter
    durablePoller,    \* [size, limit, cursor, got, pc, high]: got is a set of sequences
    grid       \* [pc, rows, cursor, built]: rows is the commit the rows were read at

drvars == <<records, durablePoller, grid>>

DurableInit ==
    /\ records = <<>>
    /\ \E size \in PageSizes : \E asked \in 1..size :
         durablePoller = [size |-> size, limit |-> asked, cursor |-> 0, got |-> {}, pc |-> "idle", high |-> 0]
    /\ grid = [pc |-> "idle", rows |-> 0, cursor |-> 0, built |-> 0]

\* A block or a repair: one record or several in one transaction.
CommitRecord ==
    /\ \E batch \in {<<"match">>, <<"other">>, <<"match", "match">>, <<"other", "match">>} :
         /\ Len(records) + Len(batch) <= MaxRecords
         /\ records' = records \o batch
    /\ UNCHANGED <<durablePoller, grid>>

\* events_page_json reads delivery_stream_info first ...
PollInfo ==
    /\ durablePoller.pc = "idle"
    /\ durablePoller' = [durablePoller EXCEPT !.pc = "info", !.high = Len(records)]
    /\ UNCHANGED <<records, grid>>

\* Mutant form: no record beyond the page is asked for.
FetchExact(limit) == IF limit > StorePage THEN StorePage ELSE limit
Fetch(limit) == IF limit + 1 > StorePage THEN StorePage ELSE limit + 1

\* The first n members of a set of sequence numbers.
Oldest(n, S) == {x \in S : Cardinality({y \in S : y <= x}) <= n}

\* ... and then the page, from whatever is committed by now.
PollPage ==
    /\ durablePoller.pc = "info"
    /\ LET hits == {n \in DOMAIN records : n > durablePoller.cursor /\ records[n] = "match"}
           fetched == Oldest(Fetch(durablePoller.limit), hits)
           more == Cardinality(fetched) > durablePoller.limit
           page == IF more THEN Oldest(durablePoller.limit, fetched) ELSE fetched
       IN  \E end \in page \cup {durablePoller.cursor} :
             /\ \A n \in page : n <= end
             /\ durablePoller' = [durablePoller EXCEPT !.pc = "idle", !.got = @ \cup page,
                                    !.cursor = IF more \/ end > durablePoller.high THEN end
                                               ELSE durablePoller.high]
    /\ UNCHANGED <<records, grid>>

\* build_grid_snapshot reads the rows, then delivery_high_water.
GridRows ==
    /\ grid.pc = "idle" /\ grid.built < MaxGrids
    /\ grid' = [grid EXCEPT !.pc = "rows", !.rows = Len(records)]
    /\ UNCHANGED <<records, durablePoller>>
GridCursor ==
    /\ grid.pc = "rows"
    /\ grid' = [grid EXCEPT !.pc = "idle", !.cursor = Len(records), !.built = @ + 1]
    /\ UNCHANGED <<records, durablePoller>>

DurableNext == CommitRecord \/ PollInfo \/ PollPage \/ GridRows \/ GridCursor
DurableSpec == DurableInit /\ [][DurableNext]_drvars
-----------------------------------------------------------------------------
\* A poller that keeps following next never steps over a record its filter
\* selects, although the high water and the page are read at different commits
\* (main.rs events_page_json, store_delivery.rs delivery_page_filtered).
PollsSkipNothing ==
    \A n \in 1..durablePoller.cursor : records[n] = "match" => n \in durablePoller.got

\* The rows of a snapshot already show everything up to the cursor printed in
\* it, so that a client reopening from stream_cursor misses nothing
\* (main.rs build_grid_snapshot, clients/README.md "Both clients load the named
\* snapshot and reopen from its stream_cursor").  Not so when a record is
\* committed between the two reads (README, section 4).
SnapshotMeetsStream == grid.built > 0 /\ grid.pc = "idle" => grid.rows >= grid.cursor
=============================================================================
