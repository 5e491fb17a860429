-------------------------------- MODULE Witness --------------------------------
(***************************************************************************)
(* Witnessing the logos of a published token list (witness.rs, main.rs     *)
(* witness_forever): every due entry is fetched, judged against the stored *)
(* row by apply_check, and saved as a row, a change record and a blob that *)
(* live in two databases written one statement at a time.                  *)
(***************************************************************************)
EXTENDS Integers, Sequences, FiniteSets

CONSTANTS
    Listed,      \* covenants the publisher may list
    Urls, Arts,  \* places of a logo, and contents found there
    Recheck,     \* RECHECK_MS, in units of BACKOFF_BASE_MS
    RowsMax,     \* MAX_WITNESS_ROWS
    ChangesMax,  \* MAX_CHANGES_PER_COVENANT
    MaxHours, MaxEdits,          \* bounds: clock, edits of the list,
    MaxMishaps, MaxMediaLosses   \* failures of ours, losses of the media database

None == "none"

\* Contents are told apart by their hash, and no hash is the absent column.
ASSUME WitnessAssumption == Recheck \in Nat /\ None \notin Arts

VARIABLES
    published,   \* the list now: covenant -> url
    witness,     \* listed_image_witness: covenant -> row
    changes,     \* listed_image_change: covenant -> sequence of <<from, to>>
    media,       \* listed_image_blob: the arts stored
    cycle,       \* witness_forever: [pc, entries, now, left]
    hours,       \* wall clock
    sighted,     \* ghost: covenant -> good fetches saved, [art, at, moved]
    moved,       \* ghost: covenants whose url changed since their last good fetch
    mishaps      \* ghost: [edits, faults, losses]

wtvars == <<published, witness, changes, media, cycle, hours, sighted, moved, mishaps>>

NoCycle == [pc |-> "idle", entries |-> <<>>, now |-> 0, left |-> {}]
Publishable == UNION {[S -> Urls] : S \in SUBSET Listed}

WitnessInit ==
    /\ published \in Publishable
    /\ witness = <<>> /\ changes = [c \in Listed |-> <<>>] /\ media = {}
    /\ cycle = NoCycle /\ hours = 0
    /\ sighted = [c \in Listed |-> <<>>] /\ moved = {}
    /\ mishaps = [edits |-> 0, faults |-> 0, losses |-> 0]
-----------------------------------------------------------------------------
(* apply_check *)

\* A delay doubles with every failure up to the fifth, and ends at RECHECK_MS.
Backoff(fails) ==
    LET delay == <<1, 2, 4, 8, 16>>[IF fails > 5 THEN 5 ELSE fails]
    IN  IF delay > Recheck THEN Recheck ELSE delay

Blank(url) == [url |-> url, observed |-> None, pending |-> None, state |-> "unavailable",
               fails |-> 0, count |-> 0, next |-> 0]

\* A good fetch settles what was pending.
Seen(row, art, state, count, now) ==
    [url |-> row.url, observed |-> art, pending |-> None, state |-> state,
     fails |-> 0, count |-> count, next |-> now + Recheck]
Settled(row, now) == Seen(row, row.observed, row.state, row.count, now)
\* The two adoptions: one leaves state alone, the other restores it.
Adopted(row, art, now) == Seen(row, art, row.state, row.count + 1, now)
Replaced(row, art, now) ==
    Seen(row, art, "witnessed", IF row.observed = art THEN row.count ELSE row.count + 1, now)

\* Mutant form: any other art is adopted at once.
SeenTwice(row, art) == TRUE
Agreed(row, art) == row.pending = art

\* The row after a good fetch, and whether its bytes are stored.
Judged(row, art, now, replaced) ==
    IF row.observed = None
    THEN [row |-> Seen(row, art, "witnessed", row.count, now), blob |-> TRUE]
    ELSE IF replaced THEN [row |-> Replaced(row, art, now), blob |-> TRUE]
    ELSE IF row.observed = art THEN [row |-> Settled(row, now), blob |-> FALSE]
    ELSE IF Agreed(row, art) THEN [row |-> Adopted(row, art, now), blob |-> TRUE]
    ELSE [row |-> [Settled(row, now) EXCEPT !.pending = art], blob |-> FALSE]

\* A source that fails or turned into something else never takes a witnessed
\* copy away.
Missed(row, outcome, now) ==
    [url |-> row.url, observed |-> row.observed, pending |-> row.pending,
     state |-> IF row.observed # None THEN row.state
               ELSE IF outcome = "not an image" THEN "not_an_image" ELSE "unavailable",
     fails |-> row.fails + 1, count |-> row.count, next |-> now + Backoff(row.fails + 1)]
-----------------------------------------------------------------------------
(* witness_forever *)

StartCycle ==
    /\ cycle.pc = "idle"
    /\ cycle' = [pc |-> "checking", entries |-> published, now |-> hours, left |-> DOMAIN published]
    /\ UNCHANGED <<published, witness, changes, media, hours, sighted, moved, mishaps>>

Stored(c) == IF c \in DOMAIN witness THEN witness[c] ELSE Blank(cycle.entries[c])
IsReplaced(c) == Stored(c).url # cycle.entries[c]
Due(c) == IsReplaced(c) \/ cycle.now >= Stored(c).next
Recorded(log, from, to) ==
    LET all == Append(log, <<from, to>>)
    IN  IF Len(all) > ChangesMax THEN Tail(all) ELSE all
Passed(c) == cycle' = [cycle EXCEPT !.left = @ \ {c}]

SkipEntry(c) ==
    /\ c \in cycle.left /\ ~Due(c)
    /\ Passed(c)
    /\ UNCHANGED <<published, witness, changes, media, hours, sighted, moved, mishaps>>

\* save_effect: the row, the change, the blob; `upto` is the last statement
\* that took effect, 3 when none failed.
Save(c, verdict, upto) ==
    /\ witness' = IF upto = 0 THEN witness
                  ELSE [d \in DOMAIN witness \cup {c} |-> IF d = c THEN verdict.row ELSE witness[d]]
    /\ changes' = IF upto >= 2 /\ verdict.row.count > Stored(c).count
                  THEN [changes EXCEPT ![c] = Recorded(@, Stored(c).observed, verdict.row.observed)]
                  ELSE changes
    /\ media' = IF upto >= 3 /\ verdict.blob THEN media \cup {verdict.row.observed} ELSE media
    /\ mishaps' = [mishaps EXCEPT !.faults = IF upto < 3 THEN @ + 1 ELSE @]
SaveSteps(c) ==
    IF c \notin DOMAIN witness /\ Cardinality(DOMAIN witness) >= RowsMax THEN {}
    ELSE {3} \cup (IF mishaps.faults < MaxMishaps THEN 0..2 ELSE {})

CheckGood(c) ==
    /\ c \in cycle.left /\ Due(c)
    /\ \E art \in Arts, upto \in SaveSteps(c) :
         LET row == [Stored(c) EXCEPT !.url = cycle.entries[c]]
         IN  /\ Save(c, Judged(row, art, cycle.now, IsReplaced(c)), upto)
             /\ sighted' = IF upto = 0 THEN sighted
                           ELSE [sighted EXCEPT ![c] =
                                   Append(@, [art |-> art, at |-> cycle.now, moved |-> IsReplaced(c) \/ c \in moved])]
             /\ moved' = IF upto = 0 THEN moved ELSE moved \ {c}
    /\ Passed(c)
    /\ UNCHANGED <<published, hours>>
CheckBad(c) ==
    /\ c \in cycle.left /\ Due(c)
    /\ \E outcome \in {"not an image", "failed"}, upto \in SaveSteps(c) \ {1, 2} :
         LET row == [Stored(c) EXCEPT !.url = cycle.entries[c]]
         IN  /\ Save(c, [row |-> Missed(row, outcome, cycle.now), blob |-> FALSE], upto)
             /\ moved' = IF upto # 0 /\ IsReplaced(c) THEN moved \cup {c} ELSE moved
    /\ Passed(c)
    /\ UNCHANGED <<published, hours, sighted>>
TableFull(c) ==
    /\ c \in cycle.left /\ Due(c) /\ SaveSteps(c) = {}
    /\ Passed(c)
    /\ UNCHANGED <<published, witness, changes, media, hours, sighted, moved, mishaps>>

\* Absence from a list that parsed is a statement too.
Delist ==
    /\ cycle.pc = "checking" /\ cycle.left = {}
    /\ witness' = [c \in DOMAIN witness |->
                     IF witness[c].state = "witnessed" /\ c \notin DOMAIN cycle.entries
                     THEN [witness[c] EXCEPT !.state = "delisted"] ELSE witness[c]]
    /\ cycle' = NoCycle
    /\ UNCHANGED <<published, changes, media, hours, sighted, moved, mishaps>>
-----------------------------------------------------------------------------
(* around it *)

PublishList ==
    /\ mishaps.edits < MaxEdits
    /\ published' \in Publishable \ {published}
    /\ mishaps' = [mishaps EXCEPT !.edits = @ + 1]
    /\ UNCHANGED <<witness, changes, media, cycle, hours, sighted, moved>>
HourPasses ==
    /\ hours < MaxHours /\ hours' = hours + 1
    /\ UNCHANGED <<published, witness, changes, media, cycle, sighted, moved, mishaps>>
WorkerRestarts ==
    /\ cycle # NoCycle /\ mishaps.faults < MaxMishaps
    /\ cycle' = NoCycle /\ mishaps' = [mishaps EXCEPT !.faults = @ + 1]
    /\ UNCHANGED <<published, witness, changes, media, hours, sighted, moved>>
\* {net}-media.db is in no backup.
MediaLost ==
    /\ media # {} /\ mishaps.losses < MaxMediaLosses
    /\ media' = {} /\ mishaps' = [mishaps EXCEPT !.losses = @ + 1]
    /\ UNCHANGED <<published, witness, changes, cycle, hours, sighted, moved>>

WitnessNext ==
    \/ StartCycle \/ Delist \/ PublishList \/ HourPasses \/ WorkerRestarts \/ MediaLost
    \/ \E c \in Listed : SkipEntry(c) \/ CheckGood(c) \/ CheckBad(c) \/ TableFull(c)
WitnessSpec == WitnessInit /\ [][WitnessNext]_wtvars
-----------------------------------------------------------------------------
\* Art that is served was earned: it is the first this covenant ever showed,
\* or two good fetches in a row agreed on it, a recheck apart when the url was
\* the same, or the publisher moved the logo; a later one is counted, and
\* nothing but leaving the list takes a witnessed copy away, whatever is lost
\* between the statements of a save (witness.rs apply_check, save_effect).
Earned(seen, art) ==
    \/ seen[1].art = art
    \/ \E n \in 2..Len(seen) :
         /\ seen[n].art = art
         /\ \/ seen[n].moved
            \/ seen[n - 1].art = art /\ seen[n].at >= seen[n - 1].at + Recheck
ServedArtEarned ==
    \A c \in DOMAIN witness : witness[c].observed # None =>
        /\ Earned(sighted[c], witness[c].observed)
        /\ witness[c].observed # sighted[c][1].art => witness[c].count > 0
        /\ witness[c].state \in {"witnessed", "delisted"}

\* A good fetch that was saved in full leaves a served logo with its bytes
\* (witness.rs:326 "losing it costs a refetch").
RefetchRestores ==
    [][\A c \in Listed :
         Len(sighted'[c]) > Len(sighted[c]) /\ mishaps' = mishaps /\ witness'[c].state = "witnessed"
           => witness'[c].observed \in media']_wtvars
=============================================================================
