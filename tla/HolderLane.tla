------------------------------ MODULE HolderLane ------------------------------
(***************************************************************************)
(* The limiter in front of the tool endpoints and the holder lane beside   *)
(* it (main.rs ToolLimiter, take_tool_slot, lane_mint_handler): one global *)
(* bucket, an hourly count per client address, and for whoever proves that *)
(* its key holds the token a pass of limited life with a larger count.     *)
(***************************************************************************)
EXTENDS Integers, FiniteSets

CONSTANTS
    Ips,          \* client addresses
    Holders,      \* kaspa addresses that may prove themselves
    Secrets,      \* values of KASCOV_LANE_SECRET, Unarmed among them
    ToolBucket,   \* TOOL_BUCKET_CAP
    HourLength,   \* ticks of an hour; a tick refills one run
    IpPerHour, LanePerHour,   \* TOOL_PER_IP_PER_HOUR, LANE_PER_ADDR_PER_HOUR
    PassLife,     \* LANE_EXPIRY_DAYS
    RowsKept,     \* DEPLOY_IP_MAP_MAX
    MaxTicks, MaxBoots, MaxTrades,   \* bounds: clock, restarts, changes of a holding,
    MaxMints      \* mints under way at once

ASSUME LaneAssumption ==
    /\ {ToolBucket, LanePerHour, PassLife} \subseteq Nat
    /\ HourLength \in Nat \ {0}

VARIABLES
    limiter,   \* [tokens, ips, lanes]: the two maps hold [hour, runs]
    holding,   \* the addresses that hold the token in the index
    mints,     \* mints under way whose balance was read: [holder, secret, at]
    passes,    \* passes in the clients' hands: [holder, expiry, secret]
    secret,    \* the server's
    laneTick,
    ran,       \* ghost: runs admitted: [all, lane: <<holder, hour>> -> runs]
    heldAt,    \* ghost: holder -> when it last held, or -PassLife - 1
    resets     \* ghost: [boots, dropped, trades, waited]: restarts, maps dropped whole,
               \* trades, and the longest wait of a mint between balance and pass

hlvars == <<limiter, holding, mints, passes, secret, laneTick, ran, heldAt, resets>>

Unarmed == "unset"
Hour == laneTick \div HourLength
NewLimiter == [tokens |-> ToolBucket, ips |-> <<>>, lanes |-> <<>>]
NoPass == [holder |-> "none", expiry |-> 0, secret |-> Unarmed]

LaneInit ==
    /\ limiter = NewLimiter /\ holding \in SUBSET Holders /\ mints = {} /\ passes = {}
    /\ secret \in Secrets /\ laneTick = 0
    /\ ran = [all |-> 0, lane |-> <<>>]
    /\ heldAt = [h \in Holders |-> IF h \in holding THEN 0 ELSE -PassLife - 1]
    /\ resets = [boots |-> 0, dropped |-> 0, trades |-> 0, waited |-> 0]
-----------------------------------------------------------------------------
(* The two maps: rows of past hours go when the map is too long, and all of *)
(* it when that is not enough.                                              *)
Thinned(rows) ==
    LET fresh == {k \in DOMAIN rows : rows[k].hour = Hour}
    IN  IF Cardinality(DOMAIN rows) <= RowsKept THEN rows
        ELSE IF Cardinality(fresh) > RowsKept THEN <<>> ELSE [k \in fresh |-> rows[k]]
Dropped(rows) == Cardinality({k \in DOMAIN rows : rows[k].hour = Hour}) > RowsKept
RunsOf(rows, k) == IF k \in DOMAIN rows /\ rows[k].hour = Hour THEN rows[k].runs ELSE 0
Written(f, k, v) == [j \in DOMAIN f \cup {k} |-> IF j = k THEN v ELSE f[j]]
WithRuns(rows, k, n) == Written(rows, k, [hour |-> Hour, runs |-> n])

\* Mutant form: the lane leaves the global bucket alone.
OwnBucket(tokens) == tokens
LaneCharge(tokens) == tokens - 1

\* try_take_lane, try_take: the bucket first, so that a flood adds no rows; a
\* refusal still leaves its row.
LaneAllows(h) == limiter.tokens >= 1 /\ RunsOf(Thinned(limiter.lanes), h) < LanePerHour
IpAllows(ip) == limiter.tokens >= 1 /\ RunsOf(Thinned(limiter.ips), ip) < IpPerHour
AfterLane(h) ==
    IF limiter.tokens < 1 THEN limiter
    ELSE LET rows == Thinned(limiter.lanes)
         IN  IF LaneAllows(h)
             THEN [tokens |-> LaneCharge(limiter.tokens), ips |-> limiter.ips,
                   lanes |-> WithRuns(rows, h, RunsOf(rows, h) + 1)]
             ELSE [limiter EXCEPT !.lanes = WithRuns(rows, h, RunsOf(rows, h))]
AfterIp(l, ip) ==
    IF l.tokens < 1 THEN l
    ELSE LET rows == Thinned(l.ips)
         IN  IF RunsOf(rows, ip) < IpPerHour
             THEN [tokens |-> l.tokens - 1, lanes |-> l.lanes,
                   ips |-> WithRuns(rows, ip, RunsOf(rows, ip) + 1)]
             ELSE [l EXCEPT !.ips = WithRuns(rows, ip, RunsOf(rows, ip))]

\* Mutant form: a pass is read without looking at its expiry.
ReadsPass(p) == p # NoPass /\ secret # Unarmed /\ p.secret = secret
HonoursPass(p) == p # NoPass /\ secret # Unarmed /\ p.secret = secret /\ laneTick < p.expiry

\* take_tool_slot: the lane, then the floor everyone has.
Slot(p, ip) ==
    LET lane == HonoursPass(p) /\ LaneAllows(p.holder)
        runs == IF <<p.holder, Hour>> \in DOMAIN ran.lane THEN ran.lane[<<p.holder, Hour>>] ELSE 0
        before == IF HonoursPass(p) THEN AfterLane(p.holder) ELSE limiter
    IN  /\ limiter' = IF lane THEN before ELSE AfterIp(before, ip)
        /\ ran' = [all |-> ran.all + (IF lane \/ IpAllows(ip) THEN 1 ELSE 0),
                   lane |-> IF lane THEN Written(ran.lane, <<p.holder, Hour>>, runs + 1) ELSE ran.lane]
        /\ resets' = [resets EXCEPT !.dropped =
                        IF HonoursPass(p) /\ limiter.tokens >= 1 /\ Dropped(limiter.lanes) THEN @ + 1 ELSE @]
Admitted == ran'.all > ran.all
-----------------------------------------------------------------------------
\* A compile, publish, zk-verify, preflight or prove-holding call.
RunTool ==
    /\ \E p \in passes \cup {NoPass}, ip \in Ips : Slot(p, ip)
    /\ UNCHANGED <<holding, mints, passes, secret, laneTick, heldAt>>

\* lane_mint_handler: a slot, of the lane too when the caller has a pass
\* already; an armed lane, a signature and the balance, which is read on another
\* thread ("none" has not both); then a pass whose life begins when it is
\* written. Requests for one address at the same time count as one.
AskPass ==
    /\ Cardinality(mints) < MaxMints
    /\ \E h \in holding \cup {"none"}, p \in passes \cup {NoPass}, ip \in Ips :
         /\ Slot(p, ip)
         /\ mints' = IF Admitted /\ secret # Unarmed /\ h \in holding
                     THEN mints \cup {[holder |-> h, secret |-> secret, at |-> laneTick]} ELSE mints
    /\ UNCHANGED <<holding, passes, secret, laneTick, heldAt>>
\* mint_lane_token: all a later request needs, and nothing the server keeps.
PassFor(m) == [holder |-> m.holder, expiry |-> laneTick + PassLife, secret |-> m.secret]
GrantPass ==
    \E m \in mints :
        /\ mints' = mints \ {m}
        /\ passes' = passes \cup {PassFor(m)}
        /\ resets' = [resets EXCEPT !.waited = IF laneTick - m.at > @ THEN laneTick - m.at ELSE @]
        /\ UNCHANGED <<limiter, holding, secret, laneTick, ran, heldAt>>

Trade ==
    /\ resets.trades < MaxTrades
    /\ \E h \in Holders :
         /\ holding' = IF h \in holding THEN holding \ {h} ELSE holding \cup {h}
         /\ heldAt' = [heldAt EXCEPT ![h] = laneTick]
    /\ resets' = [resets EXCEPT !.trades = @ + 1]
    /\ UNCHANGED <<limiter, mints, passes, secret, laneTick, ran>>
Tick ==
    /\ laneTick < MaxTicks
    /\ laneTick' = laneTick + 1
    /\ limiter' = [limiter EXCEPT !.tokens = IF @ < ToolBucket THEN @ + 1 ELSE @]
    /\ heldAt' = [h \in Holders |-> IF h \in holding THEN laneTick + 1 ELSE heldAt[h]]
    /\ UNCHANGED <<holding, mints, passes, secret, ran, resets>>
\* A restart forgets the counts, the mints under way, and no pass unless the
\* secret was changed.
Reboot ==
    /\ resets.boots < MaxBoots
    /\ limiter' = NewLimiter /\ mints' = {} /\ secret' \in Secrets
    /\ resets' = [resets EXCEPT !.boots = @ + 1]
    /\ UNCHANGED <<holding, passes, laneTick, ran, heldAt>>

LaneNext == RunTool \/ AskPass \/ GrantPass \/ Trade \/ Tick \/ Reboot
LaneSpec == LaneInit /\ [][LaneNext]_hlvars
-----------------------------------------------------------------------------
\* The tools never run more often than the bucket and its refill allow, the
\* lane included; a proven address stays within its hourly count, once for
\* every restart and every time the map was dropped; and no lane run is older
\* than a pass's life, and the wait of a mint, after the address last held the
\* token, so that expiry is the revocation (main.rs ToolLimiter, take_tool_slot, verify_lane_token).
LaneWithinBounds ==
    /\ ran.all <= ToolBucket * (1 + resets.boots) + laneTick
    /\ \A k \in DOMAIN ran.lane :
         /\ ran.lane[k] <= LanePerHour * (1 + resets.boots + resets.dropped)
         /\ k[2] * HourLength < heldAt[k[1]] + PassLife + resets.waited
=============================================================================
