--------------------------- MODULE Clients_proofs ----------------------------
(*****************************************************************************)
(* What those who listen to the index may rely on, for every value of the   *)
(* bounds: webhook subscriptions are retired only for failures of their     *)
(* own, a client that polls the log skips nothing, the token rows it reads  *)
(* are what the indexed history derives, and the last word on a pending     *)
(* transaction is the one that holds.                                       *)
(*****************************************************************************)
EXTENDS PendingFeed, TokenLedger, Webhooks, DurableReads, FiniteSetTheorems, SequenceTheorems, WellFoundedInduction, TLAPS

-----------------------------------------------------------------------------
(* Webhooks: any records, requests, queue length and failure limit *)
(* The inductive invariant *)

\* Ids given out so far.
Given == 1..(nextHook - 1)

\* What the task holds between two steps.
Rounds(ids) == [probe : {"unknown", "some", "nobody"}, todo : SUBSET ids]

\* The tables are keyed by ids that were given out.
Keyed ==
    /\ nextHook \in Nat \ {0}
    /\ DOMAIN hooks \subseteq Given
    /\ sender \in Rounds(Given)
    /\ retired \subseteq Given
    /\ DOMAIN failures \subseteq Given
    /\ DOMAIN streak = Given
    /\ \A id \in DOMAIN failures : failures[id] \in Nat
    /\ \A id \in DOMAIN streak : streak[id] \in Nat

\* The count in memory never exceeds the failures there really were: it starts
\* at zero with the id, and is lost by a restart but never inherited.
CountedReally == \A id \in DOMAIN failures : failures[id] <= streak[id]

\* A retired id is neither subscribed nor about to be posted to, ever again.
GoneForGood == retired \cap (DOMAIN hooks \cup sender.todo) = {}

HInv == Keyed /\ CountedReally /\ GoneForGood /\ RetiredForCause

-----------------------------------------------------------------------------
(* One lemma per action that touches the tables *)

\* Before anybody subscribes there is nothing to retire.
LEMMA HookStarts == HookInit => HInv
  <1> SUFFICES ASSUME HookInit PROVE HInv
    OBVIOUS
  <1>1. /\ nextHook = 1 /\ DOMAIN hooks = {} /\ sender.todo = {} /\ retired = {}
        /\ DOMAIN failures = {} /\ DOMAIN streak = {}
    BY DEF HookInit
  <1>2. Given = {}
    BY <1>1 DEF Given
  <1>3. sender \in Rounds(Given)
    BY <1>2 DEF HookInit, Rounds
  <1>4. Keyed
    BY <1>1, <1>2, <1>3 DEF Keyed
  <1> QED
    BY <1>1, <1>4 DEF HInv, CountedReally, GoneForGood, RetiredForCause

\* A new subscription gets an id nobody had.
LEMMA SubscribeKeeps == HInv /\ SubscribeHook => HInv'
  <1> SUFFICES ASSUME HInv, SubscribeHook PROVE HInv'
    OBVIOUS
  <1>1. PICK q \in HookRequests :
            hooks' = Put(hooks, nextHook, [cov |-> q.cov, kind |-> q.kind])
    BY DEF SubscribeHook, NewId
  <1>2. /\ streak' = Put(streak, nextHook, 0) /\ nextHook' = nextHook + 1
        /\ UNCHANGED <<sender, failures, retired>>
    BY DEF SubscribeHook, NewId
  <1>3. DOMAIN hooks' = DOMAIN hooks \cup {nextHook}
    BY <1>1 DEF Put
  <1>4. /\ DOMAIN streak' = DOMAIN streak \cup {nextHook}
        /\ streak'[nextHook] = 0
        /\ \A x \in DOMAIN streak : x # nextHook => streak'[x] = streak[x]
    BY <1>2 DEF Put
  <1>5. Given' = Given \cup {nextHook} /\ nextHook \notin Given
    BY <1>2 DEF HInv, Keyed, Given
  <1>6. \A x \in Given : streak'[x] = streak[x]
    BY <1>4, <1>5 DEF HInv, Keyed
  <1>11. sender' \in Rounds(Given')
    BY <1>2, <1>5 DEF HInv, Keyed, Rounds
  <1>7. Keyed'
    BY <1>2, <1>3, <1>4, <1>5, <1>6, <1>11 DEF HInv, Keyed
  <1>8. CountedReally'
    BY <1>2, <1>6 DEF HInv, Keyed, CountedReally
  <1>9. GoneForGood'
    BY <1>2, <1>3, <1>5 DEF HInv, Keyed, GoneForGood
  <1>10. RetiredForCause'
    BY <1>2, <1>6 DEF HInv, Keyed, RetiredForCause
  <1> QED  BY <1>7, <1>8, <1>9, <1>10 DEF HInv

\* A deleted row is one reason less.
LEMMA UnsubscribeKeeps == HInv /\ Unsubscribe => HInv'
  <1> SUFFICES ASSUME HInv, Unsubscribe PROVE HInv'
    OBVIOUS
  <1>1. PICK id \in DOMAIN hooks : hooks' = Drop(hooks, id)
    BY DEF Unsubscribe
  <1>2. UNCHANGED <<nextHook, sender, failures, streak, retired>>
    BY DEF Unsubscribe
  <1>3. DOMAIN hooks' \subseteq DOMAIN hooks
    BY <1>1 DEF Drop
  <1>4. Given' = Given
    BY <1>2 DEF Given
  <1> QED
    BY <1>2, <1>3, <1>4 DEF HInv, Keyed, CountedReally, GoneForGood, RetiredForCause

\* Who is to be posted to is looked up in the table, where no retired id is.
LEMMA ReceiveKeeps == HInv /\ Receive => HInv'
  <1> SUFFICES ASSUME HInv, Receive PROVE HInv'
    OBVIOUS
  <1>1. /\ UNCHANGED <<hooks, nextHook, failures, streak, retired>>
        /\ sender'.todo \subseteq DOMAIN hooks
    BY DEF Receive, Matching
  <1>2. Given' = Given
    BY <1>1 DEF Given
  <1>3. sender' \in Rounds(Given)
    BY <1>1 DEF HInv, Keyed, Rounds, Receive, Matching
  <1>4. Keyed'
    BY <1>1, <1>2, <1>3 DEF HInv, Keyed
  <1> QED
    BY <1>1, <1>4 DEF HInv, Keyed, CountedReally, GoneForGood, RetiredForCause

\* A success clears the count and the streak of an id that is not retired.
LEMMA SuccessKeeps == HInv /\ PostSucceeds => HInv'
  <1> SUFFICES ASSUME HInv, PostSucceeds PROVE HInv'
    OBVIOUS
  <1>1. PICK id \in sender.todo :
          /\ sender' = [sender EXCEPT !.todo = @ \ {id}]
          /\ failures' = Drop(failures, id)
          /\ streak' = Put(streak, id, 0)
    BY DEF PostSucceeds, AfterSuccess
  <1>2. UNCHANGED <<hooks, nextHook, retired>>
    BY DEF PostSucceeds
  <1>3. id \in Given /\ id \notin retired /\ Given' = Given
    BY <1>2 DEF HInv, Keyed, GoneForGood, Given, Rounds
  <1>4. sender' \in Rounds(Given) /\ sender'.todo \subseteq sender.todo
    BY <1>1 DEF HInv, Keyed, Rounds
  <1>5. /\ DOMAIN failures' = DOMAIN failures \ {id}
        /\ \A x \in DOMAIN failures' : failures'[x] = failures[x]
    BY <1>1 DEF Drop
  <1>6. /\ DOMAIN streak' = DOMAIN streak /\ streak'[id] = 0
        /\ \A x \in DOMAIN streak : x # id => streak'[x] = streak[x]
    BY <1>1, <1>3 DEF HInv, Keyed, Put
  <1>7. Keyed'
    BY <1>2, <1>3, <1>4, <1>5, <1>6 DEF HInv, Keyed
  <1>8. CountedReally'
    BY <1>5, <1>6 DEF HInv, Keyed, CountedReally
  <1>9. GoneForGood' /\ RetiredForCause'
    BY <1>2, <1>3, <1>4, <1>6 DEF HInv, Keyed, GoneForGood, RetiredForCause
  <1> QED  BY <1>7, <1>8, <1>9 DEF HInv

\* A failure is counted in both; the id that reaches the limit really failed
\* so often, and leaves the table and the round together.
LEMMA FailureKeeps == HInv /\ PostFails => HInv'
  <1> SUFFICES ASSUME HInv, PostFails PROVE HInv'
    OBVIOUS
  <1> DEFINE n(id) == CountOf(failures, id) + 1
  <1>1. PICK id \in sender.todo :
          /\ sender' = [sender EXCEPT !.todo = @ \ {id}]
          /\ streak' = Put(streak, id, CountOf(streak, id) + 1)
          /\ \/ /\ n(id) < MaxFailures /\ failures' = Put(failures, id, n(id))
                /\ UNCHANGED <<hooks, retired>>
             \/ /\ ~ (n(id) < MaxFailures) /\ failures' = Drop(failures, id)
                /\ \/ hooks' = Drop(hooks, id) /\ retired' \subseteq retired \cup {id}
                   \/ UNCHANGED <<hooks, retired>>
    BY DEF PostFails
  <1>2. UNCHANGED nextHook
    BY DEF PostFails
  <1>3. id \in Given /\ id \notin retired /\ Given' = Given /\ id \in DOMAIN streak
    BY <1>2 DEF HInv, Keyed, GoneForGood, Given, Rounds
  <1>4. sender' \in Rounds(Given) /\ sender'.todo = sender.todo \ {id}
    BY <1>1 DEF HInv, Keyed, Rounds
  <1>5. /\ DOMAIN streak' = DOMAIN streak /\ streak'[id] = streak[id] + 1
        /\ \A x \in DOMAIN streak : x # id => streak'[x] = streak[x]
    BY <1>1, <1>3 DEF CountOf, Put
  <1>6. n(id) \in Nat /\ n(id) <= streak'[id]
    BY <1>3, <1>5 DEF HInv, Keyed, CountedReally, CountOf
  <1>7. /\ DOMAIN failures' \subseteq DOMAIN failures \cup {id}
        /\ \A x \in DOMAIN failures' :
              \/ x = id /\ failures'[x] = n(id)
              \/ x # id /\ x \in DOMAIN failures /\ failures'[x] = failures[x]
    <2>1. CASE failures' = Put(failures, id, n(id))
      BY <2>1 DEF Put
    <2>2. CASE failures' = Drop(failures, id)
      BY <2>2 DEF Drop
    <2> QED  BY <1>1, <2>1, <2>2
  <1>8. /\ DOMAIN hooks' \subseteq DOMAIN hooks
        /\ \/ retired' = retired
           \/ retired' \subseteq retired \cup {id} /\ id \notin DOMAIN hooks' /\ ~ (n(id) < MaxFailures)
    BY <1>1 DEF Drop
  <1> HIDE DEF n
  <1>9. Keyed'
    BY <1>2, <1>3, <1>4, <1>5, <1>6, <1>7, <1>8 DEF HInv, Keyed
  <1>10. CountedReally'
    <2>1. ASSUME NEW x \in DOMAIN failures' PROVE failures'[x] <= streak'[x]
      <3>1. CASE x = id
        BY <1>6, <1>7, <3>1
      <3>2. CASE x # id
        BY <1>5, <1>7, <3>2 DEF HInv, Keyed, CountedReally
      <3> QED  BY <3>1, <3>2
    <2> QED  BY <2>1 DEF CountedReally
  <1>11. GoneForGood'
    BY <1>3, <1>4, <1>8 DEF HInv, GoneForGood
  <1>12. RetiredForCause'
    <2>1. ASSUME NEW x \in retired' PROVE streak'[x] >= MaxFailures
      <3>1. CASE x \in retired
        BY <1>3, <1>5, <3>1 DEF HInv, Keyed, RetiredForCause
      <3>2. CASE x \notin retired
        BY <1>3, <1>5, <1>6, <1>8, <3>2, HookAssumption DEF HInv, Keyed
      <3> QED  BY <3>1, <3>2
    <2> QED  BY <2>1 DEF RetiredForCause
  <1> QED  BY <1>9, <1>10, <1>11, <1>12 DEF HInv

\* The other steps forget work or counts, or look at neither.
LEMMA OthersKeep ==
    HInv /\ (PublishEvents \/ ProbeExpires \/ HookRestart \/ UNCHANGED hvars) => HInv'
  <1> SUFFICES ASSUME HInv, PublishEvents \/ ProbeExpires \/ HookRestart \/ UNCHANGED hvars
               PROVE  HInv'
    OBVIOUS
  <1>1. UNCHANGED <<hooks, nextHook, streak, retired>>
    BY DEF PublishEvents, ProbeExpires, HookRestart, hvars
  <1>2. Given' = Given
    BY <1>1 DEF Given
  <1>3. sender' \in Rounds(Given) /\ sender'.todo \subseteq sender.todo
    <2>1. CASE ProbeExpires
      BY <2>1 DEF ProbeExpires, HInv, Keyed, Rounds
    <2>2. CASE HookRestart
      BY <2>2 DEF HookRestart, HInv, Keyed, Rounds
    <2>3. CASE PublishEvents \/ UNCHANGED hvars
      BY <2>3 DEF PublishEvents, hvars, HInv, Keyed
    <2> QED  BY <2>1, <2>2, <2>3
  <1>4. failures' = failures \/ DOMAIN failures' = {}
    <2>1. CASE HookRestart
      BY <2>1 DEF HookRestart
    <2> QED  BY <2>1 DEF PublishEvents, ProbeExpires, hvars
  <1>5. Keyed'
    BY <1>1, <1>2, <1>3, <1>4 DEF HInv, Keyed
  <1> QED
    BY <1>1, <1>3, <1>4, <1>5 DEF HInv, CountedReally, GoneForGood, RetiredForCause

-----------------------------------------------------------------------------
(* The theorem *)

\* The task deletes only subscriptions that really failed MaxFailures times in
\* a row, however its rounds interleave with new subscriptions, deletions,
\* restarts and refused deletions (main.rs webhook_delivery_forever).
THEOREM OnlyForCause == HookSpec => []RetiredForCause
  <1>1. HookInit => HInv
    BY HookStarts
  <1>2. HInv /\ [HookNext]_hvars => HInv'
    BY SubscribeKeeps, UnsubscribeKeeps, ReceiveKeeps, SuccessKeeps, FailureKeeps, OthersKeep
       DEF HookNext
  <1>3. HInv => RetiredForCause
    BY DEF HInv
  <1> QED  BY <1>1, <1>2, <1>3, PTL DEF HookSpec

-----------------------------------------------------------------------------
(* Polling: any page sizes below the clamp, any commits between two reads *)
(* The inductive invariant *)

Pollers == [size : Nat, limit : Nat, cursor : Nat, got : SUBSET Nat,
            pc : {"idle", "info"}, high : Nat]

\* The high water was read from a log that only grows, and so was the cursor.
BehindLog == durablePoller.high <= Len(records) /\ durablePoller.cursor <= Len(records)

PollInv ==
    /\ records \in Seq({"match", "other"})
    /\ durablePoller \in Pollers
    /\ durablePoller.limit < StorePage
    /\ BehindLog /\ PollsSkipNothing

-----------------------------------------------------------------------------
(* The first members of a set *)

\* Whatever precedes one of the first members is one of them.
LEMMA OldestIsPrefix ==
    ASSUME NEW S \in SUBSET Nat, IsFiniteSet(S), NEW n \in Nat,
           NEW x \in Oldest(n, S), NEW y \in S, y <= x
    PROVE  y \in Oldest(n, S)
  <1> DEFINE upTo(z) == {w \in S : w <= z}
  <1>1. x \in S /\ Cardinality(upTo(x)) <= n
    BY DEF Oldest
  <1>2. upTo(y) \subseteq upTo(x)
    <2> SUFFICES ASSUME NEW w \in S, w <= y PROVE w <= x
      OBVIOUS
    <2>1. w \in Nat /\ y \in Nat /\ x \in Nat
      BY <1>1
    <2> QED
      BY <2>1
  <1>3. IsFiniteSet(upTo(x))
    <2>1. upTo(x) \in SUBSET S
      OBVIOUS
    <2> QED
      BY <2>1, FS_Subset
  <1>4. Cardinality(upTo(y)) <= Cardinality(upTo(x)) /\ IsFiniteSet(upTo(y))
    BY <1>2, <1>3, FS_Subset
  <1>5. Cardinality(upTo(x)) \in Nat /\ Cardinality(upTo(y)) \in Nat
    BY <1>3, <1>4, FS_CardinalityType
  <1>6. Cardinality(upTo(y)) <= n
    BY <1>1, <1>4, <1>5
  <1> QED
    BY <1>6 DEF Oldest

\* Every set of numbers with a member has a least one.
LEMMA Least ==
    ASSUME NEW T \in SUBSET Nat, T # {}
    PROVE  \E x \in T : \A y \in T : x <= y
  <1>1. PICK x \in T : \A y \in T : <<y, x>> \notin OpToRel(<, Nat)
    BY NatLessThanWellFounded, WFMin
  <1> SUFFICES ASSUME NEW y \in T PROVE x <= y
    BY <1>1
  <1>2. x \in Nat /\ y \in Nat
    OBVIOUS
  <1>3. ~(y < x)
    BY <1>1, <1>2 DEF OpToRel
  <1> QED
    BY <1>2, <1>3

\* A page that came back with fewer records than were asked for has them all.
LEMMA FewAreAll ==
    ASSUME NEW S \in SUBSET Nat, IsFiniteSet(S), NEW n \in Nat,
           Cardinality(Oldest(n, S)) < n
    PROVE  Oldest(n, S) = S
  <1> DEFINE F == Oldest(n, S)
             Rest == S \ F
  <1>1. F \in SUBSET S /\ Rest \in SUBSET Nat
    BY DEF Oldest
  <1>2. SUFFICES ASSUME Rest # {} PROVE FALSE
    BY <1>1
  <1>3. PICK x \in Rest : \A y \in Rest : x <= y
    BY <1>1, <1>2, Least
  <1>4. {y \in S : y <= x} \subseteq F \cup {x}
    <2> SUFFICES ASSUME NEW y \in Rest, y <= x PROVE y = x
      OBVIOUS
    <2>1. x \in Nat /\ y \in Nat /\ x <= y
      BY <1>1, <1>3
    <2> QED
      BY <2>1
  <1>5. IsFiniteSet(F) /\ Cardinality(F) \in Nat
    BY <1>1, FS_Subset, FS_CardinalityType
  <1>6. IsFiniteSet(F \cup {x}) /\ Cardinality(F \cup {x}) = Cardinality(F) + 1
    BY <1>5, <1>3, FS_AddElement
  <1>7. /\ IsFiniteSet({y \in S : y <= x})
        /\ Cardinality({y \in S : y <= x}) <= Cardinality(F) + 1
    BY <1>4, <1>6, FS_Subset
  <1>8. Cardinality({y \in S : y <= x}) <= n
    BY <1>5, <1>7, FS_CardinalityType
  <1> QED
    BY <1>3, <1>8 DEF Oldest

-----------------------------------------------------------------------------
(* One step per action *)

\* The limits that are asked for leave room for the record beyond the page.
LEMMA DurableStarts == DurableInit => PollInv
  <1> SUFFICES ASSUME DurableInit PROVE PollInv
    OBVIOUS
  <1>1. PICK size \in PageSizes : \E asked \in 1..size :
          durablePoller = [size |-> size, limit |-> asked, cursor |-> 0, got |-> {}, pc |-> "idle", high |-> 0]
    BY DEF DurableInit
  <1>2. size \in Nat /\ size < StorePage /\ StorePage \in Nat
    BY PageAssumption
  <1> QED
    BY <1>1, <1>2 DEF DurableInit, PollInv, Pollers, BehindLog, PollsSkipNothing

\* A commit appends: what a cursor passed stays what it was.
LEMMA CommitKeeps == PollInv /\ CommitRecord => PollInv'
  <1> SUFFICES ASSUME PollInv, CommitRecord PROVE PollInv'
    OBVIOUS
  <1>1. PICK batch \in {<<"match">>, <<"other">>, <<"match", "match">>, <<"other", "match">>} :
          records' = records \o batch
    BY DEF CommitRecord
  <1>2. /\ <<"match">> \in Seq({"match", "other"}) /\ <<"other">> \in Seq({"match", "other"})
        /\ <<"match", "match">> \in Seq({"match", "other"})
        /\ <<"other", "match">> \in Seq({"match", "other"})
    OBVIOUS
  <1>3. /\ records' \in Seq({"match", "other"}) /\ Len(records') >= Len(records)
        /\ \A n \in 1..Len(records) : records'[n] = records[n]
    BY <1>1, <1>2 DEF PollInv
  <1>4. UNCHANGED durablePoller
    BY DEF CommitRecord
  <1> QED
    BY <1>3, <1>4, SMTT(20) DEF PollInv, Pollers, BehindLog, PollsSkipNothing

\* The page: a truncated one ends on its last record, a whole one wherever the
\* later of the two reads got to.
LEMMA PageKeeps == PollInv /\ PollPage => PollInv'
  <1> SUFFICES ASSUME PollInv, PollPage PROVE PollInv'
    OBVIOUS
  <1> DEFINE limit == durablePoller.limit
             cursor == durablePoller.cursor
             hits == {n \in DOMAIN records : n > cursor /\ records[n] = "match"}
             fetched == Oldest(Fetch(limit), hits)
             more == Cardinality(fetched) > limit
             page == IF more THEN Oldest(limit, fetched) ELSE fetched
             next(end) == IF more \/ end > durablePoller.high THEN end ELSE durablePoller.high
  <1>1. PICK end \in page \cup {cursor} :
          /\ \A n \in page : n <= end
          /\ durablePoller' = [durablePoller EXCEPT !.pc = "idle", !.got = @ \cup page, !.cursor = next(end)]
    BY DEF PollPage
  <1>2. UNCHANGED records
    BY DEF PollPage
  <1>3. /\ limit \in Nat /\ cursor \in Nat /\ durablePoller.high \in Nat
        /\ Fetch(limit) \in Nat /\ Fetch(limit) > limit
    BY PageAssumption DEF PollInv, Pollers, Fetch
  <1>4. DOMAIN records = 1..Len(records) /\ Len(records) \in Nat
    BY DEF PollInv
  <1>5. hits \in SUBSET Nat /\ IsFiniteSet(hits)
    <2>1. hits \in SUBSET (1..Len(records))
      BY <1>4
    <2>2. IsFiniteSet(1..Len(records))
      BY <1>4, FS_Interval
    <2> QED
      BY <2>1, <2>2, FS_Subset
  <1>6. fetched \in SUBSET hits /\ IsFiniteSet(fetched) /\ Cardinality(fetched) \in Nat
    <2>1. fetched \in SUBSET hits
      BY DEF Oldest
    <2> QED
      BY <2>1, <1>5, FS_Subset, FS_CardinalityType
  <1>7. page \in SUBSET hits
    BY <1>6 DEF Oldest
  <1>8. /\ end \in Nat /\ end <= Len(records) /\ end >= cursor
        /\ next(end) \in Nat /\ next(end) <= Len(records)
    BY <1>1, <1>3, <1>4, <1>7 DEF PollInv, BehindLog
  <1>9. \A n \in hits : n <= next(end) => n \in page
    <2>1. CASE ~more
      <3>1. Cardinality(fetched) < Fetch(limit)
        BY <2>1, <1>3, <1>6
      <3>2. fetched = hits
        BY <3>1, <1>3, <1>5, FewAreAll
      <3> QED
        BY <2>1, <3>2
    <2>2. CASE more /\ end \in page
      <3>1. end \in Oldest(limit, fetched) /\ end \in fetched /\ next(end) = end
        BY <2>2 DEF Oldest
      <3>2. TAKE n \in hits
      <3>3. HAVE n <= next(end)
      <3>4. n \in fetched
        BY <3>1, <3>2, <3>3, <1>3, <1>5, OldestIsPrefix
      <3>5. n \in Oldest(limit, fetched)
        BY <3>1, <3>3, <3>4, <1>3, <1>5, <1>6, OldestIsPrefix
      <3> QED
        BY <3>5, <2>2
    <2>3. CASE more /\ end = cursor
      BY <2>3, <1>3, <1>4
    <2> QED
      BY <2>1, <2>2, <2>3, <1>1
  <1>10. /\ durablePoller' \in Pollers /\ durablePoller'.limit = limit
         /\ durablePoller'.cursor = next(end) /\ durablePoller'.high = durablePoller.high
         /\ durablePoller'.got = durablePoller.got \cup page
    BY <1>1, <1>5, <1>7, <1>8 DEF PollInv, Pollers
  <1>11. PollsSkipNothing'
    <2> SUFFICES ASSUME NEW n \in 1..next(end), records[n] = "match"
                 PROVE  n \in durablePoller.got \cup page
      BY <1>2, <1>10 DEF PollsSkipNothing
    <2>1. CASE n <= cursor
      BY <2>1, <1>3, <1>8 DEF PollInv, PollsSkipNothing
    <2>2. CASE n > cursor
      BY <2>2, <1>4, <1>8, <1>9
    <2> QED
      BY <2>1, <2>2, <1>3, <1>8
  <1> QED
    BY <1>2, <1>8, <1>10, <1>11 DEF PollInv, BehindLog

-----------------------------------------------------------------------------
\* For any page sizes below the store's clamp, any filter and any commits
\* between the two reads: whoever keeps following next has every record up to
\* the cursor (events_page_json, delivery_page_filtered).
THEOREM NothingSkipped == DurableSpec => []PollsSkipNothing
  <1>1. PollInv /\ [DurableNext]_drvars => PollInv'
    <2> SUFFICES ASSUME PollInv, [DurableNext]_drvars PROVE PollInv'
      OBVIOUS
    <2>1. CASE CommitRecord
      BY <2>1, CommitKeeps
    <2>2. CASE PollInfo
      <3>1. Len(records) \in Nat
        BY DEF PollInv
      <3>2. /\ durablePoller' \in Pollers /\ durablePoller'.high = Len(records)
            /\ durablePoller'.limit = durablePoller.limit /\ durablePoller'.cursor = durablePoller.cursor
            /\ durablePoller'.got = durablePoller.got /\ records' = records
        BY <2>2, <3>1 DEF PollInfo, PollInv, Pollers
      <3> QED
        BY <3>1, <3>2 DEF PollInv, BehindLog, PollsSkipNothing
    <2>3. CASE PollPage
      BY <2>3, PageKeeps
    <2>4. CASE GridRows \/ GridCursor \/ UNCHANGED drvars
      BY <2>4 DEF GridRows, GridCursor, drvars, PollInv, Pollers, BehindLog, PollsSkipNothing
    <2> QED
      BY <2>1, <2>2, <2>3, <2>4 DEF DurableNext
  <1>2. PollInv => PollsSkipNothing
    BY DEF PollInv
  <1> QED
    BY DurableStarts, <1>1, <1>2, PTL DEF DurableSpec

-----------------------------------------------------------------------------
(* Sums over finite sets *)

Chosen(s) == CHOOSE y \in s : TRUE
Step(f, g, s) == IF s = {} THEN 0 ELSE f[Chosen(s)] + g[s \ {Chosen(s)}]
Small(f, n) == {s \in SUBSET DOMAIN f : Cardinality(s) <= n}
Solves(f, n, g) == g = [s \in Small(f, n) |-> Step(f, g, s)]

LEMMA ChosenIn == ASSUME NEW s, s # {} PROVE Chosen(s) \in s
  BY DEF Chosen

\* What Total sums is defined for every finite part of a finite domain.
LEMMA SomeSolves ==
    ASSUME NEW f, IsFiniteSet(DOMAIN f), NEW n \in Nat
    PROVE  \E g : Solves(f, n, g)
  <1> DEFINE T == {k \in Nat : ~\E g : Solves(f, k, g)}
  <1> SUFFICES ASSUME T # {} PROVE FALSE
    OBVIOUS
  <1>1. PICK m \in T : \A k \in T : m <= k
    <2>1. T \in SUBSET Nat
      OBVIOUS
    <2> HIDE DEF T
    <2> QED
      BY <2>1, Least
  <1>2. \A s \in SUBSET DOMAIN f : IsFiniteSet(s) /\ Cardinality(s) \in Nat /\ (Cardinality(s) = 0 <=> s = {})
    BY FS_Subset, FS_CardinalityType, FS_EmptySet
  <1>3. CASE m = 0
    <2> DEFINE g == [s \in Small(f, m) |-> 0]
    <2>1. \A s \in Small(f, m) : Step(f, g, s) = 0
      BY <1>2, <1>3 DEF Small, Step
    <2>2. Solves(f, m, g)
      BY <2>1 DEF Solves
    <2> QED
      BY <2>2
  <1>4. CASE m # 0
    <2>1. m - 1 \in Nat /\ m - 1 \notin T
      BY <1>1, <1>4
    <2>2. PICK g : Solves(f, m - 1, g)
      BY <2>1
    <2> DEFINE h == [s \in Small(f, m) |-> Step(f, g, s)]
    <2>3. \A s \in Small(f, m - 1) : s \in Small(f, m) /\ h[s] = g[s]
      <3> TAKE s \in Small(f, m - 1)
      <3>1. s \in Small(f, m)
        BY <1>2, <2>1 DEF Small
      <3>2. g[s] = Step(f, g, s)
        BY <2>2 DEF Solves
      <3> QED
        BY <3>1, <3>2
    <2>4. \A s \in Small(f, m) : Step(f, h, s) = Step(f, g, s)
      <3> TAKE s \in Small(f, m)
      <3>1. CASE s = {}
        BY <3>1 DEF Step
      <3>2. CASE s # {}
        <4> DEFINE r == s \ {Chosen(s)}
        <4>1. r \in SUBSET DOMAIN f /\ Cardinality(r) = Cardinality(s) - 1
          BY <1>2, <3>2, ChosenIn, FS_RemoveElement DEF Small
        <4>2. r \in Small(f, m - 1)
          BY <1>2, <4>1 DEF Small
        <4>3. h[r] = g[r]
          BY <2>3, <4>2
        <4> HIDE DEF h
        <4> QED
          BY <3>2, <4>3 DEF Step
      <3> QED
        BY <3>1, <3>2
    <2>5. h = [s \in Small(f, m) |-> Step(f, h, s)]
      <3> DEFINE q == [s \in Small(f, m) |-> Step(f, h, s)]
      <3>1. \A s \in Small(f, m) : h[s] = q[s]
        BY <2>4
      <3>2. DOMAIN h = Small(f, m) /\ DOMAIN q = Small(f, m) /\ h = [s \in DOMAIN h |-> h[s]] /\ q = [s \in DOMAIN q |-> q[s]]
        OBVIOUS
      <3> HIDE DEF h, q
      <3>3. h = q
        BY <3>1, <3>2
      <3> QED
        BY <3>3 DEF q
    <2>6. Solves(f, m, h)
      BY <2>5 DEF Solves
    <2> QED
      BY <2>6
  <1> QED
    BY <1>3, <1>4

LEMMA TotalStep ==
    ASSUME NEW f, IsFiniteSet(DOMAIN f), NEW s \in SUBSET DOMAIN f
    PROVE  Total(f, s) = IF s = {} THEN 0 ELSE f[Chosen(s)] + Total(f, s \ {Chosen(s)})
  <1> DEFINE n == Cardinality(DOMAIN f)
             D == SUBSET DOMAIN f
             Add(g) == g = [t \in D |-> IF t = {} THEN 0 ELSE f[Chosen(t)] + g[t \ {Chosen(t)}]]
             add == CHOOSE g : Add(g)
  <1>1. n \in Nat /\ Small(f, n) = D
    <2>1. n \in Nat
      BY FS_CardinalityType
    <2>2. \A t \in D : Cardinality(t) <= n
      BY FS_Subset
    <2> QED
      BY <2>1, <2>2 DEF Small
  <1>2. \E g : Add(g)
    <2>1. PICK g : Solves(f, n, g)
      BY <1>1, SomeSolves
    <2>2. Add(g)
      BY <2>1, <1>1 DEF Solves, Step
    <2> QED
      BY <2>2
  <1>3. Add(add)
    BY <1>2
  <1>4. \A t \in D : Total(f, t) = add[t]
    BY DEF Total, Chosen
  <1>5. s # {} => s \ {Chosen(s)} \in D
    OBVIOUS
  <1>6. add[s] = IF s = {} THEN 0 ELSE f[Chosen(s)] + add[s \ {Chosen(s)}]
    <2> HIDE DEF add
    <2> QED
      BY <1>3
  <1> HIDE DEF add
  <1> QED
    BY <1>4, <1>5, <1>6

Summable(f) == IsFiniteSet(DOMAIN f) /\ \A x \in DOMAIN f : f[x] \in Int

\* Any member may be taken out first.
TakesOut(f, s) == Total(f, s) \in Int /\ \A x \in s : Total(f, s) = f[x] + Total(f, s \ {x})

LEMMA TotalTakesOut ==
    ASSUME NEW f, Summable(f), NEW s \in SUBSET DOMAIN f
    PROVE  TakesOut(f, s)
  <1> DEFINE T == {k \in Nat : \E t \in SUBSET DOMAIN f : Cardinality(t) = k /\ ~TakesOut(f, t)}
  <1>1. \A t \in SUBSET DOMAIN f : IsFiniteSet(t) /\ Cardinality(t) \in Nat
    BY FS_Subset, FS_CardinalityType DEF Summable
  <1> SUFFICES ASSUME T # {} PROVE FALSE
    BY <1>1
  <1>2. PICK m \in T : \A k \in T : m <= k
    <2>1. T \in SUBSET Nat
      OBVIOUS
    <2> HIDE DEF T
    <2> QED
      BY <2>1, Least
  <1>3. PICK t \in SUBSET DOMAIN f : Cardinality(t) = m /\ ~TakesOut(f, t)
    OBVIOUS
  <1>4. \A u \in SUBSET DOMAIN f : Cardinality(u) < m => TakesOut(f, u)
    BY <1>1, <1>2
  <1> HIDE DEF T
  <1>5. \A x \in t : t \ {x} \in SUBSET DOMAIN f /\ Cardinality(t \ {x}) < m
    BY <1>1, <1>3, FS_RemoveElement
  <1>6. \A x \in t : TakesOut(f, t \ {x})
    BY <1>4, <1>5
  <1>7. t # {}
    <2> SUFFICES ASSUME t = {} PROVE TakesOut(f, t)
      BY <1>3
    <2>1. Total(f, t) = 0
      BY TotalStep DEF Summable
    <2> QED
      BY <2>1 DEF TakesOut
  <1> DEFINE p == Chosen(t)
  <1>8. p \in t /\ f[p] \in Int
    BY <1>7, ChosenIn DEF Summable
  <1>9. Total(f, t) = f[p] + Total(f, t \ {p})
    BY <1>7, TotalStep DEF Summable
  <1> HIDE DEF p
  <1>10. Total(f, t) \in Int
    BY <1>6, <1>8, <1>9 DEF TakesOut
  <1>11. ASSUME NEW x \in t PROVE Total(f, t) = f[x] + Total(f, t \ {x})
    <2>1. CASE x = p
      BY <2>1, <1>9
    <2>2. CASE x # p
      <3>1. Total(f, t \ {p}) = f[x] + Total(f, (t \ {p}) \ {x}) /\ x \in t \ {p} /\ p \in t \ {x}
        BY <1>6, <1>8, <2>2 DEF TakesOut
      <3>2. Total(f, t \ {x}) = f[p] + Total(f, (t \ {x}) \ {p})
        BY <1>6, <1>8, <3>1 DEF TakesOut
      <3>3. (t \ {x}) \ {p} = (t \ {p}) \ {x}
        OBVIOUS
      <3>4. /\ Total(f, t \ {p}) \in Int /\ Total(f, t \ {x}) \in Int /\ f[x] \in Int
            /\ Total(f, (t \ {p}) \ {x}) \in Int
        <4>1. (t \ {p}) \ {x} \in SUBSET DOMAIN f /\ Cardinality((t \ {p}) \ {x}) < m
          <5>1. IsFiniteSet(t \ {p}) /\ Cardinality(t \ {p}) < m /\ Cardinality(t \ {p}) \in Nat
            BY <1>1, <1>5, <1>8
          <5>2. Cardinality((t \ {p}) \ {x}) = Cardinality(t \ {p}) - 1
            BY <5>1, <3>1, FS_RemoveElement
          <5>3. m \in Nat
            BY <1>1, <1>3
          <5> QED
            BY <5>1, <5>2, <5>3
        <4> QED
          BY <4>1, <1>4, <1>6, <1>8 DEF TakesOut, Summable
      <3> QED
        BY <3>1, <3>2, <3>3, <3>4, <1>8, <1>9
    <2> QED
      BY <2>1, <2>2
  <1> QED
    BY <1>3, <1>10, <1>11 DEF TakesOut

LEMMA TotalOfNothing == ASSUME NEW f, Summable(f) PROVE Total(f, {}) = 0
  BY TotalStep DEF Summable

\* The parts add up.
Splits(f, a, b) == Total(f, a \cup b) = Total(f, a) + Total(f, b)
LEMMA TotalSplits ==
    ASSUME NEW f, Summable(f), NEW a \in SUBSET DOMAIN f, NEW b \in SUBSET DOMAIN f, a \cap b = {}
    PROVE  Splits(f, a, b)
  <1> DEFINE T == {k \in Nat : \E t \in SUBSET a : Cardinality(t) = k /\ ~Splits(f, t, b)}
  <1>1. \A t \in SUBSET a : IsFiniteSet(t) /\ Cardinality(t) \in Nat
    BY FS_Subset, FS_CardinalityType DEF Summable
  <1> SUFFICES ASSUME T # {} PROVE FALSE
    BY <1>1
  <1>2. PICK m \in T : \A k \in T : m <= k
    <2>1. T \in SUBSET Nat
      OBVIOUS
    <2> HIDE DEF T
    <2> QED
      BY <2>1, Least
  <1>3. PICK t \in SUBSET a : Cardinality(t) = m /\ ~Splits(f, t, b)
    OBVIOUS
  <1>4. \A u \in SUBSET a : Cardinality(u) < m => Splits(f, u, b)
    BY <1>1, <1>2
  <1> HIDE DEF T
  <1>5. t # {}
    <2> SUFFICES ASSUME t = {} PROVE Splits(f, t, b)
      BY <1>3
    <2>1. t \cup b = b /\ Total(f, t) = 0 /\ Total(f, b) \in Int
      BY TotalOfNothing, TotalTakesOut DEF TakesOut
    <2> QED
      BY <2>1 DEF Splits
  <1>6. PICK x \in t : TRUE
    BY <1>5
  <1>7. Cardinality(t \ {x}) < m
    BY <1>1, <1>3, <1>6, FS_RemoveElement
  <1>8. Total(f, (t \ {x}) \cup b) = Total(f, t \ {x}) + Total(f, b)
    BY <1>4, <1>7 DEF Splits
  <1>9. Total(f, t) = f[x] + Total(f, t \ {x})
    <2>1. t \in SUBSET DOMAIN f
      OBVIOUS
    <2> QED
      BY <2>1, <1>6, TotalTakesOut DEF TakesOut
  <1>10. Total(f, t \cup b) = f[x] + Total(f, (t \cup b) \ {x})
    <2>1. t \cup b \in SUBSET DOMAIN f /\ x \in t \cup b
      BY <1>6
    <2> QED
      BY <2>1, TotalTakesOut DEF TakesOut
  <1>11. (t \cup b) \ {x} = (t \ {x}) \cup b
    BY <1>6
  <1>12. /\ f[x] \in Int /\ Total(f, t \ {x}) \in Int /\ Total(f, b) \in Int
    <2>1. t \ {x} \in SUBSET DOMAIN f
      OBVIOUS
    <2> QED
      BY <2>1, <1>6, TotalTakesOut DEF TakesOut, Summable
  <1>13. Total(f, t \cup b) = f[x] + (Total(f, t \ {x}) + Total(f, b))
    BY <1>8, <1>10, <1>11
  <1>14. Total(f, t \cup b) = Total(f, t) + Total(f, b)
    BY <1>9, <1>12, <1>13
  <1> QED
    BY <1>3, <1>14 DEF Splits

\* Functions that agree on a set have the same sum over it.
Matches(f, g, s) == Total(f, s) = Total(g, s)
LEMMA TotalAgrees ==
    ASSUME NEW f, Summable(f), NEW g, Summable(g), NEW a \in SUBSET (DOMAIN f \cap DOMAIN g),
           \A x \in a : f[x] = g[x]
    PROVE  Matches(f, g, a)
  <1> DEFINE T == {k \in Nat : \E t \in SUBSET a : Cardinality(t) = k /\ ~Matches(f, g, t)}
  <1>1. \A t \in SUBSET a : IsFiniteSet(t) /\ Cardinality(t) \in Nat
    BY FS_Subset, FS_CardinalityType DEF Summable
  <1> SUFFICES ASSUME T # {} PROVE FALSE
    BY <1>1
  <1>2. PICK m \in T : \A k \in T : m <= k
    <2>1. T \in SUBSET Nat
      OBVIOUS
    <2> HIDE DEF T
    <2> QED
      BY <2>1, Least
  <1>3. PICK t \in SUBSET a : Cardinality(t) = m /\ ~Matches(f, g, t)
    OBVIOUS
  <1>4. \A u \in SUBSET a : Cardinality(u) < m => Matches(f, g, u)
    BY <1>1, <1>2
  <1> HIDE DEF T
  <1>5. t \in SUBSET DOMAIN f /\ t \in SUBSET DOMAIN g
    OBVIOUS
  <1>6. CASE t = {}
    BY <1>3, <1>6, TotalOfNothing DEF Matches
  <1>7. CASE t # {}
    <2>1. PICK x \in t : TRUE
      BY <1>7
    <2>2. Total(f, t \ {x}) = Total(g, t \ {x})
      BY <1>1, <1>3, <1>4, <2>1, FS_RemoveElement DEF Matches
    <2>3. Total(f, t) = f[x] + Total(f, t \ {x}) /\ Total(g, t) = g[x] + Total(g, t \ {x})
      BY <1>5, <2>1, TotalTakesOut DEF TakesOut
    <2> QED
      BY <1>3, <2>1, <2>2, <2>3 DEF Matches
  <1> QED
    BY <1>6, <1>7

\* What is never negative has no negative sum.
LEMMA TotalNonNegative ==
    ASSUME NEW f, Summable(f), NEW a \in SUBSET DOMAIN f, \A x \in a : f[x] >= 0
    PROVE  Total(f, a) >= 0
  <1> DEFINE T == {k \in Nat : \E t \in SUBSET a : Cardinality(t) = k /\ ~(Total(f, t) >= 0)}
  <1>1. \A t \in SUBSET a : IsFiniteSet(t) /\ Cardinality(t) \in Nat
    BY FS_Subset, FS_CardinalityType DEF Summable
  <1> SUFFICES ASSUME T # {} PROVE FALSE
    BY <1>1
  <1>2. PICK m \in T : \A k \in T : m <= k
    <2>1. T \in SUBSET Nat
      OBVIOUS
    <2> HIDE DEF T
    <2> QED
      BY <2>1, Least
  <1>3. PICK t \in SUBSET a : Cardinality(t) = m /\ ~(Total(f, t) >= 0)
    OBVIOUS
  <1>4. \A u \in SUBSET a : Cardinality(u) < m => Total(f, u) >= 0
    BY <1>1, <1>2
  <1> HIDE DEF T
  <1>5. t # {}
    BY <1>3, TotalOfNothing
  <1>6. PICK x \in t : TRUE
    BY <1>5
  <1>7. Total(f, t \ {x}) >= 0
    BY <1>1, <1>3, <1>4, <1>6, FS_RemoveElement
  <1>8. t \in SUBSET DOMAIN f /\ t \ {x} \in SUBSET DOMAIN f
    OBVIOUS
  <1>9. Total(f, t) = f[x] + Total(f, t \ {x}) /\ Total(f, t \ {x}) \in Int
    BY <1>6, <1>8, TotalTakesOut DEF TakesOut
  <1> QED
    BY <1>3, <1>6, <1>7, <1>9 DEF Summable

-----------------------------------------------------------------------------
(* The token ledger: any shapes of transactions, worlds and limits *)
(* The inductive invariant *)

TxRecords ==
    [ins : SUBSET (Nat \X UNION {DOMAIN s.outs : s \in Shapes}), outs : {s.outs : s \in Shapes},
     form : {s.form : s \in Shapes}, sigs : {s.sigs : s \in Shapes}, args : {s.args : s \in Shapes},
     kas : {s.kas : s \in Shapes}, co : {s.co : s \in Shapes}, at : {s.at : s \in Shapes}]

LedgerTypes ==
    /\ txs \in Seq(TxRecords)
    /\ queued \subseteq {"token", "minter"} /\ pinned \in Pin /\ vault \in Pin

\* An input is an output of an earlier transaction.
CellsInOrder ==
    \A i \in DOMAIN txs : \A c \in txs[i].ins :
        \E j \in 1..(i - 1) : \E k \in DOMAIN txs[j].outs : c = <<j, k>>

\* The pin that the token was derived under, which leaves a row.
PinIsKept ==
    /\ "minter" \notin queued => pinned = vault
    /\ pinned = "pins" => row.status # "absent"

\* What a derivation from scratch gives, without the market.
Fresh(h, w, pin) ==
    IF ProveDirect(h) = {} THEN IF pin = "pins" THEN Placeholder ELSE NoRow ELSE Account(h, w)
Says(r, a) ==
    /\ r.status = a.status
    /\ r.status # "absent" => /\ r.kinds = a.kinds /\ r.supply = a.supply
                              /\ r.held = a.held /\ r.trades = a.trades
RowIsKept == "token" \notin queued => Says(row, Fresh(txs, world, pinned))

\* The judgement of a program that the history reveals.
Judgement(h, w, T) ==
    IF ~MatchProgram(w.runs) THEN UnmatchedRow ELSE ReplayedRow(w.runs, T)
ProgramIsKept ==
    "token" \notin queued /\ row.status # "absent" /\ row.market = Market /\ Revealed(txs)
      => program = Judgement(txs, world, row.trades)

LedgerInv == LedgerTypes /\ CellsInOrder /\ PinIsKept /\ RowIsKept /\ ProgramIsKept

-----------------------------------------------------------------------------
(* Derivations *)

LEMMA AccountStatus ==
    ASSUME NEW h, NEW w
    PROVE  Account(h, w).status \in {"invalid", "verified", "unvalidated"}
  BY DEF Account

LEMMA DerivesFresh ==
    ASSUME NEW h, NEW w, NEW pin, NEW old
    PROVE  /\ Says(DeriveToken(h, w, pin, old), Fresh(h, w, pin))
           /\ pin = "pins" => DeriveToken(h, w, pin, old).status # "absent"
  <1>1. CASE ProveDirect(h) = {}
    BY <1>1 DEF DeriveToken, Fresh, Says, Placeholder, NoRow
  <1>2. CASE ProveDirect(h) # {}
    <2>1. /\ DeriveToken(h, w, pin, old).status = Account(h, w).status
          /\ DeriveToken(h, w, pin, old).kinds = Account(h, w).kinds
          /\ DeriveToken(h, w, pin, old).supply = Account(h, w).supply
          /\ DeriveToken(h, w, pin, old).held = Account(h, w).held
          /\ DeriveToken(h, w, pin, old).trades = Account(h, w).trades
      BY <1>2 DEF DeriveToken
    <2>2. Fresh(h, w, pin) = Account(h, w)
      BY <1>2 DEF Fresh
    <2> QED
      BY <2>1, <2>2, AccountStatus DEF Says
  <1> QED
    BY <1>1, <1>2

LEMMA JudgesRevealed ==
    ASSUME NEW h, NEW w, NEW T, NEW old, Revealed(h)
    PROVE  DeriveMarketProgram(h, w, T, old) = Judgement(h, w, T)
  BY DEF DeriveMarketProgram, Judgement

-----------------------------------------------------------------------------
(* The steps *)

LEMMA LedgerStarts == LedgerInit => LedgerInv
  <1> SUFFICES ASSUME LedgerInit PROVE LedgerInv
    OBVIOUS
  <1> USE DEF LedgerInit
  <1>1. LedgerTypes /\ CellsInOrder
    BY DEF LedgerTypes, CellsInOrder, Pin
  <1>2. ProveDirect(txs) = {}
    BY DEF ProveDirect, LoadCells
  <1>3. PinIsKept /\ RowIsKept /\ ProgramIsKept
    BY <1>2 DEF PinIsKept, RowIsKept, ProgramIsKept, Says, Fresh, NoRow
  <1> QED
    BY <1>1, <1>3 DEF LedgerInv

LEMMA AcceptKeeps == LedgerInv /\ Accept => LedgerInv'
  <1> SUFFICES ASSUME LedgerInv, Accept PROVE LedgerInv'
    OBVIOUS
  <1>1. PICK s \in Shapes, ins \in SUBSET LiveCells(txs) :
          /\ txs = <<>> <=> ins = {}
          /\ txs' = Append(txs, [ins |-> ins, outs |-> s.outs, form |-> s.form, sigs |-> s.sigs,
                                 args |-> s.args, kas |-> s.kas, co |-> s.co, at |-> s.at])
    BY DEF Accept
  <1> DEFINE e == [ins |-> ins, outs |-> s.outs, form |-> s.form, sigs |-> s.sigs,
                   args |-> s.args, kas |-> s.kas, co |-> s.co, at |-> s.at]
  <1>2. queued' = queued \cup {"token"} /\ UNCHANGED <<world, vault, pinned, row, program>>
    BY DEF Accept
  <1>3. txs \in Seq(TxRecords) /\ Len(txs) \in Nat /\ DOMAIN txs = 1..Len(txs)
    BY DEF LedgerInv, LedgerTypes
  <1>4. \A c \in LiveCells(txs) : \E j \in 1..Len(txs) : \E k \in DOMAIN txs[j].outs : c = <<j, k>>
    BY <1>3 DEF LiveCells, LoadCells, Outs
  <1>5. e \in TxRecords
    <2>1. \A j \in 1..Len(txs) : txs[j].outs \in {q.outs : q \in Shapes}
      <3> TAKE j \in 1..Len(txs)
      <3>1. txs[j] \in TxRecords
        BY <1>3
      <3> QED
        BY <3>1 DEF TxRecords
    <2>2. ins \subseteq Nat \X UNION {DOMAIN q.outs : q \in Shapes}
      BY <1>1, <1>4, <2>1
    <2> QED
      BY <2>2 DEF TxRecords
  <1>6. txs' = Append(txs, e)
    BY <1>1
  <1> HIDE DEF e
  <1>7. txs' \in Seq(TxRecords) /\ Len(txs') = Len(txs) + 1 /\ DOMAIN txs' = 1..(Len(txs) + 1)
        /\ txs'[Len(txs) + 1] = e /\ \A i \in 1..Len(txs) : txs'[i] = txs[i]
    BY <1>3, <1>5, <1>6
  <1>8. LedgerTypes'
    BY <1>2, <1>7 DEF LedgerInv, LedgerTypes
  <1>9. CellsInOrder'
    <2> SUFFICES ASSUME NEW i \in DOMAIN txs', NEW c \in txs'[i].ins
                 PROVE  \E j \in 1..(i - 1) : \E k \in DOMAIN txs'[j].outs : c = <<j, k>>
      BY DEF CellsInOrder
    <2>1. CASE i \in 1..Len(txs)
      <3>1. PICK j \in 1..(i - 1) : \E k \in DOMAIN txs[j].outs : c = <<j, k>>
        BY <1>3, <1>7, <2>1 DEF LedgerInv, CellsInOrder
      <3>2. j \in 1..Len(txs)
        BY <2>1, <1>3
      <3> QED
        BY <3>1, <3>2, <1>7
    <2>2. CASE i = Len(txs) + 1
      <3>1. c \in LiveCells(txs)
        BY <1>7, <2>2 DEF e
      <3>2. PICK j \in 1..Len(txs) : \E k \in DOMAIN txs[j].outs : c = <<j, k>>
        BY <3>1, <1>4
      <3>3. j \in 1..(i - 1)
        BY <2>2, <1>3
      <3> QED
        BY <3>2, <3>3, <1>7
    <2> QED
      BY <2>1, <2>2, <1>3, <1>7
  <1>10. PinIsKept' /\ RowIsKept' /\ ProgramIsKept'
    BY <1>2 DEF LedgerInv, PinIsKept, RowIsKept, ProgramIsKept
  <1> QED
    BY <1>8, <1>9, <1>10 DEF LedgerInv

LEMMA RollBackKeeps == LedgerInv /\ RollBackTxs => LedgerInv'
  <1> SUFFICES ASSUME LedgerInv, RollBackTxs PROVE LedgerInv'
    OBVIOUS
  <1>1. PICK n \in 0..Len(txs) - 1 : txs' = SubSeq(txs, 1, n)
    BY DEF RollBackTxs
  <1>2. queued' = queued \cup {"token"} /\ UNCHANGED <<world, vault, pinned, row, program>>
    BY DEF RollBackTxs
  <1>3. txs \in Seq(TxRecords) /\ Len(txs) \in Nat /\ DOMAIN txs = 1..Len(txs)
    BY DEF LedgerInv, LedgerTypes
  <1>4. txs' \in Seq(TxRecords) /\ DOMAIN txs' = 1..n /\ \A i \in 1..n : txs'[i] = txs[i]
    BY <1>1, <1>3
  <1>5. LedgerTypes'
    BY <1>2, <1>4 DEF LedgerInv, LedgerTypes
  <1>6. CellsInOrder'
    <2> SUFFICES ASSUME NEW i \in DOMAIN txs', NEW c \in txs'[i].ins
                 PROVE  \E j \in 1..(i - 1) : \E k \in DOMAIN txs'[j].outs : c = <<j, k>>
      BY DEF CellsInOrder
    <2>1. i \in 1..n /\ i \in DOMAIN txs /\ c \in txs[i].ins /\ n \in Nat
      BY <1>1, <1>3, <1>4
    <2>2. PICK j \in 1..(i - 1) : \E k \in DOMAIN txs[j].outs : c = <<j, k>>
      BY <2>1 DEF LedgerInv, CellsInOrder
    <2>3. j \in 1..n
      BY <2>1
    <2> QED
      BY <2>2, <2>3, <1>4
  <1>7. PinIsKept' /\ RowIsKept' /\ ProgramIsKept'
    BY <1>2 DEF LedgerInv, PinIsKept, RowIsKept, ProgramIsKept
  <1> QED
    BY <1>5, <1>6, <1>7 DEF LedgerInv

LEMMA MinterKeeps == LedgerInv /\ MinterEvent => LedgerInv'
  BY DEF LedgerInv, MinterEvent, LedgerTypes, CellsInOrder, PinIsKept, RowIsKept, ProgramIsKept

\* A chunk that derives the token makes its row that of a fresh derivation.
LEMMA RederiveKeeps ==
    ASSUME NEW pin, Rederive(pin), UNCHANGED <<txs, world>>, pinned' = pin
    PROVE  RowIsKept' /\ ProgramIsKept' /\ (pin = "pins" => row'.status # "absent")
  <1>1. row' = DeriveToken(txs, world, pin, program)
    BY DEF Rederive
  <1>2. RowIsKept' /\ (pin = "pins" => row'.status # "absent")
    BY <1>1, DerivesFresh DEF RowIsKept
  <1>3. ProgramIsKept'
    <2> SUFFICES ASSUME row'.status # "absent", row'.market = Market, Revealed(txs)
                 PROVE  program' = Judgement(txs, world, row'.trades)
      BY DEF ProgramIsKept
    <2>1. \E alone : program' = DeriveMarketProgram(txs, world, row'.trades, alone)
      BY DEF Rederive
    <2> QED
      BY <2>1, JudgesRevealed
  <1> QED
    BY <1>2, <1>3

LEMMA DrainKeeps == LedgerInv /\ Drain => LedgerInv'
  <1> SUFFICES ASSUME LedgerInv, Drain PROVE LedgerInv'
    OBVIOUS
  <1> DEFINE pin == IF "minter" \in queued THEN vault ELSE pinned
             due == \/ "token" \in queued /\ IsToken
                    \/ "minter" \in queued /\ Affected(pinned, vault)
  <1>1. queued' = {} /\ pinned' = pin /\ UNCHANGED <<txs, world, vault>>
    BY DEF Drain
  <1>2. pin = vault /\ pin \in Pin
    BY DEF LedgerInv, LedgerTypes, PinIsKept
  <1>3. LedgerTypes' /\ CellsInOrder'
    BY <1>1, <1>2 DEF LedgerInv, LedgerTypes, CellsInOrder
  <1>4. CASE due
    <2>1. Rederive(pin)
      BY <1>4 DEF Drain
    <2>2. RowIsKept' /\ ProgramIsKept' /\ (pin = "pins" => row'.status # "absent")
      BY <1>1, <2>1, RederiveKeeps
    <2>3. PinIsKept'
      BY <1>1, <1>2, <2>2 DEF PinIsKept
    <2> QED
      BY <1>3, <2>2, <2>3 DEF LedgerInv
  <1>5. CASE ~due
    <2>1. UNCHANGED <<row, program>>
      BY <1>5 DEF Drain
    <2>2. pin = pinned
      <3>1. CASE "minter" \in queued
        BY <1>5, <3>1 DEF LedgerInv, LedgerTypes, Affected, Pin
      <3>2. CASE "minter" \notin queued
        BY <3>2
      <3> QED
        BY <3>1, <3>2
    <2>3. PinIsKept'
      BY <1>1, <1>2, <2>1, <2>2 DEF LedgerInv, PinIsKept
    <2>4. CASE "token" \in queued
      <3>1. row.status = "absent" /\ ProveDirect(txs) = {} /\ pinned # "pins"
        BY <1>5, <2>4 DEF IsToken, LedgerInv, PinIsKept
      <3>2. RowIsKept' /\ ProgramIsKept'
        BY <1>1, <2>1, <2>2, <3>1 DEF RowIsKept, ProgramIsKept, Says, Fresh, NoRow
      <3> QED
        BY <1>3, <2>3, <3>2 DEF LedgerInv
    <2>5. CASE "token" \notin queued
      <3>1. RowIsKept' /\ ProgramIsKept'
        BY <1>1, <2>1, <2>2, <2>5 DEF LedgerInv, RowIsKept, ProgramIsKept
      <3> QED
        BY <1>3, <2>3, <3>1 DEF LedgerInv
    <2> QED
      BY <2>4, <2>5
  <1> QED
    BY <1>4, <1>5

LEMMA LedgerStutters == LedgerInv /\ UNCHANGED lvars => LedgerInv'
  BY DEF lvars, LedgerInv, LedgerTypes, CellsInOrder, PinIsKept, RowIsKept, ProgramIsKept

LEMMA LedgerIsKept == LedgerSpec => []LedgerInv
  <1>1. LedgerInv /\ [LedgerNext]_lvars => LedgerInv'
    BY AcceptKeeps, RollBackKeeps, MinterKeeps, DrainKeeps, LedgerStutters DEF LedgerNext
  <1> QED
    BY LedgerStarts, <1>1, PTL DEF LedgerSpec

\* Whatever was accepted, removed, pinned and drained in between, for any
\* shapes of transactions: the stored row of a token is that of a fresh
\* derivation once its work is done (rederive_affected with derive_minter,
\* drain_optional_projection_chunk).
THEOREM RowsAreCurrent == LedgerSpec => []RowIsCurrent
  <1>1. LedgerInv => RowIsCurrent
    <2> SUFFICES ASSUME LedgerInv, Settled
                 PROVE  LET fresh == DeriveToken(txs, world, vault, program)
                        IN  /\ row.status = fresh.status
                            /\ row.status # "absent" => /\ row.kinds = fresh.kinds
                                                        /\ row.supply = fresh.supply
      BY DEF RowIsCurrent
    <2>1. pinned = vault /\ Says(row, Fresh(txs, world, vault))
      BY DEF LedgerInv, PinIsKept, RowIsKept, Settled
    <2>2. Says(DeriveToken(txs, world, vault, program), Fresh(txs, world, vault))
      BY DerivesFresh
    <2> QED
      BY <2>1, <2>2 DEF Says
  <1> QED
    BY LedgerIsKept, <1>1, PTL

-----------------------------------------------------------------------------
(* Sums of amounts *)

LEMMA CellsAreFinite ==
    ASSUME NEW h \in Seq(TxRecords)
    PROVE  Summable(Amounts(h))
  <1>1. \A i \in DOMAIN h : \E s \in Shapes : h[i].outs = s.outs
    <2> TAKE i \in DOMAIN h
    <2>1. h[i] \in TxRecords
      OBVIOUS
    <2> QED
      BY <2>1 DEF TxRecords
  <1>2. \A i \in DOMAIN h : IsFiniteSet(Outs(h, i))
    <2> TAKE i \in DOMAIN h
    <2>1. IsFiniteSet(DOMAIN h[i].outs)
      BY <1>1, LedgerAssumption
    <2>2. IsFiniteSet({i})
      BY FS_Singleton
    <2>3. IsFiniteSet({i} \X DOMAIN h[i].outs)
      BY <2>1, <2>2, FS_Product
    <2>4. Outs(h, i) \in SUBSET ({i} \X DOMAIN h[i].outs)
      BY DEF Outs
    <2> QED
      BY <2>3, <2>4, FS_Subset
  <1>3. IsFiniteSet(LoadCells(h))
    <2> DEFINE S == {Outs(h, i) : i \in DOMAIN h}
               f == [i \in DOMAIN h |-> Outs(h, i)]
    <2>1. IsFiniteSet(DOMAIN h)
      <3>1. DOMAIN h = 1..Len(h) /\ Len(h) \in Nat
        OBVIOUS
      <3> QED
        BY <3>1, FS_Interval
    <2>2. f \in Surjection(DOMAIN h, S)
      BY DEF Surjection
    <2>3. IsFiniteSet(S)
      <3> HIDE DEF f, S
      <3> QED
        BY <2>1, <2>2, FS_Surjection
    <2>4. \A x \in S : IsFiniteSet(x)
      BY <1>2
    <2>5. IsFiniteSet(UNION S)
      <3> HIDE DEF S
      <3> QED
        BY <2>3, <2>4, FS_UNION
    <2> QED
      BY <2>5 DEF LoadCells
  <1>4. \A c \in LoadCells(h) : StateOf(h, c).amount \in Int
    <2> TAKE c \in LoadCells(h)
    <2>1. PICK i \in DOMAIN h : \E k \in DOMAIN h[i].outs : c = <<i, k>>
      BY DEF LoadCells, Outs
    <2> QED
      BY <2>1, <1>1, LedgerAssumption DEF StateOf
  <1> QED
    BY <1>3, <1>4 DEF Summable, Amounts

\* What is judged is owned by type 0, 1, 2 or 3: the three figures add up.
LEMMA SplitAddsUp ==
    ASSUME NEW h \in Seq(TxRecords), NEW P, NEW F, F = Frontier(h, P)
    PROVE  HeldBy(h, F, {2}) + HeldBy(h, F, {0, 3}) + HeldBy(h, F, {1}) = Sum(h, F)
  <1> DEFINE f == Amounts(h)
             a == {c \in F : StateOf(h, c).type \in {2}}
             b == {c \in F : StateOf(h, c).type \in {0, 3}}
             d == {c \in F : StateOf(h, c).type \in {1}}
  <1>1. Summable(f) /\ DOMAIN f = LoadCells(h)
    BY CellsAreFinite DEF Amounts
  <1>2. F \subseteq LoadCells(h) /\ \A c \in F : StateOf(h, c).type \in 0..3
    BY DEF Frontier, LiveCells, Judged
  <1>3. F = (a \cup b) \cup d /\ (a \cup b) \cap d = {} /\ a \cap b = {}
    BY <1>2
  <1>4. a \in SUBSET DOMAIN f /\ b \in SUBSET DOMAIN f /\ d \in SUBSET DOMAIN f /\ a \cup b \in SUBSET DOMAIN f
    BY <1>1, <1>2
  <1>5. HeldBy(h, F, {2}) = Total(f, a) /\ HeldBy(h, F, {0, 3}) = Total(f, b) /\ HeldBy(h, F, {1}) = Total(f, d)
        /\ Sum(h, F) = Total(f, F)
    BY DEF HeldBy, Sum
  <1> HIDE DEF f, a, b, d
  <1>6. Total(f, a \cup b) = Total(f, a) + Total(f, b)
        /\ Total(f, (a \cup b) \cup d) = Total(f, a \cup b) + Total(f, d)
    BY <1>1, <1>3, <1>4, TotalSplits DEF Splits
  <1> QED
    BY <1>3, <1>5, <1>6

-----------------------------------------------------------------------------
(* Verdicts *)

LEMMA VerifiedAccount ==
    ASSUME NEW h, NEW w, Account(h, w).status = "verified"
    PROVE  /\ Provable(h, w, Proven(h))
           /\ LiveCells(h) \ Frontier(h, Proven(h)) = {}
           /\ Account(h, w).supply[1] = Sum(h, Frontier(h, Proven(h)))
           /\ Account(h, w).held = <<HeldBy(h, Frontier(h, Proven(h)), {2}),
                                     HeldBy(h, Frontier(h, Proven(h)), {0, 3}),
                                     HeldBy(h, Frontier(h, Proven(h)), {1})>>
  BY DEF Account

LEMMA InvalidAccount ==
    ASSUME NEW h, NEW w, Account(h, w).status = "invalid"
    PROVE  \E i \in DOMAIN h : Flag(h, w, Proven(h), i) = "invalid"
  BY DEF Account

LEMMA FlagsAreTrue ==
    ASSUME NEW h, NEW w, NEW P, NEW i
    PROVE  /\ Flag(h, w, P, i) = "clean" => ~BreaksRule(h, i)
           /\ Flag(h, w, P, i) = "invalid" => BreaksRule(h, i)
  BY DEF Flag

\* Never a false verified and never a false invalid, for any shapes of
\* transactions, worlds and limits: a verified token has the supply its cells
\* hold, split by owner, and kept the rule at every step; an invalid one broke
\* it (derive_token's flags and final audit).
THEOREM VerdictsAreProven == LedgerSpec => []VerdictsProven
  <1>1. LedgerInv => VerdictsProven
    <2> SUFFICES ASSUME LedgerInv, Settled PROVE VerdictsProven
      BY DEF VerdictsProven, VerifiedIsTrue, InvalidIsProven
    <2>1. Says(row, Fresh(txs, world, pinned))
      BY DEF LedgerInv, RowIsKept, Settled
    <2>2. txs \in Seq(TxRecords)
      BY DEF LedgerInv, LedgerTypes
    <2> DEFINE F == Frontier(txs, Proven(txs))
    <2>3. VerifiedIsTrue
      <3> SUFFICES ASSUME row.status = "verified"
                   PROVE  /\ row.supply[1] = Sum(txs, LiveCells(txs))
                          /\ row.held[1] + row.held[2] + row.held[3] = row.supply[1]
                          /\ \A i \in DOMAIN txs : ~BreaksRule(txs, i)
                          /\ world.lineage = "complete"
        BY DEF VerifiedIsTrue
      <3>1. Account(txs, world).status = "verified" /\ row.supply = Account(txs, world).supply
            /\ row.held = Account(txs, world).held
        BY <2>1 DEF Says, Fresh, Placeholder, NoRow
      <3>2. Provable(txs, world, Proven(txs)) /\ F = LiveCells(txs) /\ row.supply[1] = Sum(txs, F)
            /\ row.held = <<HeldBy(txs, F, {2}), HeldBy(txs, F, {0, 3}), HeldBy(txs, F, {1})>>
        BY <3>1, VerifiedAccount DEF Frontier
      <3>3. HeldBy(txs, F, {2}) + HeldBy(txs, F, {0, 3}) + HeldBy(txs, F, {1}) = Sum(txs, F)
        BY <2>2, SplitAddsUp
      <3>4. \A i \in DOMAIN txs : ~BreaksRule(txs, i)
        BY <3>2, FlagsAreTrue DEF Provable
      <3> HIDE DEF F
      <3> QED
        BY <3>2, <3>3, <3>4 DEF Provable
    <2>4. InvalidIsProven
      <3> SUFFICES ASSUME row.status = "invalid" PROVE \E i \in DOMAIN txs : BreaksRule(txs, i)
        BY DEF InvalidIsProven
      <3>1. Account(txs, world).status = "invalid"
        BY <2>1 DEF Says, Fresh, Placeholder, NoRow
      <3> QED
        BY <3>1, InvalidAccount, FlagsAreTrue
    <2> QED
      BY <2>3, <2>4 DEF VerdictsProven
  <1> QED
    BY LedgerIsKept, <1>1, PTL

-----------------------------------------------------------------------------
(* Prices *)

\* A trade took something from somebody: it is not the first transaction.
LEMMA TradeIsLater ==
    ASSUME LedgerInv, NEW i \in DOMAIN txs, IsTrade(txs, Proven(txs), i)
    PROVE  i > 1 /\ txs[i].kas # KasBefore(txs, i)
  <1> DEFINE P == Proven(txs)
  <1>1. PICK o \in Movers(txs, i) :
          /\ KasDelta(txs, i, o) # 0
          /\ (KasDelta(txs, i, o) > 0) = (Delta(txs, i, o) < 0)
    BY DEF IsTrade
  <1>2. txs \in Seq(TxRecords) /\ i \in Nat /\ i >= 1 /\ DOMAIN txs = 1..Len(txs) /\ Len(txs) \in Nat
    BY DEF LedgerInv, LedgerTypes
  <1>3. \A j \in DOMAIN txs : txs[j].kas \in Nat
    <2> TAKE j \in DOMAIN txs
    <2>1. txs[j] \in TxRecords
      BY <1>2
    <2>2. PICK s \in Shapes : txs[j].kas = s.kas
      BY <2>1 DEF TxRecords
    <2> QED
      BY <2>2, LedgerAssumption
  <1>4. KasDelta(txs, i, o) = txs[i].kas - KasBefore(txs, i)
    BY <1>1 DEF KasDelta
  <1>5. KasBefore(txs, i) \in Nat
    <2>1. CASE i = 1
      BY <2>1 DEF KasBefore
    <2>2. CASE i # 1
      <3>1. i - 1 \in DOMAIN txs
        BY <1>2, <2>2
      <3> QED
        BY <3>1, <1>3, <2>2 DEF KasBefore
    <2> QED
      BY <2>1, <2>2
  <1>6. txs[i].kas # KasBefore(txs, i)
    BY <1>1, <1>3, <1>4, <1>5
  <1>7. ASSUME i = 1 PROVE FALSE
    <2> DEFINE S == Owned(txs, Outs(txs, i), o)
    <2>1. txs[i].ins = {}
      BY <1>7 DEF LedgerInv, CellsInOrder
    <2>2. KasDelta(txs, i, o) > 0
      <3>1. KasBefore(txs, i) = 0
        BY <1>7 DEF KasBefore
      <3>2. txs[i].kas \in Nat
        BY <1>3
      <3> QED
        BY <3>1, <3>2, <1>1, <1>4
    <2>3. Balance(txs, txs[i].ins, o) = 0
      <3>1. Owned(txs, txs[i].ins, o) = {}
        BY <2>1 DEF Owned
      <3> QED
        BY <3>1, <1>2, CellsAreFinite, TotalOfNothing DEF Balance, Sum
    <2>4. S \in SUBSET DOMAIN Amounts(txs) /\ \A c \in S : Amounts(txs)[c] >= 0
      <3>1. \A c \in Outs(txs, i) : c \in LoadCells(txs) /\ Judged(txs, P, c)
        BY DEF IsTrade, SidesJudged, LoadCells
      <3>2. \A c \in Outs(txs, i) : StateOf(txs, c).amount >= 0
        BY <3>1 DEF Judged
      <3> QED
        BY <3>1, <3>2 DEF Owned, Amounts
    <2>5. Total(Amounts(txs), S) >= 0 /\ Total(Amounts(txs), S) \in Int
      <3> HIDE DEF S
      <3> QED
        BY <2>4, <1>2, CellsAreFinite, TotalNonNegative, TotalTakesOut DEF TakesOut
    <2>6. Delta(txs, i, o) = Total(Amounts(txs), S) - 0
      BY <2>3 DEF Delta, Balance, Sum
    <2> HIDE DEF S
    <2>7. ~(Delta(txs, i, o) < 0)
      BY <2>5, <2>6
    <2> QED
      BY <1>1, <2>2, <2>7
  <1> QED
    BY <1>2, <1>6, <1>7

LEMMA JudgementTrusts ==
    ASSUME NEW h, NEW w, NEW T, w.runs.names = "token", NEW j, j = Judgement(h, w, T),
           j.skeleton \in {"curve", "pool"}, j.ok, j.exercised >= MinExercised
    PROVE  /\ Cardinality(Replayed(w.runs, T)) >= MinExercised
           /\ \A t \in Replayed(w.runs, T) : InvariantHolds(w.runs, t)
           /\ w.runs.shape = "curve" => Agreed(w.runs.vkas)
  <1>1. MatchProgram(w.runs) /\ j.ok = (Violating(w.runs, T) = {}) /\ j.exercised = Exercised(w.runs, T)
    BY DEF Judgement, UnmatchedRow, ReplayedRow
  <1>2. Violating(w.runs, T) = {}
    BY <1>1
  <1>3. Exercised(w.runs, T) = Cardinality(Replayed(w.runs, T))
    <2>1. {t \in Replayed(w.runs, T) : \A v \in Violating(w.runs, T) : t.seq < v.seq} = Replayed(w.runs, T)
      BY <1>2
    <2> QED
      BY <2>1 DEF Exercised
  <1> QED
    BY <1>1, <1>2, <1>3 DEF Violating, MatchProgram

\* For any programs, trades and thresholds: a price is only published when
\* enough trades of the accepted chain replay without a contradiction, provided
\* they were seen with their signature scripts (derive_market_program,
\* market_summary).
THEOREM PricesRestOnReplay == LedgerSpec => []PriceRestsOnReplay
  <1>1. LedgerInv => PriceRestsOnReplay
    <2> DEFINE T == Trades(txs, Proven(txs))
    <2> SUFFICES ASSUME LedgerInv, Settled, PublishesPrice, world.runs.names = "token", TradesCaptured
                 PROVE  /\ Cardinality(Replayed(world.runs, T)) >= MinExercised
                        /\ \A t \in Replayed(world.runs, T) : InvariantHolds(world.runs, t)
                        /\ world.runs.shape = "curve" => Agreed(world.runs.vkas)
      BY DEF PriceRestsOnReplay
    <2>1. PICK t \in row.trades : TRUE
      BY DEF PublishesPrice, Publishable
    <2>2. Gated
      BY DEF PublishesPrice
    <2>3. Says(row, Fresh(txs, world, pinned)) /\ row.status # "absent"
      BY <2>2 DEF LedgerInv, RowIsKept, Settled, Gated
    <2>4. row.trades = T
      <3>1. ProveDirect(txs) # {}
        BY <2>1, <2>3 DEF Says, Fresh, Placeholder, NoRow
      <3>2. row.trades = Account(txs, world).trades
        BY <2>3, <3>1 DEF Says, Fresh
      <3> QED
        BY <3>2 DEF Account
    <2>5. PICK i \in DOMAIN txs : IsTrade(txs, Proven(txs), i) /\ t = ExtractTrade(txs, i)
      BY <2>1, <2>4 DEF Trades
    <2>6. t.seq = i
      BY <2>5 DEF ExtractTrade
    <2>7. txs[i].sigs = "kept"
      BY <2>1, <2>6 DEF TradesCaptured
    <2>8. Revealed(txs)
      BY <2>5, <2>7, TradeIsLater DEF Revealed
    <2>9. program = Judgement(txs, world, T)
      BY <2>2, <2>3, <2>4, <2>8 DEF LedgerInv, ProgramIsKept, Settled, Gated
    <2> HIDE DEF T
    <2> QED
      BY <2>2, <2>9, JudgementTrusts DEF Gated
  <1> QED
    BY LedgerIsKept, <1>1, PTL

-----------------------------------------------------------------------------
(* Learning: a longer history proves what a shorter one proves *)

Reaches(h, n, r) ==
    r = [k \in 0..n |-> IF k = 0 THEN ProveDirect(h)
                        ELSE r[k - 1] \cup {c \in LoadCells(h) : Carried(h, c) /\ HasBase(h, r[k - 1], c[1])}]

LEMMA SomeReaches ==
    ASSUME NEW h, NEW n \in Nat
    PROVE  \E r : Reaches(h, n, r)
  <1> DEFINE T == {k \in Nat : ~\E r : Reaches(h, k, r)}
  <1> SUFFICES ASSUME T # {} PROVE FALSE
    OBVIOUS
  <1>1. PICK m \in T : \A k \in T : m <= k
    <2>1. T \in SUBSET Nat
      OBVIOUS
    <2> HIDE DEF T
    <2> QED
      BY <2>1, Least
  <1>2. CASE m = 0
    <2> DEFINE r == [k \in 0..0 |-> ProveDirect(h)]
    <2>1. Reaches(h, 0, r)
      BY DEF Reaches
    <2> QED
      BY <1>2, <2>1
  <1>3. CASE m # 0
    <2>1. m - 1 \in Nat /\ m - 1 \notin T
      BY <1>1, <1>3
    <2>2. PICK r : Reaches(h, m - 1, r)
      BY <2>1
    <2> DEFINE top == r[m - 1] \cup {c \in LoadCells(h) : Carried(h, c) /\ HasBase(h, r[m - 1], c[1])}
               q == [k \in 0..m |-> IF k = m THEN top ELSE r[k]]
               s == [k \in 0..m |-> IF k = 0 THEN ProveDirect(h)
                        ELSE q[k - 1] \cup {c \in LoadCells(h) : Carried(h, c) /\ HasBase(h, q[k - 1], c[1])}]
    <2>3. \A k \in 0..(m - 1) : r[k] = IF k = 0 THEN ProveDirect(h)
              ELSE r[k - 1] \cup {c \in LoadCells(h) : Carried(h, c) /\ HasBase(h, r[k - 1], c[1])}
      BY <2>2 DEF Reaches
    <2>4. \A k \in 0..m : q[k] = s[k]
      <3> TAKE k \in 0..m
      <3>1. CASE k = m
        <4>1. k - 1 \in 0..m /\ k - 1 # m /\ k # 0
          BY <1>3, <3>1, <2>1
        <4>2. q[k - 1] = r[m - 1] /\ q[k] = top
          BY <4>1, <3>1
        <4> HIDE DEF q
        <4> QED
          BY <3>1, <4>1, <4>2
      <3>2. CASE k # m /\ k # 0
        <4>1. k - 1 \in 0..m /\ k - 1 # m /\ k \in 0..(m - 1)
          BY <3>2, <2>1
        <4>2. q[k - 1] = r[k - 1] /\ q[k] = r[k]
          BY <4>1, <3>2
        <4> HIDE DEF q
        <4> QED
          BY <3>2, <4>1, <4>2, <2>3
      <3>3. CASE k # m /\ k = 0
        <4>1. q[k] = r[k] /\ k \in 0..(m - 1)
          BY <3>3, <2>1
        <4> HIDE DEF q
        <4> QED
          BY <3>3, <4>1, <2>3
      <3> QED
        BY <3>1, <3>2, <3>3
    <2>5. q = s
      <3>1. DOMAIN q = 0..m /\ DOMAIN s = 0..m /\ q = [k \in DOMAIN q |-> q[k]] /\ s = [k \in DOMAIN s |-> s[k]]
        OBVIOUS
      <3> HIDE DEF q, s
      <3> QED
        BY <2>4, <3>1
    <2>6. Reaches(h, m, q)
      <3> HIDE DEF q
      <3> QED
        BY <2>5 DEF Reaches
    <2> QED
      BY <2>6
  <1> QED
    BY <1>2, <1>3

LEMMA ProvenIsReached ==
    ASSUME NEW h, Len(h) \in Nat
    PROVE  \E r : Reaches(h, Len(h), r) /\ Proven(h) = r[Len(h)]
  <1> DEFINE r == CHOOSE q : Reaches(h, Len(h), q)
  <1>1. Reaches(h, Len(h), r)
    BY SomeReaches
  <1>2. Proven(h) = r[Len(h)]
    BY DEF Proven, Reaches
  <1> HIDE DEF r
  <1> QED
    BY <1>1, <1>2

\* g goes on where h ends.
Extends(h, g) ==
    /\ h \in Seq(TxRecords) /\ g \in Seq(TxRecords) /\ Len(h) <= Len(g)
    /\ \A i \in 1..Len(h) : g[i] = h[i]

LEMMA SameCells ==
    ASSUME NEW h, NEW g, Extends(h, g)
    PROVE  /\ DOMAIN h \subseteq DOMAIN g
           /\ \A i \in DOMAIN h : g[i] = h[i] /\ Outs(g, i) = Outs(h, i)
           /\ LoadCells(h) \subseteq LoadCells(g)
           /\ \A c \in LoadCells(h) : c[1] \in DOMAIN h /\ StateOf(g, c) = StateOf(h, c) /\ FormOf(g, c) = FormOf(h, c)
  <1>1. DOMAIN h = 1..Len(h) /\ DOMAIN g = 1..Len(g) /\ Len(h) \in Nat /\ Len(g) \in Nat /\ Len(h) <= Len(g)
    BY DEF Extends
  <1>2. DOMAIN h \subseteq DOMAIN g /\ \A i \in DOMAIN h : g[i] = h[i]
    BY <1>1 DEF Extends
  <1>3. \A i \in DOMAIN h : Outs(g, i) = Outs(h, i)
    BY <1>2 DEF Outs
  <1>4. \A c \in LoadCells(h) : c[1] \in DOMAIN h
    BY DEF LoadCells, Outs
  <1>5. LoadCells(h) \subseteq LoadCells(g)
    <2> SUFFICES ASSUME NEW c \in LoadCells(h) PROVE c \in LoadCells(g)
      OBVIOUS
    <2>1. PICK i \in DOMAIN h : c \in Outs(h, i)
      BY DEF LoadCells
    <2>2. i \in DOMAIN g /\ c \in Outs(g, i)
      BY <1>2, <1>3, <2>1
    <2> QED
      BY <2>2 DEF LoadCells
  <1> QED
    BY <1>2, <1>3, <1>4, <1>5 DEF StateOf, FormOf

LEMMA ProvesMore ==
    ASSUME NEW h, NEW g, Extends(h, g)
    PROVE  /\ ProveDirect(h) \subseteq ProveDirect(g)
           /\ \A c \in LoadCells(h) : Carried(h, c) => Carried(g, c)
           /\ \A S, T : \A i \in DOMAIN h : S \subseteq T /\ HasBase(h, S, i) => HasBase(g, T, i)
  <1>1. ProveDirect(h) \subseteq ProveDirect(g)
    <2> SUFFICES ASSUME NEW c \in LoadCells(h), FormOf(h, c) = "bare" \/ (FormOf(h, c) = "p2sh" /\ Opened(h, c))
                 PROVE  c \in ProveDirect(g)
      BY DEF ProveDirect
    <2>1. Opened(h, c) => Opened(g, c)
      BY SameCells DEF Opened
    <2> QED
      BY <2>1, SameCells DEF ProveDirect
  <1>2. \A c \in LoadCells(h) : Carried(h, c) => Carried(g, c)
    BY SameCells DEF Carried
  <1>3. ASSUME NEW S, NEW T, NEW i \in DOMAIN h, S \subseteq T, HasBase(h, S, i)
        PROVE  HasBase(g, T, i)
    <2>1. g[i] = h[i] /\ Outs(g, i) = Outs(h, i)
      BY SameCells
    <2> QED
      BY <1>3, <2>1 DEF HasBase
  <1> QED
    BY <1>1, <1>2, <1>3

\* Round by round, and then by every round more.
LEMMA ProvenGrows ==
    ASSUME NEW h, NEW g, Extends(h, g)
    PROVE  Proven(h) \subseteq Proven(g)
  <1>1. Len(h) \in Nat /\ Len(g) \in Nat /\ Len(h) <= Len(g)
    BY DEF Extends
  <1>2. PICK r : Reaches(h, Len(h), r) /\ Proven(h) = r[Len(h)]
    BY <1>1, ProvenIsReached
  <1>3. PICK q : Reaches(g, Len(g), q) /\ Proven(g) = q[Len(g)]
    BY <1>1, ProvenIsReached
  <1>4. \A k \in 0..Len(h) : r[k] = IF k = 0 THEN ProveDirect(h)
              ELSE r[k - 1] \cup {c \in LoadCells(h) : Carried(h, c) /\ HasBase(h, r[k - 1], c[1])}
    BY <1>2 DEF Reaches
  <1>5. \A k \in 0..Len(g) : q[k] = IF k = 0 THEN ProveDirect(g)
              ELSE q[k - 1] \cup {c \in LoadCells(g) : Carried(g, c) /\ HasBase(g, q[k - 1], c[1])}
    BY <1>3 DEF Reaches
  <1>6. \A k \in 0..Len(h) : r[k] \subseteq q[k]
    <2> DEFINE T == {k \in 0..Len(h) : ~(r[k] \subseteq q[k])}
    <2> SUFFICES ASSUME T # {} PROVE FALSE
      OBVIOUS
    <2>1. PICK m \in T : \A k \in T : m <= k
      <3>1. T \in SUBSET Nat
        OBVIOUS
      <3> HIDE DEF T
      <3> QED
        BY <3>1, Least
    <2>2. m \in 0..Len(h) /\ m \in 0..Len(g) /\ ~(r[m] \subseteq q[m])
      BY <1>1, <2>1
    <2>3. CASE m = 0
      <3>1. r[0] = ProveDirect(h) /\ q[0] = ProveDirect(g)
        BY <2>2, <2>3, <1>4, <1>5
      <3> QED
        BY <2>2, <2>3, <3>1, ProvesMore
    <2>4. CASE m # 0
      <3>1. m - 1 \in 0..Len(h) /\ m - 1 \notin T
        BY <2>1, <2>2, <2>4
      <3>2. r[m - 1] \subseteq q[m - 1]
        BY <3>1
      <3>3. r[m] = r[m - 1] \cup {c \in LoadCells(h) : Carried(h, c) /\ HasBase(h, r[m - 1], c[1])}
            /\ q[m] = q[m - 1] \cup {c \in LoadCells(g) : Carried(g, c) /\ HasBase(g, q[m - 1], c[1])}
        BY <1>4, <1>5, <2>2, <2>4
      <3>4. PICK c : c \in r[m] /\ c \notin q[m]
        BY <2>2
      <3>5. c \notin r[m - 1] /\ c \in LoadCells(h) /\ Carried(h, c) /\ HasBase(h, r[m - 1], c[1])
        BY <3>2, <3>3, <3>4
      <3>6. c \in LoadCells(g) /\ Carried(g, c) /\ HasBase(g, q[m - 1], c[1])
        BY <3>2, <3>5, SameCells, ProvesMore
      <3> QED
        BY <3>3, <3>4, <3>6
    <2> QED
      BY <2>3, <2>4
  <1>7. \A k \in Len(h)..Len(g) : r[Len(h)] \subseteq q[k]
    <2> DEFINE T == {k \in Len(h)..Len(g) : ~(r[Len(h)] \subseteq q[k])}
    <2> SUFFICES ASSUME T # {} PROVE FALSE
      OBVIOUS
    <2>1. PICK m \in T : \A k \in T : m <= k
      <3>1. T \in SUBSET Nat
        BY <1>1
      <3> HIDE DEF T
      <3> QED
        BY <3>1, Least
    <2>2. m \in Len(h)..Len(g) /\ m \in 0..Len(g) /\ ~(r[Len(h)] \subseteq q[m])
      BY <1>1, <2>1
    <2>3. m # Len(h)
      BY <1>1, <1>6, <2>2
    <2>4. m - 1 \in Len(h)..Len(g) /\ m - 1 \notin T /\ m # 0
      BY <1>1, <2>1, <2>2, <2>3
    <2>5. q[m - 1] \subseteq q[m]
      BY <1>5, <2>2, <2>4
    <2> QED
      BY <2>2, <2>4, <2>5
  <1> QED
    BY <1>1, <1>2, <1>3, <1>7

-----------------------------------------------------------------------------
(* Kinds *)

LEMMA SameSums ==
    ASSUME NEW h, NEW g, Extends(h, g), NEW S \in SUBSET LoadCells(h)
    PROVE  Sum(g, S) = Sum(h, S)
  <1>1. Summable(Amounts(h)) /\ Summable(Amounts(g))
    BY CellsAreFinite DEF Extends
  <1>2. DOMAIN Amounts(h) = LoadCells(h) /\ DOMAIN Amounts(g) = LoadCells(g) /\ LoadCells(h) \subseteq LoadCells(g)
    BY SameCells DEF Amounts
  <1>3. S \in SUBSET (DOMAIN Amounts(h) \cap DOMAIN Amounts(g))
    BY <1>2
  <1>4. \A c \in S : Amounts(h)[c] = Amounts(g)[c]
    BY SameCells DEF Amounts
  <1> QED
    BY <1>1, <1>3, <1>4, TotalAgrees DEF Matches, Sum

LEMMA KindStays ==
    ASSUME NEW h, NEW g, Extends(h, g), NEW w, NEW i \in DOMAIN h, h[i].ins \subseteq LoadCells(h),
           ClassifyRow(h, w, Proven(h), i) # "unknown"
    PROVE  ClassifyRow(g, w, Proven(g), i) = ClassifyRow(h, w, Proven(h), i)
  <1>1. SidesJudged(h, Proven(h), i)
    BY DEF ClassifyRow
  <1>2. g[i] = h[i] /\ Outs(g, i) = Outs(h, i) /\ Outs(h, i) \subseteq LoadCells(h)
    BY SameCells DEF LoadCells
  <1>3. SidesJudged(g, Proven(g), i)
    <2> SUFFICES ASSUME NEW c \in g[i].ins \cup Outs(g, i) PROVE Judged(g, Proven(g), c)
      BY DEF SidesJudged
    <2>1. Judged(h, Proven(h), c) /\ c \in LoadCells(h)
      BY <1>1, <1>2 DEF SidesJudged
    <2>2. StateOf(g, c) = StateOf(h, c)
      BY <2>1, SameCells
    <2> QED
      BY <2>1, <2>2, ProvenGrows DEF Judged
  <1>4. Sum(g, g[i].ins) = Sum(h, h[i].ins) /\ Sum(g, Outs(g, i)) = Sum(h, Outs(h, i))
    <2>1. Sum(g, h[i].ins) = Sum(h, h[i].ins) /\ Sum(g, Outs(h, i)) = Sum(h, Outs(h, i))
      BY <1>2, SameSums
    <2> QED
      BY <1>2, <2>1
  <1>5. EventKind(g, w, i) = EventKind(h, w, i)
    BY DEF EventKind
  <1> QED
    BY <1>1, <1>2, <1>3, <1>4, <1>5 DEF ClassifyRow

\* For any shapes of transactions: a transaction that is accepted may explain
\* an event that was unknown, and never changes the kind of one that was
\* understood (prove_direct, prove_recovered, classify_row).
THEOREM KindsStay == LedgerSpec => KnownKindsStay
  <1>1. ASSUME LedgerInv, LedgerInv', [LedgerNext]_lvars, Len(txs') > Len(txs)
        PROVE  \A i \in DOMAIN txs :
                  ClassifyRow(txs, world, Proven(txs), i) # "unknown" =>
                    ClassifyRow(txs', world, Proven(txs'), i) = ClassifyRow(txs, world, Proven(txs), i)
    <2>1. txs \in Seq(TxRecords) /\ txs' \in Seq(TxRecords) /\ Len(txs) \in Nat /\ Len(txs') \in Nat
      BY <1>1 DEF LedgerInv, LedgerTypes
    <2>2. Extends(txs, txs')
      <3>1. CASE Accept
        <4>1. PICK e : txs' = Append(txs, e)
          BY <3>1 DEF Accept
        <4>2. \A i \in 1..Len(txs) : txs'[i] = txs[i]
          BY <2>1, <4>1
        <4> QED
          BY <1>1, <2>1, <4>2 DEF Extends
      <3>2. CASE RollBackTxs
        <4>1. PICK n \in 0..Len(txs) - 1 : txs' = SubSeq(txs, 1, n)
          BY <3>2 DEF RollBackTxs
        <4>2. Len(txs') = n /\ n < Len(txs)
          BY <2>1, <4>1
        <4> QED
          BY <1>1, <2>1, <4>2
      <3>3. CASE MinterEvent \/ Drain \/ UNCHANGED lvars
        <4>1. txs' = txs
          BY <3>3 DEF MinterEvent, Drain, lvars
        <4> QED
          BY <1>1, <2>1, <4>1
      <3> QED
        BY <1>1, <3>1, <3>2, <3>3 DEF LedgerNext
    <2>3. \A i \in DOMAIN txs : txs[i].ins \subseteq LoadCells(txs)
      <3> SUFFICES ASSUME NEW i \in DOMAIN txs, NEW c \in txs[i].ins PROVE c \in LoadCells(txs)
        OBVIOUS
      <3>1. PICK j \in 1..(i - 1) : \E k \in DOMAIN txs[j].outs : c = <<j, k>>
        BY <1>1 DEF LedgerInv, CellsInOrder
      <3>2. j \in DOMAIN txs
        BY <2>1, <3>1
      <3> QED
        BY <3>1, <3>2 DEF LoadCells, Outs
    <2> QED
      BY <2>2, <2>3, KindStays
  <1>2. LedgerInv /\ LedgerInv' /\ [LedgerNext]_lvars =>
          [Len(txs') > Len(txs) =>
             LET P == Proven(txs)
                 Q == Proven(txs')
             IN  \A i \in DOMAIN txs :
                   LET kind == ClassifyRow(txs, world, P, i)
                   IN  kind # "unknown" => ClassifyRow(txs', world, Q, i) = kind]_lvars
    BY <1>1
  <1> QED
    BY LedgerIsKept, <1>2, PTL DEF LedgerSpec, KnownKindsStay

-----------------------------------------------------------------------------
(* The pending lane: any transactions, conflicts, grace, ages and faults *)
(* The inductive invariant *)

Words == {"pending", "accepted", "replaced", "dropped"}
Messages == [tx : PTxs, kind : Words, rev : Nat]
Times == Nat \cup {Never}
PollerStates == [pc : {"idle", "diff", "send", "ended"}, cur : SUBSET PTxs, todo : SUBSET PTxs, prev : SUBSET PTxs,
                 retry : SUBSET PTxs, now : Nat, outbox : Seq(Messages)]
FollowerStates == [todo : SUBSET PTxs, outbox : Seq(Messages)]
Pasts == [left : [PTxs -> Times], indexed : [PTxs -> Times], dropped : SUBSET PTxs, faults : Nat, blind : SUBSET PTxs]

LaneTypes ==
    /\ mempool \subseteq PTxs /\ indexed \subseteq PTxs /\ tick \in Nat
    /\ Tracked \subseteq PTxs /\ feed.revision \in Nat
    /\ poller \in PollerStates /\ follower \in FollowerStates /\ history \in Pasts
    /\ news \in [PTxs -> [kind : Words \cup {"none"}, rev : Nat]]
    /\ poller.pc = "idle" => poller.outbox = <<>>

\* Words on their way, and those that end a transaction after revision r.
Underway == ToSet(poller.outbox) \cup ToSet(follower.outbox)
Ends(m, t, r) == m.tx = t /\ m.kind # "pending" /\ m.rev > r

\* A hint about t that was heard or is on its way is overruled.
Overruled(t) ==
    /\ news[t].kind = "pending" => \E e \in Underway : Ends(e, t, news[t].rev)
    /\ \A m \in Underway : m.tx = t /\ m.kind = "pending" =>
          news[t].rev >= m.rev \/ \E e \in Underway : Ends(e, t, m.rev)

\* Revisions tell which word is newer, and that of a resolution is the newest.
WordsInOrder ==
    /\ \A m \in Underway : m.rev <= feed.revision
    /\ \A t \in PTxs : news[t].rev <= feed.revision
    /\ feed.status = "disabled" => poller.pc = "ended"
    /\ feed.status # "disabled" => \A t \in PTxs \ Tracked : Overruled(t)

LeftBy(t, n) == history.left[t] # Never /\ history.left[t] <= n

\* A timer runs only for what had left the pool when it was started.
TimersRunLate ==
    /\ poller.now <= tick /\ poller.todo \subseteq poller.cur
    /\ \A t \in PTxs : history.left[t] # Never => history.left[t] <= tick
    /\ \A t \in Tracked \cup poller.cur : t \in mempool \/ LeftBy(t, tick)
    /\ poller.pc = "diff" => \A t \in Tracked : t \in poller.cur \/ LeftBy(t, poller.now)
    /\ \A t \in Tracked : feed.entries[t].leaving \in Times
    /\ \A t \in Tracked : feed.entries[t].leaving # Never => LeftBy(t, feed.entries[t].leaving)
    /\ \A t \in PTxs : t \in indexed <=> history.indexed[t] # Never

\* What was dropped had its grace before it was indexed, if it ever was.
DroppedLate ==
    \A t \in history.dropped :
        /\ LeftBy(t, tick)
        /\ history.indexed[t] = Never => history.left[t] + Grace <= tick
        /\ history.indexed[t] # Never => history.indexed[t] - history.left[t] >= Grace

FeedInv == LaneTypes /\ WordsInOrder /\ TimersRunLate /\ DroppedLate

-----------------------------------------------------------------------------
(* Words *)

LEMMA WordsAreMessages ==
    ASSUME LaneTypes PROVE \A m \in Underway : m \in Messages /\ m.tx \in PTxs /\ m.rev \in Nat
  <1>1. \A m \in Underway : m \in Messages
    BY DEF LaneTypes, Underway, PollerStates, FollowerStates, ToSet
  <1> QED
    BY <1>1 DEF Messages

\* A step that neither sends nor hears, and gives up nothing tracked.
LEMMA NoWords ==
    ASSUME LaneTypes, WordsInOrder, feed'.revision \in Nat, feed'.revision >= feed.revision,
           Tracked \subseteq Tracked', Underway' = Underway, news' = news,
           feed'.status = "disabled" => poller'.pc = "ended",
           feed'.status # "disabled" => feed.status # "disabled"
    PROVE  WordsInOrder'
  <1>1. \A m \in Underway : m.rev \in Nat
    BY WordsAreMessages
  <1>2. \A m \in Underway' : m.rev <= feed'.revision
    BY <1>1 DEF WordsInOrder, LaneTypes
  <1>3. \A t \in PTxs : news[t].rev \in Nat
    BY DEF LaneTypes
  <1>4. \A t \in PTxs : news'[t].rev <= feed'.revision
    BY <1>3 DEF WordsInOrder, LaneTypes
  <1>5. ASSUME feed'.status # "disabled", NEW t \in PTxs \ Tracked' PROVE Overruled(t)'
    <2>1. Overruled(t)
      BY <1>5 DEF WordsInOrder
    <2> QED
      BY <2>1 DEF Overruled
  <1> QED
    BY <1>2, <1>4, <1>5 DEF WordsInOrder

\* A subscriber hears one word.
LEMMA WordHeard ==
    ASSUME LaneTypes, WordsInOrder, NEW m \in Underway, news' = Hears(m), feed' = feed, poller'.pc = poller.pc,
           Underway' \subseteq Underway, Underway \subseteq Underway' \cup {m}
    PROVE  WordsInOrder' /\ news' \in [PTxs -> [kind : Words \cup {"none"}, rev : Nat]]
  <1>1. \A w \in Underway : w \in Messages
    BY DEF LaneTypes, Underway, PollerStates, FollowerStates, ToSet
  <1>2. m.tx \in PTxs /\ m.kind \in Words /\ m.rev \in Nat /\ \A w \in Underway : w.rev \in Nat /\ w.tx \in PTxs
    BY <1>1 DEF Messages
  <1>3. \A t \in PTxs : news[t].rev \in Nat /\ news[t].kind \in Words \cup {"none"}
    BY DEF LaneTypes
  <1>4. news' \in [PTxs -> [kind : Words \cup {"none"}, rev : Nat]]
    BY <1>2 DEF LaneTypes, Hears
  <1>5. \A t \in PTxs :
          IF t = m.tx /\ m.rev > news[t].rev
          THEN news'[t].kind = m.kind /\ news'[t].rev = m.rev
          ELSE news'[t] = news[t]
    BY <1>2 DEF LaneTypes, Hears
  <1>6. \A w \in Underway' : w.rev <= feed'.revision
    BY DEF WordsInOrder
  <1>7. \A t \in PTxs : news'[t].rev <= feed'.revision
    BY <1>5 DEF WordsInOrder
  <1>8. ASSUME feed'.status # "disabled", NEW t \in PTxs \ Tracked' PROVE Overruled(t)'
    <2>1. Overruled(t)
      BY <1>8 DEF WordsInOrder, Tracked
    <2>2. ASSUME news'[t].kind = "pending" PROVE \E e \in Underway' : Ends(e, t, news'[t].rev)
      <3>1. CASE t = m.tx /\ m.rev > news[t].rev
        <4>1. m.kind = "pending" /\ news'[t].rev = m.rev
          BY <1>5, <2>2, <3>1
        <4>2. PICK e \in Underway : Ends(e, t, m.rev)
          BY <1>2, <1>3, <2>1, <3>1, <4>1 DEF Overruled
        <4>3. e # m
          BY <4>1, <4>2 DEF Ends
        <4> QED
          BY <4>1, <4>2, <4>3
      <3>2. CASE ~(t = m.tx /\ m.rev > news[t].rev)
        <4>1. news'[t] = news[t]
          BY <1>5, <3>2
        <4>2. PICK e \in Underway : Ends(e, t, news[t].rev)
          BY <2>1, <2>2, <4>1 DEF Overruled
        <4>3. e # m
          BY <3>2, <4>2 DEF Ends
        <4> QED
          BY <4>1, <4>2, <4>3
      <3> QED
        BY <3>1, <3>2
    <2>3. ASSUME NEW w \in Underway', w.tx = t, w.kind = "pending"
          PROVE  news'[t].rev >= w.rev \/ \E e \in Underway' : Ends(e, t, w.rev)
      <3>1. news'[t].rev >= news[t].rev /\ news'[t].rev \in Nat /\ news[t].rev \in Nat /\ w.rev \in Nat
        BY <1>2, <1>3, <1>5
      <3>2. CASE news[t].rev >= w.rev
        BY <3>1, <3>2
      <3>3. ASSUME NEW e \in Underway, Ends(e, t, w.rev)
            PROVE  news'[t].rev >= w.rev \/ \E x \in Underway' : Ends(x, t, w.rev)
        <4>1. CASE e = m
          <5>1. news'[t].rev >= m.rev
            BY <1>2, <1>3, <1>5, <3>3, <4>1 DEF Ends
          <5> QED
            BY <1>2, <3>1, <3>3, <4>1, <5>1 DEF Ends
        <4>2. CASE e # m
          BY <3>3, <4>2
        <4> QED
          BY <4>1, <4>2
      <3> QED
        BY <2>1, <2>3, <3>2, <3>3 DEF Overruled
    <2> QED
      BY <2>2, <2>3 DEF Overruled
  <1>9. feed'.status = "disabled" => poller'.pc = "ended"
    BY DEF WordsInOrder
  <1> QED
    BY <1>4, <1>6, <1>7, <1>8, <1>9 DEF WordsInOrder

\* A resolution of each transaction given up goes out, newer than any word on it.
LEMMA WordsOfGone ==
    ASSUME LaneTypes, NEW S \in SUBSET Tracked, NEW kind \in [S -> Words \ {"pending"}],
           NEW sent \in Resolutions(feed, S, kind)
    PROVE  /\ sent \in Seq(Messages)
           /\ Removals(feed, Cardinality(S)) \in Nat /\ Removals(feed, Cardinality(S)) >= feed.revision
           /\ \A m \in ToSet(sent) :
                 m.tx \in S /\ m.kind # "pending" /\ m.rev > feed.revision /\ m.rev <= Removals(feed, Cardinality(S))
           /\ \A t \in S : \E m \in ToSet(sent) : m.tx = t
  <1>1. Cardinality(S) \in Nat
    BY PendingAssumption, FS_Subset, FS_CardinalityType DEF LaneTypes
  <1>2. PICK turn \in [1..Cardinality(S) -> S] :
          /\ \A t \in S : \E i \in DOMAIN turn : turn[i] = t
          /\ sent = [i \in DOMAIN turn |-> Msg(turn[i], kind[turn[i]], Removals(feed, i))]
    BY DEF Resolutions
  <1>3. DOMAIN sent = 1..Cardinality(S) /\ DOMAIN turn = 1..Cardinality(S)
    BY <1>2
  <1>4. \A i \in 1..Cardinality(S) :
          /\ sent[i] = Msg(turn[i], kind[turn[i]], Removals(feed, i))
          /\ turn[i] \in S /\ turn[i] \in PTxs /\ kind[turn[i]] \in Words \ {"pending"}
          /\ Removals(feed, i) \in Nat /\ Removals(feed, i) > feed.revision
          /\ Removals(feed, i) <= Removals(feed, Cardinality(S))
    <2> SUFFICES ASSUME NEW i \in 1..Cardinality(S)
                 PROVE  /\ sent[i] = Msg(turn[i], kind[turn[i]], Removals(feed, i))
                        /\ turn[i] \in S /\ turn[i] \in PTxs /\ kind[turn[i]] \in Words \ {"pending"}
                        /\ Removals(feed, i) \in Nat /\ Removals(feed, i) > feed.revision
                        /\ Removals(feed, i) <= Removals(feed, Cardinality(S))
      OBVIOUS
    <2>1. sent[i] = Msg(turn[i], kind[turn[i]], Removals(feed, i))
      BY <1>2, <1>3
    <2>2. turn[i] \in S /\ turn[i] \in PTxs /\ kind[turn[i]] \in Words \ {"pending"}
      BY <1>2 DEF LaneTypes
    <2>3. feed.revision \in Nat
      BY DEF LaneTypes
    <2>4. /\ Removals(feed, i) \in Nat /\ Removals(feed, i) > feed.revision
          /\ Removals(feed, i) <= Removals(feed, Cardinality(S))
      BY <1>1, <2>3 DEF Removals
    <2> QED
      BY <2>1, <2>2, <2>4
  <1>5. \A i \in 1..Cardinality(S) :
          /\ sent[i] \in Messages
          /\ sent[i].tx = turn[i] /\ sent[i].kind = kind[turn[i]] /\ sent[i].rev = Removals(feed, i)
    <2> SUFFICES ASSUME NEW i \in 1..Cardinality(S)
                 PROVE  /\ sent[i] \in Messages
                        /\ sent[i].tx = turn[i] /\ sent[i].kind = kind[turn[i]] /\ sent[i].rev = Removals(feed, i)
      OBVIOUS
    <2>1. turn[i] \in PTxs /\ kind[turn[i]] \in Words /\ Removals(feed, i) \in Nat
      BY <1>4
    <2>2. sent[i] = [tx |-> turn[i], kind |-> kind[turn[i]], rev |-> Removals(feed, i)]
      BY <1>4 DEF Msg
    <2> QED
      BY <2>1, <2>2 DEF Messages
  <1>6. sent \in [1..Cardinality(S) -> Messages]
    BY <1>2, <1>3, <1>5
  <1>7. sent \in Seq(Messages)
    BY <1>1, <1>6, SeqDef
  <1>8. Removals(feed, Cardinality(S)) \in Nat /\ Removals(feed, Cardinality(S)) >= feed.revision
    BY <1>1 DEF LaneTypes, Removals
  <1>9. \A m \in ToSet(sent) :
          m.tx \in S /\ m.kind # "pending" /\ m.rev > feed.revision /\ m.rev <= Removals(feed, Cardinality(S))
    BY <1>3, <1>4, <1>5 DEF ToSet
  <1>10. \A t \in S : \E m \in ToSet(sent) : m.tx = t
    BY <1>2, <1>3, <1>5 DEF ToSet
  <1> QED
    BY <1>7, <1>8, <1>9, <1>10

LEMMA GoneSettles ==
    ASSUME LaneTypes, WordsInOrder, NEW S \in SUBSET Tracked, NEW kind \in [S -> Words \ {"pending"}],
           NEW sent \in Resolutions(feed, S, kind),
           feed'.revision = Removals(feed, Cardinality(S)), feed'.status = feed.status,
           feed.status = "disabled" => poller'.pc = "ended",
           Tracked' = Tracked \ S, Underway' = Underway \cup ToSet(sent), news' = news
    PROVE  WordsInOrder'
  <1>1. \A m \in Underway : m \in Messages
    BY DEF LaneTypes, Underway, PollerStates, FollowerStates, ToSet
  <1>2. \A m \in Underway : m.rev \in Nat /\ m.rev <= feed.revision
    BY <1>1 DEF Messages, WordsInOrder
  <1>3. \A t \in PTxs : news[t].rev \in Nat /\ news[t].rev <= feed.revision
    BY DEF LaneTypes, WordsInOrder
  <1>4. feed.revision \in Nat /\ feed'.revision \in Nat /\ feed'.revision >= feed.revision
    BY WordsOfGone DEF LaneTypes
  <1>5. /\ \A m \in ToSet(sent) : m.tx \in S /\ m.kind # "pending" /\ m.rev > feed.revision /\ m.rev <= feed'.revision
        /\ \A t \in S : \E m \in ToSet(sent) : m.tx = t
        /\ \A m \in ToSet(sent) : m.rev \in Nat
    <2>1. \A m \in ToSet(sent) : m \in Messages
      BY WordsOfGone DEF ToSet
    <2> QED
      BY <2>1, WordsOfGone DEF Messages
  <1>6. \A m \in Underway' : m.rev <= feed'.revision
    BY <1>2, <1>4, <1>5
  <1>7. \A t \in PTxs : news'[t].rev <= feed'.revision
    BY <1>3, <1>4
  <1>8. ASSUME feed'.status # "disabled", NEW t \in PTxs \ Tracked' PROVE Overruled(t)'
    <2>1. CASE t \in S
      <3>1. PICK e \in ToSet(sent) : e.tx = t /\ e.kind # "pending" /\ e.rev > feed.revision /\ e.rev \in Nat
        BY <1>5, <2>1
      <3>2. \A r \in Nat : r <= feed.revision => Ends(e, t, r)
        BY <1>4, <3>1 DEF Ends
      <3>3. e \in Underway'
        BY <3>1
      <3>4. Ends(e, t, news'[t].rev)
        BY <1>3, <3>2
      <3>5. \A m \in Underway' : m.tx = t /\ m.kind = "pending" => Ends(e, t, m.rev)
        BY <1>2, <1>5, <3>2
      <3> QED
        BY <3>3, <3>4, <3>5 DEF Overruled
    <2>2. CASE t \notin S
      <3>1. Overruled(t)
        BY <1>8, <2>2 DEF WordsInOrder
      <3>2. \A m \in Underway' : m.tx = t => m \in Underway
        BY <1>5, <2>2
      <3> QED
        BY <3>1, <3>2 DEF Overruled
    <2> QED
      BY <2>1, <2>2
  <1>9. feed'.status = "disabled" => poller'.pc = "ended"
    OBVIOUS
  <1> QED
    BY <1>6, <1>7, <1>8, <1>9 DEF WordsInOrder

-----------------------------------------------------------------------------
(* The steps *)

LEMMA NothingTracked == DOMAIN << >> = {} /\ ToSet(<< >>) = {}
  BY DEF ToSet

LEMMA LaneStarts == PendingInit => FeedInv
  <1> SUFFICES ASSUME PendingInit PROVE FeedInv
    OBVIOUS
  <1>1. /\ feed.entries = << >> /\ feed.status = "starting" /\ feed.revision = 0 /\ Tracked = {}
    BY NothingTracked DEF PendingInit, Feed, Tracked
  <1>2. /\ poller.pc = "idle" /\ poller.cur = {} /\ poller.todo = {} /\ poller.now = 0 /\ poller.outbox = <<>>
        /\ poller \in PollerStates
    BY DEF PendingInit, Poller, PollerStates
  <1>3. history \in Pasts /\ history.dropped = {} /\ \A t \in PTxs : history.indexed[t] = Never
    BY DEF PendingInit, Past, Pasts, Times
  <1>4. LaneTypes
    BY <1>1, <1>2, <1>3 DEF PendingInit, LaneTypes, FollowerStates
  <1>5. Underway = {}
    BY <1>2, NothingTracked DEF PendingInit, Underway
  <1>6. WordsInOrder
    BY <1>1, <1>5 DEF PendingInit, WordsInOrder, Overruled
  <1>7. TimersRunLate
    <2>1. indexed = {} /\ tick = 0 /\ \A t \in PTxs : history.left[t] = Never
      BY DEF PendingInit, Past
    <2> QED
      BY <1>1, <1>2, <1>3, <2>1 DEF TimersRunLate
  <1>8. DroppedLate
    BY <1>3 DEF DroppedLate
  <1> QED
    BY <1>4, <1>6, <1>7, <1>8 DEF FeedInv

\* What left the pool once keeps the time of the first leaving.
LEMMA PoolKeeps ==
    ASSUME FeedInv, NEW left \in [PTxs -> Times],
           \A t \in PTxs : history.left[t] # Never => left[t] = history.left[t],
           \A t \in PTxs : left[t] # Never => left[t] <= tick,
           \A t \in PTxs : t \in mempool => t \in mempool' \/ left[t] # Never,
           mempool' \subseteq PTxs, history' = [history EXCEPT !.left = left],
           UNCHANGED <<indexed, feed, poller, follower, news, tick>>
    PROVE  FeedInv'
  <1>1. history \in Pasts /\ history' \in Pasts
    BY DEF FeedInv, LaneTypes, Pasts
  <1>2. history'.left = left /\ history'.indexed = history.indexed /\ history'.dropped = history.dropped
    BY <1>1 DEF Pasts
  <1>3. LaneTypes'
    BY <1>1 DEF FeedInv, LaneTypes, Tracked
  <1>4. Tracked' = Tracked /\ Underway' = Underway
    BY DEF Tracked, Underway
  <1>5. WordsInOrder'
    BY <1>4, NoWords DEF FeedInv, LaneTypes, WordsInOrder
  <1>6. \A t \in PTxs : \A n : LeftBy(t, n) => LeftBy(t, n)'
    BY <1>2 DEF LeftBy
  <1>7. Tracked \subseteq PTxs /\ poller.cur \subseteq PTxs /\ history.dropped \subseteq PTxs
    BY <1>1 DEF FeedInv, LaneTypes, PollerStates, Pasts
  <1>8. \A t \in PTxs : t \in mempool => t \in mempool' \/ LeftBy(t, tick)'
    BY <1>2 DEF LeftBy
  <1>9. TimersRunLate'
    BY <1>2, <1>4, <1>6, <1>7, <1>8 DEF FeedInv, TimersRunLate
  <1>10. DroppedLate'
    BY <1>2, <1>6, <1>7 DEF FeedInv, DroppedLate, LeftBy
  <1> QED
    BY <1>3, <1>5, <1>9, <1>10 DEF FeedInv

LEMMA EnterKeeps == ASSUME FeedInv, NEW t \in PTxs, EnterPool(t) PROVE FeedInv'
  <1> DEFINE out == {u \in mempool : {t, u} \in Conflicts}
             left == [u \in PTxs |-> IF u \in out /\ history.left[u] = Never THEN tick ELSE history.left[u]]
  <1>1. history \in Pasts /\ tick \in Nat /\ mempool \subseteq PTxs
    BY DEF FeedInv, LaneTypes
  <1>2. left \in [PTxs -> Times]
    BY <1>1 DEF Pasts, Times
  <1>3. \A u \in PTxs : history.left[u] # Never => left[u] = history.left[u]
    OBVIOUS
  <1>4. mempool' = (mempool \ out) \cup {t} /\ history' = [history EXCEPT !.left = left]
    BY DEF EnterPool
  <1>5. UNCHANGED <<indexed, feed, poller, follower, news, tick>>
    BY DEF EnterPool
  <1>6. \A u \in PTxs : left[u] # Never => left[u] <= tick
    BY <1>1 DEF FeedInv, TimersRunLate
  <1>7. \A u \in PTxs : u \in mempool => u \in mempool' \/ left[u] # Never
    BY <1>1, <1>4 DEF Never
  <1> HIDE DEF left, out
  <1>8. mempool' \subseteq PTxs
    BY <1>1, <1>4
  <1> QED
    BY <1>2, <1>3, <1>4, <1>5, <1>6, <1>7, <1>8, PoolKeeps

LEMMA LeaveKeeps == ASSUME FeedInv, NEW t \in PTxs, LeavePool(t) PROVE FeedInv'
  <1> DEFINE left == [history.left EXCEPT ![t] = IF @ = Never THEN tick ELSE @]
  <1>1. history \in Pasts /\ tick \in Nat /\ mempool \subseteq PTxs
    BY DEF FeedInv, LaneTypes
  <1>2. history.left \in [PTxs -> Times]
    BY <1>1 DEF Pasts
  <1>3. left \in [PTxs -> Times] /\ \A u \in PTxs : history.left[u] # Never => left[u] = history.left[u]
    BY <1>1, <1>2 DEF Times
  <1>4. mempool' = mempool \ {t} /\ history' = [history EXCEPT !.left = left]
    BY DEF LeavePool
  <1>5. UNCHANGED <<indexed, feed, poller, follower, news, tick>>
    BY DEF LeavePool
  <1>6. \A u \in PTxs : left[u] # Never => left[u] <= tick
    BY <1>1, <1>2 DEF FeedInv, TimersRunLate
  <1>7. \A u \in PTxs : u \in mempool => u \in mempool' \/ left[u] # Never
    BY <1>1, <1>2, <1>4 DEF Never
  <1> HIDE DEF left
  <1>8. mempool' \subseteq PTxs
    BY <1>1, <1>4
  <1> QED
    BY <1>3, <1>4, <1>5, <1>6, <1>7, <1>8, PoolKeeps

LEMMA IndexKeeps == ASSUME FeedInv, NEW t \in PTxs, Index(t) PROVE FeedInv'
  <1>1. history \in Pasts /\ follower \in FollowerStates /\ tick \in Nat
    BY DEF FeedInv, LaneTypes
  <1>2. /\ history'.left = history.left /\ history'.dropped = history.dropped
        /\ history'.indexed = [history.indexed EXCEPT ![t] = tick] /\ history' \in Pasts
    BY <1>1 DEF Index, Pasts, Times
  <1>3. \A u \in PTxs : history'.indexed[u] = IF u = t THEN tick ELSE history.indexed[u]
    BY <1>1, <1>2 DEF Pasts
  <1>4. follower'.outbox = follower.outbox /\ follower' \in FollowerStates
    BY <1>1 DEF Index, FollowerStates
  <1>5. t \notin indexed /\ indexed' = indexed \cup {t} /\ UNCHANGED <<mempool, feed, poller, news, tick>>
    BY DEF Index
  <1>6. Tracked' = Tracked /\ Underway' = Underway
    BY <1>4, <1>5 DEF Tracked, Underway
  <1>7. LaneTypes'
    BY <1>2, <1>4, <1>5, <1>6 DEF FeedInv, LaneTypes
  <1>8. WordsInOrder'
    BY <1>5, <1>6, NoWords DEF FeedInv, LaneTypes, WordsInOrder
  <1>9. \A u \in PTxs : \A n : LeftBy(u, n)' <=> LeftBy(u, n)
    BY <1>2 DEF LeftBy
  <1>10. Tracked \subseteq PTxs /\ poller.cur \subseteq PTxs /\ history.dropped \subseteq PTxs
    BY <1>1 DEF FeedInv, LaneTypes, PollerStates, Pasts
  <1>11. tick # Never
    BY <1>1 DEF Never
  <1>12. TimersRunLate'
    BY <1>2, <1>3, <1>5, <1>6, <1>9, <1>10, <1>11 DEF FeedInv, TimersRunLate
  <1>13. ASSUME NEW u \in history.dropped
         PROVE  /\ LeftBy(u, tick)'
                /\ history'.indexed[u] = Never => history.left[u] + Grace <= tick
                /\ history'.indexed[u] # Never => history'.indexed[u] - history.left[u] >= Grace
    <2>1. /\ LeftBy(u, tick) /\ u \in PTxs
          /\ history.indexed[u] = Never => history.left[u] + Grace <= tick
          /\ history.indexed[u] # Never => history.indexed[u] - history.left[u] >= Grace
      BY <1>10 DEF FeedInv, DroppedLate
    <2>2. CASE u = t
      <3>1. history.indexed[t] = Never
        BY <1>5 DEF FeedInv, TimersRunLate
      <3>2. history.left[t] \in Int /\ tick \in Int /\ Grace \in Int
        BY <1>1, PendingAssumption DEF Pasts, Times, Never
      <3> QED
        BY <1>3, <1>9, <1>5, <1>11, <2>1, <2>2, <3>1, <3>2
    <2>3. CASE u # t
      BY <1>3, <1>9, <1>5, <2>1, <2>3
    <2> QED
      BY <2>2, <2>3
  <1>14. DroppedLate'
    BY <1>2, <1>5, <1>13 DEF DroppedLate
  <1> QED
    BY <1>7, <1>8, <1>12, <1>14 DEF FeedInv

LEMMA PoolRollBackKeeps == ASSUME FeedInv, NEW t \in PTxs, RollBack(t) PROVE FeedInv'
  <1>1. history \in Pasts
    BY DEF FeedInv, LaneTypes
  <1>2. /\ history'.left = history.left /\ history'.dropped = history.dropped \ {t}
        /\ history'.indexed = [history.indexed EXCEPT ![t] = Never] /\ history' \in Pasts
    BY <1>1 DEF RollBack, Pasts, Past, Times
  <1>3. \A u \in PTxs : history'.indexed[u] = IF u = t THEN Never ELSE history.indexed[u]
    BY <1>1, <1>2 DEF Pasts
  <1>4. mempool' = mempool \cup {t} /\ indexed' = indexed \ {t} /\ UNCHANGED <<feed, poller, follower, news, tick>>
    BY DEF RollBack
  <1>5. Tracked' = Tracked /\ Underway' = Underway
    BY <1>4 DEF Tracked, Underway
  <1>6. LaneTypes'
    BY <1>2, <1>4, <1>5 DEF FeedInv, LaneTypes
  <1>7. WordsInOrder'
    BY <1>4, <1>5, NoWords DEF FeedInv, LaneTypes, WordsInOrder
  <1>8. \A u \in PTxs : \A n : LeftBy(u, n)' <=> LeftBy(u, n)
    BY <1>2 DEF LeftBy
  <1>9. Tracked \subseteq PTxs /\ poller.cur \subseteq PTxs /\ history.dropped \subseteq PTxs
    BY <1>1 DEF FeedInv, LaneTypes, PollerStates, Pasts
  <1>10. TimersRunLate'
    BY <1>2, <1>3, <1>4, <1>5, <1>8, <1>9 DEF FeedInv, TimersRunLate
  <1>11. DroppedLate'
    BY <1>2, <1>3, <1>4, <1>8, <1>9 DEF FeedInv, DroppedLate
  <1> QED
    BY <1>6, <1>7, <1>10, <1>11 DEF FeedInv

LEMMA ClockKeeps == FeedInv /\ Clock => FeedInv'
  <1> SUFFICES ASSUME FeedInv, Clock PROVE FeedInv'
    OBVIOUS
  <1>1. /\ tick \in Nat /\ tick' = tick + 1
        /\ UNCHANGED <<mempool, indexed, feed, poller, follower, news, history>>
    BY DEF Clock, FeedInv, LaneTypes
  <1>2. Tracked' = Tracked /\ Underway' = Underway
    BY <1>1 DEF Tracked, Underway
  <1>3. LaneTypes'
    BY <1>1, <1>2 DEF FeedInv, LaneTypes
  <1>4. WordsInOrder'
    BY <1>1, <1>2, NoWords DEF FeedInv, LaneTypes, WordsInOrder
  <1>5. /\ Tracked \subseteq PTxs /\ poller.cur \subseteq PTxs /\ history.dropped \subseteq PTxs
        /\ poller.now \in Nat /\ history.left \in [PTxs -> Times]
    BY DEF FeedInv, LaneTypes, PollerStates, Pasts
  <1>6. \A u \in PTxs : history.left[u] \in Int /\ Grace \in Int
    BY <1>5, PendingAssumption DEF Times, Never
  <1>7. \A u \in PTxs : LeftBy(u, tick) => LeftBy(u, tick)'
    BY <1>1, <1>6 DEF LeftBy
  <1>8. \A u \in PTxs : \A n : LeftBy(u, n) => LeftBy(u, n)'
    BY <1>1 DEF LeftBy
  <1>9. TimersRunLate'
    BY <1>1, <1>2, <1>5, <1>6, <1>7, <1>8 DEF FeedInv, TimersRunLate
  <1>10. DroppedLate'
    BY <1>1, <1>5, <1>6, <1>7 DEF FeedInv, DroppedLate
  <1> QED
    BY <1>3, <1>4, <1>9, <1>10 DEF FeedInv

\* A step that touches neither pool nor store, follower nor what was dropped,
\* and starts no timer.
LEMMA QuietKeeps ==
    ASSUME FeedInv, WordsInOrder', poller' \in PollerStates, history' \in Pasts,
           feed'.revision \in Nat, Tracked' \subseteq PTxs,
           follower' \in FollowerStates, news' \in [PTxs -> [kind : Words \cup {"none"}, rev : Nat]],
           poller'.pc = "idle" => poller'.outbox = <<>>,
           poller'.now <= tick, poller'.todo \subseteq poller'.cur,
           \A t \in Tracked' \cup poller'.cur : t \in mempool \/ LeftBy(t, tick),
           poller'.pc = "diff" => \A t \in Tracked' : t \in poller'.cur \/ LeftBy(t, poller'.now),
           \A t \in Tracked' : feed'.entries[t].leaving \in Times,
           \A t \in Tracked' : feed'.entries[t].leaving # Never => LeftBy(t, feed'.entries[t].leaving),
           history'.left = history.left, history'.indexed = history.indexed, history'.dropped = history.dropped,
           UNCHANGED <<mempool, indexed, tick>>
    PROVE  FeedInv'
  <1>1. \A u : \A n : LeftBy(u, n)' <=> LeftBy(u, n)
    BY DEF LeftBy
  <1>2. LaneTypes'
    BY DEF FeedInv, LaneTypes
  <1>3. TimersRunLate'
    BY <1>1 DEF FeedInv, TimersRunLate
  <1>4. DroppedLate'
    BY <1>1 DEF FeedInv, DroppedLate
  <1> QED
    BY <1>2, <1>3, <1>4 DEF FeedInv

\* What holds of the tracked and of the timers as they are.
LEMMA TimersNow ==
    ASSUME FeedInv
    PROVE  /\ \A t \in Tracked \cup poller.cur : t \in mempool \/ LeftBy(t, tick)
           /\ poller.pc = "diff" => \A t \in Tracked : t \in poller.cur \/ LeftBy(t, poller.now)
           /\ \A t \in Tracked : feed.entries[t].leaving \in Times
           /\ \A t \in Tracked : feed.entries[t].leaving # Never => LeftBy(t, feed.entries[t].leaving)
           /\ poller \in PollerStates /\ history \in Pasts /\ follower \in FollowerStates
           /\ news \in [PTxs -> [kind : Words \cup {"none"}, rev : Nat]]
           /\ feed.revision \in Nat /\ Tracked \subseteq PTxs
           /\ poller.now <= tick /\ poller.todo \subseteq poller.cur
  BY DEF FeedInv, LaneTypes, TimersRunLate

LEMMA StatusSet ==
    ASSUME FeedInv, NEW s, feed' = SetStatus(feed, s)
    PROVE  /\ Tracked' = Tracked /\ feed'.entries = feed.entries /\ feed'.status = s
           /\ feed'.revision \in Nat /\ feed'.revision >= feed.revision
  BY DEF SetStatus, Feed, Tracked, FeedInv, LaneTypes

LEMMA PollKeeps == FeedInv /\ PollAnswers => FeedInv'
  <1> SUFFICES ASSUME FeedInv, PollAnswers PROVE FeedInv'
    OBVIOUS
  <1>1. /\ poller.pc = "idle" /\ poller' = Poller("diff", mempool, mempool \ poller.prev, poller.prev, {}, tick, <<>>)
        /\ feed' = SetStatus(feed, "live")
        /\ UNCHANGED <<mempool, indexed, follower, news, tick, history>>
    BY DEF PollAnswers
  <1>2. mempool \subseteq PTxs /\ tick \in Nat /\ poller \in PollerStates
    BY DEF FeedInv, LaneTypes
  <1>3. /\ poller'.pc = "diff" /\ poller'.cur = mempool /\ poller'.todo \subseteq mempool /\ poller'.now = tick
        /\ poller'.outbox = <<>> /\ poller' \in PollerStates
    BY <1>1, <1>2 DEF Poller, PollerStates
  <1>4. poller.outbox = <<>>
    BY <1>1 DEF FeedInv, LaneTypes
  <1>5. Underway' = Underway
    BY <1>1, <1>3, <1>4 DEF Underway
  <1>6. WordsInOrder'
    BY <1>1, <1>3, <1>5, StatusSet, NoWords DEF FeedInv, WordsInOrder
  <1> QED
    <2>1. \A t \in Tracked' : feed'.entries[t] = feed.entries[t] /\ t \in Tracked
      BY <1>1, StatusSet
    <2>2. \A t \in Tracked' \cup poller'.cur : t \in mempool \/ LeftBy(t, tick)
      BY <1>3, <2>1, TimersNow
    <2>3. poller'.pc = "diff" => \A t \in Tracked' : t \in poller'.cur \/ LeftBy(t, poller'.now)
      BY <1>3, <2>2
    <2>4. feed'.revision \in Nat /\ Tracked' = Tracked
      BY <1>1, StatusSet
    <2>5. history' \in Pasts /\ follower' \in FollowerStates /\ poller'.now <= tick /\ Tracked' \subseteq PTxs
      BY <1>1, <1>2, <1>3, <2>4, TimersNow
    <2>6. /\ \A t \in Tracked' : feed'.entries[t].leaving \in Times
          /\ \A t \in Tracked' : feed'.entries[t].leaving # Never => LeftBy(t, feed'.entries[t].leaving)
      BY <2>1, TimersNow
    <2>7. news' \in [PTxs -> [kind : Words \cup {"none"}, rev : Nat]] /\ poller'.pc # "idle"
      BY <1>1, <1>3, TimersNow
    <2> QED
      BY <1>1, <1>3, <1>6, <2>2, <2>3, <2>4, <2>5, <2>6, <2>7, QuietKeeps

LEMMA FailKeeps == FeedInv /\ PollFails => FeedInv'
  <1> SUFFICES ASSUME FeedInv, PollFails PROVE FeedInv'
    OBVIOUS
  <1>1. /\ poller.pc = "idle" /\ poller' = [poller EXCEPT !.prev = {}]
        /\ feed' = SetStatus(feed, "reconnecting") /\ history' = [history EXCEPT !.faults = @ + 1]
        /\ UNCHANGED <<mempool, indexed, follower, news, tick>>
    BY DEF PollFails
  <1>2. /\ poller' \in PollerStates /\ poller'.pc = "idle" /\ poller'.cur = poller.cur
        /\ poller'.todo = poller.todo /\ poller'.now = poller.now /\ poller'.outbox = poller.outbox
    BY <1>1, TimersNow DEF PollerStates
  <1>3. /\ history' \in Pasts /\ history'.left = history.left /\ history'.indexed = history.indexed
        /\ history'.dropped = history.dropped
    BY <1>1, TimersNow DEF Pasts
  <1>4. poller.outbox = <<>>
    BY <1>1 DEF FeedInv, LaneTypes
  <1>5. Underway' = Underway
    BY <1>1, <1>2 DEF Underway
  <1>6. WordsInOrder'
    BY <1>1, <1>2, <1>5, StatusSet, NoWords DEF FeedInv, WordsInOrder
  <1> QED
    BY <1>1, <1>2, <1>3, <1>4, <1>6, StatusSet, TimersNow, QuietKeeps

LEMMA UnsupportedKeeps == FeedInv /\ PollUnsupported => FeedInv'
  <1> SUFFICES ASSUME FeedInv, PollUnsupported PROVE FeedInv'
    OBVIOUS
  <1>1. /\ poller.pc = "idle" /\ poller' = [poller EXCEPT !.pc = "ended"]
        /\ feed' = MarkDisabled(feed) /\ history' = [history EXCEPT !.faults = @ + 1]
        /\ UNCHANGED <<mempool, indexed, follower, news, tick>>
    BY DEF PollUnsupported
  <1>2. /\ poller' \in PollerStates /\ poller'.pc = "ended" /\ poller'.cur = poller.cur
        /\ poller'.todo = poller.todo /\ poller'.now = poller.now /\ poller'.outbox = poller.outbox
    BY <1>1, TimersNow DEF PollerStates
  <1>3. /\ history' \in Pasts /\ history'.left = history.left /\ history'.indexed = history.indexed
        /\ history'.dropped = history.dropped
    BY <1>1, TimersNow DEF Pasts
  <1>4. /\ feed'.status = "disabled" /\ feed'.revision \in Nat /\ feed'.revision >= feed.revision /\ Tracked' = {}
    <2> DEFINE g == SetStatus(feed, "disabled")
    <2>1. /\ DOMAIN g.entries = DOMAIN feed.entries /\ g.status = "disabled"
          /\ g.revision \in Nat /\ g.revision >= feed.revision
      BY TimersNow DEF SetStatus, Feed
    <2>2. feed' = IF DOMAIN g.entries = {} THEN g ELSE Feed(<< >>, "disabled", g.revision + 1)
      BY <1>1 DEF MarkDisabled
    <2> HIDE DEF g
    <2>3. CASE DOMAIN g.entries = {}
      BY <2>1, <2>2, <2>3, TimersNow DEF Tracked
    <2>4. CASE DOMAIN g.entries # {}
      <3>1. feed' = Feed(<< >>, "disabled", g.revision + 1)
        BY <2>2, <2>4
      <3>2. feed'.entries = << >> /\ feed'.status = "disabled" /\ feed'.revision = g.revision + 1
        BY <3>1 DEF Feed
      <3> QED
        BY <2>1, <3>2, TimersNow, NothingTracked DEF Tracked
    <2> QED
      BY <2>3, <2>4
  <1>5. Underway' = Underway
    BY <1>1, <1>2 DEF Underway
  <1>6. WordsInOrder'
    <2>1. \A m \in Underway : m.rev \in Nat /\ m.rev <= feed.revision
      BY WordsAreMessages DEF FeedInv, WordsInOrder
    <2>2. \A t \in PTxs : news[t].rev \in Nat /\ news[t].rev <= feed.revision
      BY DEF FeedInv, LaneTypes, WordsInOrder
    <2> QED
      BY <1>1, <1>2, <1>4, <1>5, <2>1, <2>2, TimersNow DEF WordsInOrder
  <1> QED
    BY <1>1, <1>2, <1>3, <1>4, <1>6, TimersNow, QuietKeeps

LEMMA SkipKeeps == ASSUME FeedInv, NEW t \in PTxs, SkipNew(t) PROVE FeedInv'
  <1>1. PICK why \in {"failed", "none", "overflow"} :
          /\ poller' = Poller("diff", poller.cur, poller.todo \ {t}, poller.prev,
                              IF why = "none" THEN poller.retry ELSE poller.retry \cup {t}, poller.now, <<>>)
          /\ history' = IF why = "failed" THEN [history EXCEPT !.faults = @ + 1] ELSE history
    BY DEF SkipNew
  <1>2. poller.pc = "diff" /\ poller.outbox = <<>> /\ UNCHANGED <<mempool, indexed, feed, follower, news, tick>>
    BY DEF SkipNew
  <1>3. /\ poller' \in PollerStates /\ poller'.pc = "diff" /\ poller'.cur = poller.cur
        /\ poller'.todo = poller.todo \ {t} /\ poller'.now = poller.now /\ poller'.outbox = <<>>
    BY <1>1, TimersNow DEF Poller, PollerStates
  <1>4. /\ history' \in Pasts /\ history'.left = history.left /\ history'.indexed = history.indexed
        /\ history'.dropped = history.dropped
    <2>1. history \in Pasts
      BY TimersNow
    <2>2. CASE why = "failed"
      <3>1. history' = [history EXCEPT !.faults = history.faults + 1]
        BY <1>1, <2>2
      <3> QED
        BY <2>1, <3>1 DEF Pasts
    <2>3. CASE why # "failed"
      BY <1>1, <2>1, <2>3
    <2> QED
      BY <2>2, <2>3
  <1>5. Tracked' = Tracked /\ Underway' = Underway
    BY <1>2, <1>3 DEF Tracked, Underway
  <1>6. WordsInOrder'
    BY <1>2, <1>3, <1>5, NoWords, TimersNow DEF FeedInv, WordsInOrder
  <1> QED
    BY <1>2, <1>3, <1>4, <1>5, <1>6, TimersNow, QuietKeeps

LEMMA ReadsFailKeeps == FeedInv /\ ReadsFail => FeedInv'
  <1> SUFFICES ASSUME FeedInv, ReadsFail PROVE FeedInv'
    OBVIOUS
  <1>1. /\ UNCHANGED <<mempool, indexed, feed, poller, follower, news, tick>>
        /\ history' = Past(history.left, history.indexed, history.dropped, history.faults + 1, Tracked)
    BY DEF ReadsFail
  <1>2. /\ history' \in Pasts /\ history'.left = history.left /\ history'.indexed = history.indexed
        /\ history'.dropped = history.dropped
    BY <1>1, TimersNow DEF Pasts, Past
  <1>3. Tracked' = Tracked /\ Underway' = Underway
    BY <1>1 DEF Tracked, Underway
  <1>4. WordsInOrder'
    BY <1>1, <1>3, NoWords, TimersNow DEF FeedInv, WordsInOrder
  <1>5. poller.pc = "idle" => poller.outbox = <<>>
    BY DEF FeedInv, LaneTypes
  <1> QED
    BY <1>1, <1>2, <1>3, <1>4, <1>5, TimersNow, QuietKeeps

LEMMA EndPollKeeps == FeedInv /\ EndPoll => FeedInv'
  <1> SUFFICES ASSUME FeedInv, EndPoll PROVE FeedInv'
    OBVIOUS
  <1>1. /\ poller.outbox = <<>> /\ poller.pc = "send" /\ poller' = Poller("idle", {}, {}, poller.cur \ poller.retry, {}, 0, <<>>)
        /\ UNCHANGED <<mempool, indexed, feed, follower, news, tick, history>>
    BY DEF EndPoll
  <1>2. /\ poller' \in PollerStates /\ poller'.pc = "idle" /\ poller'.cur = {}
        /\ poller'.todo = {} /\ poller'.now = 0 /\ poller'.outbox = <<>>
    BY <1>1, TimersNow DEF Poller, PollerStates
  <1>3. Tracked' = Tracked /\ Underway' = Underway
    BY <1>1, <1>2 DEF Tracked, Underway
  <1>4. WordsInOrder'
    BY <1>1, <1>2, <1>3, NoWords, TimersNow DEF FeedInv, WordsInOrder
  <1>5. tick \in Nat
    BY DEF FeedInv, LaneTypes
  <1>6. \A t \in Tracked' \cup poller'.cur : t \in mempool \/ LeftBy(t, tick)
    BY <1>2, <1>3, TimersNow
  <1>7. poller'.pc # "diff" /\ poller'.now <= tick /\ poller'.todo \subseteq poller'.cur
    BY <1>2, <1>5
  <1>8. history' \in Pasts /\ follower' \in FollowerStates /\ feed' = feed
    BY <1>1, TimersNow
  <1> QED
    BY <1>1, <1>2, <1>3, <1>4, <1>6, <1>7, <1>8, TimersNow, QuietKeeps

LEMMA TrackKeeps == ASSUME FeedInv, NEW t \in PTxs, TrackNew(t) PROVE FeedInv'
  <1>1. PICK changed \in BOOLEAN :
          /\ feed' = Insert(feed, t, changed)
          /\ poller' = Poller("diff", poller.cur, poller.todo \ {t}, poller.prev, poller.retry, poller.now,
                              <<Msg(t, "pending", Insert(feed, t, changed).revision)>>)
    BY DEF TrackNew
  <1>2. /\ poller.pc = "diff" /\ poller.outbox = <<>> /\ t \in poller.todo
        /\ UNCHANGED <<mempool, indexed, follower, news, tick, history>>
    BY DEF TrackNew
  <1>3. /\ feed'.revision \in Nat /\ feed'.revision >= feed.revision /\ feed'.status = feed.status
        /\ Tracked' = Tracked \cup {t} /\ \A x \in Tracked : feed'.entries[x] = feed.entries[x]
        /\ t \notin Tracked => feed'.entries[t].leaving = Never
    <2>1. CASE t \in Tracked
      BY <1>1, <2>1, TimersNow DEF Insert, Feed, Tracked
    <2>2. CASE t \notin Tracked
      BY <1>1, <2>2, TimersNow DEF Insert, Feed, Tracked, Entry
    <2> QED
      BY <2>1, <2>2
  <1> DEFINE m == Msg(t, "pending", feed'.revision)
  <1>4. m \in Messages /\ m.tx = t /\ m.rev = feed'.revision
    BY <1>3 DEF Messages, Msg, Words
  <1>5. poller' = Poller("diff", poller.cur, poller.todo \ {t}, poller.prev, poller.retry, poller.now, <<m>>)
    BY <1>1
  <1> HIDE DEF m
  <1>6. /\ poller' \in PollerStates /\ poller'.pc = "diff" /\ poller'.cur = poller.cur
        /\ poller'.todo = poller.todo \ {t} /\ poller'.now = poller.now /\ poller'.outbox = <<m>>
    BY <1>4, <1>5, TimersNow DEF Poller, PollerStates
  <1>7. Underway' = Underway \cup {m}
    <2>1. ToSet(<<m>>) = {m} /\ ToSet(poller.outbox) = {}
      BY <1>2 DEF ToSet
    <2> QED
      BY <1>2, <1>6, <2>1 DEF Underway
  <1>8. WordsInOrder'
    <2>1. \A w \in Underway : w.rev \in Nat /\ w.rev <= feed.revision
      BY WordsAreMessages DEF FeedInv, WordsInOrder
    <2>2. \A u \in PTxs : news[u].rev \in Nat /\ news[u].rev <= feed.revision
      BY DEF FeedInv, LaneTypes, WordsInOrder
    <2>3. \A w \in Underway' : w.rev <= feed'.revision
      BY <1>3, <1>4, <1>7, <2>1, TimersNow
    <2>4. \A u \in PTxs : news'[u].rev <= feed'.revision
      BY <1>2, <1>3, <2>2, TimersNow
    <2>5. feed'.status # "disabled"
      BY <1>2, <1>3 DEF FeedInv, WordsInOrder
    <2>6. ASSUME NEW u \in PTxs \ Tracked' PROVE Overruled(u)'
      <3>1. Overruled(u) /\ u # t
        BY <1>3, <2>5, <2>6 DEF FeedInv, WordsInOrder
      <3> QED
        BY <1>2, <1>4, <1>7, <3>1 DEF Overruled
    <2> QED
      BY <2>3, <2>4, <2>5, <2>6 DEF WordsInOrder
  <1>9. t \in poller.cur
    BY <1>2, TimersNow
  <1>10. Never \in Times
    BY DEF Times
  <1> QED
    BY <1>2, <1>3, <1>6, <1>8, <1>9, <1>10, TimersNow, QuietKeeps

\* What one resolution says.
LEMMA Said ==
    ASSUME NEW t
    PROVE  /\ Decide(t) \in {"aged", "stays", "accepted", "replaced", "dropped", "leaving"}
           /\ Decide(t) \notin {"stays", "aged"} => t \notin poller.cur
           /\ Decide(t) = "dropped" =>
                 /\ ~Confirmed(t)
                 /\ poller.now - (IF feed.entries[t].leaving = Never THEN poller.now ELSE feed.entries[t].leaving) >= Grace
  BY DEF Decide

LEMMA PassKeeps == FeedInv /\ ResolvePass => FeedInv'
  <1> SUFFICES ASSUME FeedInv, ResolvePass PROVE FeedInv'
    OBVIOUS
  <1> DEFINE gone == {t \in Tracked : ~Kept(t)}
             told == [t \in gone |-> IF Decide(t) = "aged" THEN "dropped" ELSE Decide(t)]
             timer(t) == IF Decide(t) = "stays" THEN Never
                         ELSE IF feed.entries[t].leaving = Never THEN poller.now
                         ELSE feed.entries[t].leaving
             lost == {t \in Tracked \ history.blind : Decide(t) = "dropped"}
  <1>1. PICK sent \in Resolutions(feed, gone, told) :
          poller' = Poller("send", poller.cur, {}, poller.prev, poller.retry, poller.now, sent)
    BY DEF ResolvePass
  <1>2. /\ poller.pc = "diff" /\ poller.outbox = <<>>
        /\ feed' = Feed([t \in DOMAIN Removed(feed, gone).entries |->
                            Entry(Removed(feed, gone).entries[t].seen, timer(t))],
                        Removed(feed, gone).status, Removed(feed, gone).revision)
        /\ history' = Past(history.left, history.indexed, history.dropped \cup lost, history.faults, {})
        /\ UNCHANGED <<mempool, indexed, follower, news, tick>>
    BY DEF ResolvePass
  <1>3. /\ feed'.status = feed.status /\ feed'.revision = Removals(feed, Cardinality(gone))
        /\ Tracked' = Tracked \ gone /\ \A t \in Tracked' : feed'.entries[t].leaving = timer(t)
    BY <1>2 DEF Removed, Feed, Entry, Tracked
  <1>4. gone \in SUBSET Tracked /\ told \in [gone -> Words \ {"pending"}]
    BY Said DEF Words, Kept
  <1>5. lost \subseteq PTxs /\ \A t \in lost : t \in Tracked /\ t \notin history.blind /\ Decide(t) = "dropped"
    BY TimersNow
  <1>6. \A t \in Tracked' : t \in Tracked /\ Decide(t) \in {"stays", "leaving"}
    BY <1>3 DEF Kept
  <1>7. \A t \in Tracked' : timer(t) \in Times /\ (timer(t) # Never => LeftBy(t, timer(t)))
    <2> SUFFICES ASSUME NEW t \in Tracked' PROVE timer(t) \in Times /\ (timer(t) # Never => LeftBy(t, timer(t)))
      OBVIOUS
    <2>1. CASE Decide(t) = "stays"
      BY <2>1 DEF Times
    <2>2. CASE Decide(t) = "leaving"
      <3>1. t \in Tracked /\ t \notin poller.cur
        BY <1>6, <2>2, Said
      <3>2. LeftBy(t, poller.now) /\ poller.now \in Times
        BY <1>2, <3>1, TimersNow DEF PollerStates, Times
      <3> QED
        BY <2>2, <3>1, <3>2, TimersNow
    <2> QED
      BY <1>6, <2>1, <2>2
  <1> HIDE DEF gone, told, timer, lost
  <1>8. /\ sent \in Seq(Messages) /\ feed'.revision \in Nat
    BY <1>3, <1>4, WordsOfGone DEF FeedInv
  <1>9. /\ poller' \in PollerStates /\ poller'.pc = "send" /\ poller'.cur = poller.cur
        /\ poller'.todo = {} /\ poller'.now = poller.now /\ poller'.outbox = sent
    BY <1>1, <1>8, TimersNow DEF Poller, PollerStates
  <1>10. Underway' = Underway \cup ToSet(sent)
    <2>1. ToSet(poller.outbox) = {}
      BY <1>2, NothingTracked
    <2> QED
      BY <1>2, <1>9, <2>1 DEF Underway
  <1>11. feed.status # "disabled"
    BY <1>2 DEF FeedInv, WordsInOrder
  <1>12. WordsInOrder'
    BY <1>2, <1>3, <1>4, <1>10, <1>11, GoneSettles DEF FeedInv
  <1>13. /\ history' \in Pasts /\ history'.left = history.left /\ history'.indexed = history.indexed
         /\ history'.dropped = history.dropped \cup lost
    BY <1>2, <1>5, TimersNow DEF Past, Pasts
  <1>14. \A t : \A n : LeftBy(t, n)' <=> LeftBy(t, n)
    BY <1>13 DEF LeftBy
  <1>15. LaneTypes'
    BY <1>2, <1>3, <1>8, <1>9, <1>13, TimersNow DEF FeedInv, LaneTypes
  <1>16. TimersRunLate'
    BY <1>2, <1>3, <1>6, <1>7, <1>9, <1>13, <1>14 DEF FeedInv, TimersRunLate
  <1>17. ASSUME NEW t \in lost
         PROVE  LeftBy(t, tick) /\ history.indexed[t] = Never /\ history.left[t] + Grace <= tick
    <2>1. t \in Tracked /\ t \in PTxs /\ t \notin poller.cur /\ t \notin indexed
      BY <1>5, Said, TimersNow DEF Confirmed
    <2>2. history.indexed[t] = Never
      BY <2>1 DEF FeedInv, TimersRunLate
    <2>3. LeftBy(t, poller.now)
      BY <1>2, <2>1, TimersNow
    <2>4. poller.now \in Nat /\ tick \in Nat /\ poller.now <= tick /\ history.left[t] \in Int /\ Grace \in Nat
      BY <2>1, TimersNow, PendingAssumption DEF PollerStates, Pasts, Times, Never, FeedInv, LaneTypes
    <2>5. poller.now - (IF feed.entries[t].leaving = Never THEN poller.now ELSE feed.entries[t].leaving) >= Grace
      BY <1>5, Said
    <2>6. CASE feed.entries[t].leaving = Never
      BY <2>2, <2>3, <2>4, <2>5, <2>6 DEF LeftBy
    <2>7. CASE feed.entries[t].leaving # Never
      <3>1. LeftBy(t, feed.entries[t].leaving) /\ feed.entries[t].leaving \in Int
        BY <2>1, <2>7, TimersNow DEF Times, Never
      <3> QED
        BY <2>2, <2>3, <2>4, <2>5, <2>7, <3>1 DEF LeftBy
    <2> QED
      BY <2>6, <2>7
  <1>18. DroppedLate'
    BY <1>2, <1>13, <1>14, <1>17 DEF FeedInv, DroppedLate
  <1> QED
    BY <1>12, <1>15, <1>16, <1>18 DEF FeedInv

LEMMA ResolveKeeps == FeedInv /\ ResolveAccepted => FeedInv'
  <1> SUFFICES ASSUME FeedInv, ResolveAccepted PROVE FeedInv'
    OBVIOUS
  <1> DEFINE mine == follower.todo \cap Tracked
             told == [t \in mine |-> "accepted"]
  <1>1. PICK sent \in Resolutions(feed, mine, told) : follower' = [todo |-> {}, outbox |-> sent]
    BY DEF ResolveAccepted
  <1>2. /\ follower.outbox = <<>> /\ feed' = Removed(feed, mine)
        /\ UNCHANGED <<mempool, indexed, poller, news, tick, history>>
    BY DEF ResolveAccepted
  <1>3. /\ feed'.status = feed.status /\ feed'.revision = Removals(feed, Cardinality(mine))
        /\ Tracked' = Tracked \ mine /\ \A t \in Tracked' : feed'.entries[t] = feed.entries[t]
    BY <1>2 DEF Removed, Feed, Tracked
  <1>4. mine \in SUBSET Tracked /\ told \in [mine -> Words \ {"pending"}]
    BY DEF Words
  <1> HIDE DEF mine, told
  <1>5. sent \in Seq(Messages) /\ feed'.revision \in Nat
    BY <1>3, <1>4, WordsOfGone DEF FeedInv
  <1>6. follower' \in FollowerStates /\ follower'.outbox = sent
    BY <1>1, <1>5 DEF FollowerStates
  <1>7. Underway' = Underway \cup ToSet(sent)
    <2>1. ToSet(follower.outbox) = {}
      BY <1>2, NothingTracked
    <2> QED
      BY <1>2, <1>6, <2>1 DEF Underway
  <1>8. WordsInOrder'
    BY <1>2, <1>3, <1>4, <1>7, GoneSettles DEF FeedInv, WordsInOrder
  <1>9. poller.pc = "idle" => poller.outbox = <<>>
    BY DEF FeedInv, LaneTypes
  <1> QED
    BY <1>2, <1>3, <1>5, <1>6, <1>8, <1>9, TimersNow, QuietKeeps

\* The first word of an outbox goes out.
LEMMA FirstWord ==
    ASSUME NEW box \in Seq(Messages), box # <<>>
    PROVE  /\ Head(box) \in ToSet(box) /\ Tail(box) \in Seq(Messages)
           /\ ToSet(Tail(box)) \subseteq ToSet(box) /\ ToSet(box) \subseteq ToSet(Tail(box)) \cup {Head(box)}
  <1>1. /\ Len(box) \in Nat /\ Len(box) # 0 /\ DOMAIN box = 1..Len(box) /\ Head(box) = box[1]
    BY EmptySeq, LenProperties, HeadTailProperties
  <1>2. /\ Tail(box) \in Seq(Messages) /\ Len(Tail(box)) = Len(box) - 1
        /\ DOMAIN Tail(box) = 1..(Len(box) - 1) /\ \A i \in 1..(Len(box) - 1) : Tail(box)[i] = box[i + 1]
    BY <1>1, HeadTailProperties, LenProperties
  <1>3. Head(box) \in ToSet(box) /\ ToSet(Tail(box)) \subseteq ToSet(box)
    BY <1>1, <1>2 DEF ToSet
  <1>4. ToSet(box) \subseteq ToSet(Tail(box)) \cup {Head(box)}
    <2> SUFFICES ASSUME NEW i \in 1..Len(box), i # 1 PROVE box[i] \in ToSet(Tail(box))
      BY <1>1 DEF ToSet
    <2>1. i - 1 \in 1..(Len(box) - 1) /\ box[i] = Tail(box)[i - 1]
      BY <1>1, <1>2
    <2> QED
      BY <1>2, <2>1 DEF ToSet
  <1> QED
    BY <1>2, <1>3, <1>4

LEMMA PollerSendsKeeps == FeedInv /\ PollerSends => FeedInv'
  <1> SUFFICES ASSUME FeedInv, PollerSends PROVE FeedInv'
    OBVIOUS
  <1>1. /\ poller.outbox # <<>> /\ news' = Hears(Head(poller.outbox)) /\ poller' = [poller EXCEPT !.outbox = Tail(@)]
        /\ UNCHANGED <<mempool, indexed, feed, follower, tick, history>>
    BY DEF PollerSends
  <1>2. poller.outbox \in Seq(Messages)
    BY TimersNow DEF PollerStates
  <1>3. /\ poller' \in PollerStates /\ poller'.pc = poller.pc /\ poller'.cur = poller.cur
        /\ poller'.todo = poller.todo /\ poller'.now = poller.now /\ poller'.outbox = Tail(poller.outbox)
    BY <1>1, <1>2, FirstWord, TimersNow DEF PollerStates
  <1>4. /\ Head(poller.outbox) \in Underway
        /\ Underway' \subseteq Underway /\ Underway \subseteq Underway' \cup {Head(poller.outbox)}
    BY <1>1, <1>2, <1>3, FirstWord DEF Underway
  <1>5. WordsInOrder' /\ news' \in [PTxs -> [kind : Words \cup {"none"}, rev : Nat]]
    BY <1>1, <1>3, <1>4, WordHeard DEF FeedInv
  <1>6. poller.pc # "idle"
    BY <1>1 DEF FeedInv, LaneTypes
  <1>7. Tracked' = Tracked
    BY <1>1 DEF Tracked
  <1> QED
    BY <1>1, <1>3, <1>5, <1>6, <1>7, TimersNow, QuietKeeps

LEMMA FollowerSendsKeeps == FeedInv /\ FollowerSends => FeedInv'
  <1> SUFFICES ASSUME FeedInv, FollowerSends PROVE FeedInv'
    OBVIOUS
  <1>1. /\ follower.outbox # <<>> /\ news' = Hears(Head(follower.outbox)) /\ follower' = [follower EXCEPT !.outbox = Tail(@)]
        /\ UNCHANGED <<mempool, indexed, feed, poller, tick, history>>
    BY DEF FollowerSends
  <1>2. follower.outbox \in Seq(Messages)
    BY TimersNow DEF FollowerStates
  <1>3. follower' \in FollowerStates /\ follower'.outbox = Tail(follower.outbox)
    BY <1>1, <1>2, FirstWord, TimersNow DEF FollowerStates
  <1>4. /\ Head(follower.outbox) \in Underway
        /\ Underway' \subseteq Underway /\ Underway \subseteq Underway' \cup {Head(follower.outbox)}
    BY <1>1, <1>2, <1>3, FirstWord DEF Underway
  <1>5. WordsInOrder' /\ news' \in [PTxs -> [kind : Words \cup {"none"}, rev : Nat]]
    BY <1>1, <1>4, WordHeard DEF FeedInv
  <1>6. poller.pc = "idle" => poller.outbox = <<>>
    BY DEF FeedInv, LaneTypes
  <1>7. Tracked' = Tracked
    BY <1>1 DEF Tracked
  <1> QED
    BY <1>1, <1>3, <1>5, <1>6, <1>7, TimersNow, QuietKeeps

LEMMA FeedStutters == FeedInv /\ UNCHANGED pvars => FeedInv'
  BY DEF FeedInv, LaneTypes, WordsInOrder, Overruled, Underway, Ends, TimersRunLate, DroppedLate, LeftBy, Tracked, pvars

\* What a subscriber is told of a transaction's end is true and the last word, for any
\* number of transactions, whatever conflicts, reorgs, faults and timing
\* (pending_sse_jsons, poll_mempool_forever, resolve_accepted_pending).
THEOREM LastWordIsTrue == PendingSpec => []EndsAreTold
  <1>1. FeedInv /\ [PendingNext]_pvars => FeedInv'
    <2> SUFFICES ASSUME FeedInv, [PendingNext]_pvars PROVE FeedInv'
      OBVIOUS
    <2>1. CASE UNCHANGED pvars
      BY <2>1, FeedStutters
    <2>2. ASSUME NEW t \in PTxs, EnterPool(t) \/ LeavePool(t) \/ Index(t) \/ RollBack(t) \/ TrackNew(t) \/ SkipNew(t)
          PROVE  FeedInv'
      BY <2>2, EnterKeeps, LeaveKeeps, IndexKeeps, PoolRollBackKeeps, TrackKeeps, SkipKeeps
    <2>3. CASE Clock \/ PollFails \/ PollUnsupported \/ ReadsFail
      BY <2>3, ClockKeeps, FailKeeps, UnsupportedKeeps, ReadsFailKeeps
    <2>4. CASE PollAnswers \/ ResolvePass \/ EndPoll \/ PollerSends
      BY <2>4, PollKeeps, PassKeeps, EndPollKeeps, PollerSendsKeeps
    <2>5. CASE ResolverStep
      BY <2>5, ResolveKeeps, FollowerSendsKeeps DEF ResolverStep
    <2> QED
      BY <2>1, <2>2, <2>3, <2>4, <2>5 DEF PendingNext, PollerStep
  <1>2. FeedInv => EndsAreTold
    <2> SUFFICES ASSUME FeedInv PROVE NewestSettles /\ GraceHolds
      BY DEF EndsAreTold
    <2>1. NewestSettles
      <3> SUFFICES ASSUME NEW t \in PTxs, t \notin Tracked, ~Unsent(t), feed.status # "disabled"
                   PROVE  news[t].kind # "pending"
        BY DEF NewestSettles
      <3>1. Overruled(t)
        BY DEF FeedInv, WordsInOrder
      <3>2. \A e \in Underway : e.tx # t
        BY DEF Unsent, Underway
      <3> QED
        BY <3>1, <3>2 DEF Overruled, Ends
    <2>2. GraceHolds
      BY DEF FeedInv, DroppedLate, GraceHolds
    <2> QED
      BY <2>1, <2>2
  <1> QED
    BY <1>1, <1>2, LaneStarts, PTL DEF PendingSpec
=============================================================================
