--------------------------- MODULE Requests_proofs ---------------------------
(***************************************************************************)
(* What a caller is told is true of what happened, for every value of the  *)
(* bounds: a call of the writer that fails changed nothing and one that    *)
(* succeeds ran once, a deploy or a demo run leaves the lab wallet able to *)
(* finish what it started, a preflight verdict is what the node would have *)
(* said, a walk of a list skips nothing that stands still, and a backfill  *)
(* that says it is done left nothing undone.                               *)
(***************************************************************************)
EXTENDS Backfills, WriterMutation, Lab, Preflight, Paging, FiniteSetTheorems, SequenceTheorems, WellFoundedInduction, TLAPS

-----------------------------------------------------------------------------
(* The writer hand-off: any number of callers, any channel capacity.  The  *)
(* two compare_exchanges establish that the atomic byte alone tells who    *)
(* owns an operation: while it does not read RUNNING nothing was applied,  *)
(* CANCELED is what a timed-out caller leaves behind for good, and the     *)
(* oneshot agrees with the store.                                          *)

\* A mutation in the channel was sent once, is not in hand, and nobody has
\* answered it or started it.
QueueInv ==
    \A i \in DOMAIN queue :
        /\ \A j \in DOMAIN queue : queue[i] = queue[j] => i = j
        /\ queue[i] # hand
        /\ reply[queue[i]] = "empty"
        /\ state[queue[i]] # "running"
        /\ caller[queue[i]] \notin {"idle", "unavailable"}

\* The mutation in hand is unanswered, and RUNNING exactly when claimed.
HandInv ==
    /\ phase = "idle" <=> hand = NoRequest
    /\ hand # NoRequest =>
          /\ reply[hand] = "empty"
          /\ phase = "claimed" <=> state[hand] = "running"
          /\ caller[hand] \notin {"idle", "unavailable"}

\* The oneshot tells what happened to the store, and only RUNNING requests
\* are ever answered by their operation.
ReplyInv ==
    \A r \in Requests :
        /\ applied[r] = IF reply[r] = "ok" THEN 1 ELSE 0
        /\ reply[r] \in {"ok", "err"} => state[r] = "running"

\* What each way of returning says about the atomic and the oneshot.
CallerInv ==
    \A r \in Requests :
        /\ caller[r] \in {"idle", "unavailable"} =>
              reply[r] = "empty" /\ state[r] = "queued"
        /\ caller[r] = "timed_out" => state[r] = "canceled"
        /\ caller[r] = "ok" => reply[r] = "ok"
        /\ caller[r] = "err" => reply[r] = "err"
        /\ caller[r] = "stopped" => reply[r] = "closed"

IInv == TypeOK /\ QueueInv /\ HandInv /\ ReplyInv /\ CallerInv

\* The inductive invariant holds before the first call.
LEMMA InitIInv == Init => IInv
  BY NoRequestAssumption
  DEF Init, IInv, TypeOK, QueueInv, HandInv, ReplyInv, CallerInv,
      AtomicStates, Replies, Pending, Outcomes

\* Every step of a caller or of the follower preserves it.
LEMMA NextIInv == IInv /\ [Next]_vars => IInv'
<1> SUFFICES ASSUME IInv, [Next]_vars PROVE IInv'
  OBVIOUS
<1> USE NoRequestAssumption, CapacityAssumption
    DEF IInv, AtomicStates, Replies, Pending, Outcomes
<1>1. ASSUME NEW r \in Requests, TrySend(r) PROVE IInv'
  <2>1. CASE queue' = Append(queue, r) /\ caller' = [caller EXCEPT ![r] = "waiting"]
    <3>1. TypeOK'
      BY <1>1, <2>1, AppendProperties DEF TrySend, TypeOK
    <3>2. \A i \in DOMAIN queue' :
            \/ i \in DOMAIN queue /\ queue'[i] = queue[i]
            \/ i = Len(queue) + 1 /\ i \notin DOMAIN queue /\ queue'[i] = r
      <4>1. /\ Len(queue') = Len(queue) + 1
            /\ \A i \in 1..Len(queue) : queue'[i] = queue[i]
            /\ queue'[Len(queue) + 1] = r
        BY <2>1, AppendProperties DEF TypeOK
      <4>2. queue \in Seq(Requests) /\ queue' \in Seq(Requests)
        BY <3>1 DEF TypeOK
      <4>3. DOMAIN queue = 1..Len(queue) /\ DOMAIN queue' = 1..Len(queue') /\ Len(queue) \in Nat
        BY <4>2, LenProperties
      <4>4. \A i \in 1..(Len(queue) + 1) : i \in 1..Len(queue) \/ i = Len(queue) + 1
        BY <4>3
      <4>5. Len(queue) + 1 \notin 1..Len(queue)
        BY <4>3
      <4> QED BY ONLY <4>1, <4>3, <4>4, <4>5
    <3>3. /\ reply[r] = "empty" /\ state[r] = "queued" /\ r # hand
          /\ \A i \in DOMAIN queue : queue[i] # r
      BY <1>1 DEF TrySend, TypeOK, CallerInv, QueueInv, HandInv
    <3>4. caller'[r] = "waiting" /\ \A q \in Requests \ {r} : caller'[q] = caller[q]
      BY <2>1 DEF TypeOK
    <3>5. \A i \in DOMAIN queue : queue[i] \in Requests
      BY DEF TypeOK
    <3>6. QueueInv'
      BY <1>1, <3>1, <3>2, <3>3, <3>4, <3>5 DEF TrySend, QueueInv
    <3>7. HandInv' /\ ReplyInv' /\ CallerInv'
      BY <1>1, <2>1 DEF TrySend, TypeOK, HandInv, ReplyInv, CallerInv
    <3> QED BY <3>1, <3>6, <3>7
  <2>2. CASE queue' = queue /\ caller' = [caller EXCEPT ![r] = "unavailable"]
    <3>1. \A i \in DOMAIN queue : queue[i] # r /\ queue[i] \in Requests
      BY <1>1 DEF TrySend, TypeOK, QueueInv
    <3>2. QueueInv'
      BY <1>1, <2>2, <3>1 DEF TrySend, TypeOK, QueueInv
    <3>3. TypeOK' /\ HandInv' /\ ReplyInv' /\ CallerInv'
      BY <1>1, <2>2 DEF TrySend, TypeOK, HandInv, ReplyInv, CallerInv
    <3> QED BY <3>2, <3>3
  <2> QED BY <1>1, <2>1, <2>2 DEF TrySend
<1>2. ASSUME NEW r \in Requests, TimeoutElapses(r) PROVE IInv'
  <2>1. TypeOK'
    BY <1>2 DEF TimeoutElapses, TypeOK, QueueInv, HandInv, ReplyInv, CallerInv
  <2>2. QueueInv'
    BY <1>2 DEF TimeoutElapses, TypeOK, QueueInv, HandInv, ReplyInv, CallerInv
  <2>3. HandInv'
    BY <1>2 DEF TimeoutElapses, TypeOK, QueueInv, HandInv, ReplyInv, CallerInv
  <2>4. ReplyInv'
    BY <1>2 DEF TimeoutElapses, TypeOK, QueueInv, HandInv, ReplyInv, CallerInv
  <2>5. CallerInv'
    BY <1>2 DEF TimeoutElapses, TypeOK, QueueInv, HandInv, ReplyInv, CallerInv
  <2> QED BY <2>1, <2>2, <2>3, <2>4, <2>5
<1>3. ASSUME NEW r \in Requests, Cancel(r) PROVE IInv'
  <2>1. TypeOK'
    BY ZenonT(40), <1>3 DEF Cancel, WinsCancel, TypeOK, QueueInv, HandInv, ReplyInv, CallerInv
  <2>2. QueueInv'
    BY <1>3 DEF Cancel, WinsCancel, TypeOK, QueueInv, HandInv, ReplyInv, CallerInv
  <2>3. HandInv'
    BY <1>3 DEF Cancel, WinsCancel, TypeOK, QueueInv, HandInv, ReplyInv, CallerInv
  <2>4. ReplyInv'
    BY <1>3 DEF Cancel, WinsCancel, TypeOK, QueueInv, HandInv, ReplyInv, CallerInv
  <2>5. CallerInv'
    BY <1>3 DEF Cancel, WinsCancel, TypeOK, QueueInv, HandInv, ReplyInv, CallerInv
  <2> QED BY <2>1, <2>2, <2>3, <2>4, <2>5
<1>4. ASSUME NEW r \in Requests, TakeResult(r) PROVE IInv'
  <2>1. TypeOK'
    BY <1>4 DEF TakeResult, ReturnOf, TypeOK, QueueInv, HandInv, ReplyInv, CallerInv
  <2>2. QueueInv'
    BY <1>4 DEF TakeResult, ReturnOf, TypeOK, QueueInv, HandInv, ReplyInv, CallerInv
  <2>3. HandInv'
    BY <1>4 DEF TakeResult, ReturnOf, TypeOK, QueueInv, HandInv, ReplyInv, CallerInv
  <2>4. ReplyInv'
    BY <1>4 DEF TakeResult, ReturnOf, TypeOK, QueueInv, HandInv, ReplyInv, CallerInv
  <2>5. CallerInv'
    BY <1>4 DEF TakeResult, ReturnOf, TypeOK, QueueInv, HandInv, ReplyInv, CallerInv
  <2> QED BY <2>1, <2>2, <2>3, <2>4, <2>5
<1>5. ASSUME NEW r \in Requests, CallerDropped(r) PROVE IInv'
  <2>1. TypeOK'
    BY <1>5 DEF CallerDropped, TypeOK, QueueInv, HandInv, ReplyInv, CallerInv
  <2>2. QueueInv'
    BY <1>5 DEF CallerDropped, TypeOK, QueueInv, HandInv, ReplyInv, CallerInv
  <2>3. HandInv'
    BY <1>5 DEF CallerDropped, TypeOK, QueueInv, HandInv, ReplyInv, CallerInv
  <2>4. ReplyInv'
    BY <1>5 DEF CallerDropped, TypeOK, QueueInv, HandInv, ReplyInv, CallerInv
  <2>5. CallerInv'
    BY <1>5 DEF CallerDropped, TypeOK, QueueInv, HandInv, ReplyInv, CallerInv
  <2> QED BY <2>1, <2>2, <2>3, <2>4, <2>5
<1>6. CASE Receive
  <2>1. TypeOK'
    BY <1>6 DEF Receive, TypeOK, QueueInv, HandInv, ReplyInv, CallerInv
  <2>2. QueueInv'
    BY <1>6 DEF Receive, TypeOK, QueueInv, HandInv, ReplyInv, CallerInv
  <2>3. HandInv'
    BY <1>6 DEF Receive, TypeOK, QueueInv, HandInv, ReplyInv, CallerInv
  <2>4. ReplyInv'
    BY <1>6 DEF Receive, TypeOK, QueueInv, HandInv, ReplyInv, CallerInv
  <2>5. CallerInv'
    BY <1>6 DEF Receive, TypeOK, QueueInv, HandInv, ReplyInv, CallerInv
  <2> QED BY <2>1, <2>2, <2>3, <2>4, <2>5
<1>7. CASE Claim
  <2>1. TypeOK'
    BY ZenonT(40), <1>7 DEF Claim, TypeOK, QueueInv, HandInv, ReplyInv, CallerInv
  <2>2. QueueInv'
    BY <1>7 DEF Claim, TypeOK, QueueInv, HandInv, ReplyInv, CallerInv
  <2>3. HandInv'
    BY <1>7 DEF Claim, TypeOK, QueueInv, HandInv, ReplyInv, CallerInv
  <2>4. ReplyInv'
    BY <1>7 DEF Claim, TypeOK, QueueInv, HandInv, ReplyInv, CallerInv
  <2>5. CallerInv'
    BY <1>7 DEF Claim, TypeOK, QueueInv, HandInv, ReplyInv, CallerInv
  <2> QED BY <2>1, <2>2, <2>3, <2>4, <2>5
<1>8. ASSUME NEW ok \in BOOLEAN, Operate(ok) PROVE IInv'
  <2>1. TypeOK'
    BY <1>8 DEF Operate, ResultOf, TypeOK, QueueInv, HandInv, ReplyInv, CallerInv
  <2>2. QueueInv'
    BY <1>8 DEF Operate, ResultOf, TypeOK, QueueInv, HandInv, ReplyInv, CallerInv
  <2>3. HandInv'
    BY <1>8 DEF Operate, ResultOf, TypeOK, QueueInv, HandInv, ReplyInv, CallerInv
  <2>4. ReplyInv'
    BY <1>8 DEF Operate, ResultOf, TypeOK, QueueInv, HandInv, ReplyInv, CallerInv
  <2>5. CallerInv'
    BY <1>8 DEF Operate, ResultOf, TypeOK, QueueInv, HandInv, ReplyInv, CallerInv
  <2> QED BY <2>1, <2>2, <2>3, <2>4, <2>5
<1>9. CASE WriterStops
  <2>1. TypeOK'
    BY <1>9 DEF WriterStops, TypeOK, QueueInv, HandInv, ReplyInv, CallerInv
  <2>2. QueueInv'
    BY <1>9 DEF WriterStops, TypeOK, QueueInv, HandInv, ReplyInv, CallerInv
  <2>3. HandInv'
    BY <1>9 DEF WriterStops, TypeOK, QueueInv, HandInv, ReplyInv, CallerInv
  <2>4. ReplyInv'
    BY <1>9 DEF WriterStops, TypeOK, QueueInv, HandInv, ReplyInv, CallerInv
  <2>5. CallerInv'
    BY <1>9 DEF WriterStops, TypeOK, QueueInv, HandInv, ReplyInv, CallerInv
  <2> QED BY <2>1, <2>2, <2>3, <2>4, <2>5
<1>10. CASE UNCHANGED vars
  BY <1>10 DEF vars, TypeOK, QueueInv, HandInv, ReplyInv, CallerInv
<1> QED
  BY <1>1, <1>2, <1>3, <1>4, <1>5, <1>6, <1>7, <1>8, <1>9, <1>10
  DEF Next, CallerStep

\* The inductive invariant holds throughout.
THEOREM Invariance == Spec => []IInv
  BY InitIInv, NextIInv, PTL DEF Spec

\* Every variable keeps its type, for any set of callers and any capacity.
THEOREM TypeCorrect == Spec => []TypeOK
<1>1. IInv => TypeOK
  BY DEF IInv
<1> QED
  BY <1>1, Invariance, PTL

\* A call that returned an error left the store alone, and nothing that is
\* still in the channel can change that: a caller may retry after a timeout.
THEOREM FailedCallSafe == Spec => []FailedCallChangedNothing
<1>1. IInv => FailedCallChangedNothing
  BY DEF IInv, TypeOK, ReplyInv, CallerInv, FailedCallChangedNothing
<1> QED
  BY <1>1, Invariance, PTL

\* No operation runs twice, and a call that returned Ok ran once.
THEOREM ExactlyOnce == Spec => []AppliedExactlyOnce
<1>1. IInv => AppliedExactlyOnce
  BY DEF IInv, TypeOK, ReplyInv, CallerInv, AppliedExactlyOnce
<1> QED
  BY <1>1, Invariance, PTL

-----------------------------------------------------------------------------
(* Numbers *)

\* Every set of numbers has a least one.
LEMMA SmallestOf ==
    ASSUME NEW T \in SUBSET Nat, T # {}
    PROVE  \E m \in T : \A k \in T : m <= k
  <1>1. PICK x \in T : \A y \in T : <<y, x>> \notin OpToRel(<, Nat)
    BY NatLessThanWellFounded, WFMin
  <1>2. \A y \in T : x <= y
    <2> SUFFICES ASSUME NEW y \in T PROVE x <= y
      OBVIOUS
    <2>1. x \in Nat /\ y \in Nat
      OBVIOUS
    <2>2. ~(y < x)
      BY <1>1, <2>1 DEF OpToRel
    <2> QED
      BY <2>1, <2>2
  <1> QED
    BY <1>2

-----------------------------------------------------------------------------
(* Sums over sequences: the library's fold takes the last element out first, *)
(* by a function on all sets of places.  That there is one is what gives the *)
(* sum its value.                                                            *)

LEMMA MaxOfPlaces ==
    ASSUME NEW n \in Nat, NEW s \in SUBSET (1..n), s # {}
    PROVE  Max(s) \in s /\ \A y \in s : y <= Max(s)
  <1> DEFINE T == {k \in Nat : \A y \in s : y <= k}
  <1>1. n \in T
    OBVIOUS
  <1>2. PICK m \in T : \A k \in T : m <= k
    <2>1. T \in SUBSET Nat /\ T # {}
      BY <1>1
    <2> HIDE DEF T
    <2> QED
      BY <2>1, SmallestOf
  <1>3. m \in s
    <2> SUFFICES ASSUME m \notin s PROVE FALSE
      OBVIOUS
    <2>1. PICK y \in s : TRUE
      OBVIOUS
    <2>2. m - 1 \in Nat /\ \A z \in s : z <= m - 1
      BY <2>1
    <2>3. m - 1 \in T
      BY <2>2
    <2> QED
      BY <1>2, <2>2, <2>3
  <1>4. \E x \in s : \A y \in s : y <= x
    BY <1>2, <1>3
  <1> QED
    BY <1>4 DEF Max

\* What a place adds to the sum of the places below it.
SumStep(f, g, s) == IF s = {} THEN 0 ELSE g[s \ {Max(s)}] + f[Max(s)]
PlacesUpTo(n, k) == {s \in SUBSET (1..n) : Cardinality(s) <= k}
SumsUp(f, n, k, g) == g = [s \in PlacesUpTo(n, k) |-> SumStep(f, g, s)]

LEMMA SomethingSumsUp ==
    ASSUME NEW f, NEW n \in Nat, NEW k \in Nat
    PROVE  \E g : SumsUp(f, n, k, g)
  <1> DEFINE T == {j \in Nat : ~\E g : SumsUp(f, n, j, g)}
  <1> SUFFICES ASSUME T # {} PROVE FALSE
    OBVIOUS
  <1>1. PICK m \in T : \A j \in T : m <= j
    <2>1. T \in SUBSET Nat
      OBVIOUS
    <2> HIDE DEF T
    <2> QED
      BY <2>1, SmallestOf
  <1>2. \A s \in SUBSET (1..n) : IsFiniteSet(s) /\ Cardinality(s) \in Nat /\ (Cardinality(s) = 0 <=> s = {})
    <2>1. IsFiniteSet(1..n)
      BY FS_Interval
    <2> TAKE s \in SUBSET (1..n)
    <2>2. IsFiniteSet(s)
      BY <2>1, FS_Subset
    <2> QED
      BY <2>2, FS_CardinalityType, FS_EmptySet
  <1>3. CASE m = 0
    <2> DEFINE g == [s \in PlacesUpTo(n, m) |-> 0]
    <2>1. \A s \in PlacesUpTo(n, m) : SumStep(f, g, s) = 0
      BY <1>2, <1>3 DEF PlacesUpTo, SumStep
    <2>2. SumsUp(f, n, m, g)
      BY <2>1 DEF SumsUp
    <2> QED
      BY <2>2
  <1>4. CASE m # 0
    <2>1. m - 1 \in Nat /\ m - 1 \notin T
      BY <1>1, <1>4
    <2>2. PICK g : SumsUp(f, n, m - 1, g)
      BY <2>1
    <2> DEFINE h == [s \in PlacesUpTo(n, m) |-> SumStep(f, g, s)]
    <2>3. \A s \in PlacesUpTo(n, m - 1) : s \in PlacesUpTo(n, m) /\ h[s] = g[s]
      <3> TAKE s \in PlacesUpTo(n, m - 1)
      <3>1. s \in PlacesUpTo(n, m)
        BY <1>2, <2>1 DEF PlacesUpTo
      <3>2. g[s] = SumStep(f, g, s)
        BY <2>2 DEF SumsUp
      <3> QED
        BY <3>1, <3>2
    <2>4. \A s \in PlacesUpTo(n, m) : SumStep(f, h, s) = SumStep(f, g, s)
      <3> TAKE s \in PlacesUpTo(n, m)
      <3>1. CASE s = {}
        BY <3>1 DEF SumStep
      <3>2. CASE s # {}
        <4> DEFINE r == s \ {Max(s)}
        <4>1. Max(s) \in s
          BY <3>2, MaxOfPlaces DEF PlacesUpTo
        <4>2. r \in SUBSET (1..n) /\ Cardinality(r) = Cardinality(s) - 1
          BY <1>2, <4>1, FS_RemoveElement DEF PlacesUpTo
        <4>3. r \in PlacesUpTo(n, m - 1)
          BY <1>2, <4>2 DEF PlacesUpTo
        <4>4. h[r] = g[r]
          BY <2>3, <4>3
        <4> HIDE DEF h
        <4> QED
          BY <3>2, <4>4 DEF SumStep
      <3> QED
        BY <3>1, <3>2
    <2>5. h = [s \in PlacesUpTo(n, m) |-> SumStep(f, h, s)]
      <3> DEFINE q == [s \in PlacesUpTo(n, m) |-> SumStep(f, h, s)]
      <3>1. \A s \in PlacesUpTo(n, m) : h[s] = q[s]
        BY <2>4
      <3>2. DOMAIN h = PlacesUpTo(n, m) /\ DOMAIN q = PlacesUpTo(n, m) /\ h = [s \in DOMAIN h |-> h[s]] /\ q = [s \in DOMAIN q |-> q[s]]
        OBVIOUS
      <3> HIDE DEF h, q
      <3>3. h = q
        BY <3>1, <3>2
      <3> QED
        BY <3>3 DEF q
    <2>6. SumsUp(f, n, m, h)
      BY <2>5 DEF SumsUp
    <2> QED
      BY <2>6
  <1> QED
    BY <1>3, <1>4

\* The function the fold speaks of exists.
LEMMA SumsExist ==
    ASSUME NEW f, NEW n \in Nat
    PROVE  \E g : g = [s \in SUBSET (1..n) |-> SumStep(f, g, s)]
  <1>1. PICK g : SumsUp(f, n, n, g)
    BY SomethingSumsUp
  <1>2. PlacesUpTo(n, n) = SUBSET (1..n)
    <2>1. IsFiniteSet(1..n) /\ Cardinality(1..n) = n
      BY FS_Interval
    <2>2. \A s \in SUBSET (1..n) : Cardinality(s) <= n
      BY <2>1, FS_Subset
    <2> QED
      BY <2>2 DEF PlacesUpTo
  <1> QED
    BY <1>1, <1>2 DEF SumsUp

\* Along the first k places it grows by one summand at a time.
Ladder(f, n, u) == DOMAIN u = 0..n /\ u[0] = 0 /\ \A k \in 1..n : u[k] = u[k - 1] + f[k]

LEMMA SumsClimb ==
    ASSUME NEW f, NEW n \in Nat, NEW g, g = [s \in SUBSET (1..n) |-> SumStep(f, g, s)]
    PROVE  Ladder(f, n, [k \in 0..n |-> g[1..k]])
  <1> DEFINE u == [k \in 0..n |-> g[1..k]]
  <1>1. \A s \in SUBSET (1..n) : g[s] = SumStep(f, g, s)
    OBVIOUS
  <1>2. u[0] = 0
    <2>1. 1..0 = {} /\ {} \in SUBSET (1..n)
      OBVIOUS
    <2>2. g[{}] = 0
      BY <1>1, <2>1 DEF SumStep
    <2> QED
      BY <2>1, <2>2
  <1>3. ASSUME NEW k \in 1..n PROVE u[k] = u[k - 1] + f[k]
    <2>1. 1..k \in SUBSET (1..n) /\ 1..k # {} /\ k \in 1..k
      OBVIOUS
    <2>2. Max(1..k) = k
      <3>1. Max(1..k) \in 1..k /\ \A y \in 1..k : y <= Max(1..k)
        BY <2>1, MaxOfPlaces
      <3> QED
        BY <2>1, <3>1
    <2>3. (1..k) \ {k} = 1..(k - 1)
      OBVIOUS
    <2>4. g[1..k] = SumStep(f, g, 1..k)
      BY <1>1, <2>1
    <2>5. g[1..k] = g[1..(k - 1)] + f[k]
      BY <2>1, <2>2, <2>3, <2>4 DEF SumStep
    <2>6. u[k] = g[1..k] /\ u[k - 1] = g[1..(k - 1)]
      OBVIOUS
    <2> QED
      BY <2>5, <2>6
  <1> QED
    BY <1>2, <1>3 DEF Ladder

-----------------------------------------------------------------------------
(* The lab: any wallet, fees, pledges, values and requests *)
(* The inductive invariant *)

Ids == Nat \X Nat
ClientStates == {"idle", "waiting", "preflight", "building", "submitting"}

\* An output's id carries the number of its transaction: an id is given out
\* once, and not before its transaction is taken up.
OnlyOnce ==
    /\ txCount \in Nat
    /\ \A t \in pool : t.n \in 1..txCount /\ DOMAIN t.outs \subseteq Nat
    /\ \A t, u \in pool : t.n = u.n => t = u
    /\ DOMAIN utxos \subseteq Ids
    /\ \A i \in DOMAIN utxos : i[1] <= txCount /\ \A t \in pool : t.n # i[1]

\* What amounts are.
Amounts ==
    /\ \A i \in DOMAIN utxos : utxos[i].amount \in Int
    /\ \A t \in pool : \A j \in DOMAIN t.outs : t.outs[j].amount \in Int

\* A request that is about to submit found an output that pays for it, and
\* this output is still that, if it is there.
WellFunded ==
    /\ client \in [Clients -> [pc : ClientStates, value : Int, from : Ids]]
    /\ \A c \in Clients :
         /\ client[c].pc # "idle" => client[c].value \in Values
         /\ client[c].pc = "submitting" =>
              /\ client[c].from[1] <= txCount
              /\ \A t \in pool : t.n # client[c].from[1]
              /\ client[c].from \in DOMAIN utxos =>
                   /\ utxos[client[c].from].amount >= client[c].value + Fee
                   /\ CanFund(client[c].from, client[c].value)

\* A run has the fees of the steps it still makes, and more than dust.
DemoFunded ==
    /\ "pc" \in DOMAIN demo
    /\ demo.pc \in {"genesis", "run"} =>
        /\ demo.left \in Nat /\ demo.amount \in Int
        /\ demo.amount >= Fee * (demo.left + (IF demo.pc = "genesis" THEN 2 ELSE 1)) + Dust

\* The bucket, in numbers.
BucketCounts ==
    /\ bucket.tokens \in Int /\ tally.births \in Int /\ tally.refills \in Int
    /\ tally = [charges |-> tally.charges, refills |-> tally.refills, births |-> tally.births]

LabInv == OnlyOnce /\ Amounts /\ WellFunded /\ DemoFunded /\ BucketCounts /\ LabTxBalances /\ DrainBounded

-----------------------------------------------------------------------------
(* What is submitted *)

\* The lab's sum of its outputs.
LEMMA OutsClimb ==
    ASSUME NEW n \in Nat, NEW outs, DOMAIN outs = 1..n
    PROVE  \E u : Ladder([i \in 1..n |-> outs[i].amount], n, u) /\ SumOuts(outs) = u[n]
  <1> DEFINE f == [i \in 1..n |-> outs[i].amount]
             Q(g) == g = [s \in SUBSET (DOMAIN outs) |-> IF s = {} THEN 0 ELSE g[s \ {Max(s)}] + outs[Max(s)].amount]
             it == CHOOSE g : Q(g)
  <1>1. \A s \in SUBSET (1..n) : s # {} => f[Max(s)] = outs[Max(s)].amount
    BY MaxOfPlaces
  <1>2. ASSUME NEW g PROVE (g = [s \in SUBSET (1..n) |-> SumStep(f, g, s)]) <=> Q(g)
    <2>1. \A s \in SUBSET (1..n) : SumStep(f, g, s) = IF s = {} THEN 0 ELSE g[s \ {Max(s)}] + outs[Max(s)].amount
      BY <1>1 DEF SumStep
    <2>2. [s \in SUBSET (1..n) |-> SumStep(f, g, s)] = [s \in SUBSET (1..n) |-> IF s = {} THEN 0 ELSE g[s \ {Max(s)}] + outs[Max(s)].amount]
      BY <2>1
    <2> QED
      BY <2>2
  <1>3. \E g : Q(g)
    <2> HIDE DEF f
    <2>1. PICK g : g = [s \in SUBSET (1..n) |-> SumStep(f, g, s)]
      BY SumsExist
    <2> QED
      BY <1>2, <2>1
  <1>4. Q(it)
    BY <1>3
  <1>5. it = [s \in SUBSET (1..n) |-> SumStep(f, it, s)]
    BY <1>2, <1>4
  <1>6. SumOuts(outs) = it[1..n]
    BY DEF SumOuts, FoldLeft, MapThenFoldSet
  <1> HIDE DEF f, it
  <1>7. Ladder(f, n, [k \in 0..n |-> it[1..k]])
    BY ONLY ZenonT(40), <1>5, n \in Nat, SumsClimb
  <1>8. [k \in 0..n |-> it[1..k]][n] = it[1..n]
    OBVIOUS
  <1>9. \E u : Ladder(f, n, u) /\ SumOuts(outs) = u[n]
    BY <1>6, <1>7, <1>8
  <1> QED
    BY <1>9 DEF f

LEMMA SumOne ==
    ASSUME NEW a, a.amount \in Int
    PROVE  SumOuts(<<a>>) = a.amount
  <1>1. DOMAIN <<a>> = 1..1
    OBVIOUS
  <1>2. PICK u : Ladder([i \in 1..1 |-> <<a>>[i].amount], 1, u) /\ SumOuts(<<a>>) = u[1]
    BY <1>1, OutsClimb
  <1>3. u[0] = 0 /\ u[1] = u[0] + a.amount
    BY <1>2 DEF Ladder
  <1> QED
    BY <1>2, <1>3

LEMMA SumTwo ==
    ASSUME NEW a, NEW b, a.amount \in Int, b.amount \in Int
    PROVE  SumOuts(<<a, b>>) = a.amount + b.amount
  <1>1. DOMAIN <<a, b>> = 1..2
    OBVIOUS
  <1>2. PICK u : Ladder([i \in 1..2 |-> <<a, b>>[i].amount], 2, u) /\ SumOuts(<<a, b>>) = u[2]
    BY <1>1, OutsClimb
  <1>3. u[0] = 0 /\ u[1] = u[0] + a.amount /\ u[2] = u[1] + b.amount
    BY <1>2 DEF Ladder
  <1> QED
    BY <1>2, <1>3

LEMMA SumThree ==
    ASSUME NEW a, NEW b, NEW c, a.amount \in Int, b.amount \in Int, c.amount \in Int
    PROVE  SumOuts(<<a, b, c>>) = a.amount + b.amount + c.amount
  <1>1. DOMAIN <<a, b, c>> = 1..3
    OBVIOUS
  <1>2. PICK u : Ladder([i \in 1..3 |-> <<a, b, c>>[i].amount], 3, u) /\ SumOuts(<<a, b, c>>) = u[3]
    BY <1>1, OutsClimb
  <1>3. u[0] = 0 /\ u[1] = u[0] + a.amount /\ u[2] = u[1] + b.amount /\ u[3] = u[2] + c.amount
    BY <1>2 DEF Ladder
  <1> QED
    BY <1>2, <1>3

\* Outputs that pay the fee meant, with something in each and no coin stuck.
Sound(kind, total, outs, fee) ==
    /\ total = SumOuts(outs) + fee
    /\ \A i \in DOMAIN outs :
         /\ outs[i].amount > 0
         /\ outs[i].kind = "plain" /\ kind \in {"deploy", "demo"} => outs[i].amount >= Dust
         /\ outs[i].kind = "mecenas" /\ kind = "mecenas" => outs[i].amount > Pledge + ContractFee

\* All that Submit changes is kept by outputs of whole amounts; an output that
\* exists has another id.
LEMMA SubmitKeeps ==
    ASSUME OnlyOnce, Amounts, UNCHANGED utxos,
           NEW kind, NEW ins, NEW total, NEW outs, NEW fee, Submit(kind, ins, total, outs, fee),
           DOMAIN outs \subseteq Nat, \A j \in DOMAIN outs : outs[j].amount \in Int
    PROVE  OnlyOnce' /\ Amounts' /\ txCount' = txCount + 1
  <1> DEFINE new == [n |-> txCount', ins |-> ins, outs |-> outs]
  <1>1. txCount' = txCount + 1 /\ pool' = pool \cup {new}
    BY DEF Submit
  <1>2. new.n = txCount + 1 /\ new.outs = outs
    BY <1>1
  <1> HIDE DEF new
  <1>3. \A t \in pool : t.n \in 1..txCount
    BY DEF OnlyOnce
  <1>4. txCount \in Nat
    BY DEF OnlyOnce
  <1>5. \A t \in pool' : t.n \in 1..txCount' /\ DOMAIN t.outs \subseteq Nat
    BY <1>1, <1>2, <1>3, <1>4 DEF OnlyOnce
  <1>6. \A t, u \in pool' : t.n = u.n => t = u
    BY <1>1, <1>2, <1>3, <1>4 DEF OnlyOnce
  <1>7. \A i \in DOMAIN utxos : i[1] <= txCount' /\ \A t \in pool' : t.n # i[1]
    <2> SUFFICES ASSUME NEW i \in DOMAIN utxos PROVE i[1] <= txCount' /\ \A t \in pool' : t.n # i[1]
      OBVIOUS
    <2>1. i \in Ids /\ i[1] <= txCount /\ \A t \in pool : t.n # i[1]
      BY DEF OnlyOnce
    <2>2. i[1] \in Nat
      BY <2>1 DEF Ids
    <2> QED
      BY <1>1, <1>2, <1>4, <2>1, <2>2
  <1>8. OnlyOnce'
    BY <1>1, <1>4, <1>5, <1>6, <1>7 DEF OnlyOnce
  <1>9. Amounts'
    BY <1>1, <1>2 DEF Amounts
  <1> QED
    BY <1>1, <1>8, <1>9

LEMMA SubmitBalances ==
    ASSUME NEW kind, NEW ins, NEW total, NEW outs, NEW fee, Submit(kind, ins, total, outs, fee),
           Sound(kind, total, outs, fee) \/ (kind = "escrow" /\ outs[1].amount <= 0)
    PROVE  LabTxBalances'
  BY DEF Submit, Sound, LabTxBalances

\* Who is not about to submit is told by the client alone.
LEMMA FundedStays ==
    ASSUME WellFunded, OnlyOnce, UNCHANGED utxos, NEW kind, NEW ins, NEW total, NEW outs, NEW fee,
           Submit(kind, ins, total, outs, fee),
           client' \in [Clients -> [pc : ClientStates, value : Int, from : Ids]],
           \A c \in Clients : client'[c] = client[c] \/ (client'[c].pc = "idle")
    PROVE  WellFunded'
  <1> SUFFICES ASSUME NEW c \in Clients, client'[c] = client[c]
               PROVE  /\ client[c].pc # "idle" => client[c].value \in Values
                      /\ client[c].pc = "submitting" =>
                           /\ client[c].from[1] <= txCount'
                           /\ \A t \in pool' : t.n # client[c].from[1]
                           /\ client[c].from \in DOMAIN utxos =>
                                /\ utxos[client[c].from].amount >= client[c].value + Fee
                                /\ CanFund(client[c].from, client[c].value)
    BY DEF WellFunded, CanFund
  <1>1. client[c].from \in Ids
    BY DEF WellFunded
  <1>2. client[c].from[1] \in Nat /\ txCount \in Nat
    BY <1>1 DEF Ids, OnlyOnce
  <1>3. txCount' = txCount + 1 /\ \A t \in pool' : t \in pool \/ t.n = txCount + 1
    BY DEF Submit
  <1>4. CASE client[c].pc = "submitting"
    <2>1. client[c].from[1] <= txCount /\ \A t \in pool : t.n # client[c].from[1]
      BY <1>4 DEF WellFunded
    <2>2. client[c].from[1] <= txCount' /\ \A t \in pool' : t.n # client[c].from[1]
      BY <1>2, <1>3, <2>1
    <2> QED
      BY <1>4, <2>2 DEF WellFunded
  <1>5. CASE client[c].pc # "submitting"
    BY <1>5 DEF WellFunded
  <1> QED
    BY <1>4, <1>5

\* A birth: the value, and change unless nothing is left.
LEMMA BirthIsSound ==
    ASSUME NEW from, NEW value \in Values, NEW kind \in Kinds3, utxos[from].amount \in Int,
           utxos[from].amount >= value + Fee, CanFund(from, value)
    PROVE  /\ Sound("deploy", utxos[from].amount, BirthOuts(from, value, kind), Fee)
           /\ DOMAIN BirthOuts(from, value, kind) \subseteq Nat
           /\ \A j \in DOMAIN BirthOuts(from, value, kind) : BirthOuts(from, value, kind)[j].amount \in Int
  <1> DEFINE outs == BirthOuts(from, value, kind)
             change == utxos[from].amount - value - Fee
  <1>1. value \in Nat \ {0} /\ Fee \in Nat /\ Dust \in Nat \ {0} /\ change \in Int /\ kind # "plain"
    BY LabAssumption DEF Kinds3
  <1>2. CASE change >= Dust
    <2>1. outs = <<Out(value, kind), Out(change, "plain")>>
      BY <1>2 DEF BirthOuts
    <2>2. SumOuts(<<Out(value, kind), Out(change, "plain")>>) = value + change
      BY <1>1, SumTwo DEF Out
    <2>3. \A i \in DOMAIN outs : outs[i] = Out(value, kind) \/ outs[i] = Out(change, "plain")
      BY <2>1
    <2>4. Sound("deploy", utxos[from].amount, outs, Fee)
      BY <1>1, <1>2, <2>1, <2>2, <2>3 DEF Sound, Out
    <2>5. DOMAIN outs = 1..2
      BY <2>1
    <2> QED
      BY <1>1, <2>3, <2>4, <2>5 DEF Out
  <1>3. CASE ~(change >= Dust)
    <2>1. outs = <<Out(value, kind)>>
      BY <1>3 DEF BirthOuts
    <2>2. SumOuts(<<Out(value, kind)>>) = value
      BY <1>1, SumOne DEF Out
    <2>3. \A i \in DOMAIN outs : outs[i] = Out(value, kind)
      BY <2>1
    <2>4. utxos[from].amount = value + Fee
      BY <1>1, <1>3 DEF CanFund
    <2>5. Sound("deploy", utxos[from].amount, outs, Fee)
      BY <1>1, <2>4, <2>1, <2>2, <2>3 DEF Sound, Out
    <2>6. DOMAIN outs = 1..1
      BY <2>1
    <2> QED
      BY <1>1, <2>3, <2>5, <2>6 DEF Out
  <1> QED
    BY <1>2, <1>3

\* The change of a fee input, and what it is measured against.
LEMMA ChangeIsLeft ==
    ASSUME Amounts, NEW fund \in FeeInputs
    PROVE  /\ fund \in DOMAIN utxos /\ utxos[fund].amount \in Int
           /\ FeeChange(fund).amount = utxos[fund].amount + ContractFee - NetFee
           /\ FeeChange(fund).kind = "plain" /\ FeeChange(fund).amount > 0
  <1>1. fund \in Plain /\ utxos[fund].amount > NetFee + Dust
    BY DEF FeeInputs, Largest
  <1>2. fund \in DOMAIN utxos /\ utxos[fund].amount \in Int
    BY <1>1 DEF Plain, Amounts
  <1>3. {NetFee, Dust, ContractFee} \subseteq Nat
    BY LabAssumption
  <1> QED
    BY <1>1, <1>2, <1>3 DEF FeeChange, Out

\* What a contract's coin pays, with the change of the fee input.
LEMMA ConstrainedIsSound ==
    ASSUME Amounts, NEW coin \in DOMAIN utxos, NEW fund \in FeeInputs,
           utxos[coin].kind \in {"mecenas", "will"}, utxos[coin].amount > ContractFee
    PROVE  LET outs == ConstrainedOuts(coin, FeeChange(fund))
           IN  /\ Sound(utxos[coin].kind, utxos[coin].amount + utxos[fund].amount, outs, NetFee)
               /\ DOMAIN outs \subseteq Nat
               /\ \A j \in DOMAIN outs : outs[j].amount \in Int
  <1> DEFINE outs == ConstrainedOuts(coin, FeeChange(fund))
             total == utxos[coin].amount + utxos[fund].amount
             kind == utxos[coin].kind
  <1>1. PICK change, value : change = FeeChange(fund) /\ value = utxos[coin].amount
    OBVIOUS
  <1>2. /\ value \in Int /\ utxos[fund].amount \in Int
        /\ change.amount = utxos[fund].amount + ContractFee - NetFee
        /\ change.kind = "plain" /\ change.amount > 0
    BY <1>1, ChangeIsLeft DEF Amounts
  <1>3. ContractFee \in Nat /\ NetFee \in Nat /\ Pledge \in Nat \ {0}
    BY LabAssumption
  <1>4. CASE kind = "mecenas" /\ Terminal(value)
    <2> DEFINE a == Out(value - ContractFee, "paid")
    <2>1. outs = <<a, change>>
      BY <1>1, <1>4 DEF ConstrainedOuts, MecenasOuts
    <2>2. a.amount = value - ContractFee /\ a.kind = "paid"
      BY DEF Out
    <2> HIDE DEF a
    <2>3. SumOuts(<<a, change>>) = a.amount + change.amount
      BY <1>2, <1>3, <2>2, SumTwo
    <2>4. DOMAIN outs = 1..2 /\ \A i \in DOMAIN outs : outs[i] = a \/ outs[i] = change
      BY <2>1
    <2>5. total = SumOuts(outs) + NetFee
      BY <1>1, <1>2, <1>3, <2>1, <2>2, <2>3
    <2>6. \A i \in DOMAIN outs : outs[i].amount > 0 /\ outs[i].kind # "mecenas" /\ outs[i].amount \in Int
      BY <1>1, <1>2, <1>3, <2>2, <2>4
    <2>7. Sound(kind, total, outs, NetFee)
      BY <1>4, <2>5, <2>6 DEF Sound
    <2> QED
      BY <2>4, <2>6, <2>7
  <1>5. CASE kind = "mecenas" /\ ~Terminal(value)
    <2> DEFINE a == Out(Pledge, "paid")
               b == Out(value - Pledge - ContractFee, "mecenas")
    <2>1. outs = <<a, b, change>>
      BY <1>1, <1>5 DEF ConstrainedOuts, MecenasOuts
    <2>2. /\ a.amount = Pledge /\ a.kind = "paid"
          /\ b.amount = value - Pledge - ContractFee /\ b.amount > Pledge + ContractFee
      BY <1>2, <1>3, <1>5 DEF Out, Terminal
    <2> HIDE DEF a, b
    <2>3. SumOuts(<<a, b, change>>) = a.amount + b.amount + change.amount
      BY <1>2, <1>3, <2>2, SumThree
    <2>4. DOMAIN outs = 1..3 /\ \A i \in DOMAIN outs : outs[i] = a \/ outs[i] = b \/ outs[i] = change
      BY <2>1
    <2>5. total = SumOuts(outs) + NetFee
      BY <1>1, <1>2, <1>3, <2>1, <2>2, <2>3
    <2>6. \A i \in DOMAIN outs : /\ outs[i].amount > 0 /\ outs[i].amount \in Int
                                 /\ outs[i].kind = "mecenas" => outs[i].amount > Pledge + ContractFee
      BY <1>1, <1>2, <1>3, <2>2, <2>4
    <2>7. Sound(kind, total, outs, NetFee)
      BY <1>5, <2>5, <2>6 DEF Sound
    <2> QED
      BY <2>4, <2>6, <2>7
  <1>6. CASE kind = "will"
    <2> DEFINE a == Out(value - ContractFee, "will")
    <2>1. outs = <<a, change>>
      BY <1>1, <1>6 DEF ConstrainedOuts
    <2>2. a.amount = value - ContractFee /\ a.kind = "will"
      BY DEF Out
    <2> HIDE DEF a
    <2>3. SumOuts(<<a, change>>) = a.amount + change.amount
      BY <1>2, <1>3, <2>2, SumTwo
    <2>4. DOMAIN outs = 1..2 /\ \A i \in DOMAIN outs : outs[i] = a \/ outs[i] = change
      BY <2>1
    <2>5. total = SumOuts(outs) + NetFee
      BY <1>1, <1>2, <1>3, <2>1, <2>2, <2>3
    <2>6. \A i \in DOMAIN outs : outs[i].amount > 0 /\ outs[i].kind # "mecenas" /\ outs[i].amount \in Int
      BY <1>1, <1>2, <1>3, <2>2, <2>4
    <2>7. Sound(kind, total, outs, NetFee)
      BY <1>6, <2>5, <2>6 DEF Sound
    <2> QED
      BY <2>4, <2>6, <2>7
  <1> QED
    BY <1>4, <1>5, <1>6

\* An escrow pays what it holds but the contract's fee, or nothing at all.
LEMMA EscrowIsSound ==
    ASSUME Amounts, NEW coin \in DOMAIN utxos, NEW fund \in FeeInputs
    PROVE  LET outs == <<Out(utxos[coin].amount - ContractFee, "paid"), FeeChange(fund)>>
           IN  /\ \/ Sound("escrow", utxos[coin].amount + utxos[fund].amount, outs, NetFee)
                  \/ outs[1].amount <= 0
               /\ DOMAIN outs \subseteq Nat
               /\ \A j \in DOMAIN outs : outs[j].amount \in Int
  <1>1. PICK change, a, value : /\ change = FeeChange(fund) /\ value = utxos[coin].amount
                                /\ a = Out(value - ContractFee, "paid")
    OBVIOUS
  <1> DEFINE outs == <<a, change>>
             total == utxos[coin].amount + utxos[fund].amount
  <1>2. /\ value \in Int /\ utxos[fund].amount \in Int
        /\ change.amount = utxos[fund].amount + ContractFee - NetFee
        /\ change.kind = "plain" /\ change.amount > 0
    BY <1>1, ChangeIsLeft DEF Amounts
  <1>3. ContractFee \in Nat /\ NetFee \in Nat
    BY LabAssumption
  <1>4. a.amount = value - ContractFee /\ a.kind = "paid"
    BY <1>1 DEF Out
  <1>5. SumOuts(outs) = a.amount + change.amount
    BY <1>2, <1>3, <1>4, SumTwo
  <1>6. DOMAIN outs = 1..2 /\ outs[1] = a /\ \A i \in DOMAIN outs : outs[i] = a \/ outs[i] = change
    OBVIOUS
  <1>7. total = SumOuts(outs) + NetFee
    BY <1>1, <1>2, <1>3, <1>4, <1>5
  <1> HIDE DEF outs, total
  <1>8. \A i \in DOMAIN outs : outs[i].amount \in Int
    BY <1>2, <1>3, <1>4, <1>6
  <1>9. a.amount > 0 => Sound("escrow", total, outs, NetFee)
    BY <1>2, <1>4, <1>6, <1>7 DEF Sound
  <1>10. a.amount > 0 \/ a.amount <= 0
    BY <1>2, <1>3, <1>4
  <1> USE DEF outs, total
  <1> QED
    BY <1>1, <1>6, <1>8, <1>9, <1>10

\* A spend with one output, which pays its own fee.
LEMMA SingleIsSound ==
    ASSUME NEW kind, NEW out, NEW total, NEW fee, out.amount \in Int, fee \in Int, total = out.amount + fee,
           out.amount > 0, out.kind # "mecenas",
           kind \in {"deploy", "demo"} => out.amount >= Dust
    PROVE  /\ Sound(kind, total, <<out>>, fee)
           /\ DOMAIN <<out>> \subseteq Nat
           /\ \A j \in DOMAIN <<out>> : <<out>>[j].amount \in Int
  <1>1. SumOuts(<<out>>) = out.amount
    BY SumOne
  <1>2. DOMAIN <<out>> = 1..1 /\ <<out>>[1] = out
    OBVIOUS
  <1> QED
    BY <1>1, <1>2 DEF Sound

-----------------------------------------------------------------------------
(* One lemma per kind of step *)

\* Requests that hold a token.
Busy == {c \in Clients : client[c].pc # "idle"}

LEMMA BusyCount ==
    ASSUME NEW s, s \subseteq Clients
    PROVE  IsFiniteSet(s) /\ Cardinality(s) \in Nat
  BY LabAssumption, FS_Subset, FS_CardinalityType

LEMMA LabStarts == LabInit => LabInv
  <1> SUFFICES ASSUME LabInit PROVE LabInv
    OBVIOUS
  <1> DEFINE ids == {<<0, n>> : n \in DOMAIN Funds}
  <1>1. DOMAIN utxos = ids /\ \A i \in ids : utxos[i].amount = Funds[i[2]]
    BY DEF LabInit
  <1>2. \A i \in ids : i \in Ids /\ i[1] = 0 /\ i[2] \in DOMAIN Funds
    BY LabAssumption DEF Ids
  <1>3. OnlyOnce
    BY <1>1, <1>2 DEF OnlyOnce, LabInit
  <1>4. Amounts
    BY <1>1, <1>2, LabAssumption DEF Amounts, LabInit
  <1>5. client = [c \in Clients |-> [pc |-> "idle", value |-> 0, from |-> <<0, 0>>]]
    BY DEF LabInit
  <1>6. WellFunded
    BY <1>5 DEF WellFunded, ClientStates, Ids
  <1>7. DemoFunded
    BY DEF DemoFunded, LabInit
  <1>8. /\ bucket.tokens = BucketCap /\ tally = [charges |-> 0, refills |-> 0, births |-> 0]
        /\ BucketCap \in Nat
    BY LabAssumption DEF LabInit, Bucket
  <1>9. BucketCounts
    BY <1>8 DEF BucketCounts
  <1>10. LabTxBalances
    BY DEF LabTxBalances, LabInit, NoTx
  <1>11. {c \in Clients : client[c].pc # "idle"} = {}
    BY <1>5
  <1>12. DrainBounded
    <2>1. Cardinality({c \in Clients : client[c].pc # "idle"}) = 0
      BY <1>11, FS_EmptySet
    <2>2. tally.births = 0 /\ tally.refills = 0
      BY <1>8
    <2> QED
      BY <1>8, <2>1, <2>2 DEF DrainBounded
  <1> QED
    BY <1>3, <1>4, <1>6, <1>7, <1>9, <1>10, <1>12 DEF LabInv

\* A transaction of the command line.
LEMMA SpendKeeps ==
    ASSUME LabInv, UNCHANGED <<utxos, demo, client, bucket, tally>>,
           NEW kind, NEW ins, NEW total, NEW outs, NEW fee, Submit(kind, ins, total, outs, fee),
           DOMAIN outs \subseteq Nat, \A j \in DOMAIN outs : outs[j].amount \in Int,
           Sound(kind, total, outs, fee) \/ (kind = "escrow" /\ outs[1].amount <= 0)
    PROVE  LabInv'
  <1>1. OnlyOnce' /\ Amounts'
    BY SubmitKeeps DEF LabInv
  <1>2. LabTxBalances'
    BY SubmitBalances
  <1>3. WellFunded'
    <2>1. WellFunded /\ OnlyOnce /\ client' = client
      BY DEF LabInv
    <2> QED
      BY <2>1, FundedStays DEF WellFunded
  <1>4. DemoFunded' /\ BucketCounts' /\ DrainBounded'
    BY DEF LabInv, DemoFunded, BucketCounts, DrainBounded
  <1> QED
    BY <1>1, <1>2, <1>3, <1>4 DEF LabInv

LEMMA ConstrainedKeeps == LabInv /\ SpendConstrained => LabInv'
  <1> SUFFICES ASSUME LabInv, SpendConstrained PROVE LabInv'
    OBVIOUS
  <1>1. UNCHANGED <<utxos, demo, client, bucket, tally>>
    BY DEF SpendConstrained
  <1>2. PICK coin \in DOMAIN utxos, fund \in FeeInputs :
          /\ utxos[coin].kind \in {"mecenas", "will"} /\ utxos[coin].amount > ContractFee
          /\ Submit(utxos[coin].kind, {coin, fund}, utxos[coin].amount + utxos[fund].amount,
                    ConstrainedOuts(coin, FeeChange(fund)), NetFee)
    BY DEF SpendConstrained
  <1>3. Amounts
    BY DEF LabInv
  <1> QED
    BY <1>1, <1>2, <1>3, ConstrainedIsSound, SpendKeeps

LEMMA EscrowKeeps == LabInv /\ SettleEscrow => LabInv'
  <1> SUFFICES ASSUME LabInv, SettleEscrow PROVE LabInv'
    OBVIOUS
  <1>1. UNCHANGED <<utxos, demo, client, bucket, tally>>
    BY DEF SettleEscrow
  <1>2. PICK coin \in DOMAIN utxos, fund \in FeeInputs :
          Submit("escrow", {coin, fund}, utxos[coin].amount + utxos[fund].amount,
                 <<Out(utxos[coin].amount - ContractFee, "paid"), FeeChange(fund)>>, NetFee)
    BY DEF SettleEscrow
  <1>3. Amounts
    BY DEF LabInv
  <1> QED
    BY <1>1, <1>2, <1>3, EscrowIsSound, SpendKeeps

LEMMA PureKeeps == LabInv /\ SpendPure => LabInv'
  <1> SUFFICES ASSUME LabInv, SpendPure PROVE LabInv'
    OBVIOUS
  <1>1. UNCHANGED <<utxos, demo, client, bucket, tally>>
    BY DEF SpendPure
  <1>2. PICK coin \in DOMAIN utxos :
          /\ utxos[coin].amount > NetFee
          /\ Submit("pure", {coin}, utxos[coin].amount, <<Out(utxos[coin].amount - NetFee, "plain")>>, NetFee)
    BY DEF SpendPure
  <1>3. PICK out : out = Out(utxos[coin].amount - NetFee, "plain")
    OBVIOUS
  <1>4. /\ utxos[coin].amount \in Int /\ NetFee \in Nat
        /\ out.amount = utxos[coin].amount - NetFee /\ out.kind = "plain"
    BY <1>3, LabAssumption DEF LabInv, Amounts, Out
  <1>5. /\ out.amount \in Int /\ NetFee \in Int /\ out.amount > 0 /\ utxos[coin].amount = out.amount + NetFee
        /\ "pure" \notin {"deploy", "demo"} /\ out.kind # "mecenas"
    BY <1>2, <1>4
  <1>6. /\ Sound("pure", utxos[coin].amount, <<out>>, NetFee)
        /\ DOMAIN <<out>> \subseteq Nat /\ \A j \in DOMAIN <<out>> : <<out>>[j].amount \in Int
    BY <1>5, SingleIsSound
  <1> QED
    BY <1>1, <1>2, <1>3, <1>6, SpendKeeps

LEMMA AnchorKeeps == LabInv /\ AnchorSelfSend => LabInv'
  <1> SUFFICES ASSUME LabInv, AnchorSelfSend PROVE LabInv'
    OBVIOUS
  <1>1. UNCHANGED <<utxos, demo, client, bucket, tally>>
    BY DEF AnchorSelfSend
  <1>2. PICK i \in Largest(Plain) :
          /\ utxos[i].amount > 2 * Fee
          /\ Submit("anchor", {i}, utxos[i].amount, <<Out(utxos[i].amount - Fee, "plain")>>, Fee)
    BY DEF AnchorSelfSend
  <1>3. PICK out : out = Out(utxos[i].amount - Fee, "plain")
    OBVIOUS
  <1>4. /\ utxos[i].amount \in Int /\ Fee \in Nat
        /\ out.amount = utxos[i].amount - Fee /\ out.kind = "plain"
    BY <1>3, LabAssumption DEF LabInv, Amounts, Out, Largest, Plain
  <1>5. /\ out.amount \in Int /\ Fee \in Int /\ out.amount > 0 /\ utxos[i].amount = out.amount + Fee
        /\ "anchor" \notin {"deploy", "demo"} /\ out.kind # "mecenas"
    BY <1>2, <1>4
  <1>6. /\ Sound("anchor", utxos[i].amount, <<out>>, Fee)
        /\ DOMAIN <<out>> \subseteq Nat /\ \A j \in DOMAIN <<out>> : <<out>>[j].amount \in Int
    BY <1>5, SingleIsSound
  <1> QED
    BY <1>1, <1>2, <1>3, <1>6, SpendKeeps

LEMMA CliDeployKeeps == LabInv /\ CliDeploy => LabInv'
  <1> SUFFICES ASSUME LabInv, CliDeploy PROVE LabInv'
    OBVIOUS
  <1>1. UNCHANGED <<utxos, demo, client, bucket, tally>>
    BY DEF CliDeploy
  <1>2. PICK kind \in Kinds3, value \in Values, from \in Largest(Plain) :
          /\ utxos[from].amount >= value + Fee /\ CanFund(from, value)
          /\ Submit("deploy", {from}, utxos[from].amount, BirthOuts(from, value, kind), Fee)
    BY DEF CliDeploy, Deploy
  <1>3. utxos[from].amount \in Int
    BY DEF LabInv, Amounts, Largest, Plain
  <1> QED
    BY <1>1, <1>2, <1>3, BirthIsSound, SpendKeeps

LEMMA ConfirmKeeps == LabInv /\ Confirm => LabInv'
  <1> SUFFICES ASSUME LabInv, Confirm PROVE LabInv'
    OBVIOUS
  <1>1. UNCHANGED <<txCount, lastTx, demo, client, bucket, tally>>
    BY DEF Confirm
  <1> DEFINE made(t) == {<<t.n, i>> : i \in {j \in DOMAIN t.outs : t.outs[j].kind # "paid"}}
  <1>2. PICK t \in pool :
          /\ pool' = pool \ {t}
          /\ utxos' = [i \in (DOMAIN utxos \ t.ins) \cup made(t) |->
                         IF i \in made(t) THEN t.outs[i[2]] ELSE utxos[i]]
    BY DEF Confirm
  <1>3. t.n \in 1..txCount /\ DOMAIN t.outs \subseteq Nat /\ txCount \in Nat
    BY DEF LabInv, OnlyOnce
  <1>4. \A i \in made(t) : i \in Ids /\ i[1] = t.n /\ i[2] \in DOMAIN t.outs
    BY <1>3 DEF Ids
  <1> DEFINE new == made(t)
  <1>5. /\ DOMAIN utxos' = (DOMAIN utxos \ t.ins) \cup new
        /\ \A i \in DOMAIN utxos' : utxos'[i] = IF i \in new THEN t.outs[i[2]] ELSE utxos[i]
    BY <1>2
  <1>6. \A i \in new : i \in Ids /\ i[1] = t.n /\ i[2] \in DOMAIN t.outs
    BY <1>4
  <1> HIDE DEF new
  <1>7. OnlyOnce'
    <2>1. \A u \in pool' : u.n # t.n /\ u \in pool
      BY <1>2 DEF LabInv, OnlyOnce
    <2>2. \A i \in DOMAIN utxos' : i \in Ids /\ i[1] <= txCount /\ \A u \in pool' : u.n # i[1]
      <3> SUFFICES ASSUME NEW i \in DOMAIN utxos'
                   PROVE  i \in Ids /\ i[1] <= txCount /\ \A u \in pool' : u.n # i[1]
        OBVIOUS
      <3>1. CASE i \in new
        BY <3>1, <1>3, <1>6, <2>1
      <3>2. CASE i \notin new
        BY <3>2, <1>5, <2>1 DEF LabInv, OnlyOnce
      <3> QED
        BY <3>1, <3>2
    <2> QED
      BY <1>1, <2>1, <2>2 DEF LabInv, OnlyOnce
  <1>8. Amounts'
    BY <1>2, <1>5, <1>6 DEF LabInv, Amounts
  <1>9. WellFunded'
    <2> SUFFICES ASSUME NEW c \in Clients, client[c].pc = "submitting"
                 PROVE  /\ client[c].from[1] <= txCount
                        /\ \A u \in pool' : u.n # client[c].from[1]
                        /\ client[c].from \in DOMAIN utxos' =>
                             /\ utxos'[client[c].from].amount >= client[c].value + Fee
                             /\ CanFund(client[c].from, client[c].value)'
      BY <1>1 DEF LabInv, WellFunded
    <2> DEFINE from == client[c].from
    <2>1. from[1] <= txCount /\ \A u \in pool : u.n # from[1]
      BY DEF LabInv, WellFunded
    <2>2. from \notin new
      BY <1>6, <2>1
    <2>3. from \in DOMAIN utxos' => from \in DOMAIN utxos /\ utxos'[from] = utxos[from]
      BY <1>5, <2>2
    <2>4. from \in DOMAIN utxos => utxos[from].amount >= client[c].value + Fee /\ CanFund(from, client[c].value)
      BY DEF LabInv, WellFunded
    <2>5. from \in DOMAIN utxos' => CanFund(from, client[c].value)'
      BY <1>1, <2>3, <2>4 DEF CanFund
    <2> QED
      BY <1>2, <2>1, <2>3, <2>4, <2>5
  <1>10. DemoFunded' /\ BucketCounts' /\ DrainBounded' /\ LabTxBalances'
    BY <1>1 DEF LabInv, DemoFunded, BucketCounts, DrainBounded, LabTxBalances
  <1> QED
    BY <1>7, <1>8, <1>9, <1>10 DEF LabInv

LEMMA DemoBeginKeeps == LabInv /\ DemoBegin => LabInv'
  <1> SUFFICES ASSUME LabInv, DemoBegin PROVE LabInv'
    OBVIOUS
  <1>1. UNCHANGED <<utxos, pool, txCount, lastTx, client, bucket, tally>>
    BY DEF DemoBegin
  <1>2. PICK i \in Largest(Plain) :
          /\ utxos[i].amount >= DemoNeeds
          /\ demo' = [pc |-> "genesis", coin |-> i, amount |-> utxos[i].amount, left |-> Transitions]
    BY DEF DemoBegin
  <1>3. utxos[i].amount \in Int /\ Transitions \in Nat /\ Fee \in Nat /\ Dust \in Nat
    BY LabAssumption DEF LabInv, Amounts, Largest, Plain
  <1>4. DemoFunded'
    BY <1>2, <1>3 DEF DemoFunded, DemoNeeds
  <1>5. OnlyOnce' /\ Amounts' /\ LabTxBalances'
    BY <1>1 DEF LabInv, OnlyOnce, Amounts, LabTxBalances
  <1>6. WellFunded' /\ BucketCounts' /\ DrainBounded'
    BY <1>1 DEF LabInv, WellFunded, CanFund, BucketCounts, DrainBounded
  <1> QED
    BY <1>4, <1>5, <1>6 DEF LabInv

\* Products, as far as the demo's budget needs them.
LEMMA FeesOfSteps ==
    ASSUME NEW n \in Nat
    PROVE  /\ Fee * (n + 1) = Fee * n + Fee /\ Fee * (n + 2) = Fee * (n + 1) + Fee
           /\ Fee * n \in Nat /\ Fee * (n + 1) \in Nat
  <1>1. Fee \in Nat
    BY LabAssumption
  <1> QED
    BY <1>1

LEMMA DemoStepKeeps == LabInv /\ DemoStep => LabInv'
  <1> SUFFICES ASSUME LabInv, DemoStep PROVE LabInv'
    OBVIOUS
  <1>1. UNCHANGED <<utxos, client, bucket, tally>> /\ demo.pc \in {"genesis", "run"}
    BY DEF DemoStep
  <1>2. Fee \in Nat /\ Dust \in Nat \ {0}
    BY LabAssumption
  <1>3. /\ demo.left \in Nat /\ demo.amount \in Int
        /\ demo.amount >= Fee * (demo.left + (IF demo.pc = "genesis" THEN 2 ELSE 1)) + Dust
    BY <1>1 DEF LabInv, DemoFunded
  <1> DEFINE burn == demo.pc = "run" /\ demo.left = 0
             next == demo.amount - Fee
             left == IF demo.pc = "run" /\ ~burn THEN demo.left - 1 ELSE demo.left
  <1>4. next >= Dust /\ next \in Int
    <2>1. CASE demo.pc = "genesis"
      BY <2>1, <1>2, <1>3, FeesOfSteps
    <2>2. CASE demo.pc = "run"
      BY <2>2, <1>2, <1>3, FeesOfSteps
    <2> QED
      BY <1>1, <2>1, <2>2
  <1>5. ~burn => left \in Nat /\ next >= Fee * (left + 1) + Dust
    <2>1. CASE demo.pc = "genesis"
      BY <2>1, <1>2, <1>3, FeesOfSteps
    <2>2. CASE demo.pc = "run" /\ demo.left # 0
      <3>1. demo.left - 1 \in Nat
        BY <2>2, <1>3
      <3>2. Fee * ((demo.left - 1) + 1) = Fee * (demo.left - 1) + Fee
            /\ Fee * ((demo.left - 1) + 2) = Fee * ((demo.left - 1) + 1) + Fee
            /\ Fee * (demo.left - 1) \in Nat
        BY <3>1, FeesOfSteps
      <3>3. (demo.left - 1) + 1 = demo.left /\ (demo.left - 1) + 2 = demo.left + 1 /\ left = demo.left - 1
        BY <2>2, <1>3
      <3>4. demo.amount >= Fee * (demo.left + 1) + Dust
        BY <2>2, <1>3
      <3> QED
        BY <1>2, <1>3, <3>1, <3>2, <3>3, <3>4
    <2> QED
      BY <1>1, <2>1, <2>2
  <1>6. CASE /\ Submit("demo", {demo.coin}, demo.amount, <<Out(next, IF burn THEN "plain" ELSE "demo")>>, Fee)
             /\ demo' = [pc |-> IF burn THEN "done" ELSE "run", coin |-> <<txCount', 1>>,
                         amount |-> next, left |-> left]
    <2>1. PICK out : out = Out(next, IF burn THEN "plain" ELSE "demo")
      OBVIOUS
    <2>2. out.amount = next /\ out.kind # "mecenas"
      BY <2>1 DEF Out
    <2>3. /\ out.amount \in Int /\ Fee \in Int /\ out.amount > 0 /\ demo.amount = out.amount + Fee
          /\ out.amount >= Dust
      BY <1>2, <1>3, <1>4, <2>2
    <2>4. /\ Sound("demo", demo.amount, <<out>>, Fee)
          /\ DOMAIN <<out>> \subseteq Nat /\ \A j \in DOMAIN <<out>> : <<out>>[j].amount \in Int
      BY <2>2, <2>3, SingleIsSound
    <2>5. Submit("demo", {demo.coin}, demo.amount, <<out>>, Fee)
      BY <1>6, <2>1
    <2>6. OnlyOnce' /\ Amounts'
      BY <1>1, <2>4, <2>5, SubmitKeeps DEF LabInv
    <2>7. LabTxBalances'
      BY <2>4, <2>5, SubmitBalances
    <2>8. WellFunded'
      <3>1. WellFunded /\ OnlyOnce /\ client' = client
        BY <1>1 DEF LabInv
      <3> QED
        BY <1>1, <2>5, <3>1, FundedStays DEF WellFunded
    <2>9. BucketCounts' /\ DrainBounded'
      BY <1>1 DEF LabInv, BucketCounts, DrainBounded
    <2>10. DemoFunded'
      <3>0. "pc" \in DOMAIN demo'
        BY <1>6
      <3>1. CASE burn
        <4>1. demo'.pc = "done"
          BY <1>6, <3>1
        <4> QED
          BY <3>0, <4>1 DEF DemoFunded
      <3>2. CASE ~burn
        <4>1. demo'.pc = "run" /\ demo'.amount = next /\ demo'.left = left
          BY <1>6, <3>2
        <4> HIDE DEF burn, next, left
        <4> QED
          BY <1>4, <1>5, <3>0, <3>2, <4>1 DEF DemoFunded
      <3> QED
        BY <3>1, <3>2
    <2> QED
      BY <2>6, <2>7, <2>8, <2>9, <2>10 DEF LabInv
  <1>7. CASE demo' = [demo EXCEPT !.pc = "done"] /\ UNCHANGED <<pool, txCount, lastTx>>
    <2>1. DemoFunded'
      <3>1. demo'.pc \notin {"genesis", "run"}
        <4>1. "pc" \in DOMAIN demo
          BY DEF LabInv, DemoFunded
        <4> QED
          BY <1>7, <4>1
      <3>2. "pc" \in DOMAIN demo'
        BY <1>7 DEF LabInv, DemoFunded
      <3> QED
        BY <3>1, <3>2 DEF DemoFunded
    <2>2. OnlyOnce' /\ Amounts' /\ LabTxBalances'
      BY <1>1, <1>7 DEF LabInv, OnlyOnce, Amounts, LabTxBalances
    <2>3. WellFunded' /\ BucketCounts' /\ DrainBounded'
      BY <1>1, <1>7 DEF LabInv, WellFunded, CanFund, BucketCounts, DrainBounded
    <2> QED
      BY <2>1, <2>2, <2>3 DEF LabInv
  <1> QED
    BY <1>6, <1>7 DEF DemoStep

-----------------------------------------------------------------------------
(* The deploy endpoint: the token of a request is in the bucket, held by the *)
(* request, or spent on a birth.                                             *)

\* Steps of the endpoint that submit nothing leave the rest of the lab alone.
LEMMA AsideKeeps ==
    ASSUME LabInv, UNCHANGED <<utxos, pool, txCount, lastTx, demo>>
    PROVE  OnlyOnce' /\ Amounts' /\ DemoFunded' /\ LabTxBalances'
  BY DEF LabInv, OnlyOnce, Amounts, DemoFunded, LabTxBalances

\* One request at a time moves.
LEMMA OneMoves ==
    ASSUME NEW c \in Clients, NEW r, DOMAIN client = Clients,
           client' = [client EXCEPT ![c] = r]
    PROVE  /\ client'[c] = r /\ \A d \in Clients : d # c => client'[d] = client[d]
           /\ DOMAIN client' = Clients
           /\ r.pc # "idle" => Busy' = Busy \cup {c}
           /\ r.pc = "idle" => Busy' = Busy \ {c}
  <1>1. client'[c] = r /\ \A d \in Clients : d # c => client'[d] = client[d]
    OBVIOUS
  <1> QED
    BY <1>1 DEF Busy

LEMMA BusyMoves ==
    ASSUME NEW c \in Clients
    PROVE  /\ Cardinality(Busy) \in Nat
           /\ c \in Busy => Cardinality(Busy \ {c}) = Cardinality(Busy) - 1
           /\ c \notin Busy => Cardinality(Busy \cup {c}) = Cardinality(Busy) + 1
           /\ c \in Busy => Busy \cup {c} = Busy
  <1>1. IsFiniteSet(Busy) /\ Cardinality(Busy) \in Nat
    BY BusyCount DEF Busy
  <1>2. c \in Busy => Cardinality(Busy \ {c}) = Cardinality(Busy) - 1
    BY <1>1, FS_RemoveElement
  <1>3. c \notin Busy => Cardinality(Busy \cup {c}) = Cardinality(Busy) + 1
    BY <1>1, FS_AddElement
  <1>4. c \in Busy => Busy \cup {c} = Busy
    OBVIOUS
  <1> QED
    BY <1>1, <1>2, <1>3, <1>4

\* A request that has not found its output asks for nothing of the chain.
LEMMA StandsAside ==
    ASSUME WellFunded, UNCHANGED <<utxos, pool, txCount>>, NEW c \in Clients,
           NEW r \in [pc : ClientStates, value : Int, from : Ids], r.pc # "submitting",
           r.pc # "idle" => r.value \in Values,
           client' = [client EXCEPT ![c] = r]
    PROVE  WellFunded'
  <1>1. client \in [Clients -> [pc : ClientStates, value : Int, from : Ids]]
    BY DEF WellFunded
  <1>2. client' \in [Clients -> [pc : ClientStates, value : Int, from : Ids]]
    BY <1>1
  <1>3. client'[c] = r /\ \A d \in Clients : d # c => client'[d] = client[d]
    BY <1>1
  <1> SUFFICES ASSUME NEW d \in Clients
               PROVE  /\ client'[d].pc # "idle" => client'[d].value \in Values
                      /\ client'[d].pc = "submitting" =>
                           /\ client'[d].from[1] <= txCount
                           /\ \A t \in pool : t.n # client'[d].from[1]
                           /\ client'[d].from \in DOMAIN utxos =>
                                /\ utxos[client'[d].from].amount >= client'[d].value + Fee
                                /\ CanFund(client'[d].from, client'[d].value)
    BY <1>2 DEF WellFunded, CanFund
  <1>4. CASE d = c
    BY <1>3, <1>4
  <1>5. CASE d # c
    BY <1>3, <1>5 DEF WellFunded
  <1> QED
    BY <1>4, <1>5

\* What a refill or a refund leaves in the bucket.
LEMMA AtMostOneMore ==
    ASSUME BucketCounts
    PROVE  /\ Min({bucket.tokens + 1, BucketCap}) \in Int
           /\ Min({bucket.tokens + 1, BucketCap}) <= bucket.tokens + 1
  <1>1. bucket.tokens + 1 \in Int /\ BucketCap \in Int
    BY LabAssumption DEF BucketCounts
  <1> DEFINE a == bucket.tokens + 1
  <1>2. \E x \in {a, BucketCap} : \A y \in {a, BucketCap} : x <= y
    BY <1>1
  <1>3. Min({a, BucketCap}) \in {a, BucketCap} /\ \A y \in {a, BucketCap} : Min({a, BucketCap}) <= y
    BY <1>2 DEF Min
  <1> QED
    BY <1>1, <1>3

\* What does not touch the bucket, the requests and the tally keeps the bound.
Drain == tally.births + bucket.tokens + Cardinality(Busy) <= BucketCap + tally.refills

LEMMA DrainIsBounded == Drain <=> DrainBounded
  BY DEF Drain, DrainBounded, Busy

LEMMA RefillKeeps == LabInv /\ Refill => LabInv'
  <1> SUFFICES ASSUME LabInv, Refill PROVE LabInv'
    OBVIOUS
  <1>1. UNCHANGED <<utxos, pool, txCount, lastTx, demo, client>>
    BY DEF Refill
  <1>2. /\ tally' = [tally EXCEPT !.refills = @ + 1]
        /\ bucket' = Bucket(Min({bucket.tokens + 1, BucketCap}), bucket.day, bucket.count)
    BY DEF Refill
  <1>3. /\ bucket.tokens \in Int /\ tally.births \in Int /\ tally.refills \in Int
        /\ tally = [charges |-> tally.charges, refills |-> tally.refills, births |-> tally.births]
    BY DEF LabInv, BucketCounts
  <1>4. tally' = [charges |-> tally.charges, refills |-> tally.refills + 1, births |-> tally.births]
    BY <1>2, <1>3
  <1>5. bucket'.tokens \in Int /\ bucket'.tokens <= bucket.tokens + 1
    BY <1>2, AtMostOneMore DEF LabInv, Bucket
  <1>6. BucketCounts'
    BY <1>3, <1>4, <1>5 DEF BucketCounts
  <1>7. Cardinality(Busy) \in Nat /\ Busy' = Busy
    BY <1>1, BusyCount DEF Busy
  <1>8. Drain
    BY DrainIsBounded DEF LabInv
  <1>9. BucketCap \in Nat
    BY LabAssumption
  <1>10. Drain'
    BY <1>3, <1>4, <1>5, <1>7, <1>8, <1>9 DEF Drain
  <1>11. DrainBounded'
    BY <1>10 DEF Drain, DrainBounded, Busy
  <1>12. WellFunded'
    BY <1>1 DEF LabInv, WellFunded, CanFund
  <1> QED
    BY <1>1, <1>6, <1>11, <1>12, AsideKeeps DEF LabInv

LEMMA MidnightKeeps == LabInv /\ Midnight => LabInv'
  <1> SUFFICES ASSUME LabInv, Midnight PROVE LabInv'
    OBVIOUS
  <1>1. UNCHANGED <<utxos, pool, txCount, lastTx, demo, client, tally>> /\ bucket'.tokens = bucket.tokens
    BY DEF Midnight, Bucket
  <1>2. BucketCounts' /\ DrainBounded' /\ WellFunded'
    BY <1>1 DEF LabInv, BucketCounts, DrainBounded, WellFunded, CanFund
  <1> QED
    BY <1>1, <1>2, AsideKeeps DEF LabInv

LEMMA ChargeKeeps == ASSUME LabInv, NEW c \in Clients, Charge(c) PROVE LabInv'
  <1>1. UNCHANGED <<utxos, pool, txCount, lastTx, demo>> /\ client[c].pc = "idle"
    BY DEF Charge
  <1>2. /\ tally' = [tally EXCEPT !.charges = @ + 1]
        /\ bucket'.tokens = bucket.tokens - 1
    BY DEF Charge, Bucket
  <1>3. PICK v \in Values :
          client' = [client EXCEPT ![c] = [pc |-> "waiting", value |-> v, from |-> client[c].from]]
    BY DEF Charge
  <1> DEFINE r == [pc |-> "waiting", value |-> v, from |-> client[c].from]
  <1>4. client \in [Clients -> [pc : ClientStates, value : Int, from : Ids]]
    BY DEF LabInv, WellFunded
  <1>5. r \in [pc : ClientStates, value : Int, from : Ids] /\ r.pc = "waiting" /\ r.value \in Values
    BY <1>4, LabAssumption DEF ClientStates
  <1>6. client' = [client EXCEPT ![c] = r]
    BY <1>3
  <1> HIDE DEF r
  <1>7. WellFunded'
    BY <1>1, <1>5, <1>6, StandsAside DEF LabInv
  <1>8. Busy' = Busy \cup {c} /\ c \notin Busy
    BY <1>1, <1>4, <1>5, <1>6, OneMoves DEF Busy
  <1>9. Cardinality(Busy') = Cardinality(Busy) + 1 /\ Cardinality(Busy) \in Nat
    BY <1>8, BusyMoves
  <1>10. /\ bucket.tokens \in Int /\ tally.births \in Int /\ tally.refills \in Int
         /\ tally = [charges |-> tally.charges, refills |-> tally.refills, births |-> tally.births]
    BY DEF LabInv, BucketCounts
  <1>11. tally' = [charges |-> tally.charges + 1, refills |-> tally.refills, births |-> tally.births]
    BY <1>2, <1>10
  <1>12. BucketCounts'
    BY <1>2, <1>10, <1>11 DEF BucketCounts
  <1>13. Drain /\ BucketCap \in Nat
    BY DrainIsBounded, LabAssumption DEF LabInv
  <1>14. Drain'
    BY <1>2, <1>9, <1>10, <1>11, <1>13 DEF Drain
  <1>15. DrainBounded'
    BY <1>14 DEF Drain, DrainBounded, Busy
  <1> QED
    BY <1>1, <1>7, <1>12, <1>15, AsideKeeps DEF LabInv

\* A request that goes on, or ends, and leaves bucket and tally as they are.
LEMMA DeployRequestKeeps ==
    ASSUME LabInv, UNCHANGED <<utxos, pool, txCount, lastTx, demo, bucket, tally>>,
           NEW c \in Clients, c \in Busy, client' \in [Clients -> [pc : ClientStates, value : Int, from : Ids]],
           \A d \in Clients : d # c => client'[d] = client[d], WellFunded'
    PROVE  LabInv'
  <1>1. Busy' = Busy \/ Busy' = Busy \ {c}
    BY DEF Busy
  <1>2. Cardinality(Busy') <= Cardinality(Busy) /\ Cardinality(Busy) \in Nat /\ Cardinality(Busy') \in Nat
    <2>1. CASE Busy' = Busy
      <3>1. Cardinality(Busy) \in Nat
        BY BusyMoves
      <3>2. Cardinality(Busy') = Cardinality(Busy)
        BY <2>1
      <3> QED
        BY <3>1, <3>2
    <2>2. CASE Busy' = Busy \ {c}
      BY <2>2, BusyMoves, BusyCount DEF Busy
    <2> QED
      BY <1>1, <2>1, <2>2
  <1>3. /\ bucket.tokens \in Int /\ tally.births \in Int /\ tally.refills \in Int
        /\ BucketCap \in Nat /\ Drain
    BY LabAssumption, DrainIsBounded DEF LabInv, BucketCounts
  <1>4. Drain'
    BY <1>2, <1>3 DEF Drain
  <1>5. DrainBounded'
    BY <1>4 DEF Drain, DrainBounded, Busy
  <1>6. BucketCounts'
    BY DEF LabInv, BucketCounts
  <1> QED
    BY <1>5, <1>6, AsideKeeps DEF LabInv

LEMMA StepAside ==
    ASSUME LabInv, UNCHANGED <<utxos, pool, txCount, lastTx, demo, bucket, tally>>,
           NEW c \in Clients, client[c].pc # "idle",
           NEW pc \in ClientStates, pc # "submitting", client' = [client EXCEPT ![c].pc = pc]
    PROVE  LabInv'
  <1>1. client \in [Clients -> [pc : ClientStates, value : Int, from : Ids]]
    BY DEF LabInv, WellFunded
  <1> DEFINE r == [pc |-> pc, value |-> client[c].value, from |-> client[c].from]
  <1>2. r \in [pc : ClientStates, value : Int, from : Ids] /\ r.pc = pc /\ r.value \in Values
    BY <1>1 DEF LabInv, WellFunded
  <1>3. client' = [client EXCEPT ![c] = r]
    <2>1. [client[c] EXCEPT !.pc = pc] = r
      BY <1>1
    <2> QED
      BY <1>1, <2>1
  <1> HIDE DEF r
  <1>4. WellFunded'
    BY <1>2, <1>3, StandsAside DEF LabInv
  <1>5. c \in Busy
    BY DEF Busy
  <1>6. /\ client' \in [Clients -> [pc : ClientStates, value : Int, from : Ids]]
        /\ \A d \in Clients : d # c => client'[d] = client[d]
    BY <1>1, <1>2, <1>3
  <1> QED
    BY <1>4, <1>5, <1>6, DeployRequestKeeps

LEMMA PreflightFailsKeeps == ASSUME LabInv, NEW c \in Clients, PreflightFails(c) PROVE LabInv'
  <1>1. /\ UNCHANGED <<utxos, pool, txCount, lastTx, demo, tally>> /\ client[c].pc = "preflight"
        /\ bucket' = Refunded /\ client' = [client EXCEPT ![c].pc = "idle"]
    BY DEF PreflightFails
  <1>2. client \in [Clients -> [pc : ClientStates, value : Int, from : Ids]]
    BY DEF LabInv, WellFunded
  <1> DEFINE r == [pc |-> "idle", value |-> client[c].value, from |-> client[c].from]
  <1>3. r \in [pc : ClientStates, value : Int, from : Ids] /\ r.pc = "idle"
    BY <1>2 DEF ClientStates
  <1>4. client' = [client EXCEPT ![c] = r]
    <2>1. [client[c] EXCEPT !.pc = "idle"] = r
      BY <1>2
    <2> QED
      BY <1>1, <1>2, <2>1
  <1> HIDE DEF r
  <1>5. WellFunded'
    BY <1>1, <1>3, <1>4, StandsAside DEF LabInv
  <1>6. c \in Busy /\ Busy' = Busy \ {c}
    BY <1>1, <1>2, <1>3, <1>4, OneMoves DEF Busy
  <1>7. Cardinality(Busy') = Cardinality(Busy) - 1 /\ Cardinality(Busy) \in Nat
    BY <1>6, BusyMoves
  <1>8. bucket'.tokens \in Int /\ bucket'.tokens <= bucket.tokens + 1
    BY <1>1, AtMostOneMore DEF LabInv, Refunded, Bucket
  <1>9. /\ bucket.tokens \in Int /\ tally.births \in Int /\ tally.refills \in Int
        /\ BucketCap \in Nat /\ Drain
    BY LabAssumption, DrainIsBounded DEF LabInv, BucketCounts
  <1>10. Drain'
    BY <1>1, <1>7, <1>8, <1>9 DEF Drain
  <1>11. DrainBounded'
    BY <1>10 DEF Drain, DrainBounded, Busy
  <1>12. BucketCounts'
    BY <1>1, <1>8 DEF LabInv, BucketCounts
  <1> QED
    BY <1>1, <1>5, <1>11, <1>12, AsideKeeps DEF LabInv

LEMMA BirthBuildKeeps == ASSUME LabInv, NEW c \in Clients, BuildBirth(c) PROVE LabInv'
  <1>1. UNCHANGED <<utxos, pool, txCount, lastTx, demo, bucket, tally>> /\ client[c].pc = "building"
    BY DEF BuildBirth
  <1>2. client \in [Clients -> [pc : ClientStates, value : Int, from : Ids]]
    BY DEF LabInv, WellFunded
  <1>3. PICK from \in DOMAIN utxos :
          /\ utxos[from].amount >= client[c].value + Fee /\ CanFund(from, client[c].value)
          /\ client' = [client EXCEPT ![c] = [pc |-> "submitting", value |-> client[c].value, from |-> from]]
    BY DEF BuildBirth, Largest, Plain
  <1> DEFINE r == [pc |-> "submitting", value |-> client[c].value, from |-> from]
  <1>4. /\ r.pc = "submitting" /\ r.value = client[c].value /\ r.from = from
        /\ r \in [pc : ClientStates, value : Int, from : Ids]
    BY <1>2, <1>3 DEF LabInv, OnlyOnce, ClientStates
  <1>5. client' = [client EXCEPT ![c] = r]
    BY <1>3
  <1> HIDE DEF r
  <1>6. /\ client' \in [Clients -> [pc : ClientStates, value : Int, from : Ids]]
        /\ client'[c] = r /\ \A d \in Clients : d # c => client'[d] = client[d]
    BY <1>2, <1>4, <1>5
  <1>7. r.value \in Values
    BY <1>1, <1>4 DEF LabInv, WellFunded
  <1>8. from[1] <= txCount /\ \A t \in pool : t.n # from[1]
    BY <1>3 DEF LabInv, OnlyOnce
  <1>9. WellFunded'
    <2> SUFFICES ASSUME NEW d \in Clients
                 PROVE  /\ client'[d].pc # "idle" => client'[d].value \in Values
                        /\ client'[d].pc = "submitting" =>
                             /\ client'[d].from[1] <= txCount
                             /\ \A t \in pool : t.n # client'[d].from[1]
                             /\ client'[d].from \in DOMAIN utxos =>
                                  /\ utxos[client'[d].from].amount >= client'[d].value + Fee
                                  /\ CanFund(client'[d].from, client'[d].value)
      BY <1>1, <1>6 DEF WellFunded, CanFund
    <2>1. CASE d = c
      BY <2>1, <1>3, <1>4, <1>6, <1>7, <1>8
    <2>2. CASE d # c
      BY <2>2, <1>6 DEF LabInv, WellFunded
    <2> QED
      BY <2>1, <2>2
  <1>10. c \in Busy
    BY <1>1 DEF Busy
  <1> QED
    BY <1>1, <1>6, <1>9, <1>10, DeployRequestKeeps

\* The transaction of a birth is taken by the node, whatever the handler hears.
LEMMA BirthKeeps ==
    ASSUME LabInv, NEW c \in Clients, client[c].pc = "submitting", client[c].from \in DOMAIN utxos,
           Deploy(client[c].from, client[c].value, "mecenas"),
           tally' = [tally EXCEPT !.births = @ + 1], client' = [client EXCEPT ![c].pc = "idle"],
           UNCHANGED <<utxos, demo, bucket>>
    PROVE  LabInv'
  <1> DEFINE from == client[c].from
             value == client[c].value
             outs == BirthOuts(from, value, "mecenas")
  <1>1. client \in [Clients -> [pc : ClientStates, value : Int, from : Ids]]
    BY DEF LabInv, WellFunded
  <1>2. /\ value \in Values /\ utxos[from].amount >= value + Fee /\ CanFund(from, value)
        /\ utxos[from].amount \in Int
    BY DEF LabInv, WellFunded, Amounts
  <1>3. Submit("deploy", {from}, utxos[from].amount, outs, Fee)
    BY DEF Deploy
  <1>4. /\ Sound("deploy", utxos[from].amount, outs, Fee)
        /\ DOMAIN outs \subseteq Nat /\ \A j \in DOMAIN outs : outs[j].amount \in Int
    <2>1. "mecenas" \in Kinds3
      BY DEF Kinds3
    <2> QED
      BY <1>2, <2>1, BirthIsSound
  <1>5. OnlyOnce' /\ Amounts'
    BY <1>3, <1>4, SubmitKeeps DEF LabInv
  <1>6. LabTxBalances'
    BY <1>3, <1>4, SubmitBalances
  <1> DEFINE r == [pc |-> "idle", value |-> client[c].value, from |-> client[c].from]
  <1>7. r \in [pc : ClientStates, value : Int, from : Ids] /\ r.pc = "idle"
    BY <1>1 DEF ClientStates
  <1>8. client' = [client EXCEPT ![c] = r]
    <2>1. [client[c] EXCEPT !.pc = "idle"] = r
      BY <1>1
    <2> QED
      BY <1>1, <2>1
  <1> HIDE DEF r
  <1>9. /\ client' \in [Clients -> [pc : ClientStates, value : Int, from : Ids]]
        /\ client'[c] = r /\ \A d \in Clients : d # c => client'[d] = client[d]
    BY <1>1, <1>7, <1>8
  <1>10. WellFunded'
    BY <1>3, <1>7, <1>9, FundedStays DEF LabInv
  <1>11. c \in Busy /\ Busy' = Busy \ {c}
    BY <1>1, <1>7, <1>8, OneMoves DEF Busy
  <1>12. Cardinality(Busy') = Cardinality(Busy) - 1 /\ Cardinality(Busy) \in Nat
    BY <1>11, BusyMoves
  <1>13. /\ bucket.tokens \in Int /\ tally.births \in Int /\ tally.refills \in Int
         /\ tally = [charges |-> tally.charges, refills |-> tally.refills, births |-> tally.births]
         /\ BucketCap \in Nat /\ Drain
    BY LabAssumption, DrainIsBounded DEF LabInv, BucketCounts
  <1>14. tally' = [charges |-> tally.charges, refills |-> tally.refills, births |-> tally.births + 1]
    BY <1>13
  <1>15. Drain'
    BY <1>12, <1>13, <1>14 DEF Drain
  <1>16. DrainBounded'
    BY <1>15 DEF Drain, DrainBounded, Busy
  <1>17. BucketCounts'
    BY <1>13, <1>14 DEF BucketCounts
  <1>18. DemoFunded'
    BY DEF LabInv, DemoFunded
  <1> QED
    BY <1>5, <1>6, <1>10, <1>16, <1>17, <1>18 DEF LabInv

LEMMA RequestsKeep ==
    ASSUME LabInv, NEW c \in Clients,
           \/ TakeWallet(c) \/ WalletCovers(c) \/ SubmitBirth(c) \/ DeployFails(c) \/ HangUp(c)
    PROVE  LabInv'
  <1>1. {"idle", "preflight", "building"} \subseteq ClientStates
    BY DEF ClientStates
  <1>2. CASE TakeWallet(c)
    BY <1>1, <1>2, StepAside DEF TakeWallet
  <1>3. CASE WalletCovers(c)
    BY <1>1, <1>3, StepAside DEF WalletCovers
  <1>4. CASE SubmitBirth(c)
    BY <1>4, BirthKeeps DEF SubmitBirth
  <1>5. CASE DeployFails(c)
    <2>1. CASE UNCHANGED <<pool, txCount, lastTx, tally>>
      BY <1>1, <1>5, <2>1, StepAside DEF DeployFails, AfterFailure
    <2>2. CASE ~UNCHANGED <<pool, txCount, lastTx, tally>>
      BY <1>5, <2>2, BirthKeeps DEF DeployFails, AfterFailure
    <2> QED
      BY <2>1, <2>2
  <1>6. CASE HangUp(c)
    BY <1>1, <1>6, StepAside DEF HangUp
  <1> QED
    BY <1>2, <1>3, <1>4, <1>5, <1>6

LEMMA LabIsKept == LabInv /\ [LabNext]_labvars => LabInv'
  <1> SUFFICES ASSUME LabInv, [LabNext]_labvars PROVE LabInv'
    OBVIOUS
  <1>1. CASE Confirm
    BY <1>1, ConfirmKeeps
  <1>2. CASE CliNext
    BY <1>2, ConstrainedKeeps, EscrowKeeps, PureKeeps, AnchorKeeps, CliDeployKeeps, DemoBeginKeeps, DemoStepKeeps
       DEF CliNext
  <1>3. CASE EndpointNext
    <2>1. CASE Refill \/ Midnight
      BY <2>1, RefillKeeps, MidnightKeeps
    <2>2. ASSUME NEW c \in Clients, Charge(c) PROVE LabInv'
      BY <2>2, ChargeKeeps
    <2>3. ASSUME NEW c \in Clients, PreflightFails(c) PROVE LabInv'
      BY <2>3, PreflightFailsKeeps
    <2>4. ASSUME NEW c \in Clients, BuildBirth(c) PROVE LabInv'
      BY <2>4, BirthBuildKeeps
    <2>5. ASSUME NEW c \in Clients,
                 \/ TakeWallet(c) \/ WalletCovers(c) \/ SubmitBirth(c) \/ DeployFails(c) \/ HangUp(c)
          PROVE  LabInv'
      BY <2>5, RequestsKeep
    <2> QED
      BY <1>3, <2>1, <2>2, <2>3, <2>4, <2>5 DEF EndpointNext
  <1>4. CASE UNCHANGED labvars
    BY <1>4 DEF labvars, LabInv, OnlyOnce, Amounts, WellFunded, CanFund, DemoFunded, BucketCounts, LabTxBalances,
                DrainBounded
  <1> QED
    BY <1>1, <1>2, <1>3, <1>4 DEF LabNext

\* The lab loses no coin to its own arithmetic and no more of the wallet than it
\* meant to give (kascov-labkit's builders; DeployLimiter and deploy_handler of
\* main.rs), for any fees, pledge, dust limit, values, wallet, bucket and
\* requests, whatever is refused, refunded, lost or hung up on the way.
THEOREM WalletIsKept == LabSpec => []WalletKept
  <1>1. LabInv => WalletKept
    BY DEF LabInv, WalletKept
  <1> QED
    BY <1>1, LabStarts, LabIsKept, PTL DEF LabSpec

-----------------------------------------------------------------------------
(* The preflight: any shapes of inputs and outputs, budgets and limits *)
(* What parse leaves of a request *)

LEMMA RequestShape ==
    ASSUME NEW r \in Submissions
    PROVE  /\ Len(r.inputs) \in Nat /\ r.inputs \in [1..Len(r.inputs) -> InputShapes]
           /\ Len(r.outputs) \in Nat /\ r.outputs \in [1..Len(r.outputs) -> OutputShapes]
           /\ r.version \in Fields
  <1>1. PICK n \in InputCounts : r.inputs \in [1..n -> InputShapes]
    BY DEF Submissions
  <1>2. PICK m \in OutputCounts : r.outputs \in [1..m -> OutputShapes]
    BY DEF Submissions
  <1>3. n \in Nat /\ m \in Nat /\ r.version \in Fields
    BY <1>1, <1>2, PreflightAssumption DEF Submissions
  <1>4. Len(r.inputs) = n /\ Len(r.outputs) = m
    BY <1>1, <1>2, <1>3
  <1> QED
    BY <1>1, <1>2, <1>3, <1>4

LEMMA InputShape ==
    ASSUME NEW in \in InputShapes
    PROVE  /\ in = [spelled |-> in.spelled, budget |-> in.budget, sigops |-> in.sigops, witness |-> in.witness,
                    spk |-> in.spk, amount |-> in.amount, bytes |-> in.bytes, units |-> in.units, valid |-> in.valid,
                    alone |-> in.alone]
           /\ {in.budget, in.sigops, in.amount} \subseteq Fields /\ {in.units, in.bytes} \subseteq Nat
  BY PreflightAssumption

\* The whole request, when it is not too long, with the budgets it spells well.
Whole(r, tx) ==
    /\ tx.version = Given(r.version, 1)
    /\ tx.outputs = r.outputs
    /\ Len(tx.inputs) = Len(r.inputs) /\ DOMAIN tx.inputs = 1..Len(r.inputs)
    /\ Len(r.inputs) = 0 => tx.inputs = <<>>
    /\ \A i \in 1..Len(r.inputs) : tx.inputs[i] = [r.inputs[i] EXCEPT !.budget = ReadBudget(r.inputs[i])]

LEMMA ParsedWhole ==
    ASSUME NEW r \in Submissions, Len(r.inputs) <= IoCap, Len(r.outputs) <= IoCap
    PROVE  Whole(r, Parsed(r))
  <1>1. /\ Len(r.inputs) \in Nat /\ r.inputs \in [1..Len(r.inputs) -> InputShapes]
        /\ Len(r.outputs) \in Nat /\ r.outputs \in [1..Len(r.outputs) -> OutputShapes]
    BY RequestShape
  <1>2. ASSUME NEW n \in Nat, NEW q, DOMAIN q = 1..n, q = [i \in 1..n |-> q[i]] PROVE SubSeq(q, 1, n) = q
    BY <1>2
  <1>3. FirstOf(r.inputs, IoCap) = SubSeq(r.inputs, 1, Len(r.inputs))
        /\ FirstOf(r.outputs, IoCap) = SubSeq(r.outputs, 1, Len(r.outputs))
    <2>1. IoCap \in Nat
      BY PreflightAssumption
    <2> QED
      BY <1>1, <2>1 DEF FirstOf
  <1>4. FirstOf(r.inputs, IoCap) = r.inputs /\ FirstOf(r.outputs, IoCap) = r.outputs
    BY <1>1, <1>2, <1>3
  <1>5. DOMAIN r.inputs = 1..Len(r.inputs)
    BY <1>1
  <1>6. /\ Parsed(r).version = Given(r.version, 1) /\ Parsed(r).outputs = r.outputs
        /\ Parsed(r).inputs = [i \in 1..Len(r.inputs) |-> [r.inputs[i] EXCEPT !.budget = ReadBudget(r.inputs[i])]]
    BY <1>4, <1>5 DEF Parsed, Given
  <1>7. Len(Parsed(r).inputs) = Len(r.inputs)
    BY <1>1, <1>6
  <1>8. Len(r.inputs) = 0 => Parsed(r).inputs = <<>>
    <2>1. Len(r.inputs) = 0 => 1..Len(r.inputs) = {}
      OBVIOUS
    <2> QED
      BY <1>6, <2>1
  <1> QED
    BY <1>6, <1>7, <1>8 DEF Whole

\* What reading a budget leaves of an input.
LEMMA ReadInput ==
    ASSUME NEW in \in InputShapes, NEW read, read = [in EXCEPT !.budget = ReadBudget(in)]
    PROVE  /\ read.budget = ReadBudget(in) /\ ReadBudget(in) \in Fields
           /\ read.sigops = in.sigops /\ read.witness = in.witness /\ read.spk = in.spk
           /\ read.amount = in.amount /\ read.bytes = in.bytes /\ read.units = in.units /\ read.valid = in.valid /\ read.alone = in.alone
           /\ {in.sigops, in.amount} \subseteq Fields /\ {in.units, in.bytes} \subseteq Nat
           /\ Given(ReadBudget(in), 0) = OnWire(in)
  <1>1. read = [spelled |-> in.spelled, budget |-> ReadBudget(in), sigops |-> in.sigops, witness |-> in.witness,
                spk |-> in.spk, amount |-> in.amount, bytes |-> in.bytes, units |-> in.units, valid |-> in.valid,
                    alone |-> in.alone]
    BY InputShape
  <1>2. ReadBudget(in) \in Fields
    BY InputShape DEF ReadBudget, Fields
  <1>3. Given(ReadBudget(in), 0) = OnWire(in)
    BY DEF Given, ReadBudget, OnWire
  <1> QED
    BY <1>1, <1>2, <1>3, InputShape

-----------------------------------------------------------------------------
(* Sums of numbers *)

\* The sums of the preflight.
LEMMA SumClimbs ==
    ASSUME NEW n \in Nat, NEW f, DOMAIN f = 1..n
    PROVE  \E u : Ladder(f, n, u) /\ SumOf(f) = u[n]
  <1> DEFINE Q(g) == g = [s \in SUBSET (DOMAIN f) |-> IF s = {} THEN 0 ELSE g[s \ {Max(s)}] + f[Max(s)]]
             it == CHOOSE g : Q(g)
  <1>1. \A g : (g = [s \in SUBSET (1..n) |-> SumStep(f, g, s)]) <=> Q(g)
    BY DEF SumStep
  <1>2. \E g : Q(g)
    <2>1. PICK g : g = [s \in SUBSET (1..n) |-> SumStep(f, g, s)]
      BY SumsExist
    <2> QED
      BY <1>1, <2>1
  <1>3. Q(it)
    BY <1>2
  <1>4. it = [s \in SUBSET (1..n) |-> SumStep(f, it, s)]
    BY <1>1, <1>3
  <1>5. SumOf(f) = it[1..n]
    BY DEF SumOf, FoldLeft, MapThenFoldSet
  <1> HIDE DEF it
  <1>6. Ladder(f, n, [k \in 0..n |-> it[1..k]])
    BY ONLY ZenonT(40), <1>4, n \in Nat, SumsClimb
  <1>7. [k \in 0..n |-> it[1..k]][n] = it[1..n]
    OBVIOUS
  <1> QED
    BY <1>5, <1>6, <1>7

\* What holds at the bottom and is carried up holds at the top.
LEMMA LadderWhole ==
    ASSUME NEW n \in Nat, NEW f \in [1..n -> Int], NEW u, Ladder(f, n, u)
    PROVE  \A k \in 0..n : u[k] \in Int
  <1> DEFINE T == {k \in Nat : k <= n /\ u[k] \notin Int}
  <1> SUFFICES ASSUME T # {} PROVE FALSE
    OBVIOUS
  <1>1. PICK m \in T : \A k \in T : m <= k
    <2>1. T \in SUBSET Nat
      OBVIOUS
    <2> HIDE DEF T
    <2> QED
      BY <2>1, SmallestOf
  <1>2. m # 0
    BY <1>1 DEF Ladder
  <1>3. m - 1 \in Nat /\ m - 1 \notin T
    BY <1>1, <1>2
  <1>4. u[m - 1] \in Int /\ u[m] = u[m - 1] + f[m] /\ f[m] \in Int
    BY <1>1, <1>2, <1>3 DEF Ladder
  <1> QED
    BY <1>1, <1>4

LEMMA SumIsWhole ==
    ASSUME NEW n \in Nat, NEW f \in [1..n -> Int]
    PROVE  SumOf(f) \in Int
  <1>1. PICK u : Ladder(f, n, u) /\ SumOf(f) = u[n]
    BY SumClimbs
  <1> QED
    BY <1>1, LadderWhole

-----------------------------------------------------------------------------
(* What a node and the preflight agree on, for a request that tells all *)

\* What an input commits to, in the eyes of a node.
WireCommit(r, i) == IF Given(r.version, 1) = 1 THEN OnWire(r.inputs[i]) ELSE Given(r.inputs[i].sigops, 1)

LEMMA CommitsIsNumber ==
    ASSUME NEW r \in Submissions, NEW i \in 1..Len(r.inputs)
    PROVE  WireCommit(r, i) \in Nat
  <1>1. r.inputs[i] \in InputShapes
    BY RequestShape
  <1>2. r.inputs[i].budget \in Fields /\ r.inputs[i].sigops \in Fields
    BY <1>1, InputShape
  <1> QED
    BY <1>2 DEF WireCommit, OnWire, Given, Fields

\* Below the wire field's limit both see the same commitment.
LEMMA SameCommitment ==
    ASSUME NEW r \in Submissions, NEW tx, Whole(r, tx), NEW i \in 1..Len(r.inputs),
           tx.version \in {0, 1}, WireCommit(r, i) <= WireMax
    PROVE  Committed(tx.version, tx.inputs[i]) = WireCommit(r, i)
  <1>1. r.inputs[i] \in InputShapes
    BY RequestShape
  <1>2. /\ tx.version = Given(r.version, 1)
        /\ tx.inputs[i] = [r.inputs[i] EXCEPT !.budget = ReadBudget(r.inputs[i])]
    BY DEF Whole
  <1>3. /\ tx.inputs[i].budget = ReadBudget(r.inputs[i]) /\ tx.inputs[i].sigops = r.inputs[i].sigops
        /\ Given(ReadBudget(r.inputs[i]), 0) = OnWire(r.inputs[i])
    BY <1>1, <1>2, ReadInput
  <1>4. WireCommit(r, i) = IF tx.version = 1 THEN Given(tx.inputs[i].budget, 0) ELSE Given(tx.inputs[i].sigops, 1)
    BY <1>2, <1>3 DEF WireCommit
  <1>5. WireMax \in Nat /\ WireCommit(r, i) \in Nat
    BY PreflightAssumption, CommitsIsNumber
  <1> QED
    BY <1>4, <1>5 DEF Committed, Clamp

\* The sums the mass calculator and the node take.
Commitments(r) == [i \in DOMAIN r.inputs |-> WireCommit(r, i)]
NodeMass(r) == Size(r) + SumOf(Commitments(r))

LEMMA SizeIsWhole ==
    ASSUME NEW r \in Submissions
    PROVE  Size(r) \in Int /\ SumOf(Commitments(r)) \in Int /\ TransientPer * Size(r) \in Int
  <1> DEFINE n == Len(r.inputs)
             f == [i \in DOMAIN r.inputs |-> r.inputs[i].bytes]
  <1>1. n \in Nat /\ r.inputs \in [1..n -> InputShapes] /\ DOMAIN r.inputs = 1..n /\ Len(r.outputs) \in Nat
    BY RequestShape
  <1>2. f \in [1..n -> Int]
    BY <1>1, InputShape
  <1>3. Commitments(r) \in [1..n -> Int]
    BY <1>1, CommitsIsNumber DEF Commitments
  <1> HIDE DEF n, f
  <1>4. SumOf(f) \in Int /\ SumOf(Commitments(r)) \in Int
    BY <1>1, <1>2, <1>3, SumIsWhole
  <1>5. Size(r) = Len(r.outputs) + SumOf(f)
    BY DEF Size, f
  <1>6. TransientPer \in Int /\ Size(r) \in Int
    BY <1>1, <1>4, <1>5, PreflightAssumption
  <1> QED
    BY <1>4, <1>6

LEMMA SameSizes ==
    ASSUME NEW r \in Submissions, NEW tx, Whole(r, tx), tx.version \in {0, 1},
           \A i \in 1..Len(r.inputs) : WireCommit(r, i) <= WireMax
    PROVE  ComputeMass(tx) = NodeMass(r) /\ TransientMass(tx) = TransientPer * Size(r)
  <1> DEFINE n == Len(r.inputs)
  <1>1. DOMAIN r.inputs = 1..n /\ DOMAIN tx.inputs = 1..n /\ tx.outputs = r.outputs
    BY RequestShape DEF Whole
  <1>2. \A i \in 1..n : tx.inputs[i].bytes = r.inputs[i].bytes
    <2> TAKE i \in 1..n
    <2>1. r.inputs[i] \in InputShapes /\ tx.inputs[i] = [r.inputs[i] EXCEPT !.budget = ReadBudget(r.inputs[i])]
      BY RequestShape DEF Whole
    <2> QED
      BY <2>1, ReadInput
  <1>3. \A i \in 1..n : Committed(tx.version, tx.inputs[i]) = WireCommit(r, i)
    BY SameCommitment
  <1>4. [i \in DOMAIN tx.inputs |-> tx.inputs[i].bytes] = [i \in DOMAIN r.inputs |-> r.inputs[i].bytes]
    BY <1>1, <1>2
  <1>5. [i \in DOMAIN tx.inputs |-> Committed(tx.version, tx.inputs[i])] = Commitments(r)
    BY <1>1, <1>3 DEF Commitments
  <1>6. Size(tx) = Size(r)
    BY <1>1, <1>4 DEF Size
  <1> QED
    BY <1>5, <1>6 DEF ComputeMass, TransientMass, NodeMass

LEMMA SameStorageMass ==
    ASSUME NEW r \in Submissions, NEW tx, Whole(r, tx),
           \A i \in 1..Len(r.inputs) : r.inputs[i].amount > 0,
           \A i \in 1..Len(r.outputs) : r.outputs[i].value > 0
    PROVE  /\ StorageMass(tx) \in Int
           /\ StorageMass(tx) <= StorageLimit <=> OutputShares(r) <= StorageLimit + InputShares(r)
           /\ StorageComputable(tx) <=> OutputShares(r) <= MassMax
  <1> DEFINE n == Len(r.inputs)
             m == Len(r.outputs)
             f == [i \in DOMAIN r.inputs |-> MassParameter \div r.inputs[i].amount]
             g == [i \in DOMAIN r.outputs |-> MassParameter \div r.outputs[i].value]
  <1>1. /\ n \in Nat /\ r.inputs \in [1..n -> InputShapes] /\ DOMAIN tx.inputs = 1..n
        /\ m \in Nat /\ r.outputs \in [1..m -> OutputShapes] /\ tx.outputs = r.outputs
    BY RequestShape DEF Whole
  <1>2. \A i \in 1..n : r.inputs[i].amount \in Nat \ {0} /\ tx.inputs[i].amount = r.inputs[i].amount
    <2> TAKE i \in 1..n
    <2>1. r.inputs[i] \in InputShapes /\ tx.inputs[i] = [r.inputs[i] EXCEPT !.budget = ReadBudget(r.inputs[i])]
      BY <1>1 DEF Whole
    <2>2. tx.inputs[i].amount = r.inputs[i].amount /\ r.inputs[i].amount \in Fields
      BY <2>1, ReadInput
    <2> QED
      BY <2>2 DEF Fields, NotGiven
  <1>3. \A i \in 1..m : r.outputs[i].value \in Nat \ {0}
    BY <1>1, PreflightAssumption
  <1>4. MassParameter \in Nat /\ StorageLimit \in Nat
    BY PreflightAssumption
  <1>5. f \in [1..n -> Int]
    BY <1>1, <1>2, <1>4
  <1>6. g \in [1..m -> Int]
    BY <1>1, <1>3, <1>4
  <1>7. [i \in DOMAIN tx.inputs |-> MassParameter \div tx.inputs[i].amount] = f
    BY <1>1, <1>2
  <1> HIDE DEF f, g, n, m
  <1>8. SumOf(f) \in Int /\ SumOf(g) \in Int
    BY <1>1, <1>5, <1>6, SumIsWhole
  <1>9. InputShares(tx) = SumOf(f) /\ OutputShares(tx) = OutputShares(r)
    BY <1>1, <1>7 DEF InputShares, OutputShares
  <1>10. OutputShares(r) = SumOf(g) /\ InputShares(r) = SumOf(f)
    BY DEF OutputShares, InputShares, f, g
  <1> QED
    BY <1>4, <1>8, <1>9, <1>10 DEF StorageMass, StorageComputable

\* A node's conditions, in these terms.
LEMMA NodeTerms ==
    ASSUME NEW r \in Submissions
    PROVE  NodeTakes(r) <=>
             /\ Len(r.inputs) \in 1..IoCap /\ Len(r.outputs) \in 1..IoCap
             /\ \A i \in 1..Len(r.outputs) : r.outputs[i].value > 0 /\ r.outputs[i].spk = "given"
             /\ \A i \in 1..Len(r.inputs) :
                  /\ WireCommit(r, i) <= WireMax
                  /\ r.inputs[i].valid = "yes" /\ r.inputs[i].units <= Allowance(WireCommit(r, i))
             /\ NodeMass(r) <= ComputeLimit /\ TransientPer * Size(r) <= TransientLimit
             /\ OutputShares(r) <= MassMax /\ OutputShares(r) <= StorageLimit + InputShares(r)
  <1>1. DOMAIN r.inputs = 1..Len(r.inputs) /\ DOMAIN r.outputs = 1..Len(r.outputs)
    BY RequestShape
  <1>2. Commitments(r) = [i \in DOMAIN r.inputs |->
                            IF Given(r.version, 1) = 1 THEN OnWire(r.inputs[i]) ELSE Given(r.inputs[i].sigops, 1)]
    BY DEF Commitments, WireCommit
  <1> QED
    BY <1>1, <1>2 DEF NodeTakes, WireCommit, NodeMass

\* Every input of a request that tells all is executed, and known in full.
LEMMA AllExecuted ==
    ASSUME NEW r \in Submissions, NEW tx, Whole(r, tx), TellsAll(r), Len(r.inputs) > 0
    PROVE  Executable(tx) = 1..Len(r.inputs) /\ Populated(tx) /\ AmountsKnown(tx)
  <1> DEFINE n == Len(r.inputs)
  <1>1. /\ n \in Nat /\ DOMAIN tx.inputs = 1..n /\ DOMAIN r.inputs = 1..n /\ n <= ExecCap
        /\ Len(tx.inputs) = n
    BY RequestShape DEF Whole, TellsAll
  <1>2. \A i \in 1..n : /\ tx.inputs[i].witness = "given" /\ tx.inputs[i].spk = "given"
                        /\ tx.inputs[i].amount > 0 /\ tx.inputs[i].amount # NotGiven
    <2> TAKE i \in 1..n
    <2>1. r.inputs[i] \in InputShapes /\ tx.inputs[i] = [r.inputs[i] EXCEPT !.budget = ReadBudget(r.inputs[i])]
      BY RequestShape DEF Whole
    <2>2. r.inputs[i].witness = "given" /\ r.inputs[i].spk = "given" /\ r.inputs[i].amount > 0
      BY <1>1 DEF TellsAll
    <2> QED
      BY <2>1, <2>2, ReadInput DEF NotGiven
  <1>3. {i \in DOMAIN tx.inputs : /\ tx.inputs[i].witness = "given" /\ tx.inputs[i].spk = "given"
                                  /\ tx.inputs[i].amount # NotGiven} = 1..n
    BY <1>1, <1>2
  <1>4. \A i \in 1..n : Cardinality({j \in 1..n : j <= i}) <= ExecCap
    <2> TAKE i \in 1..n
    <2>1. IsFiniteSet(1..n) /\ Cardinality(1..n) = n
      BY <1>1, FS_Interval
    <2>2. {j \in 1..n : j <= i} \in SUBSET (1..n)
      OBVIOUS
    <2>3. Cardinality({j \in 1..n : j <= i}) <= n /\ Cardinality({j \in 1..n : j <= i}) \in Nat
      BY <2>1, <2>2, FS_Subset, FS_CardinalityType
    <2>4. ExecCap \in Nat
      BY PreflightAssumption
    <2> QED
      BY <1>1, <2>3, <2>4
  <1> HIDE DEF n
  <1>5. Executable(tx) = 1..n
    BY <1>3, <1>4 DEF Executable
  <1>6. tx.inputs # <<>>
    <2>1. n > 0
      BY DEF n
    <2> QED
      BY <1>1, <2>1
  <1>7. Populated(tx) /\ AmountsKnown(tx)
    BY <1>1, <1>2, <1>6 DEF Populated, AmountsKnown
  <1> QED
    BY <1>5, <1>7 DEF n

\* The kinds of findings, one by one.
LEMMA FindingsAre ==
    ASSUME NEW r, NEW tx, NEW code
    PROVE  code \in Findings(r, tx) <=>
             \/ \E i \in DOMAIN tx.inputs : code \in BudgetFindings(tx, i)
             \/ code = "version_missing" /\ r.version = NotGiven
             \/ code = "version_unknown" /\ tx.version > 1
             \/ code = "too_many_io" /\ (Len(r.inputs) > IoCap \/ Len(r.outputs) > IoCap)
             \/ code = "no_inputs" /\ tx.inputs = <<>>
             \/ code = "no_outputs" /\ tx.outputs = <<>>
             \/ code = "output_bad" /\ ~OutputsOk(tx)
             \/ code = "storage_mass_incomputable" /\ Buildable(tx) /\ Overflows(tx)
             \/ code = "mass_exceeds_limit" /\ Buildable(tx) /\ OverLimit(tx)
             \/ code = "input_script_failed" /\ \E i \in Executable(tx) : ~Passes(tx, i)
  <1> DEFINE budgets == UNION {BudgetFindings(tx, i) : i \in DOMAIN tx.inputs}
             p1 == {c \in {"version_missing"} : r.version = NotGiven}
             p2 == {c \in {"version_unknown"} : tx.version > 1}
             p3 == {c \in {"too_many_io"} : Len(r.inputs) > IoCap \/ Len(r.outputs) > IoCap}
             p4 == {c \in {"no_inputs"} : tx.inputs = <<>>}
             p5 == {c \in {"no_outputs"} : tx.outputs = <<>>}
             p6 == {c \in {"output_bad"} : ~OutputsOk(tx)}
             p7 == {c \in {"storage_mass_incomputable"} : Buildable(tx) /\ Overflows(tx)}
             p8 == {c \in {"mass_exceeds_limit"} : Buildable(tx) /\ OverLimit(tx)}
             p9 == {c \in {"input_script_failed"} : \E i \in Executable(tx) : ~Passes(tx, i)}
  <1>1. Findings(r, tx) = budgets \cup p1 \cup p2 \cup p3 \cup p4 \cup p5 \cup p6 \cup p7 \cup p8 \cup p9
    BY DEF Findings
  <1>2. code \in budgets <=> \E i \in DOMAIN tx.inputs : code \in BudgetFindings(tx, i)
    OBVIOUS
  <1>3. code \in p1 <=> code = "version_missing" /\ r.version = NotGiven
    OBVIOUS
  <1>4. code \in p2 <=> code = "version_unknown" /\ tx.version > 1
    OBVIOUS
  <1>5. code \in p3 <=> code = "too_many_io" /\ (Len(r.inputs) > IoCap \/ Len(r.outputs) > IoCap)
    OBVIOUS
  <1>6. code \in p4 <=> code = "no_inputs" /\ tx.inputs = <<>>
    OBVIOUS
  <1>7. code \in p5 <=> code = "no_outputs" /\ tx.outputs = <<>>
    OBVIOUS
  <1>8. code \in p6 <=> code = "output_bad" /\ ~OutputsOk(tx)
    OBVIOUS
  <1>9. code \in p7 <=> code = "storage_mass_incomputable" /\ Buildable(tx) /\ Overflows(tx)
    OBVIOUS
  <1>10. code \in p8 <=> code = "mass_exceeds_limit" /\ Buildable(tx) /\ OverLimit(tx)
    OBVIOUS
  <1>11. code \in p9 <=> code = "input_script_failed" /\ \E i \in Executable(tx) : ~Passes(tx, i)
    OBVIOUS
  <1> HIDE DEF budgets, p1, p2, p3, p4, p5, p6, p7, p8, p9
  <1> QED
    BY <1>1, <1>2, <1>3, <1>4, <1>5, <1>6, <1>7, <1>8, <1>9, <1>10, <1>11

\* What no finding of an error means.
LEMMA NothingFound ==
    ASSUME NEW r \in Submissions, NEW tx, Findings(r, tx) \cap ErrorCodes = {}
    PROVE  /\ Len(r.inputs) <= IoCap /\ Len(r.outputs) <= IoCap
           /\ OutputsOk(tx) /\ (Buildable(tx) => ~Overflows(tx))
           /\ \A i \in Executable(tx) : Passes(tx, i)
           /\ tx.version = 0 => \A i \in DOMAIN tx.inputs : ~(tx.inputs[i].sigops > WireMax)
  <1>1. \A code \in ErrorCodes : code \notin Findings(r, tx)
    OBVIOUS
  <1>2. Len(r.inputs) \in Nat /\ Len(r.outputs) \in Nat /\ IoCap \in Nat
    BY RequestShape, PreflightAssumption
  <1>3. ~(Len(r.inputs) > IoCap \/ Len(r.outputs) > IoCap)
    BY <1>1, FindingsAre DEF ErrorCodes
  <1>4. OutputsOk(tx) /\ (Buildable(tx) => ~Overflows(tx))
    BY <1>1, FindingsAre DEF ErrorCodes
  <1>5. \A i \in Executable(tx) : Passes(tx, i)
    BY <1>1, FindingsAre DEF ErrorCodes
  <1>6. ASSUME tx.version = 0, NEW i \in DOMAIN tx.inputs, tx.inputs[i].sigops > WireMax PROVE FALSE
    <2>1. "sigop_overflow" \in BudgetFindings(tx, i)
      BY <1>6 DEF BudgetFindings
    <2>2. "sigop_overflow" \in Findings(r, tx)
      BY <2>1 DEF Findings
    <2> QED
      BY <1>1, <2>2 DEF ErrorCodes
  <1> QED
    BY <1>2, <1>3, <1>4, <1>5, <1>6

\* "ready" is only said of what a node takes.
LEMMA ReadyIsTaken ==
    ASSUME NEW r \in Submissions, VerdictOf(r, Parsed(r)) = "ready", TellsAll(r)
    PROVE  NodeTakes(r)
  <1> DEFINE tx == Parsed(r)
             n == Len(r.inputs)
  <1>1. Findings(r, tx) \cap ErrorCodes = {} /\ Buildable(tx) /\ ~OverLimit(tx)
    BY DEF VerdictOf
  <1>2. Whole(r, tx)
    BY <1>1, NothingFound, ParsedWhole
  <1>3. /\ n \in Nat /\ r.inputs \in [1..n -> InputShapes] /\ DOMAIN tx.inputs = 1..n /\ tx.outputs = r.outputs
        /\ Len(r.outputs) \in Nat /\ r.outputs \in [1..Len(r.outputs) -> OutputShapes]
        /\ DOMAIN r.outputs = 1..Len(r.outputs) /\ Len(tx.inputs) = n
    BY <1>2, RequestShape DEF Whole
  <1> HIDE DEF tx, n
  <1>4. /\ tx.version \in {0, 1} /\ tx.inputs # <<>> /\ tx.outputs # <<>>
        /\ tx.version = 1 => BudgetsExpressible(tx)
    BY <1>1 DEF Buildable
  <1>5. n \in 1..IoCap /\ Len(r.outputs) \in 1..IoCap
    <2>1. n <= IoCap /\ Len(r.outputs) <= IoCap /\ IoCap \in Nat
      BY <1>1, NothingFound, PreflightAssumption DEF n
    <2>2. n # 0
      BY <1>2, <1>4 DEF Whole, n
    <2>3. Len(r.outputs) # 0
      BY <1>3, <1>4
    <2> QED
      BY <1>3, <2>1, <2>2, <2>3
  <1>6. Executable(tx) = 1..n /\ Populated(tx) /\ AmountsKnown(tx)
    BY <1>2, <1>5, AllExecuted DEF n
  <1>7. \A i \in 1..Len(r.outputs) : r.outputs[i].value > 0 /\ r.outputs[i].spk = "given"
    BY <1>1, <1>3, NothingFound DEF OutputsOk
  <1>8. ASSUME NEW i \in 1..n
        PROVE  /\ WireCommit(r, i) <= WireMax
               /\ r.inputs[i].valid = "yes" /\ r.inputs[i].units <= Allowance(WireCommit(r, i))
               /\ r.inputs[i].amount > 0
    <2>1. r.inputs[i] \in InputShapes /\ tx.inputs[i] = [r.inputs[i] EXCEPT !.budget = ReadBudget(r.inputs[i])]
      BY <1>2, <1>3 DEF Whole, n
    <2>2. /\ tx.inputs[i].budget = ReadBudget(r.inputs[i]) /\ tx.inputs[i].sigops = r.inputs[i].sigops
          /\ tx.inputs[i].valid = r.inputs[i].valid /\ tx.inputs[i].units = r.inputs[i].units
          /\ Given(ReadBudget(r.inputs[i]), 0) = OnWire(r.inputs[i]) /\ r.inputs[i].sigops \in Fields
          /\ tx.inputs[i].amount = r.inputs[i].amount
      BY <2>1, ReadInput
    <2>3. tx.version = Given(r.version, 1) /\ WireMax \in Nat \ {0}
      BY <1>2, PreflightAssumption DEF Whole
    <2>4. WireCommit(r, i) <= WireMax
      <3>1. CASE tx.version = 1
        <4>1. tx.inputs[i].budget \in 0..WireMax
          BY <1>3, <1>4, <3>1 DEF BudgetsExpressible
        <4>2. WireCommit(r, i) = tx.inputs[i].budget
          BY <2>2, <2>3, <3>1, <4>1 DEF WireCommit, Given, NotGiven
        <4> QED
          BY <4>1, <4>2
      <3>2. CASE tx.version = 0
        <4>1. ~(tx.inputs[i].sigops > WireMax)
          BY <1>1, <1>3, <3>2, NothingFound
        <4>2. WireCommit(r, i) = Given(r.inputs[i].sigops, 1)
          BY <2>3, <3>2 DEF WireCommit
        <4> QED
          BY <2>2, <2>3, <4>1, <4>2 DEF Given, Fields, NotGiven
      <3> QED
        BY <1>4, <3>1, <3>2
    <2>5. Committed(tx.version, tx.inputs[i]) = WireCommit(r, i)
      BY <1>2, <1>4, <2>4, SameCommitment DEF n
    <2>6. RunsInTx(tx.version, tx.inputs[i])
      BY <1>1, <1>6, NothingFound DEF Passes
    <2>7. r.inputs[i].amount > 0
      BY <1>3, <1>6, <2>2 DEF AmountsKnown
    <2> QED
      BY <2>2, <2>4, <2>5, <2>6, <2>7 DEF RunsInTx
  <1>9. NodeMass(r) <= ComputeLimit /\ TransientPer * Size(r) <= TransientLimit
    <2>1. ComputeMass(tx) = NodeMass(r) /\ TransientMass(tx) = TransientPer * Size(r)
      BY <1>2, <1>4, <1>8, SameSizes DEF n
    <2>2. NodeMass(r) \in Int /\ TransientPer * Size(r) \in Int
      BY SizeIsWhole DEF NodeMass
    <2>3. ComputeLimit \in Nat /\ TransientLimit \in Nat
      BY PreflightAssumption
    <2>4. ~(ComputeMass(tx) > ComputeLimit) /\ ~(TransientMass(tx) > TransientLimit)
      BY <1>1 DEF OverLimit
    <2> QED
      BY <2>1, <2>2, <2>3, <2>4
  <1>10. OutputShares(r) <= MassMax /\ OutputShares(r) <= StorageLimit + InputShares(r)
    <2>1. /\ StorageMass(tx) \in Int
          /\ StorageMass(tx) <= StorageLimit <=> OutputShares(r) <= StorageLimit + InputShares(r)
          /\ StorageComputable(tx) <=> OutputShares(r) <= MassMax
      BY <1>2, <1>7, <1>8, SameStorageMass DEF n
    <2>2. StorageAsked(tx)
      BY <1>1, <1>6, NothingFound DEF StorageAsked
    <2>3. StorageComputable(tx) /\ ~(StorageMass(tx) > StorageLimit)
      BY <1>1, <2>2, NothingFound DEF OverLimit, Overflows
    <2>4. StorageLimit \in Nat
      BY PreflightAssumption
    <2> QED
      BY <2>1, <2>3, <2>4
  <1> QED
    BY <1>5, <1>7, <1>8, <1>9, <1>10, NodeTerms DEF n

\* "will_fail" is only said of what a node refuses.
LEMMA TakenIsClear ==
    ASSUME NEW r \in Submissions, NodeTakes(r), TellsAll(r), StatesBudgets(r), Standalone(r), r.version <= 1
    PROVE  Findings(r, Parsed(r)) \cap ErrorCodes = {}
  <1> DEFINE tx == Parsed(r)
             n == Len(r.inputs)
  <1>1. /\ n \in 1..IoCap /\ Len(r.outputs) \in 1..IoCap
        /\ \A i \in 1..Len(r.outputs) : r.outputs[i].value > 0 /\ r.outputs[i].spk = "given"
        /\ \A i \in 1..n : /\ WireCommit(r, i) <= WireMax
                           /\ r.inputs[i].valid = "yes" /\ r.inputs[i].units <= Allowance(WireCommit(r, i))
        /\ NodeMass(r) <= ComputeLimit /\ TransientPer * Size(r) <= TransientLimit
        /\ OutputShares(r) <= MassMax /\ OutputShares(r) <= StorageLimit + InputShares(r)
    BY NodeTerms
  <1>2. /\ n \in Nat /\ n > 0 /\ n <= IoCap /\ Len(r.outputs) \in Nat /\ Len(r.outputs) > 0 /\ Len(r.outputs) <= IoCap
        /\ IoCap \in Nat
    BY <1>1, PreflightAssumption
  <1>3. Whole(r, tx)
    BY <1>2, ParsedWhole
  <1>4. /\ r.inputs \in [1..n -> InputShapes] /\ DOMAIN tx.inputs = 1..n /\ tx.outputs = r.outputs
        /\ r.outputs \in [1..Len(r.outputs) -> OutputShapes] /\ DOMAIN r.outputs = 1..Len(r.outputs)
        /\ DOMAIN r.inputs = 1..n /\ tx.version = Given(r.version, 1)
    BY <1>3, RequestShape DEF Whole
  <1>5. tx.version \in {0, 1} /\ ~(tx.version > 1) /\ (tx.version = 1 <=> Given(r.version, 1) = 1)
    BY <1>4, RequestShape DEF Given, Fields, NotGiven
  <1> HIDE DEF tx, n
  <1>6. Executable(tx) = 1..n /\ Populated(tx) /\ AmountsKnown(tx)
    BY <1>2, <1>3, AllExecuted DEF n
  <1>7. OutputsOk(tx)
    BY <1>1, <1>4 DEF OutputsOk
  <1>8. ASSUME NEW i \in 1..n
        PROVE  /\ Committed(tx.version, tx.inputs[i]) = WireCommit(r, i) /\ RunsInTx(tx.version, tx.inputs[i])
               /\ tx.version = 1 => tx.inputs[i].budget \in 0..WireMax /\ tx.inputs[i].budget # NotGiven
               /\ BudgetFindings(tx, i) \cap ErrorCodes = {}
               /\ r.inputs[i].amount > 0
    <2> DEFINE in == r.inputs[i]
               read == tx.inputs[i]
    <2>1. in \in InputShapes /\ read = [in EXCEPT !.budget = ReadBudget(in)]
      BY <1>3, <1>4 DEF Whole, n
    <2>2. /\ read.budget = ReadBudget(in) /\ read.sigops = in.sigops /\ read.valid = in.valid
          /\ read.units = in.units /\ read.alone = in.alone /\ ReadBudget(in) \in Fields /\ in.sigops \in Fields
          /\ Given(ReadBudget(in), 0) = OnWire(in) /\ in.units \in Nat
      BY <2>1, ReadInput
    <2>3. WireMax \in Nat \ {0} /\ UnitsPer \in Nat /\ FreeUnits \in Nat
      BY PreflightAssumption
    <2>4. Committed(tx.version, read) = WireCommit(r, i)
      BY <1>1, <1>3, <1>5, SameCommitment DEF n
    <2>5. RunsInTx(tx.version, read)
      BY <1>1, <2>2, <2>4 DEF RunsInTx
    <2>6. ASSUME tx.version = 1
          PROVE  /\ read.budget \in 0..WireMax /\ read.budget # NotGiven /\ WireCommit(r, i) = read.budget
      <3>1. ReadBudget(in) # NotGiven
        BY <1>4, <1>5, <2>6 DEF StatesBudgets
      <3>2. WireCommit(r, i) = ReadBudget(in)
        BY <1>5, <2>2, <2>6, <3>1 DEF WireCommit, Given
      <3>3. ReadBudget(in) \in Nat
        BY <2>2, <3>1 DEF Fields
      <3> QED
        BY <1>1, <2>2, <2>3, <3>1, <3>2, <3>3
    <2>7. ASSUME tx.version = 0 PROVE ~(read.sigops > WireMax)
      <3>1. WireCommit(r, i) = Given(in.sigops, 1) /\ WireCommit(r, i) <= WireMax
        BY <1>1, <1>5, <2>7 DEF WireCommit
      <3>2. CASE in.sigops = NotGiven
        BY <2>2, <2>3, <3>2 DEF NotGiven
      <3>3. CASE in.sigops # NotGiven
        <4>1. in.sigops \in Nat /\ in.sigops <= WireMax
          BY <2>2, <3>1, <3>3 DEF Fields, Given
        <4> QED
          BY <2>2, <2>3, <4>1
      <3> QED
        BY <3>2, <3>3
    <2>8. ASSUME tx.version = 1, read.budget = 0
          PROVE  i \in Executable(tx) /\ RunsAlone(read, WireMax) /\ read.units <= FreeUnits
      <3>1. WireCommit(r, i) = 0
        BY <2>6, <2>8
      <3>2. in.units <= FreeUnits
        BY <1>1, <2>3, <3>1 DEF Allowance
      <3>3. in.alone = "yes"
        BY <1>1, <1>4 DEF Standalone
      <3>4. Clamp(WireMax) = WireMax
        BY <2>3 DEF Clamp
      <3>5. WireMax * UnitsPer \in Nat
        BY <2>3
      <3>6. in.units <= WireMax * UnitsPer + FreeUnits
        BY <2>2, <2>3, <3>2, <3>5
      <3> QED
        BY <1>6, <2>2, <3>2, <3>3, <3>4, <3>6 DEF RunsAlone, Allowance
    <2>9. BudgetFindings(tx, i) \cap ErrorCodes = {}
      <3>1. CASE tx.version = 0
        <4>1. BudgetFindings(tx, i) \subseteq {"budget_on_v0"}
          BY <2>7, <3>1 DEF BudgetFindings
        <4>2. "budget_on_v0" \notin ErrorCodes
          BY DEF ErrorCodes
        <4> QED
          BY <4>1, <4>2
      <3>2. CASE tx.version = 1
        <4>1. read.budget \in Nat /\ ~(read.budget > WireMax) /\ read.budget # NotGiven
          BY <2>3, <2>6, <3>2
        <4>2. read.budget <= 0 => read.budget = 0
          BY <4>1
        <4>3. ~(read.budget <= 0 /\ ~(i \in Executable(tx) /\ RunsAlone(read, WireMax) /\ read.units <= FreeUnits))
          BY <2>8, <3>2, <4>2
        <4>4. BudgetFindings(tx, i) = {}
          BY <3>2, <4>1, <4>3 DEF BudgetFindings
        <4> QED
          BY <4>4
      <3> QED
        BY <1>5, <3>1, <3>2
    <2>10. in.amount > 0
      BY <1>4 DEF TellsAll
    <2> QED
      BY <2>4, <2>5, <2>6, <2>9, <2>10
  <1>9. Buildable(tx) /\ tx.inputs # <<>> /\ tx.outputs # <<>>
    <2>1. tx.inputs # <<>>
      BY <1>2, <1>4
    <2>2. tx.outputs # <<>>
      BY <1>2, <1>4
    <2>3. tx.version = 0 \/ BudgetsExpressible(tx)
      BY <1>4, <1>5, <1>8 DEF BudgetsExpressible
    <2> QED
      BY <1>5, <2>1, <2>2, <2>3 DEF Buildable
  <1>10. ~OverLimit(tx) /\ ~Overflows(tx)
    <2>1. ComputeMass(tx) = NodeMass(r) /\ TransientMass(tx) = TransientPer * Size(r)
      BY <1>1, <1>3, <1>5, SameSizes DEF n
    <2>2. {ComputeLimit, TransientLimit, StorageLimit} \subseteq Nat
      BY PreflightAssumption
    <2>3. NodeMass(r) \in Int /\ TransientPer * Size(r) \in Int
      BY SizeIsWhole DEF NodeMass
    <2>4. StorageMass(tx) \in Int /\ StorageMass(tx) <= StorageLimit /\ StorageComputable(tx)
      BY <1>1, <1>3, <1>8, SameStorageMass DEF n
    <2>5. ~OverLimit(tx)
      BY <1>1, <2>1, <2>2, <2>3, <2>4 DEF OverLimit
    <2> QED
      BY <2>4, <2>5 DEF Overflows
  <1>11. \A i \in Executable(tx) : Passes(tx, i)
    BY <1>6, <1>8, <1>9 DEF Passes
  <1>12. \A i \in DOMAIN tx.inputs : BudgetFindings(tx, i) \cap ErrorCodes = {}
    BY <1>4, <1>8
  <1>13. ~(Len(r.inputs) > IoCap \/ Len(r.outputs) > IoCap)
    BY <1>2 DEF n
  <1> SUFFICES ASSUME NEW code \in Findings(r, tx) PROVE code \notin ErrorCodes
    BY DEF tx
  <1>14. /\ "version_missing" \notin ErrorCodes /\ "version_unknown" \notin ErrorCodes
    BY DEF ErrorCodes
  <1> QED
    BY <1>7, <1>9, <1>10, <1>11, <1>12, <1>13, <1>14, FindingsAre

-----------------------------------------------------------------------------
(* The theorem *)

\* What was answered is the verdict on what was submitted.
Answered ==
    /\ submitted \in Submissions
    /\ report = NoReport \/ report.verdict = VerdictOf(submitted, Parsed(submitted))

LEMMA AnswersHold == Answered => VerdictsHold
  <1> SUFFICES ASSUME Answered PROVE VerdictsHold
    OBVIOUS
  <1>1. CASE report = NoReport
    BY <1>1 DEF NoReport, VerdictsHold
  <1>2. CASE report # NoReport
    <2> DEFINE r == submitted
    <2>1. r \in Submissions /\ report.verdict = VerdictOf(r, Parsed(r))
      BY <1>2 DEF Answered
    <2>2. report.verdict = "ready" /\ TellsAll(r) => NodeTakes(r)
      BY <2>1, ReadyIsTaken
    <2>3. VerdictOf(r, Parsed(r)) = "will_fail" => Findings(r, Parsed(r)) \cap ErrorCodes # {}
      BY DEF VerdictOf
    <2>4. report.verdict = "will_fail" /\ TellsAll(r) /\ StatesBudgets(r) /\ Standalone(r) /\ r.version <= 1 => ~NodeTakes(r)
      BY <2>1, <2>3, TakenIsClear
    <2> QED
      BY <2>1, <2>2, <2>4 DEF VerdictsHold
  <1> QED
    BY <1>1, <1>2

\* What the preflight says of a request that tells everything is what a node does
\* with it (preflight.rs run, build_tx), for any shapes, counts, budgets, masses
\* and limits.
THEOREM VerdictsAreSound == PreflightSpec => []VerdictsHold
  <1>1. PreflightInit => Answered
    BY DEF PreflightInit, Answered
  <1>2. Answered /\ [PreflightNext]_pfvars => Answered'
    BY DEF Answered, PreflightNext, Answer, pfvars
  <1> QED
    BY <1>1, <1>2, AnswersHold, PTL DEF PreflightSpec

-----------------------------------------------------------------------------
(* Pages: any lists, rows, keys, limits and writes between two pages *)
(* Keys *)

Width(kind) == IF kind = "trades" THEN 3 ELSE IF kind \in {"grid", "directory", "holders"} THEN 2 ELSE 1
Keys(kind) == [1..Width(kind) -> Int]

\* Tuples of numbers under the lexicographic order are strictly ordered.
LEMMA LexFollows ==
    ASSUME NEW w \in Nat, NEW a \in [1..w -> Int], NEW b \in [1..w -> Int], NEW c \in [1..w -> Int],
           Lex(a, b), Lex(b, c)
    PROVE  Lex(a, c)
  <1>1. PICK n \in 1..w : a[n] < b[n] /\ \A m \in 1..(n - 1) : a[m] = b[m]
    BY DEF Lex
  <1>2. PICK k \in 1..w : b[k] < c[k] /\ \A m \in 1..(k - 1) : b[m] = c[m]
    BY DEF Lex
  <1>3. CASE n <= k
    <2>1. b[n] <= c[n]
      <3>1. CASE n = k
        BY <1>2, <3>1
      <3>2. CASE n < k
        BY <1>2, <3>2
      <3> QED
        BY <1>3, <3>1, <3>2
    <2>2. a[n] < c[n]
      BY <1>1, <2>1
    <2>3. \A m \in 1..(n - 1) : a[m] = c[m]
      BY <1>1, <1>2, <1>3
    <2> QED
      BY <2>2, <2>3 DEF Lex
  <1>4. CASE k < n
    <2>1. a[k] < c[k] /\ \A m \in 1..(k - 1) : a[m] = c[m]
      BY <1>1, <1>2, <1>4
    <2> QED
      BY <2>1 DEF Lex
  <1> QED
    BY <1>3, <1>4

LEMMA LexDecides ==
    ASSUME NEW w \in Nat, NEW a \in [1..w -> Int], NEW b \in [1..w -> Int], a # b
    PROVE  Lex(a, b) \/ Lex(b, a)
  <1> DEFINE T == {n \in 1..w : a[n] # b[n]}
  <1>1. T \in SUBSET Nat /\ T # {}
    OBVIOUS
  <1>2. PICK n \in T : \A m \in T : n <= m
    <2> HIDE DEF T
    <2> QED
      BY <1>1, SmallestOf
  <1>3. \A m \in 1..(n - 1) : a[m] = b[m]
    BY <1>2
  <1>4. a[n] < b[n] \/ b[n] < a[n]
    BY <1>2
  <1> QED
    BY <1>2, <1>3, <1>4 DEF Lex

LEMMA NeverItself == ASSUME NEW w \in Nat, NEW a \in [1..w -> Int] PROVE ~Lex(a, a)
  BY DEF Lex

\* Every row has a key, and no two rows share one.
LEMMA KeyOfRow ==
    ASSUME NEW kind \in AllKinds, NEW i \in RowIds, NEW p \in Places
    PROVE  SortKey(kind, i, p) \in Keys(kind)
  <1>1. i \in Int /\ p \in Int /\ TokenOf[i] \in Int /\ -p \in Int /\ -i \in Int /\ -TokenOf[i] \in Int
    BY PagingAssumption
  <1>2. CASE kind \in {"grid", "directory", "holders"}
    <2>1. SortKey(kind, i, p) = <<-p, -i>> \/ SortKey(kind, i, p) = <<-p, i>>
      BY <1>2 DEF SortKey, GridKey, DirectoryKey, HoldersKey
    <2>2. Keys(kind) = [1..2 -> Int]
      BY <1>2 DEF Keys, Width
    <2>3. <<-p, -i>> \in [1..2 -> Int] /\ <<-p, i>> \in [1..2 -> Int]
      BY <1>1
    <2> QED
      BY <2>1, <2>2, <2>3
  <1>3. CASE kind = "trades"
    BY <1>1, <1>3 DEF SortKey, Keys, Width, GlobalTradesKey
  <1>4. CASE kind \in {"tokenTrades", "eventsUp", "eventsDown", "outputs", "failures", "markets"}
    BY <1>1, <1>4 DEF SortKey, Keys, Width, TokenTradesKey, EventsKey, OutputsKey, FailuresKey, MarketsKey
  <1> QED
    BY <1>2, <1>3, <1>4 DEF AllKinds

LEMMA KeysDiffer ==
    ASSUME NEW kind \in AllKinds, NEW i \in RowIds, NEW j \in RowIds, i # j, NEW p \in Places, NEW q \in Places
    PROVE  SortKey(kind, i, p) # SortKey(kind, j, q)
  <1>1. /\ i \in Int /\ j \in Int
        /\ -i # -j
    BY PagingAssumption
  <1>2. CASE kind \in {"grid", "directory", "holders"}
    BY <1>1, <1>2 DEF SortKey, GridKey, DirectoryKey, HoldersKey
  <1>3. CASE kind = "trades"
    BY <1>1, <1>3 DEF SortKey, GlobalTradesKey
  <1>4. CASE kind \in {"tokenTrades", "eventsUp", "eventsDown", "outputs", "failures", "markets"}
    BY <1>1, <1>4 DEF SortKey, TokenTradesKey, EventsKey, OutputsKey, FailuresKey, MarketsKey
  <1> QED
    BY <1>2, <1>3, <1>4 DEF AllKinds

-----------------------------------------------------------------------------
(* The inductive invariant *)

PageTypes ==
    /\ pageWalk.kind \in AllKinds /\ pageWalk.limit \in 1..MaxLimit
    /\ pageWalk.cursor = NoCursor \/ pageWalk.cursor \in Keys(pageWalk.kind)
    /\ DOMAIN list \subseteq RowIds /\ \A i \in DOMAIN list : list[i] \in Places
    /\ stable \subseteq DOMAIN list
    /\ pages \in [RowIds \X {1, 2} -> Nat]

\* Of the rows left alone, those up to the cursor came once and the others not yet.
ServedOnce ==
    \A i \in stable : \A n \in Parts(pageWalk.kind, i) :
        pages[<<i, n>>] = IF pageWalk.phase = "walking" /\ PastCursor(pageWalk.cursor, KeyOf(i)) THEN 0 ELSE 1

PageInv == PageTypes /\ ServedOnce

LEMMA RowKeys ==
    ASSUME PageTypes
    PROVE  /\ Width(pageWalk.kind) \in Nat \ {0}
           /\ \A i \in DOMAIN list : KeyOf(i) \in Keys(pageWalk.kind)
           /\ \A i \in DOMAIN list : \A j \in DOMAIN list : i # j => KeyOf(i) # KeyOf(j)
  <1>1. Width(pageWalk.kind) \in Nat \ {0}
    BY DEF Width
  <1>2. \A i \in DOMAIN list : i \in RowIds /\ list[i] \in Places
    BY DEF PageTypes
  <1> QED
    BY <1>1, <1>2, KeyOfRow, KeysDiffer DEF PageTypes, KeyOf

Earlier(i) == {j \in PastRows : Lex(KeyOf(j), KeyOf(i))}

LEMMA EarlierIsFinite ==
    ASSUME PageTypes, NEW i
    PROVE  /\ IsFiniteSet(PastRows) /\ IsFiniteSet(Earlier(i)) /\ Cardinality(Earlier(i)) \in Nat
  <1>1. PastRows \subseteq RowIds /\ Earlier(i) \subseteq RowIds
    BY DEF PageTypes, PastRows, Earlier
  <1> QED
    BY <1>1, PagingAssumption, FS_Subset, FS_CardinalityType

\* A row comes after more rows than any row before it.
LEMMA RanksGrow ==
    ASSUME PageTypes, NEW i \in PastRows, NEW j \in PastRows, Lex(KeyOf(i), KeyOf(j))
    PROVE  Cardinality(Earlier(i)) < Cardinality(Earlier(j))
  <1>1. i \in DOMAIN list /\ j \in DOMAIN list
    BY DEF PastRows
  <1>2. Earlier(i) \subseteq Earlier(j)
    <2> SUFFICES ASSUME NEW k \in Earlier(i) PROVE k \in Earlier(j)
      OBVIOUS
    <2>1. k \in PastRows /\ k \in DOMAIN list /\ Lex(KeyOf(k), KeyOf(i))
      BY DEF Earlier, PastRows
    <2>2. Lex(KeyOf(k), KeyOf(j))
      BY <1>1, <2>1, RowKeys, LexFollows DEF Keys
    <2> QED
      BY <2>1, <2>2 DEF Earlier
  <1>3. i \in Earlier(j) /\ i \notin Earlier(i)
    BY <1>1, RowKeys, NeverItself DEF Earlier, Keys
  <1>4. Earlier(i) # Earlier(j)
    BY <1>3
  <1>5. IsFiniteSet(Earlier(j)) /\ Cardinality(Earlier(i)) \in Nat /\ Cardinality(Earlier(j)) \in Nat
    BY EarlierIsFinite
  <1> QED
    BY <1>2, <1>4, <1>5, FS_Subset

\* A page that is not full holds everything there is.
LEMMA ShortIsAll ==
    ASSUME PageTypes, NEW n \in Nat, Cardinality(FirstRows(n + 1)) <= n
    PROVE  FirstRows(n + 1) = PastRows
  <1> DEFINE F == FirstRows(n + 1)
             T == {Cardinality(Earlier(k)) : k \in PastRows \ F}
  <1>1. F \subseteq PastRows
    BY DEF FirstRows
  <1> SUFFICES ASSUME PastRows \ F # {} PROVE FALSE
    BY <1>1
  <1>2. T \in SUBSET Nat /\ T # {}
    BY EarlierIsFinite
  <1>3. PICK r \in T : \A x \in T : r <= x
    <2> HIDE DEF T
    <2> QED
      BY <1>2, SmallestOf
  <1>4. PICK k \in PastRows \ F : r = Cardinality(Earlier(k))
    BY <1>3
  <1>5. Earlier(k) \subseteq F
    <2> SUFFICES ASSUME NEW j \in Earlier(k), j \notin F PROVE FALSE
      OBVIOUS
    <2>1. j \in PastRows /\ Lex(KeyOf(j), KeyOf(k))
      BY DEF Earlier
    <2>2. Cardinality(Earlier(j)) < Cardinality(Earlier(k))
      BY <2>1, <1>4, RanksGrow
    <2>3. Cardinality(Earlier(k)) <= Cardinality(Earlier(j))
      BY <1>3, <1>4, <2>1
    <2>4. Cardinality(Earlier(j)) \in Nat /\ Cardinality(Earlier(k)) \in Nat
      BY EarlierIsFinite
    <2> QED
      BY <2>2, <2>3, <2>4
  <1>6. IsFiniteSet(F)
    BY <1>1, EarlierIsFinite, FS_Subset
  <1>7. Cardinality(Earlier(k)) <= Cardinality(F) /\ Cardinality(F) \in Nat
    BY <1>5, <1>6, FS_Subset, FS_CardinalityType
  <1>8. ~(Cardinality(Earlier(k)) < n + 1)
    BY <1>4 DEF FirstRows, Earlier
  <1>9. Cardinality(Earlier(k)) \in Nat
    BY EarlierIsFinite
  <1> QED
    BY <1>7, <1>8, <1>9

-----------------------------------------------------------------------------
(* The steps *)

LEMMA PagingStarts == PagingInit => PageInv
  <1> SUFFICES ASSUME PagingInit PROVE PageInv
    OBVIOUS
  <1>1. DOMAIN list \subseteq RowIds /\ \A i \in DOMAIN list : list[i] \in Places
    BY DEF PagingInit
  <1>2. PICK k \in Walked, limit \in 1..MaxLimit : pageWalk = Walk(k, limit, NoCursor, "walking", 0)
    BY DEF PagingInit
  <1>3. PageTypes
    BY <1>1, <1>2, PagingAssumption DEF PagingInit, PageTypes, Walk
  <1>4. \A i \in RowIds : \A n \in Parts(pageWalk.kind, i) : pages[<<i, n>>] = 0
    BY DEF PagingInit, Parts
  <1>5. ServedOnce
    BY <1>1, <1>2, <1>4 DEF ServedOnce, Walk, PastCursor, PagingInit
  <1> QED
    BY <1>3, <1>5 DEF PageInv

\* What a page adds.
LEMMA PageAdds ==
    ASSUME PageTypes, NEW page \in SUBSET PastRows,
           pages' = [x \in DOMAIN pages |->
                       IF x[1] \in page /\ x[2] \in Parts(pageWalk.kind, x[1]) THEN pages[x] + 1 ELSE pages[x]]
    PROVE  /\ pages' \in [RowIds \X {1, 2} -> Nat]
           /\ \A i \in RowIds : \A n \in Parts(pageWalk.kind, i) :
                 pages'[<<i, n>>] = IF i \in page THEN pages[<<i, n>>] + 1 ELSE pages[<<i, n>>]
  <1>1. pages' \in [RowIds \X {1, 2} -> Nat]
    BY DEF PageTypes
  <1>2. \A i \in RowIds : \A n \in Parts(pageWalk.kind, i) : <<i, n>> \in DOMAIN pages
    BY DEF PageTypes, Parts
  <1> QED
    BY <1>1, <1>2

LEMMA FullPageKeeps ==
    ASSUME PageInv, pageWalk.phase = "walking",
           NEW last \in FirstRows(pageWalk.limit),
           \A i \in FirstRows(pageWalk.limit) : ~Lex(KeyOf(last), KeyOf(i)),
           pageWalk' = Walk(pageWalk.kind, pageWalk.limit, KeyOf(last), "walking", pageWalk.writes),
           pages' = [x \in DOMAIN pages |->
                       IF x[1] \in FirstRows(pageWalk.limit) /\ x[2] \in Parts(pageWalk.kind, x[1])
                       THEN pages[x] + 1 ELSE pages[x]],
           UNCHANGED <<list, stable>>
    PROVE  PageInv'
  <1> DEFINE page == FirstRows(pageWalk.limit)
  <1>0. PageTypes /\ page \subseteq PastRows /\ PastRows \subseteq DOMAIN list /\ last \in page
    BY DEF PageInv, FirstRows, PastRows
  <1>1. pages' \in [RowIds \X {1, 2} -> Nat]
    BY <1>0, PageAdds
  <1>2. /\ pageWalk'.kind = pageWalk.kind /\ pageWalk'.limit = pageWalk.limit
        /\ pageWalk'.cursor = KeyOf(last) /\ pageWalk'.phase = "walking"
    BY DEF Walk
  <1>3. PageTypes'
    BY <1>0, <1>1, <1>2, RowKeys DEF PageTypes
  <1>4. KeyOf(last) # NoCursor
    BY <1>0, RowKeys DEF Keys, NoCursor
  <1>5. ASSUME NEW i \in stable, NEW n \in Parts(pageWalk.kind, i)
        PROVE  pages'[<<i, n>>] = IF Lex(KeyOf(last), KeyOf(i)) THEN 0 ELSE 1
    <2>1. i \in DOMAIN list /\ i \in RowIds
      BY <1>0 DEF PageTypes
    <2>2. pages'[<<i, n>>] = IF i \in page THEN pages[<<i, n>>] + 1 ELSE pages[<<i, n>>]
      BY <1>0, <2>1, PageAdds
    <2>3. pages[<<i, n>>] = IF i \in PastRows THEN 0 ELSE 1
      BY <2>1 DEF PageInv, ServedOnce, PastRows
    <2>4. CASE i \in page
      BY <1>0, <2>2, <2>3, <2>4
    <2>5. CASE i \in PastRows \ page
      <3>1. i # last
        BY <1>0, <2>5
      <3>2. Lex(KeyOf(last), KeyOf(i)) \/ Lex(KeyOf(i), KeyOf(last))
        BY <1>0, <2>1, <3>1, RowKeys, LexDecides DEF Keys
      <3>3. ASSUME Lex(KeyOf(i), KeyOf(last)) PROVE FALSE
        <4>1. Cardinality(Earlier(i)) < Cardinality(Earlier(last))
          BY <1>0, <2>5, <3>3, RanksGrow
        <4>2. Cardinality(Earlier(last)) < pageWalk.limit /\ ~(Cardinality(Earlier(i)) < pageWalk.limit)
          BY <1>0, <2>5 DEF FirstRows, Earlier
        <4>3. Cardinality(Earlier(i)) \in Nat /\ Cardinality(Earlier(last)) \in Nat /\ pageWalk.limit \in Nat
          BY <1>0, EarlierIsFinite, PagingAssumption DEF PageTypes
        <4> QED
          BY <4>1, <4>2, <4>3
      <3> QED
        BY <2>2, <2>3, <2>5, <3>2, <3>3
    <2>6. CASE i \notin PastRows
      <3>1. pageWalk.cursor # NoCursor /\ ~Lex(pageWalk.cursor, KeyOf(i)) /\ Lex(pageWalk.cursor, KeyOf(last))
        BY <1>0, <2>1, <2>6 DEF PastRows, PastCursor
      <3>2. pageWalk.cursor \in Keys(pageWalk.kind)
        BY <1>0, <3>1 DEF PageTypes
      <3>3. ~Lex(KeyOf(last), KeyOf(i))
        BY <1>0, <2>1, <3>1, <3>2, RowKeys, LexFollows DEF Keys
      <3> QED
        BY <1>0, <2>2, <2>3, <2>6, <3>3
    <2> QED
      BY <2>4, <2>5, <2>6
  <1>6. ASSUME NEW i \in stable', NEW n \in Parts(pageWalk'.kind, i)
        PROVE  pages'[<<i, n>>] =
                 IF pageWalk'.phase = "walking" /\ PastCursor(pageWalk'.cursor, KeyOf(i)') THEN 0 ELSE 1
    <2>1. KeyOf(i)' = KeyOf(i) /\ i \in stable /\ n \in Parts(pageWalk.kind, i)
      BY <1>2, <1>6 DEF KeyOf
    <2>2. PastCursor(pageWalk'.cursor, KeyOf(i)') <=> Lex(KeyOf(last), KeyOf(i))
      BY <1>2, <1>4, <2>1 DEF PastCursor
    <2> QED
      BY <1>2, <1>5, <2>1, <2>2
  <1>7. ServedOnce'
    BY <1>6 DEF ServedOnce
  <1> QED
    BY <1>3, <1>7 DEF PageInv

LEMMA LastPageKeeps ==
    ASSUME PageInv, pageWalk.phase = "walking",
           pageWalk' = Walk(pageWalk.kind, pageWalk.limit, pageWalk.cursor, "done", pageWalk.writes),
           pages' = [x \in DOMAIN pages |->
                       IF x[1] \in PastRows /\ x[2] \in Parts(pageWalk.kind, x[1]) THEN pages[x] + 1 ELSE pages[x]],
           UNCHANGED <<list, stable>>
    PROVE  PageInv'
  <1>0. PageTypes
    BY DEF PageInv
  <1>1. pages' \in [RowIds \X {1, 2} -> Nat]
    BY <1>0, PageAdds
  <1>2. /\ pageWalk'.kind = pageWalk.kind /\ pageWalk'.limit = pageWalk.limit
        /\ pageWalk'.cursor = pageWalk.cursor /\ pageWalk'.phase = "done"
    BY DEF Walk
  <1>3. PageTypes'
    BY <1>0, <1>1, <1>2 DEF PageTypes
  <1>4. ASSUME NEW i \in stable, NEW n \in Parts(pageWalk.kind, i) PROVE pages'[<<i, n>>] = 1
    <2>1. i \in DOMAIN list /\ i \in RowIds
      BY <1>0 DEF PageTypes
    <2>2. pages'[<<i, n>>] = IF i \in PastRows THEN pages[<<i, n>>] + 1 ELSE pages[<<i, n>>]
      BY <1>0, <2>1, PageAdds
    <2>3. pages[<<i, n>>] = IF i \in PastRows THEN 0 ELSE 1
      BY <2>1 DEF PageInv, ServedOnce, PastRows
    <2> QED
      BY <2>2, <2>3
  <1>5. ServedOnce'
    BY <1>2, <1>4 DEF ServedOnce
  <1> QED
    BY <1>3, <1>5 DEF PageInv

LEMMA ReadKeeps == PageInv /\ ReadPage => PageInv'
  <1> SUFFICES ASSUME PageInv, ReadPage PROVE PageInv'
    OBVIOUS
  <1>0. PageTypes /\ pageWalk.phase = "walking" /\ UNCHANGED <<list, stable>>
    BY DEF PageInv, ReadPage
  <1> DEFINE cap == StoreCap(pageWalk.kind, pageWalk.limit + 1)
             more == Cardinality(FirstRows(cap)) > pageWalk.limit
  <1>1. pageWalk.limit \in Nat /\ cap = pageWalk.limit + 1
    BY <1>0, PagingAssumption DEF PageTypes, StoreCap
  <1>2. CASE more
    <2>1. /\ pages' = [x \in DOMAIN pages |->
                IF x[1] \in FirstRows(pageWalk.limit) /\ x[2] \in Parts(pageWalk.kind, x[1])
                THEN pages[x] + 1 ELSE pages[x]]
          /\ \E last \in FirstRows(pageWalk.limit) :
                /\ \A i \in FirstRows(pageWalk.limit) : ~Lex(KeyOf(last), KeyOf(i))
                /\ pageWalk' = Walk(pageWalk.kind, pageWalk.limit, KeyOf(last), "walking", pageWalk.writes)
      BY <1>2 DEF ReadPage
    <2> QED
      BY <1>0, <2>1, FullPageKeeps
  <1>3. CASE ~more
    <2>1. /\ pages' = [x \in DOMAIN pages |->
                IF x[1] \in FirstRows(cap) /\ x[2] \in Parts(pageWalk.kind, x[1]) THEN pages[x] + 1 ELSE pages[x]]
          /\ pageWalk' = Walk(pageWalk.kind, pageWalk.limit, pageWalk.cursor, "done", pageWalk.writes)
      BY <1>3 DEF ReadPage
    <2>2. IsFiniteSet(FirstRows(cap))
      <3>1. FirstRows(cap) \subseteq PastRows
        BY DEF FirstRows
      <3> QED
        BY <1>0, <3>1, EarlierIsFinite, FS_Subset
    <2>3. Cardinality(FirstRows(cap)) \in Nat
      BY <2>2, FS_CardinalityType
    <2>4. Cardinality(FirstRows(pageWalk.limit + 1)) <= pageWalk.limit
      BY <1>1, <1>3, <2>3
    <2>5. FirstRows(cap) = PastRows
      BY <1>0, <1>1, <2>4, ShortIsAll
    <2> QED
      BY <1>0, <2>1, <2>5, LastPageKeeps
  <1> QED
    BY <1>2, <1>3

LEMMA WriteListKeeps == PageInv /\ ListWrite => PageInv'
  <1> SUFFICES ASSUME PageInv, ListWrite PROVE PageInv'
    OBVIOUS
  <1>0. PageTypes
    BY DEF PageInv
  <1>1. PICK i \in RowIds :
          /\ \/ \E p \in Places : list' = [j \in DOMAIN list \cup {i} |-> IF j = i THEN p ELSE list[j]]
             \/ list' = [j \in DOMAIN list \ {i} |-> list[j]]
          /\ stable' = stable \ {i}
    BY DEF ListWrite
  <1>2. /\ pageWalk'.kind = pageWalk.kind /\ pageWalk'.limit = pageWalk.limit
        /\ pageWalk'.cursor = pageWalk.cursor /\ pageWalk'.phase = pageWalk.phase
        /\ pages' = pages
    BY DEF ListWrite, Walk
  <1>3. /\ DOMAIN list' \subseteq RowIds /\ \A j \in DOMAIN list' : list'[j] \in Places
        /\ \A j \in stable' : j \in stable /\ j \in DOMAIN list' /\ list'[j] = list[j]
    <2>1. CASE list' = [j \in DOMAIN list \ {i} |-> list[j]]
      BY <1>0, <1>1, <2>1 DEF PageTypes
    <2>2. ASSUME NEW p \in Places, list' = [j \in DOMAIN list \cup {i} |-> IF j = i THEN p ELSE list[j]]
          PROVE  /\ DOMAIN list' \subseteq RowIds /\ \A j \in DOMAIN list' : list'[j] \in Places
                 /\ \A j \in stable' : j \in stable /\ j \in DOMAIN list' /\ list'[j] = list[j]
      BY <1>0, <1>1, <2>2 DEF PageTypes
    <2> QED
      BY <1>1, <2>1, <2>2
  <1>4. PageTypes'
    BY <1>0, <1>2, <1>3 DEF PageTypes
  <1>5. \A j \in stable' : KeyOf(j)' = KeyOf(j)
    BY <1>2, <1>3 DEF KeyOf
  <1>6. ServedOnce'
    BY <1>2, <1>3, <1>5 DEF PageInv, ServedOnce
  <1> QED
    BY <1>4, <1>6 DEF PageInv

\* A walk of any list serves every row the writer leaves alone once and whole,
\* for any rows, keys, page sizes and writes (store.rs list_page and its kin,
\* api.rs trim_complete_event_page).
THEOREM NothingIsSkipped == PagingSpec => []PagesCoverStableRows
  <1>1. PageInv /\ [PagingNext]_pgvars => PageInv'
    <2> SUFFICES ASSUME PageInv, [PagingNext]_pgvars PROVE PageInv'
      OBVIOUS
    <2>1. CASE UNCHANGED pgvars
      BY <2>1 DEF pgvars, PageInv, PageTypes, ServedOnce, KeyOf
    <2> QED
      BY <2>1, ReadKeeps, WriteListKeeps DEF PagingNext
  <1>2. PageInv => PagesCoverStableRows
    BY DEF PageInv, ServedOnce, PagesCoverStableRows
  <1> QED
    BY <1>1, <1>2, PagingStarts, PTL DEF PagingSpec

-----------------------------------------------------------------------------
(* The two backfills of an upgraded database (Backfills.tla).  The inductive *)
(* invariant: the shape of the node's chain and of the store on it, the rows *)
(* against the blocks, the log against the rows, the block ranges against   *)
(* the log, and how far the walk over the chain has come.                   *)
BfChainOK ==
    /\ world = [chain |-> world.chain, pruned |-> world.pruned, next |-> world.next, forks |-> world.forks]
    /\ world.chain \in Seq(Nat) /\ world.pruned \in Nat \ {0} /\ world.pruned <= Len(world.chain)
    /\ world.next \in Nat /\ world.next > LegacyBlocks
    /\ world.chain[1] = 1
    /\ \A h \in DOMAIN world.chain :
         /\ world.chain[h] \in DOMAIN Positions /\ world.chain[h] < world.next
         /\ world.chain[h] = h \/ world.chain[h] > LegacyBlocks
    /\ \A h, k \in DOMAIN world.chain : world.chain[h] = world.chain[k] => h = k
    /\ \A b \in DOMAIN world.forks :
         /\ b \in Nat /\ b < world.next /\ ~OnNode(b)
         /\ world.forks[b] \in Nat \ {0} /\ world.forks[b] < Len(world.chain)
BfSyncedOK ==
    /\ synced \in Seq(DOMAIN Positions) /\ Len(synced) # 0 /\ Len(synced) <= Len(world.chain)
    /\ \A i \in DOMAIN synced : synced[i] = i \/ synced[i] > LegacyBlocks
    /\ \A i \in DOMAIN synced : i # Len(synced) => synced[i] = world.chain[i]
    /\ \/ synced[Len(synced)] = world.chain[Len(synced)]
       \/ /\ synced[Len(synced)] \in DOMAIN world.forks
          /\ world.forks[synced[Len(synced)]] = Len(synced) - 1
BfStanding(log, n) ==
    /\ n \in DOMAIN log /\ log[n].kind = "accepted"
    /\ \A k \in DOMAIN log : ~(log[k].kind = "removed" /\ log[k].source = n)
BfRowsOK ==
    /\ eventRows = [e \in DOMAIN eventRows |-> eventRows[e]]
    /\ DOMAIN eventRows = UNION {EventsIn(synced[i]) : i \in DOMAIN synced}
    /\ \A e \in DOMAIN eventRows :
         /\ eventRows[e] = [index |-> eventRows[e].index, seq |-> eventRows[e].seq]
         /\ eventRows[e].seq \in Nat /\ eventRows[e].index \in {0, e[2]}
         /\ e[1] > LegacyBlocks => eventRows[e].index = e[2]
BfLogOK ==
    /\ dlog \in Seq([kind : {"accepted", "removed"}, source : Nat, event : Nat \X Nat])
    /\ \A n \in DOMAIN dlog : dlog[n].kind = "removed" => dlog[n].source \in DOMAIN dlog
    /\ \A e \in DOMAIN eventRows :
         eventRows[e].seq # NoSeq => BfStanding(dlog, eventRows[e].seq) /\ dlog[eventRows[e].seq].event = e
    /\ \A n \in DOMAIN dlog : BfStanding(dlog, n) =>
         /\ dlog[n].event \in DOMAIN eventRows /\ eventRows[dlog[n].event].seq = n
    /\ migrated \in BOOLEAN
    /\ migrated => \A e \in DOMAIN eventRows : eventRows[e].seq # NoSeq
BfRangesOK ==
    /\ \A b \in DOMAIN ranges : ranges[b] \in Nat \X Nat
    /\ \A n \in DOMAIN dlog : BfStanding(dlog, n) =>
         LET b == dlog[n].event[1] IN b \in DOMAIN ranges /\ ranges[b][1] <= n /\ n <= ranges[b][2]
BfReached(b) ==
    /\ OnNode(b) \/ b \in DOMAIN world.forks
    /\ \A e \in DOMAIN eventRows :
         eventRows[e].index # e[2] /\ OnNode(e[1]) => e[1] <= world.pruned \/ e[1] > PlaceOf(b)
BfWalkOK ==
    /\ runner.mode \in {"offline", "walking", "following"}
    /\ runner.mode # "offline" => migrated
    /\ runner.mode = "walking" => runner.stop = Last(synced) /\ BfReached(runner.cursor)
    /\ marked.at # 0 => BfReached(marked.at)
    /\ marked.done => \A e \in DOMAIN eventRows :
         eventRows[e].index # e[2] /\ OnNode(e[1]) => e[1] <= ghosts.prunedAtDone
BfInv == BfChainOK /\ BfSyncedOK /\ BfRowsOK /\ BfLogOK /\ BfRangesOK /\ BfWalkOK
-----------------------------------------------------------------------------
(* The node's chain *)

LEMMA BfPrefix ==
    ASSUME NEW s \in Seq(Nat), NEW t \in Seq(Nat), IsPrefix(s, t)
    PROVE  Len(s) <= Len(t) /\ \A i \in DOMAIN s : s[i] = t[i]
  <1>1. SubSeq(t, 1, Len(s)) = SubSeq(s, 1, Len(s)) /\ Len(s) <= Len(t)
    BY DEF IsPrefix
  <1>2. ASSUME NEW i \in DOMAIN s PROVE s[i] = t[i]
    <2>1. SubSeq(s, 1, Len(s))[i] = s[i]
      OBVIOUS
    <2>2. SubSeq(t, 1, Len(s))[i] = t[i]
      BY <1>1
    <2> QED
      BY <1>1, <2>1, <2>2
  <1> QED
    BY <1>1, <1>2

LEMMA BfNotPrefix ==
    ASSUME NEW s \in Seq(Nat), NEW t \in Seq(Nat), Len(s) <= Len(t), \A i \in DOMAIN s : s[i] = t[i]
    PROVE  IsPrefix(s, t)
  <1>1. SubSeq(s, 1, Len(s)) = SubSeq(t, 1, Len(s))
    OBVIOUS
  <1> QED
    BY <1>1 DEF IsPrefix

\* The height of a block of the chain is where it stands.
LEMMA BfHeight ==
    ASSUME BfChainOK, NEW b, OnNode(b)
    PROVE  HeightOf(b) \in DOMAIN world.chain /\ world.chain[HeightOf(b)] = b
  BY DEF OnNode, HeightOf

LEMMA BfHeightOf ==
    ASSUME BfChainOK, NEW h \in DOMAIN world.chain
    PROVE  OnNode(world.chain[h]) /\ HeightOf(world.chain[h]) = h /\ PlaceOf(world.chain[h]) = h
  <1>1. OnNode(world.chain[h])
    BY DEF OnNode
  <1>2. HeightOf(world.chain[h]) \in DOMAIN world.chain /\ world.chain[HeightOf(world.chain[h])] = world.chain[h]
    BY <1>1, BfHeight
  <1>3. HeightOf(world.chain[h]) = h
    BY <1>2 DEF BfChainOK
  <1> QED
    BY <1>1, <1>3 DEF PlaceOf

\* A block of the upgraded database that is on the chain stands at its own number.
LEMMA BfLegacyHeight ==
    ASSUME BfChainOK, NEW b \in Nat, b <= LegacyBlocks, OnNode(b)
    PROVE  b \in DOMAIN world.chain /\ world.chain[b] = b /\ HeightOf(b) = b
  <1>1. PICK h \in DOMAIN world.chain : world.chain[h] = b
    BY DEF OnNode
  <1>2. h = b
    BY <1>1, LegacyAssumption DEF BfChainOK
  <1> QED
    BY <1>1, <1>2, BfHeightOf

LEMMA BfPlace ==
    ASSUME BfChainOK, NEW b, OnNode(b) \/ b \in DOMAIN world.forks
    PROVE  PlaceOf(b) \in Nat /\ PlaceOf(b) >= 1 /\ PlaceOf(b) <= Len(world.chain)
  <1>1. CASE OnNode(b)
    BY <1>1, BfHeight DEF PlaceOf, BfChainOK
  <1>2. CASE ~OnNode(b)
    BY <1>2 DEF PlaceOf, BfChainOK
  <1> QED
    BY <1>1, <1>2

\* The block of the store at a position: legacy blocks stand at their number.
LEMMA BfRowBlock ==
    ASSUME BfChainOK, BfSyncedOK, BfRowsOK, NEW e \in DOMAIN eventRows
    PROVE  /\ e[1] \in DOMAIN Positions /\ e[2] \in Positions[e[1]] /\ e[2] \in Nat \ {0} /\ e = <<e[1], e[2]>>
           /\ e[1] \in Nat
           /\ \E i \in DOMAIN synced : synced[i] = e[1]
           /\ e[1] <= LegacyBlocks => e[1] \in DOMAIN synced /\ synced[e[1]] = e[1]
  <1>1. PICK i \in DOMAIN synced : e \in EventsIn(synced[i])
    BY DEF BfRowsOK
  <1>2. PICK p \in Positions[synced[i]] : e = <<synced[i], p>>
    BY <1>1 DEF EventsIn
  <1>3. synced[i] \in DOMAIN Positions /\ synced[i] \in Nat
    BY LegacyAssumption DEF BfSyncedOK
  <1>4. Positions[synced[i]] \subseteq Nat \ {0}
    BY <1>3, LegacyAssumption
  <1>5. synced[i] <= LegacyBlocks => synced[i] = i
    BY <1>3, LegacyAssumption DEF BfSyncedOK
  <1> QED
    BY <1>2, <1>3, <1>4, <1>5
-----------------------------------------------------------------------------
(* Initial states *)

LEMMA BfInitInv ==
    BackfillInit => BfInv
  <1> SUFFICES ASSUME BackfillInit PROVE BfInv
    OBVIOUS
  <1> USE LegacyAssumption
  <1>1. /\ world.chain = [h \in 1..LegacyBlocks |-> h] /\ world.pruned = 1
        /\ world.next = LegacyBlocks + 1 /\ world.forks = <<>>
        /\ world = [chain |-> world.chain, pruned |-> world.pruned, next |-> world.next, forks |-> world.forks]
        /\ synced = [h \in 1..LegacyBlocks |-> h]
    BY DEF BackfillInit
  <1>2. world.chain \in Seq(Nat) /\ Len(world.chain) = LegacyBlocks /\ DOMAIN world.chain = 1..LegacyBlocks
    BY <1>1
  <1>3. DOMAIN world.forks = {}
    BY <1>1
  <1>4. BfChainOK
    BY <1>1, <1>2, <1>3 DEF BfChainOK
  <1>5. synced \in Seq(DOMAIN Positions) /\ Len(synced) = LegacyBlocks /\ DOMAIN synced = 1..LegacyBlocks
    BY <1>1
  <1>6. BfSyncedOK
    BY <1>1, <1>2, <1>5 DEF BfSyncedOK
  <1>7. PICK captured \in 1..(LegacyBlocks + 1) :
          eventRows = [e \in UNION {EventsIn(b) : b \in 1..LegacyBlocks} |->
                         [index |-> IF e[1] >= captured THEN e[2] ELSE 0, seq |-> NoSeq]]
    BY DEF BackfillInit
  <1>8. DOMAIN eventRows = UNION {EventsIn(synced[i]) : i \in DOMAIN synced}
    <2>1. \A i \in DOMAIN synced : synced[i] = i
      BY <1>1
    <2>2. {EventsIn(synced[i]) : i \in DOMAIN synced} = {EventsIn(b) : b \in 1..LegacyBlocks}
      BY ONLY <2>1, <1>5
    <2> QED
      BY <2>2, <1>7
  <1>9. BfRowsOK
    <2>1. ASSUME NEW e \in DOMAIN eventRows PROVE e[1] \in 1..LegacyBlocks
      BY <1>7 DEF EventsIn
    <2>2. ASSUME NEW e \in DOMAIN eventRows
          PROVE  /\ eventRows[e] = [index |-> eventRows[e].index, seq |-> eventRows[e].seq]
                 /\ eventRows[e].seq = 0 /\ eventRows[e].index \in {0, e[2]}
      BY <1>7 DEF NoSeq
    <2>3. eventRows = [e \in DOMAIN eventRows |-> eventRows[e]]
      BY <1>7
    <2>4. ASSUME NEW e \in DOMAIN eventRows PROVE ~(e[1] > LegacyBlocks)
      BY <2>1
    <2> QED
      BY ONLY <1>8, <2>2, <2>3, <2>4 DEF BfRowsOK
  <1>10. dlog = <<>> /\ ranges = <<>> /\ migrated = FALSE /\ marked = [done |-> FALSE, at |-> 0]
         /\ runner.mode = "offline"
    BY DEF BackfillInit, Offline
  <1>11. BfLogOK
    <2>1. \A e \in DOMAIN eventRows : eventRows[e].seq = NoSeq
      BY <1>7
    <2>2. DOMAIN dlog = {} /\ dlog \in Seq([kind : {"accepted", "removed"}, source : Nat, event : Nat \X Nat])
      BY <1>10
    <2> QED
      BY ONLY <1>10, <2>1, <2>2 DEF BfLogOK, BfStanding
  <1>12. BfRangesOK
    BY <1>10 DEF BfRangesOK
  <1>13. BfWalkOK
    BY <1>10 DEF BfWalkOK
  <1> QED
    BY <1>4, <1>6, <1>9, <1>11, <1>12, <1>13 DEF BfInv
-----------------------------------------------------------------------------
(* The log *)

LEMMA BfSmallest ==
    ASSUME NEW S \in SUBSET Nat, NEW x \in S
    PROVE  Min(S) \in S /\ Min(S) <= x
  <1>1. \E m \in S : \A k \in S : m <= k
    BY SmallestOf
  <1> QED
    BY <1>1 DEF Min

LEMMA BfLargest ==
    ASSUME NEW S \in SUBSET Nat, NEW x \in S, NEW hi \in Nat, \A y \in S : y <= hi
    PROVE  Max(S) \in S /\ x <= Max(S)
  <1>1. {hi - y : y \in S} \in SUBSET Nat /\ {hi - y : y \in S} # {}
    OBVIOUS
  <1>2. PICK m \in {hi - y : y \in S} : \A k \in {hi - y : y \in S} : m <= k
    BY <1>1, SmallestOf
  <1>3. PICK z \in S : m = hi - z
    BY <1>2
  <1>4. \A y \in S : z >= y
    <2> SUFFICES ASSUME NEW y \in S PROVE z >= y
      OBVIOUS
    <2>1. m <= hi - y
      BY <1>2
    <2> QED
      BY <2>1, <1>3
  <1>5. \E q \in S : \A y \in S : q >= y
    BY <1>4
  <1>6. Max(S) \in S /\ \A y \in S : Max(S) >= y
    BY <1>5 DEF Max
  <1>7. Max(S) \in Nat /\ x \in Nat
    BY <1>6
  <1> QED
    BY <1>6, <1>7

BfRecords == [kind : {"accepted", "removed"}, source : Nat, event : Nat \X Nat]

\* Records appended to the log leave the old ones where they are.
LEMMA BfAppended ==
    ASSUME dlog \in Seq(BfRecords), NEW more \in Seq(BfRecords), dlog' = dlog \o more
    PROVE  /\ dlog' \in Seq(BfRecords) /\ Len(dlog') = Len(dlog) + Len(more)
           /\ \A k \in DOMAIN dlog : k \in DOMAIN dlog' /\ dlog'[k] = dlog[k]
           /\ \A i \in DOMAIN more : Len(dlog) + i \in DOMAIN dlog' /\ dlog'[Len(dlog) + i] = more[i]
           /\ \A k \in DOMAIN dlog' : k \in DOMAIN dlog \/ (k - Len(dlog) \in DOMAIN more /\ k = Len(dlog) + (k - Len(dlog)))
  OBVIOUS

\* After accepted records were appended, the new ones stand with the old ones.
LEMMA BfAccepts ==
    ASSUME BfLogOK, NEW es \in Seq(Nat \X Nat),
           dlog' = dlog \o [i \in DOMAIN es |-> LogRecord("accepted", NoSeq, es[i])]
    PROVE  /\ dlog' \in Seq(BfRecords) /\ Len(dlog') = Len(dlog) + Len(es)
           /\ \A k \in DOMAIN dlog : k \in DOMAIN dlog' /\ dlog'[k] = dlog[k] /\ (BfStanding(dlog', k) <=> BfStanding(dlog, k))
           /\ \A i \in DOMAIN es : BfStanding(dlog', Len(dlog) + i) /\ dlog'[Len(dlog) + i].event = es[i]
           /\ \A k \in DOMAIN dlog' : k \in DOMAIN dlog \/ (k - Len(dlog) \in DOMAIN es /\ k = Len(dlog) + (k - Len(dlog)))
           /\ \A k \in DOMAIN dlog' : dlog'[k].kind = "removed" => dlog'[k].source \in DOMAIN dlog'
  <1> DEFINE more == [i \in DOMAIN es |-> LogRecord("accepted", NoSeq, es[i])]
  <1>1. more \in Seq(BfRecords) /\ DOMAIN more = DOMAIN es /\ Len(more) = Len(es)
        /\ \A i \in DOMAIN es : more[i].kind = "accepted" /\ more[i].event = es[i]
    <2>1. \A i \in DOMAIN es : more[i] \in BfRecords /\ more[i].kind = "accepted" /\ more[i].event = es[i]
      BY DEF BfRecords, LogRecord, NoSeq
    <2>2. DOMAIN es = 1..Len(es) /\ Len(es) \in Nat
      OBVIOUS
    <2>3. more \in [1..Len(es) -> BfRecords]
      BY <2>1, <2>2
    <2> QED
      BY <2>1, <2>2, <2>3
  <1>2. dlog \in Seq(BfRecords) /\ dlog' = dlog \o more
    BY DEF BfLogOK, BfRecords
  <1> HIDE DEF more
  <1>3. /\ dlog' \in Seq(BfRecords) /\ Len(dlog') = Len(dlog) + Len(more)
        /\ \A k \in DOMAIN dlog : k \in DOMAIN dlog' /\ dlog'[k] = dlog[k]
        /\ \A i \in DOMAIN more : Len(dlog) + i \in DOMAIN dlog' /\ dlog'[Len(dlog) + i] = more[i]
        /\ \A k \in DOMAIN dlog' : k \in DOMAIN dlog \/ (k - Len(dlog) \in DOMAIN more /\ k = Len(dlog) + (k - Len(dlog)))
    BY <1>1, <1>2, BfAppended
  <1>4. \A k \in DOMAIN dlog' : dlog'[k].kind = "removed" =>
          k \in DOMAIN dlog /\ dlog'[k] = dlog[k] /\ dlog'[k].source \in DOMAIN dlog
    <2> SUFFICES ASSUME NEW k \in DOMAIN dlog', dlog'[k].kind = "removed"
                 PROVE  k \in DOMAIN dlog /\ dlog'[k] = dlog[k] /\ dlog'[k].source \in DOMAIN dlog
      OBVIOUS
    <2>1. k \in DOMAIN dlog
      <3> SUFFICES ASSUME k - Len(dlog) \in DOMAIN more, k = Len(dlog) + (k - Len(dlog)) PROVE FALSE
        BY <1>3
      <3>1. dlog'[k] = more[k - Len(dlog)]
        BY <1>3
      <3> QED
        BY <3>1, <1>1
    <2> QED
      BY <2>1, <1>3 DEF BfLogOK
  <1>5. ASSUME NEW k \in DOMAIN dlog PROVE BfStanding(dlog', k) <=> BfStanding(dlog, k)
    BY <1>3, <1>4 DEF BfStanding
  <1>6. ASSUME NEW i \in DOMAIN es PROVE BfStanding(dlog', Len(dlog) + i) /\ dlog'[Len(dlog) + i].event = es[i]
    <2>1. Len(dlog) + i \in DOMAIN dlog' /\ dlog'[Len(dlog) + i] = more[i]
      BY <1>1, <1>3
    <2>2. Len(dlog) + i \notin DOMAIN dlog
      BY <1>2
    <2>3. dlog'[Len(dlog) + i].kind = "accepted"
      BY <2>1, <1>1
    <2>4. \A k \in DOMAIN dlog' : dlog'[k].kind = "removed" => dlog'[k].source # Len(dlog) + i
      BY <1>4, <2>2
    <2>5. BfStanding(dlog', Len(dlog) + i)
      BY ONLY <2>1, <2>3, <2>4 DEF BfStanding
    <2> QED
      BY <2>1, <2>5, <1>1
  <1>7. \A k \in DOMAIN dlog' : dlog'[k].kind = "removed" => dlog'[k].source \in DOMAIN dlog'
    BY <1>3, <1>4
  <1> QED
    BY <1>1, <1>3, <1>5, <1>6, <1>7

\* Rows that get their record's number keep the log and the rows in step.
LEMMA BfLogFollows ==
    ASSUME BfLogOK, NEW es \in Seq(Nat \X Nat),
           dlog' = dlog \o [i \in DOMAIN es |-> LogRecord("accepted", NoSeq, es[i])],
           \A e \in DOMAIN eventRows : e \in DOMAIN eventRows' /\ (e \in ToSet(es) \/ eventRows'[e] = eventRows[e]),
           \A i \in DOMAIN es : es[i] \in DOMAIN eventRows' /\ eventRows'[es[i]].seq = Len(dlog) + i,
           \A e \in DOMAIN eventRows : e \in ToSet(es) => eventRows[e].seq = NoSeq,
           \A e \in DOMAIN eventRows' : e \in DOMAIN eventRows \/ e \in ToSet(es)
    PROVE  /\ dlog' \in Seq(BfRecords)
           /\ \A n \in DOMAIN dlog' : dlog'[n].kind = "removed" => dlog'[n].source \in DOMAIN dlog'
           /\ \A e \in DOMAIN eventRows' :
                eventRows'[e].seq # NoSeq => BfStanding(dlog', eventRows'[e].seq) /\ dlog'[eventRows'[e].seq].event = e
           /\ \A n \in DOMAIN dlog' : BfStanding(dlog', n) =>
                dlog'[n].event \in DOMAIN eventRows' /\ eventRows'[dlog'[n].event].seq = n
  <1>1. /\ dlog' \in Seq(BfRecords) /\ Len(dlog') = Len(dlog) + Len(es)
        /\ \A k \in DOMAIN dlog : k \in DOMAIN dlog' /\ dlog'[k] = dlog[k] /\ (BfStanding(dlog', k) <=> BfStanding(dlog, k))
        /\ \A i \in DOMAIN es : BfStanding(dlog', Len(dlog) + i) /\ dlog'[Len(dlog) + i].event = es[i]
        /\ \A k \in DOMAIN dlog' : k \in DOMAIN dlog \/ (k - Len(dlog) \in DOMAIN es /\ k = Len(dlog) + (k - Len(dlog)))
        /\ \A k \in DOMAIN dlog' : dlog'[k].kind = "removed" => dlog'[k].source \in DOMAIN dlog'
    BY BfAccepts
  <1>2. ASSUME NEW e \in DOMAIN eventRows', eventRows'[e].seq # NoSeq
        PROVE  BfStanding(dlog', eventRows'[e].seq) /\ dlog'[eventRows'[e].seq].event = e
    <2>1. CASE e \in ToSet(es)
      <3>1. PICK i \in DOMAIN es : e = es[i]
        BY <2>1 DEF ToSet
      <3>2. eventRows'[e].seq = Len(dlog) + i
        BY <3>1
      <3>3. BfStanding(dlog', Len(dlog) + i) /\ dlog'[Len(dlog) + i].event = e
        BY <3>1, <1>1
      <3>4. BfStanding(dlog', eventRows'[e].seq)
        BY ONLY <3>2, <3>3 DEF BfStanding
      <3> QED
        BY <3>2, <3>3, <3>4
    <2>2. CASE e \notin ToSet(es)
      <3>1. e \in DOMAIN eventRows /\ eventRows'[e] = eventRows[e]
        BY <2>2
      <3>2. BfStanding(dlog, eventRows[e].seq) /\ dlog[eventRows[e].seq].event = e
        BY <3>1, <1>2 DEF BfLogOK
      <3>3. eventRows[e].seq \in DOMAIN dlog
        BY <3>2 DEF BfStanding
      <3>4. PICK k \in DOMAIN dlog : k = eventRows[e].seq
        BY <3>3
      <3>5. BfStanding(dlog', k) /\ dlog'[k].event = e /\ k = eventRows'[e].seq
        BY <3>1, <3>2, <3>4, <1>1
      <3>6. BfStanding(dlog', eventRows'[e].seq)
        BY ONLY <3>5 DEF BfStanding
      <3> QED
        BY <3>5, <3>6
    <2> QED
      BY <2>1, <2>2
  <1>3. ASSUME NEW n \in DOMAIN dlog', BfStanding(dlog', n)
        PROVE  dlog'[n].event \in DOMAIN eventRows' /\ eventRows'[dlog'[n].event].seq = n
    <2>1. CASE n \in DOMAIN dlog
      <3>1. BfStanding(dlog, n) /\ dlog'[n] = dlog[n]
        BY <2>1, <1>1, <1>3
      <3>2. dlog[n].event \in DOMAIN eventRows /\ eventRows[dlog[n].event].seq = n
        BY <2>1, <3>1 DEF BfLogOK
      <3>3. n # NoSeq
        BY <2>1 DEF NoSeq, BfLogOK
      <3>4. dlog[n].event \notin ToSet(es)
        BY <3>2, <3>3
      <3> QED
        BY <3>1, <3>2, <3>4
    <2>2. CASE n \notin DOMAIN dlog
      <3>1. n - Len(dlog) \in DOMAIN es /\ n = Len(dlog) + (n - Len(dlog))
        BY <2>2, <1>1
      <3>2. PICK i \in DOMAIN es : n = Len(dlog) + i
        BY <3>1
      <3> QED
        BY <3>2, <1>1
    <2> QED
      BY <2>1, <2>2
  <1> QED
    BY <1>1, <1>2, <1>3
-----------------------------------------------------------------------------
(* The steps *)

LEMMA BfReachedKeeps ==
    ASSUME NEW c, BfReached(c), world' = world,
           \A e \in DOMAIN eventRows' :
             eventRows'[e].index # e[2] => e \in DOMAIN eventRows /\ eventRows[e].index # e[2]
    PROVE  BfReached(c)'
  BY DEF BfReached, OnNode, PlaceOf, HeightOf

LEMMA BfWalkKeeps ==
    ASSUME BfWalkOK, UNCHANGED <<world, marked, runner, ghosts>>, migrated => migrated',
           synced' = synced \/ runner.mode # "walking",
           \A e \in DOMAIN eventRows' :
             eventRows'[e].index # e[2] => e \in DOMAIN eventRows /\ eventRows[e].index # e[2]
    PROVE  BfWalkOK'
  <1>1. runner'.mode \in {"offline", "walking", "following"} /\ (runner'.mode # "offline" => migrated')
    BY DEF BfWalkOK
  <1>2. ASSUME runner'.mode = "walking" PROVE runner'.stop = Last(synced)' /\ BfReached(runner.cursor)'
    <2>1. PICK c : c = runner.cursor
      OBVIOUS
    <2>2. BfReached(c) /\ runner.stop = Last(synced) /\ synced' = synced
      BY <2>1, <1>2 DEF BfWalkOK
    <2>3. BfReached(c)'
      BY <2>2, BfReachedKeeps
    <2>4. c = runner'.cursor
      BY <2>1
    <2> QED
      BY ONLY <2>2, <2>3, <2>4, UNCHANGED <<world, marked, runner, ghosts>> DEF Last, BfReached
  <1>3. ASSUME marked'.at # 0 PROVE BfReached(marked.at)'
    <2>1. PICK c : c = marked.at
      OBVIOUS
    <2>2. BfReached(c)
      BY <2>1, <1>3 DEF BfWalkOK
    <2>3. BfReached(c)'
      BY <2>2, BfReachedKeeps
    <2>4. c = marked'.at
      BY <2>1
    <2> QED
      BY ONLY <2>3, <2>4 DEF BfReached
  <1>4. ASSUME marked'.done, NEW e \in DOMAIN eventRows', eventRows'[e].index # e[2], OnNode(e[1])'
        PROVE  e[1] <= ghosts'.prunedAtDone
    BY <1>4 DEF BfWalkOK, OnNode
  <1> QED
    BY ONLY <1>1, <1>2, <1>3, <1>4 DEF BfWalkOK

LEMMA BfMigrates ==
    ASSUME BfInv, MigrateBatch
    PROVE  BfInv'
  <1> USE DEF BfInv
  <1> DEFINE todo == {e \in DOMAIN eventRows : eventRows[e].seq = NoSeq}
             at(batch, e) == Len(dlog) + CHOOSE i \in DOMAIN batch : batch[i] = e
             given(batch, b) == {at(batch, e) : e \in {f \in ToSet(batch) : f[1] = b}}
  <1>1. PICK batch \in Batches(todo) :
          /\ dlog' = dlog \o [i \in DOMAIN batch |-> LogRecord("accepted", NoSeq, batch[i])]
          /\ eventRows' = [e \in DOMAIN eventRows |->
                             IF e \in ToSet(batch) THEN Numbered(e, at(batch, e)) ELSE eventRows[e]]
          /\ ranges' = [b \in DOMAIN ranges \cup {e[1] : e \in ToSet(batch)} |->
                          IF given(batch, b) = {} THEN ranges[b] ELSE WidenRange(b, given(batch, b))]
          /\ migrated' = (ToSet(batch) = todo)
    BY DEF MigrateBatch
  <1>2. UNCHANGED <<world, synced, marked, runner, ghosts>> /\ runner.mode = "offline" /\ ~migrated
    BY DEF MigrateBatch
  <1>3. PICK n \in 0..BatchSize : batch \in [1..n -> todo]
    BY DEF Batches
  <1>4. batch \in Seq(DOMAIN eventRows) /\ DOMAIN batch = 1..n /\ n \in Nat /\ Len(batch) = n
        /\ \A i \in DOMAIN batch : batch[i] \in DOMAIN eventRows /\ eventRows[batch[i]].seq = NoSeq
    <2>1. n \in Nat
      BY <1>3, BatchAssumption
    <2> QED
      BY <1>3, <2>1
  <1>5. \A i, j \in DOMAIN batch : i < j => EventsBefore(batch[i], batch[j])
    BY DEF Batches
  <1>6. ASSUME NEW i \in DOMAIN batch, NEW j \in DOMAIN batch, batch[i] = batch[j] PROVE i = j
    <2>1. ASSUME NEW e \in DOMAIN eventRows, EventsBefore(e, e) PROVE FALSE
      <3>1. e[1] \in Nat /\ e[2] \in Nat
        BY BfRowBlock
      <3>2. eventRows[e].index \in {0, e[2]}
        BY DEF BfRowsOK
      <3> QED
        BY <2>1, <3>1, <3>2 DEF EventsBefore
    <2>2. ~(i < j) /\ ~(j < i)
      BY <1>4, <1>5, <1>6, <2>1
    <2> QED
      BY <2>2, <1>4
  <1>7. ASSUME NEW i \in DOMAIN batch PROVE at(batch, batch[i]) = Len(dlog) + i
    BY <1>6
  <1> HIDE DEF at
  <1>8. ASSUME NEW i \in DOMAIN batch PROVE eventRows'[batch[i]] = Numbered(batch[i], Len(dlog) + i)
    <2>1. batch[i] \in ToSet(batch) /\ batch[i] \in DOMAIN eventRows
      BY <1>4 DEF ToSet
    <2> QED
      BY <2>1, <1>1, <1>7
  <1>9. DOMAIN eventRows' = DOMAIN eventRows
    BY <1>1
  <1>10. ASSUME NEW e \in DOMAIN eventRows PROVE e \in ToSet(batch) \/ eventRows'[e] = eventRows[e]
    BY <1>1
  <1>11. Len(dlog) \in Nat /\ dlog \in Seq(BfRecords)
    BY DEF BfLogOK, BfRecords
  <1>12. BfChainOK' /\ BfSyncedOK'
    BY <1>2 DEF BfChainOK, BfSyncedOK, OnNode
  <1>13. ASSUME NEW e \in DOMAIN eventRows
         PROVE  /\ eventRows'[e] = [index |-> eventRows'[e].index, seq |-> eventRows'[e].seq]
                /\ eventRows'[e].seq \in Nat /\ eventRows'[e].index = eventRows[e].index
    <2>1. CASE e \in ToSet(batch)
      <3>1. PICK i \in DOMAIN batch : batch[i] = e
        BY <2>1 DEF ToSet
      <3>2. eventRows'[e] = Numbered(e, Len(dlog) + i)
        BY <3>1, <1>8
      <3>3. Len(dlog) + i \in Nat
        BY <3>1, <1>4, <1>11
      <3> QED
        BY <3>2, <3>3 DEF Numbered
    <2>2. CASE eventRows'[e] = eventRows[e]
      BY <2>2 DEF BfRowsOK
    <2> QED
      BY <2>1, <2>2, <1>10
  <1>14. BfRowsOK'
    <2>1. eventRows' = [e \in DOMAIN eventRows' |-> eventRows'[e]]
      BY <1>1
    <2>2. DOMAIN eventRows' = UNION {EventsIn(synced[i])' : i \in DOMAIN synced'}
      BY <1>2, <1>9 DEF BfRowsOK, EventsIn
    <2>3. \A e \in DOMAIN eventRows : eventRows[e].index \in {0, e[2]} /\ (e[1] > LegacyBlocks => eventRows[e].index = e[2])
      BY DEF BfRowsOK
    <2> QED
      BY ONLY <2>1, <2>2, <2>3, <1>9, <1>13 DEF BfRowsOK, EventsIn
  <1>15. batch \in Seq(Nat \X Nat)
    <2>1. \A e \in DOMAIN eventRows : e \in Nat \X Nat
      BY BfRowBlock
    <2> QED
      BY <2>1, <1>4
  <1>16. BfLogOK'
    <2>1. \A e \in DOMAIN eventRows : e \in DOMAIN eventRows' /\ (e \in ToSet(batch) \/ eventRows'[e] = eventRows[e])
      BY <1>9, <1>10
    <2>2. \A i \in DOMAIN batch : batch[i] \in DOMAIN eventRows' /\ eventRows'[batch[i]].seq = Len(dlog) + i
      <3> SUFFICES ASSUME NEW i \in DOMAIN batch
                   PROVE  batch[i] \in DOMAIN eventRows' /\ eventRows'[batch[i]].seq = Len(dlog) + i
        OBVIOUS
      <3>1. eventRows'[batch[i]] = Numbered(batch[i], Len(dlog) + i)
        BY <1>8
      <3> QED
        BY <3>1, <1>4, <1>9 DEF Numbered
    <2>3. \A e \in DOMAIN eventRows : e \in ToSet(batch) => eventRows[e].seq = NoSeq
      BY <1>4 DEF ToSet
    <2>4. \A e \in DOMAIN eventRows' : e \in DOMAIN eventRows \/ e \in ToSet(batch)
      BY <1>9
    <2>5. dlog' = dlog \o [i \in DOMAIN batch |-> LogRecord("accepted", NoSeq, batch[i])]
      BY <1>1
    <2>6. /\ dlog' \in Seq(BfRecords)
          /\ \A k \in DOMAIN dlog' : dlog'[k].kind = "removed" => dlog'[k].source \in DOMAIN dlog'
          /\ \A e \in DOMAIN eventRows' :
               eventRows'[e].seq # NoSeq => BfStanding(dlog', eventRows'[e].seq) /\ dlog'[eventRows'[e].seq].event = e
          /\ \A k \in DOMAIN dlog' : BfStanding(dlog', k) =>
               dlog'[k].event \in DOMAIN eventRows' /\ eventRows'[dlog'[k].event].seq = k
      BY <1>15, <2>1, <2>2, <2>3, <2>4, <2>5, BfLogFollows
    <2>7. migrated' \in BOOLEAN
      BY <1>1
    <2>8. ASSUME migrated', NEW e \in DOMAIN eventRows' PROVE eventRows'[e].seq # NoSeq
      <3>1. CASE e \in ToSet(batch)
        <4>1. PICK i \in DOMAIN batch : batch[i] = e
          BY <3>1 DEF ToSet
        <4>2. eventRows'[e].seq = Len(dlog) + i
          BY <4>1, <2>2
        <4> QED
          BY <4>1, <4>2, <1>4, <1>11 DEF NoSeq
      <3>2. CASE e \notin ToSet(batch)
        <4>1. e \in DOMAIN eventRows /\ eventRows'[e] = eventRows[e] /\ e \notin todo
          BY <3>2, <2>8, <1>1, <1>9, <1>10
        <4> QED
          BY <4>1
      <3> QED
        BY <3>1, <3>2
    <2> QED
      BY ONLY <2>6, <2>7, <2>8 DEF BfLogOK, BfRecords
  <1>17. ASSUME NEW b PROVE given(batch, b) \in SUBSET Nat /\ \A y \in given(batch, b) : y <= Len(dlog) + n
    <2> SUFFICES ASSUME NEW e \in ToSet(batch), e[1] = b PROVE at(batch, e) \in Nat /\ at(batch, e) <= Len(dlog) + n
      OBVIOUS
    <2>1. PICK i \in DOMAIN batch : batch[i] = e
      BY DEF ToSet
    <2>2. at(batch, e) = Len(dlog) + i
      BY <2>1, <1>7
    <2> QED
      BY <2>1, <2>2, <1>4, <1>11
  <1>18. ASSUME NEW i \in DOMAIN batch PROVE Len(dlog) + i \in given(batch, batch[i][1])
    <2>1. batch[i] \in ToSet(batch) /\ at(batch, batch[i]) = Len(dlog) + i
      BY <1>7 DEF ToSet
    <2> QED
      BY <2>1
  <1>19. ASSUME NEW b \in DOMAIN ranges', given(batch, b) = {} PROVE b \in DOMAIN ranges /\ ranges'[b] = ranges[b]
    <2>1. ranges'[b] = ranges[b]
      BY <1>1, <1>19
    <2>2. b \notin {e[1] : e \in ToSet(batch)}
      BY <1>19
    <2> QED
      BY <2>1, <2>2, <1>1
  <1>20. DOMAIN ranges' = DOMAIN ranges \cup {e[1] : e \in ToSet(batch)}
    BY <1>1
  <1>21. ASSUME NEW b \in DOMAIN ranges', given(batch, b) # {}
         PROVE  /\ ranges'[b] \in Nat \X Nat
                /\ \A x \in given(batch, b) : ranges'[b][1] <= x /\ x <= ranges'[b][2]
                /\ b \in DOMAIN ranges => ranges'[b][1] <= ranges[b][1] /\ ranges[b][2] <= ranges'[b][2]
    <2>1. PICK S \in SUBSET Nat : S = given(batch, b)
      BY <1>17
    <2>2. PICK hi \in Nat : \A y \in S : y <= hi
      <3>1. Len(dlog) + n \in Nat
        BY <1>4, <1>11
      <3> QED
        BY <3>1, <2>1, <1>17
    <2>3. ranges'[b] = WidenRange(b, S)
      BY <1>1, <1>21, <2>1
    <2>4. CASE b \notin DOMAIN ranges
      <3>1. ranges'[b] = <<Min(S), Max(S)>>
        BY <2>3, <2>4 DEF WidenRange
      <3>2. \A x \in S : Min(S) \in S /\ Min(S) <= x /\ Max(S) \in S /\ x <= Max(S)
        BY <2>2, BfSmallest, BfLargest
      <3>3. Min(S) \in Nat /\ Max(S) \in Nat
        BY <3>2, <2>1, <1>21
      <3> QED
        BY <3>1, <3>2, <3>3, <2>1, <2>4
    <2>5. CASE b \in DOMAIN ranges
      <3>1. PICK lo \in Nat, up \in Nat : ranges[b] = <<lo, up>>
        BY <2>5 DEF BfRangesOK
      <3>2. ranges'[b] = <<Min(S \cup {lo}), Max(S \cup {up})>>
        BY <2>3, <2>5, <3>1 DEF WidenRange
      <3>3. S \cup {lo} \in SUBSET Nat /\ S \cup {up} \in SUBSET Nat
        OBVIOUS
      <3>4. \A x \in S \cup {lo} : Min(S \cup {lo}) \in S \cup {lo} /\ Min(S \cup {lo}) <= x
        BY <3>3, BfSmallest
      <3>5. hi + up \in Nat /\ \A y \in S \cup {up} : y <= hi + up
        BY <2>2
      <3>6. \A x \in S \cup {up} : Max(S \cup {up}) \in S \cup {up} /\ x <= Max(S \cup {up})
        BY <3>3, <3>5, BfLargest
      <3>7. Min(S \cup {lo}) \in Nat /\ Max(S \cup {up}) \in Nat
        BY <3>3, <3>4, <3>6
      <3>8. \A x \in S : Min(S \cup {lo}) <= x /\ x <= Max(S \cup {up})
        BY <3>4, <3>6
      <3>9. Min(S \cup {lo}) <= lo /\ up <= Max(S \cup {up})
        BY <3>4, <3>6
      <3>10. PICK l \in Nat, u \in Nat : l = Min(S \cup {lo}) /\ u = Max(S \cup {up})
        BY <3>7
      <3>11. ranges'[b] = <<l, u>> /\ (\A x \in S : l <= x /\ x <= u) /\ l <= lo /\ up <= u
        BY ONLY <3>2, <3>8, <3>9, <3>10
      <3> QED
        BY ONLY <3>1, <3>11, <2>1
    <2> QED
      BY <2>4, <2>5
  <1> HIDE DEF given
  <1>22. BfRangesOK'
    <2>1. ASSUME NEW b \in DOMAIN ranges' PROVE ranges'[b] \in Nat \X Nat
      BY <1>19, <1>21 DEF BfRangesOK
    <2>2. ASSUME NEW k \in DOMAIN dlog', BfStanding(dlog', k)
          PROVE  /\ dlog'[k].event[1] \in DOMAIN ranges'
                 /\ ranges'[dlog'[k].event[1]][1] <= k /\ k <= ranges'[dlog'[k].event[1]][2]
      <3>1. /\ \A j \in DOMAIN dlog : j \in DOMAIN dlog' /\ dlog'[j] = dlog[j] /\ (BfStanding(dlog', j) <=> BfStanding(dlog, j))
            /\ \A i \in DOMAIN batch : BfStanding(dlog', Len(dlog) + i) /\ dlog'[Len(dlog) + i].event = batch[i]
            /\ \A j \in DOMAIN dlog' : j \in DOMAIN dlog \/ (j - Len(dlog) \in DOMAIN batch /\ j = Len(dlog) + (j - Len(dlog)))
        BY <1>1, <1>15, BfAccepts
      <3>2. CASE k \in DOMAIN dlog
        <4>1. PICK b : b = dlog[k].event[1]
          OBVIOUS
        <4>2. dlog'[k].event[1] = b
          BY <3>1, <3>2, <4>1
        <4>3. b \in DOMAIN ranges /\ ranges[b][1] <= k /\ k <= ranges[b][2] /\ ranges[b] \in Nat \X Nat
          BY <3>1, <3>2, <2>2, <4>1 DEF BfRangesOK
        <4>4. b \in DOMAIN ranges' /\ k \in Nat
          BY <4>3, <1>20, <3>2, <1>11
        <4>5. CASE given(batch, b) = {}
          BY <4>2, <4>3, <4>4, <4>5, <1>19
        <4>6. CASE given(batch, b) # {}
          <5>1. /\ ranges'[b] \in Nat \X Nat
                /\ ranges'[b][1] <= ranges[b][1] /\ ranges[b][2] <= ranges'[b][2]
            BY <4>3, <4>4, <4>6, <1>21
          <5> QED
            BY <5>1, <4>2, <4>3, <4>4
        <4> QED
          BY <4>5, <4>6
      <3>3. CASE k \notin DOMAIN dlog
        <4>1. PICK i \in DOMAIN batch : k = Len(dlog) + i
          BY <3>1, <3>3
        <4>2. PICK b : b = batch[i][1]
          OBVIOUS
        <4>3. dlog'[k].event[1] = b
          BY <3>1, <4>1, <4>2
        <4>4. b \in DOMAIN ranges' /\ k \in given(batch, b)
          BY <4>1, <4>2, <1>18, <1>20 DEF ToSet
        <4> QED
          BY <4>3, <4>4, <1>21
      <3> QED
        BY <3>2, <3>3
    <2> QED
      BY ONLY <2>1, <2>2 DEF BfRangesOK
  <1>23. BfWalkOK'
    <2>1. \A e \in DOMAIN eventRows' :
             eventRows'[e].index # e[2] => e \in DOMAIN eventRows /\ eventRows[e].index # e[2]
      BY <1>9, <1>13
    <2> QED
      BY <2>1, <1>2, BfWalkKeeps
  <1> QED
    BY <1>12, <1>14, <1>16, <1>22, <1>23
LEMMA BfAdds ==
    ASSUME BfInv, FollowAdd
    PROVE  BfInv'
  <1> USE DEF BfInv
  <1> DEFINE new == world.chain[Len(synced) + 1]
             num(ps, e) == Len(dlog) + CHOOSE i \in DOMAIN ps : ps[i] = e[2]
             Adds(b, ps) ==
               /\ synced' = Append(synced, b)
               /\ eventRows' = [e \in DOMAIN eventRows \cup EventsIn(b) |->
                                  IF e \in EventsIn(b) THEN [index |-> e[2], seq |-> num(ps, e)] ELSE eventRows[e]]
               /\ dlog' = dlog \o [i \in DOMAIN ps |-> LogRecord("accepted", NoSeq, <<b, ps[i]>>)]
               /\ ranges' = [c \in DOMAIN ranges \cup {b} |->
                               IF c # b THEN ranges[c]
                               ELSE IF ps = <<>> THEN <<NoSeq, NoSeq>>
                               ELSE <<Len(dlog) + 1, Len(dlog) + Len(ps)>>]
  <1>1. PICK b : b = new /\ \E ps \in Ascending(Positions[b]) : Adds(b, ps)
    <2>1. \E ps \in Ascending(Positions[new]) : Adds(new, ps)
      BY DEF FollowAdd
    <2> HIDE DEF new, Adds
    <2> QED
      BY <2>1
  <1>2. PICK ps \in Ascending(Positions[b]) : Adds(b, ps)
    BY <1>1
  <1>3. /\ UNCHANGED <<world, migrated, marked, runner, ghosts>> /\ runner.mode = "following"
        /\ Len(synced) < Len(world.chain) /\ IsPrefix(synced, world.chain)
    BY DEF FollowAdd
  <1>4. Len(synced) \in Nat /\ Len(synced) + 1 \in DOMAIN world.chain /\ Len(world.chain) \in Nat
    BY <1>3 DEF BfChainOK, BfSyncedOK
  <1>5. b \in DOMAIN Positions /\ b \in Nat /\ Positions[b] \subseteq Nat \ {0} /\ IsFiniteSet(Positions[b])
        /\ (b = Len(synced) + 1 \/ b > LegacyBlocks)
    BY <1>1, <1>4, LegacyAssumption DEF BfChainOK
  <1>6. synced \in Seq(Nat) /\ world.chain \in Seq(Nat)
    BY LegacyAssumption DEF BfChainOK, BfSyncedOK
  <1>7. \A i \in DOMAIN synced : synced[i] = world.chain[i]
    BY <1>3, <1>6, BfPrefix
  <1>8. ASSUME NEW i \in DOMAIN synced PROVE synced[i] # b
    <2>1. i \in DOMAIN world.chain /\ i # Len(synced) + 1
      BY <1>3, <1>4, <1>6
    <2> QED
      BY <2>1, <1>1, <1>4, <1>7 DEF BfChainOK
  <1>9. ASSUME NEW e \in DOMAIN eventRows PROVE e \notin EventsIn(b)
    <2>1. e[1] # b
      BY <1>8, BfRowBlock
    <2> QED
      BY <2>1 DEF EventsIn
  <1>10. PICK n \in Nat : ps \in [1..n -> Positions[b]]
    BY <1>5, FS_CardinalityType DEF Ascending
  <1>11. DOMAIN ps = 1..n /\ Len(ps) = n /\ ps \in Seq(Nat) /\ \A i \in 1..n : ps[i] \in Positions[b] /\ ps[i] \in Nat
    BY <1>5, <1>10
  <1>12. ASSUME NEW i \in 1..n, NEW j \in 1..n, ps[i] = ps[j] PROVE i = j
    <2>1. \A k, l \in DOMAIN ps : k < l => ps[k] < ps[l]
      BY DEF Ascending
    <2>2. ~(i < j) /\ ~(j < i)
      BY <2>1, <1>11, <1>12
    <2> QED
      BY <2>2
  <1>13. \A p \in Positions[b] : \E i \in 1..n : ps[i] = p
    BY <1>11 DEF Ascending, ToSet
  <1> DEFINE es == [i \in 1..n |-> <<b, ps[i]>>]
  <1>14. es \in Seq(Nat \X Nat) /\ DOMAIN es = 1..n /\ Len(es) = n /\ \A i \in 1..n : es[i] = <<b, ps[i]>>
    BY <1>5, <1>11
  <1>15. dlog' = dlog \o [i \in DOMAIN es |-> LogRecord("accepted", NoSeq, es[i])]
    <2>1. [i \in DOMAIN es |-> LogRecord("accepted", NoSeq, es[i])]
            = [i \in DOMAIN ps |-> LogRecord("accepted", NoSeq, <<b, ps[i]>>)]
      BY <1>11, <1>14
    <2> QED
      BY <2>1, <1>2
  <1>16. ToSet(es) = EventsIn(b)
    <2>1. ToSet(es) = {es[i] : i \in 1..n}
      BY ONLY <1>14 DEF ToSet
    <2>2. \A i \in 1..n : es[i] = <<b, ps[i]>> /\ ps[i] \in Positions[b]
      BY ONLY <1>11, <1>14
    <2>3. \A p \in Positions[b] : \E i \in 1..n : es[i] = <<b, p>>
      BY ONLY <1>13, <2>2
    <2> QED
      BY ONLY <2>1, <2>2, <2>3 DEF EventsIn
  <1> HIDE DEF es
  <1>17. ASSUME NEW i \in 1..n
         PROVE  es[i] \in DOMAIN eventRows' /\ es[i][2] = ps[i]
                /\ eventRows'[es[i]] = [index |-> ps[i], seq |-> Len(dlog) + i]
                /\ eventRows'[es[i]].index = ps[i] /\ eventRows'[es[i]].seq = Len(dlog) + i
    <2>1. es[i] \in EventsIn(b)
      BY <1>14, <1>16 DEF ToSet
    <2>2. es[i][2] = ps[i]
      <3>1. es[i] = <<b, ps[i]>>
        BY <1>14
      <3> QED
        BY ONLY <3>1
    <2>3. PICK e : e = es[i]
      OBVIOUS
    <2>4. (CHOOSE j \in DOMAIN ps : ps[j] = e[2]) = i
      BY <2>2, <2>3, <1>11, <1>12
    <2>5. num(ps, e) = Len(dlog) + i
      BY <2>4
    <2>6. eventRows'[e] = [index |-> e[2], seq |-> num(ps, e)] /\ e \in DOMAIN eventRows'
      BY <2>1, <2>3, <1>2
    <2>7. PICK k : k = Len(dlog) + i
      OBVIOUS
    <2>8. eventRows'[e] = [index |-> ps[i], seq |-> k]
      BY ONLY <2>2, <2>3, <2>5, <2>6, <2>7
    <2>9. eventRows'[e].index = ps[i] /\ eventRows'[e].seq = k
      BY ONLY <2>8
    <2> QED
      BY ONLY <2>2, <2>3, <2>6, <2>7, <2>8, <2>9
  <1> HIDE DEF num
  <1>18. ASSUME NEW e \in DOMAIN eventRows PROVE e \in DOMAIN eventRows' /\ eventRows'[e] = eventRows[e]
    BY <1>2, <1>9
  <1>19. DOMAIN eventRows' = DOMAIN eventRows \cup EventsIn(b)
    BY <1>2
  <1>20. Len(dlog) \in Nat /\ dlog \in Seq(BfRecords)
    BY DEF BfLogOK, BfRecords
  <1>21. BfChainOK'
    BY <1>3 DEF BfChainOK, OnNode
  <1>22. DOMAIN synced' = 1..(Len(synced) + 1) /\ Len(synced') = Len(synced) + 1 /\ synced' \in Seq(DOMAIN Positions)
         /\ synced'[Len(synced) + 1] = b /\ \A i \in DOMAIN synced : synced'[i] = synced[i]
    <2>1. synced \in Seq(DOMAIN Positions)
      BY DEF BfSyncedOK
    <2> QED
      BY <2>1, <1>2, <1>4, <1>5
  <1>23. DOMAIN synced = 1..Len(synced)
    BY <1>6
  <1>24. BfSyncedOK'
    <2>1. Len(synced') # 0 /\ Len(synced') <= Len(world'.chain)
      BY <1>3, <1>4, <1>22
    <2>2. ASSUME NEW i \in DOMAIN synced' PROVE synced'[i] = i \/ synced'[i] > LegacyBlocks
      <3>1. CASE i = Len(synced) + 1
        BY <3>1, <1>5, <1>22
      <3>2. CASE i # Len(synced) + 1
        <4>1. i \in DOMAIN synced
          BY <3>2, <1>4, <1>22, <1>23
        <4> QED
          BY <4>1, <1>22 DEF BfSyncedOK
      <3> QED
        BY <3>1, <3>2
    <2>3. ASSUME NEW i \in DOMAIN synced', i # Len(synced') PROVE synced'[i] = world'.chain[i]
      <3>1. i \in DOMAIN synced
        BY <2>3, <1>4, <1>22, <1>23
      <3> QED
        BY <3>1, <1>3, <1>7, <1>22
    <2>4. synced'[Len(synced')] = world'.chain[Len(synced')]
      BY <1>1, <1>3, <1>22
    <2> QED
      BY ONLY <1>22, <2>1, <2>2, <2>3, <2>4 DEF BfSyncedOK
  <1>25. BfRowsOK'
    <2>1. eventRows' = [e \in DOMAIN eventRows' |-> eventRows'[e]]
      BY <1>2
    <2>2. DOMAIN eventRows' = UNION {EventsIn(synced'[i]) : i \in DOMAIN synced'}
      <3>1. DOMAIN eventRows = UNION {EventsIn(synced[i]) : i \in DOMAIN synced}
        BY DEF BfRowsOK
      <3>2. {EventsIn(synced'[i]) : i \in DOMAIN synced'} = {EventsIn(synced[i]) : i \in DOMAIN synced} \cup {EventsIn(b)}
        <4>1. \A i \in DOMAIN synced' : i \in DOMAIN synced \/ i = Len(synced) + 1
          BY <1>4, <1>22, <1>23
        <4>2. \A i \in DOMAIN synced : i \in DOMAIN synced'
          BY <1>4, <1>22, <1>23
        <4>3. Len(synced) + 1 \in DOMAIN synced'
          BY <1>4, <1>22
        <4> QED
          BY ONLY <4>1, <4>2, <4>3, <1>22
      <3> QED
        BY <3>1, <3>2, <1>19
    <2>3. ASSUME NEW e \in DOMAIN eventRows'
          PROVE  /\ eventRows'[e] = [index |-> eventRows'[e].index, seq |-> eventRows'[e].seq]
                 /\ eventRows'[e].seq \in Nat /\ eventRows'[e].index \in {0, e[2]}
                 /\ e[1] > LegacyBlocks => eventRows'[e].index = e[2]
      <3>1. CASE e \in DOMAIN eventRows
        BY <3>1, <1>18 DEF BfRowsOK
      <3>2. CASE e \in EventsIn(b)
        <4>1. PICK i \in 1..n : es[i] = e
          BY <3>2, <1>14, <1>16 DEF ToSet
        <4>2. eventRows'[e] = [index |-> e[2], seq |-> Len(dlog) + i]
          <5>1. eventRows'[es[i]] = [index |-> ps[i], seq |-> Len(dlog) + i] /\ es[i][2] = ps[i]
            BY <1>17
          <5> QED
            BY <5>1, <4>1
        <4>3. Len(dlog) + i \in Nat
          BY <1>20
        <4> QED
          BY <4>2, <4>3
      <3> QED
        BY <3>1, <3>2, <1>19
    <2> QED
      BY ONLY <2>1, <2>2, <2>3 DEF BfRowsOK, EventsIn
  <1>26. /\ \A e \in DOMAIN eventRows : e \in DOMAIN eventRows' /\ (e \in ToSet(es) \/ eventRows'[e] = eventRows[e])
         /\ \A i \in DOMAIN es : es[i] \in DOMAIN eventRows' /\ eventRows'[es[i]].seq = Len(dlog) + i
         /\ \A e \in DOMAIN eventRows : e \in ToSet(es) => eventRows[e].seq = NoSeq
         /\ \A e \in DOMAIN eventRows' : e \in DOMAIN eventRows \/ e \in ToSet(es)
    <2>1. \A i \in DOMAIN es : es[i] \in DOMAIN eventRows' /\ eventRows'[es[i]].seq = Len(dlog) + i
      <3> SUFFICES ASSUME NEW i \in 1..n PROVE es[i] \in DOMAIN eventRows' /\ eventRows'[es[i]].seq = Len(dlog) + i
        BY <1>14
      <3>1. es[i] \in DOMAIN eventRows' /\ eventRows'[es[i]] = [index |-> ps[i], seq |-> Len(dlog) + i]
        BY <1>17
      <3> QED
        BY <3>1
    <2> QED
      BY <2>1, <1>9, <1>16, <1>18, <1>19
  <1>27. BfLogOK'
    <2>1. /\ dlog' \in Seq(BfRecords)
          /\ \A k \in DOMAIN dlog' : dlog'[k].kind = "removed" => dlog'[k].source \in DOMAIN dlog'
          /\ \A e \in DOMAIN eventRows' :
               eventRows'[e].seq # NoSeq => BfStanding(dlog', eventRows'[e].seq) /\ dlog'[eventRows'[e].seq].event = e
          /\ \A k \in DOMAIN dlog' : BfStanding(dlog', k) =>
               dlog'[k].event \in DOMAIN eventRows' /\ eventRows'[dlog'[k].event].seq = k
      BY <1>14, <1>15, <1>26, BfLogFollows
    <2>2. migrated' \in BOOLEAN
      BY <1>3 DEF BfLogOK
    <2>3. ASSUME migrated', NEW e \in DOMAIN eventRows' PROVE eventRows'[e].seq # NoSeq
      <3>1. CASE e \in DOMAIN eventRows
        BY <3>1, <2>3, <1>3, <1>18 DEF BfLogOK
      <3>2. CASE e \in EventsIn(b)
        <4>1. PICK i \in 1..n : es[i] = e
          BY <3>2, <1>14, <1>16 DEF ToSet
        <4>2. eventRows'[e].seq = Len(dlog) + i
          <5>1. eventRows'[es[i]].seq = Len(dlog) + i
            BY <1>17
          <5> QED
            BY <5>1, <4>1
        <4> QED
          BY <4>2, <1>20 DEF NoSeq
      <3> QED
        BY <3>1, <3>2, <1>19
    <2> QED
      BY ONLY <2>1, <2>2, <2>3 DEF BfLogOK, BfRecords
  <1>28. /\ DOMAIN ranges' = DOMAIN ranges \cup {b}
         /\ \A c \in DOMAIN ranges : c # b => ranges'[c] = ranges[c]
         /\ n = 0 => ranges'[b] = <<0, 0>>
         /\ n # 0 => ranges'[b] = <<Len(dlog) + 1, Len(dlog) + n>>
    <2>1. ps = <<>> <=> n = 0
      BY <1>10, <1>11
    <2> QED
      BY <2>1, <1>2, <1>11 DEF NoSeq
  <1>29. BfRangesOK'
    <2>1. ASSUME NEW c \in DOMAIN ranges' PROVE ranges'[c] \in Nat \X Nat
      <3>1. CASE c # b
        BY <3>1, <1>28 DEF BfRangesOK
      <3>2. CASE c = b
        <4>1. PICK l \in Nat, u \in Nat : l = Len(dlog) + 1 /\ u = Len(dlog) + n
          BY <1>20
        <4>2. ranges'[b] = <<0, 0>> \/ ranges'[b] = <<l, u>>
          BY <4>1, <1>28
        <4> QED
          BY <3>2, <4>1, <4>2
      <3> QED
        BY <3>1, <3>2
    <2>2. ASSUME NEW k \in DOMAIN dlog', BfStanding(dlog', k)
          PROVE  /\ dlog'[k].event[1] \in DOMAIN ranges'
                 /\ ranges'[dlog'[k].event[1]][1] <= k /\ k <= ranges'[dlog'[k].event[1]][2]
      <3>1. /\ \A j \in DOMAIN dlog : j \in DOMAIN dlog' /\ dlog'[j] = dlog[j] /\ (BfStanding(dlog', j) <=> BfStanding(dlog, j))
            /\ \A i \in DOMAIN es : BfStanding(dlog', Len(dlog) + i) /\ dlog'[Len(dlog) + i].event = es[i]
            /\ \A j \in DOMAIN dlog' : j \in DOMAIN dlog \/ (j - Len(dlog) \in DOMAIN es /\ j = Len(dlog) + (j - Len(dlog)))
        BY <1>14, <1>15, BfAccepts
      <3>2. CASE k \in DOMAIN dlog
        <4>1. BfStanding(dlog, k) /\ dlog'[k] = dlog[k]
          BY <3>1, <3>2, <2>2
        <4>2. PICK c : c = dlog[k].event[1]
          OBVIOUS
        <4>3. c \in DOMAIN ranges /\ ranges[c][1] <= k /\ k <= ranges[c][2]
          BY <3>2, <4>1, <4>2 DEF BfRangesOK
        <4>4. dlog[k].event \in DOMAIN eventRows
          BY <3>2, <4>1 DEF BfLogOK
        <4>5. c # b
          BY <4>2, <4>4, <1>8, BfRowBlock
        <4>6. ranges'[c] = ranges[c] /\ c \in DOMAIN ranges'
          BY <4>3, <4>5, <1>28
        <4> QED
          BY <4>1, <4>2, <4>3, <4>6
      <3>3. CASE k \notin DOMAIN dlog
        <4>1. PICK i \in DOMAIN es : k = Len(dlog) + i
          BY <3>1, <3>3
        <4>2. dlog'[k].event = <<b, ps[i]>> /\ i \in 1..n
          BY <3>1, <4>1, <1>14
        <4>3. dlog'[k].event[1] = b
          BY <4>2
        <4>4. n # 0 /\ i >= 1 /\ i <= n
          BY <4>2
        <4>5. b \in DOMAIN ranges' /\ ranges'[b] = <<Len(dlog) + 1, Len(dlog) + n>>
          BY <4>4, <1>28
        <4>6. ranges'[b][1] = Len(dlog) + 1 /\ ranges'[b][2] = Len(dlog) + n
          BY <4>5
        <4> QED
          BY ONLY <4>1, <4>3, <4>4, <4>5, <4>6, <1>20, i \in Nat, n \in Nat
      <3> QED
        BY <3>2, <3>3
    <2> QED
      BY ONLY <2>1, <2>2 DEF BfRangesOK
  <1>30. BfWalkOK'
    <2>1. ASSUME NEW e \in DOMAIN eventRows', eventRows'[e].index # e[2]
          PROVE  e \in DOMAIN eventRows /\ eventRows[e].index # e[2]
      <3>1. CASE e \in DOMAIN eventRows
        BY <3>1, <2>1, <1>18
      <3>2. CASE e \in EventsIn(b)
        <4>1. PICK i \in 1..n : es[i] = e
          BY <3>2, <1>14, <1>16 DEF ToSet
        <4>2. eventRows'[es[i]].index = ps[i] /\ es[i][2] = ps[i]
          BY <1>17
        <4> QED
          BY <4>1, <4>2, <2>1
      <3> QED
        BY <3>1, <3>2, <1>19
    <2>2. runner.mode # "walking" /\ (migrated => migrated')
      BY <1>3
    <2> QED
      BY <2>1, <2>2, <1>3, BfWalkKeeps
  <1> QED
    BY <1>21, <1>24, <1>25, <1>27, <1>29, <1>30
LEMMA BfRemoves ==
    ASSUME BfInv, FollowRemove
    PROVE  BfInv'
  <1> USE DEF BfInv
  <1> DEFINE last == Last(synced)
             Removes(b, sources) ==
               /\ synced' = Front(synced)
               /\ dlog' = dlog \o [i \in DOMAIN sources |-> LogRecord("removed", sources[i], dlog[sources[i]].event)]
               /\ eventRows' = IF b \in DOMAIN ranges
                              THEN [e \in {x \in DOMAIN eventRows : x[1] # b} |-> eventRows[e]] ELSE eventRows
               /\ ranges' = [c \in DOMAIN ranges \ {b} |-> ranges[c]]
  <1>1. PICK b : b = last /\ \E sources \in Ascending(SourcesOf(b)) : Removes(b, sources)
    <2>1. \E sources \in Ascending(SourcesOf(last)) : Removes(last, sources)
      BY DEF FollowRemove
    <2> HIDE DEF last, Removes
    <2> QED
      BY <2>1
  <1>2. PICK sources \in Ascending(SourcesOf(b)) : Removes(b, sources)
    BY <1>1
  <1>3. /\ UNCHANGED <<world, migrated, marked, runner, ghosts>> /\ runner.mode = "following"
        /\ ~IsPrefix(synced, world.chain)
    BY DEF FollowRemove
  <1>4. synced \in Seq(Nat) /\ world.chain \in Seq(Nat) /\ synced \in Seq(DOMAIN Positions)
    BY LegacyAssumption DEF BfChainOK, BfSyncedOK
  <1>5. PICK m \in Nat : m = Len(synced)
    BY <1>4
  <1>6. DOMAIN synced = 1..m /\ m # 0 /\ m <= Len(world.chain) /\ Len(world.chain) \in Nat /\ b = synced[m]
    BY <1>1, <1>4, <1>5 DEF BfSyncedOK, Last
  <1>7. b \in DOMAIN world.forks /\ world.forks[b] = m - 1 /\ m # 1
    <2>1. ASSUME synced[m] = world.chain[m] PROVE FALSE
      <3>1. \A i \in DOMAIN synced : synced[i] = world.chain[i]
        BY <2>1, <1>5, <1>6 DEF BfSyncedOK
      <3> QED
        BY <3>1, <1>3, <1>4, <1>5, <1>6, BfNotPrefix
    <2>2. b \in DOMAIN world.forks /\ world.forks[b] = m - 1
      BY <2>1, <1>5, <1>6 DEF BfSyncedOK
    <2>3. world.forks[b] # 0
      BY <2>2 DEF BfChainOK
    <2> QED
      BY <2>2, <2>3, <1>5
  <1>8. \A h \in DOMAIN world.chain : world.chain[h] # b
    BY <1>7 DEF BfChainOK, OnNode
  <1>9. ASSUME NEW i \in 1..(m - 1) PROVE synced[i] = world.chain[i] /\ synced[i] # b /\ i \in DOMAIN synced
    <2>1. i \in DOMAIN synced /\ i # Len(synced) /\ i \in DOMAIN world.chain
      BY <1>5, <1>6
    <2>2. synced[i] = world.chain[i]
      BY <2>1 DEF BfSyncedOK
    <2> QED
      BY <2>1, <2>2, <1>8
  <1>10. synced' \in Seq(DOMAIN Positions) /\ DOMAIN synced' = 1..(m - 1) /\ Len(synced') = m - 1
         /\ \A i \in 1..(m - 1) : synced'[i] = synced[i]
    <2>1. synced' = SubSeq(synced, 1, m - 1) /\ m - 1 \in Nat
      BY <1>2, <1>5, <1>6 DEF Front
    <2> QED
      BY <2>1, <1>4, <1>5, <1>6
  <1>11. dlog \in Seq(BfRecords) /\ Len(dlog) \in Nat /\ DOMAIN dlog = 1..Len(dlog)
    BY DEF BfLogOK, BfRecords
  <1>12. SourcesOf(b) \subseteq DOMAIN dlog
    BY DEF SourcesOf
  <1>13. IsFiniteSet(SourcesOf(b))
    <2>1. IsFiniteSet(1..Len(dlog))
      BY <1>11, FS_Interval
    <2> QED
      BY <2>1, <1>11, <1>12, FS_Subset
  <1>14. PICK n \in Nat : sources \in [1..n -> SourcesOf(b)]
    BY <1>13, FS_CardinalityType DEF Ascending
  <1>15. DOMAIN sources = 1..n /\ \A i \in 1..n : sources[i] \in SourcesOf(b) /\ sources[i] \in DOMAIN dlog
    BY <1>12, <1>14
  <1>16. \A k \in SourcesOf(b) : \E i \in 1..n : sources[i] = k
    BY <1>15 DEF Ascending, ToSet
  <1> DEFINE more == [i \in DOMAIN sources |-> LogRecord("removed", sources[i], dlog[sources[i]].event)]
  <1>17. more \in Seq(BfRecords) /\ DOMAIN more = 1..n
         /\ \A i \in 1..n : more[i].kind = "removed" /\ more[i].source = sources[i]
    <2>1. ASSUME NEW i \in 1..n
          PROVE more[i] \in BfRecords /\ more[i].kind = "removed" /\ more[i].source = sources[i]
      <3>1. sources[i] \in DOMAIN dlog /\ dlog[sources[i]] \in BfRecords
        BY <1>11, <1>15
      <3>2. sources[i] \in Nat /\ dlog[sources[i]].event \in Nat \X Nat
        BY SMTT(20), <3>1, <1>11 DEF BfRecords
      <3>3. more[i] = [kind |-> "removed", source |-> sources[i], event |-> dlog[sources[i]].event]
        BY <1>15 DEF LogRecord
      <3> HIDE DEF more
      <3> QED
        BY <3>2, <3>3 DEF BfRecords
    <2>2. more \in [1..n -> BfRecords]
      BY <2>1, <1>15
    <2>3. DOMAIN more = 1..n
      BY <1>15
    <2> HIDE DEF more
    <2> QED
      BY <2>1, <2>2, <2>3
  <1>18. dlog' = dlog \o more
    BY <1>2
  <1> HIDE DEF more
  <1>19. /\ dlog' \in Seq(BfRecords) /\ Len(dlog') = Len(dlog) + Len(more)
         /\ \A k \in DOMAIN dlog : k \in DOMAIN dlog' /\ dlog'[k] = dlog[k]
         /\ \A i \in DOMAIN more : Len(dlog) + i \in DOMAIN dlog' /\ dlog'[Len(dlog) + i] = more[i]
         /\ \A k \in DOMAIN dlog' : k \in DOMAIN dlog \/ (k - Len(dlog) \in DOMAIN more /\ k = Len(dlog) + (k - Len(dlog)))
    BY <1>11, <1>17, <1>18, BfAppended
  <1>20. ASSUME NEW k \in DOMAIN dlog', k \notin DOMAIN dlog
         PROVE  \E i \in 1..n : k = Len(dlog) + i /\ dlog'[k].kind = "removed" /\ dlog'[k].source = sources[i]
    <2>1. PICK i \in 1..n : k = Len(dlog) + i
      BY <1>17, <1>19, <1>20
    <2>2. dlog'[k] = more[i]
      BY <2>1, <1>17, <1>19
    <2> QED
      BY <2>1, <2>2, <1>17
  <1>21. ASSUME NEW k PROVE BfStanding(dlog', k) <=> BfStanding(dlog, k) /\ k \notin SourcesOf(b)
    <2>1. ASSUME BfStanding(dlog', k) PROVE BfStanding(dlog, k) /\ k \notin SourcesOf(b)
      <3>1. k \in DOMAIN dlog
        BY <2>1, <1>20 DEF BfStanding
      <3>2. BfStanding(dlog, k)
        BY <2>1, <3>1, <1>19 DEF BfStanding
      <3>3. ASSUME k \in SourcesOf(b) PROVE FALSE
        <4>1. PICK i \in 1..n : sources[i] = k
          BY <3>3, <1>16
        <4>2. Len(dlog) + i \in DOMAIN dlog' /\ dlog'[Len(dlog) + i] = more[i]
          BY <1>17, <1>19
        <4>3. dlog'[Len(dlog) + i].kind = "removed" /\ dlog'[Len(dlog) + i].source = k
          BY <4>1, <4>2, <1>17
        <4> QED
          BY <4>2, <4>3, <2>1 DEF BfStanding
      <3> QED
        BY <3>2, <3>3
    <2>2. ASSUME BfStanding(dlog, k), k \notin SourcesOf(b) PROVE BfStanding(dlog', k)
      <3>1. k \in DOMAIN dlog' /\ dlog'[k].kind = "accepted"
        BY <2>2, <1>19 DEF BfStanding
      <3>2. ASSUME NEW j \in DOMAIN dlog', dlog'[j].kind = "removed", dlog'[j].source = k PROVE FALSE
        <4>1. CASE j \in DOMAIN dlog
          BY <4>1, <3>2, <2>2, <1>19 DEF BfStanding
        <4>2. CASE j \notin DOMAIN dlog
          BY <4>2, <3>2, <2>2, <1>15, <1>20
        <4> QED
          BY <4>1, <4>2
      <3> QED
        BY <3>1, <3>2 DEF BfStanding
    <2> QED
      BY <2>1, <2>2
  <1>22. migrated
    BY <1>3 DEF BfWalkOK
  \* every row of the block has its record in the block's range
  <1>23. ASSUME NEW e \in DOMAIN eventRows
         PROVE  /\ BfStanding(dlog, eventRows[e].seq) /\ dlog[eventRows[e].seq].event = e
                /\ e[1] = b => eventRows[e].seq \in SourcesOf(b) /\ b \in DOMAIN ranges
                /\ e[1] # b => eventRows[e].seq \notin SourcesOf(b)
    <2>1. BfStanding(dlog, eventRows[e].seq) /\ dlog[eventRows[e].seq].event = e
      BY <1>22 DEF BfLogOK
    <2>2. PICK k \in DOMAIN dlog : k = eventRows[e].seq
      BY <2>1 DEF BfStanding
    <2>3. ASSUME e[1] = b PROVE k \in SourcesOf(b) /\ b \in DOMAIN ranges
      <3>1. dlog[k].event[1] = b /\ dlog[k].kind = "accepted" /\ BfStanding(dlog, k)
        BY <2>1, <2>2, <2>3 DEF BfStanding
      <3>2. b \in DOMAIN ranges /\ ranges[b][1] <= k /\ k <= ranges[b][2]
        BY <3>1 DEF BfRangesOK
      <3> QED
        BY <3>1, <3>2 DEF SourcesOf
    <2>4. ASSUME e[1] # b PROVE k \notin SourcesOf(b)
      BY <2>1, <2>2, <2>4 DEF SourcesOf
    <2> QED
      BY <2>1, <2>2, <2>3, <2>4
  <1>24. DOMAIN eventRows' = {e \in DOMAIN eventRows : e[1] # b}
    <2>1. CASE b \in DOMAIN ranges
      BY <2>1, <1>2
    <2>2. CASE b \notin DOMAIN ranges
      <3>1. eventRows' = eventRows
        BY <2>2, <1>2
      <3>2. \A e \in DOMAIN eventRows : e[1] # b
        BY <2>2, <1>23
      <3> QED
        BY <3>1, <3>2
    <2> QED
      BY <2>1, <2>2
  <1>25. ASSUME NEW e \in DOMAIN eventRows' PROVE e \in DOMAIN eventRows /\ e[1] # b /\ eventRows'[e] = eventRows[e]
    <2>1. e \in DOMAIN eventRows /\ e[1] # b
      BY <1>24
    <2>2. CASE b \in DOMAIN ranges
      BY <2>1, <2>2, <1>2
    <2>3. CASE b \notin DOMAIN ranges
      BY <2>1, <2>3, <1>2
    <2> QED
      BY <2>1, <2>2, <2>3
  <1>26. BfChainOK'
    BY <1>3 DEF BfChainOK, OnNode
  <1>27. BfSyncedOK'
    <2>1. \A i \in 1..(m - 1) : synced'[i] = world'.chain[i]
      BY <1>3, <1>9, <1>10
    <2>2. \A i \in 1..(m - 1) : synced'[i] = i \/ synced'[i] > LegacyBlocks
      BY <1>9, <1>10 DEF BfSyncedOK
    <2>3. m - 1 # 0 /\ m - 1 <= Len(world'.chain) /\ m - 1 \in 1..(m - 1)
      BY <1>3, <1>6, <1>7
    <2> QED
      BY ONLY <2>1, <2>2, <2>3, <1>10 DEF BfSyncedOK
  <1>28. BfRowsOK'
    <2>1. eventRows' = [e \in DOMAIN eventRows' |-> eventRows'[e]]
      <3>1. CASE b \in DOMAIN ranges
        BY <3>1, <1>2
      <3>2. CASE b \notin DOMAIN ranges
        BY <3>2, <1>2 DEF BfRowsOK
      <3> QED
        BY <3>1, <3>2
    <2>2. DOMAIN eventRows' = UNION {EventsIn(synced'[i]) : i \in DOMAIN synced'}
      <3>1. ASSUME NEW e \in DOMAIN eventRows' PROVE \E i \in DOMAIN synced' : e \in EventsIn(synced'[i])
        <4>1. PICK i \in DOMAIN synced : e \in EventsIn(synced[i])
          BY <1>25 DEF BfRowsOK
        <4>2. i # m
          BY <4>1, <1>6, <1>25 DEF EventsIn
        <4>3. i \in 1..(m - 1)
          BY <4>2, <1>6
        <4> QED
          BY <4>1, <4>3, <1>10
      <3>2. ASSUME NEW i \in DOMAIN synced', NEW e \in EventsIn(synced'[i]) PROVE e \in DOMAIN eventRows'
        <4>1. i \in DOMAIN synced /\ synced'[i] = synced[i] /\ synced[i] # b
          BY <1>9, <1>10
        <4>2. e \in DOMAIN eventRows
          BY <4>1, <3>2 DEF BfRowsOK
        <4>3. e[1] # b
          BY <4>1, <3>2 DEF EventsIn
        <4> QED
          BY <4>2, <4>3, <1>24
      <3> QED
        BY <3>1, <3>2
    <2>3. \A e \in DOMAIN eventRows' :
            /\ eventRows'[e] = [index |-> eventRows'[e].index, seq |-> eventRows'[e].seq]
            /\ eventRows'[e].seq \in Nat /\ eventRows'[e].index \in {0, e[2]}
            /\ e[1] > LegacyBlocks => eventRows'[e].index = e[2]
      BY <1>25 DEF BfRowsOK
    <2> QED
      BY ONLY <2>1, <2>2, <2>3 DEF BfRowsOK, EventsIn
  <1>29. BfLogOK'
    <2>1. ASSUME NEW k \in DOMAIN dlog', dlog'[k].kind = "removed" PROVE dlog'[k].source \in DOMAIN dlog'
      <3>1. CASE k \in DOMAIN dlog
        <4>1. dlog'[k] = dlog[k] /\ \A j \in DOMAIN dlog : j \in DOMAIN dlog'
          BY ONLY <3>1, <1>19
        <4>2. dlog[k].source \in DOMAIN dlog
          BY ONLY <4>1, <2>1, <3>1, BfInv DEF BfInv, BfLogOK
        <4> QED
          BY ONLY <4>1, <4>2
      <3>2. CASE k \notin DOMAIN dlog
        BY <3>2, <1>15, <1>19, <1>20
      <3> QED
        BY <3>1, <3>2
    <2>2. ASSUME NEW e \in DOMAIN eventRows'
          PROVE  BfStanding(dlog', eventRows'[e].seq) /\ dlog'[eventRows'[e].seq].event = e
      <3>1. PICK k : k = eventRows[e].seq
        OBVIOUS
      <3>2. eventRows'[e] = eventRows[e] /\ e \in DOMAIN eventRows /\ e[1] # b
        BY <1>25
      <3>3. BfStanding(dlog, k) /\ dlog[k].event = e /\ k \notin SourcesOf(b)
        BY <3>1, <3>2, <1>23
      <3>4. BfStanding(dlog', k) /\ dlog'[k].event = e
        BY <3>3, <1>19, <1>21 DEF BfStanding
      <3> QED
        BY <3>1, <3>2, <3>4
    <2>3. ASSUME NEW k \in DOMAIN dlog', BfStanding(dlog', k)
          PROVE  dlog'[k].event \in DOMAIN eventRows' /\ eventRows'[dlog'[k].event].seq = k
      <3>1. BfStanding(dlog, k) /\ k \notin SourcesOf(b) /\ k \in DOMAIN dlog
        BY <2>3, <1>21 DEF BfStanding
      <3>2. PICK e \in DOMAIN eventRows : e = dlog[k].event /\ eventRows[e].seq = k
        BY <3>1 DEF BfLogOK
      <3>3. e[1] # b
        BY <3>1, <3>2, <1>23
      <3>4. e \in DOMAIN eventRows' /\ eventRows'[e] = eventRows[e]
        BY <3>2, <3>3, <1>24, <1>25
      <3> QED
        BY <3>1, <3>2, <3>4, <1>19
    <2>4. migrated' \in BOOLEAN /\ \A e \in DOMAIN eventRows' : eventRows'[e].seq # NoSeq
      BY <1>3, <1>22, <1>25 DEF BfLogOK
    <2> QED
      BY ONLY <1>19, <2>1, <2>2, <2>3, <2>4 DEF BfLogOK, BfRecords
  <1>30. BfRangesOK'
    <2>1. DOMAIN ranges' = DOMAIN ranges \ {b} /\ \A c \in DOMAIN ranges' : ranges'[c] = ranges[c]
      BY <1>2
    <2>2. \A c \in DOMAIN ranges' : ranges'[c] \in Nat \X Nat
      BY <2>1 DEF BfRangesOK
    <2>3. ASSUME NEW k \in DOMAIN dlog', BfStanding(dlog', k)
          PROVE  /\ dlog'[k].event[1] \in DOMAIN ranges'
                 /\ ranges'[dlog'[k].event[1]][1] <= k /\ k <= ranges'[dlog'[k].event[1]][2]
      <3>1. BfStanding(dlog, k) /\ k \notin SourcesOf(b) /\ k \in DOMAIN dlog /\ dlog[k].kind = "accepted"
        BY <2>3, <1>21 DEF BfStanding
      <3>2. PICK c : c = dlog[k].event[1]
        OBVIOUS
      <3>3. c \in DOMAIN ranges /\ ranges[c][1] <= k /\ k <= ranges[c][2]
        BY <3>1, <3>2 DEF BfRangesOK
      <3>4. c # b
        BY <3>1, <3>2, <3>3 DEF SourcesOf
      <3>5. c \in DOMAIN ranges' /\ ranges'[c] = ranges[c] /\ dlog'[k] = dlog[k]
        BY <3>1, <3>3, <3>4, <2>1, <1>19
      <3> QED
        BY <3>2, <3>3, <3>5
    <2> QED
      BY ONLY <2>2, <2>3 DEF BfRangesOK
  <1>31. BfWalkOK'
    <2>1. \A e \in DOMAIN eventRows' :
             eventRows'[e].index # e[2] => e \in DOMAIN eventRows /\ eventRows[e].index # e[2]
      BY <1>25
    <2>2. runner.mode # "walking" /\ (migrated => migrated')
      BY <1>3
    <2> QED
      BY <2>1, <2>2, <1>3, BfWalkKeeps
  <1> QED
    BY <1>26, <1>27, <1>28, <1>29, <1>30, <1>31
\* The part of a sequence after its first p elements, up to the m-th.
LEMMA BfSlice ==
    ASSUME NEW s \in Seq(Nat), NEW p \in Nat, NEW m \in Nat, p <= m, m <= Len(s)
    PROVE  /\ SubSeq(s, p + 1, m) \in Seq(Nat) /\ Len(SubSeq(s, p + 1, m)) = m - p /\ m - p \in Nat
           /\ DOMAIN SubSeq(s, p + 1, m) = 1..(m - p)
           /\ \A i \in 1..(m - p) : SubSeq(s, p + 1, m)[i] = s[p + i]
  <1>1. PICK d \in Nat : d = m - p
    OBVIOUS
  <1>2. PICK a \in Nat : a = p + 1 /\ a >= 1
    OBVIOUS
  <1>3. SubSeq(s, a, m) = [i \in 1..(m - a + 1) |-> s[i + a - 1]]
    BY <1>2
  <1>4. m - a + 1 = d /\ \A i \in 1..d : i + a - 1 = p + i
    BY <1>1, <1>2
  <1>5. SubSeq(s, a, m) = [i \in 1..d |-> s[p + i]]
    BY <1>3, <1>4
  <1>6. \A i \in 1..d : p + i \in 1..Len(s)
    BY <1>1
  <1>7. ASSUME NEW i \in 1..d PROVE s[p + i] \in Nat
    <2>1. PICK k \in 1..Len(s) : k = p + i
      BY <1>6
    <2>2. s[k] \in Nat
      OBVIOUS
    <2> QED
      BY <2>1, <2>2
  <1>8. [i \in 1..d |-> s[p + i]] \in [1..d -> Nat]
    BY ONLY <1>7
  <1>9. [i \in 1..d |-> s[p + i]] \in Seq(Nat) /\ Len([i \in 1..d |-> s[p + i]]) = d
    <2>1. PICK f \in [1..d -> Nat] : f = [i \in 1..d |-> s[p + i]]
      BY <1>8
    <2>2. f \in Seq(Nat) /\ Len(f) = d
      BY ONLY f \in [1..d -> Nat], d \in Nat
    <2> QED
      BY ONLY <2>1, <2>2
  <1> QED
    BY <1>1, <1>2, <1>5, <1>9

\* A row of the store that is still without a position, on the node's chain
\* at its own number.
LEMMA BfBareRow ==
    ASSUME BfInv, NEW e \in DOMAIN eventRows, eventRows[e].index # e[2], OnNode(e[1])
    PROVE  e[1] \in DOMAIN world.chain /\ world.chain[e[1]] = e[1] /\ e[1] \in DOMAIN synced
  <1>1. e[1] \in Nat /\ e[1] <= LegacyBlocks
    <2>1. e[1] \in Nat
      BY BfRowBlock DEF BfInv
    <2>2. ~(e[1] > LegacyBlocks)
      BY DEF BfInv, BfRowsOK
    <2> QED
      BY <2>1, <2>2, LegacyAssumption
  <1> QED
    BY <1>1, BfRowBlock, BfLegacyHeight DEF BfInv

LEMMA BfPruningPoint ==
    ASSUME BfInv
    PROVE  OnNode(world.chain[world.pruned]) /\ PlaceOf(world.chain[world.pruned]) = world.pruned
           /\ BfReached(world.chain[world.pruned])
  <1>1. world.pruned \in DOMAIN world.chain
    BY DEF BfInv, BfChainOK
  <1>2. OnNode(world.chain[world.pruned]) /\ PlaceOf(world.chain[world.pruned]) = world.pruned
    BY <1>1, BfHeightOf DEF BfInv
  <1>3. \A e \in DOMAIN eventRows : e[1] \in Nat
    BY BfRowBlock DEF BfInv
  <1>4. world.pruned \in Nat
    BY DEF BfInv, BfChainOK
  <1> QED
    BY <1>2, <1>3, <1>4 DEF BfReached

\* The sync cursor on the chain stands at the store's last position.
LEMMA BfStopPlace ==
    ASSUME BfInv, OnNode(Last(synced))
    PROVE  PlaceOf(Last(synced)) = Len(synced)
  <1>1. Last(synced) = world.chain[Len(synced)]
    BY DEF BfInv, BfSyncedOK, BfChainOK, Last
  <1>2. Len(synced) \in DOMAIN world.chain
    BY DEF BfInv, BfSyncedOK, BfChainOK
  <1> QED
    BY <1>1, <1>2, BfHeightOf DEF BfInv

\* What a response stamps, and how far.
LEMMA BfStrides ==
    ASSUME BfInv, runner.mode = "walking", UNCHANGED <<world, synced, dlog, ranges, migrated>>,
           eventRows' = IF Response = <<>> THEN eventRows ELSE Stamped(Response)
    PROVE  /\ BfChainOK' /\ BfSyncedOK' /\ BfRowsOK' /\ BfLogOK' /\ BfRangesOK'
           /\ \E far \in Nat :
                /\ \A e \in DOMAIN eventRows' : eventRows'[e].index # e[2] /\ OnNode(e[1])' =>
                     /\ e \in DOMAIN eventRows /\ eventRows[e].index # e[2] /\ OnNode(e[1])
                     /\ e[1] \in Nat /\ e[1] <= Len(world.chain) /\ e[1] \in DOMAIN synced
                     /\ e[1] <= world.pruned \/ e[1] > far
                /\ Response = <<>> => far = Len(world.chain)
                /\ Response # <<>> => OnNode(Last(Response)) /\ PlaceOf(Last(Response)) = far /\ Last(Response) \in Nat
  <1> DEFINE start == IF Walkable(runner.cursor) THEN runner.cursor ELSE world.chain[world.pruned]
  <1>1. PICK from : from = start
    OBVIOUS
  <1>2. PICK batch : batch = UpToStop(FollowersOf(from)) /\ batch = Response
    BY <1>1 DEF Response
  <1>3. /\ runner.mode = "walking" /\ UNCHANGED <<world, synced, dlog, ranges, migrated>>
        /\ eventRows' = IF batch = <<>> THEN eventRows ELSE Stamped(batch)
    BY <1>2
  <1>4. BfReached(runner.cursor) /\ runner.stop = Last(synced) /\ migrated
    BY <1>3 DEF BfInv, BfWalkOK
  <1>5. BfReached(from)
    BY <1>1, <1>4, BfPruningPoint
  <1>6. PICK p \in Nat : p = PlaceOf(from) /\ p >= 1 /\ p <= Len(world.chain)
    BY <1>5, BfPlace DEF BfInv, BfReached
  <1>7. PICK len \in Nat : len = Len(world.chain) /\ DOMAIN world.chain = 1..len /\ world.chain \in Seq(Nat)
    BY DEF BfInv, BfChainOK
  <1>8. PICK m \in Nat : m = (IF p + ResponseCap < len THEN p + ResponseCap ELSE len)
    BY BatchAssumption
  <1>9. m <= len /\ p <= m /\ (m = p => p = len)
    BY <1>6, <1>7, <1>8, BatchAssumption
  <1>10. FollowersOf(from) = SubSeq(world.chain, p + 1, m)
    BY <1>6, <1>7, <1>8 DEF FollowersOf
  <1>11. FollowersOf(from) \in Seq(Nat) /\ Len(FollowersOf(from)) = m - p /\ m - p \in Nat
         /\ DOMAIN FollowersOf(from) = 1..(m - p)
         /\ \A i \in 1..(m - p) : FollowersOf(from)[i] = world.chain[p + i]
    <2>1. m <= Len(world.chain)
      BY <1>7, <1>9
    <2> QED
      <3>1. PICK s \in Seq(Nat) : s = world.chain
        BY <1>7
      <3>2. m <= Len(s) /\ p <= m
        BY <2>1, <1>9, <3>1
      <3>3. /\ SubSeq(s, p + 1, m) \in Seq(Nat) /\ Len(SubSeq(s, p + 1, m)) = m - p /\ m - p \in Nat
            /\ DOMAIN SubSeq(s, p + 1, m) = 1..(m - p)
            /\ \A i \in 1..(m - p) : SubSeq(s, p + 1, m)[i] = s[p + i]
        BY <3>2, BfSlice
      <3>4. FollowersOf(from) = SubSeq(s, p + 1, m)
        BY <1>10, <3>1
      <3> QED
        BY ONLY <3>1, <3>3, <3>4
  <1>dd. PICK d \in Nat : d = m - p
    BY <1>11
  <1>12. PICK q \in 0..d :
           /\ batch \in Seq(Nat) /\ Len(batch) = q /\ DOMAIN batch = 1..q
           /\ \A i \in 1..q : batch[i] = world.chain[p + i]
           /\ q = 0 => m = p
    <2>1. PICK added : added = FollowersOf(from)
      OBVIOUS
    <2>2. added \in Seq(Nat) /\ Len(added) = d /\ d \in Nat /\ DOMAIN added = 1..d
          /\ \A i \in 1..d : added[i] = world.chain[p + i]
      BY <1>11, <1>dd, <2>1
    <2>3. CASE runner.stop \in ToSet(added)
      <3>1. PICK k \in DOMAIN added : k = CHOOSE i \in DOMAIN added : added[i] = runner.stop
        <4>1. \E i \in DOMAIN added : added[i] = runner.stop
          BY <2>3 DEF ToSet
        <4> QED
          BY <4>1
      <3>2. batch = SubSeq(added, 1, k)
        BY <1>2, <2>1, <2>3, <3>1 DEF UpToStop
      <3>3. k \in 1..d /\ k \in Nat /\ k # 0
        BY ONLY <2>2, k \in DOMAIN added, d \in Nat
      <3>4. batch \in Seq(Nat) /\ Len(batch) = k /\ DOMAIN batch = 1..k /\ \A i \in 1..k : batch[i] = added[i]
        <4>1. k <= Len(added)
          BY <2>2, <3>3
        <4>2. SubSeq(added, 1, k) \in Seq(Nat) /\ Len(SubSeq(added, 1, k)) = k
              /\ DOMAIN SubSeq(added, 1, k) = 1..k /\ \A i \in 1..k : SubSeq(added, 1, k)[i] = added[i]
          BY ONLY SMTT(20), <2>2, <3>3, <4>1
        <4> QED
          BY ONLY <3>2, <4>2
      <3>5. \A i \in 1..k : batch[i] = world.chain[p + i]
        BY SMTT(20), <2>2, <3>3, <3>4
      <3>6. k \in 0..d /\ k # 0
        BY <3>3
      <3> QED
        BY ONLY <3>4, <3>5, <3>6
    <2>4. CASE runner.stop \notin ToSet(added)
      <3>1. batch = added
        BY <1>2, <2>1, <2>4 DEF UpToStop
      <3>2. d \in 0..d /\ (d = 0 => m = p)
        BY <1>dd
      <3> QED
        BY <2>2, <3>1, <3>2
    <2> QED
      BY <2>3, <2>4
  <1>13. q \in Nat /\ p + q <= len /\ (batch = <<>> <=> q = 0)
    BY <1>9, <1>dd, <1>12
  \* what a row is afterwards
  <1>14. /\ DOMAIN eventRows' = DOMAIN eventRows /\ eventRows' = [e \in DOMAIN eventRows' |-> eventRows'[e]]
         /\ \A e \in DOMAIN eventRows :
              \/ eventRows'[e] = eventRows[e] /\ (eventRows[e].index = 0 => e[1] \notin ToSet(batch))
              \/ eventRows'[e] = [index |-> e[2], seq |-> eventRows[e].seq]
    <2>1. CASE batch = <<>>
      BY <2>1, <1>3 DEF BfInv, BfRowsOK, ToSet
    <2>2. CASE batch # <<>>
      BY <2>2, <1>3 DEF Stamped
    <2> QED
      BY <2>1, <2>2
  <1>15. ASSUME NEW e \in DOMAIN eventRows
         PROVE  /\ eventRows'[e] = [index |-> eventRows'[e].index, seq |-> eventRows'[e].seq]
                /\ eventRows'[e].seq = eventRows[e].seq /\ eventRows'[e].index \in {eventRows[e].index, e[2]}
    <2>1. CASE eventRows'[e] = eventRows[e]
      BY <2>1 DEF BfInv, BfRowsOK
    <2>2. CASE eventRows'[e] = [index |-> e[2], seq |-> eventRows[e].seq]
      BY <2>2
    <2> QED
      BY <2>1, <2>2, <1>14
  <1>16. BfChainOK' /\ BfSyncedOK'
    BY <1>3 DEF BfInv, BfChainOK, BfSyncedOK, OnNode
  <1>17. BfRowsOK'
    <2>1. DOMAIN eventRows' = UNION {EventsIn(synced'[i]) : i \in DOMAIN synced'}
      BY <1>3, <1>14 DEF BfInv, BfRowsOK
    <2>2. \A e \in DOMAIN eventRows : /\ eventRows[e].seq \in Nat /\ eventRows[e].index \in {0, e[2]}
                                      /\ e[1] > LegacyBlocks => eventRows[e].index = e[2]
      BY DEF BfInv, BfRowsOK
    <2>3. \A e \in DOMAIN eventRows' :
            /\ eventRows'[e] = [index |-> eventRows'[e].index, seq |-> eventRows'[e].seq]
            /\ eventRows'[e].seq \in Nat /\ eventRows'[e].index \in {0, e[2]}
            /\ e[1] > LegacyBlocks => eventRows'[e].index = e[2]
      BY <1>14, <1>15, <2>2
    <2> QED
      BY ONLY <2>1, <2>3, <1>14 DEF BfRowsOK, EventsIn
  <1>18. BfLogOK'
    <2>1. \A e \in DOMAIN eventRows : eventRows'[e].seq = eventRows[e].seq
      BY <1>15
    <2>2. BfLogOK /\ UNCHANGED <<dlog, migrated>> /\ DOMAIN eventRows' = DOMAIN eventRows
      BY <1>3, <1>14 DEF BfInv
    <2>3. BfLogOK' <=>
            /\ dlog \in Seq([kind : {"accepted", "removed"}, source : Nat, event : Nat \X Nat])
            /\ \A k \in DOMAIN dlog : dlog[k].kind = "removed" => dlog[k].source \in DOMAIN dlog
            /\ \A e \in DOMAIN eventRows' :
                 eventRows'[e].seq # NoSeq => BfStanding(dlog, eventRows'[e].seq) /\ dlog[eventRows'[e].seq].event = e
            /\ \A k \in DOMAIN dlog : BfStanding(dlog, k) =>
                 /\ dlog[k].event \in DOMAIN eventRows' /\ eventRows'[dlog[k].event].seq = k
            /\ migrated \in BOOLEAN
            /\ migrated => \A e \in DOMAIN eventRows' : eventRows'[e].seq # NoSeq
      BY ONLY <2>2 DEF BfLogOK
    <2> QED
      BY ONLY <2>1, <2>2, <2>3 DEF BfLogOK
  <1>19. BfRangesOK'
    BY <1>3 DEF BfInv, BfRangesOK
  \* what is still bare lies beyond the batch
  <1>20. ASSUME NEW e \in DOMAIN eventRows', eventRows'[e].index # e[2], OnNode(e[1])'
         PROVE  /\ e \in DOMAIN eventRows /\ eventRows[e].index # e[2] /\ OnNode(e[1])
                /\ e[1] \in Nat /\ e[1] <= len /\ e[1] \in DOMAIN synced
                /\ e[1] <= world.pruned \/ e[1] > p + q
    <2>1. e \in DOMAIN eventRows /\ OnNode(e[1])
      BY <1>3, <1>14, <1>20 DEF OnNode
    <2>2. eventRows'[e] = eventRows[e] /\ (eventRows[e].index = 0 => e[1] \notin ToSet(batch))
      <3>1. eventRows'[e] # [index |-> e[2], seq |-> eventRows[e].seq]
        BY <1>20
      <3> QED
        BY <2>1, <3>1, <1>14
    <2>3. eventRows[e].index # e[2] /\ eventRows[e].index = 0
      BY <2>1, <2>2, <1>20 DEF BfInv, BfRowsOK
    <2>4. e[1] \in DOMAIN world.chain /\ world.chain[e[1]] = e[1] /\ e[1] \in DOMAIN synced
      BY <2>1, <2>3, BfBareRow
    <2>5. e[1] <= world.pruned \/ e[1] > p
      BY <2>1, <2>3, <1>5, <1>6 DEF BfReached
    <2>6. PICK h \in Nat : h = e[1] /\ h <= len /\ h >= 1
      BY <2>4, <1>7
    <2>7. ASSUME h > p, h <= p + q PROVE FALSE
      <3>1. h - p \in 1..q /\ p + (h - p) = h
        BY <2>7, <1>13
      <3>2. batch[h - p] = h
        BY <3>1, <2>4, <2>6, <1>12
      <3>3. h \in ToSet(batch)
        BY <3>1, <3>2, <1>12 DEF ToSet
      <3> QED
        BY <3>3, <2>2, <2>3, <2>6
    <2>8. h <= world.pruned \/ h > p + q
      BY <2>5, <2>6, <2>7, <1>13
    <2> QED
      BY <2>1, <2>3, <2>4, <2>6, <2>8
  <1>21. batch # <<>> => OnNode(Last(batch)) /\ PlaceOf(Last(batch)) = p + q /\ Last(batch) \in Nat
    <2> SUFFICES ASSUME batch # <<>> PROVE OnNode(Last(batch)) /\ PlaceOf(Last(batch)) = p + q /\ Last(batch) \in Nat
      OBVIOUS
    <2>1. q >= 1 /\ p + q \in DOMAIN world.chain /\ Last(batch) = world.chain[p + q]
      BY <1>7, <1>12, <1>13 DEF Last
    <2> QED
      BY <2>1, <1>7, BfHeightOf DEF BfInv
  <1>22. batch = <<>> => p + q = len
    BY <1>9, <1>12, <1>13
  <1>23. PICK far \in Nat : far = p + q
    BY <1>6, <1>13
  <1>24. /\ \A e \in DOMAIN eventRows' : eventRows'[e].index # e[2] /\ OnNode(e[1])' =>
              /\ e \in DOMAIN eventRows /\ eventRows[e].index # e[2] /\ OnNode(e[1])
              /\ e[1] \in Nat /\ e[1] <= Len(world.chain) /\ e[1] \in DOMAIN synced
              /\ e[1] <= world.pruned \/ e[1] > far
    BY <1>7, <1>20, <1>23
  <1>25. /\ Response = <<>> => far = Len(world.chain)
         /\ Response # <<>> => OnNode(Last(Response)) /\ PlaceOf(Last(Response)) = far /\ Last(Response) \in Nat
    BY <1>2, <1>7, <1>21, <1>22, <1>23
  <1> QED
    BY <1>16, <1>17, <1>18, <1>19, <1>24, <1>25

\* A block is reached when all that is still bare lies beyond it.
LEMMA BfReaches ==
    ASSUME BfInv, UNCHANGED world, NEW c, OnNode(c),
           \A e \in DOMAIN eventRows' :
             eventRows'[e].index # e[2] /\ OnNode(e[1])' => e[1] <= world.pruned \/ e[1] > PlaceOf(c)
    PROVE  BfReached(c)'
  <1>1. OnNode(c)' /\ PlaceOf(c)' = PlaceOf(c) /\ world' = world
    BY DEF OnNode, PlaceOf, HeightOf
  <1>2. \A e \in DOMAIN eventRows' :
          eventRows'[e].index # e[2] /\ OnNode(e[1])' => e[1] <= world'.pruned \/ e[1] > PlaceOf(c)'
    BY <1>1
  <1> QED
    BY ONLY <1>1, <1>2 DEF BfReached

LEMMA BfWalks ==
    ASSUME BfInv, WalkStep
    PROVE  BfInv'
  <1>1. PICK batch : batch = Response
    OBVIOUS
  <1>2. /\ runner.mode = "walking" /\ UNCHANGED <<world, synced, dlog, ranges, migrated>>
        /\ eventRows' = IF Response = <<>> THEN eventRows ELSE Stamped(Response)
    BY DEF WalkStep
  <1>3. /\ batch = <<>> => Finish
        /\ batch # <<>> /\ Last(batch) = runner.stop => Finish
        /\ batch # <<>> /\ Last(batch) # runner.stop =>
             /\ marked' = AtLast(batch) /\ ghosts' = ghosts
             /\ runner' = [mode |-> "walking", cursor |-> Last(batch), stop |-> runner.stop]
    BY <1>1 DEF WalkStep
  <1>4. runner.stop = Last(synced) /\ migrated
    BY <1>2 DEF BfInv, BfWalkOK
  <1>5. /\ BfChainOK' /\ BfSyncedOK' /\ BfRowsOK' /\ BfLogOK' /\ BfRangesOK'
        /\ \E far \in Nat :
             /\ \A e \in DOMAIN eventRows' : eventRows'[e].index # e[2] /\ OnNode(e[1])' =>
                  /\ e[1] \in Nat /\ e[1] <= Len(world.chain) /\ e[1] \in DOMAIN synced
                  /\ e[1] <= world.pruned \/ e[1] > far
             /\ batch = <<>> => far = Len(world.chain)
             /\ batch # <<>> => OnNode(Last(batch)) /\ PlaceOf(Last(batch)) = far /\ Last(batch) \in Nat
    BY <1>1, <1>2, BfStrides
  <1>6. PICK far \in Nat :
          /\ \A e \in DOMAIN eventRows' : eventRows'[e].index # e[2] /\ OnNode(e[1])' =>
               /\ e[1] \in Nat /\ e[1] <= Len(world.chain) /\ e[1] \in DOMAIN synced
               /\ e[1] <= world.pruned \/ e[1] > far
          /\ batch = <<>> => far = Len(world.chain)
          /\ batch # <<>> => OnNode(Last(batch)) /\ PlaceOf(Last(batch)) = far /\ Last(batch) \in Nat
    BY <1>5
  <1>7. Len(world.chain) \in Nat /\ Len(synced) \in Nat /\ DOMAIN synced = 1..Len(synced)
    BY DEF BfInv, BfChainOK, BfSyncedOK
  <1>8. ASSUME Finish,
               \A e \in DOMAIN eventRows' :
                 eventRows'[e].index # e[2] /\ OnNode(e[1])' => e[1] <= world.pruned
        PROVE  BfWalkOK'
    <2>1. marked'.at = 0 /\ runner'.mode = "following" /\ ghosts'.prunedAtDone = world.pruned /\ migrated'
      BY <1>2, <1>4, <1>8 DEF Finish, Following
    <2> QED
      BY ONLY <2>1, <1>8 DEF BfWalkOK
  <1>9. CASE batch = <<>>
    BY <1>3, <1>5, <1>6, <1>7, <1>8, <1>9 DEF BfInv
  <1>10. CASE batch # <<>> /\ Last(batch) = runner.stop
    <2>1. far = Len(synced)
      BY <1>4, <1>6, <1>10, BfStopPlace
    <2>2. \A e \in DOMAIN eventRows' :
            eventRows'[e].index # e[2] /\ OnNode(e[1])' => e[1] <= world.pruned
      BY <2>1, <1>6, <1>7
    <2> QED
      BY <2>2, <1>3, <1>5, <1>8, <1>10 DEF BfInv
  <1>11. CASE batch # <<>> /\ Last(batch) # runner.stop
    <2>1. PICK c : c = Last(batch)
      OBVIOUS
    <2>2. BfReached(c)'
      BY <2>1, <1>2, <1>6, <1>11, BfReaches
    <2>3. runner'.stop = Last(synced)' /\ runner'.cursor = c /\ marked'.at = c /\ ~marked'.done
          /\ runner'.mode = "walking" /\ migrated'
      BY <2>1, <1>2, <1>3, <1>4, <1>11 DEF Last, AtLast
    <2>4. BfWalkOK'
      BY ONLY <2>2, <2>3 DEF BfWalkOK, BfReached
    <2> QED
      BY <2>4, <1>5 DEF BfInv
  <1> QED
    BY <1>9, <1>10, <1>11

\* Rows stamped without the progress of the walk: whatever was reached still
\* is, and a walk that is entered again stamps nothing twice.
LEMMA BfBreaks ==
    ASSUME BfInv, WalkBreaks
    PROVE  BfInv'
  <1>1. PICK batch : batch = Response /\ batch # <<>>
    BY DEF WalkBreaks
  <1>2. /\ runner.mode = "walking" /\ UNCHANGED <<world, synced, dlog, ranges, migrated>>
        /\ eventRows' = IF Response = <<>> THEN eventRows ELSE Stamped(Response)
        /\ marked' \in {marked, AtLast(batch)} /\ ghosts'.prunedAtDone = ghosts.prunedAtDone
        /\ runner'.mode \in {"offline", "following"}
    BY <1>1 DEF WalkBreaks, Offline, Following
  <1>3. /\ BfChainOK' /\ BfSyncedOK' /\ BfRowsOK' /\ BfLogOK' /\ BfRangesOK'
        /\ \E far \in Nat :
             /\ \A e \in DOMAIN eventRows' : eventRows'[e].index # e[2] /\ OnNode(e[1])' =>
                  /\ e \in DOMAIN eventRows /\ eventRows[e].index # e[2] /\ OnNode(e[1])
                  /\ e[1] <= world.pruned \/ e[1] > far
             /\ OnNode(Last(batch)) /\ PlaceOf(Last(batch)) = far
    BY <1>1, <1>2, BfStrides
  <1>4. PICK far \in Nat :
          /\ \A e \in DOMAIN eventRows' : eventRows'[e].index # e[2] /\ OnNode(e[1])' =>
               /\ e \in DOMAIN eventRows /\ eventRows[e].index # e[2] /\ OnNode(e[1])
               /\ e[1] <= world.pruned \/ e[1] > far
          /\ OnNode(Last(batch)) /\ PlaceOf(Last(batch)) = far
    BY <1>3
  <1>5. migrated' /\ runner'.mode \in {"offline", "walking", "following"} /\ runner'.mode # "walking"
    BY <1>2 DEF BfInv, BfWalkOK
  <1>6. CASE marked' = marked
    <2>1. ASSUME NEW c, BfReached(c) PROVE BfReached(c)'
      <3>1. (OnNode(c) \/ c \in DOMAIN world.forks)' /\ PlaceOf(c)' = PlaceOf(c) /\ world' = world
        BY <2>1, <1>2 DEF BfReached, OnNode, PlaceOf, HeightOf
      <3>2. \A e \in DOMAIN eventRows' :
              eventRows'[e].index # e[2] /\ OnNode(e[1])' => e[1] <= world'.pruned \/ e[1] > PlaceOf(c)'
        BY <2>1, <3>1, <1>4 DEF BfReached
      <3> QED
        BY ONLY <3>1, <3>2 DEF BfReached
    <2>2. PICK a : a = marked.at
      OBVIOUS
    <2>3. a # 0 => BfReached(a)'
      BY <2>1, <2>2 DEF BfInv, BfWalkOK
    <2>4. marked'.done => \A e \in DOMAIN eventRows' :
            eventRows'[e].index # e[2] /\ OnNode(e[1])' => e[1] <= ghosts'.prunedAtDone
      BY <1>2, <1>4, <1>6 DEF BfInv, BfWalkOK
    <2>5. BfWalkOK'
      BY ONLY <2>2, <2>3, <2>4, <1>5, <1>6 DEF BfWalkOK, BfReached
    <2> QED
      BY <2>5, <1>3 DEF BfInv
  <1>7. CASE marked' = AtLast(batch)
    <2>1. PICK c : c = Last(batch)
      OBVIOUS
    <2>2. BfReached(c)'
      BY <2>1, <1>2, <1>4, BfReaches
    <2>3. marked'.at = c /\ ~marked'.done
      BY <2>1, <1>7 DEF AtLast
    <2>4. BfWalkOK'
      BY ONLY <2>2, <2>3, <1>5 DEF BfWalkOK, BfReached
    <2> QED
      BY <2>4, <1>3 DEF BfInv
  <1> QED
    BY <1>2, <1>6, <1>7

LEMMA BfRowsKept ==
    ASSUME BfRowsOK, UNCHANGED <<synced, eventRows>>
    PROVE  BfRowsOK'
  <1>1. DOMAIN eventRows' = UNION {EventsIn(synced'[i]) : i \in DOMAIN synced'}
    BY DEF BfRowsOK
  <1>2. eventRows' = [e \in DOMAIN eventRows' |-> eventRows'[e]]
    BY DEF BfRowsOK
  <1>3. \A e \in DOMAIN eventRows' :
         /\ eventRows'[e] = [index |-> eventRows'[e].index, seq |-> eventRows'[e].seq]
         /\ eventRows'[e].seq \in Nat /\ eventRows'[e].index \in {0, e[2]}
         /\ e[1] > LegacyBlocks => eventRows'[e].index = e[2]
    BY DEF BfRowsOK
  <1> QED
    BY ONLY <1>1, <1>2, <1>3 DEF BfRowsOK, EventsIn

\* The node moves: what was behind a walk's place stays behind it.
LEMMA BfNodeMoves ==
    ASSUME BfInv, BfChainOK', BfSyncedOK',
           UNCHANGED <<synced, eventRows, dlog, ranges, migrated, marked, runner, ghosts>>,
           world'.pruned >= world.pruned,
           \A b \in Nat : b <= LegacyBlocks /\ OnNode(b)' => OnNode(b),
           \A b : OnNode(b) \/ b \in DOMAIN world.forks =>
             (OnNode(b)' \/ b \in DOMAIN world'.forks) /\ PlaceOf(b)' <= PlaceOf(b) /\ PlaceOf(b)' \in Nat
    PROVE  BfInv'
  <1>1. BfRowsOK' /\ BfLogOK' /\ BfRangesOK'
    <2>1. BfRowsOK'
      BY BfRowsKept DEF BfInv
    <2>2. BfLogOK'
      BY DEF BfInv, BfLogOK
    <2>3. BfRangesOK'
      BY DEF BfInv, BfRangesOK
    <2> QED
      BY <2>1, <2>2, <2>3
  <1>2. ASSUME NEW e \in DOMAIN eventRows, eventRows[e].index # e[2], OnNode(e[1])'
        PROVE  OnNode(e[1]) /\ e[1] \in Nat
    <2>1. e[1] \in Nat
      BY BfRowBlock DEF BfInv
    <2>2. ~(e[1] > LegacyBlocks)
      BY <1>2 DEF BfInv, BfRowsOK
    <2> QED
      BY <2>1, <2>2, <1>2, LegacyAssumption
  <1>3. world.pruned \in Nat /\ world'.pruned \in Nat
    BY DEF BfInv, BfChainOK
  <1>4. ASSUME NEW c, BfReached(c) PROVE BfReached(c)'
    <2>1. OnNode(c) \/ c \in DOMAIN world.forks
      BY <1>4 DEF BfReached
    <2>2. (OnNode(c)' \/ c \in DOMAIN world'.forks) /\ PlaceOf(c)' <= PlaceOf(c) /\ PlaceOf(c)' \in Nat
      BY <2>1
    <2>3. PICK p, r : p = PlaceOf(c) /\ r = PlaceOf(c)'
      OBVIOUS
    <2>4. p \in Nat /\ r \in Nat /\ r <= p
      BY <2>1, <2>2, <2>3, BfPlace DEF BfInv
    <2>5. ASSUME NEW e \in DOMAIN eventRows', eventRows'[e].index # e[2], OnNode(e[1])'
          PROVE  e[1] <= world'.pruned \/ e[1] > r
      <3>1. e \in DOMAIN eventRows /\ eventRows[e].index # e[2]
        BY <2>5
      <3>2. OnNode(e[1]) /\ e[1] \in Nat
        BY <3>1, <2>5, <1>2
      <3>3. e[1] <= world.pruned \/ e[1] > p
        BY <3>1, <3>2, <2>3, <1>4 DEF BfReached
      <3> QED
        BY ONLY <3>2, <3>3, <2>4, <1>3, world'.pruned >= world.pruned
    <2> QED
      BY ONLY <2>2, <2>3, <2>5 DEF BfReached
  <1>5. BfWalkOK'
    <2>1. runner'.mode \in {"offline", "walking", "following"} /\ (runner'.mode # "offline" => migrated')
      BY DEF BfInv, BfWalkOK
    <2>2. ASSUME runner'.mode = "walking" PROVE runner'.stop = Last(synced)' /\ BfReached(runner.cursor)'
      <3>1. PICK c : c = runner.cursor /\ c = runner'.cursor
        OBVIOUS
      <3>2. BfReached(c) /\ runner.stop = Last(synced)
        BY <3>1, <2>2 DEF BfInv, BfWalkOK
      <3>3. BfReached(c)'
        BY <3>2, <1>4
      <3>4. runner'.stop = Last(synced)'
        BY <3>2 DEF Last
      <3> QED
        BY ONLY <3>1, <3>3, <3>4 DEF BfReached
    <2>3. ASSUME marked'.at # 0 PROVE BfReached(marked.at)'
      <3>1. PICK c : c = marked.at /\ c = marked'.at
        OBVIOUS
      <3>2. BfReached(c)
        BY <3>1, <2>3 DEF BfInv, BfWalkOK
      <3>3. BfReached(c)'
        BY <3>2, <1>4
      <3> QED
        BY ONLY <3>1, <3>3 DEF BfReached
    <2>4. ASSUME marked'.done, NEW e \in DOMAIN eventRows', eventRows'[e].index # e[2], OnNode(e[1])'
          PROVE  e[1] <= ghosts'.prunedAtDone
      <3>1. e \in DOMAIN eventRows /\ eventRows[e].index # e[2] /\ OnNode(e[1])
        BY <2>4, <1>2
      <3> QED
        BY <3>1, <2>4 DEF BfInv, BfWalkOK
    <2> QED
      BY ONLY <2>1, <2>2, <2>3, <2>4 DEF BfWalkOK
  <1> QED
    BY <1>1, <1>5 DEF BfInv

LEMMA BfExtends ==
    ASSUME BfInv, NodeExtends
    PROVE  BfInv'
  <1>1. /\ world.next \in DOMAIN Positions
        /\ world' = [chain |-> Append(world.chain, world.next), pruned |-> world.pruned,
                     next |-> world.next + 1, forks |-> world.forks]
        /\ UNCHANGED <<synced, eventRows, dlog, ranges, migrated, marked, runner, ghosts>>
    BY DEF NodeExtends
  <1>2. PICK chain \in Seq(Nat), len \in Nat, new \in Nat :
          chain = world.chain /\ len = Len(chain) /\ new = world.next /\ new > LegacyBlocks
          /\ DOMAIN chain = 1..len /\ len >= 1
    BY DEF BfInv, BfChainOK
  <1>3. /\ world'.chain \in Seq(Nat) /\ Len(world'.chain) = len + 1 /\ DOMAIN world'.chain = 1..(len + 1)
        /\ world'.chain[len + 1] = new /\ \A h \in 1..len : world'.chain[h] = chain[h]
        /\ world'.pruned = world.pruned /\ world'.forks = world.forks /\ world'.next = new + 1
    BY <1>1, <1>2
  <1>4. BfChainOK
    BY DEF BfInv
  <1>5. \A b : OnNode(b) <=> \E h \in 1..len : chain[h] = b
    BY <1>2 DEF OnNode
  <1>6. \A b : OnNode(b)' <=> OnNode(b) \/ b = new
    <2>1. \A h : h \in 1..(len + 1) <=> h \in 1..len \/ h = len + 1
      BY <1>2
    <2> QED
      BY <1>3, <1>5, <2>1 DEF OnNode
  <1>7. BfChainOK'
    <2>1. world' = [chain |-> world'.chain, pruned |-> world'.pruned, next |-> world'.next, forks |-> world'.forks]
      BY <1>1
    <2>2. world'.pruned \in Nat \ {0} /\ world'.pruned <= Len(world'.chain) /\ world'.next \in Nat
          /\ world'.next > LegacyBlocks /\ world'.chain[1] = 1
      <3>1. world.pruned \in Nat \ {0} /\ world.pruned <= len /\ chain[1] = 1
        BY <1>2, <1>4 DEF BfChainOK
      <3>2. 1 \in 1..len
        BY <1>2
      <3> QED
        <4>1. world'.chain[1] = 1 /\ world'.pruned \in Nat \ {0}
          BY ONLY <3>1, <3>2, <1>3
        <4>2. world'.pruned <= len + 1 /\ Len(world'.chain) = len + 1
          BY ONLY <3>1, <1>3, len \in Nat
        <4>3. world'.next \in Nat /\ world'.next > LegacyBlocks
          <5>1. world'.next = new + 1
            BY <1>3
          <5>2. new > LegacyBlocks /\ LegacyBlocks \in Nat
            BY <1>2, LegacyAssumption
          <5> QED
            BY ONLY <5>1, <5>2, new \in Nat
        <4> QED
          BY ONLY <4>1, <4>2, <4>3
    <2>3. ASSUME NEW h \in DOMAIN world'.chain
          PROVE  /\ world'.chain[h] \in DOMAIN Positions /\ world'.chain[h] < world'.next
                 /\ world'.chain[h] = h \/ world'.chain[h] > LegacyBlocks
      <3>1. CASE h = len + 1
        BY <3>1, <1>1, <1>2, <1>3
      <3>2. CASE h \in 1..len
        <4>1. world'.chain[h] = chain[h] /\ h \in DOMAIN world.chain
          BY ONLY <3>2, <1>2, <1>3
        <4>2. chain[h] \in Nat /\ chain[h] < new
          BY <3>2, <4>1, <1>2, <1>4 DEF BfChainOK
        <4> QED
          BY <3>2, <4>1, <4>2, <1>2, <1>3, <1>4 DEF BfChainOK
      <3>3. h \in 1..len \/ h = len + 1
        BY ONLY h \in DOMAIN world'.chain, <1>3, len \in Nat
      <3> QED
        BY <3>1, <3>2, <3>3
    <2>4. ASSUME NEW h \in DOMAIN world'.chain, NEW k \in DOMAIN world'.chain, world'.chain[h] = world'.chain[k]
          PROVE  h = k
      <3>1. \A j \in 1..len : world'.chain[j] = chain[j] /\ chain[j] # new
        BY SMTT(20), <1>2, <1>3, <1>4 DEF BfChainOK
      <3>2. (h \in 1..len \/ h = len + 1) /\ (k \in 1..len \/ k = len + 1)
        BY ONLY h \in DOMAIN world'.chain, k \in DOMAIN world'.chain, <1>3, len \in Nat
      <3>3. \A i, j \in 1..len : chain[i] = chain[j] => i = j
        BY <1>2, <1>4 DEF BfChainOK
      <3> QED
        BY ONLY <3>1, <3>2, <3>3, <2>4, <1>3
    <2>5. ASSUME NEW b \in DOMAIN world'.forks
          PROVE  /\ b \in Nat /\ b < world'.next /\ ~OnNode(b)'
                 /\ world'.forks[b] \in Nat \ {0} /\ world'.forks[b] < Len(world'.chain)
      <3>1. /\ b \in Nat /\ b < new /\ ~OnNode(b)
            /\ world.forks[b] \in Nat \ {0} /\ world.forks[b] < len
        BY <1>2, <1>3, <1>4 DEF BfChainOK
      <3> QED
        BY <3>1, <1>2, <1>3, <1>6
    <2> QED
      BY ONLY <1>3, <2>1, <2>2, <2>3, <2>4, <2>5 DEF BfChainOK
  <1>8. BfSyncedOK'
    <2>1. \A i \in DOMAIN synced : i \in 1..len
      BY <1>2 DEF BfInv, BfSyncedOK
    <2>2. Len(synced) <= len /\ Len(synced) \in 1..len
      BY <1>2 DEF BfInv, BfSyncedOK
    <2> QED
      BY <1>1, <1>2, <1>3, <2>1, <2>2 DEF BfInv, BfSyncedOK
  <1>9. ASSUME NEW b \in Nat, b <= LegacyBlocks, OnNode(b)' PROVE OnNode(b)
    BY <1>2, <1>6, <1>9, LegacyAssumption
  <1>10. ASSUME NEW b, OnNode(b) \/ b \in DOMAIN world.forks
         PROVE  (OnNode(b)' \/ b \in DOMAIN world'.forks) /\ PlaceOf(b)' <= PlaceOf(b) /\ PlaceOf(b)' \in Nat
    <2>1. CASE OnNode(b)
      <3>1. PICK h \in 1..len : chain[h] = b
        BY <2>1, <1>5
      <3>2. PlaceOf(b) = h
        BY <3>1, <1>2, <1>4, BfHeightOf
      <3>3. h \in DOMAIN world'.chain /\ world'.chain[h] = b
        BY ONLY SMTT(20), h \in 1..len, chain[h] = b, len \in Nat, <3>1, <1>3
      <3>4. OnNode(b)' /\ PlaceOf(b)' = h
        <4>1. \A j \in DOMAIN world'.chain : world'.chain[j] = b => j = h
          BY <3>3, <1>7 DEF BfChainOK
        <4>2. HeightOf(b)' = h
          BY <3>3, <4>1 DEF HeightOf
        <4> QED
          BY <3>3, <4>2 DEF PlaceOf, OnNode
      <3> QED
        BY <3>2, <3>4
    <2>2. CASE ~OnNode(b)
      <3>1. b \in DOMAIN world.forks /\ PlaceOf(b) = world.forks[b] /\ world.forks[b] \in Nat
        BY <2>2, <1>10, <1>4 DEF PlaceOf, BfChainOK
      <3>2. b \in DOMAIN world'.forks /\ ~OnNode(b)' /\ world'.forks[b] = world.forks[b]
        BY <3>1, <1>3, <1>7 DEF BfChainOK
      <3>3. PlaceOf(b)' = world.forks[b]
        BY <3>2 DEF PlaceOf
      <3> QED
        BY <3>1, <3>2, <3>3
    <2> QED
      BY <2>1, <2>2
  <1>11. world'.pruned >= world.pruned
    BY <1>3, <1>4 DEF BfChainOK
  <1> QED
    BY <1>1, <1>7, <1>8, <1>9, <1>10, <1>11, BfNodeMoves

LEMMA BfReorgs ==
    ASSUME BfInv, NodeReorgs
    PROVE  BfInv'
  <1>1. /\ world.next \in DOMAIN Positions /\ Len(world.chain) > world.pruned + 1
        /\ world' = [chain |-> [world.chain EXCEPT ![Len(world.chain)] = world.next], pruned |-> world.pruned,
                     next |-> world.next + 1,
                     forks |-> [b \in DOMAIN world.forks \cup {Last(world.chain)} |->
                                  IF b = Last(world.chain) THEN Len(world.chain) - 1 ELSE world.forks[b]]]
        /\ UNCHANGED <<synced, eventRows, dlog, ranges, migrated, marked, runner, ghosts>>
    BY DEF NodeReorgs
  <1>2. PICK chain \in Seq(Nat), len \in Nat, new \in Nat, tip \in Nat :
          chain = world.chain /\ len = Len(chain) /\ new = world.next /\ new > LegacyBlocks
          /\ DOMAIN chain = 1..len /\ len >= 3 /\ tip = chain[len]
    <2>1. world.chain \in Seq(Nat) /\ Len(world.chain) \in Nat /\ world.next \in Nat /\ world.next > LegacyBlocks
          /\ world.pruned \in Nat \ {0}
      BY DEF BfInv, BfChainOK
    <2>2. Len(world.chain) >= 3
      BY <1>1, <2>1
    <2>3. world.chain[Len(world.chain)] \in Nat
      BY <2>1, <2>2
    <2> QED
      BY <2>1, <2>2, <2>3
  <1>3. /\ world'.chain = [chain EXCEPT ![len] = new]
        /\ world'.forks = [b \in DOMAIN world.forks \cup {tip} |-> IF b = tip THEN len - 1 ELSE world.forks[b]]
        /\ world'.pruned = world.pruned /\ world'.next = new + 1
    BY <1>1, <1>2 DEF Last
  <1>4. /\ world'.chain \in Seq(Nat) /\ Len(world'.chain) = len /\ DOMAIN world'.chain = 1..len
        /\ world'.chain[len] = new /\ \A h \in 1..len : h # len => world'.chain[h] = chain[h]
    BY <1>2, <1>3
  <1>5. BfChainOK
    BY DEF BfInv
  <1>6. \A b : OnNode(b) <=> \E h \in 1..len : chain[h] = b
    BY <1>2 DEF OnNode
  <1>7. \A h \in 1..len : chain[h] < new /\ chain[h] # new
    BY SMTT(20), <1>2, <1>5 DEF BfChainOK
  <1>8. \A h \in 1..len : chain[h] = tip => h = len
    BY SMTT(20), <1>2, <1>5 DEF BfChainOK
  <1>9. tip \notin DOMAIN world.forks
    BY <1>2, <1>5, <1>6 DEF BfChainOK
  <1>10. \A b : OnNode(b)' <=> (OnNode(b) /\ b # tip) \/ b = new
    <2>1. len \in 1..len
      BY <1>2
    <2> QED
      BY <2>1, <1>2, <1>4, <1>6, <1>8 DEF OnNode
  <1>11. /\ DOMAIN world'.forks = DOMAIN world.forks \cup {tip} /\ world'.forks[tip] = len - 1
         /\ \A b \in DOMAIN world.forks : world'.forks[b] = world.forks[b]
    BY <1>3, <1>9
  <1>12. BfChainOK'
    <2>1. world' = [chain |-> world'.chain, pruned |-> world'.pruned, next |-> world'.next, forks |-> world'.forks]
      BY <1>1
    <2>2. world'.pruned \in Nat \ {0} /\ world'.pruned <= Len(world'.chain) /\ world'.next \in Nat
          /\ world'.next > LegacyBlocks /\ world'.chain[1] = 1
      BY SMTT(20), <1>2, <1>3, <1>4, <1>5, LegacyAssumption DEF BfChainOK
    <2>3. ASSUME NEW h \in DOMAIN world'.chain
          PROVE  /\ world'.chain[h] \in DOMAIN Positions /\ world'.chain[h] < world'.next
                 /\ world'.chain[h] = h \/ world'.chain[h] > LegacyBlocks
      <3>1. CASE h = len
        BY <3>1, <1>1, <1>2, <1>3, <1>4
      <3>2. CASE h # len
        <4>1. world'.chain[h] = chain[h] /\ chain[h] \in Nat /\ h \in 1..len
          BY SMTT(20), <3>2, <1>2, <1>4
        <4> QED
          BY <3>2, <4>1, <1>2, <1>3, <1>5 DEF BfChainOK
      <3> QED
        BY <3>1, <3>2
    <2>4. ASSUME NEW h \in DOMAIN world'.chain, NEW k \in DOMAIN world'.chain, world'.chain[h] = world'.chain[k]
          PROVE  h = k
      <3>1. h \in 1..len /\ k \in 1..len
        BY <1>4
      <3> QED
        BY <3>1, <2>4, <1>2, <1>4, <1>5, <1>7 DEF BfChainOK
    <2>5. ASSUME NEW b \in DOMAIN world'.forks
          PROVE  /\ b \in Nat /\ b < world'.next /\ ~OnNode(b)'
                 /\ world'.forks[b] \in Nat \ {0} /\ world'.forks[b] < Len(world'.chain)
      <3>1. CASE b = tip
        <4>1. tip < new
          BY <1>2, <1>7
        <4> QED
          BY SMTT(20), <3>1, <4>1, <1>2, <1>3, <1>4, <1>10, <1>11
      <3>2. CASE b \in DOMAIN world.forks
        <4>1. /\ b \in Nat /\ b < new /\ ~OnNode(b)
              /\ world.forks[b] \in Nat \ {0} /\ world.forks[b] < len
          BY <3>2, <1>2, <1>5 DEF BfChainOK
        <4> QED
          BY SMTT(20), <3>2, <4>1, <1>2, <1>3, <1>4, <1>10, <1>11
      <3> QED
        BY <3>1, <3>2, <1>11
    <2> QED
      BY ONLY <1>4, <2>1, <2>2, <2>3, <2>4, <2>5 DEF BfChainOK
  <1>13. BfSyncedOK'
    <2>1. PICK s \in Nat : s = Len(synced) /\ DOMAIN synced = 1..s /\ s # 0 /\ s <= len
      BY <1>2 DEF BfInv, BfSyncedOK
    <2>2. ASSUME NEW i \in DOMAIN synced, i # s PROVE synced[i] = world'.chain[i]
      <3>1. i \in 1..len /\ i # len
        BY <2>1, <2>2
      <3> QED
        BY <3>1, <2>1, <2>2, <1>2, <1>4 DEF BfInv, BfSyncedOK
    <2>3. \/ synced[s] = world'.chain[s]
          \/ synced[s] \in DOMAIN world'.forks /\ world'.forks[synced[s]] = s - 1
      <3>1. CASE synced[s] = chain[s] /\ s # len
        BY <3>1, <2>1, <1>4
      <3>2. CASE synced[s] = chain[s] /\ s = len
        BY <3>2, <1>2, <1>11
      <3>3. CASE synced[s] \in DOMAIN world.forks /\ world.forks[synced[s]] = s - 1
        BY <3>3, <1>11
      <3> QED
        BY <3>1, <3>2, <3>3, <2>1, <1>2 DEF BfInv, BfSyncedOK
    <2>4. \A i \in DOMAIN synced : synced[i] = i \/ synced[i] > LegacyBlocks
      BY DEF BfInv, BfSyncedOK
    <2>5. synced \in Seq(DOMAIN Positions)
      BY DEF BfInv, BfSyncedOK
    <2>6. synced' = synced
      BY <1>1
    <2> QED
      BY ONLY <1>4, <2>1, <2>2, <2>3, <2>4, <2>5, <2>6 DEF BfSyncedOK
  <1>14. ASSUME NEW b \in Nat, b <= LegacyBlocks, OnNode(b)' PROVE OnNode(b)
    BY <1>2, <1>10, <1>14, LegacyAssumption
  <1>15. ASSUME NEW b, OnNode(b) \/ b \in DOMAIN world.forks
         PROVE  (OnNode(b)' \/ b \in DOMAIN world'.forks) /\ PlaceOf(b)' <= PlaceOf(b) /\ PlaceOf(b)' \in Nat
    <2>1. CASE OnNode(b) /\ b # tip
      <3>1. PICK h \in 1..len : chain[h] = b
        BY <2>1, <1>6
      <3>2. PlaceOf(b) = h
        BY <3>1, <1>2, <1>5, BfHeightOf
      <3>3. h \in DOMAIN world'.chain /\ world'.chain[h] = b
        BY <2>1, <3>1, <1>2, <1>4
      <3>4. OnNode(b)' /\ PlaceOf(b)' = h
        <4>1. \A j \in DOMAIN world'.chain : world'.chain[j] = b => j = h
          BY <3>3, <1>12 DEF BfChainOK
        <4>2. HeightOf(b)' = h
          BY <3>3, <4>1 DEF HeightOf
        <4> QED
          BY <3>3, <4>2 DEF PlaceOf, OnNode
      <3> QED
        BY <3>2, <3>4
    <2>2. CASE b = tip
      <3>1. PlaceOf(b) = len
        BY <2>2, <1>2, <1>5, BfHeightOf
      <3>2. b \in DOMAIN world'.forks /\ ~OnNode(b)' /\ world'.forks[b] = len - 1
        BY <2>2, <1>11, <1>12 DEF BfChainOK
      <3>3. PlaceOf(b)' = len - 1
        BY <3>2 DEF PlaceOf
      <3> QED
        BY <3>1, <3>2, <3>3, <1>2
    <2>3. CASE ~OnNode(b)
      <3>1. b \in DOMAIN world.forks /\ PlaceOf(b) = world.forks[b] /\ world.forks[b] \in Nat
        BY <2>3, <1>15, <1>5 DEF PlaceOf, BfChainOK
      <3>2. b \in DOMAIN world'.forks /\ ~OnNode(b)' /\ world'.forks[b] = world.forks[b]
        BY <3>1, <1>11, <1>12 DEF BfChainOK
      <3>3. PlaceOf(b)' = world.forks[b]
        BY <3>2 DEF PlaceOf
      <3> QED
        BY <3>1, <3>2, <3>3
    <2> QED
      BY <2>1, <2>2, <2>3
  <1>16. world'.pruned >= world.pruned
    BY <1>3, <1>5 DEF BfChainOK
  <1> QED
    BY <1>1, <1>12, <1>13, <1>14, <1>15, <1>16, BfNodeMoves

LEMMA BfPrunes ==
    ASSUME BfInv, NodePrunes
    PROVE  BfInv'
  <1>1. /\ world.pruned < Len(world.chain) - 1
        /\ world' = [chain |-> world.chain, pruned |-> world.pruned + 1, next |-> world.next, forks |-> world.forks]
        /\ UNCHANGED <<synced, eventRows, dlog, ranges, migrated, marked, runner, ghosts>>
    BY DEF NodePrunes
  <1>2. world'.chain = world.chain /\ world'.forks = world.forks /\ world'.next = world.next
        /\ world'.pruned = world.pruned + 1
    BY <1>1
  <1>3. \A b : (OnNode(b)' <=> OnNode(b)) /\ PlaceOf(b)' = PlaceOf(b)
    BY <1>2 DEF OnNode, PlaceOf, HeightOf
  <1>4. world.pruned \in Nat \ {0} /\ world.pruned + 1 \in Nat \ {0} /\ world.pruned + 1 <= Len(world.chain)
    BY <1>1 DEF BfInv, BfChainOK
  <1>5. BfChainOK'
    <2>1. world' = [chain |-> world'.chain, pruned |-> world'.pruned, next |-> world'.next, forks |-> world'.forks]
      BY <1>1
    <2> QED
      BY <2>1, <1>2, <1>3, <1>4 DEF BfInv, BfChainOK
  <1>6. BfSyncedOK'
    BY <1>1, <1>2 DEF BfInv, BfSyncedOK
  <1>7. \A b : OnNode(b) \/ b \in DOMAIN world.forks =>
             (OnNode(b)' \/ b \in DOMAIN world'.forks) /\ PlaceOf(b)' <= PlaceOf(b) /\ PlaceOf(b)' \in Nat
    BY <1>2, <1>3, BfPlace DEF BfInv
  <1>8. world'.pruned >= world.pruned
    BY <1>2, <1>4
  <1> QED
    BY <1>1, <1>3, <1>5, <1>6, <1>7, <1>8, BfNodeMoves

LEMMA BfUnchanged ==
    ASSUME BfInv, UNCHANGED <<world, synced, eventRows, dlog, ranges, migrated>>
    PROVE  BfChainOK' /\ BfSyncedOK' /\ BfRowsOK' /\ BfLogOK' /\ BfRangesOK'
  <1>1. BfChainOK'
    BY DEF BfInv, BfChainOK, OnNode
  <1>2. BfSyncedOK'
    BY DEF BfInv, BfSyncedOK
  <1>3. BfRowsOK'
    BY BfRowsKept DEF BfInv
  <1>4. BfLogOK'
    BY DEF BfInv, BfLogOK
  <1>5. BfRangesOK'
    BY DEF BfInv, BfRangesOK
  <1> QED
    BY <1>1, <1>2, <1>3, <1>4, <1>5

\* The process: nothing of the store or the node changes.
LEMMA BfProcess ==
    ASSUME BfInv, Start \/ WalkFails \/ Restart
    PROVE  BfInv'
  <1>1. UNCHANGED <<world, synced, eventRows, dlog, ranges, migrated>>
    BY DEF Start, WalkFails, Restart
  <1>2. BfChainOK' /\ BfSyncedOK' /\ BfRowsOK' /\ BfLogOK' /\ BfRangesOK'
    BY <1>1, BfUnchanged
  <1>3. ASSUME NEW c, BfReached(c) PROVE BfReached(c)'
    BY <1>1, <1>3 DEF BfReached, OnNode, PlaceOf, HeightOf
  <1>4. ASSUME marked' = marked, ghosts'.prunedAtDone = ghosts.prunedAtDone
        PROVE  /\ marked'.at # 0 => BfReached(marked.at)'
               /\ marked'.done => \A e \in DOMAIN eventRows' :
                    eventRows'[e].index # e[2] /\ OnNode(e[1])' => e[1] <= ghosts'.prunedAtDone
    <2>1. ASSUME marked'.at # 0 PROVE BfReached(marked.at)'
      <3>1. PICK c : c = marked.at /\ c = marked'.at
        BY <1>4
      <3>2. BfReached(c)
        BY <3>1, <2>1 DEF BfInv, BfWalkOK
      <3>3. BfReached(c)'
        BY <3>2, <1>3
      <3> QED
        BY ONLY <3>1, <3>3 DEF BfReached
    <2>2. \A b : OnNode(b)' <=> OnNode(b)
      BY <1>1 DEF OnNode
    <2> QED
      BY <2>1, <2>2, <1>1, <1>4 DEF BfInv, BfWalkOK
  <1>5. CASE Restart \/ WalkFails
    <2>1. marked' = marked /\ ghosts'.prunedAtDone = ghosts.prunedAtDone
          /\ runner'.mode \in {"offline", "following"} /\ (runner'.mode # "offline" => migrated')
      BY <1>5 DEF Restart, WalkFails, MarkOfBroken, Offline, Following, BfInv, BfWalkOK
    <2> QED
      BY ONLY <1>2, <1>4, <2>1 DEF BfInv, BfWalkOK
  <1>6. CASE Start
    <2>1. marked' = marked /\ ghosts' = ghosts /\ migrated'
      BY <1>6 DEF Start
    <2>2. CASE marked.done
      <3>1. runner'.mode = "following"
        BY <1>6, <2>2 DEF Start, Following
      <3> QED
        BY ONLY <1>2, <1>4, <2>1, <3>1 DEF BfInv, BfWalkOK
    <2>3. CASE ~marked.done
      <3>1. PICK c : c = IF marked.at # 0 THEN marked.at ELSE world.chain[world.pruned]
        OBVIOUS
      <3>2. runner'.mode = "walking" /\ runner'.stop = Last(synced) /\ runner'.cursor = c
        BY <1>6, <2>3, <3>1 DEF Start
      <3>3. BfReached(c)
        BY <3>1, BfPruningPoint DEF BfInv, BfWalkOK
      <3>4. BfReached(c)'
        BY <3>3, <1>3
      <3>5. BfReached(runner.cursor)'
        BY ONLY <3>2, <3>4 DEF BfReached
      <3>6. runner'.stop = Last(synced)'
        BY <3>2, <1>1 DEF Last
      <3> QED
        BY ONLY <1>2, <1>4, <2>1, <3>2, <3>5, <3>6 DEF BfInv, BfWalkOK
    <2> QED
      BY <2>2, <2>3
  <1> QED
    BY <1>5, <1>6

LEMMA BfStep ==
    BfInv /\ [BackfillNext]_bfvars => BfInv'
  <1> SUFFICES ASSUME BfInv, [BackfillNext]_bfvars PROVE BfInv'
    OBVIOUS
  <1>1. CASE MigrateBatch
    BY <1>1, BfMigrates
  <1>2. CASE Start \/ WalkFails \/ Restart
    BY <1>2, BfProcess
  <1>3. CASE WalkStep \/ WalkBreaks
    BY <1>3, BfWalks, BfBreaks
  <1>4. CASE FollowAdd
    BY <1>4, BfAdds
  <1>5. CASE FollowRemove
    BY <1>5, BfRemoves
  <1>6. CASE NodeExtends
    BY <1>6, BfExtends
  <1>7. CASE NodeReorgs
    BY <1>7, BfReorgs
  <1>8. CASE NodePrunes
    BY <1>8, BfPrunes
  <1>9. CASE UNCHANGED bfvars
    <2>1. BfChainOK' /\ BfSyncedOK' /\ BfRowsOK' /\ BfLogOK' /\ BfRangesOK'
      BY <1>9, BfUnchanged DEF bfvars
    <2>2. BfWalkOK'
      BY <1>9, BfWalkKeeps DEF bfvars, BfInv
    <2> QED
      BY <2>1, <2>2 DEF BfInv
  <1> QED
    BY <1>1, <1>2, <1>3, <1>4, <1>5, <1>6, <1>7, <1>8, <1>9 DEF BackfillNext

\* A backfill that reports itself done is done (store_delivery.rs
\* backfill_delivery_batch, sync.rs backfill_tx_index), however often it was
\* cut short and whatever was followed and removed since: the log replays to
\* the event rows, each row names its own standing accepted record, and a row
\* without a position lies where the node could no longer answer.
THEOREM BackfillsAreWhole == BackfillSpec => []DoneMeansWhole
  <1>1. BfInv => DoneMeansWhole
    <2> SUFFICES ASSUME BfInv PROVE DoneMeansWhole
      OBVIOUS
    <2> DEFINE removed == {dlog[n].source : n \in {k \in DOMAIN dlog : dlog[k].kind = "removed"}}
               standing == {n \in DOMAIN dlog : dlog[n].kind = "accepted" /\ n \notin removed}
    <2>1. \A n : n \in standing <=> BfStanding(dlog, n)
      BY DEF BfStanding
    <2> HIDE DEF standing
    <2>2. ASSUME migrated
          PROVE  /\ {dlog[n].event : n \in standing} = DOMAIN eventRows
                 /\ \A e \in DOMAIN eventRows : eventRows[e].seq \in standing /\ dlog[eventRows[e].seq].event = e
      <3>1. \A e \in DOMAIN eventRows : eventRows[e].seq \in standing /\ dlog[eventRows[e].seq].event = e
        BY <2>1, <2>2 DEF BfInv, BfLogOK
      <3>2. \A n \in standing : dlog[n].event \in DOMAIN eventRows
        BY <2>1 DEF BfInv, BfLogOK, BfStanding
      <3> QED
        BY <3>1, <3>2
    <2>3. DOMAIN eventRows = UNION {EventsIn(synced[i]) : i \in DOMAIN synced}
      BY DEF BfInv, BfRowsOK
    <2>4. ASSUME marked.done, NEW e \in DOMAIN eventRows, eventRows[e].index # e[2], OnNode(e[1])
          PROVE  HeightOf(e[1]) <= ghosts.prunedAtDone
      <3>1. e[1] <= ghosts.prunedAtDone
        BY <2>4 DEF BfInv, BfWalkOK
      <3>2. world.chain[e[1]] = e[1] /\ e[1] \in DOMAIN world.chain
        BY <2>4, BfBareRow
      <3>3. HeightOf(world.chain[e[1]]) = e[1]
        BY <3>2, BfHeightOf DEF BfInv
      <3> QED
        BY <3>1, <3>2, <3>3
    <2> QED
      BY <2>2, <2>3, <2>4 DEF DoneMeansWhole, standing
  <1> QED
    BY <1>1, BfInitInv, BfStep, PTL DEF BackfillSpec
=============================================================================
