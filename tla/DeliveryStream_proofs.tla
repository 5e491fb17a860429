------------------------- MODULE DeliveryStream_proofs -------------------------
(***************************************************************************)
(* The delivery stream keeps the promise of a Last-Event-ID, leaks no slot *)
(* and sends nothing twice, for any number of clients, any filters, buffer *)
(* and page size, any number of commits, repetitions, cuts and restarts.   *)
(* The second part is about the application rows such records lead to and  *)
(* the repair records that are sent when they are mended.                  *)
(***************************************************************************)
EXTENDS Applications, DeliveryStream, FiniteSetTheorems, TLAPS

-----------------------------------------------------------------------------
(* The inductive invariant *)

\* Types of everything the argument looks at (streams, a count, is not).
Shapes ==
    /\ log \in Seq(Topics)
    /\ toSend \in Seq(1..Len(log))
    /\ conn \in [Clients -> {"off", "refused", "admitted", "subscribed", "open"}]
    /\ inbox \in [Clients -> Seq(1..Len(log))]
    /\ through \in [Clients -> 0..Len(log)]
    /\ replayAt \in [Clients -> 0..Len(log)]
    /\ replaying \in [Clients -> {0, 1}]
    /\ queued \in [Clients -> SUBSET (1..Len(log))]
    /\ mark \in [Clients -> 0..Len(log)]
    /\ skipped \in [Clients -> Nat]
    /\ lastId \in [Clients -> 0..Len(log)]
    /\ got \in [Clients -> SUBSET (1..Len(log))]
    /\ silent \in Nat

\* Record m is no loss to the client: not of its filter, or received.
Settled(c, m) == Matches(c, m) => m \in got[c]

\* Up to its Last-Event-ID, and up to the record it passed over last, the
\* client lacks nothing.
Held(c) == \A m \in 1..Len(log) : m <= lastId[c] \/ m <= mark[c] => Settled(c, m)

\* What the client lacks up to the high-water mark of its start is queued or in
\* a page still to be read.
Replayed(c) ==
    /\ \A n \in queued[c] : n <= replayAt[c] /\ n <= through[c]
    /\ \A m \in 1..Len(log) : m <= through[c] =>
          \/ Settled(c, m)
          \/ m \in queued[c]
          \/ replaying[c] = 1 /\ replayAt[c] < m

\* What it lacks beyond the mark is in its receiver or still to be broadcast,
\* and comes before every later record.
Coming(c) ==
    /\ \A m \in 1..Len(log) : m > through[c] =>
          \/ Settled(c, m)
          \/ \E p \in DOMAIN inbox[c] : inbox[c][p] = m
          \/ \E p \in DOMAIN toSend : toSend[p] = m
    /\ \A p \in DOMAIN inbox[c] : \A m \in 1..Len(log) :
          through[c] < m /\ m < inbox[c][p] =>
             \/ Settled(c, m)
             \/ \E q \in DOMAIN inbox[c] : q < p /\ inbox[c][q] = m
    /\ \A p \in DOMAIN toSend : \A m \in 1..Len(log) :
          through[c] < m /\ m < toSend[p] =>
             \/ Settled(c, m)
             \/ \E q \in DOMAIN inbox[c] : inbox[c][q] = m
             \/ \E q \in DOMAIN toSend : q < p /\ toSend[q] = m

ClientInv(c) ==
    /\ Held(c)
    /\ conn[c] = "open" => Replayed(c) /\ Coming(c)
    /\ conn[c] # "open" => queued[c] = {}

IInv == Shapes /\ (silent = 0 => \A c \in Clients : ClientInv(c))

-----------------------------------------------------------------------------
(* Shapes *)

\* A sequence of ids of the log is one of any longer log.
LEMMA SeqGrows ==
    ASSUME NEW a \in Nat, NEW b \in Nat, a <= b, NEW s \in Seq(1..a)
    PROVE  s \in Seq(1..b)
  OBVIOUS

\* What is committed makes the log longer and leaves the old records alone.
LEMMA LogGrows ==
    ASSUME Shapes, NEW batch \in Batches, log' = log \o batch
    PROVE  /\ log' \in Seq(Topics)
           /\ Len(log') = Len(log) + Len(batch)
           /\ Len(batch) \in Nat
           /\ \A n \in 1..Len(log) : log'[n] = log[n]
  BY StreamAssumption DEF Shapes

\* A range of ids is a sequence of ids, in order.
LEMMA IdsRange ==
    ASSUME NEW from \in Nat \ {0}, NEW to \in Nat, from <= to + 1
    PROVE  /\ Ids(from, to) \in Seq(1..to)
           /\ Len(Ids(from, to)) = to - from + 1
           /\ DOMAIN Ids(from, to) = 1..(to - from + 1)
           /\ \A i \in 1..(to - from + 1) : Ids(from, to)[i] = from + i - 1
  <1>1. \A i \in 1..(to - from + 1) : from + i - 1 \in 1..to
    OBVIOUS
  <1>2. to - from + 1 \in Nat
    OBVIOUS
  <1> QED  BY <1>1, <1>2 DEF Ids

\* The ids of k records committed after the first n.
LEMMA NewIds ==
    ASSUME NEW n \in Nat, NEW k \in Nat
    PROVE  /\ DOMAIN Ids(n + 1, n + k) = 1..k
           /\ \A p \in 1..k : Ids(n + 1, n + k)[p] = n + p
  BY DEF Ids

\* A server that starts with an empty log.
LEMMA ShapesStart == Init => Shapes
  BY DEF Init, Shapes

\* A commit keeps the types: the log grows, so every id stays one.
LEMMA CommitShapes ==
    ASSUME Shapes, NEW batch \in Batches, log' = log \o batch,
           toSend' \in Seq(1..Len(log')), silent' \in Nat,
           UNCHANGED <<conn, serverVars, clientVars>>
    PROVE  Shapes'
  <1>1. /\ log' \in Seq(Topics) /\ Len(log) \in Nat /\ Len(log') \in Nat
        /\ Len(log) <= Len(log')
    <2>1. /\ log' \in Seq(Topics) /\ Len(log') = Len(log) + Len(batch)
          /\ Len(batch) \in Nat
      BY LogGrows
    <2>2. Len(log) \in Nat
      BY DEF Shapes
    <2> QED  BY <2>1, <2>2
  <1>2. ASSUME NEW c \in Clients PROVE inbox[c] \in Seq(1..Len(log'))
    <2>1. inbox[c] \in Seq(1..Len(log))
      BY DEF Shapes
    <2> QED  BY <1>1, <2>1, SeqGrows
  <1>3. inbox' \in [Clients -> Seq(1..Len(log'))]
    BY <1>2 DEF Shapes, serverVars
  <1>4. 0..Len(log) \subseteq 0..Len(log') /\ 1..Len(log) \subseteq 1..Len(log')
    BY <1>1
  <1>5. /\ through' \in [Clients -> 0..Len(log')] /\ replayAt' \in [Clients -> 0..Len(log')]
        /\ mark' \in [Clients -> 0..Len(log')] /\ lastId' \in [Clients -> 0..Len(log')]
    BY <1>4 DEF Shapes, serverVars, clientVars
  <1>6. /\ queued' \in [Clients -> SUBSET (1..Len(log'))]
        /\ got' \in [Clients -> SUBSET (1..Len(log'))]
    BY <1>4 DEF Shapes, serverVars, clientVars
  <1> QED
    BY <1>1, <1>3, <1>5, <1>6 DEF Shapes, serverVars

\* Only a commit changes the log; every other step keeps the types field by
\* field.
LEMMA ShapesStep == Shapes /\ [Next]_vars => Shapes'
  <1> SUFFICES ASSUME Shapes, [Next]_vars PROVE Shapes'
    OBVIOUS
  <1>log. Len(log) \in Nat
    BY DEF Shapes
  <1>1. ASSUME NEW batch \in Batches, Commit(batch) PROVE Shapes'
    <2>1. /\ log' = log \o batch /\ toSend' = Ids(Len(log) + 1, Len(log) + Len(batch))
          /\ UNCHANGED <<conn, serverVars, clientVars, silent>>
      BY <1>1 DEF Commit
    <2>2. Len(log') = Len(log) + Len(batch) /\ Len(batch) \in Nat
      BY <2>1, LogGrows
    <2>3. toSend' \in Seq(1..Len(log'))
      <3>1. /\ Len(log) + 1 \in Nat \ {0} /\ Len(log) + Len(batch) \in Nat
            /\ Len(log) + 1 <= Len(log) + Len(batch) + 1
        BY <2>2, <1>log
      <3>2. Ids(Len(log) + 1, Len(log) + Len(batch)) \in Seq(1..(Len(log) + Len(batch)))
        BY <3>1, IdsRange
      <3> QED  BY <2>1, <2>2, <3>2
    <2>4. silent' \in Nat
      BY <2>1 DEF Shapes
    <2> QED  BY <2>1, <2>3, <2>4, CommitShapes
  <1>2. ASSUME NEW batch \in Batches, CommitSilently(batch) PROVE Shapes'
    <2>1. /\ log' = log \o batch /\ toSend' = toSend /\ toSend = <<>> /\ silent' = silent + 1
          /\ UNCHANGED <<conn, serverVars, clientVars>>
      BY <1>2 DEF CommitSilently
    <2>2. toSend' \in Seq(1..Len(log'))
      BY <2>1
    <2>3. silent' \in Nat
      BY <2>1 DEF Shapes
    <2> QED  BY <2>1, <2>2, <2>3, CommitShapes
  <1>3. ASSUME NEW from \in 1..Len(log), NEW to \in 1..Len(log), from <= to, CommitAgain(from, to)
        PROVE  Shapes'
    <2>1. Ids(from, to) \in Seq(1..to)
      <3>1. from \in Nat \ {0} /\ to \in Nat /\ from <= to + 1
        BY <1>3, <1>log
      <3> QED  BY <3>1, IdsRange
    <2>2. Ids(from, to) \in Seq(1..Len(log))
      BY <2>1, <1>log, SeqGrows
    <2> QED  BY <1>3, <2>2 DEF CommitAgain, Shapes, serverVars, clientVars
  <1>4. CASE Publish
    <2>1. Head(toSend) \in 1..Len(log) /\ Tail(toSend) \in Seq(1..Len(log))
      BY <1>4 DEF Publish, Shapes
    <2>2. ASSUME NEW c \in Clients PROVE Append(inbox[c], Head(toSend)) \in Seq(1..Len(log))
      BY <2>1 DEF Shapes
    <2>3. inbox' \in [Clients -> Seq(1..Len(log))]
      BY <1>4, <2>2 DEF Publish, Shapes
    <2> QED  BY <1>4, <2>1, <2>3 DEF Publish, Shapes, serverVars, clientVars
  <1>5. ASSUME NEW c \in Clients, Knock(c) \/ TurnAway(c) PROVE Shapes'
    BY <1>5 DEF Knock, TurnAway, Shapes, serverVars, clientVars
  <1>6. ASSUME NEW c \in Clients, Subscribe(c) PROVE Shapes'
    BY <1>6 DEF Subscribe, Shapes, serverVars, clientVars
  <1>7. ASSUME NEW c \in Clients, Ready(c) PROVE Shapes'
    <2>1. HighWater \in 0..Len(log) /\ After(c) \in 0..Len(log)
      BY <1>log DEF HighWater, After, Shapes
    <2>2. (IF NeedsReplay(c) THEN 1 ELSE 0) \in {0, 1}
      OBVIOUS
    <2> QED  BY <1>7, <2>1, <2>2 DEF Ready, Shapes, clientVars
  <1>8. ASSUME NEW c \in Clients, Closes(c), UNCHANGED <<log, toSend, silent>> PROVE Shapes'
    <2>1. 0 \in 0..Len(log) /\ {} \in SUBSET (1..Len(log)) /\ <<>> \in Seq(1..Len(log))
      BY <1>log
    <2> QED  BY <1>8, <2>1 DEF Closes, Shapes, clientVars
  <1>9. ASSUME NEW c \in Clients, NoPermit(c) \/ CutOff(c) \/ Breaks(c) PROVE Shapes'
    BY <1>8, <1>9 DEF NoPermit, CutOff, Breaks
  <1>10. ASSUME NEW c \in Clients, NEW n \in 1..Len(log), Receives(c, n)
         PROVE  /\ lastId' \in [Clients -> 0..Len(log)]
                /\ got' \in [Clients -> SUBSET (1..Len(log))]
    BY <1>10 DEF Receives, Shapes
  <1>11. ASSUME NEW c \in Clients, NEW n \in queued[c], SendQueued(c, n) PROVE Shapes'
    <2>1. n \in 1..Len(log)
      BY DEF Shapes
    <2>2. queued' \in [Clients -> SUBSET (1..Len(log))]
      BY <1>11 DEF SendQueued, Shapes
    <2> QED  BY <1>10, <1>11, <2>1, <2>2 DEF SendQueued, Shapes
  <1>12. ASSUME NEW c \in Clients, ReplayPage(c) PROVE Shapes'
    <2>1. PageEnd(c) \in 0..Len(log)
      BY SMTT(20), <1>log, StreamAssumption DEF PageEnd, Shapes
    <2>2. {n \in (replayAt[c] + 1)..PageEnd(c) :
              Matches(c, n) \/ (Filtered(c) /\ n = PageEnd(c))} \in SUBSET (1..Len(log))
      BY <1>log, <2>1 DEF Shapes
    <2> QED  BY <1>12, <2>1, <2>2 DEF ReplayPage, Shapes, clientVars
  <1>13. ASSUME NEW c \in Clients, EndReplay(c) PROVE Shapes'
    BY <1>13 DEF EndReplay, Shapes, clientVars
  <1>14. ASSUME NEW c \in Clients, Recv(c) PROVE Shapes'
    <2>1. Head(inbox[c]) \in 1..Len(log) /\ Tail(inbox[c]) \in Seq(1..Len(log))
      BY <1>14 DEF Recv, Shapes
    <2>2. inbox' \in [Clients -> Seq(1..Len(log))]
      BY <1>14, <2>1 DEF Recv, Shapes
    <2>3. /\ UNCHANGED <<log, toSend, conn, through, replayAt, replaying, queued, silent>>
          /\ \/ UNCHANGED <<mark, skipped, clientVars>>
             \/ /\ Receives(c, Head(inbox[c]))
                /\ mark' = [mark EXCEPT ![c] = 0]
                /\ skipped' = [skipped EXCEPT ![c] = 0]
             \/ /\ mark' = [mark EXCEPT ![c] = Head(inbox[c])]
                /\ skipped' = [skipped EXCEPT ![c] = @ + 1]
                /\ UNCHANGED clientVars
      BY <1>14 DEF Recv
    <2>4. mark' \in [Clients -> 0..Len(log)] /\ skipped' \in [Clients -> Nat]
      <3>1. 0 \in 0..Len(log) /\ Head(inbox[c]) \in 0..Len(log)
        BY <2>1, <1>log
      <3>2. mark \in [Clients -> 0..Len(log)] /\ skipped \in [Clients -> Nat]
        BY DEF Shapes
      <3> QED  BY <2>3, <3>1, <3>2
    <2>5. lastId' \in [Clients -> 0..Len(log)] /\ got' \in [Clients -> SUBSET (1..Len(log))]
      BY <2>1, <2>3, <1>10 DEF Shapes, clientVars
    <2> QED  BY <2>2, <2>3, <2>4, <2>5 DEF Shapes
  <1>15. ASSUME NEW c \in Clients, CheckpointTimer(c) PROVE Shapes'
    <2>1. mark[c] \in 1..Len(log)
      BY <1>15 DEF CheckpointTimer, Shapes
    <2>2. lastId' \in [Clients -> 0..Len(log)] /\ got' \in [Clients -> SUBSET (1..Len(log))]
      BY <1>10, <1>15, <2>1 DEF CheckpointTimer
    <2>3. mark' \in [Clients -> 0..Len(log)] /\ skipped' \in [Clients -> Nat]
      BY <1>15, <1>log DEF CheckpointTimer, Shapes
    <2> QED  BY <1>15, <2>2, <2>3 DEF CheckpointTimer, Shapes
  <1>16. CASE Restart
    <2>1. 0 \in 0..Len(log) /\ {} \in SUBSET (1..Len(log)) /\ <<>> \in Seq(1..Len(log))
      BY <1>log
    <2> QED  BY <1>16, <2>1 DEF Restart, Shapes, clientVars
  <1>17. CASE UNCHANGED vars
    BY <1>17 DEF vars, Shapes, serverVars, clientVars
  <1> QED
    BY <1>1, <1>2, <1>3, <1>4, <1>5, <1>6, <1>7, <1>9, <1>11, <1>12, <1>13, <1>14, <1>15,
       <1>16, <1>17 DEF Next, FollowerStep, StreamStep

-----------------------------------------------------------------------------
(* One lemma per action *)

\* A step that changes nothing of a client's keeps its invariant.
LEMMA Unaffected ==
    ASSUME NEW c \in Clients, ClientInv(c), UNCHANGED <<log, toSend>>,
           conn'[c] = conn[c], inbox'[c] = inbox[c], through'[c] = through[c],
           replayAt'[c] = replayAt[c], replaying'[c] = replaying[c], queued'[c] = queued[c],
           mark'[c] = mark[c], lastId'[c] = lastId[c], got'[c] = got[c]
    PROVE  ClientInv(c)'
  BY DEF ClientInv, Held, Replayed, Coming, Settled, Matches

\* New records come after everything the client has or waits for.
LEMMA CommitKeeps ==
    ASSUME Shapes, NEW c \in Clients, ClientInv(c), NEW batch \in Batches, Commit(batch)
    PROVE  ClientInv(c)'
  <1>1. /\ log' = log \o batch /\ toSend = <<>>
        /\ toSend' = Ids(Len(log) + 1, Len(log) + Len(batch))
        /\ UNCHANGED <<conn, serverVars, clientVars>>
    BY DEF Commit
  <1>2. /\ Len(log) \in Nat /\ Len(batch) \in Nat /\ Len(log') = Len(log) + Len(batch)
        /\ \A n \in 1..Len(log) : log'[n] = log[n]
    <2>1. Len(log) \in Nat
      BY DEF Shapes
    <2> QED  BY <1>1, <2>1, LogGrows
  <1>3. /\ DOMAIN toSend' = 1..Len(batch)
        /\ \A p \in 1..Len(batch) : toSend'[p] = Len(log) + p
    BY <1>1, <1>2, NewIds
  <1>4. \A m \in 1..Len(log) : Settled(c, m)' <=> Settled(c, m)
    BY <1>1, <1>2 DEF Settled, Matches, clientVars
  <1>5. /\ lastId[c] \in 0..Len(log) /\ mark[c] \in 0..Len(log) /\ through[c] \in 0..Len(log)
        /\ \A p \in DOMAIN inbox[c] : inbox[c][p] \in 1..Len(log)
    BY DEF Shapes
  <1>6. Held(c)'
    BY <1>1, <1>2, <1>4, <1>5 DEF ClientInv, Held, serverVars, clientVars
  <1>7. ASSUME conn[c] = "open" PROVE Replayed(c)' /\ Coming(c)'
    <2>1. Replayed(c) /\ Coming(c)
      BY <1>7 DEF ClientInv
    <2>2. Replayed(c)'
      BY <1>1, <1>2, <1>4, <1>5, <2>1 DEF Replayed, serverVars
    <2>3. \A m \in 1..Len(log) : m > through[c] =>
             Settled(c, m) \/ \E p \in DOMAIN inbox[c] : inbox[c][p] = m
      BY <1>1, <2>1 DEF Coming
    <2>4. inbox' = inbox /\ through' = through
      BY <1>1 DEF serverVars
    <2>5. ASSUME NEW m \in 1..Len(log'), m > through'[c]
          PROVE  \/ Settled(c, m)'
                 \/ \E p \in DOMAIN inbox'[c] : inbox'[c][p] = m
                 \/ \E p \in DOMAIN toSend' : toSend'[p] = m
      <3>1. CASE m <= Len(log)
        BY <1>2, <1>4, <2>3, <2>4, <2>5, <3>1
      <3>2. CASE m > Len(log)
        <4>1. m - Len(log) \in 1..Len(batch) /\ Len(log) + (m - Len(log)) = m
          BY <1>2, <3>2
        <4> QED  BY <1>3, <4>1
      <3> QED  BY <1>2, <3>1, <3>2
    <2>6. ASSUME NEW p \in DOMAIN inbox'[c], NEW m \in 1..Len(log'),
                 through'[c] < m, m < inbox'[c][p]
          PROVE  Settled(c, m)' \/ \E q \in DOMAIN inbox'[c] : q < p /\ inbox'[c][q] = m
      <3>1. m \in 1..Len(log)
        BY <1>2, <1>5, <2>4, <2>6
      <3> QED  BY <1>4, <2>1, <2>4, <2>6, <3>1 DEF Coming
    <2>7. ASSUME NEW p \in DOMAIN toSend', NEW m \in 1..Len(log'),
                 through'[c] < m, m < toSend'[p]
          PROVE  \/ Settled(c, m)'
                 \/ \E q \in DOMAIN inbox'[c] : inbox'[c][q] = m
                 \/ \E q \in DOMAIN toSend' : q < p /\ toSend'[q] = m
      <3>1. CASE m <= Len(log)
        BY <1>2, <1>4, <2>3, <2>4, <2>7, <3>1
      <3>2. CASE m > Len(log)
        <4>1. /\ m - Len(log) \in 1..Len(batch) /\ Len(log) + (m - Len(log)) = m
              /\ m - Len(log) < p
          BY <1>2, <1>3, <2>7, <3>2
        <4> QED  BY <1>3, <4>1
      <3> QED  BY <1>2, <3>1, <3>2
    <2>8. Coming(c)'
      BY <2>5, <2>6, <2>7 DEF Coming
    <2> QED  BY <2>2, <2>8
  <1> QED
    BY <1>1, <1>6, <1>7 DEF ClientInv, serverVars

\* A batch broadcast again names records that are here, or still to come.
LEMMA AgainKeeps ==
    ASSUME Shapes, NEW c \in Clients, ClientInv(c),
           NEW from \in 1..Len(log), NEW to \in 1..Len(log), from <= to, CommitAgain(from, to)
    PROVE  ClientInv(c)'
  <1>1. /\ toSend = <<>> /\ toSend' = Ids(from, to)
        /\ UNCHANGED <<log, conn, serverVars, clientVars>>
    BY DEF CommitAgain
  <1>2. Len(log) \in Nat /\ \A p \in DOMAIN toSend' : toSend'[p] \in 1..Len(log)
    <2>1. Len(log) \in Nat
      BY DEF Shapes
    <2>2. from \in Nat \ {0} /\ to \in Nat /\ from <= to + 1
      BY <2>1
    <2>3. /\ DOMAIN toSend' = 1..(to - from + 1)
          /\ \A i \in 1..(to - from + 1) : toSend'[i] = from + i - 1
      BY <1>1, <2>2, IdsRange
    <2> QED  BY <2>1, <2>3
  <1>3. \A m : Settled(c, m)' <=> Settled(c, m)
    BY <1>1 DEF Settled, Matches, clientVars
  <1>4. ASSUME conn[c] = "open" PROVE Coming(c)'
    <2>1. Coming(c)
      BY <1>4 DEF ClientInv
    <2>2. \A m \in 1..Len(log) : m > through[c] =>
             Settled(c, m) \/ \E p \in DOMAIN inbox[c] : inbox[c][p] = m
      BY <1>1, <2>1 DEF Coming
    <2>3. inbox' = inbox /\ through' = through /\ log' = log
      BY <1>1 DEF serverVars
    <2>4. \A p \in DOMAIN inbox[c] : \A m \in 1..Len(log) :
            through[c] < m /\ m < inbox[c][p] =>
               \/ Settled(c, m)
               \/ \E q \in DOMAIN inbox[c] : q < p /\ inbox[c][q] = m
      BY <2>1 DEF Coming
    <2>5. through[c] \in 0..Len(log)
      BY DEF Shapes
    <2>6. \A p \in DOMAIN toSend' : \A m \in 1..Len(log) :
            through[c] < m /\ m < toSend'[p] =>
               Settled(c, m) \/ \E q \in DOMAIN inbox[c] : inbox[c][q] = m
      BY <1>2, <2>2, <2>5
    <2> QED  BY <1>3, <2>2, <2>3, <2>4, <2>6 DEF Coming
  <1> QED
    BY <1>1, <1>3, <1>4 DEF ClientInv, Held, Replayed, serverVars, clientVars

\* What Append does to positions.
LEMMA Appended ==
    ASSUME NEW S, NEW s \in Seq(S), NEW e \in S
    PROVE  /\ Len(s) \in Nat /\ DOMAIN s = 1..Len(s)
           /\ DOMAIN Append(s, e) = 1..(Len(s) + 1)
           /\ \A i \in 1..Len(s) : Append(s, e)[i] = s[i]
           /\ Append(s, e)[Len(s) + 1] = e
  OBVIOUS

\* ... and Tail.
LEMMA Tailed ==
    ASSUME NEW S, NEW s \in Seq(S), s # <<>>
    PROVE  /\ Len(s) \in Nat \ {0} /\ DOMAIN s = 1..Len(s)
           /\ Head(s) = s[1] /\ s[1] \in S
           /\ DOMAIN Tail(s) = 1..(Len(s) - 1)
           /\ \A i \in 1..(Len(s) - 1) : Tail(s)[i] = s[i + 1]
  OBVIOUS

\* The record that is broadcast moves from the follower into every receiver.
LEMMA PublishKeeps ==
    ASSUME Shapes, NEW c \in Clients, ClientInv(c), Publish
    PROVE  ClientInv(c)'
  <1>1. /\ toSend # <<>> /\ toSend' = Tail(toSend)
        /\ UNCHANGED <<log, conn, through, replayAt, replaying, queued, mark, clientVars>>
    BY DEF Publish
  <1>2. \A m : Settled(c, m)' <=> Settled(c, m)
    BY <1>1 DEF Settled, Matches, clientVars
  <1>3. ASSUME conn[c] = "open" PROVE Coming(c)'
    <2>1. Coming(c)
      BY <1>3 DEF ClientInv
    <2>2. inbox'[c] = Append(inbox[c], Head(toSend))
      BY <1>3 DEF Publish, Listening
    <2>3. /\ toSend \in Seq(1..Len(log)) /\ inbox[c] \in Seq(1..Len(log))
      BY DEF Shapes
    <2>4. /\ Len(toSend) \in Nat \ {0} /\ DOMAIN toSend = 1..Len(toSend)
          /\ Head(toSend) = toSend[1] /\ toSend[1] \in 1..Len(log)
          /\ DOMAIN toSend' = 1..(Len(toSend) - 1)
          /\ \A i \in 1..(Len(toSend) - 1) : toSend'[i] = toSend[i + 1]
      BY <1>1, <2>3, Tailed
    <2>5. /\ Len(inbox[c]) \in Nat /\ DOMAIN inbox[c] = 1..Len(inbox[c])
          /\ DOMAIN inbox'[c] = 1..(Len(inbox[c]) + 1)
          /\ \A i \in 1..Len(inbox[c]) : inbox'[c][i] = inbox[c][i]
          /\ inbox'[c][Len(inbox[c]) + 1] = toSend[1]
      BY <2>2, <2>3, <2>4, Appended
    <2>6. ASSUME NEW m, \E p \in DOMAIN inbox[c] : inbox[c][p] = m
          PROVE  \E p \in DOMAIN inbox'[c] : inbox'[c][p] = m
      BY <2>5, <2>6
    <2>7. \E p \in DOMAIN inbox'[c] : inbox'[c][p] = toSend[1]
      <3>1. Len(inbox[c]) + 1 \in 1..(Len(inbox[c]) + 1)
        BY <2>5
      <3> QED  BY <2>5, <3>1
    <2>8. ASSUME NEW q \in DOMAIN toSend
          PROVE  \/ \E p \in DOMAIN inbox'[c] : inbox'[c][p] = toSend[q]
                 \/ q - 1 \in DOMAIN toSend' /\ toSend'[q - 1] = toSend[q]
      <3>1. CASE q = 1
        BY <2>7, <3>1
      <3>2. CASE q # 1
        <4>1. q - 1 \in 1..(Len(toSend) - 1) /\ (q - 1) + 1 = q
          BY <2>4, <3>2
        <4> QED  BY <2>4, <4>1
      <3> QED  BY <3>1, <3>2
    <2>9. ASSUME NEW m \in 1..Len(log'), m > through'[c]
          PROVE  \/ Settled(c, m)'
                 \/ \E p \in DOMAIN inbox'[c] : inbox'[c][p] = m
                 \/ \E p \in DOMAIN toSend' : toSend'[p] = m
      <3>1. \/ Settled(c, m)
            \/ \E p \in DOMAIN inbox[c] : inbox[c][p] = m
            \/ \E p \in DOMAIN toSend : toSend[p] = m
        BY <1>1, <2>1, <2>9 DEF Coming
      <3> QED  BY <1>2, <2>6, <2>8, <3>1
    <2>10. ASSUME NEW p \in DOMAIN inbox'[c], NEW m \in 1..Len(log'),
                  through'[c] < m, m < inbox'[c][p]
           PROVE  Settled(c, m)' \/ \E q \in DOMAIN inbox'[c] : q < p /\ inbox'[c][q] = m
      <3>1. CASE p \in DOMAIN inbox[c]
        <4>1. Settled(c, m) \/ \E q \in DOMAIN inbox[c] : q < p /\ inbox[c][q] = m
          BY <1>1, <2>1, <2>5, <2>10, <3>1 DEF Coming
        <4> QED  BY <1>2, <2>5, <4>1
      <3>2. CASE p \notin DOMAIN inbox[c]
        <4>1. p = Len(inbox[c]) + 1 /\ inbox'[c][p] = toSend[1] /\ 1 \in DOMAIN toSend
          BY SMTT(20), <2>4, <2>5, <3>2
        <4>2. \/ Settled(c, m)
              \/ \E q \in DOMAIN inbox[c] : inbox[c][q] = m
              \/ \E q \in DOMAIN toSend : q < 1 /\ toSend[q] = m
          BY <1>1, <2>1, <2>10, <4>1 DEF Coming
        <4>3. ~ \E q \in DOMAIN toSend : q < 1 /\ toSend[q] = m
          BY <2>4
        <4> QED  BY <1>2, <2>5, <4>1, <4>2, <4>3
      <3> QED  BY <3>1, <3>2
    <2>11. ASSUME NEW p \in DOMAIN toSend', NEW m \in 1..Len(log'),
                  through'[c] < m, m < toSend'[p]
           PROVE  \/ Settled(c, m)'
                  \/ \E q \in DOMAIN inbox'[c] : inbox'[c][q] = m
                  \/ \E q \in DOMAIN toSend' : q < p /\ toSend'[q] = m
      <3>1. p + 1 \in DOMAIN toSend /\ toSend'[p] = toSend[p + 1]
        BY <2>4
      <3>2. \/ Settled(c, m)
            \/ \E q \in DOMAIN inbox[c] : inbox[c][q] = m
            \/ \E q \in DOMAIN toSend : q < p + 1 /\ toSend[q] = m
        BY <1>1, <2>1, <2>11, <3>1 DEF Coming
      <3>3. ASSUME NEW q \in DOMAIN toSend, q < p + 1, q - 1 \in DOMAIN toSend'
            PROVE  q - 1 < p
        BY <2>4, <3>3
      <3> QED  BY <1>2, <2>6, <2>8, <3>2, <3>3
    <2> QED  BY <2>9, <2>10, <2>11 DEF Coming
  <1> QED
    BY <1>1, <1>2, <1>3 DEF ClientInv, Held, Replayed, clientVars

\* A client whose stream is not open keeps what it holds.
LEMMA OffKeeps ==
    ASSUME Shapes, NEW c \in Clients, ClientInv(c), UNCHANGED log,
           conn'[c] # "open", queued'[c] = {}, mark'[c] \in {0, mark[c]},
           lastId'[c] = lastId[c], got'[c] = got[c]
    PROVE  ClientInv(c)'
  <1>1. Len(log) \in Nat
    BY DEF Shapes
  <1>2. \A m : Settled(c, m)' <=> Settled(c, m)
    BY DEF Settled, Matches
  <1>3. Held(c)'
    BY <1>1, <1>2 DEF ClientInv, Held
  <1> QED
    BY <1>3 DEF ClientInv

\* A stream opens: what is not held is to be replayed, and nothing else is in
\* the log.
LEMMA ReadyKeeps ==
    ASSUME Shapes, NEW c \in Clients, ClientInv(c), Ready(c)
    PROVE  ClientInv(c)'
  <1>1. /\ UNCHANGED <<log, toSend, inbox, queued, mark, clientVars>>
        /\ queued[c] = {} /\ conn'[c] = "open"
        /\ through'[c] = Len(log) /\ replayAt'[c] = lastId[c]
        /\ replaying'[c] = IF lastId[c] < Len(log) THEN 1 ELSE 0
    BY DEF Ready, ClientInv, Shapes, HighWater, After, NeedsReplay
  <1>2. \A m : Settled(c, m)' <=> Settled(c, m)
    BY <1>1 DEF Settled, Matches, clientVars
  <1>3. Len(log) \in Nat /\ lastId[c] \in 0..Len(log)
    BY DEF Shapes
  <1>4. Held(c)
    BY DEF ClientInv
  <1>5. Held(c)'
    BY <1>1, <1>2, <1>4 DEF Held, clientVars
  <1>6. Replayed(c)'
    <2>1. ASSUME NEW m \in 1..Len(log), ~ Settled(c, m)
          PROVE  replaying'[c] = 1 /\ replayAt'[c] < m
      <3>1. lastId[c] < m
        BY <1>3, <1>4, <2>1 DEF Held
      <3> QED  BY <1>1, <1>3, <3>1
    <2> QED  BY <1>1, <1>2, <2>1 DEF Replayed
  <1>7. Coming(c)'
    BY <1>1, <1>3 DEF Coming
  <1> QED
    BY <1>1, <1>5, <1>6, <1>7 DEF ClientInv

\* Receiving more settles more.
LEMMA ComingStays ==
    ASSUME NEW c \in Clients, Coming(c), UNCHANGED <<log, toSend>>,
           inbox'[c] = inbox[c], through'[c] = through[c],
           \A m : Settled(c, m) => Settled(c, m)'
    PROVE  Coming(c)'
  BY DEF Coming

\* A frame with id n settles n, and unsettles nothing.
LEMMA ReceivesSettles ==
    ASSUME Shapes, NEW c \in Clients, NEW n, Receives(c, n), UNCHANGED log
    PROVE  /\ lastId'[c] = n
           /\ Settled(c, n)'
           /\ \A m : Settled(c, m) => Settled(c, m)'
  BY DEF Shapes, Receives, Settled, Matches

\* Frames of a replay leave in the order of the log.
LEMMA SendQueuedKeeps ==
    ASSUME Shapes, NEW c \in Clients, ClientInv(c), NEW n \in queued[c], SendQueued(c, n)
    PROVE  ClientInv(c)'
  <1>1. /\ UNCHANGED <<log, toSend, conn, inbox, through, replayAt, replaying, mark>>
        /\ conn[c] = "open" /\ Receives(c, n) /\ queued'[c] = queued[c] \ {n}
        /\ \A m \in queued[c] : n <= m
    BY DEF SendQueued, Least, Shapes
  <1>2. /\ lastId'[c] = n /\ Settled(c, n)'
        /\ \A m : Settled(c, m) => Settled(c, m)'
    BY <1>1, ReceivesSettles
  <1>3. Held(c) /\ Replayed(c) /\ Coming(c)
    BY <1>1 DEF ClientInv
  <1>4. /\ Len(log) \in Nat /\ n \in 1..Len(log) /\ replayAt[c] \in 0..Len(log)
        /\ through[c] \in 0..Len(log) /\ n <= replayAt[c] /\ n <= through[c]
    BY <1>3 DEF Shapes, Replayed
  <1>5. ASSUME NEW m \in 1..Len(log), m <= n PROVE Settled(c, m)'
    <2>1. Settled(c, m) \/ m \in queued[c]
      BY <1>3, <1>4, <1>5 DEF Replayed
    <2>2. m \in queued[c] => m = n
      BY <1>1, <1>4, <1>5
    <2> QED  BY <1>2, <2>1, <2>2
  <1>6. Held(c)'
    BY <1>1, <1>2, <1>3, <1>5 DEF Held
  <1>7. Replayed(c)'
    BY <1>1, <1>2, <1>3 DEF Replayed
  <1>8. Coming(c)'
    BY <1>1, <1>2, <1>3, ComingStays
  <1> QED
    BY <1>1, <1>6, <1>7, <1>8 DEF ClientInv

\* A page holds what the client lacks of its range.
LEMMA ReplayPageKeeps ==
    ASSUME Shapes, NEW c \in Clients, ClientInv(c), ReplayPage(c)
    PROVE  ClientInv(c)'
  <1>1. /\ UNCHANGED <<log, toSend, conn, inbox, through, replaying, mark, clientVars>>
        /\ conn[c] = "open" /\ queued[c] = {} /\ replaying[c] = 1
        /\ replayAt[c] < through[c]
        /\ queued'[c] = {n \in (replayAt[c] + 1)..PageEnd(c) :
                            Matches(c, n) \/ (Filtered(c) /\ n = PageEnd(c))}
        /\ replayAt'[c] = PageEnd(c)
    BY DEF ReplayPage, Shapes
  <1>2. /\ Len(log) \in Nat /\ replayAt[c] \in Nat /\ through[c] \in 0..Len(log)
        /\ PageSize \in Nat
    BY StreamAssumption DEF Shapes
  <1>3. PageEnd(c) \in Nat /\ PageEnd(c) <= through[c]
    BY <1>2 DEF PageEnd
  <1>4. \A m : Settled(c, m)' <=> Settled(c, m)
    BY <1>1 DEF Settled, Matches, clientVars
  <1>5. Held(c) /\ Replayed(c) /\ Coming(c)
    BY <1>1 DEF ClientInv
  <1>6. Held(c)'
    BY <1>1, <1>4, <1>5 DEF Held, clientVars
  <1>7. ASSUME NEW m \in 1..Len(log), m <= through[c], ~ Settled(c, m)
        PROVE  m \in queued'[c] \/ (replaying'[c] = 1 /\ replayAt'[c] < m)
    <2>1. replayAt[c] < m
      BY <1>1, <1>5, <1>7 DEF Replayed
    <2>2. Matches(c, m)
      BY <1>7 DEF Settled
    <2>3. CASE PageEnd(c) < m
      BY <1>1, <2>3
    <2>4. CASE ~ (PageEnd(c) < m)
      <3>1. m \in (replayAt[c] + 1)..PageEnd(c)
        BY <1>2, <1>3, <2>1, <2>4
      <3> QED  BY <1>1, <2>2, <3>1
    <2> QED  BY <2>3, <2>4
  <1>8. \A n \in queued'[c] : n <= replayAt'[c] /\ n <= through'[c]
    BY <1>1, <1>2, <1>3
  <1>9. Replayed(c)'
    BY <1>1, <1>4, <1>7, <1>8 DEF Replayed
  <1>10. Coming(c)'
    BY <1>1, <1>4, <1>5, ComingStays
  <1> QED
    BY <1>1, <1>6, <1>9, <1>10 DEF ClientInv

\* When the last page is sent nothing of the replay is missing.
LEMMA EndReplayKeeps ==
    ASSUME Shapes, NEW c \in Clients, ClientInv(c), EndReplay(c)
    PROVE  ClientInv(c)'
  <1>1. /\ UNCHANGED <<log, toSend, conn, inbox, through, replayAt, queued, mark, clientVars>>
        /\ conn[c] = "open" /\ queued[c] = {} /\ replayAt[c] >= through[c]
        /\ replaying'[c] = 0
    BY DEF EndReplay, AllSent, Shapes
  <1>2. /\ Len(log) \in Nat /\ replayAt[c] \in Nat /\ through[c] \in Nat
    BY DEF Shapes
  <1>3. \A m : Settled(c, m)' <=> Settled(c, m)
    BY <1>1 DEF Settled, Matches, clientVars
  <1>4. Held(c) /\ Replayed(c) /\ Coming(c)
    BY <1>1 DEF ClientInv
  <1>5. Held(c)'
    BY <1>1, <1>3, <1>4 DEF Held, clientVars
  <1>6. Replayed(c)'
    <2>1. \A m \in 1..Len(log) : m <= through[c] => Settled(c, m)
      BY <1>1, <1>2, <1>4 DEF Replayed
    <2> QED  BY <1>1, <1>3, <2>1 DEF Replayed
  <1>7. Coming(c)'
    BY <1>1, <1>3, <1>4, ComingStays
  <1> QED
    BY <1>1, <1>5, <1>6, <1>7 DEF ClientInv

\* The receiver's oldest record leaves it, in the replay or settled now.
LEMMA ComingRecv ==
    ASSUME Shapes, NEW c \in Clients, Coming(c), UNCHANGED <<log, toSend>>,
           through'[c] = through[c], inbox[c] # <<>>, inbox'[c] = Tail(inbox[c]),
           \A m : Settled(c, m) => Settled(c, m)',
           NEW n, n = Head(inbox[c]), n <= through[c] \/ Settled(c, n)'
    PROVE  Coming(c)'
  <1>1. inbox[c] \in Seq(1..Len(log)) /\ through[c] \in Nat
    BY DEF Shapes
  <1>2. /\ Len(inbox[c]) \in Nat \ {0} /\ DOMAIN inbox[c] = 1..Len(inbox[c])
        /\ Head(inbox[c]) = inbox[c][1] /\ inbox[c][1] \in 1..Len(log)
        /\ DOMAIN inbox'[c] = 1..(Len(inbox[c]) - 1)
        /\ \A i \in 1..(Len(inbox[c]) - 1) : inbox'[c][i] = inbox[c][i + 1]
    BY <1>1, Tailed
  <1>3. ASSUME NEW m \in 1..Len(log), m > through[c], NEW q \in DOMAIN inbox[c], inbox[c][q] = m
        PROVE  \/ Settled(c, m)'
               \/ q - 1 \in DOMAIN inbox'[c] /\ inbox'[c][q - 1] = m
    <2>1. CASE q = 1
      <3>1. m = n /\ ~ (n <= through[c])
        BY <1>1, <1>2, <1>3, <2>1
      <3> QED  BY <3>1
    <2>2. CASE q # 1
      <3>1. q - 1 \in 1..(Len(inbox[c]) - 1) /\ (q - 1) + 1 = q
        BY <1>2, <2>2
      <3> QED  BY <1>2, <1>3, <3>1
    <2> QED  BY <2>1, <2>2
  <1>4. ASSUME NEW m \in 1..Len(log), m > through[c]
        PROVE  \/ Settled(c, m)'
               \/ \E p \in DOMAIN inbox'[c] : inbox'[c][p] = m
               \/ \E p \in DOMAIN toSend : toSend[p] = m
    <2>1. \/ Settled(c, m)
          \/ \E p \in DOMAIN inbox[c] : inbox[c][p] = m
          \/ \E p \in DOMAIN toSend : toSend[p] = m
      BY <1>4 DEF Coming
    <2> QED  BY <1>3, <1>4, <2>1
  <1>5. ASSUME NEW p \in DOMAIN inbox'[c], NEW m \in 1..Len(log),
               through[c] < m, m < inbox'[c][p]
        PROVE  Settled(c, m)' \/ \E q \in DOMAIN inbox'[c] : q < p /\ inbox'[c][q] = m
    <2>1. p + 1 \in DOMAIN inbox[c] /\ inbox'[c][p] = inbox[c][p + 1]
      BY <1>2
    <2>2. Settled(c, m) \/ \E q \in DOMAIN inbox[c] : q < p + 1 /\ inbox[c][q] = m
      BY <1>5, <2>1 DEF Coming
    <2>3. ASSUME NEW q \in DOMAIN inbox[c], q < p + 1, inbox[c][q] = m
          PROVE  Settled(c, m)' \/ \E r \in DOMAIN inbox'[c] : r < p /\ inbox'[c][r] = m
      <3>1. \/ Settled(c, m)'
            \/ q - 1 \in DOMAIN inbox'[c] /\ inbox'[c][q - 1] = m
        BY <1>1, <1>3, <1>5, <2>3
      <3>2. q - 1 < p
        BY <1>2, <2>3
      <3> QED  BY <3>1, <3>2
    <2> QED  BY <2>2, <2>3
  <1>6. ASSUME NEW p \in DOMAIN toSend, NEW m \in 1..Len(log),
               through[c] < m, m < toSend[p]
        PROVE  \/ Settled(c, m)'
               \/ \E q \in DOMAIN inbox'[c] : inbox'[c][q] = m
               \/ \E q \in DOMAIN toSend : q < p /\ toSend[q] = m
    <2>1. \/ Settled(c, m)
          \/ \E q \in DOMAIN inbox[c] : inbox[c][q] = m
          \/ \E q \in DOMAIN toSend : q < p /\ toSend[q] = m
      BY <1>6 DEF Coming
    <2>2. ASSUME NEW q \in DOMAIN inbox[c], inbox[c][q] = m
          PROVE  Settled(c, m)' \/ \E r \in DOMAIN inbox'[c] : inbox'[c][r] = m
      BY <1>1, <1>3, <1>6, <2>2
    <2> QED  BY <2>1, <2>2
  <1> QED
    BY <1>4, <1>5, <1>6 DEF Coming

\* A live record is discarded, sent, or passed over and marked: whichever,
\* nothing before it is missing.
LEMMA RecvKeeps ==
    ASSUME Shapes, NEW c \in Clients, ClientInv(c), Recv(c)
    PROVE  ClientInv(c)'
  <1>1. /\ UNCHANGED <<log, toSend, conn, through, replayAt, replaying, queued>>
        /\ conn[c] = "open" /\ queued[c] = {} /\ replaying[c] = 0
        /\ inbox[c] # <<>> /\ inbox'[c] = Tail(inbox[c])
    BY DEF Recv, Live, Shapes
  <1>0. inbox[c] \in Seq(1..Len(log)) /\ Head(inbox[c]) \in 1..Len(log)
    BY <1>1 DEF Shapes
  <1> PICK n \in 1..Len(log) : n = Head(inbox[c])
    BY <1>0
  <1>2. \/ n <= through[c] /\ UNCHANGED <<mark, clientVars>>
        \/ Receives(c, n) /\ mark'[c] = 0
        \/ ~ Matches(c, n) /\ mark'[c] = n /\ UNCHANGED clientVars
    BY DEF Recv, Discards, Shapes
  <1>3. Held(c) /\ Replayed(c) /\ Coming(c)
    BY <1>1 DEF ClientInv
  <1>4. /\ inbox[c] \in Seq(1..Len(log)) /\ Len(log) \in Nat /\ through[c] \in Nat
        /\ mark[c] \in Nat /\ lastId[c] \in Nat
    BY DEF Shapes
  <1>5. /\ Len(inbox[c]) \in Nat \ {0} /\ DOMAIN inbox[c] = 1..Len(inbox[c])
        /\ n = inbox[c][1] /\ inbox[c][1] \in 1..Len(log)
    BY <1>1, <1>4, Tailed
  <1>6. \A m \in 1..Len(log) : m <= through[c] => Settled(c, m)
    BY <1>1, <1>3 DEF Replayed
  <1>7. ASSUME NEW m \in 1..Len(log), m < n PROVE Settled(c, m)
    <2>1. CASE m <= through[c]
      BY <1>6, <2>1
    <2>2. CASE through[c] < m
      <3>1. 1 \in DOMAIN inbox[c] /\ ~ \E q \in DOMAIN inbox[c] : q < 1 /\ inbox[c][q] = m
        BY <1>5
      <3> QED  BY <1>3, <1>5, <1>7, <2>2, <3>1 DEF Coming
    <2> QED  BY <1>4, <2>1, <2>2
  <1>8. /\ \A m : Settled(c, m) => Settled(c, m)'
        /\ n <= through[c] \/ Settled(c, n)'
        /\ Held(c)'
    <2>1. CASE n <= through[c] /\ UNCHANGED <<mark, clientVars>>
      <3>1. \A m : Settled(c, m)' <=> Settled(c, m)
        BY <1>1, <2>1 DEF Settled, Matches, clientVars
      <3> QED  BY <1>1, <1>3, <2>1, <3>1 DEF Held, clientVars
    <2>2. CASE Receives(c, n) /\ mark'[c] = 0
      <3>1. /\ lastId'[c] = n /\ Settled(c, n)'
            /\ \A m : Settled(c, m) => Settled(c, m)'
        BY <1>1, <2>2, ReceivesSettles
      <3>2. \A m \in 1..Len(log) : m <= n \/ m <= 0 => m < n \/ m = n
        BY <1>4, <1>5
      <3> QED  BY <1>1, <1>7, <2>2, <3>1, <3>2 DEF Held
    <2>3. CASE ~ Matches(c, n) /\ mark'[c] = n /\ UNCHANGED clientVars
      <3>1. \A m : Settled(c, m)' <=> Settled(c, m)
        BY <1>1, <2>3 DEF Settled, Matches, clientVars
      <3>2. Settled(c, n)'
        BY <2>3, <3>1 DEF Settled
      <3>3. \A m \in 1..Len(log) : m <= n => m < n \/ m = n
        BY <1>4, <1>5
      <3> QED  BY <1>1, <1>3, <1>7, <2>3, <3>1, <3>2, <3>3 DEF Held, clientVars
    <2> QED  BY <1>2, <2>1, <2>2, <2>3
  <1>9. Replayed(c)'
    BY <1>1, <1>6, <1>8 DEF Replayed
  <1>10. Coming(c)'
    BY <1>1, <1>3, <1>8, ComingRecv
  <1> QED
    BY <1>1, <1>8, <1>9, <1>10 DEF ClientInv

\* The checkpoint of a passed-over record is as good as the record.
LEMMA CheckpointKeeps ==
    ASSUME Shapes, NEW c \in Clients, ClientInv(c), CheckpointTimer(c)
    PROVE  ClientInv(c)'
  <1> PICK n : n = mark[c]
    OBVIOUS
  <1>1. /\ UNCHANGED <<log, toSend, conn, inbox, through, replayAt, replaying, queued>>
        /\ conn[c] = "open" /\ queued[c] = {} /\ Receives(c, n) /\ mark'[c] = 0
    BY DEF CheckpointTimer, Live, Shapes
  <1>2. /\ lastId'[c] = n
        /\ \A m : Settled(c, m) => Settled(c, m)'
    BY <1>1, ReceivesSettles
  <1>3. Held(c) /\ Replayed(c) /\ Coming(c)
    BY <1>1 DEF ClientInv
  <1>4. Held(c)'
    <2>1. Len(log) \in Nat
      BY DEF Shapes
    <2> QED  BY <1>1, <1>2, <1>3, <2>1 DEF Held
  <1>5. Replayed(c)'
    BY <1>1, <1>2, <1>3 DEF Replayed
  <1>6. Coming(c)'
    BY <1>1, <1>2, <1>3, ComingStays
  <1> QED
    BY <1>1, <1>4, <1>5, <1>6 DEF ClientInv

-----------------------------------------------------------------------------
(* Every step keeps the invariant of every client *)

\* A response that ends leaves the client with what it received.
LEMMA ClosesKeeps ==
    ASSUME Shapes, NEW c \in Clients, ClientInv(c), NEW d \in Clients, Closes(d),
           UNCHANGED <<log, toSend>>
    PROVE  ClientInv(c)'
  <1>1. CASE c = d
    <2>1. /\ conn'[c] # "open" /\ queued'[c] = {} /\ mark'[c] = 0
          /\ lastId'[c] = lastId[c] /\ got'[c] = got[c]
      BY <1>1 DEF Closes, Shapes, clientVars
    <2> QED  BY <2>1, OffKeeps
  <1>2. CASE c # d
    BY <1>2, Unaffected DEF Closes, Shapes, clientVars
  <1> QED  BY <1>1, <1>2

\* A request that is admitted, turned away or subscribed has nothing to lose yet.
LEMMA KnockKeeps ==
    ASSUME Shapes, NEW c \in Clients, ClientInv(c), NEW d \in Clients,
           Knock(d) \/ TurnAway(d) \/ Subscribe(d)
    PROVE  ClientInv(c)'
  <1>1. CASE c = d
    <2>1. /\ conn[c] # "open" /\ conn'[c] # "open" /\ UNCHANGED <<log, queued, mark, clientVars>>
      BY <1>1 DEF Knock, TurnAway, Subscribe, Shapes, serverVars
    <2>2. queued[c] = {}
      BY <2>1 DEF ClientInv
    <2>3. /\ queued'[c] = {} /\ mark'[c] = mark[c]
          /\ lastId'[c] = lastId[c] /\ got'[c] = got[c]
      BY <2>1, <2>2 DEF clientVars
    <2> QED  BY <2>1, <2>3, OffKeeps
  <1>2. CASE c # d
    BY <1>2, Unaffected DEF Knock, TurnAway, Subscribe, Shapes, serverVars, clientVars
  <1> QED  BY <1>1, <1>2

\* A step of one stream leaves the others alone.
LEMMA FramesKeep ==
    ASSUME Shapes, NEW c \in Clients, ClientInv(c), NEW d \in Clients,
           \/ Ready(d)
           \/ \E n \in queued[d] : SendQueued(d, n)
           \/ ReplayPage(d) \/ EndReplay(d) \/ Recv(d) \/ CheckpointTimer(d)
    PROVE  ClientInv(c)'
  <1>1. CASE c = d
    BY <1>1, ReadyKeeps, SendQueuedKeeps, ReplayPageKeeps, EndReplayKeeps, RecvKeeps,
       CheckpointKeeps
  <1>2. CASE c # d
    <2>1. ASSUME Ready(d) PROVE ClientInv(c)'
      BY <1>2, <2>1, Unaffected DEF Ready, Shapes, clientVars
    <2>2. ASSUME NEW n \in queued[d], SendQueued(d, n) PROVE ClientInv(c)'
      BY <1>2, <2>2, Unaffected DEF SendQueued, Receives, Shapes
    <2>3. ASSUME ReplayPage(d) PROVE ClientInv(c)'
      BY <1>2, <2>3, Unaffected DEF ReplayPage, Shapes, clientVars
    <2>4. ASSUME EndReplay(d) PROVE ClientInv(c)'
      BY <1>2, <2>4, Unaffected DEF EndReplay, Shapes, clientVars
    <2>5. ASSUME Recv(d) PROVE ClientInv(c)'
      <3>1. /\ UNCHANGED <<log, toSend, conn, through, replayAt, replaying, queued>>
            /\ inbox'[c] = inbox[c] /\ mark'[c] = mark[c]
            /\ lastId'[c] = lastId[c] /\ got'[c] = got[c]
        BY SMTT(20), <1>2, <2>5 DEF Recv, Receives, Shapes, clientVars
      <3> QED  BY <3>1, Unaffected
    <2>6. ASSUME CheckpointTimer(d) PROVE ClientInv(c)'
      BY <1>2, <2>6, Unaffected DEF CheckpointTimer, Receives, Shapes
    <2> QED  BY <2>1, <2>2, <2>3, <2>4, <2>5, <2>6
  <1> QED  BY <1>1, <1>2

\* A restart ends every response at once.
LEMMA RestartKeeps ==
    ASSUME Shapes, NEW c \in Clients, ClientInv(c), Restart
    PROVE  ClientInv(c)'
  <1>1. /\ UNCHANGED log /\ conn'[c] # "open" /\ queued'[c] = {} /\ mark'[c] = 0
        /\ lastId'[c] = lastId[c] /\ got'[c] = got[c]
    BY DEF Restart, clientVars
  <1> QED  BY <1>1, OffKeeps

\* The invariant is inductive: only a silent commit could break it, and that
\* falsifies its premise.
LEMMA Inductive == IInv /\ [Next]_vars => IInv'
  <1> SUFFICES ASSUME IInv, [Next]_vars PROVE IInv'
    OBVIOUS
  <1>1. Shapes /\ Shapes'
    BY ShapesStep DEF IInv
  <1>2. ASSUME silent' = 0, NEW c \in Clients PROVE ClientInv(c)'
    <2>1. silent = 0 /\ ~ \E batch \in Batches : CommitSilently(batch)
      <3>1. silent \in Nat
        BY <1>1 DEF Shapes
      <3>2. ASSUME NEW batch \in Batches, CommitSilently(batch) PROVE FALSE
        <4>1. silent' = silent + 1
          BY <3>2 DEF CommitSilently
        <4> QED  BY <1>2, <3>1, <4>1
      <3>3. silent' = silent
        <4>1. CASE FollowerStep
          BY <3>2, <4>1 DEF FollowerStep, Commit, CommitAgain, Publish
        <4>2. ASSUME NEW d \in Clients, StreamStep(d) \/ Breaks(d) PROVE silent' = silent
          BY <4>2 DEF StreamStep, Knock, TurnAway, Subscribe, Ready, NoPermit, SendQueued,
             ReplayPage, EndReplay, Recv, CheckpointTimer, CutOff, Breaks
        <4>3. CASE Restart
          BY <4>3 DEF Restart
        <4>4. CASE UNCHANGED vars
          BY <4>4 DEF vars
        <4> QED  BY <4>1, <4>2, <4>3, <4>4 DEF Next
      <3> QED  BY <1>2, <3>2, <3>3
    <2>2. ClientInv(c)
      BY <2>1 DEF IInv
    <2>3. CASE FollowerStep
      BY <1>1, <2>1, <2>2, <2>3, CommitKeeps, AgainKeeps, PublishKeeps DEF FollowerStep
    <2>4. ASSUME NEW d \in Clients, StreamStep(d) \/ Breaks(d) PROVE ClientInv(c)'
      <3>1. ASSUME NoPermit(d) \/ CutOff(d) \/ Breaks(d) PROVE ClientInv(c)'
        <4>1. Closes(d) /\ UNCHANGED <<log, toSend>>
          BY <3>1 DEF NoPermit, CutOff, Breaks
        <4> QED  BY <1>1, <2>2, <4>1, ClosesKeeps
      <3> QED  BY <1>1, <2>2, <2>4, <3>1, KnockKeeps, FramesKeep DEF StreamStep
    <2>5. CASE Restart
      BY <1>1, <2>2, <2>5, RestartKeeps
    <2>6. CASE UNCHANGED vars
      BY <2>2, <2>6, Unaffected DEF vars, serverVars, clientVars
    <2> QED  BY <2>3, <2>4, <2>5, <2>6 DEF Next
  <1> QED  BY <1>1, <1>2 DEF IInv

\* Nobody lacks anything of an empty log.
LEMMA Starts == Init => IInv
  <1> SUFFICES ASSUME Init PROVE IInv
    OBVIOUS
  <1>1. Shapes
    BY ShapesStart
  <1>2. ASSUME NEW c \in Clients PROVE ClientInv(c)
    BY DEF Init, ClientInv, Held
  <1> QED  BY <1>1, <1>2 DEF IInv

\* The promise is the part of Held that looks at the Last-Event-ID.
LEMMA Promise == IInv => NoGapUnlessSilent
  <1> SUFFICES ASSUME IInv, silent = 0, NEW c \in Clients, NEW n \in 1..lastId[c], Matches(c, n)
               PROVE  n \in got[c]
    BY DEF NoGapUnlessSilent, NoGap
  <1>1. Len(log) \in Nat /\ lastId[c] \in 0..Len(log)
    BY DEF IInv, Shapes
  <1>2. n \in 1..Len(log) /\ n <= lastId[c]
    BY <1>1
  <1> QED  BY <1>2 DEF IInv, ClientInv, Held, Settled

-----------------------------------------------------------------------------
(* The theorem *)

\* A client that holds id n holds every record of its filter up to n, as long
\* as every committed record is broadcast: across replays, hand-overs from
\* replay to broadcast, lags, cuts, batches broadcast twice, and restarts that
\* come between a commit and its broadcast (stream.rs, next_stream_frame).
THEOREM NothingMissed == Spec => []NoGapUnlessSilent
  <1>1. Init => IInv
    BY Starts
  <1>2. IInv /\ [Next]_vars => IInv'
    BY Inductive
  <1>3. IInv => NoGapUnlessSilent
    BY Promise
  <1> QED  BY <1>1, <1>2, <1>3, PTL DEF Spec

-----------------------------------------------------------------------------
(* Slots and permits *)

Taken == {c \in Clients : conn[c] # "off"}
Admitted == {c \in Clients : conn[c] \notin {"off", "refused"}}
Replaying == {c \in Clients : replaying[c] = 1}

\* The conjuncts of SlotsAccounted, by the names of the sets they count.
LEMMA SlotsAre ==
    SlotsAccounted <=> /\ streams = Cardinality(Taken)
                       /\ Cardinality(Admitted) <= MaxStreams
                       /\ Cardinality(Replaying) <= MaxReplays
  BY DEF SlotsAccounted, Taken, Admitted, Replaying

\* Sets of clients are finite, and a smaller one counts no more.
LEMMA Counting ==
    ASSUME NEW S \in SUBSET Clients
    PROVE  /\ IsFiniteSet(S) /\ Cardinality(S) \in Nat
           /\ \A T \in SUBSET S : IsFiniteSet(T) /\ Cardinality(T) \in Nat
                                  /\ Cardinality(T) <= Cardinality(S)
           /\ \A c \in Clients \ S : Cardinality(S \cup {c}) = Cardinality(S) + 1
           /\ \A c \in S : Cardinality(S \ {c}) = Cardinality(S) - 1
  <1>1. IsFiniteSet(S)
    BY StreamAssumption, FS_Subset
  <1>2. \A T \in SUBSET S : IsFiniteSet(T) /\ Cardinality(T) <= Cardinality(S)
    BY <1>1, FS_Subset
  <1>3. Cardinality(S) \in Nat /\ \A T \in SUBSET S : Cardinality(T) \in Nat
    BY <1>1, <1>2, FS_CardinalityType
  <1>4. \A c \in Clients \ S : Cardinality(S \cup {c}) = Cardinality(S) + 1
    BY <1>1, FS_AddElement
  <1>5. \A c \in S : Cardinality(S \ {c}) = Cardinality(S) - 1
    BY <1>1, FS_RemoveElement
  <1> QED  BY <1>1, <1>2, <1>3, <1>4, <1>5

\* The counter follows the requests that are answered or being refused.
LEMMA SlotsStep ==
    ASSUME Shapes, SlotsAccounted, [Next]_vars
    PROVE  SlotsAccounted'
  <1>1. /\ Taken \in SUBSET Clients /\ Admitted \in SUBSET Taken /\ Admitted \in SUBSET Clients
        /\ Replaying \in SUBSET Clients
    BY DEF Taken, Admitted, Replaying
  <1>2. /\ streams = Cardinality(Taken) /\ Cardinality(Taken) \in Nat
        /\ Cardinality(Admitted) \in Nat /\ Cardinality(Admitted) <= Cardinality(Taken)
        /\ Cardinality(Admitted) <= MaxStreams
        /\ Cardinality(Replaying) \in Nat /\ Cardinality(Replaying) <= MaxReplays
    BY <1>1, Counting DEF SlotsAccounted, Taken, Admitted, Replaying
  <1>3. MaxStreams \in Nat /\ MaxReplays \in Nat
    BY StreamAssumption
  <1>4. SUFFICES /\ streams' = Cardinality(Taken')
                 /\ Cardinality(Admitted') <= MaxStreams
                 /\ Cardinality(Replaying') <= MaxReplays
    BY DEF SlotsAccounted, Taken, Admitted, Replaying
  <1>5. ASSUME UNCHANGED <<streams, conn>>, Replaying' \subseteq Replaying
        PROVE  /\ streams' = Cardinality(Taken')
               /\ Cardinality(Admitted') <= MaxStreams
               /\ Cardinality(Replaying') <= MaxReplays
    <2>1. Taken' = Taken /\ Admitted' = Admitted
      BY <1>5 DEF Taken, Admitted
    <2>2. Cardinality(Replaying') \in Nat /\ Cardinality(Replaying') <= Cardinality(Replaying)
      BY <1>1, <1>5, Counting
    <2> QED  BY <1>2, <1>3, <1>5, <2>1, <2>2
  <1>6. ASSUME NEW c \in Clients, Knock(c)
        PROVE  /\ streams' = Cardinality(Taken')
               /\ Cardinality(Admitted') <= MaxStreams
               /\ Cardinality(Replaying') <= MaxReplays
    <2>1. /\ streams' = streams + 1 /\ UNCHANGED replaying /\ conn[c] = "off"
          /\ conn' = [conn EXCEPT ![c] = IF Full THEN "refused" ELSE "admitted"]
      BY <1>6 DEF Knock, serverVars
    <2>2. Taken' = Taken \cup {c} /\ c \in Clients \ Taken
      BY <2>1 DEF Taken, Shapes
    <2>3. streams' = Cardinality(Taken')
      BY <1>1, <1>2, <2>1, <2>2, Counting
    <2>4. CASE Full
      <3>1. Admitted' = Admitted
        BY <2>1, <2>4 DEF Admitted, Shapes
      <3> QED  BY <1>2, <2>1, <2>3, <3>1 DEF Replaying
    <2>5. CASE ~ Full
      <3>1. Admitted' = Admitted \cup {c} /\ c \in Clients \ Admitted
        BY <2>1, <2>5 DEF Admitted, Shapes
      <3>2. Cardinality(Admitted') = Cardinality(Admitted) + 1
        BY <1>1, <3>1, Counting
      <3>3. Cardinality(Admitted) < MaxStreams
        BY <1>2, <1>3, <2>5 DEF Full
      <3>4. Cardinality(Admitted') <= MaxStreams
        BY <1>2, <1>3, <3>2, <3>3
      <3> QED  BY <1>2, <2>1, <2>3, <3>4 DEF Replaying
    <2> QED  BY <2>4, <2>5
  <1>7. ASSUME NEW c \in Clients, TurnAway(c)
        PROVE  /\ streams' = Cardinality(Taken')
               /\ Cardinality(Admitted') <= MaxStreams
               /\ Cardinality(Replaying') <= MaxReplays
    <2>1. /\ streams' = streams - 1 /\ UNCHANGED replaying /\ conn[c] = "refused"
          /\ conn' = [conn EXCEPT ![c] = "off"]
      BY <1>7 DEF TurnAway, CountBack, serverVars
    <2>2. Taken' = Taken \ {c} /\ c \in Taken
      BY <2>1 DEF Taken, Shapes
    <2>3. Admitted' = Admitted
      BY <2>1 DEF Admitted, Shapes
    <2>4. streams' = Cardinality(Taken')
      BY <1>1, <1>2, <2>1, <2>2, Counting
    <2> QED  BY <1>2, <2>1, <2>3, <2>4 DEF Replaying
  <1>8. ASSUME NEW c \in Clients, Subscribe(c)
        PROVE  /\ streams' = Cardinality(Taken')
               /\ Cardinality(Admitted') <= MaxStreams
               /\ Cardinality(Replaying') <= MaxReplays
    <2>1. /\ UNCHANGED <<streams, replaying>> /\ conn[c] = "admitted"
          /\ conn' = [conn EXCEPT ![c] = "subscribed"]
      BY <1>8 DEF Subscribe
    <2>2. Taken' = Taken /\ Admitted' = Admitted /\ Replaying' = Replaying
      BY <2>1 DEF Taken, Admitted, Replaying, Shapes
    <2> QED  BY <1>2, <2>1, <2>2
  <1>9. ASSUME NEW c \in Clients, Ready(c)
        PROVE  /\ streams' = Cardinality(Taken')
               /\ Cardinality(Admitted') <= MaxStreams
               /\ Cardinality(Replaying') <= MaxReplays
    <2>1. /\ UNCHANGED streams /\ conn[c] = "subscribed"
          /\ conn' = [conn EXCEPT ![c] = "open"]
          /\ NeedsReplay(c) => PermitFree
          /\ replaying' = [replaying EXCEPT ![c] = IF NeedsReplay(c) THEN 1 ELSE 0]
      BY <1>9 DEF Ready
    <2>2. Taken' = Taken /\ Admitted' = Admitted
      BY <2>1 DEF Taken, Admitted, Shapes
    <2>3. CASE NeedsReplay(c)
      <3>1. Replaying' = Replaying \cup {c}
        BY <2>1, <2>3 DEF Replaying, Shapes
      <3>2. Cardinality(Replaying) < MaxReplays
        BY <2>1, <2>3 DEF PermitFree, Replaying
      <3>3. CASE c \in Replaying
        <4>1. Replaying' = Replaying
          BY <3>1, <3>3
        <4> QED  BY <1>2, <2>1, <2>2, <4>1
      <3>4. CASE c \notin Replaying
        <4>1. Cardinality(Replaying') = Cardinality(Replaying) + 1
          BY <1>1, <3>1, <3>4, Counting
        <4> QED  BY <1>2, <1>3, <2>1, <2>2, <3>2, <4>1
      <3> QED  BY <3>3, <3>4
    <2>4. CASE ~ NeedsReplay(c)
      <3>1. Replaying' \subseteq Replaying
        BY <2>1, <2>4 DEF Replaying, Shapes
      <3>2. Cardinality(Replaying') \in Nat /\ Cardinality(Replaying') <= Cardinality(Replaying)
        BY <1>1, <3>1, Counting
      <3> QED  BY <1>2, <1>3, <2>1, <2>2, <3>2
    <2> QED  BY <2>3, <2>4
  <1>10. ASSUME NEW c \in Clients, conn[c] \notin {"off", "refused"}, Closes(c)
         PROVE  /\ streams' = Cardinality(Taken')
                /\ Cardinality(Admitted') <= MaxStreams
                /\ Cardinality(Replaying') <= MaxReplays
    <2>1. /\ streams' = streams - 1 /\ conn' = [conn EXCEPT ![c] = "off"]
          /\ replaying' = [replaying EXCEPT ![c] = 0]
      BY <1>10 DEF Closes
    <2>2. /\ Taken' = Taken \ {c} /\ c \in Taken
          /\ Admitted' \subseteq Admitted /\ Replaying' \subseteq Replaying
      BY <1>10, <2>1 DEF Taken, Admitted, Replaying, Shapes
    <2>3. streams' = Cardinality(Taken')
      BY <1>1, <1>2, <2>1, <2>2, Counting
    <2>4. /\ Cardinality(Admitted') \in Nat /\ Cardinality(Admitted') <= Cardinality(Admitted)
          /\ Cardinality(Replaying') \in Nat /\ Cardinality(Replaying') <= Cardinality(Replaying)
      BY <1>1, <2>2, Counting
    <2> QED  BY <1>2, <1>3, <2>3, <2>4
  <1>11. ASSUME NEW c \in Clients, NoPermit(c) \/ CutOff(c) \/ Breaks(c)
         PROVE  conn[c] \notin {"off", "refused"} /\ Closes(c)
    BY <1>11 DEF NoPermit, CutOff, Breaks, Live
  <1>12. CASE Restart
    <2>1. /\ streams' = 0 /\ conn' = [c \in Clients |-> "off"]
          /\ replaying' = [c \in Clients |-> 0]
      BY <1>12 DEF Restart
    <2>2. Taken' = {} /\ Admitted' = {} /\ Replaying' = {}
      BY <2>1 DEF Taken, Admitted, Replaying
    <2>3. Cardinality({}) = 0
      BY FS_EmptySet
    <2> QED  BY <1>3, <2>1, <2>2, <2>3
  <1>13. ASSUME NEW c \in Clients,
                \/ \E n \in queued[c] : SendQueued(c, n)
                \/ ReplayPage(c) \/ EndReplay(c) \/ Recv(c) \/ CheckpointTimer(c)
         PROVE  UNCHANGED <<streams, conn>> /\ Replaying' \subseteq Replaying
    <2>1. CASE EndReplay(c)
      BY <2>1 DEF EndReplay, Replaying, Shapes
    <2>2. CASE \/ \E n \in queued[c] : SendQueued(c, n)
               \/ ReplayPage(c) \/ Recv(c) \/ CheckpointTimer(c)
      BY <2>2 DEF SendQueued, ReplayPage, Recv, CheckpointTimer, Replaying
    <2> QED  BY <1>13, <2>1, <2>2
  <1>14. CASE FollowerStep \/ UNCHANGED vars
    <2>1. UNCHANGED <<streams, conn, replaying>>
      BY <1>14 DEF FollowerStep, Commit, CommitSilently, CommitAgain, Publish, vars, serverVars
    <2> QED  BY <1>5, <2>1 DEF Replaying
  <1>15. ASSUME NEW c \in Clients, StreamStep(c) \/ Breaks(c)
         PROVE  /\ streams' = Cardinality(Taken')
                /\ Cardinality(Admitted') <= MaxStreams
                /\ Cardinality(Replaying') <= MaxReplays
    BY <1>5, <1>6, <1>7, <1>8, <1>9, <1>10, <1>11, <1>13, <1>15 DEF StreamStep
  <1> QED
    BY <1>12, <1>14, <1>15 DEF Next

\* At the start there is nobody to count.
LEMMA SlotsStart == Init => SlotsAccounted
  <1> SUFFICES ASSUME Init PROVE SlotsAccounted
    OBVIOUS
  <1>1. Taken = {} /\ Admitted = {} /\ Replaying = {}
    BY DEF Init, Taken, Admitted, Replaying
  <1>2. Cardinality({}) = 0 /\ streams = 0
    BY FS_EmptySet DEF Init
  <1> QED  BY <1>1, <1>2, StreamAssumption, SlotsAre

\* No refusal, cut or restart leaks a slot or a permit, and no interleaving of
\* the counter's addition, comparison and subtraction admits one stream too
\* many (stream.rs, DeliveryHub::try_subscribe).
THEOREM SlotsNeverLeak == Spec => []SlotsAccounted
  <1>1. Init => Shapes /\ SlotsAccounted
    BY ShapesStart, SlotsStart
  <1>2. Shapes /\ SlotsAccounted /\ [Next]_vars => Shapes' /\ SlotsAccounted'
    BY ShapesStep, SlotsStep
  <1> QED  BY <1>1, <1>2, PTL DEF Spec

-----------------------------------------------------------------------------
(* The order of ids *)

Rising(s) == \A p, q \in DOMAIN s : p < q => s[p] < s[q]

\* An id that the start's replay does not cover is one the client has not
\* come to.
IsAhead(c, n) == n > through[c] => n > lastId[c] /\ n > mark[c]

\* Whatever the client can still be sent is above its Last-Event-ID: first what
\* is queued, then the pages, then its receiver, then what is to be broadcast.
InOrder(c) ==
    /\ Rising(inbox[c])
    /\ \A p \in DOMAIN inbox[c], q \in DOMAIN toSend : inbox[c][p] < toSend[q]
    /\ conn[c] # "open" => replaying[c] = 0 /\ queued[c] = {} /\ mark[c] = 0
    /\ queued[c] # {} => replaying[c] = 1
    /\ replaying[c] = 1 => mark[c] = 0 /\ lastId[c] <= replayAt[c] /\ replayAt[c] <= through[c]
    /\ \A n \in queued[c] : lastId[c] < n /\ n <= replayAt[c]
    /\ mark[c] # 0 => lastId[c] < mark[c]
    /\ conn[c] = "open" => /\ \A p \in DOMAIN inbox[c] : IsAhead(c, inbox[c][p])
                           /\ \A p \in DOMAIN toSend : IsAhead(c, toSend[p])

OrderInv ==
    /\ Shapes
    /\ again \in Nat
    /\ again = 0 => Rising(toSend) /\ \A c \in Clients : InOrder(c)

LEMMA OrderStarts == Init => OrderInv
  <1> SUFFICES ASSUME Init PROVE OrderInv
    OBVIOUS
  <1>1. ASSUME NEW c \in Clients PROVE InOrder(c)
    BY DEF Init, InOrder, Rising
  <1>2. Rising(toSend)
    BY DEF Init, Rising
  <1> QED
    BY <1>1, <1>2, ShapesStart DEF OrderInv, Init

\* A step that changes nothing of a client's and broadcasts nothing.
LEMMA OrderFrame ==
    ASSUME NEW c \in Clients, InOrder(c), toSend' = toSend,
           conn'[c] = conn[c], inbox'[c] = inbox[c], through'[c] = through[c],
           replayAt'[c] = replayAt[c], replaying'[c] = replaying[c], queued'[c] = queued[c],
           mark'[c] = mark[c], lastId'[c] = lastId[c]
    PROVE  InOrder(c)'
  BY DEF InOrder, Rising, IsAhead

\* Everything in a receiver or on its way is the id of a record.
LEMMA IdsAreOfLog ==
    ASSUME Shapes, NEW c \in Clients
    PROVE  /\ Len(log) \in Nat
           /\ \A p \in DOMAIN inbox[c] : inbox[c][p] \in 1..Len(log)
           /\ \A p \in DOMAIN toSend : toSend[p] \in 1..Len(log)
           /\ \A p \in DOMAIN inbox[c] : inbox[c][p] \in Nat
           /\ \A p \in DOMAIN toSend : toSend[p] \in Nat
  <1>1. inbox[c] \in Seq(1..Len(log)) /\ toSend \in Seq(1..Len(log)) /\ Len(log) \in Nat
    BY DEF Shapes
  <1> QED
    BY <1>1

LEMMA CommitInOrder ==
    ASSUME Shapes, NEW c \in Clients, InOrder(c), NEW batch \in Batches, Commit(batch)
    PROVE  InOrder(c)' /\ Rising(toSend)'
  <1>1. /\ toSend' = Ids(Len(log) + 1, Len(log) + Len(batch))
        /\ UNCHANGED <<conn, serverVars, clientVars>>
    BY DEF Commit
  <1>2. Len(log) \in Nat /\ Len(batch) \in Nat
    <2>1. log' = log \o batch
      BY DEF Commit
    <2> QED  BY SMTT(20), <2>1, LogGrows DEF Shapes
  <1>3. /\ DOMAIN toSend' = 1..Len(batch)
        /\ \A p \in 1..Len(batch) : toSend'[p] = Len(log) + p
    BY <1>1, <1>2, NewIds
  <1>4. /\ lastId[c] \in 0..Len(log) /\ mark[c] \in 0..Len(log)
        /\ \A p \in DOMAIN inbox[c] : inbox[c][p] \in 1..Len(log)
    BY DEF Shapes
  <1>5. Rising(toSend)'
    BY <1>2, <1>3 DEF Rising
  <1>6. UNCHANGED <<conn, inbox, through, replayAt, replaying, queued, mark, lastId>>
    BY <1>1 DEF serverVars, clientVars
  <1>7. Rising(inbox[c])'
    BY <1>6 DEF InOrder
  <1>8. (\A p \in DOMAIN inbox[c], q \in DOMAIN toSend : inbox[c][p] < toSend[q])'
    BY <1>2, <1>3, <1>4, <1>6
  <1>9. (\A p \in DOMAIN toSend : IsAhead(c, toSend[p]))'
    BY <1>2, <1>3, <1>4, <1>6 DEF IsAhead
  <1>10. (conn[c] = "open" => \A p \in DOMAIN inbox[c] : IsAhead(c, inbox[c][p]))'
    BY <1>6 DEF InOrder, IsAhead
  <1> QED
    BY <1>5, <1>6, <1>7, <1>8, <1>9, <1>10 DEF InOrder

LEMMA CommitSilentlyInOrder ==
    ASSUME NEW c \in Clients, InOrder(c), NEW batch \in Batches, CommitSilently(batch)
    PROVE  InOrder(c)'
  BY OrderFrame DEF CommitSilently, serverVars, clientVars

LEMMA PublishInOrder ==
    ASSUME Shapes, Rising(toSend), NEW c \in Clients, InOrder(c), Publish
    PROVE  InOrder(c)' /\ Rising(toSend)'
  <1>0. PICK k : k = Head(toSend)
    OBVIOUS
  <1>1. /\ toSend # <<>> /\ toSend' = Tail(toSend)
        /\ inbox'[c] = IF Listening(c) THEN Append(inbox[c], k) ELSE inbox[c]
        /\ UNCHANGED <<conn, through, replayAt, replaying, queued, mark, lastId>>
    BY <1>0 DEF Publish, clientVars
  <1>2. toSend \in Seq(1..Len(log)) /\ inbox[c] \in Seq(1..Len(log)) /\ Len(log) \in Nat
    BY DEF Shapes
  <1>3. /\ k = toSend[1] /\ 1 \in DOMAIN toSend /\ k \in 1..Len(log)
        /\ \A q \in DOMAIN toSend' : q \in Nat /\ q >= 1 /\ q + 1 \in DOMAIN toSend /\ toSend'[q] = toSend[q + 1]
    BY <1>0, <1>1, <1>2
  <1>4. Rising(toSend)'
    <2>1. ASSUME NEW p \in DOMAIN toSend', NEW q \in DOMAIN toSend', p < q
          PROVE  toSend'[p] < toSend'[q]
      <3>1. /\ p + 1 \in DOMAIN toSend /\ q + 1 \in DOMAIN toSend /\ p + 1 < q + 1
            /\ toSend'[p] = toSend[p + 1] /\ toSend'[q] = toSend[q + 1]
        BY <1>3, <2>1
      <3> QED
        BY <3>1 DEF Rising
    <2> QED
      BY <2>1 DEF Rising
  <1>5. \A q \in DOMAIN toSend' : k < toSend'[q] /\ toSend'[q] \in 1..Len(log)
    BY <1>2, <1>3 DEF Rising
  <1>6. CASE ~Listening(c)
    <2>1. inbox'[c] = inbox[c] /\ conn[c] # "open"
      BY <1>1, <1>6 DEF Listening
    <2>2. \A p \in DOMAIN inbox[c], q \in DOMAIN toSend' : inbox[c][p] < toSend'[q]
      BY <1>3 DEF InOrder
    <2> QED
      BY <1>1, <1>4, <2>1, <2>2 DEF InOrder, Rising
  <1>7. CASE Listening(c)
    <2>1. /\ inbox'[c] \in Seq(1..Len(log)) /\ Len(inbox'[c]) = Len(inbox[c]) + 1
          /\ \A p \in DOMAIN inbox[c] : inbox'[c][p] = inbox[c][p]
          /\ inbox'[c][Len(inbox[c]) + 1] = k
      BY <1>1, <1>2, <1>3, <1>7
    <2>2. \A p \in DOMAIN inbox'[c] : \/ p \in DOMAIN inbox[c] /\ inbox'[c][p] = inbox[c][p]
                                      \/ p = Len(inbox[c]) + 1 /\ inbox'[c][p] = k
      <3>1. Len(inbox[c]) \in Nat /\ DOMAIN inbox[c] = 1..Len(inbox[c]) /\ DOMAIN inbox'[c] = 1..(Len(inbox[c]) + 1)
        BY <1>2, <2>1
      <3> QED
        BY <2>1, <3>1
    <2>3. \A p \in DOMAIN inbox[c] : p <= Len(inbox[c]) /\ inbox[c][p] < k
      BY <1>2, <1>3 DEF InOrder
    <2>8. Len(inbox[c]) \in Nat /\ DOMAIN inbox[c] = 1..Len(inbox[c]) /\ Rising(inbox[c])
      BY <1>2 DEF InOrder
    <2>4. Rising(inbox'[c])
      <3>1. ASSUME NEW p \in DOMAIN inbox'[c], NEW q \in DOMAIN inbox'[c], p < q
            PROVE  inbox'[c][p] < inbox'[c][q]
        <4>1. CASE q \in DOMAIN inbox[c]
          BY <2>2, <2>8, <3>1, <4>1 DEF Rising
        <4>2. CASE q = Len(inbox[c]) + 1 /\ inbox'[c][q] = k
          <5>1. p \in DOMAIN inbox[c] /\ inbox'[c][p] = inbox[c][p]
            BY <2>2, <2>8, <3>1, <4>2
          <5> QED
            BY <2>3, <4>2, <5>1
        <4> QED
          BY <2>2, <4>1, <4>2
      <3> QED
        BY <3>1 DEF Rising
    <2>5. \A p \in DOMAIN inbox'[c], q \in DOMAIN toSend' : inbox'[c][p] < toSend'[q]
      BY <1>3, <1>5, <2>2 DEF InOrder
    <2>6. conn[c] = "open" => IsAhead(c, k) /\ (\A p \in DOMAIN inbox[c] : IsAhead(c, inbox[c][p]))
                              /\ \A q \in DOMAIN toSend' : IsAhead(c, toSend'[q])
      BY <1>3 DEF InOrder
    <2>7. (conn[c] = "open" => /\ \A p \in DOMAIN inbox[c] : IsAhead(c, inbox[c][p])
                               /\ \A q \in DOMAIN toSend : IsAhead(c, toSend[q]))'
      <3>1. UNCHANGED <<through, lastId, mark, conn>>
        BY <1>1
      <3> QED
        BY <2>2, <2>6, <3>1 DEF IsAhead
    <2>9. Rising(inbox[c])'
      BY <2>4
    <2> QED
      <3>1. UNCHANGED <<conn, through, replayAt, replaying, queued, mark, lastId>>
        BY <1>1
      <3>2. (/\ conn[c] # "open" => replaying[c] = 0 /\ queued[c] = {} /\ mark[c] = 0
             /\ queued[c] # {} => replaying[c] = 1
             /\ replaying[c] = 1 => mark[c] = 0 /\ lastId[c] <= replayAt[c] /\ replayAt[c] <= through[c]
             /\ \A m \in queued[c] : lastId[c] < m /\ m <= replayAt[c]
             /\ mark[c] # 0 => lastId[c] < mark[c])'
        BY <3>1 DEF InOrder
      <3>3. (\A p \in DOMAIN inbox[c], q \in DOMAIN toSend : inbox[c][p] < toSend[q])'
        BY <2>5
      <3> QED
        BY <1>4, <3>2, <3>3, <2>7, <2>9 DEF InOrder
  <1> QED
    BY <1>6, <1>7

\* Without a response nothing is held for a client, and a fresh receiver is empty.
LEMMA OffInOrder ==
    ASSUME NEW c \in Clients, conn'[c] # "open", inbox'[c] = <<>>, replaying'[c] = 0,
           queued'[c] = {}, mark'[c] = 0
    PROVE  InOrder(c)'
  BY DEF InOrder, Rising

LEMMA ClosesInOrder ==
    ASSUME Shapes, NEW c \in Clients, InOrder(c), NEW d \in Clients, Closes(d), toSend' = toSend
    PROVE  InOrder(c)'
  <1>1. CASE c = d
    <2>1. /\ conn'[c] = "off" /\ inbox'[c] = <<>> /\ replaying'[c] = 0 /\ queued'[c] = {} /\ mark'[c] = 0
      BY <1>1 DEF Closes, Shapes
    <2> QED
      BY <2>1, OffInOrder
  <1>2. CASE c # d
    BY <1>2, OrderFrame DEF Closes, Shapes, clientVars
  <1> QED
    BY <1>1, <1>2

LEMMA DoorInOrder ==
    ASSUME Shapes, NEW c \in Clients, InOrder(c), NEW d \in Clients, Knock(d) \/ TurnAway(d) \/ Subscribe(d)
    PROVE  InOrder(c)'
  <1>1. CASE c # d
    BY <1>1, OrderFrame DEF Knock, TurnAway, Subscribe, Shapes, serverVars, clientVars
  <1>2. CASE c = d
    <2>1. /\ conn[c] # "open" /\ conn'[c] # "open"
          /\ inbox'[c] \in {inbox[c], <<>>}
          /\ UNCHANGED <<toSend, through, replayAt, replaying, queued, mark, lastId>>
      BY <1>2 DEF Knock, TurnAway, Subscribe, Shapes, serverVars, clientVars
    <2>2. Rising(inbox[c])' /\ (\A p \in DOMAIN inbox[c], q \in DOMAIN toSend : inbox[c][p] < toSend[q])'
      BY <2>1 DEF InOrder, Rising
    <2> QED
      BY <2>1, <2>2 DEF InOrder
  <1> QED
    BY <1>1, <1>2

\* The mark is above all there is: nothing in the receiver or on its way is new.
LEMMA ReadyInOrder ==
    ASSUME Shapes, NEW c \in Clients, InOrder(c), NEW d \in Clients, Ready(d)
    PROVE  InOrder(c)'
  <1>1. CASE c # d
    BY <1>1, OrderFrame DEF Ready, Shapes, clientVars
  <1>2. CASE c = d
    <2>1. /\ conn[c] # "open" /\ through'[c] = Len(log) /\ replayAt'[c] = lastId[c]
          /\ UNCHANGED <<log, toSend, inbox, queued, mark, lastId>>
          /\ replaying'[c] = 1 => lastId[c] < Len(log)
      BY <1>2 DEF Ready, Shapes, clientVars, HighWater, After, NeedsReplay
    <2>2. /\ Len(log) \in Nat /\ lastId[c] \in 0..Len(log)
          /\ \A p \in DOMAIN inbox[c] : inbox[c][p] \in 1..Len(log)
          /\ \A p \in DOMAIN toSend : toSend[p] \in 1..Len(log)
      BY IdsAreOfLog DEF Shapes
    <2>3. Rising(inbox[c])' /\ (\A p \in DOMAIN inbox[c], q \in DOMAIN toSend : inbox[c][p] < toSend[q])'
      BY <2>1 DEF InOrder
    <2>4. queued'[c] = {} /\ mark'[c] = 0
      BY <2>1 DEF InOrder
    <2>5. (/\ \A p \in DOMAIN inbox[c] : IsAhead(c, inbox[c][p])
           /\ \A p \in DOMAIN toSend : IsAhead(c, toSend[p]))'
      BY <2>1, <2>2 DEF IsAhead
    <2>6. (replaying[c] = 1 => mark[c] = 0 /\ lastId[c] <= replayAt[c] /\ replayAt[c] <= through[c])'
      BY <2>1, <2>2, <2>4
    <2>7. conn'[c] = "open"
      BY <1>2 DEF Ready, Shapes
    <2> QED
      BY <2>3, <2>4, <2>5, <2>6, <2>7 DEF InOrder
  <1> QED
    BY <1>1, <1>2

\* A queued frame is below the mark of the start, the rest of the queue above it.
LEMMA SendQueuedInOrder ==
    ASSUME Shapes, NEW c \in Clients, InOrder(c), NEW d \in Clients, NEW n \in queued[d], SendQueued(d, n)
    PROVE  InOrder(c)' /\ lastId'[d] = n
  <1>0. lastId'[d] = n
    BY DEF SendQueued, Receives, Shapes
  <1>1. CASE c # d
    BY <1>0, <1>1, OrderFrame DEF SendQueued, Shapes, Receives
  <1>2. CASE c = d
    <2>1. /\ conn[c] = "open" /\ conn'[c] = "open" /\ queued'[c] = queued[c] \ {n} /\ n \in queued[c]
          /\ \A m \in queued[c] : n <= m
          /\ UNCHANGED <<toSend, inbox, through, replayAt, replaying, mark>>
      BY <1>2 DEF SendQueued, Shapes, Least
    <2>2. /\ n \in Nat /\ through[c] \in Nat /\ replayAt[c] \in Nat /\ queued[c] \subseteq Nat
          /\ lastId[c] \in Nat /\ mark[c] \in Nat
          /\ \A p \in DOMAIN inbox[c] : inbox[c][p] \in Nat
          /\ \A p \in DOMAIN toSend : toSend[p] \in Nat
      <3>1. Len(log) \in Nat /\ queued[c] \subseteq 1..Len(log)
        BY IdsAreOfLog DEF Shapes
      <3>2. through[c] \in Nat /\ replayAt[c] \in Nat /\ lastId[c] \in Nat /\ mark[c] \in Nat
        BY DEF Shapes
      <3> QED
        BY <2>1, <3>1, <3>2, IdsAreOfLog
    <2>3. replaying[c] = 1 /\ mark[c] = 0 /\ n <= replayAt[c] /\ replayAt[c] <= through[c]
      BY <2>1 DEF InOrder
    <2>4. \A m \in queued[c] \ {n} : n < m /\ m <= replayAt[c]
      BY <2>1, <2>2 DEF InOrder
    <2>5. (/\ \A p \in DOMAIN inbox[c] : IsAhead(c, inbox[c][p])
           /\ \A p \in DOMAIN toSend : IsAhead(c, toSend[p]))'
      BY <1>0, <1>2, <2>1, <2>2, <2>3 DEF IsAhead
    <2>6. Rising(inbox[c])' /\ (\A p \in DOMAIN inbox[c], q \in DOMAIN toSend : inbox[c][p] < toSend[q])'
      BY <2>1 DEF InOrder
    <2> QED
      BY <1>0, <1>2, <2>1, <2>3, <2>4, <2>5, <2>6 DEF InOrder
  <1> QED
    BY <1>0, <1>1, <1>2

\* A page comes after what was sent and ends at the new position.
LEMMA PageInOrder ==
    ASSUME Shapes, NEW c \in Clients, InOrder(c), NEW d \in Clients, ReplayPage(d)
    PROVE  InOrder(c)'
  <1>1. CASE c # d
    BY <1>1, OrderFrame DEF ReplayPage, Shapes, clientVars
  <1>2. CASE c = d
    <2>1. /\ replaying[c] = 1 /\ replayAt'[c] = PageEnd(c)
          /\ queued'[c] \subseteq (replayAt[c] + 1)..PageEnd(c)
          /\ UNCHANGED <<toSend, conn, inbox, through, replaying, mark, lastId>>
          /\ replayAt[c] < through[c]
      BY <1>2 DEF ReplayPage, Shapes, clientVars
    <2>2. /\ through[c] \in Nat /\ replayAt[c] \in Nat /\ lastId[c] \in Nat /\ PageSize \in Nat \ {0}
      BY StreamAssumption DEF Shapes
    <2>3. PageEnd(c) \in Nat /\ replayAt[c] < PageEnd(c) /\ PageEnd(c) <= through[c]
      BY <2>1, <2>2 DEF PageEnd
    <2>4. mark[c] = 0 /\ lastId[c] <= replayAt[c]
      BY <2>1 DEF InOrder
    <2>5. \A m \in queued'[c] : lastId[c] < m /\ m <= PageEnd(c)
      BY <2>1, <2>2, <2>3, <2>4
    <2>6. Rising(inbox[c])' /\ (\A p \in DOMAIN inbox[c], q \in DOMAIN toSend : inbox[c][p] < toSend[q])'
      BY <2>1 DEF InOrder
    <2>7. (/\ conn[c] = "open" => /\ \A p \in DOMAIN inbox[c] : IsAhead(c, inbox[c][p])
                                  /\ \A p \in DOMAIN toSend : IsAhead(c, toSend[p]))'
      BY <2>1 DEF IsAhead, InOrder
    <2>8. lastId[c] <= PageEnd(c)
      BY <2>2, <2>3, <2>4
    <2>9. conn[c] = "open"
      BY <1>2 DEF ReplayPage
    <2> QED
      BY <2>1, <2>3, <2>4, <2>5, <2>6, <2>7, <2>8, <2>9 DEF InOrder
  <1> QED
    BY <1>1, <1>2

LEMMA EndReplayInOrder ==
    ASSUME Shapes, NEW c \in Clients, InOrder(c), NEW d \in Clients, EndReplay(d)
    PROVE  InOrder(c)'
  <1>1. CASE c # d
    BY <1>1, OrderFrame DEF EndReplay, Shapes, clientVars
  <1>2. CASE c = d
    <2>1. /\ conn[c] = "open" /\ queued[c] = {} /\ replaying'[c] = 0
          /\ UNCHANGED <<toSend, conn, inbox, through, replayAt, queued, mark, lastId>>
      BY <1>2 DEF EndReplay, Shapes, clientVars
    <2> QED
      BY <2>1 DEF InOrder, Rising, IsAhead
  <1> QED
    BY <1>1, <1>2

\* The receiver yields its oldest id, below all that follow it.
LEMMA RecvInOrder ==
    ASSUME Shapes, NEW c \in Clients, InOrder(c), NEW d \in Clients, Recv(d)
    PROVE  InOrder(c)'
  <1>1. CASE c # d
    BY SMTT(20), <1>1, OrderFrame DEF Recv, Receives, Shapes, clientVars
  <1>2. CASE c = d
    <2> DEFINE n == Head(inbox[c])
    <2>1. /\ conn[c] = "open" /\ queued[c] = {} /\ replaying[c] = 0 /\ inbox[c] # <<>>
          /\ inbox'[c] = Tail(inbox[c])
          /\ UNCHANGED <<toSend, conn, through, replayAt, replaying, queued>>
      BY <1>2 DEF Recv, Live, Shapes
    <2>2. \/ n <= through[c] /\ mark'[c] = mark[c] /\ lastId'[c] = lastId[c]
          \/ n > through[c] /\ lastId'[c] = n /\ mark'[c] = 0
          \/ n > through[c] /\ lastId'[c] = lastId[c] /\ mark'[c] = n
      BY <1>2 DEF Recv, Receives, Discards, Shapes, clientVars
    <2>3. /\ inbox[c] \in Seq(1..Len(log)) /\ Len(log) \in Nat
          /\ lastId[c] \in Nat /\ mark[c] \in Nat /\ through[c] \in Nat
          /\ \A p \in DOMAIN toSend : toSend[p] \in Nat
      BY SMTT(20) DEF Shapes
    <2>4. /\ n = inbox[c][1] /\ 1 \in DOMAIN inbox[c] /\ n \in 1..Len(log)
          /\ \A p \in DOMAIN inbox'[c] : /\ p \in Nat /\ p >= 1 /\ p + 1 \in DOMAIN inbox[c]
                                         /\ inbox'[c][p] = inbox[c][p + 1] /\ inbox'[c][p] \in Nat
      BY SMTT(20), <2>1, <2>3
    <2> HIDE DEF n
    <2>5. Rising(inbox[c]) /\ Rising(inbox[c])'
      <3>1. ASSUME NEW p \in DOMAIN inbox'[c], NEW q \in DOMAIN inbox'[c], p < q
            PROVE  inbox'[c][p] < inbox'[c][q]
        <4>1. p + 1 < q + 1 /\ Rising(inbox[c])
          BY <2>4, <3>1 DEF InOrder
        <4> QED
          BY <2>4, <4>1 DEF Rising
      <3>2. Rising(inbox'[c])
        BY <3>1 DEF Rising
      <3> QED
        BY <3>2 DEF InOrder
    <2>6. \A p \in DOMAIN inbox'[c] : n < inbox'[c][p]
      <3>1. \A p \in DOMAIN inbox'[c] : 1 < p + 1
        BY <2>4
      <3> QED
        BY <2>4, <2>5, <3>1 DEF Rising
    <2>7. \A q \in DOMAIN toSend : n < toSend[q]
      BY <2>4 DEF InOrder
    <2>8. (\A p \in DOMAIN inbox[c], q \in DOMAIN toSend : inbox[c][p] < toSend[q])'
      BY <2>1, <2>4 DEF InOrder
    <2>9. /\ IsAhead(c, n) /\ (mark[c] # 0 => lastId[c] < mark[c])
          /\ \A p \in DOMAIN inbox'[c] : IsAhead(c, inbox'[c][p])
          /\ \A q \in DOMAIN toSend : IsAhead(c, toSend[q])
      BY <2>1, <2>4 DEF InOrder
    <2>10. mark'[c] # 0 => lastId'[c] < mark'[c]
      BY <2>2, <2>3, <2>4, <2>9 DEF IsAhead
    <2>11. (/\ \A p \in DOMAIN inbox[c] : IsAhead(c, inbox[c][p])
            /\ \A q \in DOMAIN toSend : IsAhead(c, toSend[q]))'
      <3>1. \A k : k \in Nat /\ n < k /\ IsAhead(c, k) /\ k > through[c] => k > lastId'[c] /\ k > mark'[c]
        BY <2>2, <2>3, <2>4 DEF IsAhead
      <3>2. /\ \A p \in DOMAIN inbox'[c] : inbox'[c][p] > through'[c] => inbox'[c][p] > lastId'[c] /\ inbox'[c][p] > mark'[c]
            /\ \A q \in DOMAIN toSend' : toSend'[q] > through'[c] => toSend'[q] > lastId'[c] /\ toSend'[q] > mark'[c]
        BY <2>1, <2>3, <2>4, <2>6, <2>7, <2>9, <3>1
      <3> QED
        BY <3>2 DEF IsAhead
    <2> QED
      BY <2>1, <2>5, <2>8, <2>10, <2>11 DEF InOrder
  <1> QED
    BY <1>1, <1>2

LEMMA CheckpointInOrder ==
    ASSUME Shapes, NEW c \in Clients, InOrder(c), NEW d \in Clients, CheckpointTimer(d)
    PROVE  InOrder(c)'
  <1>1. CASE c # d
    BY <1>1, OrderFrame DEF CheckpointTimer, Receives, Shapes
  <1>2. CASE c = d
    <2>1. /\ queued[c] = {} /\ replaying[c] = 0 /\ lastId'[c] = mark[c] /\ mark'[c] = 0
          /\ UNCHANGED <<toSend, conn, inbox, through, replayAt, replaying, queued>>
          /\ mark[c] # 0
      BY <1>2 DEF CheckpointTimer, Receives, Live, Shapes
    <2>2. (\A p \in DOMAIN inbox[c] : inbox[c][p] \in Nat) /\ \A p \in DOMAIN toSend : toSend[p] \in Nat
      BY IdsAreOfLog
    <2>3. through[c] \in Nat /\ mark[c] \in Nat
      BY DEF Shapes
    <2>4. (conn[c] = "open" => /\ \A p \in DOMAIN inbox[c] : IsAhead(c, inbox[c][p])
                               /\ \A q \in DOMAIN toSend : IsAhead(c, toSend[q]))'
      BY <2>1, <2>2, <2>3 DEF IsAhead, InOrder
    <2>5. Rising(inbox[c])' /\ (\A p \in DOMAIN inbox[c], q \in DOMAIN toSend : inbox[c][p] < toSend[q])'
      BY <2>1 DEF InOrder
    <2> QED
      BY <2>1, <2>4, <2>5 DEF InOrder
  <1> QED
    BY <1>1, <1>2

LEMMA RestartInOrder ==
    ASSUME Restart, NEW c \in Clients
    PROVE  InOrder(c)' /\ Rising(toSend)'
  <1>1. /\ conn'[c] = "off" /\ inbox'[c] = <<>> /\ replaying'[c] = 0 /\ queued'[c] = {} /\ mark'[c] = 0
        /\ toSend' = <<>>
    BY DEF Restart
  <1> QED
    BY <1>1, OffInOrder DEF Rising

LEMMA OrderKept == OrderInv /\ [Next]_vars => OrderInv'
  <1> SUFFICES ASSUME OrderInv, [Next]_vars PROVE OrderInv'
    OBVIOUS
  <1>1. Shapes /\ Shapes' /\ again \in Nat
    BY ShapesStep DEF OrderInv
  <1>2. again' = again \/ (again' = again + 1 /\ \E from, to \in 1..Len(log) : CommitAgain(from, to))
    <2>1. CASE FollowerStep
      BY <2>1 DEF FollowerStep, Commit, CommitSilently, CommitAgain, Publish
    <2>2. ASSUME NEW d \in Clients, StreamStep(d) \/ Breaks(d) PROVE again' = again
      BY <2>2 DEF StreamStep, Knock, TurnAway, Subscribe, Ready, NoPermit, SendQueued,
         ReplayPage, EndReplay, Recv, CheckpointTimer, CutOff, Breaks
    <2>3. CASE Restart
      BY <2>3 DEF Restart
    <2>4. CASE UNCHANGED vars
      BY <2>4 DEF vars
    <2> QED  BY <2>1, <2>2, <2>3, <2>4 DEF Next
  <1>3. ASSUME again' = 0, NEW c \in Clients PROVE InOrder(c)'
    <2>1. again = 0 /\ InOrder(c) /\ Rising(toSend) /\ ~\E from, to \in 1..Len(log) : CommitAgain(from, to)
      <3>1. again = 0 /\ ~\E from, to \in 1..Len(log) : CommitAgain(from, to)
        BY <1>1, <1>2, <1>3 DEF CommitAgain
      <3> QED
        BY <3>1 DEF OrderInv
    <2>2. CASE FollowerStep
      BY <1>1, <2>1, <2>2, CommitInOrder, CommitSilentlyInOrder, PublishInOrder DEF FollowerStep
    <2>3. ASSUME NEW d \in Clients, StreamStep(d) \/ Breaks(d) PROVE InOrder(c)'
      <3>1. ASSUME NoPermit(d) \/ CutOff(d) \/ Breaks(d) PROVE InOrder(c)'
        <4>1. Closes(d) /\ toSend' = toSend
          BY <3>1 DEF NoPermit, CutOff, Breaks
        <4> QED  BY <1>1, <2>1, <4>1, ClosesInOrder
      <3>2. CASE Knock(d) \/ TurnAway(d) \/ Subscribe(d)
        BY <1>1, <2>1, <3>2, DoorInOrder
      <3>3. CASE Ready(d) \/ ReplayPage(d) \/ EndReplay(d) \/ Recv(d) \/ CheckpointTimer(d)
        BY <1>1, <2>1, <3>3, ReadyInOrder, PageInOrder, EndReplayInOrder, RecvInOrder, CheckpointInOrder
      <3>4. CASE \E n \in queued[d] : SendQueued(d, n)
        BY <1>1, <2>1, <3>4, SendQueuedInOrder
      <3> QED  BY <2>3, <3>1, <3>2, <3>3, <3>4 DEF StreamStep
    <2>4. CASE Restart
      BY <2>4, RestartInOrder
    <2>5. CASE UNCHANGED vars
      BY <2>1, <2>5, OrderFrame DEF vars, serverVars, clientVars
    <2> QED  BY <2>2, <2>3, <2>4, <2>5 DEF Next
  <1>4. again' = 0 => Rising(toSend)'
    <2> SUFFICES ASSUME again' = 0 PROVE Rising(toSend)'
      OBVIOUS
    <2>1. again = 0 /\ ~\E from, to \in 1..Len(log) : CommitAgain(from, to)
      BY <1>1, <1>2 DEF CommitAgain
    <2>2. Rising(toSend) /\ \A c \in Clients : InOrder(c)
      BY <2>1 DEF OrderInv
    <2>3. ASSUME NEW batch \in Batches, Commit(batch) PROVE Rising(toSend)'
      <3>1. toSend' = Ids(Len(log) + 1, Len(log) + Len(batch)) /\ log' = log \o batch
        BY <2>3 DEF Commit
      <3>2. Len(log) \in Nat /\ Len(batch) \in Nat
        BY <1>1, <3>1, LogGrows DEF Shapes
      <3>3. /\ DOMAIN toSend' = 1..Len(batch)
            /\ \A p \in 1..Len(batch) : toSend'[p] = Len(log) + p
        BY <3>1, <3>2, NewIds
      <3> QED  BY <3>2, <3>3 DEF Rising
    <2>4. CASE Publish
      <3>1. toSend' = Tail(toSend) /\ toSend # <<>> /\ toSend \in Seq(1..Len(log))
        BY <1>1, <2>4 DEF Publish, Shapes
      <3>2. ASSUME NEW p \in DOMAIN toSend', NEW q \in DOMAIN toSend', p < q PROVE toSend'[p] < toSend'[q]
        <4>1. /\ p + 1 \in DOMAIN toSend /\ q + 1 \in DOMAIN toSend /\ p + 1 < q + 1
              /\ toSend'[p] = toSend[p + 1] /\ toSend'[q] = toSend[q + 1]
          BY <3>1, <3>2
        <4> QED  BY <2>2, <4>1 DEF Rising
      <3> QED  BY <3>2 DEF Rising
    <2>5. ASSUME NEW batch \in Batches, CommitSilently(batch) PROVE Rising(toSend)'
      BY <2>2, <2>5 DEF CommitSilently
    <2>6. ASSUME NEW d \in Clients, StreamStep(d) \/ Breaks(d) PROVE toSend' = toSend
      BY <2>6 DEF StreamStep, Knock, TurnAway, Subscribe, Ready, NoPermit, SendQueued,
         ReplayPage, EndReplay, Recv, CheckpointTimer, CutOff, Breaks
    <2>7. CASE Restart
      BY <2>7 DEF Restart, Rising
    <2>8. CASE UNCHANGED vars
      BY <2>2, <2>8 DEF vars
    <2> QED  BY <2>1, <2>2, <2>3, <2>4, <2>5, <2>6, <2>7, <2>8 DEF Next, FollowerStep
  <1>5. again' \in Nat
    BY <1>1, <1>2
  <1> QED
    BY <1>1, <1>3, <1>4, <1>5 DEF OrderInv

\* Every frame has an id above the one before, also across replays, lags, cuts
\* and restarts: no record is sent twice and none out of order, as long as no
\* batch is broadcast a second time (stream.rs next_stream_frame, the discarding
\* of what is not above through).
THEOREM IdsOnlyGrow == Spec => IdsGrow
  <1>1. ASSUME OrderInv, [Next]_vars, again = 0, NEW c \in Clients
        PROVE  /\ lastId'[c] >= lastId[c]
               /\ SendsFrame(c) => lastId'[c] > lastId[c]
    <2>1. Shapes /\ InOrder(c) /\ lastId[c] \in Nat
      BY <1>1 DEF OrderInv, Shapes
    <2>2. ASSUME NEW n \in queued[c], SendQueued(c, n) PROVE lastId'[c] > lastId[c]
      <3>1. lastId'[c] = n /\ lastId[c] < n
        BY <2>1, <2>2, SendQueuedInOrder DEF InOrder
      <3>2. n \in Nat
        BY <2>1, <2>2 DEF Shapes
      <3> QED  BY <2>1, <3>1, <3>2
    <2>3. ASSUME Recv(c)
          PROVE  \/ /\ lastId'[c] = lastId[c]
                    /\ Discards(c, Head(inbox[c])) \/ ~(Matches(c, Head(inbox[c])) \/ Pageful(c))
                 \/ lastId'[c] > lastId[c]
      <3> DEFINE n == Head(inbox[c])
      <3>1. \/ lastId'[c] = lastId[c] /\ (Discards(c, n) \/ ~(Matches(c, n) \/ Pageful(c)))
            \/ lastId'[c] = n /\ n > through[c]
        BY <2>1, <2>3 DEF Recv, Receives, Discards, Shapes, clientVars
      <3>2. inbox[c] \in Seq(1..Len(log)) /\ Len(log) \in Nat /\ inbox[c] # <<>> /\ conn[c] = "open"
        BY <2>1, <2>3 DEF Shapes, Recv, Live
      <3>3. n = inbox[c][1] /\ 1 \in DOMAIN inbox[c] /\ n \in Nat
        BY <3>2
      <3> HIDE DEF n
      <3>4. n > through[c] => n > lastId[c]
        BY <2>1, <3>2, <3>3 DEF InOrder, IsAhead
      <3> QED  BY <3>1, <3>4 DEF n
    <2>4. ASSUME CheckpointTimer(c) PROVE lastId'[c] > lastId[c]
      <3>1. lastId'[c] = mark[c] /\ mark[c] # 0 /\ mark[c] \in Nat
        BY <2>1, <2>4 DEF CheckpointTimer, Receives, Shapes
      <3> QED  BY <2>1, <3>1 DEF InOrder
    <2>5. ASSUME NEW d \in Clients, d # c, \/ \E n \in queued[d] : SendQueued(d, n)
                                           \/ Recv(d) \/ CheckpointTimer(d)
          PROVE  lastId'[c] = lastId[c]
      <3>1. lastId \in [Clients -> 0..Len(log)]
        BY <2>1 DEF Shapes
      <3>2. ASSUME NEW k, Receives(d, k) PROVE lastId'[c] = lastId[c]
        BY <3>1, <3>2, <2>5 DEF Receives
      <3> QED
        BY <2>5, <3>2 DEF SendQueued, Recv, CheckpointTimer, clientVars
    <2>6. \/ lastId'[c] = lastId[c]
          \/ \E d \in Clients : (\E n \in queued[d] : SendQueued(d, n)) \/ Recv(d) \/ CheckpointTimer(d)
      <3>1. CASE FollowerStep
        BY <3>1 DEF FollowerStep, Commit, CommitSilently, CommitAgain, Publish, clientVars
      <3>2. ASSUME NEW d \in Clients, StreamStep(d) \/ Breaks(d)
            PROVE \/ lastId'[c] = lastId[c]
                  \/ (\E n \in queued[d] : SendQueued(d, n)) \/ Recv(d) \/ CheckpointTimer(d)
        BY <3>2 DEF StreamStep, Knock, TurnAway, Subscribe, Ready, NoPermit, Closes,
           ReplayPage, EndReplay, CutOff, Breaks, clientVars
      <3>3. CASE Restart
        BY <3>3 DEF Restart, clientVars
      <3>4. CASE UNCHANGED vars
        BY <3>4 DEF vars, clientVars
      <3> QED  BY <1>1, <3>1, <3>2, <3>3, <3>4 DEF Next
    <2>7. lastId'[c] = lastId[c] => lastId'[c] >= lastId[c]
      BY <2>1
    <2>8. lastId'[c] > lastId[c] => lastId'[c] >= lastId[c]
      <3>1. lastId'[c] \in Nat
        <4>1. Shapes'
          BY <1>1, <2>1, ShapesStep
        <4> QED  BY <4>1 DEF Shapes
      <3> QED  BY <2>1, <3>1
    <2>9. SendsFrame(c) => lastId'[c] > lastId[c]
      <3>1. CASE Recv(c) /\ ~Discards(c, Head(inbox[c])) /\ (Matches(c, Head(inbox[c])) \/ Pageful(c))
        BY <2>3, <3>1
      <3> QED
        BY <2>2, <2>4, <3>1 DEF SendsFrame
    <2>10. lastId'[c] >= lastId[c]
      BY <2>2, <2>3, <2>4, <2>5, <2>6, <2>7, <2>8
    <2> QED
      BY <2>9, <2>10
  <1>2. ASSUME OrderInv, [Next]_vars
        PROVE  [again = 0 => \A c \in Clients :
                  /\ lastId'[c] >= lastId[c]
                  /\ SendsFrame(c) => lastId'[c] > lastId[c]]_vars
    BY <1>1, <1>2
  <1> QED
    BY <1>2, OrderStarts, OrderKept, PTL DEF Spec, IdsGrow

-----------------------------------------------------------------------------
(* Application rows and their repairs (Applications.tla).  The invariant: a  *)
(* transaction is on the chain once, every coin, event row and failure row   *)
(* is of an accepted block, and the records they name are still what they    *)
(* were when they were named.                                                *)
ApChainOK ==
    /\ made.blocks \in Nat /\ made.failures \in Nat
    /\ chain \in Seq([id : Nat, tx : DOMAIN AppTransactions])
    /\ \A i \in DOMAIN chain : chain[i].id \in 1..made.blocks
    /\ \A i, j \in DOMAIN chain : chain[i].id = chain[j].id \/ chain[i].tx = chain[j].tx => i = j
ApAccepted(t, block) == \E i \in DOMAIN chain : chain[i].id = block /\ chain[i].tx = t
ApRowsOK ==
    /\ IsFiniteSet(DOMAIN coins)
    /\ \A o \in DOMAIN coins :
         /\ o \in Outpoints(o[1]) /\ ApAccepted(o[1], coins[o].created)
         /\ <<o[1], coins[o].cov>> \in DOMAIN eventSeq
    /\ \A o \in DOMAIN outputRows :
         /\ o \in DOMAIN coins
         /\ outputRows[o].created = coins[o].created /\ outputRows[o].spent = coins[o].spent
ApLogOK ==
    /\ deliveries \in Seq(ToSet(deliveries))
    /\ \A x \in DOMAIN eventSeq :
         /\ x = <<x[1], x[2]>> /\ eventSeq[x] \in DOMAIN deliveries
         /\ deliveries[eventSeq[x]].kind = "accepted" /\ deliveries[eventSeq[x]].tx = x[1]
         /\ ApAccepted(x[1], deliveries[eventSeq[x]].block)
ApFailuresOK ==
    /\ \A n \in DOMAIN failureRows :
         /\ n \in 1..made.failures /\ ApAccepted(failureRows[n].tx, failureRows[n].block)
         /\ failureRows[n].repaired # 0 =>
              LET r == deliveries[failureRows[n].repaired] IN
              /\ failureRows[n].repaired \in DOMAIN deliveries
              /\ r.kind = "projection_repaired" /\ r.tx = failureRows[n].tx /\ r.block = failureRows[n].block
              /\ r.source \in DOMAIN deliveries
              /\ deliveries[r.source].kind = "accepted" /\ deliveries[r.source].tx = r.tx
    /\ counts.total = Cardinality(DOMAIN failureRows)
    /\ counts.unrepaired = Cardinality({n \in DOMAIN failureRows : failureRows[n].repaired = 0})
ApInv == ApChainOK /\ ApRowsOK /\ ApLogOK /\ ApFailuresOK
-----------------------------------------------------------------------------
(* Finite sets and sequences *)

LEMMA ApImage ==
    ASSUME NEW S, IsFiniteSet(S), NEW f, DOMAIN f = S
    PROVE  IsFiniteSet({f[x] : x \in S})
  <1> DEFINE T == {f[x] : x \in S}
             g == [x \in S |-> f[x]]
  <1>1. g \in Surjection(S, T)
    BY DEF Surjection
  <1> QED
    BY <1>1, FS_Surjection

\* A listing names every member of its set.
LEMMA ApListing ==
    ASSUME NEW S, IsFiniteSet(S)
    PROVE  /\ Cardinality(S) \in Nat
           /\ Listing(S) \in [1..Cardinality(S) -> S] /\ ToSet(Listing(S)) = S
           /\ DOMAIN Listing(S) = 1..Cardinality(S) /\ Len(Listing(S)) = Cardinality(S)
  <1>1. Cardinality(S) \in Nat /\ ExistsBijection(1..Cardinality(S), S)
    BY FS_CardinalityType
  <1>2. PICK s \in [1..Cardinality(S) -> S] : ToSet(s) = S
    BY <1>1 DEF ExistsBijection, Bijection, Surjection, ToSet
  <1>3. Listing(S) \in [1..Cardinality(S) -> S] /\ ToSet(Listing(S)) = S
    BY <1>2 DEF Listing
  <1> QED
    BY <1>1, <1>3

\* Records appended to the log leave the old ones where they are.
LEMMA ApAppended ==
    ASSUME ApLogOK, NEW n \in Nat, NEW more, DOMAIN more = 1..n, more = [i \in 1..n |-> more[i]],
           deliveries' = deliveries \o more
    PROVE  /\ deliveries' \in Seq(ToSet(deliveries')) /\ Len(deliveries) \in Nat
           /\ \A k \in DOMAIN deliveries : k \in DOMAIN deliveries' /\ deliveries'[k] = deliveries[k]
           /\ \A i \in 1..n : Len(deliveries) + i \in DOMAIN deliveries' /\ deliveries'[Len(deliveries) + i] = more[i]
  <1> DEFINE R == ToSet(deliveries) \cup {more[i] : i \in 1..n}
  <1>1. more \in [1..n -> R] /\ ToSet(deliveries) \subseteq R
    OBVIOUS
  <1> HIDE DEF R
  <1>2. PICK d \in Seq(R) : d = deliveries
    BY <1>1 DEF ApLogOK
  <1>3. more \in Seq(R) /\ Len(more) = n
    BY <1>1
  <1>4. d \o more \in Seq(R) /\ Len(d \o more) = Len(d) + n /\ Len(d) \in Nat
        /\ (\A k \in DOMAIN d : k \in DOMAIN (d \o more) /\ (d \o more)[k] = d[k])
        /\ (\A i \in 1..n : Len(d) + i \in DOMAIN (d \o more) /\ (d \o more)[Len(d) + i] = more[i])
    BY <1>3
  <1>5. deliveries' \in Seq(R)
    BY <1>2, <1>4
  <1>6. deliveries' \in Seq(ToSet(deliveries'))
    <2>1. PICK e \in Seq(R) : e = deliveries'
      BY <1>5
    <2>2. DOMAIN e = 1..Len(e) /\ Len(e) \in Nat /\ e = [i \in 1..Len(e) |-> e[i]]
      OBVIOUS
    <2>3. \A i \in 1..Len(e) : e[i] \in ToSet(e)
      BY <2>2 DEF ToSet
    <2>4. e \in Seq(ToSet(e))
      BY ONLY <2>2, <2>3
    <2> QED
      BY <2>1, <2>4
  <1> QED
    BY <1>2, <1>4, <1>6

\* What decodes lies at an output of the transaction; what fails is finite.
LEMMA ApDecoded ==
    ASSUME NEW t \in DOMAIN AppTransactions, NEW option
    PROVE  /\ \A d \in Preprocess(t, option).outputs : d.index \in DOMAIN AppTransactions[t].makes
           /\ IsFiniteSet(Preprocess(t, option).failures)
  <1>1. IsFiniteSet({}) /\ IsFiniteSet({WholeTx})
    BY FS_EmptySet, FS_Singleton
  <1>2. CASE AppTransactions[t].envelope = <<>> \/ option = <<>>
    BY <1>1, <1>2 DEF Preprocess
  <1>3. CASE ~(AppTransactions[t].envelope = <<>> \/ option = <<>>)
    <2> DEFINE e == AppTransactions[t].envelope[1]
               good == {d \in ToSet(e.declares) : DecodesTo(t, d, option[1])}
    <2>1. CASE Enabled1(option[1]) = {} \/ ~Readable(e, option[1])
      BY <1>1, <1>3, <2>1 DEF Preprocess
    <2>2. CASE ~(Enabled1(option[1]) = {} \/ ~Readable(e, option[1]))
      <3>1. Preprocess(t, option).outputs = good
            /\ Preprocess(t, option).failures = {d.index : d \in ToSet(e.declares) \ good}
        BY <1>3, <2>2 DEF Preprocess
      <3>2. \A d \in good : d.index \in DOMAIN AppTransactions[t].makes
        BY DEF DecodesTo
      <3>3. IsFiniteSet(DOMAIN e.declares)
        BY <1>3, FiniteTransactions
      <3>4. IsFiniteSet({e.declares[x] : x \in DOMAIN e.declares})
        BY <3>3, ApImage
      <3>5. IsFiniteSet(ToSet(e.declares) \ good)
        BY <3>4, FS_Difference DEF ToSet
      <3>6. PICK S : S = ToSet(e.declares) \ good
        OBVIOUS
      <3>7. PICK f : f = [d \in S |-> d.index]
        OBVIOUS
      <3>8. IsFiniteSet({f[x] : x \in S})
        BY <3>5, <3>6, <3>7, ApImage
      <3>9. {f[x] : x \in S} = {d.index : d \in S}
        BY <3>7
      <3> QED
        BY <3>1, <3>2, <3>6, <3>8, <3>9
    <2> QED
      BY <2>1, <2>2
  <1> QED
    BY <1>2, <1>3

LEMMA ApOutpoints ==
    ASSUME NEW t \in DOMAIN AppTransactions
    PROVE  /\ IsFiniteSet(Outpoints(t))
           /\ \A o \in Outpoints(t) : o = <<o[1], o[2]>> /\ o[1] = t /\ o[2] \in DOMAIN AppTransactions[t].makes
           /\ \A i \in DOMAIN AppTransactions[t].makes : <<t, i>> \in Outpoints(t)
  <1>1. PICK f : f = [i \in DOMAIN AppTransactions[t].makes |-> <<t, i>>]
    OBVIOUS
  <1>2. IsFiniteSet({f[i] : i \in DOMAIN AppTransactions[t].makes})
    <2>1. DOMAIN f = DOMAIN AppTransactions[t].makes
      BY <1>1
    <2>2. IsFiniteSet(DOMAIN AppTransactions[t].makes)
      BY FiniteTransactions
    <2> QED
      BY <2>1, <2>2, ApImage
  <1>3. {f[i] : i \in DOMAIN AppTransactions[t].makes} = Outpoints(t)
    BY <1>1 DEF Outpoints
  <1>4. \A o \in Outpoints(t) : o = <<o[1], o[2]>> /\ o[1] = t /\ o[2] \in DOMAIN AppTransactions[t].makes
    BY DEF Outpoints
  <1>5. \A i \in DOMAIN AppTransactions[t].makes : <<t, i>> \in Outpoints(t)
    BY DEF Outpoints
  <1> QED
    BY <1>2, <1>3, <1>4, <1>5

LEMMA ApCovs ==
    ASSUME ApRowsOK, NEW t \in DOMAIN AppTransactions
    PROVE  /\ IsFiniteSet(CovsOf(t))
           /\ \A i \in DOMAIN AppTransactions[t].makes : AppTransactions[t].makes[i] \in CovsOf(t)
  <1> DEFINE S == AppTransactions[t].spends \cap DOMAIN coins
             D == DOMAIN AppTransactions[t].makes
  <1>1. IsFiniteSet(S)
    BY FS_Intersection, FS_Subset DEF ApRowsOK
  <1>2. PICK f : f = [o \in S |-> coins[o].cov]
    OBVIOUS
  <1>3. PICK g : g = [i \in D |-> AppTransactions[t].makes[i]]
    OBVIOUS
  <1>4. IsFiniteSet({f[o] : o \in S}) /\ IsFiniteSet({g[i] : i \in D})
    <2>1. DOMAIN f = S /\ DOMAIN g = D
      BY <1>2, <1>3
    <2>2. IsFiniteSet(D)
      BY FiniteTransactions
    <2>3. PICK S1 : S1 = S
      OBVIOUS
    <2>4. PICK D1 : D1 = D
      OBVIOUS
    <2>5. IsFiniteSet({f[o] : o \in S1})
      BY <1>1, <2>1, <2>3, ApImage
    <2>6. IsFiniteSet({g[i] : i \in D1})
      BY <2>1, <2>2, <2>4, ApImage
    <2> QED
      BY <2>3, <2>4, <2>5, <2>6
  <1>5. CovsOf(t) = {f[o] : o \in S} \cup {g[i] : i \in D}
    BY <1>2, <1>3 DEF CovsOf
  <1> QED
    BY <1>4, <1>5, FS_Union DEF CovsOf

-----------------------------------------------------------------------------
(* The steps *)

LEMMA ApOnce ==
    ASSUME ApChainOK, NEW t, NEW a, NEW b, ApAccepted(t, a), ApAccepted(t, b)
    PROVE  a = b
  BY DEF ApChainOK, ApAccepted

LEMMA ApInitInv ==
    AppInit => ApInv
  <1> SUFFICES ASSUME AppInit PROVE ApInv
    OBVIOUS
  <1>1. chain = <<>> /\ coins = <<>> /\ eventSeq = <<>> /\ outputRows = <<>> /\ failureRows = <<>> /\ deliveries = <<>>
        /\ counts = [total |-> 0, unrepaired |-> 0] /\ made = [blocks |-> 0, failures |-> 0, approvals |-> 0]
    BY DEF AppInit
  <1>2. DOMAIN coins = {} /\ DOMAIN eventSeq = {} /\ DOMAIN outputRows = {} /\ DOMAIN failureRows = {}
        /\ DOMAIN chain = {} /\ DOMAIN deliveries = {}
    BY <1>1
  <1>3. ApChainOK
    BY <1>1, <1>2 DEF ApChainOK
  <1>4. ApRowsOK
    BY <1>2, FS_EmptySet DEF ApRowsOK
  <1>5. ApLogOK
    BY <1>1, <1>2 DEF ApLogOK
  <1>6. ApFailuresOK
    <2>1. {n \in DOMAIN failureRows : failureRows[n].repaired = 0} = {}
      BY <1>2
    <2> QED
      BY <1>1, <1>2, <2>1, FS_EmptySet DEF ApFailuresOK
  <1> QED
    BY <1>3, <1>4, <1>5, <1>6 DEF ApInv

\* The block just accepted is the only one the chain gains, and its
\* transaction was on no block before.
LEMMA ApAcceptChain ==
    ASSUME ApChainOK, NEW t \in DOMAIN AppTransactions \ OnChain,
           chain' = Append(chain, [id |-> made.blocks + 1, tx |-> t]),
           made'.blocks = made.blocks + 1, made'.failures \in Nat
    PROVE  /\ ApChainOK'
           /\ \A b : ~ApAccepted(t, b)
           /\ \A u, b : ApAccepted(u, b) => ApAccepted(u, b)'
           /\ ApAccepted(t, made.blocks)'
  <1> DEFINE new == [id |-> made.blocks + 1, tx |-> t]
  <1>1. PICK c \in Seq([id : Nat, tx : DOMAIN AppTransactions]) : c = chain
    BY DEF ApChainOK
  <1>2. new \in [id : Nat, tx : DOMAIN AppTransactions] /\ new.id = made.blocks + 1 /\ new.tx = t
    BY DEF ApChainOK
  <1>3. PICK e : e = new
    OBVIOUS
  <1>4. /\ Append(c, e) \in Seq([id : Nat, tx : DOMAIN AppTransactions])
        /\ DOMAIN Append(c, e) = 1..(Len(c) + 1) /\ Append(c, e)[Len(c) + 1] = e
        /\ \A i \in 1..Len(c) : Append(c, e)[i] = c[i]
        /\ Len(c) \in Nat /\ DOMAIN c = 1..Len(c)
    BY ONLY <1>2, <1>3, c \in Seq([id : Nat, tx : DOMAIN AppTransactions])
  <1>5. /\ chain' \in Seq([id : Nat, tx : DOMAIN AppTransactions])
        /\ DOMAIN chain' = 1..(Len(c) + 1) /\ DOMAIN chain = 1..Len(c) /\ Len(c) \in Nat
        /\ chain'[Len(c) + 1].id = made.blocks + 1 /\ chain'[Len(c) + 1].tx = t
        /\ \A i \in 1..Len(c) : chain'[i] = chain[i]
    BY <1>1, <1>2, <1>3, <1>4
  <1>6. \A i \in 1..Len(c) : chain[i].tx # t /\ chain[i].id \in 1..made.blocks
    BY <1>5 DEF OnChain, ApChainOK
  <1>7. \A b : ~ApAccepted(t, b)
    BY <1>5, <1>6 DEF ApAccepted
  <1>8. \A u, b : ApAccepted(u, b) => ApAccepted(u, b)'
    <2> SUFFICES ASSUME NEW u, NEW b, ApAccepted(u, b) PROVE ApAccepted(u, b)'
      OBVIOUS
    <2>1. PICK i \in DOMAIN chain : chain[i].id = b /\ chain[i].tx = u
      BY DEF ApAccepted
    <2>2. i \in DOMAIN chain' /\ chain'[i].id = b /\ chain'[i].tx = u
      BY <2>1, <1>5
    <2> QED
      BY <2>2 DEF ApAccepted
  <1>9. ApAccepted(t, made.blocks)'
    <2>1. Len(c) + 1 \in DOMAIN chain' /\ chain'[Len(c) + 1].id = made'.blocks
      BY <1>5
    <2> QED
      BY <2>1, <1>5 DEF ApAccepted
  <1>10. ApChainOK'
    <2>1. made'.blocks \in Nat /\ made'.failures \in Nat /\ made.blocks \in Nat
      BY DEF ApChainOK
    <2>2. \A i \in DOMAIN chain' : chain'[i].id \in 1..made'.blocks
      BY SMTT(20), <2>1, <1>5, <1>6
    <2>3. \A i, j \in DOMAIN chain' : chain'[i].id = chain'[j].id \/ chain'[i].tx = chain'[j].tx => i = j
      <3> SUFFICES ASSUME NEW i \in DOMAIN chain', NEW j \in DOMAIN chain',
                          chain'[i].id = chain'[j].id \/ chain'[i].tx = chain'[j].tx
                   PROVE  i = j
        OBVIOUS
      <3>1. CASE i \in 1..Len(c) /\ j \in 1..Len(c)
        BY <3>1, <1>5 DEF ApChainOK
      <3>2. CASE i \in 1..Len(c) /\ j = Len(c) + 1
        BY <3>2, <2>1, <1>5, <1>6
      <3>3. CASE j \in 1..Len(c) /\ i = Len(c) + 1
        BY <3>3, <2>1, <1>5, <1>6
      <3> QED
        BY SMTT(20), <3>1, <3>2, <3>3, <1>5
    <2> QED
      BY <2>1, <2>2, <2>3, <1>5 DEF ApChainOK
  <1> QED
    BY <1>7, <1>8, <1>9, <1>10

\* What an accepted transaction writes, table by table.
ApAccepting(t) ==
    /\ t \in DOMAIN AppTransactions \ OnChain
    /\ AcceptTx(t, made.blocks + 1)
    /\ chain' = Append(chain, [id |-> made.blocks + 1, tx |-> t])

LEMMA ApAcceptShape ==
    ASSUME ApInv, NEW t, ApAccepting(t)
    PROVE  /\ made'.blocks = made.blocks + 1
           /\ made'.failures = made.failures + Cardinality(Preprocess(t, manifest).failures)
           /\ made'.failures \in Nat
           /\ DOMAIN Listing(Preprocess(t, manifest).failures) = 1..Cardinality(Preprocess(t, manifest).failures)
  <1>1. t \in DOMAIN AppTransactions
    BY DEF ApAccepting
  <1>2. IsFiniteSet(Preprocess(t, manifest).failures)
    BY <1>1, ApDecoded
  <1>3. Len(Listing(Preprocess(t, manifest).failures)) = Cardinality(Preprocess(t, manifest).failures)
        /\ Cardinality(Preprocess(t, manifest).failures) \in Nat
        /\ DOMAIN Listing(Preprocess(t, manifest).failures) = 1..Cardinality(Preprocess(t, manifest).failures)
    BY <1>2, ApListing
  <1>4. made' = [blocks |-> made.blocks + 1, failures |-> made.failures + Len(Listing(Preprocess(t, manifest).failures)),
                 approvals |-> made.approvals]
    BY DEF ApAccepting, AcceptTx
  <1> QED
    BY <1>3, <1>4 DEF ApInv, ApChainOK

LEMMA ApAcceptRows ==
    ASSUME ApInv, NEW t, ApAccepting(t)
    PROVE  ApRowsOK'
  <1> DEFINE block == made.blocks + 1
             p == Preprocess(t, manifest)
             made1 == {<<t, d.index>> : d \in p.outputs}
  <1>1. t \in DOMAIN AppTransactions \ OnChain /\ ApRowsOK /\ ApChainOK /\ ApLogOK
    BY DEF ApAccepting, ApInv
  <1>2. /\ \A b : ~ApAccepted(t, b)
        /\ \A u, b : ApAccepted(u, b) => ApAccepted(u, b)'
        /\ ApAccepted(t, made.blocks)' /\ made'.blocks = made.blocks + 1
    BY <1>1, ApAcceptShape, ApAcceptChain DEF ApAccepting
  <1>3. /\ coins' = [o \in DOMAIN coins \cup Outpoints(t) |->
             IF o \in Outpoints(t) THEN Coin(CovOf(o), block, NoBlockYet)
             ELSE IF Spends(t, coins, o) THEN Coin(coins[o].cov, coins[o].created, block)
             ELSE coins[o]]
        /\ outputRows' = [o \in DOMAIN outputRows \cup made1 |->
             IF o \in made1 THEN Row(Declared(p, o).app, CovOf(o), block, NoBlockYet)
             ELSE IF Spends(t, outputRows, o)
             THEN Row(outputRows[o].app, outputRows[o].cov, outputRows[o].created, block)
             ELSE outputRows[o]]
    BY DEF ApAccepting, AcceptTx
  <1>4. DOMAIN eventSeq' = DOMAIN eventSeq \cup {<<t, c>> : c \in CovsOf(t)}
    BY DEF ApAccepting, AcceptTx, Merge
  <1>5. IsFiniteSet(Outpoints(t))
        /\ (\A o \in Outpoints(t) : o = <<o[1], o[2]>> /\ o[1] = t /\ o[2] \in DOMAIN AppTransactions[t].makes)
        /\ (\A i \in DOMAIN AppTransactions[t].makes : <<t, i>> \in Outpoints(t))
    BY <1>1, ApOutpoints
  <1>6. \A i \in DOMAIN AppTransactions[t].makes : AppTransactions[t].makes[i] \in CovsOf(t)
    BY <1>1, ApCovs
  <1>7. made1 \subseteq Outpoints(t)
    BY <1>1, <1>5, ApDecoded
  <1>8. \A o \in DOMAIN coins : o[1] # t /\ o \notin Outpoints(t) /\ o \notin made1
    BY <1>1, <1>2, <1>5, <1>7 DEF ApRowsOK
  <1> HIDE DEF made1, p, block
  <1>9. DOMAIN coins' = DOMAIN coins \cup Outpoints(t) /\ DOMAIN outputRows' = DOMAIN outputRows \cup made1
    BY <1>3
  <1>10. IsFiniteSet(DOMAIN coins')
    <2>1. IsFiniteSet(DOMAIN coins)
      BY <1>1 DEF ApRowsOK
    <2>2. IsFiniteSet(DOMAIN coins \cup Outpoints(t))
      BY <2>1, <1>5, FS_Union
    <2> QED
      BY <2>2, <1>9
  <1>11. \A o \in Outpoints(t) : /\ coins'[o].cov = CovOf(o) /\ coins'[o].created = block
                                 /\ coins'[o].spent = NoBlockYet
    BY <1>3 DEF Coin
  <1>12. \A o \in DOMAIN coins :
          /\ coins'[o].cov = coins[o].cov /\ coins'[o].created = coins[o].created
          /\ coins'[o].spent = IF Spends(t, coins, o) THEN block ELSE coins[o].spent
    BY <1>3, <1>8 DEF Coin
  <1>13. \A o \in DOMAIN outputRows : o \in DOMAIN coins
    BY <1>1 DEF ApRowsOK
  <1>14. \A o \in DOMAIN outputRows :
          /\ outputRows'[o].created = outputRows[o].created
          /\ outputRows'[o].spent = IF Spends(t, outputRows, o) THEN block ELSE outputRows[o].spent
    BY <1>3, <1>8, <1>13 DEF Row
  <1>15. \A o \in made1 : outputRows'[o].created = block /\ outputRows'[o].spent = NoBlockYet
    BY <1>3 DEF Row
  <1>16. \A o \in DOMAIN outputRows' :
          /\ o \in DOMAIN coins'
          /\ outputRows'[o].created = coins'[o].created /\ outputRows'[o].spent = coins'[o].spent
    <2> SUFFICES ASSUME NEW o \in DOMAIN outputRows'
                 PROVE  /\ o \in DOMAIN coins'
                        /\ outputRows'[o].created = coins'[o].created /\ outputRows'[o].spent = coins'[o].spent
      OBVIOUS
    <2>1. CASE o \in made1
      BY <2>1, <1>7, <1>9, <1>11, <1>15
    <2>2. CASE o \in DOMAIN outputRows
      <3>1. outputRows[o].created = coins[o].created /\ outputRows[o].spent = coins[o].spent
        BY <2>2, <1>1 DEF ApRowsOK
      <3>2. Spends(t, outputRows, o) <=> Spends(t, coins, o)
        BY <3>1 DEF Spends
      <3> QED
        BY <2>2, <3>1, <3>2, <1>9, <1>12, <1>13, <1>14
    <2> QED
      BY <2>1, <2>2, <1>9
  <1>17. \A o \in DOMAIN coins' :
          /\ o \in Outpoints(o[1]) /\ ApAccepted(o[1], coins[o].created)'
          /\ <<o[1], coins'[o].cov>> \in DOMAIN eventSeq'
    <2> SUFFICES ASSUME NEW o \in DOMAIN coins'
                 PROVE  /\ o \in Outpoints(o[1]) /\ ApAccepted(o[1], coins[o].created)'
                        /\ <<o[1], coins'[o].cov>> \in DOMAIN eventSeq'
      OBVIOUS
    <2>1. CASE o \in Outpoints(t)
      <3>1. coins'[o].created = made.blocks + 1 /\ o[1] = t
        BY <2>1, <1>5, <1>11 DEF block
      <3>2. CovOf(o) \in CovsOf(t)
        BY <2>1, <1>5, <1>6 DEF CovOf
      <3>3. PICK b : b = made.blocks + 1
        OBVIOUS
      <3>4. ApAccepted(t, b)'
        BY <3>3, <1>2 DEF ApAccepted
      <3> QED
        BY <2>1, <3>1, <3>2, <3>3, <3>4, <1>4, <1>11 DEF ApAccepted
    <2>2. CASE o \in DOMAIN coins
      <3>1. o \in Outpoints(o[1]) /\ ApAccepted(o[1], coins[o].created) /\ <<o[1], coins[o].cov>> \in DOMAIN eventSeq
        BY <2>2, <1>1 DEF ApRowsOK
      <3>2. PICK b : b = coins[o].created
        OBVIOUS
      <3>3. ApAccepted(o[1], b)'
        BY <3>1, <3>2, <1>2
      <3> QED
        BY <2>2, <3>1, <3>2, <3>3, <1>4, <1>12 DEF ApAccepted
    <2> QED
      BY <2>1, <2>2, <1>9
  <1> QED
    BY <1>10, <1>16, <1>17 DEF ApRowsOK

LEMMA ApAcceptLog ==
    ASSUME ApInv, NEW t, ApAccepting(t)
    PROVE  /\ ApLogOK'
           /\ \A k \in DOMAIN deliveries : k \in DOMAIN deliveries' /\ deliveries'[k] = deliveries[k]
  <1> DEFINE block == made.blocks + 1
             covs == Listing(CovsOf(t))
             apps(c) == {d.app : d \in {e \in Preprocess(t, manifest).outputs : AppTransactions[t].makes[e.index] = c}}
             more == [i \in DOMAIN covs |-> Delivery("accepted", 0, t, covs[i], block, apps(covs[i]))]
             n == Cardinality(CovsOf(t))
  <1>1. t \in DOMAIN AppTransactions \ OnChain /\ ApRowsOK /\ ApChainOK /\ ApLogOK
    BY DEF ApAccepting, ApInv
  <1>2. /\ \A u, b : ApAccepted(u, b) => ApAccepted(u, b)'
        /\ ApAccepted(t, made.blocks)' /\ made'.blocks = made.blocks + 1
    BY <1>1, ApAcceptShape, ApAcceptChain DEF ApAccepting
  <1>3. deliveries' = deliveries \o more
    BY DEF ApAccepting, AcceptTx
  <1>4. eventSeq' = Merge([x \in {<<t, c>> : c \in CovsOf(t)} |->
             Len(deliveries) + CHOOSE i \in DOMAIN covs : covs[i] = x[2]], eventSeq)
    BY DEF ApAccepting, AcceptTx
  <1>5. n \in Nat /\ DOMAIN covs = 1..n /\ ToSet(covs) = CovsOf(t)
    BY <1>1, ApCovs, ApListing
  <1>6. \A i \in DOMAIN covs : more[i].kind = "accepted" /\ more[i].tx = t /\ more[i].block = block
    BY DEF Delivery
  <1>7. DOMAIN more = DOMAIN covs /\ more = [i \in DOMAIN covs |-> more[i]]
    OBVIOUS
  <1> HIDE DEF more, covs, n
  <1>8. DOMAIN more = 1..n /\ more = [i \in 1..n |-> more[i]]
    BY <1>5, <1>7
  <1>9. /\ deliveries' \in Seq(ToSet(deliveries')) /\ Len(deliveries) \in Nat
        /\ \A k \in DOMAIN deliveries : k \in DOMAIN deliveries' /\ deliveries'[k] = deliveries[k]
        /\ \A i \in 1..n : Len(deliveries) + i \in DOMAIN deliveries' /\ deliveries'[Len(deliveries) + i] = more[i]
    BY <1>1, <1>3, <1>5, <1>8, ApAppended
  <1>10. DOMAIN eventSeq' = DOMAIN eventSeq \cup {<<t, c>> : c \in CovsOf(t)}
    BY <1>4 DEF Merge
  <1>11. ASSUME NEW x \in DOMAIN eventSeq'
         PROVE  /\ x = <<x[1], x[2]>> /\ eventSeq'[x] \in DOMAIN deliveries'
                /\ deliveries'[eventSeq'[x]].kind = "accepted" /\ deliveries'[eventSeq'[x]].tx = x[1]
                /\ ApAccepted(x[1], deliveries[eventSeq[x]].block)'
    <2>1. CASE x \in {<<t, c>> : c \in CovsOf(t)}
      <3>1. PICK c \in CovsOf(t) : x = <<t, c>>
        BY <2>1
      <3>2. x[1] = t /\ x[2] = c /\ x = <<x[1], x[2]>>
        BY <3>1
      <3>3. \E i \in DOMAIN covs : covs[i] = x[2]
        BY <1>5, <3>1, <3>2 DEF ToSet
      <3>4. PICK i \in DOMAIN covs : i = CHOOSE j \in DOMAIN covs : covs[j] = x[2]
        BY <3>3
      <3>5. eventSeq'[x] = Len(deliveries) + i
        BY <1>4, <1>10, <2>1, <3>4 DEF Merge
      <3>6. eventSeq'[x] \in DOMAIN deliveries' /\ deliveries'[eventSeq'[x]] = more[i]
        BY <3>4, <3>5, <1>5, <1>9
      <3>7. more[i].kind = "accepted" /\ more[i].tx = t /\ more[i].block = made'.blocks
        BY <1>2, <1>6, <3>4
      <3> QED
        BY <3>2, <3>6, <3>7, <1>2 DEF ApAccepted
    <2>2. CASE x \in DOMAIN eventSeq /\ x \notin {<<t, c>> : c \in CovsOf(t)}
      <3>1. eventSeq'[x] = eventSeq[x]
        BY <1>4, <2>2 DEF Merge
      <3>2. /\ x = <<x[1], x[2]>> /\ eventSeq[x] \in DOMAIN deliveries
            /\ deliveries[eventSeq[x]].kind = "accepted" /\ deliveries[eventSeq[x]].tx = x[1]
            /\ ApAccepted(x[1], deliveries[eventSeq[x]].block)
        BY <2>2, <1>1 DEF ApLogOK
      <3>3. PICK b : b = deliveries[eventSeq[x]].block
        OBVIOUS
      <3>4. ApAccepted(x[1], b)'
        BY <3>2, <3>3, <1>2
      <3>5. eventSeq'[x] \in DOMAIN deliveries' /\ deliveries'[eventSeq'[x]] = deliveries[eventSeq[x]]
        BY <3>1, <3>2, <1>9
      <3> QED
        BY <3>2, <3>3, <3>4, <3>5 DEF ApAccepted
    <2> QED
      BY <2>1, <2>2, <1>10
  <1> QED
    BY <1>9, <1>11 DEF ApLogOK

\* A failure row keeps its meaning while the log only grows and its block
\* stays on the chain.
LEMMA ApFailureKept ==
    ASSUME NEW f, NEW D, NEW D1, \A k \in DOMAIN D : k \in DOMAIN D1 /\ D1[k] = D[k],
           LET r == D[f.repaired] IN
              /\ f.repaired \in DOMAIN D
              /\ r.kind = "projection_repaired" /\ r.tx = f.tx /\ r.block = f.block
              /\ r.source \in DOMAIN D
              /\ D[r.source].kind = "accepted" /\ D[r.source].tx = r.tx
    PROVE  LET r == D1[f.repaired] IN
              /\ f.repaired \in DOMAIN D1
              /\ r.kind = "projection_repaired" /\ r.tx = f.tx /\ r.block = f.block
              /\ r.source \in DOMAIN D1
              /\ D1[r.source].kind = "accepted" /\ D1[r.source].tx = r.tx
  OBVIOUS

LEMMA ApAcceptFailures ==
    ASSUME ApInv, NEW t, ApAccepting(t)
    PROVE  ApFailuresOK'
  <1> DEFINE block == made.blocks + 1
             fails == Listing(Preprocess(t, manifest).failures)
             m == Cardinality(Preprocess(t, manifest).failures)
             fresh == (made.failures + 1)..(made.failures + m)
             U == {n \in DOMAIN failureRows : failureRows[n].repaired = 0}
  <1>1. t \in DOMAIN AppTransactions \ OnChain /\ ApRowsOK /\ ApChainOK /\ ApLogOK /\ ApFailuresOK
    BY DEF ApAccepting, ApInv
  <1>2. /\ \A u, b : ApAccepted(u, b) => ApAccepted(u, b)'
        /\ ApAccepted(t, made.blocks)' /\ made'.blocks = made.blocks + 1
    BY <1>1, ApAcceptShape, ApAcceptChain DEF ApAccepting
  <1>3. m \in Nat /\ Len(fails) = m /\ made'.failures = made.failures + m
    BY <1>1, ApDecoded, ApListing, ApAcceptShape
  <1>4. /\ failureRows' = Merge([n \in (made.failures + 1)..(made.failures + Len(fails)) |->
             Failure(t, fails[n - made.failures], block, 0)], failureRows)
        /\ counts' = [total |-> counts.total + Len(fails), unrepaired |-> counts.unrepaired + Len(fails)]
    BY DEF ApAccepting, AcceptTx
  <1>5. /\ failureRows' = Merge([n \in fresh |-> Failure(t, fails[n - made.failures], block, 0)], failureRows)
        /\ counts'.total = counts.total + m /\ counts'.unrepaired = counts.unrepaired + m
    BY <1>3, <1>4
  <1> HIDE DEF fails, m
  <1>6. made.failures \in Nat
    BY <1>1 DEF ApChainOK
  <1>7. DOMAIN failureRows \subseteq 1..made.failures /\ (DOMAIN failureRows) \cap fresh = {}
    BY <1>1, <1>3, <1>6 DEF ApFailuresOK
  <1>8. DOMAIN failureRows' = DOMAIN failureRows \cup fresh
    BY <1>5 DEF Merge
  <1>9. \A n \in fresh : failureRows'[n] = Failure(t, fails[n - made.failures], block, 0)
    BY <1>5 DEF Merge
  <1>10. \A n \in fresh : failureRows'[n].tx = t /\ failureRows'[n].block = block /\ failureRows'[n].repaired = 0
    <2> SUFFICES ASSUME NEW n \in fresh
                 PROVE  failureRows'[n].tx = t /\ failureRows'[n].block = block /\ failureRows'[n].repaired = 0
      OBVIOUS
    <2>1. PICK i : i = fails[n - made.failures]
      OBVIOUS
    <2>2. failureRows'[n] = Failure(t, i, block, 0)
      BY <1>9, <2>1
    <2> HIDE DEF fresh, block
    <2> QED
      BY <2>2 DEF Failure
  <1>11. \A n \in DOMAIN failureRows : failureRows'[n] = failureRows[n]
    BY <1>5, <1>7 DEF Merge
  <1>12. IsFiniteSet(fresh) /\ Cardinality(fresh) = m
    <2>1. PICK a \in Int : a = made.failures + 1
      BY <1>6
    <2>2. PICK b \in Int : b = made.failures + m
      BY <1>3, <1>6
    <2>3. IsFiniteSet(a..b) /\ Cardinality(a..b) = IF a > b THEN 0 ELSE b - a + 1
      BY FS_Interval
    <2>4. Cardinality(a..b) = m
      <3>1. m \in Nat /\ made.failures \in Nat
        BY <1>3, <1>6
      <3>2. CASE m = 0
        BY <2>1, <2>2, <2>3, <3>1, <3>2
      <3>3. CASE m # 0
        <4>1. ~(a > b) /\ b - a + 1 = m
          BY <2>1, <2>2, <3>1, <3>3
        <4> QED
          BY <2>3, <4>1
      <3> QED
        BY <3>2, <3>3
    <2> QED
      BY <2>1, <2>2, <2>3, <2>4
  <1>13. IsFiniteSet(DOMAIN failureRows) /\ IsFiniteSet(U)
    <2>1. IsFiniteSet(1..made.failures)
      BY <1>6, FS_Interval
    <2>2. U \subseteq 1..made.failures
      BY <1>7
    <2> QED
      BY <1>7, <2>1, <2>2, FS_Subset
  <1>14. {n \in DOMAIN failureRows' : failureRows'[n].repaired = 0} = U \cup fresh
    BY <1>8, <1>10, <1>11
  <1>15. U \cap fresh = {}
    BY <1>7
  <1> HIDE DEF fresh
  <1>16. counts.total = Cardinality(DOMAIN failureRows) /\ counts.unrepaired = Cardinality(U)
    BY <1>1 DEF ApFailuresOK
  <1>17. Cardinality(DOMAIN failureRows) \in Nat /\ Cardinality(U) \in Nat
    BY <1>13, FS_CardinalityType
  <1>18. Cardinality((DOMAIN failureRows) \cup fresh) = Cardinality(DOMAIN failureRows) + m
    <2>1. Cardinality((DOMAIN failureRows) \cup fresh)
          = Cardinality(DOMAIN failureRows) + Cardinality(fresh) - Cardinality((DOMAIN failureRows) \cap fresh)
      BY <1>12, <1>13, FS_Union
    <2>2. Cardinality((DOMAIN failureRows) \cap fresh) = 0
      BY <1>7, FS_EmptySet
    <2> QED
      BY <2>1, <2>2, <1>3, <1>12, <1>17
  <1>19. Cardinality(U \cup fresh) = Cardinality(U) + m
    <2> HIDE DEF U
    <2>1. Cardinality(U \cup fresh) = Cardinality(U) + Cardinality(fresh) - Cardinality(U \cap fresh)
      BY <1>12, <1>13, FS_Union
    <2>2. Cardinality(U \cap fresh) = 0
      BY <1>15, FS_EmptySet
    <2> QED
      BY <2>1, <2>2, <1>3, <1>12, <1>17
  <1>20. counts'.total = Cardinality(DOMAIN failureRows')
         /\ counts'.unrepaired = Cardinality({n \in DOMAIN failureRows' : failureRows'[n].repaired = 0})
    BY <1>5, <1>8, <1>14, <1>16, <1>18, <1>19
  <1>21. \A k \in DOMAIN deliveries : k \in DOMAIN deliveries' /\ deliveries'[k] = deliveries[k]
    BY ApAcceptLog
  <1>22. ASSUME NEW n \in DOMAIN failureRows'
         PROVE  /\ n \in 1..made'.failures /\ ApAccepted(failureRows[n].tx, failureRows[n].block)'
                /\ failureRows'[n].repaired # 0 =>
                     LET r == deliveries'[failureRows'[n].repaired] IN
                     /\ failureRows'[n].repaired \in DOMAIN deliveries'
                     /\ r.kind = "projection_repaired" /\ r.tx = failureRows'[n].tx /\ r.block = failureRows'[n].block
                     /\ r.source \in DOMAIN deliveries'
                     /\ deliveries'[r.source].kind = "accepted" /\ deliveries'[r.source].tx = r.tx
    <2>1. CASE n \in fresh
      <3>1. n \in 1..made'.failures
        BY <2>1, <1>3, <1>6 DEF fresh
      <3>2. ApAccepted(failureRows[n].tx, failureRows[n].block)'
        BY <2>1, <1>2, <1>10 DEF ApAccepted
      <3> QED
        BY <2>1, <3>1, <3>2, <1>10
    <2>2. CASE n \in DOMAIN failureRows
      <3>1. failureRows'[n] = failureRows[n]
        BY <2>2, <1>11
      <3>2. n \in 1..made.failures /\ ApAccepted(failureRows[n].tx, failureRows[n].block)
        BY <2>2, <1>1 DEF ApFailuresOK
      <3>3. PICK f : f = failureRows[n]
        OBVIOUS
      <3>4. ApAccepted(f.tx, f.block)'
        BY <3>2, <3>3, <1>2
      <3>5. ApAccepted(failureRows[n].tx, failureRows[n].block)'
        BY <3>1, <3>3, <3>4 DEF ApAccepted
      <3>6. CASE f.repaired = 0
        BY <3>1, <3>2, <3>3, <3>5, <3>6, <1>3, <1>6
      <3>7. CASE f.repaired # 0
        <4>1. LET r == deliveries[f.repaired] IN
              /\ f.repaired \in DOMAIN deliveries
              /\ r.kind = "projection_repaired" /\ r.tx = f.tx /\ r.block = f.block
              /\ r.source \in DOMAIN deliveries
              /\ deliveries[r.source].kind = "accepted" /\ deliveries[r.source].tx = r.tx
          BY <1>1, <2>2, <3>3, <3>7 DEF ApFailuresOK
        <4>2. LET r == deliveries'[f.repaired] IN
              /\ f.repaired \in DOMAIN deliveries'
              /\ r.kind = "projection_repaired" /\ r.tx = f.tx /\ r.block = f.block
              /\ r.source \in DOMAIN deliveries'
              /\ deliveries'[r.source].kind = "accepted" /\ deliveries'[r.source].tx = r.tx
          BY <1>21, <4>1, ApFailureKept
        <4>3. n \in 1..made'.failures
          BY <3>2, <1>3, <1>6
        <4> QED
          BY <3>1, <3>3, <3>5, <4>2, <4>3
      <3> QED
        BY <3>6, <3>7
    <2> QED
      BY <2>1, <2>2, <1>8
  <1> QED
    BY <1>20, <1>22 DEF ApFailuresOK

\* Whatever was accepted on another block stays accepted when the last block goes.
LEMMA ApRemoveChain ==
    ASSUME ApChainOK, chain # <<>>, chain' = Front(chain), made' = made
    PROVE  /\ ApChainOK'
           /\ \A u, b : ApAccepted(u, b) /\ b # Last(chain).id => ApAccepted(u, b)'
  <1>1. PICK c \in Seq([id : Nat, tx : DOMAIN AppTransactions]) : c = chain
    BY DEF ApChainOK
  <1>2. c # <<>>
    BY <1>1
  <1>3. /\ SubSeq(c, 1, Len(c) - 1) \in Seq([id : Nat, tx : DOMAIN AppTransactions])
        /\ DOMAIN SubSeq(c, 1, Len(c) - 1) = 1..(Len(c) - 1)
        /\ \A i \in 1..(Len(c) - 1) : SubSeq(c, 1, Len(c) - 1)[i] = c[i]
        /\ Len(c) \in Nat /\ Len(c) # 0 /\ DOMAIN c = 1..Len(c)
    <2> DEFINE R == [id : Nat, tx : DOMAIN AppTransactions]
    <2>1. c \in Seq(R)
      OBVIOUS
    <2> HIDE DEF R
    <2>2. Len(c) \in Nat /\ DOMAIN c = 1..Len(c) /\ Len(c) # 0
      BY ONLY <1>2, <2>1
    <2>3. PICK m \in Nat : m = Len(c) - 1
      <3>1. PICK k \in Nat : k = Len(c) /\ k # 0
        BY <2>2
      <3>2. k - 1 \in Nat
        BY <3>1
      <3> QED
        BY <3>1, <3>2
    <2>4. \A i \in 1..m : i \in 1..Len(c)
      BY <2>2, <2>3
    <2>5. SubSeq(c, 1, m) = [i \in 1..m |-> c[i]]
      BY ONLY <2>1, <2>2, <2>3
    <2>6. SubSeq(c, 1, m) \in Seq(R)
      <3>1. \A i \in 1..m : c[i] \in R
        BY <2>1, <2>2, <2>4
      <3>2. SubSeq(c, 1, m) \in [1..m -> R]
        BY <2>5, <3>1
      <3>3. PICK g \in [1..m -> R] : g = SubSeq(c, 1, m)
        BY <3>2
      <3>4. g \in Seq(R)
        BY ONLY m \in Nat, g \in [1..m -> R]
      <3> QED
        BY <3>3, <3>4
    <2>7. DOMAIN SubSeq(c, 1, m) = 1..m /\ \A i \in 1..m : SubSeq(c, 1, m)[i] = c[i]
      BY <2>5
    <2> QED
      BY <2>2, <2>3, <2>6, <2>7 DEF R
  <1>4. /\ chain' \in Seq([id : Nat, tx : DOMAIN AppTransactions])
        /\ DOMAIN chain' = 1..(Len(c) - 1) /\ DOMAIN chain = 1..Len(c) /\ Len(c) \in Nat /\ Len(c) # 0
        /\ \A i \in 1..(Len(c) - 1) : chain'[i] = chain[i]
        /\ Last(chain).id = chain[Len(c)].id
    BY <1>1, <1>3 DEF Front, Last
  <1>5. ApChainOK'
    <2>1. made'.blocks = made.blocks /\ made'.failures = made.failures
      OBVIOUS
    <2>2. \A i \in 1..(Len(c) - 1) : i \in 1..Len(c)
      BY <1>4
    <2>3. \A i \in DOMAIN chain' : chain'[i].id \in 1..made'.blocks
      BY <2>1, <2>2, <1>4 DEF ApChainOK
    <2>4. \A i, j \in DOMAIN chain' : chain'[i].id = chain'[j].id \/ chain'[i].tx = chain'[j].tx => i = j
      <3> SUFFICES ASSUME NEW i \in DOMAIN chain', NEW j \in DOMAIN chain',
                          chain'[i].id = chain'[j].id \/ chain'[i].tx = chain'[j].tx
                   PROVE  i = j
        OBVIOUS
      <3>1. i \in DOMAIN chain /\ j \in DOMAIN chain /\ chain'[i] = chain[i] /\ chain'[j] = chain[j]
        BY <2>2, <1>4
      <3> QED
        BY <3>1 DEF ApChainOK
    <2> QED
      BY <2>1, <2>3, <2>4, <1>4 DEF ApChainOK
  <1>6. ASSUME NEW u, NEW b, ApAccepted(u, b), b # Last(chain).id
        PROVE  ApAccepted(u, b)'
    <2>1. PICK i \in 1..Len(c) : chain[i].id = b /\ chain[i].tx = u
      BY <1>4, <1>6 DEF ApAccepted
    <2>2. i \in 1..(Len(c) - 1)
      BY <2>1, <1>4, <1>6
    <2>3. i \in DOMAIN chain' /\ chain'[i].id = b /\ chain'[i].tx = u
      BY <2>1, <2>2, <1>4
    <2> QED
      BY <2>3 DEF ApAccepted
  <1> QED
    BY <1>5, <1>6

LEMMA ApRemoveLog ==
    ASSUME ApInv, RemoveBlock
    PROVE  /\ ApLogOK'
           /\ \A k \in DOMAIN deliveries : k \in DOMAIN deliveries' /\ deliveries'[k] = deliveries[k]
  <1> DEFINE block == Last(chain).id
             S == {n \in DOMAIN deliveries : deliveries[n].kind = "accepted" /\ deliveries[n].block = block}
             n == Cardinality(S)
  <1>1. ApChainOK /\ ApLogOK
    BY DEF ApInv
  <1>2. \A u, b : ApAccepted(u, b) /\ b # block => ApAccepted(u, b)'
    BY <1>1, ApRemoveChain DEF RemoveBlock
  <1>3. PICK sources \in InLogOrder(S) :
          deliveries' = deliveries \o [i \in DOMAIN sources |->
            LET r == deliveries[sources[i]] IN Delivery("removed", sources[i], r.tx, r.cov, r.block, r.apps)]
    BY DEF RemoveBlock
  <1>4. eventSeq' = [x \in {y \in DOMAIN eventSeq : deliveries[eventSeq[y]].block # block} |-> eventSeq[x]]
    BY DEF RemoveBlock
  <1>5. n \in Nat
    <2>1. PICK d \in Seq(ToSet(deliveries)) : d = deliveries
      BY <1>1 DEF ApLogOK
    <2>2. Len(d) \in Nat /\ DOMAIN deliveries = 1..Len(d)
      BY <2>1
    <2>3. IsFiniteSet(1..Len(d))
      BY <2>2, FS_Interval
    <2>4. S \subseteq 1..Len(d)
      BY <2>2
    <2>5. IsFiniteSet(S)
      BY <2>3, <2>4, FS_Subset
    <2> QED
      BY <2>5, FS_CardinalityType
  <1>6. DOMAIN sources = 1..n
    BY <1>3 DEF InLogOrder
  <1> DEFINE more == [i \in DOMAIN sources |->
            LET r == deliveries[sources[i]] IN Delivery("removed", sources[i], r.tx, r.cov, r.block, r.apps)]
  <1>7. DOMAIN more = DOMAIN sources /\ more = [i \in DOMAIN sources |-> more[i]] /\ deliveries' = deliveries \o more
    BY <1>3
  <1> HIDE DEF more, n, S
  <1>8. DOMAIN more = 1..n /\ more = [i \in 1..n |-> more[i]]
    BY <1>6, <1>7
  <1>9. /\ deliveries' \in Seq(ToSet(deliveries'))
        /\ \A k \in DOMAIN deliveries : k \in DOMAIN deliveries' /\ deliveries'[k] = deliveries[k]
    BY <1>1, <1>5, <1>7, <1>8, ApAppended
  <1>10. ASSUME NEW x \in DOMAIN eventSeq'
         PROVE  /\ x = <<x[1], x[2]>> /\ eventSeq'[x] \in DOMAIN deliveries'
                /\ deliveries'[eventSeq'[x]].kind = "accepted" /\ deliveries'[eventSeq'[x]].tx = x[1]
                /\ ApAccepted(x[1], deliveries[eventSeq[x]].block)'
    <2>1. x \in DOMAIN eventSeq /\ eventSeq'[x] = eventSeq[x] /\ deliveries[eventSeq[x]].block # block
      BY <1>4
    <2>2. /\ x = <<x[1], x[2]>> /\ eventSeq[x] \in DOMAIN deliveries
          /\ deliveries[eventSeq[x]].kind = "accepted" /\ deliveries[eventSeq[x]].tx = x[1]
          /\ ApAccepted(x[1], deliveries[eventSeq[x]].block)
      BY <2>1, <1>1 DEF ApLogOK
    <2>3. PICK b : b = deliveries[eventSeq[x]].block
      OBVIOUS
    <2>4. ApAccepted(x[1], b)'
      BY <2>1, <2>2, <2>3, <1>2
    <2>5. eventSeq'[x] \in DOMAIN deliveries' /\ deliveries'[eventSeq'[x]] = deliveries[eventSeq[x]]
      BY <2>1, <2>2, <1>9
    <2> QED
      BY <2>2, <2>3, <2>4, <2>5 DEF ApAccepted
  <1> QED
    BY <1>9, <1>10 DEF ApLogOK

LEMMA ApRemoveRows ==
    ASSUME ApInv, RemoveBlock
    PROVE  ApRowsOK'
  <1> DEFINE block == Last(chain).id
  <1>1. ApChainOK /\ ApLogOK /\ ApRowsOK
    BY DEF ApInv
  <1>2. \A u, b : ApAccepted(u, b) /\ b # block => ApAccepted(u, b)'
    BY <1>1, ApRemoveChain DEF RemoveBlock
  <1>3. /\ coins' = [o \in {x \in DOMAIN coins : coins[x].created # block} |->
                IF coins[o].spent = block THEN Coin(coins[o].cov, coins[o].created, NoBlockYet) ELSE coins[o]]
        /\ outputRows' = [o \in {x \in DOMAIN outputRows : outputRows[x].created # block} |->
                IF outputRows[o].spent = block
                THEN Row(outputRows[o].app, outputRows[o].cov, outputRows[o].created, NoBlockYet) ELSE outputRows[o]]
        /\ eventSeq' = [x \in {y \in DOMAIN eventSeq : deliveries[eventSeq[y]].block # block} |-> eventSeq[x]]
    BY DEF RemoveBlock
  <1> HIDE DEF block
  <1>4. /\ DOMAIN coins' = {x \in DOMAIN coins : coins[x].created # block}
        /\ DOMAIN outputRows' = {x \in DOMAIN outputRows : outputRows[x].created # block}
        /\ DOMAIN eventSeq' = {y \in DOMAIN eventSeq : deliveries[eventSeq[y]].block # block}
    BY <1>3
  <1>5. \A o \in DOMAIN coins' :
          /\ coins'[o].cov = coins[o].cov /\ coins'[o].created = coins[o].created
          /\ coins'[o].spent = IF coins[o].spent = block THEN NoBlockYet ELSE coins[o].spent
    BY <1>3, <1>4 DEF Coin
  <1>6. \A o \in DOMAIN outputRows' :
          /\ outputRows'[o].created = outputRows[o].created
          /\ outputRows'[o].spent = IF outputRows[o].spent = block THEN NoBlockYet ELSE outputRows[o].spent
    BY <1>3, <1>4 DEF Row
  <1>7. IsFiniteSet(DOMAIN coins')
    <2>1. DOMAIN coins' \subseteq DOMAIN coins
      BY <1>4
    <2> QED
      BY <2>1, <1>1, FS_Subset DEF ApRowsOK
  <1>8. \A o \in DOMAIN outputRows' :
          /\ o \in DOMAIN coins'
          /\ outputRows'[o].created = coins'[o].created /\ outputRows'[o].spent = coins'[o].spent
    <2> SUFFICES ASSUME NEW o \in DOMAIN outputRows'
                 PROVE  /\ o \in DOMAIN coins'
                        /\ outputRows'[o].created = coins'[o].created /\ outputRows'[o].spent = coins'[o].spent
      OBVIOUS
    <2>1. o \in DOMAIN outputRows /\ outputRows[o].created # block
      BY <1>4
    <2>2. o \in DOMAIN coins /\ outputRows[o].created = coins[o].created /\ outputRows[o].spent = coins[o].spent
      BY <2>1, <1>1 DEF ApRowsOK
    <2> QED
      BY <2>1, <2>2, <1>4, <1>5, <1>6
  <1>9. \A o \in DOMAIN coins' :
          /\ o \in Outpoints(o[1]) /\ ApAccepted(o[1], coins[o].created)'
          /\ <<o[1], coins'[o].cov>> \in DOMAIN eventSeq'
    <2> SUFFICES ASSUME NEW o \in DOMAIN coins'
                 PROVE  /\ o \in Outpoints(o[1]) /\ ApAccepted(o[1], coins[o].created)'
                        /\ <<o[1], coins'[o].cov>> \in DOMAIN eventSeq'
      OBVIOUS
    <2>1. o \in DOMAIN coins /\ coins[o].created # block
      BY <1>4
    <2>2. o \in Outpoints(o[1]) /\ ApAccepted(o[1], coins[o].created) /\ <<o[1], coins[o].cov>> \in DOMAIN eventSeq
      BY <2>1, <1>1 DEF ApRowsOK
    <2>3. PICK b : b = coins[o].created
      OBVIOUS
    <2>4. ApAccepted(o[1], b)'
      BY <2>1, <2>2, <2>3, <1>2
    <2>5. ApAccepted(o[1], coins[o].created)'
      BY <2>3, <2>4, <1>5 DEF ApAccepted
    <2>6. PICK x : x = <<o[1], coins[o].cov>>
      OBVIOUS
    <2>7. x[1] = o[1] /\ x \in DOMAIN eventSeq
      BY <2>2, <2>6
    <2>8. ApAccepted(x[1], deliveries[eventSeq[x]].block)
      BY <2>7, <1>1 DEF ApLogOK
    <2>9. deliveries[eventSeq[x]].block = b
      BY <2>2, <2>3, <2>7, <2>8, <1>1, ApOnce
    <2> QED
      BY <2>1, <2>2, <2>3, <2>5, <2>6, <2>7, <2>9, <1>4, <1>5
  <1> QED
    BY <1>7, <1>8, <1>9 DEF ApRowsOK

LEMMA ApRemoveFailures ==
    ASSUME ApInv, RemoveBlock
    PROVE  ApFailuresOK'
  <1> DEFINE block == Last(chain).id
             F == DOMAIN failureRows
             gone == {n \in F : failureRows[n].block = block}
             U == {n \in F : failureRows[n].repaired = 0}
             goneU == {n \in gone : failureRows[n].repaired = 0}
  <1>1. ApChainOK /\ ApFailuresOK
    BY DEF ApInv
  <1>2. /\ \A u, b : ApAccepted(u, b) /\ b # block => ApAccepted(u, b)'
        /\ made' = made
    BY <1>1, ApRemoveChain DEF RemoveBlock
  <1>3. /\ failureRows' = [n \in F \ gone |-> failureRows[n]]
        /\ counts'.total = counts.total - Cardinality(gone)
        /\ counts'.unrepaired = counts.unrepaired - Cardinality(goneU)
    BY DEF RemoveBlock
  <1>4. counts.total = Cardinality(F) /\ counts.unrepaired = Cardinality(U)
    BY <1>1 DEF ApFailuresOK
  <1>5. IsFiniteSet(F) /\ IsFiniteSet(U)
    <2>1. IsFiniteSet(1..made.failures)
      BY <1>1, FS_Interval DEF ApChainOK
    <2>2. F \subseteq 1..made.failures /\ U \subseteq 1..made.failures
      BY <1>1 DEF ApFailuresOK
    <2> QED
      BY <2>1, <2>2, FS_Subset
  <1>6. DOMAIN failureRows' = F \ gone /\ \A n \in F \ gone : failureRows'[n] = failureRows[n]
    BY <1>3
  <1>7. {n \in DOMAIN failureRows' : failureRows'[n].repaired = 0} = U \ goneU
    BY <1>6
  <1>8. F \cap gone = gone /\ U \cap goneU = goneU
    OBVIOUS
  <1>9. \A n \in F \ gone : failureRows[n].block # block
    OBVIOUS
  <1> HIDE DEF F, gone, U, goneU, block
  <1>10. Cardinality(F \ gone) = Cardinality(F) - Cardinality(gone)
         /\ Cardinality(U \ goneU) = Cardinality(U) - Cardinality(goneU)
    <2>1. Cardinality(F \ gone) = Cardinality(F) - Cardinality(F \cap gone)
      BY <1>5, FS_Difference
    <2>2. Cardinality(U \ goneU) = Cardinality(U) - Cardinality(U \cap goneU)
      BY <1>5, FS_Difference
    <2> QED
      BY <2>1, <2>2, <1>8
  <1>11. counts'.total = Cardinality(DOMAIN failureRows')
         /\ counts'.unrepaired = Cardinality({n \in DOMAIN failureRows' : failureRows'[n].repaired = 0})
    BY <1>3, <1>4, <1>6, <1>7, <1>10
  <1>12. \A k \in DOMAIN deliveries : k \in DOMAIN deliveries' /\ deliveries'[k] = deliveries[k]
    BY ApRemoveLog
  <1>13. ASSUME NEW n \in DOMAIN failureRows'
         PROVE  /\ n \in 1..made'.failures /\ ApAccepted(failureRows[n].tx, failureRows[n].block)'
                /\ failureRows'[n].repaired # 0 =>
                     LET r == deliveries'[failureRows'[n].repaired] IN
                     /\ failureRows'[n].repaired \in DOMAIN deliveries'
                     /\ r.kind = "projection_repaired" /\ r.tx = failureRows'[n].tx /\ r.block = failureRows'[n].block
                     /\ r.source \in DOMAIN deliveries'
                     /\ deliveries'[r.source].kind = "accepted" /\ deliveries'[r.source].tx = r.tx
    <2>1. n \in DOMAIN failureRows /\ failureRows'[n] = failureRows[n] /\ failureRows[n].block # block
      BY <1>6, <1>9 DEF F
    <2>2. n \in 1..made'.failures /\ ApAccepted(failureRows[n].tx, failureRows[n].block)
      BY <2>1, <1>1, <1>2 DEF ApFailuresOK
    <2>3. PICK f : f = failureRows[n]
      OBVIOUS
    <2>4. ApAccepted(f.tx, f.block)'
      BY <2>1, <2>2, <2>3, <1>2
    <2>5. ApAccepted(failureRows[n].tx, failureRows[n].block)'
      BY <2>1, <2>3, <2>4 DEF ApAccepted
    <2>6. CASE f.repaired = 0
      BY <2>1, <2>2, <2>3, <2>5, <2>6
    <2>7. CASE f.repaired # 0
      <3>1. LET r == deliveries[f.repaired] IN
            /\ f.repaired \in DOMAIN deliveries
            /\ r.kind = "projection_repaired" /\ r.tx = f.tx /\ r.block = f.block
            /\ r.source \in DOMAIN deliveries
            /\ deliveries[r.source].kind = "accepted" /\ deliveries[r.source].tx = r.tx
        BY <1>1, <2>1, <2>3, <2>7 DEF ApFailuresOK
      <3>2. LET r == deliveries'[f.repaired] IN
            /\ f.repaired \in DOMAIN deliveries'
            /\ r.kind = "projection_repaired" /\ r.tx = f.tx /\ r.block = f.block
            /\ r.source \in DOMAIN deliveries'
            /\ deliveries'[r.source].kind = "accepted" /\ deliveries'[r.source].tx = r.tx
        BY <1>12, <3>1, ApFailureKept
      <3> QED
        BY <2>1, <2>2, <2>3, <2>5, <3>2
    <2> QED
      BY <2>6, <2>7
  <1> QED
    BY <1>11, <1>13 DEF ApFailuresOK

\* What one repair run takes, and the records it appends.
LEMMA ApRepairTaken ==
    ASSUME ApInv, NEW s \in Repairs
    PROVE  /\ Cardinality(Repairable) \in Nat /\ DOMAIN s = 1..Cardinality(Repairable)
           /\ \A i \in DOMAIN s :
                /\ s[i] \in DOMAIN coins
                /\ ApAccepted(s[i][1], coins[s[i]].created)
                /\ eventSeq[<<s[i][1], coins[s[i]].cov>>] \in DOMAIN deliveries
                /\ deliveries[eventSeq[<<s[i][1], coins[s[i]].cov>>]].kind = "accepted"
                /\ deliveries[eventSeq[<<s[i][1], coins[s[i]].cov>>]].tx = s[i][1]
  <1>1. ApRowsOK /\ ApLogOK
    BY DEF ApInv
  <1>2. Repairable \subseteq DOMAIN coins
    BY DEF Repairable
  <1>3. Cardinality(Repairable) \in Nat
    <2>1. IsFiniteSet(Repairable)
      BY <1>1, <1>2, FS_Subset DEF ApRowsOK
    <2> QED
      BY <2>1, FS_CardinalityType
  <1>4. s \in [1..Cardinality(Repairable) -> Repairable]
    BY DEF Repairs
  <1>5. ASSUME NEW i \in DOMAIN s
        PROVE  /\ s[i] \in DOMAIN coins
               /\ ApAccepted(s[i][1], coins[s[i]].created)
               /\ eventSeq[<<s[i][1], coins[s[i]].cov>>] \in DOMAIN deliveries
               /\ deliveries[eventSeq[<<s[i][1], coins[s[i]].cov>>]].kind = "accepted"
               /\ deliveries[eventSeq[<<s[i][1], coins[s[i]].cov>>]].tx = s[i][1]
    <2>1. s[i] \in DOMAIN coins
      BY <1>2, <1>4, <1>5
    <2>2. PICK o \in DOMAIN coins : o = s[i]
      BY <2>1
    <2>3. ApAccepted(o[1], coins[o].created) /\ <<o[1], coins[o].cov>> \in DOMAIN eventSeq
      BY <1>1 DEF ApRowsOK
    <2>4. PICK x \in DOMAIN eventSeq : x = <<o[1], coins[o].cov>>
      BY <2>3
    <2>5. x[1] = o[1]
      BY <2>4
    <2>6. eventSeq[x] \in DOMAIN deliveries /\ deliveries[eventSeq[x]].kind = "accepted"
          /\ deliveries[eventSeq[x]].tx = x[1]
      BY <1>1 DEF ApLogOK
    <2> QED
      BY <2>2, <2>3, <2>4, <2>5, <2>6
  <1> QED
    BY <1>3, <1>4, <1>5

LEMMA ApMended ==
    ASSUME NEW f, NEW s, NEW i \in MendedBy(f, s)
    PROVE  f.repaired = 0 /\ i \in DOMAIN s /\ s[i][1] = f.tx
  <1> DEFINE own == {j \in DOMAIN s : s[j] = <<f.tx, f.index>>}
             kin == {j \in DOMAIN s : s[j][1] = f.tx /\ Preprocess(f.tx, manifest).failures = {}}
  <1>1. f.repaired = 0 /\ (i \in own \/ i \in kin)
    BY DEF MendedBy
  <1> QED
    BY <1>1

ApRepaired(s) ==
    /\ outputRows' = [o \in DOMAIN outputRows \cup Repairable |->
         IF o \in Repairable
         THEN Row(Declared(Preprocess(o[1], manifest), o).app, coins[o].cov, coins[o].created, SpentSoFar(o))
         ELSE outputRows[o]]
    /\ failureRows' = [n \in DOMAIN failureRows |->
         LET f == failureRows[n] IN
         IF MendedBy(f, s) = {} THEN f
         ELSE Failure(f.tx, f.index, f.block, Len(deliveries) + CHOOSE i \in MendedBy(f, s) : TRUE)]
    /\ counts' = [total |-> counts.total, unrepaired |-> counts.unrepaired
         - Cardinality({n \in DOMAIN failureRows : MendedBy(failureRows[n], s) # {}})]
    /\ deliveries' = deliveries \o [i \in DOMAIN s |->
         Delivery("projection_repaired", eventSeq[<<s[i][1], coins[s[i]].cov>>], s[i][1], coins[s[i]].cov,
                  coins[s[i]].created, {Declared(Preprocess(s[i][1], manifest), s[i]).app})]
    /\ UNCHANGED <<chain, coins, eventSeq, made>>

LEMMA ApRepairLog ==
    ASSUME ApInv, NEW s \in Repairs, ApRepaired(s)
    PROVE  /\ ApLogOK'
           /\ \A k \in DOMAIN deliveries : k \in DOMAIN deliveries' /\ deliveries'[k] = deliveries[k]
           /\ Len(deliveries) \in Nat
           /\ \A i \in DOMAIN s :
                LET k == Len(deliveries) + i IN
                /\ k \in DOMAIN deliveries' /\ deliveries'[k].kind = "projection_repaired"
                /\ deliveries'[k].tx = s[i][1] /\ deliveries'[k].block = coins[s[i]].created
                /\ deliveries'[k].source = eventSeq[<<s[i][1], coins[s[i]].cov>>]
  <1> DEFINE n == Cardinality(Repairable)
             src(i) == eventSeq[<<s[i][1], coins[s[i]].cov>>]
             apps(i) == {Declared(Preprocess(s[i][1], manifest), s[i]).app}
             more == [i \in DOMAIN s |-> Delivery("projection_repaired", src(i), s[i][1], coins[s[i]].cov,
                                                  coins[s[i]].created, apps(i))]
  <1>1. ApLogOK
    BY DEF ApInv
  <1>2. n \in Nat /\ DOMAIN s = 1..n
    BY ApRepairTaken
  <1>3. deliveries' = deliveries \o more
    BY DEF ApRepaired
  <1>4. DOMAIN more = DOMAIN s /\ more = [i \in DOMAIN s |-> more[i]]
    OBVIOUS
  <1> HIDE DEF src, apps
  <1>5. ASSUME NEW i \in DOMAIN s
        PROVE  /\ more[i].kind = "projection_repaired" /\ more[i].tx = s[i][1]
               /\ more[i].block = coins[s[i]].created /\ more[i].source = src(i)
    BY DEF Delivery
  <1> HIDE DEF n, more
  <1>6. DOMAIN more = 1..n /\ more = [i \in 1..n |-> more[i]]
    BY <1>2, <1>4
  <1>7. /\ deliveries' \in Seq(ToSet(deliveries')) /\ Len(deliveries) \in Nat
        /\ \A k \in DOMAIN deliveries : k \in DOMAIN deliveries' /\ deliveries'[k] = deliveries[k]
        /\ \A i \in 1..n : Len(deliveries) + i \in DOMAIN deliveries' /\ deliveries'[Len(deliveries) + i] = more[i]
    BY <1>1, <1>2, <1>3, <1>6, ApAppended
  <1>8. chain' = chain /\ eventSeq' = eventSeq
    BY DEF ApRepaired
  <1>9. ASSUME NEW x \in DOMAIN eventSeq'
        PROVE  /\ x = <<x[1], x[2]>> /\ eventSeq'[x] \in DOMAIN deliveries'
               /\ deliveries'[eventSeq'[x]].kind = "accepted" /\ deliveries'[eventSeq'[x]].tx = x[1]
               /\ ApAccepted(x[1], deliveries[eventSeq[x]].block)'
    <2>1. /\ x = <<x[1], x[2]>> /\ eventSeq[x] \in DOMAIN deliveries
          /\ deliveries[eventSeq[x]].kind = "accepted" /\ deliveries[eventSeq[x]].tx = x[1]
          /\ ApAccepted(x[1], deliveries[eventSeq[x]].block)
      BY <1>1, <1>8 DEF ApLogOK
    <2>2. eventSeq'[x] \in DOMAIN deliveries' /\ deliveries'[eventSeq'[x]] = deliveries[eventSeq[x]]
      BY <2>1, <1>7, <1>8
    <2> QED
      BY <2>1, <2>2, <1>8 DEF ApAccepted
  <1>10. ApLogOK'
    BY <1>7, <1>9 DEF ApLogOK
  <1> QED
    BY ZenonT(40), <1>2, <1>5, <1>7, <1>10 DEF src

LEMMA ApRepairRows ==
    ASSUME ApInv, NEW s \in Repairs, ApRepaired(s)
    PROVE  ApChainOK' /\ ApRowsOK'
  <1>1. ApChainOK /\ ApRowsOK
    BY DEF ApInv
  <1>2. chain' = chain /\ coins' = coins /\ eventSeq' = eventSeq /\ made' = made
    BY DEF ApRepaired
  <1>3. outputRows' = [o \in DOMAIN outputRows \cup Repairable |->
         IF o \in Repairable
         THEN Row(Declared(Preprocess(o[1], manifest), o).app, coins[o].cov, coins[o].created, SpentSoFar(o))
         ELSE outputRows[o]]
    BY DEF ApRepaired
  <1>4. DOMAIN outputRows' = DOMAIN outputRows \cup Repairable /\ Repairable \subseteq DOMAIN coins
    BY <1>3 DEF Repairable
  <1>5. \A o \in Repairable : outputRows'[o].created = coins[o].created /\ outputRows'[o].spent = coins[o].spent
    BY <1>3 DEF Row, SpentSoFar
  <1>6. \A o \in DOMAIN outputRows : o \notin Repairable /\ outputRows'[o] = outputRows[o]
    BY <1>3 DEF Repairable
  <1>7. \A o \in DOMAIN outputRows' :
         /\ o \in DOMAIN coins'
         /\ outputRows'[o].created = coins'[o].created /\ outputRows'[o].spent = coins'[o].spent
    BY <1>1, <1>2, <1>4, <1>5, <1>6 DEF ApRowsOK
  <1>8. \A o \in DOMAIN coins' :
         /\ o \in Outpoints(o[1]) /\ ApAccepted(o[1], coins[o].created)'
         /\ <<o[1], coins'[o].cov>> \in DOMAIN eventSeq'
    BY <1>1, <1>2 DEF ApRowsOK, ApAccepted
  <1>9. IsFiniteSet(DOMAIN coins')
    BY <1>1, <1>2 DEF ApRowsOK
  <1>10. ApChainOK'
    BY <1>1, <1>2 DEF ApChainOK
  <1> QED
    BY <1>7, <1>8, <1>9, <1>10 DEF ApRowsOK

LEMMA ApRepairFailures ==
    ASSUME ApInv, NEW s \in Repairs, ApRepaired(s)
    PROVE  ApFailuresOK'
  <1> DEFINE F == DOMAIN failureRows
             U == {n \in F : failureRows[n].repaired = 0}
             M == {n \in F : MendedBy(failureRows[n], s) # {}}
  <1>1. ApChainOK /\ ApRowsOK /\ ApFailuresOK
    BY DEF ApInv
  <1>2. chain' = chain /\ coins' = coins /\ eventSeq' = eventSeq /\ made' = made
    BY DEF ApRepaired
  <1>3. /\ failureRows' = [n \in F |->
            IF MendedBy(failureRows[n], s) = {} THEN failureRows[n]
            ELSE Failure(failureRows[n].tx, failureRows[n].index, failureRows[n].block,
                         Len(deliveries) + CHOOSE i \in MendedBy(failureRows[n], s) : TRUE)]
        /\ counts'.total = counts.total /\ counts'.unrepaired = counts.unrepaired - Cardinality(M)
    BY DEF ApRepaired
  <1>4. counts.total = Cardinality(F) /\ counts.unrepaired = Cardinality(U)
    BY <1>1 DEF ApFailuresOK
  <1>5. /\ \A k \in DOMAIN deliveries : k \in DOMAIN deliveries' /\ deliveries'[k] = deliveries[k]
        /\ Len(deliveries) \in Nat
        /\ \A i \in DOMAIN s :
                LET k == Len(deliveries) + i IN
                /\ k \in DOMAIN deliveries' /\ deliveries'[k].kind = "projection_repaired"
                /\ deliveries'[k].tx = s[i][1] /\ deliveries'[k].block = coins[s[i]].created
                /\ deliveries'[k].source = eventSeq[<<s[i][1], coins[s[i]].cov>>]
    BY ApRepairLog
  <1>6. DOMAIN failureRows' = F
    BY <1>3
  <1>7. ASSUME NEW n \in F, n \notin M
        PROVE  failureRows'[n] = failureRows[n]
    BY <1>3, <1>7
  <1>8. ASSUME NEW n \in M
        PROVE  \E i \in DOMAIN s :
                 /\ failureRows[n].repaired = 0 /\ s[i][1] = failureRows[n].tx
                 /\ failureRows'[n].tx = failureRows[n].tx /\ failureRows'[n].block = failureRows[n].block
                 /\ failureRows'[n].repaired = Len(deliveries) + i
    <2>1. PICK i \in MendedBy(failureRows[n], s) : i = CHOOSE j \in MendedBy(failureRows[n], s) : TRUE
      OBVIOUS
    <2>2. failureRows[n].repaired = 0 /\ i \in DOMAIN s /\ s[i][1] = failureRows[n].tx
      BY ApMended
    <2>3. failureRows'[n] = Failure(failureRows[n].tx, failureRows[n].index, failureRows[n].block, Len(deliveries) + i)
      BY <1>3, <2>1
    <2>4. PICK k : k = Len(deliveries) + i
      OBVIOUS
    <2>5. PICK f : f = failureRows[n]
      OBVIOUS
    <2>6. failureRows'[n] = Failure(f.tx, f.index, f.block, k)
      BY <2>3, <2>4, <2>5
    <2>7. failureRows'[n].tx = f.tx /\ failureRows'[n].block = f.block /\ failureRows'[n].repaired = k
      BY ONLY <2>6 DEF Failure
    <2> QED
      BY <2>2, <2>4, <2>5, <2>7
  <1>9. DOMAIN s = 1..Cardinality(Repairable) /\ Cardinality(Repairable) \in Nat
    BY ApRepairTaken
  <1>10. \A n \in M : failureRows[n].repaired = 0 /\ failureRows'[n].repaired # 0
    BY <1>5, <1>8, <1>9
  <1>11. M \subseteq U /\ U \cap M = M
    BY <1>10
  <1>12. {n \in DOMAIN failureRows' : failureRows'[n].repaired = 0} = U \ M
    BY <1>6, <1>7, <1>10
  <1>13. IsFiniteSet(U)
    <2>1. IsFiniteSet(1..made.failures)
      BY <1>1, FS_Interval DEF ApChainOK
    <2>2. U \subseteq 1..made.failures
      BY <1>1 DEF ApFailuresOK
    <2> QED
      BY <2>1, <2>2, FS_Subset
  <1> HIDE DEF U, M
  <1>14. Cardinality(U \ M) = Cardinality(U) - Cardinality(U \cap M)
    BY <1>13, FS_Difference
  <1>15. counts'.total = Cardinality(DOMAIN failureRows')
         /\ counts'.unrepaired = Cardinality({n \in DOMAIN failureRows' : failureRows'[n].repaired = 0})
    BY <1>3, <1>4, <1>6, <1>11, <1>12, <1>14
  <1>16. ASSUME NEW n \in DOMAIN failureRows'
         PROVE  /\ n \in 1..made'.failures /\ ApAccepted(failureRows[n].tx, failureRows[n].block)'
                /\ failureRows'[n].repaired # 0 =>
                     LET r == deliveries'[failureRows'[n].repaired] IN
                     /\ failureRows'[n].repaired \in DOMAIN deliveries'
                     /\ r.kind = "projection_repaired" /\ r.tx = failureRows'[n].tx /\ r.block = failureRows'[n].block
                     /\ r.source \in DOMAIN deliveries'
                     /\ deliveries'[r.source].kind = "accepted" /\ deliveries'[r.source].tx = r.tx
    <2>1. n \in F
      BY <1>6
    <2>2. n \in 1..made'.failures /\ ApAccepted(failureRows[n].tx, failureRows[n].block)
      BY <2>1, <1>1, <1>2 DEF ApFailuresOK
    <2>3. CASE n \in M
      <3>1. PICK i \in DOMAIN s :
                 /\ failureRows[n].repaired = 0 /\ s[i][1] = failureRows[n].tx
                 /\ failureRows'[n].tx = failureRows[n].tx /\ failureRows'[n].block = failureRows[n].block
                 /\ failureRows'[n].repaired = Len(deliveries) + i
        BY <2>3, <1>8
      <3>2. ApAccepted(failureRows[n].tx, failureRows[n].block)'
        BY <2>2, <3>1, <1>2 DEF ApAccepted
      <3>3. /\ ApAccepted(s[i][1], coins[s[i]].created)
            /\ eventSeq[<<s[i][1], coins[s[i]].cov>>] \in DOMAIN deliveries
            /\ deliveries[eventSeq[<<s[i][1], coins[s[i]].cov>>]].kind = "accepted"
            /\ deliveries[eventSeq[<<s[i][1], coins[s[i]].cov>>]].tx = s[i][1]
        BY ApRepairTaken
      <3>4. coins[s[i]].created = failureRows[n].block
        BY <2>2, <3>1, <3>3, <1>1, ApOnce
      <3>5. PICK k : k = Len(deliveries) + i
        OBVIOUS
      <3>6. /\ k \in DOMAIN deliveries' /\ deliveries'[k].kind = "projection_repaired"
            /\ deliveries'[k].tx = s[i][1] /\ deliveries'[k].block = coins[s[i]].created
            /\ deliveries'[k].source = eventSeq[<<s[i][1], coins[s[i]].cov>>]
        BY <1>5, <3>5
      <3>7. PICK e : e = eventSeq[<<s[i][1], coins[s[i]].cov>>]
        OBVIOUS
      <3>8. e \in DOMAIN deliveries' /\ deliveries'[e].kind = "accepted" /\ deliveries'[e].tx = s[i][1]
        BY <3>3, <3>7, <1>5
      <3> QED
        BY <2>2, <3>1, <3>2, <3>4, <3>5, <3>6, <3>7, <3>8
    <2>4. CASE n \notin M
      <3>1. failureRows'[n] = failureRows[n]
        BY <2>1, <2>4, <1>7
      <3>2. ApAccepted(failureRows[n].tx, failureRows[n].block)'
        BY <2>2, <3>1, <1>2 DEF ApAccepted
      <3>3. PICK f : f = failureRows[n]
        OBVIOUS
      <3>4. CASE f.repaired = 0
        BY <2>2, <3>1, <3>2, <3>3, <3>4
      <3>5. CASE f.repaired # 0
        <4>1. LET r == deliveries[f.repaired] IN
              /\ f.repaired \in DOMAIN deliveries
              /\ r.kind = "projection_repaired" /\ r.tx = f.tx /\ r.block = f.block
              /\ r.source \in DOMAIN deliveries
              /\ deliveries[r.source].kind = "accepted" /\ deliveries[r.source].tx = r.tx
          BY <1>1, <2>1, <3>3, <3>5 DEF ApFailuresOK
        <4>2. LET r == deliveries'[f.repaired] IN
              /\ f.repaired \in DOMAIN deliveries'
              /\ r.kind = "projection_repaired" /\ r.tx = f.tx /\ r.block = f.block
              /\ r.source \in DOMAIN deliveries'
              /\ deliveries'[r.source].kind = "accepted" /\ deliveries'[r.source].tx = r.tx
          BY <1>5, <4>1, ApFailureKept
        <4> QED
          BY <2>2, <3>1, <3>2, <3>3, <4>2
      <3> QED
        BY <3>4, <3>5
    <2> QED
      BY <2>3, <2>4
  <1> QED
    BY <1>15, <1>16 DEF ApFailuresOK
-----------------------------------------------------------------------------
(* The theorem *)

LEMMA ApStep ==
    ApInv /\ [AppNext]_appvars => ApInv'
  <1> SUFFICES ASSUME ApInv, [AppNext]_appvars PROVE ApInv'
    OBVIOUS
  <1>1. ASSUME chain' = chain, coins' = coins, eventSeq' = eventSeq, outputRows' = outputRows,
               failureRows' = failureRows, deliveries' = deliveries, counts' = counts,
               made'.blocks = made.blocks, made'.failures = made.failures
        PROVE  ApInv'
    <2>1. ApChainOK'
      BY <1>1 DEF ApInv, ApChainOK
    <2>2. ApRowsOK'
      BY <1>1 DEF ApInv, ApRowsOK, ApAccepted
    <2>3. ApLogOK'
      BY <1>1 DEF ApInv, ApLogOK, ApAccepted
    <2>4. ApFailuresOK'
      BY <1>1 DEF ApInv, ApFailuresOK, ApAccepted
    <2> QED
      BY <2>1, <2>2, <2>3, <2>4 DEF ApInv
  <1>2. CASE Approve
    <2>1. made'.blocks = made.blocks /\ made'.failures = made.failures
      BY <1>2 DEF Approve
    <2> QED
      BY <1>1, <1>2, <2>1 DEF Approve
  <1>3. CASE AcceptBlock
    <2>1. PICK t : ApAccepting(t)
      BY <1>3 DEF AcceptBlock, ApAccepting
    <2>2. ApChainOK'
      BY <2>1, ApAcceptShape, ApAcceptChain DEF ApAccepting, ApInv
    <2> QED
      BY <2>1, <2>2, ApAcceptRows, ApAcceptLog, ApAcceptFailures DEF ApInv
  <1>4. CASE RemoveBlock
    <2>1. ApChainOK'
      BY <1>4, ApRemoveChain DEF ApInv, RemoveBlock
    <2> QED
      BY <1>4, <2>1, ApRemoveRows, ApRemoveLog, ApRemoveFailures DEF ApInv
  <1>5. CASE RepairFailures
    <2>1. PICK s \in Repairs : ApRepaired(s)
      BY <1>5 DEF RepairFailures, ApRepaired
    <2> QED
      BY <2>1, ApRepairRows, ApRepairLog, ApRepairFailures DEF ApInv
  <1>6. CASE UNCHANGED appvars
    BY <1>1, <1>6 DEF appvars
  <1> QED
    BY <1>2, <1>3, <1>4, <1>5, <1>6 DEF AppNext

LEMMA ApInvSays ==
    ApInv => AppRowsFollowCoins
  <1> SUFFICES ASSUME ApInv PROVE AppRowsFollowCoins
    OBVIOUS
  <1>1. ApRowsOK /\ ApFailuresOK
    BY DEF ApInv
  <1>2. \A o \in DOMAIN outputRows :
         /\ o \in DOMAIN coins
         /\ outputRows[o].created = coins[o].created /\ outputRows[o].spent = coins[o].spent
    BY <1>1 DEF ApRowsOK
  <1>3. ASSUME NEW n \in DOMAIN failureRows, failureRows[n].repaired # 0
        PROVE  LET r == deliveries[failureRows[n].repaired]
               IN  /\ r.kind = "projection_repaired" /\ r.tx = failureRows[n].tx
                   /\ r.block \in {chain[i].id : i \in DOMAIN chain}
                   /\ deliveries[r.source].kind = "accepted" /\ deliveries[r.source].tx = r.tx
    BY <1>1, <1>3 DEF ApFailuresOK, ApAccepted
  <1> QED
    BY <1>1, <1>2, <1>3 DEF AppRowsFollowCoins, ApFailuresOK

\* Application rows are live, created and spent exactly where their coins are,
\* repaired failures name a repair record on the chain and the counters are
\* exact, for any transactions, manifests and approvals, any reorganisations
\* and any number of repair runs (store_application.rs).
THEOREM AppRowsAreCoins == AppSpec => []AppRowsFollowCoins
  <1>1. AppInit => ApInv
    BY ApInitInv
  <1>2. ApInv /\ [AppNext]_appvars => ApInv'
    BY ApStep
  <1>3. ApInv => AppRowsFollowCoins
    BY ApInvSays
  <1> QED
    BY <1>1, <1>2, <1>3, PTL DEF AppSpec
=============================================================================
