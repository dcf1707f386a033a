---------------------------- MODULE ServiceProofs ----------------------------
(***************************************************************************)
(* Proofs about the services inside a process: the worker of a test cell   *)
(* and the routes of its matrix, the stores of results and recipes, the    *)
(* tables of plugins and instruments, and the job scheduler.               *)
(***************************************************************************)
EXTENDS JobScheduler, Services, AlertManager, ListProofs

-------------------------------------------------------------------------------
(***************************************************************************)
(* CellWorker.  The answered steps, the one in hand and the queue are the  *)
(* submitted steps, each at its own place; and a thread that was told to   *)
(* stop has taken at most one more step, none while it can still take it.  *)
(***************************************************************************)
CellTyped ==
  /\ worker \in {"none", "loop", "take", "execute", "ended"}
  /\ cellOn \in BOOLEAN
  /\ control \in {"free", "stopping", "restarting"}
  /\ submitted \in Nat /\ submitted <= MaxSteps
  /\ queue \in Seq(Nat) /\ answered \in Seq(Nat)
  /\ current \in Nat
  /\ taken \in Nat
  /\ cellStarts \in Nat /\ cellStarts <= MaxCellStarts

Held == IF current = 0 THEN 0 ELSE 1

StepsInPlace ==
  /\ Len(answered) + Held + Len(queue) = submitted
  /\ \A i \in 1..Len(answered) : answered[i] = i
  /\ current # 0 => current = Len(answered) + 1
  /\ \A i \in 1..Len(queue) : queue[i] = Len(answered) + Held + i

StopsInPlace ==
  /\ current # 0 <=> worker = "execute"
  /\ ~cellOn => taken <= 1 /\ (worker = "take" => taken = 0)

CellInv == CellTyped /\ StepsInPlace /\ StopsInPlace

LEMMA CellInitially == CellInit => CellInv
<1> SUFFICES ASSUME CellInit PROVE CellInv
  OBVIOUS
<1>1. << >> \in Seq(Nat) /\ Len(<< >>) = 0
  OBVIOUS
<1>2. CellTyped
  <2>1. 0 \in Nat /\ 0 <= MaxSteps /\ 0 <= MaxCellStarts
    BY CellBoundsAssumption
  <2> QED
    BY <1>1, <2>1, Zenon DEF CellInit, CellTyped
<1>3. StepsInPlace /\ StopsInPlace
  BY <1>1 DEF CellInit, StepsInPlace, StopsInPlace, Held
<1> QED
  BY <1>2, <1>3 DEF CellInv

LEMMA CellStep == CellInv /\ [CellNext]_cellVars => CellInv'
<1> SUFFICES ASSUME CellInv, [CellNext]_cellVars PROVE CellInv'
  OBVIOUS
<1> USE CellBoundsAssumption DEF CellInv
<1>1. CASE SubmitStep
  <2>1. /\ submitted < MaxSteps /\ submitted' = submitted + 1 /\ queue' = Append(queue, submitted + 1)
        /\ worker' = worker /\ cellOn' = cellOn /\ control' = control /\ current' = current
        /\ answered' = answered /\ taken' = taken /\ cellStarts' = cellStarts
    BY <1>1 DEF SubmitStep
  <2>2. submitted + 1 \in Nat /\ queue \in Seq(Nat)
    BY DEF CellTyped
  <2>3. /\ queue' \in Seq(Nat) /\ Len(queue') = Len(queue) + 1
        /\ \A i \in 1..Len(queue) : queue'[i] = queue[i]
        /\ queue'[Len(queue) + 1] = submitted + 1
    BY <2>1, <2>2, AppendProperties
  <2>4. CellTyped'
    BY <2>1, <2>3 DEF CellTyped
  <2>5. StepsInPlace'
    <3>1. Len(queue) \in Nat /\ Held \in Nat /\ Len(answered) \in Nat /\ Held' = Held
      BY <2>1, <2>2 DEF CellTyped, Held
    <3>2. Len(answered') + Held' + Len(queue') = submitted'
      BY <2>1, <2>3, <3>1 DEF StepsInPlace
    <3>3. ASSUME NEW i \in 1..Len(queue') PROVE queue'[i] = Len(answered') + Held' + i
      <4>1. CASE i \in 1..Len(queue)
        BY <4>1, <2>1, <2>3, <3>1 DEF StepsInPlace
      <4>2. CASE i = Len(queue) + 1
        BY <4>2, <2>1, <2>3, <3>1 DEF StepsInPlace
      <4> QED
        BY <4>1, <4>2, <2>3, <3>1
    <3> QED
      BY <2>1, <3>2, <3>3 DEF StepsInPlace
  <2>6. StopsInPlace'
    BY <2>1 DEF StopsInPlace
  <2> QED
    BY <2>4, <2>5, <2>6
<1>2. CASE Take
  <2>1. /\ worker = "take" /\ queue # << >> /\ current' = Head(queue) /\ queue' = Tail(queue)
        /\ worker' = "execute" /\ taken' = taken + 1 /\ cellOn' = cellOn /\ control' = control
        /\ submitted' = submitted /\ answered' = answered /\ cellStarts' = cellStarts
    BY <1>2 DEF Take
  <2>2. /\ queue \in Seq(Nat) /\ current = 0 /\ Held = 0 /\ Len(answered) \in Nat
    BY <2>1 DEF CellTyped, StopsInPlace, Held
  <2>3. /\ Len(queue) \in Nat /\ Len(queue) >= 1 /\ queue' \in Seq(Nat) /\ Len(queue') = Len(queue) - 1
        /\ \A i \in 1..Len(queue') : queue'[i] = queue[i + 1]
        /\ current' = queue[1] /\ current' \in Nat
    BY <2>1, <2>2
  <2>4. current' = Len(answered) + 1
    BY <2>2, <2>3 DEF StepsInPlace
  <2>5. Held' = 1
    BY <2>2, <2>4 DEF Held
  <2>6. CellTyped'
    BY <2>1, <2>3 DEF CellTyped
  <2>7. StepsInPlace'
    <3>1. ASSUME NEW i \in 1..Len(queue') PROVE queue'[i] = Len(answered') + Held' + i
      <4>1. i + 1 \in 1..Len(queue) /\ i \in Nat
        BY <2>3
      <4>2. queue[i + 1] = Len(answered) + 0 + (i + 1)
        BY <4>1, <2>2 DEF StepsInPlace
      <4>3. Len(answered) + 0 + (i + 1) = Len(answered) + 1 + i
        BY <4>1, <2>2
      <4> QED
        BY <4>2, <4>3, <2>1, <2>3, <2>5
    <3>2. Len(answered') + Held' + Len(queue') = submitted'
      BY <2>1, <2>2, <2>3, <2>5 DEF StepsInPlace
    <3> QED
      BY <2>1, <2>4, <3>1, <3>2 DEF StepsInPlace
  <2>8. StopsInPlace'
    BY <2>1, <2>2, <2>4 DEF StopsInPlace, CellTyped
  <2> QED
    BY <2>6, <2>7, <2>8
<1>3. CASE Answer
  <2>1. /\ worker = "execute" /\ answered' = Append(answered, current) /\ current' = 0
        /\ worker' = "loop" /\ cellOn' = cellOn /\ control' = control /\ queue' = queue
        /\ submitted' = submitted /\ taken' = taken /\ cellStarts' = cellStarts
    BY <1>3 DEF Answer
  <2>2. /\ current \in Nat /\ answered \in Seq(Nat) /\ queue \in Seq(Nat)
        /\ Held = 1 /\ Held' = 0 /\ current = Len(answered) + 1
    BY <2>1 DEF CellTyped, StopsInPlace, StepsInPlace, Held
  <2>3. /\ answered' \in Seq(Nat) /\ Len(answered') = Len(answered) + 1
        /\ \A i \in 1..Len(answered) : answered'[i] = answered[i]
        /\ answered'[Len(answered) + 1] = current
    BY <2>1, <2>2, AppendProperties
  <2>4. CellTyped'
    BY <2>1, <2>3 DEF CellTyped
  <2>5. StepsInPlace'
    <3>1. Len(answered) \in Nat /\ Len(queue) \in Nat
      BY <2>2
    <3>2. ASSUME NEW i \in 1..Len(answered') PROVE answered'[i] = i
      <4>1. CASE i \in 1..Len(answered)
        BY <4>1, <2>3 DEF StepsInPlace
      <4>2. CASE i = Len(answered) + 1
        BY <4>2, <2>2, <2>3
      <4> QED
        BY <4>1, <4>2, <2>3, <3>1
    <3> QED
      BY <2>1, <2>2, <2>3, <3>1, <3>2 DEF StepsInPlace
  <2>6. StopsInPlace'
    BY <2>1 DEF StopsInPlace
  <2> QED
    BY <2>4, <2>5, <2>6
<1>4. CASE CellControl \/ LoopTest \/ WaitEnds \/ UNCHANGED cellVars
  <2>1. /\ queue' = queue /\ submitted' = submitted /\ current' = current /\ answered' = answered
    BY <1>4 DEF CellControl, StartCell, StopCell, CellStopped, CellRestarted, Launch, LoopTest,
                WaitEnds, cellVars
  <2>2. StepsInPlace'
    BY <2>1 DEF StepsInPlace, Held
  <2>t. CellTyped
    OBVIOUS
  <2>3. CASE StartCell \/ CellRestarted
    <3>1. /\ cellStarts < MaxCellStarts /\ cellStarts' = cellStarts + 1 /\ cellOn' = TRUE
          /\ worker' = "loop" /\ worker # "execute" /\ taken' = taken
          /\ control' \in {control, "free"}
      BY <2>3 DEF StartCell, CellRestarted, Launch
    <3>2. CellTyped'
      <4>1. cellStarts' \in Nat /\ cellStarts' <= MaxCellStarts
        BY <2>t, <3>1 DEF CellTyped
      <4>2. cellOn' \in BOOLEAN
        BY <3>1, Zenon
      <4> QED
        BY <2>t, <2>1, <3>1, <4>1, <4>2 DEF CellTyped
    <3>3. StopsInPlace'
      BY <2>1, <3>1 DEF StopsInPlace
    <3> QED
      BY <2>2, <3>2, <3>3
  <2>4. CASE StopCell
    <3>1. /\ cellStarts' = cellStarts /\ cellOn' = FALSE /\ worker' = worker /\ taken' = 0
          /\ control' \in {"stopping", "restarting"}
      BY <2>4 DEF StopCell
    <3>2. CellTyped'
      BY <2>t, <2>1, <3>1, Zenon DEF CellTyped
    <3>3. StopsInPlace'
      BY <2>1, <3>1 DEF StopsInPlace
    <3> QED
      BY <2>2, <3>2, <3>3
  <2>5. CASE CellStopped \/ LoopTest \/ WaitEnds \/ UNCHANGED cellVars
    <3>1. /\ cellStarts' = cellStarts /\ cellOn' = cellOn /\ taken' = taken
          /\ control' \in {control, "free"}
          /\ \/ worker' = worker
             \/ worker \in {"ended", "loop", "take"} /\ worker' \in {"none", "ended", "loop"}
             \/ worker = "loop" /\ cellOn /\ worker' = "take"
      BY <2>5 DEF CellStopped, LoopTest, WaitEnds, cellVars
    <3>2. CellTyped'
      BY <2>t, <2>1, <3>1 DEF CellTyped
    <3>3. StopsInPlace'
      BY <2>1, <3>1 DEF StopsInPlace
    <3> QED
      BY <2>2, <3>2, <3>3
  <2> QED
    BY <1>4, <2>3, <2>4, <2>5 DEF CellControl
<1> QED
  BY <1>1, <1>2, <1>3, <1>4 DEF CellNext, WorkerThread

\* The places of the steps, put together.
LEMMA CellIsSound == CellInv => CellSound
<1> SUFFICES ASSUME CellInv PROVE CellSound
  OBVIOUS
<1> USE CellBoundsAssumption
<1>0. /\ answered \in Seq(Nat) /\ queue \in Seq(Nat) /\ submitted \in Nat /\ submitted <= MaxSteps
      /\ Len(answered) \in Nat /\ Len(queue) \in Nat /\ Held \in {0, 1} /\ current \in Nat
  BY DEF CellInv, CellTyped, Held
<1>1. /\ Len(answered) + Held + Len(queue) = submitted
      /\ \A i \in 1..Len(answered) : answered[i] = i
      /\ current # 0 => current = Len(answered) + 1
      /\ \A i \in 1..Len(queue) : queue[i] = Len(answered) + Held + i
  BY DEF CellInv, StepsInPlace
<1>2. CellTypeOK
  <2>1. \A i \in 1..Len(queue) : queue[i] \in 1..MaxSteps
    BY <1>0, <1>1
  <2>2. \A i \in 1..Len(answered) : answered[i] \in 1..MaxSteps
    BY <1>0, <1>1
  <2>3. current \in 0..MaxSteps
    BY <1>0, <1>1 DEF Held
  <2>4. queue \in Seq(1..MaxSteps) /\ answered \in Seq(1..MaxSteps)
    <3>1. \A s \in Seq(Nat) : (\A i \in 1..Len(s) : s[i] \in 1..MaxSteps) => s \in Seq(1..MaxSteps)
      OBVIOUS
    <3> QED
      BY <1>0, <2>1, <2>2, <3>1
  <2>5. Len(answered) <= submitted
    BY <1>0, <1>1
  <2> QED
    BY <1>0, <2>3, <2>4, <2>5 DEF CellTypeOK, CellInv, CellTyped
<1>3. StepsInOrder
  <2>1. /\ InHand \in Seq(Nat) /\ Len(InHand) = Held
        /\ Held = 1 => InHand[1] = Len(answered) + 1
    BY <1>0, <1>1 DEF InHand, Held
  <2> DEFINE front == answered \o InHand
             all == front \o queue
  <2>2. /\ front \in Seq(Nat) /\ Len(front) = Len(answered) + Held
        /\ \A i \in 1..Len(front) :
             front[i] = IF i <= Len(answered) THEN answered[i] ELSE InHand[i - Len(answered)]
    BY <1>0, <2>1, ConcatProperties
  <2>3. \A i \in 1..Len(front) : front[i] = i
    <3> TAKE i \in 1..Len(front)
    <3>1. CASE i <= Len(answered)
      BY <3>1, <1>0, <1>1, <2>2
    <3>2. CASE i > Len(answered)
      <4>1. Held = 1 /\ i = Len(answered) + 1 /\ i - Len(answered) = 1
        BY <3>2, <1>0, <2>2
      <4> QED
        BY <4>1, <2>1, <2>2, <1>0
    <3> QED
      BY <3>1, <3>2, <1>0
  <2> HIDE DEF front
  <2>4. /\ all \in Seq(Nat) /\ Len(all) = Len(front) + Len(queue)
        /\ \A i \in 1..Len(all) :
             all[i] = IF i <= Len(front) THEN front[i] ELSE queue[i - Len(front)]
    BY <1>0, <2>2, ConcatProperties
  <2>5. Len(all) = submitted
    BY <1>0, <1>1, <2>2, <2>4
  <2>6. \A i \in 1..submitted : all[i] = i
    <3> TAKE i \in 1..submitted
    <3>1. CASE i <= Len(front)
      BY <3>1, <1>0, <2>2, <2>3, <2>4, <2>5
    <3>2. CASE i > Len(front)
      <4>1. i - Len(front) \in 1..Len(queue) /\ Len(front) \in Nat
        BY <3>2, <1>0, <2>2, <2>4, <2>5
      <4>2. all[i] = queue[i - Len(front)]
        <5>1. i \in 1..Len(all) /\ ~(i <= Len(front))
          BY <3>2, <2>5, <4>1, <1>0
        <5> HIDE DEF all
        <5> QED
          BY <5>1, <2>4
      <4>3. queue[i - Len(front)] = Len(answered) + Held + (i - Len(front))
        BY <4>1, <1>1
      <4>4. Len(answered) + Held + (i - Len(front)) = i
        <5>1. Len(front) = Len(answered) + Held /\ i \in Nat
          BY <2>2, <1>0
        <5> QED
          BY <5>1, <1>0
      <4> HIDE DEF all
      <4> QED
        BY <4>2, <4>3, <4>4
    <3>3. Len(front) \in Nat /\ i \in Nat
      BY <1>0, <2>2
    <3>4. i <= Len(front) \/ i > Len(front)
      BY <3>3
    <3> QED
      BY <3>1, <3>2, <3>4
  <2>7. all = [n \in 1..submitted |-> all[n]]
    <3> HIDE DEF all
    <3> QED
      BY <2>4, <2>5
  <2>8. [n \in 1..submitted |-> all[n]] = [n \in 1..submitted |-> n]
    <3> HIDE DEF all
    <3> QED
      BY <2>6
  <2> QED
    BY <2>7, <2>8 DEF StepsInOrder, front
<1>4. StopIsPrompt
  BY DEF StopIsPrompt, CellInv, StopsInPlace
<1> QED
  BY <1>2, <1>3, <1>4 DEF CellSound

-------------------------------------------------------------------------------
(***************************************************************************)
(* MatrixManager.  A route of the table is in the hands of some client,    *)
(* and the hands of one client change one entry at a time; the sets that   *)
(* are counted are finite, and a batch that is held is never empty.        *)
(***************************************************************************)
Sources == {Source(e) : e \in Entries}
Destinations == {e[2] : e \in Entries}
CountingClients == {c \in Clients : phase[c] = "count"}

RoutesTyped == DOMAIN routes \subseteq Sources /\ routes \in [DOMAIN routes -> Destinations]

ClientsTyped ==
  /\ phase \in [Clients -> {"idle", "route", "count", "rollback"}]
  /\ todo \in [Clients -> Seq(Entries)] /\ got \in [Clients -> Seq(Entries)]
  /\ leases \in [Clients -> Seq(Seq(Entries))]

PhasesFit ==
  \A c \in Clients :
    /\ (todo[c] # << >>) <=> phase[c] \in {"route", "count"}
    /\ phase[c] = "rollback" => got[c] # << >>
    /\ \A i \in 1..Len(leases[c]) : leases[c][i] # << >>

CountsTyped ==
  /\ activeCount \in Int /\ replaced \in Nat /\ asked \in Nat /\ asked <= MaxBatches
  /\ IsFiniteSet(DOMAIN routes) /\ IsFiniteSet(CountingClients)

MatrixInv ==
  RoutesTyped /\ ClientsTyped /\ PhasesFit /\ CountsTyped /\ RoutesHaveLeases /\ CountDrift

LEMMA EntriesArePairs == \A e \in Entries : e = <<Source(e), e[2]>>
BY BatchesAssumption DEF Entries, Source

LEMMA BatchTyped == \A b \in Batches : b \in Seq(Entries) /\ b # << >>
<1> SUFFICES ASSUME NEW b \in Batches PROVE b \in Seq(Entries) /\ b # << >>
  OBVIOUS
<1>1. b \in Seq(ToSet(b)) /\ ToSet(b) \subseteq Entries /\ b # << >>
  BY BatchesAssumption, MatrixBoundsAssumption DEF Entries
<1>2. \A i \in 1..Len(b) : b[i] \in Entries
  BY <1>1
<1> QED
  BY <1>1, <1>2

\* The parts of a sequence that is not empty.
LEMMA HeadAndTail ==
  ASSUME NEW S, NEW s \in Seq(S), s # << >>
  PROVE  /\ Head(s) \in S /\ Tail(s) \in Seq(S) /\ Len(s) \in Nat \ {0}
         /\ ToSet(s) = {Head(s)} \cup ToSet(Tail(s))
         /\ (Len(s) = 1) <=> Tail(s) = << >>
<1>1. /\ Len(s) \in Nat /\ Len(s) >= 1 /\ Head(s) = s[1] /\ Head(s) \in S
      /\ Tail(s) \in Seq(S) /\ Len(Tail(s)) = Len(s) - 1
      /\ \A i \in 1..Len(Tail(s)) : Tail(s)[i] = s[i + 1]
  OBVIOUS
<1>2. /\ DOMAIN s = 1..Len(s) /\ DOMAIN Tail(s) = 1..Len(Tail(s))
  BY <1>1
<1>3. ASSUME NEW i \in 1..Len(s) PROVE s[i] \in {Head(s)} \cup ToSet(Tail(s))
  <2>1. CASE i = 1
    BY <2>1, <1>1
  <2>2. CASE i # 1
    <3>1. i - 1 \in 1..Len(Tail(s)) /\ (i - 1) + 1 = i
      BY <2>2, <1>1
    <3>2. s[i] = Tail(s)[i - 1]
      BY <1>1, <3>1
    <3> QED
      BY <3>1, <3>2, <1>2 DEF ToSet
  <2> QED
    BY <2>1, <2>2
<1>4. ASSUME NEW i \in 1..Len(Tail(s)) PROVE Tail(s)[i] \in ToSet(s)
  <2>1. i + 1 \in 1..Len(s) /\ Tail(s)[i] = s[i + 1]
    BY <1>1
  <2> QED
    BY <2>1, <1>2 DEF ToSet
<1>5. Head(s) \in ToSet(s)
  <2>1. 1 \in DOMAIN s
    BY <1>1, <1>2
  <2> QED
    BY <2>1, <1>1 DEF ToSet
<1>6. ToSet(s) = {Head(s)} \cup ToSet(Tail(s))
  BY <1>2, <1>3, <1>4, <1>5 DEF ToSet
<1>7. (Len(s) = 1) <=> Tail(s) = << >>
  <2>1. (Tail(s) = << >>) <=> Len(Tail(s)) = 0
    BY <1>1, EmptySeq
  <2>2. (Len(s) = 1) <=> Len(Tail(s)) = 0
    BY <1>1
  <2> QED
    BY <2>1, <2>2
<1> QED
  BY <1>1, <1>6, <1>7

LEMMA AppendedSet ==
  ASSUME NEW S, NEW s \in Seq(S), NEW x \in S
  PROVE  Append(s, x) \in Seq(S) /\ ToSet(Append(s, x)) = ToSet(s) \cup {x}
<1>1. /\ Append(s, x) \in Seq(S) /\ Len(Append(s, x)) = Len(s) + 1 /\ Len(s) \in Nat
      /\ \A i \in 1..Len(s) : Append(s, x)[i] = s[i]
      /\ Append(s, x)[Len(s) + 1] = x
  BY AppendProperties
<1>2. DOMAIN s = 1..Len(s) /\ DOMAIN Append(s, x) = 1..Len(s) + 1
  BY <1>1
<1>3. 1..Len(s) + 1 = 1..Len(s) \cup {Len(s) + 1}
  BY <1>1
<1> HIDE DEF ToSet
<1>4. ToSet(Append(s, x)) = {Append(s, x)[i] : i \in 1..Len(s) \cup {Len(s) + 1}}
  BY <1>2, <1>3 DEF ToSet
<1>5. ToSet(s) = {s[i] : i \in 1..Len(s)}
  BY <1>2 DEF ToSet
<1> QED
  BY <1>1, <1>4, <1>5

LEMMA OneIsDropped ==
  ASSUME NEW E, NEW bs \in Seq(Seq(E)), NEW i \in 1..Len(bs), \A k \in 1..Len(bs) : bs[k] # << >>
  PROVE  /\ Dropped(bs, i) \in Seq(Seq(E))
         /\ \A k \in 1..Len(Dropped(bs, i)) : Dropped(bs, i)[k] # << >>
         /\ \A b \in ToSet(bs) : \A e \in ToSet(b) :
              e = Head(bs[i]) \/ \E d \in ToSet(Dropped(bs, i)) : e \in ToSet(d)
<1> DEFINE n == Len(bs)
           h == Head(bs[i])
           t == Tail(bs[i])
           ds == Dropped(bs, i)
<1>1. n \in Nat /\ DOMAIN bs = 1..n /\ \A k \in 1..n : bs[k] \in Seq(E)
  OBVIOUS
<1>2. /\ h \in E /\ t \in Seq(E) /\ Len(bs[i]) \in Nat \ {0}
      /\ ToSet(bs[i]) = {h} \cup ToSet(t) /\ (Len(bs[i]) = 1 <=> t = << >>)
  BY <1>1, HeadAndTail
<1> SUFFICES /\ ds \in Seq(Seq(E)) /\ \A k \in 1..Len(ds) : ds[k] # << >>
             /\ \A k \in 1..n : \A e \in ToSet(bs[k]) : e = h \/ \E d \in ToSet(ds) : e \in ToSet(d)
  <2>1. \A b \in ToSet(bs) : \E k \in 1..n : b = bs[k]
    BY <1>1 DEF ToSet
  <2> HIDE DEF n
  <2> QED
    BY <2>1, Zenon
<1>3. CASE Len(bs[i]) # 1
  <2>1. ds = [bs EXCEPT ![i] = t]
    BY <1>3 DEF Dropped
  <2>2. /\ ds \in Seq(Seq(E)) /\ Len(ds) = n /\ DOMAIN ds = 1..n /\ ds[i] = t
        /\ \A k \in 1..n \ {i} : ds[k] = bs[k]
    <3> HIDE DEF t, ds
    <3>1. [bs EXCEPT ![i] = t] \in Seq(Seq(E)) /\ Len([bs EXCEPT ![i] = t]) = n
      BY <1>1, <1>2, ExceptSeq
    <3> QED
      BY <1>1, <1>2, <2>1, <3>1
  <2> HIDE DEF ds, t, h, n
  <2>3. \A k \in 1..n : ds[k] # << >>
    BY <1>2, <1>3, <2>2 DEF n
  <2>4. \A k \in 1..n : ds[k] \in ToSet(ds)
    BY <2>2 DEF ToSet
  <2>5. ASSUME NEW k \in 1..n, NEW e \in ToSet(bs[k])
        PROVE  e = h \/ \E d \in ToSet(ds) : e \in ToSet(d)
    <3>1. CASE k = i
      BY <3>1, <1>2, <2>2, <2>4, <2>5
    <3>2. CASE k # i
      BY <3>2, <2>2, <2>4, <2>5
    <3> QED
      BY <3>1, <3>2
  <2> QED
    BY <2>2, <2>3, <2>5
<1>4. CASE Len(bs[i]) = 1
  <2> DEFINE front == SubSeq(bs, 1, i - 1)
             back == SubSeq(bs, i + 1, n)
  <2>1. ds = front \o back
    BY <1>4 DEF Dropped, RemoveAt
  <2>2. /\ front \in Seq(Seq(E)) /\ Len(front) = i - 1 /\ \A k \in 1..i - 1 : front[k] = bs[k]
    <3>1. \A k \in 1..i - 1 : bs[k] \in Seq(E)
      BY <1>1
    <3>2. /\ front \in Seq(Seq(E)) /\ Len(front) = IF 1 <= i - 1 THEN (i - 1) - 1 + 1 ELSE 0
          /\ \A k \in 1..(i - 1) - 1 + 1 : front[k] = bs[1 + k - 1]
      BY <1>1, <3>1, SubSeqProperties
    <3> HIDE DEF front
    <3> QED
      BY <1>1, <3>2
  <2>3. /\ back \in Seq(Seq(E)) /\ Len(back) = n - i /\ \A k \in 1..n - i : back[k] = bs[i + k]
    <3>1. \A k \in i + 1..n : bs[k] \in Seq(E)
      BY <1>1
    <3>2. /\ back \in Seq(Seq(E)) /\ Len(back) = IF i + 1 <= n THEN n - (i + 1) + 1 ELSE 0
          /\ \A k \in 1..n - (i + 1) + 1 : back[k] = bs[(i + 1) + k - 1]
      BY <1>1, <3>1, SubSeqProperties
    <3> HIDE DEF back
    <3>3. Len(back) = n - i
      <4> HIDE DEF n
      <4> QED
        BY <1>1, <3>2
    <3>4. ASSUME NEW k \in 1..n - i PROVE back[k] = bs[i + k]
      <4>1. k \in 1..n - (i + 1) + 1 /\ (i + 1) + k - 1 = i + k
        <5> HIDE DEF n
        <5> QED
          BY <1>1
      <4> QED
        BY <3>2, <4>1
    <3> QED
      BY <3>2, <3>3, <3>4
  <2> HIDE DEF front, back
  <2>4. /\ ds \in Seq(Seq(E)) /\ Len(ds) = n - 1
        /\ \A k \in 1..i - 1 : ds[k] = bs[k]
        /\ \A k \in i..n - 1 : ds[k] = bs[k + 1]
    <3>1. /\ front \o back \in Seq(Seq(E)) /\ Len(front \o back) = Len(front) + Len(back)
          /\ \A k \in 1..Len(front) + Len(back) : (front \o back)[k] =
               IF k <= Len(front) THEN front[k] ELSE back[k - Len(front)]
      BY <2>2, <2>3, ConcatProperties
    <3> HIDE DEF ds, n
    <3>2. ASSUME NEW k \in i..n - 1 PROVE ds[k] = bs[k + 1]
      <4>1. k - (i - 1) \in 1..n - i /\ i + (k - (i - 1)) = k + 1 /\ k \in 1..(i - 1) + (n - i) /\ ~(k <= i - 1)
        BY <1>1
      <4> QED
        BY <4>1, <2>1, <2>2, <2>3, <3>1
    <3>3. ASSUME NEW k \in 1..i - 1 PROVE ds[k] = bs[k]
      <4>1. k \in 1..(i - 1) + (n - i) /\ k <= i - 1
        BY <1>1
      <4> QED
        BY <4>1, <2>1, <2>2, <2>3, <3>1
    <3>4. Len(ds) = n - 1
      BY <2>1, <2>2, <2>3, <3>1, <1>1
    <3> QED
      BY <2>1, <3>1, <3>2, <3>3, <3>4
  <2> HIDE DEF ds, n, h, t
  <2>5. ASSUME NEW k \in 1..n - 1 PROVE ds[k] # << >>
    <3>1. CASE k \in 1..i - 1
      BY <3>1, <2>4, <1>1 DEF n
    <3>2. CASE k \in i..n - 1
      <4>1. k + 1 \in 1..n
        BY <3>2, <1>1
      <4> QED
        BY <3>2, <4>1, <2>4 DEF n
    <3> QED
      BY <3>1, <3>2, <1>1
  <2>6. \A k \in 1..n - 1 : ds[k] \in ToSet(ds)
    <3>1. DOMAIN ds = 1..n - 1
      BY <2>4
    <3> QED
      BY <3>1 DEF ToSet
  <2>7. ASSUME NEW k \in 1..n, NEW e \in ToSet(bs[k])
        PROVE  e = h \/ \E d \in ToSet(ds) : e \in ToSet(d)
    <3>1. CASE k = i
      <4>1. ToSet(t) = {}
        BY <1>2, <1>4 DEF ToSet
      <4> QED
        BY <3>1, <4>1, <1>2, <2>7
    <3>2. CASE k < i
      <4>1. k \in 1..i - 1 /\ k \in 1..n - 1
        BY <3>2, <1>1 DEF n
      <4> QED
        BY <4>1, <2>4, <2>6, <2>7
    <3>3. CASE k > i
      <4>1. k - 1 \in i..n - 1 /\ k - 1 \in 1..n - 1 /\ (k - 1) + 1 = k
        BY <3>3, <1>1 DEF n
      <4>2. ds[k - 1] = bs[k] /\ ds[k - 1] \in ToSet(ds)
        BY <4>1, <2>4, <2>6
      <4> QED
        BY <4>2, <2>7
    <3> QED
      BY <3>1, <3>2, <3>3, <1>1 DEF n
  <2> QED
    BY <2>4, <2>5, <2>7
<1> QED
  BY <1>3, <1>4

LEMMA MatrixInitially == MatrixInit => MatrixInv
<1> SUFFICES ASSUME MatrixInit PROVE MatrixInv
  OBVIOUS
<1>1. << >> \in Seq(Entries) /\ << >> \in Seq(Seq(Entries)) /\ Len(<< >>) = 0 /\ DOMAIN << >> = {}
  OBVIOUS
<1>2. RoutesTyped
  BY <1>1 DEF MatrixInit, RoutesTyped
<1>3. ClientsTyped
  BY <1>1 DEF MatrixInit, ClientsTyped
<1>4. PhasesFit
  BY <1>1 DEF MatrixInit, PhasesFit
<1>5. CountingClients = {}
  BY DEF MatrixInit, CountingClients
<1>6. CountsTyped
  BY <1>1, <1>5, FS_EmptySet, MatrixBoundsAssumption DEF MatrixInit, CountsTyped
<1>7. RoutesHaveLeases
  BY <1>1 DEF MatrixInit, RoutesHaveLeases
<1>8. CountDrift
  <2>1. Counting = 0
    BY <1>5, FS_EmptySet DEF Counting, CountingClients
  <2> QED
    BY <2>1, <1>1, FS_EmptySet DEF MatrixInit, CountDrift
<1> QED
  BY <1>2, <1>3, <1>4, <1>6, <1>7, <1>8 DEF MatrixInv

OnlyClient(c) ==
  \A d \in Clients \ {c} : /\ phase'[d] = phase[d] /\ todo'[d] = todo[d]
                           /\ got'[d] = got[d] /\ leases'[d] = leases[d]

\* What client c has to show for the routes it had, when one of them may be gone.
LEMMA LeasesCarry ==
  ASSUME RoutesHaveLeases, NEW c \in Clients, OnlyClient(c),
         \A s \in DOMAIN routes' :
           \/ \E e : e = <<s, routes'[s]>> /\ HasLease(c, e)'
           \/ /\ s \in DOMAIN routes /\ routes'[s] = routes[s]
              /\ \A e : e = <<s, routes[s]>> /\ HasLease(c, e) => HasLease(c, e)'
  PROVE  RoutesHaveLeases'
<1> SUFFICES ASSUME NEW s \in DOMAIN routes' PROVE \E d \in Clients : HasLease(d, <<s, routes[s]>>)'
  BY DEF RoutesHaveLeases
<1>1. CASE \E e : e = <<s, routes'[s]>> /\ HasLease(c, e)'
  BY <1>1
<1>2. CASE /\ s \in DOMAIN routes /\ routes'[s] = routes[s]
           /\ \A e : e = <<s, routes[s]>> /\ HasLease(c, e) => HasLease(c, e)'
  <2>1. PICK d \in Clients : HasLease(d, <<s, routes[s]>>)
    BY <1>2 DEF RoutesHaveLeases
  <2>2. CASE d = c
    BY <2>1, <2>2, <1>2
  <2>3. CASE d # c
    <3>1. HasLease(d, <<s, routes[s]>>)'
      BY <2>1, <2>3, <1>2 DEF OnlyClient, HasLease
    <3> QED
      BY <3>1
  <2> QED
    BY <2>2, <2>3
<1> QED
  BY <1>1, <1>2

\* What the entry of a lease that is destroyed does to the table and the count.
LEMMA Disconnected ==
  ASSUME MatrixInv, NEW entry \in Entries, DoDisconnect(entry)
  PROVE  /\ RoutesTyped' /\ activeCount' \in Int /\ IsFiniteSet(DOMAIN routes')
         /\ activeCount' - Cardinality(DOMAIN routes') = activeCount - Cardinality(DOMAIN routes)
         /\ \A s \in DOMAIN routes' : /\ s \in DOMAIN routes /\ routes'[s] = routes[s]
                                      /\ <<s, routes[s]>> # entry
<1>1. RoutesTyped /\ IsFiniteSet(DOMAIN routes) /\ activeCount \in Int
  BY DEF MatrixInv, CountsTyped
<1>2. entry = <<Source(entry), entry[2]>>
  BY EntriesArePairs
<1>3. Cardinality(DOMAIN routes) \in Nat
  BY <1>1, FS_CardinalityType
<1>4. CASE Routed(entry)
  <2> DEFINE D == DOMAIN routes \ {Source(entry)}
  <2>1. routes' = [s \in D |-> routes[s]] /\ activeCount' = activeCount - 1
    BY <1>4 DEF DoDisconnect, Restrict
  <2>2. DOMAIN routes' = D /\ \A s \in D : routes'[s] = routes[s]
    BY <2>1
  <2>3. IsFiniteSet(D) /\ Cardinality(D) = Cardinality(DOMAIN routes) - 1
    BY <1>1, <1>4, FS_RemoveElement DEF Routed
  <2>4. RoutesTyped'
    BY <1>1, <2>1, <2>2 DEF RoutesTyped
  <2>5. \A s \in D : <<s, routes[s]>> # entry
    BY <1>2
  <2> HIDE DEF D
  <2> QED
    BY <1>1, <1>3, <2>1, <2>2, <2>3, <2>4, <2>5 DEF D
<1>5. CASE ~Routed(entry)
  <2>1. routes' = routes /\ activeCount' = activeCount
    BY <1>5 DEF DoDisconnect
  <2>2. \A s \in DOMAIN routes : <<s, routes[s]>> # entry
    BY <1>5 DEF Routed, Source
  <2> QED
    BY <1>1, <1>3, <2>1, <2>2 DEF RoutesTyped
<1> QED
  BY <1>4, <1>5

\* A step of a client that counts nothing.
LEMMA CountKept ==
  ASSUME MatrixInv, CountingClients' = CountingClients, replaced' = replaced,
         activeCount' \in Int, IsFiniteSet(DOMAIN routes'),
         activeCount' - Cardinality(DOMAIN routes') = activeCount - Cardinality(DOMAIN routes),
         asked' \in Nat, asked' <= MaxBatches
  PROVE  CountsTyped' /\ CountDrift'
<1>1. /\ CountsTyped /\ CountDrift /\ Counting = Cardinality(CountingClients)
      /\ Counting' = Cardinality(CountingClients')
  BY DEF MatrixInv, Counting, CountingClients
<1>2. /\ Counting \in Nat /\ Cardinality(DOMAIN routes) \in Nat
      /\ Cardinality(DOMAIN routes') \in Nat /\ Counting' = Counting
  BY <1>1, FS_CardinalityType DEF CountsTyped
<1>3. CountsTyped'
  BY <1>1 DEF CountsTyped
<1>4. activeCount' + Counting' = Cardinality(DOMAIN routes') + replaced'
  BY <1>1, <1>2 DEF CountsTyped, CountDrift
<1>5. CountDrift'
  BY <1>4 DEF CountDrift
<1> QED
  BY <1>3, <1>5

LEMMA AskBatchKeeps == ASSUME MatrixInv, NEW c \in Clients, AskBatch(c) PROVE MatrixInv'
<1>1. PICK b \in Batches :
        /\ phase[c] = "idle" /\ asked < MaxBatches /\ asked' = asked + 1
        /\ todo' = [todo EXCEPT ![c] = b] /\ phase' = [phase EXCEPT ![c] = "route"]
        /\ routes' = routes /\ activeCount' = activeCount /\ got' = got /\ leases' = leases
        /\ replaced' = replaced
  BY DEF AskBatch
<1>2. ClientsTyped /\ PhasesFit /\ b \in Seq(Entries) /\ b # << >>
  BY BatchTyped DEF MatrixInv
<1>3. /\ phase'[c] = "route" /\ todo'[c] = b /\ OnlyClient(c) /\ ClientsTyped'
  BY <1>1, <1>2 DEF OnlyClient, ClientsTyped
<1>4. PhasesFit'
  <2>1. ASSUME NEW d \in Clients
        PROVE  /\ (todo'[d] # << >>) <=> phase'[d] \in {"route", "count"}
               /\ phase'[d] = "rollback" => got'[d] # << >>
               /\ \A i \in 1..Len(leases'[d]) : leases'[d][i] # << >>
    <3>1. CASE d = c
      BY <3>1, <1>1, <1>2, <1>3 DEF PhasesFit
    <3>2. CASE d # c
      BY <3>2, <1>1, <1>2, <1>3 DEF PhasesFit, OnlyClient
    <3> QED
      BY <3>1, <3>2
  <2> QED
    BY <2>1 DEF PhasesFit
<1>5. CountingClients' = CountingClients
  BY <1>1, <1>3 DEF CountingClients, OnlyClient
<1>6. CountsTyped' /\ CountDrift'
  <2>1. asked' \in Nat /\ asked' <= MaxBatches
    BY <1>1, MatrixBoundsAssumption DEF MatrixInv, CountsTyped
  <2>2. activeCount \in Int /\ IsFiniteSet(DOMAIN routes)
    BY DEF MatrixInv, CountsTyped
  <2> QED
    BY <1>1, <1>5, <2>1, <2>2, CountKept
<1>7. RoutesHaveLeases'
  <2>1. \A e : HasLease(c, e) => HasLease(c, e)'
    BY <1>1 DEF HasLease
  <2> QED
    BY <1>1, <1>3, <2>1, LeasesCarry DEF MatrixInv
<1>8. RoutesTyped'
  BY <1>1 DEF MatrixInv, RoutesTyped
<1> QED
  BY <1>3, <1>4, <1>6, <1>7, <1>8 DEF MatrixInv

LEMMA SetRouteKeeps == ASSUME MatrixInv, NEW c \in Clients, SetRoute(c) PROVE MatrixInv'
<1> DEFINE entry == Head(todo[c])
           src == Source(entry)
<1>1. /\ phase[c] = "route" /\ phase' = [phase EXCEPT ![c] = "count"]
      /\ routes' = [s \in DOMAIN routes \cup {src} |-> IF s = src THEN entry[2] ELSE routes[s]]
      /\ replaced' = IF src \in DOMAIN routes THEN replaced + 1 ELSE replaced
      /\ activeCount' = activeCount /\ todo' = todo /\ got' = got /\ leases' = leases
      /\ asked' = asked
  BY DEF SetRoute
<1>2. /\ ClientsTyped /\ PhasesFit /\ RoutesTyped /\ CountsTyped /\ CountDrift
  BY DEF MatrixInv
<1>3. todo[c] \in Seq(Entries) /\ todo[c] # << >>
  BY <1>1, <1>2 DEF ClientsTyped, PhasesFit
<1>4. entry \in Entries /\ entry = <<src, entry[2]>>
  <2>1. entry \in Entries
    BY <1>3, HeadAndTail
  <2> HIDE DEF entry
  <2> QED
    BY <2>1, EntriesArePairs
<1>5. /\ phase'[c] = "count" /\ OnlyClient(c) /\ ClientsTyped'
  BY <1>1, <1>2 DEF OnlyClient, ClientsTyped
<1>6. PhasesFit'
  <2>1. ASSUME NEW d \in Clients
        PROVE  /\ (todo'[d] # << >>) <=> phase'[d] \in {"route", "count"}
               /\ phase'[d] = "rollback" => got'[d] # << >>
    <3>1. CASE d = c
      BY <3>1, <1>1, <1>3, <1>5
    <3>2. CASE d # c
      BY <3>2, <1>1, <1>2, <1>5 DEF PhasesFit, OnlyClient
    <3> QED
      BY <3>1, <3>2
  <2> QED
    BY <1>1, <1>2, <2>1 DEF PhasesFit
<1> HIDE DEF entry
<1>7. DOMAIN routes' = DOMAIN routes \cup {src} /\ routes'[src] = entry[2]
      /\ \A s \in DOMAIN routes \ {src} : routes'[s] = routes[s]
  BY <1>1
<1>8. RoutesTyped'
  <2>1. src \in Sources /\ entry[2] \in Destinations
    BY <1>4 DEF Sources, Destinations
  <2>2. routes' \in [DOMAIN routes \cup {src} -> Destinations]
    <3> HIDE DEF src
    <3> QED
      BY <1>1, <1>2, <2>1 DEF RoutesTyped
  <2> QED
    BY <1>2, <1>7, <2>1, <2>2 DEF RoutesTyped
<1>9. RoutesHaveLeases'
  <2>1. \A e : HasLease(c, e) => HasLease(c, e)'
    BY <1>1 DEF HasLease
  <2>2. \E e : e = <<src, routes'[src]>> /\ HasLease(c, e)'
    <3>1. \A e : e = entry => HasLease(c, e)'
      BY <1>1, <1>5 DEF HasLease, entry
    <3> QED
      BY <3>1, <1>4, <1>7
  <2>3. \A s \in DOMAIN routes' :
           \/ \E e : e = <<s, routes'[s]>> /\ HasLease(c, e)'
           \/ /\ s \in DOMAIN routes /\ routes'[s] = routes[s]
              /\ \A e : e = <<s, routes[s]>> /\ HasLease(c, e) => HasLease(c, e)'
    <3> HIDE DEF src
    <3> QED
      BY <1>7, <2>1, <2>2
  <2> QED
    BY <1>5, <2>3, LeasesCarry DEF MatrixInv
<1> HIDE DEF src
<1>10. /\ CountingClients' = CountingClients \cup {c} /\ c \notin CountingClients
  BY <1>1, <1>5 DEF CountingClients, OnlyClient
<1>11. /\ IsFiniteSet(CountingClients') /\ Counting' = Counting + 1 /\ Counting \in Nat
  <2>1. IsFiniteSet(CountingClients)
    BY <1>2 DEF CountsTyped
  <2>2. /\ IsFiniteSet(CountingClients \cup {c})
        /\ Cardinality(CountingClients \cup {c}) = Cardinality(CountingClients) + 1
    BY <1>10, <2>1, FS_AddElement
  <2>3. Cardinality(CountingClients) \in Nat
    BY <2>1, FS_CardinalityType
  <2> QED
    BY <1>10, <2>2, <2>3 DEF Counting, CountingClients
<1>12. /\ IsFiniteSet(DOMAIN routes')
       /\ Cardinality(DOMAIN routes') = IF src \in DOMAIN routes THEN Cardinality(DOMAIN routes)
                                        ELSE Cardinality(DOMAIN routes) + 1
       /\ Cardinality(DOMAIN routes) \in Nat
  <2>1. IsFiniteSet(DOMAIN routes)
    BY <1>2 DEF CountsTyped
  <2>2. /\ IsFiniteSet(DOMAIN routes \cup {src})
        /\ Cardinality(DOMAIN routes \cup {src}) = IF src \in DOMAIN routes
             THEN Cardinality(DOMAIN routes) ELSE Cardinality(DOMAIN routes) + 1
    BY <2>1, FS_AddElement
  <2>3. Cardinality(DOMAIN routes) \in Nat
    BY <2>1, FS_CardinalityType
  <2> QED
    BY <1>7, <2>2, <2>3
<1>13. CountsTyped'
  BY <1>1, <1>2, <1>11, <1>12 DEF CountsTyped
<1>14. activeCount' + Counting' = Cardinality(DOMAIN routes') + replaced'
  <2>1. activeCount + Counting = Cardinality(DOMAIN routes) + replaced
    BY <1>2 DEF CountDrift
  <2>2. activeCount \in Int /\ replaced \in Nat
    BY <1>2 DEF CountsTyped
  <2> QED
    BY <1>1, <1>11, <1>12, <2>1, <2>2
<1>15. CountDrift'
  BY <1>14 DEF CountDrift
<1> QED
  BY <1>5, <1>6, <1>8, <1>9, <1>13, <1>15 DEF MatrixInv

LEMMA AcquireFailsKeeps == ASSUME MatrixInv, NEW c \in Clients, AcquireFails(c) PROVE MatrixInv'
<1>1. /\ phase[c] = "route" /\ todo' = [todo EXCEPT ![c] = << >>]
      /\ phase' = [phase EXCEPT ![c] = IF got[c] = << >> THEN "idle" ELSE "rollback"]
      /\ routes' = routes /\ activeCount' = activeCount /\ got' = got /\ leases' = leases
      /\ asked' = asked /\ replaced' = replaced
  BY DEF AcquireFails
<1>2. ClientsTyped /\ PhasesFit
  BY DEF MatrixInv
<1>3. << >> \in Seq(Entries)
  OBVIOUS
<1>4. /\ phase'[c] = (IF got[c] = << >> THEN "idle" ELSE "rollback") /\ todo'[c] = << >>
      /\ OnlyClient(c) /\ ClientsTyped'
  BY <1>1, <1>2, <1>3 DEF OnlyClient, ClientsTyped
<1>5. PhasesFit'
  <2>1. ASSUME NEW d \in Clients
        PROVE  /\ (todo'[d] # << >>) <=> phase'[d] \in {"route", "count"}
               /\ phase'[d] = "rollback" => got'[d] # << >>
    <3>1. CASE d = c
      BY <3>1, <1>1, <1>4
    <3>2. CASE d # c
      BY <3>2, <1>1, <1>2, <1>4 DEF PhasesFit, OnlyClient
    <3> QED
      BY <3>1, <3>2
  <2> QED
    BY <1>1, <1>2, <2>1 DEF PhasesFit
<1>6. CountingClients' = CountingClients
  BY <1>1, <1>4 DEF CountingClients, OnlyClient
<1>7. CountsTyped' /\ CountDrift'
  <2>1. /\ asked \in Nat /\ asked <= MaxBatches /\ activeCount \in Int /\ IsFiniteSet(DOMAIN routes)
    BY DEF MatrixInv, CountsTyped
  <2> QED
    BY <1>1, <1>6, <2>1, CountKept
<1>8. RoutesHaveLeases'
  <2>1. \A e : HasLease(c, e) => HasLease(c, e)'
    BY <1>1 DEF HasLease
  <2> QED
    BY <1>1, <1>4, <2>1, LeasesCarry DEF MatrixInv
<1>9. RoutesTyped'
  BY <1>1 DEF MatrixInv, RoutesTyped
<1> QED
  BY <1>4, <1>5, <1>7, <1>8, <1>9 DEF MatrixInv

LEMMA CountRouteKeeps == ASSUME MatrixInv, NEW c \in Clients, CountRoute(c) PROVE MatrixInv'
<1> DEFINE entry == Head(todo[c])
           done == Append(got[c], entry)
           last == Len(todo[c]) = 1
<1>1. /\ phase[c] = "count" /\ activeCount' = activeCount + 1
      /\ got' = [got EXCEPT ![c] = IF last THEN << >> ELSE done]
      /\ leases' = [leases EXCEPT ![c] = IF last THEN Append(@, done) ELSE @]
      /\ phase' = [phase EXCEPT ![c] = IF last THEN "idle" ELSE "route"]
      /\ todo' = [todo EXCEPT ![c] = Tail(@)]
      /\ routes' = routes /\ asked' = asked /\ replaced' = replaced
  BY DEF CountRoute
<1>2. /\ ClientsTyped /\ PhasesFit /\ CountsTyped /\ CountDrift
  BY DEF MatrixInv
<1>3. /\ todo[c] \in Seq(Entries) /\ todo[c] # << >> /\ got[c] \in Seq(Entries)
      /\ leases[c] \in Seq(Seq(Entries))
  BY <1>1, <1>2 DEF ClientsTyped, PhasesFit
<1>4. /\ entry \in Entries /\ Tail(todo[c]) \in Seq(Entries) /\ (last <=> Tail(todo[c]) = << >>)
  BY <1>3, HeadAndTail
<1>5. done \in Seq(Entries) /\ ToSet(done) = ToSet(got[c]) \cup {entry}
  <2> HIDE DEF entry
  <2> QED
    BY <1>3, <1>4, AppendedSet
<1>6. done # << >>
  <2> HIDE DEF entry
  <2>1. Len(done) = Len(got[c]) + 1 /\ Len(got[c]) \in Nat
    BY <1>3, <1>4, AppendProperties
  <2> QED
    BY <2>1
<1>7. << >> \in Seq(Entries) /\ ToSet(<< >>) = {}
  BY DEF ToSet
<1> HIDE DEF done, entry, last
<1>8. /\ Append(leases[c], done) \in Seq(Seq(Entries))
      /\ Len(Append(leases[c], done)) = Len(leases[c]) + 1 /\ Len(leases[c]) \in Nat
      /\ \A i \in 1..Len(leases[c]) : Append(leases[c], done)[i] = leases[c][i]
      /\ Append(leases[c], done)[Len(leases[c]) + 1] = done
      /\ ToSet(Append(leases[c], done)) = ToSet(leases[c]) \cup {done}
  BY <1>3, <1>5, AppendProperties, AppendedSet
<1>9. /\ got'[c] = (IF last THEN << >> ELSE done) /\ todo'[c] = Tail(todo[c])
      /\ leases'[c] = (IF last THEN Append(leases[c], done) ELSE leases[c])
      /\ phase'[c] = (IF last THEN "idle" ELSE "route")
      /\ OnlyClient(c)
  BY <1>1, <1>2 DEF OnlyClient, ClientsTyped
<1>10. ClientsTyped'
  <2>1. phase' \in [Clients -> {"idle", "route", "count", "rollback"}]
    BY <1>1, <1>2 DEF ClientsTyped
  <2>2. todo' \in [Clients -> Seq(Entries)]
    BY <1>1, <1>2, <1>4 DEF ClientsTyped
  <2>3. got' \in [Clients -> Seq(Entries)]
    BY <1>1, <1>2, <1>5, <1>7 DEF ClientsTyped
  <2>4. leases' \in [Clients -> Seq(Seq(Entries))]
    BY <1>1, <1>2, <1>8 DEF ClientsTyped
  <2> QED
    BY <2>1, <2>2, <2>3, <2>4 DEF ClientsTyped
<1>11. PhasesFit'
  <2>1. ASSUME NEW d \in Clients
        PROVE  /\ (todo'[d] # << >>) <=> phase'[d] \in {"route", "count"}
               /\ phase'[d] = "rollback" => got'[d] # << >>
               /\ \A i \in 1..Len(leases'[d]) : leases'[d][i] # << >>
    <3>1. CASE d = c
      <4>1. ASSUME NEW i \in 1..Len(leases'[c]) PROVE leases'[c][i] # << >>
        <5>1. CASE i \in 1..Len(leases[c])
          BY <5>1, <1>2, <1>8, <1>9 DEF PhasesFit
        <5>2. CASE i \notin 1..Len(leases[c])
          BY <5>2, <1>6, <1>8, <1>9
        <5> QED
          BY <5>1, <5>2
      <4> QED
        BY <3>1, <4>1, <1>4, <1>9
    <3>2. CASE d # c
      BY <3>2, <1>2, <1>9 DEF PhasesFit, OnlyClient
    <3> QED
      BY <3>1, <3>2
  <2> QED
    BY <2>1 DEF PhasesFit
<1>12. /\ CountingClients' = CountingClients \ {c} /\ c \in CountingClients
  BY <1>1, <1>9 DEF CountingClients, OnlyClient
<1>13. /\ IsFiniteSet(CountingClients') /\ Counting' = Counting - 1 /\ Counting \in Nat
  <2>1. IsFiniteSet(CountingClients)
    BY <1>2 DEF CountsTyped
  <2>2. /\ IsFiniteSet(CountingClients \ {c})
        /\ Cardinality(CountingClients \ {c}) = Cardinality(CountingClients) - 1
    BY <1>12, <2>1, FS_RemoveElement
  <2>3. Cardinality(CountingClients) \in Nat
    BY <2>1, FS_CardinalityType
  <2> QED
    BY <1>12, <2>2, <2>3 DEF Counting, CountingClients
<1>14. CountsTyped'
  BY <1>1, <1>2, <1>13 DEF CountsTyped
<1>15. activeCount' + Counting' = Cardinality(DOMAIN routes') + replaced'
  <2>1. activeCount + Counting = Cardinality(DOMAIN routes) + replaced
    BY <1>2 DEF CountDrift
  <2>2. activeCount \in Int
    BY <1>2 DEF CountsTyped
  <2> QED
    BY <1>1, <1>13, <2>1, <2>2
<1>16. CountDrift'
  BY <1>15 DEF CountDrift
<1>17. RoutesHaveLeases'
  <2>1. ASSUME NEW e, HasLease(c, e) PROVE HasLease(c, e)'
    <3>1. ASSUME NEW b \in ToSet(leases[c]) PROVE b \in ToSet(leases'[c])
      BY <1>8, <1>9
    <3>2. e \in ToSet(got[c]) \cup {entry} => e \in ToSet(done)
      BY <1>5
    <3>3. e \in ToSet(done) => (\E b \in ToSet(leases'[c]) : e \in ToSet(b)) \/ e \in ToSet(got'[c])
      BY <1>8, <1>9
    <3>4. (\E b \in ToSet(leases[c]) : e \in ToSet(b)) \/ e \in ToSet(got[c]) \/ e = entry
      BY <2>1 DEF HasLease, entry
    <3>5. (\E b \in ToSet(leases'[c]) : e \in ToSet(b)) \/ e \in ToSet(got'[c])
      BY <3>1, <3>2, <3>3, <3>4
    <3> QED
      BY <3>5 DEF HasLease
  <2> QED
    BY <1>1, <1>9, <2>1, LeasesCarry DEF MatrixInv
<1>18. RoutesTyped'
  BY <1>1 DEF MatrixInv, RoutesTyped
<1> QED
  BY <1>10, <1>11, <1>14, <1>16, <1>17, <1>18 DEF MatrixInv

LEMMA RollBackKeeps == ASSUME MatrixInv, NEW c \in Clients, RollBack(c) PROVE MatrixInv'
<1> DEFINE entry == Head(got[c])
<1>1. /\ phase[c] = "rollback" /\ DoDisconnect(entry) /\ got' = [got EXCEPT ![c] = Tail(@)]
      /\ phase' = [phase EXCEPT ![c] = IF Len(got[c]) = 1 THEN "idle" ELSE "rollback"]
      /\ todo' = todo /\ leases' = leases /\ asked' = asked /\ replaced' = replaced
  BY DEF RollBack
<1>2. ClientsTyped /\ PhasesFit
  BY DEF MatrixInv
<1>3. got[c] \in Seq(Entries) /\ got[c] # << >>
  BY <1>1, <1>2 DEF ClientsTyped, PhasesFit
<1>4. /\ entry \in Entries /\ Tail(got[c]) \in Seq(Entries)
      /\ ToSet(got[c]) = {entry} \cup ToSet(Tail(got[c]))
      /\ (Len(got[c]) = 1) <=> Tail(got[c]) = << >>
  BY <1>3, HeadAndTail
<1> HIDE DEF entry
<1>5. /\ RoutesTyped' /\ activeCount' \in Int /\ IsFiniteSet(DOMAIN routes')
      /\ activeCount' - Cardinality(DOMAIN routes') = activeCount - Cardinality(DOMAIN routes)
      /\ \A s \in DOMAIN routes' : /\ s \in DOMAIN routes /\ routes'[s] = routes[s]
                                   /\ <<s, routes[s]>> # entry
  BY <1>1, <1>4, Disconnected
<1>6. /\ phase'[c] = (IF Len(got[c]) = 1 THEN "idle" ELSE "rollback")
      /\ got'[c] = Tail(got[c]) /\ OnlyClient(c) /\ ClientsTyped'
  BY <1>1, <1>2, <1>4 DEF OnlyClient, ClientsTyped
<1>7. PhasesFit'
  <2>1. ASSUME NEW d \in Clients
        PROVE  /\ (todo'[d] # << >>) <=> phase'[d] \in {"route", "count"}
               /\ phase'[d] = "rollback" => got'[d] # << >>
    <3>1. CASE d = c
      <4>1. ~(todo[c] # << >>)
        BY <1>1, <1>2 DEF PhasesFit
      <4> QED
        BY <3>1, <4>1, <1>1, <1>4, <1>6
    <3>2. CASE d # c
      BY <3>2, <1>1, <1>2, <1>6 DEF PhasesFit, OnlyClient
    <3> QED
      BY <3>1, <3>2
  <2> QED
    BY <1>1, <1>2, <2>1 DEF PhasesFit
<1>8. CountingClients' = CountingClients
  BY <1>1, <1>6 DEF CountingClients, OnlyClient
<1>9. CountsTyped' /\ CountDrift'
  <2>1. asked \in Nat /\ asked <= MaxBatches
    BY DEF MatrixInv, CountsTyped
  <2> QED
    BY <1>1, <1>5, <1>8, <2>1, CountKept
<1>10. RoutesHaveLeases'
  <2>1. \A e : HasLease(c, e) /\ e # entry => HasLease(c, e)'
    BY <1>1, <1>4, <1>6 DEF HasLease
  <2> QED
    BY <1>5, <1>6, <2>1, LeasesCarry DEF MatrixInv
<1> QED
  BY <1>5, <1>6, <1>7, <1>9, <1>10 DEF MatrixInv

LEMMA DropLeaseKeeps == ASSUME MatrixInv, NEW c \in Clients, DropLease(c) PROVE MatrixInv'
<1>1. PICK i \in DOMAIN leases[c] :
        /\ DoDisconnect(Head(leases[c][i]))
        /\ leases' = [leases EXCEPT ![c] = Dropped(leases[c], i)]
  BY DEF DropLease
<1>2. /\ phase[c] = "idle" /\ phase' = phase /\ todo' = todo /\ got' = got /\ asked' = asked
      /\ replaced' = replaced
  BY DEF DropLease
<1>3. ClientsTyped /\ PhasesFit
  BY DEF MatrixInv
<1>4. /\ leases[c] \in Seq(Seq(Entries)) /\ i \in 1..Len(leases[c])
      /\ \A k \in 1..Len(leases[c]) : leases[c][k] # << >>
  <2>1. leases[c] \in Seq(Seq(Entries))
    BY <1>3 DEF ClientsTyped
  <2>2. DOMAIN leases[c] = 1..Len(leases[c])
    BY <2>1
  <2> QED
    BY <2>1, <2>2, <1>3 DEF PhasesFit
<1> DEFINE entry == Head(leases[c][i])
           ds == Dropped(leases[c], i)
<1>5. /\ ds \in Seq(Seq(Entries)) /\ \A k \in 1..Len(ds) : ds[k] # << >>
      /\ \A b \in ToSet(leases[c]) : \A e \in ToSet(b) :
           e = entry \/ \E d \in ToSet(ds) : e \in ToSet(d)
  BY <1>4, OneIsDropped, Zenon
<1>6. entry \in Entries
  <2>1. leases[c][i] \in Seq(Entries) /\ leases[c][i] # << >>
    BY <1>4
  <2> QED
    BY <2>1, HeadAndTail
<1> HIDE DEF entry, ds
<1>7. /\ RoutesTyped' /\ activeCount' \in Int /\ IsFiniteSet(DOMAIN routes')
      /\ activeCount' - Cardinality(DOMAIN routes') = activeCount - Cardinality(DOMAIN routes)
      /\ \A s \in DOMAIN routes' : /\ s \in DOMAIN routes /\ routes'[s] = routes[s]
                                   /\ <<s, routes[s]>> # entry
  BY <1>1, <1>6, Disconnected DEF entry
<1>8. leases' = [leases EXCEPT ![c] = ds]
  BY <1>1 DEF ds
<1>9. leases'[c] = ds /\ OnlyClient(c) /\ ClientsTyped'
  BY <1>2, <1>3, <1>5, <1>8 DEF OnlyClient, ClientsTyped
<1>10. PhasesFit'
  <2>1. ASSUME NEW d \in Clients PROVE \A k \in 1..Len(leases'[d]) : leases'[d][k] # << >>
    <3>1. CASE d = c
      BY <3>1, <1>5, <1>9
    <3>2. CASE d # c
      BY <3>2, <1>3, <1>9 DEF PhasesFit, OnlyClient
    <3> QED
      BY <3>1, <3>2
  <2> QED
    BY <1>2, <1>3, <2>1 DEF PhasesFit
<1>11. CountingClients' = CountingClients
  BY <1>2 DEF CountingClients
<1>12. CountsTyped' /\ CountDrift'
  <2>1. asked \in Nat /\ asked <= MaxBatches
    BY DEF MatrixInv, CountsTyped
  <2> QED
    BY <1>2, <1>7, <1>11, <2>1, CountKept
<1>13. RoutesHaveLeases'
  <2>1. \A e : HasLease(c, e) /\ e # entry => HasLease(c, e)'
    BY <1>2, <1>5, <1>9 DEF HasLease
  <2> QED
    BY <1>7, <1>9, <2>1, LeasesCarry DEF MatrixInv
<1> QED
  BY <1>7, <1>9, <1>10, <1>12, <1>13 DEF MatrixInv

LEMMA DisconnectAllKeeps == ASSUME MatrixInv, DisconnectAll PROVE MatrixInv'
<1>1. /\ activeCount' = activeCount - Cardinality(DOMAIN routes) /\ routes' = << >>
      /\ phase' = phase /\ todo' = todo /\ got' = got /\ leases' = leases /\ asked' = asked
      /\ replaced' = replaced
  BY DEF DisconnectAll
<1>2. DOMAIN routes' = {} /\ routes' \in [{} -> Destinations]
  BY <1>1
<1>3. /\ IsFiniteSet(DOMAIN routes') /\ Cardinality(DOMAIN routes') = 0
      /\ Cardinality(DOMAIN routes) \in Nat /\ activeCount \in Int
      /\ asked \in Nat /\ asked <= MaxBatches
  BY <1>2, FS_EmptySet, FS_CardinalityType DEF MatrixInv, CountsTyped
<1>4. /\ activeCount' \in Int
      /\ activeCount' - Cardinality(DOMAIN routes') = activeCount - Cardinality(DOMAIN routes)
  BY <1>1, <1>3
<1>5. CountingClients' = CountingClients
  BY <1>1 DEF CountingClients
<1>6. CountsTyped' /\ CountDrift'
  BY <1>1, <1>3, <1>4, <1>5, CountKept
<1>7. RoutesTyped' /\ RoutesHaveLeases'
  BY <1>2 DEF RoutesTyped, RoutesHaveLeases
<1>8. ClientsTyped' /\ PhasesFit'
  BY <1>1 DEF MatrixInv, ClientsTyped, PhasesFit
<1> QED
  BY <1>6, <1>7, <1>8 DEF MatrixInv

LEMMA MatrixStep == MatrixInv /\ [MatrixNext]_matrixVars => MatrixInv'
<1> SUFFICES ASSUME MatrixInv, [MatrixNext]_matrixVars PROVE MatrixInv'
  OBVIOUS
<1>1. CASE UNCHANGED matrixVars
  <2>1. /\ routes' = routes /\ activeCount' = activeCount /\ phase' = phase /\ todo' = todo
        /\ got' = got /\ leases' = leases /\ asked' = asked /\ replaced' = replaced
    BY <1>1 DEF matrixVars
  <2>2. CountsTyped'
    BY <2>1 DEF MatrixInv, CountsTyped, CountingClients
  <2>3. CountDrift'
    BY <2>1 DEF MatrixInv, CountDrift, Counting
  <2>4. RoutesHaveLeases'
    BY <2>1 DEF MatrixInv, RoutesHaveLeases, HasLease
  <2>5. RoutesTyped' /\ ClientsTyped' /\ PhasesFit'
    BY <2>1 DEF MatrixInv, RoutesTyped, ClientsTyped, PhasesFit
  <2> QED
    BY <2>2, <2>3, <2>4, <2>5 DEF MatrixInv
<1>2. CASE MatrixNext
  BY <1>2, AskBatchKeeps, SetRouteKeeps, AcquireFailsKeeps, CountRouteKeeps, RollBackKeeps,
     DropLeaseKeeps, DisconnectAllKeeps DEF MatrixNext, Routing
<1> QED
  BY <1>1, <1>2

LEMMA MatrixIsSound == MatrixInv => MatrixSound
<1> SUFFICES ASSUME MatrixInv PROVE MatrixTypeOK
  BY DEF MatrixInv, MatrixSound
<1>1. ToSet(<<routes>>) = {routes}
  <2>1. DOMAIN <<routes>> = {1} /\ <<routes>>[1] = routes
    OBVIOUS
  <2> QED
    BY <2>1 DEF ToSet
<1>2. routes \in UNION {[S -> Destinations] : S \in SUBSET Sources}
  BY DEF MatrixInv, RoutesTyped
<1>3. asked \in 0..MaxBatches /\ activeCount \in Int /\ replaced \in Nat
  BY MatrixBoundsAssumption DEF MatrixInv, CountsTyped
<1>4. ToSet(<<routes>>) \subseteq UNION {[S -> {e[2] : e \in Entries}] :
                                          S \in SUBSET {Source(e) : e \in Entries}}
  BY <1>1, <1>2 DEF Sources, Destinations
<1> QED
  BY <1>3, <1>4 DEF MatrixInv, ClientsTyped, PhasesFit, MatrixTypeOK

\* However a cell is started, stopped and restarted, and however clients route, count
\* and let go: every step that was submitted is answered once and in order, a thread that
\* was told to stop takes at most one more, and the routes of the table, the leases on
\* them and the count of routes agree (CellWorker.cpp:49-139, MatrixManager.cpp:12-120).
THEOREM CellsAreSound == TestCellSpec => []CellsSound
<1>1. CellInv /\ [CellNext]_cellVars => CellInv'
  BY CellStep
<1>2. MatrixInv /\ [MatrixNext]_matrixVars => MatrixInv'
  BY MatrixStep
<1>3. CellInv /\ MatrixInv => CellsSound
  BY CellIsSound, MatrixIsSound DEF CellsSound
<1> QED
  BY <1>1, <1>2, <1>3, CellInitially, MatrixInitially, PTL DEF TestCellSpec, CellSpec, MatrixSpec

-------------------------------------------------------------------------------
(***************************************************************************)
(* ResultStore.  What is collected for a run that no two threads raced in  *)
(* is, with the rows of the threads that are just appending, all that was  *)
(* told; a save copies it into the image of its transaction; and of a run  *)
(* that ended nothing more is told, so that what was stored stays whole.   *)
(***************************************************************************)
ResTyped ==
  /\ resRun \in Nat /\ resRun <= MaxResRuns
  /\ resPhase \in {"idle", "steps", "group", "saving", "compensating"}
  /\ resDone \in [ResRuns -> Seq(RowType)]
  /\ resEnd \in [ResRuns -> {"none", "pass", "fail"}]
  /\ collecting \in BOOLEAN /\ collected \in Seq(RowType)
  /\ member \in [Members -> [at : {"none", "runs", "appends", "done"},
                             row : RowType \cup {<< >>}, read : Seq(RowType)]]
  /\ disk \in Database /\ image \in Database \cup {NoImage}
  /\ saved \in Int /\ saved >= -1 /\ persisted \subseteq ResRuns
  /\ reading \in Nat /\ reading <= MaxResRuns

Going == {"steps", "group"}
Appending == {k \in Members : member[k].at = "appends"}
Running == (IF member[1].at = "runs" THEN 1 ELSE 0) + (IF member[2].at = "runs" THEN 1 ELSE 0)

\* A run is collected while it goes on; its steps have their numbers.
RunsInv ==
  /\ resPhase # "idle" => resRun >= 1
  /\ resPhase \in Going => collecting /\ resEnd[resRun] = "none"
  /\ resPhase \notin Going => ~collecting
  /\ resPhase \in {"saving", "compensating"} => resEnd[resRun] # "none"
  /\ resPhase \in Going \cup {"saving"} => resRun \notin disk.results
  /\ resPhase # "group" => \A k \in Members : member[k].at = "none"
  /\ resPhase = "group" => Len(resDone[resRun]) + Running <= MaxResSteps
  /\ \A r \in ResRuns : r > resRun => resDone[r] = << >> /\ resEnd[r] = "none"
  /\ \A r \in ResRuns : Len(resDone[r]) <= MaxResSteps
  /\ \A r \in ResRuns : \A k \in 1..Len(resDone[r]) : resDone[r][k].step = k

Ordered(rows) == \A j, k \in 1..Len(rows) : j < k => rows[j].step < rows[k].step

CollectedInv ==
  resPhase \in Going \cup {"saving"} =>
    /\ ToSet(collected) \subseteq Reported(resRun) /\ Len(collected) <= Len(resDone[resRun])
    /\ resRun \notin racedRuns =>
         /\ Ordered(collected)
         /\ Reported(resRun) = ToSet(collected) \cup {member[k].row : k \in Appending}
    /\ \A k \in Appending :
         /\ member[k].row \in Reported(resRun) /\ ToSet(member[k].read) \subseteq Reported(resRun)
         /\ Len(member[k].read) + 1 <= Len(resDone[resRun])
         /\ resRun \notin racedRuns =>
              /\ Len(member[k].read) <= Len(collected)
              /\ member[k].read = collected =>
                   \A j \in 1..Len(collected) : collected[j].step < member[k].row.step

SaveInv ==
  /\ saved = -1 <=> image = NoImage
  /\ saved # -1 =>
       /\ resPhase = "saving" /\ saved <= Len(collected)
       /\ image.results = disk.results \cup {resRun}
       /\ \A r \in ResRuns \ {resRun} : image.steps[r] = disk.steps[r]
       /\ Len(image.steps[resRun]) = saved
       /\ \A k \in 1..saved : image.steps[resRun][k] = collected[k]

Good(rows, r) == r \notin racedRuns => Whole(rows, r)

DiskInv ==
  /\ \A r \in disk.results :
       /\ resEnd[r] # "none" /\ Good(disk.steps[r], r)
       /\ ToSet(disk.steps[r]) \subseteq Reported(r)
  /\ \A r \in ResRuns : r \notin disk.results => disk.steps[r] = << >>
  /\ persisted \subseteq disk.results \cup purged

ReadInv ==
  /\ reading # 0 => resEnd[reading] # "none" /\ reading \in disk.results \cup purged
  /\ found # << >> =>
       /\ found[1] \in ResRuns /\ resEnd[found[1]] # "none"
       /\ Good(found[2], found[1]) \/ (found[2] = << >> /\ found[1] \in purged)

ResInv == ResTyped /\ RunsInv /\ CollectedInv /\ SaveInv /\ DiskInv /\ ReadInv

LEMMA ResInitially == ResInit => ResInv
<1> SUFFICES ASSUME ResInit PROVE ResInv
  OBVIOUS
<1> USE ResultBoundsAssumption
<1>1. << >> \in Seq(RowType) /\ Len(<< >>) = 0 /\ ToSet(<< >>) = {}
  BY DEF ToSet
<1>2. [results |-> {}, steps |-> [r \in ResRuns |-> << >>]] \in Database
  BY <1>1 DEF Database
<1>3. NoMember \in [at : {"none", "runs", "appends", "done"},
                    row : RowType \cup {<< >>}, read : Seq(RowType)]
  BY <1>1 DEF NoMember
<1>4. ResTyped
  <2>1. /\ resRun = 0 /\ resPhase = "idle" /\ resDone \in [ResRuns -> Seq(RowType)]
        /\ resEnd \in [ResRuns -> {"none", "pass", "fail"}] /\ collected \in Seq(RowType)
        /\ disk \in Database /\ image = NoImage /\ saved = -1 /\ persisted = {} /\ reading = 0
    BY <1>1, <1>2 DEF ResInit
  <2>2. member \in [Members -> [at : {"none", "runs", "appends", "done"},
                                row : RowType \cup {<< >>}, read : Seq(RowType)]]
    BY <1>3 DEF ResInit
  <2>3. collecting \in BOOLEAN
    BY Zenon DEF ResInit
  <2> QED
    BY <2>1, <2>2, <2>3 DEF ResTyped
<1>5. RunsInv
  BY <1>1 DEF ResInit, RunsInv, Going, Members, NoMember, ResRuns
<1>6. CollectedInv
  BY DEF ResInit, CollectedInv, Going
<1>7. SaveInv
  BY DEF ResInit, SaveInv
<1>8. DiskInv
  BY DEF ResInit, DiskInv
<1>9. ReadInv
  BY DEF ResInit, ReadInv
<1> QED
  BY <1>4, <1>5, <1>6, <1>7, <1>8, <1>9 DEF ResInv

LEMMA RunKnown ==
  ASSUME ResInv, resPhase # "idle"
  PROVE  /\ resRun \in ResRuns /\ resRun \in Nat /\ resDone[resRun] \in Seq(RowType)
         /\ Len(resDone[resRun]) \in Nat /\ collected \in Seq(RowType) /\ Len(collected) \in Nat
<1>1. resRun \in ResRuns /\ resRun \in Nat
  BY ResultBoundsAssumption DEF ResInv, ResTyped, RunsInv, ResRuns
<1>2. resDone[resRun] \in Seq(RowType) /\ collected \in Seq(RowType)
  BY <1>1 DEF ResInv, ResTyped
<1> QED
  BY <1>1, <1>2

\* What was told has a number by now.
LEMMA NumbersSoFar ==
  ASSUME ResInv, resPhase # "idle", NEW rows \in Seq(RowType), ToSet(rows) \subseteq Reported(resRun)
  PROVE  \A j \in 1..Len(rows) : rows[j].step < Len(resDone[resRun]) + 1
<1> DEFINE n == Len(resDone[resRun])
<1>1. n \in Nat /\ DOMAIN resDone[resRun] = 1..n /\ resRun \in ResRuns
  BY RunKnown
<1> SUFFICES ASSUME NEW j \in 1..Len(rows) PROVE rows[j].step < n + 1
  OBVIOUS
<1>2. rows[j] \in ToSet(rows)
  BY DEF ToSet
<1>3. rows[j] \in ToSet(resDone[resRun])
  BY <1>2 DEF Reported
<1>4. PICK k \in 1..n : rows[j] = resDone[resRun][k]
  BY <1>1, <1>3 DEF ToSet
<1>5. resDone[resRun][k].step = k
  BY <1>1, <1>4 DEF ResInv, RunsInv
<1> QED
  BY <1>1, <1>4, <1>5

LEMMA OrderedAppend ==
  ASSUME NEW rows \in Seq(RowType), NEW row \in RowType, Ordered(rows),
         \A j \in 1..Len(rows) : rows[j].step < row.step
  PROVE  Ordered(Append(rows, row))
<1>1. /\ Len(rows) \in Nat /\ Len(Append(rows, row)) = Len(rows) + 1
      /\ \A k \in 1..Len(rows) : Append(rows, row)[k] = rows[k]
      /\ Append(rows, row)[Len(rows) + 1] = row
  BY AppendProperties
<1> DEFINE more == Append(rows, row)
<1> HIDE DEF more
<1>2. ASSUME NEW j \in 1..Len(more), NEW k \in 1..Len(more), j < k
      PROVE  more[j].step < more[k].step
  <2>1. j \in 1..Len(rows)
    BY <1>1, <1>2 DEF more
  <2>2. CASE k \in 1..Len(rows)
    BY <2>1, <2>2, <1>1, <1>2 DEF Ordered, more
  <2>3. CASE k = Len(rows) + 1
    BY <2>1, <2>3, <1>1 DEF more
  <2> QED
    BY <2>2, <2>3, <1>1 DEF more
<1> QED
  BY <1>2 DEF Ordered, more

LEMMA RowTyped ==
  ASSUME ResInv, resPhase # "idle", NEW status \in Told \cup {"failed", "compensated"},
         Len(resDone[resRun]) + 1 <= MaxResSteps
  PROVE  /\ Row(status) \in RowType /\ Row(status).step = Len(resDone[resRun]) + 1
         /\ Row(status).status = status
<1>1. Len(resDone[resRun]) + 1 \in 1..MaxResSteps
  BY RunKnown, ResultBoundsAssumption
<1> DEFINE n == Len(resDone[resRun]) + 1
<1> HIDE DEF n
<1>2. [step |-> n, status |-> status] \in RowType
  BY <1>1 DEF RowType, n
<1> QED
  BY <1>2 DEF Row, n

\* A step happens: one more row, of its own number.
LEMMA StepHappens ==
  ASSUME ResInv, resPhase # "idle", NEW row \in RowType, Happens(row),
         row.step = Len(resDone[resRun]) + 1, Len(resDone[resRun]) + 1 <= MaxResSteps
  PROVE  /\ resDone' \in [ResRuns -> Seq(RowType)]
         /\ \A r \in ResRuns \ {resRun} : resDone'[r] = resDone[r] /\ Reported(r)' = Reported(r)
         /\ Len(resDone'[resRun]) = Len(resDone[resRun]) + 1
         /\ \A r \in ResRuns : Len(resDone'[r]) <= MaxResSteps
         /\ \A r \in ResRuns : \A k \in 1..Len(resDone'[r]) : resDone'[r][k].step = k
         /\ \A e : e \in {x \in ToSet(resDone'[resRun]) : x.status \in Told} <=>
                     e \in Reported(resRun) \/ (e = row /\ row.status \in Told)
<1>1. /\ resRun \in ResRuns /\ resDone[resRun] \in Seq(RowType) /\ resDone \in [ResRuns -> Seq(RowType)]
      /\ Len(resDone[resRun]) \in Nat
  BY RunKnown DEF ResInv, ResTyped
<1> DEFINE done == resDone[resRun]
           more == Append(done, row)
<1>2. resDone' = [resDone EXCEPT ![resRun] = more]
  BY DEF Happens
<1>3. /\ more \in Seq(RowType) /\ ToSet(more) = ToSet(done) \cup {row}
      /\ Len(more) = Len(done) + 1 /\ more[Len(done) + 1] = row
      /\ \A k \in 1..Len(done) : more[k] = done[k]
  BY <1>1, AppendedSet, AppendProperties
<1>4. \A r \in ResRuns : Len(resDone[r]) <= MaxResSteps /\ \A k \in 1..Len(resDone[r]) : resDone[r][k].step = k
  BY DEF ResInv, RunsInv
<1> HIDE DEF more
<1>5. /\ resDone' \in [ResRuns -> Seq(RowType)] /\ resDone'[resRun] = more
      /\ \A r \in ResRuns \ {resRun} : resDone'[r] = resDone[r]
  BY <1>1, <1>2, <1>3
<1>6. \A k \in 1..Len(more) : more[k].step = k
  <2> TAKE k \in 1..Len(more)
  <2>1. CASE k \in 1..Len(done)
    BY <2>1, <1>1, <1>3, <1>4
  <2>2. CASE k = Len(done) + 1
    BY <2>2, <1>3
  <2> QED
    BY <2>1, <2>2, <1>1, <1>3
<1>7. Len(more) <= MaxResSteps
  BY <1>1, <1>3
<1>8. \A r \in ResRuns : Len(resDone'[r]) <= MaxResSteps
  BY <1>4, <1>5, <1>7
<1>9. \A r \in ResRuns : \A k \in 1..Len(resDone'[r]) : resDone'[r][k].step = k
  BY <1>4, <1>5, <1>6
<1>10. \A e : e \in {x \in ToSet(resDone'[resRun]) : x.status \in Told} <=>
               e \in Reported(resRun) \/ (e = row /\ row.status \in Told)
  <2> HIDE DEF done
  <2> QED
    BY <1>3, <1>5 DEF Reported, done
<1>11. \A r \in ResRuns \ {resRun} : Reported(r)' = Reported(r)
  BY <1>5 DEF Reported
<1> QED
  BY <1>3, <1>5, <1>8, <1>9, <1>10, <1>11

\* Nothing is stored or read, and nothing more is told of a run that ended.
LEMMA StoredKeeps ==
  ASSUME ResInv, disk' = disk, reading' = reading, found' = found, purged' = purged,
         persisted' \subseteq persisted, racedRuns \subseteq racedRuns',
         \A r \in ResRuns : resEnd[r] # "none" => resEnd'[r] = resEnd[r] /\ Reported(r)' = Reported(r)
  PROVE  DiskInv' /\ ReadInv'
<1>1. disk \in Database /\ disk.results \subseteq ResRuns
  BY DEF ResInv, ResTyped, Database
<1>2. \A rows, r : r \in ResRuns /\ resEnd[r] # "none" /\ Good(rows, r) => Good(rows, r)'
  BY DEF Good, Whole
<1>3. DiskInv'
  <2>1. ASSUME NEW r \in disk.results
        PROVE  /\ resEnd'[r] # "none" /\ Good(disk.steps[r], r)'
               /\ (ToSet(disk.steps[r]) \subseteq Reported(r))'
    <3>1. r \in ResRuns /\ resEnd[r] # "none" /\ Good(disk.steps[r], r)
      BY <1>1 DEF ResInv, DiskInv
    <3>2. Good(disk.steps[r], r)'
      BY <3>1 DEF Good, Whole
    <3> QED
      BY <3>1, <3>2 DEF ResInv, DiskInv
  <2> QED
    BY <2>1 DEF ResInv, DiskInv
<1>4. ReadInv'
  <2>1. reading # 0 => reading \in ResRuns
    BY ResultBoundsAssumption DEF ResInv, ResTyped, ResRuns
  <2>2. found # << >> => /\ found[1] \in ResRuns /\ resEnd[found[1]] # "none"
                         /\ Good(found[2], found[1]) \/ (found[2] = << >> /\ found[1] \in purged)
    BY DEF ResInv, ReadInv
  <2>3. found # << >> => Good(found[2], found[1])' \/ (found[2] = << >> /\ found[1] \in purged)
    BY <2>2 DEF Good, Whole
  <2> QED
    BY <2>1, <2>2, <2>3 DEF ResInv, ReadInv
<1> QED
  BY <1>3, <1>4

LEMMA NotSaving ==
  ASSUME ResInv, resPhase # "saving"
  PROVE  /\ saved = -1 /\ image = NoImage
         /\ (image' = image /\ saved' = saved => SaveInv')
BY DEF ResInv, SaveInv

NoneStored == UNCHANGED <<disk, image, saved, persisted, purged, reading, found>>

\* What keeps the types of a step that stores nothing.
LEMMA TypesKept ==
  ASSUME ResInv, NoneStored, resRun' = resRun, resPhase' \in Going \cup {"saving", "compensating", "idle"},
         resDone' \in [ResRuns -> Seq(RowType)],
         resEnd' = resEnd, collecting' = collecting, collected' \in Seq(RowType),
         member' \in [Members -> [at : {"none", "runs", "appends", "done"},
                                  row : RowType \cup {<< >>}, read : Seq(RowType)]]
  PROVE  ResTyped'
BY DEF ResInv, ResTyped, NoneStored, Going

LEMMA StartRunKeeps == ASSUME ResInv, StartRun PROVE ResInv'
<1>1. /\ resPhase = "idle" /\ resRun < MaxResRuns /\ resRun' = resRun + 1 /\ resPhase' = "steps"
      /\ collecting' = TRUE /\ collected' = << >> /\ resDone' = resDone /\ resEnd' = resEnd
      /\ member' = member /\ racedRuns' = racedRuns
      /\ NoneStored
  BY DEF StartRun, ResetCollector, storeVars, readerVars, NoneStored
<1>2. << >> \in Seq(RowType) /\ Len(<< >>) = 0 /\ ToSet(<< >>) = {}
  BY DEF ToSet
<1>3. resRun + 1 \in ResRuns /\ resRun \in Nat
  BY <1>1, ResultBoundsAssumption DEF ResInv, ResTyped, ResRuns
<1>4. ResTyped'
  <2>1. collecting' \in BOOLEAN
    BY <1>1, Zenon
  <2> QED
    BY <1>1, <1>2, <1>3, <2>1, ResultBoundsAssumption DEF ResInv, ResTyped, NoneStored
<1>5. /\ resDone[resRun + 1] = << >> /\ resEnd[resRun + 1] = "none" /\ resRun + 1 \notin disk.results
  <2>1. resDone[resRun + 1] = << >> /\ resEnd[resRun + 1] = "none"
    BY <1>3 DEF ResInv, RunsInv
  <2> QED
    BY <2>1 DEF ResInv, DiskInv
<1>6. \A k \in Members : member[k].at = "none"
  BY <1>1 DEF ResInv, RunsInv
<1>7. RunsInv'
  <2>1. \A r \in ResRuns : r > resRun + 1 => r > resRun
    BY <1>3 DEF ResRuns
  <2> QED
    BY <1>1, <1>3, <1>5, <1>6, <2>1 DEF ResInv, RunsInv, Going, NoneStored
<1>8. CollectedInv'
  <2>1. Appending' = {}
    BY <1>1, <1>6 DEF Appending
  <2>2. Reported(resRun)' = {}
    BY <1>1, <1>2, <1>5 DEF Reported
  <2> QED
    BY <1>1, <1>2, <1>5, <2>1, <2>2 DEF CollectedInv, Ordered
<1>9. SaveInv'
  BY <1>1, NotSaving DEF NoneStored
<1>10. \A r : Reported(r)' = Reported(r)
  BY <1>1 DEF Reported
<1>11. DiskInv' /\ ReadInv'
  BY <1>1, <1>10, StoredKeeps DEF NoneStored
<1> QED
  BY <1>4, <1>7, <1>8, <1>9, <1>11 DEF ResInv

\* A step that runs on its own, told or not.
LEMMA StepKeeps ==
  ASSUME ResInv, RunStep \/ FailedStepHandled
  PROVE  ResInv'
<1>1. PICK status \in Told \cup {"failed"} :
        /\ resPhase = "steps" /\ HasRoom(1) /\ Happens(Row(status))
        /\ collected' = IF status \in Told THEN Append(collected, Row(status)) ELSE collected
  <2>1. ResInv /\ resPhase = "steps" => collecting
    BY DEF ResInv, RunsInv, Going
  <2> QED
    BY <2>1 DEF RunStep, FailedStepHandled, Collect, collectorVars, Told
<1>2. /\ resRun' = resRun /\ resPhase' = resPhase /\ resEnd' = resEnd /\ collecting' = collecting
      /\ member' = member /\ racedRuns' = racedRuns /\ NoneStored
  BY DEF RunStep, FailedStepHandled, collectorVars, storeVars, readerVars, NoneStored
<1> DEFINE row == Row(status)
           n == Len(resDone[resRun])
<1>3. /\ resRun \in ResRuns /\ n \in Nat /\ collected \in Seq(RowType) /\ Len(collected) \in Nat
      /\ n + 1 <= MaxResSteps
  BY <1>1, RunKnown DEF HasRoom
<1>4. row \in RowType /\ row.step = n + 1 /\ row.status = status
  BY <1>1, <1>3, RowTyped
<1> HIDE DEF row, n
<1>5. /\ resDone' \in [ResRuns -> Seq(RowType)]
      /\ \A r \in ResRuns \ {resRun} : resDone'[r] = resDone[r] /\ Reported(r)' = Reported(r)
      /\ Len(resDone'[resRun]) = n + 1
      /\ \A r \in ResRuns : Len(resDone'[r]) <= MaxResSteps
      /\ \A r \in ResRuns : \A k \in 1..Len(resDone'[r]) : resDone'[r][k].step = k
      /\ \A e : e \in {x \in ToSet(resDone'[resRun]) : x.status \in Told} <=>
                  e \in Reported(resRun) \/ (e = row /\ row.status \in Told)
  BY <1>1, <1>3, <1>4, StepHappens DEF row, n
<1>6. \A e : e \in Reported(resRun)' <=> e \in Reported(resRun) \/ (e = row /\ status \in Told)
  BY <1>2, <1>4, <1>5 DEF Reported
<1>7. /\ Append(collected, row) \in Seq(RowType) /\ ToSet(Append(collected, row)) = ToSet(collected) \cup {row}
      /\ Len(Append(collected, row)) = Len(collected) + 1
      /\ \A k \in 1..Len(collected) : Append(collected, row)[k] = collected[k]
      /\ Append(collected, row)[Len(collected) + 1] = row
  BY <1>3, <1>4, AppendedSet, AppendProperties
<1>8. collected' = IF status \in Told THEN Append(collected, row) ELSE collected
  BY <1>1 DEF row
<1>9. ResTyped'
  <2>1. collected' \in Seq(RowType)
    BY <1>3, <1>7, <1>8
  <2>2. member \in [Members -> [at : {"none", "runs", "appends", "done"},
                                row : RowType \cup {<< >>}, read : Seq(RowType)]]
    BY DEF ResInv, ResTyped
  <2> QED
    BY <1>1, <1>2, <1>5, <2>1, <2>2, TypesKept DEF Going
<1>10. RunsInv'
  <2>1. \A r \in ResRuns : r > resRun => r # resRun
    BY <1>3 DEF ResRuns
  <2>2. resPhase = "steps" /\ resPhase' = "steps"
    BY <1>1, <1>2
  <2> QED
    BY <1>2, <1>5, <2>1, <2>2 DEF ResInv, RunsInv, Going, NoneStored
<1>11. Appending = {} /\ Appending' = {}
  <2>1. \A k \in Members : member[k].at = "none"
    BY <1>1 DEF ResInv, RunsInv
  <2> QED
    BY <2>1, <1>2 DEF Appending
<1>12. /\ ToSet(collected) \subseteq Reported(resRun) /\ Len(collected) <= n
       /\ resRun \notin racedRuns => Ordered(collected) /\ Reported(resRun) = ToSet(collected)
  BY <1>1, <1>11 DEF ResInv, CollectedInv, Going, n
<1>13. CollectedInv'
  <2>1. CASE status \in Told
    <3>1. collected' = Append(collected, row)
      BY <2>1, <1>8
    <3>2. ToSet(collected)' \subseteq Reported(resRun)' /\ Len(collected') <= Len(resDone'[resRun])
      BY <3>1, <1>3, <1>5, <1>6, <1>7, <1>12, <2>1
    <3>3. resRun \notin racedRuns => Reported(resRun)' = ToSet(collected)'
      BY <3>1, <1>6, <1>7, <1>12, <2>1
    <3>4. ASSUME Ordered(collected) PROVE Ordered(collected')
      <4>1. \A j \in 1..Len(collected) : collected[j].step < row.step
        BY <1>1, <1>3, <1>4, <1>12, NumbersSoFar DEF n
      <4> QED
        BY <4>1, <3>1, <3>4, <1>3, <1>4, OrderedAppend
    <3>5. resRun \notin racedRuns => Ordered(collected')
      BY <3>4, <1>12
    <3> QED
      BY <3>2, <3>3, <3>5, <1>2, <1>11 DEF CollectedInv
  <2>2. CASE status \notin Told
    <3>1. collected' = collected /\ Reported(resRun)' = Reported(resRun)
      BY <2>2, <1>6, <1>8
    <3>2. Len(collected') <= Len(resDone'[resRun])
      BY <3>1, <1>3, <1>5, <1>12
    <3> QED
      BY <3>1, <3>2, <1>2, <1>11, <1>12 DEF CollectedInv, Ordered
  <2> QED
    BY <2>1, <2>2
<1>14. SaveInv'
  BY <1>1, <1>2, NotSaving DEF NoneStored
<1>15. DiskInv' /\ ReadInv'
  <2>1. resEnd[resRun] = "none"
    BY <1>1 DEF ResInv, RunsInv, Going
  <2>2. \A r \in ResRuns : resEnd[r] # "none" => Reported(r)' = Reported(r)
    BY <2>1, <1>5
  <2> QED
    BY <1>2, <2>2, StoredKeeps DEF NoneStored
<1> QED
  BY <1>9, <1>10, <1>13, <1>14, <1>15 DEF ResInv

\* The end of a run: what is collected is all of it, and nothing of it is stored yet.
LEMMA FinalizeKeeps ==
  ASSUME ResInv, FinishRun \/ FailRun
  PROVE  ResInv'
<1>1. PICK outcome \in {"pass", "fail"} : resPhase = "steps" /\ Finalize(outcome)
  BY DEF FinishRun, FailRun
<1>2. /\ resRun' = resRun /\ resPhase' = "saving" /\ collecting' = FALSE /\ collected' = collected
      /\ resEnd' = [resEnd EXCEPT ![resRun] = outcome]
      /\ member' = member /\ racedRuns' = racedRuns /\ saved' = -1 /\ disk' = disk /\ image' = image
      /\ persisted' = persisted /\ purged' = purged /\ reading' = reading /\ found' = found
  BY <1>1 DEF Finalize, readerVars
<1>3. /\ resRun \in ResRuns /\ resRun \in Nat /\ Len(resDone[resRun]) \in Nat /\ collected \in Seq(RowType)
      /\ Len(collected) \in Nat
  BY <1>1, RunKnown
<1>4. resEnd[resRun] = "none" /\ \A k \in Members : member[k].at = "none"
  BY <1>1 DEF ResInv, RunsInv, Going
<1>5. /\ resEnd' \in [ResRuns -> {"none", "pass", "fail"}] /\ resEnd'[resRun] = outcome
      /\ \A r \in ResRuns \ {resRun} : resEnd'[r] = resEnd[r]
  BY <1>2, <1>3 DEF ResInv, ResTyped
<1>6. /\ resDone' \in [ResRuns -> Seq(RowType)]
      /\ \A r \in ResRuns \ {resRun} : resDone'[r] = resDone[r]
      /\ \A r \in ResRuns : Reported(r)' = Reported(r)
      /\ Len(resDone'[resRun]) \in Nat /\ Len(resDone[resRun]) <= Len(resDone'[resRun])
      /\ \A r \in ResRuns : Len(resDone'[r]) <= MaxResSteps
      /\ \A r \in ResRuns : \A k \in 1..Len(resDone'[r]) : resDone'[r][k].step = k
  <2>1. CASE UNCHANGED resDone
    <3>1. /\ resDone \in [ResRuns -> Seq(RowType)]
          /\ \A r \in ResRuns : Len(resDone[r]) <= MaxResSteps
          /\ \A r \in ResRuns : \A k \in 1..Len(resDone[r]) : resDone[r][k].step = k
      BY DEF ResInv, ResTyped, RunsInv
    <3>2. \A r \in ResRuns : Reported(r)' = Reported(r)
      BY <2>1 DEF Reported
    <3> QED
      BY <2>1, <3>1, <3>2, <1>3
  <2>2. CASE HasRoom(1) /\ Happens(Row("failed"))
    <3>1. Len(resDone[resRun]) + 1 <= MaxResSteps
      BY <2>2 DEF HasRoom
    <3>2. Row("failed") \in RowType /\ Row("failed").step = Len(resDone[resRun]) + 1 /\ Row("failed").status = "failed"
      BY <1>1, <3>1, RowTyped
    <3>3. /\ resDone' \in [ResRuns -> Seq(RowType)]
          /\ \A r \in ResRuns \ {resRun} : resDone'[r] = resDone[r] /\ Reported(r)' = Reported(r)
          /\ Len(resDone'[resRun]) = Len(resDone[resRun]) + 1
          /\ \A r \in ResRuns : Len(resDone'[r]) <= MaxResSteps
          /\ \A r \in ResRuns : \A k \in 1..Len(resDone'[r]) : resDone'[r][k].step = k
          /\ \A e : e \in {x \in ToSet(resDone'[resRun]) : x.status \in Told} <=>
                      e \in Reported(resRun) \/ (e = Row("failed") /\ Row("failed").status \in Told)
      BY <1>1, <2>2, <3>1, <3>2, StepHappens
    <3>4. Reported(resRun)' = Reported(resRun)
      <4>1. Row("failed").status \notin Told
        BY <3>2 DEF Told
      <4>2. Reported(resRun)' = {x \in ToSet(resDone'[resRun]) : x.status \in Told}
        BY <1>2 DEF Reported
      <4>3. \A e : e \in Reported(resRun)' <=> e \in Reported(resRun)
        BY <3>3, <4>1, <4>2
      <4>4. Reported(resRun)' \subseteq Reported(resRun) /\ Reported(resRun) \subseteq Reported(resRun)'
        BY <4>3
      <4> QED
        BY <4>4, Zenon
    <3>5. \A r \in ResRuns : r = resRun => Reported(r)' = Reported(r)
      BY <3>4, <1>2 DEF Reported
    <3>6. \A r \in ResRuns : Reported(r)' = Reported(r)
      BY <3>3, <3>5
    <3>7. Len(resDone'[resRun]) \in Nat /\ Len(resDone[resRun]) <= Len(resDone'[resRun])
      BY <3>3, <1>3
    <3> HIDE DEF Reported
    <3> QED
      BY <3>3, <3>6, <3>7
  <2> QED
    BY <2>1, <2>2, <1>1 DEF FinishRun, FailRun
<1>7. ResTyped'
  <2>1. collecting' \in BOOLEAN
    BY <1>2, Zenon
  <2> QED
    BY <1>2, <1>5, <1>6, <2>1 DEF ResInv, ResTyped
<1>8. RunsInv'
  <2>1. \A r \in ResRuns : r > resRun => r # resRun
    BY <1>3 DEF ResRuns
  <2>2. resRun \notin disk.results
    BY <1>1 DEF ResInv, RunsInv, Going
  <2>3. \A r \in ResRuns : r > resRun => resDone'[r] = << >> /\ resEnd'[r] = "none"
    BY <1>5, <1>6, <2>1 DEF ResInv, RunsInv
  <2>4. resRun >= 1
    BY <1>1 DEF ResInv, RunsInv
  <2>5. resEnd'[resRun] # "none"
    BY <1>5
  <2>6. ~collecting'
    BY <1>2, Zenon
  <2> QED
    BY <1>2, <1>4, <1>6, <2>2, <2>3, <2>4, <2>5, <2>6 DEF RunsInv, Going
<1>9. Appending = {} /\ Appending' = {}
  BY <1>2, <1>4 DEF Appending
<1>10. CollectedInv'
  <2>1. /\ ToSet(collected) \subseteq Reported(resRun) /\ Len(collected) <= Len(resDone[resRun])
        /\ resRun \notin racedRuns => Ordered(collected) /\ Reported(resRun) = ToSet(collected)
    BY <1>1, <1>9 DEF ResInv, CollectedInv, Going
  <2>2. Len(collected') <= Len(resDone'[resRun])
    BY <2>1, <1>2, <1>3, <1>6
  <2>3. Reported(resRun)' = Reported(resRun)
    BY <1>2, <1>3, <1>6 DEF Reported
  <2> QED
    BY <1>2, <1>9, <2>1, <2>2, <2>3 DEF CollectedInv, Ordered
<1>11. SaveInv'
  BY <1>1, <1>2, NotSaving
<1>12. DiskInv' /\ ReadInv'
  <2>1. \A r \in ResRuns : resEnd[r] # "none" => resEnd'[r] = resEnd[r] /\ Reported(r)' = Reported(r)
    BY <1>4, <1>5, <1>6
  <2> QED
    BY <1>2, <2>1, StoredKeeps
<1> QED
  BY <1>7, <1>8, <1>10, <1>11, <1>12 DEF ResInv

\* What a step of the engine that tells and stores nothing keeps.
LEMMA NothingToldKeeps ==
  ASSUME ResInv, NoneStored, resRun' = resRun, resDone' = resDone, resEnd' = resEnd, racedRuns' = racedRuns
  PROVE  DiskInv' /\ ReadInv' /\ \A r : Reported(r)' = Reported(r)
<1>1. \A r : Reported(r)' = Reported(r)
  BY DEF Reported
<1> QED
  BY <1>1, StoredKeeps DEF NoneStored

LEMMA StartGroupKeeps == ASSUME ResInv, StartGroup PROVE ResInv'
<1>1. /\ resPhase = "steps" /\ resPhase' = "group" /\ resRun' = resRun /\ resDone' = resDone /\ resEnd' = resEnd
      /\ collecting' = collecting /\ collected' = collected /\ racedRuns' = racedRuns /\ NoneStored
      /\ member' = [k \in Members |-> [NoMember EXCEPT !.at = "runs"]]
      /\ Len(resDone[resRun]) + 2 <= MaxResSteps
  BY DEF StartGroup, storeVars, readerVars, NoneStored, HasRoom
<1>2. [NoMember EXCEPT !.at = "runs"] = [at |-> "runs", row |-> << >>, read |-> << >>]
  BY DEF NoMember
<1>3. << >> \in Seq(RowType)
  OBVIOUS
<1>4. \A k \in Members : member'[k].at = "runs" /\ member[k].at = "none"
  BY <1>1, <1>2 DEF ResInv, RunsInv
<1>5. ResTyped'
  <2>1. member' \in [Members -> [at : {"none", "runs", "appends", "done"},
                                 row : RowType \cup {<< >>}, read : Seq(RowType)]]
    BY <1>1, <1>2, <1>3
  <2>2. resDone \in [ResRuns -> Seq(RowType)] /\ collected \in Seq(RowType)
    BY DEF ResInv, ResTyped
  <2> QED
    BY <1>1, <2>1, <2>2, TypesKept DEF Going
<1>6. RunsInv'
  <2>1. Running' = 2
    BY <1>4 DEF Running, Members
  <2> QED
    BY <1>1, <2>1 DEF ResInv, RunsInv, Going, NoneStored
<1>7. Appending = {} /\ Appending' = {}
  BY <1>4 DEF Appending
<1>8. CollectedInv'
  BY <1>1, <1>7, NothingToldKeeps DEF ResInv, CollectedInv, Going, Ordered
<1>9. SaveInv'
  BY <1>1, NotSaving DEF NoneStored
<1> QED
  BY <1>1, <1>5, <1>6, <1>8, <1>9, NothingToldKeeps DEF ResInv

LEMMA EndGroupKeeps == ASSUME ResInv, EndGroup PROVE ResInv'
<1>1. /\ resPhase = "group" /\ resPhase' = "steps" /\ resRun' = resRun /\ resDone' = resDone /\ resEnd' = resEnd
      /\ collecting' = collecting /\ collected' = collected /\ racedRuns' = racedRuns /\ NoneStored
      /\ member' = [k \in Members |-> NoMember] /\ \A k \in Members : member[k].at = "done"
  BY DEF EndGroup, storeVars, readerVars, NoneStored
<1>2. << >> \in Seq(RowType)
  OBVIOUS
<1>3. \A k \in Members : member'[k].at = "none"
  BY <1>1 DEF NoMember
<1>4. ResTyped'
  <2>1. member' \in [Members -> [at : {"none", "runs", "appends", "done"},
                                 row : RowType \cup {<< >>}, read : Seq(RowType)]]
    BY <1>1, <1>2 DEF NoMember
  <2>2. resDone \in [ResRuns -> Seq(RowType)] /\ collected \in Seq(RowType)
    BY DEF ResInv, ResTyped
  <2> QED
    BY <1>1, <2>1, <2>2, TypesKept DEF Going
<1>5. RunsInv'
  BY <1>1, <1>3 DEF ResInv, RunsInv, Going, NoneStored
<1>6. Appending = {} /\ Appending' = {}
  BY <1>1, <1>3 DEF Appending
<1>7. CollectedInv'
  BY <1>1, <1>6, NothingToldKeeps DEF ResInv, CollectedInv, Going, Ordered
<1>8. SaveInv'
  BY <1>1, NotSaving DEF NoneStored
<1> QED
  BY <1>1, <1>4, <1>5, <1>7, <1>8, NothingToldKeeps DEF ResInv

LEMMA EndRunKeeps == ASSUME ResInv, EndRun PROVE ResInv'
<1>1. /\ resPhase = "compensating" /\ resPhase' = "idle" /\ resRun' = resRun /\ resDone' = resDone
      /\ resEnd' = resEnd /\ collecting' = collecting /\ collected' = collected /\ member' = member
      /\ racedRuns' = racedRuns /\ NoneStored
  BY DEF EndRun, collectorVars, storeVars, readerVars, NoneStored
<1>2. ResTyped'
  BY <1>1 DEF ResInv, ResTyped, NoneStored
<1>3. RunsInv'
  BY <1>1 DEF ResInv, RunsInv, Going, NoneStored
<1>4. CollectedInv'
  BY <1>1 DEF CollectedInv, Going
<1>5. SaveInv'
  BY <1>1, NotSaving DEF NoneStored
<1> QED
  BY <1>1, <1>2, <1>3, <1>4, <1>5, NothingToldKeeps DEF ResInv

\* Compensations are past the end: the collector is off.
LEMMA CompensateKeeps == ASSUME ResInv, Compensate PROVE ResInv'
<1>1. resPhase = "compensating" /\ HasRoom(1) /\ Happens(Row("compensated"))
  BY DEF Compensate
<1>2. /\ resPhase' = resPhase /\ resRun' = resRun /\ resEnd' = resEnd /\ collecting' = collecting
      /\ member' = member /\ racedRuns' = racedRuns /\ NoneStored
  BY DEF Compensate, storeVars, readerVars, NoneStored
<1>3. collected' = collected
  BY <1>1 DEF Compensate, Collect, ResInv, RunsInv, Going
<1>4. resRun \in ResRuns /\ resRun \in Nat /\ Len(resDone[resRun]) \in Nat /\ Len(resDone[resRun]) + 1 <= MaxResSteps
  BY <1>1, RunKnown DEF HasRoom
<1>5. Row("compensated") \in RowType /\ Row("compensated").step = Len(resDone[resRun]) + 1
      /\ Row("compensated").status = "compensated"
  BY <1>1, <1>4, RowTyped
<1>6. /\ resDone' \in [ResRuns -> Seq(RowType)]
      /\ \A r \in ResRuns \ {resRun} : resDone'[r] = resDone[r] /\ Reported(r)' = Reported(r)
      /\ \A r \in ResRuns : Len(resDone'[r]) <= MaxResSteps
      /\ \A r \in ResRuns : \A k \in 1..Len(resDone'[r]) : resDone'[r][k].step = k
      /\ \A e : e \in {x \in ToSet(resDone'[resRun]) : x.status \in Told} <=>
                  e \in Reported(resRun) \/ (e = Row("compensated") /\ Row("compensated").status \in Told)
  BY <1>1, <1>4, <1>5, StepHappens
<1>7. \A r \in ResRuns : Reported(r)' = Reported(r)
  <2>1. Reported(resRun)' = Reported(resRun)
    <3>1. Row("compensated").status \notin Told
      BY <1>5 DEF Told
    <3>2. Reported(resRun)' = {x \in ToSet(resDone'[resRun]) : x.status \in Told}
      BY <1>2 DEF Reported
    <3>3. \A e : e \in Reported(resRun)' <=> e \in Reported(resRun)
      BY <1>6, <3>1, <3>2
    <3>4. Reported(resRun)' \subseteq Reported(resRun) /\ Reported(resRun) \subseteq Reported(resRun)'
      BY <3>3
    <3> QED
      BY <3>4, Zenon
  <2>2. \A r \in ResRuns : r = resRun => Reported(r)' = Reported(r)
    BY <2>1, <1>2 DEF Reported
  <2> QED
    BY <2>2, <1>6
<1>8. ResTyped'
  BY <1>1, <1>2, <1>3, <1>6 DEF ResInv, ResTyped, NoneStored
<1>9. RunsInv'
  <2>1. \A r \in ResRuns : r > resRun => r # resRun
    BY <1>4 DEF ResRuns
  <2> QED
    BY <1>1, <1>2, <1>6, <2>1 DEF ResInv, RunsInv, Going, NoneStored
<1>10. CollectedInv'
  BY <1>1, <1>2 DEF CollectedInv, Going
<1>11. SaveInv'
  BY <1>1, <1>2, NotSaving DEF NoneStored
<1>12. DiskInv' /\ ReadInv'
  BY <1>2, <1>7, StoredKeeps DEF NoneStored
<1> QED
  BY <1>8, <1>9, <1>10, <1>11, <1>12 DEF ResInv

LEMMA MemberKnown ==
  ASSUME ResInv, NEW k \in Members, member[k].at \in {"runs", "appends"}
  PROVE  /\ resPhase = "group" /\ member[k] \in [at : {"none", "runs", "appends", "done"},
                                                 row : RowType \cup {<< >>}, read : Seq(RowType)]
         /\ resEnd[resRun] = "none" /\ resRun \in ResRuns
<1>1. resPhase = "group"
  BY DEF ResInv, RunsInv
<1> QED
  BY <1>1, RunKnown DEF ResInv, ResTyped, RunsInv, Going

\* A step of a group ends; what is collected so far has lower numbers than its row.
LEMMA MemberEndsKeeps ==
  ASSUME ResInv, NEW k \in Members, MemberEnds(k)
  PROVE  ResInv'
<1>1. PICK status \in Told \cup {"failed"} :
        /\ member[k].at = "runs" /\ Happens(Row(status))
        /\ member' = [member EXCEPT ![k] =
             [at |-> IF status = "failed" THEN "done" ELSE "appends", row |-> Row(status), read |-> collected]]
  BY DEF MemberEnds
<1>2. /\ resRun' = resRun /\ resPhase' = resPhase /\ resEnd' = resEnd /\ collecting' = collecting
      /\ collected' = collected /\ racedRuns' = racedRuns /\ NoneStored
  BY DEF MemberEnds, storeVars, readerVars, NoneStored
<1>3. resPhase = "group" /\ resEnd[resRun] = "none" /\ resRun \in ResRuns
  BY <1>1, MemberKnown
<1> DEFINE row == Row(status)
           n == Len(resDone[resRun])
           at == IF status = "failed" THEN "done" ELSE "appends"
<1>4. n \in Nat /\ collected \in Seq(RowType) /\ Len(collected) \in Nat /\ resRun \in Nat
  BY <1>3, RunKnown
<1>5. n + 1 <= MaxResSteps
  <2>1. Running >= 1 /\ Running \in Nat
    BY <1>1 DEF Running, Members
  <2>2. n + Running <= MaxResSteps
    BY <1>3 DEF ResInv, RunsInv
  <2> HIDE DEF n
  <2> QED
    BY <2>1, <2>2, <1>4, ResultBoundsAssumption
<1>6. row \in RowType /\ row.step = n + 1 /\ row.status = status
  BY <1>3, <1>5, RowTyped
<1> HIDE DEF row, n
<1>7. /\ resDone' \in [ResRuns -> Seq(RowType)]
      /\ \A r \in ResRuns \ {resRun} : resDone'[r] = resDone[r] /\ Reported(r)' = Reported(r)
      /\ Len(resDone'[resRun]) = n + 1
      /\ \A r \in ResRuns : Len(resDone'[r]) <= MaxResSteps
      /\ \A r \in ResRuns : \A j \in 1..Len(resDone'[r]) : resDone'[r][j].step = j
      /\ \A e : e \in {x \in ToSet(resDone'[resRun]) : x.status \in Told} <=>
                  e \in Reported(resRun) \/ (e = row /\ row.status \in Told)
  BY <1>1, <1>3, <1>5, <1>6, StepHappens DEF row, n
<1>8. \A e : e \in Reported(resRun)' <=> e \in Reported(resRun) \/ (e = row /\ status \in Told)
  BY <1>2, <1>6, <1>7 DEF Reported
<1> HIDE DEF at
<1>9. [at |-> at, row |-> row, read |-> collected] \in
        [at : {"none", "runs", "appends", "done"}, row : RowType \cup {<< >>}, read : Seq(RowType)]
  BY <1>4, <1>6 DEF at
<1>10. member' = [member EXCEPT ![k] = [at |-> at, row |-> row, read |-> collected]]
  BY <1>1 DEF at, row
<1>11. /\ member' \in [Members -> [at : {"none", "runs", "appends", "done"},
                                   row : RowType \cup {<< >>}, read : Seq(RowType)]]
       /\ member'[k] = [at |-> at, row |-> row, read |-> collected]
       /\ \A j \in Members \ {k} : member'[j] = member[j]
  BY <1>9, <1>10 DEF ResInv, ResTyped
<1>12. member'[k].at = at /\ member'[k].row = row /\ member'[k].read = collected
  BY <1>11
<1>13. ResTyped'
  BY <1>2, <1>3, <1>4, <1>7, <1>11, TypesKept DEF Going
<1>14. RunsInv'
  <2>1. \A r \in ResRuns : r > resRun => r # resRun
    BY <1>4 DEF ResRuns
  <2>2. Running' = Running - 1 /\ Running \in Nat
    BY <1>1, <1>11, <1>12 DEF Running, Members, at
  <2>3. n + Running <= MaxResSteps
    BY <1>3 DEF ResInv, RunsInv, n
  <2>4. Len(resDone'[resRun]) + Running' <= MaxResSteps
    BY <2>2, <2>3, <1>4, <1>7, ResultBoundsAssumption
  <2> HIDE DEF Running
  <2> QED
    BY <1>2, <1>3, <1>7, <2>1, <2>4 DEF ResInv, RunsInv, Going, NoneStored
<1>15. Appending' = Appending \cup (IF status \in Told THEN {k} ELSE {}) /\ k \notin Appending
  BY <1>1, <1>11, <1>12 DEF Appending, Members, at, Told
<1>16. /\ ToSet(collected) \subseteq Reported(resRun) /\ Len(collected) <= n
       /\ resRun \notin racedRuns =>
            /\ Ordered(collected)
            /\ Reported(resRun) = ToSet(collected) \cup {member[j].row : j \in Appending}
       /\ \A j \in Appending :
            /\ member[j].row \in Reported(resRun) /\ ToSet(member[j].read) \subseteq Reported(resRun)
            /\ Len(member[j].read) + 1 <= n
            /\ resRun \notin racedRuns =>
                 /\ Len(member[j].read) <= Len(collected)
                 /\ member[j].read = collected =>
                      \A i \in 1..Len(collected) : collected[i].step < member[j].row.step
  BY <1>3 DEF ResInv, CollectedInv, Going, n
<1>17. CollectedInv'
  <2>1. \A j \in Appending : member'[j] = member[j] /\ Len(member[j].read) \in Nat
    BY <1>11, <1>15 DEF ResInv, ResTyped, Appending
  <2>2. resRun \notin racedRuns => Reported(resRun)' = ToSet(collected) \cup {member'[j].row : j \in Appending'}
    <3>1. ASSUME resRun \notin racedRuns, NEW e
          PROVE  e \in Reported(resRun)' <=> e \in ToSet(collected) \/ \E j \in Appending' : e = member'[j].row
      <4>1. e \in Reported(resRun) <=> e \in ToSet(collected) \/ \E j \in Appending : e = member[j].row
        BY <3>1, <1>16
      <4> QED
        BY <4>1, <2>1, <1>8, <1>12, <1>15
    <3>2. resRun \notin racedRuns =>
            /\ Reported(resRun)' \subseteq ToSet(collected) \cup {member'[j].row : j \in Appending'}
            /\ ToSet(collected) \cup {member'[j].row : j \in Appending'} \subseteq Reported(resRun)'
      BY <3>1
    <3> QED
      BY <3>2, Zenon
  <2>3. ASSUME NEW j \in Appending'
        PROVE  /\ member'[j].row \in Reported(resRun)' /\ ToSet(member'[j].read) \subseteq Reported(resRun)'
               /\ Len(member'[j].read) + 1 <= n + 1
               /\ resRun \notin racedRuns =>
                    /\ Len(member'[j].read) <= Len(collected)
                    /\ member'[j].read = collected =>
                         \A i \in 1..Len(collected) : collected[i].step < member'[j].row.step
    <3>1. CASE j \in Appending
      BY <3>1, <2>1, <1>4, <1>8, <1>16
    <3>2. CASE j = k /\ status \in Told
      <4>1. \A i \in 1..Len(collected) : collected[i].step < row.step
        BY <1>3, <1>4, <1>6, <1>16, NumbersSoFar DEF n
      <4> QED
        BY <3>2, <4>1, <1>4, <1>8, <1>12, <1>16
    <3> QED
      BY <2>3, <3>1, <3>2, <1>15
  <2>4. ToSet(collected) \subseteq Reported(resRun)' /\ Len(collected) <= n + 1
    BY <1>4, <1>8, <1>16
  <2> QED
    BY <1>2, <1>7, <1>16, <2>2, <2>3, <2>4 DEF CollectedInv, Ordered
<1>18. SaveInv'
  BY <1>2, <1>3, NotSaving DEF NoneStored
<1>19. DiskInv' /\ ReadInv'
  BY <1>2, <1>3, <1>7, StoredKeeps DEF NoneStored
<1> QED
  BY <1>13, <1>14, <1>17, <1>18, <1>19 DEF ResInv

\* It writes back what it read and its row: all that was told, unless another did so
\* since, and then two threads raced.
LEMMA MemberAppendsKeeps ==
  ASSUME ResInv, NEW k \in Members, MemberAppends(k)
  PROVE  ResInv'
<1> DEFINE row == member[k].row
           read == member[k].read
           n == Len(resDone[resRun])
           ended == [at |-> "done", row |-> << >>, read |-> << >>]
<1>1. /\ member[k].at = "appends" /\ collected' = Append(read, row)
      /\ racedRuns' = (IF collected = read THEN racedRuns ELSE racedRuns \cup {resRun})
      /\ member' = [member EXCEPT ![k] = ended]
      /\ resRun' = resRun /\ resPhase' = resPhase /\ resDone' = resDone /\ resEnd' = resEnd
      /\ collecting' = collecting /\ NoneStored
  <2>1. [NoMember EXCEPT !.at = "done"] = ended
    BY DEF NoMember
  <2>2. member' = [member EXCEPT ![k] = [NoMember EXCEPT !.at = "done"]]
    BY DEF MemberAppends
  <2>3. member' = [member EXCEPT ![k] = ended]
    BY <2>1, <2>2, Zenon
  <2> QED
    BY <2>3 DEF MemberAppends, engineVars, storeVars, readerVars, NoneStored
<1>2. /\ resPhase = "group" /\ resEnd[resRun] = "none" /\ resRun \in ResRuns
      /\ member[k] \in [at : {"none", "runs", "appends", "done"},
                        row : RowType \cup {<< >>}, read : Seq(RowType)]
  BY <1>1, MemberKnown
<1>3. n \in Nat /\ collected \in Seq(RowType) /\ Len(collected) \in Nat
  BY <1>2, RunKnown
<1>4. k \in Appending
  BY <1>1 DEF Appending
<1>5. /\ ToSet(collected) \subseteq Reported(resRun) /\ Len(collected) <= n
      /\ resRun \notin racedRuns =>
           /\ Ordered(collected)
           /\ Reported(resRun) = ToSet(collected) \cup {member[j].row : j \in Appending}
      /\ \A j \in Appending :
           /\ member[j].row \in Reported(resRun) /\ ToSet(member[j].read) \subseteq Reported(resRun)
           /\ Len(member[j].read) + 1 <= n
           /\ resRun \notin racedRuns =>
                /\ Len(member[j].read) <= Len(collected)
                /\ member[j].read = collected =>
                     \A i \in 1..Len(collected) : collected[i].step < member[j].row.step
  BY <1>2 DEF ResInv, CollectedInv, Going
<1>6. row \in RowType /\ read \in Seq(RowType) /\ Len(read) \in Nat
  <2>1. row \in ToSet(resDone[resRun])
    BY <1>4, <1>5 DEF Reported
  <2>2. resDone[resRun] \in Seq(RowType)
    BY <1>2, RunKnown
  <2>3. row \in RowType
    BY <2>1, <2>2 DEF ToSet
  <2> QED
    BY <2>3, <1>2
<1>7. \A r : Reported(r)' = Reported(r)
  BY <1>1 DEF Reported
<1>8. Reported(resRun)' = Reported(resRun)
  BY <1>1 DEF Reported
<1>9. << >> \in Seq(RowType)
  OBVIOUS
<1>10. /\ member' \in [Members -> [at : {"none", "runs", "appends", "done"},
                                   row : RowType \cup {<< >>}, read : Seq(RowType)]]
       /\ member'[k].at = "done" /\ \A j \in Members \ {k} : member'[j] = member[j]
  <2>1. ended \in [at : {"none", "runs", "appends", "done"},
                   row : RowType \cup {<< >>}, read : Seq(RowType)] /\ ended.at = "done"
    BY <1>9
  <2> HIDE DEF ended
  <2> QED
    BY <1>1, <2>1 DEF ResInv, ResTyped
<1> HIDE DEF row, read, n, ended
<1>11. /\ Append(read, row) \in Seq(RowType) /\ Len(Append(read, row)) = Len(read) + 1
       /\ ToSet(Append(read, row)) = ToSet(read) \cup {row}
  BY <1>6, AppendedSet, AppendProperties
<1>12. ResTyped'
  <2>1. resDone \in [ResRuns -> Seq(RowType)]
    BY DEF ResInv, ResTyped
  <2> QED
    BY <1>1, <1>2, <1>10, <1>11, <2>1, TypesKept DEF Going
<1>13. RunsInv'
  <2>1. Running' = Running
    BY <1>1, <1>10 DEF Running, Members
  <2> QED
    BY <1>1, <1>2, <2>1 DEF ResInv, RunsInv, Going, NoneStored
<1>14. Appending' = Appending \ {k}
  BY <1>10 DEF Appending
<1>15. CollectedInv'
  <2>1. \A j \in Appending' : j \in Appending /\ member'[j] = member[j] /\ Len(member[j].read) \in Nat
    BY <1>10, <1>14 DEF ResInv, ResTyped, Appending
  <2>2. ToSet(collected)' \subseteq Reported(resRun) /\ Len(collected') <= n
    BY <1>1, <1>4, <1>5, <1>11 DEF row, read
  <2>3. \A j \in Appending' :
          /\ member'[j].row \in Reported(resRun) /\ ToSet(member'[j].read) \subseteq Reported(resRun)
          /\ Len(member'[j].read) + 1 <= n
    BY <2>1, <1>5
  <2>4. ASSUME resRun \notin racedRuns'
        PROVE  /\ Ordered(collected')
               /\ Reported(resRun) = ToSet(collected') \cup {member'[j].row : j \in Appending'}
               /\ \A j \in Appending' :
                    /\ Len(member'[j].read) <= Len(collected')
                    /\ member'[j].read = collected' =>
                         \A i \in 1..Len(collected') : collected'[i].step < member'[j].row.step
    <3>1. resRun \notin racedRuns /\ read = collected
      BY <2>4, <1>1
    <3>2. \A i \in 1..Len(collected) : collected[i].step < row.step
      BY <3>1, <1>4, <1>5 DEF row, read
    <3>3. Ordered(collected')
      BY <3>1, <3>2, <1>1, <1>3, <1>5, <1>6, OrderedAppend
    <3>4. ASSUME NEW e
          PROVE  e \in Reported(resRun) <=> e \in ToSet(collected') \/ \E j \in Appending' : e = member'[j].row
      <4>1. e \in Reported(resRun) <=> e \in ToSet(collected) \/ \E j \in Appending : e = member[j].row
        BY <3>1, <1>5
      <4>2. e \in ToSet(collected') <=> e \in ToSet(collected) \/ e = row
        BY <3>1, <1>1, <1>11
      <4>3. (\E j \in Appending : e = member[j].row) <=> e = row \/ \E j \in Appending' : e = member'[j].row
        BY <2>1, <1>4, <1>14 DEF row
      <4> QED
        BY <4>1, <4>2, <4>3
    <3>5. /\ Reported(resRun) \subseteq ToSet(collected') \cup {member'[j].row : j \in Appending'}
          /\ ToSet(collected') \cup {member'[j].row : j \in Appending'} \subseteq Reported(resRun)
      BY <3>4
    <3>6. Reported(resRun) = ToSet(collected') \cup {member'[j].row : j \in Appending'}
      BY <3>5, Zenon
    <3>7. Len(collected') = Len(collected) + 1
      BY <3>1, <1>1, <1>11
    <3>8. \A j \in Appending' : Len(member'[j].read) <= Len(collected)
      BY <2>1, <3>1, <1>5
    <3>9. \A j \in Appending' : Len(member'[j].read) <= Len(collected') /\ member'[j].read # collected'
      BY <2>1, <3>7, <3>8, <1>3
    <3> QED
      BY <3>3, <3>6, <3>9
  <2> QED
    BY <1>1, <1>8, <2>2, <2>3, <2>4 DEF CollectedInv, Ordered, n
<1>16. SaveInv'
  BY <1>1, <1>2, NotSaving DEF NoneStored
<1>17. DiskInv' /\ ReadInv'
  BY <1>1, <1>7, StoredKeeps DEF NoneStored
<1> QED
  BY <1>12, <1>13, <1>15, <1>16, <1>17 DEF ResInv

-------------------------------------------------------------------------------
\* The store.

\* What a step of the save that stores nothing keeps.
LEMMA SaveKeeps ==
  ASSUME ResInv, InSave, disk' = disk, persisted' = persisted
  PROVE  DiskInv' /\ ReadInv' /\ \A r : Reported(r)' = Reported(r)
<1>1. /\ resRun' = resRun /\ resDone' = resDone /\ resEnd' = resEnd /\ collecting' = collecting
      /\ collected' = collected /\ member' = member /\ racedRuns' = racedRuns /\ purged' = purged
      /\ reading' = reading /\ found' = found
  BY DEF InSave, collectorVars, readerVars
<1>2. \A r : Reported(r)' = Reported(r)
  BY <1>1 DEF Reported
<1> QED
  BY <1>1, <1>2, StoredKeeps

\* The save goes on: the runs, what is collected, and their types.
LEMMA StillSaving ==
  ASSUME ResInv, InSave, disk' = disk, persisted' = persisted, resPhase = "saving", resPhase' = resPhase
  PROVE  /\ RunsInv' /\ CollectedInv'
         /\ (image' \in Database /\ saved' \in Nat => ResTyped')
<1>1. /\ resRun' = resRun /\ resDone' = resDone /\ resEnd' = resEnd /\ collecting' = collecting
      /\ collected' = collected /\ member' = member /\ racedRuns' = racedRuns /\ reading' = reading
  BY DEF InSave, collectorVars, readerVars
<1>2. RunsInv'
  BY <1>1 DEF ResInv, RunsInv, Going, Running
<1>3. Appending' = Appending /\ Reported(resRun)' = Reported(resRun)
  BY <1>1 DEF Appending, Reported
<1>4. CollectedInv'
  BY <1>1, <1>3 DEF ResInv, CollectedInv, Going, Ordered
<1>5. image' \in Database /\ saved' \in Nat => ResTyped'
  BY <1>1 DEF ResInv, ResTyped
<1> QED
  BY <1>2, <1>4, <1>5

LEMMA InsertResultKeeps == ASSUME ResInv, InsertResult PROVE ResInv'
<1>1. /\ resPhase = "saving" /\ resPhase' = resPhase /\ disk' = disk /\ persisted' = persisted /\ InSave
      /\ saved' = 0 /\ image' = [disk EXCEPT !.results = disk.results \cup {resRun}]
  BY DEF InsertResult
<1>2. resRun \in ResRuns /\ Len(collected) \in Nat
  BY <1>1, RunKnown
<1>3. disk \in Database
  BY DEF ResInv, ResTyped
<1>4. /\ image' \in Database /\ image'.results = disk.results \cup {resRun} /\ image'.steps = disk.steps
  BY <1>1, <1>2, <1>3 DEF Database
<1>5. resRun \notin disk.results /\ disk.steps[resRun] = << >>
  BY <1>1, <1>2 DEF ResInv, RunsInv, DiskInv
<1>6. resRun' = resRun /\ collected' = collected
  BY <1>1 DEF InSave, collectorVars
<1>7. SaveInv'
  <2>1. Len(<< >>) = 0 /\ image' # NoImage
    BY <1>4, NoImageAssumption
  <2> QED
    BY <1>1, <1>2, <1>4, <1>5, <1>6, <2>1 DEF SaveInv
<1> QED
  BY <1>1, <1>4, <1>7, SaveKeeps, StillSaving DEF ResInv

LEMMA InsertStepKeeps == ASSUME ResInv, InsertStep PROVE ResInv'
<1> DEFINE row == collected[saved + 1]
           rows == image.steps[resRun]
<1>1. /\ resPhase = "saving" /\ resPhase' = resPhase /\ disk' = disk /\ persisted' = persisted /\ InSave
      /\ saved' = saved + 1 /\ saved \in 0..Len(collected) - 1
      /\ image' = [image EXCEPT !.steps[resRun] = Append(rows, row)]
  BY DEF InsertStep
<1>2. resRun \in ResRuns /\ collected \in Seq(RowType) /\ Len(collected) \in Nat
  BY <1>1, RunKnown
<1>3. saved \in Nat /\ saved # -1 /\ saved + 1 \in 1..Len(collected)
  BY <1>1, <1>2
<1>4. row \in RowType
  BY <1>2, <1>3
<1>5. /\ image.results = disk.results \cup {resRun}
      /\ \A r \in ResRuns \ {resRun} : image.steps[r] = disk.steps[r]
      /\ Len(rows) = saved /\ \A k \in 1..saved : rows[k] = collected[k]
  BY <1>3 DEF ResInv, SaveInv
<1>6. image \in Database
  BY <1>3 DEF ResInv, ResTyped, SaveInv
<1>7. rows \in Seq(RowType) /\ image.steps \in [ResRuns -> Seq(RowType)] /\ image.results \in SUBSET ResRuns
  BY <1>2, <1>6 DEF Database
<1> DEFINE more == Append(rows, row)
<1>8. /\ more \in Seq(RowType) /\ Len(more) = saved + 1
      /\ \A k \in 1..saved : more[k] = collected[k]
      /\ more[saved + 1] = collected[saved + 1]
  BY <1>4, <1>5, <1>7, AppendProperties
<1>9. image' = [image EXCEPT !.steps = [image.steps EXCEPT ![resRun] = more]]
  BY <1>1
<1> HIDE DEF more, rows, row
<1>10. /\ image' \in Database /\ image'.results = image.results
       /\ image'.steps = [image.steps EXCEPT ![resRun] = more]
  BY <1>2, <1>6, <1>7, <1>8, <1>9 DEF Database
<1>11. image'.steps[resRun] = more /\ \A r \in ResRuns \ {resRun} : image'.steps[r] = image.steps[r]
  BY <1>2, <1>7, <1>10
<1>12. resRun' = resRun /\ collected' = collected
  BY <1>1 DEF InSave, collectorVars
<1>13. \A k \in 1..saved + 1 : more[k] = collected[k]
  <2>1. \A k \in 1..saved + 1 : k \in 1..saved \/ k = saved + 1
    BY <1>3
  <2> QED
    BY <2>1, <1>8
<1>14. SaveInv'
  <2>1. image' # NoImage
    BY <1>10, NoImageAssumption
  <2>2. saved + 1 <= Len(collected) /\ saved + 1 # -1
    BY <1>2, <1>3
  <2> QED
    BY <1>1, <1>5, <1>8, <1>10, <1>11, <1>12, <1>13, <2>1, <2>2 DEF SaveInv
<1> QED
  BY <1>1, <1>3, <1>10, <1>14, SaveKeeps, StillSaving DEF ResInv

\* The save is over: the phases after it collect and store nothing.
LEMMA SaveOver ==
  ASSUME ResInv, InSave, resPhase = "saving", SaveReturns, image' = NoImage, saved' = -1,
         persisted' \subseteq ResRuns, disk' \in Database
  PROVE  ResTyped' /\ RunsInv' /\ CollectedInv' /\ SaveInv'
<1>1. /\ resRun' = resRun /\ resDone' = resDone /\ resEnd' = resEnd /\ collecting' = collecting
      /\ collected' = collected /\ member' = member /\ racedRuns' = racedRuns /\ reading' = reading
  BY DEF InSave, collectorVars, readerVars
<1>2. resPhase' \in {"compensating", "idle"}
  BY DEF SaveReturns
<1>3. ResTyped'
  BY <1>1, <1>2 DEF ResInv, ResTyped
<1>4. RunsInv'
  BY <1>1, <1>2 DEF ResInv, RunsInv, Going
<1>5. CollectedInv' /\ SaveInv'
  BY <1>2 DEF CollectedInv, SaveInv, Going
<1> QED
  BY <1>3, <1>4, <1>5

\* All that was collected is in the image, which is stored as it is.
LEMMA CommitKeeps == ASSUME ResInv, Commit PROVE ResInv'
<1>1. /\ resPhase = "saving" /\ saved = Len(collected) /\ disk' = image /\ image' = NoImage /\ saved' = -1
      /\ persisted' = persisted \cup {resRun} /\ SaveReturns /\ InSave
  BY DEF Commit
<1>2. /\ resRun' = resRun /\ resDone' = resDone /\ resEnd' = resEnd /\ purged' = purged
      /\ racedRuns' = racedRuns /\ reading' = reading /\ found' = found
  BY <1>1 DEF InSave, collectorVars, readerVars
<1>3. resRun \in ResRuns /\ collected \in Seq(RowType) /\ Len(collected) \in Nat
  BY <1>1, RunKnown
<1>4. /\ image.results = disk.results \cup {resRun}
      /\ \A r \in ResRuns \ {resRun} : image.steps[r] = disk.steps[r]
      /\ Len(image.steps[resRun]) = Len(collected)
      /\ \A k \in 1..Len(collected) : image.steps[resRun][k] = collected[k]
  BY <1>1, <1>3 DEF ResInv, SaveInv
<1>5. image \in Database
  BY <1>1, <1>3 DEF ResInv, ResTyped, SaveInv
<1>6. image.steps[resRun] = collected
  <2>1. image.steps[resRun] \in Seq(RowType)
    BY <1>3, <1>5 DEF Database
  <2> QED
    BY <2>1, <1>3, <1>4, SeqEqual
<1>7. \A r : Reported(r)' = Reported(r)
  BY <1>2 DEF Reported
<1>8. /\ ToSet(collected) \subseteq Reported(resRun) /\ Good(collected, resRun)
  <2>1. Appending = {}
    BY <1>1 DEF ResInv, RunsInv, Appending
  <2>2. /\ ToSet(collected) \subseteq Reported(resRun)
        /\ resRun \notin racedRuns => Ordered(collected) /\ Reported(resRun) = ToSet(collected)
    BY <1>1, <2>1 DEF ResInv, CollectedInv
  <2>3. DOMAIN collected = 1..Len(collected)
    BY <1>3
  <2> QED
    BY <2>2, <2>3 DEF Good, Whole, Ordered
<1>9. DiskInv'
  <2>1. ASSUME NEW r \in image.results
        PROVE  /\ resEnd[r] # "none" /\ Good(image.steps[r], r)
               /\ ToSet(image.steps[r]) \subseteq Reported(r)
    <3>1. CASE r = resRun
      <4>1. resEnd[resRun] # "none"
        BY <1>1 DEF ResInv, RunsInv
      <4> QED
        BY <3>1, <4>1, <1>6, <1>8
    <3>2. CASE r # resRun
      <4>1. r \in disk.results /\ r \in ResRuns
        BY <3>2, <1>4, <1>5 DEF Database
      <4> QED
        BY <3>2, <4>1, <1>4 DEF ResInv, DiskInv
    <3> QED
      BY <3>1, <3>2
  <2>3. \A r \in ResRuns : r \notin image.results => image.steps[r] = << >>
    BY <1>4 DEF ResInv, DiskInv
  <2>4. persisted' \subseteq image.results \cup purged
    BY <1>1, <1>4 DEF ResInv, DiskInv
  <2> QED
    BY <1>1, <1>2, <1>7, <2>1, <2>3, <2>4 DEF DiskInv, Good, Whole
<1>10. ReadInv'
  <2>1. disk.results \subseteq image.results
    BY <1>4
  <2>2. reading # 0 => reading \in ResRuns
    BY ResultBoundsAssumption DEF ResInv, ResTyped, ResRuns
  <2> QED
    BY <1>1, <1>2, <1>7, <2>1, <2>2 DEF ResInv, ReadInv, Good, Whole
<1>11. ResTyped' /\ RunsInv' /\ CollectedInv' /\ SaveInv'
  <2>1. persisted \cup {resRun} \subseteq ResRuns
    BY <1>3 DEF ResInv, ResTyped
  <2> QED
    BY <1>1, <1>5, <2>1, SaveOver
<1> QED
  BY <1>9, <1>10, <1>11 DEF ResInv

LEMMA SaveFailsKeeps == ASSUME ResInv, SaveFails PROVE ResInv'
<1>1. /\ resPhase = "saving" /\ disk' = disk /\ image' = NoImage /\ saved' = -1
      /\ persisted' = persisted /\ SaveReturns /\ InSave
  BY DEF SaveFails
<1>2. persisted \subseteq ResRuns /\ disk \in Database
  BY DEF ResInv, ResTyped
<1> QED
  BY <1>1, <1>2, SaveKeeps, SaveOver DEF ResInv

\* No transaction is open; a reader of what is purged may still be under way.
LEMMA PurgeKeeps == ASSUME ResInv, Purge PROVE ResInv'
<1>1. PICK old : /\ old \subseteq disk.results /\ image = NoImage
                 /\ disk' = [results |-> disk.results \ old,
                             steps |-> [s \in ResRuns |-> IF s \in old THEN << >> ELSE disk.steps[s]]]
                 /\ purged' = purged \cup old
  BY DEF Purge
<1>2. /\ resRun' = resRun /\ resPhase' = resPhase /\ resDone' = resDone /\ resEnd' = resEnd
      /\ collecting' = collecting /\ collected' = collected /\ member' = member /\ racedRuns' = racedRuns
      /\ image' = image /\ saved' = saved /\ persisted' = persisted /\ reading' = reading /\ found' = found
  BY DEF Purge, engineVars, collectorVars, readerVars
<1>3. disk \in Database /\ disk.results \subseteq ResRuns /\ << >> \in Seq(RowType)
  BY DEF ResInv, ResTyped, Database
<1> DEFINE left == disk.results \ old
           rows == [s \in ResRuns |-> IF s \in old THEN << >> ELSE disk.steps[s]]
<1>4. left \subseteq ResRuns /\ rows \in [ResRuns -> Seq(RowType)]
  BY <1>3 DEF Database
<1>5. /\ \A r \in ResRuns \ old : rows[r] = disk.steps[r]
      /\ \A r \in old : rows[r] = << >>
  BY <1>1, <1>3
<1>6. disk' = [results |-> left, steps |-> rows]
  BY <1>1
<1> HIDE DEF left, rows
<1>7. disk' \in Database /\ disk'.results = left /\ disk'.steps = rows
  BY <1>4, <1>6 DEF Database
<1>8. left \cup old = disk.results /\ left \cap old = {}
  BY <1>1 DEF left
<1>9. ResTyped'
  BY <1>2, <1>7 DEF ResInv, ResTyped
<1>10. RunsInv'
  BY <1>2, <1>7, <1>8 DEF ResInv, RunsInv, Going, Running
<1>11. Appending' = Appending /\ Reported(resRun)' = Reported(resRun) /\ \A r : Reported(r)' = Reported(r)
  BY <1>2 DEF Appending, Reported
<1>12. CollectedInv'
  BY <1>2, <1>11 DEF ResInv, CollectedInv, Going, Ordered
<1>13. SaveInv'
  BY <1>1, <1>2 DEF ResInv, SaveInv
<1>14. DiskInv'
  <2>1. ASSUME NEW r \in left
        PROVE  /\ resEnd[r] # "none" /\ Good(rows[r], r)
               /\ ToSet(rows[r]) \subseteq Reported(r)
    <3>1. r \in disk.results /\ rows[r] = disk.steps[r]
      BY <1>3, <1>5, <1>8
    <3> QED
      BY <3>1 DEF ResInv, DiskInv
  <2>2. \A r \in ResRuns : r \notin left => rows[r] = << >>
    BY <1>5, <1>8 DEF ResInv, DiskInv
  <2>3. persisted \subseteq left \cup purged'
    BY <1>1, <1>8 DEF ResInv, DiskInv
  <2> QED
    BY <1>2, <1>7, <1>11, <2>1, <2>2, <2>3 DEF DiskInv, Good, Whole
<1>15. ReadInv'
  <2>1. disk.results \cup purged \subseteq left \cup purged'
    BY <1>1, <1>8
  <2>2. purged \subseteq purged'
    BY <1>1
  <2> QED
    BY <1>2, <1>7, <1>11, <2>1, <2>2 DEF ResInv, ReadInv, Good, Whole
<1> QED
  BY <1>9, <1>10, <1>12, <1>13, <1>14, <1>15 DEF ResInv

-------------------------------------------------------------------------------
\* The reader, the crash, and the whole.

LEMMA ReaderKeeps ==
  ASSUME ResInv, FindResult \/ FindSteps
  PROVE  ResInv'
<1>1. /\ resRun' = resRun /\ resPhase' = resPhase /\ resDone' = resDone /\ resEnd' = resEnd
      /\ collecting' = collecting /\ collected' = collected /\ member' = member /\ racedRuns' = racedRuns
      /\ disk' = disk /\ image' = image /\ saved' = saved /\ persisted' = persisted /\ purged' = purged
  BY DEF FindResult, FindSteps, engineVars, collectorVars, storeVars
<1>2. disk.results \subseteq ResRuns /\ ResRuns = 1..MaxResRuns /\ MaxResRuns \in Nat
  BY ResultBoundsAssumption DEF ResInv, ResTyped, Database, ResRuns
<1>3. \A r : Reported(r)' = Reported(r)
  BY <1>1 DEF Reported
<1>4. ResTyped'
  <2>1. reading' \in Nat /\ reading' <= MaxResRuns
    BY <1>2 DEF FindResult, FindSteps
  <2> QED
    BY <1>1, <2>1 DEF ResInv, ResTyped
<1>5. RunsInv' /\ SaveInv'
  BY <1>1 DEF ResInv, RunsInv, SaveInv, Going, Running
<1>6. CollectedInv'
  <2>1. Appending' = Appending /\ Reported(resRun)' = Reported(resRun)
    BY <1>1 DEF Appending, Reported
  <2> QED
    BY <1>1, <2>1 DEF ResInv, CollectedInv, Going, Ordered
<1>7. DiskInv'
  BY <1>1, <1>3 DEF ResInv, DiskInv, Good, Whole
<1>8. ReadInv'
  <2>1. CASE FindResult
    <3>1. PICK r \in disk.results : reading' = r /\ found' = << >>
      BY <2>1 DEF FindResult
    <3> QED
      BY <3>1, <1>1 DEF ResInv, DiskInv, ReadInv
  <2>2. CASE FindSteps
    <3>1. reading # 0 /\ found' = <<reading, disk.steps[reading]>> /\ reading' = 0
      BY <2>2 DEF FindSteps, StepsOf
    <3>2. reading \in ResRuns /\ resEnd[reading] # "none" /\ reading \in disk.results \cup purged
      BY <3>1, <1>2 DEF ResInv, ResTyped, ReadInv
    <3>3. Good(disk.steps[reading], reading) \/ (disk.steps[reading] = << >> /\ reading \in purged)
      BY <3>2 DEF ResInv, DiskInv
    <3>4. found'[1] = reading /\ found'[2] = disk.steps[reading]
      BY <3>1
    <3> QED
      BY <1>1, <1>3, <3>1, <3>2, <3>3, <3>4 DEF ReadInv, Good, Whole
  <2> QED
    BY <2>1, <2>2
<1> QED
  BY <1>4, <1>5, <1>6, <1>7, <1>8 DEF ResInv

LEMMA CrashKeeps == ASSUME ResInv, ResCrash PROVE ResInv'
<1>1. /\ resPhase # "idle" /\ resPhase' = "idle" /\ collecting' = FALSE /\ collected' = << >>
      /\ member' = [k \in Members |-> NoMember] /\ image' = NoImage /\ saved' = -1 /\ persisted' = {}
      /\ resRun' = resRun /\ resDone' = resDone /\ resEnd' = resEnd /\ racedRuns' = racedRuns
      /\ disk' = disk /\ purged' = purged /\ reading' = reading /\ found' = found
  BY DEF ResCrash, readerVars
<1>2. << >> \in Seq(RowType)
  OBVIOUS
<1>3. member' \in [Members -> [at : {"none", "runs", "appends", "done"},
                               row : RowType \cup {<< >>}, read : Seq(RowType)]]
      /\ \A k \in Members : member'[k].at = "none"
  BY <1>1, <1>2 DEF NoMember
<1>4. ResTyped'
  <2>1. collecting' \in BOOLEAN
    BY <1>1, Zenon
  <2> QED
    BY <1>1, <1>2, <1>3, <2>1 DEF ResInv, ResTyped
<1>5. RunsInv'
  <2>1. ~collecting'
    BY <1>1, Zenon
  <2> QED
    BY <1>1, <1>3, <2>1 DEF ResInv, RunsInv, Going
<1>6. CollectedInv' /\ SaveInv'
  BY <1>1 DEF CollectedInv, SaveInv, Going
<1>7. \A r : Reported(r)' = Reported(r)
  BY <1>1 DEF Reported
<1>8. DiskInv' /\ ReadInv'
  BY <1>1, <1>7, StoredKeeps
<1> QED
  BY <1>4, <1>5, <1>6, <1>8 DEF ResInv

LEMMA ResStutters == ASSUME ResInv, UNCHANGED resultVars PROVE ResInv'
<1>1. /\ resRun' = resRun /\ resPhase' = resPhase /\ resDone' = resDone /\ resEnd' = resEnd
      /\ collecting' = collecting /\ collected' = collected /\ member' = member /\ racedRuns' = racedRuns
      /\ disk' = disk /\ image' = image /\ saved' = saved /\ persisted' = persisted /\ purged' = purged
      /\ reading' = reading /\ found' = found
  BY DEF resultVars, engineVars, collectorVars, storeVars, readerVars
<1>2. ResTyped' /\ RunsInv' /\ SaveInv'
  BY <1>1 DEF ResInv, ResTyped, RunsInv, SaveInv, Going, Running
<1>3. Appending' = Appending /\ Reported(resRun)' = Reported(resRun) /\ \A r : Reported(r)' = Reported(r)
  BY <1>1 DEF Appending, Reported
<1>4. CollectedInv'
  BY <1>1, <1>3 DEF ResInv, CollectedInv, Going, Ordered
<1>5. DiskInv' /\ ReadInv'
  BY <1>1, <1>3, StoredKeeps
<1> QED
  BY <1>2, <1>4, <1>5 DEF ResInv

LEMMA ResStep == ASSUME ResInv, [ResNext]_resultVars PROVE ResInv'
<1>1. CASE StartRun
  BY <1>1, StartRunKeeps
<1>2. CASE RunStep \/ FailedStepHandled
  BY <1>2, StepKeeps
<1>3. CASE FinishRun \/ FailRun
  BY <1>3, FinalizeKeeps
<1>4. CASE StartGroup
  BY <1>4, StartGroupKeeps
<1>5. CASE \E k \in Members : MemberEnds(k) \/ MemberAppends(k)
  BY <1>5, MemberEndsKeeps, MemberAppendsKeeps
<1>6. CASE EndGroup
  BY <1>6, EndGroupKeeps
<1>7. CASE Compensate
  BY <1>7, CompensateKeeps
<1>8. CASE EndRun
  BY <1>8, EndRunKeeps
<1>9. CASE InsertResult
  BY <1>9, InsertResultKeeps
<1>10. CASE InsertStep
  BY <1>10, InsertStepKeeps
<1>11. CASE Commit
  BY <1>11, CommitKeeps
<1>12. CASE SaveFails
  BY <1>12, SaveFailsKeeps
<1>13. CASE Purge
  BY <1>13, PurgeKeeps
<1>14. CASE FindResult \/ FindSteps
  BY <1>14, ReaderKeeps
<1>15. CASE ResCrash
  BY <1>15, CrashKeeps
<1>16. CASE UNCHANGED resultVars
  BY <1>16, ResStutters
<1> QED
  BY <1>1, <1>2, <1>3, <1>4, <1>5, <1>6, <1>7, <1>8, <1>9, <1>10, <1>11, <1>12, <1>13, <1>14, <1>15, <1>16
     DEF ResNext

LEMMA ResIsSound == ResInv => ResultsSound
<1> SUFFICES ASSUME ResInv PROVE ResultsSound
  OBVIOUS
<1>1. disk.results \subseteq ResRuns /\ MaxResRuns \in Nat /\ MaxResSteps \in Nat
  BY ResultBoundsAssumption DEF ResInv, ResTyped, Database
<1>2. ResTypeOK
  <2>1. resRun \in 0..MaxResRuns /\ reading \in 0..MaxResRuns
    BY <1>1 DEF ResInv, ResTyped
  <2>2. image # NoImage => resPhase = "saving" /\ image \in Database
    BY DEF ResInv, ResTyped, SaveInv
  <2>3. saved \in -1..MaxResSteps
    <3>1. CASE saved = -1
      BY <3>1, <1>1
    <3>2. CASE saved # -1
      <4>1. resPhase = "saving" /\ saved <= Len(collected)
        BY <3>2 DEF ResInv, SaveInv
      <4>2. Len(collected) <= Len(resDone[resRun]) /\ resRun \in ResRuns
            /\ Len(collected) \in Nat /\ Len(resDone[resRun]) \in Nat
        BY <4>1, RunKnown DEF ResInv, CollectedInv
      <4>3. Len(resDone[resRun]) <= MaxResSteps
        BY <4>2 DEF ResInv, RunsInv
      <4>4. saved \in Int /\ saved >= -1
        BY DEF ResInv, ResTyped
      <4> QED
        BY <4>1, <4>2, <4>3, <4>4, <1>1
    <3> QED
      BY <3>1, <3>2
  <2> QED
    BY <2>1, <2>2, <2>3 DEF ResTypeOK, ResInv, ResTyped
<1>3. StoredAreWhole
  BY DEF StoredAreWhole, StepsOf, Good, ResInv, DiskInv
<1>4. NothingOrphaned
  BY DEF NothingOrphaned, StepsOf, ResInv, DiskInv
<1>5. ReadsAllOrNone
  BY DEF ReadsAllOrNone, Good, ResInv, ReadInv
<1> QED
  BY <1>2, <1>3, <1>4, <1>5 DEF ResultsSound

-------------------------------------------------------------------------------
(***************************************************************************)
(* RecipeStore.  Every save is stored, broken off or under way; those      *)
(* under way are overtaken, but for the latest.  So when the version of    *)
(* the recipe's own save is stored, what is stored later was overtaken,    *)
(* and no other row is newer than its.                                     *)
(***************************************************************************)
VersionRow == [version : VersionNames, values : 1..MaxSaves, createdAt : Nat]
SavedRecipe == [version : VersionNames, values : 1..MaxSaves]

RecTyped ==
  /\ saves \in Nat /\ saves <= MaxSaves /\ second \in Nat /\ second <= MaxSeconds
  /\ recipe \in SavedRecipe \cup {NoRecipe}
  /\ saving \in [Editors -> SavedRecipe \cup {NoRecipe}]
  /\ versions \in Seq(VersionRow)
  /\ \A k \in 1..Len(versions) : versions[k].values <= saves /\ versions[k].createdAt <= second
  /\ \A e \in Editors : saving[e] # NoRecipe => saving[e].values <= saves

Stored == {x.values : x \in ToSet(versions)}

SavesInv ==
  /\ \A d, e \in Editors : saving[d] # NoRecipe /\ saving[e] # NoRecipe /\ saving[d].values = saving[e].values => d = e
  /\ \A j, k \in 1..Len(versions) : versions[j].values = versions[k].values => j = k
  /\ \A n \in 1..saves : n \in Stored <=> n \notin halved \cup UnderWay
  /\ halved \subseteq 1..saves /\ UnderWay \subseteq 1..saves /\ halved \cap UnderWay = {}
  /\ Stored \subseteq 1..saves

LatestInv ==
  /\ recipe # NoRecipe => recipe.values = saves
  /\ \A n \in UnderWay : n \in overtaken \/ (recipe # NoRecipe /\ n = saves)
  /\ recipe # NoRecipe =>
       /\ \A e \in Editors : saving[e] # NoRecipe /\ saving[e].values = saves => saving[e].version = recipe.version
       /\ \A own \in ToSet(versions) : own.values = saves =>
            /\ own.version = recipe.version
            /\ \A x \in ToSet(versions) : x.createdAt <= own.createdAt \/ x.values \in overtaken

RecInv == RecTyped /\ SavesInv /\ LatestInv

LEMMA RecInitially == RecipeInit => RecInv
<1> SUFFICES ASSUME RecipeInit PROVE RecInv
  OBVIOUS
<1>1. << >> \in Seq(VersionRow) /\ Len(<< >>) = 0 /\ ToSet(<< >>) = {}
  BY DEF ToSet
<1>2. RecTyped
  BY <1>1, RecipeBoundsAssumption DEF RecipeInit, RecTyped
<1>3. UnderWay = {} /\ Stored = {}
  BY <1>1 DEF RecipeInit, UnderWay, Stored
<1>4. SavesInv /\ LatestInv
  BY <1>1, <1>3 DEF RecipeInit, SavesInv, LatestInv
<1> QED
  BY <1>2, <1>4 DEF RecInv

LEMMA RowsTyped ==
  ASSUME RecInv
  PROVE  \A x \in ToSet(versions) : x \in VersionRow /\ x.values <= saves /\ x.createdAt <= second /\ x.createdAt \in Nat
<1>1. versions \in Seq(VersionRow) /\ DOMAIN versions = 1..Len(versions)
  BY DEF RecInv, RecTyped
<1>2. \A x \in ToSet(versions) : x \in VersionRow /\ x.values <= saves /\ x.createdAt <= second
  BY <1>1 DEF ToSet, RecInv, RecTyped
<1> QED
  BY <1>2 DEF VersionRow

LEMMA VersionsTyped ==
  ASSUME RecInv
  PROVE  \A k \in 1..Len(versions) : versions[k].values \in Nat /\ versions[k].createdAt \in Nat
<1>1. versions \in Seq(VersionRow)
  BY DEF RecInv, RecTyped
<1>2. \A k \in 1..Len(versions) : versions[k] \in VersionRow
  BY <1>1
<1>3. \A x \in VersionRow : x.values \in Nat /\ x.createdAt \in Nat
  BY DEF VersionRow
<1> QED
  BY <1>2, <1>3

LEMMA SaveRecipeKeeps ==
  ASSUME RecInv, NEW e \in Editors, SaveRecipe(e)
  PROVE  RecInv'
<1> DEFINE row(v) == [version |-> v, values |-> saves + 1]
<1>1. PICK v \in VersionNames :
        /\ saving[e] = NoRecipe /\ saves < MaxSaves /\ saves' = saves + 1
        /\ recipe' = row(v) /\ saving' = [saving EXCEPT ![e] = row(v)]
        /\ overtaken' = overtaken \cup UnderWay
        /\ versions' = versions /\ second' = second /\ halved' = halved
  <2>1. PICK v \in VersionNames :
          /\ saving[e] = NoRecipe /\ saves < MaxSaves /\ saves' = saves + 1
          /\ recipe' = [version |-> v, values |-> saves'] /\ saving' = [saving EXCEPT ![e] = recipe']
          /\ overtaken' = overtaken \cup UnderWay
          /\ versions' = versions /\ second' = second /\ halved' = halved
    BY DEF SaveRecipe
  <2>2. recipe' = row(v)
    BY <2>1
  <2> QED
    BY <2>1, <2>2
<1> DEFINE new == row(v)
<1>2. new \in SavedRecipe /\ new.version = v /\ new.values = saves + 1 /\ saves \in Nat /\ saves + 1 <= MaxSaves
  BY <1>1, RecipeBoundsAssumption DEF SavedRecipe, RecInv, RecTyped
<1>3. recipe' = new /\ saving' = [saving EXCEPT ![e] = new]
  BY <1>1
<1> HIDE DEF row, new
<1>4. new # NoRecipe
  BY <1>2, NoRecipeAssumption DEF SavedRecipe
<1>5. /\ saving' \in [Editors -> SavedRecipe \cup {NoRecipe}] /\ saving'[e] = new
      /\ \A d \in Editors \ {e} : saving'[d] = saving[d]
  BY <1>2, <1>3 DEF RecInv, RecTyped
<1>6. RecTyped'
  <2>1. \A k \in 1..Len(versions) : versions[k].values \in Nat
    BY VersionsTyped
  <2>2. \A k \in 1..Len(versions) : versions[k].values <= saves + 1 /\ versions[k].createdAt <= second
    BY <1>2, <2>1 DEF RecInv, RecTyped
  <2>3. \A d \in Editors : saving'[d] # NoRecipe => saving'[d].values <= saves + 1
    <3>1. \A d \in Editors : saving[d] # NoRecipe => saving[d].values \in Nat /\ saving[d].values <= saves
      BY DEF RecInv, RecTyped, SavedRecipe
    <3> QED
      BY <3>1, <1>2, <1>5
  <2> QED
    BY <1>1, <1>2, <1>3, <1>5, <2>2, <2>3 DEF RecInv, RecTyped
<1>7. \A n : n \in UnderWay' <=> n \in UnderWay \/ n = saves + 1
  BY <1>1, <1>2, <1>4, <1>5 DEF UnderWay
<1>8. Stored' = Stored
  BY <1>1 DEF Stored
<1>9. 1..saves + 1 = 1..saves \cup {saves + 1} /\ saves + 1 \notin 1..saves
  BY <1>2
<1>10. SavesInv'
  <2>1. ASSUME NEW c \in Editors, NEW d \in Editors, saving'[c] # NoRecipe, saving'[d] # NoRecipe,
               saving'[c].values = saving'[d].values
        PROVE  c = d
    <3>1. \A f \in Editors \ {e} : saving'[f] # NoRecipe => saving'[f].values # saves + 1
      BY <1>2, <1>5 DEF RecInv, RecTyped, SavedRecipe
    <3> QED
      BY <2>1, <3>1, <1>2, <1>5 DEF RecInv, SavesInv
  <2>2. \A n \in 1..saves + 1 : n \in Stored <=> n \notin halved \cup UnderWay'
    <3>1. saves + 1 \notin Stored
      BY <1>9 DEF RecInv, SavesInv
    <3> QED
      BY <3>1, <1>7, <1>9 DEF RecInv, SavesInv
  <2>3. halved \subseteq 1..saves + 1 /\ UnderWay' \subseteq 1..saves + 1 /\ halved \cap UnderWay' = {}
        /\ Stored \subseteq 1..saves + 1
    BY <1>7, <1>9 DEF RecInv, SavesInv
  <2> QED
    BY <1>1, <1>8, <2>1, <2>2, <2>3 DEF RecInv, SavesInv
<1>11. LatestInv'
  <2>1. \A own \in ToSet(versions) : own.values # saves + 1
    BY <1>2, RowsTyped
  <2>2. \A d \in Editors : saving'[d] # NoRecipe /\ saving'[d].values = saves + 1 => saving'[d] = new
    BY <1>2, <1>5 DEF RecInv, RecTyped, SavedRecipe
  <2>3. \A n \in UnderWay' : n \in overtaken' \/ n = saves + 1
    BY <1>1, <1>7
  <2> QED
    BY <1>1, <1>2, <1>3, <1>4, <2>1, <2>2, <2>3 DEF LatestInv
<1> QED
  BY <1>6, <1>10, <1>11 DEF RecInv

\* A connection has its save no longer under way.
LEMMA NoMoreUnderWay ==
  ASSUME RecInv, NEW e \in Editors, saving[e] # NoRecipe, saving' = [saving EXCEPT ![e] = NoRecipe]
  PROVE  /\ saving' \in [Editors -> SavedRecipe \cup {NoRecipe}]
         /\ saving'[e] = NoRecipe /\ \A d \in Editors \ {e} : saving'[d] = saving[d]
         /\ saving[e] \in SavedRecipe /\ saving[e].values \in UnderWay /\ saving[e].values \in 1..saves
         /\ \A n : n \in UnderWay' <=> n \in UnderWay /\ n # saving[e].values
<1>1. /\ saving' \in [Editors -> SavedRecipe \cup {NoRecipe}]
      /\ saving'[e] = NoRecipe /\ \A d \in Editors \ {e} : saving'[d] = saving[d]
      /\ saving[e] \in SavedRecipe
  BY DEF RecInv, RecTyped
<1>2. saving[e].values \in UnderWay
  BY DEF UnderWay
<1>3. saving[e].values \in 1..saves
  BY <1>2 DEF RecInv, SavesInv
<1>4. \A n : n \in UnderWay' <=> n \in UnderWay /\ n # saving[e].values
  BY <1>1 DEF UnderWay, RecInv, SavesInv
<1> QED
  BY <1>1, <1>2, <1>3, <1>4

LEMMA SaveVersionKeeps ==
  ASSUME RecInv, NEW e \in Editors, SaveRecipeVersion(e)
  PROVE  RecInv'
<1> DEFINE mine == saving[e]
           row == [version |-> mine.version, values |-> mine.values, createdAt |-> second]
<1>1. /\ saving[e] # NoRecipe /\ versions' = Append(versions, row)
      /\ saving' = [saving EXCEPT ![e] = NoRecipe]
      /\ recipe' = recipe /\ second' = second /\ saves' = saves /\ halved' = halved /\ overtaken' = overtaken
  BY DEF SaveRecipeVersion
<1>2. /\ saving' \in [Editors -> SavedRecipe \cup {NoRecipe}]
      /\ saving'[e] = NoRecipe /\ \A d \in Editors \ {e} : saving'[d] = saving[d]
      /\ mine \in SavedRecipe /\ mine.values \in UnderWay /\ mine.values \in 1..saves
      /\ \A n : n \in UnderWay' <=> n \in UnderWay /\ n # mine.values
  BY <1>1, NoMoreUnderWay
<1>3. second \in Nat /\ saves \in Nat /\ versions \in Seq(VersionRow) /\ Len(versions) \in Nat
      /\ DOMAIN versions = 1..Len(versions)
  BY DEF RecInv, RecTyped
<1> HIDE DEF mine
<1>4. row \in VersionRow /\ row.version = mine.version /\ row.values = mine.values /\ row.createdAt = second
  BY <1>2, <1>3 DEF VersionRow, SavedRecipe
<1> HIDE DEF row
<1> DEFINE more == Append(versions, row)
<1>5. /\ more \in Seq(VersionRow) /\ Len(more) = Len(versions) + 1
      /\ \A k \in 1..Len(versions) : more[k] = versions[k]
      /\ more[Len(versions) + 1] = row /\ ToSet(more) = ToSet(versions) \cup {row}
  BY <1>3, <1>4, AppendedSet, AppendProperties
<1> HIDE DEF more
<1>6. versions' = more
  BY <1>1 DEF more
<1>7. \A k \in 1..Len(more) : k \in 1..Len(versions) \/ k = Len(versions) + 1
  BY <1>3, <1>5
<1>8. \A n : n \in Stored' <=> n \in Stored \/ n = mine.values
  BY <1>4, <1>5, <1>6 DEF Stored
<1>9. mine.values \notin Stored /\ mine.values \notin halved
  BY <1>2 DEF RecInv, SavesInv
<1>10. RecTyped'
  <2>1. \A k \in 1..Len(more) : more[k].values <= saves /\ more[k].createdAt <= second
    BY <1>2, <1>3, <1>4, <1>5, <1>7 DEF RecInv, RecTyped
  <2>2. \A d \in Editors : saving'[d] # NoRecipe => saving'[d].values <= saves
    BY <1>2 DEF RecInv, RecTyped
  <2> QED
    BY <1>1, <1>2, <1>5, <1>6, <2>1, <2>2 DEF RecInv, RecTyped
<1>11. SavesInv'
  <2>1. ASSUME NEW j \in 1..Len(more), NEW k \in 1..Len(more), more[j].values = more[k].values
        PROVE  j = k
    <3>1. \A i \in 1..Len(versions) : more[i].values # mine.values
      <4>1. \A i \in 1..Len(versions) : versions[i].values \in Stored
        BY <1>3 DEF Stored, ToSet
      <4> QED
        BY <4>1, <1>5, <1>9
    <3> QED
      BY <2>1, <3>1, <1>4, <1>5, <1>7 DEF RecInv, SavesInv
  <2>2. \A n \in 1..saves : n \in Stored' <=> n \notin halved \cup UnderWay'
    BY <1>2, <1>8, <1>9 DEF RecInv, SavesInv
  <2>3. UnderWay' \subseteq 1..saves /\ halved \cap UnderWay' = {} /\ Stored' \subseteq 1..saves
    BY <1>2, <1>8 DEF RecInv, SavesInv
  <2>4. \A c, d \in Editors : saving'[c] # NoRecipe /\ saving'[d] # NoRecipe /\ saving'[c].values = saving'[d].values
          => c = d
    BY <1>2 DEF RecInv, SavesInv
  <2> QED
    BY <1>1, <1>6, <2>1, <2>2, <2>3, <2>4 DEF RecInv, SavesInv
<1>12. LatestInv'
  <2>1. \A n \in UnderWay' : n \in overtaken \/ (recipe # NoRecipe /\ n = saves)
    BY <1>2 DEF RecInv, LatestInv
  <2>2. ASSUME recipe # NoRecipe, NEW own \in ToSet(more), own.values = saves
        PROVE  /\ own.version = recipe.version
               /\ \A x \in ToSet(more) : x.createdAt <= own.createdAt \/ x.values \in overtaken
    <3>1. CASE own = row
      <4>1. own.version = recipe.version
        BY <2>2, <3>1, <1>1, <1>4 DEF RecInv, LatestInv, mine
      <4>2. \A x \in ToSet(more) : x.createdAt <= second
        BY <1>3, <1>4, <1>5, RowsTyped
      <4> QED
        BY <3>1, <4>1, <4>2, <1>4
    <3>2. CASE own # row
      <4>1. own \in ToSet(versions)
        BY <2>2, <3>2, <1>5
      <4>2. saves \in Stored
        BY <4>1, <2>2 DEF Stored
      <4>3. row.values \in overtaken
        BY <4>2, <1>2, <1>4, <1>9 DEF RecInv, LatestInv
      <4> QED
        BY <4>1, <4>3, <2>2, <1>5 DEF RecInv, LatestInv
    <3> QED
      BY <3>1, <3>2
  <2>3. \A d \in Editors : recipe # NoRecipe /\ saving'[d] # NoRecipe /\ saving'[d].values = saves
          => saving'[d].version = recipe.version
    BY <1>2 DEF RecInv, LatestInv
  <2>4. recipe # NoRecipe => recipe.values = saves
    BY DEF RecInv, LatestInv
  <2> QED
    BY <1>1, <1>6, <2>1, <2>2, <2>3, <2>4 DEF LatestInv
<1> QED
  BY <1>10, <1>11, <1>12 DEF RecInv

LEMMA BreaksOffKeeps ==
  ASSUME RecInv, NEW e \in Editors, SaveBreaksOff(e)
  PROVE  RecInv'
<1>1. /\ saving[e] # NoRecipe /\ halved' = halved \cup {saving[e].values}
      /\ saving' = [saving EXCEPT ![e] = NoRecipe]
      /\ recipe' = recipe /\ versions' = versions /\ second' = second /\ saves' = saves /\ overtaken' = overtaken
  BY DEF SaveBreaksOff
<1>2. /\ saving' \in [Editors -> SavedRecipe \cup {NoRecipe}]
      /\ saving'[e] = NoRecipe /\ \A d \in Editors \ {e} : saving'[d] = saving[d]
      /\ saving[e].values \in UnderWay /\ saving[e].values \in 1..saves
      /\ \A n : n \in UnderWay' <=> n \in UnderWay /\ n # saving[e].values
  BY <1>1, NoMoreUnderWay
<1>3. Stored' = Stored
  BY <1>1 DEF Stored
<1>4. RecTyped'
  <2>1. \A d \in Editors : saving'[d] # NoRecipe => saving'[d].values <= saves
    BY <1>2 DEF RecInv, RecTyped
  <2> QED
    BY <1>1, <1>2, <2>1 DEF RecInv, RecTyped
<1>5. SavesInv'
  <2>1. \A n \in 1..saves : n \in Stored <=> n \notin halved' \cup UnderWay'
    BY <1>1, <1>2 DEF RecInv, SavesInv
  <2>2. halved' \subseteq 1..saves /\ UnderWay' \subseteq 1..saves /\ halved' \cap UnderWay' = {}
    BY <1>1, <1>2 DEF RecInv, SavesInv
  <2>3. \A c, d \in Editors : saving'[c] # NoRecipe /\ saving'[d] # NoRecipe /\ saving'[c].values = saving'[d].values
          => c = d
    BY <1>2 DEF RecInv, SavesInv
  <2> QED
    BY <1>1, <1>3, <2>1, <2>2, <2>3 DEF RecInv, SavesInv
<1>6. LatestInv'
  <2>1. \A n \in UnderWay' : n \in overtaken \/ (recipe # NoRecipe /\ n = saves)
    BY <1>2 DEF RecInv, LatestInv
  <2>2. \A d \in Editors : recipe # NoRecipe /\ saving'[d] # NoRecipe /\ saving'[d].values = saves
          => saving'[d].version = recipe.version
    BY <1>2 DEF RecInv, LatestInv
  <2> QED
    BY <1>1, <2>1, <2>2 DEF RecInv, LatestInv
<1> QED
  BY <1>4, <1>5, <1>6 DEF RecInv

LEMMA DeleteKeeps == ASSUME RecInv, DeleteRecipe PROVE RecInv'
<1>1. /\ recipe' = NoRecipe /\ overtaken' = overtaken \cup UnderWay
      /\ versions' = versions /\ second' = second /\ saves' = saves /\ saving' = saving /\ halved' = halved
  BY DEF DeleteRecipe
<1>2. UnderWay' = UnderWay /\ Stored' = Stored
  BY <1>1 DEF UnderWay, Stored
<1>3. RecTyped' /\ SavesInv'
  BY <1>1, <1>2 DEF RecInv, RecTyped, SavesInv
<1>4. LatestInv'
  BY <1>1, <1>2 DEF LatestInv
<1> QED
  BY <1>3, <1>4 DEF RecInv

LEMMA SecondPassesKeeps ==
  ASSUME RecInv, SecondPasses \/ UNCHANGED recipeVars
  PROVE  RecInv'
<1>1. /\ recipe' = recipe /\ overtaken' = overtaken
      /\ versions' = versions /\ saves' = saves /\ saving' = saving /\ halved' = halved
      /\ second' \in {second, second + 1} /\ second' <= MaxSeconds
  BY RecipeBoundsAssumption DEF SecondPasses, recipeVars, RecInv, RecTyped
<1>2. UnderWay' = UnderWay /\ Stored' = Stored
  BY <1>1 DEF UnderWay, Stored
<1>3. RecTyped'
  <2>1. second \in Nat /\ \A k \in 1..Len(versions) : versions[k].createdAt \in Nat
    BY VersionsTyped DEF RecInv, RecTyped
  <2>2. \A k \in 1..Len(versions) : versions[k].createdAt <= second'
    BY <1>1, <2>1 DEF RecInv, RecTyped
  <2> QED
    BY <1>1, <2>1, <2>2 DEF RecInv, RecTyped
<1>4. SavesInv' /\ LatestInv'
  BY <1>1, <1>2 DEF RecInv, SavesInv, LatestInv
<1> QED
  BY <1>3, <1>4 DEF RecInv

LEMMA RecStep == ASSUME RecInv, [RecipeNext]_recipeVars PROVE RecInv'
<1>1. CASE \E e \in Editors : SaveRecipe(e) \/ SaveRecipeVersion(e) \/ SaveBreaksOff(e)
  BY <1>1, SaveRecipeKeeps, SaveVersionKeeps, BreaksOffKeeps
<1>2. CASE DeleteRecipe
  BY <1>2, DeleteKeeps
<1>3. CASE SecondPasses \/ UNCHANGED recipeVars
  BY <1>3, SecondPassesKeeps
<1> QED
  BY <1>1, <1>2, <1>3 DEF RecipeNext

LEMMA RecIsSound == RecInv => RecipesSound
<1> SUFFICES ASSUME RecInv PROVE RecipesSound
  OBVIOUS
<1>1. /\ saves \in Nat /\ saves <= MaxSaves /\ second \in Nat /\ versions \in Seq(VersionRow)
      /\ DOMAIN versions = 1..Len(versions) /\ MaxSaves \in Nat /\ MaxSeconds \in Nat
  BY RecipeBoundsAssumption DEF RecInv, RecTyped
<1>2. RecipeTypeOK
  <2>1. saves \in 0..MaxSaves /\ second \in 0..MaxSeconds
    BY <1>1 DEF RecInv, RecTyped
  <2>2. \A r \in SavedRecipe : r.values <= saves => r \in [version : VersionNames, values : 1..saves]
    BY <1>1 DEF SavedRecipe
  <2>3. recipe \in {NoRecipe} \cup [version : VersionNames, values : 1..saves]
    <3>1. recipe # NoRecipe => recipe \in SavedRecipe /\ recipe.values <= saves
      BY <1>1 DEF RecInv, RecTyped, LatestInv
    <3> QED
      BY <2>2, <3>1
  <2>4. saving \in [Editors -> {NoRecipe} \cup [version : VersionNames, values : 1..saves]]
    <3>1. saving \in [Editors -> SavedRecipe \cup {NoRecipe}]
          /\ \A e \in Editors : saving[e] # NoRecipe => saving[e].values <= saves
      BY DEF RecInv, RecTyped
    <3>2. \A e \in Editors : saving[e] \in {NoRecipe} \cup [version : VersionNames, values : 1..saves]
      BY <2>2, <3>1
    <3> QED
      BY <3>1, <3>2
  <2>5. \A r \in VersionRow : r.values <= saves /\ r.createdAt <= second =>
          r \in [version : VersionNames, values : 1..saves, createdAt : 0..second]
    BY <1>1 DEF VersionRow
  <2>6. \A k \in DOMAIN versions : versions[k] \in [version : VersionNames, values : 1..saves, createdAt : 0..second]
    BY <1>1, <2>5 DEF RecInv, RecTyped
  <2> QED
    BY <2>1, <2>3, <2>4, <2>6 DEF RecipeTypeOK
<1>3. EverySaveKept
  <2>1. Stored \subseteq (1..saves) \ (halved \cup UnderWay) /\ (1..saves) \ (halved \cup UnderWay) \subseteq Stored
    BY DEF RecInv, SavesInv
  <2>2. Stored = (1..saves) \ (halved \cup UnderWay)
    BY <2>1, Zenon
  <2> QED
    BY <1>1, <2>2 DEF EverySaveKept, Stored, RecInv, SavesInv
<1>4. LatestSnapshot
  <2> SUFFICES ASSUME recipe # NoRecipe, recipe.values \notin halved \cup UnderWay \cup overtaken
               PROVE  LET own == CHOOSE x \in ToSet(versions) : x.values = recipe.values IN
                        \/ Snapshots(recipe.version) = {recipe.values}
                        \/ \E x \in ToSet(versions) \ {own} :
                             x.version = own.version /\ (x.createdAt = own.createdAt \/ x.values \in overtaken)
    BY DEF LatestSnapshot
  <2> DEFINE own == CHOOSE x \in ToSet(versions) : x.values = recipe.values
  <2>1. recipe.values = saves /\ saves \in 1..saves
    BY <1>1 DEF RecInv, RecTyped, LatestInv, SavedRecipe
  <2>2. saves \in Stored
    BY <2>1 DEF RecInv, SavesInv
  <2>3. \E x \in ToSet(versions) : x.values = recipe.values
    BY <2>1, <2>2 DEF Stored
  <2>4. own \in ToSet(versions) /\ own.values = recipe.values
    BY <2>3
  <2> HIDE DEF own
  <2>5. own.version = recipe.version
        /\ \A x \in ToSet(versions) : x.createdAt <= own.createdAt \/ x.values \in overtaken
    BY <2>1, <2>4 DEF RecInv, LatestInv
  <2>6. SUFFICES ASSUME \A x \in ToSet(versions) \ {own} :
                          x.version = own.version => x.createdAt # own.createdAt /\ x.values \notin overtaken
                 PROVE  Snapshots(recipe.version) = {recipe.values}
    BY DEF own
  <2> DEFINE rows == {y \in ToSet(versions) : y.version = recipe.version}
  <2>7. \A x \in rows : x.createdAt \in Nat
    BY RowsTyped
  <2>8. own \in rows /\ \A x \in rows : x.createdAt <= own.createdAt
    BY <2>4, <2>5, <2>6, <2>7
  <2>9. \A x \in rows : own.createdAt <= x.createdAt => x = own
    BY <2>5, <2>6, <2>7, <2>8
  <2> HIDE DEF rows
  <2>10. \A x : x \in Newest(rows) <=> x = own
    BY <2>8, <2>9 DEF Newest
  <2>11. Snapshots(recipe.version) = {x.values : x \in Newest(rows)}
    BY DEF Snapshots, rows
  <2> QED
    BY <2>4, <2>10, <2>11
<1> QED
  BY <1>2, <1>3, <1>4 DEF RecipesSound

\* However runs end, statements fail, the process dies, threads append at once and other
\* connections read and purge: a result is stored whole or not at all, is there until it
\* is purged, and is read whole; and every save of a recipe has its version, the latest
\* of which is the recipe's, but for the exceptions LatestSnapshot names
\* (TestResultCollector.cpp:77-123, SqliteTestRepository.cpp:171-191,
\* SqliteRecipeRepository.cpp:144-163).
THEOREM StoresAreSound == StoresSpec => []StoresSound
<1>1. ResInv /\ [ResNext]_resultVars => ResInv'
  BY ResStep
<1>2. RecInv /\ [RecipeNext]_recipeVars => RecInv'
  BY RecStep
<1>3. ResInv /\ RecInv => StoresSound
  BY ResIsSound, RecIsSound DEF StoresSound
<1> QED
  BY <1>1, <1>2, <1>3, ResInitially, RecInitially, PTL DEF StoresSpec, ResSpec, RecipeSpec

-------------------------------------------------------------------------------
(***************************************************************************)
(* PluginHost.  After the first n files of a directory the table of a kind *)
(* has the first good file of every id, whatever was refused in between;   *)
(* that follows from one file to the next, not from one load to another.   *)
(***************************************************************************)

\* The files of a kind that are to be known, of the first n.
GoodFiles(files, kind, n) ==
  {i \in 1..n :
     /\ files[i].kind = kind /\ files[i].declaredKind = kind
     /\ files[i].version = "1.0" /\ files[i].compatible
     /\ files[i].declaredId \in {Undeclared, files[i].id}}

Firsts(files, kind, n) ==
  {j \in GoodFiles(files, kind, n) : \A k \in GoodFiles(files, kind, n) : files[k].id = files[j].id => j <= k}

TableOf(files, kind, n) == {[id |-> files[i].id, place |-> i] : i \in Firsts(files, kind, n)}

\* What the tables and the list of loaders are after the first n files.
HostAfter(host, files, n) ==
  /\ host = [byId |-> host.byId, loaded |-> host.loaded]
  /\ host.byId = [kind \in PluginKinds |-> TableOf(files, kind, n)]
  /\ host.loaded \in Seq(Nat)
  /\ \A i, j \in 1..Len(host.loaded) : host.loaded[i] = host.loaded[j] => i = j
  /\ \A i \in 1..Len(host.loaded) : \E kind \in PluginKinds : host.loaded[i] \in Firsts(files, kind, n)
  /\ \A kind \in PluginKinds : \A x \in Firsts(files, kind, n) : \E i \in 1..Len(host.loaded) : host.loaded[i] = x

\* Of good files with one id there is a first.
LEMMA FirstOfId ==
  ASSUME NEW files, NEW kind, NEW n \in Nat, NEW i \in GoodFiles(files, kind, n)
  PROVE  \E j \in Firsts(files, kind, n) : files[j].id = files[i].id /\ j <= i
<1> DEFINE T == {k \in GoodFiles(files, kind, n) : files[k].id = files[i].id}
<1>1. T \subseteq Nat /\ T # {}
  BY DEF GoodFiles
<1>2. PICK j \in T : \A k \in T : j <= k
  BY <1>1, LeastOf
<1>3. j \in Firsts(files, kind, n)
  BY <1>2 DEF Firsts
<1> QED
  BY <1>2, <1>3

\* Another file is the first of its id, or changes nothing.
LEMMA FirstsGrow ==
  ASSUME NEW files, NEW kind, NEW n \in Nat
  PROVE  /\ \A x \in Firsts(files, kind, n) : x \in 1..n
         /\ Firsts(files, kind, n + 1) =
              IF /\ n + 1 \in GoodFiles(files, kind, n + 1)
                 /\ \A x \in Firsts(files, kind, n) : files[x].id # files[n + 1].id
              THEN Firsts(files, kind, n) \cup {n + 1} ELSE Firsts(files, kind, n)
<1>1. \A x \in GoodFiles(files, kind, n) : x \in 1..n
  BY DEF GoodFiles
<1>2. \A x : x \in GoodFiles(files, kind, n + 1) <=>
               \/ x \in GoodFiles(files, kind, n)
               \/ x = n + 1 /\ n + 1 \in GoodFiles(files, kind, n + 1)
  <2>1. \A x : x \in 1..n + 1 <=> x \in 1..n \/ x = n + 1
    OBVIOUS
  <2> QED
    BY <2>1 DEF GoodFiles
<1>3. \A x \in GoodFiles(files, kind, n) : x \in Firsts(files, kind, n + 1) <=> x \in Firsts(files, kind, n)
  BY <1>1, <1>2 DEF Firsts
<1>4. n + 1 \in Firsts(files, kind, n + 1) <=>
        /\ n + 1 \in GoodFiles(files, kind, n + 1)
        /\ \A x \in Firsts(files, kind, n) : files[x].id # files[n + 1].id
  <2>1. ASSUME n + 1 \in Firsts(files, kind, n + 1), NEW x \in Firsts(files, kind, n)
        PROVE  files[x].id # files[n + 1].id
    BY <1>1, <1>2, <2>1 DEF Firsts
  <2>2. ASSUME n + 1 \in GoodFiles(files, kind, n + 1),
               \A x \in Firsts(files, kind, n) : files[x].id # files[n + 1].id
        PROVE  n + 1 \in Firsts(files, kind, n + 1)
    <3>1. \A x \in GoodFiles(files, kind, n) : files[x].id # files[n + 1].id
      BY <2>2, FirstOfId
    <3> QED
      BY <1>2, <2>2, <3>1 DEF Firsts
  <2>3. n + 1 \in Firsts(files, kind, n + 1) => n + 1 \in GoodFiles(files, kind, n + 1)
    BY DEF Firsts
  <2> QED
    BY <2>1, <2>2, <2>3
<1>5. \A x \in Firsts(files, kind, n + 1) : x \in GoodFiles(files, kind, n + 1)
  BY DEF Firsts
<1>6. \A x \in Firsts(files, kind, n) : x \in GoodFiles(files, kind, n)
  BY DEF Firsts
<1>7. \A x : x \in Firsts(files, kind, n + 1) <=>
               x \in Firsts(files, kind, n) \/ (x = n + 1 /\ n + 1 \in Firsts(files, kind, n + 1))
  BY <1>2, <1>3, <1>5, <1>6
<1>8. n + 1 \in Firsts(files, kind, n + 1) => Firsts(files, kind, n + 1) = Firsts(files, kind, n) \cup {n + 1}
  BY <1>7
<1>9. n + 1 \notin Firsts(files, kind, n + 1) => Firsts(files, kind, n + 1) = Firsts(files, kind, n)
  BY <1>7
<1>10. \A x \in Firsts(files, kind, n) : x \in 1..n
  BY <1>1, <1>6
<1> QED
  BY <1>4, <1>8, <1>9, <1>10

\* A file that changes no table leaves everything as it was.
LEMMA HostStays ==
  ASSUME NEW files, NEW n \in Nat, NEW host, HostAfter(host, files, n),
         \A kind \in PluginKinds : Firsts(files, kind, n + 1) = Firsts(files, kind, n)
  PROVE  HostAfter(host, files, n + 1)
<1>1. \A kind \in PluginKinds : TableOf(files, kind, n + 1) = TableOf(files, kind, n)
  BY DEF TableOf
<1> QED
  BY <1>1 DEF HostAfter

LEMMA FileRead ==
  ASSUME NEW files, NEW n \in Nat, NEW host, HostAfter(host, files, n)
  PROVE  HostAfter(ReadFile(host, n + 1, files[n + 1]), files, n + 1)
<1> DEFINE f == files[n + 1]
           new == [id |-> f.id, place |-> n + 1]
           inserted == host.byId[f.kind] \cup {new}
<1>1. host.byId = [kind \in PluginKinds |-> TableOf(files, kind, n)]
  BY DEF HostAfter
<1>2. \A kind \in PluginKinds : n + 1 \in GoodFiles(files, kind, n + 1) =>
        f.kind = kind /\ ManifestFits(f) /\ DeclaredAs(f)
  BY DEF GoodFiles, ManifestFits, DeclaredAs
<1>3. \A kind \in PluginKinds : f.kind # kind => n + 1 \notin GoodFiles(files, kind, n + 1)
  BY DEF GoodFiles
<1>4. \A kind \in PluginKinds : n + 1 \notin GoodFiles(files, kind, n + 1) =>
        Firsts(files, kind, n + 1) = Firsts(files, kind, n)
  BY FirstsGrow
<1>5. CASE ~ManifestFits(f) \/ f.kind \notin PluginKinds
  <2>1. ReadFile(host, n + 1, f) = host
    BY <1>5 DEF ReadFile
  <2>2. \A kind \in PluginKinds : n + 1 \notin GoodFiles(files, kind, n + 1)
    BY <1>2, <1>5
  <2> QED
    BY <1>4, <2>1, <2>2, HostStays
<1>6. CASE ManifestFits(f) /\ f.kind \in PluginKinds /\ \E p \in host.byId[f.kind] : p.id = f.id
  <2>1. ReadFile(host, n + 1, f) = host
    BY <1>6 DEF ReadFile
  <2>2. \E x \in Firsts(files, f.kind, n) : files[x].id = f.id
    BY <1>1, <1>6 DEF TableOf
  <2>3. Firsts(files, f.kind, n + 1) = Firsts(files, f.kind, n)
    BY <2>2, FirstsGrow
  <2>4. \A kind \in PluginKinds : Firsts(files, kind, n + 1) = Firsts(files, kind, n)
    BY <1>3, <1>4, <2>3
  <2> QED
    BY <2>1, <2>4, HostStays
<1>7. CASE ManifestFits(f) /\ f.kind \in PluginKinds /\ ~ \E p \in host.byId[f.kind] : p.id = f.id
  <2>1. ReadFile(host, n + 1, f) =
          IF DeclaredAs(f)
          THEN [byId |-> [host.byId EXCEPT ![f.kind] = inserted], loaded |-> Append(host.loaded, n + 1)]
          ELSE [host EXCEPT !.byId[f.kind] = {p \in inserted : p.id # f.id}]
    BY <1>7 DEF ReadFile
  <2>2. CASE ~DeclaredAs(f)
    <3>1. {p \in inserted : p.id # f.id} = host.byId[f.kind]
      BY <1>7
    <3>2. host = [byId |-> host.byId, loaded |-> host.loaded]
      BY DEF HostAfter
    <3>3. [host EXCEPT !.byId[f.kind] = {p \in inserted : p.id # f.id}] = host
      <4> HIDE DEF f, inserted
      <4> QED
        BY <1>1, <3>1, <3>2
    <3>4. \A kind \in PluginKinds : n + 1 \notin GoodFiles(files, kind, n + 1)
      BY <1>2, <2>2
    <3> QED
      BY <1>4, <2>1, <2>2, <3>3, <3>4, HostStays
  <2>3. CASE DeclaredAs(f)
    <3> DEFINE next == [byId |-> [host.byId EXCEPT ![f.kind] = inserted], loaded |-> Append(host.loaded, n + 1)]
               l == host.loaded
               F(kind) == Firsts(files, kind, n)
    <3>1. n + 1 \in GoodFiles(files, f.kind, n + 1)
      BY <1>7, <2>3 DEF GoodFiles, ManifestFits, DeclaredAs
    <3>2. \A x \in F(f.kind) : files[x].id # f.id
      <4> TAKE x \in F(f.kind)
      <4>1. [id |-> files[x].id, place |-> x] \in host.byId[f.kind]
        BY <1>1, <1>7 DEF TableOf
      <4> QED
        BY <1>7, <4>1
    <3>3. Firsts(files, f.kind, n + 1) = F(f.kind) \cup {n + 1}
      BY <3>1, <3>2, FirstsGrow
    <3>4. \A kind \in PluginKinds : kind # f.kind => Firsts(files, kind, n + 1) = F(kind)
      BY <1>3, <1>4
    <3>5. TableOf(files, f.kind, n + 1) = TableOf(files, f.kind, n) \cup {new}
      BY <3>3 DEF TableOf
    <3>6. \A kind \in PluginKinds : kind # f.kind => TableOf(files, kind, n + 1) = TableOf(files, kind, n)
      BY <3>4 DEF TableOf
    <3>7. next.byId = [kind \in PluginKinds |-> TableOf(files, kind, n + 1)]
      <4>1. next.byId = [host.byId EXCEPT ![f.kind] = inserted]
        OBVIOUS
      <4>2. inserted = TableOf(files, f.kind, n + 1)
        BY <1>1, <1>7, <3>5
      <4> HIDE DEF f, next, inserted
      <4> QED
        BY <1>1, <1>7, <3>6, <4>1, <4>2
    <3>8. next.loaded = Append(l, n + 1) /\ l \in Seq(Nat)
      BY DEF HostAfter
    <3> DEFINE m == next.loaded
    <3>9. next = [byId |-> next.byId, loaded |-> next.loaded]
      OBVIOUS
    <3> HIDE DEF next, f, l
    <3>10. /\ m \in Seq(Nat) /\ Len(l) \in Nat /\ Len(m) = Len(l) + 1 /\ m[Len(l) + 1] = n + 1
           /\ \A i \in 1..Len(l) : m[i] = l[i]
      BY <3>8
    <3> HIDE DEF m
    <3>11. \A i \in 1..Len(l) : l[i] \in 1..n
      BY FirstsGrow DEF HostAfter, l
    <3>12. \A i, j \in 1..Len(m) : m[i] = m[j] => i = j
      <4>1. \A i, j \in 1..Len(l) : l[i] = l[j] => i = j
        BY DEF HostAfter, l
      <4>2. \A i \in 1..Len(m) : i \in 1..Len(l) \/ i = Len(l) + 1
        BY <3>10
      <4>3. \A i \in 1..Len(l) : m[i] # n + 1
        BY <3>10, <3>11
      <4> QED
        BY <3>10, <4>1, <4>2, <4>3
    <3>13. \A i \in 1..Len(m) : \E kind \in PluginKinds : m[i] \in Firsts(files, kind, n + 1)
      <4> TAKE i \in 1..Len(m)
      <4>1. CASE i \in 1..Len(l)
        <5>1. PICK kind \in PluginKinds : l[i] \in F(kind)
          BY <4>1 DEF HostAfter, l
        <5> QED
          BY <3>3, <3>4, <3>10, <4>1, <5>1
      <4>2. CASE i \notin 1..Len(l)
        <5>1. i = Len(l) + 1
          BY <3>10, <4>2
        <5> QED
          BY <1>7, <3>3, <3>10, <5>1
      <4> QED
        BY <4>1, <4>2
    <3>14. ASSUME NEW kind \in PluginKinds, NEW x \in Firsts(files, kind, n + 1)
           PROVE  \E i \in 1..Len(m) : m[i] = x
      <4>1. CASE x \in F(kind)
        <5>1. PICK i \in 1..Len(l) : l[i] = x
          BY <4>1 DEF HostAfter, l
        <5>2. i \in 1..Len(m)
          BY <3>10
        <5> QED
          BY <3>10, <5>1, <5>2
      <4>2. CASE x \notin F(kind)
        <5>1. x = n + 1 /\ Len(l) + 1 \in 1..Len(m)
          BY <3>3, <3>4, <3>10, <4>2
        <5> QED
          BY <3>10, <5>1
      <4> QED
        BY <4>1, <4>2
    <3>15. HostAfter(next, files, n + 1)
      BY <3>7, <3>9, <3>10, <3>12, <3>13, <3>14 DEF HostAfter, m
    <3> QED
      BY <2>1, <2>3, <3>15 DEF next, f
  <2> QED
    BY <2>2, <2>3
<1> QED
  BY <1>5, <1>6, <1>7

NoHost == [byId |-> [kind \in PluginKinds |-> {}], loaded |-> <<>>]

\* What reading the files up to n gives.
ReadUpTo(f, files, n) ==
  f = [i \in 0..n |-> IF i = 0 THEN [byId |-> [kind \in PluginKinds |-> {}], loaded |-> <<>>]
                      ELSE ReadFile(f[i - 1], i, files[i])]

LEMMA ReadExists ==
  ASSUME NEW files
  PROVE  \A n \in Nat : \E f : ReadUpTo(f, files, n)
<1> DEFINE S == {n \in Nat : \E f : ReadUpTo(f, files, n)}
           step(h, i) == IF i = 0 THEN NoHost ELSE ReadFile(h[i - 1], i, files[i])
<1>1. 0 \in S
  <2>1. ReadUpTo([i \in 0..0 |-> NoHost], files, 0)
    BY DEF ReadUpTo, NoHost
  <2> QED
    BY <2>1
<1>2. ASSUME NEW n \in Nat, n \in S PROVE n + 1 \in S
  <2>1. PICK f : ReadUpTo(f, files, n)
    BY <1>2
  <2> DEFINE g == [i \in 0..n + 1 |-> IF i = n + 1 THEN step(f, i) ELSE f[i]]
  <2>2. \A i \in 0..n : f[i] = step(f, i)
    BY <2>1 DEF ReadUpTo, NoHost
  <2>3. \A i \in 0..n : g[i] = f[i]
    OBVIOUS
  <2>4. g[n + 1] = step(f, n + 1)
    OBVIOUS
  <2>5. ASSUME NEW i \in 0..n + 1 PROVE g[i] = step(g, i)
    <3>1. CASE i = 0
      BY <3>1, <2>2, <2>3
    <3>2. CASE i # 0
      <4>1. i - 1 \in 0..n
        BY <3>2
      <4>2. g[i - 1] = f[i - 1]
        BY <4>1, <2>3
      <4>3. g[i] = step(f, i)
        <5>1. CASE i = n + 1
          BY <5>1, <2>4
        <5>2. CASE i # n + 1
          <6>1. i \in 0..n
            BY <5>2
          <6> QED
            BY <6>1, <2>2, <2>3
        <5> QED
          BY <5>1, <5>2
      <4> HIDE DEF g
      <4> QED
        BY <4>2, <4>3
    <3> QED
      BY <3>1, <3>2
  <2>6. DOMAIN g = 0..n + 1 /\ g = [i \in DOMAIN g |-> g[i]]
    OBVIOUS
  <2> HIDE DEF g
  <2>7. ReadUpTo(g, files, n + 1)
    BY <2>5, <2>6, Zenon DEF ReadUpTo, NoHost
  <2> QED
    BY <2>7
<1> HIDE DEF S
<1>3. \A n \in Nat : n \in S
  BY <1>1, <1>2, SetInduction
<1> QED
  BY <1>3 DEF S

LEMMA FilesRead ==
  ASSUME NEW files, files \in Seq(ToSet(files))
  PROVE  HostAfter(ReadFiles(files), files, Len(files))
<1> DEFINE N == Len(files)
           h == CHOOSE f : ReadUpTo(f, files, N)
           S == {n \in Nat : n <= N => HostAfter(h[n], files, n)}
<1>0. N \in Nat
  OBVIOUS
<1>1. ReadUpTo(h, files, N)
  <2> HIDE DEF N
  <2> QED
    BY <1>0, ReadExists
<1>2. ReadFiles(files) = h[N]
  BY DEF ReadFiles, ReadUpTo
<1>3. \A n \in 0..N : h[n] = IF n = 0 THEN NoHost ELSE ReadFile(h[n - 1], n, files[n])
  <2> HIDE DEF h, N
  <2> QED
    BY <1>1 DEF ReadUpTo, NoHost
<1> HIDE DEF h, N
<1>4. 0 \in S
  <2>1. h[0] = NoHost
    BY <1>0, <1>3
  <2>2. \A kind \in PluginKinds : Firsts(files, kind, 0) = {} /\ TableOf(files, kind, 0) = {}
    BY DEF GoodFiles, Firsts, TableOf
  <2>3. HostAfter(NoHost, files, 0)
    <3>1. NoHost.byId = [kind \in PluginKinds |-> {}] /\ NoHost.loaded = <<>>
          /\ NoHost = [byId |-> NoHost.byId, loaded |-> NoHost.loaded]
      BY DEF NoHost
    <3>2. NoHost.byId = [kind \in PluginKinds |-> TableOf(files, kind, 0)]
      BY <2>2, <3>1
    <3> QED
      BY <2>2, <3>1, <3>2 DEF HostAfter
  <2> QED
    BY <2>1, <2>3
<1>5. ASSUME NEW n \in Nat, n \in S PROVE n + 1 \in S
  <2> SUFFICES ASSUME n + 1 <= N PROVE HostAfter(h[n + 1], files, n + 1)
    OBVIOUS
  <2>1. HostAfter(h[n], files, n)
    BY <1>0, <1>5
  <2>2. h[n + 1] = ReadFile(h[n], n + 1, files[n + 1])
    BY <1>0, <1>3
  <2> QED
    BY <2>1, <2>2, FileRead
<1> HIDE DEF S
<1>6. \A n \in Nat : n \in S
  BY <1>4, <1>5, SetInduction
<1>7. N \in S
  BY <1>6, <1>0
<1> QED
  BY <1>7, <1>2, <1>0 DEF S, N

\* The tables are those of the directory read last.
LoadInv ==
  /\ directory \in Seq(ToSet(directory))
  /\ HostAfter([byId |-> byId, loaded |-> loaded], directory, Len(directory))

LEMMA TablesFollow ==
  ASSUME LoadInv
  PROVE  TablesExact /\ LoadersKept
<1> DEFINE N == Len(directory)
<1>1. /\ byId = [kind \in PluginKinds |-> TableOf(directory, kind, N)] /\ loaded \in Seq(Nat)
      /\ \A i, j \in 1..Len(loaded) : loaded[i] = loaded[j] => i = j
      /\ \A i \in 1..Len(loaded) : \E kind \in PluginKinds : loaded[i] \in Firsts(directory, kind, N)
      /\ \A kind \in PluginKinds : \A x \in Firsts(directory, kind, N) : \E i \in 1..Len(loaded) : loaded[i] = x
  BY DEF LoadInv, HostAfter
<1>2. DOMAIN directory = 1..N /\ DOMAIN loaded = 1..Len(loaded)
  BY <1>1 DEF LoadInv
<1>3. TablesExact
  <2> SUFFICES ASSUME NEW kind \in PluginKinds
               PROVE  LET good == {i \in DOMAIN directory :
                             /\ directory[i].kind = kind /\ directory[i].declaredKind = kind
                             /\ directory[i].version = "1.0" /\ directory[i].compatible
                             /\ directory[i].declaredId \in {Undeclared, directory[i].id}}
                      IN byId[kind] = {[id |-> directory[i].id, place |-> i] :
                             i \in {j \in good : \A k \in good : directory[k].id = directory[j].id => j <= k}}
    BY DEF TablesExact
  <2>1. GoodFiles(directory, kind, N) = {i \in DOMAIN directory :
                             /\ directory[i].kind = kind /\ directory[i].declaredKind = kind
                             /\ directory[i].version = "1.0" /\ directory[i].compatible
                             /\ directory[i].declaredId \in {Undeclared, directory[i].id}}
    BY <1>2 DEF GoodFiles
  <2>2. byId[kind] = TableOf(directory, kind, N)
    BY <1>1
  <2> QED
    BY <2>1, <2>2 DEF TableOf, Firsts
<1>4. LoadersKept
  <2>1. \A i, j \in DOMAIN loaded : loaded[i] = loaded[j] => i = j
    BY <1>1, <1>2
  <2>2. ASSUME NEW x \in ToSet(loaded)
        PROVE  x \in {p.place : p \in UNION {byId[kind] : kind \in PluginKinds}}
    <3>1. PICK i \in 1..Len(loaded) : x = loaded[i]
      BY <1>2 DEF ToSet
    <3>2. PICK kind \in PluginKinds : x \in Firsts(directory, kind, N)
      BY <1>1, <3>1
    <3>3. [id |-> directory[x].id, place |-> x] \in byId[kind]
      BY <1>1, <3>2 DEF TableOf
    <3> QED
      BY <3>3
  <2>3. ASSUME NEW p \in UNION {byId[kind] : kind \in PluginKinds}
        PROVE  p.place \in ToSet(loaded)
    <3>1. PICK kind \in PluginKinds : p \in TableOf(directory, kind, N)
      BY <1>1
    <3>2. p.place \in Firsts(directory, kind, N)
      BY <3>1 DEF TableOf
    <3> QED
      BY <1>1, <1>2, <3>2 DEF ToSet
  <2>4. ToSet(loaded) \subseteq {p.place : p \in UNION {byId[kind] : kind \in PluginKinds}}
    BY <2>2
  <2>5. {p.place : p \in UNION {byId[kind] : kind \in PluginKinds}} \subseteq ToSet(loaded)
    BY <2>3
  <2> QED
    BY <2>1, <2>4, <2>5, Zenon DEF LoadersKept
<1> QED
  BY <1>3, <1>4

\* The index is made of plugins that are registered, and each that has a capability is there.
RegistryInv ==
  /\ registered \subseteq [id : PluginIds, capabilities : SUBSET Capabilities]
  /\ index \in [Capabilities -> Seq(PluginIds)]
  /\ IndexFollows

LEMMA RegistryStep ==
  ASSUME RegistryInv, RegistryNext
  PROVE  RegistryInv'
<1>1. ASSUME NEW id \in PluginIds, NEW capabilities \in SUBSET Capabilities, RegisterPlugin(id, capabilities)
      PROVE  RegistryInv'
  <2> DEFINE Able(reg, c) == {p.id : p \in {q \in reg : c \in q.capabilities}}
             known == \E p \in registered : p.id = id
  <2>1. /\ registered' = {p \in registered : p.id # id} \cup {[id |-> id, capabilities |-> capabilities]}
        /\ index' = [c \in Capabilities |-> IF c \in capabilities THEN Append(index[c], id) ELSE index[c]]
        /\ repeated' = IF known THEN repeated \cup {id} ELSE repeated
    BY <1>1 DEF RegisterPlugin
  <2>2. registered' \subseteq [id : PluginIds, capabilities : SUBSET Capabilities]
    BY <2>1 DEF RegistryInv
  <2>3. index' \in [Capabilities -> Seq(PluginIds)]
    BY <2>1, AppendProperties DEF RegistryInv
  <2> DEFINE new == [id |-> id, capabilities |-> capabilities]
  <2>40. new.id = id /\ new.capabilities = capabilities /\ new \in registered'
    BY <2>1
  <2>4. {p.id : p \in registered'} = {p.id : p \in registered} \cup {id}
    <3>1. ASSUME NEW p \in registered' PROVE p.id \in {q.id : q \in registered} \cup {id}
      <4>1. p \in registered \/ p = new
        BY <2>1
      <4> QED
        BY <2>40, <4>1
    <3>2. ASSUME NEW p \in registered PROVE p.id \in {q.id : q \in registered'}
      <4>1. CASE p.id = id
        BY <2>40, <4>1
      <4>2. CASE p.id # id
        <5>1. p \in registered'
          BY <2>1, <4>2
        <5> QED
          BY <5>1
      <4> QED
        BY <4>1, <4>2
    <3>3. id \in {q.id : q \in registered'}
      BY <2>40
    <3>4. {p.id : p \in registered'} \subseteq {p.id : p \in registered} \cup {id}
      BY <3>1
    <3>5. {p.id : p \in registered} \cup {id} \subseteq {p.id : p \in registered'}
      BY <3>2, <3>3
    <3> QED
      BY <3>4, <3>5, Zenon
  <2>5. ASSUME NEW c \in Capabilities
        PROVE  /\ Able(registered', c) \subseteq ToSet(index'[c])
               /\ ToSet(index'[c]) \subseteq {p.id : p \in registered'}
               /\ ToSet(index'[c]) \subseteq Able(registered', c) \cup repeated'
               /\ \A i, j \in DOMAIN index'[c] :
                    index'[c][i] = index'[c][j] /\ index'[c][i] \notin repeated' => i = j
    <3> DEFINE s == index[c]
    <3>1. s \in Seq(PluginIds)
      BY DEF RegistryInv
    <3>2. /\ Able(registered, c) \subseteq ToSet(s) /\ ToSet(s) \subseteq {p.id : p \in registered}
          /\ ToSet(s) \subseteq Able(registered, c) \cup repeated
          /\ \A i, j \in DOMAIN s : s[i] = s[j] /\ s[i] \notin repeated => i = j
      BY DEF RegistryInv, IndexFollows
    <3>3. \A x : x # id => (x \in Able(registered', c) <=> x \in Able(registered, c))
      BY <2>1
    <3>4. id \in Able(registered', c) <=> c \in capabilities
      <4>1. ASSUME NEW p \in registered', p.id = id PROVE p.capabilities = capabilities
        <5>1. p = new
          BY <2>1, <4>1
        <5> QED
          BY <2>40, <5>1
      <4> HIDE DEF new
      <4>2. id \in Able(registered', c) => c \in capabilities
        BY <4>1
      <4>3. c \in capabilities => id \in Able(registered', c)
        BY <2>40
      <4> QED
        BY <4>2, <4>3
    <3>5. id \in ToSet(s) => id \in repeated'
      BY <2>1, <3>2
    <3>6. repeated \subseteq repeated'
      BY <2>1
    <3> HIDE DEF Able, s
    <3>7. CASE c \in capabilities
      <4>1. index'[c] = Append(s, id)
        BY <2>1, <3>7 DEF s
      <4>2. /\ Len(index'[c]) = Len(s) + 1 /\ Len(s) \in Nat /\ index'[c][Len(s) + 1] = id
            /\ \A i \in 1..Len(s) : index'[c][i] = s[i]
            /\ DOMAIN index'[c] = 1..Len(s) + 1 /\ DOMAIN s = 1..Len(s)
        BY <3>1, <4>1, AppendProperties
      <4>3. \A i \in 1..Len(s) + 1 : i \in 1..Len(s) \/ i = Len(s) + 1
        BY <4>2
      <4>4. \A i \in 1..Len(s) : i \in 1..Len(s) + 1
        BY <4>2
      <4>5. \A x : x \in ToSet(index'[c]) <=> x \in ToSet(s) \/ x = id
        <5>1. ASSUME NEW x \in ToSet(s) PROVE x \in ToSet(index'[c])
          BY <4>2, <4>4 DEF ToSet
        <5>2. id \in ToSet(index'[c])
          <6>1. Len(s) + 1 \in DOMAIN index'[c]
            BY <4>2
          <6> QED
            BY <4>2, <6>1 DEF ToSet
        <5>3. ASSUME NEW x \in ToSet(index'[c]) PROVE x \in ToSet(s) \/ x = id
          <6>1. PICK i \in 1..Len(s) + 1 : x = index'[c][i]
            BY <4>2 DEF ToSet
          <6>2. CASE i \in 1..Len(s)
            BY <4>2, <6>1, <6>2 DEF ToSet
          <6>3. CASE i = Len(s) + 1
            BY <4>2, <6>1, <6>3
          <6> QED
            BY <4>3, <6>2, <6>3
        <5> QED
          BY <5>1, <5>2, <5>3
      <4>6. ASSUME NEW i \in DOMAIN index'[c], NEW j \in DOMAIN index'[c],
                   index'[c][i] = index'[c][j], index'[c][i] \notin repeated'
            PROVE  i = j
        <5>1. CASE i \in 1..Len(s) /\ j \in 1..Len(s)
          BY <3>2, <3>6, <4>2, <4>6, <5>1
        <5>2. CASE i = Len(s) + 1 /\ j \in 1..Len(s)
          BY <3>5, <4>2, <4>6, <5>2 DEF ToSet
        <5>3. CASE j = Len(s) + 1 /\ i \in 1..Len(s)
          BY <3>5, <4>2, <4>6, <5>3 DEF ToSet
        <5> QED
          BY <4>2, <4>3, <5>1, <5>2, <5>3
      <4>7. Able(registered', c) \subseteq ToSet(index'[c])
        BY <3>2, <3>3, <4>5
      <4>8. ToSet(index'[c]) \subseteq {p.id : p \in registered'}
        BY <2>4, <3>2, <4>5
      <4>9. ToSet(index'[c]) \subseteq Able(registered', c) \cup repeated'
        BY <3>2, <3>3, <3>4, <3>6, <3>7, <4>5
      <4> QED
        BY <4>6, <4>7, <4>8, <4>9
    <3>8. CASE c \notin capabilities
      <4>1. index'[c] = s
        BY <2>1, <3>8 DEF s
      <4>2. Able(registered', c) \subseteq ToSet(s)
        BY <3>2, <3>3, <3>4, <3>8
      <4>3. ToSet(s) \subseteq {p.id : p \in registered'}
        BY <2>4, <3>2
      <4>4. ToSet(s) \subseteq Able(registered', c) \cup repeated'
        BY <3>2, <3>3, <3>5, <3>6
      <4> QED
        BY <3>2, <3>6, <4>1, <4>2, <4>3, <4>4
    <3> QED
      BY <3>7, <3>8
  <2>6. IndexFollows'
    BY <2>5 DEF IndexFollows
  <2> QED
    BY <2>2, <2>3, <2>6 DEF RegistryInv
<1>2. CASE ClearRegistry
  <2>1. registered' = {} /\ index' = [c \in Capabilities |-> <<>>]
    BY <1>2 DEF ClearRegistry
  <2> QED
    BY <2>1 DEF RegistryInv, IndexFollows, ToSet
<1> QED
  BY <1>1, <1>2 DEF RegistryNext

\* What the tables of plugins know.
LEMMA HostIsSound == HostSpec => []HostSound
<1>1. HostInit => LoadInv /\ RegistryInv
  <2> SUFFICES ASSUME HostInit PROVE LoadInv /\ RegistryInv
    OBVIOUS
  <2>1. \A kind \in PluginKinds : Firsts(<<>>, kind, 0) = {} /\ TableOf(<<>>, kind, 0) = {}
    BY DEF GoodFiles, Firsts, TableOf
  <2>2. byId = [kind \in PluginKinds |-> TableOf(<<>>, kind, 0)]
    BY <2>1 DEF HostInit
  <2>3. loaded = <<>> /\ directory = <<>> /\ registered = {} /\ index = [c \in Capabilities |-> <<>>]
    BY DEF HostInit
  <2>4. HostAfter([byId |-> byId, loaded |-> loaded], directory, Len(directory))
    BY <2>1, <2>2, <2>3 DEF HostAfter
  <2>5. directory \in Seq(ToSet(directory))
    BY <2>3
  <2>6. RegistryInv
    BY <2>3 DEF RegistryInv, IndexFollows, ToSet
  <2> QED
    BY <2>4, <2>5, <2>6 DEF LoadInv
<1>2. LoadInv /\ RegistryInv /\ [LoadNext \/ RegistryNext]_hostVars => LoadInv' /\ RegistryInv'
  <2> SUFFICES ASSUME LoadInv, RegistryInv, [LoadNext \/ RegistryNext]_hostVars
               PROVE  LoadInv' /\ RegistryInv'
    OBVIOUS
  <2>1. ASSUME UNCHANGED loadVars PROVE LoadInv'
    BY <2>1 DEF LoadInv, loadVars
  <2>2. ASSUME UNCHANGED registryVars PROVE RegistryInv'
    BY <2>2 DEF RegistryInv, IndexFollows, registryVars
  <2>3. ASSUME NEW files \in PluginDirectories, LoadPlugins(files)
        PROVE  LoadInv' /\ RegistryInv'
    <3>1. /\ byId' = ReadFiles(files).byId /\ loaded' = ReadFiles(files).loaded /\ directory' = files
          /\ UNCHANGED registryVars
      BY <2>3 DEF LoadPlugins
    <3>2. files \in Seq(ToSet(files))
      BY HostAssumption
    <3>3. HostAfter(ReadFiles(files), files, Len(files))
      BY <3>2, FilesRead
    <3>4. ReadFiles(files) = [byId |-> byId', loaded |-> loaded']
      BY <3>1, <3>3 DEF HostAfter
    <3>5. LoadInv'
      BY <3>1, <3>2, <3>3, <3>4 DEF LoadInv
    <3> QED
      BY <2>2, <3>1, <3>5
  <2>4. CASE RegistryNext
    <3>1. UNCHANGED loadVars
      BY <2>4 DEF RegistryNext, RegisterPlugin, ClearRegistry
    <3> QED
      BY <2>1, <2>4, <3>1, RegistryStep
  <2>5. CASE UNCHANGED hostVars
    BY <2>1, <2>2, <2>5 DEF hostVars
  <2> QED
    BY <2>3, <2>4, <2>5 DEF LoadNext
<1>3. LoadInv /\ RegistryInv => HostSound
  BY TablesFollow DEF RegistryInv, HostSound
<1> QED
  BY <1>1, <1>2, <1>3, PTL DEF HostSpec

-------------------------------------------------------------------------------
(***************************************************************************)
(* InstrumentManager.  What holds of the map and the ports after any       *)
(* number of entries: names and ports are taken once, an object of the map *)
(* has its port open, and as long as names differ an open port is that of  *)
(* the entry its object was made for.                                      *)
(***************************************************************************)
NamesAreOnes(list) == \A i, j \in 1..Len(list) : list[i].name = list[j].name => i = j

\* The port of an instrument is that of the entry with its name.
OwnPort(list, ports, i) ==
  \E k \in 1..Len(list) :
    list[k].name = i.name /\ \E p \in ports : p.port = list[k].port /\ p.object = i.object

Linked(list, top, map, ports) ==
  /\ top \in Nat
  /\ \A i \in map : i = [name |-> i.name, object |-> i.object] /\ i.object \in 1..top
  /\ \A p \in ports : p = [port |-> p.port, object |-> p.object] /\ p.object \in 1..top
  /\ \A i, j \in map : i.name = j.name => i = j
  /\ \A p, q \in ports : p.port = q.port => p = q
  /\ \A i \in map : \E k \in 1..Len(list) : list[k].name = i.name
  /\ \A i \in map : \E p \in ports : p.object = i.object
  /\ NamesDiffer =>
       /\ \A i \in map : OwnPort(list, ports, i)
       /\ \A p \in ports : \E i \in map : i.object = p.object

\* After n entries, if none has failed each has its name in the map.
ConnectedTo(m, list, n) ==
  /\ m = [ok |-> m.ok, made |-> m.made, map |-> m.map, ports |-> m.ports] /\ m.ok \in BOOLEAN
  /\ Linked(list, m.made, m.map, m.ports)
  /\ m.ok => \A k \in 1..n : \E i \in m.map : i.name = list[k].name

LEMMA EntryConnected ==
  ASSUME NEW list, list \in Seq(ToSet(list)), NamesDiffer => NamesAreOnes(list),
         NEW n \in Nat, n + 1 <= Len(list), NEW m, ConnectedTo(m, list, n)
  PROVE  ConnectedTo(ConnectEntry(m, list[n + 1]), list, n + 1)
<1> DEFINE e == list[n + 1]
           new == ConnectEntry(m, e)
           i0 == [name |-> e.name, object |-> m.made + 1]
           p0 == [port |-> e.port, object |-> m.made + 1]
<1>1. Linked(list, m.made, m.map, m.ports) /\ n + 1 \in 1..Len(list) /\ m.made \in Nat
  BY DEF ConnectedTo, Linked
<1>2. CASE ~m.ok
  <2>1. new = m
    BY <1>2 DEF ConnectEntry
  <2> QED
    BY <1>2, <2>1 DEF ConnectedTo
<1>3. CASE m.ok /\ (e.backend = "other" \/ e.driver = "other" \/ ~Opens(m, e))
  <2>1. new = [m EXCEPT !.ok = FALSE]
    BY <1>3 DEF ConnectEntry
  <2>2. new = [ok |-> FALSE, made |-> m.made, map |-> m.map, ports |-> m.ports]
    <3> HIDE DEF new, e
    <3> QED
      BY <2>1 DEF ConnectedTo
  <2> QED
    BY <1>1, <2>2 DEF ConnectedTo
<1>4. CASE m.ok /\ ~(e.backend = "other" \/ e.driver = "other" \/ ~Opens(m, e))
  <2>1. new = [ok |-> TRUE, made |-> m.made + 1, ports |-> m.ports \cup {p0},
               map |-> {i \in m.map : i.name # e.name} \cup {i0}]
    BY <1>4 DEF ConnectEntry
  <2>2. new.made = m.made + 1 /\ new.ports = m.ports \cup {p0} /\ new.ok = TRUE
        /\ new.map = {i \in m.map : i.name # e.name} \cup {i0}
        /\ new = [ok |-> new.ok, made |-> new.made, map |-> new.map, ports |-> new.ports]
    BY <2>1
  <2>3. \A p \in m.ports : p.port # e.port
    BY <1>4 DEF Opens
  <2>4. i0.name = e.name /\ i0.object = m.made + 1 /\ p0.port = e.port /\ p0.object = m.made + 1
        /\ i0 = [name |-> i0.name, object |-> i0.object] /\ p0 = [port |-> p0.port, object |-> p0.object]
    OBVIOUS
  <2>5. \A x \in 1..m.made : x \in 1..m.made + 1
    BY <1>1
  <2>6. m.made + 1 \in Nat /\ m.made + 1 \in 1..m.made + 1
    BY <1>1
  <2> HIDE DEF new, i0, p0
  <2>7. /\ \A i \in m.map : i = [name |-> i.name, object |-> i.object] /\ i.object \in 1..m.made
        /\ \A p \in m.ports : p = [port |-> p.port, object |-> p.object] /\ p.object \in 1..m.made
        /\ \A i, j \in m.map : i.name = j.name => i = j
        /\ \A p, q \in m.ports : p.port = q.port => p = q
        /\ \A i \in m.map : \E k \in 1..Len(list) : list[k].name = i.name
        /\ \A i \in m.map : \E p \in m.ports : p.object = i.object
    BY <1>1 DEF Linked
  <2>8. \A i \in new.map : (i \in m.map /\ i.name # e.name) \/ i = i0
    BY <2>2
  <2>9. \A p \in new.ports : p \in m.ports \/ p = p0
    BY <2>2
  <2>10. /\ \A i \in new.map : i = [name |-> i.name, object |-> i.object] /\ i.object \in 1..new.made
         /\ \A p \in new.ports : p = [port |-> p.port, object |-> p.object] /\ p.object \in 1..new.made
    BY <2>2, <2>4, <2>5, <2>6, <2>7, <2>8, <2>9
  <2>11. \A i, j \in new.map : i.name = j.name => i = j
    BY <2>4, <2>7, <2>8
  <2>12. \A p, q \in new.ports : p.port = q.port => p = q
    BY <2>3, <2>4, <2>7, <2>9
  <2>13. \A i \in new.map : \E k \in 1..Len(list) : list[k].name = i.name
    BY <1>1, <2>4, <2>7, <2>8
  <2>14. \A i \in new.map : \E p \in new.ports : p.object = i.object
    BY <2>2, <2>4, <2>7, <2>8
  <2>15. ASSUME NamesDiffer
         PROVE  /\ \A i \in new.map : OwnPort(list, new.ports, i)
                /\ \A p \in new.ports : \E i \in new.map : i.object = p.object
    <3>1. /\ \A i \in m.map : OwnPort(list, m.ports, i)
          /\ \A p \in m.ports : \E i \in m.map : i.object = p.object
          /\ NamesAreOnes(list)
      BY <1>1, <2>15 DEF Linked
    <3>2. \A i \in m.map : i.name # e.name
      <4> TAKE i \in m.map
      <4> SUFFICES ASSUME i.name = e.name PROVE FALSE
        OBVIOUS
      <4>1. PICK k \in 1..Len(list) :
              list[k].name = i.name /\ \E p \in m.ports : p.port = list[k].port /\ p.object = i.object
        BY <3>1 DEF OwnPort
      <4>2. k = n + 1
        BY <1>1, <3>1, <4>1 DEF NamesAreOnes
      <4> QED
        BY <2>3, <4>1, <4>2
    <3>3. \A i \in m.map : OwnPort(list, new.ports, i)
      BY <2>2, <3>1 DEF OwnPort
    <3>4. OwnPort(list, new.ports, i0)
      BY <1>1, <2>2, <2>4 DEF OwnPort
    <3>5. \A i \in new.map : OwnPort(list, new.ports, i)
      BY <2>8, <3>3, <3>4
    <3>6. \A i \in m.map : i \in new.map
      BY <2>2, <3>2
    <3>7. \A p \in new.ports : \E i \in new.map : i.object = p.object
      BY <2>2, <2>4, <2>9, <3>1, <3>6
    <3> QED
      BY <3>5, <3>7
  <2>16. Linked(list, new.made, new.map, new.ports)
    BY <2>2, <2>6, <2>10, <2>11, <2>12, <2>13, <2>14, <2>15 DEF Linked
  <2>17. \A k \in 1..n + 1 : \E i \in new.map : i.name = list[k].name
    <3> TAKE k \in 1..n + 1
    <3>1. CASE list[k].name = e.name
      BY <2>2, <2>4, <3>1
    <3>2. CASE list[k].name # e.name
      <4>1. k \in 1..n
        BY <3>2
      <4>2. PICK i \in m.map : i.name = list[k].name
        BY <1>4, <4>1 DEF ConnectedTo
      <4> QED
        BY <2>2, <3>2, <4>2
    <3> QED
      BY <3>1, <3>2
  <2> QED
    BY <2>2, <2>16, <2>17 DEF ConnectedTo, new
<1> QED
  BY <1>2, <1>3, <1>4

\* What connectAll has done after n entries.
ConnectedUpTo(f, list, map, ports, n) ==
  f = [i \in 0..n |-> IF i = 0 THEN [ok |-> TRUE, made |-> made, map |-> map, ports |-> ports]
                      ELSE ConnectEntry(f[i - 1], list[i])]

LEMMA ConnectedExists ==
  ASSUME NEW list, NEW map, NEW ports
  PROVE  \A n \in Nat : \E f : ConnectedUpTo(f, list, map, ports, n)
<1> DEFINE none == [ok |-> TRUE, made |-> made, map |-> map, ports |-> ports]
           S == {n \in Nat : \E f : ConnectedUpTo(f, list, map, ports, n)}
           step(h, i) == IF i = 0 THEN none ELSE ConnectEntry(h[i - 1], list[i])
<1> HIDE DEF none
<1>1. 0 \in S
  <2>1. ConnectedUpTo([i \in 0..0 |-> none], list, map, ports, 0)
    BY DEF ConnectedUpTo, none
  <2> QED
    BY <2>1
<1>2. ASSUME NEW n \in Nat, n \in S PROVE n + 1 \in S
  <2>1. PICK f : ConnectedUpTo(f, list, map, ports, n)
    BY <1>2
  <2> DEFINE g == [i \in 0..n + 1 |-> IF i = n + 1 THEN step(f, i) ELSE f[i]]
  <2>2. \A i \in 0..n : f[i] = step(f, i)
    BY <2>1 DEF ConnectedUpTo, none
  <2>3. \A i \in 0..n : g[i] = f[i]
    OBVIOUS
  <2>4. g[n + 1] = step(f, n + 1)
    OBVIOUS
  <2>5. ASSUME NEW i \in 0..n + 1 PROVE g[i] = step(g, i)
    <3>1. CASE i = 0
      BY <3>1, <2>2, <2>3
    <3>2. CASE i # 0
      <4>1. i - 1 \in 0..n
        BY <3>2
      <4>2. g[i - 1] = f[i - 1]
        BY <4>1, <2>3
      <4>3. g[i] = step(f, i)
        <5>1. CASE i = n + 1
          BY <5>1, <2>4
        <5>2. CASE i # n + 1
          <6>1. i \in 0..n
            BY <5>2
          <6> QED
            BY <6>1, <2>2, <2>3
        <5> QED
          BY <5>1, <5>2
      <4> HIDE DEF g
      <4> QED
        BY <4>2, <4>3
    <3> QED
      BY <3>1, <3>2
  <2>6. DOMAIN g = 0..n + 1 /\ g = [i \in DOMAIN g |-> g[i]]
    OBVIOUS
  <2> HIDE DEF g
  <2>7. ConnectedUpTo(g, list, map, ports, n + 1)
    BY <2>5, <2>6, Zenon DEF ConnectedUpTo, none
  <2> QED
    BY <2>7
<1> HIDE DEF S
<1>3. \A n \in Nat : n \in S
  BY <1>1, <1>2, SetInduction
<1> QED
  BY <1>3 DEF S

LEMMA AllConnected ==
  ASSUME NEW list, list \in Seq(ToSet(list)), NamesDiffer => NamesAreOnes(list),
         NEW map, NEW ports, Linked(list, made, map, ports)
  PROVE  ConnectedTo(Connected(list, map, ports), list, Len(list))
<1> DEFINE N == Len(list)
           none == [ok |-> TRUE, made |-> made, map |-> map, ports |-> ports]
           h == CHOOSE f : ConnectedUpTo(f, list, map, ports, N)
           S == {n \in Nat : n <= N => ConnectedTo(h[n], list, n)}
<1>0. N \in Nat
  OBVIOUS
<1>1. ConnectedUpTo(h, list, map, ports, N)
  <2> HIDE DEF N
  <2> QED
    BY <1>0, ConnectedExists
<1>2. Connected(list, map, ports) = h[N]
  BY DEF Connected, ConnectedUpTo
<1>3. \A n \in 0..N : h[n] = IF n = 0 THEN none ELSE ConnectEntry(h[n - 1], list[n])
  <2> HIDE DEF h, N
  <2> QED
    BY <1>1 DEF ConnectedUpTo
<1>4. ConnectedTo(none, list, 0)
  <2>1. none.ok = TRUE /\ none.made = made /\ none.map = map /\ none.ports = ports
        /\ none = [ok |-> none.ok, made |-> none.made, map |-> none.map, ports |-> none.ports]
    OBVIOUS
  <2> HIDE DEF none
  <2>2. Linked(list, none.made, none.map, none.ports) /\ none.ok \in BOOLEAN
    BY <2>1
  <2>3. \A k \in 1..0 : \E i \in none.map : i.name = list[k].name
    OBVIOUS
  <2> QED
    BY <2>1, <2>2, <2>3 DEF ConnectedTo
<1> HIDE DEF h, N, none
<1>5. 0 \in S
  BY <1>0, <1>3, <1>4
<1>6. ASSUME NEW n \in Nat, n \in S PROVE n + 1 \in S
  <2> SUFFICES ASSUME n + 1 <= N PROVE ConnectedTo(h[n + 1], list, n + 1)
    OBVIOUS
  <2>1. ConnectedTo(h[n], list, n)
    BY <1>0, <1>6
  <2>2. h[n + 1] = ConnectEntry(h[n], list[n + 1])
    BY <1>0, <1>3
  <2> QED
    BY <2>1, <2>2, EntryConnected DEF N
<1> HIDE DEF S
<1>7. \A n \in Nat : n \in S
  BY <1>5, <1>6, SetInduction
<1>8. N \in S
  BY <1>7, <1>0
<1> QED
  BY <1>8, <1>2, <1>0 DEF S, N

InstrumentsInv ==
  /\ entries \in Seq(ToSet(entries)) /\ (NamesDiffer => NamesAreOnes(entries))
  /\ Linked(entries, made, instances, openPorts)
  /\ AllOrReported

\* Ports of objects the map does not lead to stay open.
LEMMA InstrumentsDisconnected ==
  ASSUME InstrumentsInv, NEW list
  PROVE  Linked(list, made, {}, PortsAfterDisconnect)
<1>1. PortsAfterDisconnect \subseteq openPorts /\ \A p \in PortsAfterDisconnect : p.object \notin Objects(instances)
  BY DEF PortsAfterDisconnect
<1>2. \A i \in instances : i.object \in Objects(instances)
  BY DEF Objects
<1>3. NamesDiffer => PortsAfterDisconnect = {}
  BY <1>1, <1>2 DEF InstrumentsInv, Linked
<1> QED
  BY <1>1, <1>3 DEF InstrumentsInv, Linked

LEMMA ConnectKeeps ==
  ASSUME NEW list, list \in Seq(ToSet(list)), NamesDiffer => NamesAreOnes(list),
         NEW map, NEW ports, Linked(list, made, map, ports),
         Connect(list, map, ports), entries' = list
  PROVE  InstrumentsInv'
<1> DEFINE end == Connected(list, map, ports)
<1>1. ConnectedTo(end, list, Len(list))
  BY AllConnected
<1>2. instances' = end.map /\ openPorts' = end.ports /\ made' = end.made /\ connected' = end.ok
  BY DEF Connect
<1> HIDE DEF end
<1>3. Linked(list, made', instances', openPorts')
  BY <1>1, <1>2 DEF ConnectedTo
<1>4. DOMAIN list = 1..Len(list)
  OBVIOUS
<1>5. ASSUME connected'
      PROVE  {i.name : i \in instances'} = {list[k].name : k \in DOMAIN list}
  <2>1. \A i \in instances' : \E k \in 1..Len(list) : list[k].name = i.name
    BY <1>3 DEF Linked
  <2>2. \A k \in 1..Len(list) : \E i \in instances' : i.name = list[k].name
    BY <1>1, <1>2, <1>5 DEF ConnectedTo
  <2>3. {i.name : i \in instances'} \subseteq {list[k].name : k \in DOMAIN list}
    BY <1>4, <2>1
  <2>4. {list[k].name : k \in DOMAIN list} \subseteq {i.name : i \in instances'}
    BY <1>4, <2>2
  <2> QED
    BY <2>3, <2>4
<1>6. AllOrReported'
  BY <1>5 DEF AllOrReported
<1> QED
  BY <1>3, <1>6 DEF InstrumentsInv

LEMMA InstrumentsStep ==
  ASSUME InstrumentsInv, InstrumentsNext
  PROVE  InstrumentsInv'
<1>1. ASSUME NEW list \in InstrumentLists, LoadInstruments(list) PROVE InstrumentsInv'
  <2>1. list \in Seq(ToSet(list))
    BY InstrumentAssumption
  <2>2. DOMAIN list = 1..Len(list)
    BY <2>1
  <2>3. NamesDiffer => NamesAreOnes(list)
    BY <2>2 DEF NamesDiffer, NamesAreOnes
  <2>4. Linked(list, made, {}, PortsAfterDisconnect)
    BY InstrumentsDisconnected
  <2>5. Connect(list, {}, PortsAfterDisconnect) /\ entries' = list
    BY <1>1 DEF LoadInstruments
  <2> QED
    BY <2>1, <2>3, <2>4, <2>5, ConnectKeeps
<1>2. CASE ConnectAll
  <2>1. Connect(entries, instances, openPorts) /\ entries' = entries
    BY <1>2 DEF ConnectAll
  <2>2. ASSUME NEW list, list = entries PROVE InstrumentsInv'
    <3>1. Connect(list, instances, openPorts) /\ entries' = list
      BY <2>1, <2>2
    <3>2. list \in Seq(ToSet(list)) /\ (NamesDiffer => NamesAreOnes(list))
      BY <2>2 DEF InstrumentsInv
    <3>3. Linked(list, made, instances, openPorts)
      BY <2>2 DEF InstrumentsInv
    <3> QED
      BY <3>1, <3>2, <3>3, ConnectKeeps
  <2> QED
    BY <2>2
<1>3. ASSUME NEW list, list = entries \/ list = <<>>, Disconnect(list) PROVE InstrumentsInv'
  <2>1. openPorts' = PortsAfterDisconnect /\ instances' = {} /\ entries' = list /\ made' = made
    BY <1>3 DEF Disconnect
  <2>2. list \in Seq(ToSet(list)) /\ (NamesDiffer => NamesAreOnes(list))
    <3>1. CASE list = entries
      BY <3>1 DEF InstrumentsInv
    <3>2. CASE list = <<>>
      <4>1. <<>> \in Seq(ToSet(<<>>))
        OBVIOUS
      <4>2. NamesAreOnes(<<>>)
        BY DEF NamesAreOnes
      <4> QED
        BY <3>2, <4>1, <4>2
    <3> QED
      BY <1>3, <3>1, <3>2
  <2>3. Linked(list, made, {}, PortsAfterDisconnect)
    BY InstrumentsDisconnected
  <2> QED
    BY <2>1, <2>2, <2>3 DEF InstrumentsInv, AllOrReported
<1>4. ASSUME NEW port, Plug(port) PROVE InstrumentsInv'
  <2>1. UNCHANGED <<entries, instances, openPorts, made, connected>>
    BY <1>4 DEF Plug
  <2> QED
    BY <2>1 DEF InstrumentsInv, AllOrReported
<1> QED
  BY <1>1, <1>2, <1>3, <1>4 DEF InstrumentsNext

LEMMA InstrumentsFollow ==
  ASSUME InstrumentsInv
  PROVE  InstrumentsSound
<1>1. DOMAIN entries = 1..Len(entries)
  BY DEF InstrumentsInv
<1>2. InstrumentTypeOK
  BY <1>1 DEF InstrumentsInv, Linked, InstrumentTypeOK
<1>3. ListedAreConnected
  BY DEF InstrumentsInv, Linked, ListedAreConnected, Objects
<1>4. NoneForgotten
  <2> SUFFICES ASSUME NamesDiffer PROVE {p.object : p \in openPorts} = Objects(instances)
    BY DEF NoneForgotten
  <2>1. \A p \in openPorts : p.object \in Objects(instances)
    BY DEF InstrumentsInv, Linked, Objects
  <2>2. Objects(instances) \subseteq {p.object : p \in openPorts}
    BY <1>3 DEF ListedAreConnected
  <2>3. {p.object : p \in openPorts} \subseteq Objects(instances)
    BY <2>1
  <2> QED
    BY <2>2, <2>3
<1> QED
  BY <1>2, <1>3, <1>4 DEF InstrumentsInv, InstrumentsSound

LEMMA InstrumentsAreSound == InstrumentsSpec => []InstrumentsSound
<1>1. InstrumentsInit => InstrumentsInv
  BY DEF InstrumentsInit, InstrumentsInv, NamesAreOnes, Linked, AllOrReported
<1>2. InstrumentsInv /\ [InstrumentsNext]_instrumentVars => InstrumentsInv'
  <2>1. ASSUME InstrumentsInv, UNCHANGED instrumentVars PROVE InstrumentsInv'
    <3>1. /\ entries' = entries /\ instances' = instances /\ openPorts' = openPorts
          /\ made' = made /\ connected' = connected
      BY <2>1 DEF instrumentVars
    <3> QED
      BY <2>1, <3>1 DEF InstrumentsInv, AllOrReported
  <2> QED
    BY <2>1, InstrumentsStep
<1> QED
  BY <1>1, <1>2, InstrumentsFollow, PTL DEF InstrumentsSpec

\* After any sequence of loads, registrations, connections that fail half-way and
\* disconnections, the tables lead to what is there and forget nothing
\* (PluginManager.cpp:28-104, CapabilityRegistry.cpp:7-30, InstrumentManager.cpp:52-114).
THEOREM TablesAreSound == TablesSpec => []TablesSound
<1>1. HostSound /\ InstrumentsSound => TablesSound
  BY DEF TablesSound
<1> QED
  BY <1>1, HostIsSound, InstrumentsAreSound, PTL DEF TablesSpec

-------------------------------------------------------------------------------
(***************************************************************************)
(* JobScheduler, for any number of jobs, retries, starts and stops:        *)
(* nothing is left running, no job is sent too often, and an outcome is    *)
(* final but for the two races the code has.                               *)
(*                                                                         *)
(* The inductive invariant says, of a job whose record was never moved     *)
(* under the dispatch thread, that it was sent as often as its attempts    *)
(* say, and that one more attempt is allowed while it is pending or about  *)
(* to be sent; and of the pointer, what the thread may rely on although it *)
(* does not look again: a job it is about to send is pending, or was       *)
(* cancelled meanwhile, and a job it has sent is running.                  *)
(***************************************************************************)

\* What the dispatch thread knows of the job it points to.
PointerKnown ==
  /\ dangling => pointer \in torn
  /\ dispatcher = "assign" => jobs[pointer].status = "Pending" \/ pointer \in raced \cup torn
  /\ dispatcher = "sent" => jobs[pointer].status = "Running" \/ pointer \in torn

\* Attempts are counted exactly, and one is left to a job that waits for it.
AttemptsCounted ==
  \A j \in JobIds : j \notin torn =>
    /\ runs[j] = jobs[j].attempt
    /\ jobs[j].attempt <= Allowed(j)
    /\ jobs[j].status = "Pending" \/ (dispatcher = "assign" /\ pointer = j)
         => jobs[j].attempt < Allowed(j)

\* Jobs that were never submitted were never sent.
NotSubmitted == \A j \in 1..MaxJobs : j \notin JobIds => runs[j] = 0

JobInv == JobTypeOK /\ PointerKnown /\ NoneLeftRunning /\ AttemptsCounted /\ NotSubmitted

-------------------------------------------------------------------------------
\* What the three ways to write a job do to the list.

LEMMA JobsTyped ==
  ASSUME JobTypeOK
  PROVE  /\ JobIds = 1..Len(jobs) /\ Len(jobs) \in Nat /\ Len(jobs) <= MaxJobs /\ MaxJobs \in Nat
         /\ \A j \in JobIds : /\ jobs[j] \in Job /\ jobs[j].status \in JobStatuses
                              /\ jobs[j].attempt \in Nat /\ jobs[j].maxRetries \in RetryLimits
                              /\ jobs[j].maxRetries \in Nat /\ Allowed(j) \in Nat /\ Allowed(j) >= 1
<1>1. /\ jobs \in Seq(Job) /\ Len(jobs) <= MaxJobs
  BY DEF JobTypeOK
<1>2. JobIds = 1..Len(jobs) /\ Len(jobs) \in Nat /\ MaxJobs \in Nat
  BY <1>1, JobBoundsAssumption, LenProperties DEF JobIds
<1>3. \A j \in JobIds : jobs[j] \in Job
  BY <1>1, <1>2, ElementOfSeq
<1>4. \A j \in JobIds : /\ jobs[j].status \in JobStatuses /\ jobs[j].attempt \in Nat
                         /\ jobs[j].maxRetries \in RetryLimits
  BY <1>3 DEF Job
<1>5. \A j \in JobIds : jobs[j].maxRetries \in Nat
  BY <1>4, RetryLimitsAssumption
<1>6. \A j \in JobIds : Allowed(j) \in Nat /\ Allowed(j) >= 1
  BY <1>5 DEF Allowed
<1> QED
  BY <1>1, <1>2, <1>3, <1>4, <1>5, <1>6

LEMMA StatusWritten ==
  ASSUME JobTypeOK, NEW j \in JobIds, NEW s \in JobStatuses,
         jobs' = [jobs EXCEPT ![j].status = s]
  PROVE  /\ jobs' \in Seq(Job) /\ Len(jobs') = Len(jobs) /\ JobIds' = JobIds
         /\ \A k \in JobIds : /\ jobs'[k].status = IF k = j THEN s ELSE jobs[k].status
                              /\ jobs'[k].attempt = jobs[k].attempt
                              /\ jobs'[k].maxRetries = jobs[k].maxRetries
<1>1. jobs' \in [1..Len(jobs) -> Job]
  <2>1. jobs \in [1..Len(jobs) -> Job]
    BY DEF JobTypeOK
  <2>2. [jobs[j] EXCEPT !.status = s] \in Job
    BY <2>1, JobsTyped DEF Job
  <2> QED
    BY <2>1, <2>2
<1>2. jobs' \in Seq(Job) /\ Len(jobs') = Len(jobs)
  BY <1>1, JobsTyped, SeqDef
<1>3. JobIds' = JobIds
  BY <1>1, JobsTyped DEF JobIds
<1>4. ASSUME NEW k \in JobIds
      PROVE  /\ jobs'[k].status = IF k = j THEN s ELSE jobs[k].status
             /\ jobs'[k].attempt = jobs[k].attempt
             /\ jobs'[k].maxRetries = jobs[k].maxRetries
  BY JobsTyped DEF Job, JobIds
<1> QED
  BY <1>2, <1>3, <1>4

LEMMA JobMarked ==
  ASSUME JobTypeOK, NEW j \in JobIds, jobs' = Marked(j)
  PROVE  /\ jobs' \in Seq(Job) /\ Len(jobs') = Len(jobs) /\ JobIds' = JobIds
         /\ \A k \in JobIds : /\ jobs'[k].status = IF k = j THEN "Running" ELSE jobs[k].status
                              /\ jobs'[k].attempt = IF k = j THEN jobs[k].attempt + 1 ELSE jobs[k].attempt
                              /\ jobs'[k].maxRetries = jobs[k].maxRetries
<1>1. jobs' \in [1..Len(jobs) -> Job]
  <2>1. jobs \in [1..Len(jobs) -> Job]
    BY DEF JobTypeOK
  <2>2. [jobs[j] EXCEPT !.status = "Running", !.attempt = @ + 1] \in Job
    <3>1. jobs[j] \in Job /\ jobs[j].attempt + 1 \in Nat /\ "Running" \in JobStatuses
      BY JobsTyped DEF JobStatuses
    <3> QED
      BY <3>1 DEF Job
  <2>3. \A k \in 1..Len(jobs) : jobs'[k] = IF k = j THEN [jobs[j] EXCEPT !.status = "Running", !.attempt = @ + 1] ELSE jobs[k]
    BY <2>1, JobsTyped DEF Marked, Job, JobIds
  <2> QED
    BY <2>1, <2>2, <2>3 DEF Marked
<1>2. jobs' \in Seq(Job) /\ Len(jobs') = Len(jobs)
  BY <1>1, JobsTyped, SeqDef
<1>3. JobIds' = JobIds
  BY <1>1, JobsTyped DEF JobIds
<1>4. ASSUME NEW k \in JobIds
      PROVE  /\ jobs'[k].status = IF k = j THEN "Running" ELSE jobs[k].status
             /\ jobs'[k].attempt = IF k = j THEN jobs[k].attempt + 1 ELSE jobs[k].attempt
             /\ jobs'[k].maxRetries = jobs[k].maxRetries
  BY JobsTyped DEF Job, JobIds, Marked
<1> QED
  BY <1>2, <1>3, <1>4

LEMMA JobAppended ==
  ASSUME JobTypeOK, NEW r \in RetryLimits,
         jobs' = Append(jobs, [status |-> "Pending", attempt |-> 0, maxRetries |-> r])
  PROVE  /\ jobs' \in Seq(Job) /\ Len(jobs') = Len(jobs) + 1
         /\ JobIds' = JobIds \cup {Len(jobs) + 1} /\ Len(jobs) + 1 \notin JobIds
         /\ \A k \in JobIds : jobs'[k] = jobs[k]
         /\ jobs'[Len(jobs) + 1] = [status |-> "Pending", attempt |-> 0, maxRetries |-> r]
<1> DEFINE new == [status |-> "Pending", attempt |-> 0, maxRetries |-> r]
<1>1. new \in Job
  BY DEF Job, JobStatuses
<1>2. jobs \in Seq(Job)
  BY DEF JobTypeOK
<1> HIDE DEF new
<1>3. /\ Append(jobs, new) \in Seq(Job) /\ Len(Append(jobs, new)) = Len(jobs) + 1
      /\ \A k \in 1..Len(jobs) : Append(jobs, new)[k] = jobs[k]
      /\ Append(jobs, new)[Len(jobs) + 1] = new
  BY <1>1, <1>2, AppendProperties
<1>4. jobs' = Append(jobs, new)
  BY DEF new
<1>5. JobIds' = 1..(Len(jobs) + 1)
  BY <1>3, <1>4 DEF JobIds
<1> QED
  BY <1>3, <1>4, <1>5, JobsTyped DEF new

-------------------------------------------------------------------------------
\* Every action keeps the invariant, and the outcomes it must keep.

Final == \A j \in JobIds :
           Decided(j) /\ jobs'[j].status # jobs[j].status => j \in raced \cup torn

\* In the steps that leave the jobs alone no more than the pointer moves.
LEMMA SamePart ==
  ASSUME JobInv, jobs' = jobs
  PROVE  /\ JobIds' = JobIds /\ Final /\ \A j \in JobIds : Allowed(j)' = Allowed(j)
         /\ jobs' \in Seq(Job) /\ Len(jobs)' = Len(jobs) /\ Len(jobs)' <= MaxJobs
BY DEF JobIds, Final, Allowed, JobInv, JobTypeOK

LEMMA PassiveKeeps ==
  ASSUME JobInv, RegisterAgent \/ AgentsExpire \/ StartScheduler \/ StopScheduler \/ JoinDispatcher
  PROVE  JobInv' /\ Final
<1>1. jobs' = jobs /\ runs' = runs /\ raced' = raced /\ torn' = torn /\ dangling' = dangling /\ pointer' = pointer
  BY DEF RegisterAgent, AgentsExpire, StartScheduler, StopScheduler, JoinDispatcher
<1>2. \/ dispatcher' = dispatcher
      \/ dispatcher \in {"none", "select"} /\ dispatcher' \in {"none", "select"}
  BY DEF RegisterAgent, AgentsExpire, StartScheduler, StopScheduler, JoinDispatcher
<1>3. serving' \in BOOLEAN /\ agentUp' \in BOOLEAN /\ starts' \in 0..MaxStarts
  <2>1. serving' \in BOOLEAN /\ agentUp' \in BOOLEAN
    BY Zenon DEF JobInv, JobTypeOK, RegisterAgent, AgentsExpire, StartScheduler, StopScheduler, JoinDispatcher
  <2>2. starts' \in 0..MaxStarts
    BY JobBoundsAssumption DEF JobInv, JobTypeOK, RegisterAgent, AgentsExpire, StartScheduler, StopScheduler, JoinDispatcher
  <2> QED
    BY <2>1, <2>2
<1>4. JobTypeOK'
  BY <1>1, <1>2, <1>3, SamePart DEF JobInv, JobTypeOK
<1>5. PointerKnown' /\ NoneLeftRunning'
  BY <1>1, <1>2, SamePart DEF JobInv, PointerKnown, NoneLeftRunning
<1>6. AttemptsCounted' /\ NotSubmitted'
  BY <1>1, <1>2, SamePart DEF JobInv, AttemptsCounted, NotSubmitted
<1> QED
  BY <1>1, <1>4, <1>5, <1>6, SamePart DEF JobInv

LEMMA SelectKeeps == ASSUME JobInv, SelectJob PROVE JobInv' /\ Final
<1>1. PICK j \in JobIds : jobs[j].status = "Pending" /\ pointer' = j
  BY DEF SelectJob, FirstPending
<1>2. /\ jobs' = jobs /\ runs' = runs /\ raced' = raced /\ torn' = torn /\ dangling' = dangling
      /\ serving' = serving /\ agentUp' = agentUp /\ starts' = starts
      /\ dispatcher = "select" /\ dispatcher' = "assign"
  BY DEF SelectJob
<1>3. j \in 1..Len(jobs)
  BY JobsTyped DEF JobInv
<1>4. pointer = 0 /\ ~dangling
  BY <1>2, JobsTyped DEF JobInv, JobTypeOK, PointerKnown
<1>5. JobTypeOK'
  BY <1>1, <1>2, <1>3, SamePart, JobsTyped DEF JobInv, JobTypeOK
<1>6. PointerKnown' /\ NoneLeftRunning'
  BY <1>1, <1>2, <1>4, SamePart DEF JobInv, PointerKnown, NoneLeftRunning
<1>7. AttemptsCounted' /\ NotSubmitted'
  BY <1>1, <1>2, SamePart DEF JobInv, AttemptsCounted, NotSubmitted
<1> QED
  BY <1>2, <1>5, <1>6, <1>7, SamePart DEF JobInv

LEMMA NoAgentKeeps == ASSUME JobInv, NoAgent PROVE JobInv' /\ Final
<1>1. /\ jobs' = jobs /\ runs' = runs /\ raced' = raced /\ torn' = torn /\ ~dangling'
      /\ serving' = serving /\ agentUp' = agentUp /\ starts' = starts
      /\ dispatcher = "assign" /\ dispatcher' = "select" /\ pointer' = 0 /\ dangling' \in BOOLEAN
  <2>1. dangling' \in BOOLEAN
    BY Zenon DEF NoAgent
  <2> QED
    BY <2>1 DEF NoAgent
<1>2. JobTypeOK'
  BY <1>1, SamePart, JobsTyped DEF JobInv, JobTypeOK
<1>3. PointerKnown' /\ NoneLeftRunning'
  BY <1>1, SamePart DEF JobInv, PointerKnown, NoneLeftRunning
<1>4. AttemptsCounted' /\ NotSubmitted'
  BY <1>1, SamePart DEF JobInv, AttemptsCounted, NotSubmitted
<1> QED
  BY <1>1, <1>2, <1>3, <1>4, SamePart DEF JobInv

LEMMA CancelKeeps == ASSUME JobInv, CancelJob PROVE JobInv' /\ Final
<1>1. PICK j \in JobIds :
        /\ jobs[j].status = "Pending" /\ jobs' = [jobs EXCEPT ![j].status = "Failed"]
        /\ raced' = IF j = pointer THEN raced \cup {j} ELSE raced
  BY DEF CancelJob
<1>2. /\ runs' = runs /\ torn' = torn /\ dangling' = dangling /\ pointer' = pointer
      /\ serving' = serving /\ agentUp' = agentUp /\ starts' = starts /\ dispatcher' = dispatcher
  BY DEF CancelJob
<1>3. JobTypeOK /\ "Failed" \in JobStatuses
  BY DEF JobInv, JobStatuses
<1>4. /\ jobs' \in Seq(Job) /\ Len(jobs') = Len(jobs) /\ JobIds' = JobIds
      /\ \A k \in JobIds : /\ jobs'[k].status = IF k = j THEN "Failed" ELSE jobs[k].status
                           /\ jobs'[k].attempt = jobs[k].attempt
                           /\ jobs'[k].maxRetries = jobs[k].maxRetries
  BY <1>1, <1>3, StatusWritten
<1>5. \A k \in JobIds : Allowed(k)' = Allowed(k)
  BY <1>4 DEF Allowed
<1>6. JobTypeOK'
  BY <1>1, <1>2, <1>4 DEF JobInv, JobTypeOK
<1>7. dispatcher \in {"assign", "sent"} => pointer \in JobIds
  BY <1>3, JobsTyped DEF JobTypeOK
<1>8. PointerKnown'
  BY <1>1, <1>2, <1>4, <1>7 DEF JobInv, PointerKnown
<1>9. NoneLeftRunning' /\ Final
  BY <1>1, <1>2, <1>4 DEF JobInv, NoneLeftRunning, Final, Decided
<1>10. AttemptsCounted' /\ NotSubmitted'
  BY <1>1, <1>2, <1>4, <1>5 DEF JobInv, AttemptsCounted, NotSubmitted
<1> QED
  BY <1>6, <1>8, <1>9, <1>10 DEF JobInv

LEMMA SubmitKeeps == ASSUME JobInv, SubmitJob PROVE JobInv' /\ Final
<1>1. PICK r \in RetryLimits :
        jobs' = Append(jobs, [status |-> "Pending", attempt |-> 0, maxRetries |-> r])
  BY DEF SubmitJob
<1>2. /\ runs' = runs /\ raced' = raced /\ pointer' = pointer /\ Len(jobs) < MaxJobs
      /\ serving' = serving /\ agentUp' = agentUp /\ starts' = starts /\ dispatcher' = dispatcher
  BY DEF SubmitJob
<1>3. \/ pointer # 0 /\ dangling' = TRUE /\ torn' = torn \cup {pointer}
      \/ dangling' = dangling /\ torn' = torn
  BY DEF SubmitJob
<1>4. /\ jobs' \in Seq(Job) /\ Len(jobs') = Len(jobs) + 1
      /\ JobIds' = JobIds \cup {Len(jobs) + 1} /\ Len(jobs) + 1 \notin JobIds
      /\ \A k \in JobIds : jobs'[k] = jobs[k]
      /\ jobs'[Len(jobs) + 1] = [status |-> "Pending", attempt |-> 0, maxRetries |-> r]
  BY <1>1, JobAppended DEF JobInv
<1>5. /\ \A k \in JobIds : Allowed(k)' = Allowed(k)
      /\ jobs'[Len(jobs) + 1].attempt = 0
      /\ (IF jobs'[Len(jobs) + 1].maxRetries = 0 THEN 1 ELSE jobs'[Len(jobs) + 1].maxRetries) > 0
  <2>1. \A k \in JobIds : Allowed(k)' = Allowed(k)
    BY <1>4 DEF Allowed
  <2>2. jobs'[Len(jobs) + 1].attempt = 0 /\ jobs'[Len(jobs) + 1].maxRetries = r
    BY <1>4
  <2>3. r \in Nat
    BY RetryLimitsAssumption
  <2> QED
    BY <2>1, <2>2, <2>3
<1>6. dangling' \in BOOLEAN
  BY <1>3, Zenon DEF JobInv, JobTypeOK
<1>7. pointer # 0 => pointer \in JobIds
  BY JobsTyped DEF JobInv, JobTypeOK
<1>8. torn' \subseteq JobIds' /\ raced' \subseteq JobIds' /\ torn \subseteq torn'
  BY <1>2, <1>3, <1>4, <1>7 DEF JobInv, JobTypeOK
<1>9. Len(jobs') <= MaxJobs /\ pointer' \in 0..Len(jobs')
  BY <1>2, <1>4, JobsTyped DEF JobInv, JobTypeOK
<1>10. JobTypeOK'
  BY <1>2, <1>4, <1>6, <1>8, <1>9 DEF JobInv, JobTypeOK
<1>11. PointerKnown'
  BY <1>2, <1>3, <1>4, <1>7 DEF JobInv, PointerKnown, JobTypeOK
<1>12. NoneLeftRunning' /\ Final
  BY <1>2, <1>4, <1>8 DEF JobInv, NoneLeftRunning, Final
<1>13. AttemptsCounted'
  <2>1. Len(jobs) + 1 \in 1..MaxJobs
    BY <1>2, JobsTyped DEF JobInv
  <2>2. runs'[Len(jobs) + 1] = 0
    BY <1>2, <1>4, <2>1 DEF JobInv, NotSubmitted
  <2>3. ASSUME NEW k \in JobIds', k \notin torn'
        PROVE  /\ runs'[k] = jobs'[k].attempt
               /\ jobs'[k].attempt <= Allowed(k)'
               /\ jobs'[k].status = "Pending" \/ (dispatcher = "assign" /\ pointer = k)
                    => jobs'[k].attempt < Allowed(k)'
    <3>1. CASE k \in JobIds
      BY <1>2, <1>4, <1>5, <1>8, <2>3, <3>1 DEF JobInv, AttemptsCounted
    <3>2. CASE k = Len(jobs) + 1
      <4>1. Allowed(k)' = IF jobs'[k].maxRetries = 0 THEN 1 ELSE jobs'[k].maxRetries
        BY DEF Allowed
      <4>2. jobs'[k].maxRetries = r /\ r \in Nat
        BY <1>4, <3>2, RetryLimitsAssumption
      <4>3. 0 <= Allowed(k)' /\ 0 < Allowed(k)'
        BY <4>1, <4>2
      <4> QED
        BY <1>5, <2>2, <3>2, <4>3
    <3> QED
      BY <1>4, <3>1, <3>2
  <2> QED
    BY <1>2, <2>3 DEF AttemptsCounted
<1>14. NotSubmitted'
  BY <1>2, <1>4 DEF JobInv, NotSubmitted
<1> QED
  BY <1>10, <1>11, <1>12, <1>13, <1>14 DEF JobInv

LEMMA SendKeeps == ASSUME JobInv, SendJob PROVE JobInv' /\ Final
<1>1. /\ dispatcher = "assign" /\ dispatcher' = "sent" /\ runs' = [runs EXCEPT ![pointer] = @ + 1]
      /\ torn' = torn /\ raced' = raced /\ dangling' = dangling /\ pointer' = pointer
      /\ serving' = serving /\ agentUp' = agentUp /\ starts' = starts
  BY DEF SendJob
<1>2. pointer \in JobIds /\ pointer \in 1..MaxJobs
  BY <1>1, JobsTyped DEF JobInv, JobTypeOK
<1>3. /\ runs' \in [1..MaxJobs -> Nat] /\ runs'[pointer] = runs[pointer] + 1
      /\ \A k \in 1..MaxJobs : k # pointer => runs'[k] = runs[k]
  BY <1>1, <1>2 DEF JobInv, JobTypeOK
<1>4. CASE dangling
  <2>1. jobs' = jobs /\ pointer \in torn
    BY <1>4 DEF SendJob, JobInv, PointerKnown
  <2>2. JobTypeOK'
    BY <1>1, <1>3, <2>1, SamePart DEF JobInv, JobTypeOK
  <2>3. PointerKnown' /\ NoneLeftRunning'
    BY <1>1, <2>1, SamePart DEF JobInv, PointerKnown, NoneLeftRunning
  <2>4. JobIds' = JobIds /\ JobIds \subseteq 1..MaxJobs /\ \A j \in JobIds : Allowed(j)' = Allowed(j)
    <3>1. JobTypeOK
      BY DEF JobInv
    <3>2. JobIds = 1..Len(jobs) /\ Len(jobs) \in Nat /\ Len(jobs) <= MaxJobs /\ MaxJobs \in Nat
      BY <3>1, JobsTyped
    <3>3. JobIds \subseteq 1..MaxJobs
      BY <3>2
    <3> QED
      BY <2>1, <3>3, SamePart
  <2>5. AttemptsCounted'
    <3>1. \A j \in JobIds : j \notin torn => j # pointer /\ runs'[j] = runs[j]
      BY <1>3, <2>1, <2>4
    <3> QED
      BY <1>1, <2>1, <2>4, <3>1 DEF JobInv, AttemptsCounted
  <2>6. NotSubmitted'
    BY <1>2, <1>3, <2>4 DEF JobInv, NotSubmitted
  <2> QED
    BY <2>1, <2>2, <2>3, <2>5, <2>6, SamePart DEF JobInv
<1>5. CASE ~dangling
  <2>1. jobs' = Marked(pointer) /\ JobTypeOK
    BY <1>5 DEF SendJob, JobInv
  <2>2. /\ jobs' \in Seq(Job) /\ Len(jobs') = Len(jobs) /\ JobIds' = JobIds
        /\ \A k \in JobIds :
             /\ jobs'[k].status = IF k = pointer THEN "Running" ELSE jobs[k].status
             /\ jobs'[k].attempt = IF k = pointer THEN jobs[k].attempt + 1 ELSE jobs[k].attempt
             /\ jobs'[k].maxRetries = jobs[k].maxRetries
    BY <1>2, <2>1, JobMarked
  <2>3. \A k \in JobIds : Allowed(k)' = Allowed(k)
    BY <2>2 DEF Allowed
  <2>4. JobTypeOK'
    BY <1>1, <1>3, <2>1, <2>2 DEF JobTypeOK
  <2>5. PointerKnown' /\ NoneLeftRunning'
    BY <1>1, <1>2, <1>5, <2>2 DEF JobInv, PointerKnown, NoneLeftRunning
  <2>6. Final
    BY <1>1, <1>2, <2>2 DEF Final, Decided, JobInv, PointerKnown
  <2>7. AttemptsCounted'
    <3> SUFFICES ASSUME NEW k \in JobIds, k \notin torn
                 PROVE  /\ runs'[k] = jobs'[k].attempt
                        /\ jobs'[k].attempt <= Allowed(k)
                        /\ jobs'[k].status = "Pending" => jobs'[k].attempt < Allowed(k)
      BY <1>1, <2>2, <2>3 DEF AttemptsCounted
    <3>1. runs[k] = jobs[k].attempt /\ jobs[k].attempt <= Allowed(k) /\ k \in 1..MaxJobs
      BY <2>1, JobsTyped DEF JobInv, AttemptsCounted
    <3>2. CASE k = pointer
      <4>1. jobs[k].attempt < Allowed(k)
        BY <1>1, <3>2 DEF JobInv, AttemptsCounted
      <4>2. jobs[k].attempt \in Nat /\ Allowed(k) \in Nat
        BY <2>1, JobsTyped
      <4> QED
        BY <1>3, <2>2, <3>1, <3>2, <4>1, <4>2
    <3>3. CASE k # pointer
      BY <1>3, <2>2, <3>1, <3>3 DEF JobInv, AttemptsCounted
    <3> QED
      BY <3>2, <3>3
  <2>8. NotSubmitted'
    BY <1>2, <1>3, <2>2 DEF JobInv, NotSubmitted
  <2> QED
    BY <2>4, <2>5, <2>6, <2>7, <2>8 DEF JobInv
<1> QED
  BY <1>4, <1>5

\* The thread lets a job go that it has settled, or that is torn.
LEMMA SettledKeeps ==
  ASSUME JobInv, dispatcher = "sent", Release, NEW s \in {"Pending", "Succeeded", "Failed"},
         jobs' = Settled(pointer, s),
         s = "Pending" /\ pointer \notin torn => jobs[pointer].attempt < Allowed(pointer)
  PROVE  JobInv' /\ Final
<1>1. /\ pointer' = 0 /\ ~dangling' /\ dispatcher' = "select" /\ runs' = runs /\ raced' = raced
      /\ torn' = torn /\ serving' = serving /\ agentUp' = agentUp /\ starts' = starts
  BY DEF Release
<1>2. pointer \in JobIds /\ s \in JobStatuses /\ JobTypeOK
  BY JobsTyped DEF JobInv, JobTypeOK, JobStatuses
<1>3. /\ jobs' \in Seq(Job) /\ Len(jobs') = Len(jobs) /\ JobIds' = JobIds
      /\ \A k \in JobIds : /\ jobs'[k].status = IF k = pointer THEN s ELSE jobs[k].status
                           /\ jobs'[k].attempt = jobs[k].attempt
                           /\ jobs'[k].maxRetries = jobs[k].maxRetries
  BY <1>2, StatusWritten DEF Settled
<1>4. \A k \in JobIds : Allowed(k)' = Allowed(k)
  BY <1>3 DEF Allowed
<1>5. dangling' \in BOOLEAN
  BY Zenon DEF Release
<1>6. JobTypeOK'
  BY <1>1, <1>2, <1>3, <1>5, JobsTyped DEF JobTypeOK
<1>7. PointerKnown' /\ NoneLeftRunning'
  BY <1>1, <1>2, <1>3 DEF JobInv, PointerKnown, NoneLeftRunning
<1>8. Final
  BY <1>2, <1>3 DEF Final, Decided, JobInv, PointerKnown
<1>9. AttemptsCounted'
  BY <1>1, <1>2, <1>3, <1>4 DEF JobInv, AttemptsCounted
<1>10. NotSubmitted'
  BY <1>1, <1>3 DEF JobInv, NotSubmitted
<1> QED
  BY <1>6, <1>7, <1>8, <1>9, <1>10 DEF JobInv

LEMMA DroppedKeeps ==
  ASSUME JobInv, dispatcher = "sent", dangling, Release, jobs' = jobs
  PROVE  JobInv' /\ Final
<1>1. /\ pointer' = 0 /\ ~dangling' /\ dispatcher' = "select" /\ runs' = runs /\ raced' = raced
      /\ torn' = torn /\ serving' = serving /\ agentUp' = agentUp /\ starts' = starts
  BY DEF Release
<1>2. dangling' \in BOOLEAN
  BY Zenon DEF Release
<1>3. JobTypeOK'
  BY <1>1, <1>2, SamePart, JobsTyped DEF JobInv, JobTypeOK
<1>4. PointerKnown' /\ NoneLeftRunning'
  BY <1>1, SamePart DEF JobInv, PointerKnown, NoneLeftRunning
<1>5. AttemptsCounted' /\ NotSubmitted'
  BY <1>1, SamePart DEF JobInv, AttemptsCounted, NotSubmitted
<1> QED
  BY <1>3, <1>4, <1>5, SamePart DEF JobInv

LEMMA AnswerKeeps ==
  ASSUME JobInv, AgentSucceeds \/ AgentFails \/ AgentAnswersDangling
  PROVE  JobInv' /\ Final
<1>1. CASE AgentSucceeds
  BY <1>1, SettledKeeps DEF AgentSucceeds
<1>2. CASE AgentFails
  <2>1. pointer \in JobIds
    BY <1>2, JobsTyped DEF AgentFails, JobInv, JobTypeOK
  <2>2. CASE Retries(pointer)
    <3>1. jobs[pointer].attempt < Allowed(pointer)
      BY <2>1, <2>2, JobsTyped DEF Retries, Allowed, JobInv
    <3> QED
      BY <1>2, <2>2, <3>1, SettledKeeps DEF AgentFails
  <2>3. CASE ~Retries(pointer)
    BY <1>2, <2>3, SettledKeeps DEF AgentFails
  <2> QED
    BY <2>2, <2>3
<1>3. CASE AgentAnswersDangling
  BY <1>3, SettledKeeps, DroppedKeeps DEF AgentAnswersDangling
<1> QED
  BY <1>1, <1>2, <1>3

LEMMA JobStep == ASSUME JobInv, JobNext PROVE JobInv' /\ Final
BY PassiveKeeps, SelectKeeps, NoAgentKeeps, CancelKeeps, SubmitKeeps, SendKeeps, AnswerKeeps
   DEF JobNext, JobClient, Dispatch

LEMMA JobStutter == ASSUME JobInv, UNCHANGED jobVars PROVE JobInv' /\ Final
<1>1. /\ jobs' = jobs /\ runs' = runs /\ raced' = raced /\ torn' = torn /\ dangling' = dangling
      /\ pointer' = pointer /\ dispatcher' = dispatcher
      /\ serving' = serving /\ agentUp' = agentUp /\ starts' = starts
  BY DEF jobVars
<1>2. JobTypeOK'
  BY <1>1, SamePart DEF JobInv, JobTypeOK
<1>3. PointerKnown' /\ NoneLeftRunning'
  BY <1>1, SamePart DEF JobInv, PointerKnown, NoneLeftRunning
<1>4. AttemptsCounted' /\ NotSubmitted'
  BY <1>1, SamePart DEF JobInv, AttemptsCounted, NotSubmitted
<1> QED
  BY <1>1, <1>2, <1>3, <1>4, SamePart DEF JobInv

LEMMA Beginning == JobInit => JobInv
<1> SUFFICES ASSUME JobInit PROVE JobInv
  OBVIOUS
<1>1. jobs = << >> /\ jobs \in Seq(Job) /\ Len(jobs) = 0 /\ JobIds = {}
  BY DEF JobInit, JobIds
<1>2. serving \in BOOLEAN /\ agentUp \in BOOLEAN /\ dangling \in BOOLEAN
  BY Zenon DEF JobInit
<1>3. JobTypeOK
  BY <1>1, <1>2, JobBoundsAssumption DEF JobInit, JobTypeOK
<1>4. PointerKnown /\ NoneLeftRunning /\ AttemptsCounted /\ NotSubmitted
  BY <1>1 DEF JobInit, PointerKnown, NoneLeftRunning, AttemptsCounted, NotSubmitted
<1> QED
  BY <1>3, <1>4 DEF JobInv

THEOREM Invariance == JobSpec => []JobInv
<1>1. JobInv /\ [JobNext]_jobVars => JobInv'
  BY JobStep, JobStutter
<1> QED
  BY Beginning, <1>1, PTL DEF JobSpec

\* However clients submit and cancel jobs, the scheduler is stopped and started and
\* agents come, go and fail: a job is running only while the thread waits for its
\* answer, and it is sent no more often than its limit, but for the jobs whose
\* record was moved under the thread (JobScheduler.cpp:139-198).
THEOREM JobsAreSound == JobSpec => []JobsSound
<1>1. JobInv => JobsSound
  <2> SUFFICES ASSUME JobInv PROVE AttemptsWithinLimit
    BY DEF JobInv, JobsSound
  <2> QED
    BY DEF JobInv, AttemptsCounted, AttemptsWithinLimit
<1> QED
  BY Invariance, <1>1, PTL

\* What has succeeded, failed or been cancelled keeps that outcome, but for a
\* cancellation between selection and marking, and the jobs that were moved
\* (JobScheduler.cpp:149-167).
THEOREM OutcomesFinal == JobSpec => OutcomesAreFinal
<1>1. JobInv /\ [JobNext]_jobVars =>
        [\A j \in JobIds : Decided(j) /\ jobs'[j].status # jobs[j].status
                             => j \in raced \cup torn]_jobVars
  BY JobStep DEF Final
<1> QED
  BY Invariance, <1>1, PTL DEF JobSpec, OutcomesAreFinal

-------------------------------------------------------------------------------
(***************************************************************************)
(* AlertManager.                                                           *)
(***************************************************************************)
LEMMA AlertsInitially == AlertInit => AlertTypeOK /\ AlertsHaveRules
<1> SUFFICES ASSUME AlertInit PROVE AlertTypeOK /\ AlertsHaveRules
  OBVIOUS
<1>1. /\ rule = [r \in Rules |-> "absent"] /\ breach = {} /\ active = {} /\ acked = {}
      /\ resting = [r \in Rules |-> 0] /\ ticking = FALSE
  BY DEF AlertInit
<1>2. 0 \in 0..Cooldown
  BY CooldownAssumption
<1>3. rule \in [Rules -> {"absent", "enabled", "disabled"}] /\ resting \in [Rules -> 0..Cooldown]
  BY <1>1, <1>2
<1> QED
  BY <1>1, <1>3 DEF AlertTypeOK, AlertsHaveRules

LEMMA AlertsKept ==
  AlertTypeOK /\ AlertsHaveRules /\ [AlertNext]_alertVars => AlertTypeOK' /\ AlertsHaveRules'
<1> SUFFICES ASSUME AlertTypeOK, AlertsHaveRules, [AlertNext]_alertVars
             PROVE  AlertTypeOK' /\ AlertsHaveRules'
  OBVIOUS
<1>0. /\ rule \in [Rules -> {"absent", "enabled", "disabled"}]
      /\ breach \subseteq Rules
      /\ active \subseteq Rules /\ acked \subseteq active
      /\ resting \in [Rules -> 0..Cooldown]
      /\ ticking \in BOOLEAN
      /\ \A r \in active : rule[r] # "absent"
  BY DEF AlertTypeOK, AlertsHaveRules
<1>1. ASSUME AddRule PROVE AlertTypeOK' /\ AlertsHaveRules'
  <2>1. PICK r \in Rules, s \in {"enabled", "disabled"} : rule' = [rule EXCEPT ![r] = s]
    BY <1>1 DEF AddRule
  <2>2. breach' = breach /\ active' = active /\ acked' = acked /\ resting' = resting /\ ticking' = ticking
    BY <1>1 DEF AddRule
  <2>3. /\ rule' \in [Rules -> {"absent", "enabled", "disabled"}]
        /\ \A q \in active : rule'[q] # "absent"
    BY <1>0, <2>1
  <2> QED
    BY <1>0, <2>2, <2>3 DEF AlertTypeOK, AlertsHaveRules
<1>2. ASSUME RemoveRule PROVE AlertTypeOK' /\ AlertsHaveRules'
  <2>1. PICK r \in Rules : /\ rule' = [rule EXCEPT ![r] = "absent"]
                           /\ active' = active \ {r} /\ acked' = acked \ {r}
    BY <1>2 DEF RemoveRule
  <2>2. breach' = breach /\ resting' = resting /\ ticking' = ticking
    BY <1>2 DEF RemoveRule
  <2>3. /\ rule' \in [Rules -> {"absent", "enabled", "disabled"}]
        /\ active' \subseteq Rules /\ acked' \subseteq active'
        /\ \A q \in active' : rule'[q] # "absent"
    BY <1>0, <2>1
  <2> QED
    BY <1>0, <2>2, <2>3 DEF AlertTypeOK, AlertsHaveRules
<1>3. ASSUME Acknowledge PROVE AlertTypeOK' /\ AlertsHaveRules'
  BY <1>0, <1>3 DEF Acknowledge, AlertTypeOK, AlertsHaveRules
<1>4. ASSUME Evaluate PROVE AlertTypeOK' /\ AlertsHaveRules'
  <2> DEFINE fired == Tested \cap breach
  <2>1. /\ active' = (active \cup fired) \ Cleared /\ acked' = (acked \ fired) \ Cleared
        /\ resting' = [r \in Rules |-> IF r \in fired THEN Cooldown ELSE resting[r]]
        /\ rule' = rule /\ breach' = breach /\ ticking' = ticking
    BY <1>4 DEF Evaluate
  <2>2. \A r \in fired : r \in Rules /\ rule[r] = "enabled"
    BY DEF Tested
  <2> HIDE DEF fired
  <2>3. /\ active' \subseteq Rules /\ acked' \subseteq active'
        /\ \A r \in active' : rule'[r] # "absent"
    BY <1>0, <2>1, <2>2
  <2>4. resting' \in [Rules -> 0..Cooldown]
    BY <1>0, <2>1, CooldownAssumption
  <2> QED
    BY <1>0, <2>1, <2>3, <2>4 DEF AlertTypeOK, AlertsHaveRules
<1>5. ASSUME SetTimer PROVE AlertTypeOK' /\ AlertsHaveRules'
  <2>1. ticking' \in BOOLEAN
    BY <1>5 DEF SetTimer
  <2>2. rule' = rule /\ breach' = breach /\ active' = active /\ acked' = acked /\ resting' = resting
    BY <1>5 DEF SetTimer
  <2> QED
    BY <1>0, <2>1, <2>2 DEF AlertTypeOK, AlertsHaveRules
<1>6. ASSUME ClockTick PROVE AlertTypeOK' /\ AlertsHaveRules'
  <2>1. /\ resting' = [r \in Rules |-> IF resting[r] > 0 THEN resting[r] - 1 ELSE 0]
        /\ rule' = rule /\ breach' = breach /\ active' = active /\ acked' = acked /\ ticking' = ticking
    BY <1>6 DEF ClockTick
  <2>2. resting' \in [Rules -> 0..Cooldown]
    BY <1>0, <2>1, CooldownAssumption
  <2> QED
    BY <1>0, <2>1, <2>2 DEF AlertTypeOK, AlertsHaveRules
<1>7. ASSUME SetGauge PROVE AlertTypeOK' /\ AlertsHaveRules'
  BY <1>0, <1>7 DEF SetGauge, AlertTypeOK, AlertsHaveRules
<1>8. CASE UNCHANGED alertVars
  <2>1. /\ rule' = rule /\ breach' = breach /\ active' = active /\ acked' = acked
        /\ resting' = resting /\ ticking' = ticking
    BY <1>8 DEF alertVars
  <2> QED
    BY <1>0, <2>1 DEF AlertTypeOK, AlertsHaveRules
<1> QED
  BY <1>1, <1>2, <1>3, <1>4, <1>5, <1>6, <1>7, <1>8 DEF AlertNext

\* However rules come and go and whenever the timer fires, an active alert has a rule and
\* only an active one is acknowledged (AlertManager).
THEOREM AlertsAreOfRules == AlertSpec => [](AlertTypeOK /\ AlertsHaveRules)
BY AlertsInitially, AlertsKept, PTL DEF AlertSpec
===============================================================================
