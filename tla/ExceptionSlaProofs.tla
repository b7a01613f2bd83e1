------------------------- MODULE ExceptionSlaProofs -------------------------
(***************************************************************************)
(* Proofs about ExceptionSla for every number of exceptions, every         *)
(* cadence, sweep time and bound on moves and crashes.                     *)
(***************************************************************************)
EXTENDS ExceptionSla, TLAPS

\* The row being notified about is one the sweep has read.
CurrentOK == pc \in {"dispatch", "touch"} => current \in DOMAIN snapshot

TypeInv == TypeOK /\ CurrentOK

LEMMA RowFields ==
  ASSUME NEW row \in Row
  PROVE  /\ row.status \in Statuses /\ row.level \in Nat /\ row.dueIn \in -1..Sla
         /\ row.ago \in -1..Cadence /\ row.count \in Nat
BY DEF Row

LEMMA InitType == Init => TypeInv
<1> SUFFICES ASSUME Init PROVE TypeInv
  OBVIOUS
<1>1. exceptions \in [Ids -> Row]
  <2>1. [status |-> "open", level |-> 0, dueIn |-> Sla, ago |-> Never, count |-> 0] \in Row
    BY SlaAssumption DEF Row, Never, Statuses, ACTIVE_STATUSES
  <2> QED
    BY <2>1 DEF Init
<1>2. DOMAIN snapshot = {} /\ snapshot = [i \in {} |-> exceptions[i]] /\ todo = {}
  BY DEF Init
<1>3. /\ notices \in [Ids -> Nat] /\ notified \in [Ids -> SUBSET Nat]
      /\ auto \in [Ids -> Nat] /\ pc = "idle" /\ current = NoRow
      /\ age = 0 /\ moves = 0 /\ crashes = 0
  BY DEF Init
<1>4. autoAgo \in [Ids -> -1..Cadence]
  BY SlaAssumption DEF Init, Never
<1>5. age \in 0..MaxSweepTime /\ moves \in 0..MaxMoves /\ crashes \in 0..MaxCrashes
  BY <1>3, SlaAssumption
<1> QED
  BY <1>1, <1>2, <1>3, <1>4, <1>5 DEF TypeInv, TypeOK, CurrentOK

\* The rows stay rows under what a step does to them.
LEMMA TickRows ==
  ASSUME TypeInv, Tick
  PROVE  exceptions' \in [Ids -> Row] /\ autoAgo' \in [Ids -> -1..Cadence]
<1>1. ASSUME NEW n \in -1..Cadence PROVE Up(n) \in -1..Cadence
  BY SlaAssumption DEF Up, Never
<1>2. ASSUME NEW n \in -1..Sla PROVE Down(n) \in -1..Sla
  BY SlaAssumption DEF Down
<1>3. ASSUME NEW i \in Ids
      PROVE  [exceptions[i] EXCEPT !.dueIn = IF i \in NoDue THEN @ ELSE Down(@),
                                   !.ago = Up(@)] \in Row
  <2>1. exceptions[i] \in Row
    BY DEF TypeInv, TypeOK
  <2>2. /\ Up(exceptions[i].ago) \in -1..Cadence
        /\ (IF i \in NoDue THEN exceptions[i].dueIn ELSE Down(exceptions[i].dueIn)) \in -1..Sla
    BY <2>1, <1>1, <1>2, RowFields
  <2> QED
    BY <2>1, <2>2 DEF Row
<1>4. exceptions' \in [Ids -> Row]
  BY <1>3 DEF Tick
<1>5. autoAgo' \in [Ids -> -1..Cadence]
  BY <1>1 DEF Tick, TypeInv, TypeOK
<1> QED
  BY <1>4, <1>5

LEMMA EscalateRows ==
  ASSUME TypeInv, NEW i \in Ids, EscalateRow(i)
  PROVE  exceptions' \in [Ids -> Row]
<1>1. exceptions[i] \in Row /\ exceptions[i].level + 1 \in Nat
  BY RowFields DEF TypeInv, TypeOK
<1>2. "escalated" \in Statuses
  BY DEF Statuses, ACTIVE_STATUSES
<1>3. [exceptions[i] EXCEPT !.status = "escalated", !.level = @ + 1] \in Row
  BY <1>1, <1>2 DEF Row
<1> QED
  BY <1>3 DEF EscalateRow, TypeInv, TypeOK

LEMMA TouchRows ==
  ASSUME TypeInv, Touch
  PROVE  exceptions' \in [Ids -> Row]
<1>1. current \in Ids /\ snapshot[current] \in Row /\ exceptions[current] \in Row
  BY DEF Touch, TypeInv, TypeOK, CurrentOK
<1>2. snapshot[current].count + 1 \in Nat
  BY <1>1, RowFields
<1>3. age \in -1..Cadence
  BY SlaAssumption DEF TypeInv, TypeOK
<1>4. [exceptions[current] EXCEPT !.ago = age, !.count = snapshot[current].count + 1] \in Row
  BY <1>1, <1>2, <1>3 DEF Row
<1>5. exceptions' = [exceptions EXCEPT ![current] =
         [exceptions[current] EXCEPT !.ago = age, !.count = snapshot[current].count + 1]]
  BY <1>1 DEF Touch, TypeInv, TypeOK
<1> QED
  BY <1>1, <1>4, <1>5 DEF TypeInv, TypeOK

\* A dispatch names a level.
LEMMA DispatchType ==
  ASSUME TypeInv, pc = "dispatch"
  PROVE  current \in Ids /\ current \in DOMAIN snapshot /\ DispatchLevel(current) \in Nat
<1>1. current \in Ids /\ current \in DOMAIN snapshot /\ snapshot[current] \in Row
  BY DEF TypeInv, TypeOK, CurrentOK
<1>2. snapshot[current].level \in Nat
  BY <1>1, RowFields
<1> QED
  BY <1>1, <1>2 DEF DispatchLevel

\* A sweep that ends leaves its locals as the next one expects them.
LEMMA IdleType ==
  ASSUME TypeInv, GoIdle
  PROVE  /\ pc' = "idle" /\ DOMAIN snapshot' = {} /\ snapshot' \in [{} -> Row]
         /\ todo' = {} /\ current' = NoRow /\ age' \in 0..MaxSweepTime
BY SlaAssumption DEF GoIdle

LEMMA NextType == TypeInv /\ [Next]_vars => TypeInv'
<1> SUFFICES ASSUME TypeInv, [Next]_vars PROVE TypeInv'
  OBVIOUS
<1> USE DEF TypeInv, TypeOK, CurrentOK
<1>1. CASE UNCHANGED vars
  BY <1>1 DEF vars, CurrentOK
<1>2. CASE Tick
  <2>1. exceptions' \in [Ids -> Row] /\ autoAgo' \in [Ids -> -1..Cadence]
    BY <1>2, TickRows
  <2>2. age' \in 0..MaxSweepTime
    <3>1. MaxSweepTime \in Nat /\ age \in Nat
      BY SlaAssumption
    <3>2. age' = 0 \/ (age < MaxSweepTime /\ age' = age + 1)
      BY <1>2 DEF Tick
    <3> QED
      BY <3>1, <3>2
  <2> QED
    BY <1>2, <2>1, <2>2 DEF Tick, CurrentOK
<1>3. ASSUME NEW i \in Ids, NEW to \in Statuses, StaffMove(i, to) PROVE TypeInv'
  <2>1. exceptions' \in [Ids -> Row]
    <3>1. [exceptions[i] EXCEPT !.status = to] \in Row
      BY RowFields DEF Row
    <3> QED
      BY <1>3, <3>1 DEF StaffMove
  <2>2. moves' \in 0..MaxMoves
    BY <1>3, SlaAssumption DEF StaffMove
  <2> QED
    BY <1>3, <2>1, <2>2 DEF StaffMove, sweepVars, CurrentOK
<1>4. ASSUME NEW i \in Ids, StaffEscalate(i) PROVE TypeInv'
  <2>1. exceptions' \in [Ids -> Row]
    BY <1>4, EscalateRows DEF StaffEscalate
  <2>2. moves' \in 0..MaxMoves
    BY <1>4, SlaAssumption DEF StaffEscalate
  <2> QED
    BY <1>4, <2>1, <2>2 DEF StaffEscalate, sweepVars, CurrentOK
<1>5. CASE SweepStart
  <2>1. snapshot' \in [todo' -> Row] /\ DOMAIN snapshot' = todo' /\ todo' \subseteq Ids
    BY <1>5 DEF SweepStart
  <2> QED
    BY <1>5, <2>1 DEF SweepStart, CurrentOK
<1>6. ASSUME NEW i \in Ids, SweepRow(i) PROVE TypeInv'
  <2>1. CASE PassOver(i)
    BY <2>1 DEF PassOver, CurrentOK
  <2>2. CASE SweepEscalate(i)
    <3>1. exceptions' \in [Ids -> Row]
      BY <2>2, EscalateRows DEF SweepEscalate
    <3>2. auto' \in [Ids -> Nat] /\ autoAgo' \in [Ids -> -1..Cadence]
      BY <2>2, SlaAssumption DEF SweepEscalate
    <3> QED
      BY <2>2, <3>1, <3>2 DEF SweepEscalate, CurrentOK
  <2>3. CASE SweepAborted(i)
    BY <2>3, IdleType DEF SweepAborted
  <2>4. CASE SweepWarn(i)
    BY <2>4 DEF SweepWarn, CurrentOK
  <2> QED
    BY <1>6, <2>1, <2>2, <2>3, <2>4 DEF SweepRow
<1>7. CASE Dispatch
  <2>1. current \in Ids /\ DispatchLevel(current) \in Nat
    BY <1>7, DispatchType DEF Dispatch
  <2>2. notices' \in [Ids -> Nat] /\ notified' \in [Ids -> SUBSET Nat]
    BY <1>7, <2>1 DEF Dispatch
  <2> QED
    BY <1>7, <2>2 DEF Dispatch, CurrentOK
<1>8. CASE Touch
  <2>1. exceptions' \in [Ids -> Row]
    BY <1>8, TouchRows
  <2> QED
    BY <1>8, <2>1 DEF Touch, CurrentOK
<1>9. CASE SweepEnd
  BY <1>9, IdleType DEF SweepEnd
<1>10. CASE Crash
  <2>1. crashes' \in 0..MaxCrashes
    BY <1>10, SlaAssumption DEF Crash
  <2> QED
    BY <1>10, <2>1, IdleType DEF Crash
<1> QED
  BY <1>1, <1>2, <1>3, <1>4, <1>5, <1>6, <1>7, <1>8, <1>9, <1>10 DEF Next, SweepStep

\* Rows, clocks and the sweep's locals are well formed in every reachable
\* state.
THEOREM SlaTypeCorrect == Spec => []TypeOK
<1>1. Spec => []TypeInv
  BY InitType, NextType, PTL DEF Spec
<1>2. TypeInv => TypeOK
  BY DEF TypeInv
<1> QED
  BY <1>1, <1>2, PTL

----------------------------------------------------------------------------
(* Levels: what sweeps did, what they read, and what the rows reached *)

LevelsGrow == \A i \in Ids : exceptions'[i].level >= exceptions[i].level

\* A sweep reads levels before it raises them, so what it has counted for a
\* row it has yet to look at is at most the level it read, and that is at
\* most the level the row has.
LevelInv ==
  /\ \A i \in Ids : auto[i] <= exceptions[i].level /\ auto[i] <= MAX_ESCALATION_LEVEL
  /\ \A i \in DOMAIN snapshot : snapshot[i].level <= exceptions[i].level
  /\ \A i \in todo : auto[i] <= snapshot[i].level
  /\ NoticesNameReachedLevels
  /\ pc = "dispatch" => DispatchLevel(current) <= exceptions[current].level

LEMMA LevelsAreNat ==
  ASSUME TypeInv
  PROVE  /\ \A i \in Ids : exceptions[i].level \in Nat /\ auto[i] \in Nat
         /\ \A i \in DOMAIN snapshot : snapshot[i].level \in Nat
         /\ \A i \in Ids : \A n \in notified[i] : n \in Nat
BY RowFields DEF TypeInv, TypeOK

\* An escalation raises one level by one.
LEMMA EscalateRaises ==
  ASSUME TypeInv, NEW i \in Ids, EscalateRow(i)
  PROVE  /\ LevelsGrow
         /\ exceptions'[i].level = exceptions[i].level + 1
<1>1. exceptions[i] \in Row /\ DOMAIN exceptions = Ids
  BY DEF TypeInv, TypeOK
<1>2. exceptions'[i].level = exceptions[i].level + 1
  BY <1>1 DEF EscalateRow, Row
<1>3. ASSUME NEW j \in Ids, j # i PROVE exceptions'[j] = exceptions[j]
  BY <1>1, <1>3 DEF EscalateRow
<1> QED
  BY <1>2, <1>3, LevelsAreNat DEF LevelsGrow

\* No other step changes a level.
LEMMA OthersKeepLevels ==
  ASSUME TypeInv,
         \/ Tick \/ Touch \/ UNCHANGED exceptions
         \/ \E i \in Ids, to \in Statuses : StaffMove(i, to)
  PROVE  \A j \in Ids : exceptions'[j].level = exceptions[j].level
<1>1. DOMAIN exceptions = Ids /\ \A j \in Ids : exceptions[j] \in Row
  BY DEF TypeInv, TypeOK
<1> SUFFICES ASSUME NEW j \in Ids PROVE exceptions'[j].level = exceptions[j].level
  OBVIOUS
<1>2. CASE Tick
  <2>1. exceptions'[j] = [exceptions[j] EXCEPT
           !.dueIn = IF j \in NoDue THEN @ ELSE Down(@), !.ago = Up(@)]
    BY <1>2 DEF Tick
  <2> QED
    BY <1>1, <2>1 DEF Row
<1>3. CASE Touch
  <2>1. exceptions'[j] = exceptions[j] \/
        exceptions'[j] = [exceptions[j] EXCEPT !.ago = age, !.count = snapshot[current].count + 1]
    <3>1. /\ current \in Ids
          /\ exceptions' = [exceptions EXCEPT ![current] = [exceptions[current] EXCEPT
               !.ago = age, !.count = snapshot[current].count + 1]]
      BY <1>1, <1>3 DEF Touch, TypeInv, TypeOK, CurrentOK
    <3> QED
      BY <1>1, <3>1
  <2> QED
    BY <1>1, <2>1 DEF Row
<1>4. ASSUME NEW i \in Ids, NEW to \in Statuses, StaffMove(i, to)
      PROVE  exceptions'[j].level = exceptions[j].level
  <2>1. exceptions'[j] = exceptions[j] \/ exceptions'[j] = [exceptions[j] EXCEPT !.status = to]
    BY <1>1, <1>4 DEF StaffMove
  <2> QED
    BY <1>1, <2>1 DEF Row
<1> QED
  BY <1>2, <1>3, <1>4

\* Steps that leave the sweep's counts alone keep the invariant.
LEMMA QuietLevels ==
  ASSUME TypeInv, TypeInv', LevelInv, LevelsGrow,
         UNCHANGED <<auto, notified, snapshot>>, todo' \subseteq todo,
         pc' = "dispatch" => pc = "dispatch" /\ current' = current
  PROVE  LevelInv'
<1>1. /\ \A i \in Ids : exceptions[i].level \in Nat /\ exceptions'[i].level \in Nat
      /\ DOMAIN snapshot \subseteq Ids
      /\ \A i \in DOMAIN snapshot : snapshot[i].level \in Nat
  BY RowFields DEF TypeInv, TypeOK
<1>2. ASSUME pc' = "dispatch"
      PROVE  DispatchLevel(current)' <= exceptions'[current'].level
  <2>1. DispatchLevel(current)' = DispatchLevel(current) /\ current' = current
    BY <1>2 DEF DispatchLevel, ShouldEscalate, Considered, Breached, EscalationDue
  <2>2. current \in Ids /\ DispatchLevel(current) \in Nat
    BY <1>2, DispatchType
  <2> QED
    BY <1>1, <1>2, <2>1, <2>2 DEF LevelInv, LevelsGrow
<1>3. NoticesNameReachedLevels'
  BY <1>1, LevelsAreNat DEF LevelInv, LevelsGrow, NoticesNameReachedLevels
<1>4. \A i \in Ids : auto'[i] <= exceptions'[i].level /\ auto'[i] <= MAX_ESCALATION_LEVEL
  BY <1>1, LevelsAreNat DEF LevelInv, LevelsGrow
<1>5. \A i \in DOMAIN snapshot' : snapshot'[i].level <= exceptions'[i].level
  BY <1>1 DEF LevelInv, LevelsGrow
<1> QED
  BY <1>2, <1>3, <1>4, <1>5 DEF LevelInv

LEMMA IdleLevels ==
  ASSUME TypeInv, TypeInv', LevelInv, GoIdle, UNCHANGED <<exceptions, notified, auto>>
  PROVE  LevelInv'
BY IdleType DEF LevelInv, NoticesNameReachedLevels

LEMMA EscalateLevels ==
  ASSUME TypeInv, TypeInv', LevelInv, NEW i \in Ids, SweepEscalate(i)
  PROVE  LevelInv'
<1>1. /\ LevelsGrow /\ exceptions'[i].level = exceptions[i].level + 1
      /\ \A j \in Ids : exceptions[j].level \in Nat /\ exceptions'[j].level \in Nat
  BY EscalateRaises, RowFields DEF SweepEscalate, TypeInv, TypeOK
<1>2. /\ i \in todo /\ i \in DOMAIN snapshot /\ DOMAIN snapshot \subseteq Ids
      /\ todo' = todo \ {i} /\ todo \subseteq DOMAIN snapshot
      /\ auto' = [auto EXCEPT ![i] = auto[i] + 1]
      /\ auto \in [Ids -> Nat]
      /\ notified' = notified /\ snapshot' = snapshot /\ current' = i
  BY DEF SweepEscalate, TypeInv, TypeOK
<1>3. snapshot[i].level < MAX_ESCALATION_LEVEL /\ auto[i] <= snapshot[i].level
  BY <1>2 DEF SweepEscalate, ShouldEscalate, LevelInv
<1>4. snapshot[i].level <= exceptions[i].level
  BY <1>2 DEF LevelInv
<1>5. \A j \in DOMAIN snapshot : snapshot[j].level \in Nat
  BY LevelsAreNat
<1>6. ASSUME NEW j \in Ids
      PROVE  auto'[j] <= exceptions'[j].level /\ auto'[j] <= MAX_ESCALATION_LEVEL
  <2>1. CASE j = i
    BY <2>1, <1>1, <1>2, <1>3, <1>4, <1>5 DEF MAX_ESCALATION_LEVEL
  <2>2. CASE j # i
    BY <2>2, <1>1, <1>2 DEF LevelInv, LevelsGrow, MAX_ESCALATION_LEVEL
  <2> QED
    BY <2>1, <2>2
<1>7. \A j \in DOMAIN snapshot' : snapshot'[j].level <= exceptions'[j].level
  BY <1>1, <1>2, <1>5 DEF LevelInv, LevelsGrow
<1>8. \A j \in todo' : auto'[j] <= snapshot'[j].level
  BY <1>2 DEF LevelInv
<1>9. NoticesNameReachedLevels'
  BY <1>1, <1>2, LevelsAreNat DEF LevelInv, LevelsGrow, NoticesNameReachedLevels
<1>10. DispatchLevel(current)' <= exceptions'[current'].level
  <2>1. DispatchLevel(current)' = snapshot[i].level + 1
    BY <1>2 DEF DispatchLevel, SweepEscalate, ShouldEscalate, Considered, Breached, EscalationDue
  <2> QED
    BY <2>1, <1>1, <1>2, <1>4, <1>5
<1> QED
  BY <1>6, <1>7, <1>8, <1>9, <1>10 DEF LevelInv

LEMMA NextLevels == TypeInv /\ TypeInv' /\ LevelInv /\ [Next]_vars => LevelInv'
<1> SUFFICES ASSUME TypeInv, TypeInv', LevelInv, [Next]_vars PROVE LevelInv'
  OBVIOUS
<1>0. ASSUME \A j \in Ids : exceptions'[j].level = exceptions[j].level PROVE LevelsGrow
  BY <1>0, LevelsAreNat DEF LevelsGrow
<1>1. CASE UNCHANGED vars
  BY <1>0, <1>1, OthersKeepLevels, QuietLevels DEF vars
<1>2. CASE Tick
  BY <1>0, <1>2, OthersKeepLevels, QuietLevels DEF Tick
<1>3. ASSUME NEW i \in Ids, NEW to \in Statuses, StaffMove(i, to) PROVE LevelInv'
  BY <1>0, <1>3, OthersKeepLevels, QuietLevels DEF StaffMove, sweepVars
<1>4. ASSUME NEW i \in Ids, StaffEscalate(i) PROVE LevelInv'
  BY <1>4, EscalateRaises, QuietLevels DEF StaffEscalate, sweepVars
<1>5. CASE SweepStart
  <2>1. /\ exceptions' = exceptions /\ auto' = auto /\ notified' = notified /\ pc' = "loop"
        /\ todo' \subseteq Ids /\ DOMAIN snapshot' = todo'
        /\ \A i \in todo' : snapshot'[i] = exceptions[i]
    BY <1>5 DEF SweepStart
  <2> QED
    BY <2>1, LevelsAreNat DEF LevelInv, NoticesNameReachedLevels
<1>6. ASSUME NEW i \in Ids, SweepRow(i) PROVE LevelInv'
  <2>1. CASE PassOver(i)
    BY <1>0, <2>1, OthersKeepLevels, QuietLevels DEF PassOver
  <2>2. CASE SweepEscalate(i)
    BY <2>2, EscalateLevels
  <2>3. CASE SweepAborted(i)
    BY <2>3, IdleLevels DEF SweepAborted
  <2>4. CASE SweepWarn(i)
    <3>1. DispatchLevel(i)' = snapshot[i].level
      <4>1. i \in DOMAIN snapshot /\ snapshot[i].dueIn \in -1..Sla /\ snapshot' = snapshot
        BY <2>4, RowFields DEF SweepWarn, TypeInv, TypeOK
      <4>2. ~Breached(snapshot[i])
        BY <2>4, <4>1, SlaAssumption DEF SweepWarn, ShouldWarn, AtRisk, Breached
      <4> QED
        BY <4>1, <4>2 DEF DispatchLevel, ShouldEscalate, Breached
    <3> QED
      BY <2>4, <3>1
         DEF SweepWarn, LevelInv, NoticesNameReachedLevels, TypeInv, TypeOK, DispatchLevel,
             ShouldEscalate, Considered, Breached, EscalationDue
  <2> QED
    BY <1>6, <2>1, <2>2, <2>3, <2>4 DEF SweepRow
<1>7. CASE Dispatch
  BY <1>7, DispatchType DEF Dispatch, LevelInv, NoticesNameReachedLevels, TypeInv, TypeOK
<1>8. CASE Touch
  BY <1>0, <1>8, OthersKeepLevels, QuietLevels DEF Touch
<1>9. CASE SweepEnd
  BY <1>9, IdleLevels DEF SweepEnd
<1>10. CASE Crash
  BY <1>10, IdleLevels DEF Crash
<1> QED
  BY <1>1, <1>2, <1>3, <1>4, <1>5, <1>6, <1>7, <1>8, <1>9, <1>10 DEF Next, SweepStep

LEMMA LevelsAlways == Spec => [](TypeInv /\ LevelInv)
<1>1. Init => TypeInv /\ LevelInv
  BY InitType DEF Init, LevelInv, NoticesNameReachedLevels, MAX_ESCALATION_LEVEL
<1>2. TypeInv /\ LevelInv /\ [Next]_vars => TypeInv' /\ LevelInv'
  BY NextType, NextLevels
<1> QED
  BY <1>1, <1>2, PTL DEF Spec

\* Sweeps never escalate one exception more often than the cap, however stale
\* their snapshots are, whoever else escalates and however often they die.
THEOREM CapHolds == Spec => []AutoEscalationsCapped
<1>1. LevelInv => AutoEscalationsCapped
  BY DEF LevelInv, AutoEscalationsCapped
<1> QED
  BY <1>1, LevelsAlways, PTL

\* A notification never names a level its exception has not reached.
THEOREM NoticesHold == Spec => []NoticesNameReachedLevels
<1>1. LevelInv => NoticesNameReachedLevels
  BY DEF LevelInv
<1> QED
  BY <1>1, LevelsAlways, PTL

----------------------------------------------------------------------------
(* Counts: notification_count against the ledger *)

\* Only the running sweep writes counts, so the count it read is the count the
\* row has until it touches the row, and it touches each row once.
CountInv ==
  /\ CountHonest
  /\ \A i \in todo : snapshot[i].count = exceptions[i].count
  /\ pc \in {"dispatch", "touch"} =>
       current \notin todo /\ snapshot[current].count = exceptions[current].count
  /\ pc = "touch" => exceptions[current].count + 1 <= notices[current]

\* No step but the touch changes a count.
LEMMA OthersKeepCounts ==
  ASSUME TypeInv, [Next]_vars, ~Touch
  PROVE  \A j \in Ids : exceptions'[j].count = exceptions[j].count
<1>1. DOMAIN exceptions = Ids /\ \A j \in Ids : exceptions[j] \in Row
  BY DEF TypeInv, TypeOK
<1> SUFFICES ASSUME NEW j \in Ids PROVE exceptions'[j].count = exceptions[j].count
  OBVIOUS
<1>2. CASE Tick
  <2>1. exceptions'[j] = [exceptions[j] EXCEPT
           !.dueIn = IF j \in NoDue THEN @ ELSE Down(@), !.ago = Up(@)]
    BY <1>2 DEF Tick
  <2> QED
    BY <1>1, <2>1 DEF Row
<1>3. ASSUME NEW i \in Ids, NEW to \in Statuses, StaffMove(i, to)
      PROVE  exceptions'[j].count = exceptions[j].count
  <2>1. exceptions'[j] = exceptions[j] \/ exceptions'[j] = [exceptions[j] EXCEPT !.status = to]
    BY <1>1, <1>3 DEF StaffMove
  <2> QED
    BY <1>1, <2>1 DEF Row
<1>4. ASSUME NEW i \in Ids, EscalateRow(i)
      PROVE  exceptions'[j].count = exceptions[j].count
  <2>1. \/ exceptions'[j] = exceptions[j]
        \/ exceptions'[j] = [exceptions[j] EXCEPT !.status = "escalated", !.level = @ + 1]
    BY <1>1, <1>4 DEF EscalateRow
  <2> QED
    BY <1>1, <2>1 DEF Row
<1>5. CASE UNCHANGED exceptions
  BY <1>5
<1> QED
  BY <1>2, <1>3, <1>4, <1>5 DEF Next, vars, StaffEscalate, SweepStep, SweepStart, SweepRow,
     PassOver, SweepEscalate, SweepAborted, SweepWarn, Dispatch, SweepEnd, Crash

LEMMA CountsAreNat ==
  ASSUME TypeInv
  PROVE  /\ \A i \in Ids : exceptions[i].count \in Nat /\ notices[i] \in Nat
         /\ crashes \in Nat
BY RowFields, SlaAssumption DEF TypeInv, TypeOK

\* A touch writes one more than the row had.
LEMMA TouchCounts ==
  ASSUME TypeInv, CountInv, Touch
  PROVE  /\ current \in Ids
         /\ exceptions'[current].count = exceptions[current].count + 1
         /\ \A j \in Ids \ {current} : exceptions'[j] = exceptions[j]
<1>1. current \in Ids /\ exceptions[current] \in Row /\ DOMAIN exceptions = Ids
  BY DEF Touch, TypeInv, TypeOK, CurrentOK
<1>2. exceptions' = [exceptions EXCEPT ![current] = [exceptions[current] EXCEPT
               !.ago = age, !.count = snapshot[current].count + 1]]
  BY <1>1 DEF Touch
<1>3. snapshot[current].count = exceptions[current].count
  BY DEF Touch, CountInv
<1>4. exceptions'[current] = [exceptions[current] EXCEPT
               !.ago = age, !.count = snapshot[current].count + 1]
  BY <1>1, <1>2
<1> QED
  BY <1>1, <1>2, <1>3, <1>4 DEF Row

LEMMA NextCounts == TypeInv /\ TypeInv' /\ CountInv /\ [Next]_vars => CountInv'
<1> SUFFICES ASSUME TypeInv, TypeInv', CountInv, [Next]_vars PROVE CountInv'
  OBVIOUS
<1>1. CASE Touch
  <2>1. /\ current \in Ids /\ current \notin todo /\ current' = NoRow /\ NoRow \notin Ids
        /\ notices' = notices /\ crashes' = crashes /\ todo' = todo /\ snapshot' = snapshot
        /\ pc = "touch" /\ pc' = "loop" /\ todo \subseteq Ids
    BY <1>1, TouchCounts, SlaAssumption DEF Touch, CountInv, TypeInv, TypeOK
  <2>2. exceptions[current].count + 1 <= notices[current]
    BY <1>1 DEF Touch, CountInv
  <2>3. ASSUME NEW i \in Ids
        PROVE  exceptions'[i].count <= notices'[i] /\ notices'[i] <= exceptions'[i].count + crashes'
    <3>1. CASE i = current
      <4>1. notices[i] <= exceptions[i].count + 1 + crashes
        BY <3>1, <2>1 DEF CountInv, CountHonest
      <4> QED
        BY <1>1, <2>1, <2>2, <3>1, <4>1, TouchCounts, CountsAreNat
    <3>2. CASE i # current
      <4>1. exceptions[i].count <= notices[i] /\ notices[i] <= exceptions[i].count + 0 + crashes
        BY <3>2, <2>1 DEF CountInv, CountHonest
      <4> QED
        BY <1>1, <2>1, <3>2, <4>1, TouchCounts, CountsAreNat
    <3> QED
      BY <3>1, <3>2
  <2>4. CountHonest'
    <3>1. \A i \in Ids : exceptions'[i].count \in Nat /\ crashes' \in Nat
      BY <1>1, <2>1, TouchCounts, CountsAreNat
    <3> SUFFICES ASSUME NEW i \in Ids
                 PROVE  /\ exceptions'[i].count <= notices'[i]
                        /\ notices'[i] <= exceptions'[i].count + 0 + crashes'
      BY <2>1 DEF CountHonest
    <3> QED
      BY <2>3, <3>1
  <2>5. \A i \in todo' : snapshot'[i].count = exceptions'[i].count
    BY <1>1, <2>1, TouchCounts DEF CountInv
  <2> QED
    BY <2>1, <2>4, <2>5 DEF CountInv
<1>2. CASE ~Touch
  <2>1. /\ \A j \in Ids : exceptions'[j].count = exceptions[j].count
        /\ todo \subseteq Ids /\ current \in Ids \cup {NoRow} /\ NoRow \notin Ids
        /\ DOMAIN snapshot \subseteq Ids /\ todo \subseteq DOMAIN snapshot
        /\ pc \in {"dispatch", "touch"} => current \in Ids
    BY <1>2, OthersKeepCounts, SlaAssumption DEF TypeInv, TypeOK, CurrentOK
  <2>2. ASSUME UNCHANGED <<notices, crashes, pc, current, snapshot>>, todo' \subseteq todo
        PROVE  CountInv'
    <3>1. CountHonest'
      BY <2>1, <2>2 DEF CountInv, CountHonest
    <3>2. \A i \in todo' : snapshot'[i].count = exceptions'[i].count
      BY <2>1, <2>2 DEF CountInv
    <3> QED
      BY <2>1, <2>2, <3>1, <3>2 DEF CountInv
  <2>3. CASE Dispatch
    <3>1. /\ pc = "dispatch" /\ pc' = "touch" /\ current' = current /\ current \in Ids
          /\ notices' = [notices EXCEPT ![current] = notices[current] + 1]
          /\ crashes' = crashes /\ snapshot' = snapshot /\ todo' = todo
          /\ notices \in [Ids -> Nat]
      BY <2>1, <2>3 DEF Dispatch, TypeInv, TypeOK
    <3>2. ASSUME NEW i \in Ids
          PROVE  exceptions[i].count <= notices[i] /\ notices[i] <= exceptions[i].count + crashes
      BY <3>1, CountsAreNat DEF CountInv, CountHonest
    <3>3. CountHonest'
      BY <2>1, <3>1, <3>2, CountsAreNat DEF CountHonest
    <3>4. exceptions'[current'].count + 1 <= notices'[current']
      BY <2>1, <3>1, <3>2, CountsAreNat
    <3> QED
      BY <2>1, <3>1, <3>3, <3>4 DEF CountInv
  <2>4. CASE SweepStart
    <3>1. /\ pc = "idle" /\ pc' = "loop" /\ notices' = notices /\ crashes' = crashes
          /\ \A i \in todo' : snapshot'[i] = exceptions[i]
          /\ todo' \subseteq Ids
      BY <2>4 DEF SweepStart
    <3> QED
      BY <2>1, <3>1 DEF CountInv, CountHonest
  <2>5. ASSUME NEW i \in Ids, SweepEscalate(i) \/ SweepWarn(i) PROVE CountInv'
    <3>1. /\ pc = "loop" /\ pc' = "dispatch" /\ notices' = notices /\ crashes' = crashes
          /\ snapshot' = snapshot /\ i \in todo /\ todo' = todo \ {i} /\ current' = i
      BY <2>5 DEF SweepEscalate, SweepWarn
    <3> QED
      BY <2>1, <3>1 DEF CountInv, CountHonest
  <2>6. ASSUME GoIdle, notices' = notices, crashes' = crashes, pc = "loop" PROVE CountInv'
    BY <2>1, <2>6, IdleType DEF CountInv, CountHonest
  <2>7. CASE Crash
    <3>1. /\ pc' = "idle" /\ todo' = {} /\ notices' = notices /\ crashes' = crashes + 1
      BY <2>7, IdleType DEF Crash
    <3>2. ASSUME NEW i \in Ids
          PROVE  /\ exceptions[i].count <= notices[i]
                 /\ notices[i] <= exceptions[i].count + crashes + 1
      <4> DEFINE pending == IF pc = "touch" /\ current = i THEN 1 ELSE 0
      <4>1. exceptions[i].count <= notices[i] /\ notices[i] <= exceptions[i].count + pending + crashes
        BY DEF CountInv, CountHonest
      <4> QED
        BY <4>1, CountsAreNat
    <3>3. CountHonest'
      BY <2>1, <3>1, <3>2, CountsAreNat DEF CountHonest
    <3> QED
      BY <3>1, <3>3 DEF CountInv
  <2>8. CASE UNCHANGED vars
    BY <2>2, <2>8 DEF vars
  <2>9. CASE Tick
    BY <2>2, <2>9 DEF Tick
  <2>10. ASSUME NEW i \in Ids, StaffEscalate(i) \/ \E to \in Statuses : StaffMove(i, to)
         PROVE  CountInv'
    BY <2>2, <2>10 DEF StaffEscalate, StaffMove, sweepVars
  <2>11. ASSUME NEW i \in Ids, PassOver(i) PROVE CountInv'
    BY <2>2, <2>11 DEF PassOver
  <2>12. ASSUME SweepEnd \/ \E i \in Ids : SweepAborted(i) PROVE CountInv'
    BY <2>6, <2>12 DEF SweepEnd, SweepAborted
  <2> QED
    BY <1>2, <2>3, <2>4, <2>5, <2>7, <2>8, <2>9, <2>10, <2>11, <2>12
       DEF Next, SweepStep, SweepRow
<1> QED
  BY <1>1, <1>2

\* notification_count neither loses nor invents a notification: what it misses
\* is a touch still to come or one that a crash prevented.
THEOREM CountsHold == Spec => []CountHonest
<1>1. Init => CountInv
  BY SlaAssumption DEF Init, CountInv, CountHonest
<1>2. TypeInv /\ CountInv /\ [Next]_vars => CountInv'
  BY NextType, NextCounts
<1>3. CountInv => CountHonest
  BY DEF CountInv
<1> QED
  BY <1>1, <1>2, <1>3, InitType, NextType, PTL DEF Spec

----------------------------------------------------------------------------
(* Cadence: last_notified_at against the escalations of sweeps *)

Notifying(i) == pc \in {"dispatch", "touch"} /\ current = i

\* A row a sweep escalated has been notified about since, by a sweep whose now
\* lies at most a sweep time before the escalation.
SpacedOut(i) ==
  autoAgo[i] # Never =>
    exceptions[i].ago # Never /\ exceptions[i].ago <= autoAgo[i] + MaxSweepTime

\* What the running sweep read of the column, as far as it acts on it, holds
\* until it has looked at the row: only its own touches write the column.
ReadIsCurrent(i) ==
  /\ snapshot[i].ago = Never => exceptions[i].ago = Never
  /\ snapshot[i].ago = Cadence => exceptions[i].ago = Cadence

CadenceInv ==
  crashes = 0 =>
    /\ \A i \in Ids : ~Notifying(i) => SpacedOut(i)
    /\ \A i \in todo : ReadIsCurrent(i)
    /\ pc \in {"dispatch", "touch"} => current \notin todo

\* No step but the touch and the passing of time changes the column.
LEMMA OthersKeepAgo ==
  ASSUME TypeInv, [Next]_vars, ~Touch, ~Tick
  PROVE  \A j \in Ids : exceptions'[j].ago = exceptions[j].ago
<1>1. DOMAIN exceptions = Ids /\ \A j \in Ids : exceptions[j] \in Row
  BY DEF TypeInv, TypeOK
<1> SUFFICES ASSUME NEW j \in Ids PROVE exceptions'[j].ago = exceptions[j].ago
  OBVIOUS
<1>2. ASSUME NEW i \in Ids, NEW to \in Statuses, StaffMove(i, to)
      PROVE  exceptions'[j].ago = exceptions[j].ago
  <2>1. exceptions'[j] = exceptions[j] \/ exceptions'[j] = [exceptions[j] EXCEPT !.status = to]
    BY <1>1, <1>2 DEF StaffMove
  <2> QED
    BY <1>1, <2>1 DEF Row
<1>3. ASSUME NEW i \in Ids, EscalateRow(i)
      PROVE  exceptions'[j].ago = exceptions[j].ago
  <2>1. \/ exceptions'[j] = exceptions[j]
        \/ exceptions'[j] = [exceptions[j] EXCEPT !.status = "escalated", !.level = @ + 1]
    BY <1>1, <1>3 DEF EscalateRow
  <2> QED
    BY <1>1, <2>1 DEF Row
<1>4. CASE UNCHANGED exceptions
  BY <1>4
<1> QED
  BY <1>2, <1>3, <1>4 DEF Next, vars, StaffEscalate, SweepStep, SweepStart, SweepRow,
     PassOver, SweepEscalate, SweepAborted, SweepWarn, Dispatch, SweepEnd, Crash

LEMMA CadenceTypes ==
  ASSUME TypeInv
  PROVE  /\ \A i \in Ids : exceptions[i].ago \in -1..Cadence /\ autoAgo[i] \in -1..Cadence
         /\ age \in 0..MaxSweepTime /\ todo \subseteq Ids
         /\ crashes \in Nat /\ Cadence \in Nat /\ MaxSweepTime \in Nat
BY RowFields, SlaAssumption DEF TypeInv, TypeOK

\* Time passes for both clocks alike.
LEMMA TickKeepsCadence == TypeInv /\ CadenceInv /\ Tick => CadenceInv'
<1> SUFFICES ASSUME TypeInv, CadenceInv, Tick, crashes' = 0
             PROVE  /\ \A i \in Ids : ~Notifying(i)' => SpacedOut(i)'
                    /\ \A i \in todo' : ReadIsCurrent(i)'
                    /\ pc' \in {"dispatch", "touch"} => current' \notin todo'
  BY DEF CadenceInv
<1>1. /\ crashes = 0 /\ pc' = pc /\ current' = current /\ todo' = todo /\ snapshot' = snapshot
      /\ \A i \in Ids : autoAgo'[i] = Up(autoAgo[i])
  BY DEF Tick
<1>2. ASSUME NEW i \in Ids PROVE exceptions'[i].ago = Up(exceptions[i].ago)
  <2>1. exceptions'[i] = [exceptions[i] EXCEPT
           !.dueIn = IF i \in NoDue THEN @ ELSE Down(@), !.ago = Up(@)]
    BY DEF Tick
  <2> QED
    BY <2>1 DEF Row, TypeInv, TypeOK
<1>3. ASSUME NEW i \in Ids, ~Notifying(i)' PROVE SpacedOut(i)'
  <2>1. SpacedOut(i)
    BY <1>1, <1>3 DEF CadenceInv, Notifying
  <2> QED
    BY <1>1, <1>2, <2>1, CadenceTypes DEF SpacedOut, Up, Never
<1>4. ASSUME NEW i \in todo' PROVE ReadIsCurrent(i)'
  <2>1. i \in Ids /\ ReadIsCurrent(i)
    BY <1>1, <1>4, CadenceTypes DEF CadenceInv
  <2> QED
    BY <1>1, <1>2, <2>1, CadenceTypes DEF ReadIsCurrent, Up, Never
<1> QED
  BY <1>1, <1>3, <1>4 DEF CadenceInv

\* The touch sets the column to the sweep's now.
LEMMA TouchKeepsCadence == TypeInv /\ CadenceInv /\ Touch => CadenceInv'
<1> SUFFICES ASSUME TypeInv, CadenceInv, Touch, crashes' = 0
             PROVE  /\ \A i \in Ids : SpacedOut(i)'
                    /\ \A i \in todo' : ReadIsCurrent(i)'
                    /\ pc' = "loop"
  BY DEF CadenceInv
<1>1. /\ crashes = 0 /\ pc = "touch" /\ pc' = "loop" /\ todo' = todo /\ snapshot' = snapshot
      /\ autoAgo' = autoAgo /\ current \in Ids /\ current \notin todo
  BY DEF Touch, CadenceInv, TypeInv, TypeOK, CurrentOK
<1> PICK row \in Ids : row = current
  BY <1>1
<1>2. exceptions'[row].ago = age /\ \A i \in Ids \ {row} : exceptions'[i] = exceptions[i]
  <2>1. exceptions' = [exceptions EXCEPT ![row] =
           [exceptions[row] EXCEPT !.ago = age, !.count = snapshot[row].count + 1]]
    BY <1>1 DEF Touch, TypeInv, TypeOK
  <2>2. exceptions[row] \in Row /\ DOMAIN exceptions = Ids
    BY <1>1 DEF TypeInv, TypeOK
  <2> QED
    BY <1>1, <2>1, <2>2 DEF Row
<1>3. SpacedOut(row)'
  BY <1>1, <1>2, CadenceTypes DEF SpacedOut, Never
<1>4. ASSUME NEW i \in Ids \ {row} PROVE SpacedOut(i)'
  <2>1. SpacedOut(i)
    BY <1>1 DEF CadenceInv, Notifying
  <2> QED
    BY <1>1, <1>2, <2>1 DEF SpacedOut
<1>5. ASSUME NEW i \in todo' PROVE ReadIsCurrent(i)'
  <2>1. i \in Ids \ {row} /\ ReadIsCurrent(i)
    BY <1>1, <1>5, CadenceTypes DEF CadenceInv
  <2> QED
    BY <1>1, <1>2, <2>1 DEF ReadIsCurrent
<1> QED
  BY <1>1, <1>3, <1>4, <1>5

LEMMA NextCadence == TypeInv /\ CadenceInv /\ [Next]_vars => CadenceInv'
<1> SUFFICES ASSUME TypeInv, CadenceInv, [Next]_vars, ~Touch, ~Tick, crashes' = 0
             PROVE  /\ \A i \in Ids : ~Notifying(i)' => SpacedOut(i)'
                    /\ \A i \in todo' : ReadIsCurrent(i)'
                    /\ pc' \in {"dispatch", "touch"} => current' \notin todo'
  BY TickKeepsCadence, TouchKeepsCadence DEF CadenceInv
<1> DEFINE Conclusion == /\ \A i \in Ids : ~Notifying(i)' => SpacedOut(i)'
                         /\ \A i \in todo' : ReadIsCurrent(i)'
                         /\ pc' \in {"dispatch", "touch"} => current' \notin todo'
<1>1. \A j \in Ids : exceptions'[j].ago = exceptions[j].ago
  BY OthersKeepAgo
<1>2. todo \subseteq Ids /\ crashes \in Nat
  BY CadenceTypes
\* Whoever leaves the clocks and the snapshot alone and only shortens the list.
<1>3. ASSUME crashes = 0, autoAgo' = autoAgo, snapshot' = snapshot, todo' \subseteq todo,
             \A i \in Ids : ~Notifying(i)' => ~Notifying(i),
             pc' \in {"dispatch", "touch"} => current' \notin todo'
      PROVE  Conclusion
  BY <1>1, <1>2, <1>3 DEF CadenceInv, SpacedOut, ReadIsCurrent
<1>4. ASSUME pc \in {"idle", "loop"}, GoIdle, crashes' = crashes, autoAgo' = autoAgo
      PROVE  Conclusion
  <2>1. crashes = 0 /\ pc' = "idle" /\ todo' = {}
    BY <1>4, IdleType
  <2> QED
    BY <1>1, <1>4, <2>1 DEF CadenceInv, SpacedOut, Notifying
<1>5. CASE SweepStart
  <2>1. /\ crashes = 0 /\ pc = "idle" /\ pc' = "loop" /\ autoAgo' = autoAgo /\ todo' \subseteq Ids
        /\ \A i \in todo' : snapshot'[i] = exceptions[i]
    BY <1>5 DEF SweepStart
  <2> QED
    BY <1>1, <2>1 DEF CadenceInv, SpacedOut, Notifying, ReadIsCurrent
<1>6. ASSUME NEW i \in Ids, SweepEscalate(i) PROVE Conclusion
  <2>1. /\ crashes = 0 /\ pc = "loop" /\ pc' = "dispatch" /\ current' = i /\ todo' = todo \ {i}
        /\ snapshot' = snapshot
        /\ \A j \in Ids \ {i} : autoAgo'[j] = autoAgo[j]
    BY <1>6 DEF SweepEscalate, TypeInv, TypeOK
  <2> QED
    BY <1>1, <1>2, <2>1 DEF CadenceInv, SpacedOut, Notifying, ReadIsCurrent
<1>7. ASSUME NEW i \in Ids, SweepWarn(i) PROVE Conclusion
  BY <1>3, <1>7 DEF SweepWarn, Notifying
<1>8. ASSUME NEW i \in Ids, PassOver(i) PROVE Conclusion
  BY <1>3, <1>8 DEF PassOver, Notifying
<1>9. CASE Dispatch
  BY <1>3, <1>9 DEF Dispatch, Notifying, CadenceInv
<1>10. ASSUME NEW i \in Ids, StaffEscalate(i) \/ \E to \in Statuses : StaffMove(i, to)
       PROVE  Conclusion
  BY <1>3, <1>10 DEF StaffEscalate, StaffMove, sweepVars, Notifying, CadenceInv
<1>11. CASE UNCHANGED vars
  BY <1>3, <1>11 DEF vars, Notifying, CadenceInv
<1>12. CASE SweepEnd \/ \E i \in Ids : SweepAborted(i)
  BY <1>4, <1>12 DEF SweepEnd, SweepAborted
<1>13. CASE Crash
  BY <1>2, <1>13 DEF Crash
<1> QED
  BY <1>5, <1>6, <1>7, <1>8, <1>9, <1>10, <1>11, <1>12, <1>13 DEF Next, SweepStep, SweepRow

\* A sweep that escalates read of the row that it was never notified about or
\* that the cadence is over, and that still holds.
LEMMA EscalationsAreApart ==
  ASSUME TypeInv, CadenceInv, crashes = 0, NEW i \in Ids, SweepEscalate(i)
  PROVE  autoAgo[i] = Never \/ autoAgo[i] >= Cadence - MaxSweepTime
<1>1. i \in todo /\ pc = "loop" /\ EscalationDue(snapshot[i])
  BY DEF SweepEscalate, ShouldEscalate
<1>2. SpacedOut(i) /\ ReadIsCurrent(i)
  BY <1>1 DEF CadenceInv, Notifying
<1>3. exceptions[i].ago = Never \/ exceptions[i].ago = Cadence
  BY <1>1, <1>2 DEF EscalationDue, ReadIsCurrent
<1> QED
  BY <1>2, <1>3, CadenceTypes DEF SpacedOut, Never

\* Repeated sweeps do nothing inside a cadence window: two escalations of a row
\* are a cadence less a sweep's time apart until a sweep dies, for every
\* cadence, sweep time, and number of rows and staff moves.
THEOREM CadenceHolds == Spec => RepeatedSweepsDoNothing
<1>1. Init => CadenceInv
  BY DEF Init, CadenceInv, SpacedOut
<1>2. TypeInv /\ CadenceInv /\ [Next]_vars => CadenceInv'
  BY NextCadence
<1>3. TypeInv /\ CadenceInv /\ [Next]_vars =>
        [\A i \in Ids : crashes = 0 /\ SweepEscalate(i) =>
            autoAgo[i] = Never \/ autoAgo[i] >= Cadence - MaxSweepTime]_vars
  BY EscalationsAreApart
<1> QED
  BY <1>1, <1>2, <1>3, InitType, NextType, PTL DEF Spec, RepeatedSweepsDoNothing

----------------------------------------------------------------------------
(* Refinement *)

Column == [i \in Ids |-> exceptions[i].status]

\* What one write to the status column is to the abstract lifecycle.
LEMMA WriteImplements ==
  ASSUME TypeInv, NEW i \in Ids, NEW to \in Statuses, LegalMove(exceptions[i].status, to),
         exceptions'[i].status = to,
         \A j \in Ids \ {i} : exceptions'[j] = exceptions[j]
  PROVE  Lifecycle!LifecycleNext
<1>1. Column' = [Column EXCEPT ![i] = to] /\ Column[i] = exceptions[i].status
  BY DEF Column
<1>2. Lifecycle!LegalMove(Column[i], to) /\ to \in Lifecycle!Statuses
  BY <1>1 DEF LegalMove, Lifecycle!LegalMove, Statuses, Lifecycle!Statuses, TRANSITIONS,
       Lifecycle!TRANSITIONS, ACTIVE_STATUSES, Lifecycle!ACTIVE_STATUSES, CLOSED_STATUSES,
       Lifecycle!CLOSED_STATUSES
<1> QED
  BY <1>1, <1>2 DEF Lifecycle!LifecycleNext, Lifecycle!Advance, Column

LEMMA EscalateImplements ==
  ASSUME TypeInv, NEW i \in Ids, EscalateRow(i)
  PROVE  Lifecycle!LifecycleNext
<1>1. DOMAIN exceptions = Ids /\ exceptions[i] \in Row
  BY DEF TypeInv, TypeOK
<1>2. exceptions'[i].status = "escalated" /\ \A j \in Ids \ {i} : exceptions'[j] = exceptions[j]
  BY <1>1 DEF EscalateRow, Row
<1>3. "escalated" \in Statuses /\ LegalMove(exceptions[i].status, "escalated")
  BY DEF EscalateRow, ActiveRow, LegalMove, Statuses, ACTIVE_STATUSES
<1> QED
  BY <1>2, <1>3, WriteImplements

LEMMA SlaStepImplements ==
  ASSUME TypeInv, [Next]_vars
  PROVE  Lifecycle!LifecycleNext \/ Column' = Column
<1>1. DOMAIN exceptions = Ids /\ \A j \in Ids : exceptions[j] \in Row
  BY DEF TypeInv, TypeOK
<1>2. CASE UNCHANGED exceptions
  BY <1>2 DEF Column
<1>3. CASE Tick
  <2>1. ASSUME NEW j \in Ids PROVE exceptions'[j].status = exceptions[j].status
    <3>1. exceptions'[j] = [exceptions[j] EXCEPT
             !.dueIn = IF j \in NoDue THEN @ ELSE Down(@), !.ago = Up(@)]
      BY <1>3 DEF Tick
    <3> QED
      BY <1>1, <3>1 DEF Row
  <2> QED
    BY <2>1 DEF Column
<1>4. CASE Touch
  <2>1. ASSUME NEW j \in Ids PROVE exceptions'[j].status = exceptions[j].status
    <3>1. current \in Ids
      BY <1>4 DEF Touch, TypeInv, TypeOK, CurrentOK
    <3>2. exceptions' = [exceptions EXCEPT ![current] = [exceptions[current] EXCEPT
                 !.ago = age, !.count = snapshot[current].count + 1]]
      BY <1>1, <1>4, <3>1 DEF Touch
    <3>3. \/ exceptions'[j] = exceptions[j]
          \/ exceptions'[j] = [exceptions[j] EXCEPT !.ago = age,
                                                    !.count = snapshot[current].count + 1]
      BY <1>1, <3>1, <3>2
    <3> QED
      BY <1>1, <3>3 DEF Row
  <2> QED
    BY <2>1 DEF Column
<1>5. ASSUME NEW i \in Ids, NEW to \in Statuses, StaffMove(i, to)
      PROVE  Lifecycle!LifecycleNext
  <2>1. exceptions'[i].status = to /\ \A j \in Ids \ {i} : exceptions'[j] = exceptions[j]
    BY <1>1, <1>5 DEF StaffMove, Row
  <2>2. LegalMove(exceptions[i].status, to)
    BY <1>1, <1>5 DEF StaffMove, LegalMove, Row
  <2> QED
    BY <2>1, <2>2, WriteImplements
<1>6. ASSUME NEW i \in Ids, EscalateRow(i) PROVE Lifecycle!LifecycleNext
  BY <1>6, EscalateImplements
<1> QED
  BY <1>2, <1>3, <1>4, <1>5, <1>6 DEF Next, vars, StaffEscalate, SweepStep, SweepStart, SweepRow,
     PassOver, SweepEscalate, SweepAborted, SweepWarn, Dispatch, SweepEnd, Crash

\* Sweeps, staff and detectors together only make moves that the engine's
\* lifecycle allows, whatever snapshots the sweeps work from.
THEOREM SlaImplementsLifecycle == Spec => ImplementsLifecycle
<1>1. Init => Lifecycle!LifecycleInit
  BY DEF Init, Lifecycle!LifecycleInit
<1>2. TypeInv /\ [Next]_vars => [Lifecycle!LifecycleNext]_[i \in Ids |-> exceptions[i].status]
  BY SlaStepImplements DEF Column
<1>3. Spec => []TypeInv
  BY InitType, NextType, PTL DEF Spec
<1> QED
  BY <1>1, <1>2, <1>3, PTL DEF Spec, ImplementsLifecycle, Lifecycle!LifecycleSpec
=============================================================================
