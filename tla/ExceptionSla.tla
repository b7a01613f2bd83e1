---------------------------- MODULE ExceptionSla ----------------------------
(***************************************************************************)
(* The SLA sweep (app/services/exception_sla.py), run every five minutes   *)
(* by the scheduler with max_instances=1, over exceptions that staff and   *)
(* detectors keep moving.                                                  *)
(*                                                                         *)
(* A sweep reads all active rows once and then works from that snapshot:   *)
(* per row, an escalation through the engine, the record of the dispatch   *)
(* and the touch of the notification columns, three transactions.  Others  *)
(* commit between them, and the process may die between them.              *)
(*                                                                         *)
(* Time is kept relative, so that behaviours need not end: dueIn[i] is the *)
(* time left to sla_due_at (negative: breached), ago[i] the time since     *)
(* last_notified_at, both as far as the sweep can tell values apart.       *)
(***************************************************************************)
EXTENDS Integers, FiniteSets, ExceptionRules

CONSTANTS
  Ids,          \* exceptions
  NoDue,        \* those with sla_due_at NULL
  NoRow,        \* the sweep is working on none of them
  Sla,          \* time from opening to sla_due_at
  AtRiskWindow, \* "within 8 hours"
  Cadence,      \* CADENCE_MINUTES of the rows' severity
  MaxSweepTime, \* longest a sweep takes: minutes, where cadences are hours
  MaxMoves,     \* bound: moves by staff and detectors
  MaxCrashes    \* bound: deaths of the sweeping process

ASSUME SlaAssumption ==
  /\ Sla \in Nat /\ AtRiskWindow \in Nat /\ Cadence \in Nat \ {0}
  /\ MaxMoves \in Nat /\ MaxCrashes \in Nat
  /\ MaxSweepTime \in 0..(Cadence - 1)
  /\ NoDue \subseteq Ids /\ NoRow \notin Ids

MAX_ESCALATION_LEVEL == 3
Never == -1

VARIABLES
  exceptions,  \* id -> row
  notices,     \* id -> how many "notified" events the ledger has for it
  notified,    \* the levels those events named, per id
  pc,          \* where the sweep is
  snapshot,    \* the active rows as the sweep read them
  todo,        \* rows the sweep has not looked at
  current,     \* the row it is working on
  age,         \* time since the sweep took its now
  auto,        \* history: id -> escalations made by sweeps
  autoAgo,     \* history: id -> time since the last of them
  moves, crashes

vars == <<exceptions, notices, notified, pc, snapshot, todo, current, age, auto,
          autoAgo, moves, crashes>>
sweepVars == <<pc, snapshot, todo, current, age>>

Row == [status : Statuses, level : Nat, dueIn : -1..Sla, ago : -1..Cadence, count : Nat]

Init ==
  /\ exceptions = [i \in Ids |-> [status |-> "open", level |-> 0, dueIn |-> Sla,
                                  ago |-> Never, count |-> 0]]
  /\ notices = [i \in Ids |-> 0]
  /\ notified = [i \in Ids |-> {}]
  /\ pc = "idle"
  /\ snapshot = [i \in {} |-> exceptions[i]]
  /\ todo = {}
  /\ current = NoRow
  /\ age = 0
  /\ auto = [i \in Ids |-> 0]
  /\ autoAgo = [i \in Ids |-> Never]
  /\ moves = 0
  /\ crashes = 0

----------------------------------------------------------------------------
(* Time *)

Down(n) == IF n < 0 THEN n ELSE n - 1
Up(n) == IF n = Never \/ n = Cadence THEN n ELSE n + 1

Tick ==
  /\ pc # "idle" => age < MaxSweepTime
  /\ exceptions' = [i \in Ids |->
       [exceptions[i] EXCEPT !.dueIn = IF i \in NoDue THEN @ ELSE Down(@), !.ago = Up(@)]]
  /\ autoAgo' = [i \in Ids |-> Up(autoAgo[i])]
  /\ age' = IF pc = "idle" THEN 0 ELSE age + 1
  /\ UNCHANGED <<notices, notified, pc, snapshot, todo, current, auto, moves, crashes>>

----------------------------------------------------------------------------
(* Everybody else: one locked transaction of the engine at a time *)

ActiveRow(row) == row.status \in ACTIVE_STATUSES

\* A generic transition, or the re-activation of a resolved row.
StaffMove(i, to) ==
  /\ moves < MaxMoves
  /\ to \in TRANSITIONS[exceptions[i].status]
  /\ exceptions' = [exceptions EXCEPT ![i].status = to]
  /\ moves' = moves + 1
  /\ UNCHANGED <<notices, notified, auto, autoAgo, crashes>> /\ UNCHANGED sweepVars

\* ee.escalate: from any active status.
EscalateRow(i) ==
  /\ ActiveRow(exceptions[i])
  /\ exceptions' = [exceptions EXCEPT ![i].status = "escalated", ![i].level = @ + 1]

StaffEscalate(i) ==
  /\ moves < MaxMoves
  /\ EscalateRow(i)
  /\ moves' = moves + 1
  /\ UNCHANGED <<notices, notified, auto, autoAgo, crashes>> /\ UNCHANGED sweepVars

----------------------------------------------------------------------------
(* sla_state and sla_report of a row as read, at the sweep's own now *)

Breached(row) == row.dueIn < 0
AtRisk(row) == row.dueIn \in 0..AtRiskWindow

\* Mutant: the cadence is not waited for.
EscalationDueAtBreach(row) == row.dueIn <= 0

\* now >= next_escalation_at: the breach time, or the last notification
\* plus the cadence once there was one.
EscalationDue(row) == IF row.ago = Never THEN row.dueIn <= 0 ELSE row.ago = Cadence

Considered(i) == i \notin NoDue /\ snapshot[i].status # "waiting"

\* Mutant: no cap.
ShouldEscalateForever(i) ==
  Considered(i) /\ Breached(snapshot[i]) /\ EscalationDue(snapshot[i])

\* Mutant: the cap is off by one.
ShouldEscalateBelowCap(i) ==
  /\ Considered(i)
  /\ Breached(snapshot[i])
  /\ EscalationDue(snapshot[i])
  /\ snapshot[i].level + 1 < MAX_ESCALATION_LEVEL

ShouldEscalate(i) ==
  /\ Considered(i)
  /\ Breached(snapshot[i])
  /\ EscalationDue(snapshot[i])
  /\ snapshot[i].level < MAX_ESCALATION_LEVEL

\* The single early warning.
ShouldWarn(i) ==
  /\ Considered(i)
  /\ AtRisk(snapshot[i])
  /\ snapshot[i].ago = Never

----------------------------------------------------------------------------
(* sweep_exception_slas *)

\* The sweep is over, whichever way: its locals are gone.
GoIdle ==
  /\ pc' = "idle"
  /\ snapshot' = [i \in {} |-> exceptions[i]]
  /\ todo' = {}
  /\ current' = NoRow
  /\ age' = 0

SweepStart ==
  /\ pc = "idle"
  /\ pc' = "loop"
  /\ todo' = {i \in Ids : ActiveRow(exceptions[i])}
  /\ snapshot' = [i \in todo' |-> exceptions[i]]
  /\ UNCHANGED <<exceptions, notices, notified, current, age, auto, autoAgo, moves, crashes>>

\* Waiting, no due date, on track, not due yet, at the cap, already warned.
PassOver(i) ==
  /\ pc = "loop" /\ i \in todo
  /\ ~ShouldEscalate(i) /\ ~ShouldWarn(i)
  /\ todo' = todo \ {i}
  /\ UNCHANGED <<exceptions, notices, notified, pc, snapshot, current, age, auto, autoAgo,
                 moves, crashes>>

SweepEscalate(i) ==
  /\ pc = "loop" /\ i \in todo
  /\ ShouldEscalate(i)
  /\ EscalateRow(i)
  /\ todo' = todo \ {i}
  /\ current' = i
  /\ pc' = "dispatch"
  /\ auto' = [auto EXCEPT ![i] = @ + 1]
  /\ autoAgo' = [autoAgo EXCEPT ![i] = 0]
  /\ UNCHANGED <<notices, notified, snapshot, age, moves, crashes>>

\* The row was closed after the snapshot: escalate raises
\* InvalidTransitionError, which ends the sweep; the scheduler logs it.
SweepAborted(i) ==
  /\ pc = "loop" /\ i \in todo
  /\ ShouldEscalate(i)
  /\ ~ActiveRow(exceptions[i])
  /\ GoIdle
  /\ UNCHANGED <<exceptions, notices, notified, auto, autoAgo, moves, crashes>>

SweepWarn(i) ==
  /\ pc = "loop" /\ i \in todo
  /\ ShouldWarn(i)
  /\ todo' = todo \ {i}
  /\ current' = i
  /\ pc' = "dispatch"
  /\ UNCHANGED <<exceptions, notices, notified, snapshot, age, auto, autoAgo, moves, crashes>>

\* The level a dispatch names: from the snapshot, not from the row.
DispatchLevel(i) ==
  IF ShouldEscalate(i) THEN snapshot[i].level + 1 ELSE snapshot[i].level

\* _dispatch, whose last act is _record_notification.
Dispatch ==
  /\ pc = "dispatch"
  /\ notices' = [notices EXCEPT ![current] = @ + 1]
  /\ notified' = [notified EXCEPT ![current] = @ \cup {DispatchLevel(current)}]
  /\ pc' = "touch"
  /\ UNCHANGED <<exceptions, snapshot, todo, current, age, auto, autoAgo, moves, crashes>>

\* Mutant: the count is taken from the escalation level.
TouchFromLevel ==
  /\ pc = "touch"
  /\ exceptions' = [exceptions EXCEPT ![current].ago = age,
                                      ![current].count = exceptions[current].level + 1]
  /\ pc' = "loop"
  /\ current' = NoRow
  /\ UNCHANGED <<notices, notified, snapshot, todo, age, auto, autoAgo, moves, crashes>>

\* _touch: the sweep's now and the snapshot's count plus one.
Touch ==
  /\ pc = "touch"
  /\ exceptions' = [exceptions EXCEPT ![current].ago = age,
                                      ![current].count = snapshot[current].count + 1]
  /\ pc' = "loop"
  /\ current' = NoRow
  /\ UNCHANGED <<notices, notified, snapshot, todo, age, auto, autoAgo, moves, crashes>>

SweepEnd ==
  /\ pc = "loop" /\ todo = {}
  /\ GoIdle
  /\ UNCHANGED <<exceptions, notices, notified, auto, autoAgo, moves, crashes>>

\* The process dies; the next one starts with an idle scheduler.
Crash ==
  /\ pc # "idle" /\ crashes < MaxCrashes
  /\ GoIdle
  /\ crashes' = crashes + 1
  /\ UNCHANGED <<exceptions, notices, notified, auto, autoAgo, moves>>

SweepRow(i) == PassOver(i) \/ SweepEscalate(i) \/ SweepAborted(i) \/ SweepWarn(i)

SweepStep == SweepStart \/ (\E i \in Ids : SweepRow(i)) \/ Dispatch \/ Touch \/ SweepEnd

Next ==
  \/ Tick
  \/ \E i \in Ids : (\E to \in Statuses : StaffMove(i, to)) \/ StaffEscalate(i)
  \/ SweepStep
  \/ Crash

\* The scheduler keeps starting sweeps, a running sweep keeps running, and
\* time passes.  Nothing is assumed of staff.
Fairness == WF_vars(SweepStep) /\ WF_vars(Tick)

Spec == Init /\ [][Next]_vars /\ Fairness

----------------------------------------------------------------------------
(* Properties *)

\* Rows, clocks and sweep are well formed (the columns of exceptions and the
\* locals of sweep_exception_slas).
TypeOK ==
  /\ exceptions \in [Ids -> Row]
  /\ notices \in [Ids -> Nat]
  /\ notified \in [Ids -> SUBSET Nat]
  /\ pc \in {"idle", "loop", "dispatch", "touch"}
  /\ DOMAIN snapshot \subseteq Ids /\ snapshot \in [DOMAIN snapshot -> Row]
  /\ todo \subseteq DOMAIN snapshot
  /\ current \in Ids \cup {NoRow}
  /\ age \in 0..MaxSweepTime
  /\ auto \in [Ids -> Nat]
  /\ autoAgo \in [Ids -> -1..Cadence]
  /\ moves \in 0..MaxMoves /\ crashes \in 0..MaxCrashes

\* However stale the snapshots and however often sweeps die, sweeps never
\* escalate one exception more than MAX_ESCALATION_LEVEL times.
AutoEscalationsCapped == \A i \in Ids : auto[i] <= MAX_ESCALATION_LEVEL

\* No notification names a level its exception has not reached, even when
\* staff escalated it between the snapshot and the dispatch.
NoticesNameReachedLevels ==
  \A i \in Ids : \A n \in notified[i] : n <= exceptions[i].level

\* notification_count neither loses nor invents a notification: what is
\* missing from it is a touch still to come or one a crash prevented.
CountHonest ==
  \A i \in Ids :
    LET pending == IF pc = "touch" /\ current = i THEN 1 ELSE 0 IN
      /\ exceptions[i].count <= notices[i]
      /\ notices[i] <= exceptions[i].count + pending + crashes

\* A row that is breached and stays workable is escalated to the cap in the
\* end, although a row closed under it may abort any number of sweeps before.
BreachedReachesCap ==
  \A i \in Ids \ NoDue :
    <>[](ActiveRow(exceptions[i]) /\ exceptions[i].status # "waiting")
      => <>(exceptions[i].level >= MAX_ESCALATION_LEVEL)

\* Module docstring: "repeated sweeps inside a cadence window do nothing".
\* Two escalations of a row are a cadence apart, less the time a sweep takes
\* from its now to its escalation, as long as no sweep has died: of what a
\* dead sweep escalated the row says nothing.
RepeatedSweepsDoNothing ==
  [][\A i \in Ids : crashes = 0 /\ SweepEscalate(i) =>
        autoAgo[i] = Never \/ autoAgo[i] >= Cadence - MaxSweepTime]_vars

\* Staff, detectors and sweeps together only make the moves the engine's
\* lifecycle allows.
Lifecycle == INSTANCE ExceptionLifecycle
               WITH status <- [i \in Ids |-> exceptions[i].status]
ImplementsLifecycle == Lifecycle!LifecycleSpec
=============================================================================
