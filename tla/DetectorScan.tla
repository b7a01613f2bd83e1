---------------------------- MODULE DetectorScan ----------------------------
(***************************************************************************)
(* A detector of one dedupe family (insurance_detectors.py,                *)
(* benefits_detectors.py, tax_exception_detectors.py): it reads the        *)
(* records whose condition holds, raises an exception for each, lists the  *)
(* open exceptions of the family and resolves those whose condition is not *)
(* among the ones it read.  Every raise, every begin_work and every        *)
(* resolve is a transaction of its own, so records, staff, manual scans    *)
(* and crashes come in between.                                            *)
(*                                                                         *)
(* Three families differ:                                                  *)
(*   "reviews"  insurance reviews: a record that is past due is also moved *)
(*              to overdue; failures of one key are isolated;              *)
(*   "stored"   the other insurance families and all of benefits: failures *)
(*              are isolated;                                              *)
(*   "tax"      a failure ends the scan; no job schedules it.              *)
(*                                                                         *)
(* The calls of the Exception Engine are single steps here; ExceptionEngine*)
(* has their statements.  A key has at most one row that is not cancelled, *)
(* since a raise inserts only when it finds no active and no resolved row, *)
(* so one status per key is kept: that row's, or "cancelled".              *)
(***************************************************************************)
EXTENDS Naturals, FiniteSets, ExceptionRules

CONSTANTS
  Families,   \* the families the model may be about
  Keys,       \* source records, each with its dedupe key
  NoKey,      \* a scan is working on no key
  Job,        \* the scan the scheduler runs (max_instances=1)
  Manual,     \* scans somebody started (insurance endpoints)
  MaxChanges, \* bound: changes of source records
  MaxMoves,   \* bound: moves of exceptions by staff
  MaxCrashes  \* bound: scans that die

Scans == {Job} \cup Manual

ASSUME ScanAssumption ==
  /\ Families \subseteq {"reviews", "stored", "tax"}
  /\ NoKey \notin Keys /\ Job \notin Manual
  /\ MaxChanges \in Nat /\ MaxMoves \in Nat /\ MaxCrashes \in Nat

VARIABLES
  family,     \* the family this is about
  source,     \* record -> "due" (past due, open), "overdue" (marked) or "done"
  exc,        \* key -> status of its exception
  scan,       \* scan -> where it is and what it has read
  calm,       \* history: scans no change or crash has disturbed since they read
  settled,    \* history: one of them has ended, and nothing happened since
  changes, moves, crashes

history == <<calm, settled>>
bounds == <<changes, moves, crashes>>
vars == <<family, source, exc, scan, history, bounds>>

Isolated == family # "tax"
Flips == family = "reviews"

Active(k) == exc[k] \in ACTIVE_STATUSES
Holds(k) == source[k] # "done"

Idle == [at |-> "idle", conditions |-> {}, open |-> {}, todo |-> {}, unstarted |-> {},
         cur |-> NoKey]

Init ==
  /\ family \in Families
  /\ source = [k \in Keys |-> "done"]
  /\ exc = [k \in Keys |-> "absent"]
  /\ scan = [s \in Scans |-> Idle]
  /\ calm = {} /\ settled = FALSE
  /\ changes = 0 /\ moves = 0 /\ crashes = 0

At(s, place) == scan[s].at = place
InFlight(s) == ~At(s, "idle")

----------------------------------------------------------------------------
(* The scan *)

\* SELECT the records whose condition holds, with their status.
ReadConditions(s) ==
  /\ At(s, "idle")
  /\ LET held == {k \in Keys : Holds(k)}
     IN  scan' = [scan EXCEPT ![s] = [Idle EXCEPT
           !.at = "raise", !.conditions = held, !.todo = held,
           !.open = {k \in held : source[k] = "due"}]]
  /\ calm' = IF \A t \in Scans \ {s} : InFlight(t) => t \in calm THEN calm \cup {s} ELSE calm
  /\ UNCHANGED <<family, source, exc, settled, bounds>>

\* _flip_overdue: the status is looked at again in the transaction, without
\* a lock; a record that is not open any more keeps its status, but its
\* exception is raised all the same.
FlipRead(s, k) ==
  /\ At(s, "raise") /\ k \in scan[s].todo
  /\ Flips /\ k \in scan[s].open
  /\ scan' = [scan EXCEPT ![s].cur = k, ![s].at = IF source[k] = "due" THEN "flip" ELSE "insert"]
  /\ UNCHANGED <<family, source, exc, history, bounds>>

FlipWrite(s) ==
  /\ At(s, "flip")
  /\ source' = [source EXCEPT ![scan[s].cur] = "overdue"]
  /\ scan' = [scan EXCEPT ![s].at = "insert"]
  /\ UNCHANGED <<family, exc, history, bounds>>

\* Mutant: an active exception is raised anew.
RaisedAnew(k) == IF exc[k] = "absent" THEN "open" ELSE "reopened"

\* raise_exception: an active row is found, a resolved one re-activated, and
\* otherwise a new one inserted.
Raised(k) ==
  IF Active(k) THEN exc[k] ELSE IF exc[k] = "resolved" THEN "reopened" ELSE "open"

Raise(s, k) ==
  /\ \/ At(s, "raise") /\ k \in scan[s].todo /\ ~(Flips /\ k \in scan[s].open)
     \/ At(s, "insert") /\ k = scan[s].cur
  /\ exc' = [exc EXCEPT ![k] = Raised(k)]
  /\ scan' = [scan EXCEPT ![s].at = "raise", ![s].todo = @ \ {k}, ![s].cur = NoKey]
  /\ UNCHANGED <<family, source, history, bounds>>

\* Mutant: the open exceptions are all closed.
StaleAll(s) == {k \in Keys : Active(k)}

\* The listed exceptions that are not passed over.
Stale(s) == {k \in Keys : Active(k)} \ scan[s].conditions

NotStarted == {"open", "acknowledged", "reopened"}

\* SELECT the open exceptions of the family, with their status.
ListOpen(s) ==
  /\ At(s, "raise") /\ scan[s].todo = {}
  /\ scan' = [scan EXCEPT ![s].at = "close", ![s].todo = Stale(s),
                          ![s].unstarted = {k \in Stale(s) : exc[k] \in NotStarted}]
  /\ UNCHANGED <<family, source, exc, history, bounds>>

\* Mutant: a call that failed is repeated until it succeeds.
OverWhenDone(s, failed) ==
  scan' = IF failed THEN [scan EXCEPT ![s].at = "resolve"]
          ELSE [scan EXCEPT ![s].at = "close", ![s].cur = NoKey]

\* The call for the current key is over: a failure is noted and the scan goes
\* on with the others, or it ends.
Over(s, failed) ==
  scan' = IF failed /\ ~Isolated THEN [scan EXCEPT ![s] = Idle]
          ELSE [scan EXCEPT ![s].at = "close", ![s].cur = NoKey]

\* _auto_resolve: the next listed exception; one that was not started when it
\* was listed is begun first.
PickStale(s, k) ==
  /\ At(s, "close") /\ k \in scan[s].todo
  /\ scan' = [scan EXCEPT ![s].cur = k, ![s].todo = @ \ {k},
                          ![s].at = IF k \in scan[s].unstarted THEN "begin" ELSE "resolve"]
  /\ UNCHANGED <<family, source, exc, history, bounds>>

CanMove(k, to) == exc[k] \in Statuses /\ to \in TRANSITIONS[exc[k]]

\* begin_work; InvalidTransitionError when the status is not as listed.
Begin(s) ==
  /\ At(s, "begin")
  /\ LET k == scan[s].cur
     IN  IF CanMove(k, "in_progress")
         THEN /\ exc' = [exc EXCEPT ![k] = "in_progress"]
              /\ scan' = [scan EXCEPT ![s].at = "resolve"]
         ELSE Over(s, TRUE) /\ UNCHANGED exc
  /\ UNCHANGED <<family, source, history, bounds>>

Resolve(s) ==
  /\ At(s, "resolve")
  /\ LET k == scan[s].cur
     IN  IF CanMove(k, "resolved")
         THEN exc' = [exc EXCEPT ![k] = "resolved"] /\ Over(s, FALSE)
         ELSE Over(s, TRUE) /\ UNCHANGED exc
  /\ UNCHANGED <<family, source, history, bounds>>

ScanEnd(s) ==
  /\ At(s, "close") /\ scan[s].todo = {}
  /\ scan' = [scan EXCEPT ![s] = Idle]
  /\ settled' = (settled \/ (s \in calm /\ \A t \in Scans \ {s} : ~InFlight(t)))
  /\ UNCHANGED <<family, source, exc, calm, bounds>>

----------------------------------------------------------------------------
(* Everybody else *)

Disturb == calm' = {} /\ settled' = FALSE

\* A record is completed, re-opened, cancelled, or falls due: an UPDATE by id.
SourceChanges(k, to) ==
  /\ changes < MaxChanges
  /\ source[k] # to
  /\ source' = [source EXCEPT ![k] = to]
  /\ changes' = changes + 1
  /\ Disturb
  /\ UNCHANGED <<family, exc, scan, moves, crashes>>

\* Staff work on an exception, escalations and reopenings included.
StaffMove(k, to) ==
  /\ moves < MaxMoves
  /\ exc[k] # to
  /\ CanMove(k, to) \/ (Active(k) /\ to = "escalated")
  /\ exc' = [exc EXCEPT ![k] = to]
  /\ moves' = moves + 1
  /\ Disturb
  /\ UNCHANGED <<family, source, scan, changes, crashes>>

Crash(s) ==
  /\ crashes < MaxCrashes
  /\ InFlight(s)
  /\ scan' = [scan EXCEPT ![s] = Idle]
  /\ crashes' = crashes + 1
  /\ Disturb
  /\ UNCHANGED <<family, source, exc, changes, moves>>

----------------------------------------------------------------------------
ScanStep(s) ==
  \/ ReadConditions(s)
  \/ \E k \in Keys : FlipRead(s, k) \/ Raise(s, k) \/ PickStale(s, k)
  \/ FlipWrite(s) \/ ListOpen(s) \/ Begin(s) \/ Resolve(s) \/ ScanEnd(s)

Next ==
  \/ \E s \in Scans : ScanStep(s) \/ Crash(s)
  \/ \E k \in Keys :
       \/ \E to \in {"due", "done"} : SourceChanges(k, to)
       \/ \E to \in Statuses : StaffMove(k, to)

\* The scheduler keeps running the job of an insurance or benefits family;
\* nobody has to start a manual scan, nor the tax one.
Fairness == WF_vars(family # "tax" /\ ScanStep(Job))

Spec == Init /\ [][Next]_vars /\ Fairness

----------------------------------------------------------------------------
(* Properties *)

Places == {"idle", "raise", "flip", "insert", "close", "begin", "resolve"}

\* Every variable has its type, and a scan works on a key exactly between two
\* of its transactions for it.
TypeOK ==
  /\ family \in Families
  /\ source \in [Keys -> {"due", "overdue", "done"}]
  /\ exc \in [Keys -> Statuses \cup {"absent"}]
  /\ scan \in [Scans -> [at : Places, conditions : SUBSET Keys, open : SUBSET Keys,
                         todo : SUBSET Keys, unstarted : SUBSET Keys, cur : Keys \cup {NoKey}]]
  /\ \A s \in Scans : scan[s].cur \in Keys <=> scan[s].at \in {"flip", "insert", "begin", "resolve"}
  /\ calm \subseteq Scans /\ settled \in BOOLEAN
  /\ changes \in 0..MaxChanges /\ moves \in 0..MaxMoves /\ crashes \in 0..MaxCrashes

Agreement == \A k \in Keys : Holds(k) <=> Active(k)

\* After a scan that nothing disturbed, exactly the records whose condition
\* holds have a live exception, although other scans of the family ran beside
\* it and made some of its calls fail.
SettledAgrees == settled => Agreement

\* "Idempotent: re-running neither double-raises (dedupe) nor re-flips
\* (guarded)": after such a scan further ones change no exception and no
\* record until something else does.
RescanChangesNothing ==
  [][settled /\ (\E s \in Scans : ScanStep(s)) => UNCHANGED <<source, exc>>]_vars

\* Whatever stale raises, lost flips, failed calls and crashes there were:
\* once records and staff come to rest, the scheduled scans bring exceptions
\* and conditions to agree, for good.
Converges == family # "tax" => <>[]Agreement
=============================================================================
