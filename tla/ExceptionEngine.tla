-------------------------- MODULE ExceptionEngine --------------------------
(***************************************************************************)
(* The core service of the Exception Engine                                *)
(* (app/services/exception_engine.py) over its two tables: `exceptions`,   *)
(* with the partial unique index on dedupe_key, and the append-only ledger *)
(* `exception_events`.                                                     *)
(*                                                                         *)
(* Callers are concurrent: web requests, detector scans and the SLA job.   *)
(* PostgreSQL runs every transaction at READ COMMITTED.  A mutation that   *)
(* loads its row FOR UPDATE is one action, since nobody else can change    *)
(* the row between its read and its commit.  raise_exception and comment   *)
(* take no lock, so each of their statements is an action of its own and   *)
(* others may commit between them.  Publication (audit, timeline) happens  *)
(* after the commit, in a transaction of its own, and is lost if the       *)
(* process dies in between.                                                *)
(*                                                                         *)
(* The ledger is kept as two projections: `events`, the rows that change   *)
(* the status, and `notes`, the rows that record an assignment or a        *)
(* comment and repeat the status their transaction read.                   *)
(***************************************************************************)
EXTENDS Naturals, Sequences, FiniteSets, Functions, ExceptionRules

CONSTANTS
  MaxId,       \* bound: rows the exceptions table may hold
  Keys,        \* dedupe keys
  NoKey,       \* dedupe_key is NULL
  RaiseKinds,  \* category/severity classes of the types callers raise
  Owners,      \* users or teams an exception can be assigned to
  NoOwner,     \* both owner columns are NULL
  Callers,     \* concurrent callers
  Can,         \* the capabilities of each caller; a system caller has all
  MaxLevel,    \* bound: escalation_level
  MaxEvents,   \* bound: status events in the ledger
  MaxNotes     \* bound: assignment and comment events in the ledger

ASSUME BoundsAssumption ==
  /\ MaxId \in Nat /\ MaxLevel \in Nat /\ MaxEvents \in Nat /\ MaxNotes \in Nat
ASSUME KeyAssumption == NoKey \notin Keys
ASSUME OwnerAssumption == NoOwner \notin Owners
ASSUME KindAssumption == RaiseKinds \subseteq Kinds
ASSUME CanAssumption == Can \in [Callers -> SUBSET Capabilities]
ASSUME CallersAssumption == IsFiniteSet(Callers)

VARIABLES
  exceptions,  \* the table: id -> row
  events,      \* id -> the status events of the ledger, oldest first
  notes,       \* id -> the statuses repeated by assignment and comment events
  audit,       \* id -> audit records published about it
  pc,          \* where each caller is
  arg,         \* the dedupe key of the raise a caller is in
  target,      \* the row a caller's next step is about; 0 is none
  seen         \* the status a comment read

vars == <<exceptions, events, notes, audit, pc, arg, target, seen>>

Ids == 1..MaxId
AnyKey == Keys \cup {NoKey}
AnyOwner == Owners \cup {NoOwner}

Row == [status : Statuses \cup {"absent"}, key : AnyKey, kind : Kinds,
        level : 0..MaxLevel, owner : AnyOwner, resolution : BOOLEAN]

Event == [from : Statuses \cup {"none"}, to : Statuses]

NoRow == [status |-> "absent", key |-> NoKey, kind |-> "ordinary", level |-> 0,
          owner |-> NoOwner, resolution |-> FALSE]

\* What raise_exception inserts.
NewRow(k, kind) == [status |-> "open", key |-> k, kind |-> kind, level |-> 0,
                    owner |-> NoOwner, resolution |-> FALSE]

Present(i) == exceptions[i].status # "absent"
Active(i) == exceptions[i].status \in ACTIVE_STATUSES

\* The rows the index ix_exceptions_dedupe_active holds for a key.
ActiveWith(k) == {i \in Ids : Active(i) /\ exceptions[i].key = k}
ResolvedWith(k) == {i \in Ids : exceptions[i].status = "resolved" /\ exceptions[i].key = k}

\* Mutant: the index predicate names "open" instead of the active statuses.
DuplicateOfOpenOnly(i, k) ==
  k # NoKey /\ \E j \in Ids \ {i} : exceptions[j].status = "open" /\ exceptions[j].key = k

\* Making row i active with key k would give the index a second entry: the
\* database raises IntegrityError and the transaction rolls back.
Duplicate(i, k) == k # NoKey /\ ActiveWith(k) \ {i} # {}

\* How many entries the ledger, or its notes, hold over all rows.
TotalLength(log) == FoldFunction(LAMBDA entries, n : Len(entries) + n, 0, log)

\* The id column is a serial: the next row takes the id after the last one.
FreshIds == {i \in Ids : \A j \in Ids : Present(j) <=> j < i}

\* ORDER BY id DESC, first row.
Newest(S) == {i \in S : \A j \in S : j <= i}

Init ==
  /\ exceptions = [i \in Ids |-> NoRow]
  /\ events = [i \in Ids |-> <<>>]
  /\ notes = [i \in Ids |-> <<>>]
  /\ audit = [i \in Ids |-> 0]
  /\ pc = [c \in Callers |-> "idle"]
  /\ arg = [c \in Callers |-> NoKey]
  /\ target = [c \in Callers |-> 0]
  /\ seen = [c \in Callers |-> "none"]

----------------------------------------------------------------------------
(* Shared steps of a caller *)

Has(c, capability) == capability \in Can[c]

Goto(c, label, key, row) ==
  /\ pc' = [pc EXCEPT ![c] = label]
  /\ arg' = [arg EXCEPT ![c] = key]
  /\ target' = [target EXCEPT ![c] = row]

\* Mutant: the from and to columns are swapped.
AppendEventSwapped(i, from, to) ==
  /\ TotalLength(events) < MaxEvents
  /\ events' = [events EXCEPT ![i] = Append(@, [from |-> to, to |-> from])]

\* _append_event: one more status event of row i.
AppendEvent(i, from, to) ==
  /\ TotalLength(events) < MaxEvents
  /\ events' = [events EXCEPT ![i] = Append(@, [from |-> from, to |-> to])]

\* The commit of a transaction that leaves row i as r and has logged the
\* move: the caller still has to publish.
Commit(c, i, r, from) ==
  /\ AppendEvent(i, from, r.status)
  /\ exceptions' = [exceptions EXCEPT ![i] = r]
  /\ Goto(c, "publish", NoKey, i)
  /\ UNCHANGED <<notes, audit, seen>>

----------------------------------------------------------------------------
(* raise_exception *)

\* First statement: look for an active row.  Finding one ends the raise
\* with nothing changed (the idempotent replay).
RaiseSelectActive(c, k) ==
  /\ pc[c] = "idle"
  /\ Has(c, "exception.write")
  /\ k # NoKey => ActiveWith(k) = {}
  /\ Goto(c, IF k = NoKey THEN "insert" ELSE "find_resolved", k, 0)
  /\ UNCHANGED <<exceptions, events, notes, audit, seen>>

\* Second statement: the newest resolved row of the key, if any.
RaiseSelectResolved(c) ==
  /\ pc[c] = "find_resolved"
  /\ \/ ResolvedWith(arg[c]) = {} /\ Goto(c, "insert", arg[c], 0)
     \/ \E i \in Newest(ResolvedWith(arg[c])) : Goto(c, "reopen", arg[c], i)
  /\ UNCHANGED <<exceptions, events, notes, audit, seen>>

\* Third statement, when a resolved row was found: UPDATE ... WHERE id = it.
\* The row was not locked: whatever its status is by now, it becomes
\* "reopened" and the ledger says it was "resolved".
RaiseReopen(c) ==
  /\ pc[c] = "reopen"
  /\ LET i == target[c] IN
       /\ ~Duplicate(i, exceptions[i].key)
       /\ Commit(c, i, [exceptions[i] EXCEPT !.status = "reopened", !.resolution = FALSE],
                 "resolved")

\* Third statement otherwise: INSERT.
RaiseInsert(c, kind) ==
  /\ pc[c] = "insert"
  /\ ~Duplicate(0, arg[c])
  /\ \E i \in FreshIds : Commit(c, i, NewRow(arg[c], kind), "none")

\* The index rejected the third statement: roll back.
RaiseRejected(c) ==
  /\ \/ pc[c] = "reopen" /\ Duplicate(target[c], exceptions[target[c]].key)
     \/ pc[c] = "insert" /\ Duplicate(0, arg[c])
  /\ Goto(c, "conflict", arg[c], 0)
  /\ UNCHANGED <<exceptions, events, notes, audit, seen>>

\* except IntegrityError: return the active row of the key; with none left,
\* the error goes to the caller.
RaiseConflict(c) ==
  /\ pc[c] = "conflict"
  /\ Goto(c, "idle", NoKey, 0)
  /\ UNCHANGED <<exceptions, events, notes, audit, seen>>

----------------------------------------------------------------------------
(* The mutations that load their row FOR UPDATE *)

\* _transition; a status the caller expected and did not find only rejects.
\* Reopening can also hit the index: the transaction rolls back.
Transition(c, i, to, resolution) ==
  /\ pc[c] = "idle"
  /\ Has(c, "exception.write")
  /\ Present(i)
  /\ to \in TRANSITIONS[exceptions[i].status]
  /\ to \in ACTIVE_STATUSES => ~Duplicate(i, exceptions[i].key)
  /\ Commit(c, i, [exceptions[i] EXCEPT !.status = to, !.resolution = resolution],
            exceptions[i].status)

Acknowledge(c, i) == Transition(c, i, "acknowledged", exceptions[i].resolution)
BeginWork(c, i) == Transition(c, i, "in_progress", exceptions[i].resolution)
PlaceWaiting(c, i) == Transition(c, i, "waiting", exceptions[i].resolution)
Cancel(c, i) == Transition(c, i, "cancelled", exceptions[i].resolution)
Reopen(c, i) == Transition(c, i, "reopened", FALSE)

\* Mutant: whatever the status.
EscalateAny(c, i, o) ==
  /\ pc[c] = "idle"
  /\ Has(c, "exception.write")
  /\ Present(i)
  /\ exceptions[i].level < MaxLevel
  /\ Commit(c, i, [exceptions[i] EXCEPT !.status = "escalated", !.level = @ + 1,
                                        !.owner = IF o = NoOwner THEN @ ELSE o],
            exceptions[i].status)

\* escalate: from any active status, one level up, optionally a new owner.
Escalate(c, i, o) ==
  /\ pc[c] = "idle"
  /\ Has(c, "exception.write")
  /\ Active(i)
  /\ exceptions[i].level < MaxLevel
  /\ Commit(c, i, [exceptions[i] EXCEPT !.status = "escalated", !.level = @ + 1,
                                        !.owner = IF o = NoOwner THEN @ ELSE o],
            exceptions[i].status)

\* Mutant: the ledger always says the work was in progress.
ResolveFromInProgress(c, i) ==
  /\ pc[c] = "idle"
  /\ Present(i)
  /\ Has(c, ResolveCapability(exceptions[i].kind))
  /\ "resolved" \in TRANSITIONS[exceptions[i].status]
  /\ Commit(c, i, [exceptions[i] EXCEPT !.status = "resolved", !.resolution = TRUE],
            "in_progress")

\* resolve: the capability depends on the row that is being resolved.
Resolve(c, i) ==
  /\ pc[c] = "idle"
  /\ Present(i)
  /\ Has(c, ResolveCapability(exceptions[i].kind))
  /\ "resolved" \in TRANSITIONS[exceptions[i].status]
  /\ Commit(c, i, [exceptions[i] EXCEPT !.status = "resolved", !.resolution = TRUE],
            exceptions[i].status)

\* An assignment or comment event that repeats status s.
AppendNote(c, i, s) ==
  /\ TotalLength(notes) < MaxNotes
  /\ notes' = [notes EXCEPT ![i] = Append(@, s)]
  /\ Goto(c, "publish", NoKey, i)

\* Mutant: an assignment is logged as an acknowledgement that never happened.
AssignAcknowledging(c, i, o) ==
  /\ pc[c] = "idle"
  /\ Has(c, "exception.write")
  /\ Present(i)
  /\ AppendNote(c, i, "acknowledged")
  /\ exceptions' = [exceptions EXCEPT ![i].owner = o]
  /\ UNCHANGED <<events, audit, seen>>

\* assign: whatever the status, even a closed one.
Assign(c, i, o) ==
  /\ pc[c] = "idle"
  /\ Has(c, "exception.write")
  /\ Present(i)
  /\ AppendNote(c, i, exceptions[i].status)
  /\ exceptions' = [exceptions EXCEPT ![i].owner = o]
  /\ UNCHANGED <<events, audit, seen>>

----------------------------------------------------------------------------
(* comment: reads without a lock, then inserts *)

CommentRead(c, i) ==
  /\ pc[c] = "idle"
  /\ Has(c, "exception.read")
  /\ Present(i)
  /\ Goto(c, "comment", NoKey, i)
  /\ seen' = [seen EXCEPT ![c] = exceptions[i].status]
  /\ UNCHANGED <<exceptions, events, notes, audit>>

CommentInsert(c) ==
  /\ pc[c] = "comment"
  /\ AppendNote(c, target[c], seen[c])
  /\ seen' = [seen EXCEPT ![c] = "none"]
  /\ UNCHANGED <<exceptions, events, audit>>

----------------------------------------------------------------------------
(* After the commit *)

Publish(c) ==
  /\ pc[c] = "publish"
  /\ audit' = [audit EXCEPT ![target[c]] = @ + 1]
  /\ Goto(c, "idle", NoKey, 0)
  /\ UNCHANGED <<exceptions, events, notes, seen>>

\* The process or its connection dies: an open transaction rolls back, a
\* publication that was due is never made.
Crash(c) ==
  /\ pc[c] # "idle"
  /\ Goto(c, "idle", NoKey, 0)
  /\ seen' = [seen EXCEPT ![c] = "none"]
  /\ UNCHANGED <<exceptions, events, notes, audit>>

Raise(c) ==
  \/ \E k \in AnyKey : RaiseSelectActive(c, k)
  \/ RaiseSelectResolved(c)
  \/ RaiseReopen(c)
  \/ \E kind \in RaiseKinds : RaiseInsert(c, kind)
  \/ RaiseRejected(c)
  \/ RaiseConflict(c)

Mutate(c, i) ==
  \/ Acknowledge(c, i)
  \/ BeginWork(c, i)
  \/ PlaceWaiting(c, i)
  \/ Cancel(c, i)
  \/ Reopen(c, i)
  \/ \E o \in AnyOwner : Escalate(c, i, o)
  \/ Resolve(c, i)
  \/ \E o \in Owners : Assign(c, i, o)
  \/ CommentRead(c, i)

Next ==
  \E c \in Callers :
    \/ Raise(c)
    \/ \E i \in Ids : Mutate(c, i)
    \/ CommentInsert(c)
    \/ Publish(c)
    \/ Crash(c)

Spec == Init /\ [][Next]_vars

----------------------------------------------------------------------------
(* Properties *)

\* The status column does only what ExceptionLifecycle allows: whatever
\* transactions overlap, one row moves at a time, along the approved state
\* machine or back to "reopened".
Lifecycle == INSTANCE ExceptionLifecycle WITH status <- [i \in Ids |-> exceptions[i].status]
ImplementsLifecycle == Lifecycle!LifecycleSpec

Labels == {"idle", "find_resolved", "reopen", "insert", "conflict", "comment", "publish"}

\* Every table row, ledger entry and caller is well formed: the shape the
\* columns and CHECK constraints of exceptions/exception_events fix.
TypeOK ==
  /\ exceptions \in [Ids -> Row]
  /\ events \in [Ids -> Seq(Event)]
  /\ notes \in [Ids -> Seq(Statuses)]
  /\ audit \in [Ids -> Nat]
  /\ pc \in [Callers -> Labels]
  /\ arg \in [Callers -> AnyKey]
  /\ target \in [Callers -> Ids \cup {0}]
  /\ seen \in [Callers -> Statuses \cup {"none"}]

\* No condition has two live exceptions: whatever raises, reopens and
\* re-activations overlap, at most one row of a dedupe key is active.
OneActivePerKey ==
  \A i, j \in Ids :
    Active(i) /\ Active(j) /\ exceptions[i].key = exceptions[j].key
      /\ exceptions[i].key # NoKey => i = j

\* The ledger explains the row: the row's status is where its last status
\* event left it, and a row exists exactly when something was logged.
LedgerExplainsRow ==
  \A i \in Ids :
    IF events[i] = <<>> THEN ~Present(i)
    ELSE exceptions[i].status = events[i][Len(events[i])].to

\* Resolution columns are set on exactly the resolved rows: neither a
\* reopened nor a cancelled exception carries the old resolution.
ResolutionOnlyWhenResolved ==
  \A i \in Ids : exceptions[i].resolution <=> exceptions[i].status = "resolved"

Escalations(i) == {n \in 1..Len(events[i]) : events[i][n].to = "escalated"}

\* No escalation is lost or counted twice: the level of a row is the number
\* of escalations the ledger has for it, across reopenings.
LevelCountsEscalations == \A i \in Ids : exceptions[i].level = Cardinality(Escalations(i))

\* An assignment or comment event never reports a status the exception did
\* not have, even when its unlocked read is old by the time it is inserted.
NotesReportRealStatuses ==
  \A i \in Ids : \A n \in 1..Len(notes[i]) :
    \E m \in 1..Len(events[i]) : events[i][m].to = notes[i][n]

\* Callers that have committed something about row i and still have to publish it.
Publishers(i) == {c \in Callers : pc[c] = "publish" /\ target[c] = i}

\* Nothing is audited that did not commit: the audit trail of a row and the
\* publications still due never exceed its ledger.
AuditBackedByLedger ==
  \A i \in Ids : audit[i] + Cardinality(Publishers(i)) <= Len(events[i]) + Len(notes[i])

\* What a reader of level, notes and audit is told has happened, whatever
\* was read before others committed and whichever publication was lost.
RecordsHonest == LevelCountsEscalations /\ NotesReportRealStatuses /\ AuditBackedByLedger

\* Only the dedupe re-activation may break the chain of the ledger: every
\* other status event starts at the status the previous one left.
ChainUnlessReactivated ==
  \A i \in Ids : \A n \in 2..Len(events[i]) :
    \/ events[i][n].from = events[i][n - 1].to
    \/ events[i][n] = [from |-> "resolved", to |-> "reopened"]

\* Module docstring: "validates the approved state machine against the
\* *current* row (SELECT ... FOR UPDATE, so stale/duplicate actions are
\* rejected)"; TRANSITIONS gives "cancelled" no successor.
CancelledIsFinal ==
  [][\A i \in Ids : exceptions[i].status = "cancelled"
                      => exceptions'[i].status = "cancelled"]_vars
=============================================================================
