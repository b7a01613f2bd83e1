------------------------ MODULE InsuranceCommissions ------------------------
(***************************************************************************)
(* The commission ledger of one policy (insurance_commissions.py): expected*)
(* entries per producer, payments, corrections, and the reconciliation of  *)
(* carrier statements against the entries.  Amounts are cents.             *)
(***************************************************************************)
EXTENDS Requests

CONSTANTS
  Bases, Splits,   \* commission bases, producers' percentages
  Amounts, Deltas  \* amounts of payments and lines, signed corrections

ASSUME CommissionAssumption ==
  /\ Bases \subseteq Int /\ Splits \subseteq Nat \ {0} /\ Amounts \subseteq Int /\ Deltas \subseteq Int
  /\ None \notin Int

VARIABLES
  producers,  \* split percentages of the policy's active producers that have one
  ledger,     \* entries, oldest first
  lines,      \* lines of the carrier's statements
  statements  \* status of each statement

commissionVars == <<producers, ledger, lines, statements, requestVars>>

TOLERANCE == 1

CommissionInit ==
  /\ producers = <<>> /\ ledger = <<>> /\ lines = <<>> /\ statements = <<>>
  /\ RequestInit

\* Ledger status from the expected/received pair.
Reconciled(expected, received) ==
  IF received = None THEN "expected"
  ELSE IF received - expected \in -TOLERANCE..TOLERANCE THEN "received"
  ELSE IF received < expected THEN "partial" ELSE "variance"

Entry(expected) == [expected |-> expected, received |-> None, status |-> "expected"]

\* basis * split / 100, rounded half up.
Credit(basis, split) == (2 * basis * split + 100) \div 200

AddProducer(split) ==
  /\ producers' = Append(producers, split)
  /\ Serve /\ UNCHANGED <<ledger, lines, statements>>

Booked(entries) ==
  /\ ledger' = ledger \o entries
  /\ Serve /\ UNCHANGED <<producers, lines, statements>>

RecordExpected(amount) == Booked(<<Entry(amount)>>)

\* One entry for each producer that has a split.
GenerateExpected(basis) ==
  /\ producers # <<>>
  /\ Booked([i \in DOMAIN producers |-> Entry(Credit(basis, producers[i]))])

\* The entry with amount as its net received amount.
Paid(e, amount) ==
  [ledger EXCEPT ![e].received = amount, ![e].status = Reconciled(ledger[e].expected, amount)]

RecordReceived(e, amount) ==
  /\ ledger' = Paid(e, amount)
  /\ Serve /\ UNCHANGED <<producers, lines, statements>>

WriteOff(e) ==
  /\ ledger' = [ledger EXCEPT ![e].status = "written_off"]
  /\ Serve /\ UNCHANGED <<producers, lines, statements>>

\* record_adjustment adds to the amount it has read, without a lock.
AdjustRead(r, e, delta) ==
  /\ LET base == IF ledger[e].received = None THEN 0 ELSE ledger[e].received
     IN  Starts(r, "adjust", e, base + delta, {})
  /\ UNCHANGED <<producers, ledger, lines, statements>>

AdjustWrite(r) ==
  /\ Serves(r, "adjust")
  /\ ledger' = Paid(job[r].row, job[r].seen)
  /\ Ends(r) /\ UNCHANGED <<producers, lines, statements>>

\* import_statement: header and lines in one transaction.
ImportStatement(amounts) ==
  LET s == Len(statements) + 1
  IN  /\ statements' = Append(statements, "imported")
      /\ lines' = lines \o [i \in DOMAIN amounts |->
            [sheet |-> s, amount |-> amounts[i], status |-> "unmatched", entry |-> None]]
      /\ Serve /\ UNCHANGED <<producers, ledger>>

\* The entries a line may pay, and the oldest of them.
Awaiting == {e \in DOMAIN ledger : ledger[e].status \in {"expected", "partial"}}
Oldest == CHOOSE e \in Awaiting : \A f \in Awaiting : e <= f

\* reconcile_line: an entry is given, or matched; the status of the line is
\* not looked at.
LineRead(r, l, e) ==
  /\ Starts(r, "line", l, e, {})
  /\ UNCHANGED <<producers, ledger, lines, statements>>

\* The two updates of reconcile_line, in one transaction.
LinePosted(l, e) ==
  /\ ledger' = Paid(e, lines[l].amount)
  /\ lines' = [lines EXCEPT ![l].status = "reconciled", ![l].entry = e]

LineWrite(r) ==
  /\ Serves(r, "line")
  /\ LinePosted(job[r].row, job[r].seen)
  /\ Ends(r) /\ UNCHANGED <<producers, statements>>

OfStatement(s) == {l \in DOMAIN lines : lines[l].sheet = s}

\* reconcile_statement lists the unmatched lines once ...
StatementRead(r, s) ==
  /\ Starts(r, "walk", s, None, {l \in OfStatement(s) : lines[l].status = "unmatched"})
  /\ UNCHANGED <<producers, ledger, lines, statements>>

\* ... calls reconcile_line for each ...
WalkRead(r, l) ==
  /\ Serves(r, "walk") /\ job[r].seen = None /\ l \in job[r].todo
  /\ IF Awaiting = {} THEN Goes(r, "walk", job[r].row, None, job[r].todo \ {l})
     ELSE Goes(r, "walk", job[r].row, <<l, Oldest>>, job[r].todo \ {l})
  /\ UNCHANGED <<producers, ledger, lines, statements>>

WalkWrite(r) ==
  /\ Serves(r, "walk") /\ job[r].seen # None
  /\ LinePosted(job[r].seen[1], job[r].seen[2])
  /\ Goes(r, "walk", job[r].row, None, job[r].todo)
  /\ UNCHANGED <<producers, statements>>

\* Mutant: one reconciled line is enough.
RolledUpEarly(s) ==
  IF \E l \in OfStatement(s) : lines[l].status = "reconciled" THEN "reconciled" ELSE "imported"

\* ... and rolls the statement's status up from its lines.
RolledUp(s) ==
  LET done == {l \in OfStatement(s) : lines[l].status = "reconciled"}
  IN  IF done = {} THEN "imported"
      ELSE IF done = OfStatement(s) THEN "reconciled" ELSE "partially_reconciled"

RollUpRead(r) ==
  /\ Serves(r, "walk") /\ job[r].seen = None /\ job[r].todo = {}
  /\ Goes(r, "roll", job[r].row, RolledUp(job[r].row), {})
  /\ UNCHANGED <<producers, ledger, lines, statements>>

RollUpWrite(r) ==
  /\ Serves(r, "roll")
  /\ statements' = [statements EXCEPT ![job[r].row] = job[r].seen]
  /\ Ends(r) /\ UNCHANGED <<producers, ledger, lines>>

CommissionCrash(r) ==
  /\ Dies(r) /\ UNCHANGED <<producers, ledger, lines, statements>>

CommissionNext ==
  \/ \E split \in Splits : AddProducer(split)
  \/ \E basis \in Bases : RecordExpected(basis) \/ GenerateExpected(basis)
  \/ \E a \in Amounts : ImportStatement(<<a>>) \/ \E b \in Amounts : ImportStatement(<<a, b>>)
  \/ \E e \in DOMAIN ledger : WriteOff(e) \/ \E a \in Amounts : RecordReceived(e, a)
  \/ \E r \in Requests :
       \/ \E e \in DOMAIN ledger, delta \in Deltas : AdjustRead(r, e, delta)
       \/ \E l \in DOMAIN lines, e \in DOMAIN ledger : LineRead(r, l, e)
       \/ \E s \in DOMAIN statements : StatementRead(r, s)
       \/ \E l \in DOMAIN lines : WalkRead(r, l)
       \/ AdjustWrite(r) \/ LineWrite(r) \/ WalkWrite(r)
       \/ RollUpRead(r) \/ RollUpWrite(r) \/ CommissionCrash(r)

CommissionSpec == CommissionInit /\ [][CommissionNext]_commissionVars

----------------------------------------------------------------------------
(* Properties *)

\* However payments, corrections and reconciliations overlap, the status of an
\* entry that was not written off is the one its two amounts give.
StatusHonest ==
  \A e \in DOMAIN ledger :
    \/ ledger[e].status = "written_off"
    \/ ledger[e].status = Reconciled(ledger[e].expected, ledger[e].received)

\* A statement never claims more than its lines: concurrent walks, whose
\* roll-ups may be out of date, at most understate.
RollUpSound ==
  \A s \in DOMAIN statements :
    /\ statements[s] = "reconciled" => \A l \in OfStatement(s) : lines[l].status = "reconciled"
    /\ statements[s] = "partially_reconciled" =>
         \E l \in OfStatement(s) : lines[l].status = "reconciled"

\* The entry a reconciled line names has been paid, whatever happened to it
\* since.
ReconciledLinePaid ==
  \A l \in DOMAIN lines :
    lines[l].status = "reconciled" => ledger[lines[l].entry].received # None

\* Though nothing is locked, entries, lines and statements tell one story.
BooksAgree == StatusHonest /\ ReconciledLinePaid /\ RollUpSound
=============================================================================
