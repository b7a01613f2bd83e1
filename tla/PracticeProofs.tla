---------------------------- MODULE PracticeProofs ----------------------------
(*****************************************************************************)
(* Theorems about the services of the practice, for every set of requests    *)
(* and every instance of their constants: the books of the commissions, the  *)
(* two calendars on which a completed item opens the next, the watch list of *)
(* the benefit roster, who works on what, the checklist of a tax return, and *)
(* the reminders of licenses.                                                *)
(*****************************************************************************)
EXTENDS InsuranceCommissions, BenefitObligations, InsuranceRecords, BenefitRoster,
        WorkAssignments, TaxIntake, ProducerLicensing, FiniteSetTheorems,
        WellFoundedInduction, TLAPS

----------------------------------------------------------------------------
(* Commissions *)

LedgerStatuses == {"expected", "received", "partial", "variance", "written_off"}
Entries == [expected : Int, received : Int \cup {None}, status : LedgerStatuses]
Lines == [sheet : Nat, amount : Int, status : {"unmatched", "reconciled"}, entry : Nat \cup {None}]
StatementStatuses == {"imported", "partially_reconciled", "reconciled"}

\* The tables, and that every line is of a statement.
TablesOK ==
  /\ producers \in Seq(Int) /\ ledger \in Seq(Entries)
  /\ lines \in Seq(Lines) /\ statements \in Seq(StatementStatuses)
  /\ \A l \in DOMAIN lines : lines[l].sheet \in DOMAIN statements

\* The status claims no more of statement s than its lines have.
Backed(s, claim) ==
  /\ claim \in StatementStatuses
  /\ claim = "reconciled" => \A l \in OfStatement(s) : lines[l].status = "reconciled"
  /\ claim = "partially_reconciled" => \E l \in OfStatement(s) : lines[l].status = "reconciled"

\* What a request holds of the tables, by the place it is at.
BookJobOK(j) ==
  /\ j.at = "adjust" => j.row \in DOMAIN ledger /\ j.seen \in Int
  /\ j.at = "line" => j.row \in DOMAIN lines /\ j.seen \in DOMAIN ledger
  /\ j.at = "walk" =>
       /\ j.row \in DOMAIN statements /\ j.todo \subseteq DOMAIN lines
       /\ j.seen # None => j.seen[1] \in DOMAIN lines /\ j.seen[2] \in DOMAIN ledger
  /\ j.at = "roll" => j.row \in DOMAIN statements /\ Backed(j.row, j.seen)

BookJobsOK ==
  /\ job = [r \in Requests |-> job[r]]
  /\ \A r \in Requests : BookJobOK(job[r])

EntriesPaid ==
  \A l \in DOMAIN lines :
    lines[l].status = "reconciled" =>
      lines[l].entry \in DOMAIN ledger /\ ledger[lines[l].entry].received # None

StatementsBacked == \A s \in DOMAIN statements : Backed(s, statements[s])

BooksInv == TablesOK /\ BookJobsOK /\ StatusHonest /\ EntriesPaid /\ StatementsBacked

\* What every step keeps of the tables.
Kept ==
  /\ DOMAIN ledger \subseteq DOMAIN ledger'
  /\ DOMAIN lines \subseteq DOMAIN lines'
  /\ DOMAIN statements \subseteq DOMAIN statements'
  /\ \A l \in DOMAIN lines :
       /\ lines'[l].sheet = lines[l].sheet
       /\ lines[l].status = "reconciled" => lines'[l].status = "reconciled"
  /\ \A l \in DOMAIN lines' \ DOMAIN lines : lines'[l].sheet \notin DOMAIN statements

----------------------------------------------------------------------------

\* A status that the lines of a statement back is backed after any step.
LEMMA BackedKept ==
  ASSUME TablesOK, Kept, NEW s \in DOMAIN statements, NEW claim, Backed(s, claim)
  PROVE  Backed(s, claim)'
<1>1. OfStatement(s)' = OfStatement(s)
  BY DEF OfStatement, Kept, TablesOK
<1> QED BY <1>1 DEF Backed, Kept, OfStatement

\* What a request holds it holds after any step that leaves it alone.
LEMMA JobKept ==
  ASSUME TablesOK, Kept, NEW j, BookJobOK(j)
  PROVE  BookJobOK(j)'
<1>1. j.at = "roll" => Backed(j.row, j.seen)'
  BY BackedKept DEF BookJobOK
<1> QED BY <1>1 DEF BookJobOK, Kept

\* The status that two amounts give is one of the ledger's.
LEMMA ReconciledType ==
  ASSUME NEW x, NEW y PROVE Reconciled(x, y) \in LedgerStatuses
BY DEF Reconciled, LedgerStatuses

\* The requests are as the invariant has them when one of them goes on to j.
LEMMA BookJobsKept ==
  ASSUME TablesOK, BookJobsOK, Kept, NEW r \in Requests, NEW j, BookJobOK(j)',
         job' = [job EXCEPT ![r] = j]
  PROVE  BookJobsOK'
<1>1. job' = [q \in Requests |-> job'[q]]
  BY DEF BookJobsOK
<1>2. ASSUME NEW q \in Requests PROVE BookJobOK(job[q])'
  <2>1. CASE q = r
    <3>1. job'[q] = j
      BY <2>1 DEF BookJobsOK
    <3> QED BY <3>1 DEF BookJobOK
  <2>2. CASE q # r
    <3>1. PICK k : k = job[q]
      OBVIOUS
    <3>2. job'[q] = k
      BY <2>2, <3>1 DEF BookJobsOK
    <3>3. BookJobOK(k)'
      BY <3>1, JobKept DEF BookJobsOK
    <3> QED BY <3>2, <3>3 DEF BookJobOK
  <2> QED BY <2>1, <2>2
<1> QED BY <1>1, <1>2 DEF BookJobsOK

\* A payment gives its entry the status of its amounts, and leaves the others.
LEMMA PaidEntry ==
  ASSUME CommissionAssumption, TablesOK, NEW e \in DOMAIN ledger, NEW amount \in Int,
         ledger' = Paid(e, amount)
  PROVE  /\ ledger' \in Seq(Entries) /\ DOMAIN ledger' = DOMAIN ledger
         /\ ledger'[e].received # None
         /\ \A f \in DOMAIN ledger : ledger[f].received # None => ledger'[f].received # None
         /\ StatusHonest => StatusHonest'
<1> DEFINE claim == Reconciled(ledger[e].expected, amount)
           row == [ledger[e] EXCEPT !.received = amount, !.status = claim]
<1>1. ledger[e] \in Entries /\ claim \in LedgerStatuses
  BY ReconciledType DEF TablesOK
<1>2. row \in Entries /\ row.expected = ledger[e].expected /\ row.received = amount /\ row.status = claim
  BY <1>1 DEF Entries
<1>3. ledger' = [ledger EXCEPT ![e] = row]
  BY DEF Paid, TablesOK
<1> HIDE DEF row, claim
<1>4. ledger' \in Seq(Entries) /\ DOMAIN ledger' = DOMAIN ledger
  BY <1>2, <1>3 DEF TablesOK
<1>5. ledger'[e] = row /\ \A f \in DOMAIN ledger : f # e => ledger'[f] = ledger[f]
  BY <1>3 DEF TablesOK
<1>6. amount # None
  BY DEF CommissionAssumption
<1>7. StatusHonest => StatusHonest'
  BY <1>2, <1>4, <1>5 DEF StatusHonest, claim
<1> QED BY <1>2, <1>4, <1>5, <1>6, <1>7

LEMMA JobsStill ==
  ASSUME TablesOK, BookJobsOK, Kept, job' = job
  PROVE  BookJobsOK'
<1>1. ASSUME NEW q \in Requests PROVE BookJobOK(job[q])'
  <2>1. PICK k : k = job[q]
    OBVIOUS
  <2>2. BookJobOK(k)'
    BY <2>1, JobKept DEF BookJobsOK
  <2> QED BY <2>1, <2>2 DEF BookJobOK
<1> QED BY <1>1 DEF BookJobsOK

\* A step that only reads.
LEMMA TablesStill ==
  ASSUME TablesOK, StatusHonest, EntriesPaid, StatementsBacked,
         UNCHANGED <<producers, ledger, lines, statements>>
  PROVE  Kept /\ TablesOK' /\ StatusHonest' /\ EntriesPaid' /\ StatementsBacked'
<1>1. Kept
  BY DEF Kept
<1>2. TablesOK' /\ StatusHonest' /\ EntriesPaid'
  BY DEF TablesOK, StatusHonest, EntriesPaid
<1>3. StatementsBacked'
  BY <1>1, BackedKept DEF StatementsBacked
<1> QED BY <1>1, <1>2, <1>3

LEMMA ReadingKeeps ==
  ASSUME BooksInv, UNCHANGED <<producers, ledger, lines, statements>>,
         NEW r \in Requests, NEW j, BookJobOK(j)', job' = [job EXCEPT ![r] = j]
  PROVE  BooksInv'
BY TablesStill, BookJobsKept DEF BooksInv

\* A payment of an entry, with nothing else.
LEMMA PaymentKeeps ==
  ASSUME CommissionAssumption, BooksInv, NEW e \in DOMAIN ledger, NEW amount \in Int,
         ledger' = Paid(e, amount), UNCHANGED <<producers, lines, statements>>
  PROVE  Kept /\ TablesOK' /\ StatusHonest' /\ EntriesPaid' /\ StatementsBacked'
<1>1. ledger' \in Seq(Entries) /\ DOMAIN ledger' = DOMAIN ledger /\ StatusHonest'
  BY PaidEntry DEF BooksInv
<1>2. Kept
  BY <1>1 DEF Kept
<1>3. TablesOK'
  BY <1>1 DEF BooksInv, TablesOK
<1>4. EntriesPaid'
  BY <1>1, PaidEntry DEF BooksInv, EntriesPaid
<1>5. StatementsBacked'
  BY <1>2, BackedKept DEF BooksInv, StatementsBacked
<1> QED BY <1>1, <1>2, <1>3, <1>4, <1>5

\* A line and the entry it pays.
LEMMA PostingKeeps ==
  ASSUME CommissionAssumption, BooksInv, NEW l \in DOMAIN lines, NEW e \in DOMAIN ledger,
         LinePosted(l, e), UNCHANGED <<producers, statements>>
  PROVE  Kept /\ TablesOK' /\ StatusHonest' /\ EntriesPaid' /\ StatementsBacked'
<1> DEFINE line == [lines[l] EXCEPT !.status = "reconciled", !.entry = e]
<1>1. lines[l] \in Lines /\ lines[l].amount \in Int /\ e \in Nat
  <2>1. lines[l] \in Lines /\ e \in Nat
    BY DEF BooksInv, TablesOK
  <2> QED BY <2>1 DEF Lines
<1>2. ledger' = Paid(e, lines[l].amount)
  BY DEF LinePosted
<1>3. /\ ledger' \in Seq(Entries) /\ DOMAIN ledger' = DOMAIN ledger /\ StatusHonest'
      /\ ledger'[e].received # None
      /\ \A f \in DOMAIN ledger : ledger[f].received # None => ledger'[f].received # None
  BY <1>1, <1>2, PaidEntry DEF BooksInv
<1>4. line \in Lines /\ line.sheet = lines[l].sheet /\ line.status = "reconciled" /\ line.entry = e
  BY <1>1 DEF Lines
<1>5. lines' = [lines EXCEPT ![l] = line]
  BY DEF LinePosted, BooksInv, TablesOK
<1> HIDE DEF line
<1>6. /\ lines' \in Seq(Lines) /\ DOMAIN lines' = DOMAIN lines /\ lines'[l] = line
      /\ \A k \in DOMAIN lines : k # l => lines'[k] = lines[k]
  BY <1>4, <1>5 DEF BooksInv, TablesOK
<1>7. Kept
  BY <1>3, <1>4, <1>6 DEF Kept
<1>8. TablesOK'
  <2>1. \A k \in DOMAIN lines' : lines'[k].sheet \in DOMAIN statements'
    BY <1>4, <1>6 DEF BooksInv, TablesOK
  <2> QED BY <1>3, <1>6, <2>1 DEF BooksInv, TablesOK
<1>9. EntriesPaid'
  BY <1>3, <1>4, <1>6 DEF BooksInv, EntriesPaid
<1>10. StatementsBacked'
  BY <1>7, BackedKept DEF BooksInv, StatementsBacked
<1> QED BY <1>3, <1>7, <1>8, <1>9, <1>10

\* New entries at the end of the ledger.
LEMMA BookingKeeps ==
  ASSUME BooksInv, NEW entries \in Seq(Entries),
         \A i \in DOMAIN entries : entries[i].status = "expected" /\ entries[i].received = None,
         Booked(entries)
  PROVE  BooksInv'
<1>1. /\ ledger' \in Seq(Entries) /\ DOMAIN ledger \subseteq DOMAIN ledger'
      /\ \A f \in DOMAIN ledger : ledger'[f] = ledger[f]
      /\ \A f \in DOMAIN ledger' \ DOMAIN ledger :
           ledger'[f].status = "expected" /\ ledger'[f].received = None
  <2>1. ledger \in Seq(Entries) /\ ledger' = ledger \o entries
    BY DEF BooksInv, TablesOK, Booked
  <2> QED BY <2>1
<1>2. Kept
  BY <1>1 DEF Kept, Booked
<1>3. TablesOK'
  BY <1>1 DEF BooksInv, TablesOK, Booked
<1>4. StatusHonest'
  BY <1>1 DEF BooksInv, StatusHonest, Reconciled
<1>5. EntriesPaid'
  BY <1>1 DEF BooksInv, EntriesPaid, Booked
<1>6. StatementsBacked'
  BY <1>2, BackedKept DEF BooksInv, StatementsBacked, Booked
<1>7. BookJobsOK'
  BY <1>2, JobsStill DEF BooksInv, Booked, Serve
<1> QED BY <1>3, <1>4, <1>5, <1>6, <1>7 DEF BooksInv

\* A statement with its lines.
LEMMA ImportKeeps ==
  ASSUME BooksInv, NEW amounts \in Seq(Int), ImportStatement(amounts)
  PROVE  BooksInv'
<1> DEFINE s == Len(statements) + 1
           fresh == [i \in DOMAIN amounts |->
                       [sheet |-> s, amount |-> amounts[i], status |-> "unmatched", entry |-> None]]
<1>1. /\ statements' \in Seq(StatementStatuses) /\ s \in Nat /\ s \notin DOMAIN statements
      /\ DOMAIN statements' = DOMAIN statements \cup {s} /\ statements'[s] = "imported"
      /\ \A t \in DOMAIN statements : statements'[t] = statements[t]
  <2>1. statements \in Seq(StatementStatuses) /\ statements' = Append(statements, "imported")
    BY DEF BooksInv, TablesOK, ImportStatement
  <2>2. "imported" \in StatementStatuses
    BY DEF StatementStatuses
  <2> QED BY <2>1, <2>2
<1>2. fresh \in Seq(Lines) /\ \A i \in DOMAIN fresh : fresh[i].sheet = s /\ fresh[i].status = "unmatched"
  <2>1. \A i \in DOMAIN amounts :
          [sheet |-> s, amount |-> amounts[i], status |-> "unmatched", entry |-> None] \in Lines
    BY <1>1 DEF Lines
  <2>2. fresh \in Seq(Lines)
    <3> HIDE DEF s
    <3> QED BY <2>1
  <2> QED BY <2>2
<1>3. lines' = lines \o fresh /\ lines \in Seq(Lines)
  BY DEF ImportStatement, BooksInv, TablesOK
<1> HIDE DEF fresh, s
<1>4. /\ lines' \in Seq(Lines) /\ DOMAIN lines \subseteq DOMAIN lines'
      /\ \A l \in DOMAIN lines : lines'[l] = lines[l]
      /\ \A l \in DOMAIN lines' \ DOMAIN lines :
           lines'[l].sheet = s /\ lines'[l].status = "unmatched"
  BY <1>2, <1>3
<1>5. Kept
  BY <1>1, <1>4 DEF Kept, ImportStatement
<1>6. TablesOK'
  BY <1>1, <1>4 DEF BooksInv, TablesOK, ImportStatement
<1>7. StatusHonest'
  BY DEF BooksInv, StatusHonest, ImportStatement
<1>8. EntriesPaid'
  BY <1>4 DEF BooksInv, EntriesPaid, ImportStatement
<1>9. StatementsBacked'
  <2> SUFFICES ASSUME NEW t \in DOMAIN statements' PROVE Backed(t, statements[t])'
    BY DEF StatementsBacked
  <2>1. CASE t \in DOMAIN statements
    <3>1. PICK claim : claim = statements[t] /\ claim = statements'[t]
      BY <1>1, <2>1
    <3>2. Backed(t, claim)'
      BY <1>5, <2>1, <3>1, BackedKept DEF BooksInv, StatementsBacked
    <3> QED BY <3>1, <3>2 DEF Backed
  <2>2. CASE t = s
    BY <1>1, <2>2 DEF Backed, StatementStatuses
  <2> QED BY <1>1, <2>1, <2>2
<1>10. BookJobsOK'
  BY <1>5, JobsStill DEF BooksInv, ImportStatement, Serve
<1> QED BY <1>6, <1>7, <1>8, <1>9, <1>10 DEF BooksInv

\* The roll-up of a statement claims what its lines have.
LEMMA RolledUpBacked ==
  ASSUME NEW s PROVE Backed(s, RolledUp(s))
BY DEF RolledUp, Backed, StatementStatuses

\* A thread that is idle holds nothing.
LEMMA BookIdleOK == BookJobOK(Idle)'
BY DEF BookJobOK, Idle

LEMMA InitHolds == CommissionInit => BooksInv
<1> SUFFICES ASSUME CommissionInit PROVE BooksInv
  OBVIOUS
<1>1. TablesOK
  BY DEF CommissionInit, TablesOK
<1>2. BookJobsOK
  BY DEF CommissionInit, RequestInit, BookJobsOK, BookJobOK, Idle
<1> QED BY <1>1, <1>2 DEF CommissionInit, BooksInv, StatusHonest, EntriesPaid, StatementsBacked

\* Adding a producer touches neither ledger nor lines.
LEMMA ProducerKeeps ==
  ASSUME CommissionAssumption, BooksInv, NEW split \in Splits, AddProducer(split)
  PROVE  BooksInv'
<1>1. producers' \in Seq(Int)
  <2>1. split \in Int
    BY DEF CommissionAssumption
  <2>2. producers \in Seq(Int) /\ producers' = Append(producers, split)
    BY DEF BooksInv, TablesOK, AddProducer
  <2> QED BY <2>1, <2>2
<1>2. Kept
  BY DEF Kept, AddProducer
<1>3. TablesOK' /\ StatusHonest' /\ EntriesPaid'
  BY <1>1 DEF BooksInv, TablesOK, StatusHonest, EntriesPaid, AddProducer
<1>4. StatementsBacked'
  BY <1>2, BackedKept DEF BooksInv, StatementsBacked, AddProducer
<1>5. BookJobsOK'
  BY <1>2, JobsStill DEF BooksInv, AddProducer, Serve
<1> QED BY <1>3, <1>4, <1>5 DEF BooksInv

\* A write-off takes the entry out of what the status has to explain.
LEMMA WriteOffKeeps ==
  ASSUME BooksInv, NEW e \in DOMAIN ledger, WriteOff(e)
  PROVE  BooksInv'
<1> DEFINE row == [ledger[e] EXCEPT !.status = "written_off"]
<1>1. ledger[e] \in Entries /\ ledger' = [ledger EXCEPT ![e] = row]
  BY DEF BooksInv, TablesOK, WriteOff
<1>2. row \in Entries /\ row.status = "written_off" /\ row.received = ledger[e].received
  BY <1>1 DEF Entries, LedgerStatuses
<1> HIDE DEF row
<1>3. /\ ledger' \in Seq(Entries) /\ DOMAIN ledger' = DOMAIN ledger /\ ledger'[e] = row
      /\ \A f \in DOMAIN ledger : f # e => ledger'[f] = ledger[f]
  BY <1>1, <1>2 DEF BooksInv, TablesOK
<1>4. Kept
  BY <1>3 DEF Kept, WriteOff
<1>5. TablesOK'
  BY <1>3 DEF BooksInv, TablesOK, WriteOff
<1>6. StatusHonest'
  BY <1>2, <1>3 DEF BooksInv, StatusHonest
<1>7. EntriesPaid'
  BY <1>2, <1>3 DEF BooksInv, EntriesPaid, WriteOff
<1>8. StatementsBacked'
  BY <1>4, BackedKept DEF BooksInv, StatementsBacked, WriteOff
<1>9. BookJobsOK'
  BY <1>4, JobsStill DEF BooksInv, WriteOff, Serve
<1> QED BY <1>5, <1>6, <1>7, <1>8, <1>9 DEF BooksInv

\* Among the entries that wait there is an oldest.
LEMMA OldestExists ==
  ASSUME TablesOK, Awaiting # {}
  PROVE  Oldest \in DOMAIN ledger
<1>1. Awaiting \subseteq Nat
  BY DEF Awaiting, TablesOK
<1>2. PICK e \in Awaiting : \A f \in Awaiting : <<f, e>> \notin OpToRel(<, Nat)
  BY <1>1, WFMin, NatLessThanWellFounded, Zenon
<1>3. \A f \in Awaiting : ~ (f < e)
  BY <1>1, <1>2, Zenon DEF OpToRel
<1>4. \A f \in Awaiting : e <= f
  BY <1>1, <1>3
<1> QED BY <1>4 DEF Oldest, Awaiting

\* What a request does between reading and writing.
LEMMA RequestKeeps ==
  ASSUME CommissionAssumption, BooksInv, NEW r \in Requests,
         \/ \E e \in DOMAIN ledger, delta \in Deltas : AdjustRead(r, e, delta)
         \/ \E l \in DOMAIN lines, e \in DOMAIN ledger : LineRead(r, l, e)
         \/ \E s \in DOMAIN statements : StatementRead(r, s)
         \/ \E l \in DOMAIN lines : WalkRead(r, l)
         \/ RollUpRead(r) \/ CommissionCrash(r)
  PROVE  BooksInv'
<1>1. BookJobOK(job[r]) /\ TablesOK
  BY DEF BooksInv, BookJobsOK
<1>2. ASSUME NEW e \in DOMAIN ledger, NEW delta \in Deltas, AdjustRead(r, e, delta) PROVE BooksInv'
  <2> DEFINE base == IF ledger[e].received = None THEN 0 ELSE ledger[e].received
  <2>1. base + delta \in Int
    <3>1. ledger[e] \in Entries
      BY <1>1 DEF TablesOK
    <3>2. ledger[e].received \in Int \cup {None} /\ delta \in Int
      BY <3>1 DEF Entries, CommissionAssumption
    <3> QED BY <3>2
  <2>2. PICK j : j = [at |-> "adjust", row |-> e, seen |-> base + delta, todo |-> {}]
    OBVIOUS
  <2>3. UNCHANGED <<producers, ledger, lines, statements>> /\ job' = [job EXCEPT ![r] = j]
    BY <1>2, <2>2 DEF AdjustRead, Starts, Local
  <2>4. BookJobOK(j)'
    BY <2>1, <2>2, <2>3 DEF BookJobOK
  <2> QED BY <2>3, <2>4, ReadingKeeps
<1>3. ASSUME NEW l \in DOMAIN lines, NEW e \in DOMAIN ledger, LineRead(r, l, e) PROVE BooksInv'
  <2> DEFINE j == [at |-> "line", row |-> l, seen |-> e, todo |-> {}]
  <2>1. UNCHANGED <<producers, ledger, lines, statements>> /\ job' = [job EXCEPT ![r] = j]
    BY <1>3 DEF LineRead, Starts, Local
  <2>2. BookJobOK(j)'
    BY <2>1 DEF BookJobOK
  <2> QED BY <2>1, <2>2, ReadingKeeps
<1>4. ASSUME NEW s \in DOMAIN statements, StatementRead(r, s) PROVE BooksInv'
  <2>1. PICK j : j = [at |-> "walk", row |-> s, seen |-> None,
                      todo |-> {l \in OfStatement(s) : lines[l].status = "unmatched"}]
    OBVIOUS
  <2>2. UNCHANGED <<producers, ledger, lines, statements>> /\ job' = [job EXCEPT ![r] = j]
    BY <1>4, <2>1 DEF StatementRead, Starts, Local
  <2>3. BookJobOK(j)'
    BY <2>1, <2>2 DEF BookJobOK, OfStatement
  <2> QED BY <2>2, <2>3, ReadingKeeps
<1>5. ASSUME NEW l \in DOMAIN lines, WalkRead(r, l) PROVE BooksInv'
  <2>1. PICK j : /\ j.at = "walk" /\ j.row = job[r].row /\ j.todo = job[r].todo \ {l}
                 /\ j.seen = None \/ (Awaiting # {} /\ j.seen = <<l, Oldest>>)
                 /\ job' = [job EXCEPT ![r] = j]
    BY <1>5 DEF WalkRead, Goes, Local
  <2>2. UNCHANGED <<producers, ledger, lines, statements>> /\ Serves(r, "walk")
    BY <1>5 DEF WalkRead
  <2>3. Awaiting # {} => Oldest \in DOMAIN ledger
    BY <1>1, OldestExists
  <2>4. BookJobOK(j)'
    BY <1>1, <2>1, <2>2, <2>3 DEF BookJobOK, Serves
  <2> QED BY <2>1, <2>2, <2>4, ReadingKeeps
<1>6. CASE RollUpRead(r)
  <2>1. PICK j : j = [at |-> "roll", row |-> job[r].row, seen |-> RolledUp(job[r].row), todo |-> {}]
    OBVIOUS
  <2>2. /\ UNCHANGED <<producers, ledger, lines, statements>> /\ Serves(r, "walk")
        /\ job' = [job EXCEPT ![r] = j]
    BY <1>6, <2>1 DEF RollUpRead, Goes, Local
  <2>3. Backed(j.row, j.seen)
    BY <2>1, RolledUpBacked
  <2>4. Backed(j.row, j.seen)'
    BY <2>2, <2>3 DEF Backed, OfStatement
  <2>5. BookJobOK(j)'
    BY <1>1, <2>1, <2>2, <2>4 DEF BookJobOK, Serves
  <2> QED BY <2>2, <2>5, ReadingKeeps
<1>7. CASE CommissionCrash(r)
  <2>1. UNCHANGED <<producers, ledger, lines, statements>> /\ job' = [job EXCEPT ![r] = Idle]
    BY <1>7 DEF CommissionCrash, Dies, Ends
  <2> QED BY <2>1, BookIdleOK, ReadingKeeps
<1> QED BY <1>2, <1>3, <1>4, <1>5, <1>6, <1>7

\* Where a request writes what it has decided.
LEMMA WritingKeeps ==
  ASSUME CommissionAssumption, BooksInv, NEW r \in Requests,
         AdjustWrite(r) \/ LineWrite(r) \/ WalkWrite(r) \/ RollUpWrite(r)
  PROVE  BooksInv'
<1>1. BookJobOK(job[r]) /\ TablesOK
  BY DEF BooksInv, BookJobsOK
<1>2. CASE AdjustWrite(r)
  <2>1. job[r].row \in DOMAIN ledger /\ job[r].seen \in Int
    BY <1>1, <1>2 DEF AdjustWrite, Serves, BookJobOK
  <2>2. Kept /\ TablesOK' /\ StatusHonest' /\ EntriesPaid' /\ StatementsBacked'
    BY <1>2, <2>1, PaymentKeeps DEF AdjustWrite
  <2>3. BookJobsOK'
    BY <1>1, <1>2, <2>2, BookIdleOK, BookJobsKept DEF AdjustWrite, Ends, BooksInv
  <2> QED BY <2>2, <2>3 DEF BooksInv
<1>3. CASE LineWrite(r)
  <2>1. job[r].row \in DOMAIN lines /\ job[r].seen \in DOMAIN ledger
    BY <1>1, <1>3 DEF LineWrite, Serves, BookJobOK
  <2>2. Kept /\ TablesOK' /\ StatusHonest' /\ EntriesPaid' /\ StatementsBacked'
    BY <1>3, <2>1, PostingKeeps DEF LineWrite
  <2>3. BookJobsOK'
    BY <1>1, <1>3, <2>2, BookIdleOK, BookJobsKept DEF LineWrite, Ends, BooksInv
  <2> QED BY <2>2, <2>3 DEF BooksInv
<1>4. CASE WalkWrite(r)
  <2>1. /\ job[r].row \in DOMAIN statements /\ job[r].todo \subseteq DOMAIN lines
        /\ job[r].seen[1] \in DOMAIN lines /\ job[r].seen[2] \in DOMAIN ledger
    BY <1>1, <1>4 DEF WalkWrite, Serves, BookJobOK
  <2>2. Kept /\ TablesOK' /\ StatusHonest' /\ EntriesPaid' /\ StatementsBacked'
    BY <1>4, <2>1, PostingKeeps DEF WalkWrite
  <2>3. PICK j : j = [at |-> "walk", row |-> job[r].row, seen |-> None, todo |-> job[r].todo]
    OBVIOUS
  <2>4. BookJobOK(j)'
    BY <2>1, <2>2, <2>3 DEF BookJobOK, Kept
  <2>5. job' = [job EXCEPT ![r] = j]
    BY <1>4, <2>3 DEF WalkWrite, Goes, Local
  <2>6. BookJobsOK'
    BY <1>1, <2>2, <2>4, <2>5, BookJobsKept DEF BooksInv
  <2> QED BY <2>2, <2>6 DEF BooksInv
<1>5. CASE RollUpWrite(r)
  <2>1. PICK s, claim : /\ s \in DOMAIN statements /\ s = job[r].row /\ claim = job[r].seen
                         /\ Backed(s, claim)
    BY <1>1, <1>5 DEF RollUpWrite, Serves, BookJobOK
  <2>2. statements' = [statements EXCEPT ![s] = claim] /\ UNCHANGED <<producers, ledger, lines>>
    BY <1>5, <2>1 DEF RollUpWrite
  <2>3. /\ statements' \in Seq(StatementStatuses) /\ DOMAIN statements' = DOMAIN statements
        /\ statements'[s] = claim
        /\ \A t \in DOMAIN statements : t # s => statements'[t] = statements[t]
    BY <1>1, <2>1, <2>2 DEF TablesOK, Backed
  <2>4. Kept
    BY <2>2, <2>3 DEF Kept
  <2>5. TablesOK' /\ StatusHonest' /\ EntriesPaid'
    BY <2>2, <2>3 DEF BooksInv, TablesOK, StatusHonest, EntriesPaid
  <2>6. StatementsBacked'
    <3> SUFFICES ASSUME NEW t \in DOMAIN statements PROVE Backed(t, statements[t])'
      BY <2>3 DEF StatementsBacked
    <3>1. PICK x : x = statements'[t] /\ Backed(t, x)
      BY <2>1, <2>3 DEF BooksInv, StatementsBacked
    <3>2. Backed(t, x)'
      BY <1>1, <2>4, <3>1, BackedKept
    <3> QED BY <3>1, <3>2 DEF Backed
  <2>7. BookJobsOK'
    BY <1>1, <1>5, <2>4, BookIdleOK, BookJobsKept DEF RollUpWrite, Ends, BooksInv
  <2> QED BY <2>5, <2>6, <2>7 DEF BooksInv
<1> QED BY <1>2, <1>3, <1>4, <1>5

\* The commissions of a basis are amounts.
LEMMA CreditType ==
  ASSUME NEW basis \in Int, NEW split \in Int PROVE Credit(basis, split) \in Int
BY DEF Credit

LEMMA EntryType ==
  ASSUME NEW amount \in Int
  PROVE  Entry(amount) \in Entries /\ Entry(amount).status = "expected" /\ Entry(amount).received = None
BY DEF Entry, Entries, LedgerStatuses

LEMMA StepKeeps ==
  ASSUME CommissionAssumption, BooksInv, CommissionNext
  PROVE  BooksInv'
<1>1. ASSUME NEW split \in Splits, AddProducer(split) PROVE BooksInv'
  BY <1>1, ProducerKeeps
<1>2. ASSUME NEW basis \in Bases, RecordExpected(basis) PROVE BooksInv'
  <2>1. basis \in Int
    BY DEF CommissionAssumption
  <2>2. Booked(<<Entry(basis)>>)
    BY <1>2 DEF RecordExpected
  <2>3. PICK new : new = <<Entry(basis)>>
    OBVIOUS
  <2>4. new \in Seq(Entries) /\ \A i \in DOMAIN new : new[i] = Entry(basis)
    BY <2>1, <2>3, EntryType
  <2> QED BY <2>1, <2>2, <2>3, <2>4, EntryType, BookingKeeps
<1>3. ASSUME NEW basis \in Bases, GenerateExpected(basis) PROVE BooksInv'
  <2> DEFINE entries == [i \in DOMAIN producers |-> Entry(Credit(basis, producers[i]))]
  <2>1. basis \in Int /\ producers \in Seq(Int)
    BY DEF CommissionAssumption, BooksInv, TablesOK
  <2>2. \A i \in DOMAIN producers : producers[i] \in Int
    BY <2>1
  <2>3. \A i \in DOMAIN producers :
          LET entry == Entry(Credit(basis, producers[i]))
          IN  entry \in Entries /\ entry.status = "expected" /\ entry.received = None
    BY <2>1, <2>2, CreditType, EntryType
  <2>4. entries \in Seq(Entries)
    BY <2>1, <2>3
  <2>5. Booked(entries)
    BY <1>3 DEF GenerateExpected
  <2>6. PICK new \in Seq(Entries) : new = entries
    BY <2>4
  <2>7. \A i \in DOMAIN new : new[i].status = "expected" /\ new[i].received = None
    BY <2>3, <2>6
  <2> QED BY <2>5, <2>6, <2>7, BookingKeeps
<1>4. ASSUME NEW a \in Amounts, ImportStatement(<<a>>) PROVE BooksInv'
  <2>1. <<a>> \in Seq(Int)
    BY DEF CommissionAssumption
  <2> QED BY <1>4, <2>1, ImportKeeps
<1>5. ASSUME NEW a \in Amounts, NEW b \in Amounts, ImportStatement(<<a, b>>) PROVE BooksInv'
  <2>1. <<a, b>> \in Seq(Int)
    BY DEF CommissionAssumption
  <2> QED BY <1>5, <2>1, ImportKeeps
<1>6. ASSUME NEW e \in DOMAIN ledger, WriteOff(e) PROVE BooksInv'
  BY <1>6, WriteOffKeeps
<1>7. ASSUME NEW e \in DOMAIN ledger, NEW a \in Amounts, RecordReceived(e, a) PROVE BooksInv'
  <2>1. a \in Int
    BY DEF CommissionAssumption
  <2>2. Kept /\ TablesOK' /\ StatusHonest' /\ EntriesPaid' /\ StatementsBacked'
    BY <1>7, <2>1, PaymentKeeps DEF RecordReceived
  <2>3. BookJobsOK'
    BY <1>7, <2>2, JobsStill DEF RecordReceived, Serve, BooksInv
  <2> QED BY <2>2, <2>3 DEF BooksInv
<1>8. ASSUME NEW r \in Requests, AdjustWrite(r) \/ LineWrite(r) \/ WalkWrite(r) \/ RollUpWrite(r) PROVE BooksInv'
  BY <1>8, WritingKeeps
<1>9. ASSUME NEW r \in Requests,
             \/ \E e \in DOMAIN ledger, delta \in Deltas : AdjustRead(r, e, delta)
             \/ \E l \in DOMAIN lines, e \in DOMAIN ledger : LineRead(r, l, e)
             \/ \E s \in DOMAIN statements : StatementRead(r, s)
             \/ \E l \in DOMAIN lines : WalkRead(r, l)
             \/ RollUpRead(r) \/ CommissionCrash(r)
      PROVE BooksInv'
  BY <1>9, RequestKeeps
<1> QED
  BY <1>1, <1>2, <1>3, <1>4, <1>5, <1>6, <1>7, <1>8, <1>9 DEF CommissionNext

\* Entries, lines and statements tell one story, for every number of requests,
\* of producers, of lines and of corrections, whatever the amounts.
THEOREM BooksHold == CommissionSpec => []BooksAgree
<1>1. BooksInv /\ [CommissionNext]_commissionVars => BooksInv'
  <2>1. ASSUME BooksInv, UNCHANGED commissionVars PROVE BooksInv'
    <3>1. UNCHANGED <<producers, ledger, lines, statements>> /\ job' = job
      BY <2>1 DEF commissionVars, requestVars
    <3>2. Kept /\ TablesOK' /\ StatusHonest' /\ EntriesPaid' /\ StatementsBacked'
      BY <2>1, <3>1, TablesStill DEF BooksInv
    <3>3. BookJobsOK'
      BY <2>1, <3>1, <3>2, JobsStill DEF BooksInv
    <3> QED BY <3>2, <3>3 DEF BooksInv
  <2> QED BY <2>1, StepKeeps, CommissionAssumption
<1>2. BooksInv => BooksAgree
  BY DEF BooksInv, BooksAgree, StatusHonest, EntriesPaid, ReconciledLinePaid, StatementsBacked, Backed, RollUpSound
<1> QED BY <1>1, <1>2, InitHolds, PTL DEF CommissionSpec

----------------------------------------------------------------------------
(* Obligations *)

ObligationDays == {"feb28"} \cup {d[2] : d \in Dates}
DueDates == Nat \X ObligationDays
Fields == {"series", "due", "recurrence", "status"}
ObligationRows == [series : Series, due : DueDates, recurrence : RECURRENCE, status : STATUS,
         key : {None} \cup (Series \X DueDates)]

\* The 29th of February only in leap years.
OnCalendar(d) == d \in DueDates /\ (d[2] = "feb29" => d[1] \in LeapYears)

\* What a request or the nightly job holds of the calendar.
ObligationJobOK(j) ==
  /\ j.at = "renewal" => j.todo \subseteq Series \X Dates
  /\ j.at \in {"next", "insert"} => j.seen \in ObligationRows
  /\ j.at = "job" => j.todo \subseteq ObligationRows /\ (j.seen # None => j.seen \in ObligationRows)

ObligationJobsOK ==
  /\ job = [r \in Requests |-> job[r]]
  /\ \A r \in Requests : ObligationJobOK(job[r])

ObligationInv == calendar \in Seq(ObligationRows) /\ ObligationJobsOK /\ OneSuccessor /\ DatesExist

----------------------------------------------------------------------------

LEMMA InitInv == ObligationInit => ObligationInv
BY DEF ObligationInit, RequestInit, ObligationInv, ObligationJobsOK, ObligationJobOK, Idle, OneSuccessor, DatesExist

LEMMA ObligationJobsKept ==
  ASSUME ObligationJobsOK, NEW r \in Requests, NEW j, job' = [job EXCEPT ![r] = j], ObligationJobOK(j)
  PROVE  ObligationJobsOK'
<1>1. \A q \in Requests : job'[q] = IF q = r THEN j ELSE job[q]
  BY DEF ObligationJobsOK
<1>2. job' = [q \in Requests |-> job'[q]]
  BY DEF ObligationJobsOK
<1> QED BY <1>1, <1>2 DEF ObligationJobsOK, ObligationJobOK

\* One more obligation, with no key or with one that no other has.
LEMMA StoredKeeps ==
  ASSUME calendar \in Seq(ObligationRows), OneSuccessor, DatesExist,
         NEW o \in ObligationRows, Stored(o), OnCalendar(o.due),
         o.key # None => \A p \in DOMAIN calendar : calendar[p].key # o.key
  PROVE  calendar' \in Seq(ObligationRows) /\ OneSuccessor' /\ DatesExist'
<1> DEFINE n == Len(calendar) + 1
<1>1. /\ calendar' \in Seq(ObligationRows) /\ DOMAIN calendar' = DOMAIN calendar \cup {n}
      /\ calendar'[n] = o /\ \A p \in DOMAIN calendar : calendar'[p] = calendar[p]
  BY DEF Stored
<1> HIDE DEF n
<1>2. OneSuccessor'
  BY <1>1 DEF OneSuccessor
<1>3. DatesExist'
  BY <1>1 DEF DatesExist, OnCalendar
<1> QED BY <1>1, <1>2, <1>3

\* The next occurrence is on a day that exists, whatever the obligation.
LEMMA SuccessorType ==
  ASSUME NEW o \in ObligationRows
  PROVE  Successor(o) \in ObligationRows /\ OnCalendar(Successor(o).due) /\ Successor(o).key = Key(o)
<1>1. o.series \in Series /\ o.due \in DueDates
  BY DEF ObligationRows
<1>2. o.due[1] + 1 \in Nat /\ o.due[2] \in ObligationDays
  BY <1>1 DEF DueDates
<1>3. NextYear(o.due) \in DueDates /\ NextYear(o.due)[2] # "feb29"
  <2>1. o.due = <<o.due[1], o.due[2]>> /\ "feb28" \in ObligationDays /\ "feb28" # "feb29"
    BY <1>1 DEF DueDates, ObligationDays
  <2>2. NextYear(o.due) = <<o.due[1] + 1, IF o.due[2] = "feb29" THEN "feb28" ELSE o.due[2]>>
    BY DEF NextYear
  <2> QED BY <1>2, <2>1, <2>2 DEF DueDates
<1>4. OnCalendar(NextYear(o.due))
  BY <1>3 DEF OnCalendar
<1>5. "annual" \in RECURRENCE /\ "scheduled" \in STATUS
  BY DEF RECURRENCE, STATUS
<1>6. /\ Successor(o).due = NextYear(o.due) /\ Successor(o).key = Key(o)
      /\ Successor(o) \in ObligationRows
  BY <1>1, <1>3, <1>5 DEF Successor, Obligation, ObligationRows, Key
<1> QED BY <1>4, <1>6

LEMMA InsertedKeeps ==
  ASSUME calendar \in Seq(ObligationRows), OneSuccessor, DatesExist, NEW o \in ObligationRows, Inserted(o)
  PROVE  calendar' \in Seq(ObligationRows) /\ OneSuccessor' /\ DatesExist'
<1>1. CASE Materialized(o)
  BY <1>1 DEF Inserted, OneSuccessor, DatesExist
<1>2. CASE ~Materialized(o)
  <2>1. /\ Stored(Successor(o))
        /\ \A p \in DOMAIN calendar : calendar[p].key # Key(o)
    BY <1>2 DEF Inserted, Materialized
  <2> QED BY <2>1, SuccessorType, StoredKeeps
<1> QED BY <1>1, <1>2

\* Another row in the place of one.
LEMMA RowReplaced ==
  ASSUME calendar \in Seq(ObligationRows), NEW o \in DOMAIN calendar, NEW row \in ObligationRows,
         calendar' = [calendar EXCEPT ![o] = row]
  PROVE  /\ calendar' \in Seq(ObligationRows) /\ DOMAIN calendar' = DOMAIN calendar
         /\ calendar'[o] = row /\ \A p \in DOMAIN calendar : p # o => calendar'[p] = calendar[p]
OBVIOUS

\* Staff may change anything but the key.
LEMMA UpdateKeeps ==
  ASSUME calendar \in Seq(ObligationRows), OneSuccessor, DatesExist,
         NEW o \in DOMAIN calendar, NEW field \in Fields, NEW value,
         calendar' = [calendar EXCEPT ![o][field] = value],
         field = "series" => value \in Series, field = "recurrence" => value \in RECURRENCE,
         field = "status" => value \in STATUS, field = "due" => OnCalendar(value)
  PROVE  calendar' \in Seq(ObligationRows) /\ OneSuccessor' /\ DatesExist'
<1> DEFINE row == [calendar[o] EXCEPT ![field] = value]
<1>1. calendar[o] \in ObligationRows /\ calendar' = [calendar EXCEPT ![o] = row]
  OBVIOUS
<1>2. row \in ObligationRows /\ row.key = calendar[o].key
  <2>1. CASE field = "series"
    BY <1>1, <2>1 DEF ObligationRows
  <2>2. CASE field = "recurrence"
    BY <1>1, <2>2 DEF ObligationRows
  <2>3. CASE field = "status"
    BY <1>1, <2>3 DEF ObligationRows
  <2>4. CASE field = "due"
    BY <1>1, <2>4 DEF ObligationRows, OnCalendar
  <2> QED BY <2>1, <2>2, <2>3, <2>4 DEF Fields
<1>3. row.due[2] = "feb29" => row.due[1] \in LeapYears
  <2>1. CASE field = "due"
    <3>1. row.due = value
      BY <1>1, <2>1 DEF ObligationRows
    <3> QED BY <2>1, <3>1 DEF OnCalendar
  <2>2. CASE field # "due"
    <3>1. row.due = calendar[o].due
      BY <1>1, <2>2 DEF ObligationRows
    <3> QED BY <3>1 DEF DatesExist
  <2> QED BY <2>1, <2>2
<1> HIDE DEF row
<1>4. /\ calendar' \in Seq(ObligationRows) /\ DOMAIN calendar' = DOMAIN calendar
      /\ calendar'[o] = row /\ \A p \in DOMAIN calendar : p # o => calendar'[p] = calendar[p]
  BY <1>1, <1>2, RowReplaced
<1>5. OneSuccessor'
  BY <1>2, <1>4 DEF OneSuccessor
<1>6. DatesExist'
  BY <1>3, <1>4 DEF DatesExist
<1> QED BY <1>4, <1>5, <1>6

\* A step of thread r to the locals j that changes no obligation.
LEMMA LocalKeeps ==
  ASSUME ObligationInv, NEW r \in Requests, NEW j, job' = [job EXCEPT ![r] = j], ObligationJobOK(j),
         UNCHANGED calendar
  PROVE  ObligationInv'
<1>1. ObligationJobsOK'
  BY ObligationJobsKept DEF ObligationInv
<1> QED BY <1>1 DEF ObligationInv, OneSuccessor, DatesExist

\* The thread is done, and holds nothing.
LEMMA ObligationIdleOK == ObligationJobOK(Idle)
BY DEF ObligationJobOK, Idle

----------------------------------------------------------------------------

LEMMA NextInv == ObligationInv /\ [ObligationNext]_obligationVars => ObligationInv'
<1> SUFFICES ASSUME ObligationInv, [ObligationNext]_obligationVars PROVE ObligationInv'
  OBVIOUS
<1> USE ObligationAssumption DEF ObligationAssumption
<1>0. calendar \in Seq(ObligationRows) /\ ObligationJobsOK /\ OneSuccessor /\ DatesExist
  BY DEF ObligationInv
<1>1. CASE UNCHANGED obligationVars
  BY <1>1 DEF obligationVars, requestVars, ObligationInv, ObligationJobsOK, ObligationJobOK, OneSuccessor, DatesExist
<1>2. ASSUME NEW s \in Series, NEW d \in DueDates, OnCalendar(d), NEW recurrence \in RECURRENCE,
             Stored(Obligation(s, d, recurrence, None))
      PROVE  calendar' \in Seq(ObligationRows) /\ OneSuccessor' /\ DatesExist'
  <2>1. "scheduled" \in STATUS
    BY DEF STATUS
  <2>2. Obligation(s, d, recurrence, None) \in ObligationRows
    BY <2>1 DEF Obligation, ObligationRows
  <2>3. Obligation(s, d, recurrence, None).due = d /\ Obligation(s, d, recurrence, None).key = None
    BY DEF Obligation
  <2> QED BY <1>0, <1>2, <2>2, <2>3, StoredKeeps
<1>3. \A d \in Dates : d \in DueDates /\ OnCalendar(d)
  BY DEF DueDates, ObligationDays, OnCalendar
<1>4. ASSUME NEW s \in Series, NEW due \in Dates, NEW recurrence \in RECURRENCE,
             CreateObligation(s, due, recurrence)
      PROVE  ObligationInv'
  <2>1. calendar' \in Seq(ObligationRows) /\ OneSuccessor' /\ DatesExist'
    BY <1>2, <1>3, <1>4 DEF CreateObligation
  <2>2. ObligationJobsOK'
    BY <1>0, <1>4 DEF CreateObligation, Serve, ObligationJobsOK, ObligationJobOK
  <2> QED BY <2>1, <2>2 DEF ObligationInv
<1>5. ASSUME NEW r \in Staff, RenewalStart(r, Series \X Dates) PROVE ObligationInv'
  BY <1>5, LocalKeeps DEF RenewalStart, Starts, Local, Staff, ObligationJobOK
<1>6. ASSUME NEW r \in Staff, NEW m \in job[r].todo, RenewalStep(r, m) PROVE ObligationInv'
  <2>1. r \in Requests /\ ObligationJobOK(job[r])
    BY <1>0 DEF ObligationJobsOK, Staff
  <2>2. job[r].todo \subseteq Series \X Dates
    BY <1>6, <2>1 DEF RenewalStep, Serves, ObligationJobOK
  <2>3. m[1] \in Series /\ m[2] \in Dates
    BY <2>2
  <2>4. Stored(Obligation(m[1], m[2], "one_time", None)) /\ "one_time" \in RECURRENCE
    BY <1>6 DEF RenewalStep, RECURRENCE
  <2>5. calendar' \in Seq(ObligationRows) /\ OneSuccessor' /\ DatesExist'
    BY <1>2, <1>3, <2>3, <2>4
  <2>6. ObligationJobsOK'
    BY <1>0, <1>6, <2>1, <2>2, ObligationIdleOK, ObligationJobsKept DEF RenewalStep, Ends, Goes, Local, ObligationJobOK
  <2> QED BY <2>5, <2>6 DEF ObligationInv
<1>7. ASSUME NEW o \in DOMAIN calendar, NEW field \in Fields, NEW value,
             UpdateObligation(o, field, value),
             field = "series" => value \in Series, field = "recurrence" => value \in RECURRENCE,
             field = "status" => value \in STATUS, field = "due" => value \in Dates
      PROVE  ObligationInv'
  <2>1. calendar' \in Seq(ObligationRows) /\ OneSuccessor' /\ DatesExist'
    BY <1>0, <1>3, <1>7, UpdateKeeps DEF UpdateObligation
  <2>2. ObligationJobsOK'
    BY <1>0, <1>7 DEF UpdateObligation, Serve, ObligationJobsOK, ObligationJobOK
  <2> QED BY <2>1, <2>2 DEF ObligationInv
<1>8. ASSUME NEW o \in DOMAIN calendar, NEW r \in Staff, Complete(r, o) PROVE ObligationInv'
  <2>1. /\ calendar' = [calendar EXCEPT ![o]["status"] = "completed"]
        /\ "completed" \in STATUS /\ "status" \in Fields
    BY <1>8 DEF Complete, STATUS, Fields
  <2>2. calendar' \in Seq(ObligationRows) /\ OneSuccessor' /\ DatesExist'
    BY <1>0, <2>1, UpdateKeeps
  <2>3. calendar[o] \in ObligationRows /\ r \in Requests
    BY <1>0 DEF Staff
  <2>4. ObligationJobsOK'
    <3>1. CASE calendar[o].recurrence = "annual"
      BY <1>0, <1>8, <2>3, <3>1, ObligationJobsKept DEF Complete, Starts, Local, ObligationJobOK
    <3>2. CASE calendar[o].recurrence # "annual"
      BY <1>0, <1>8, <3>2 DEF Complete, Serve, ObligationJobsOK, ObligationJobOK
    <3> QED BY <3>1, <3>2
  <2> QED BY <2>2, <2>4 DEF ObligationInv
<1>9. ASSUME NEW r \in Staff, NextRead(r) PROVE ObligationInv'
  <2>1. r \in Requests /\ ObligationJobOK(job[r]) /\ job[r].at = "next" /\ UNCHANGED calendar
    BY <1>0, <1>9 DEF NextRead, Serves, ObligationJobsOK, Staff
  <2>2. ObligationJobOK([at |-> "insert", row |-> None, seen |-> job[r].seen, todo |-> {}])
    BY <2>1 DEF ObligationJobOK
  <2> QED BY <1>9, <2>1, <2>2, ObligationIdleOK, LocalKeeps DEF NextRead, Ends, Goes, Local
<1>10. ASSUME NEW r \in Staff, NextInsert(r) PROVE ObligationInv'
  <2>1. r \in Requests /\ job[r].seen \in ObligationRows
    BY <1>0, <1>10 DEF NextInsert, Serves, ObligationJobsOK, ObligationJobOK, Staff
  <2>2. calendar' \in Seq(ObligationRows) /\ OneSuccessor' /\ DatesExist'
    BY <1>0, <1>10, <2>1, InsertedKeeps DEF NextInsert
  <2>3. ObligationJobsOK'
    BY <1>0, <1>10, <2>1, ObligationIdleOK, ObligationJobsKept DEF NextInsert, Ends
  <2> QED BY <2>2, <2>3 DEF ObligationInv
<1>11. CASE JobRead
  <2> DEFINE completed == {calendar[o] : o \in {p \in DOMAIN calendar : Recurring(p)}}
             j == [at |-> "job", row |-> None, seen |-> None, todo |-> completed]
  <2>1. completed \subseteq ObligationRows
    BY <1>0
  <2>2. job' = [job EXCEPT ![Scheduler] = j] /\ UNCHANGED calendar
    BY <1>11 DEF JobRead, Goes, Local
  <2>3. ObligationJobOK(j)
    BY <2>1 DEF ObligationJobOK
  <2> HIDE DEF j
  <2> QED BY <2>2, <2>3, LocalKeeps
<1>12. CASE JobCheck
  <2>1. PICK o \in job[Scheduler].todo :
          Goes(Scheduler, "job", None, IF Materialized(o) THEN None ELSE o, job[Scheduler].todo \ {o})
    BY <1>12 DEF JobCheck
  <2>2. job[Scheduler].todo \subseteq ObligationRows /\ UNCHANGED calendar
    BY <1>0, <1>12 DEF JobCheck, Serves, ObligationJobsOK, ObligationJobOK
  <2> DEFINE j == [at |-> "job", row |-> None, seen |-> IF Materialized(o) THEN None ELSE o,
                   todo |-> job[Scheduler].todo \ {o}]
  <2>3. ObligationJobOK(j)
    BY <2>1, <2>2 DEF ObligationJobOK
  <2>4. job' = [job EXCEPT ![Scheduler] = j]
    BY <2>1 DEF Goes, Local
  <2> HIDE DEF j
  <2> QED BY <2>2, <2>3, <2>4, LocalKeeps
<1>13. CASE JobInsert
  <2>1. job[Scheduler].todo \subseteq ObligationRows /\ job[Scheduler].seen \in ObligationRows
    BY <1>0, <1>13 DEF JobInsert, Serves, ObligationJobsOK, ObligationJobOK
  <2>2. calendar' \in Seq(ObligationRows) /\ OneSuccessor' /\ DatesExist'
    BY <1>0, <1>13, <2>1, InsertedKeeps DEF JobInsert
  <2>3. ObligationJobsOK'
    BY <1>0, <1>13, <2>1, ObligationJobsKept DEF JobInsert, Goes, Local, ObligationJobOK
  <2> QED BY <2>2, <2>3 DEF ObligationInv
<1>14. CASE JobEnd
  BY <1>14, ObligationIdleOK, LocalKeeps DEF JobEnd, Ends
<1>15. ASSUME NEW r \in Requests, ObligationCrash(r) PROVE ObligationInv'
  BY <1>15, ObligationIdleOK, LocalKeeps DEF ObligationCrash
<1> QED
  BY <1>1, <1>4, <1>5, <1>6, <1>7, <1>8, <1>9, <1>10, <1>11, <1>12, <1>13, <1>14, <1>15
     DEF ObligationNext, Fields

\* Whoever opens the next occurrence, and however often that is retried, a
\* series has one for a date; and no recurrence ends up on a day that its
\* year does not have.
THEOREM SeriesHold == ObligationSpec => []SeriesSound
<1>1. ObligationInv => SeriesSound
  BY DEF ObligationInv, SeriesSound
<1> QED BY <1>1, InitInv, NextInv, PTL DEF ObligationSpec

----------------------------------------------------------------------------
(* Servicing reviews *)

ReviewStatuses == ReviewTargets \cup {"due", "completed"}
ReviewRows == [kind : REVIEW_TYPES, status : ReviewStatuses, due : ReviewDates \cup {None},
               next : ReviewDates \cup {None}, key : {None} \cup ({"annual"} \X ReviewDates)]

\* What a completion holds while its transaction is open: the audit event is
\* written, and a next occurrence it does not insert was there when it looked.
CompletionOK(j) ==
  j.at = "complete" =>
    /\ j.row \in DOMAIN reviews /\ j.row \in audited
    /\ j.seen.next \in ReviewDates \cup {None}
    /\ j.seen.insert => j.seen.next # None
    /\ reviews[j.row].kind = "annual" /\ j.seen.next # None /\ ~j.seen.insert
         => Occurs("annual", j.seen.next)

CompletionsOK ==
  /\ job = [r \in Requests |-> job[r]]
  /\ \A r \in Requests : CompletionOK(job[r])

ReviewInv == reviews \in Seq(ReviewRows) /\ CompletionsOK /\ CompletionsWhole

\* What every step keeps of the reviews.
ReviewsKept ==
  /\ DOMAIN reviews \subseteq DOMAIN reviews'
  /\ \A v \in DOMAIN reviews :
       reviews'[v].kind = reviews[v].kind /\ reviews'[v].key = reviews[v].key
  /\ audited \subseteq audited'

LEMMA OccursStays ==
  ASSUME ReviewsKept, NEW kind, NEW on, Occurs(kind, on)
  PROVE  Occurs(kind, on)'
BY DEF ReviewsKept, Occurs

LEMMA CompletionStays ==
  ASSUME ReviewsKept, NEW j, CompletionOK(j)
  PROVE  CompletionOK(j)'
<1> SUFFICES ASSUME j.at = "complete" PROVE CompletionOK(j)'
  BY DEF CompletionOK
<1>1. /\ j.row \in DOMAIN reviews /\ j.row \in audited
      /\ j.seen.next \in ReviewDates \cup {None} /\ (j.seen.insert => j.seen.next # None)
  BY DEF CompletionOK
<1>2. /\ j.row \in DOMAIN reviews' /\ j.row \in audited'
      /\ reviews'[j.row].kind = reviews[j.row].kind
  BY <1>1 DEF ReviewsKept
<1>3. ASSUME reviews[j.row].kind = "annual", j.seen.next # None, ~j.seen.insert
      PROVE  Occurs("annual", j.seen.next)'
  BY <1>3, OccursStays DEF CompletionOK
<1> QED BY <1>1, <1>2, <1>3 DEF CompletionOK

\* One thread's locals change at a time.
LEMMA CompletionsKept ==
  ASSUME CompletionsOK, ReviewsKept, NEW r \in Requests, NEW j,
         job' = [job EXCEPT ![r] = j], CompletionOK(j)'
  PROVE  CompletionsOK'
<1>1. \A q \in Requests : job'[q] = IF q = r THEN j ELSE job[q]
  BY DEF CompletionsOK
<1>2. job' = [q \in Requests |-> job'[q]]
  BY DEF CompletionsOK
<1>3. ASSUME NEW q \in Requests PROVE CompletionOK(job[q])'
  <2> PICK k : k = job[q]
    OBVIOUS
  <2>1. CompletionOK(k)'
    BY CompletionStays DEF CompletionsOK
  <2>2. job'[q] = IF q = r THEN j ELSE k
    BY <1>1
  <2> QED BY <2>1, <2>2 DEF CompletionOK
<1> QED BY <1>2, <1>3 DEF CompletionsOK

LEMMA CompletionsStill ==
  ASSUME CompletionsOK, ReviewsKept, job' = job
  PROVE  CompletionsOK'
<1>1. ASSUME NEW q \in Requests PROVE CompletionOK(job[q])'
  <2> PICK k : k = job[q]
    OBVIOUS
  <2>1. CompletionOK(k)'
    BY CompletionStays DEF CompletionsOK
  <2> QED BY <2>1 DEF CompletionOK
<1> QED BY <1>1 DEF CompletionsOK

\* Another row in the place of one: its kind and key are the old one's.
Changed(v, state, next) ==
  [reviews EXCEPT ![v] = [reviews[v] EXCEPT !.status = state, !.next = next]]

LEMMA ReviewChanged ==
  ASSUME reviews \in Seq(ReviewRows), NEW v \in DOMAIN reviews,
         NEW state \in ReviewStatuses, NEW next \in ReviewDates \cup {None}
  PROVE  /\ Changed(v, state, next) \in Seq(ReviewRows)
         /\ DOMAIN Changed(v, state, next) = DOMAIN reviews
         /\ \A u \in DOMAIN reviews :
              /\ Changed(v, state, next)[u].kind = reviews[u].kind
              /\ Changed(v, state, next)[u].key = reviews[u].key
              /\ u # v => Changed(v, state, next)[u] = reviews[u]
         /\ Changed(v, state, next)[v].status = state
         /\ Changed(v, state, next)[v].next = next
<1> DEFINE row == [reviews[v] EXCEPT !.status = state, !.next = next]
           rows == [reviews EXCEPT ![v] = row]
<1>1. reviews[v] \in ReviewRows
  OBVIOUS
<1>2. /\ row \in ReviewRows /\ row.kind = reviews[v].kind /\ row.key = reviews[v].key
      /\ row.status = state /\ row.next = next
  BY <1>1 DEF ReviewRows
<1>3. rows = Changed(v, state, next)
  BY DEF Changed
<1> HIDE DEF row
<1>4. /\ rows \in Seq(ReviewRows) /\ DOMAIN rows = DOMAIN reviews /\ rows[v] = row
      /\ \A u \in DOMAIN reviews : u # v => rows[u] = reviews[u]
  BY <1>2
<1> HIDE DEF rows
<1> QED BY <1>2, <1>3, <1>4

\* A completion of review v with the rows it leaves: the next date it sets is on
\* the calendar already.
LEMMA ReviewCompleted ==
  ASSUME reviews \in Seq(ReviewRows), CompletionsWhole, NEW v \in DOMAIN reviews, v \in audited,
         NEW next \in ReviewDates \cup {None}, UNCHANGED audited, reviews' = Completed(v, next),
         reviews[v].kind = "annual" /\ next # None => Occurs("annual", next)
  PROVE  reviews' \in Seq(ReviewRows) /\ ReviewsKept /\ CompletionsWhole'
<1>1. reviews' = Changed(v, "completed", next) /\ "completed" \in ReviewStatuses
  BY DEF Completed, Changed, ReviewStatuses
<1>2. /\ reviews' \in Seq(ReviewRows) /\ DOMAIN reviews' = DOMAIN reviews
      /\ \A u \in DOMAIN reviews : reviews'[u].kind = reviews[u].kind /\ reviews'[u].key = reviews[u].key
      /\ \A u \in DOMAIN reviews : u # v => reviews'[u] = reviews[u]
      /\ reviews'[v].next = next
  BY <1>1, ReviewChanged
<1>3. ReviewsKept
  BY <1>2 DEF ReviewsKept
<1>4. OneOccurrence'
  BY <1>2 DEF CompletionsWhole, OneOccurrence
<1>5. ASSUME NEW u \in DOMAIN reviews', reviews'[u].kind = "annual", reviews'[u].next # None
      PROVE  \E w \in DOMAIN reviews' : reviews'[w].key = <<"annual", reviews'[u].next>>
  <2>1. CASE u = v
    BY <1>2, <1>5, <2>1 DEF Occurs
  <2>2. CASE u # v
    <3>1. u \in DOMAIN reviews /\ reviews'[u] = reviews[u]
      BY <1>2, <2>2
    <3>2. reviews[u].kind = "annual" /\ reviews[u].next # None
      BY <1>5, <3>1
    <3>3. PICK w \in DOMAIN reviews : reviews[w].key = <<"annual", reviews[u].next>>
      BY <3>1, <3>2 DEF CompletionsWhole, NextIsOnCalendar, Occurs
    <3>4. w \in DOMAIN reviews' /\ reviews'[w].key = <<"annual", reviews'[u].next>>
      BY <1>2, <3>1, <3>3
    <3> QED BY <3>4
  <2> QED BY <2>1, <2>2
<1>6. NextIsOnCalendar'
  BY <1>5 DEF NextIsOnCalendar, Occurs
<1>7. CompletionAudited'
  BY <1>2 DEF CompletionsWhole, CompletionAudited
<1> QED BY <1>2, <1>3, <1>4, <1>6, <1>7 DEF CompletionsWhole

\* The same with the next occurrence, which nobody has opened, at the end.
LEMMA ReviewOpened ==
  ASSUME reviews \in Seq(ReviewRows), CompletionsWhole, NEW v \in DOMAIN reviews, v \in audited,
         NEW next \in ReviewDates, UNCHANGED audited, ~Occurs("annual", next),
         reviews' = Append(Completed(v, next), Review("annual", "due", next, <<"annual", next>>))
  PROVE  reviews' \in Seq(ReviewRows) /\ ReviewsKept /\ CompletionsWhole'
<1> DEFINE rows == Completed(v, next)
           n == Len(reviews) + 1
           opened == Review("annual", "due", next, <<"annual", next>>)
<1>1. rows = Changed(v, "completed", next) /\ "completed" \in ReviewStatuses
  BY DEF Completed, Changed, ReviewStatuses
<1>2. /\ rows \in Seq(ReviewRows) /\ DOMAIN rows = DOMAIN reviews
      /\ \A u \in DOMAIN reviews : rows[u].kind = reviews[u].kind /\ rows[u].key = reviews[u].key
      /\ \A u \in DOMAIN reviews : u # v => rows[u] = reviews[u]
      /\ rows[v].next = next
  BY <1>1, ReviewChanged
<1>3. opened \in ReviewRows /\ opened.key = <<"annual", next>> /\ opened.next = None
      /\ opened.status = "due"
  BY DEF Review, ReviewRows, ReviewStatuses, REVIEW_TYPES
<1> HIDE DEF rows, opened
<1>4. Len(rows) = Len(reviews)
  BY <1>2
<1>5. /\ reviews' \in Seq(ReviewRows) /\ DOMAIN reviews' = DOMAIN reviews \cup {n}
      /\ reviews'[n] = opened /\ n \notin DOMAIN reviews
      /\ \A u \in DOMAIN reviews : reviews'[u] = rows[u]
  BY <1>2, <1>3, <1>4 DEF rows, opened
<1> HIDE DEF n
<1>6. ReviewsKept
  BY <1>2, <1>5 DEF ReviewsKept
<1>7. \A u \in DOMAIN reviews : reviews[u].key # <<"annual", next>>
  BY DEF Occurs
<1>8. OneOccurrence'
  <2>1. \A u \in DOMAIN reviews : reviews'[u].key = reviews[u].key /\ reviews'[u].key # reviews'[n].key
    BY <1>2, <1>3, <1>5, <1>7
  <2>2. \A u, w \in DOMAIN reviews : reviews[u].key # None /\ reviews[u].key = reviews[w].key => u = w
    BY DEF CompletionsWhole, OneOccurrence
  <2>3. DOMAIN reviews' = DOMAIN reviews \cup {n}
    BY <1>5
  <2>4. ASSUME NEW u \in DOMAIN reviews', NEW w \in DOMAIN reviews',
               reviews'[u].key # None, reviews'[u].key = reviews'[w].key
        PROVE  u = w
    <3>1. CASE u \in DOMAIN reviews /\ w \in DOMAIN reviews
      BY <2>1, <2>2, <2>4, <3>1
    <3>2. CASE u = n \/ w = n
      BY <2>1, <2>3, <2>4, <3>2
    <3> QED BY <2>3, <3>1, <3>2
  <2> QED BY <2>4 DEF OneOccurrence
<1>9. ASSUME NEW u \in DOMAIN reviews', reviews'[u].kind = "annual", reviews'[u].next # None
      PROVE  \E w \in DOMAIN reviews' : reviews'[w].key = <<"annual", reviews'[u].next>>
  <2>1. CASE u = v
    BY <1>2, <1>3, <1>5, <2>1
  <2>2. CASE u = n
    BY <1>3, <1>5, <1>9, <2>2
  <2>3. CASE u \in DOMAIN reviews /\ u # v
    <3>1. reviews'[u] = reviews[u]
      BY <1>2, <1>5, <2>3
    <3>2. reviews[u].kind = "annual" /\ reviews[u].next # None
      BY <1>9, <3>1
    <3>3. PICK w \in DOMAIN reviews : reviews[w].key = <<"annual", reviews[u].next>>
      BY <2>3, <3>2 DEF CompletionsWhole, NextIsOnCalendar, Occurs
    <3>4. w \in DOMAIN reviews' /\ reviews'[w].key = <<"annual", reviews'[u].next>>
      BY <1>2, <1>5, <3>1, <3>3
    <3> QED BY <3>4
  <2> QED BY <1>5, <2>1, <2>2, <2>3
<1>10. NextIsOnCalendar'
  BY <1>9 DEF NextIsOnCalendar, Occurs
<1>11. ASSUME NEW u \in DOMAIN reviews', reviews'[u].status = "completed" PROVE u \in audited'
  <2>1. CASE u = n
    BY <1>3, <1>5, <1>11, <2>1
  <2>2. CASE u \in DOMAIN reviews /\ u # v
    <3>1. reviews'[u] = reviews[u]
      BY <1>2, <1>5, <2>2
    <3> QED BY <1>11, <2>2, <3>1 DEF CompletionsWhole, CompletionAudited
  <2> QED BY <1>5, <2>1, <2>2
<1>12. CompletionAudited'
  BY <1>11 DEF CompletionAudited
<1> QED BY <1>5, <1>6, <1>8, <1>10, <1>12 DEF CompletionsWhole

LEMMA ReviewInit == InsuranceInit => ReviewInv
BY DEF InsuranceInit, RequestInit, ReviewInv, CompletionsOK, CompletionOK, Idle, CompletionsWhole,
   OneOccurrence, NextIsOnCalendar, CompletionAudited

\* Reviews and their audit as they were.
LEMMA ReviewsStill ==
  ASSUME ReviewInv, UNCHANGED reviews, audited \subseteq audited'
  PROVE  reviews' \in Seq(ReviewRows) /\ ReviewsKept /\ CompletionsWhole'
BY DEF ReviewInv, ReviewsKept, CompletionsWhole, OneOccurrence, NextIsOnCalendar, Occurs,
   CompletionAudited

LEMMA ReviewNext == ReviewInv /\ [InsuranceNext]_insuranceVars => ReviewInv'
<1> SUFFICES ASSUME ReviewInv, [InsuranceNext]_insuranceVars PROVE ReviewInv'
  OBVIOUS
<1>1. reviews \in Seq(ReviewRows) /\ CompletionsOK /\ CompletionsWhole
  BY DEF ReviewInv
<1>2. ASSUME UNCHANGED <<reviews, audited, job>> PROVE ReviewInv'
  <2>1. reviews' \in Seq(ReviewRows) /\ ReviewsKept /\ CompletionsWhole'
    BY <1>2, ReviewsStill
  <2>2. CompletionsOK'
    BY <1>1, <1>2, <2>1, CompletionsStill
  <2> QED BY <2>1, <2>2 DEF ReviewInv
<1>3. ASSUME NEW kind \in REVIEW_TYPES, NEW due \in ReviewDates, NEW scheduled \in BOOLEAN,
             ScheduleReview(kind, due, scheduled)
      PROVE  ReviewInv'
  <2> DEFINE review == Review(kind, IF scheduled THEN "scheduled" ELSE "due", due, None)
             n == Len(reviews) + 1
  <2>1. review \in ReviewRows /\ review.key = None /\ review.next = None
        /\ review.status # "completed"
    BY DEF Review, ReviewRows, ReviewStatuses, ReviewTargets
  <2>2. reviews' = Append(reviews, review) /\ UNCHANGED <<audited, job>>
    BY <1>3 DEF ScheduleReview, Serve
  <2> HIDE DEF review
  <2>3. /\ reviews' \in Seq(ReviewRows) /\ DOMAIN reviews' = DOMAIN reviews \cup {n}
        /\ reviews'[n] = review /\ \A u \in DOMAIN reviews : reviews'[u] = reviews[u]
    BY <1>1, <2>1, <2>2
  <2> HIDE DEF n
  <2>4. ReviewsKept
    BY <2>2, <2>3 DEF ReviewsKept
  <2>5. CompletionsWhole'
    <3>1. OneOccurrence'
      BY <1>1, <2>1, <2>3 DEF CompletionsWhole, OneOccurrence
    <3>2. NextIsOnCalendar'
      BY ZenonT(60), <1>1, <2>1, <2>3 DEF CompletionsWhole, NextIsOnCalendar, Occurs
    <3>3. CompletionAudited'
      BY <1>1, <2>1, <2>2, <2>3 DEF CompletionsWhole, CompletionAudited
    <3> QED BY <3>1, <3>2, <3>3 DEF CompletionsWhole
  <2>6. CompletionsOK'
    BY <1>1, <2>2, <2>4, CompletionsStill
  <2> QED BY <2>3, <2>5, <2>6 DEF ReviewInv
<1>4. ASSUME NEW v \in DOMAIN reviews, NEW to \in ReviewTargets, UpdateReviewStatus(v, to)
      PROVE  ReviewInv'
  <2>1. reviews[v].next \in ReviewDates \cup {None} /\ reviews[v] \in ReviewRows
    <3> \A row \in ReviewRows : row.next \in ReviewDates \cup {None}
      BY DEF ReviewRows
    <3> reviews[v] \in ReviewRows
      BY <1>1
    <3> QED OBVIOUS
  <2>2. reviews' = Changed(v, to, reviews[v].next) /\ UNCHANGED <<audited, job>>
    <3> PICK row : row = reviews[v]
      OBVIOUS
    <3>1. [row EXCEPT !.status = to, !.next = row.next] = [row EXCEPT !.status = to]
      <4>1. row \in ReviewRows
        BY <2>1
      <4> QED BY <4>1, Zenon DEF ReviewRows
    <3>2. reviews' = [reviews EXCEPT ![v] = [reviews[v] EXCEPT !.status = to]]
      BY <1>4 DEF UpdateReviewStatus
    <3>3. Changed(v, to, reviews[v].next)
            = [reviews EXCEPT ![v] = [row EXCEPT !.status = to, !.next = row.next]]
      BY DEF Changed
    <3>4. reviews' = [reviews EXCEPT ![v] = [row EXCEPT !.status = to]]
      BY <3>2
    <3>5. reviews' = Changed(v, to, reviews[v].next)
      BY <3>1, <3>3, <3>4
    <3>6. UNCHANGED <<audited, job>>
      BY <1>4 DEF UpdateReviewStatus, Serve
    <3> QED BY <3>5, <3>6
  <2>3. /\ reviews' \in Seq(ReviewRows) /\ DOMAIN reviews' = DOMAIN reviews
        /\ \A u \in DOMAIN reviews : reviews'[u].kind = reviews[u].kind /\ reviews'[u].key = reviews[u].key
        /\ \A u \in DOMAIN reviews : u # v => reviews'[u] = reviews[u]
        /\ reviews'[v].status = to /\ reviews'[v].next = reviews[v].next
    <3>1. to \in ReviewStatuses
      BY DEF ReviewStatuses
    <3> QED BY <1>1, <2>1, <2>2, <3>1, ReviewChanged
  <2>4. to # "completed" /\ \A u \in DOMAIN reviews : reviews'[u].next = reviews[u].next
    BY <2>3 DEF ReviewTargets
  <2>5. ReviewsKept
    BY <2>2, <2>3 DEF ReviewsKept
  <2>6. CompletionsWhole'
    <3>1. OneOccurrence'
      BY <1>1, <2>3 DEF CompletionsWhole, OneOccurrence
    <3>2. NextIsOnCalendar'
      <4>1. \A u \in DOMAIN reviews :
              reviews[u].kind = "annual" /\ reviews[u].next # None
                => \E w \in DOMAIN reviews : reviews[w].key = <<"annual", reviews[u].next>>
        BY <1>1 DEF CompletionsWhole, NextIsOnCalendar, Occurs
      <4>2. ASSUME NEW u \in DOMAIN reviews', reviews'[u].kind = "annual", reviews'[u].next # None
            PROVE  \E w \in DOMAIN reviews' : reviews'[w].key = <<"annual", reviews'[u].next>>
        <5>1. reviews[u].kind = "annual" /\ reviews[u].next # None /\ reviews'[u].next = reviews[u].next
          BY <2>3, <2>4, <4>2
        <5>2. PICK w \in DOMAIN reviews : reviews[w].key = <<"annual", reviews[u].next>>
          BY <2>3, <4>1, <5>1
        <5>3. reviews'[w].key = <<"annual", reviews'[u].next>>
          BY <2>3, <5>1, <5>2
        <5> QED BY <2>3, <5>3
      <4> QED BY <4>2 DEF NextIsOnCalendar, Occurs
    <3>3. CompletionAudited'
      BY <1>1, <2>2, <2>3, <2>4 DEF CompletionsWhole, CompletionAudited
    <3> QED BY <3>1, <3>2, <3>3 DEF CompletionsWhole
  <2>7. CompletionsOK'
    BY <1>1, <2>2, <2>5, CompletionsStill
  <2> QED BY <2>3, <2>6, <2>7 DEF ReviewInv
<1>5. ASSUME NEW r \in Requests, NEW v \in DOMAIN reviews, NEW next \in ReviewDates \cup {None},
             CompleteRead(r, v, next)
      PROVE  ReviewInv'
  <2> DEFINE j == [at |-> "complete", row |-> v,
                   seen |-> [next |-> next,
                             insert |-> next # None /\ reviews[v].kind = "annual"
                                          /\ ~Occurs("annual", next)],
                   todo |-> {}]
  <2> PICK k : k = j
    OBVIOUS
  <2>1. job' = [job EXCEPT ![r] = k] /\ UNCHANGED reviews /\ audited' = audited \cup {v}
    BY <1>5 DEF CompleteRead, Starts, Local, Audit
  <2>2. reviews' \in Seq(ReviewRows) /\ ReviewsKept /\ CompletionsWhole'
    BY <2>1, ReviewsStill
  <2>3. /\ k.row = v /\ k.seen.next = next
        /\ k.seen.insert = (next # None /\ reviews[v].kind = "annual" /\ ~Occurs("annual", next))
    OBVIOUS
  <2>4. CompletionOK(k)'
    BY <2>1, <2>3 DEF CompletionOK, Occurs
  <2>5. CompletionsOK'
    BY <1>1, <2>1, <2>2, <2>4, CompletionsKept
  <2> QED BY <2>2, <2>5 DEF ReviewInv
<1>6. CompletionOK(Idle)'
  BY DEF CompletionOK, Idle
<1>7. ASSUME NEW r \in Requests, CompleteWrite(r) PROVE ReviewInv'
  <2> PICK v, next, insert : v = job[r].row /\ next = job[r].seen.next /\ insert = job[r].seen.insert
    OBVIOUS
  <2>1. /\ v \in DOMAIN reviews /\ v \in audited /\ next \in ReviewDates \cup {None}
        /\ insert => next # None
        /\ reviews[v].kind = "annual" /\ next # None /\ ~insert => Occurs("annual", next)
    BY <1>1, <1>7 DEF CompleteWrite, Serves, CompletionsOK, CompletionOK
  <2>2. job' = [job EXCEPT ![r] = Idle] /\ UNCHANGED audited
    BY <1>7 DEF CompleteWrite, Ends
  <2>3. reviews' = IF ~insert THEN Completed(v, next)
                   ELSE IF Occurs("annual", next) THEN reviews
                   ELSE Append(Completed(v, next), Review("annual", "due", next, <<"annual", next>>))
    BY <1>7 DEF CompleteWrite, Written
  <2>4. reviews' \in Seq(ReviewRows) /\ ReviewsKept /\ CompletionsWhole'
    <3>1. CASE ~insert
      BY <1>1, <2>1, <2>2, <2>3, <3>1, ReviewCompleted
    <3>2. CASE insert /\ Occurs("annual", next)
      BY <2>2, <2>3, <3>2, ReviewsStill
    <3>3. CASE insert /\ ~Occurs("annual", next)
      BY <1>1, <2>1, <2>2, <2>3, <3>3, ReviewOpened
    <3> QED BY <3>1, <3>2, <3>3
  <2>5. CompletionsOK'
    BY <1>1, <1>6, <2>2, <2>4, CompletionsKept
  <2> QED BY <2>4, <2>5 DEF ReviewInv
<1>8. ASSUME NEW r \in Requests, InsuranceCrash(r) PROVE ReviewInv'
  <2>1. job' = [job EXCEPT ![r] = Idle] /\ UNCHANGED <<reviews, audited>>
    BY <1>8 DEF InsuranceCrash, Dies, Ends
  <2>2. reviews' \in Seq(ReviewRows) /\ ReviewsKept /\ CompletionsWhole'
    BY <2>1, ReviewsStill
  <2>3. CompletionsOK'
    BY <1>1, <1>6, <2>1, <2>2, CompletionsKept
  <2> QED BY <2>2, <2>3 DEF ReviewInv
<1> QED
  BY <1>2, <1>3, <1>4, <1>5, <1>7, <1>8 DEF InsuranceNext, insuranceVars, requestVars, StatusSet,
     RequestRequirement, SatisfyRequirement, AddRider, Serve

\* However completions of reviews overlap and wherever one fails: one next
\* occurrence for a date, on the calendar, and an audit event, for any number
\* of requests and reviews.
THEOREM ReviewsHold == InsuranceSpec => []CompletionsWhole
<1>1. ReviewInv => CompletionsWhole
  BY DEF ReviewInv
<1> QED BY <1>1, ReviewInit, ReviewNext, PTL DEF InsuranceSpec

----------------------------------------------------------------------------
(* The benefit roster *)

\* Days are days, and an employee was hired on one of them if that is known.
RosterTyped ==
  /\ today \in Nat
  /\ employments \in [Employees -> {None} \cup [status : EMP_STATUSES, hired : {0, 1, None}]]

LEMMA RosterStart == RosterInit => RosterTyped
<1> SUFFICES ASSUME RosterInit PROVE RosterTyped
  OBVIOUS
<1>1. CASE employments = [e \in Employees |-> None]
  BY <1>1 DEF RosterInit, RosterTyped
<1>2. ASSUME NEW hired \in {0, None}, employments = [e \in Employees |-> [status |-> "active", hired |-> hired]]
      PROVE  RosterTyped
  BY <1>2 DEF RosterInit, RosterTyped, EMP_STATUSES
<1> QED BY <1>1, <1>2 DEF RosterInit

LEMMA RosterSteps == RosterTyped /\ [RosterNext]_rosterVars => RosterTyped'
<1> SUFFICES ASSUME RosterTyped, [RosterNext]_rosterVars PROVE RosterTyped'
  OBVIOUS
<1>1. CASE UNCHANGED <<today, employments>>
  BY <1>1 DEF RosterTyped
<1>2. CASE Midnight
  BY <1>2 DEF Midnight, staffVars, RosterTyped
<1>3. ASSUME NEW e \in Employees, NEW standing \in EMP_STATUSES, NEW hired \in {0, 1, None},
             CreateEmployment(e, standing, hired)
      PROVE  RosterTyped'
  BY <1>3 DEF CreateEmployment, RosterTyped
<1>4. ASSUME NEW e \in Exists(employments), TerminateEmployment(e) PROVE RosterTyped'
  <2>1. e \in Employees /\ employments[e] \in [status : EMP_STATUSES, hired : {0, 1, None}]
    BY <1>4 DEF Exists, RosterTyped
  <2>2. [employments[e] EXCEPT !.status = "terminated"] \in [status : EMP_STATUSES, hired : {0, 1, None}]
    BY <2>1 DEF EMP_STATUSES
  <2> QED BY <1>4, <2>1, <2>2 DEF TerminateEmployment, RosterTyped
<1>5. CASE UNCHANGED rosterVars
  BY <1>1, <1>5 DEF rosterVars, staffVars
<1>6. CASE \/ \E p \in Plans, standing \in PLAN_STATUSES, full \in BOOLEAN, renewal \in {0, LastDay} :
                CreatePlan(p, standing, full, renewal)
           \/ \E p \in Exists(plans), standing \in PLAN_STATUSES : UpdatePlanStatus(p, standing)
           \/ \E y \in Years, standing \in YEAR_STATUSES, closes \in {0, LastDay} : CreatePlanYear(y, standing, closes)
           \/ \E y \in Exists(years), standing \in YEAR_STATUSES : SetPlanYearStatus(y, standing)
           \/ \E p \in Plans, agreement \in BOOLEAN : SetRetirementDetails(p, agreement)
           \/ \E p \in Exists(plans), kind \in {"spd", "adoption_agreement"} : DocumentLinked(p, kind)
  BY <1>1, <1>6 DEF CreatePlan, UpdatePlanStatus, CreatePlanYear, SetPlanYearStatus, SetRetirementDetails,
                    DocumentLinked, staffVars
<1>7. CASE \/ \E i \in Enrolls, effective \in {0, None} :
                (\E standing \in ENROLL_STATUSES : Enroll(i, standing, effective)) \/ QualifyingLifeEvent(i, effective)
           \/ \E i \in Exists(enrollments), standing \in ENROLL_STATUSES : SetEnrollmentStatus(i, standing)
           \/ \E i \in Exists(enrollments), deferral \in Percents \cup {None}, roth \in Percents \cup {None} :
                SetRetirementElection(i, deferral, roth)
  BY <1>1, <1>7 DEF Enroll, QualifyingLifeEvent, SetEnrollmentStatus, SetRetirementElection
<1> QED BY <1>2, <1>3, <1>4, <1>5, <1>6, <1>7 DEF RosterNext

\* One of the three detectors has him.
LEMMA OneDetector ==
  ASSUME RosterTyped, NEW e \in Employees, WithoutHealth(e)
  PROVE  \/ e \in EligibilityUnresolved /\ e \notin NewHireEnrollmentDue /\ e \notin RosterInformationMissing
         \/ e \notin EligibilityUnresolved /\ e \in NewHireEnrollmentDue /\ e \notin RosterInformationMissing
         \/ e \notin EligibilityUnresolved /\ e \notin NewHireEnrollmentDue /\ e \in RosterInformationMissing
<1>1. Hired(e) /\ employments[e] \in [status : EMP_STATUSES, hired : {0, 1, None}]
  BY DEF WithoutHealth, Hired, RosterTyped
<1>2. CASE employments[e].hired = None
  BY <1>1, <1>2 DEF EligibilityUnresolved, NewHireEnrollmentDue, RosterInformationMissing
<1>3. CASE employments[e].hired # None
  <2>1. today - employments[e].hired \in Int /\ NewHireWindow \in Int
    BY <1>1, <1>3, RosterAssumption DEF RosterTyped
  <2> QED BY <1>1, <1>3, <2>1 DEF EligibilityUnresolved, NewHireEnrollmentDue, RosterInformationMissing
<1> QED BY <1>2, <1>3

\* At any time one of three detectors, and only one, has an active employee
\* without health coverage, for every window, any plans and employees, and
\* whatever is enrolled and terminated (benefits_detectors).
THEOREM RosterIsWatched == RosterSpec => []NobodyOverlooked
<1>1. RosterTyped => NobodyOverlooked
  <2> SUFFICES ASSUME RosterTyped, NEW e \in Employees, WithoutHealth(e)
               PROVE  Cardinality({d \in {<<1, EligibilityUnresolved>>, <<2, NewHireEnrollmentDue>>,
                                          <<3, RosterInformationMissing>>} : e \in d[2]}) = 1
    BY DEF NobodyOverlooked
  <2> DEFINE a == <<1, EligibilityUnresolved>>
             b == <<2, NewHireEnrollmentDue>>
             c == <<3, RosterInformationMissing>>
             S == {d \in {a, b, c} : e \in d[2]}
  <2>1. a[2] = EligibilityUnresolved /\ b[2] = NewHireEnrollmentDue /\ c[2] = RosterInformationMissing
    OBVIOUS
  <2> HIDE DEF a, b, c
  <2>2. S = {a} \/ S = {b} \/ S = {c}
    BY <2>1, OneDetector
  <2>3. Cardinality({a}) = 1 /\ Cardinality({b}) = 1 /\ Cardinality({c}) = 1
    BY FS_Singleton
  <2>4. Cardinality(S) = 1
    BY <2>2, <2>3
  <2> QED BY <2>4 DEF a, b, c
<1> QED BY <1>1, RosterStart, RosterSteps, PTL DEF RosterSpec

----------------------------------------------------------------------------
(* Work assignments *)

\* A request that nobody has met is the only one on its way to the cache, and
\* what it will write there is what the assignments say.
SyncsAlone ==
  \A r \in Syncing \ met : Syncing = {r} /\ (job[r].seen = None \/ Owns(job[r].seen))

WorkInv ==
  /\ job = [r \in Requests |-> job[r]]
  /\ \E S : assignments \in Seq(S)
  /\ OwnerHonest
  /\ SyncsAlone

LEMMA Adding ==
  ASSUME NEW S, NEW rows \in Seq(S), NEW x
  PROVE  /\ Append(rows, x) \in Seq(S \cup {x}) /\ DOMAIN Append(rows, x) = DOMAIN rows \cup {Len(rows) + 1}
         /\ Append(rows, x)[Len(rows) + 1] = x /\ \A n \in DOMAIN rows : Append(rows, x)[n] = rows[n]
<1>1. rows \in Seq(S \cup {x})
  OBVIOUS
<1> QED BY <1>1

\* Owns after the step.
OwnsNext(user) ==
  \E a \in DOMAIN assignments' :
    assignments'[a].role \in OWNER_ROLES /\ assignments'[a].user = user /\ assignments'[a].inactive = None

\* A new row takes nothing from its owners, and ending a row of another role
\* neither.
LEMMA WorkRecorded ==
  ASSUME WorkInv, NEW role, NEW user, Recorded(role, user)
  PROVE  /\ \E S : assignments' \in Seq(S)
         /\ \A u : Owns(u) => OwnsNext(u)
         /\ role \in OWNER_ROLES => OwnsNext(user)
<1>1. PICK S : assignments \in Seq(S)
  BY DEF WorkInv
<1> DEFINE x == Assignment(role, user)
           s == Len(assignments) + 1
<1>2. /\ assignments' \in Seq(S \cup {x}) /\ DOMAIN assignments' = DOMAIN assignments \cup {s}
      /\ assignments'[s] = x /\ \A n \in DOMAIN assignments : assignments'[n] = assignments[n]
  BY <1>1, Adding DEF Recorded
<1>3. x.role = role /\ x.user = user /\ x.inactive = None
  BY DEF Assignment
<1> HIDE DEF x, s
<1>4. ASSUME NEW u, Owns(u) PROVE OwnsNext(u)
  BY <1>2, <1>4 DEF Owns, OwnsNext
<1>5. role \in OWNER_ROLES => OwnsNext(user)
  BY <1>2, <1>3 DEF Owns, OwnsNext
<1> QED BY <1>2, <1>4, <1>5

LEMMA WorkEnds ==
  ASSUME WorkInv, NEW a \in DOMAIN assignments
  PROVE  /\ \E S : Ended(a) \in Seq(S)
         /\ DOMAIN Ended(a) = DOMAIN assignments
         /\ \A n \in DOMAIN assignments \ {a} : Ended(a)[n] = assignments[n]
<1>1. PICK S : assignments \in Seq(S)
  BY DEF WorkInv
<1>2. Ended(a) \in Seq(S \cup {[assignments[a] EXCEPT !.inactive = date]}) /\ DOMAIN Ended(a) = DOMAIN assignments
  BY <1>1 DEF Ended
<1> QED BY <1>2 DEF Ended

LEMMA WorkRemoved ==
  ASSUME WorkInv, NEW a \in DOMAIN assignments, assignments' = Ended(a)
  PROVE  /\ \E S : assignments' \in Seq(S)
         /\ assignments[a].role \notin OWNER_ROLES => \A u : Owns(u) => OwnsNext(u)
<1>1. ASSUME assignments[a].role \notin OWNER_ROLES, NEW u, Owns(u) PROVE OwnsNext(u)
  BY <1>1, WorkEnds DEF Owns, OwnsNext
<1> QED BY <1>1, WorkEnds

LEMMA WorkHandedOn ==
  ASSUME WorkInv, NEW a \in DOMAIN assignments, NEW user,
         assignments' = Append(Ended(a), Assignment(assignments[a].role, user))
  PROVE  /\ \E S : assignments' \in Seq(S)
         /\ assignments[a].role \notin OWNER_ROLES => \A u : Owns(u) => OwnsNext(u)
         /\ assignments[a].role \in OWNER_ROLES => OwnsNext(user)
<1>1. PICK S : Ended(a) \in Seq(S)
  BY WorkEnds
<1> DEFINE x == Assignment(assignments[a].role, user)
           s == Len(Ended(a)) + 1
<1>2. /\ assignments' \in Seq(S \cup {x}) /\ DOMAIN assignments' = DOMAIN Ended(a) \cup {s}
      /\ assignments'[s] = x /\ \A n \in DOMAIN Ended(a) : assignments'[n] = Ended(a)[n]
  BY <1>1, Adding
<1>3. x.role = assignments[a].role /\ x.user = user /\ x.inactive = None
  BY DEF Assignment
<1> HIDE DEF x, s
<1>4. ASSUME assignments[a].role \notin OWNER_ROLES, NEW u, Owns(u) PROVE OwnsNext(u)
  BY <1>2, <1>4, WorkEnds DEF Owns, OwnsNext
<1>5. assignments[a].role \in OWNER_ROLES => OwnsNext(user)
  BY <1>2, <1>3 DEF Owns, OwnsNext
<1> QED BY <1>2, <1>4, <1>5

\* A request goes on that has nothing to write to the cache, and no owner is
\* taken away.
LEMMA WorkGoes ==
  ASSUME WorkInv, NEW r \in Requests, NEW j, job' = [job EXCEPT ![r] = j],
         r \notin Syncing, j.at # "sync" \/ j.row \notin OWNER_ROLES,
         UNCHANGED owner, trusted' => trusted, met \ {r} \subseteq met',
         \E S : assignments' \in Seq(S), \A u : Owns(u) => OwnsNext(u)
  PROVE  WorkInv'
<1>1. /\ job' = [q \in Requests |-> job'[q]]
      /\ job'[r] = j /\ \A q \in Requests \ {r} : job'[q] = job[q]
  BY DEF WorkInv
<1>2. Syncing' = Syncing
  BY <1>1 DEF Syncing, Serves
<1>3. OwnerHonest'
  BY <1>2 DEF WorkInv, OwnerHonest, Owns, OwnsNext
<1>4. SyncsAlone'
  <2>1. \A q \in Syncing \ met : Syncing = {q} /\ (job[q].seen = None \/ OwnsNext(job[q].seen))
    BY DEF WorkInv, SyncsAlone, OwnsNext
  <2>2. \A q \in Syncing : job'[q] = job[q]
    BY <1>1 DEF Syncing
  <2>3. Syncing' \ met' \subseteq Syncing \ met
    BY <1>2
  <2> QED BY <1>2, <2>1, <2>2, <2>3 DEF SyncsAlone, Owns, OwnsNext
<1> QED BY <1>1, <1>3, <1>4 DEF WorkInv

\* A request goes on to the cache.
LEMMA WorkBegins ==
  ASSUME WorkInv, NEW r \in Requests, NEW role \in OWNER_ROLES, NEW user, r \notin Syncing,
         Local(r, "sync", role, user, {}), SyncBegins(r, role), user = None \/ OwnsNext(user),
         \E S : assignments' \in Seq(S)
  PROVE  WorkInv'
<1> DEFINE j == [at |-> "sync", row |-> role, seen |-> user, todo |-> {}]
<1>0. j.at = "sync" /\ j.row = role /\ j.seen = user /\ job' = [job EXCEPT ![r] = j]
  BY DEF Local
<1> HIDE DEF j
<1>1. /\ job' = [q \in Requests |-> job'[q]]
      /\ job'[r] = j /\ \A q \in Requests \ {r} : job'[q] = job[q]
  BY <1>0 DEF WorkInv
<1>2. Syncing' = Syncing \cup {r}
  BY <1>0, <1>1 DEF Syncing, Serves
<1>3. OwnerHonest'
  BY <1>2 DEF OwnerHonest
<1>4. SyncsAlone'
  BY <1>0, <1>1, <1>2 DEF SyncsAlone, SyncBegins, Owns, OwnsNext
<1> QED BY <1>1, <1>3, <1>4 DEF WorkInv

\* One of them has written it, or never will.
LEMMA WorkSynced ==
  ASSUME WorkInv, NEW r \in Syncing, job' = [job EXCEPT ![r] = Idle], UNCHANGED assignments,
         met' = met \ {r}, trusted' => r \notin met /\ owner' = job[r].seen
  PROVE  WorkInv'
<1>1. /\ job' = [q \in Requests |-> job'[q]] /\ r \in Requests
      /\ job'[r] = Idle /\ \A q \in Requests \ {r} : job'[q] = job[q]
  BY DEF WorkInv, Syncing
<1>2. Syncing' = Syncing \ {r}
  BY <1>1 DEF Syncing, Serves, Idle
<1>3. \A u : OwnsNext(u) = Owns(u)
  BY DEF Owns, OwnsNext
<1>4. OwnerHonest'
  BY <1>3 DEF WorkInv, OwnerHonest, SyncsAlone, Owns, OwnsNext
<1>5. SyncsAlone'
  BY <1>2 DEF WorkInv, SyncsAlone, Owns, OwnsNext
<1> QED BY <1>1, <1>4, <1>5 DEF WorkInv

\* A change of an owner that leaves the cache alone, or of another role.
LEMMA WorkFollows ==
  ASSUME WorkInv, NEW r \in Requests, NEW route \in ROUTES, NEW role, NEW user, Follows(r, route, role, user),
         UNCHANGED owner, \E S : assignments' \in Seq(S),
         role \notin OWNER_ROLES => \A u : Owns(u) => OwnsNext(u),
         role \in OWNER_ROLES => user = None \/ OwnsNext(user)
  PROVE  WorkInv'
<1>1. CASE Starts(r, "sync", role, user, {}) /\ SyncBegins(r, role)
  <2>1. PICK j : j = [at |-> "sync", row |-> role, seen |-> user, todo |-> {}]
    OBVIOUS
  <2>2. job' = [job EXCEPT ![r] = j] /\ r \notin Syncing
    BY <1>1, <2>1 DEF Starts, Local, Waits, Syncing, Serves, Idle
  <2>3. CASE role \in OWNER_ROLES
    BY <1>1, <2>2, <2>3, WorkBegins DEF Starts
  <2>4. CASE role \notin OWNER_ROLES
    BY <1>1, <2>1, <2>2, <2>4, WorkGoes DEF SyncBegins
  <2> QED BY <2>3, <2>4
<1>2. CASE Serve /\ Bypasses(role)
  <2>1. job' = job /\ Syncing' = Syncing
    BY <1>2 DEF Serve, Syncing, Serves
  <2>2. CASE role \in OWNER_ROLES
    BY <1>2, <2>1, <2>2 DEF Bypasses, WorkInv, OwnerHonest, SyncsAlone
  <2>3. CASE role \notin OWNER_ROLES
    BY <1>2, <2>1, <2>3 DEF Bypasses, ownerHistory, WorkInv, OwnerHonest, SyncsAlone, Owns, OwnsNext
  <2> QED BY <2>2, <2>3
<1> QED BY <1>1, <1>2 DEF Follows

LEMMA WorkSteps == WorkInv /\ [WorkNext]_workVars => WorkInv'
<1> SUFFICES ASSUME WorkInv, [WorkNext]_workVars PROVE WorkInv'
  OBVIOUS
<1>1. ASSUME UNCHANGED <<assignments, owner, ownerHistory, job>> PROVE WorkInv'
  BY <1>1 DEF WorkInv, ownerHistory, OwnerHonest, SyncsAlone, Syncing, Serves, Owns, OwnsNext
<1>2. ASSUME UNCHANGED assignments PROVE (\E S : assignments' \in Seq(S)) /\ \A u : Owns(u) => OwnsNext(u)
  BY <1>2 DEF WorkInv, Owns, OwnsNext
<1>3. Idle.at # "sync"
  BY DEF Idle
<1>4. ASSUME NEW r \in Requests, NEW j, job' = [job EXCEPT ![r] = j], r \notin Syncing, j.at # "sync",
             UNCHANGED <<owner, ownerHistory>>, \E S : assignments' \in Seq(S), \A u : Owns(u) => OwnsNext(u)
      PROVE  WorkInv'
  BY <1>4, WorkGoes DEF ownerHistory
<1>5. ASSUME NEW r \in Requests, NEW route \in ROUTES, NEW role \in ASSIGNMENT_ROLES, NEW user \in Users,
             AssignRead(r, route, role, user)
      PROVE  WorkInv'
  <2>1. PICK j : j = [at |-> "assign", row |-> role, seen |-> user, todo |-> {route}]
    OBVIOUS
  <2>2. job' = [job EXCEPT ![r] = j] /\ r \notin Syncing /\ j.at # "sync"
    BY <1>5, <2>1 DEF AssignRead, Starts, Local, Waits, Syncing, Serves, Idle
  <2> QED BY <1>2, <1>4, <1>5, <2>2 DEF AssignRead
<1>6. ASSUME NEW r \in Requests, NEW route \in ROUTES, NEW a \in DOMAIN assignments, Deactivate(r, route, a)
      PROVE  WorkInv'
  <2>1. PICK role : role = assignments[a].role
    OBVIOUS
  <2>2. Follows(r, route, role, None) /\ assignments' = Ended(a) /\ UNCHANGED owner
    BY <1>6, <2>1 DEF Deactivate
  <2> QED BY <2>1, <2>2, WorkRemoved, WorkFollows
<1>7. ASSUME NEW r \in Requests, NEW route \in ROUTES, NEW a \in DOMAIN assignments, NEW user \in Users,
             Reassign(r, route, a, user)
      PROVE  WorkInv'
  <2>1. PICK role : role = assignments[a].role
    OBVIOUS
  <2>2. /\ Follows(r, route, role, user) /\ UNCHANGED owner
        /\ assignments' = Append(Ended(a), Assignment(role, user))
    BY <1>7, <2>1 DEF Reassign
  <2> QED BY <2>1, <2>2, WorkHandedOn, WorkFollows
<1>8. ASSUME NEW r \in Requests, AssignInsert(r) PROVE WorkInv'
  <2>1. PICK role, user : role = job[r].row /\ user = job[r].seen
    OBVIOUS
  <2>2. r \notin Syncing /\ UNCHANGED owner
    BY <1>8 DEF AssignInsert, Serves, Syncing
  <2>3. CASE Recorded(role, user) /\ Goes(r, "sync", role, user, {}) /\ SyncBegins(r, role)
    <3>1. PICK j : j = [at |-> "sync", row |-> role, seen |-> user, todo |-> {}]
      OBVIOUS
    <3>2. job' = [job EXCEPT ![r] = j]
      BY <2>3, <3>1 DEF Goes, Local
    <3>3. CASE role \in OWNER_ROLES
      BY <2>2, <2>3, <3>3, WorkRecorded, WorkBegins DEF Goes
    <3>4. CASE role \notin OWNER_ROLES
      BY <2>2, <2>3, <3>1, <3>2, <3>4, WorkRecorded, WorkGoes DEF SyncBegins
    <3> QED BY <3>3, <3>4
  <2>4. CASE Recorded(role, user) /\ Ends(r) /\ UNCHANGED ownerHistory
    BY <1>3, <1>4, <2>2, <2>4, WorkRecorded DEF Ends
  <2>5. CASE Ends(r) /\ UNCHANGED <<assignments, ownerHistory>>
    BY <1>2, <1>3, <1>4, <2>2, <2>5 DEF Ends
  <2> QED BY <1>8, <2>1, <2>3, <2>4, <2>5 DEF AssignInsert
<1>9. ASSUME NEW r \in Requests, SyncOwner(r) PROVE WorkInv'
  <2>1. /\ job' = [job EXCEPT ![r] = Idle] /\ UNCHANGED assignments /\ met' = met \ {r}
        /\ trusted' = IF r \in Syncing THEN r \notin met ELSE trusted
    BY <1>9 DEF SyncOwner, Ends
  <2>2. CASE r \in Syncing
    <3>1. owner' = job[r].seen
      BY <1>9, <2>2 DEF SyncOwner, OwnerSynced, Syncing
    <3> QED BY <2>1, <2>2, <3>1, WorkSynced
  <2>3. CASE r \notin Syncing
    <3>1. UNCHANGED owner
      BY <1>9, <2>3 DEF SyncOwner, OwnerSynced, Syncing
    <3> QED BY <1>2, <1>3, <2>1, <2>3, <3>1, WorkGoes
  <2> QED BY <2>2, <2>3
<1>10. ASSUME NEW r \in Requests, WorkCrash(r) PROVE WorkInv'
  <2>1. /\ job' = [job EXCEPT ![r] = Idle] /\ UNCHANGED <<assignments, owner>> /\ met' = met \ {r}
        /\ trusted' = (trusted /\ r \notin Syncing)
    BY <1>10 DEF WorkCrash, Dies, Ends
  <2>2. CASE r \in Syncing
    BY <2>1, <2>2, WorkSynced
  <2>3. CASE r \notin Syncing
    BY <1>2, <1>3, <2>1, <2>3, WorkGoes
  <2> QED BY <2>2, <2>3
<1>11. ASSUME NEW r \in Requests, AutoRead(r) PROVE WorkInv'
  <2>1. PICK j : j = [at |-> "rules", row |-> None, seen |-> None, todo |-> 1..Len(Rules)]
    OBVIOUS
  <2>2. job' = [job EXCEPT ![r] = j] /\ r \notin Syncing /\ j.at # "sync"
    BY <1>11, <2>1 DEF AutoRead, Starts, Local, Waits, Syncing, Serves, Idle
  <2> QED BY <1>2, <1>4, <1>11, <2>2 DEF AutoRead
<1>12. ASSUME NEW r \in Requests, RuleRead(r) \/ RuleInsert(r) PROVE WorkInv'
  <2>1. r \notin Syncing /\ UNCHANGED <<owner, ownerHistory>>
    BY <1>12 DEF RuleRead, RuleInsert, Serves, Syncing
  <2>2. PICK j : job' = [job EXCEPT ![r] = j] /\ j.at # "sync"
    <3>1. CASE Ends(r)
      BY <1>3, <3>1 DEF Ends
    <3>2. ASSUME NEW seen, NEW todo, Goes(r, "rules", None, seen, todo)
          PROVE  \E j : job' = [job EXCEPT ![r] = j] /\ j.at # "sync"
      <4>1. PICK j : j = [at |-> "rules", row |-> None, seen |-> seen, todo |-> todo]
        OBVIOUS
      <4>2. job' = [job EXCEPT ![r] = j]
        BY <3>2, <4>1 DEF Goes, Local
      <4>3. j.at # "sync"
        BY <4>1
      <4> QED BY <4>2, <4>3
    <3> QED BY <1>12, <3>1, <3>2 DEF RuleRead, RuleInsert
  <2>3. (\E S : assignments' \in Seq(S)) /\ \A u : Owns(u) => OwnsNext(u)
    <3>1. CASE UNCHANGED assignments
      BY <1>2, <3>1
    <3>2. ASSUME NEW role, NEW user, Recorded(role, user)
          PROVE  (\E S : assignments' \in Seq(S)) /\ \A u : Owns(u) => OwnsNext(u)
      BY <3>2, WorkRecorded
    <3> QED BY <1>12, <3>1, <3>2 DEF RuleRead, RuleInsert
  <2> QED BY <1>4, <2>1, <2>2, <2>3
<1>13. CASE DateChanges
  BY <1>1, <1>13 DEF DateChanges, requestVars
<1>14. CASE UNCHANGED workVars
  BY <1>1, <1>14 DEF workVars, requestVars
<1> QED BY <1>5, <1>6, <1>7, <1>8, <1>9, <1>10, <1>11, <1>12, <1>13, <1>14 DEF WorkNext

\* The owner shown is an owner by the assignments, unless the last change of
\* one met another, died before the cache or came through Work Management
\* (_sync_owner): for any assignees, rules and overlapping requests.
THEOREM OwnersHold == WorkSpec => []OwnerHonest
<1>1. WorkInit => WorkInv
  <2>1. <<>> \in Seq({})
    OBVIOUS
  <2> QED BY <2>1 DEF WorkInit, RequestInit, WorkInv, OwnerHonest, SyncsAlone, Syncing, Serves, Idle
<1>2. WorkInv => OwnerHonest
  BY DEF WorkInv
<1> QED BY <1>1, <1>2, WorkSteps, PTL DEF WorkSpec

----------------------------------------------------------------------------
(* Threads and their locals *)

\* The locals of the threads are a function, and only one thread's change.
Threads == job = [r \in Requests |-> job[r]]

Others(r) == Threads' /\ \A q \in Requests \ {r} : job'[q] = job[q]

Held(j, place, row, seen, todo) == j.at = place /\ j.row = row /\ j.seen = seen /\ j.todo = todo

LEMMA LocalSteps ==
  ASSUME Threads, NEW r \in Requests, NEW place, NEW row, NEW seen, NEW todo,
         Local(r, place, row, seen, todo)
  PROVE  Others(r) /\ Held(job'[r], place, row, seen, todo)
<1>1. job' = [job EXCEPT ![r] = [at |-> place, row |-> row, seen |-> seen, todo |-> todo]]
  BY DEF Local
<1>2. job'[r] = [at |-> place, row |-> row, seen |-> seen, todo |-> todo]
  BY <1>1 DEF Threads
<1>3. Others(r)
  BY <1>1 DEF Threads, Others
<1> QED BY <1>2, <1>3 DEF Held

LEMMA Calls ==
  ASSUME Threads, NEW r \in Requests, NEW place, NEW row, NEW seen, NEW todo, Starts(r, place, row, seen, todo)
  PROVE  Others(r) /\ Held(job'[r], place, row, seen, todo) /\ job[r].at = "idle" /\ job'[r].at = place
<1>1. Local(r, place, row, seen, todo)
  BY DEF Starts
<1>2. Others(r) /\ Held(job'[r], place, row, seen, todo)
  BY <1>1, LocalSteps
<1>3. job[r].at = "idle"
  BY DEF Starts, Waits, Idle
<1> QED BY <1>2, <1>3 DEF Held

LEMMA EndSteps ==
  ASSUME Threads, NEW r \in Requests, Ends(r)
  PROVE  Others(r) /\ job'[r] = Idle /\ job'[r].at = "idle" /\ UNCHANGED budget
BY DEF Threads, Others, Ends, Idle

----------------------------------------------------------------------------
(* The intake of a tax return *)

Rows == [status : {"missing", "received"}, document : Documents \cup {None}] \cup {None}
LinkStatuses == {"proposed", "accepted", "rejected", "superseded"}
LinkRows == [document : Documents, item : Items \cup {None}, status : LinkStatuses]

\* A required item that anything is stored about has been on record as missing.
OnRecord(i) == i \in Required => missing[i].open + missing[i].resolved > 0

RowsOK ==
  /\ checklist \in [Items -> Rows]
  /\ missing \in [Items -> [open : Nat, resolved : Nat]]
  /\ \A i \in Items : checklist[i] # None => OnRecord(i)

LinksOK == links \in Seq(LinkRows) /\ \A l \in 1..Len(links) : OnRecord(links[l].item)

FilesOK == RowsOK /\ LinksOK

\* What a thread carries from one of its transactions to the next ...
LocalsOK(r) ==
  /\ job[r].at = "item" => job[r].row \in Items
  /\ job[r].at \in {"ingest", "link"} => \A pair \in job[r].todo : OnRecord(pair[1])
  /\ job[r].at = "link" =>
       /\ job[r].row[1] \in Items /\ job[r].row[2] \in Documents /\ OnRecord(job[r].row[1])
       /\ job[r].seen \in {"proposed", "accepted"}
  /\ job[r].at = "review" =>
       /\ job[r].row \in 1..Len(links)
       /\ job[r].seen.action \in Actions
       /\ job[r].seen.item \in Items \cup {None} /\ OnRecord(job[r].seen.item)
       /\ job[r].seen.link \in LinkRows /\ OnRecord(job[r].seen.link.item)
       /\ job[r].seen.link.status \in AllowedFrom[job[r].seen.action]

\* ... and what of it is still so while it is alone.
Current(r) ==
  /\ job[r].at = "compute" => \A i \in Items : i \in job[r].seen.resolve => Received(i)
  /\ job[r].at = "review" => job[r].seen.link = links[job[r].row]

Busy(r) == job[r].at # "idle"

ThreadsOK ==
  /\ Threads
  /\ \A r \in Requests : LocalsOK(r)
  /\ apart => /\ \A q, r \in Requests : Busy(q) /\ Busy(r) => q = r
              /\ \A r \in Requests : Current(r)

IntakeInv == FilesOK /\ ThreadsOK /\ ChecklistHonest

\* What every step does for the threads it is not of.
SumsStay ==
  \A i \in Required : missing[i].open + missing[i].resolved > 0 =>
                         missing'[i].open + missing'[i].resolved > 0

Recording ==
  /\ SumsStay
  /\ Len(links) \in Nat /\ Len(links') \in Nat /\ Len(links) <= Len(links')

\* A step of r ends the time in which requests were apart, or r is alone.
ByItself(r) == apart' => apart /\ (Busy(r) \/ \A q \in Requests : ~Busy(q))

----------------------------------------------------------------------------

\* What is on record stays on record.
LEMMA RecordedStays == ASSUME Recording PROVE \A i : OnRecord(i) => OnRecord(i)'
BY DEF Recording, SumsStay, OnRecord

\* The other threads are as the invariant has them after a step of r.
LEMMA IntakeThreads ==
  ASSUME ThreadsOK, NEW r \in Requests, Others(r), Recording, ByItself(r),
         LocalsOK(r)', apart' => Current(r)'
  PROVE  ThreadsOK'
<1>1. Threads'
  BY DEF Others
<1>2. ASSUME NEW q \in Requests PROVE LocalsOK(q)'
  <2>1. CASE q = r
    BY <2>1
  <2>2. CASE q # r
    <3>1. job'[q] = job[q] /\ LocalsOK(q)
      BY <2>2 DEF Others, ThreadsOK
    <3>2. job[q].at = "review" => job[q].row \in 1..Len(links')
      BY <3>1 DEF LocalsOK, Recording
    <3> QED BY <3>1, <3>2, RecordedStays DEF LocalsOK, OnRecord
  <2> QED BY <2>1, <2>2
<1>3. ASSUME apart', NEW q \in Requests, q # r PROVE ~Busy(q)'
  BY <1>3 DEF ByItself, ThreadsOK, Others, Busy
<1>4. ASSUME apart', NEW p \in Requests, NEW q \in Requests, Busy(p)', Busy(q)' PROVE p = q
  BY <1>3, <1>4
<1>5. ASSUME apart', NEW q \in Requests PROVE Current(q)'
  <2>1. CASE q = r
    BY <1>5, <2>1
  <2>2. CASE q # r
    BY <1>3, <1>5, <2>2 DEF Busy, Current
  <2> QED BY <2>1, <2>2
<1> QED BY <1>1, <1>2, <1>4, <1>5 DEF ThreadsOK

\* A step that leaves the files alone keeps what is said of them.
LEMMA FilesStay ==
  ASSUME FilesOK, ChecklistHonest, UNCHANGED files, apart' => apart, moved' = moved
  PROVE  FilesOK' /\ ChecklistHonest' /\ Recording
<1>1. checklist' = checklist /\ missing' = missing /\ links' = links
  BY DEF files
<1>2. FilesOK'
  BY <1>1 DEF FilesOK, RowsOK, LinksOK, OnRecord
<1>3. ReceivedIsAccepted'
  BY <1>1 DEF ChecklistHonest, ReceivedIsAccepted, Received
<1>4. MissingIsOnRecord'
  BY <1>1 DEF ChecklistHonest, MissingIsOnRecord, Received
<1>5. Recording
  BY <1>1 DEF FilesOK, LinksOK, Recording, SumsStay
<1> QED BY <1>2, <1>3, <1>4, <1>5 DEF ChecklistHonest

\* So a step of r that leaves them alone keeps the invariant if r goes on soundly.
LEMMA ThreadGoesOn ==
  ASSUME IntakeInv, NEW r \in Requests, Others(r), ByItself(r), UNCHANGED <<files, moved>>,
         LocalsOK(r)', apart' => Current(r)'
  PROVE  IntakeInv'
<1>1. UNCHANGED files /\ moved' = moved /\ (apart' => apart)
  BY DEF ByItself
<1>2. FilesOK' /\ ChecklistHonest' /\ Recording
  BY <1>1, FilesStay DEF IntakeInv
<1>3. ThreadsOK'
  BY <1>2, IntakeThreads DEF IntakeInv
<1> QED BY <1>2, <1>3 DEF IntakeInv

\* A place at which a thread holds nothing of the files.
Free(place) == place \notin {"item", "ingest", "link", "review", "compute"}

LEMMA FreeThread == ASSUME NEW r, Free(job[r].at)' PROVE LocalsOK(r)' /\ Current(r)'
BY DEF Free, LocalsOK, Current

\* A step that only ends a request, or takes it to a place where it holds nothing.
LEMMA FreeStep ==
  ASSUME IntakeInv, NEW r \in Requests, Others(r), ByItself(r), UNCHANGED <<files, moved>>,
         Free(job[r].at)'
  PROVE  IntakeInv'
BY FreeThread, ThreadGoesOn

\* A request that begins, or goes on.
LEMMA BeginsApart ==
  ASSUME NEW r \in Requests, NEW place, NEW row, NEW seen, NEW todo, Begins(r, place, row, seen, todo), Threads
  PROVE  Others(r) /\ Held(job'[r], place, row, seen, todo) /\ ByItself(r)
<1>1. Starts(r, place, row, seen, todo)
  BY DEF Begins
<1>2. Others(r) /\ Held(job'[r], place, row, seen, todo)
  BY <1>1, Calls
<1>3. ByItself(r)
  BY DEF Begins, ByItself, Busy, Waits, Idle
<1> QED BY <1>2, <1>3

LEMMA GoesOn ==
  ASSUME NEW r \in Requests, NEW place, NEW row, NEW seen, NEW todo, Goes(r, place, row, seen, todo), Threads,
         Busy(r), UNCHANGED apart
  PROVE  Others(r) /\ Held(job'[r], place, row, seen, todo) /\ ByItself(r)
<1>1. Local(r, place, row, seen, todo)
  BY DEF Goes
<1> QED BY <1>1, LocalSteps DEF ByItself

LEMMA ComesToAnEnd ==
  ASSUME NEW r \in Requests, Ends(r), Threads, Busy(r), UNCHANGED apart
  PROVE  Others(r) /\ ByItself(r) /\ Free(job[r].at)'
BY EndSteps DEF ByItself, Free

\* A request that is served in one step changes nothing of the files.
LEMMA ServedStep ==
  ASSUME IntakeInv, UNCHANGED <<job, files, apart, moved>> PROVE IntakeInv'
<1>1. FilesOK' /\ ChecklistHonest'
  BY FilesStay DEF IntakeInv
<1>2. checklist' = checklist /\ missing' = missing /\ links' = links
  BY DEF files
<1>3. ThreadsOK'
  BY <1>2 DEF IntakeInv, ThreadsOK, Threads, LocalsOK, Current, Busy, OnRecord, Received
<1> QED BY <1>1, <1>3 DEF IntakeInv

----------------------------------------------------------------------------

\* An item is received: the others are as they were.
LEMMA Resolving ==
  ASSUME RowsOK, MissingIsOnRecord, apart' => apart,
         NEW i \in Items, NEW d \in Documents, OnRecord(i), Resolved(i, d)
  PROVE  /\ RowsOK' /\ SumsStay /\ MissingIsOnRecord'
         /\ checklist'[i] = [status |-> "received", document |-> d]
         /\ \A j \in Items : j # i => checklist'[j] = checklist[j]
<1>1. /\ checklist' \in [Items -> Rows] /\ checklist'[i] = [status |-> "received", document |-> d]
      /\ \A j \in Items : j # i => checklist'[j] = checklist[j]
  BY DEF RowsOK, Rows, Resolved
<1>2. /\ missing' \in [Items -> [open : Nat, resolved : Nat]]
      /\ missing'[i].open + missing'[i].resolved = missing[i].open + missing[i].resolved
      /\ \A j \in Items : j # i => missing'[j] = missing[j]
  BY DEF RowsOK, Resolved
<1>3. SumsStay
  BY <1>2, ItemAssumption DEF SumsStay
<1>4. RowsOK'
  BY <1>1, <1>2 DEF RowsOK, OnRecord
<1>5. MissingIsOnRecord'
  BY <1>1, <1>2, ItemAssumption DEF MissingIsOnRecord, Received
<1> QED BY <1>1, <1>3, <1>4, <1>5

\* An item is given back: it is on record as missing.
LEMMA Reverting ==
  ASSUME RowsOK, MissingIsOnRecord, apart' => apart,
         NEW i \in Items, OnRecord(i), Reverted(i)
  PROVE  /\ RowsOK' /\ SumsStay /\ MissingIsOnRecord' /\ ~Received(i)'
         /\ \A j \in Items : j # i => checklist'[j] = checklist[j]
<1>1. /\ checklist' \in [Items -> Rows] /\ checklist'[i] = [status |-> "missing", document |-> None]
      /\ \A j \in Items : j # i => checklist'[j] = checklist[j]
  BY DEF RowsOK, Rows, Reverted
<1>2. /\ missing' \in [Items -> [open : Nat, resolved : Nat]]
      /\ missing'[i].open = missing[i].open + missing[i].resolved /\ missing'[i].resolved = 0
      /\ \A j \in Items : j # i => missing'[j] = missing[j]
  BY DEF RowsOK, Reverted
<1>3. SumsStay
  BY <1>2, ItemAssumption DEF SumsStay, RowsOK
<1>4. RowsOK'
  <2>1. OnRecord(i)'
    BY <1>2 DEF OnRecord, RowsOK
  <2> QED BY <1>1, <1>2, <2>1 DEF RowsOK, OnRecord
<1>5. MissingIsOnRecord'
  <2>1. i \in Required => missing'[i].open > 0
    BY <1>2 DEF OnRecord, RowsOK
  <2> QED BY <1>1, <1>2, <2>1, ItemAssumption DEF MissingIsOnRecord, Received
<1>6. ~Received(i)'
  BY <1>1 DEF Received
<1> QED BY <1>1, <1>3, <1>4, <1>5, <1>6

\* A link is added, or changes without its item having a required one's past.
LEMMA LinkAdded ==
  ASSUME LinksOK, SumsStay, NEW d \in Documents, NEW i \in Items, NEW standing \in LinkStatuses, OnRecord(i),
         links' = Append(links, Link(d, i, standing))
  PROVE  LinksOK' /\ Recording /\ links'[Len(links')] = Link(d, i, standing)
         /\ \A l \in 1..Len(links) : l \in 1..Len(links') /\ links'[l] = links[l]
<1>1. Link(d, i, standing) \in LinkRows
  BY DEF Link, LinkRows
<1>2. /\ links' \in Seq(LinkRows) /\ Len(links') = Len(links) + 1 /\ Len(links) \in Nat
      /\ links'[Len(links')] = Link(d, i, standing)
      /\ \A l \in 1..Len(links) : l \in 1..Len(links') /\ links'[l] = links[l]
  BY <1>1 DEF LinksOK
<1>3. \A l \in 1..Len(links') : l \in 1..Len(links) \/ l = Len(links')
  BY <1>2
<1>4. Recording
  BY <1>2 DEF Recording
<1>5. Link(d, i, standing).item = i
  BY DEF Link
<1>6. \A l \in 1..Len(links') : OnRecord(links'[l].item)
  BY <1>2, <1>3, <1>5 DEF LinksOK
<1>7. LinksOK'
  BY <1>2, <1>4, <1>6, RecordedStays DEF LinksOK, OnRecord
<1> QED BY <1>2, <1>4, <1>7

\* A link is changed: the others are as they were.
LEMMA LinkChanged ==
  ASSUME LinksOK, SumsStay, NEW l \in 1..Len(links), NEW row \in LinkRows, OnRecord(row.item),
         links' = [links EXCEPT ![l] = row]
  PROVE  LinksOK' /\ Recording /\ Len(links') = Len(links) /\ links'[l] = row
         /\ \A m \in 1..Len(links) : m # l => links'[m] = links[m]
<1>1. /\ links' \in Seq(LinkRows) /\ Len(links') = Len(links) /\ Len(links) \in Nat
      /\ links'[l] = row /\ \A m \in 1..Len(links) : m # l => links'[m] = links[m]
  BY DEF LinksOK
<1>2. Recording
  BY <1>1 DEF Recording
<1>3. \A m \in 1..Len(links') : OnRecord(links'[m].item)
  BY <1>1 DEF LinksOK
<1>4. LinksOK'
  BY <1>1, <1>2, <1>3, RecordedStays DEF LinksOK, OnRecord
<1> QED BY <1>1, <1>2, <1>4

----------------------------------------------------------------------------

LEMMA IntakeStart == IntakeInit => IntakeInv
<1> SUFFICES ASSUME IntakeInit PROVE IntakeInv
  OBVIOUS
<1>1. FilesOK
  BY DEF IntakeInit, FilesOK, RowsOK, LinksOK, Rows, OnRecord
<1>2. \A r \in Requests : job[r].at = "idle"
  BY DEF IntakeInit, RequestInit, Idle
<1>3. ThreadsOK
  <2>1. Threads
    BY DEF IntakeInit, RequestInit, Threads
  <2> QED BY <1>2, <2>1 DEF ThreadsOK, LocalsOK, Current, Busy
<1>4. ChecklistHonest
  BY ItemAssumption DEF IntakeInit, ChecklistHonest, ReceivedIsAccepted, MissingIsOnRecord, Received
<1> QED BY <1>1, <1>3, <1>4 DEF IntakeInv

\* The steps of the requests that hold nothing of the files afterwards.
LEMMA FreeSteps ==
  ASSUME IntakeInv, NEW r \in Requests,
         \/ Launch(r) \/ AdvanceRead(r) \/ AdvanceIntake(r) \/ AdvanceDocuments(r) \/ SyncStart(r)
         \/ \E k \in Papers, complete \in BOOLEAN : SaveForm(r, k, complete)
  PROVE  IntakeInv'
<1> USE DEF IntakeInv, ThreadsOK, history, Serves, Held, Busy, Free
<1>1. CASE Launch(r)
  <2>1. Others(r) /\ ByItself(r) /\ Free(job[r].at)'
    BY <1>1, BeginsApart DEF Launch
  <2> QED BY <1>1, <2>1, FreeStep DEF Launch
<1>2. CASE AdvanceRead(r)
  <2>1. Others(r) /\ ByItself(r) /\ Free(job[r].at)'
    BY <1>2, GoesOn DEF AdvanceRead
  <2> QED BY <1>2, <2>1, FreeStep DEF AdvanceRead
<1>3. CASE AdvanceIntake(r)
  <2>1. CASE Ends(r)
    BY <1>3, <2>1, ComesToAnEnd, FreeStep DEF AdvanceIntake
  <2>2. CASE Goes(r, "documents", None, None, {})
    <3>1. Others(r) /\ ByItself(r) /\ Free(job[r].at)'
      BY <1>3, <2>2, GoesOn DEF AdvanceIntake
    <3> QED BY <1>3, <3>1, FreeStep DEF AdvanceIntake
  <2> QED BY <1>3, <2>1, <2>2 DEF AdvanceIntake
<1>4. CASE AdvanceDocuments(r)
  BY <1>4, ComesToAnEnd, FreeStep DEF AdvanceDocuments
<1>5. CASE SyncStart(r)
  <2>1. Others(r) /\ ByItself(r) /\ Free(job[r].at)'
    BY <1>5, BeginsApart DEF SyncStart
  <2> QED BY <1>5, <2>1, FreeStep DEF SyncStart
<1>6. ASSUME NEW k \in Papers, NEW complete \in BOOLEAN, SaveForm(r, k, complete) PROVE IntakeInv'
  <2>1. Others(r) /\ ByItself(r) /\ Free(job[r].at)'
    BY <1>6, BeginsApart DEF SaveForm
  <2> QED BY <1>6, <2>1, FreeStep DEF SaveForm
<1> QED BY <1>1, <1>2, <1>3, <1>4, <1>5, <1>6

LEMMA CrashKeeps == ASSUME IntakeInv, NEW r \in Requests, IntakeCrash(r) PROVE IntakeInv'
<1>1. Ends(r) /\ UNCHANGED <<files, apart, moved>> /\ Threads
  BY DEF IntakeCrash, Dies, history, IntakeInv, ThreadsOK
<1>2. CASE Busy(r)
  BY <1>1, <1>2, ComesToAnEnd, FreeStep
<1>3. CASE ~Busy(r)
  <2>1. FilesOK' /\ ChecklistHonest' /\ checklist' = checklist /\ missing' = missing /\ links' = links
    BY <1>1, FilesStay DEF IntakeInv, files
  <2>2. Others(r) /\ job'[r].at = "idle" /\ job[r].at = "idle"
    BY <1>1, <1>3, EndSteps DEF Busy
  <2>3. \A q \in Requests : (LocalsOK(q) => LocalsOK(q)') /\ (Current(q) => Current(q)') /\ (Busy(q)' => Busy(q))
    BY <2>1, <2>2 DEF Others, LocalsOK, Current, Busy, OnRecord, Received
  <2>4. ThreadsOK'
    BY <1>1, <2>2, <2>3 DEF IntakeInv, ThreadsOK, Others
  <2> QED BY <2>1, <2>4 DEF IntakeInv
<1> QED BY <1>2, <1>3

LEMMA UploadKeeps ==
  ASSUME IntakeInv, NEW r \in Requests, NEW i \in Items, NEW d \in Documents, Upload(r, i, d) PROVE IntakeInv'
<1>1. CASE Serve /\ UNCHANGED apart
  BY <1>1, ServedStep DEF Upload, Serve
<1>2. CASE Begins(r, "sync", None, None, {})
  <2>1. Others(r) /\ ByItself(r) /\ Free(job[r].at)'
    BY <1>2, BeginsApart DEF IntakeInv, ThreadsOK, Held, Free
  <2> QED BY <2>1, FreeStep DEF Upload
<1> QED BY <1>1, <1>2 DEF Upload

LEMMA LaunchRequestKeeps ==
  ASSUME IntakeInv, NEW r \in Requests, NEW i \in Items, LaunchRequest(r, i) PROVE IntakeInv'
<1>1. Others(r) /\ ByItself(r) /\ Held(job'[r], "item", i, None, job[r].todo \ {i})
  BY GoesOn DEF LaunchRequest, IntakeInv, ThreadsOK, Serves, Busy, history
<1>2. LocalsOK(r)' /\ Current(r)'
  BY <1>1 DEF Held, LocalsOK, Current
<1> QED BY <1>1, <1>2, ThreadGoesOn DEF LaunchRequest, history

LEMMA LaunchItemKeeps == ASSUME IntakeInv, NEW r \in Requests, LaunchItem(r) PROVE IntakeInv'
<1>0. PICK i : i = job[r].row
  OBVIOUS
<1>1. i \in Items /\ Busy(r)
  BY <1>0 DEF LaunchItem, Serves, IntakeInv, ThreadsOK, LocalsOK, Busy
<1>2. Others(r) /\ ByItself(r) /\ Free(job[r].at)'
  <2>1. CASE Ends(r)
    BY <1>1, <2>1, ComesToAnEnd DEF LaunchItem, IntakeInv, ThreadsOK, history
  <2>2. CASE Goes(r, "launch", None, None, job[r].todo)
    BY <1>1, <2>2, GoesOn DEF LaunchItem, IntakeInv, ThreadsOK, history, Held, Free
  <2> QED BY <2>1, <2>2 DEF LaunchItem
<1>3. /\ checklist' \in [Items -> Rows] /\ checklist'[i] = [status |-> "missing", document |-> None]
      /\ \A j \in Items : j # i => checklist'[j] = checklist[j]
      /\ links' = links /\ apart' = apart /\ moved' = moved
  BY <1>0, <1>1 DEF LaunchItem, IntakeInv, FilesOK, RowsOK, Rows, history
<1>4. /\ missing' \in [Items -> [open : Nat, resolved : Nat]]
      /\ i \in Required => missing'[i].open = missing[i].open + 1
      /\ missing'[i].open >= missing[i].open /\ missing'[i].resolved = missing[i].resolved
      /\ \A j \in Items : j # i => missing'[j] = missing[j]
  BY <1>0, <1>1 DEF LaunchItem, IntakeInv, FilesOK, RowsOK
<1>5. SumsStay
  BY <1>1, <1>4, ItemAssumption DEF SumsStay, IntakeInv, FilesOK, RowsOK
<1>6. Recording
  BY <1>3, <1>5 DEF Recording, IntakeInv, FilesOK, LinksOK
<1>7. RowsOK'
  <2>1. OnRecord(i)'
    BY <1>1, <1>4 DEF OnRecord, IntakeInv, FilesOK, RowsOK
  <2> QED BY <1>3, <1>4, <2>1 DEF IntakeInv, FilesOK, RowsOK, OnRecord
<1>8. LinksOK'
  BY <1>3, <1>6, RecordedStays DEF IntakeInv, FilesOK, LinksOK, OnRecord
<1>9. ReceivedIsAccepted'
  BY <1>3 DEF IntakeInv, ChecklistHonest, ReceivedIsAccepted, Received
<1>10. MissingIsOnRecord'
  <2>1. i \in Required => missing'[i].open > 0
    BY <1>1, <1>4 DEF IntakeInv, FilesOK, RowsOK
  <2> QED BY <1>3, <1>4, <2>1, ItemAssumption DEF IntakeInv, ChecklistHonest, MissingIsOnRecord, Received
<1>11. ThreadsOK'
  BY <1>2, <1>6, FreeThread, IntakeThreads DEF IntakeInv
<1> QED BY <1>7, <1>8, <1>9, <1>10, <1>11 DEF IntakeInv, FilesOK, ChecklistHonest

LEMMA SyncReadKeeps == ASSUME IntakeInv, NEW r \in Requests, SyncRead(r) PROVE IntakeInv'
<1> DEFINE pairs == {<<i, requests[i].document>> : i \in Synced}
<1>1. Others(r) /\ ByItself(r) /\ Held(job'[r], "ingest", None, None, pairs)
  BY GoesOn DEF SyncRead, IntakeInv, ThreadsOK, Serves, Busy, history
<1>2. checklist' = checklist /\ missing' = missing /\ links' = links
  BY DEF SyncRead, files
<1>3. \A pair \in pairs : OnRecord(pair[1])
  BY DEF Synced, IntakeInv, FilesOK, RowsOK
<1>4. LocalsOK(r)' /\ Current(r)'
  BY <1>1, <1>2, <1>3 DEF Held, LocalsOK, Current, OnRecord
<1> QED BY <1>1, <1>4, ThreadGoesOn DEF SyncRead, history

LEMMA IngestReadKeeps ==
  ASSUME IntakeInv, NEW r \in Requests, NEW i \in Items, NEW d \in Documents, IngestRead(r, <<i, d>>)
  PROVE  IntakeInv'
<1> DEFINE rest == job[r].todo \ {<<i, d>>}
<1>1. checklist' = checklist /\ missing' = missing /\ links' = links /\ UNCHANGED <<apart, moved>> /\ Busy(r)
  BY DEF IngestRead, files, Serves, Busy, history
<1>2. OnRecord(i) /\ \A pair \in rest : OnRecord(pair[1])
  <2>1. \A pair \in job[r].todo : OnRecord(pair[1])
    BY DEF IngestRead, Serves, IntakeInv, ThreadsOK, LocalsOK
  <2>2. <<i, d>>[1] = i /\ <<i, d>> \in job[r].todo
    BY DEF IngestRead
  <2>3. OnRecord(<<i, d>>[1])
    BY <2>1, <2>2
  <2> QED BY <2>1, <2>2, <2>3
<1>3. CASE Goes(r, "ingest", None, None, rest)
  <2>1. Others(r) /\ ByItself(r) /\ Held(job'[r], "ingest", None, None, rest)
    BY <1>1, <1>3, GoesOn DEF IntakeInv, ThreadsOK
  <2>2. LocalsOK(r)' /\ Current(r)'
    BY <1>1, <1>2, <2>1 DEF Held, LocalsOK, Current, OnRecord
  <2> QED BY <2>1, <2>2, <1>1, ThreadGoesOn DEF files
<1>4. ASSUME NEW standing \in {"proposed", "accepted"}, Goes(r, "link", <<i, d>>, standing, rest) PROVE IntakeInv'
  <2>1. Others(r) /\ ByItself(r) /\ Held(job'[r], "link", <<i, d>>, standing, rest)
    BY <1>1, <1>4, GoesOn DEF IntakeInv, ThreadsOK
  <2>2. LocalsOK(r)' /\ Current(r)'
    BY <1>1, <1>2, <2>1 DEF Held, LocalsOK, Current, OnRecord
  <2> QED BY <2>1, <2>2, <1>1, ThreadGoesOn DEF files
<1> QED BY <1>3, <1>4 DEF IngestRead

LEMMA IngestWriteKeeps == ASSUME IntakeInv, NEW r \in Requests, IngestWrite(r) PROVE IntakeInv'
<1>1. PICK i, d, standing : i = job[r].row[1] /\ d = job[r].row[2] /\ standing = job[r].seen
  OBVIOUS
<1>2. /\ i \in Items /\ d \in Documents /\ standing \in {"proposed", "accepted"} /\ OnRecord(i) /\ Busy(r)
      /\ \A pair \in job[r].todo : OnRecord(pair[1])
  BY <1>1 DEF IngestWrite, Serves, IntakeInv, ThreadsOK, LocalsOK, Busy
<1>3. Goes(r, "ingest", None, None, job[r].todo) /\ UNCHANGED <<apart, moved>>
  BY DEF IngestWrite, history
<1>4. Others(r) /\ ByItself(r) /\ Held(job'[r], "ingest", None, None, job[r].todo)
  BY <1>2, <1>3, GoesOn DEF IntakeInv, ThreadsOK
<1>5. ASSUME Recording PROVE LocalsOK(r)' /\ Current(r)'
  BY <1>2, <1>4, <1>5, RecordedStays DEF Held, LocalsOK, Current
<1>6. CASE UNCHANGED files
  BY <1>3, <1>4, <1>5, <1>6, FilesStay, ThreadGoesOn DEF IntakeInv
<1>7. CASE ~UNCHANGED files
  <2>1. links' = Append(links, Link(d, i, standing)) /\ RowsOK /\ LinksOK /\ MissingIsOnRecord
    BY <1>1, <1>7 DEF IngestWrite, IntakeInv, FilesOK, ChecklistHonest
  <2>2. IF standing = "accepted" THEN Resolved(i, d) ELSE UNCHANGED <<checklist, missing>>
    BY <1>1, <1>7 DEF IngestWrite
  <2>3. RowsOK' /\ SumsStay /\ MissingIsOnRecord' /\ \A j \in Items : j # i => checklist'[j] = checklist[j]
    <3>1. CASE standing = "accepted"
      BY <1>2, <1>3, <2>1, <2>2, <3>1, Resolving
    <3>2. CASE standing # "accepted"
      BY <1>3, <2>1, <2>2, <3>2 DEF RowsOK, SumsStay, MissingIsOnRecord, OnRecord, Received
    <3> QED BY <3>1, <3>2
  <2>4. LinksOK' /\ Recording /\ links'[Len(links')] = Link(d, i, standing) /\ Len(links') \in 1..Len(links')
        /\ \A l \in 1..Len(links) : l \in 1..Len(links') /\ links'[l] = links[l]
    <3>1. standing \in LinkStatuses
      BY <1>2 DEF LinkStatuses
    <3>2. Len(links') \in 1..Len(links')
      BY <2>1 DEF LinksOK
    <3> QED BY <1>2, <2>1, <2>3, <3>1, <3>2, LinkAdded
  <2>5. ASSUME apart', ~moved', NEW j \in Items, Received(j)'
        PROVE  \E l \in 1..Len(links') : links'[l] = Link(checklist'[j].document, j, "accepted")
    <3>1. CASE standing = "accepted" /\ j = i
      <4>1. Resolved(i, d) /\ (apart' => apart)
        BY <1>3, <2>2, <3>1
      <4>2. checklist'[i] = [status |-> "received", document |-> d]
        BY <1>2, <2>1, <4>1, Resolving
      <4> QED BY <2>4, <3>1, <4>2
    <3>2. CASE standing # "accepted" \/ j # i
      <4>1. checklist'[j] = checklist[j]
        BY <2>2, <2>3, <3>2
      <4>2. PICK l \in 1..Len(links) : links[l] = Link(checklist[j].document, j, "accepted")
        BY <1>3, <2>5, <4>1 DEF IntakeInv, ChecklistHonest, ReceivedIsAccepted, Received
      <4> QED BY <2>4, <4>1, <4>2
    <3> QED BY <3>1, <3>2
  <2>6. ReceivedIsAccepted'
    BY <2>5 DEF ReceivedIsAccepted
  <2>7. ThreadsOK'
    BY <1>4, <1>5, <2>4, IntakeThreads DEF IntakeInv
  <2> QED BY <2>3, <2>4, <2>6, <2>7 DEF IntakeInv, FilesOK, ChecklistHonest
<1> QED BY <1>6, <1>7

LEMMA ComputeReadKeeps == ASSUME IntakeInv, NEW r \in Requests, ComputeRead(r) PROVE IntakeInv'
<1> DEFINE rows == {i \in Items : checklist[i] # None}
           found == [open |-> {i \in rows \cap Required : ~Satisfied(i) /\ missing[i].open = 0},
                     resolve |-> {i \in rows : Satisfied(i) /\ missing[i].open > 0}]
<1>1. Others(r) /\ ByItself(r) /\ Held(job'[r], "compute", None, found, {})
  BY GoesOn DEF ComputeRead, IntakeInv, ThreadsOK, Serves, Busy, history
<1>2. UNCHANGED files /\ checklist' = checklist /\ moved' = moved
  BY DEF ComputeRead, files, history
<1>3. \A i \in Items : i \in found.resolve => Received(i)
  BY DEF Satisfied
<1>4. LocalsOK(r)' /\ Current(r)'
  BY <1>1, <1>2, <1>3 DEF Held, LocalsOK, Current, Received
<1> QED BY <1>1, <1>2, <1>4, ThreadGoesOn

LEMMA ComputeWriteKeeps == ASSUME IntakeInv, NEW r \in Requests, ComputeWrite(r) PROVE IntakeInv'
<1>1. /\ Goes(r, "advance", None, None, {}) /\ job[r].at = "compute" /\ Busy(r)
      /\ checklist' = checklist /\ links' = links /\ apart' = apart /\ moved' = moved
  BY DEF ComputeWrite, history, Serves, Busy
<1>2. Others(r) /\ ByItself(r) /\ Free(job[r].at)'
  BY <1>1, GoesOn DEF IntakeInv, ThreadsOK, Held, Free
<1>3. /\ missing' \in [Items -> [open : Nat, resolved : Nat]]
      /\ \A i \in Items : missing'[i].open + missing'[i].resolved >= missing[i].open + missing[i].resolved
      /\ \A i \in Items : i \notin job[r].seen.resolve => missing'[i].open >= missing[i].open
  BY DEF ComputeWrite, IntakeInv, FilesOK, RowsOK
<1>4. SumsStay
  BY <1>3, ItemAssumption DEF SumsStay, IntakeInv, FilesOK, RowsOK
<1>5. Recording
  BY <1>1, <1>4 DEF Recording, IntakeInv, FilesOK, LinksOK
<1>6. RowsOK' /\ LinksOK'
  BY <1>1, <1>3, <1>5, RecordedStays DEF IntakeInv, FilesOK, RowsOK, LinksOK
<1>7. ReceivedIsAccepted'
  BY <1>1 DEF IntakeInv, ChecklistHonest, ReceivedIsAccepted, Received
<1>8. MissingIsOnRecord'
  <2>1. ASSUME apart', NEW i \in Required, checklist[i] # None, ~Received(i) PROVE missing'[i].open > 0
    <3>1. i \notin job[r].seen.resolve
      BY <1>1, <2>1, ItemAssumption DEF IntakeInv, ThreadsOK, Current
    <3>2. missing[i].open > 0
      BY <1>1, <2>1 DEF IntakeInv, ChecklistHonest, MissingIsOnRecord
    <3> QED BY <1>3, <3>1, <3>2, ItemAssumption DEF IntakeInv, FilesOK, RowsOK
  <2> QED BY <1>1, <2>1 DEF MissingIsOnRecord, Received
<1>9. ThreadsOK'
  BY <1>2, <1>5, FreeThread, IntakeThreads DEF IntakeInv
<1> QED BY <1>6, <1>7, <1>8, <1>9 DEF IntakeInv, FilesOK, ChecklistHonest

LEMMA ReviewReadKeeps ==
  ASSUME IntakeInv, NEW r \in Requests, NEW l \in 1..Len(links), NEW action \in Actions,
         NEW i \in Items \cup {None}, ReviewRead(r, l, action, i)
  PROVE  IntakeInv'
<1> DEFINE seen == [action |-> action, item |-> i, link |-> links[l]]
<1>1. Others(r) /\ ByItself(r) /\ Held(job'[r], "review", l, seen, {})
  BY BeginsApart DEF ReviewRead, IntakeInv, ThreadsOK
<1>2. UNCHANGED files /\ checklist' = checklist /\ missing' = missing /\ links' = links /\ moved' = moved
  BY DEF ReviewRead, files
<1>3. OnRecord(i) /\ OnRecord(links[l].item) /\ links[l] \in LinkRows
  BY ItemAssumption DEF ReviewRead, IntakeInv, FilesOK, RowsOK, LinksOK, OnRecord
<1>4. links[l].status \in AllowedFrom[action]
  BY DEF ReviewRead
<1>5. LocalsOK(r)'
  BY <1>1, <1>2, <1>3, <1>4 DEF Held, LocalsOK, OnRecord
<1>6. Current(r)'
  BY <1>1, <1>2 DEF Held, Current
<1> QED BY <1>1, <1>2, <1>5, <1>6, ThreadGoesOn

\* What a decision makes of a link: the row it writes, and the action it is.
Decided(action, old, item, row) ==
  \/ action = "accept" /\ row = [old EXCEPT !.status = "accepted"]
  \/ action = "reject" /\ row = [old EXCEPT !.status = "rejected"]
  \/ action = "reassign" /\ row.item = None /\ row.status = "proposed"
  \/ action = "classify" /\ row = [old EXCEPT !.item = item]
  \/ action = "duplicate" /\ row = [old EXCEPT !.status = "superseded"]
  \/ action = "revert" /\ row = [old EXCEPT !.status = "proposed"]

\* The links after a decision.
LEMMA DecisionWritten ==
  ASSUME IntakeInv, NEW r \in Requests, ReviewWrite(r), SumsStay
  PROVE  LinksOK' /\ Recording
         /\ Len(links') = Len(links)
         /\ Decided(job[r].seen.action, links[job[r].row], job[r].seen.item, links'[job[r].row])
         /\ \A m \in 1..Len(links) : m # job[r].row => links'[m] = links[m]
<1>1. PICK l, old, link, action, item :
        /\ l = job[r].row /\ old = links[l] /\ link = job[r].seen.link
        /\ action = job[r].seen.action /\ item = job[r].seen.item
  OBVIOUS
<1>2. /\ l \in 1..Len(links) /\ old \in LinkRows /\ OnRecord(old.item)
      /\ link \in LinkRows /\ OnRecord(link.item) /\ item \in Items \cup {None} /\ OnRecord(item)
      /\ LinksOK
  <2>1. job[r].at = "review" /\ LocalsOK(r) /\ LinksOK
    BY DEF ReviewWrite, Serves, IntakeInv, ThreadsOK, FilesOK
  <2>2. l \in 1..Len(links) /\ link \in LinkRows /\ OnRecord(link.item) /\ item \in Items \cup {None} /\ OnRecord(item)
    BY <1>1, <2>1 DEF LocalsOK
  <2> QED BY <1>1, <2>1, <2>2 DEF LinksOK
<1>3. OnRecord(None)
  BY ItemAssumption DEF OnRecord
<1>4. ASSUME NEW row \in LinkRows, OnRecord(row.item), links' = [links EXCEPT ![l] = row],
             Decided(action, old, item, row)
      PROVE  LinksOK' /\ Recording /\ Len(links') = Len(links)
             /\ Decided(action, old, item, links'[l])
             /\ \A m \in 1..Len(links) : m # l => links'[m] = links[m]
  BY <1>2, <1>4, LinkChanged
<1>5. CASE action = "accept"
  <2> DEFINE row == [old EXCEPT !.status = "accepted"]
  <2>1. row \in LinkRows /\ row.item = old.item
    BY <1>2 DEF LinkRows, LinkStatuses
  <2>2. links' = [links EXCEPT ![l] = row]
    BY <1>1, <1>5 DEF ReviewWrite
  <2> QED BY <1>1, <1>2, <1>4, <1>5, <2>1, <2>2 DEF Decided
<1>6. CASE action = "reject"
  <2> DEFINE row == [old EXCEPT !.status = "rejected"]
  <2>1. row \in LinkRows /\ row.item = old.item
    BY <1>2 DEF LinkRows, LinkStatuses
  <2>2. links' = [links EXCEPT ![l] = row]
    BY <1>1, <1>6 DEF ReviewWrite
  <2> QED BY <1>1, <1>2, <1>4, <1>6, <2>1, <2>2 DEF Decided
<1>7. CASE action = "reassign"
  <2> DEFINE row == Link(link.document, None, "proposed")
  <2>1. row \in LinkRows /\ row.item = None /\ row.status = "proposed"
    BY <1>2 DEF Link, LinkRows, LinkStatuses
  <2>2. links' = [links EXCEPT ![l] = row]
    BY <1>1, <1>7 DEF ReviewWrite
  <2> QED BY <1>1, <1>2, <1>3, <1>4, <1>7, <2>1, <2>2 DEF Decided
<1>8. CASE action = "classify"
  <2> DEFINE row == [old EXCEPT !.item = item]
  <2>1. row \in LinkRows /\ row.item = item
    BY <1>2 DEF LinkRows, LinkStatuses
  <2>2. links' = [links EXCEPT ![l] = row]
    BY <1>1, <1>8 DEF ReviewWrite
  <2> QED BY <1>1, <1>2, <1>4, <1>8, <2>1, <2>2 DEF Decided
<1>9. CASE action = "duplicate"
  <2> DEFINE row == [old EXCEPT !.status = "superseded"]
  <2>1. row \in LinkRows /\ row.item = old.item
    BY <1>2 DEF LinkRows, LinkStatuses
  <2>2. links' = [links EXCEPT ![l] = row]
    BY <1>1, <1>9 DEF ReviewWrite
  <2> QED BY <1>1, <1>2, <1>4, <1>9, <2>1, <2>2 DEF Decided
<1>10. CASE action = "revert"
  <2> DEFINE row == [old EXCEPT !.status = "proposed"]
  <2>1. row \in LinkRows /\ row.item = old.item
    BY <1>2 DEF LinkRows, LinkStatuses
  <2>2. links' = [links EXCEPT ![l] = row]
    BY <1>1, <1>10 DEF ReviewWrite
  <2> QED BY <1>1, <1>2, <1>4, <1>10, <2>1, <2>2 DEF Decided
<1> QED BY <1>1, <1>5, <1>6, <1>7, <1>8, <1>9, <1>10 DEF ReviewWrite

\* The item of the link is received, given back, or as it was.
LEMMA DecisionOnItem ==
  ASSUME IntakeInv, NEW r \in Requests, ReviewWrite(r), NEW action, NEW link,
         action = job[r].seen.action, link = job[r].seen.link
  PROVE  /\ RowsOK' /\ SumsStay /\ MissingIsOnRecord'
         /\ \A j \in Items : /\ j = link.item /\ action = "revert" => ~Received(j)'
                             /\ j = link.item /\ action = "accept" => checklist'[j].document = link.document
                             /\ j # link.item \/ action \notin {"accept", "revert"} => checklist'[j] = checklist[j]
<1>1. /\ link.item \in Items \cup {None} /\ link.document \in Documents /\ OnRecord(link.item)
      /\ RowsOK /\ MissingIsOnRecord /\ apart' = apart
  BY DEF ReviewWrite, Serves, IntakeInv, ThreadsOK, LocalsOK, FilesOK, LinkRows, ChecklistHonest
<1>2. CASE UNCHANGED <<checklist, missing>> /\ (link.item = None \/ action \notin {"accept", "revert"})
  <2>1. checklist' = checklist /\ missing' = missing
    BY <1>2
  <2>2. RowsOK' /\ SumsStay
    BY <1>1, <2>1 DEF RowsOK, SumsStay, OnRecord
  <2>3. MissingIsOnRecord'
    BY <1>1, <2>1 DEF MissingIsOnRecord, Received
  <2> QED BY <1>2, <2>1, <2>2, <2>3, ItemAssumption
<1>3. CASE action = "accept" /\ link.item # None /\ Resolved(link.item, link.document)
  <2>1. PICK i \in Items, d \in Documents : i = link.item /\ d = link.document
    BY <1>1, <1>3
  <2>2. OnRecord(i) /\ Resolved(i, d)
    BY <1>1, <1>3, <2>1
  <2>3. /\ RowsOK' /\ SumsStay /\ MissingIsOnRecord'
        /\ checklist'[i] = [status |-> "received", document |-> d]
        /\ \A j \in Items : j # i => checklist'[j] = checklist[j]
    BY <1>1, <2>2, Resolving
  <2>4. checklist'[i].document = d
    BY <2>3
  <2> QED BY <1>3, <2>1, <2>3, <2>4
<1>4. CASE action = "revert" /\ link.item # None /\ Reverted(link.item)
  <2>1. PICK i \in Items : i = link.item
    BY <1>1, <1>4
  <2>2. OnRecord(i) /\ Reverted(i)
    BY <1>1, <1>4, <2>1
  <2>3. /\ RowsOK' /\ SumsStay /\ MissingIsOnRecord' /\ ~Received(i)'
        /\ \A j \in Items : j # i => checklist'[j] = checklist[j]
    BY <1>1, <2>2, Reverting
  <2>4. \A j \in Items : j = i => ~Received(j)'
    BY <2>3
  <2> QED BY <1>4, <2>1, <2>3, <2>4
<1> QED BY <1>2, <1>3, <1>4 DEF ReviewWrite

LEMMA ReviewWriteKeeps == ASSUME IntakeInv, NEW r \in Requests, ReviewWrite(r) PROVE IntakeInv'
<1>1. PICK l, old, link, action, item :
        /\ l = job[r].row /\ old = links[l] /\ link = job[r].seen.link
        /\ action = job[r].seen.action /\ item = job[r].seen.item
  OBVIOUS
<1>2. /\ l \in 1..Len(links) /\ link \in LinkRows /\ action \in Actions /\ link.status \in AllowedFrom[action]
      /\ (apart => link = old) /\ Busy(r) /\ job[r].at = "review"
  BY <1>1 DEF ReviewWrite, Serves, IntakeInv, ThreadsOK, LocalsOK, Current, Busy
<1>3. Ends(r) /\ apart' = apart /\ (~moved' => ~moved /\ ~(action = "classify" /\ link.status = "accepted"))
  BY <1>1 DEF ReviewWrite
<1>4. Others(r) /\ ByItself(r) /\ Free(job[r].at)'
  BY <1>2, <1>3, ComesToAnEnd DEF IntakeInv, ThreadsOK
<1>5. RowsOK' /\ SumsStay /\ MissingIsOnRecord'
  BY DecisionOnItem
<1>6. \A j \in Items : /\ j = link.item /\ action = "revert" => ~Received(j)'
                       /\ j = link.item /\ action = "accept" => checklist'[j].document = link.document
                       /\ j # link.item \/ action \notin {"accept", "revert"} => checklist'[j] = checklist[j]
  BY <1>1, DecisionOnItem
<1>7. LinksOK' /\ Recording /\ Len(links') = Len(links) /\ Decided(action, old, item, links'[l])
      /\ \A m \in 1..Len(links) : m # l => links'[m] = links[m]
  BY <1>1, <1>5, DecisionWritten
<1>8. ASSUME apart', ~moved', NEW j \in Items, Received(j)'
      PROVE  \E m \in 1..Len(links') : links'[m] = Link(checklist'[j].document, j, "accepted")
  <2>1. link = old
    BY <1>2, <1>3, <1>8
  <2>2. CASE ~(j = link.item /\ action = "accept")
    <3>1. checklist'[j] = checklist[j] /\ ~(j = link.item /\ action = "revert")
      BY <1>6, <1>8, <2>2
    <3>2. PICK m \in 1..Len(links) : links[m] = Link(checklist[j].document, j, "accepted")
      BY <1>3, <1>8, <3>1 DEF IntakeInv, ChecklistHonest, ReceivedIsAccepted, Received
    <3>3. CASE m # l
      BY <1>7, <3>1, <3>2, <3>3
    <3>4. CASE m = l
      <4>1. old.item = j /\ old.status = "accepted"
        BY <1>1, <3>2, <3>4 DEF Link
      <4>2. action = "revert"
        BY <1>2, <1>3, <1>8, <2>1, <4>1 DEF Actions, AllowedFrom
      <4> QED BY <2>1, <3>1, <4>1, <4>2
    <3> QED BY <3>3, <3>4
  <2>3. CASE j = link.item /\ action = "accept"
    <3>1. checklist'[j].document = link.document
      BY <1>6, <2>3
    <3>2. links'[l] = Link(link.document, j, "accepted")
      BY <1>2, <1>7, <2>1, <2>3 DEF Decided, Link, LinkRows
    <3> QED BY <1>2, <1>7, <3>1, <3>2
  <2> QED BY <2>2, <2>3
<1>9. ReceivedIsAccepted'
  BY <1>8 DEF ReceivedIsAccepted
<1>10. ThreadsOK'
  BY <1>4, <1>7, FreeThread, IntakeThreads DEF IntakeInv
<1> QED BY <1>5, <1>7, <1>9, <1>10 DEF IntakeInv, FilesOK, ChecklistHonest

LEMMA IntakeSteps == IntakeInv /\ [IntakeNext]_intakeVars => IntakeInv'
<1> SUFFICES ASSUME IntakeInv, [IntakeNext]_intakeVars PROVE IntakeInv'
  OBVIOUS
<1>1. CASE UNCHANGED intakeVars
  BY <1>1, ServedStep DEF intakeVars, files, requestVars
<1>2. ASSUME NEW r \in Requests, NEW i \in Items, NEW standing \in {"approved", "rejected"}, Decide(i, standing)
      PROVE  IntakeInv'
  BY <1>2, ServedStep DEF Decide, Serve, history
<1>3. CASE IntakeNext
  BY <1>2, <1>3, FreeSteps, CrashKeeps, UploadKeeps, LaunchRequestKeeps, LaunchItemKeeps, SyncReadKeeps,
     IngestReadKeeps, IngestWriteKeeps, ComputeReadKeeps, ComputeWriteKeeps, ReviewReadKeeps, ReviewWriteKeeps
     DEF IntakeNext
<1> QED BY <1>1, <1>3

\* While requests are served one after the other, wherever they die, a received
\* item has an accepted document of its own, unless an accepted link has been
\* classified anew, and a required item that is not received is on record as
\* missing: review_action, _ingest and compute_missing agree on it.
THEOREM ChecklistsHold == IntakeSpec => []ChecklistHonest
<1>1. IntakeInv => ChecklistHonest
  BY DEF IntakeInv
<1> QED BY <1>1, IntakeStart, IntakeSteps, PTL DEF IntakeSpec

----------------------------------------------------------------------------
(* The reminders of licenses and education *)

ReminderRows == [of : Credentials, status : Exceptions!Statuses, due : EndDates \cup {None}]
CredentialRows == [status : CredentialStatuses, end : EndDates \cup {None}] \cup {None}

OneEach ==
  \A n, m \in DOMAIN reminders : Due(n) /\ Due(m) /\ reminders[n].of = reminders[m].of => n = m

RemindersOK == reminders \in Seq(ReminderRows) /\ OneEach

HasReminder(x) == \E n \in Remembers(x) : Due(n)

\* A family of which the reminders are those that are called for.
Done(kind) == \A x \in Credentials : KindOf[x] = kind => (HasReminder(x) <=> Ending(x))

\* What a scan carries from one of its transactions to the next ...
ScanLocals(r) ==
  job[r].at = "remind" => \A p \in job[r].todo : p[1] \in Credentials /\ p[2] \in EndDates \cup {None}

\* ... and how far it is, if nothing has disturbed it.
ScanOK(r) ==
  /\ job[r].at \in {"ends", "remind"} =>
       job[r].row \in Families /\ (job[r].row = "education" => Done("license"))
  /\ job[r].at = "remind" =>
       /\ \A x \in Credentials : x \in job[r].seen <=> KindOf[x] = job[r].row /\ Ending(x)
       /\ \A p \in job[r].todo : p[1] \in job[r].seen
       /\ \A x \in Credentials : x \in job[r].seen => HasReminder(x) \/ \E p \in job[r].todo : p[1] = x
  /\ job[r].at = "report" => Done("license") /\ Done("education")

\* Undisturbed scans are undisturbed together.
EvenOK ==
  /\ current \/ even # {} => \A q \in Requests : ~Waits(q) => q \in even
  /\ \A r \in Requests : r \in even => ScanOK(r)
  /\ current => Done("license") /\ Done("education")

\* The snapshots of scans under way are of rows that still exist.
SnapshotsOK ==
  /\ before = [r \in Requests |-> before[r]]
  /\ \A r \in Requests : DOMAIN before[r] \subseteq DOMAIN reminders

LicensingInv ==
  /\ credentials \in [Credentials -> CredentialRows]
  /\ RemindersOK
  /\ Threads /\ \A r \in Requests : ScanLocals(r)
  /\ EvenOK /\ SnapshotsOK /\ CountsAddUp

\* What a step does to the reminders when it acts on the conditions as they are.
Called ==
  \A x \in Credentials : /\ HasReminder(x) /\ Ending(x) => HasReminder(x)'
                         /\ HasReminder(x)' => HasReminder(x) \/ Ending(x)

----------------------------------------------------------------------------
(* The counts *)

\* Two snapshots, the second of at least the rows of the first, differ in the
\* number of active rows by what the counts say.
LEMMA DeltaAddsUp ==
  ASSUME NEW old, NEW new, IsFiniteSet(DOMAIN new), DOMAIN old \subseteq DOMAIN new
  PROVE  LET d == Delta(old, new)
         IN  d.opened + d.reopened - d.resolved = Cardinality(ActiveIn(new)) - Cardinality(ActiveIn(old))
<1> DEFINE A == ActiveIn(new)
           B == ActiveIn(old)
           opened == A \ DOMAIN old
           reopened == A \cap (DOMAIN old \ B)
           resolved == B \cap (DOMAIN new \ A)
           both == A \cap B
<1>1. /\ A \subseteq DOMAIN new /\ B \subseteq DOMAIN old
      /\ A = opened \cup (reopened \cup both) /\ opened \cap (reopened \cup both) = {}
      /\ reopened \cap both = {}
      /\ B = resolved \cup both /\ resolved \cap both = {}
  BY DEF ActiveIn
<1>2. /\ IsFiniteSet(A) /\ IsFiniteSet(B) /\ IsFiniteSet(opened) /\ IsFiniteSet(reopened)
      /\ IsFiniteSet(resolved) /\ IsFiniteSet(both) /\ IsFiniteSet(reopened \cup both)
  <2>1. /\ A \in SUBSET DOMAIN new /\ B \in SUBSET DOMAIN new /\ opened \in SUBSET DOMAIN new
        /\ reopened \in SUBSET DOMAIN new /\ resolved \in SUBSET DOMAIN new /\ both \in SUBSET DOMAIN new
        /\ (reopened \cup both) \in SUBSET DOMAIN new
    BY <1>1
  <2> HIDE DEF A, B, opened, reopened, resolved, both
  <2> QED BY <2>1, FS_Subset
<1> HIDE DEF A, B, opened, reopened, resolved, both
<1>3. Cardinality({}) = 0
  BY FS_EmptySet
<1>4. Cardinality(A) = Cardinality(opened) + Cardinality(reopened \cup both) - Cardinality({})
  BY <1>1, <1>2, FS_Union
<1>5. Cardinality(reopened \cup both) = Cardinality(reopened) + Cardinality(both) - Cardinality({})
  BY <1>1, <1>2, FS_Union
<1>6. Cardinality(B) = Cardinality(resolved) + Cardinality(both) - Cardinality({})
  BY <1>1, <1>2, FS_Union
<1>7. /\ Cardinality(opened) \in Nat /\ Cardinality(reopened) \in Nat /\ Cardinality(resolved) \in Nat
      /\ Cardinality(both) \in Nat
  BY <1>2, FS_CardinalityType
<1>8. Cardinality(opened) + Cardinality(reopened) - Cardinality(resolved) = Cardinality(A) - Cardinality(B)
  BY <1>3, <1>4, <1>5, <1>6, <1>7
<1>9. Delta(old, new) = [opened |-> Cardinality(opened), reopened |-> Cardinality(reopened),
                         resolved |-> Cardinality(resolved)]
  BY DEF Delta, A, B, opened, reopened, resolved
<1> QED BY <1>8, <1>9 DEF A, B

----------------------------------------------------------------------------
(* The reminders *)

\* Among the resolved reminders of a credential there is a latest.
LEMMA LatestExists ==
  ASSUME NEW k \in Nat, NEW S \in SUBSET (1..k), S # {} PROVE Numbers!Max(S) \in S
<1> DEFINE T == {k - n : n \in S}
<1>1. T \subseteq Nat /\ T # {}
  <2>1. \A n \in S : k - n \in Nat
    OBVIOUS
  <2> QED BY <2>1
<1>2. PICK e \in T : \A f \in T : <<f, e>> \notin OpToRel(<, Nat)
  BY <1>1, WFMin, NatLessThanWellFounded, Zenon
<1>3. \A f \in T : ~ (f < e)
  BY <1>1, <1>2, Zenon DEF OpToRel
<1>4. PICK n \in S : e = k - n
  OBVIOUS
<1>5. \A m \in S : n >= m
  <2> SUFFICES ASSUME NEW m \in S PROVE n >= m
    OBVIOUS
  <2>1. ~ (k - m < k - n)
    BY <1>3, <1>4
  <2> QED BY <2>1
<1> QED BY <1>4, <1>5 DEF Numbers!Max

LEMMA ActiveStatuses ==
  /\ Exceptions!ACTIVE_STATUSES \subseteq Exceptions!Statuses
  /\ "open" \in Exceptions!ACTIVE_STATUSES /\ "reopened" \in Exceptions!ACTIVE_STATUSES
  /\ "resolved" \in Exceptions!Statuses /\ "resolved" \notin Exceptions!ACTIVE_STATUSES
  /\ Exceptions!CLOSED_STATUSES \subseteq Exceptions!Statuses
  /\ \A s \in Exceptions!CLOSED_STATUSES : s \notin Exceptions!ACTIVE_STATUSES
BY DEF Exceptions!ACTIVE_STATUSES, Exceptions!CLOSED_STATUSES, Exceptions!Statuses

\* The reminders after a step: as many at least, one active one each.
After == RemindersOK' /\ DOMAIN reminders \subseteq DOMAIN reminders'

LEMMA RaisedReminder ==
  ASSUME RemindersOK, NEW x \in Credentials, NEW end \in EndDates \cup {None}, reminders' = RaisedFor(x, end)
  PROVE  After /\ HasReminder(x)' /\ \A y \in Credentials : y # x => (HasReminder(y)' <=> HasReminder(y))
<1> DEFINE done == {n \in Remembers(x) : reminders[n].status = "resolved"}
<1>1. CASE HasReminder(x)
  <2>1. reminders' = reminders
    BY <1>1 DEF RaisedFor, HasReminder
  <2> QED BY <1>1, <2>1 DEF After, RemindersOK, OneEach, HasReminder, Remembers, Due
<1>2. CASE ~HasReminder(x) /\ done # {}
  <2>1. PICK n \in done : reminders' = [reminders EXCEPT ![n].status = "reopened"]
    <3>1. done \in SUBSET (1..Len(reminders)) /\ Len(reminders) \in Nat
      BY DEF Remembers, RemindersOK
    <3>2. Numbers!Max(done) \in done
      BY <1>2, <3>1, LatestExists
    <3> QED BY <1>2, <3>2 DEF RaisedFor, HasReminder
  <2>2. n \in DOMAIN reminders /\ reminders[n].of = x
    BY DEF Remembers
  <2>3. /\ reminders' \in Seq(ReminderRows) /\ DOMAIN reminders' = DOMAIN reminders
        /\ reminders'[n].status = "reopened" /\ reminders'[n].of = x
        /\ \A m \in DOMAIN reminders : m # n => reminders'[m] = reminders[m]
    <3> DEFINE row == [reminders[n] EXCEPT !.status = "reopened"]
    <3>1. reminders[n] \in ReminderRows
      BY <2>2 DEF RemindersOK
    <3>2. row \in ReminderRows /\ row.status = "reopened" /\ row.of = reminders[n].of
      BY <3>1, ActiveStatuses DEF ReminderRows
    <3>3. reminders' = [reminders EXCEPT ![n] = row]
      BY <2>1
    <3> HIDE DEF row
    <3> QED BY <2>2, <3>2, <3>3 DEF RemindersOK
  <2>4. Due(n)' /\ \A m \in DOMAIN reminders : m # n => (Due(m)' <=> Due(m)) /\ reminders'[m].of = reminders[m].of
    BY <2>3, ActiveStatuses DEF Due
  <2>5. OneEach'
    BY <1>2, <2>2, <2>3, <2>4 DEF OneEach, RemindersOK, HasReminder, Remembers
  <2>6. HasReminder(x)'
    BY <2>2, <2>3, <2>4 DEF HasReminder, Remembers
  <2>7. \A y \in Credentials : y # x => (HasReminder(y)' <=> HasReminder(y))
    BY <2>2, <2>3, <2>4 DEF HasReminder, Remembers
  <2> QED BY <2>3, <2>5, <2>6, <2>7 DEF After, RemindersOK
<1>3. CASE ~HasReminder(x) /\ done = {}
  <2> DEFINE row == [of |-> x, status |-> "open", due |-> end]
             n == Len(reminders) + 1
  <2>1. reminders' = Append(reminders, row) /\ row \in ReminderRows
    BY <1>3, ActiveStatuses DEF RaisedFor, HasReminder, ReminderRows
  <2>2. /\ reminders' \in Seq(ReminderRows) /\ DOMAIN reminders' = DOMAIN reminders \cup {n}
        /\ n \notin DOMAIN reminders /\ reminders'[n] = row
        /\ \A m \in DOMAIN reminders : reminders'[m] = reminders[m]
    BY <2>1 DEF RemindersOK
  <2> HIDE DEF n
  <2>3. reminders'[n].of = x /\ reminders'[n].status \in Exceptions!ACTIVE_STATUSES
    BY <2>2, ActiveStatuses
  <2>4. \A m \in DOMAIN reminders : (Due(m)' <=> Due(m)) /\ reminders'[m].of = reminders[m].of
    BY <2>2 DEF Due
  <2>5. OneEach'
    BY <1>3, <2>2, <2>3, <2>4 DEF OneEach, RemindersOK, HasReminder, Remembers
  <2>6. HasReminder(x)'
    BY <2>2, <2>3 DEF HasReminder, Remembers, Due
  <2>7. \A y \in Credentials : y # x => (HasReminder(y)' <=> HasReminder(y))
    BY <2>2, <2>3, <2>4 DEF HasReminder, Remembers
  <2> QED BY <2>2, <2>5, <2>6, <2>7 DEF After, RemindersOK
<1> QED BY <1>1, <1>2, <1>3

LEMMA ClearedReminders ==
  ASSUME RemindersOK, NEW r \in Requests,
         reminders' = [n \in DOMAIN reminders |->
                         IF n \in Cleared(r) THEN [reminders[n] EXCEPT !.status = "resolved"] ELSE reminders[n]]
  PROVE  /\ After
         /\ \A y \in Credentials :
              HasReminder(y)' <=> HasReminder(y) /\ ~(KindOf[y] = job[r].row /\ y \notin job[r].seen)
<1>1. /\ reminders' \in Seq(ReminderRows) /\ DOMAIN reminders' = DOMAIN reminders
  <2>1. ASSUME NEW n \in DOMAIN reminders
        PROVE  [reminders[n] EXCEPT !.status = "resolved"] \in ReminderRows /\ reminders[n] \in ReminderRows
    <3>1. reminders[n] \in ReminderRows
      BY DEF RemindersOK
    <3> QED BY <3>1, ActiveStatuses DEF ReminderRows
  <2>2. DOMAIN reminders = 1..Len(reminders) /\ Len(reminders) \in Nat
    BY DEF RemindersOK
  <2>3. \A n \in DOMAIN reminders : reminders'[n] \in ReminderRows
    BY <2>1
  <2>4. reminders' \in [1..Len(reminders) -> ReminderRows]
    BY <2>2, <2>3
  <2> QED BY <2>2, <2>4
<1>2. \A n \in DOMAIN reminders : reminders'[n].of = reminders[n].of
  BY DEF RemindersOK, ReminderRows
<1>3. \A n \in DOMAIN reminders : Due(n)' <=> Due(n) /\ n \notin Cleared(r)
  BY ActiveStatuses DEF RemindersOK, ReminderRows, Due, Cleared
<1>4. OneEach'
  BY <1>1, <1>2, <1>3 DEF OneEach, RemindersOK
<1>5. \A y \in Credentials :
        HasReminder(y)' <=> HasReminder(y) /\ ~(KindOf[y] = job[r].row /\ y \notin job[r].seen)
  BY <1>1, <1>2, <1>3 DEF HasReminder, Remembers, Cleared, OneEach, RemindersOK
<1> QED BY <1>1, <1>4, <1>5 DEF After, RemindersOK

----------------------------------------------------------------------------

\* One of the reminders of a credential is active, or none.
LEMMA OneOrNone ==
  ASSUME RemindersOK, NEW x \in Credentials
  PROVE  Cardinality({n \in Remembers(x) : Due(n)}) = IF HasReminder(x) THEN 1 ELSE 0
<1> DEFINE S == {n \in Remembers(x) : Due(n)}
<1>1. CASE HasReminder(x)
  <2>1. PICK n : n \in S
    BY <1>1 DEF HasReminder
  <2>2. \A m \in S : m = n
    BY <2>1 DEF RemindersOK, OneEach, Remembers
  <2>3. S = {n}
    BY <2>1, <2>2
  <2> QED BY <1>1, <2>3, FS_Singleton
<1>2. CASE ~HasReminder(x)
  <2>1. S = {}
    BY <1>2 DEF HasReminder
  <2> QED BY <1>2, <2>1, FS_EmptySet
<1> QED BY <1>1, <1>2

LEMMA InvTells == LicensingInv => ScansHonest
<1> SUFFICES ASSUME LicensingInv PROVE ScansHonest
  OBVIOUS
<1>1. KindOf \in [Credentials -> {"license", "education"}]
  BY KindAssumption
<1>2. ASSUME current, NEW x \in Credentials PROVE HasReminder(x) <=> Ending(x)
  BY <1>1, <1>2 DEF LicensingInv, EvenOK, Done
<1>3. RemindersAgree
  BY <1>2, OneOrNone DEF RemindersAgree, LicensingInv
<1> QED BY <1>3 DEF ScansHonest, LicensingInv

LEMMA LicensingStart == LicensingInit => LicensingInv
<1> SUFFICES ASSUME LicensingInit PROVE LicensingInv
  OBVIOUS
<1>1. credentials \in [Credentials -> CredentialRows]
  BY DEF LicensingInit, CredentialRows
<1>2. RemindersOK
  BY DEF LicensingInit, RemindersOK, OneEach
<1>3. Threads /\ \A r \in Requests : job[r].at = "idle"
  BY DEF LicensingInit, RequestInit, Threads, Idle
<1>4. EvenOK
  BY DEF LicensingInit, EvenOK
<1>5. SnapshotsOK
  BY DEF LicensingInit, SnapshotsOK
<1>6. CountsAddUp
  BY DEF LicensingInit, CountsAddUp
<1> QED BY <1>1, <1>2, <1>3, <1>4, <1>5, <1>6 DEF LicensingInv, ScanLocals

\* The snapshots that no step takes or drops are of rows that still exist.
LEMMA SnapshotsStay ==
  ASSUME SnapshotsOK, before' = before, DOMAIN reminders \subseteq DOMAIN reminders' PROVE SnapshotsOK'
BY DEF SnapshotsOK

\* Whatever may change disturbs the scans.
LEMMA UpsetKeeps ==
  ASSUME LicensingInv, Upset, UNCHANGED reports, credentials' \in [Credentials -> CredentialRows], After,
         \/ UNCHANGED job /\ UNCHANGED before
         \/ \E r \in Requests : Ends(r) /\ before' = [before EXCEPT ![r] = <<>>]
  PROVE  LicensingInv'
<1>1. EvenOK'
  BY DEF Upset, EvenOK
<1>2. CountsAddUp'
  BY DEF LicensingInv, CountsAddUp
<1>3. CASE UNCHANGED job /\ UNCHANGED before
  <2>1. SnapshotsOK'
    BY <1>3, SnapshotsStay DEF LicensingInv, After
  <2>2. Threads' /\ \A r \in Requests : ScanLocals(r)'
    BY <1>3 DEF LicensingInv, Threads, ScanLocals
  <2> QED BY <1>1, <1>2, <2>1, <2>2 DEF LicensingInv, After
<1>4. ASSUME NEW r \in Requests, Ends(r), before' = [before EXCEPT ![r] = <<>>] PROVE LicensingInv'
  <2>1. SnapshotsOK'
    BY <1>4 DEF LicensingInv, SnapshotsOK, After
  <2>2. Others(r) /\ job'[r].at = "idle"
    BY <1>4, EndSteps DEF LicensingInv
  <2>3. Threads' /\ \A q \in Requests : ScanLocals(q)'
    BY <2>2 DEF LicensingInv, Others, ScanLocals
  <2> QED BY <1>1, <1>2, <2>1, <2>3 DEF LicensingInv, After
<1> QED BY <1>3, <1>4

LEMMA RemindersStay == ASSUME RemindersOK, reminders' = reminders PROVE After
BY DEF After, RemindersOK, OneEach, Due

\* A step of a scan that is under way, and goes on.
LEMMA ScanGoesOn ==
  ASSUME LicensingInv, NEW r \in Requests, Others(r), ~Waits(r), After,
         UNCHANGED <<credentials, before, reports, evenness, scanDay>>,
         ScanLocals(r)', r \in even => Called /\ ScanOK(r)'
  PROVE  LicensingInv'
<1>1. credentials' = credentials /\ before' = before /\ reports' = reports
      /\ even' = even /\ current' = current /\ scanDay' = scanDay
  BY DEF evenness
<1>2. SnapshotsOK' /\ CountsAddUp'
  BY <1>1, SnapshotsStay DEF LicensingInv, After, CountsAddUp
<1>3. Threads' /\ \A q \in Requests : ScanLocals(q)'
  BY DEF LicensingInv, Others, ScanLocals
<1>4. EvenOK'
  <2>1. CASE r \notin even
    BY <1>1, <2>1 DEF LicensingInv, EvenOK
  <2>2. CASE r \in even
    <3>1. \A x \in Credentials : Ending(x)' <=> Ending(x)
      BY <1>1 DEF Ending, Reminded
    <3>2. \A kind : Done(kind) => Done(kind)'
      BY <2>2, <3>1 DEF Done, Called
    <3>3. ASSUME NEW q \in Requests, q # r, q \in even PROVE ScanOK(q)'
      <4>1. job'[q] = job[q] /\ ScanOK(q)
        BY <3>3 DEF Others, LicensingInv, EvenOK
      <4>2. \A x \in Credentials : KindOf[x] = job[q].row /\ Ending(x) /\ HasReminder(x) => HasReminder(x)'
        BY <2>2 DEF Called
      <4> QED BY <3>1, <3>2, <4>1, <4>2 DEF ScanOK
    <3>4. \A q \in Requests : ~Waits(q)' => q \in even
      BY <2>2 DEF LicensingInv, EvenOK, Others, Waits
    <3> QED BY <1>1, <2>2, <3>2, <3>3, <3>4 DEF LicensingInv, EvenOK
  <2> QED BY <2>1, <2>2
<1> QED BY <1>1, <1>2, <1>3, <1>4 DEF LicensingInv, After

----------------------------------------------------------------------------

LEMMA RecordKeeps ==
  ASSUME LicensingInv, NEW x \in Credentials, NEW standing \in CredentialStatuses, NEW end \in EndDates \cup {None},
         Record(x, standing, end)
  PROVE  LicensingInv'
<1>1. credentials' \in [Credentials -> CredentialRows]
  <2>1. [status |-> standing, end |-> end] \in CredentialRows
    BY DEF CredentialRows
  <2> QED BY <2>1 DEF Record, LicensingInv
<1>2. After
  BY RemindersStay DEF Record, LicensingInv
<1> QED BY <1>1, <1>2, UpsetKeeps DEF Record, Serve

LEMMA UpdateKept ==
  ASSUME LicensingInv, NEW x \in Credentials, NEW standing \in CredentialStatuses \cup {None},
         NEW end \in EndDates \cup {None}, Update(x, standing, end)
  PROVE  LicensingInv'
<1>1. credentials' \in [Credentials -> CredentialRows]
  <2>1. credentials[x] \in [status : CredentialStatuses, end : EndDates \cup {None}]
    BY DEF Update, LicensingInv, CredentialRows
  <2>2. [status |-> IF standing = None THEN credentials[x].status ELSE standing,
         end |-> IF end = None THEN credentials[x].end ELSE end] \in CredentialRows
    BY <2>1 DEF CredentialRows
  <2> QED BY <2>2 DEF Update, LicensingInv
<1>2. After
  BY RemindersStay DEF Update, LicensingInv
<1> QED BY <1>1, <1>2, UpsetKeeps DEF Update, Serve

LEMMA SettleKeeps ==
  ASSUME LicensingInv, NEW n \in DOMAIN reminders, NEW to \in Exceptions!CLOSED_STATUSES, Settle(n, to)
  PROVE  LicensingInv'
<1>1. [reminders[n] EXCEPT !.status = to] \in ReminderRows
  <2>1. reminders[n] \in ReminderRows
    BY DEF LicensingInv, RemindersOK
  <2> QED BY <2>1, ActiveStatuses DEF ReminderRows
<1>2. /\ reminders' \in Seq(ReminderRows) /\ DOMAIN reminders' = DOMAIN reminders
      /\ \A m \in DOMAIN reminders : m # n => reminders'[m] = reminders[m]
      /\ reminders'[n] = [reminders[n] EXCEPT !.status = to]
  BY <1>1 DEF Settle, LicensingInv, RemindersOK
<1>3. ~Due(n)'
  <2>1. reminders[n] \in ReminderRows
    BY DEF LicensingInv, RemindersOK
  <2>2. reminders'[n].status = to
    BY <1>2, <2>1 DEF ReminderRows
  <2> QED BY <2>2, ActiveStatuses DEF Due
<1>4. After
  BY <1>2, <1>3 DEF After, LicensingInv, RemindersOK, OneEach, Due
<1> QED BY <1>4, UpsetKeeps DEF Settle, Serve, LicensingInv

LEMMA RestKeeps ==
  ASSUME LicensingInv, ScanDayEnds \/ \E r \in Requests : LicensingCrash(r) PROVE LicensingInv'
<1>1. After
  BY RemindersStay DEF ScanDayEnds, LicensingCrash, LicensingInv
<1>2. CASE ScanDayEnds
  BY <1>1, <1>2, UpsetKeeps DEF ScanDayEnds, LicensingInv, requestVars
<1>3. ASSUME NEW r \in Requests, LicensingCrash(r) PROVE LicensingInv'
  BY <1>1, <1>3, UpsetKeeps DEF LicensingCrash, Dies, LicensingInv
<1> QED BY <1>2, <1>3

LEMMA ReadEndingsKeeps == ASSUME LicensingInv, NEW r \in Requests, ReadEndings(r) PROVE LicensingInv'
<1> DEFINE held == {x \in Credentials : KindOf[x] = job[r].row /\ Ending(x)}
           todo == {<<x, credentials[x].end>> : x \in held}
<1>1. PICK kind : kind = job[r].row
  OBVIOUS
<1>2. Goes(r, "remind", kind, held, todo) /\ ~Waits(r) /\ job[r].at = "ends"
  BY <1>1 DEF ReadEndings, Serves, Waits, Idle
<1>3. Others(r) /\ Held(job'[r], "remind", kind, held, todo)
  BY <1>2, LocalSteps DEF Goes, LicensingInv
<1>4. After
  BY RemindersStay DEF ReadEndings, LicensingInv
<1>5. ScanLocals(r)'
  <2>1. \A x \in held : credentials[x].end \in EndDates \cup {None}
    BY DEF Ending, LicensingInv, CredentialRows
  <2>2. \A p \in todo : p[1] \in Credentials /\ p[2] \in EndDates \cup {None}
    BY <2>1
  <2> QED BY <1>3, <2>2 DEF ScanLocals, Held
<1>6. \A x \in Credentials : (Ending(x)' <=> Ending(x)) /\ (HasReminder(x)' <=> HasReminder(x))
  BY DEF ReadEndings, Ending, Reminded, HasReminder, Remembers, Due
<1>7. Called
  BY <1>6 DEF Called
<1>8. ASSUME r \in even PROVE ScanOK(r)'
  <2>1. kind \in Families /\ (kind = "education" => Done("license"))
    BY <1>1, <1>2, <1>8 DEF LicensingInv, EvenOK, ScanOK
  <2>2. Done("license") => Done("license")'
    BY <1>6 DEF Done
  <2>3. \A x \in Credentials : x \in held <=> KindOf[x] = kind /\ Ending(x)
    BY <1>1
  <2>4. (\A p \in todo : p[1] \in held) /\ \A x \in held : \E p \in todo : p[1] = x
    <3>1. \A x \in held : <<x, credentials[x].end>> \in todo /\ <<x, credentials[x].end>>[1] = x
      OBVIOUS
    <3>2. \A p \in todo : \E x \in held : p = <<x, credentials[x].end>>
      OBVIOUS
    <3>3. \A p \in todo : p[1] \in held
      BY <3>2
    <3> HIDE DEF held, todo
    <3> QED BY <3>1, <3>3
  <2> HIDE DEF held, todo
  <2> QED BY <1>3, <1>6, <2>1, <2>2, <2>3, <2>4 DEF ScanOK, Held
<1> QED BY <1>2, <1>3, <1>4, <1>5, <1>7, <1>8, ScanGoesOn DEF ReadEndings

LEMMA RemindKeeps == ASSUME LicensingInv, NEW r \in Requests, Remind(r) PROVE LicensingInv'
<1>1. PICK p \in job[r].todo :
        /\ reminders' = RaisedFor(p[1], p[2])
        /\ Goes(r, "remind", job[r].row, job[r].seen, job[r].todo \ {p})
  BY DEF Remind
<1>2. job[r].at = "remind" /\ ~Waits(r)
  BY DEF Remind, Serves, Waits, Idle
<1>3. p[1] \in Credentials /\ p[2] \in EndDates \cup {None}
  BY <1>2 DEF LicensingInv, ScanLocals
<1>4. After /\ HasReminder(p[1])' /\ \A y \in Credentials : y # p[1] => (HasReminder(y)' <=> HasReminder(y))
  <2>1. PICK x \in Credentials, end \in EndDates \cup {None} : x = p[1] /\ end = p[2]
    BY <1>3
  <2>2. reminders' = RaisedFor(x, end)
    BY <1>1, <2>1
  <2>3. After /\ HasReminder(x)' /\ \A y \in Credentials : y # x => (HasReminder(y)' <=> HasReminder(y))
    BY <2>2, RaisedReminder DEF LicensingInv
  <2> QED BY <2>1, <2>3
<1>5. Others(r) /\ Held(job'[r], "remind", job[r].row, job[r].seen, job[r].todo \ {p})
  BY <1>1, LocalSteps DEF Goes, LicensingInv
<1>6. ScanLocals(r)'
  BY <1>2, <1>5 DEF ScanLocals, Held, LicensingInv
<1>7. \A x \in Credentials : Ending(x)' <=> Ending(x)
  BY DEF Remind, Ending, Reminded
<1>8. ASSUME r \in even PROVE Called /\ ScanOK(r)'
  <2>1. ScanOK(r)
    BY <1>8 DEF LicensingInv, EvenOK
  <2>2. Ending(p[1])
    BY <1>2, <1>3, <2>1 DEF ScanOK
  <2>3. Called
    BY <1>4, <2>2 DEF Called
  <2>4. \A kind : Done(kind) => Done(kind)'
    BY <1>7, <2>3 DEF Done, Called
  <2>5. \A x \in Credentials : x \in job[r].seen =>
          HasReminder(x)' \/ \E q \in job[r].todo \ {p} : q[1] = x
    BY <1>2, <1>4, <2>1 DEF ScanOK
  <2>6. ScanOK(r)'
    BY <1>2, <1>5, <1>7, <2>1, <2>4, <2>5 DEF ScanOK, Held
  <2> QED BY <2>3, <2>6
<1> QED BY <1>2, <1>4, <1>5, <1>6, <1>8, ScanGoesOn DEF Remind

LEMMA ClearKeeps == ASSUME LicensingInv, NEW r \in Requests, ClearReminders(r) PROVE LicensingInv'
<1>1. job[r].at = "remind" /\ ~Waits(r) /\ job[r].todo = {}
  BY DEF ClearReminders, Serves, Waits, Idle
<1>2. /\ After
      /\ \A y \in Credentials :
           HasReminder(y)' <=> HasReminder(y) /\ ~(KindOf[y] = job[r].row /\ y \notin job[r].seen)
  BY ClearedReminders DEF ClearReminders, LicensingInv
<1>3. /\ Others(r)
      /\ IF job[r].row = "license" THEN Held(job'[r], "ends", "education", None, {})
         ELSE Held(job'[r], "report", None, None, {})
  BY LocalSteps DEF ClearReminders, Goes, LicensingInv
<1>4. ScanLocals(r)'
  BY <1>3 DEF ScanLocals, Held
<1>5. \A x \in Credentials : Ending(x)' <=> Ending(x)
  BY DEF ClearReminders, Ending, Reminded
<1>6. ASSUME r \in even PROVE Called /\ ScanOK(r)'
  <2>1. ScanOK(r)
    BY <1>6 DEF LicensingInv, EvenOK
  <2>2. Called
    BY <1>1, <1>2, <2>1 DEF Called, ScanOK
  <2>3. \A kind : Done(kind) => Done(kind)'
    BY <1>5, <2>2 DEF Done, Called
  <2>4. ASSUME NEW kind, kind = job[r].row PROVE Done(kind)'
    BY <1>1, <1>2, <1>5, <2>1, <2>4 DEF Done, ScanOK
  <2>5. CASE job[r].row = "license"
    <3>1. Done("license")'
      BY <2>4, <2>5
    <3>2. job'[r].at = "ends" /\ job'[r].row = "education"
      BY <1>3, <2>5 DEF Held
    <3> QED BY <2>2, <3>1, <3>2 DEF ScanOK, Families
  <2>6. CASE job[r].row # "license"
    <3>1. job[r].row = "education" /\ Done("license")
      BY <1>1, <2>1, <2>6 DEF ScanOK, Families
    <3>2. Done("education")'
      BY <2>4, <3>1
    <3>3. Done("license")'
      BY <2>3, <3>1
    <3>4. job'[r].at = "report"
      BY <1>3, <2>6 DEF Held
    <3> QED BY <2>2, <3>2, <3>3, <3>4 DEF ScanOK
  <2> QED BY <2>5, <2>6
<1> QED BY <1>1, <1>2, <1>3, <1>4, <1>6, ScanGoesOn DEF ClearReminders

LEMMA ScanStartKeeps == ASSUME LicensingInv, NEW r \in Requests, ScanStart(r) PROVE LicensingInv'
<1>1. Others(r) /\ Held(job'[r], "ends", "license", None, {}) /\ Waits(r)
  BY Calls DEF ScanStart, Starts, LicensingInv
<1>2. After
  BY RemindersStay DEF ScanStart, LicensingInv
<1>3. \A q \in Requests : ScanLocals(q)'
  BY <1>1 DEF Others, Held, ScanLocals, LicensingInv
<1>4. SnapshotsOK'
  <2>1. DOMAIN Snapshot = DOMAIN reminders
    BY DEF Snapshot
  <2> QED BY <2>1 DEF ScanStart, SnapshotsOK, LicensingInv
<1>5. \A kind : Done(kind)' <=> Done(kind)
  BY DEF ScanStart, Done, Ending, Reminded, HasReminder, Remembers, Due
<1>6. \A x \in Credentials : (Ending(x)' <=> Ending(x)) /\ (HasReminder(x)' <=> HasReminder(x))
  BY DEF ScanStart, Ending, Reminded, HasReminder, Remembers, Due
<1>7. \A q \in Requests : q # r /\ ScanOK(q) => ScanOK(q)'
  BY <1>1, <1>5, <1>6 DEF Others, ScanOK
<1>8. ScanOK(r)'
  BY <1>1 DEF Held, ScanOK, Families
<1>9. \A q \in Requests : q # r => (Waits(q)' <=> Waits(q))
  BY <1>1 DEF Others, Waits
<1>10. EvenOK'
  <2>1. CASE \A q \in Requests : ~Waits(q) => q \in even
    BY <1>5, <1>7, <1>8, <1>9, <2>1 DEF ScanStart, LicensingInv, EvenOK
  <2>2. CASE ~ \A q \in Requests : ~Waits(q) => q \in even
    BY <2>2 DEF ScanStart, LicensingInv, EvenOK
  <2> QED BY <2>1, <2>2
<1>11. CountsAddUp'
  BY DEF ScanStart, LicensingInv, CountsAddUp
<1> QED BY <1>1, <1>2, <1>3, <1>4, <1>10, <1>11 DEF ScanStart, LicensingInv, After, Others

LEMMA ReportKeeps == ASSUME LicensingInv, NEW r \in Requests, Report(r) PROVE LicensingInv'
<1>1. Others(r) /\ job'[r] = Idle /\ job[r].at = "report" /\ ~Waits(r) /\ Waits(r)'
  BY EndSteps DEF Report, Serves, Waits, Idle, LicensingInv
<1>2. After
  BY RemindersStay DEF Report, LicensingInv
<1>3. \A q \in Requests : ScanLocals(q)'
  BY <1>1 DEF Others, ScanLocals, LicensingInv, Idle
<1>4. SnapshotsOK'
  BY DEF Report, SnapshotsOK, LicensingInv
<1>5. \A x \in Credentials : (Ending(x)' <=> Ending(x)) /\ (HasReminder(x)' <=> HasReminder(x))
  BY DEF Report, Ending, Reminded, HasReminder, Remembers, Due
<1>6. \A kind : Done(kind)' <=> Done(kind)
  BY <1>5 DEF Done
<1>7. \A q \in Requests : q # r /\ ScanOK(q) => ScanOK(q)'
  BY <1>1, <1>5, <1>6 DEF Others, ScanOK
<1>8. \A q \in Requests : q # r => (Waits(q)' <=> Waits(q))
  BY <1>1 DEF Others, Waits
<1>9. EvenOK'
  <2>1. CASE r \in even
    <3>1. Done("license") /\ Done("education")
      BY <1>1, <2>1 DEF LicensingInv, EvenOK, ScanOK
    <3> QED BY <1>1, <1>6, <1>7, <1>8, <2>1, <3>1 DEF Report, LicensingInv, EvenOK
  <2>2. CASE r \notin even
    BY <1>1, <2>2 DEF Report, LicensingInv, EvenOK
  <2> QED BY <2>1, <2>2
<1>10. CountsAddUp'
  <2>1. IsFiniteSet(DOMAIN Snapshot) /\ DOMAIN before[r] \subseteq DOMAIN Snapshot
    <3>1. DOMAIN Snapshot = 1..Len(reminders) /\ Len(reminders) \in Nat /\ DOMAIN reminders = DOMAIN Snapshot
      BY DEF Snapshot, LicensingInv, RemindersOK
    <3>2. IsFiniteSet(1..Len(reminders))
      BY <3>1, FS_Interval
    <3> QED BY <3>1, <3>2 DEF LicensingInv, SnapshotsOK
  <2> DEFINE d == Delta(before[r], Snapshot)
             change == Cardinality(ActiveIn(Snapshot)) - Cardinality(ActiveIn(before[r]))
  <2>2. d.opened + d.reopened - d.resolved = change
    BY <2>1, DeltaAddsUp
  <2>3. reports' = reports \cup {<<d, change>>}
    BY DEF Report
  <2> HIDE DEF d, change
  <2>4. \A x \in reports : x[1].opened + x[1].reopened - x[1].resolved = x[2]
    BY DEF LicensingInv, CountsAddUp
  <2> QED BY <2>2, <2>3, <2>4 DEF CountsAddUp
<1> QED BY <1>1, <1>2, <1>3, <1>4, <1>9, <1>10 DEF Report, LicensingInv, After, Others

LEMMA LicensingSteps == LicensingInv /\ [LicensingNext]_licensingVars => LicensingInv'
<1> SUFFICES ASSUME LicensingInv, [LicensingNext]_licensingVars PROVE LicensingInv'
  OBVIOUS
<1>1. CASE UNCHANGED licensingVars
  <2>1. UNCHANGED <<credentials, reminders, before, reports, even, current, scanDay, job>>
    BY <1>1 DEF licensingVars, evenness, requestVars
  <2>2. After
    BY <2>1, RemindersStay DEF LicensingInv
  <2>3. EvenOK'
    BY <2>1 DEF LicensingInv, EvenOK, ScanOK, Done, Ending, Reminded, HasReminder, Remembers, Due, Waits
  <2>4. SnapshotsOK' /\ CountsAddUp' /\ Threads' /\ \A r \in Requests : ScanLocals(r)'
    BY <2>1 DEF LicensingInv, SnapshotsOK, CountsAddUp, Threads, ScanLocals
  <2> QED BY <2>1, <2>2, <2>3, <2>4 DEF LicensingInv, After
<1>2. CASE LicensingNext
  BY <1>2, ScanStartKeeps, ReadEndingsKeeps, RemindKeeps, ClearKeeps, ReportKeeps, RestKeeps, RecordKeeps,
     UpdateKept, SettleKeeps DEF LicensingNext
<1> QED BY <1>1, <1>2

\* After a scan that nothing disturbed, alone or with others, a credential has
\* one active reminder exactly while one is called for, and the counts of every
\* scan, disturbed or not, add up to what it found changed (_reconcile,
\* _auto_close_cleared, _scan_delta).
THEOREM ScansHold == LicensingSpec => []ScansHonest
<1> QED BY InvTells, LicensingStart, LicensingSteps, PTL DEF LicensingSpec
=============================================================================
