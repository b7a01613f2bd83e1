-------------------------- MODULE ProducerLicensing -------------------------
(***************************************************************************)
(* The licenses of the producers and their continuing education            *)
(* (insurance_licensing.py), and the scan that reminds of the dates they   *)
(* end (insurance_detectors.py), with the counts it reports.               *)
(***************************************************************************)
EXTENDS Requests
Exceptions == INSTANCE ExceptionRules
Numbers == INSTANCE FiniteSetsExt

CONSTANTS
  Credentials,  \* licenses and periods of education
  KindOf,       \* credential -> "license" or "education"
  Window,       \* kind -> days before the end in which a reminder is due
  EndDates,     \* dates that are looked at
  LastScanDay   \* bound: the last day

ASSUME KindAssumption == KindOf \in [Credentials -> {"license", "education"}]

VARIABLES
  credentials,  \* credential -> [status, end], or None
  reminders,    \* rows of exceptions, as [of, status, due], by id
  before,       \* thread -> the snapshot its scan began with
  reports,      \* what scans have reported
  even,         \* history: scans that nothing has disturbed since they began
  current,      \* history: one of them has ended, and nothing happened since
  scanDay       \* today

evenness == <<even, current>>
licensingVars == <<credentials, reminders, before, reports, evenness, scanDay, requestVars>>

Families == {"license", "education"}
CredentialStatuses == {"active", "in_progress", "inactive"}

LicensingInit ==
  /\ credentials = [x \in Credentials |-> None]
  /\ reminders = <<>> /\ before = [r \in Requests |-> <<>>] /\ reports = {}
  /\ even = {} /\ current = FALSE /\ scanDay = 0
  /\ RequestInit

Upset == even' = {} /\ current' = FALSE

----------------------------------------------------------------------------
(* The records *)

\* record_license, record_ce
Record(x, status, end) ==
  /\ credentials[x] = None
  /\ credentials' = [credentials EXCEPT ![x] = [status |-> status, end |-> end]]
  /\ Serve /\ Upset /\ UNCHANGED <<reminders, before, reports, scanDay>>

\* update_license, update_ce: a field that is not given, or NULL, stays.
Update(x, status, end) ==
  /\ credentials[x] # None
  /\ credentials' = [credentials EXCEPT ![x] =
       [status |-> IF status = None THEN @.status ELSE status,
        end |-> IF end = None THEN @.end ELSE end]]
  /\ Serve /\ Upset /\ UNCHANGED <<reminders, before, reports, scanDay>>

\* The status in which a credential is reminded of.
Reminded(x) == IF KindOf[x] = "license" THEN "active" ELSE "in_progress"

\* _license_expiry_conditions, _ce_period_conditions: a date that has passed is
\* as due as one that comes.
Ending(x) ==
  /\ credentials[x] # None /\ credentials[x].status = Reminded(x)
  /\ credentials[x].end # None /\ credentials[x].end <= scanDay + Window[KindOf[x]]

----------------------------------------------------------------------------
(* The scan *)

Due(n) == reminders[n].status \in Exceptions!ACTIVE_STATUSES
Remembers(x) == {n \in DOMAIN reminders : reminders[n].of = x}

\* raise_exception: an active row stays as it is, its due date included; one that
\* was resolved is reopened with the due date it had.
RaisedFor(x, end) ==
  LET done == {n \in Remembers(x) : reminders[n].status = "resolved"}
  IN  IF \E n \in Remembers(x) : Due(n) THEN reminders
      ELSE IF done # {} THEN [reminders EXCEPT ![Numbers!Max(done)].status = "reopened"]
      ELSE Append(reminders, [of |-> x, status |-> "open", due |-> end])

\* _exception_status: the status of every row, by id.
Snapshot == [n \in DOMAIN reminders |-> reminders[n].status]
ActiveIn(snapshot) == {n \in DOMAIN snapshot : snapshot[n] \in Exceptions!ACTIVE_STATUSES}

\* _scan_delta
Delta(old, new) ==
  [opened |-> Cardinality(ActiveIn(new) \ DOMAIN old),
   reopened |-> Cardinality(ActiveIn(new) \cap (DOMAIN old \ ActiveIn(old))),
   resolved |-> Cardinality(ActiveIn(old) \cap (DOMAIN new \ ActiveIn(new)))]

\* run_insurance_scan, which the scheduler runs, begins with a snapshot of all
\* families (the licensing part alone would take one for each) ...
ScanStart(r) ==
  /\ before' = [before EXCEPT ![r] = Snapshot]
  /\ Starts(r, "ends", "license", None, {})
  /\ even' = IF \A q \in Requests : ~Waits(q) => q \in even THEN even \cup {r} ELSE even
  /\ UNCHANGED <<credentials, reminders, reports, current, scanDay>>

\* ... reads the conditions of one family after the other ...
ReadEndings(r) ==
  /\ Serves(r, "ends")
  /\ LET held == {x \in Credentials : KindOf[x] = job[r].row /\ Ending(x)}
     IN  Goes(r, "remind", job[r].row, held, {<<x, credentials[x].end>> : x \in held})
  /\ UNCHANGED <<credentials, reminders, before, reports, evenness, scanDay>>

\* ... raises an exception for each ...
Remind(r) ==
  /\ Serves(r, "remind")
  /\ \E x \in job[r].todo :
       /\ reminders' = RaisedFor(x[1], x[2])
       /\ Goes(r, "remind", job[r].row, job[r].seen, job[r].todo \ {x})
  /\ UNCHANGED <<credentials, before, reports, evenness, scanDay>>

\* Mutant: the reminders of the other family are taken for cleared ones.
ClearedOfAll(r) == {n \in DOMAIN reminders : Due(n) /\ reminders[n].of \notin job[r].seen}

\* Active rows of the family whose condition was not among those read.
Cleared(r) ==
  {n \in DOMAIN reminders : Due(n) /\ KindOf[reminders[n].of] = job[r].row
                            /\ reminders[n].of \notin job[r].seen}

\* ... and resolves the active ones of the family whose condition has cleared;
\* DetectorScan has the transactions and what fails in them.
ClearReminders(r) ==
  /\ Serves(r, "remind") /\ job[r].todo = {}
  /\ reminders' = [n \in DOMAIN reminders |->
                     IF n \in Cleared(r) THEN [reminders[n] EXCEPT !.status = "resolved"] ELSE reminders[n]]
  /\ IF job[r].row = "license" THEN Goes(r, "ends", "education", None, {})
     ELSE Goes(r, "report", None, None, {})
  /\ UNCHANGED <<credentials, before, reports, evenness, scanDay>>

\* The second snapshot says what has happened.
Report(r) ==
  /\ Serves(r, "report")
  /\ reports' = reports \cup {<<Delta(before[r], Snapshot),
                                Cardinality(ActiveIn(Snapshot)) - Cardinality(ActiveIn(before[r]))>>}
  /\ before' = [before EXCEPT ![r] = <<>>]
  /\ Ends(r) /\ even' = even \ {r}
  /\ current' = (current \/ (r \in even /\ \A q \in Requests \ {r} : Waits(q)))
  /\ UNCHANGED <<credentials, reminders, scanDay>>

\* Staff resolve or cancel a reminder.
Settle(n, to) ==
  /\ Due(n) /\ reminders' = [reminders EXCEPT ![n].status = to]
  /\ Serve /\ Upset /\ UNCHANGED <<credentials, before, reports, scanDay>>

LicensingCrash(r) ==
  /\ Dies(r) /\ before' = [before EXCEPT ![r] = <<>>]
  /\ Upset /\ UNCHANGED <<credentials, reminders, reports, scanDay>>

ScanDayEnds ==
  /\ scanDay < LastScanDay /\ scanDay' = scanDay + 1
  /\ Upset /\ UNCHANGED <<credentials, reminders, before, reports, requestVars>>

LicensingNext ==
  \/ \E r \in Requests :
       \/ ScanStart(r) \/ ReadEndings(r) \/ Remind(r) \/ ClearReminders(r) \/ Report(r)
       \/ LicensingCrash(r)
  \/ \E x \in Credentials :
       \/ \E s \in CredentialStatuses, d \in EndDates \cup {None} : Record(x, s, d)
       \/ \E s \in CredentialStatuses \cup {None}, d \in EndDates \cup {None} : Update(x, s, d)
  \/ \E n \in DOMAIN reminders, to \in Exceptions!CLOSED_STATUSES : Settle(n, to)
  \/ ScanDayEnds

LicensingSpec == LicensingInit /\ [][LicensingNext]_licensingVars

----------------------------------------------------------------------------
(* Properties *)

\* After a scan that nothing disturbed a credential has an active reminder, and
\* only one, exactly while it is in force and its end is inside the window of
\* its kind or past, whatever staff had made of earlier reminders.
RemindersAgree ==
  current => \A x \in Credentials :
    Cardinality({n \in Remembers(x) : Due(n)}) = IF Ending(x) THEN 1 ELSE 0

\* "Honest opened/reopened/resolved counts" are differences of two snapshots and
\* count what staff and other scans did between them; even so they add up to
\* the change in the number of active reminders over the scan.
CountsAddUp ==
  \A x \in reports : x[1].opened + x[1].reopened - x[1].resolved = x[2]

\* What a scan leaves and what it says of itself agree with the credentials.
ScansHonest == RemindersAgree /\ CountsAddUp
=============================================================================
