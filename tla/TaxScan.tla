------------------------------ MODULE TaxScan -------------------------------
(***************************************************************************)
(* The scan of the fifteen tax detectors (tax_exception_detectors.py) over *)
(* one return, while the return moves through its lifecycle                *)
(* (transition_return), its papers change, staff work on the exceptions    *)
(* and processes die.  There is one row of each kind, so that each family  *)
(* of keys has one key; DetectorScan has families of several.              *)
(***************************************************************************)
EXTENDS Requests
Exceptions == INSTANCE ExceptionRules

CONSTANTS
  Stages,   \* statuses of the return that are looked at
  Sources,  \* kinds of rows that are looked at
  Spans,    \* days that may pass at once
  Horizon   \* bound: days in one status

VARIABLES
  stage,     \* tax_engagement_returns.status
  waited,    \* days since status_entered_at
  sources,   \* the rows there are: a late item is open as well
  exc,       \* detector -> the status of its exception
  calm,      \* history: scans that nothing has disturbed since they started
  settled,   \* history: one of them has ended, and nothing happened since
  unsound,  \* history: something came between the last transition and its exceptions
  refusals   \* history: what a scan that broke off had listed, and found

returnVars == <<stage, waited, sources>>
scanHistory == <<calm, settled>>
taxScanVars == <<returnVars, exc, scanHistory, unsound, refusals, requestVars>>

----------------------------------------------------------------------------
(* The conditions *)

WorkingStages == {"ready_to_prepare", "in_preparation", "manager_review", "partner_review",
                  "client_review", "awaiting_efile_authorization", "ready_to_file"}
PostReviewStages == {"awaiting_efile_authorization", "ready_to_file", "filed", "accepted",
                     "delivered", "completed"}

In(stages) == stage \in stages
There(kind) == kind \in sources

MissingDocuments == There("late_item")
MissingOrganizer == There("organizer")
MissingQuestionnaire == There("questionnaire")
MissingSignatures == There("letter")
ClientNonResponse == In({"awaiting_information"}) /\ waited >= 5
OverdueWork == In(WorkingStages) /\ waited > 7
BlockedWorkflowStep == There("escalation")
MissingPreparer == In({"ready_to_prepare", "in_preparation"}) /\ ~There("assignment")
MissingReviewer == There("review")
FilingRejection == In({"rejected"})
FilingTransmissionFailure == There("reason") /\ ~In({"accepted"})
AcceptancePending == In({"filed"}) /\ waited > 3
ComplianceDocsMissing ==
  In({"delivered", "completed"}) /\ (There("open_item") \/ There("late_item"))
RequiredReviewSkipped == In(PostReviewStages) /\ ~There("approval")
DocumentAmbiguity == There("document")

DETECTORS ==
  <<"doc_missing", "organizer", "questionnaire", "signatures", "nonresponse", "overdue",
    "wf_blocked", "no_preparer", "no_reviewer", "filing_rejected", "transmission",
    "acceptance_pending", "retention", "signoff", "docreview">>

Condition ==
  [doc_missing |-> MissingDocuments, organizer |-> MissingOrganizer,
   questionnaire |-> MissingQuestionnaire, signatures |-> MissingSignatures,
   nonresponse |-> ClientNonResponse, overdue |-> OverdueWork,
   wf_blocked |-> BlockedWorkflowStep, no_preparer |-> MissingPreparer,
   no_reviewer |-> MissingReviewer, filing_rejected |-> FilingRejection,
   transmission |-> FilingTransmissionFailure, acceptance_pending |-> AcceptancePending,
   retention |-> ComplianceDocsMissing, signoff |-> RequiredReviewSkipped,
   docreview |-> DocumentAmbiguity]

\* The exceptions are as earlier scans and staff have left them.
TaxScanInit ==
  /\ stage = "received" /\ waited = 0
  /\ sources \in {{}, Sources}
  /\ \E was \in Exceptions!Statuses \cup {"absent"} : exc = [d \in DOMAIN Condition |-> was]
  /\ calm = {} /\ settled = FALSE /\ unsound = FALSE /\ refusals = {}
  /\ RequestInit

----------------------------------------------------------------------------
(* The scan *)

Alarmed(d) == exc[d] \in Exceptions!ACTIVE_STATUSES

\* raise_exception with the detector's key.
Raised(d) == IF Alarmed(d) THEN exc[d] ELSE IF exc[d] = "resolved" THEN "reopened" ELSE "open"

Scanning(r) == job[r].at \in {"detect", "apply", "begin", "resolve"}
Hooked(r) == Serves(r, "hook")

ScanTax(r) ==
  /\ Starts(r, "detect", 1, None, {})
  /\ calm' = IF \A q \in Requests : ~Waits(q) => q \in calm THEN calm \cup {r} ELSE calm
  /\ UNCHANGED <<returnVars, exc, settled, unsound, refusals>>

\* One of the detectors reads the rows that meet its condition.
Detect(r) ==
  LET n == job[r].row
  IN  /\ Serves(r, "detect")
      /\ Goes(r, "apply", n, IF Condition[DETECTORS[n]] THEN "holds" ELSE "clear", {})
      /\ UNCHANGED <<returnVars, exc, scanHistory, unsound, refusals>>

\* The next detector has its turn, or the scan is over.
NextDetector(r) ==
  LET n == job[r].row
  IN  IF n < Len(DETECTORS) THEN Goes(r, "detect", n + 1, None, {}) /\ UNCHANGED scanHistory
      ELSE /\ Ends(r) /\ calm' = calm \ {r}
           /\ settled' = (settled \/ (r \in calm /\ \A q \in Requests \ {r} : Waits(q)))

\* _reconcile raises what it has read, or lists what is open beside it.
Apply(r) ==
  LET d == DETECTORS[job[r].row]
  IN  /\ Serves(r, "apply")
      /\ exc' = IF job[r].seen = "holds" THEN [exc EXCEPT ![d] = Raised(d)] ELSE exc
      /\ IF job[r].seen = "clear" /\ Alarmed(d)
         THEN Goes(r, "begin", job[r].row, exc[d], {}) /\ UNCHANGED scanHistory
         ELSE NextDetector(r)
      /\ UNCHANGED <<returnVars, unsound, refusals>>

CanMove(d, to) == exc[d] \in Exceptions!Statuses /\ to \in Exceptions!TRANSITIONS[exc[d]]

NotBegun == {"open", "acknowledged", "reopened"}

\* A transition the engine refuses ends the scan.
BreaksOff(r, d) ==
  /\ refusals' = refusals \cup {<<job[r].seen, exc[d]>>}
  /\ Ends(r) /\ calm' = calm \ {r} /\ UNCHANGED <<exc, settled>>

\* _auto_resolve: begin_work when the exception was not begun when it was listed ...
BeginWork(r) ==
  LET d == DETECTORS[job[r].row]
  IN  /\ Serves(r, "begin") /\ job[r].seen \in NotBegun
      /\ IF CanMove(d, "in_progress")
         THEN /\ exc' = [exc EXCEPT ![d] = "in_progress"]
              /\ Goes(r, "resolve", job[r].row, "in_progress", {})
              /\ UNCHANGED <<scanHistory, refusals>>
         ELSE BreaksOff(r, d)
      /\ UNCHANGED <<returnVars, unsound>>

\* ... and resolve.
AutoResolve(r) ==
  LET d == DETECTORS[job[r].row]
  IN  /\ Serves(r, "resolve") \/ (Serves(r, "begin") /\ job[r].seen \notin NotBegun)
      /\ IF CanMove(d, "resolved")
         THEN exc' = [exc EXCEPT ![d] = "resolved"] /\ NextDetector(r) /\ UNCHANGED refusals
         ELSE BreaksOff(r, d)
      /\ UNCHANGED <<returnVars, unsound>>

----------------------------------------------------------------------------
(* The return *)

Disturb == calm' = {} /\ settled' = FALSE

\* transition_return, forced moves included, commits the status ...
TransitionReturn(r, to) ==
  /\ to # stage /\ stage' = to /\ waited' = 0
  /\ Starts(r, "hook", to, None, {})
  /\ unsound' = (\E q \in Requests : ~Waits(q))
  /\ Disturb /\ UNCHANGED <<sources, exc, refusals>>

\* Mutant: only the rejection itself is closed.
OnlyRejections == {"filing_rejected"}

FILING_BLOCKER_CODES == {"filing_rejected", "transmission"}

\* ... and raises or closes the exceptions of a filing.
FilingHook(r) ==
  /\ Hooked(r)
  /\ exc' = CASE job[r].row = "rejected" -> [exc EXCEPT !["filing_rejected"] = Raised("filing_rejected")]
              [] job[r].row = "accepted" ->
                   [d \in DOMAIN exc |-> IF d \in FILING_BLOCKER_CODES /\ Alarmed(d) THEN "resolved" ELSE exc[d]]
              [] OTHER -> exc
  /\ Ends(r) /\ Disturb /\ UNCHANGED <<returnVars, unsound, refusals>>

\* Rows that are only ever inserted: nothing closes an escalation, and a filing
\* event keeps its reason.
Lasting == {"escalation", "reason", "approval"}

SourceChanges(kind) ==
  /\ sources' = IF There(kind) /\ kind \notin Lasting THEN sources \ {kind} ELSE sources \cup {kind}
  /\ sources' # sources
  /\ Serve /\ Disturb /\ UNCHANGED <<stage, waited, exc, unsound, refusals>>

DaysPass(n) ==
  /\ waited + n <= Horizon /\ waited' = waited + n
  /\ Disturb /\ UNCHANGED <<stage, sources, exc, unsound, refusals, requestVars>>

StaffMove(d, to) ==
  /\ CanMove(d, to) \/ (Alarmed(d) /\ to = "escalated" /\ exc[d] # to)
  /\ exc' = [exc EXCEPT ![d] = to]
  /\ unsound' = (unsound \/ d \in {"filing_rejected", "transmission"})
  /\ Serve /\ Disturb /\ UNCHANGED <<returnVars, refusals>>

TaxScanCrash(r) ==
  /\ Dies(r) /\ unsound' = (unsound \/ Hooked(r))
  /\ Disturb /\ UNCHANGED <<returnVars, exc, refusals>>

TaxScanNext ==
  \/ \E r \in Requests :
       \/ ScanTax(r) \/ Detect(r) \/ Apply(r) \/ BeginWork(r) \/ AutoResolve(r)
       \/ FilingHook(r) \/ TaxScanCrash(r)
       \/ \E to \in Stages : TransitionReturn(r, to)
  \/ \E kind \in Sources : SourceChanges(kind)
  \/ \E n \in Spans : DaysPass(n)
  \/ \E d \in DOMAIN exc, to \in Exceptions!Statuses : StaffMove(d, to)

TaxScanSpec == TaxScanInit /\ [][TaxScanNext]_taxScanVars

----------------------------------------------------------------------------
(* Properties *)

\* After a scan that nothing disturbed, the detectors whose condition holds are
\* exactly those with an active exception, whatever was resolved, cancelled,
\* escalated or left half closed before, and although the detectors run one
\* after the other.
TaxScanAgrees == settled => \A d \in DOMAIN Condition : Condition[d] <=> Alarmed(d)

\* Nothing isolates one detector from another, so that a call the engine refuses
\* ends the scan for all: that happens only when somebody else has moved the
\* exception since the scan listed it, never on account of the status it has.
BreaksOffOnlyIfMoved == \A x \in refusals : x[1] # x[2]

\* A rejected return has its exception, and an accepted one none of the two
\* that would block its completion, although scans start at any time, unless
\* one was under way at the transition, the process died, or staff intervened.
FilingAlarmsFollow ==
  ~unsound /\ (\A r \in Requests : ~Hooked(r)) =>
    /\ stage = "rejected" => Alarmed("filing_rejected")
    /\ stage = "accepted" => ~Alarmed("filing_rejected") /\ ~Alarmed("transmission")

\* The exceptions of a return agree with it, and a scan is cut short only by
\* somebody who works on them.
AlarmsAgree == TaxScanAgrees /\ FilingAlarmsFollow /\ BreaksOffOnlyIfMoved
=============================================================================
