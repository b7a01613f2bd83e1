---------------------------- MODULE BenefitRoster ----------------------------
(***************************************************************************)
(* An employer's benefit plans, its roster and the elections of its        *)
(* employees (benefits_domain.py, benefits_enrollment.py), with the        *)
(* conditions the benefits detectors derive from them                      *)
(* (benefits_detectors.py).  Every operation is one transaction that sets  *)
(* what it is given by id, so requests that overlap have the effect of one *)
(* after the other.                                                        *)
(***************************************************************************)
EXTENDS Requests

CONSTANTS
  Employees, Plans, Years,
  LineOf,        \* plan -> "health" or "retirement"
  PlanOf,        \* plan year -> its plan
  LastDay,       \* bound: days
  NewHireWindow, EnrollmentWarning, RenewalWarning, DocumentGrace, \* config.py
  Percents       \* deferral percentages

ASSUME RosterAssumption == NewHireWindow \in Int

VARIABLES
  today,
  plans,       \* plan -> its record, or None
  details,     \* retirement plan -> its detail has an adoption agreement, or None
  documents,   \* plan -> kinds of documents linked to it
  years,       \* plan year -> [status, closes], or None
  employments, \* employee -> [status, hired], or None
  enrollments, \* <<employee, plan year>> -> its record, or None (unique in both)
  elections    \* <<employee, plan year>> -> [deferral, roth], or None (1:1)

orgVars == <<plans, details, documents, years>>
staffVars == <<employments, enrollments, elections>>
rosterVars == <<today, orgVars, staffVars, requestVars>>

Days == 0..LastDay
PLAN_STATUSES == {"draft", "active", "renewing", "terminated"}
YEAR_STATUSES == {"upcoming", "open_enrollment", "active", "closed"}
EMP_STATUSES == {"active", "terminated", "cobra", "retired"}
ENROLL_STATUSES == {"eligible", "elected", "enrolled", "waived", "terminated", "cobra"}
ACTIVE_ENROLLED == {"eligible", "elected", "enrolled"}
HANDLED_ENROLLED == {"elected", "enrolled", "waived"}

Enrolls == Employees \X Years
Line(y) == LineOf[PlanOf[y]]
Exists(table) == {i \in DOMAIN table : table[i] # None}

Plan(status, full, renewal) == [status |-> status, full |-> full, renewal |-> renewal]
Year(status, closes) == [status |-> status, closes |-> closes]
Enrollment(status, tier, effective) == [status |-> status, tier |-> tier, effective |-> effective]

----------------------------------------------------------------------------
(* Plans and plan years (benefits_domain.py) *)

CreatePlan(p, status, full, renewal) ==
  /\ plans[p] = None
  /\ plans' = [plans EXCEPT ![p] = Plan(status, full, renewal)]
  /\ Serve /\ UNCHANGED <<today, details, documents, years, staffVars>>

UpdatePlanStatus(p, status) ==
  /\ plans' = [plans EXCEPT ![p].status = status]
  /\ Serve /\ UNCHANGED <<today, details, documents, years, staffVars>>

CreatePlanYear(y, status, closes) ==
  /\ plans[PlanOf[y]] # None /\ years[y] = None
  /\ years' = [years EXCEPT ![y] = Year(status, closes)]
  /\ Serve /\ UNCHANGED <<today, plans, details, documents, staffVars>>

SetPlanYearStatus(y, status) ==
  /\ years' = [years EXCEPT ![y].status = status]
  /\ Serve /\ UNCHANGED <<today, plans, details, documents, staffVars>>

SetRetirementDetails(p, agreement) ==
  /\ plans[p] # None /\ LineOf[p] = "retirement"
  /\ details' = [details EXCEPT ![p] = agreement]
  /\ Serve /\ UNCHANGED <<today, plans, documents, years, staffVars>>

\* employer_census_upload links a census; the other kinds come from imports.
DocumentLinked(p, kind) ==
  /\ documents' = [documents EXCEPT ![p] = @ \cup {kind}]
  /\ Serve /\ UNCHANGED <<today, plans, details, years, staffVars>>

----------------------------------------------------------------------------
(* Roster and enrollments (benefits_enrollment.py) *)

CreateEmployment(e, status, hired) ==
  /\ employments[e] = None
  /\ employments' = [employments EXCEPT ![e] = [status |-> status, hired |-> hired]]
  /\ Serve /\ UNCHANGED <<today, orgVars, enrollments, elections>>

\* What the coverage of an employee becomes: a waiver and COBRA stay.
CoverageEnded(e) ==
  [i \in Enrolls |->
     IF i[1] = e /\ enrollments[i] # None /\ enrollments[i].status \in ACTIVE_ENROLLED
     THEN [enrollments[i] EXCEPT !.status = "terminated"] ELSE enrollments[i]]

TerminateEmployment(e) ==
  /\ employments' = [employments EXCEPT ![e].status = "terminated"]
  /\ enrollments' = CoverageEnded(e)
  /\ Serve /\ UNCHANGED <<today, orgVars, elections>>

\* The status of the employment and of the plan year is not looked at.
Enroll(i, status, effective) ==
  /\ employments[i[1]] # None /\ years[i[2]] # None /\ enrollments[i] = None
  /\ enrollments' = [enrollments EXCEPT ![i] = Enrollment(status, "employee", effective)]
  /\ Serve /\ UNCHANGED <<today, orgVars, employments, elections>>

\* set_enrollment_status, terminate_enrollment; waive also sets the tier.
SetEnrollmentStatus(i, status) ==
  /\ \/ enrollments' = [enrollments EXCEPT ![i].status = status]
     \/ status = "waived"
        /\ enrollments' = [enrollments EXCEPT ![i].status = status, ![i].tier = "waived"]
  /\ Serve /\ UNCHANGED <<today, orgVars, employments, elections>>

QualifyingLifeEvent(i, effective) ==
  /\ employments[i[1]] # None /\ years[i[2]] # None
  /\ enrollments' = [enrollments EXCEPT ![i] = Enrollment("elected", "family", effective)]
  /\ Serve /\ UNCHANGED <<today, orgVars, employments, elections>>

\* The election as it is stored: replaced as a whole.
Elected(i, deferral, roth) == [deferral |-> deferral, roth |-> roth]

SetRetirementElection(i, deferral, roth) ==
  /\ Line(i[2]) = "retirement"
  /\ deferral # None /\ roth # None => roth <= deferral
  /\ elections' = [elections EXCEPT ![i] = Elected(i, deferral, roth)]
  /\ Serve /\ UNCHANGED <<today, orgVars, employments, enrollments>>

Midnight ==
  /\ today < LastDay /\ today' = today + 1
  /\ UNCHANGED <<orgVars, staffVars, requestVars>>

----------------------------------------------------------------------------
(* Detector conditions (benefits_detectors.py): what each would raise now. *)

Hired(e) == employments[e] # None /\ employments[e].status = "active"
OpenFor(line) ==
  \E y \in Exists(years) : years[y].status \in {"open_enrollment", "active"} /\ Line(y) = line
Has(e, line) == \E i \in Exists(enrollments) : i[1] = e /\ Line(i[2]) = line
InLine(line) == {p \in Exists(plans) : LineOf[p] = line}

WithoutHealth(e) == Hired(e) /\ OpenFor("health") /\ ~Has(e, "health")
EligibilityUnresolved ==
  {e \in Employees : WithoutHealth(e) /\ employments[e].hired # None
                     /\ today - employments[e].hired > NewHireWindow}

\* Mutant: off by one at the end of the window.
NewHireEarly ==
  {e \in Employees : WithoutHealth(e) /\ employments[e].hired # None
                     /\ today - employments[e].hired < NewHireWindow}
NewHireEnrollmentDue ==
  {e \in Employees : WithoutHealth(e) /\ employments[e].hired # None
                     /\ today - employments[e].hired <= NewHireWindow}
RosterInformationMissing == {e \in Employees : Hired(e) /\ employments[e].hired = None}

MissingWaiver ==
  {i \in Exists(enrollments) : Line(i[2]) = "health" /\ enrollments[i].status = "eligible"
                               /\ years[i[2]].closes < today}
OpenEnrollmentIncomplete ==
  {y \in Exists(years) :
     /\ Line(y) = "health" /\ years[y].status = "open_enrollment"
     /\ years[y].closes <= today + EnrollmentWarning
     /\ \E e \in Employees : Hired(e) /\ (enrollments[<<e, y>>] = None
                               \/ enrollments[<<e, y>>].status \notin HANDLED_ENROLLED)}
TerminatedStillEnrolled ==
  {i \in Exists(enrollments) : employments[i[1]].status = "terminated"
                               /\ enrollments[i].status \in ACTIVE_ENROLLED}
EffectiveDateMismatch ==
  {i \in Exists(enrollments) : employments[i[1]].hired # None /\ enrollments[i].effective # None
                               /\ enrollments[i].effective < employments[i[1]].hired}

PastDocumentGrace == today >= DocumentGrace
DocumentMissing(kind) ==
  {p \in InLine("health") : plans[p].status \in {"active", "renewing"}
                            /\ kind \notin documents[p] /\ PastDocumentGrace}

RenewalAtRisk ==
  {p \in Exists(plans) : plans[p].status = "active" /\ plans[p].renewal <= today + RenewalWarning}
PlanYearMissing(line) ==
  {p \in InLine(line) : plans[p].status \in {"active", "draft"}
                        /\ \A y \in Exists(years) : PlanOf[y] # p}
PlanInformationIncomplete ==
  {p \in InLine("health") : plans[p].status = "active" /\ ~plans[p].full}

RetirementEligibilityUnresolved ==
  {e \in Employees : Hired(e) /\ OpenFor("retirement") /\ ~Has(e, "retirement")}
DeferralElectionDue ==
  {i \in Exists(enrollments) : Line(i[2]) = "retirement" /\ elections[i] = None
                               /\ enrollments[i].status \in ACTIVE_ENROLLED}
AdoptionAgreementMissing ==
  {p \in InLine("retirement") : plans[p].status \in {"active", "draft"} /\ details[p] # TRUE
                                /\ "adoption_agreement" \notin documents[p]}

\* The dedupe keys of all families but new hires.
Conditions ==
  UNION { {"eligibility"} \X EligibilityUnresolved, {"waiver"} \X MissingWaiver,
          {"roster_missing"} \X RosterInformationMissing,
          {"oe_incomplete"} \X OpenEnrollmentIncomplete, {"term_enrolled"} \X TerminatedStillEnrolled,
          {"eff_mismatch"} \X EffectiveDateMismatch, {"spd"} \X DocumentMissing("spd"),
          {"renewal_risk"} \X RenewalAtRisk, {"no_plan_year"} \X PlanYearMissing("health"),
          {"plan_info"} \X PlanInformationIncomplete, {"ret_elig"} \X RetirementEligibilityUnresolved,
          {"deferral"} \X DeferralElectionDue, {"ret_no_plan_year"} \X PlanYearMissing("retirement"),
          {"adoption"} \X AdoptionAgreementMissing }

----------------------------------------------------------------------------
RosterNext ==
  \/ \E p \in Plans, status \in PLAN_STATUSES, full \in BOOLEAN, renewal \in {0, LastDay} :
       CreatePlan(p, status, full, renewal)
  \/ \E p \in Exists(plans), status \in PLAN_STATUSES : UpdatePlanStatus(p, status)
  \/ \E y \in Years, status \in YEAR_STATUSES, closes \in {0, LastDay} : CreatePlanYear(y, status, closes)
  \/ \E y \in Exists(years), status \in YEAR_STATUSES : SetPlanYearStatus(y, status)
  \/ \E p \in Plans, agreement \in BOOLEAN : SetRetirementDetails(p, agreement)
  \/ \E p \in Exists(plans), kind \in {"spd", "adoption_agreement"} : DocumentLinked(p, kind)
  \/ \E e \in Employees, status \in EMP_STATUSES, hired \in {0, 1, None} :
       CreateEmployment(e, status, hired)
  \/ \E e \in Exists(employments) : TerminateEmployment(e)
  \/ \E i \in Enrolls, effective \in {0, None} :
       (\E status \in ENROLL_STATUSES : Enroll(i, status, effective)) \/ QualifyingLifeEvent(i, effective)
  \/ \E i \in Exists(enrollments), status \in ENROLL_STATUSES : SetEnrollmentStatus(i, status)
  \/ \E i \in Exists(enrollments), deferral, roth \in Percents \cup {None} :
       SetRetirementElection(i, deferral, roth)
  \/ Midnight

\* A new employer, or one whose plans are set up, with or without a roster.
RosterInit ==
  /\ today = 0
  /\ details = [p \in Plans |-> None] /\ documents = [p \in Plans |-> {}]
  /\ elections = [i \in Enrolls |-> None]
  /\ \/ /\ plans = [p \in Plans |-> None] /\ years = [y \in Years |-> None]
        /\ employments = [e \in Employees |-> None] /\ enrollments = [i \in Enrolls |-> None]
     \/ /\ plans = [p \in Plans |-> Plan("active", TRUE, LastDay)]
        /\ years = [y \in Years |-> Year("open_enrollment", 1)]
        /\ \E hired \in {0, None} :
             employments = [e \in Employees |-> [status |-> "active", hired |-> hired]]
        /\ enrollments \in {[i \in Enrolls |-> None],
                            [i \in Enrolls |-> Enrollment("eligible", "employee", None)]}
  /\ RequestInit

RosterSpec == RosterInit /\ [][RosterNext]_rosterVars

----------------------------------------------------------------------------
(* Properties *)

\* No active employee without health coverage is overlooked or reported
\* twice: at any time exactly one of three detectors has him, the one for new
\* hires up to the end of the window and the one for eligibility from then on.
NobodyOverlooked ==
  \A e \in Employees :
    WithoutHealth(e) =>
      Cardinality({d \in {<<1, EligibilityUnresolved>>, <<2, NewHireEnrollmentDue>>,
                          <<3, RosterInformationMissing>>} : e \in d[2]}) = 1

=============================================================================
