----------------------------- MODULE MCPractice -----------------------------
(* The services of the practice for TLC.  They share no state, so that one *)
(* of them is looked at at a time: the state spaces add up.                *)
EXTENDS InsuranceCommissions, InsuranceRecords, BenefitRoster, BenefitObligations,
        WorkAssignments, TaxIntake, ProducerLicensing, TLC

CONSTANTS r1, r2, waiver, term, h, k, h1, k1, u1, u2, w2, d1, d2, x1, x2

SomeDeltas == {-3, 1}
SomeListed == (waiver :> "available") @@ (term :> "excluded")
SomeLines == (h :> "health") @@ (k :> "retirement")
SomePlans == (h1 :> h) @@ (k1 :> k)
SomeDates == {<<4, "feb29">>, <<5, "feb28">>}
SomeRules == << <<"secondary", u2>>, <<"primary", u1>> >>
SomeKinds == (x1 :> "license") @@ (x2 :> "education")
SomeWindows == [license |-> 1, education |-> 2]
SameContent == (d1 :> "x") @@ (d2 :> "x")
SomeBudgets == 3..5

VARIABLE part  \* the service that is looked at

commissionsOwn == <<producers, ledger, lines, statements>>
recordsOwn == <<status, requirements, riders, reviews, audited>>
rosterOwn == <<today, orgVars, staffVars>>
obligationsOwn == <<calendar>>
workOwn == <<date, assignments, owner, ownerHistory>>
intakeOwn == <<papers, checklist, requests, missing, links, steps, apart, moved>>
licensingOwn == <<credentials, reminders, before, reports, evenness, scanDay>>

vars == <<part, commissionsOwn, recordsOwn, rosterOwn, obligationsOwn, workOwn, intakeOwn, licensingOwn, requestVars>>

Budget == [commissions |-> 4, records |-> 4, roster |-> 3, obligations |-> 4, work |-> 3, intake |-> 5,
           licensing |-> 4]

Init ==
  /\ part \in DOMAIN Budget
  /\ CommissionInit
  /\ InsuranceInit
  /\ RosterInit /\ (part = "roster" \/ \A p \in Plans : plans[p] = None)
  /\ ObligationInit
  /\ WorkInit
  /\ IntakeInit
  /\ LicensingInit
  /\ budget = Budget[part]

OthersCommission == <<part, recordsOwn, rosterOwn, obligationsOwn, workOwn, intakeOwn, licensingOwn>>
OthersInsurance == <<part, commissionsOwn, rosterOwn, obligationsOwn, workOwn, intakeOwn, licensingOwn>>
OthersRoster == <<part, commissionsOwn, recordsOwn, obligationsOwn, workOwn, intakeOwn, licensingOwn>>
OthersObligation == <<part, commissionsOwn, recordsOwn, rosterOwn, workOwn, intakeOwn, licensingOwn>>
OthersWork == <<part, commissionsOwn, recordsOwn, rosterOwn, obligationsOwn, intakeOwn, licensingOwn>>
OthersIntake == <<part, commissionsOwn, recordsOwn, rosterOwn, obligationsOwn, workOwn, licensingOwn>>
OthersLicensing == <<part, commissionsOwn, recordsOwn, rosterOwn, obligationsOwn, workOwn, intakeOwn>>

Next ==
  \/ part = "commissions" /\ CommissionNext /\ UNCHANGED OthersCommission
  \/ part = "records" /\ InsuranceNext /\ UNCHANGED OthersInsurance
  \/ part = "roster" /\ RosterNext /\ UNCHANGED OthersRoster
  \/ part = "obligations" /\ ObligationNext /\ UNCHANGED OthersObligation
  \/ part = "work" /\ WorkNext /\ UNCHANGED OthersWork
  \/ part = "intake" /\ IntakeNext /\ UNCHANGED OthersIntake
  \/ part = "licensing" /\ LicensingNext /\ UNCHANGED OthersLicensing

Spec ==
  /\ Init /\ [][Next]_vars
  /\ WF_vars(part = "obligations" /\ JobNext /\ UNCHANGED OthersObligation)
=============================================================================
