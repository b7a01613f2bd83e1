------------------------- MODULE BenefitObligations -------------------------
(***************************************************************************)
(* An employer's compliance calendar (benefits_obligations.py).  A         *)
(* completed annual obligation opens its next occurrence in a transaction  *)
(* after the one that completes it; a nightly job makes up for those that  *)
(* were lost in between.                                                   *)
(***************************************************************************)
EXTENDS Requests

CONSTANTS
  Series,     \* obligation type, organization, plan and plan year
  Dates,      \* due dates staff enter: <<year, day>>, day = "feb29" or another
  LeapYears,  \* years that have a 29th of February
  Scheduler   \* the thread of run_benefits_scan

ASSUME ObligationAssumption ==
  /\ Scheduler \in Requests /\ Dates \subseteq Nat \X STRING
  /\ \A d \in Dates : d[2] = "feb29" => d[1] \in LeapYears

VARIABLES calendar  \* the obligations

obligationVars == <<calendar, requestVars>>

STATUS == {"scheduled", "in_progress", "completed", "cancelled", "waived"}
RECURRENCE == {"one_time", "annual", "none"}

Obligation(series, due, recurrence, key) ==
  [series |-> series, due |-> due, recurrence |-> recurrence, status |-> "scheduled", key |-> key]

ObligationInit == calendar = <<>> /\ RequestInit

\* _next_year: the same day of the next year; the 28th for the 29th of February.
NextYear(d) == <<d[1] + 1, IF d[2] = "feb29" THEN "feb28" ELSE d[2]>>

Key(o) == <<o.series, NextYear(o.due)>>
Materialized(o) == \E p \in DOMAIN calendar : calendar[p].key = Key(o)
Successor(o) == Obligation(o.series, NextYear(o.due), "annual", Key(o))

----------------------------------------------------------------------------
(* Staff *)

Stored(o) == calendar' = Append(calendar, o)

\* create_obligation, instantiate_from_template: no key is given.
CreateObligation(series, due, recurrence) ==
  /\ Serve /\ Stored(Obligation(series, due, recurrence, None))

\* create_renewal_calendar creates one milestone after the other.
RenewalStart(r, milestones) ==
  /\ Starts(r, "renewal", None, None, milestones)
  /\ UNCHANGED calendar

RenewalStep(r, m) ==
  /\ Serves(r, "renewal") /\ m \in job[r].todo
  /\ Stored(Obligation(m[1], m[2], "one_time", None))
  /\ IF job[r].todo = {m} THEN Ends(r) ELSE Goes(r, "renewal", None, None, job[r].todo \ {m})

\* update_obligation, set_status: any field, whatever the status.
UpdateObligation(o, field, value) ==
  /\ calendar' = [calendar EXCEPT ![o][field] = value]
  /\ Serve

\* complete_obligation: the row as it was read goes on to _materialize_next.
Complete(r, o) ==
  /\ calendar' = [calendar EXCEPT ![o].status = "completed"]
  /\ IF calendar[o].recurrence = "annual" THEN Starts(r, "next", None, calendar[o], {}) ELSE Serve

----------------------------------------------------------------------------
(* _materialize_next: by the request, or by materialize_recurring *)

\* Mutant: without the unique key.
InsertedTwice(o) == Stored(Successor(o))

\* The insert, which the unique key refuses when somebody else was first.
Inserted(o) == IF Materialized(o) THEN UNCHANGED calendar ELSE Stored(Successor(o))

NextRead(r) ==
  /\ Serves(r, "next")
  /\ IF Materialized(job[r].seen) THEN Ends(r) ELSE Goes(r, "insert", None, job[r].seen, {})
  /\ UNCHANGED calendar

NextInsert(r) ==
  /\ Serves(r, "insert")
  /\ Inserted(job[r].seen)
  /\ Ends(r)

\* Mutant: only what was completed since the last run, none of it lost.
DueRecently(o) == calendar[o].recurrence = "annual" /\ calendar[o].status = "completed"
                  /\ calendar[o].key # None

\* What the nightly job looks for.
Recurring(o) == calendar[o].recurrence = "annual" /\ calendar[o].status = "completed"

JobRead ==
  /\ Waits(Scheduler)
  /\ LET completed == {calendar[o] : o \in {p \in DOMAIN calendar : Recurring(p)}}
     IN  completed # {} /\ Goes(Scheduler, "job", None, None, completed)
  /\ UNCHANGED calendar

JobCheck ==
  /\ Serves(Scheduler, "job") /\ job[Scheduler].seen = None
  /\ \E o \in job[Scheduler].todo :
       Goes(Scheduler, "job", None, IF Materialized(o) THEN None ELSE o, job[Scheduler].todo \ {o})
  /\ UNCHANGED calendar

JobInsert ==
  /\ Serves(Scheduler, "job") /\ job[Scheduler].seen # None
  /\ Inserted(job[Scheduler].seen)
  /\ Goes(Scheduler, "job", None, None, job[Scheduler].todo)

JobEnd ==
  /\ Serves(Scheduler, "job") /\ job[Scheduler].seen = None /\ job[Scheduler].todo = {}
  /\ Ends(Scheduler) /\ UNCHANGED calendar

\* A death counts as a request, so that there are finitely many.
ObligationCrash(r) ==
  /\ ~Waits(r) /\ Arrives /\ job' = [job EXCEPT ![r] = Idle]
  /\ UNCHANGED calendar

----------------------------------------------------------------------------
Staff == Requests \ {Scheduler}

ObligationNext ==
  \/ \E s \in Series, due \in Dates, recurrence \in RECURRENCE : CreateObligation(s, due, recurrence)
  \/ \E r \in Staff : RenewalStart(r, Series \X Dates) \/ \E m \in job[r].todo : RenewalStep(r, m)
  \/ \E o \in DOMAIN calendar :
       \/ \E status \in STATUS : UpdateObligation(o, "status", status)
       \/ \E series \in Series : UpdateObligation(o, "series", series)
       \/ \E due \in Dates : UpdateObligation(o, "due", due)
       \/ \E recurrence \in RECURRENCE : UpdateObligation(o, "recurrence", recurrence)
       \/ \E r \in Staff : Complete(r, o)
  \/ \E r \in Staff : NextRead(r) \/ NextInsert(r)
  \/ JobRead \/ JobCheck \/ JobInsert \/ JobEnd
  \/ \E r \in Requests : ObligationCrash(r)

JobNext == JobRead \/ JobCheck \/ JobInsert \/ JobEnd
ObligationSpec == ObligationInit /\ [][ObligationNext]_obligationVars /\ WF_obligationVars(JobNext)

----------------------------------------------------------------------------
(* Properties *)

\* However requests and the nightly job overlap, and however often either is
\* retried, a series has at most one automatic occurrence for a date.
OneSuccessor ==
  \A o, p \in DOMAIN calendar : calendar[o].key # None /\ calendar[o].key = calendar[p].key => o = p

\* Every due date is a day of its year, through any number of recurrences.
DatesExist ==
  \A o \in DOMAIN calendar : calendar[o].due[2] = "feb29" => calendar[o].due[1] \in LeapYears

\* The series of an obligation stays sound for ever.
SeriesSound == OneSuccessor /\ DatesExist

CompletedAt(s, d) ==
  \E o \in DOMAIN calendar :
    /\ calendar[o].recurrence = "annual" /\ calendar[o].status = "completed"
    /\ calendar[o].series = s /\ calendar[o].due = d
OpenedAfter(s, d) == \E o \in DOMAIN calendar : calendar[o].key = <<s, NextYear(d)>>

\* Every completed annual obligation has its next occurrence in the end, also
\* when the request that completed it died before it could open one: unless
\* staff change the obligation first.
NextOccurrenceOpens ==
  \A s \in Series, d \in Dates \cup {NextYear(e) : e \in Dates} :
    CompletedAt(s, d) ~> (OpenedAfter(s, d) \/ ~CompletedAt(s, d))
=============================================================================
