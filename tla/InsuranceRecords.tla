-------------------------- MODULE InsuranceRecords --------------------------
(***************************************************************************)
(* A policy, its case, their requirements and servicing reviews            *)
(* (insurance.py).  Statuses are set by id and nothing is locked; what has *)
(* to be right in spite of that is the calendar of reviews, where a        *)
(* completed annual review opens the next one under a unique key.          *)
(***************************************************************************)
EXTENDS Requests

CONSTANTS
  ReviewDates,    \* due dates of reviews
  Riders,   \* rider types, with the requirement the catalog lists for them:
  Listed    \* "included", "available", "optional", "excluded" or None

VARIABLES
  status,       \* of the policy, its case and the carrier's underwriting
  requirements, \* status of each requirement of the policy or case
  riders,       \* riders attached to the policy
  reviews,      \* servicing reviews of the policy
  audited       \* reviews of which the audit trail says that they were completed

insuranceVars == <<status, requirements, riders, reviews, audited, requestVars>>

PolicyStatuses == {"proposed", "in_force", "lapsed"}
CaseStatuses == {"open", "underwriting", "closed"}
REVIEW_TYPES == {"annual", "servicing"}
ReviewTargets == {"scheduled", "in_progress", "deferred", "cancelled"}

InsuranceInit ==
  /\ status = [policy |-> "proposed", case |-> "open", underwriting |-> None]
  /\ requirements = <<>> /\ riders = {} /\ reviews = <<>> /\ audited = {}
  /\ RequestInit

\* update_policy_status, update_case_status, set_underwriting_status: any
\* status may follow any other.
StatusSet(subject, to) ==
  /\ status' = [status EXCEPT ![subject] = to]
  /\ Serve /\ UNCHANGED <<requirements, riders, reviews, audited>>

RequestRequirement ==
  /\ requirements' = Append(requirements, "requested")
  /\ Serve /\ UNCHANGED <<status, riders, reviews, audited>>

SatisfyRequirement(q) ==
  /\ requirements' = [requirements EXCEPT ![q] = "satisfied"]
  /\ Serve /\ UNCHANGED <<status, riders, reviews, audited>>

\* A rider that is absent from the catalog, or excluded, is not compatible.
Compatible(rider) == Listed[rider] \in {"included", "available", "optional"}

AddRider(rider) ==
  /\ Compatible(rider)
  /\ riders' = riders \cup {rider}
  /\ Serve /\ UNCHANGED <<status, requirements, reviews, audited>>

Review(kind, state, due, key) ==
  [kind |-> kind, status |-> state, due |-> due, next |-> None, key |-> key]

ScheduleReview(kind, due, scheduled) ==
  /\ reviews' = Append(reviews, Review(kind, IF scheduled THEN "scheduled" ELSE "due", due, None))
  /\ Serve /\ UNCHANGED <<status, requirements, riders, audited>>

UpdateReviewStatus(v, to) ==
  /\ reviews' = [reviews EXCEPT ![v].status = to]
  /\ Serve /\ UNCHANGED <<status, requirements, riders, audited>>

Completed(v, next) == [reviews EXCEPT ![v].status = "completed", ![v].next = next]

\* complete_review updates the row, which locks it, writes the audit event in
\* a transaction of its own, and looks for the next occurrence.
Occurs(kind, date) == \E v \in DOMAIN reviews : reviews[v].key = <<kind, date>>

Locked(v) == \E r \in Requests : Serves(r, "complete") /\ job[r].row = v

Audit(v) == audited' = audited \cup {v}

CompleteRead(r, v, next) ==
  /\ ~Locked(v)
  /\ Audit(v)
  /\ Starts(r, "complete", v,
            [next |-> next,
             insert |-> next # None /\ reviews[v].kind = "annual" /\ ~Occurs("annual", next)], {})
  /\ UNCHANGED <<status, requirements, riders, reviews>>

\* Mutant: the next occurrence is left to somebody else.
WrittenAlone(r) == reviews' = Completed(job[r].row, job[r].seen.next)

\* The transaction as it commits; the unique index rolls it back when the
\* next occurrence has been opened meanwhile.
Written(r) ==
  LET v == job[r].row
      next == job[r].seen.next
  IN  reviews' = IF ~job[r].seen.insert THEN Completed(v, next)
                 ELSE IF Occurs("annual", next) THEN reviews
                 ELSE Append(Completed(v, next), Review("annual", "due", next, <<"annual", next>>))

CompleteWrite(r) ==
  /\ Serves(r, "complete")
  /\ Written(r)
  /\ Ends(r) /\ UNCHANGED <<status, requirements, riders, audited>>

InsuranceCrash(r) ==
  Dies(r) /\ UNCHANGED <<status, requirements, riders, reviews, audited>>

InsuranceNext ==
  \/ \E to \in PolicyStatuses : StatusSet("policy", to)
  \/ \E to \in CaseStatuses : StatusSet("case", to)
  \/ \E to \in {"submitted", "approved"} : StatusSet("underwriting", to)
  \/ RequestRequirement
  \/ \E q \in DOMAIN requirements : SatisfyRequirement(q)
  \/ \E rider \in Riders : AddRider(rider)
  \/ \E kind \in REVIEW_TYPES, due \in ReviewDates, scheduled \in BOOLEAN :
       ScheduleReview(kind, due, scheduled)
  \/ \E v \in DOMAIN reviews, to \in ReviewTargets : ~Locked(v) /\ UpdateReviewStatus(v, to)
  \/ \E r \in Requests :
       \/ \E v \in DOMAIN reviews, next \in ReviewDates \cup {None} : CompleteRead(r, v, next)
       \/ CompleteWrite(r) \/ InsuranceCrash(r)

InsuranceSpec == InsuranceInit /\ [][InsuranceNext]_insuranceVars

----------------------------------------------------------------------------
(* Properties *)

\* However completions overlap, a date has at most one next occurrence.
OneOccurrence ==
  \A v, w \in DOMAIN reviews : reviews[v].key # None /\ reviews[v].key = reviews[w].key => v = w

\* A completed annual review for which a next date was set has a successor on
\* the calendar: completion and next occurrence are one transaction.
NextIsOnCalendar ==
  \A v \in DOMAIN reviews :
    reviews[v].kind = "annual" /\ reviews[v].next # None => Occurs("annual", reviews[v].next)

\* No review is completed without an audit event, although the event is
\* written in another transaction.
CompletionAudited ==
  \A v \in DOMAIN reviews : reviews[v].status = "completed" => v \in audited

\* What the completion of a review leaves behind, however completions overlap
\* and wherever one fails: one next occurrence, on the calendar, and an audit.
CompletionsWhole == OneOccurrence /\ NextIsOnCalendar /\ CompletionAudited
=============================================================================
