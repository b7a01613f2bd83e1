----------------------------- MODULE Engagements ----------------------------
(***************************************************************************)
(* The status of the engagements of the service lines other than tax       *)
(* (engagement_service.py).                                                *)
(***************************************************************************)
EXTENDS Requests

CONSTANT ClosingDay  \* bound: the last day

ASSUME EngagementAssumption == ClosingDay \in Nat /\ None \notin 0..ClosingDay

VARIABLES
  general,   \* engagements, as [status, closed_on]
  closings,  \* history: engagement -> the values closed_on has had
  twice,     \* history: engagements that two requests changed at once
  theDay     \* today

engagementVars == <<general, closings, twice, theDay, requestVars>>

EngagementInit == general = <<>> /\ closings = <<>> /\ twice = {} /\ theDay = 0 /\ RequestInit

TerminalStatuses == {"closed", "cancelled"}

OpenGeneral ==
  /\ general' = Append(general, [status |-> "open", closed_on |-> None])
  /\ closings' = Append(closings, {})
  /\ Serve /\ UNCHANGED <<twice, theDay>>

\* update_engagement_status reads the engagement ...
StatusStart(r, e, status) ==
  /\ Starts(r, "status", e, general[e], {status})
  /\ twice' = IF \E q \in Requests : Serves(q, "status") /\ job[q].row = e THEN twice \cup {e} ELSE twice
  /\ UNCHANGED <<general, closings, theDay>>

\* Mutant: every closing sets the day.
LastClosed(seen, status) == IF status \in TerminalStatuses THEN theDay ELSE seen.closed_on

\* The day of the first closing is kept; reopening does not clear it.
ClosedOn(seen, status) ==
  IF status \in TerminalStatuses /\ seen.closed_on = None THEN theDay ELSE seen.closed_on

\* ... and writes the status, with the day only when it has to set it.
StatusWrite(r) ==
  LET e == job[r].row
      status == CHOOSE s \in job[r].todo : TRUE
      day == ClosedOn(job[r].seen, status)
  IN  /\ Serves(r, "status")
      /\ general' = [general EXCEPT ![e].status = status,
                                    ![e].closed_on = IF day # job[r].seen.closed_on THEN day ELSE @]
      /\ closings' = [closings EXCEPT ![e] = @ \cup ({general'[e].closed_on} \ {None})]
      /\ Ends(r) /\ UNCHANGED <<twice, theDay>>

EngagementDayEnds ==
  /\ theDay < ClosingDay /\ theDay' = theDay + 1
  /\ UNCHANGED <<general, closings, twice, requestVars>>

EngagementCrash(r) == Dies(r) /\ UNCHANGED <<general, closings, twice, theDay>>

EngagementNext ==
  \/ \E r \in Requests :
       \/ StatusWrite(r) \/ EngagementCrash(r)
       \/ \E e \in DOMAIN general, s \in {"open", "in_progress", "waiting"} \cup TerminalStatuses : StatusStart(r, e, s)
  \/ OpenGeneral
  \/ EngagementDayEnds

EngagementSpec == EngagementInit /\ [][EngagementNext]_engagementVars

----------------------------------------------------------------------------
(* Properties *)

\* A closed or cancelled engagement says when it was closed, and the day of its
\* first closing stays, through reopenings, unless two changes overlapped.
ClosedOnce ==
  \A e \in DOMAIN general :
    /\ general[e].status \in TerminalStatuses => general[e].closed_on # None
    /\ e \notin twice => Cardinality(closings[e]) <= 1
=============================================================================
