--------------------------- MODULE ExceptionRules ---------------------------
(***************************************************************************)
(* The constant part of the Exception Engine: the status sets, the         *)
(* approved state machine and the capability a resolution needs, as the    *)
(* engine (app/services/exception_engine.py) declares them.  Shared by the *)
(* engine itself and by the jobs that drive it.                            *)
(***************************************************************************)

ACTIVE_STATUSES == {"open", "acknowledged", "in_progress", "waiting",
                    "escalated", "reopened"}

CLOSED_STATUSES == {"resolved", "cancelled"}

Statuses == ACTIVE_STATUSES \cup CLOSED_STATUSES

\* TRANSITIONS: the generic edges.  "escalated" is entered by escalate only.
TRANSITIONS ==
  [open         |-> {"acknowledged", "in_progress", "cancelled"},
   acknowledged |-> {"in_progress", "cancelled"},
   in_progress  |-> {"waiting", "resolved", "cancelled"},
   waiting      |-> {"in_progress", "resolved", "cancelled"},
   escalated    |-> {"in_progress", "resolved", "cancelled"},
   reopened     |-> {"in_progress", "cancelled"},
   resolved     |-> {"reopened"},
   cancelled    |-> {}]

\* What resolve() requires of the caller, from the row's category and
\* severity: kind is "compliance", "blocker" or "ordinary".
ResolveCapability(kind) ==
  CASE kind = "compliance" -> "exception.compliance"
    [] kind = "blocker"    -> "exception.resolve"
    [] OTHER               -> "exception.write"

Kinds == {"ordinary", "blocker", "compliance"}

Capabilities == {"exception.read", "exception.write", "exception.resolve",
                 "exception.compliance"}

\* The moves the approved state machine allows: the generic edges, and
\* escalate from any active status.
LegalMove(from, to) ==
  \/ from \in Statuses /\ to \in TRANSITIONS[from]
  \/ from \in ACTIVE_STATUSES /\ to = "escalated"
=============================================================================
