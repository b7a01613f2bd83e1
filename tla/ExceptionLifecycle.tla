------------------------ MODULE ExceptionLifecycle ------------------------
(***************************************************************************)
(* What the Exception Engine promises about the status of an exception,    *)
(* whoever drives it: rows are opened, one row moves at a time, every move *)
(* follows the approved state machine, and the one move outside it is the  *)
(* re-activation by a raise of the same condition.  The engine and the     *)
(* jobs that use it are each shown to implement this module.               *)
(***************************************************************************)
EXTENDS ExceptionRules

CONSTANT Ids       \* the rows the table may hold
VARIABLE status    \* id -> status, "absent" before the row exists

LifecycleInit == status \in [Ids -> {"absent", "open"}]

Open(i) ==
  /\ status[i] = "absent"
  /\ status' = [status EXCEPT ![i] = "open"]

\* A human, detector or sweep moves an exception along the state machine.
Advance(i, to) ==
  /\ LegalMove(status[i], to)
  /\ status' = [status EXCEPT ![i] = to]

\* raise_exception re-activates the row of a condition that came back.
Reactivate(i) ==
  /\ status[i] # "absent"
  /\ status' = [status EXCEPT ![i] = "reopened"]

LifecycleNext ==
  \E i \in Ids :
    \/ Open(i)
    \/ \E to \in Statuses : Advance(i, to)
    \/ Reactivate(i)

LifecycleSpec == LifecycleInit /\ [][LifecycleNext]_status
===========================================================================
