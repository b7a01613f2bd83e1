------------------------ MODULE MCExceptionEngine ------------------------
(* Instances of ExceptionEngine for TLC. *)
EXTENDS ExceptionEngine, TLC

CONSTANTS c1, c2, k1, u1

\* Two callers that may do everything: a system job and an administrator.
AllCan == (c1 :> Capabilities) @@ (c2 :> Capabilities)

\* A system job and an advisor, as the migration grants him: he raises and moves
\* exceptions, and may not resolve what is a matter of compliance.
RoleCan == (c1 :> Capabilities) @@ (c2 :> {"exception.read", "exception.write"})

\* Bound: a ledger with a note in it has few status events.
MaxEventsBesideNotes == 3
WithinBounds == TotalLength(notes) = 0 \/ TotalLength(events) <= MaxEventsBesideNotes
BoundedSpec == Init /\ [][Next /\ WithinBounds']_vars
==========================================================================
