---------------------------- MODULE MCTaxReturn ----------------------------
(* TaxReturn for TLC: stretches of a return's life for one request, or for *)
(* two interchangeable ones.                                               *)
EXTENDS TaxReturn, TLC

CONSTANTS c1, c2, k1

Symmetry == Permutations({c1, c2})

Quiet == [callers |-> {c1, c2}, start |-> "received", force |-> {FALSE}, detected |-> {},
          reviews |-> {}, steps |-> {}, keys |-> {}, events |-> 2, crashes |-> 1]

\* Around filing, acceptance and rejection.
Filing == [Quiet EXCEPT !.start = "ready_to_file", !.detected = {"FILING_TRANSMISSION_ERROR"},
                        !.steps = {"file"}, !.keys = {k1}]

\* Around the last review and the client's answer.
Review == [Quiet EXCEPT !.start = "partner_review", !.reviews = {"partner"}, !.steps = {"review"}]

\* From filing to the archive, one request after the other.
Closing == [Quiet EXCEPT !.callers = {c1}, !.start = "filed", !.events = 6]

\* Around the closing itself: two requests and a detector; and the same with
\* requests that may force their one move.
Delivered == [Quiet EXCEPT !.start = "delivered", !.detected = {"COMPLIANCE_SIGNOFF_MISSING"}]
Forced == [Delivered EXCEPT !.force = BOOLEAN, !.events = 1, !.crashes = 0]

\* Around the client's authorization, with a review asked for out of turn.
Decision == [Quiet EXCEPT !.callers = {c1}, !.start = "awaiting_efile_authorization",
                          !.reviews = {"manager"}, !.crashes = 0]

AllLives == {Filing, Review, Closing, Delivered, Forced}
DecisionOnly == {Decision}
=============================================================================
