------------------------- MODULE MCWorkflowInstance -------------------------
(* WorkflowInstance for TLC: templates with two parallel branches that a    *)
(* last step joins; they split after a first step, or one is the longer.    *)
EXTENDS WorkflowInstance, TLC

CONSTANTS root, left, right, join, w1, w2, w3, m1, m2, u1, u2, a1, a2

FourSteps == {root, left, right, join}

DiamondDeps == [s \in FourSteps |-> CASE s = root -> {} [] s = join -> {left, right}
                                      [] OTHER -> {root}]
LadderDeps == [s \in FourSteps |-> CASE s = left -> {root} [] s = join -> {left, right}
                                     [] OTHER -> {}]
None == {}
TwoWorkers == {w1, w2}
ThreeWorkers == {w1, w2, w3}
TwoManagers == {m1, m2}
TwoUsers == {u1, u2}
TwoApprovals == {a1, a2}
LeftStep == {left}
RightStep == {right}
=============================================================================
