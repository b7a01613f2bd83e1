\* A step that is completed while the completion of another branch is under
\* way is made active again together with the step that depends on it.
SPECIFICATION Spec
CONSTANTS
  root = root
  left = left
  right = right
  join = join
  w1 = w1
  w2 = w2
  w3 = w3
  m1 = m1
  m2 = m2
  u1 = u1
  u2 = u2
  a1 = a1
  a2 = a2
  Team = Team
  Steps <- FourSteps
  Deps <- LadderDeps
  Conditional <- None
  Reviewed <- None
  Workers <- TwoWorkers
  Managers <- None
  Users <- TwoUsers
  Approvals <- None
CHECK_DEADLOCK FALSE
PROPERTIES
  ActivatesInOrder
