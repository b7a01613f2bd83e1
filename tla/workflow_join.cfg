\* Both branches of a join are completed at once: neither sees the other,
\* and the join stays pending for good.
SPECIFICATION Spec
CONSTANTS
  root = root
  left = left
  right = right
  join = join
  w1 = w1
  w2 = w2
  w3 = w3
  m1 = m1
  m2 = m2
  u1 = u1
  u2 = u2
  a1 = a1
  a2 = a2
  Team = Team
  Steps <- FourSteps
  Deps <- DiamondDeps
  Conditional <- None
  Reviewed <- None
  Workers <- TwoWorkers
  Managers <- None
  Users <- TwoUsers
  Approvals <- None
CHECK_DEADLOCK FALSE
INVARIANTS
  NothingForgotten
