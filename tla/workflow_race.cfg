\* Three workers, two managers and two approvals on a diamond of four steps: no
\* step runs before what it depends on, and the step that completes the
\* instance is its last.
SPECIFICATION Spec
CONSTANTS
  root = root
  left = left
  right = right
  join = join
  w1 = w1
  w2 = w2
  w3 = w3
  m1 = m1
  m2 = m2
  u1 = u1
  u2 = u2
  a1 = a1
  a2 = a2
  Team = Team
  Steps <- FourSteps
  Deps <- DiamondDeps
  Conditional <- RightStep
  Reviewed <- LeftStep
  Workers <- ThreeWorkers
  Managers <- TwoManagers
  Users <- TwoUsers
  Approvals <- TwoApprovals
PROPERTIES
  ActivatesAfterDependencies
  NoStepLeftBehind
