\* A decision is committed and the move it stands for is then refused.
SPECIFICATION Spec
CONSTANTS
  c1 = c1
  c2 = c2
  k1 = k1
  NoKey = NoKey
  Lives <- DecisionOnly
CHECK_DEADLOCK FALSE
INVARIANTS
  DecisionsMoveReturn
