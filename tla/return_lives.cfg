\* Stretches of a return's life: two requests and one crash around filing,
\* around the last review and around closing, where a detector raises a
\* blocker; two requests that may force; and one request with a crash from
\* filing to the archive.
SPECIFICATION Spec
CONSTANTS
  c1 = c1
  c2 = c2
  k1 = k1
  NoKey = NoKey
  Lives <- AllLives
CHECK_DEADLOCK FALSE
SYMMETRY Symmetry
INVARIANTS
  LedgersAgree
  DecisionsActOnce
  BlockersFollow
