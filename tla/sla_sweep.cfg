\* Two exceptions under a staff move and a crash of the sweep: stale snapshots,
\* repeated sweeps, and a row closed under a sweep, which aborts it for the
\* other row.
SPECIFICATION Spec
CONSTANTS
  e1 = e1
  e2 = e2
  Ids = {e1, e2}
  NoDue = {}
  NoRow = NoRow
  Sla = 1
  AtRiskWindow = 0
  Cadence = 3
  MaxSweepTime = 1
  MaxMoves = 1
  MaxCrashes = 1
INVARIANTS
  AutoEscalationsCapped
  CountHonest
PROPERTIES
  RepeatedSweepsDoNothing
  BreachedReachesCap
