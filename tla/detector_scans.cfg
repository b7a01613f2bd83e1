\* A scheduled and a manual scan over two records of any family, with changes
\* of records, moves by staff and a crash.
SPECIFICATION Spec
CONSTANTS
  k1 = k1
  k2 = k2
  job = job
  manual = manual
  Families <- AllFamilies
  Keys = {k1, k2}
  NoKey = NoKey
  Job = job
  Manual <- OneManual
  MaxChanges = 2
  MaxMoves = 2
  MaxCrashes = 1
INVARIANTS
  SettledAgrees
PROPERTIES
  RescanChangesNothing
  Converges
