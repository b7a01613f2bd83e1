\* A system job and an advisor race on one dedupe key; two rows, which are a matter
\* of compliance, so that the advisor does all but resolve them; one note.
\* The system may stop: nothing forces a caller to call.
SPECIFICATION BoundedSpec
CONSTANTS
  c1 = c1
  c2 = c2
  k1 = k1
  u1 = u1
  MaxId = 2
  Keys = {k1}
  NoKey = NoKey
  RaiseKinds = {"compliance"}
  Owners = {u1}
  NoOwner = NoOwner
  Callers = {c1, c2}
  Can <- RoleCan
  MaxLevel = 1
  MaxEvents = 5
  MaxNotes = 1
CHECK_DEADLOCK FALSE
INVARIANTS
  OneActivePerKey
  LedgerExplainsRow
  ChainUnlessReactivated
  RecordsHonest
PROPERTIES
  ImplementsLifecycle
