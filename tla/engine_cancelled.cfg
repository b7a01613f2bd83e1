\* Two callers that may do everything race on one row; long enough to cancel it
\* while a raise of its key is under way.
\* The system may stop: nothing forces a caller to call.
SPECIFICATION Spec
CONSTANTS
  c1 = c1
  c2 = c2
  k1 = k1
  u1 = u1
  MaxId = 1
  Keys = {k1}
  NoKey = NoKey
  RaiseKinds = {"ordinary"}
  Owners = {}
  NoOwner = NoOwner
  Callers = {c1, c2}
  Can <- AllCan
  MaxLevel = 1
  MaxEvents = 6
  MaxNotes = 0
CHECK_DEADLOCK FALSE
PROPERTY CancelledIsFinal
