\* The services of the practice, each with two requests at once.
\* The system may stop: nothing forces a request to arrive.
SPECIFICATION Spec
CONSTANTS
  r1 = r1
  r2 = r2
  waiver = waiver
  term = term
  h = h
  k = k
  h1 = h1
  k1 = k1
  u1 = u1
  u2 = u2
  w2 = w2
  d1 = d1
  d2 = d2
  x1 = x1
  x2 = x2
  None = None
  Requests = {r1, r2}
  Budgets <- SomeBudgets
  Bases = {4}
  Splits = {50}
  Amounts = {2, 4}
  Deltas <- SomeDeltas
  ReviewDates = {1, 2}
  Riders = {waiver, term}
  Listed <- SomeListed
  Employees = {e}
  Plans = {h, k}
  Years = {h1, k1}
  LineOf <- SomeLines
  PlanOf <- SomePlans
  LastDay = 2
  NewHireWindow = 1
  EnrollmentWarning = 1
  RenewalWarning = 1
  DocumentGrace = 1
  Percents = {1, 2}
  Series = {"s"}
  Dates <- SomeDates
  LeapYears = {4, 8}
  Scheduler = r2
  Users = {u1, u2}
  Rules <- SomeRules
  LastDate = 1
  Items = {w2}
  Required = {w2}
  Documents = {d1, d2}
  Content <- SameContent
  MaxLinks = 2
  Credentials = {x1, x2}
  KindOf <- SomeKinds
  Window <- SomeWindows
  EndDates = {2, 3}
  LastScanDay = 1
CHECK_DEADLOCK FALSE
INVARIANTS
  BooksAgree
  CompletionsWhole
  NobodyOverlooked
  SeriesSound
  OwnerHonest
  ChecklistHonest
  ScansHonest
PROPERTIES
  NextOccurrenceOpens
