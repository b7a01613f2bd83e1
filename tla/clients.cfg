\* Microsoft 365 and the people it is matched to, with two requests at once.
\* The system may stop: nothing forces a request to arrive.
SPECIFICATION Spec
CONSTANTS
  r1 = r1
  r2 = r2
  i1 = i1
  p1 = p1
  p2 = p2
  m1 = m1
  e1 = e1
  a1 = a1
  None = None
  Requests = {r1, r2}
  Budgets <- SomeBudgets
  Items = {i1}
  Persons = {p1, p2}
  MaxEdits = 3
  Messages = {m1}
  Meetings = {e1}
  Addresses = {a1}
  People = {p1, p2}
  Top = 1
  Sender <- OneSender
  Attendees <- OneAttendee
  c1 = c1
  c2 = c2
  c3 = c3
  c4 = c4
  t1 = t1
  Contacts = {c1, c2, c3, c4}
  System <- Origin
  Keys = {1, 2}
  Tokens = {t1}
  Values <- OnlyKeys
  LargeGroup = 5
  f1 = f1
  f2 = f2
  f3 = f3
  n1 = n1
  n2 = n2
  s1 = s1
  Accounts = {n1, n2}
  Owners = {p1, p2}
  Mailboxes = {a1}
  Amounts = {0, 20}
  Exports = {f1, f2, f3}
  Accountings <- Reported
  Positions <- Held
  h1 = h1
  h2 = h2
  t0 = t0
  u1 = u1
  l1 = l1
  Relatives = {p1, p2}
  Households = {h1}
  Types = {t0}
  Colleagues = {u1}
  TeamsOf <- OneTeam
  Writers = {}
  Lines = {l1}
  Shares = {50}
  Homes = {h1, h2}
  Kin = {p1, p2}
  b1 = b1
  k1 = k1
  Emails = {b1}
  Clients = {p1, p2}
  Families = {h1, h2}
  Notices = {k1}
  Subjects = {p1}
  Texts = {t0}
  Titles = {t0}
  Staff = {u1}
  Roles = {t0, c1}
  Administrator = c1
  Grantable = {a1, k1}
  ReadAll = a1
  Teams = {l1}
  Entities = {p1}
  LastDay = 1
  Stages = {"awaiting_information", "in_preparation", "rejected", "accepted", "delivered"}
  Sources = {"late_item", "escalation", "reason", "approval", "assignment"}
  Spans = {8}
  Horizon = 8
  Preparers = {u1}
  GroupsOf <- OneTeam
  Readers = {}
  Offices = {l1}
  RuleDays = {3, 5}
  FinalDay = 1
  ClosingDay = 1
SYMMETRY Interchangeable
CHECK_DEADLOCK FALSE
INVARIANTS
  DocumentsFollow
  DisconnectForgets
  MatchedIsShown
  DecisionsAgree
  RelationsShown
  HouseholdsAgree
  OnceEach
  ThreadsKept
  TimelineTells
  OrdersHold
  AlarmsAgree
  OpeningIsWhole
  ClosedOnce
PROPERTIES
  ClosureIsTold
