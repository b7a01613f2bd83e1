\* One user, one team, one record; a day on which assignments begin or end.
SPECIFICATION StaffAccessSpec
CONSTANTS
  None = None
  Requests = {r1}
  Budgets = {2}
  Staff = {u1}
  Roles = {x1, administrator}
  Administrator = administrator
  Grantable = {read_all}
  ReadAll = read_all
  Teams = {t1}
  Entities = {e1}
  LastDay = 1
CHECK_DEADLOCK FALSE
INVARIANTS
  AssignmentsGrantAccess
