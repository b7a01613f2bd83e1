--------------------------- MODULE WorkAssignments ---------------------------
(***************************************************************************)
(* The assignments of one exception (work_management.py) and the cache of  *)
(* its owner (exception_work.py, benefits_work.py, insurance_work.py).     *)
(* An assignment counts until the end of the day on which it is ended; the *)
(* check for a primary, the insert and the cache are three transactions.   *)
(* The same assignments are reached through two routes: the exception's    *)
(* own, which keep the owner in step, and those of Work Management         *)
(* (app/routes/work.py), which do not know of the cache.                   *)
(***************************************************************************)
EXTENDS Requests

CONSTANTS
  Users,     \* assignees: users or teams
  Rules,     \* assignment rules that match, by priority: <<role, assignee>>
  LastDate   \* bound: days

VARIABLES
  date,
  assignments, \* record_assignments of the exception, oldest first
  owner,       \* owner_user_id, owner_team_id of the exception
  \* History, for the property: whether the last change of an owner came
  \* through the exception's routes, alone and to its end; and the requests
  \* that another one met before they wrote the cache.
  trusted, met

ownerHistory == <<trusted, met>>
workVars == <<date, assignments, owner, ownerHistory, requestVars>>

ASSIGNMENT_ROLES == {"primary", "secondary", "supervisor", "owner"}
OWNER_ROLES == {"primary", "owner"}
ROUTES == {"exceptions", "work"}

WorkInit ==
  /\ date = 0 /\ assignments = <<>> /\ owner = None /\ RequestInit
  /\ trusted = TRUE /\ met = {}

Assignment(role, user) == [role |-> role, user |-> user, since |-> date, inactive |-> None]

\* The unique keys of record_assignments: one open primary, and one row of a
\* user in a role from a day on.
Accepts(rows, role, user) ==
  \A a \in DOMAIN rows :
    /\ role = "primary" => rows[a].role # "primary" \/ rows[a].inactive # None
    /\ <<rows[a].role, rows[a].user, rows[a].since>> # <<role, user, date>>

\* _active: to the end of the day of its inactive_date.
Active(a) == assignments[a].inactive = None \/ assignments[a].inactive >= date
HasPrimary == \E a \in DOMAIN assignments : Active(a) /\ assignments[a].role = "primary"
Assigned == \E a \in DOMAIN assignments : Active(a)

\* assign_work refuses a second primary, by what it reads first.
Refused(role) == role = "primary" /\ HasPrimary

AssignRead(r, route, role, user) ==
  /\ ~Refused(role)
  /\ Starts(r, "assign", role, user, {route})
  /\ UNCHANGED <<date, assignments, owner, ownerHistory>>

Recorded(role, user) == assignments' = Append(assignments, Assignment(role, user))

\* The requests that have changed who owns the exception and not its cache.
Syncing == {r \in Requests : Serves(r, "sync") /\ job[r].row \in OWNER_ROLES}

\* History: one more request goes on to the cache; or one never will.
SyncBegins(r, role) ==
  /\ met' = IF role \in OWNER_ROLES /\ Syncing # {} THEN met \cup Syncing \cup {r} ELSE met
  /\ UNCHANGED trusted

Bypasses(role) ==
  IF role \in OWNER_ROLES THEN trusted' = FALSE /\ met' = met \cup Syncing ELSE UNCHANGED ownerHistory

AssignInsert(r) ==
  LET role == job[r].row
      user == job[r].seen
  IN  /\ Serves(r, "assign")
      /\ \/ /\ Accepts(assignments, role, user) /\ job[r].todo = {"exceptions"}
            /\ Recorded(role, user) /\ Goes(r, "sync", role, user, {}) /\ SyncBegins(r, role)
         \/ /\ Accepts(assignments, role, user) /\ job[r].todo = {"work"}
            /\ Recorded(role, user) /\ Ends(r) /\ UNCHANGED ownerHistory
         \/ /\ ~Accepts(assignments, role, user)
            /\ Ends(r) /\ UNCHANGED <<assignments, ownerHistory>>
      /\ UNCHANGED <<date, owner>>

\* Mutant: a removal does not clear the owner.
OwnerReplaced(role, user) == owner' = IF role \in OWNER_ROLES /\ user # None THEN user ELSE owner

\* _sync_owner, after every call with the role of the assignment.
OwnerSynced(role, user) == owner' = IF role \in OWNER_ROLES THEN user ELSE owner

SyncOwner(r) ==
  /\ Serves(r, "sync")
  /\ OwnerSynced(job[r].row, job[r].seen)
  /\ trusted' = (IF r \in Syncing THEN r \notin met ELSE trusted) /\ met' = met \ {r}
  /\ Ends(r) /\ UNCHANGED <<date, assignments>>

\* The assignment ends today, whether or not it has ended before.
Ended(a) == [assignments EXCEPT ![a].inactive = date]

\* The exception's routes go on to the cache; Work Management is done.
Follows(r, route, role, user) ==
  \/ route = "exceptions" /\ Starts(r, "sync", role, user, {}) /\ SyncBegins(r, role)
  \/ route = "work" /\ Serve /\ Bypasses(role)

Reassign(r, route, a, user) ==
  /\ Accepts(Ended(a), assignments[a].role, user)
  /\ assignments' = Append(Ended(a), Assignment(assignments[a].role, user))
  /\ Follows(r, route, assignments[a].role, user)
  /\ UNCHANGED <<date, owner>>

Deactivate(r, route, a) ==
  /\ assignments' = Ended(a)
  /\ Follows(r, route, assignments[a].role, None)
  /\ UNCHANGED <<date, owner>>

\* auto_assign_unassigned finds the exception without an assignment ...
AutoRead(r) ==
  /\ ~Assigned
  /\ Starts(r, "rules", None, None, 1..Len(Rules))
  /\ UNCHANGED <<date, assignments, owner, ownerHistory>>

\* ... and apply_assignment_rules works through the rules: a refusal ends it,
\* and so does a primary.  The owner is left alone.
RuleRead(r) ==
  /\ Serves(r, "rules") /\ job[r].seen = None
  /\ \/ job[r].todo = {} /\ Ends(r)
     \/ \E i \in job[r].todo :
          /\ \A j \in job[r].todo : i <= j
          /\ IF Refused(Rules[i][1]) THEN Ends(r)
             ELSE Goes(r, "rules", None, Rules[i], job[r].todo \ {i})
  /\ UNCHANGED <<date, assignments, owner, ownerHistory>>

RuleInsert(r) ==
  LET rule == job[r].seen
  IN  /\ Serves(r, "rules") /\ rule # None
      /\ IF Accepts(assignments, rule[1], rule[2]) THEN Recorded(rule[1], rule[2])
         ELSE UNCHANGED assignments
      /\ IF rule[1] = "primary" \/ ~Accepts(assignments, rule[1], rule[2]) THEN Ends(r)
         ELSE Goes(r, "rules", None, None, job[r].todo)
      /\ UNCHANGED <<date, owner, ownerHistory>>

DateChanges == date < LastDate /\ date' = date + 1 /\ UNCHANGED <<assignments, owner, ownerHistory, requestVars>>

WorkCrash(r) ==
  /\ Dies(r)
  /\ trusted' = (trusted /\ r \notin Syncing) /\ met' = met \ {r}
  /\ UNCHANGED <<date, assignments, owner>>

WorkNext ==
  \/ \E r \in Requests :
       \/ \E route \in ROUTES :
            \/ \E role \in ASSIGNMENT_ROLES, user \in Users : AssignRead(r, route, role, user)
            \/ \E a \in DOMAIN assignments :
                 Deactivate(r, route, a) \/ \E user \in Users : Reassign(r, route, a, user)
       \/ AssignInsert(r) \/ SyncOwner(r) \/ AutoRead(r) \/ RuleRead(r) \/ RuleInsert(r) \/ WorkCrash(r)
  \/ DateChanges

WorkSpec == WorkInit /\ [][WorkNext]_workVars

----------------------------------------------------------------------------
(* Properties *)

\* An assignment that nobody has ended makes its assignee an owner.
Owns(user) ==
  \E a \in DOMAIN assignments :
    assignments[a].role \in OWNER_ROLES /\ assignments[a].user = user /\ assignments[a].inactive = None

\* The owner an exception shows is one of those that its assignments name -
\* a primary or an owner, whoever came last -, or it shows none: unless the
\* last change of an owner met another one, died before the cache, or came
\* through Work Management, after which the next change puts it right.
OwnerHonest == trusted /\ Syncing = {} => owner = None \/ Owns(owner)
=============================================================================
