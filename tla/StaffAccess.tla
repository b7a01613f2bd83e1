---------------------------- MODULE StaffAccess -----------------------------
(***************************************************************************)
(* The staff of the firm (security/service.py, policy.py, authorization.py,*)
(* services/identity.py): users and their sessions, the capabilities that  *)
(* roles are composed of, and the clients a user is assigned.              *)
(***************************************************************************)
EXTENDS Requests

CONSTANTS
  Staff,         \* users
  Roles,
  Administrator, \* the protected role
  Grantable,     \* capabilities
  ReadAll,       \* the capability record.read_all
  Teams,
  Entities,      \* people and households
  LastDay        \* bound: the last day

ASSUME StaffAssumption ==
  LastDay \in Nat /\ Administrator \in Roles /\ ReadAll \in Grantable

VARIABLES
  users,        \* user -> [status, disabled: how often he was]
  logins,       \* user_sessions, as [user, asked: users[user].disabled, live]
  composition,  \* role -> its role_capabilities, as [part, row: which insert made it]
  inserts,      \* how many requests have inserted into role_capabilities
  held,         \* user_roles, as [user, role, from, until]
  memberships,  \* team_memberships, as [user, team, from, until]
  assigned,     \* record_assignments, as [user, team, entity, from, until]
  day,          \* today
  late,         \* history: sessions whose user was disabled during the sign-in
  composed,     \* history: role -> what it was asked to consist of
  meeting       \* history: roles that two requests composed at once

signInVars == <<users, logins, late>>
roleVars == <<composition, inserts, held, composed, meeting>>
scopeVars == <<memberships, assigned, day>>
staffAccessVars == <<signInVars, roleVars, scopeVars, requestVars>>

\* The rows that one insert makes, and what rows give.
Rows(parts, n) == {[part |-> c, row |-> n] : c \in parts}
Parts(rows) == {c.part : c \in rows}

StaffAccessInit ==
  /\ users = [u \in Staff |-> [status |-> "active", disabled |-> 0]]
  /\ logins = <<>> /\ late = {}
  /\ composition \in [Roles -> {{}, Rows(Grantable, 0)}] /\ inserts = 0 /\ held = {}
  /\ composed = [x \in Roles |-> {Parts(composition[x])}] /\ meeting = {}
  /\ memberships = {} /\ assigned = {} /\ day = 0
  /\ RequestInit

----------------------------------------------------------------------------
(* Sessions *)

\* authenticate_claims answers for an active user; the session is created in a
\* second transaction.
Authenticate(r, u) ==
  /\ users[u].status = "active"
  /\ Starts(r, "authenticated", u, users[u].disabled, {})
  /\ UNCHANGED <<signInVars, roleVars, scopeVars>>

CreateSession(r) ==
  LET u == job[r].row
  IN  /\ Serves(r, "authenticated")
      /\ logins' = Append(logins, [user |-> u, asked |-> job[r].seen, live |-> TRUE])
      /\ late' = IF users[u].disabled # job[r].seen THEN late \cup {Len(logins) + 1} ELSE late
      /\ Ends(r) /\ UNCHANGED <<users, roleVars, scopeVars>>

\* revoke_session, or the session has expired.
RevokeSession(n) ==
  /\ logins[n].live /\ logins' = [logins EXCEPT ![n].live = FALSE]
  /\ Serve /\ UNCHANGED <<users, late, roleVars, scopeVars>>

\* Mutant: disabling is left to the status alone.
SessionsKept(u) == logins

Revoked(u) == [n \in DOMAIN logins |-> [logins[n] EXCEPT !.live = @ /\ logins[n].user # u]]

SetUserStatus(u, status) ==
  /\ users' = [users EXCEPT ![u] = [status |-> status,
                                    disabled |-> @.disabled + (IF status = "disabled" THEN 1 ELSE 0)]]
  /\ logins' = IF status = "disabled" THEN Revoked(u) ELSE logins
  /\ Serve /\ UNCHANGED <<late, roleVars, scopeVars>>

\* resolve_principal
Resolves(n) == logins[n].live /\ users[logins[n].user].status = "active"

----------------------------------------------------------------------------
(* Roles *)

\* What is left of a role when the rows that the request found are deleted: the
\* rows that another has inserted meanwhile.
Remaining(x, gone) == composition[x] \ gone

\* compose_role, by a user who has the capabilities mine and may give no others,
\* deletes what the role consists of ...
ComposeStart(r, x, parts, mine) ==
  /\ x # Administrator /\ parts \subseteq mine
  /\ Starts(r, "composing", x, composition[x], parts)
  /\ meeting' = IF \E q \in Requests : Serves(q, "composing") /\ job[q].row = x
                THEN meeting \cup {x} ELSE meeting
  /\ UNCHANGED <<composition, inserts, held, composed, signInVars, scopeVars>>

\* ... and inserts what it is to consist of; a row that another request has
\* inserted meanwhile is refused by the primary key, with the transaction.
ComposeCommit(r) ==
  LET x == job[r].row
      left == Remaining(x, job[r].seen)
  IN  /\ Serves(r, "composing")
      /\ IF Parts(left) \cap job[r].todo # {} THEN UNCHANGED <<composition, composed, inserts>>
         ELSE /\ composition' = [composition EXCEPT ![x] = left \cup Rows(job[r].todo, inserts + 1)]
              /\ composed' = [composed EXCEPT ![x] = @ \cup {job[r].todo}]
              /\ inserts' = inserts + 1
      /\ Ends(r) /\ UNCHANGED <<held, meeting, signInVars, scopeVars>>

\* assign_role reads what the role gives, under the same ceiling, and inserts.
GiveStart(r, u, x, mine) ==
  /\ Parts(composition[x]) \subseteq mine
  /\ Starts(r, "giving", u, x, {})
  /\ UNCHANGED <<signInVars, roleVars, scopeVars>>

GiveCommit(r, from, until) ==
  /\ Serves(r, "giving")
  /\ held' = held \cup {[user |-> job[r].row, role |-> job[r].seen, from |-> from, until |-> until]}
  /\ Ends(r) /\ UNCHANGED <<composition, inserts, composed, meeting, signInVars, scopeVars>>

\* capability_codes_query: what the user may do, by the roles he holds today.
CapabilitiesOf(u) ==
  LET today == {h \in held : h.user = u /\ h.from <= day /\ (h.until = None \/ h.until >= day)}
  IN  UNION {Parts(composition[h.role]) : h \in today}

----------------------------------------------------------------------------
(* Record scope *)

AddTeamMembership(u, t, from, until) ==
  /\ memberships' = memberships \cup {[user |-> u, team |-> t, from |-> from, until |-> until]}
  /\ Serve /\ UNCHANGED <<assigned, day, signInVars, roleVars>>

\* assign_record, for a user, and assign_work, which may name a team alone.
AssignRecord(u, t, entity, from, until) ==
  /\ u # None \/ t # None
  /\ assigned' = assigned \cup
       {[user |-> u, team |-> t, entity |-> entity, from |-> from, until |-> until]}
  /\ Serve /\ UNCHANGED <<memberships, day, signInVars, roleVars>>

DeactivateAssignment(a) ==
  /\ assigned' = (assigned \ {a}) \cup {[a EXCEPT !.until = day]}
  /\ Serve /\ UNCHANGED <<memberships, day, signInVars, roleVars>>

DayEnds ==
  /\ day < LastDay /\ day' = day + 1
  /\ UNCHANGED <<memberships, assigned, signInVars, roleVars, requestVars>>

\* has_record_scope, which decides whether a record opens for reading; for
\* writing it asks for record.write_all in the place of record.read_all.
HasRecordScope(u, entity) ==
  \/ ReadAll \in CapabilitiesOf(u)
  \/ \E a \in assigned : /\ a.user = u /\ a.entity = entity
                         /\ a.from <= day /\ (a.until = None \/ a.until >= day)

\* _active, team_ids, and what accessible_person_ids and organization_in_scope
\* take for assigned to a user.
Active(row) == row.from <= day /\ (row.until = None \/ row.until >= day)
TeamIds(u) == {m.team : m \in {m \in memberships : m.user = u /\ Active(m)}}
InReach(u) ==
  {a.entity : a \in {a \in assigned : Active(a) /\ (a.user = u \/ a.team \in TeamIds(u))}}

----------------------------------------------------------------------------
StaffAccessCrash(r) == Dies(r) /\ UNCHANGED <<signInVars, roleVars, scopeVars>>

UserStatuses == {"invited", "active", "disabled"}
Calendar == 0..LastDay
Untils == Calendar \cup {None}

StaffAccessNext ==
  \/ \E r \in Requests :
       \/ CreateSession(r) \/ ComposeCommit(r) \/ StaffAccessCrash(r)
       \/ \E x \in Roles, parts, mine \in SUBSET Grantable : ComposeStart(r, x, parts, mine)
       \/ \E u \in Staff, x \in Roles, mine \in SUBSET Grantable : GiveStart(r, u, x, mine)
       \/ \E from \in Calendar, until \in Untils : GiveCommit(r, from, until)
       \/ \E u \in Staff : Authenticate(r, u)
  \/ \E n \in DOMAIN logins : RevokeSession(n)
  \/ \E u \in Staff, s \in UserStatuses : SetUserStatus(u, s)
  \/ \E u \in Staff, t \in Teams, from \in Calendar, until \in Untils : AddTeamMembership(u, t, from, until)
  \/ \E u \in Staff \cup {None}, t \in Teams \cup {None}, e \in Entities, from \in Calendar, until \in Untils :
       AssignRecord(u, t, e, from, until)
  \/ \E a \in assigned : DeactivateAssignment(a)
  \/ DayEnds

StaffAccessSpec == StaffAccessInit /\ [][StaffAccessNext]_staffAccessVars

----------------------------------------------------------------------------
(* Properties *)

\* A user who is disabled and made active again has to sign in again: no session
\* from before resolves, except one whose sign-in the disabling met halfway.
SessionsEndWithUser ==
  \A n \in DOMAIN logins :
    Resolves(n) /\ n \notin late => logins[n].asked = users[logins[n].user].disabled

\* A role consists of what one request asked for, never of what two asked for,
\* unless they composed it at once.
RoleAsComposed == \A x \in Roles \ meeting : Parts(composition[x]) \in composed[x]

\* What an administrator has ordered is what holds.
OrdersHold == SessionsEndWithUser /\ RoleAsComposed

\* What a user is assigned, himself or through a team that he is in today, opens
\* for him (docs/PRODUCTION_ARCHITECTURE.md:205).
AssignmentsGrantAccess == \A u \in Staff : \A e \in InReach(u) : HasRecordScope(u, e)
=============================================================================
