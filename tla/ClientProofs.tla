----------------------------- MODULE ClientProofs -----------------------------
(*****************************************************************************)
(* Theorems about what surrounds a client, for every set of requests and     *)
(* every instance of the constants: the staff's access to a client,          *)
(* engagements, households, the portal, the relationships between            *)
(* organizations and people, the opening of a tax engagement, the record of a *)
(* person, and the scan of a tax return.  What a request has read is in its  *)
(* record of job; each invariant says what of it still holds when it writes. *)
(*****************************************************************************)
EXTENDS StaffAccess, Engagements, Households, Portal, Relationships, TaxEngagements,
        PersonRecord, TaxScan, FiniteSetTheorems, TLAPS

----------------------------------------------------------------------------
(* Threads and their locals *)

\* The locals of the threads are a function, and only one thread's change.
Threads == job = [r \in Requests |-> job[r]]

Others(r) == Threads' /\ \A q \in Requests \ {r} : job'[q] = job[q]

Held(j, place, row, seen, todo) == j.at = place /\ j.row = row /\ j.seen = seen /\ j.todo = todo

LEMMA LocalSteps ==
  ASSUME Threads, NEW r \in Requests, NEW place, NEW row, NEW seen, NEW todo,
         Local(r, place, row, seen, todo)
  PROVE  Others(r) /\ Held(job'[r], place, row, seen, todo)
<1>1. job' = [job EXCEPT ![r] = [at |-> place, row |-> row, seen |-> seen, todo |-> todo]]
  BY DEF Local
<1>2. job'[r] = [at |-> place, row |-> row, seen |-> seen, todo |-> todo]
  BY <1>1 DEF Threads
<1>3. Others(r)
  BY <1>1 DEF Threads, Others
<1> QED BY <1>2, <1>3 DEF Held

LEMMA Calls ==
  ASSUME Threads, NEW r \in Requests, NEW place, NEW row, NEW seen, NEW todo, Starts(r, place, row, seen, todo)
  PROVE  Others(r) /\ Held(job'[r], place, row, seen, todo) /\ job[r].at = "idle" /\ job'[r].at = place
<1>1. Local(r, place, row, seen, todo)
  BY DEF Starts
<1>2. Others(r) /\ Held(job'[r], place, row, seen, todo)
  BY <1>1, LocalSteps
<1>3. job[r].at = "idle"
  BY DEF Starts, Waits, Idle
<1> QED BY <1>2, <1>3 DEF Held

LEMMA EndSteps ==
  ASSUME Threads, NEW r \in Requests, Ends(r)
  PROVE  Others(r) /\ job'[r] = Idle /\ job'[r].at = "idle" /\ UNCHANGED budget
BY DEF Threads, Others, Ends, Idle

\* The threads at a place, before and after, are the same with the same locals.
Undisturbed(place) ==
  \A q \in Requests : job[q].at = place \/ job'[q].at = place => job'[q] = job[q]

LEMMA OtherPlaces ==
  ASSUME NEW r \in Requests, Others(r), NEW place, job[r].at # place, job'[r].at # place
  PROVE  Undisturbed(place)
BY DEF Others, Undisturbed

LEMMA StillPlaces == ASSUME UNCHANGED job, NEW place PROVE Undisturbed(place)
BY DEF Undisturbed

----------------------------------------------------------------------------
(* The access of the staff *)

UserRows == [status : UserStatuses, disabled : Nat]
LoginRows == [user : Staff, asked : Nat, live : BOOLEAN]

\* A sign-in that is halfway holds a user and how often he had been disabled.
SigningIn(j) == j.at = "authenticated" => j.row \in Staff /\ j.seen \in Nat

SignInInv ==
  /\ users \in [Staff -> UserRows] /\ logins \in Seq(LoginRows)
  /\ \A r \in Requests : SigningIn(job[r])
  /\ \A n \in DOMAIN logins :
       logins[n].live /\ n \notin late => logins[n].asked = users[logins[n].user].disabled

\* For a role that no two requests compose at once, a request that composes it
\* has found what the role consists of, and is alone.
Composing(r, x) == Serves(r, "composing") /\ job[r].row = x

RoleInv ==
  /\ composition = [x \in Roles |-> composition[x]]
  /\ composed = [x \in Roles |-> composed[x]]
  /\ \A r \in Requests : Serves(r, "composing") => job[r].row \in Roles
  /\ \A x \in Roles \ meeting :
       /\ Parts(composition[x]) \in composed[x]
       /\ \A r, q \in Requests : Composing(r, x) /\ Composing(q, x) => r = q
       /\ \A r \in Requests : Composing(r, x) => job[r].seen = composition[x]

StaffInv == Threads /\ SignInInv /\ RoleInv

LEMMA RowsGive == ASSUME NEW parts, NEW n PROVE Parts(Rows(parts, n)) = parts
<1>1. \A c : c \in Parts(Rows(parts, n)) <=> \E row \in Rows(parts, n) : c = row.part
  BY DEF Parts
<1>2. \A row \in Rows(parts, n) : row.part \in parts
  BY DEF Rows
<1>3. ASSUME NEW c \in parts PROVE c \in Parts(Rows(parts, n))
  <2>1. [part |-> c, row |-> n] \in Rows(parts, n) /\ [part |-> c, row |-> n].part = c
    BY DEF Rows
  <2> QED BY <1>1, <2>1
<1> QED BY <1>1, <1>2, <1>3

LEMMA StaffInit == StaffAccessInit => StaffInv
BY DEF StaffAccessInit, RequestInit, Idle, StaffInv, Threads, SignInInv, RoleInv, UserRows,
   UserStatuses, SigningIn, Composing, Serves

LEMMA SignInsStay ==
  ASSUME SignInInv, UNCHANGED <<users, logins, late>>, \A r \in Requests : SigningIn(job'[r])
  PROVE  SignInInv'
BY DEF SignInInv, SigningIn

LEMMA RolesStay ==
  ASSUME RoleInv, UNCHANGED <<composition, composed, meeting>>,
         \A r \in Requests : job'[r].at = "composing" => job'[r] = job[r]
  PROVE  RoleInv'
BY DEF RoleInv, Composing, Serves

LEMMA StaffNext == StaffInv /\ [StaffAccessNext]_staffAccessVars => StaffInv'
<1> SUFFICES ASSUME StaffInv, [StaffAccessNext]_staffAccessVars PROVE StaffInv'
  OBVIOUS
<1>1. Threads /\ SignInInv /\ RoleInv
  BY DEF StaffInv
<1>2. ASSUME UNCHANGED <<signInVars, roleVars, job>> PROVE StaffInv'
  <2>1. SignInInv' /\ RoleInv'
    BY <1>1, <1>2, SignInsStay, RolesStay DEF signInVars, roleVars, SignInInv, SigningIn
  <2> QED BY <1>1, <1>2, <2>1 DEF StaffInv, Threads
<1>3. ASSUME NEW r \in Requests, NEW u \in Staff, Authenticate(r, u) PROVE StaffInv'
  <2>1. Others(r) /\ Held(job'[r], "authenticated", u, users[u].disabled, {})
    BY <1>1, <1>3, LocalSteps DEF Authenticate, Starts
  <2>2. users[u].disabled \in Nat
    BY <1>1 DEF SignInInv, UserRows
  <2>3. SigningIn(job'[r]) /\ job'[r].at # "composing"
    BY <2>1, <2>2 DEF SigningIn, Held
  <2>4. SignInInv'
    BY <1>1, <1>3, <2>1, <2>3, SignInsStay DEF Authenticate, signInVars, SignInInv, Others
  <2>5. RoleInv'
    BY <1>1, <1>3, <2>1, <2>3, RolesStay DEF Authenticate, roleVars, Others
  <2> QED BY <2>1, <2>4, <2>5 DEF StaffInv, Others
<1>4. ASSUME NEW r \in Requests, CreateSession(r) PROVE StaffInv'
  <2> PICK u, asked : u = job[r].row /\ asked = job[r].seen
    OBVIOUS
  <2>1. u \in Staff /\ asked \in Nat
    BY <1>1, <1>4 DEF CreateSession, Serves, SignInInv, SigningIn
  <2>2. Threads' /\ \A q \in Requests : job'[q] = IF q = r THEN Idle ELSE job[q]
    BY <1>1, <1>4, EndSteps DEF CreateSession, Others
  <2>3. /\ logins' = Append(logins, [user |-> u, asked |-> asked, live |-> TRUE])
        /\ late' = IF users[u].disabled # asked THEN late \cup {Len(logins) + 1} ELSE late
        /\ UNCHANGED <<users, roleVars>>
    BY <1>4 DEF CreateSession
  <2>4. RoleInv'
    BY <1>1, <2>2, <2>3, RolesStay DEF roleVars, Idle
  <2>5. /\ logins' \in Seq(LoginRows) /\ DOMAIN logins' = DOMAIN logins \cup {Len(logins) + 1}
        /\ logins'[Len(logins) + 1] = [user |-> u, asked |-> asked, live |-> TRUE]
        /\ \A n \in DOMAIN logins : logins'[n] = logins[n]
    BY <1>1, <2>1, <2>3 DEF SignInInv, LoginRows
  <2>6. SignInInv'
    BY <1>1, <2>2, <2>3, <2>5 DEF SignInInv, SigningIn, Idle
  <2> QED BY <2>2, <2>4, <2>6 DEF StaffInv
<1>5. ASSUME NEW n \in DOMAIN logins, RevokeSession(n) PROVE StaffInv'
  <2>1. logins' = [logins EXCEPT ![n].live = FALSE] /\ UNCHANGED <<users, late, roleVars, job>>
    BY <1>5 DEF RevokeSession, Serve
  <2>2. logins' \in Seq(LoginRows)
    <3>1. logins \in Seq(LoginRows) /\ [logins[n] EXCEPT !.live = FALSE] \in LoginRows
      <4>1. logins[n] \in LoginRows
        BY <1>1 DEF SignInInv
      <4> QED BY <1>1, <4>1 DEF SignInInv, LoginRows
    <3> QED BY <2>1, <3>1
  <2>3. RoleInv'
    BY <1>1, <2>1, RolesStay DEF roleVars
  <2>4. SignInInv'
    BY <1>1, <2>1, <2>2 DEF SignInInv, SigningIn
  <2> QED BY <1>1, <2>1, <2>3, <2>4 DEF StaffInv, Threads
<1>6. ASSUME NEW u \in Staff, NEW s \in UserStatuses, SetUserStatus(u, s) PROVE StaffInv'
  <2>1. UNCHANGED <<late, roleVars, job>>
    BY <1>6 DEF SetUserStatus, Serve
  <2>2. RoleInv'
    BY <1>1, <2>1, RolesStay DEF roleVars
  <2>3. users' \in [Staff -> UserRows]
    BY <1>1, <1>6 DEF SetUserStatus, SignInInv, UserRows, UserStatuses
  <2>4. /\ users'[u].disabled = users[u].disabled + (IF s = "disabled" THEN 1 ELSE 0)
        /\ \A v \in Staff \ {u} : users'[v] = users[v]
    BY <1>1, <1>6 DEF SetUserStatus, SignInInv
  <2>5. /\ logins' \in Seq(LoginRows) /\ DOMAIN logins' = DOMAIN logins
        /\ \A n \in DOMAIN logins :
             /\ logins'[n].user = logins[n].user /\ logins'[n].asked = logins[n].asked
             /\ logins'[n].live => logins[n].live /\ (s = "disabled" => logins[n].user # u)
    <3>1. CASE s = "disabled"
      <4> DEFINE row(n) == [logins[n] EXCEPT !.live = logins[n].live /\ logins[n].user # u]
      <4>1. logins' = [n \in DOMAIN logins |-> row(n)]
        BY <1>6, <3>1 DEF SetUserStatus, Revoked
      <4>2. ASSUME NEW n \in DOMAIN logins
            PROVE  /\ row(n) \in LoginRows /\ row(n).user = logins[n].user
                   /\ row(n).asked = logins[n].asked
                   /\ row(n).live => logins[n].live /\ logins[n].user # u
        <5>1. logins[n] \in LoginRows
          BY <1>1 DEF SignInInv
        <5> QED BY <5>1 DEF LoginRows
      <4> HIDE DEF row
      <4>3. Len(logins) \in Nat /\ DOMAIN logins = 1..Len(logins)
        BY <1>1 DEF SignInInv
      <4>4. logins' \in Seq(LoginRows)
        BY <4>1, <4>2, <4>3
      <4> QED BY <4>1, <4>2, <4>4
    <3>2. CASE s # "disabled"
      BY <1>1, <1>6, <3>2 DEF SetUserStatus, SignInInv
    <3> QED BY <3>1, <3>2
  <2>6. ASSUME NEW n \in DOMAIN logins', logins'[n].live, n \notin late'
        PROVE  logins'[n].asked = users'[logins'[n].user].disabled
    <3>1. n \in DOMAIN logins /\ logins[n].live /\ n \notin late
      BY <2>1, <2>5, <2>6
    <3>2. /\ logins'[n].user = logins[n].user /\ logins'[n].asked = users[logins[n].user].disabled
          /\ s = "disabled" => logins[n].user # u
      BY <1>1, <2>5, <2>6, <3>1 DEF SignInInv
    <3>3. logins[n].user \in Staff
      <4>1. logins[n] \in LoginRows
        BY <1>1, <3>1 DEF SignInInv
      <4> QED BY <4>1 DEF LoginRows
    <3>4. users[u].disabled \in Nat
      BY <1>1 DEF SignInInv, UserRows
    <3>5. users'[logins[n].user].disabled = users[logins[n].user].disabled
      BY <2>4, <3>2, <3>3, <3>4
    <3> QED BY <3>2, <3>5
  <2>7. SignInInv'
    BY <1>1, <2>1, <2>3, <2>5, <2>6 DEF SignInInv, SigningIn
  <2> QED BY <1>1, <2>1, <2>2, <2>7 DEF StaffInv, Threads
<1>7. ASSUME NEW r \in Requests, NEW x \in Roles, NEW parts, NEW mine, ComposeStart(r, x, parts, mine)
      PROVE  StaffInv'
  <2>1. Others(r) /\ Held(job'[r], "composing", x, composition[x], parts)
    BY <1>1, <1>7, LocalSteps DEF ComposeStart, Starts
  <2>2. job[r] = Idle /\ UNCHANGED <<composition, composed, signInVars>>
    BY <1>7 DEF ComposeStart, Starts, Waits
  <2>3. SignInInv'
    BY <1>1, <2>1, <2>2, SignInsStay DEF signInVars, SignInInv, SigningIn, Others, Held
  <2>4. meeting' = IF \E q \in Requests : Composing(q, x) THEN meeting \cup {x} ELSE meeting
    BY <1>7 DEF ComposeStart, Composing
  <2>5. \A q \in Requests : ~Composing(r, x) /\ (Composing(q, x)' => q = r \/ Composing(q, x))
    BY <2>1, <2>2 DEF Composing, Serves, Idle, Others
  <2>6. ASSUME NEW y \in Roles \ meeting'
        PROVE  /\ Parts(composition[y])' \in composed'[y]
               /\ \A p, q \in Requests : Composing(p, y)' /\ Composing(q, y)' => p = q
               /\ \A q \in Requests : Composing(q, y)' => job'[q].seen = composition'[y]
    <3>1. y \in Roles \ meeting
      BY <2>4, <2>6
    <3>2. CASE y = x
      <4>1. \A q \in Requests : Composing(q, x)' => q = r
        BY <2>4, <2>5, <2>6, <3>2
      <4>2. job'[r].seen = composition'[x] /\ Parts(composition[x])' \in composed'[x]
        BY <1>1, <2>1, <2>2, <3>1, <3>2 DEF RoleInv, Held
      <4> QED BY <3>2, <4>1, <4>2
    <3>3. CASE y # x
      <4>1. \A q \in Requests : Composing(q, y)' => Composing(q, y) /\ job'[q] = job[q]
        BY <2>1, <3>3 DEF Composing, Serves, Others, Held
      <4> QED BY <1>1, <2>2, <3>1, <4>1 DEF RoleInv
    <3> QED BY <3>2, <3>3
  <2>7. RoleInv'
    BY <1>1, <2>1, <2>2, <2>6 DEF RoleInv, Serves, Others, Held
  <2> QED BY <2>1, <2>3, <2>7 DEF StaffInv, Others
<1>8. ASSUME NEW r \in Requests, ComposeCommit(r) PROVE StaffInv'
  <2> PICK x, left, parts : x = job[r].row /\ left = Remaining(x, job[r].seen) /\ parts = job[r].todo
    OBVIOUS
  <2>1. /\ Composing(r, x) /\ UNCHANGED <<meeting, signInVars>>
        /\ IF Parts(left) \cap parts # {} THEN UNCHANGED <<composition, composed>>
           ELSE /\ composition' = [composition EXCEPT ![x] = left \cup Rows(parts, inserts + 1)]
                /\ composed' = [composed EXCEPT ![x] = composed[x] \cup {parts}]
    BY <1>8 DEF ComposeCommit, Composing
  <2>2. Threads' /\ \A q \in Requests : job'[q] = IF q = r THEN Idle ELSE job[q]
    BY <1>1, <1>8, EndSteps DEF ComposeCommit, Others
  <2>3. SignInInv'
    BY <1>1, <2>1, <2>2, SignInsStay DEF signInVars, SignInInv, SigningIn, Idle
  <2>4. x \in Roles
    BY <1>1, <2>1 DEF RoleInv, Composing
  <2>5. \A y : \A q \in Requests : Composing(q, y)' => q # r /\ Composing(q, y) /\ job'[q] = job[q]
    BY <2>2 DEF Composing, Serves, Idle
  <2>6. x \notin meeting => left = {}
    BY <1>1, <2>1, <2>4 DEF RoleInv, Remaining
  <2>7. /\ composition' = [y \in Roles |-> composition'[y]] /\ composed' = [y \in Roles |-> composed'[y]]
        /\ \A y \in Roles \ {x} : composition'[y] = composition[y] /\ composed'[y] = composed[y]
        /\ x \notin meeting => Parts(composition[x])' \in composed'[x]
    <3>1. CASE Parts(left) \cap parts # {}
      BY <1>1, <2>1, <2>4, <3>1 DEF RoleInv
    <3>2. CASE Parts(left) \cap parts = {}
      <4>1. /\ composition' = [composition EXCEPT ![x] = left \cup Rows(parts, inserts + 1)]
            /\ composed' = [composed EXCEPT ![x] = composed[x] \cup {parts}]
        BY <2>1, <3>2
      <4>2. composition = [y \in Roles |-> composition[y]] /\ composed = [y \in Roles |-> composed[y]]
        BY <1>1 DEF RoleInv
      <4>3. composition'[x] = left \cup Rows(parts, inserts + 1) /\ composed'[x] = composed[x] \cup {parts}
        BY <2>4, <4>1, <4>2
      <4>4. x \notin meeting => Parts(composition[x])' = parts
        <5>1. x \notin meeting => composition'[x] = Rows(parts, inserts + 1)
          BY <2>6, <4>3
        <5> QED BY <5>1, RowsGive DEF Parts
      <4> QED BY <4>1, <4>2, <4>3, <4>4
    <3> QED BY <3>1, <3>2
  <2>8. ASSUME NEW y \in Roles \ meeting
        PROVE  /\ Parts(composition[y])' \in composed'[y]
               /\ \A p, q \in Requests : Composing(p, y)' /\ Composing(q, y)' => p = q
               /\ \A q \in Requests : Composing(q, y)' => job'[q].seen = composition'[y]
    <3>1. CASE y = x
      BY <1>1, <2>1, <2>4, <2>5, <2>7, <2>8, <3>1 DEF RoleInv
    <3>2. CASE y # x
      BY <1>1, <2>5, <2>7, <2>8, <3>2 DEF RoleInv
    <3> QED BY <3>1, <3>2
  <2>9. RoleInv'
    BY <1>1, <2>1, <2>2, <2>7, <2>8 DEF RoleInv, Serves, Idle
  <2> QED BY <2>2, <2>3, <2>9 DEF StaffInv
<1>9. ASSUME NEW r \in Requests, StaffAccessCrash(r) PROVE StaffInv'
  <2>1. UNCHANGED <<signInVars, roleVars>>
    BY <1>9 DEF StaffAccessCrash
  <2>2. Threads' /\ \A q \in Requests : job'[q] = IF q = r THEN Idle ELSE job[q]
    BY <1>1, <1>9, EndSteps DEF StaffAccessCrash, Dies, Others
  <2>3. SignInInv' /\ RoleInv'
    BY <1>1, <2>1, <2>2, SignInsStay, RolesStay DEF signInVars, roleVars, SignInInv, SigningIn, Idle
  <2> QED BY <2>2, <2>3 DEF StaffInv
<1>10. ASSUME NEW r \in Requests, NEW u, NEW x, NEW mine, GiveStart(r, u, x, mine) PROVE StaffInv'
  <2>1. Others(r) /\ Held(job'[r], "giving", u, x, {})
    BY <1>1, <1>10, LocalSteps DEF GiveStart, Starts
  <2>2. UNCHANGED <<signInVars, roleVars>>
    BY <1>10 DEF GiveStart
  <2>3. SignInInv' /\ RoleInv'
    BY <1>1, <2>1, <2>2, SignInsStay, RolesStay DEF signInVars, roleVars, SignInInv, SigningIn, Others, Held
  <2> QED BY <2>1, <2>3 DEF StaffInv, Others
<1>11. ASSUME NEW r \in Requests, NEW from, NEW until, GiveCommit(r, from, until) PROVE StaffInv'
  <2>1. UNCHANGED <<composition, composed, meeting, signInVars>>
    BY <1>11 DEF GiveCommit
  <2>2. Threads' /\ \A q \in Requests : job'[q] = IF q = r THEN Idle ELSE job[q]
    BY <1>1, <1>11, EndSteps DEF GiveCommit, Others
  <2>3. SignInInv' /\ RoleInv'
    BY <1>1, <2>1, <2>2, SignInsStay, RolesStay DEF signInVars, SignInInv, SigningIn, Idle
  <2> QED BY <2>2, <2>3 DEF StaffInv
<1>12. CASE \/ \E u \in Staff, t \in Teams, from \in Calendar, until \in Untils :
                 AddTeamMembership(u, t, from, until)
            \/ \E u \in Staff \cup {None}, t \in Teams \cup {None}, e \in Entities,
                   from \in Calendar, until \in Untils : AssignRecord(u, t, e, from, until)
            \/ \E a \in assigned : DeactivateAssignment(a)
            \/ DayEnds
  BY <1>2, <1>12 DEF AddTeamMembership, AssignRecord, DeactivateAssignment, DayEnds, Serve, requestVars
<1>13. CASE UNCHANGED staffAccessVars
  BY <1>2, <1>13 DEF staffAccessVars, requestVars
<1> QED
  BY <1>3, <1>4, <1>5, <1>6, <1>7, <1>8, <1>9, <1>10, <1>11, <1>12, <1>13 DEF StaffAccessNext

\* However sign-ins, disablings and revocations overlap, for any users: a user
\* who was disabled has to sign in again; and a role never holds what two
\* requests asked for, unless they met.
THEOREM OrdersAreKept == StaffAccessSpec => []OrdersHold
<1>1. StaffInv => OrdersHold
  BY DEF StaffInv, SignInInv, RoleInv, OrdersHold, RoleAsComposed, SessionsEndWithUser, Resolves
<1> QED BY <1>1, StaffInit, StaffNext, PTL DEF StaffAccessSpec

----------------------------------------------------------------------------
(* Engagements of other service lines *)

EngagementStatuses == {"open", "in_progress", "waiting"} \cup TerminalStatuses
Days == 0..ClosingDay
Dates == Days \cup {None}
EngagementRows == [status : EngagementStatuses, closed_on : Dates]

\* What a change of engagement e has read: a day that was set stays set; and
\* where no two changes met, it is alone and has read what still holds.
Changing(r, e) == Serves(r, "status") /\ job[r].row = e

ChangeOK(j) ==
  j.at = "status" =>
    /\ j.row \in DOMAIN general /\ j.seen \in EngagementRows
    /\ \E s \in EngagementStatuses : j.todo = {s}
    /\ j.seen.closed_on # None => general[j.row].closed_on # None
    /\ j.row \notin twice => j.seen = general[j.row]

EngagementTables ==
  /\ general \in Seq(EngagementRows) /\ closings \in Seq(SUBSET Days)
  /\ Len(closings) = Len(general) /\ theDay \in Days

\* An engagement is closed on some day; without two changes at once, that is
\* the only day it has had.
ClosedOK(e) ==
  /\ general[e].status \in TerminalStatuses => general[e].closed_on # None
  /\ e \notin twice => closings[e] = {general[e].closed_on} \ {None}

EngagementInv ==
  /\ Threads /\ EngagementTables
  /\ \A r \in Requests : ChangeOK(job[r])
  /\ \A r, q \in Requests, e \in DOMAIN general :
       Changing(r, e) /\ Changing(q, e) => r = q \/ e \in twice
  /\ \A e \in DOMAIN general : ClosedOK(e)

LEMMA EngagementsStart == EngagementInit => EngagementInv
BY EngagementAssumption
   DEF EngagementInit, RequestInit, Idle, EngagementInv, Threads, EngagementTables, ChangeOK,
   Changing, Serves, Days

LEMMA EngagementsNext == EngagementInv /\ [EngagementNext]_engagementVars => EngagementInv'
<1> SUFFICES ASSUME EngagementInv, [EngagementNext]_engagementVars PROVE EngagementInv'
  OBVIOUS
<1>1. Threads /\ EngagementTables
  BY DEF EngagementInv
<1>2. ASSUME UNCHANGED <<general, closings, twice, job>>, theDay' \in Days PROVE EngagementInv'
  BY <1>2 DEF EngagementInv, Threads, EngagementTables, ChangeOK, Changing, Serves, ClosedOK
<1>3. CASE OpenGeneral
  <2> DEFINE n == Len(general) + 1
             fresh == [status |-> "open", closed_on |-> None]
  <2>1. /\ general' = Append(general, fresh) /\ closings' = Append(closings, {})
        /\ UNCHANGED <<twice, theDay, job>>
    BY <1>3 DEF OpenGeneral, Serve
  <2>2. fresh \in EngagementRows /\ fresh.status = "open" /\ fresh.closed_on = None
    BY DEF EngagementRows, EngagementStatuses, Dates
  <2> HIDE DEF fresh
  <2>3. /\ EngagementTables' /\ DOMAIN general' = DOMAIN general \cup {n} /\ n \notin DOMAIN general
        /\ general'[n] = fresh /\ closings'[n] = {}
        /\ \A e \in DOMAIN general : general'[e] = general[e] /\ closings'[e] = closings[e]
    BY <1>1, <2>1, <2>2 DEF EngagementTables
  <2> HIDE DEF n
  <2>4. ASSUME NEW r \in Requests PROVE ChangeOK(job[r])'
    BY <2>1, <2>3 DEF EngagementInv, ChangeOK
  <2>5. ASSUME NEW r \in Requests, NEW q \in Requests, NEW e \in DOMAIN general',
               Changing(r, e)', Changing(q, e)'
        PROVE  r = q \/ e \in twice'
    BY <2>1, <2>3, <2>5 DEF EngagementInv, Changing, Serves, ChangeOK
  <2>6. ASSUME NEW e \in DOMAIN general' PROVE ClosedOK(e)'
    BY <2>1, <2>2, <2>3 DEF EngagementInv, ClosedOK, TerminalStatuses
  <2>7. Threads'
    BY <1>1, <2>1 DEF Threads
  <2> QED BY <2>3, <2>4, <2>5, <2>6, <2>7 DEF EngagementInv
<1>4. ASSUME NEW r \in Requests, NEW e \in DOMAIN general, NEW s \in EngagementStatuses,
             StatusStart(r, e, s)
      PROVE  EngagementInv'
  <2>1. Others(r) /\ Held(job'[r], "status", e, general[e], {s})
    BY <1>1, <1>4, LocalSteps DEF StatusStart, Starts
  <2>2. /\ job[r] = Idle /\ UNCHANGED <<general, closings, theDay>>
        /\ twice' = IF \E q \in Requests : Changing(q, e) THEN twice \cup {e} ELSE twice
    BY <1>4 DEF StatusStart, Starts, Waits, Changing
  <2>3. general[e] \in EngagementRows
    BY <1>1 DEF EngagementTables
  <2>4. ASSUME NEW q \in Requests PROVE ChangeOK(job[q])'
    <3>1. CASE q = r
      BY <2>1, <2>2, <2>3, <3>1 DEF ChangeOK, Held
    <3>2. CASE q # r
      BY <2>1, <2>2, <3>2 DEF EngagementInv, ChangeOK, Others
    <3> QED BY <3>1, <3>2
  <2>5. ASSUME NEW p \in Requests, NEW q \in Requests, NEW d \in DOMAIN general',
               Changing(p, d)', Changing(q, d)'
        PROVE  p = q \/ d \in twice'
    <3>1. \A t \in Requests : Changing(t, d)' => (t = r /\ d = e) \/ Changing(t, d)
      BY <2>1 DEF Changing, Serves, Others, Held
    <3> QED BY <2>2, <2>5, <3>1 DEF EngagementInv
  <2>6. ASSUME NEW d \in DOMAIN general' PROVE ClosedOK(d)'
    BY <2>2 DEF EngagementInv, ClosedOK
  <2> QED BY <1>1, <2>1, <2>2, <2>4, <2>5, <2>6 DEF EngagementInv, EngagementTables, Others
<1>5. ASSUME NEW r \in Requests, StatusWrite(r) PROVE EngagementInv'
  <2> PICK e, seen, s : e = job[r].row /\ seen = job[r].seen /\ job[r].todo = {s} /\ s \in EngagementStatuses
    BY <1>5 DEF EngagementInv, ChangeOK, StatusWrite, Serves
  <2>1. /\ Changing(r, e) /\ e \in DOMAIN general /\ seen \in EngagementRows
        /\ seen.closed_on # None => general[e].closed_on # None
        /\ e \notin twice => seen = general[e]
    BY <1>5 DEF EngagementInv, ChangeOK, StatusWrite, Changing, Serves
  <2>2. (CHOOSE x \in job[r].todo : TRUE) = s
    OBVIOUS
  <2> DEFINE when == ClosedOn(seen, s)
             closed == IF when # seen.closed_on THEN when ELSE general[e].closed_on
             row == [general[e] EXCEPT !.status = s, !.closed_on = closed]
  <2>3. /\ general' = [general EXCEPT ![e].status = s, ![e].closed_on = IF when # seen.closed_on THEN when ELSE @]
        /\ closings' = [closings EXCEPT ![e] = closings[e] \cup ({general'[e].closed_on} \ {None})]
        /\ UNCHANGED <<twice, theDay>>
    BY <1>5, <2>2 DEF StatusWrite
  <2>4. general[e] \in EngagementRows
    BY <1>1, <2>1 DEF EngagementTables
  <2>5. /\ closed \in Dates /\ (general[e].closed_on # None => closed # None)
        /\ s \in TerminalStatuses => closed # None
        /\ e \notin twice /\ general[e].closed_on # None => closed = general[e].closed_on
    BY <1>1, <2>1, <2>4, EngagementAssumption DEF ClosedOn, EngagementTables, EngagementRows, Dates, Days
  <2>6. general' = [general EXCEPT ![e] = row]
    BY <2>3, <2>4 DEF EngagementRows
  <2> HIDE DEF closed, when
  <2>7. row \in EngagementRows /\ row.status = s /\ row.closed_on = closed
    BY <2>4, <2>5 DEF EngagementRows
  <2> HIDE DEF row
  <2>8. /\ general' \in Seq(EngagementRows) /\ DOMAIN general' = DOMAIN general /\ general'[e] = row
        /\ Len(general') = Len(general)
        /\ \A d \in DOMAIN general \ {e} : general'[d] = general[d]
    BY <1>1, <2>1, <2>6, <2>7 DEF EngagementTables
  <2>9. /\ closings' \in Seq(SUBSET Days) /\ Len(closings') = Len(closings)
        /\ closings'[e] = closings[e] \cup ({closed} \ {None})
        /\ \A d \in DOMAIN general \ {e} : closings'[d] = closings[d]
    <3>1. PICK days : days = closings[e] \cup ({closed} \ {None})
      OBVIOUS
    <3>2. closings' = [closings EXCEPT ![e] = days]
      BY <2>3, <2>7, <2>8, <3>1
    <3>3. closings \in Seq(SUBSET Days) /\ e \in 1..Len(closings) /\ DOMAIN general = 1..Len(closings)
      BY <1>1, <2>1 DEF EngagementTables
    <3>4. days \in SUBSET Days
      <4>1. closings[e] \in SUBSET Days
        BY <3>3
      <4> QED BY <2>5, <3>1, <4>1 DEF Dates
    <3> HIDE DEF EngagementRows, Days
    <3> QED BY <3>1, <3>2, <3>3, <3>4
  <2>10. Threads' /\ \A q \in Requests : job'[q] = IF q = r THEN Idle ELSE job[q]
    BY <1>1, <1>5, EndSteps DEF StatusWrite, Others
  <2>11. ASSUME NEW q \in Requests PROVE ChangeOK(job[q])'
    <3>1. CASE q = r
      BY <2>10, <3>1 DEF ChangeOK, Idle
    <3>2. CASE q # r /\ job[q].at = "status" /\ job[q].row = e
      <4>1. e \in twice
        BY <2>1, <3>2 DEF EngagementInv, Changing, Serves
      <4>2. /\ job[q].seen \in EngagementRows /\ \E x \in EngagementStatuses : job[q].todo = {x}
            /\ job[q].seen.closed_on # None => general[e].closed_on # None
        BY <3>2 DEF EngagementInv, ChangeOK
      <4>3. job'[q] = job[q] /\ e \in DOMAIN general' /\ general'[e].closed_on = closed /\ e \in twice'
        BY <2>1, <2>3, <2>7, <2>8, <2>10, <3>2, <4>1
      <4>4. job[q].seen.closed_on # None => general'[e].closed_on # None
        BY <2>5, <4>2, <4>3
      <4> QED BY <3>2, <4>2, <4>3, <4>4 DEF ChangeOK
    <3>3. CASE q # r /\ ~(job[q].at = "status" /\ job[q].row = e)
      <4>1. ChangeOK(job[q]) /\ job'[q] = job[q] /\ UNCHANGED twice
        BY <2>3, <2>10, <3>3 DEF EngagementInv
      <4>2. \A d \in DOMAIN general : d # e => d \in DOMAIN general' /\ general'[d] = general[d]
        BY <2>8
      <4> QED BY <3>3, <4>1, <4>2 DEF ChangeOK
    <3> QED BY <3>1, <3>2, <3>3
  <2>12. ASSUME NEW p \in Requests, NEW q \in Requests, NEW d \in DOMAIN general',
               Changing(p, d)', Changing(q, d)'
        PROVE  p = q \/ d \in twice'
    <3>1. \A t \in Requests : Changing(t, d)' => Changing(t, d)
      BY <2>10 DEF Changing, Serves, Idle
    <3>2. d \in DOMAIN general /\ UNCHANGED twice
      BY <2>3, <2>8
    <3> QED BY <2>12, <3>1, <3>2 DEF EngagementInv
  <2>13. ASSUME NEW d \in DOMAIN general' PROVE ClosedOK(d)'
    <3>1. CASE d = e
      <4>1. general'[e].status = s /\ general'[e].closed_on = closed /\ UNCHANGED twice
        BY <2>3, <2>7, <2>8
      <4>2. e \notin twice => closings[e] = {general[e].closed_on} \ {None}
        BY <2>1 DEF EngagementInv, ClosedOK
      <4>3. closings'[e] = closings[e] \cup ({closed} \ {None})
        BY <2>9
      <4>4. e \notin twice => closings'[e] = {closed} \ {None}
        BY <2>5, <4>2, <4>3
      <4> QED BY <2>5, <3>1, <4>1, <4>4 DEF ClosedOK
    <3>2. CASE d # e
      BY <2>3, <2>8, <2>9, <3>2 DEF EngagementInv, ClosedOK
    <3> QED BY <3>1, <3>2
  <2> QED BY <1>1, <2>3, <2>8, <2>9, <2>10, <2>11, <2>12, <2>13 DEF EngagementInv, EngagementTables
<1>6. ASSUME NEW r \in Requests, EngagementCrash(r) PROVE EngagementInv'
  <2>1. Threads' /\ \A q \in Requests : job'[q] = IF q = r THEN Idle ELSE job[q]
    BY <1>1, <1>6, EndSteps DEF EngagementCrash, Dies, Others
  <2>2. UNCHANGED <<general, closings, twice, theDay>>
    BY <1>6 DEF EngagementCrash
  <2> QED BY <2>1, <2>2 DEF EngagementInv, EngagementTables, ChangeOK, Changing, Serves, ClosedOK, Idle
<1>7. CASE EngagementDayEnds
  BY <1>1, <1>2, <1>7, EngagementAssumption DEF EngagementDayEnds, requestVars, EngagementTables, Days
<1>8. CASE UNCHANGED engagementVars
  BY <1>1, <1>2, <1>8 DEF engagementVars, requestVars, EngagementTables
<1> QED BY <1>3, <1>4, <1>5, <1>6, <1>7, <1>8 DEF EngagementNext, EngagementStatuses

\* However often and by whomever it is closed and reopened, the day of an
\* engagement's first closing stays unless two changes of it met; and a closed
\* one has a day even then.
THEOREM ClosingsHold == EngagementSpec => []ClosedOnce
<1>1. EngagementInv => ClosedOnce
  <2> SUFFICES ASSUME EngagementInv, NEW e \in DOMAIN general
               PROVE  /\ general[e].status \in TerminalStatuses => general[e].closed_on # None
                      /\ e \notin twice => Cardinality(closings[e]) <= 1
    BY DEF ClosedOnce
  <2>1. ClosedOK(e)
    BY DEF EngagementInv
  <2>2. PICK when : when = general[e].closed_on
    OBVIOUS
  <2>3. Cardinality({when} \ {None}) <= 1
    <3>1. {when} \ {None} = {} \/ {when} \ {None} = {when}
      OBVIOUS
    <3>2. Cardinality({when}) = 1
      BY FS_Singleton
    <3> QED BY <3>1, <3>2, FS_EmptySet
  <2> QED BY <2>1, <2>2, <2>3 DEF ClosedOK
<1> QED BY <1>1, EngagementsStart, EngagementsNext, PTL DEF EngagementSpec

----------------------------------------------------------------------------
(* Households *)

HouseholdMarks == [head : BOOLEAN, primary : BOOLEAN]

HouseholdInv ==
  /\ homeOf = [p \in Kin |-> homeOf[p]]
  /\ DOMAIN members \subseteq Homes \X Kin
  /\ \A m \in DOMAIN members : members[m] \in HouseholdMarks
  /\ HouseholdsAgree

LEMMA HouseholdsStart == HouseholdInit => HouseholdInv
BY DEF HouseholdInit, HouseholdInv, HouseholdsAgree

\* A member after the marks that a save is about to give have been cleared.
LEMMA ClearedMembers ==
  ASSUME HouseholdInv, NEW h \in Homes, NEW p \in Kin, NEW head \in BOOLEAN, NEW primary \in BOOLEAN,
         NEW n \in DOMAIN members
  PROVE  /\ Updated(Cleared(h, p, head, primary))[n] \in HouseholdMarks
         /\ Updated(Cleared(h, p, head, primary))[n].head
              <=> members[n].head /\ ~(head /\ n[1] = h)
         /\ Updated(Cleared(h, p, head, primary))[n].primary
              <=> members[n].primary /\ ~(primary /\ n[2] = p)
<1>1. members[n] \in HouseholdMarks
  BY DEF HouseholdInv
<1> DEFINE row == [head |-> members[n].head /\ ~(head /\ n[1] = h),
                   primary |-> members[n].primary /\ ~(primary /\ n[2] = p)]
<1>2. CASE n \in Marked(h, p, head, primary)
  <2>1. Updated(Cleared(h, p, head, primary))[n] = row
    BY <1>2 DEF Updated, Cleared
  <2>2. /\ row \in HouseholdMarks /\ (row.head <=> members[n].head /\ ~(head /\ n[1] = h))
        /\ row.primary <=> members[n].primary /\ ~(primary /\ n[2] = p)
    BY <1>1 DEF HouseholdMarks
  <2> HIDE DEF row
  <2> QED BY <2>1, <2>2
<1>3. CASE n \notin Marked(h, p, head, primary)
  <2>1. Updated(Cleared(h, p, head, primary))[n] = members[n]
    BY <1>3 DEF Updated, Cleared
  <2>2. ~(head /\ n[1] = h) /\ ~(primary /\ n[2] = p)
    BY <1>3 DEF Marked
  <2> QED BY <1>1, <2>1, <2>2
<1> QED BY <1>2, <1>3

LEMMA HouseholdsNext == HouseholdInv /\ [HouseholdNext]_householdVars => HouseholdInv'
<1> SUFFICES ASSUME HouseholdInv, [HouseholdNext]_householdVars PROVE HouseholdInv'
  OBVIOUS
<1>1. ASSUME NEW h \in Homes, NEW p \in Kin, NEW head \in BOOLEAN, NEW primary \in BOOLEAN,
             SaveMember(h, p, head, primary)
      PROVE  HouseholdInv'
  <2> DEFINE m == <<h, p>>
             old == Updated(Cleared(h, p, head, primary))
             marks == [head |-> head, primary |-> primary]
  <2>1. /\ members' = Put(old, m, marks)
        /\ homeOf' = IF primary THEN [homeOf EXCEPT ![p] = h] ELSE homeOf
    BY <1>1 DEF SaveMember
  <2>2. marks \in HouseholdMarks /\ (marks.head <=> head) /\ (marks.primary <=> primary)
    BY DEF HouseholdMarks
  <2>3. DOMAIN old = DOMAIN members
    BY DEF Updated
  <2>4. \A n \in DOMAIN members :
          /\ old[n] \in HouseholdMarks
          /\ old[n].head <=> members[n].head /\ ~(head /\ n[1] = h)
          /\ old[n].primary <=> members[n].primary /\ ~(primary /\ n[2] = p)
    BY ClearedMembers
  <2>5. m \in Homes \X Kin /\ m[1] = h /\ m[2] = p
    OBVIOUS
  <2> HIDE DEF old, marks, m
  <2>6. /\ DOMAIN members' = DOMAIN members \cup {m} /\ members'[m] = marks
        /\ \A n \in DOMAIN members \ {m} : members'[n] = old[n]
    <3>1. /\ DOMAIN Put(old, m, marks) = DOMAIN old \cup {m} /\ Put(old, m, marks)[m] = marks
          /\ \A n \in DOMAIN old \ {m} : Put(old, m, marks)[n] = old[n]
      BY DEF Put
    <3> QED BY <2>1, <2>3, <3>1
  <2>7. DOMAIN members' \subseteq Homes \X Kin /\ \A n \in DOMAIN members' : members'[n] \in HouseholdMarks
    BY <2>2, <2>4, <2>5, <2>6 DEF HouseholdInv
  <2>8. homeOf' = [q \in Kin |-> homeOf'[q]]
    BY <2>1 DEF HouseholdInv
  <2>9. ASSUME NEW n \in DOMAIN members', NEW k \in DOMAIN members',
               members'[n].head, members'[k].head, n[1] = k[1]
        PROVE  n = k
    BY <2>2, <2>4, <2>5, <2>6, <2>9 DEF HouseholdInv, HouseholdsAgree
  <2>10. ASSUME NEW n \in DOMAIN members', members'[n].primary PROVE homeOf'[n[2]] = n[1]
    <3>1. CASE n = m
      BY <2>1, <2>2, <2>5, <2>6, <2>10, <3>1 DEF HouseholdInv
    <3>2. CASE n # m
      <4>1. n \in DOMAIN members /\ members[n].primary /\ ~(primary /\ n[2] = p)
        BY <2>4, <2>6, <2>10, <3>2
      <4>2. homeOf[n[2]] = n[1] /\ n[2] \in Kin
        BY <4>1 DEF HouseholdInv, HouseholdsAgree
      <4> QED BY <2>1, <4>1, <4>2 DEF HouseholdInv
    <3> QED BY <3>1, <3>2
  <2> QED BY <2>7, <2>8, <2>9, <2>10 DEF HouseholdInv, HouseholdsAgree
<1>2. CASE UNCHANGED householdVars
  BY <1>2 DEF householdVars, HouseholdInv, HouseholdsAgree
<1> QED BY <1>1, <1>2 DEF HouseholdNext

\* For any households and people: one head for a household, one primary
\* household for a person, and it is the one in the person's own row.
THEOREM HouseholdsHold == HouseholdSpec => []HouseholdsAgree
<1>1. HouseholdInv => HouseholdsAgree
  BY DEF HouseholdInv
<1> QED BY <1>1, HouseholdsStart, HouseholdsNext, PTL DEF HouseholdSpec

----------------------------------------------------------------------------
(* The portal *)

SessionRows == [email : Emails, live : BOOLEAN]
ThreadRows == [person : Clients, home : Families, by : Emails]
MessageRows == [thread : Nat, inner : BOOLEAN]
ReceiptRows == {"receipt"} \X Nat \X Emails

\* What requests are about.
SignIn(e) == <<"sign-in", e>>
Notice(k) == <<"notice", k>>
Telling(m) == <<"message", m>>

LEMMA RowsApart ==
  /\ \A x, y : SignIn(x) = SignIn(y) => x = y
  /\ \A x : SignIn(x)[2] = x
  /\ \A x, y : Notice(x) = Notice(y) => x = y
  /\ \A x : Notice(x)[2] = x
  /\ \A x, y : Telling(x) = Telling(y) => x = y
BY DEF SignIn, Notice, Telling

PortalTables ==
  /\ DOMAIN client \subseteq Emails /\ DOMAIN grant = DOMAIN client /\ DOMAIN invitation = DOMAIN client
  /\ sessions \in Seq(SessionRows) /\ threads \in Seq(ThreadRows)
  /\ messages \in Seq(MessageRows) /\ receipts \in Seq(ReceiptRows)

\* An accepted invitation is a sign-in under way or a session, once.
SessionsOnce ==
  /\ \A r \in Requests : Serves(r, "signing in") =>
       \E e \in DOMAIN client :
         /\ job[r].row = SignIn(e) /\ invitation[e] = "accepted"
         /\ \A n \in DOMAIN sessions : sessions[n].email # e
         /\ \A q \in Requests : Serves(q, "signing in") /\ job[q].row = SignIn(e) => q = r
  /\ \A n \in DOMAIN sessions :
       /\ sessions[n].email \in DOMAIN client /\ invitation[sessions[n].email] = "accepted"
       /\ \A k \in DOMAIN sessions : sessions[k].email = sessions[n].email => k = n

\* A receipt is stored, or about to be, once.
ReceiptsOnce ==
  /\ \A r \in Requests : Serves(r, "reading") =>
       /\ job[r].row \in ReceiptRows
       /\ job[r].row \notin disturbed =>
            /\ \A n \in DOMAIN receipts : receipts[n] # job[r].row
            /\ \A q \in Requests : Serves(q, "reading") /\ job[q].row = job[r].row => q = r
  /\ \A i, j \in DOMAIN receipts : receipts[i] = receipts[j] => i = j \/ receipts[i] \in disturbed

\* A notification that went out is on record, or about to be.
NoticesOnce ==
  /\ delivered \in [Notices -> Nat]
  /\ \A r \in Requests : Serves(r, "delivered") => \E k \in Notices : job[r].row = Notice(k)
  /\ \A k \in Notices : delivered[k] > 0 /\ Notice(k) \notin disturbed =>
       /\ delivered[k] = 1
       /\ k \in notices \/ \E r \in Requests : Serves(r, "delivered") /\ job[r].row = Notice(k)

\* The grant by which a thread was opened reaches it whoever moves.
ThreadsReach ==
  \A t \in DOMAIN threads :
    LET e == threads[t].by
    IN  /\ e \in DOMAIN client /\ "messages" \in grant[e].allows
        /\ \/ grant[e].kind = "joint" /\ grant[e].home = threads[t].home
           \/ grant[e].person = threads[t].person

\* Messages that clients may see, and those only, are told under their own id.
Visible == {Telling(m) : m \in {m \in DOMAIN messages : ~messages[m].inner}}

Told ==
  /\ \A r \in Requests : Serves(r, "telling") => job[r].row \in Visible /\ job[r].seen = job[r].row
  /\ \A x \in DOMAIN posted : posted[x] = x /\ x \in Visible
  /\ \A x \in Visible :
       \/ x \in DOMAIN posted \/ x \in disturbed
       \/ \E r \in Requests : Serves(r, "telling") /\ job[r].seen = x

PortalInv ==
  Threads /\ PortalTables /\ SessionsOnce /\ ReceiptsOnce /\ NoticesOnce /\ ThreadsReach /\ Told

LEMMA PortalStart == PortalInit => PortalInv
<1> SUFFICES ASSUME PortalInit PROVE PortalInv
  OBVIOUS
<1>1. Threads /\ \A r \in Requests : job[r].at = "idle"
  BY DEF PortalInit, RequestInit, Idle, Threads
<1>2. PortalTables /\ SessionsOnce /\ ThreadsReach
  <2>1. /\ DOMAIN client = {} /\ DOMAIN grant = {} /\ DOMAIN invitation = {}
        /\ sessions = <<>> /\ threads = <<>> /\ messages = <<>> /\ receipts = <<>>
    BY DEF PortalInit
  <2>2. \A S : <<>> \in Seq(S)
    OBVIOUS
  <2>3. PortalTables
    BY <2>1, <2>2 DEF PortalTables
  <2>4. DOMAIN sessions = {} /\ DOMAIN threads = {}
    BY <2>1
  <2>5. SessionsOnce
    BY <1>1, <2>4 DEF SessionsOnce, Serves
  <2>6. ThreadsReach
    BY <2>4 DEF ThreadsReach
  <2> QED BY <2>3, <2>5, <2>6
<1>3. ReceiptsOnce
  BY <1>1 DEF PortalInit, ReceiptsOnce, Serves
<1>4. NoticesOnce
  BY <1>1 DEF PortalInit, NoticesOnce, Serves
<1>5. Told
  BY <1>1 DEF PortalInit, Told, Visible, Serves
<1> QED BY <1>1, <1>2, <1>3, <1>4, <1>5 DEF PortalInv

----------------------------------------------------------------------------
(* What a step does not touch *)

LEMMA SessionsStay ==
  ASSUME SessionsOnce, Undisturbed("signing in"), DOMAIN sessions' = DOMAIN sessions,
         \A n \in DOMAIN sessions : sessions'[n].email = sessions[n].email, DOMAIN client \subseteq DOMAIN client',
         \A e \in DOMAIN client : invitation[e] = "accepted" => invitation'[e] = "accepted"
  PROVE  SessionsOnce'
<1>1. ASSUME NEW r \in Requests, Serves(r, "signing in")'
      PROVE  \E e \in DOMAIN client' :
         /\ job'[r].row = SignIn(e) /\ invitation'[e] = "accepted"
         /\ \A n \in DOMAIN sessions' : sessions'[n].email # e
         /\ \A q \in Requests : Serves(q, "signing in")' /\ job'[q].row = SignIn(e) => q = r
  <2>1. Serves(r, "signing in") /\ job'[r] = job[r]
    BY <1>1 DEF Undisturbed, Serves
  <2>2. PICK e \in DOMAIN client :
         /\ job[r].row = SignIn(e) /\ invitation[e] = "accepted"
         /\ \A n \in DOMAIN sessions : sessions[n].email # e
         /\ \A q \in Requests : Serves(q, "signing in") /\ job[q].row = SignIn(e) => q = r
    BY <2>1 DEF SessionsOnce
  <2>3. \A n \in DOMAIN sessions' : sessions'[n].email # e
    BY <2>2
  <2>4. \A q \in Requests : Serves(q, "signing in")' /\ job'[q].row = SignIn(e) => q = r
    BY <2>2 DEF Undisturbed, Serves
  <2>5. e \in DOMAIN client' /\ job'[r].row = SignIn(e) /\ invitation'[e] = "accepted"
    BY <2>1, <2>2
  <2> QED BY <2>3, <2>4, <2>5
<1>2. ASSUME NEW n \in DOMAIN sessions'
      PROVE  /\ sessions'[n].email \in DOMAIN client' /\ invitation'[sessions'[n].email] = "accepted"
             /\ \A k \in DOMAIN sessions' : sessions'[k].email = sessions'[n].email => k = n
  BY DEF SessionsOnce
<1> QED BY <1>1, <1>2 DEF SessionsOnce

LEMMA ReceiptsStay ==
  ASSUME ReceiptsOnce, UNCHANGED receipts, disturbed \subseteq disturbed',
         \A r \in Requests : job'[r].at = "reading" => job'[r] = job[r]
  PROVE  ReceiptsOnce'
BY DEF ReceiptsOnce, Serves

LEMMA NoticesStay ==
  ASSUME NoticesOnce, UNCHANGED <<delivered, notices>>, disturbed \subseteq disturbed',
         Undisturbed("delivered")
  PROVE  NoticesOnce'
<1>1. ASSUME NEW k \in Notices, delivered'[k] > 0, Notice(k) \notin disturbed'
      PROVE  /\ delivered'[k] = 1
             /\ k \in notices' \/ \E r \in Requests : Serves(r, "delivered")' /\ job'[r].row = Notice(k)
  <2>1. /\ delivered[k] = 1
        /\ k \in notices \/ \E r \in Requests : Serves(r, "delivered") /\ job[r].row = Notice(k)
    BY <1>1 DEF NoticesOnce
  <2> QED BY <2>1 DEF Undisturbed, Serves
<1>2. ASSUME NEW r \in Requests, Serves(r, "delivered")'
      PROVE  \E k \in Notices : job'[r].row = Notice(k)
  BY <1>2 DEF NoticesOnce, Undisturbed, Serves
<1> QED BY <1>1, <1>2 DEF NoticesOnce

LEMMA ReachStays ==
  ASSUME ThreadsReach, UNCHANGED threads, DOMAIN client \subseteq DOMAIN client',
         \A e \in DOMAIN client : grant'[e] = grant[e]
  PROVE  ThreadsReach'
BY DEF ThreadsReach

LEMMA ToldStays ==
  ASSUME Told, UNCHANGED <<messages, posted>>, disturbed \subseteq disturbed', Undisturbed("telling")
  PROVE  Told'
<1>1. Visible' = Visible
  BY DEF Visible
<1>2. ASSUME NEW x \in Visible, x \notin DOMAIN posted, x \notin disturbed'
      PROVE  \E r \in Requests : Serves(r, "telling")' /\ job'[r].seen = x
  <2>1. PICK r \in Requests : Serves(r, "telling") /\ job[r].seen = x
    BY <1>2 DEF Told
  <2> QED BY <2>1 DEF Undisturbed, Serves
<1> QED BY <1>1, <1>2 DEF Told, Undisturbed, Serves

LEMMA MailStays ==
  ASSUME PortalInv, UNCHANGED <<mailbag, delivered, notices>>, disturbed \subseteq disturbed',
         DOMAIN client \subseteq DOMAIN client', \A e \in DOMAIN client : grant'[e] = grant[e],
         Undisturbed("reading"), Undisturbed("delivered"), Undisturbed("telling")
  PROVE  ReceiptsOnce' /\ NoticesOnce' /\ ThreadsReach' /\ Told'
<1>1. ReceiptsOnce'
  BY ReceiptsStay DEF PortalInv, mailbag, Undisturbed
<1>2. NoticesOnce' /\ ThreadsReach' /\ Told'
  BY NoticesStay, ReachStays, ToldStays DEF PortalInv, mailbag
<1> QED BY <1>1, <1>2

----------------------------------------------------------------------------
(* Accounts *)

LEMMA AccountSteps == PortalInv /\ AccountStep => PortalInv'
<1> SUFFICES ASSUME PortalInv, AccountStep PROVE PortalInv'
  OBVIOUS
<1>1. Threads /\ PortalTables /\ SessionsOnce
  BY DEF PortalInv
<1>2. ASSUME UNCHANGED <<mailbag, delivered, notices, disturbed, job>>, SessionsOnce', PortalTables',
             DOMAIN client \subseteq DOMAIN client', \A e \in DOMAIN client : grant'[e] = grant[e]
      PROVE  PortalInv'
  <2>1. ReceiptsOnce' /\ NoticesOnce' /\ ThreadsReach' /\ Told'
    BY <1>2, MailStays, StillPlaces
  <2> QED BY <1>1, <1>2, <2>1 DEF PortalInv, Threads
<1>3. ASSUME NEW e \in Emails, NEW p \in Clients, NEW kind \in AccessTypes, NEW allows \in Allowances,
             Invite(e, p, kind, allows)
      PROVE  PortalInv'
  <2>1. /\ e \notin DOMAIN client /\ UNCHANGED <<sessions, mailbag, delivered, notices, disturbed, job>>
        /\ DOMAIN client' = DOMAIN client \cup {e} /\ DOMAIN grant' = DOMAIN grant \cup {e}
        /\ DOMAIN invitation' = DOMAIN invitation \cup {e}
    BY <1>3 DEF Invite, Serve, Put
  <2>2. \A x \in DOMAIN client : grant'[x] = grant[x] /\ invitation'[x] = invitation[x]
    BY <1>1, <1>3 DEF Invite, Put, PortalTables
  <2>3. PortalTables'
    BY <1>1, <2>1 DEF PortalTables, mailbag
  <2>4. SessionsOnce'
    BY <1>1, <2>1, <2>2, SessionsStay, StillPlaces
  <2> QED BY <1>2, <2>1, <2>2, <2>3, <2>4
<1>4. ASSUME UNCHANGED <<client, grant, invitation, sessions, mailbag, delivered, notices, disturbed, job>>
      PROVE  PortalInv'
  <2>1. PortalTables'
    BY <1>1, <1>4 DEF PortalTables, mailbag
  <2>2. SessionsOnce'
    BY <1>1, <1>4, SessionsStay, StillPlaces
  <2> QED BY <1>2, <1>4, <2>1, <2>2
<1>5. CASE \/ \E e \in Emails : RequestPasswordReset(e)
           \/ \E n \in DOMAIN resets : ConsumePasswordReset(n)
           \/ \E p \in Clients, h \in Families : Move(p, h)
  BY <1>4, <1>5 DEF RequestPasswordReset, ConsumePasswordReset, Move, Serve
<1>6. ASSUME NEW n \in DOMAIN sessions, sessions' = [sessions EXCEPT ![n].live = FALSE],
             UNCHANGED <<client, grant, invitation, mailbag, delivered, notices, disturbed, job>>
      PROVE  PortalInv'
  <2>1. /\ sessions' \in Seq(SessionRows) /\ DOMAIN sessions' = DOMAIN sessions
        /\ \A k \in DOMAIN sessions : sessions'[k].email = sessions[k].email
    <3>1. sessions[n] \in SessionRows /\ sessions \in Seq(SessionRows)
      BY <1>1 DEF PortalTables
    <3>2. [sessions[n] EXCEPT !.live = FALSE] \in SessionRows
      BY <3>1 DEF SessionRows
    <3> QED BY <1>6, <3>1, <3>2 DEF SessionRows
  <2>2. PortalTables'
    BY <1>1, <1>6, <2>1 DEF PortalTables, mailbag
  <2>3. SessionsOnce'
    BY <1>1, <1>6, <2>1, SessionsStay, StillPlaces
  <2> QED BY <1>2, <1>6, <2>2, <2>3
<1>7. ASSUME NEW n \in DOMAIN sessions, RevokePortalSession(n) PROVE PortalInv'
  BY <1>6, <1>7 DEF RevokePortalSession, Serve
<1>8. CASE Expire
  <2>1. ASSUME NEW e \in DOMAIN invitation, invitation[e] = "open",
               invitation' = [invitation EXCEPT ![e] = "expired"], UNCHANGED sessions
        PROVE  PortalInv'
    <3>1. invitation[e] = "open" /\ invitation' = [invitation EXCEPT ![e] = "expired"]
      BY <2>1
    <3>2. UNCHANGED <<client, grant, sessions, mailbag, delivered, notices, disturbed, job>>
      BY <1>8, <2>1 DEF Expire, Serve
    <3>3. PortalTables'
      BY <1>1, <3>1, <3>2 DEF PortalTables, mailbag
    <3>4. SessionsOnce'
      BY <1>1, <3>1, <3>2, SessionsStay, StillPlaces DEF PortalTables
    <3> QED BY <1>2, <3>2, <3>3, <3>4
  <2>2. ASSUME NEW n \in DOMAIN sessions, sessions' = [sessions EXCEPT ![n].live = FALSE],
               UNCHANGED invitation
        PROVE  PortalInv'
    BY <1>6, <1>8, <2>2 DEF Expire, Serve
  <2> QED BY <1>8, <2>1, <2>2 DEF Expire
<1>9. ASSUME NEW e \in Emails, NEW r \in Requests, AcceptInvitation(r, e) PROVE PortalInv'
  <2>1. /\ Others(r) /\ Held(job'[r], "signing in", SignIn(e), None, {})
        /\ job[r].at = "idle" /\ job'[r].at = "signing in"
    BY <1>1, <1>9, Calls DEF AcceptInvitation, SignIn
  <2>2. Undisturbed("reading") /\ Undisturbed("delivered") /\ Undisturbed("telling")
    BY <2>1, OtherPlaces
  <2>3. /\ e \in DOMAIN invitation /\ invitation[e] = "open"
        /\ invitation' = [invitation EXCEPT ![e] = "accepted"]
        /\ client' = [client EXCEPT ![e].status = "active"]
        /\ UNCHANGED <<grant, sessions, mailbag, delivered, notices, disturbed>>
    BY <1>9 DEF AcceptInvitation, Acceptable
  <2>4. PortalTables'
    BY <1>1, <2>3 DEF PortalTables, mailbag
  <2>5. ReceiptsOnce' /\ NoticesOnce' /\ ThreadsReach' /\ Told'
    BY <2>2, <2>3, MailStays
  <2>6. SessionsOnce'
    <3>1. \A n \in DOMAIN sessions : sessions[n].email # e
      BY <1>1, <2>3 DEF SessionsOnce
    <3>2. \A q \in Requests : ~(Serves(q, "signing in") /\ job[q].row = SignIn(e))
      <4>1. SUFFICES ASSUME NEW q \in Requests, Serves(q, "signing in"), job[q].row = SignIn(e)
                     PROVE  FALSE
        OBVIOUS
      <4>2. PICK x \in DOMAIN client : job[q].row = SignIn(x) /\ invitation[x] = "accepted"
        BY <1>1, <4>1 DEF SessionsOnce
      <4>3. x = e
        BY <4>1, <4>2, RowsApart
      <4> QED BY <2>3, <4>2, <4>3
    <3>3. ASSUME NEW q \in Requests, Serves(q, "signing in")'
          PROVE  \E x \in DOMAIN client' :
            /\ job'[q].row = SignIn(x) /\ invitation'[x] = "accepted"
            /\ \A n \in DOMAIN sessions' : sessions'[n].email # x
            /\ \A p \in Requests : Serves(p, "signing in")' /\ job'[p].row = SignIn(x) => p = q
      <4>1. CASE q = r
        <5>1. \A p \in Requests : Serves(p, "signing in")' /\ job'[p].row = SignIn(e) => p = r
          BY <2>1, <3>2 DEF Others, Serves
        <5> QED BY <1>1, <2>1, <2>3, <3>1, <4>1, <5>1 DEF Held, PortalTables
      <4>2. CASE q # r
        <5>1. Serves(q, "signing in") /\ job'[q] = job[q]
          BY <2>1, <3>3, <4>2 DEF Others, Serves
        <5>2. PICK x \in DOMAIN client :
                 /\ job[q].row = SignIn(x) /\ invitation[x] = "accepted"
                 /\ \A n \in DOMAIN sessions : sessions[n].email # x
                 /\ \A p \in Requests : Serves(p, "signing in") /\ job[p].row = SignIn(x) => p = q
          BY <1>1, <5>1 DEF SessionsOnce
        <5>3. x # e
          BY <2>3, <5>2
        <5>4. \A p \in Requests : Serves(p, "signing in")' /\ job'[p].row = SignIn(x) => p = q
          <6>1. job'[r].row # SignIn(x)
            BY <2>1, <5>3, RowsApart DEF Held
          <6> QED BY <2>1, <5>2, <6>1 DEF Others, Serves
        <5> QED BY <1>1, <2>3, <5>1, <5>2, <5>3, <5>4 DEF PortalTables
      <4> QED BY <4>1, <4>2
    <3>4. ASSUME NEW n \in DOMAIN sessions'
          PROVE  /\ sessions'[n].email \in DOMAIN client' /\ invitation'[sessions'[n].email] = "accepted"
                 /\ \A k \in DOMAIN sessions' : sessions'[k].email = sessions'[n].email => k = n
      BY <1>1, <2>3, <3>1 DEF SessionsOnce, PortalTables
    <3> QED BY <3>3, <3>4 DEF SessionsOnce
  <2> QED BY <2>1, <2>4, <2>5, <2>6 DEF PortalInv, Others
<1>10. ASSUME NEW r \in Requests, CreatePortalSession(r) PROVE PortalInv'
  <2>1. PICK e \in DOMAIN client :
          /\ job[r].row = SignIn(e) /\ invitation[e] = "accepted"
          /\ \A n \in DOMAIN sessions : sessions[n].email # e
          /\ \A q \in Requests : Serves(q, "signing in") /\ job[q].row = SignIn(e) => q = r
    BY <1>1, <1>10 DEF CreatePortalSession, SessionsOnce
  <2>2. Others(r) /\ job'[r].at = "idle" /\ job[r].at = "signing in"
    BY <1>1, <1>10, EndSteps DEF CreatePortalSession, Serves
  <2>3. Undisturbed("reading") /\ Undisturbed("delivered") /\ Undisturbed("telling")
    BY <2>2, OtherPlaces
  <2>4. /\ sessions' = Append(sessions, [email |-> e, live |-> TRUE])
        /\ UNCHANGED <<client, grant, invitation, mailbag, delivered, notices, disturbed>>
    <3>1. job[r].row[2] = e
      BY <2>1, RowsApart
    <3> QED BY <1>10, <3>1 DEF CreatePortalSession
  <2>5. ReceiptsOnce' /\ NoticesOnce' /\ ThreadsReach' /\ Told'
    BY <2>3, <2>4, MailStays
  <2> DEFINE s == Len(sessions) + 1
  <2>6. /\ sessions' \in Seq(SessionRows) /\ DOMAIN sessions' = DOMAIN sessions \cup {s}
        /\ sessions'[s].email = e /\ \A n \in DOMAIN sessions : sessions'[n] = sessions[n]
    BY <1>1, <2>4 DEF PortalTables, SessionRows
  <2> HIDE DEF s
  <2>7. PortalTables'
    BY <1>1, <2>4, <2>6 DEF PortalTables, mailbag
  <2>8. SessionsOnce'
    <3>1. ASSUME NEW q \in Requests, Serves(q, "signing in")'
          PROVE  \E x \in DOMAIN client' :
            /\ job'[q].row = SignIn(x) /\ invitation'[x] = "accepted"
            /\ \A n \in DOMAIN sessions' : sessions'[n].email # x
            /\ \A p \in Requests : Serves(p, "signing in")' /\ job'[p].row = SignIn(x) => p = q
      <4>1. q # r /\ Serves(q, "signing in") /\ job'[q] = job[q]
        BY <2>2, <3>1 DEF Others, Serves
      <4>2. PICK x \in DOMAIN client :
               /\ job[q].row = SignIn(x) /\ invitation[x] = "accepted"
               /\ \A n \in DOMAIN sessions : sessions[n].email # x
               /\ \A p \in Requests : Serves(p, "signing in") /\ job[p].row = SignIn(x) => p = q
        BY <1>1, <4>1 DEF SessionsOnce
      <4>3. x # e
        BY <2>1, <4>1, <4>2, RowsApart
      <4>4. \A p \in Requests : Serves(p, "signing in")' /\ job'[p].row = SignIn(x) => p = q
        BY <2>2, <4>2 DEF Others, Serves
      <4> QED BY <2>4, <2>6, <4>1, <4>2, <4>3, <4>4
    <3>2. ASSUME NEW n \in DOMAIN sessions'
          PROVE  /\ sessions'[n].email \in DOMAIN client' /\ invitation'[sessions'[n].email] = "accepted"
                 /\ \A k \in DOMAIN sessions' : sessions'[k].email = sessions'[n].email => k = n
      <4>1. \A k \in DOMAIN sessions : sessions'[k].email = sessions[k].email /\ sessions[k].email # e
        BY <2>1, <2>6
      <4>2. CASE n \in DOMAIN sessions
        <5>1. /\ sessions[n].email \in DOMAIN client /\ invitation[sessions[n].email] = "accepted"
              /\ \A k \in DOMAIN sessions : sessions[k].email = sessions[n].email => k = n
          BY <1>1, <4>2 DEF SessionsOnce
        <5>2. sessions'[n].email = sessions[n].email /\ sessions'[n].email # e
          BY <4>1, <4>2
        <5>3. \A k \in DOMAIN sessions' : sessions'[k].email = sessions'[n].email => k = n
          <6>1. TAKE k \in DOMAIN sessions'
          <6>2. CASE k = s
            BY <2>6, <5>2, <6>2
          <6>3. CASE k \in DOMAIN sessions
            BY <4>1, <5>1, <5>2, <6>3
          <6> QED BY <2>6, <6>2, <6>3
        <5> QED BY <2>4, <5>1, <5>2, <5>3
      <4>3. CASE n = s
        <5>1. sessions'[n].email = e
          BY <2>6, <4>3
        <5>2. \A k \in DOMAIN sessions' : sessions'[k].email = e => k = n
          BY <2>6, <4>1, <4>3
        <5> QED BY <2>1, <2>4, <5>1, <5>2
      <4> QED BY <2>6, <4>2, <4>3
    <3> QED BY <3>1, <3>2 DEF SessionsOnce
  <2> QED BY <2>2, <2>5, <2>7, <2>8 DEF PortalInv, Others
<1> QED BY <1>3, <1>5, <1>7, <1>8, <1>9, <1>10 DEF AccountStep

----------------------------------------------------------------------------
(* Messages and notifications *)

\* The steps that leave the accounts alone.
LEMMA PeopleStay ==
  ASSUME PortalInv, UNCHANGED portalPeople, Undisturbed("signing in")
  PROVE  /\ SessionsOnce'
         /\ DOMAIN client' \subseteq Emails /\ DOMAIN grant' = DOMAIN client' /\ DOMAIN invitation' = DOMAIN client'
         /\ sessions' \in Seq(SessionRows)
BY SessionsStay DEF PortalInv, PortalTables, portalPeople

\* A message is stored, and its teller set to work if clients may see it.
LEMMA PostSteps ==
  ASSUME PortalInv, NEW r \in Requests, NEW t \in Nat, NEW inner \in BOOLEAN, Post(r, t, inner),
         UNCHANGED <<portalPeople, receipts, posted, delivered, notices, disturbed>>
  PROVE  /\ messages' \in Seq(MessageRows) /\ Threads'
         /\ SessionsOnce' /\ ReceiptsOnce' /\ NoticesOnce' /\ Told'
<1> DEFINE m == Len(messages) + 1
<1>1. /\ messages' \in Seq(MessageRows) /\ m \in Nat /\ DOMAIN messages' = DOMAIN messages \cup {m}
      /\ messages'[m].inner = inner /\ \A n \in DOMAIN messages : messages'[n] = messages[n]
      /\ m \notin DOMAIN messages
  BY DEF PortalInv, PortalTables, MessageRows, Post
<1>2. Threads /\ Told
  BY DEF PortalInv
<1>3. IF inner THEN UNCHANGED job ELSE Starts(r, "telling", Telling(m), Telling(m), {})
  BY DEF Post, Serve, MessageEvent, Telling
<1> HIDE DEF m
<1>4. CASE inner
  <2>1. UNCHANGED job
    BY <1>3, <1>4
  <2>2. SessionsOnce' /\ ReceiptsOnce' /\ NoticesOnce'
    BY <2>1, StillPlaces, PeopleStay, ReceiptsStay, NoticesStay DEF PortalInv
  <2>3. Visible' = Visible
    BY <1>1, <1>4 DEF Visible
  <2>4. Told'
    BY <1>2, <2>1, <2>3 DEF Told, Serves
  <2> QED BY <1>1, <1>2, <2>1, <2>2, <2>4 DEF Threads
<1>5. CASE ~inner
  <2>1. Others(r) /\ Held(job'[r], "telling", Telling(m), Telling(m), {}) /\ job[r].at = "idle" /\ job'[r].at = "telling"
    BY <1>2, <1>3, <1>5, Calls
  <2>2. Undisturbed("signing in") /\ Undisturbed("reading") /\ Undisturbed("delivered")
    BY <2>1, OtherPlaces
  <2>3. SessionsOnce' /\ ReceiptsOnce' /\ NoticesOnce'
    BY <2>2, PeopleStay, ReceiptsStay, NoticesStay DEF PortalInv, Undisturbed
  <2>4. Visible' = Visible \cup {Telling(m)}
    BY <1>1, <1>5 DEF Visible
  <2>5. job'[r].row = Telling(m) /\ job'[r].seen = Telling(m) /\ Serves(r, "telling")'
    BY <2>1 DEF Held, Serves
  <2>6. ASSUME NEW q \in Requests, Serves(q, "telling")' PROVE job'[q].row \in Visible' /\ job'[q].seen = job'[q].row
    <3>1. CASE q = r
      BY <2>4, <2>5, <3>1
    <3>2. CASE q # r
      BY <1>2, <2>1, <2>4, <2>6, <3>2 DEF Told, Others, Serves
    <3> QED BY <3>1, <3>2
  <2>7. \A x \in DOMAIN posted' : posted'[x] = x /\ x \in Visible'
    BY <1>2, <2>4 DEF Told
  <2>8. ASSUME NEW x \in Visible, x \notin DOMAIN posted, x \notin disturbed
        PROVE  \E q \in Requests : Serves(q, "telling")' /\ job'[q].seen = x
    <3>1. PICK q \in Requests : Serves(q, "telling") /\ job[q].seen = x
      BY <1>2, <2>8 DEF Told
    <3>2. job'[q] = job[q]
      BY <2>1, <3>1 DEF Others, Serves
    <3> QED BY <3>1, <3>2 DEF Serves
  <2>9. Told'
    BY <2>4, <2>5, <2>6, <2>7, <2>8 DEF Told
  <2> QED BY <1>1, <2>1, <2>3, <2>9 DEF Others
<1> QED BY <1>4, <1>5

LEMMA PostingSteps ==
  ASSUME PortalInv, NEW r \in Requests,
         \/ \E t \in DOMAIN threads, inner \in BOOLEAN : StaffSendMessage(r, t, inner)
         \/ \E e \in DOMAIN client, t \in DOMAIN threads : SendMessage(r, e, t)
         \/ \E e \in DOMAIN client, p \in Clients, h \in Families : CreateThread(r, e, p, h)
  PROVE  PortalInv'
<1>1. PortalTables /\ ThreadsReach
  BY DEF PortalInv
<1>2. ASSUME NEW t \in DOMAIN threads, NEW inner \in BOOLEAN, Post(r, t, inner),
             UNCHANGED <<portalPeople, threads, receipts, posted, delivered, notices, disturbed>>
      PROVE  PortalInv'
  <2>1. t \in Nat
    BY <1>1 DEF PortalTables
  <2>2. messages' \in Seq(MessageRows) /\ Threads' /\ SessionsOnce' /\ ReceiptsOnce' /\ NoticesOnce' /\ Told'
    BY <1>2, <2>1, PostSteps
  <2>3. PortalTables' /\ ThreadsReach'
    BY <1>1, <1>2, <2>2 DEF PortalTables, ThreadsReach, portalPeople
  <2> QED BY <2>2, <2>3 DEF PortalInv
<1>3. ASSUME NEW e \in DOMAIN client, NEW p \in Clients, NEW h \in Families, CreateThread(r, e, p, h)
      PROVE  PortalInv'
  <2> DEFINE t == Len(threads) + 1
  <2>1. /\ e \in Emails /\ t \in Nat /\ threads' \in Seq(ThreadRows) /\ DOMAIN threads' = DOMAIN threads \cup {t}
        /\ threads'[t] = [person |-> p, home |-> h, by |-> e] /\ \A n \in DOMAIN threads : threads'[n] = threads[n]
    BY <1>1, <1>3 DEF CreateThread, PortalTables, ThreadRows
  <2>2. Post(r, t, FALSE) /\ UNCHANGED <<portalPeople, receipts, posted, delivered, notices, disturbed>>
    BY <1>3 DEF CreateThread
  <2>3. "messages" \in grant[e].allows /\ h = grant[e].home
    BY <1>3 DEF CreateThread, Granted
  <2>4. grant[e].person = p \/ grant[e].kind = "joint"
    BY <1>3 DEF CreateThread, Within, Shared
  <2> HIDE DEF t
  <2>5. messages' \in Seq(MessageRows) /\ Threads' /\ SessionsOnce' /\ ReceiptsOnce' /\ NoticesOnce' /\ Told'
    BY <2>1, <2>2, PostSteps
  <2>6. PortalTables'
    BY <1>1, <2>1, <2>2, <2>5 DEF PortalTables, portalPeople
  <2>7. ThreadsReach'
    <3>1. threads'[t].by = e /\ threads'[t].home = h /\ threads'[t].person = p
      BY <2>1
    <3>2. UNCHANGED <<client, grant>>
      BY <2>2 DEF portalPeople
    <3> QED BY <1>1, <2>1, <2>3, <2>4, <3>1, <3>2 DEF ThreadsReach
  <2> QED BY <2>5, <2>6, <2>7 DEF PortalInv
<1> QED BY <1>2, <1>3 DEF StaffSendMessage, SendMessage

LEMMA TellSteps == ASSUME PortalInv, NEW r \in Requests, TellMessage(r) PROVE PortalInv'
<1>1. Threads /\ PortalTables /\ ReceiptsOnce /\ NoticesOnce /\ ThreadsReach /\ Told
  BY DEF PortalInv
<1>2. Others(r) /\ job'[r].at = "idle" /\ job[r].at = "telling"
  BY <1>1, EndSteps DEF TellMessage, Serves
<1>3. Undisturbed("signing in") /\ Undisturbed("reading") /\ Undisturbed("delivered")
  BY <1>2, OtherPlaces
<1>4. UNCHANGED <<portalPeople, threads, messages, receipts, delivered, notices, disturbed>>
  BY DEF TellMessage
<1>5. SessionsOnce' /\ ReceiptsOnce' /\ NoticesOnce' /\ ThreadsReach'
  BY <1>1, <1>3, <1>4, PeopleStay, ReceiptsStay, NoticesStay, ReachStays DEF Undisturbed, portalPeople
<1>6. PortalTables'
  BY <1>1, <1>4 DEF PortalTables, portalPeople
<1> DEFINE y == job[r].row
<1>7. y \in Visible /\ job[r].seen = y
  BY <1>1, <1>2 DEF Told, Serves
<1>8. /\ DOMAIN posted' = DOMAIN posted \cup {y} /\ posted'[y] = y
      /\ \A x \in DOMAIN posted : x # y => posted'[x] = posted[x]
  BY <1>7 DEF TellMessage, Put
<1> HIDE DEF y
<1>9. Told'
  <2>1. Visible' = Visible
    BY <1>4 DEF Visible
  <2>2. \A x \in DOMAIN posted' : posted'[x] = x /\ x \in Visible'
    BY <1>1, <1>7, <1>8, <2>1 DEF Told
  <2>3. \A q \in Requests : Serves(q, "telling")' => job'[q].row \in Visible' /\ job'[q].seen = job'[q].row
    BY <1>1, <1>2, <2>1 DEF Told, Others, Serves
  <2>4. ASSUME NEW x \in Visible, x \notin DOMAIN posted', x \notin disturbed
        PROVE  \E q \in Requests : Serves(q, "telling")' /\ job'[q].seen = x
    <3>1. PICK q \in Requests : Serves(q, "telling") /\ job[q].seen = x
      BY <1>1, <1>8, <2>4 DEF Told
    <3>2. q # r
      BY <1>7, <1>8, <2>4, <3>1
    <3> QED BY <1>2, <3>1, <3>2 DEF Others, Serves
  <2> QED BY <1>4, <2>1, <2>2, <2>3, <2>4 DEF Told
<1> QED BY <1>2, <1>5, <1>6, <1>9 DEF PortalInv, Others

LEMMA ReadSteps ==
  ASSUME PortalInv, NEW r \in Requests,
         MarkReadWrite(r) \/ \E e \in DOMAIN client, m \in DOMAIN messages : MarkReadStart(r, e, m)
  PROVE  PortalInv'
<1>1. Threads /\ PortalTables /\ ReceiptsOnce /\ NoticesOnce /\ ThreadsReach /\ Told
  BY DEF PortalInv
<1>2. CASE MarkReadWrite(r)
  <2>1. Others(r) /\ job'[r].at = "idle" /\ job[r].at = "reading"
    BY <1>1, <1>2, EndSteps DEF MarkReadWrite, Serves
  <2>2. Undisturbed("signing in") /\ Undisturbed("telling") /\ Undisturbed("delivered")
    BY <2>1, OtherPlaces
  <2>3. UNCHANGED <<portalPeople, threads, messages, posted, delivered, notices, disturbed>>
    BY <1>2 DEF MarkReadWrite
  <2>4. SessionsOnce' /\ NoticesOnce' /\ ThreadsReach' /\ Told'
    BY <1>1, <2>2, <2>3, PeopleStay, NoticesStay, ReachStays, ToldStays DEF portalPeople
  <2> DEFINE y == job[r].row
             s == Len(receipts) + 1
  <2>5. y \in ReceiptRows
    BY <1>1, <2>1 DEF ReceiptsOnce, Serves
  <2> HIDE DEF y
  <2>6. /\ receipts' \in Seq(ReceiptRows) /\ DOMAIN receipts' = DOMAIN receipts \cup {s} /\ receipts'[s] = y
        /\ \A n \in DOMAIN receipts : receipts'[n] = receipts[n]
    <3>1. receipts' = Append(receipts, y) /\ receipts \in Seq(ReceiptRows)
      BY <1>1, <1>2 DEF MarkReadWrite, PortalTables, y
    <3> QED BY <2>5, <3>1
  <2> HIDE DEF s
  <2>7. PortalTables'
    BY <1>1, <2>3, <2>6 DEF PortalTables, portalPeople
  <2>8. y \notin disturbed =>
            /\ \A n \in DOMAIN receipts : receipts[n] # y
            /\ \A q \in Requests : Serves(q, "reading") /\ job[q].row = y => q = r
    BY <1>1, <2>1 DEF ReceiptsOnce, Serves, y
  <2>9. ASSUME NEW i \in DOMAIN receipts', NEW j \in DOMAIN receipts', receipts'[i] = receipts'[j], i # j
        PROVE  receipts'[i] \in disturbed
    <3>1. CASE receipts'[i] = y
      <4>1. i \in DOMAIN receipts \/ j \in DOMAIN receipts
        BY <2>6, <2>9
      <4> QED BY <2>6, <2>8, <2>9, <3>1, <4>1
    <3>2. CASE receipts'[i] # y
      <4>1. i \in DOMAIN receipts /\ j \in DOMAIN receipts
        BY <2>6, <2>9, <3>2
      <4> QED BY <1>1, <2>6, <2>9, <4>1 DEF ReceiptsOnce
    <3> QED BY <3>1, <3>2
  <2>10. ASSUME NEW q \in Requests, Serves(q, "reading")'
         PROVE  /\ job'[q].row \in ReceiptRows
                /\ job'[q].row \notin disturbed' =>
                     /\ \A n \in DOMAIN receipts' : receipts'[n] # job'[q].row
                     /\ \A p \in Requests : Serves(p, "reading")' /\ job'[p].row = job'[q].row => p = q
    <3>1. q # r /\ Serves(q, "reading") /\ job'[q] = job[q]
      BY <2>1, <2>10 DEF Others, Serves
    <3>2. /\ job[q].row \in ReceiptRows
          /\ job[q].row \notin disturbed =>
               /\ \A n \in DOMAIN receipts : receipts[n] # job[q].row
               /\ \A p \in Requests : Serves(p, "reading") /\ job[p].row = job[q].row => p = q
      BY <1>1, <3>1 DEF ReceiptsOnce
    <3>3. job[q].row # y \/ y \in disturbed
      BY <2>1, <2>8, <3>1
    <3>4. job[q].row \notin disturbed => \A n \in DOMAIN receipts' : receipts'[n] # job[q].row
      BY <2>6, <3>2, <3>3
    <3>5. job[q].row \notin disturbed =>
             \A p \in Requests : Serves(p, "reading")' /\ job'[p].row = job'[q].row => p = q
      BY <2>1, <3>1, <3>2 DEF Others, Serves
    <3> QED BY <2>3, <3>1, <3>2, <3>4, <3>5
  <2>11. ReceiptsOnce'
    BY <2>3, <2>9, <2>10 DEF ReceiptsOnce
  <2> QED BY <2>1, <2>4, <2>7, <2>11 DEF PortalInv, Others
<1>3. ASSUME NEW e \in DOMAIN client, NEW m \in DOMAIN messages, MarkReadStart(r, e, m) PROVE PortalInv'
  <2> DEFINE y == <<"receipt", m, e>>
  <2>1. y \in ReceiptRows /\ \A n \in DOMAIN receipts : receipts[n] # y
    <3>1. m \in Nat /\ e \in Emails
      BY <1>1 DEF PortalTables
    <3> QED BY <1>3, <3>1 DEF MarkReadStart, Unread, ReceiptRows
  <2>2. /\ Starts(r, "reading", y, None, {}) /\ disturbed' = disturbed \cup (IF About(y) = {} THEN {} ELSE {y})
        /\ UNCHANGED <<portalPeople, mailbag, delivered, notices>>
    BY <1>3 DEF MarkReadStart
  <2> HIDE DEF y
  <2>3. Others(r) /\ Held(job'[r], "reading", y, None, {}) /\ job[r].at = "idle" /\ job'[r].at = "reading"
    BY <1>1, <2>2, Calls
  <2>4. Undisturbed("signing in") /\ Undisturbed("telling") /\ Undisturbed("delivered")
    BY <2>3, OtherPlaces
  <2>5. disturbed \subseteq disturbed' /\ UNCHANGED <<portalPeople, threads, messages, receipts, posted, delivered, notices>>
    BY <2>2 DEF mailbag
  <2>6. SessionsOnce' /\ NoticesOnce' /\ ThreadsReach' /\ Told'
    BY <1>1, <2>4, <2>5, PeopleStay, NoticesStay, ReachStays, ToldStays DEF portalPeople
  <2>7. PortalTables'
    BY <1>1, <2>5 DEF PortalTables, portalPeople
  <2>8. job'[r].row = y
    BY <2>3 DEF Held
  <2>9. ASSUME NEW q \in Requests, Serves(q, "reading"), job[q].row = y PROVE y \in disturbed'
    <3>1. q \in About(y)
      <4>1. ~Waits(q)
        BY <2>9 DEF Serves, Waits, Idle
      <4> QED BY <2>9, <4>1 DEF About
    <3> QED BY <2>2, <3>1
  <2>10. ASSUME NEW q \in Requests, Serves(q, "reading")'
         PROVE  /\ job'[q].row \in ReceiptRows
                /\ job'[q].row \notin disturbed' =>
                     /\ \A n \in DOMAIN receipts' : receipts'[n] # job'[q].row
                     /\ \A p \in Requests : Serves(p, "reading")' /\ job'[p].row = job'[q].row => p = q
    <3>1. CASE q = r
      <4>1. y \notin disturbed' => \A p \in Requests : Serves(p, "reading")' /\ job'[p].row = y => p = r
        BY <2>3, <2>9 DEF Others, Serves
      <4> QED BY <2>1, <2>5, <2>8, <3>1, <4>1
    <3>2. CASE q # r
      <4>1. Serves(q, "reading") /\ job'[q] = job[q]
        BY <2>3, <2>10, <3>2 DEF Others, Serves
      <4>2. /\ job[q].row \in ReceiptRows
            /\ job[q].row \notin disturbed =>
                 /\ \A n \in DOMAIN receipts : receipts[n] # job[q].row
                 /\ \A p \in Requests : Serves(p, "reading") /\ job[p].row = job[q].row => p = q
        BY <1>1, <4>1 DEF ReceiptsOnce
      <4>3. job[q].row = y => y \in disturbed'
        BY <2>9, <4>1
      <4>4. job[q].row \notin disturbed' =>
               \A p \in Requests : Serves(p, "reading")' /\ job'[p].row = job[q].row => p = q
        BY <2>3, <2>5, <2>8, <4>2, <4>3 DEF Others, Serves
      <4> QED BY <2>5, <4>1, <4>2, <4>4
    <3> QED BY <3>1, <3>2
  <2>11. ReceiptsOnce'
    BY <1>1, <2>5, <2>10 DEF ReceiptsOnce
  <2> QED BY <2>3, <2>6, <2>7, <2>11 DEF PortalInv, Others
<1> QED BY <1>2, <1>3

LEMMA NoticeSteps ==
  ASSUME PortalInv, NEW r \in Requests, NotifyStore(r) \/ \E k \in Notices : NotifyDeliver(r, k)
  PROVE  PortalInv'
<1>1. Threads /\ PortalTables /\ ReceiptsOnce /\ NoticesOnce /\ ThreadsReach /\ Told
  BY DEF PortalInv
<1>2. ASSUME NoticesOnce', Others(r), UNCHANGED <<portalPeople, mailbag>>, disturbed \subseteq disturbed',
             Undisturbed("signing in"), Undisturbed("reading"), Undisturbed("telling")
      PROVE  PortalInv'
  <2>1. SessionsOnce' /\ ReceiptsOnce' /\ ThreadsReach' /\ Told'
    BY <1>1, <1>2, PeopleStay, ReceiptsStay, ReachStays, ToldStays DEF portalPeople, mailbag, Undisturbed
  <2>2. PortalTables'
    BY <1>1, <1>2 DEF PortalTables, portalPeople, mailbag
  <2> QED BY <1>2, <2>1, <2>2 DEF PortalInv, Others
<1>3. CASE NotifyStore(r)
  <2>1. Others(r) /\ job'[r].at = "idle" /\ job[r].at = "delivered"
    BY <1>1, <1>3, EndSteps DEF NotifyStore, Serves
  <2>2. Undisturbed("signing in") /\ Undisturbed("reading") /\ Undisturbed("telling")
    BY <2>1, OtherPlaces
  <2>3. PICK x \in Notices : job[r].row = Notice(x)
    BY <1>1, <2>1 DEF NoticesOnce, Serves
  <2>4. notices' = notices \cup {x} /\ UNCHANGED <<portalPeople, mailbag, delivered, disturbed>>
    BY <1>3, <2>3, RowsApart DEF NotifyStore
  <2>5. ASSUME NEW k \in Notices, delivered[k] > 0, Notice(k) \notin disturbed
        PROVE  /\ delivered[k] = 1
               /\ k \in notices' \/ \E q \in Requests : Serves(q, "delivered")' /\ job'[q].row = Notice(k)
    <3>1. /\ delivered[k] = 1
          /\ k \in notices \/ \E q \in Requests : Serves(q, "delivered") /\ job[q].row = Notice(k)
      BY <1>1, <2>5 DEF NoticesOnce
    <3>2. CASE k \in notices'
      BY <3>1, <3>2
    <3>3. CASE k \notin notices'
      <4>1. PICK q \in Requests : Serves(q, "delivered") /\ job[q].row = Notice(k)
        BY <2>4, <3>1, <3>3
      <4>2. q # r
        BY <2>3, <2>4, <3>3, <4>1, RowsApart
      <4> QED BY <2>1, <3>1, <4>1, <4>2 DEF Others, Serves
    <3> QED BY <3>2, <3>3
  <2>6. NoticesOnce'
    BY <1>1, <2>1, <2>4, <2>5 DEF NoticesOnce, Others, Serves
  <2> QED BY <1>2, <2>1, <2>2, <2>4, <2>6
<1>4. ASSUME NEW x \in Notices, NotifyDeliver(r, x) PROVE PortalInv'
  <2> DEFINE y == Notice(x)
  <2>1. /\ Starts(r, "delivered", y, None, {}) /\ disturbed' = disturbed \cup (IF About(y) = {} THEN {} ELSE {y})
        /\ delivered' = [delivered EXCEPT ![x] = @ + 1] /\ x \notin notices
        /\ UNCHANGED <<portalPeople, mailbag, notices>>
    BY <1>4 DEF NotifyDeliver, NotOnRecord, Notice
  <2> HIDE DEF y
  <2>2. Others(r) /\ Held(job'[r], "delivered", y, None, {}) /\ job[r].at = "idle" /\ job'[r].at = "delivered"
    BY <1>1, <2>1, Calls
  <2>3. Undisturbed("signing in") /\ Undisturbed("reading") /\ Undisturbed("telling")
    BY <2>2, OtherPlaces
  <2>4. disturbed \subseteq disturbed' /\ UNCHANGED <<portalPeople, mailbag, notices>>
    BY <2>1
  <2>5. Serves(r, "delivered")' /\ job'[r].row = y
    BY <2>2 DEF Held, Serves
  <2>6. delivered' \in [Notices -> Nat] /\ delivered'[x] = delivered[x] + 1 /\ delivered[x] \in Nat
        /\ \A k \in Notices \ {x} : delivered'[k] = delivered[k]
    BY <1>1, <2>1 DEF NoticesOnce
  <2>7. delivered[x] > 0 => y \in disturbed'
    <3>1. SUFFICES ASSUME delivered[x] > 0, y \notin disturbed PROVE y \in disturbed'
      BY <2>1
    <3>2. PICK q \in Requests : Serves(q, "delivered") /\ job[q].row = y
      BY <1>1, <2>1, <3>1 DEF NoticesOnce, y
    <3>3. q \in About(y)
      <4>1. ~Waits(q)
        BY <3>2 DEF Serves, Waits, Idle
      <4> QED BY <3>2, <4>1 DEF About
    <3> QED BY <2>1, <3>3
  <2>8. ASSUME NEW k \in Notices, delivered'[k] > 0, Notice(k) \notin disturbed'
        PROVE  /\ delivered'[k] = 1
               /\ k \in notices' \/ \E q \in Requests : Serves(q, "delivered")' /\ job'[q].row = Notice(k)
    <3>1. CASE k = x
      BY <2>5, <2>6, <2>7, <2>8, <3>1 DEF y
    <3>2. CASE k # x
      <4>1. /\ delivered[k] = 1
            /\ k \in notices \/ \E q \in Requests : Serves(q, "delivered") /\ job[q].row = Notice(k)
        BY <1>1, <2>4, <2>6, <2>8, <3>2 DEF NoticesOnce
      <4> QED BY <2>2, <2>4, <2>6, <3>2, <4>1 DEF Others, Serves
    <3> QED BY <3>1, <3>2
  <2>9. NoticesOnce'
    BY <1>1, <2>2, <2>5, <2>6, <2>8 DEF NoticesOnce, Others, Serves, y
  <2> QED BY <1>2, <2>2, <2>3, <2>4, <2>9
<1> QED BY <1>3, <1>4

LEMMA CrashSteps == ASSUME PortalInv, NEW r \in Requests, PortalCrash(r) PROVE PortalInv'
<1>1. Threads /\ PortalTables /\ SessionsOnce /\ ReceiptsOnce /\ NoticesOnce /\ ThreadsReach /\ Told
  BY DEF PortalInv
<1>2. Others(r) /\ job'[r].at = "idle"
  BY <1>1, EndSteps DEF PortalCrash, Dies
<1>3. disturbed' = disturbed \cup {job[r].row, job[r].seen} /\ UNCHANGED <<portalPeople, mailbag, delivered, notices>>
  BY DEF PortalCrash
<1>4. PortalTables' /\ ThreadsReach'
  BY <1>1, <1>3 DEF PortalTables, ThreadsReach, portalPeople, mailbag
<1>5. ASSUME NEW q \in Requests, NEW place, place # "idle", Serves(q, place)'
      PROVE  Serves(q, place) /\ job'[q] = job[q]
  BY <1>2, <1>5 DEF Others, Serves
<1>6. SessionsOnce'
  <2>1. UNCHANGED <<client, invitation, sessions>>
    BY <1>3 DEF portalPeople
  <2>2. ASSUME NEW q \in Requests, Serves(q, "signing in")'
        PROVE  \E e \in DOMAIN client' :
          /\ job'[q].row = SignIn(e) /\ invitation'[e] = "accepted"
          /\ \A n \in DOMAIN sessions' : sessions'[n].email # e
          /\ \A p \in Requests : Serves(p, "signing in")' /\ job'[p].row = SignIn(e) => p = q
    <3>1. Serves(q, "signing in") /\ job'[q] = job[q]
      BY <1>5, <2>2
    <3>2. PICK e \in DOMAIN client :
            /\ job[q].row = SignIn(e) /\ invitation[e] = "accepted"
            /\ \A n \in DOMAIN sessions : sessions[n].email # e
            /\ \A p \in Requests : Serves(p, "signing in") /\ job[p].row = SignIn(e) => p = q
      BY <1>1, <3>1 DEF SessionsOnce
    <3>3. \A p \in Requests : Serves(p, "signing in")' /\ job'[p].row = SignIn(e) => p = q
      BY <1>5, <3>2
    <3>4. /\ e \in DOMAIN client' /\ job'[q].row = SignIn(e) /\ invitation'[e] = "accepted"
          /\ \A n \in DOMAIN sessions' : sessions'[n].email # e
      BY <2>1, <3>1, <3>2
    <3> QED BY <3>3, <3>4
  <2>3. \A n \in DOMAIN sessions :
          /\ sessions[n].email \in DOMAIN client /\ invitation[sessions[n].email] = "accepted"
          /\ \A k \in DOMAIN sessions : sessions[k].email = sessions[n].email => k = n
    BY <1>1 DEF SessionsOnce
  <2>4. \A n \in DOMAIN sessions' :
          /\ sessions'[n].email \in DOMAIN client' /\ invitation'[sessions'[n].email] = "accepted"
          /\ \A k \in DOMAIN sessions' : sessions'[k].email = sessions'[n].email => k = n
    BY <2>1, <2>3
  <2> QED BY <2>2, <2>4 DEF SessionsOnce
<1>7. ReceiptsOnce'
  BY <1>1, <1>3, <1>5, ReceiptsStay DEF mailbag, Serves
<1>8. NoticesOnce'
  <2>1. ASSUME NEW k \in Notices, delivered[k] > 0, Notice(k) \notin disturbed'
        PROVE  /\ delivered[k] = 1
               /\ k \in notices \/ \E q \in Requests : Serves(q, "delivered")' /\ job'[q].row = Notice(k)
    <3>1. /\ delivered[k] = 1
          /\ k \in notices \/ \E q \in Requests : Serves(q, "delivered") /\ job[q].row = Notice(k)
      BY <1>1, <1>3, <2>1 DEF NoticesOnce
    <3> QED BY <1>2, <1>3, <2>1, <3>1 DEF Others, Serves
  <2>2. ASSUME NEW q \in Requests, Serves(q, "delivered")' PROVE \E k \in Notices : job'[q].row = Notice(k)
    <3>1. Serves(q, "delivered") /\ job'[q] = job[q]
      BY <1>5, <2>2
    <3> QED BY <1>1, <3>1 DEF NoticesOnce
  <2> QED BY <1>1, <1>3, <2>1, <2>2 DEF NoticesOnce
<1>9. Told'
  <2>1. Visible' = Visible /\ UNCHANGED posted
    BY <1>3 DEF Visible, mailbag
  <2>2. ASSUME NEW q \in Requests, Serves(q, "telling")' PROVE job'[q].row \in Visible /\ job'[q].seen = job'[q].row
    <3>1. Serves(q, "telling") /\ job'[q] = job[q]
      BY <1>5, <2>2
    <3> QED BY <1>1, <3>1 DEF Told
  <2>3. ASSUME NEW x \in Visible, x \notin DOMAIN posted, x \notin disturbed'
        PROVE  \E q \in Requests : Serves(q, "telling")' /\ job'[q].seen = x
    <3>1. PICK q \in Requests : Serves(q, "telling") /\ job[q].seen = x
      BY <1>1, <1>3, <2>3 DEF Told
    <3> QED BY <1>2, <1>3, <2>3, <3>1 DEF Others, Serves
  <2> QED BY <1>1, <2>1, <2>2, <2>3 DEF Told
<1> QED BY <1>2, <1>4, <1>6, <1>7, <1>8, <1>9 DEF PortalInv, Others

LEMMA MessageSteps == PortalInv /\ MessageStep => PortalInv'
BY PostingSteps, TellSteps, ReadSteps, NoticeSteps, CrashSteps DEF MessageStep

LEMMA PortalStutters == PortalInv /\ UNCHANGED portalVars => PortalInv'
<1> SUFFICES ASSUME PortalInv, UNCHANGED portalVars PROVE PortalInv'
  OBVIOUS
<1>1. UNCHANGED <<mailbag, delivered, notices, disturbed, job, client, grant, invitation, sessions>>
  BY DEF portalVars, portalPeople, requestVars
<1>2. ReceiptsOnce' /\ NoticesOnce' /\ ThreadsReach' /\ Told'
  BY <1>1, MailStays, StillPlaces
<1>3. SessionsOnce'
  BY <1>1, SessionsStay, StillPlaces DEF PortalInv
<1>4. Threads' /\ PortalTables'
  BY <1>1 DEF PortalInv, Threads, PortalTables, mailbag
<1> QED BY <1>2, <1>3, <1>4 DEF PortalInv

LEMMA PortalSound == PortalSpec => []PortalInv
<1>1. PortalInv /\ [PortalNext]_portalVars => PortalInv'
  BY AccountSteps, MessageSteps, PortalStutters DEF PortalNext
<1> QED BY <1>1, PortalStart, PTL DEF PortalSpec

----------------------------------------------------------------------------

\* An account has at most one session from its invitation, although accepting
\* it and signing in are two transactions (accept_invitation); a message is
\* read once by an account and a notification delivered once, unless requests
\* met or died: for any accounts, threads and requests.
THEOREM SessionsOpenOnce == PortalSpec => []OnceEach
<1>1. PortalInv => OnceEach
  <2> SUFFICES ASSUME PortalInv PROVE OnceEach
    OBVIOUS
  <2>1. ASSUME NEW e \in DOMAIN client
        PROVE  Cardinality({n \in DOMAIN sessions : sessions[n].email = e}) <= 1
    <3> DEFINE S == {n \in DOMAIN sessions : sessions[n].email = e}
    <3>1. CASE S = {}
      BY <3>1, FS_EmptySet
    <3>2. ASSUME NEW n \in S PROVE Cardinality(S) <= 1
      <4>1. \A k \in S : k = n
        BY <3>2 DEF PortalInv, SessionsOnce
      <4>2. S = {n}
        BY <4>1, <3>2
      <4> HIDE DEF S
      <4>3. Cardinality({n}) = 1
        BY FS_Singleton
      <4> QED BY <4>2, <4>3
    <3> QED BY <3>1, <3>2
  <2>2. \A i, j \in DOMAIN receipts : receipts[i] = receipts[j] => i = j \/ receipts[i] \in disturbed
    BY DEF PortalInv, ReceiptsOnce
  <2>3. \A k \in Notices : delivered[k] > 1 => Notice(k) \in disturbed
    BY DEF PortalInv, NoticesOnce
  <2> QED BY <2>1, <2>2, <2>3 DEF OnceEach, Notice
<1> QED BY <1>1, PortalSound, PTL

\* Whoever opened a thread can read it, and every message that clients may see
\* has an event of its own on the timeline and a note of the staff none, unless
\* the request that sent it died (portal/service.py): whatever is
\* granted, revoked and moved between households meanwhile.
THEOREM ThreadsReachTheirReaders == PortalSpec => []ThreadsKept
<1>1. PortalInv => WriterReads
  <2> SUFFICES ASSUME PortalInv, NEW t \in DOMAIN threads, NEW m \in DOMAIN messages,
                      messages[m].thread = t /\ ~messages[m].inner
               PROVE  m \in Listed(threads[t].by, t)
    BY DEF WriterReads
  <2> DEFINE e == threads[t].by
  <2>1. /\ "messages" \in grant[e].allows
        /\ \/ grant[e].kind = "joint" /\ grant[e].home = threads[t].home
           \/ grant[e].person = threads[t].person
    BY DEF PortalInv, ThreadsReach
  <2>2. threads[t].person \in Clients
    <3>1. threads[t] \in ThreadRows
      BY DEF PortalInv, PortalTables
    <3> QED BY <3>1 DEF ThreadRows
  <2>3. Reaches(e, t)
    BY <2>1, <2>2 DEF Reaches, Shared, Granted, Within
  <2> QED BY <2>3 DEF Listed
<1>2. PortalInv => PostedIsTold
  <2> SUFFICES ASSUME PortalInv, NEW m \in DOMAIN messages
               PROVE  IF messages[m].inner THEN Telling(m) \notin {posted[x] : x \in DOMAIN posted}
                      ELSE \/ Telling(m) \in {posted[x] : x \in DOMAIN posted}
                           \/ Telling(m) \in disturbed
                           \/ \E r \in Requests : Serves(r, "telling") /\ job[r].seen = Telling(m)
    BY DEF PostedIsTold, Telling
  <2>1. Told
    BY DEF PortalInv
  <2>2. Telling(m) \in Visible <=> ~messages[m].inner
    BY RowsApart DEF Visible
  <2> QED BY <2>1, <2>2 DEF Told
<1> QED BY <1>1, <1>2, PortalSound, PTL DEF ThreadsKept

----------------------------------------------------------------------------
(* Organizations and relationships *)

\* An event is known by what it tells of which edge, an entity by its number.
LEMMA EventsDiffer ==
  ASSUME NEW k, NEW e, NEW l, NEW f, EventId(k, e) = EventId(l, f) PROVE k = l /\ e = f
BY DEF EventId

LEMMA EventParts == ASSUME NEW k, NEW e PROVE EventId(k, e)[1] = k
BY DEF EventId

LEMMA NamesDiffer == ASSUME NEW m, NEW n, Named(m) = Named(n) PROVE m = n
BY DEF Named

\* A row is stored beside the others, or in the place of its own.
LEMMA Puts ==
  ASSUME NEW f, NEW x, NEW row
  PROVE  /\ DOMAIN Put(f, x, row) = DOMAIN f \cup {x} /\ Put(f, x, row)[x] = row
         /\ \A y \in DOMAIN f : y # x => Put(f, x, row)[y] = f[y]
BY DEF Put

OrgRow == [status : Statuses, by : Colleagues]
OrgRows ==
  /\ named \in Nat /\ orgs \in [DOMAIN orgs -> OrgRow]
  /\ \A o \in DOMAIN orgs : \E n \in 1..named : o = Named(n)

\* What a request has still to write.
StillTells(r) ==
  Serves(r, "tell") => \E k, e : job[r].row = EventId(k, e) /\ job[r].seen = e[1][2]
Assigning(r) ==
  Serves(r, "assign") => job[r].row \in DOMAIN orgs /\ job[r].seen = orgs[job[r].row].by

\* The event of an edge that was added is there, or its request has it or died with it.
ToldOf(e) ==
  LET id == EventId("added", e)
  IN  \/ id \in DOMAIN news /\ news[id] = e[1][2]
      \/ <<"tell", id, e[1][2]>> \in cutoff
      \/ \E r \in Requests : Serves(r, "tell") /\ job[r].row = id /\ job[r].seen = e[1][2]

SeenBy(o) ==
  \/ InScope(orgs[o].by, o)
  \/ <<"assign", o, orgs[o].by>> \in cutoff
  \/ \E r \in Requests : Serves(r, "assign") /\ job[r].row = o

RelationInv ==
  /\ Threads /\ OrgRows
  /\ \A r \in Requests : StillTells(r) /\ Assigning(r)
  /\ \A e \in DOMAIN edges \ DOMAIN owned : ToldOf(e)
  /\ \A o \in DOMAIN orgs : SeenBy(o)

LEMMA RelationStart == RelationInit => RelationInv
<1> SUFFICES ASSUME RelationInit PROVE RelationInv
  OBVIOUS
<1>1. Threads /\ \A r \in Requests : job[r].at = "idle"
  BY DEF RelationInit, RequestInit, Idle, Threads
<1>2. named = 0 /\ DOMAIN orgs = {} /\ DOMAIN edges = {} /\ orgs = << >>
  BY DEF RelationInit
<1>3. OrgRows
  BY <1>2 DEF OrgRows
<1> QED BY <1>1, <1>2, <1>3 DEF RelationInv, StillTells, Assigning, Serves

\* Threads that are at work on neither: the organizations and events stay.
Witnesses(r) == job'[r].at \notin {"tell", "assign"}

\* A request begins that ends without telling or assigning anything, or one is
\* served in a single step: edges and organizations keep who they were made for.
LEMMA QuietSteps ==
  ASSUME RelationInv, Threads',
         \A r \in Requests : job[r].at \in {"tell", "assign"} \/ job'[r].at \in {"tell", "assign"} => job'[r] = job[r],
         UNCHANGED <<named, news, sees, cutoff>>, OrgRows', DOMAIN orgs' = DOMAIN orgs,
         \A o \in DOMAIN orgs : orgs'[o].by = orgs[o].by,
         \A e \in DOMAIN edges' \ DOMAIN owned' : e \in DOMAIN edges \ DOMAIN owned
  PROVE  RelationInv'
<1>1. \A r \in Requests : StillTells(r)' /\ Assigning(r)'
  BY DEF RelationInv, StillTells, Assigning, Serves
<1>2. \A e \in DOMAIN edges' \ DOMAIN owned' : ToldOf(e)'
  BY DEF RelationInv, ToldOf, Serves
<1>3. \A o \in DOMAIN orgs' : SeenBy(o)'
  BY DEF RelationInv, SeenBy, Serves, InScope
<1> QED BY <1>1, <1>2, <1>3 DEF RelationInv

\* A request begins that tells an event.
LEMMA TellStarts ==
  ASSUME RelationInv, NEW r \in Requests, NEW k, NEW e, Starts(r, "tell", EventId(k, e), e[1][2], {}),
         UNCHANGED <<news, sees, cutoff, orgs, owned>>, OrgRows',
         \A f \in DOMAIN edges' : f \in DOMAIN edges \/ (f = e /\ k = "added")
  PROVE  RelationInv'
<1>1. Others(r) /\ Held(job'[r], "tell", EventId(k, e), e[1][2], {}) /\ job[r].at = "idle" /\ job'[r].at = "tell"
  BY Calls DEF RelationInv
<1>2. job'[r].row = EventId(k, e) /\ job'[r].seen = e[1][2]
  BY <1>1 DEF Held
<1>3. ASSUME NEW q \in Requests PROVE StillTells(q)' /\ Assigning(q)'
  BY <1>1, <1>2 DEF RelationInv, StillTells, Assigning, Serves, Others
<1>4. ASSUME NEW f \in DOMAIN edges' \ DOMAIN owned' PROVE ToldOf(f)'
  <2>1. CASE f \in DOMAIN edges
    <3>1. ToldOf(f)
      BY <2>1 DEF RelationInv
    <3>2. \A q \in Requests : Serves(q, "tell") => job'[q] = job[q]
      BY <1>1 DEF Others, Serves
    <3> QED BY <3>1, <3>2 DEF ToldOf, Serves
  <2>2. CASE f = e /\ k = "added"
    BY <1>1, <1>2, <2>2 DEF ToldOf, Serves
  <2> QED BY <2>1, <2>2
<1>5. \A o \in DOMAIN orgs' : SeenBy(o)'
  <2>1. \A q \in Requests : Serves(q, "assign") => job'[q] = job[q]
    BY <1>1 DEF Others, Serves
  <2> QED BY <2>1 DEF RelationInv, SeenBy, Serves, InScope
<1> QED BY <1>1, <1>3, <1>4, <1>5 DEF RelationInv, Others

LEMMA RelationshipSteps ==
  ASSUME RelationInv, NEW r \in Requests,
         \/ \E p \in Relatives, t \in Types, target \in Relatives \cup {None}, ended \in BOOLEAN :
              CreateRelationship(r, p, t, target, ended)
         \/ \E e \in DOMAIN edges : DeactivateRelationship(r, e)
  PROVE  RelationInv'
<1>1. ASSUME NEW p \in Relatives, NEW t \in Types, NEW target \in Relatives \cup {None}, NEW ended \in BOOLEAN,
             CreateRelationship(r, p, t, target, ended)
      PROVE  RelationInv'
  <2> DEFINE to == IF target = None THEN Named(named + 1) ELSE Person(target)
             e == <<Person(p), to, t>>
  <2>1. /\ Starts(r, "tell", EventId("added", e), p, {}) /\ UNCHANGED <<news, business, cutoff>>
        /\ edges' = Put(edges, e, [active |-> ~ended, ended |-> ended])
        /\ named' = IF target = None THEN named + 1 ELSE named
    BY <1>1 DEF CreateRelationship
  <2>2. e[1][2] = p
    BY DEF Person
  <2> HIDE DEF e
  <2>3. DOMAIN edges' = DOMAIN edges \cup {e}
    BY <2>1, Puts
  <2>4. OrgRows'
    BY <2>1 DEF RelationInv, OrgRows, business
  <2> QED BY <2>1, <2>2, <2>3, <2>4, TellStarts DEF business
<1>2. ASSUME NEW e \in DOMAIN edges, DeactivateRelationship(r, e) PROVE RelationInv'
  <2>1. DOMAIN edges' = DOMAIN edges /\ UNCHANGED <<named, news, business, cutoff>> /\ OrgRows'
    BY <1>2 DEF DeactivateRelationship, RelationInv, OrgRows, business
  <2>2. CASE Starts(r, "tell", EventId("ended", e), e[1][2], {})
    BY <2>1, <2>2, TellStarts DEF business
  <2>3. CASE Serve
    <3>1. UNCHANGED job
      BY <2>3 DEF Serve
    <3> QED BY <2>1, <3>1, QuietSteps DEF business, RelationInv, Threads
  <2> QED BY <1>2, <2>2, <2>3 DEF DeactivateRelationship
<1> QED BY <1>1, <1>2

LEMMA Tells == ASSUME RelationInv, NEW r \in Requests, Tell(r) PROVE RelationInv'
<1> DEFINE id == job[r].row
           p == job[r].seen
<1>1. /\ job[r].at = "tell" /\ news' = Put(news, id, p) /\ UNCHANGED <<named, edges, business, cutoff>> /\ Ends(r)
  BY DEF Tell, Serves
<1>2. PICK k, e : id = EventId(k, e) /\ p = e[1][2]
  BY <1>1 DEF RelationInv, StillTells, Serves
<1>3. Others(r) /\ job'[r].at = "idle"
  BY <1>1, EndSteps DEF RelationInv
<1>4. /\ DOMAIN news' = DOMAIN news \cup {id} /\ news'[id] = p
      /\ \A y \in DOMAIN news : y # id => news'[y] = news[y]
  <2> HIDE DEF id, p
  <2>1. /\ DOMAIN Put(news, id, p) = DOMAIN news \cup {id} /\ Put(news, id, p)[id] = p
        /\ \A y \in DOMAIN news : y # id => Put(news, id, p)[y] = news[y]
    BY DEF Put
  <2> QED BY <1>1, <2>1
<1> HIDE DEF id, p
<1>5. ASSUME NEW q \in Requests PROVE StillTells(q)' /\ Assigning(q)'
  BY <1>1, <1>3 DEF RelationInv, StillTells, Assigning, Serves, Others, business
<1>6. ASSUME NEW f \in DOMAIN edges \ DOMAIN owned PROVE ToldOf(f)'
  <2> DEFINE d == EventId("added", f)
  <2>1. ToldOf(f)
    BY DEF RelationInv
  <2>2. CASE id = d
    <3>0. EventId(k, e) = EventId("added", f)
      BY <1>2, <2>2
    <3>1. e = f
      BY <3>0, EventsDiffer
    <3> QED BY <1>2, <1>4, <2>2, <3>1 DEF ToldOf
  <2>3. CASE id # d
    <3>1. \A q \in Requests : Serves(q, "tell") /\ job[q].row = d => job'[q] = job[q]
      BY <1>3, <2>3 DEF Others, id
    <3> QED BY <1>1, <1>4, <2>1, <2>3, <3>1 DEF ToldOf, Serves
  <2> QED BY <2>2, <2>3
<1>7. \A o \in DOMAIN orgs' : SeenBy(o)'
  <2>1. \A q \in Requests : Serves(q, "assign") => job'[q] = job[q]
    BY <1>1, <1>3 DEF Others, Serves
  <2> QED BY <1>1, <2>1 DEF RelationInv, SeenBy, Serves, InScope, business
<1> QED BY <1>1, <1>3, <1>5, <1>6, <1>7 DEF RelationInv, Others, OrgRows, business

LEMMA OrganizationCreations ==
  ASSUME RelationInv, NEW r \in Requests, NEW u \in Colleagues, NEW s \in Statuses, CreateOrganization(r, u, s)
  PROVE  RelationInv'
<1> DEFINE o == Named(named + 1)
           row == [status |-> s, by |-> u]
<1>1. /\ named' = named + 1 /\ orgs' = Put(orgs, o, row) /\ Starts(r, "assign", o, u, {})
      /\ UNCHANGED <<edges, news, sees, owned, cutoff>>
  BY DEF CreateOrganization, Assigns
<1>2. Others(r) /\ Held(job'[r], "assign", o, u, {}) /\ job[r].at = "idle" /\ job'[r].at = "assign"
  BY <1>1, Calls DEF RelationInv
<1>3. job'[r].row = o /\ job'[r].seen = u
  BY <1>2 DEF Held
<1>4. /\ DOMAIN orgs' = DOMAIN orgs \cup {o} /\ orgs'[o] = row
      /\ \A y \in DOMAIN orgs : y # o => orgs'[y] = orgs[y]
  <2> HIDE DEF o, row
  <2>1. /\ DOMAIN Put(orgs, o, row) = DOMAIN orgs \cup {o} /\ Put(orgs, o, row)[o] = row
        /\ \A y \in DOMAIN orgs : y # o => Put(orgs, o, row)[y] = orgs[y]
    BY DEF Put
  <2> QED BY <1>1, <2>1
<1>5. o \notin DOMAIN orgs
  <2> SUFFICES ASSUME o \in DOMAIN orgs PROVE FALSE
    OBVIOUS
  <2>1. PICK n \in 1..named : o = Named(n)
    BY DEF RelationInv, OrgRows
  <2>2. n = named + 1
    BY <2>1, NamesDiffer
  <2> QED BY <2>1, <2>2 DEF RelationInv, OrgRows
<1>6. row \in OrgRow /\ row.by = u
  BY DEF OrgRow
<1> HIDE DEF row
<1>7. OrgRows'
  <2>1. orgs' = [x \in DOMAIN orgs' |-> orgs'[x]]
    BY <1>1 DEF Put
  <2>2. \A x \in DOMAIN orgs' : orgs'[x] \in OrgRow
    BY <1>4, <1>6 DEF RelationInv, OrgRows
  <2>3. \A x \in DOMAIN orgs' : \E n \in 1..named' : x = Named(n)
    BY <1>1, <1>4 DEF RelationInv, OrgRows
  <2> QED BY <1>1, <2>1, <2>2, <2>3 DEF RelationInv, OrgRows
<1> HIDE DEF o
<1>8. ASSUME NEW q \in Requests PROVE StillTells(q)' /\ Assigning(q)'
  <2>1. CASE q = r
    BY <1>2, <1>3, <1>4, <1>6, <2>1 DEF StillTells, Assigning, Serves
  <2>2. CASE q # r
    BY <1>2, <1>4, <1>5, <2>2 DEF RelationInv, StillTells, Assigning, Serves, Others
  <2> QED BY <2>1, <2>2
<1>9. \A e \in DOMAIN edges' \ DOMAIN owned' : ToldOf(e)'
  <2>1. \A q \in Requests : Serves(q, "tell") => job'[q] = job[q]
    BY <1>2 DEF Others, Serves
  <2> QED BY <1>1, <2>1 DEF RelationInv, ToldOf, Serves
<1>10. ASSUME NEW x \in DOMAIN orgs' PROVE SeenBy(x)'
  <2>1. CASE x = o
    BY <1>2, <1>3, <2>1 DEF SeenBy, Serves
  <2>2. CASE x # o
    <3>1. x \in DOMAIN orgs /\ orgs'[x] = orgs[x] /\ SeenBy(x)
      BY <1>4, <2>2 DEF RelationInv
    <3>2. \A q \in Requests : Serves(q, "assign") => job'[q] = job[q]
      BY <1>2 DEF Others, Serves
    <3> QED BY <1>1, <3>1, <3>2 DEF SeenBy, Serves, InScope
  <2> QED BY <2>1, <2>2
<1> QED BY <1>2, <1>7, <1>8, <1>9, <1>10 DEF RelationInv, Others

LEMMA CreatorAssignments == ASSUME RelationInv, NEW r \in Requests, AssignCreator(r) PROVE RelationInv'
<1> DEFINE o == job[r].row
           u == job[r].seen
<1>1. /\ job[r].at = "assign" /\ sees' = sees \cup {<<u, o>>} /\ Goes(r, "audit", o, u, {})
      /\ UNCHANGED <<graph, orgs, lines, roles, owned, cutoff>>
  BY DEF AssignCreator, Serves
<1>2. o \in DOMAIN orgs /\ u = orgs[o].by
  BY <1>1 DEF RelationInv, Assigning, Serves
<1> HIDE DEF u, o
<1>3. Others(r) /\ Held(job'[r], "audit", o, u, {})
  BY <1>1, LocalSteps DEF Goes, RelationInv
<1>4. job'[r].at = "audit"
  BY <1>3 DEF Held
<1>5. ASSUME NEW q \in Requests PROVE StillTells(q)' /\ Assigning(q)'
  BY <1>1, <1>3, <1>4 DEF RelationInv, StillTells, Assigning, Serves, Others
<1>6. \A e \in DOMAIN edges' \ DOMAIN owned' : ToldOf(e)'
  <2>1. \A q \in Requests : Serves(q, "tell") => job'[q] = job[q]
    BY <1>1, <1>3 DEF Others, Serves
  <2> QED BY <1>1, <2>1 DEF RelationInv, ToldOf, Serves, graph
<1>7. ASSUME NEW x \in DOMAIN orgs' PROVE SeenBy(x)'
  <2>1. CASE x = o
    BY <1>1, <1>2, <2>1 DEF SeenBy, InScope
  <2>2. CASE x # o
    <3>1. \A q \in Requests : Serves(q, "assign") /\ job[q].row = x => job'[q] = job[q]
      BY <1>3, <2>2 DEF Others, Serves, o
    <3> QED BY <1>1, <3>1 DEF RelationInv, SeenBy, Serves, InScope
  <2> QED BY <2>1, <2>2
<1> QED BY <1>1, <1>3, <1>5, <1>6, <1>7 DEF RelationInv, Others, OrgRows, graph

LEMMA TeamAssignments == ASSUME RelationInv, NEW t, NEW o, AssignTeam(t, o) PROVE RelationInv'
<1>1. UNCHANGED <<graph, orgs, owned, cutoff, job>> /\ sees \subseteq sees'
  BY DEF AssignTeam, Serve
<1>2. \A r \in Requests : StillTells(r)' /\ Assigning(r)'
  BY <1>1 DEF RelationInv, StillTells, Assigning, Serves
<1>3. \A e \in DOMAIN edges' \ DOMAIN owned' : ToldOf(e)'
  BY <1>1 DEF RelationInv, ToldOf, Serves, graph
<1>4. \A x \in DOMAIN orgs' : SeenBy(x)'
  BY <1>1 DEF RelationInv, SeenBy, Serves, InScope
<1> QED BY <1>1, <1>2, <1>3, <1>4 DEF RelationInv, Threads, OrgRows, graph

\* What is done for an organization that is there ends with its audit event.
LEMMA BusinessSteps ==
  ASSUME RelationInv, NEW r \in Requests, NEW u \in Colleagues,
         \/ \E o \in DOMAIN orgs :
              \/ \E s \in Statuses : UpdateOrganization(r, u, o, s)
              \/ \E l \in Lines, s \in Statuses :
                   AddServiceLine(r, u, o, l, s) \/ SetServiceLineStatus(r, u, o, l, s)
              \/ \E holder \in Colleagues : AssignRole(r, u, o, holder)
              \/ \E owner \in PossibleOwners, t \in Types, share \in Shares, ended \in BOOLEAN :
                   RecordOwnership(r, u, o, owner, t, share, ended)
         \/ \E n \in DOMAIN roles : EndRole(r, u, n)
  PROVE  RelationInv'
<1>1. PICK o : Starts(r, "audit", o, u, {})
  BY DEF UpdateOrganization, AddServiceLine, SetServiceLineStatus, AssignRole, RecordOwnership, EndRole
<1>2. Others(r) /\ job[r].at = "idle" /\ job'[r].at = "audit"
  BY <1>1, Calls DEF RelationInv
<1>3. \A q \in Requests : job[q].at \in {"tell", "assign"} \/ job'[q].at \in {"tell", "assign"} => job'[q] = job[q]
  BY <1>2 DEF Others
<1>4. UNCHANGED <<named, news, sees, cutoff>>
  BY DEF UpdateOrganization, AddServiceLine, SetServiceLineStatus, AssignRole, RecordOwnership, EndRole, graph
<1>5. OrgRows /\ orgs \in [DOMAIN orgs -> OrgRow]
  BY DEF RelationInv, OrgRows
<1>6. CASE \E x \in DOMAIN orgs, s \in Statuses : UpdateOrganization(r, u, x, s)
  <2>1. PICK x \in DOMAIN orgs, s \in Statuses : UpdateOrganization(r, u, x, s)
    BY <1>6
  <2>2. orgs' = [orgs EXCEPT ![x].status = s] /\ UNCHANGED <<edges, owned>>
    BY <2>1 DEF UpdateOrganization, graph
  <2>3. /\ DOMAIN orgs' = DOMAIN orgs /\ orgs' \in [DOMAIN orgs -> OrgRow]
        /\ \A y \in DOMAIN orgs : orgs'[y].by = orgs[y].by
    BY <1>5, <2>2 DEF OrgRow
  <2>4. OrgRows'
    BY <1>4, <1>5, <2>3 DEF OrgRows
  <2> QED BY <1>2, <1>3, <1>4, <2>2, <2>3, <2>4, QuietSteps DEF Others
<1>7. CASE \E x \in DOMAIN orgs, owner \in PossibleOwners, t \in Types, share \in Shares, ended \in BOOLEAN :
             RecordOwnership(r, u, x, owner, t, share, ended)
  <2>1. PICK x, owner, t, share, ended : RecordOwnership(r, u, x, owner, t, share, ended)
    BY <1>7
  <2> DEFINE e == <<owner, x, t>>
  <2>2. /\ edges' = Put(edges, e, [active |-> TRUE, ended |-> ended]) /\ owned' = Put(owned, e, share)
        /\ UNCHANGED orgs
    BY <2>1 DEF RecordOwnership
  <2> HIDE DEF e
  <2>3. DOMAIN edges' = DOMAIN edges \cup {e} /\ DOMAIN owned' = DOMAIN owned \cup {e}
    BY <2>2, Puts
  <2>4. OrgRows'
    BY <1>4, <1>5, <2>2 DEF OrgRows
  <2> QED BY <1>2, <1>3, <1>4, <2>2, <2>3, <2>4, QuietSteps DEF Others
<1>8. CASE UNCHANGED <<orgs, edges, owned>>
  <2>1. OrgRows'
    BY <1>4, <1>5, <1>8 DEF OrgRows
  <2> QED BY <1>2, <1>3, <1>4, <1>8, <2>1, QuietSteps DEF Others
<1> QED BY <1>6, <1>7, <1>8 DEF AddServiceLine, SetServiceLineStatus, AssignRole, EndRole, graph

LEMMA AuditEnds == ASSUME RelationInv, NEW r \in Requests, AuditOrganization(r) PROVE RelationInv'
<1>1. job[r].at = "audit" /\ Ends(r) /\ UNCHANGED <<graph, business, cutoff>>
  BY DEF AuditOrganization, Serves
<1>2. Others(r) /\ job'[r].at = "idle"
  BY <1>1, EndSteps DEF RelationInv
<1> QED BY <1>1, <1>2, QuietSteps DEF RelationInv, Others, OrgRows, graph, business

LEMMA RelationCrashes == ASSUME RelationInv, NEW r \in Requests, RelationCrash(r) PROVE RelationInv'
<1>1. Ends(r) /\ cutoff' = cutoff \cup {<<job[r].at, job[r].row, job[r].seen>>} /\ UNCHANGED <<graph, business>>
  BY DEF RelationCrash, Dies
<1>2. Others(r) /\ job'[r].at = "idle"
  BY <1>1, EndSteps DEF RelationInv
<1>3. ASSUME NEW q \in Requests PROVE StillTells(q)' /\ Assigning(q)'
  BY <1>1, <1>2 DEF RelationInv, StillTells, Assigning, Serves, Others, business
<1>4. ASSUME NEW e \in DOMAIN edges \ DOMAIN owned PROVE ToldOf(e)'
  <2>1. ToldOf(e)
    BY DEF RelationInv
  <2>2. Serves(r, "tell") /\ job[r].row = EventId("added", e) /\ job[r].seen = e[1][2] =>
          <<"tell", EventId("added", e), e[1][2]>> \in cutoff'
    BY <1>1 DEF Serves
  <2> QED BY <1>1, <1>2, <2>1, <2>2 DEF ToldOf, Serves, Others, graph
<1>5. ASSUME NEW o \in DOMAIN orgs PROVE SeenBy(o)'
  <2>1. SeenBy(o)
    BY DEF RelationInv
  <2>2. Serves(r, "assign") /\ job[r].row = o => <<"assign", o, orgs[o].by>> \in cutoff'
    BY <1>1 DEF RelationInv, Assigning, Serves
  <2> QED BY <1>1, <1>2, <2>1, <2>2 DEF SeenBy, Serves, Others, InScope, business
<1> QED BY <1>1, <1>2, <1>3, <1>4, <1>5 DEF RelationInv, Others, OrgRows, graph, business

LEMMA RelationSteps == RelationInv /\ [RelationNext]_relationVars => RelationInv'
<1> SUFFICES ASSUME RelationInv, [RelationNext]_relationVars PROVE RelationInv'
  OBVIOUS
<1>1. CASE UNCHANGED relationVars
  BY <1>1, QuietSteps DEF relationVars, graph, business, requestVars, RelationInv, Threads, OrgRows
<1>2. CASE GraphNext
  BY <1>2, RelationshipSteps, Tells DEF GraphNext
<1>3. CASE OrganizationNext
  BY <1>3, CreatorAssignments, AuditEnds, OrganizationCreations, BusinessSteps DEF OrganizationNext
<1> QED BY <1>1, <1>2, <1>3, TeamAssignments, RelationCrashes DEF RelationNext

\* The search finds under a person what his graph shows.
LEMMA SearchAgrees == SearchFindsGraph
<1> SUFFICES ASSUME NEW p \in Relatives, NEW e \in DOMAIN edges PROVE <<Person(p), e>> \in Found <=> e \in GraphOf(p)
  BY DEF SearchFindsGraph, GraphOf
<1>1. Person(p)[1] = "person"
  BY DEF Person
<1>2. <<Person(p), e>> \in Found <=> edges[e].active /\ Person(p) \in Roots(e)
  BY DEF Found
<1> QED BY <1>1, <1>2 DEF GraphOf, Roots

\* Whoever a relationship was added for has it on the timeline, the search finds
\* under a person what the person's graph shows, and whoever creates an
\* organization can work on it, unless the request died: for any edges added
\* and ended by any number of requests.
THEOREM AdditionsAreSeen == RelationSpec => []RelationsShown
<1>1. RelationInv => RelationsShown
  <2> SUFFICES ASSUME RelationInv PROVE AddedIsTold /\ CreatorSees
    BY SearchAgrees DEF RelationsShown
  <2>1. CreatorSees
    BY DEF RelationInv, SeenBy, CreatorSees
  <2>2. AddedIsTold
    <3> SUFFICES ASSUME NEW e \in DOMAIN edges \ DOMAIN owned
                 PROVE  \/ \E id \in DOMAIN news : id[1] = "added" /\ news[id] = e[1][2]
                        \/ \E c \in cutoff : c[1] = "tell" /\ c[3] = e[1][2]
                        \/ \E r \in Requests : Serves(r, "tell") /\ job[r].seen = e[1][2]
      BY DEF AddedIsTold
    <3> DEFINE d == EventId("added", e)
    <3>1. d[1] = "added"
      BY EventParts
    <3>2. <<"tell", d, e[1][2]>>[1] = "tell" /\ <<"tell", d, e[1][2]>>[3] = e[1][2]
      OBVIOUS
    <3>3. ToldOf(e)
      BY DEF RelationInv
    <3> HIDE DEF d
    <3> QED BY <3>1, <3>2, <3>3 DEF ToldOf, d
  <2> QED BY <2>1, <2>2
<1> QED BY <1>1, RelationStart, RelationSteps, PTL DEF RelationSpec

----------------------------------------------------------------------------
(* The opening of a tax engagement *)

\* What has been left of a return before each step of the chain.
Left ==
  [launch |-> {}, link |-> {"flow"}, assign |-> {"flow", "link"}, tell |-> {"flow", "link"},
   record |-> {"flow", "link", "event"}, intake |-> {"flow", "link", "event", "audit"}]
Traces == {"flow", "link", "event", "audit"}

DeadlineRows == [due : Nat, calculated : Nat, rule : Nat]
OpenedRows == [office : Offices, deadline : DeadlineRows \cup {None}]

WorkRows == [of : Nat, user : Preparers \cup Groups, ended : BOOLEAN]

OpeningTypes ==
  /\ rules \in Seq(RuleDays) /\ opened \in Seq(OpenedRows)
  /\ has \in Seq(SUBSET Traces) /\ Len(has) = Len(opened)
  /\ works \subseteq WorkRows

\* The deadline of a rule.
OnWeekday(d) ==
  d # None => /\ d.rule \in 1..Len(rules) /\ d.calculated % 7 \notin {5, 6}
              /\ d.calculated \in rules[d.rule]..(rules[d.rule] + 2)

Worked(n, u) == \E ended \in BOOLEAN : [of |-> n, user |-> u, ended |-> ended] \in works

\* What the request of a return has behind it.
Chained(r) ==
  /\ job[r].at \in DOMAIN Left =>
       job[r].row \in 1..Len(opened) /\ job[r].todo \subseteq Preparers \cup {None} /\ Left[job[r].at] \subseteq has[job[r].row]
  /\ job[r].at \in {"tell", "record", "intake"} => \A u \in job[r].todo \ {None} : Worked(job[r].row, u)

Whole(a) ==
  /\ a.of \in 1..Len(opened) /\ {"flow", "event", "audit"} \subseteq has[a.of]
  /\ a.of \in DOMAIN intakes /\ intakes[a.of]
  /\ a.user # None => Worked(a.of, a.user)

OpeningInv ==
  /\ Threads /\ OpeningTypes
  /\ \A n \in 1..Len(opened) : OnWeekday(opened[n].deadline)
  /\ \A r \in Requests : Chained(r)
  /\ \A a \in answered : Whole(a)

LEMMA OpeningStart == OpeningInit => OpeningInv
<1> SUFFICES ASSUME OpeningInit PROVE OpeningInv
  OBVIOUS
<1>1. Threads /\ \A r \in Requests : job[r].at = "idle"
  BY DEF OpeningInit, RequestInit, Idle, Threads
<1>2. rules \in Seq(RuleDays) /\ opened = <<>> /\ has = <<>> /\ works = {} /\ answered = {}
  <2>1. rules = <<>> \/ \E d \in RuleDays : rules = <<d>>
    BY DEF OpeningInit
  <2>2. ASSUME NEW d \in RuleDays, rules = <<d>> PROVE rules \in Seq(RuleDays)
    BY <2>2
  <2>3. <<>> \in Seq(RuleDays)
    OBVIOUS
  <2> QED BY <2>1, <2>2, <2>3 DEF OpeningInit
<1>3. OpeningTypes /\ Len(opened) = 0
  BY <1>2 DEF OpeningTypes
<1>4. \A r \in Requests : Chained(r)
  BY <1>1 DEF Chained, Left
<1> QED BY <1>1, <1>2, <1>3, <1>4 DEF OpeningInv

\* Of three days in a row one is a weekday.
LEMMA Weekday ==
  ASSUME NEW d \in Nat
  PROVE  BusinessDueDate(d) \in d..(d + 2) /\ BusinessDueDate(d) % 7 < 5 /\ BusinessDueDate(d) \in Nat
<1>1. \E x \in d..(d + 2) : x % 7 < 5 /\ \A y \in d..(x - 1) : y % 7 >= 5
  <2>1. CASE d % 7 < 5
    BY <2>1
  <2>2. CASE d % 7 >= 5 /\ (d + 1) % 7 < 5
    <3>1. \A y \in d..((d + 1) - 1) : y = d
      OBVIOUS
    <3> QED BY <2>2, <3>1
  <2>3. CASE d % 7 >= 5 /\ (d + 1) % 7 >= 5
    <3>1. (d + 2) % 7 < 5
      BY <2>3
    <3>2. \A y \in d..((d + 2) - 1) : y = d \/ y = d + 1
      OBVIOUS
    <3> QED BY <2>3, <3>1, <3>2
  <2>4. d % 7 \in Int /\ (d + 1) % 7 \in Int
    OBVIOUS
  <2> QED BY <2>1, <2>2, <2>3, <2>4
<1> DEFINE when == BusinessDueDate(d)
<1>2. when \in d..(d + 2) /\ when % 7 < 5
  BY <1>1 DEF BusinessDueDate
<1> QED BY <1>2

LEMMA RuleDeadline == ASSUME OpeningTypes PROVE Deadline \in DeadlineRows \cup {None} /\ OnWeekday(Deadline)
<1>1. CASE rules = <<>>
  BY <1>1 DEF Deadline, OnWeekday
<1>2. CASE rules # <<>>
  <2>1. Len(rules) \in Nat /\ Len(rules) \in 1..Len(rules) /\ rules[Len(rules)] \in Nat
    <3>1. rules \in Seq(RuleDays) /\ Len(rules) \in Nat
      BY DEF OpeningTypes
    <3>2. Len(rules) # 0
      BY <1>2, <3>1
    <3>3. Len(rules) \in 1..Len(rules)
      BY <3>1, <3>2
    <3>4. rules[Len(rules)] \in RuleDays
      BY <3>1, <3>3
    <3> QED BY <3>1, <3>3, <3>4, OpeningAssumption
  <2> DEFINE when == BusinessDueDate(rules[Len(rules)])
  <2>2. /\ when \in rules[Len(rules)]..(rules[Len(rules)] + 2) /\ when % 7 < 5 /\ when \in Nat
    BY <2>1, Weekday
  <2>3. Deadline = [due |-> when, calculated |-> when, rule |-> Len(rules)]
    BY <1>2 DEF Deadline
  <2> HIDE DEF when
  <2>4. Deadline \in DeadlineRows /\ Deadline.calculated = when /\ Deadline.rule = Len(rules)
    BY <2>1, <2>2, <2>3 DEF DeadlineRows
  <2>5. when % 7 \notin {5, 6}
    BY <2>2
  <2> QED BY <2>1, <2>2, <2>4, <2>5 DEF OnWeekday
<1> QED BY <1>1, <1>2

\* Nothing that a request or an answer rests on is taken back.
Kept ==
  /\ Len(opened') >= Len(opened) /\ Len(opened) \in Nat /\ Len(opened') \in Nat
  /\ \A n \in 1..Len(opened) : has[n] \subseteq has'[n]
  /\ \A n, u : Worked(n, u) => Worked(n, u)'

LEMMA WorkStays == ASSUME UNCHANGED works PROVE \A n, u : Worked(n, u) <=> Worked(n, u)'
BY DEF Worked

LEMMA ChainStays ==
  ASSUME Kept, NEW q \in Requests, Chained(q), job'[q] = job[q] PROVE Chained(q)'
BY DEF Kept, Chained

LEMMA ChainsStay ==
  ASSUME OpeningInv, Kept, NEW r \in Requests, Others(r), Chained(r)' PROVE \A q \in Requests : Chained(q)'
BY ChainStays DEF OpeningInv, Others

LEMMA AnswersStay ==
  ASSUME OpeningInv, Kept, UNCHANGED <<intakes, answered>> PROVE \A a \in answered' : Whole(a)'
BY DEF OpeningInv, Kept, Whole

\* Steps around the chain, in which no request begins or goes on.
LEMMA AroundSteps ==
  ASSUME OpeningInv, UNCHANGED <<job, has, intakes, answered>>,
         \/ \E n \in DOMAIN opened, d \in RuleDays : OverrideDeadline(n, d)
         \/ \E u \in Preparers, office \in Offices, until \in {None, 0} : JoinOffice(u, office, until)
         \/ \E n \in DOMAIN opened, t \in Groups : AssignGroup(n, t)
         \/ \E w \in works : EndWork(w)
         \/ \E d \in RuleDays : PublishRule(d)
         \/ TaxDayEnds
         \/ UNCHANGED openingVars
  PROVE  OpeningInv'
<1>1. /\ OpeningTypes /\ Len(opened) \in Nat /\ DOMAIN opened = 1..Len(opened)
      /\ \A n \in 1..Len(opened) : opened[n] \in OpenedRows /\ OnWeekday(opened[n].deadline)
  BY DEF OpeningInv, OpeningTypes
<1>2. CASE \E n \in DOMAIN opened, d \in RuleDays : OverrideDeadline(n, d)
  <2>1. PICK n \in 1..Len(opened), d \in RuleDays : OverrideDeadline(n, d)
    BY <1>1, <1>2
  <2> DEFINE new == [opened[n] EXCEPT !.deadline = [opened[n].deadline EXCEPT !.due = d]]
  <2>2. opened' = [opened EXCEPT ![n] = new] /\ UNCHANGED <<rules, works>> /\ opened[n].deadline # None
    BY <1>1, <2>1 DEF OverrideDeadline, OpenedRows
  <2>3. opened[n] \in OpenedRows /\ opened[n].deadline \in DeadlineRows /\ d \in Nat
    BY <1>1, <2>2, OpeningAssumption DEF OpenedRows
  <2>4. [opened[n].deadline EXCEPT !.due = d] \in DeadlineRows
    BY <2>3 DEF DeadlineRows
  <2>5. [opened[n].deadline EXCEPT !.due = d].calculated = opened[n].deadline.calculated
        /\ [opened[n].deadline EXCEPT !.due = d].rule = opened[n].deadline.rule
    BY <2>3 DEF DeadlineRows
  <2>6. new \in OpenedRows /\ new.deadline = [opened[n].deadline EXCEPT !.due = d]
    BY <2>3, <2>4 DEF OpenedRows
  <2> HIDE DEF new
  <2>7. opened' \in Seq(OpenedRows) /\ Len(opened') = Len(opened)
    BY <1>1, <2>2, <2>6 DEF OpeningTypes
  <2>8. OpeningTypes'
    BY <1>1, <2>2, <2>7 DEF OpeningTypes
  <2>9. \A k \in 1..Len(opened) : OnWeekday(opened[k].deadline)'
    <3>1. OnWeekday(opened[n].deadline)
      BY <1>1
    <3>2. opened'[n] = new
      BY <1>1, <2>2 DEF OpeningTypes
    <3>3. OnWeekday(opened[n].deadline)'
      BY <2>2, <2>5, <2>6, <3>1, <3>2 DEF OnWeekday
    <3>4. \A k \in 1..Len(opened) : k # n => opened'[k] = opened[k]
      BY <1>1, <2>2 DEF OpeningTypes
    <3> QED BY <1>1, <2>2, <3>3, <3>4 DEF OnWeekday
  <2>10. Kept
    <3>1. UNCHANGED works
      BY <2>2
    <3> QED BY <1>1, <2>2, <2>7, <3>1, WorkStays DEF Kept
  <2> QED BY <2>7, <2>8, <2>9, <2>10, AnswersStay, ChainStays DEF OpeningInv, Threads
<1>3. CASE \E w \in works : EndWork(w)
  <2>1. PICK w \in works : EndWork(w)
    BY <1>3
  <2>2. /\ works' = (works \ {w}) \cup {[of |-> w.of, user |-> w.user, ended |-> TRUE]} /\ UNCHANGED <<rules, opened>>
        /\ w \in WorkRows
    BY <1>1, <2>1 DEF EndWork, OpeningTypes
  <2>3. OpeningTypes'
    <3>1. w.of \in Nat /\ w.user \in Preparers \cup Groups
      BY <2>2 DEF WorkRows
    <3>2. [of |-> w.of, user |-> w.user, ended |-> TRUE] \in WorkRows
      BY <3>1 DEF WorkRows
    <3> QED BY <1>1, <2>2, <3>2 DEF OpeningTypes
  <2>4. ASSUME NEW n, NEW u, Worked(n, u) PROVE Worked(n, u)'
    <3>1. PICK ended \in BOOLEAN : [of |-> n, user |-> u, ended |-> ended] \in works
      BY <2>4 DEF Worked
    <3>2. CASE w = [of |-> n, user |-> u, ended |-> ended]
      <4>1. w.of = n /\ w.user = u
        BY <3>2
      <4> QED BY <2>2, <4>1 DEF Worked
    <3>3. CASE w # [of |-> n, user |-> u, ended |-> ended]
      BY <2>2, <3>1, <3>3 DEF Worked
    <3> QED BY <3>2, <3>3
  <2>5. Kept
    BY <1>1, <2>2, <2>4 DEF Kept
  <2> QED BY <1>1, <2>2, <2>3, <2>5, AnswersStay, ChainStays DEF OpeningInv, Threads, OnWeekday
<1>4. CASE \E d \in RuleDays : PublishRule(d)
  <2>1. PICK d \in RuleDays : rules' = Append(rules, d) /\ UNCHANGED <<opened, works>>
    BY <1>4 DEF PublishRule
  <2>2. /\ rules' \in Seq(RuleDays) /\ Len(rules') = Len(rules) + 1 /\ Len(rules) \in Nat
        /\ \A k \in 1..Len(rules) : rules'[k] = rules[k]
    BY <1>1, <2>1 DEF OpeningTypes
  <2>3. OpeningTypes'
    BY <1>1, <2>1, <2>2 DEF OpeningTypes
  <2>4. \A n \in 1..Len(opened) : OnWeekday(opened[n].deadline)'
    <3> SUFFICES ASSUME NEW n \in 1..Len(opened), opened[n].deadline # None PROVE OnWeekday(opened[n].deadline)'
      BY <2>1 DEF OnWeekday
    <3>1. OnWeekday(opened[n].deadline)
      BY <1>1
    <3> QED BY <2>1, <2>2, <3>1 DEF OnWeekday
  <2>5. Kept
    <3>1. UNCHANGED works
      BY <2>1
    <3> QED BY <1>1, <2>1, <3>1, WorkStays DEF Kept
  <2> QED BY <2>1, <2>3, <2>4, <2>5, AnswersStay, ChainStays DEF OpeningInv, Threads
<1>5. CASE \/ \E u \in Preparers, office \in Offices, until \in {None, 0} : JoinOffice(u, office, until)
           \/ TaxDayEnds \/ UNCHANGED openingVars
  <2>1. UNCHANGED <<rules, opened, works>>
    BY <1>5 DEF JoinOffice, TaxDayEnds, openingVars, chainVars
  <2>2. OpeningTypes'
    BY <1>1, <2>1 DEF OpeningTypes
  <2>3. Kept
    <3>1. UNCHANGED works
      BY <2>1
    <3> QED BY <1>1, <2>1, <3>1, WorkStays DEF Kept
  <2> QED BY <1>1, <2>1, <2>2, <2>3, AnswersStay, ChainStays DEF OpeningInv, Threads, OnWeekday
<1>6. ASSUME NEW n \in DOMAIN opened, NEW t \in Groups, AssignGroup(n, t) PROVE OpeningInv'
  <2> DEFINE row == [of |-> n, user |-> t, ended |-> FALSE]
  <2>1. works' = works \cup {row} /\ UNCHANGED <<rules, opened>>
    BY <1>6 DEF AssignGroup
  <2>2. row \in WorkRows
    BY <1>1 DEF WorkRows
  <2> HIDE DEF row
  <2>3. OpeningTypes'
    BY <1>1, <2>1, <2>2 DEF OpeningTypes
  <2>4. Kept
    <3>1. \A m, u : Worked(m, u) => Worked(m, u)'
      BY <2>1 DEF Worked
    <3> QED BY <1>1, <2>1, <3>1 DEF Kept
  <2> QED BY <1>1, <2>1, <2>3, <2>4, AnswersStay, ChainStays DEF OpeningInv, Threads, OnWeekday
<1> QED BY <1>2, <1>3, <1>4, <1>5, <1>6

LEMMA Openings ==
  ASSUME OpeningInv, NEW r \in Requests, NEW office \in Offices, NEW u \in Preparers \cup {None}, OpenReturn(r, office, u)
  PROVE  OpeningInv'
<1> DEFINE row == [office |-> office, deadline |-> Deadline]
<1>1. /\ opened' = Append(opened, row) /\ has' = Append(has, {}) /\ Starts(r, "launch", Len(opened) + 1, None, {u})
      /\ UNCHANGED <<rules, works, intakes, answered>> /\ OpeningTypes
  BY DEF OpenReturn, OpeningInv
<1>2. row \in OpenedRows /\ row.deadline = Deadline
  BY <1>1, RuleDeadline DEF OpenedRows
<1> HIDE DEF row
<1>3. /\ opened' \in Seq(OpenedRows) /\ Len(opened') = Len(opened) + 1 /\ Len(opened) \in Nat
      /\ opened'[Len(opened) + 1] = row /\ \A n \in 1..Len(opened) : opened'[n] = opened[n]
  BY <1>1, <1>2 DEF OpeningTypes
<1>4. /\ has' \in Seq(SUBSET Traces) /\ Len(has') = Len(opened) + 1
      /\ has'[Len(opened) + 1] = {} /\ \A n \in 1..Len(opened) : has'[n] = has[n]
  <2>1. has \in Seq(SUBSET Traces) /\ {} \in SUBSET Traces /\ Len(has) = Len(opened)
    BY <1>1 DEF OpeningTypes
  <2> QED BY <1>1, <1>3, <2>1
<1>5. OpeningTypes'
  BY <1>1, <1>3, <1>4 DEF OpeningTypes
<1>6. Kept
  <2>1. UNCHANGED works
    BY <1>1
  <2> QED BY <1>1, <1>3, <1>4, <2>1, WorkStays DEF Kept
<1>7. Others(r) /\ Held(job'[r], "launch", Len(opened) + 1, None, {u})
  BY <1>1, Calls DEF OpeningInv
<1>8. job'[r].at = "launch" /\ job'[r].row = Len(opened) + 1 /\ job'[r].todo = {u}
  BY <1>7 DEF Held
<1>9. Chained(r)'
  BY <1>3, <1>4, <1>8 DEF Chained, Left
<1>10. \A q \in Requests : Chained(q)'
  BY <1>6, <1>7, <1>9, ChainsStay
<1>11. ASSUME NEW n \in 1..Len(opened') PROVE OnWeekday(opened[n].deadline)'
  <2>1. CASE n \in 1..Len(opened)
    BY <1>1, <1>3, <2>1 DEF OpeningInv, OnWeekday
  <2>2. CASE n = Len(opened) + 1
    BY <1>1, <1>2, <1>3, <2>2, RuleDeadline DEF OnWeekday
  <2> QED BY <1>3, <2>1, <2>2
<1>12. \A a \in answered' : Whole(a)'
  BY <1>1, <1>6, AnswersStay
<1> QED BY <1>5, <1>7, <1>10, <1>11, <1>12 DEF OpeningInv, Others

LEMMA LeavingSteps ==
  ASSUME OpeningInv, NEW r \in Requests, NEW place, NEW what \in SUBSET Traces, NEW next, Leaves(r, place, what, next),
         place \in DOMAIN Left, next \in DOMAIN Left, Left[next] \subseteq Left[place] \cup what,
         next \in {"tell", "record", "intake"} => place \in {"tell", "record", "intake"}
  PROVE  OpeningInv'
<1>0. PICK n, todo : n = job[r].row /\ todo = job[r].todo
  OBVIOUS
<1>1. /\ job[r].at = place /\ has' = [has EXCEPT ![n] = @ \cup what] /\ Goes(r, next, n, None, todo)
      /\ UNCHANGED <<rules, opened, works, intakes, answered>> /\ OpeningTypes /\ Chained(r)
  BY <1>0 DEF Leaves, Serves, OpeningInv
<1>2. n \in 1..Len(opened) /\ todo \subseteq Preparers \cup {None} /\ Left[place] \subseteq has[n] /\ Len(opened) \in Nat
  BY <1>0, <1>1 DEF Chained, OpeningTypes
<1>3. has' \in Seq(SUBSET Traces) /\ Len(has') = Len(has) /\ has'[n] = has[n] \cup what
      /\ \A k \in 1..Len(opened) : k # n => has'[k] = has[k]
  <2> DEFINE S == SUBSET Traces
  <2>1. has \in Seq(S) /\ Len(has) = Len(opened) /\ has[n] \cup what \in S
    BY <1>1, <1>2 DEF OpeningTypes
  <2> HIDE DEF S
  <2>2. has' \in Seq(S) /\ Len(has') = Len(has) /\ has'[n] = has[n] \cup what
        /\ \A k \in 1..Len(opened) : k # n => has'[k] = has[k]
    BY <1>1, <1>2, <2>1
  <2> QED BY <2>2 DEF S
<1>4. OpeningTypes'
  BY <1>1, <1>3 DEF OpeningTypes
<1>5. Kept
  <2>1. UNCHANGED works /\ Len(opened) \in Nat /\ Len(opened') = Len(opened)
    BY <1>1, <1>2
  <2>2. \A k \in 1..Len(opened) : has[k] \subseteq has'[k]
    BY <1>3
  <2> QED BY <2>1, <2>2, WorkStays DEF Kept
<1>6. Others(r) /\ Held(job'[r], next, n, None, todo)
  BY <1>1, LocalSteps DEF Goes, OpeningInv
<1>7. job'[r].at = next /\ job'[r].row = n /\ job'[r].todo = todo
  BY <1>6 DEF Held
<1>8. Chained(r)'
  <2>1. Left[next] \subseteq has'[n]
    BY <1>2, <1>3
  <2>2. next \in {"tell", "record", "intake"} => \A u \in todo \ {None} : Worked(n, u)'
    <3>1. next \in {"tell", "record", "intake"} => \A u \in todo \ {None} : Worked(n, u)
      BY <1>0, <1>1 DEF Chained
    <3>2. UNCHANGED works
      BY <1>1
    <3> QED BY <3>1, <3>2, WorkStays
  <2> QED BY <1>1, <1>2, <1>7, <2>1, <2>2 DEF Chained
<1>9. \A q \in Requests : Chained(q)'
  BY <1>5, <1>6, <1>8, ChainsStay
<1>10. \A a \in answered' : Whole(a)'
  BY <1>1, <1>5, AnswersStay
<1> QED BY <1>1, <1>4, <1>6, <1>9, <1>10 DEF OpeningInv, Others, OnWeekday

LEMMA Assignments == ASSUME OpeningInv, NEW r \in Requests, AssignReturn(r) PROVE OpeningInv'
<1>0. PICK n, todo : n = job[r].row /\ todo = job[r].todo
  OBVIOUS
<1>1. /\ job[r].at = "assign" /\ Goes(r, "tell", n, None, todo)
      /\ works' = works \cup {[of |-> n, user |-> u, ended |-> FALSE] : u \in todo \ {None}}
      /\ UNCHANGED <<rules, opened, has, intakes, answered>> /\ OpeningTypes /\ Chained(r)
  BY <1>0 DEF AssignReturn, Serves, OpeningInv
<1>2. n \in 1..Len(opened) /\ todo \subseteq Preparers \cup {None} /\ Left["assign"] \subseteq has[n] /\ Len(opened) \in Nat
  BY <1>0, <1>1 DEF Chained, OpeningTypes, Left
<1>3. OpeningTypes'
  <2>1. n \in Nat
    BY <1>2
  <2>2. {[of |-> n, user |-> u, ended |-> FALSE] : u \in todo \ {None}} \subseteq WorkRows
    <3> SUFFICES ASSUME NEW u \in todo, u # None
                 PROVE  [of |-> n, user |-> u, ended |-> FALSE] \in WorkRows
      OBVIOUS
    <3>1. u \in Preparers
      BY <1>2
    <3> QED BY <2>1, <3>1 DEF WorkRows
  <2> QED BY <1>1, <2>2 DEF OpeningTypes
<1>4. Kept
  <2>1. \A m, u : Worked(m, u) => Worked(m, u)'
    BY <1>1 DEF Worked
  <2> QED BY <1>1, <1>2, <2>1 DEF Kept
<1>5. Others(r) /\ Held(job'[r], "tell", n, None, todo)
  BY <1>1, LocalSteps DEF Goes, OpeningInv
<1>6. job'[r].at = "tell" /\ job'[r].row = n /\ job'[r].todo = todo
  BY <1>5 DEF Held
<1>7. Chained(r)'
  <2>1. \A u \in todo \ {None} : Worked(n, u)'
    BY <1>1 DEF Worked
  <2>2. Left["tell"] \subseteq has[n]
    BY <1>2 DEF Left
  <2> QED BY <1>1, <1>2, <1>6, <2>1, <2>2 DEF Chained, Left
<1>8. \A q \in Requests : Chained(q)'
  BY <1>4, <1>5, <1>7, ChainsStay
<1>9. \A a \in answered' : Whole(a)'
  BY <1>1, <1>4, AnswersStay
<1> QED BY <1>1, <1>3, <1>5, <1>8, <1>9 DEF OpeningInv, Others, OnWeekday

LEMMA Intakes == ASSUME OpeningInv, NEW r \in Requests, OpenIntake(r) PROVE OpeningInv'
<1>0. PICK n, todo : n = job[r].row /\ todo = job[r].todo
  OBVIOUS
<1>1. /\ job[r].at = "intake" /\ Ends(r)
      /\ intakes' = [m \in DOMAIN intakes \cup {n} |-> IF m = n THEN "link" \in has[n] ELSE intakes[m]]
      /\ answered' = answered \cup {[of |-> n, user |-> u] : u \in todo}
      /\ UNCHANGED <<rules, opened, has, works>> /\ OpeningTypes /\ Chained(r)
  BY <1>0 DEF OpenIntake, Serves, OpeningInv
<1>2. n \in 1..Len(opened) /\ Traces \subseteq has[n] /\ Len(opened) \in Nat /\ \A u \in todo \ {None} : Worked(n, u)
  BY <1>0, <1>1 DEF Chained, OpeningTypes, Left, Traces
<1>3. OpeningTypes' /\ Kept
  <2>1. UNCHANGED works
    BY <1>1
  <2> QED BY <1>1, <1>2, <2>1, WorkStays DEF OpeningTypes, Kept
<1>4. Others(r) /\ job'[r].at = "idle"
  BY <1>1, EndSteps DEF OpeningInv
<1>5. Chained(r)'
  BY <1>4 DEF Chained, Left
<1>6. \A q \in Requests : Chained(q)'
  BY <1>3, <1>4, <1>5, ChainsStay
<1>7. ASSUME NEW a \in answered' PROVE Whole(a)'
  <2>1. CASE a \in answered
    <3>1. Whole(a)
      BY <2>1 DEF OpeningInv
    <3>2. a.of \in DOMAIN intakes' /\ intakes'[a.of]
      BY <1>1, <1>2, <3>1 DEF Whole, Traces
    <3> QED BY <1>1, <3>1, <3>2 DEF Whole, Worked
  <2>2. CASE \E u \in todo : a = [of |-> n, user |-> u]
    <3>1. PICK u \in todo : a = [of |-> n, user |-> u]
      BY <2>2
    <3>2. a.of = n /\ a.user = u
      BY <3>1
    <3>3. n \in DOMAIN intakes' /\ intakes'[n]
      BY <1>1, <1>2 DEF Traces
    <3> QED BY <1>1, <1>2, <3>2, <3>3 DEF Whole, Worked, Traces
  <2> QED BY <1>1, <2>1, <2>2
<1> QED BY <1>1, <1>3, <1>4, <1>6, <1>7 DEF OpeningInv, Others, OnWeekday

LEMMA OpeningCrashes == ASSUME OpeningInv, NEW r \in Requests, OpeningCrash(r) PROVE OpeningInv'
<1>1. Ends(r) /\ UNCHANGED <<rules, chainVars>> /\ OpeningTypes /\ Len(opened) \in Nat
  BY DEF OpeningCrash, Dies, OpeningInv, OpeningTypes
<1>2. OpeningTypes' /\ Kept
  <2>1. UNCHANGED works
    BY <1>1 DEF chainVars
  <2> QED BY <1>1, <2>1, WorkStays DEF OpeningTypes, Kept, chainVars
<1>3. Others(r) /\ job'[r].at = "idle"
  BY <1>1, EndSteps DEF OpeningInv
<1>4. Chained(r)'
  BY <1>3 DEF Chained, Left
<1>5. \A q \in Requests : Chained(q)'
  BY <1>2, <1>3, <1>4, ChainsStay
<1>6. \A a \in answered' : Whole(a)'
  BY <1>1, <1>2, AnswersStay DEF chainVars
<1> QED BY <1>1, <1>2, <1>3, <1>5, <1>6 DEF OpeningInv, Others, OnWeekday, chainVars

LEMMA OpeningSteps == OpeningInv /\ [OpeningNext]_openingVars => OpeningInv'
<1> SUFFICES ASSUME OpeningInv, [OpeningNext]_openingVars PROVE OpeningInv'
  OBVIOUS
<1>1. CASE \/ \E n \in DOMAIN opened, d \in RuleDays : OverrideDeadline(n, d)
           \/ \E u \in Preparers, office \in Offices, until \in {None, 0} : JoinOffice(u, office, until)
           \/ \E n \in DOMAIN opened, t \in Groups : AssignGroup(n, t)
           \/ \E w \in works : EndWork(w)
           \/ \E d \in RuleDays : PublishRule(d)
           \/ TaxDayEnds \/ UNCHANGED openingVars
  <2>1. UNCHANGED <<job, has, intakes, answered>>
    BY <1>1 DEF OverrideDeadline, JoinOffice, AssignGroup, EndWork, PublishRule, TaxDayEnds, Serve, openingVars, chainVars, requestVars
  <2> QED BY <1>1, <2>1, AroundSteps
<1>2. ASSUME NEW r \in Requests,
             LaunchFlow(r) \/ LinkFlow(r) \/ TellOpened(r) \/ RecordOpened(r)
      PROVE  OpeningInv'
  <2>1. CASE LaunchFlow(r)
    <3>1. Leaves(r, "launch", {"flow"}, "link") /\ {"flow"} \in SUBSET Traces
      BY <2>1 DEF LaunchFlow, Traces
    <3> QED BY <3>1, LeavingSteps DEF Left
  <2>2. CASE LinkFlow(r)
    <3>1. Leaves(r, "link", {"link"}, "assign") /\ {"link"} \in SUBSET Traces
      BY <2>2 DEF LinkFlow, Traces
    <3> QED BY <3>1, LeavingSteps DEF Left
  <2>3. CASE TellOpened(r)
    <3>1. Leaves(r, "tell", {"event"}, "record") /\ {"event"} \in SUBSET Traces
      BY <2>3 DEF TellOpened, Traces
    <3> QED BY <3>1, LeavingSteps DEF Left
  <2>4. CASE RecordOpened(r)
    <3>1. Leaves(r, "record", {"audit"}, "intake") /\ {"audit"} \in SUBSET Traces
      BY <2>4 DEF RecordOpened, Traces
    <3> QED BY <3>1, LeavingSteps DEF Left
  <2> QED BY <1>2, <2>1, <2>2, <2>3, <2>4
<1>3. ASSUME NEW r \in Requests,
             \/ AssignReturn(r) \/ OpenIntake(r) \/ OpeningCrash(r)
             \/ \E office \in Offices, u \in Preparers \cup {None} : OpenReturn(r, office, u)
      PROVE  OpeningInv'
  BY <1>3, Assignments, Intakes, OpeningCrashes, Openings
<1> QED BY <1>1, <1>2, <1>3 DEF OpeningNext

\* An opening that was answered is whole, one that broke off can be found, and
\* deadlines are on weekdays (create_engagement, list_engagements), for every
\* rule, office, preparer and day.
THEOREM OpeningsHold == OpeningSpec => []OpeningIsWhole
<1>1. OpeningInv => OpeningIsWhole
  <2> SUFFICES ASSUME OpeningInv PROVE OpeningIsWhole
    OBVIOUS
  <2>1. DOMAIN opened = 1..Len(opened)
    BY DEF OpeningInv, OpeningTypes
  <2>2. DeadlineOnWeekday
    BY <2>1 DEF OpeningInv, OnWeekday, DeadlineOnWeekday
  <2>3. BrokenOffIsListed
    BY DEF BrokenOffIsListed, ListEngagements, InTaxScope
  <2>4. ASSUME NEW a \in answered, a.user # None
        PROVE  [of |-> a.of, user |-> a.user, ended |-> TRUE] \in works \/ a.of \in ListEngagements(a.user)
    <3>1. a.of \in DOMAIN opened /\ Worked(a.of, a.user)
      BY <2>1, <2>4 DEF OpeningInv, Whole
    <3>2. CASE [of |-> a.of, user |-> a.user, ended |-> FALSE] \in works
      BY <3>1, <3>2 DEF ListEngagements, InTaxScope
    <3>3. CASE [of |-> a.of, user |-> a.user, ended |-> TRUE] \in works
      BY <3>3
    <3>4. \A b \in BOOLEAN : b = TRUE \/ b = FALSE
      OBVIOUS
    <3> QED BY <3>1, <3>2, <3>3, <3>4 DEF Worked
  <2>5. AnsweredIsWhole
    BY <2>4 DEF OpeningInv, Whole, AnsweredIsWhole
  <2> QED BY <2>2, <2>3, <2>5 DEF OpeningIsWhole
<1> QED BY <1>1, OpeningStart, OpeningSteps, PTL DEF OpeningSpec

----------------------------------------------------------------------------
(* The record of a person *)

\* What requests are about, and the events of the timeline.
NoteRow(p) == <<"notes", p>>
TaskRow(n) == <<"task", n>>
DoneRow(n) == <<"task completed", n>>

TaskRows == [person : Subjects, completed : Nat]
NoteTexts == Texts \cup {None}
NoteEvents == [person : Subjects, text : NoteTexts]

RecordTypes ==
  /\ notes \in [Subjects -> NoteTexts] /\ noteFeed \in Seq(NoteEvents)
  /\ tasks \in Seq(TaskRows) /\ signatures \in Seq(EventStatuses \cup {"sent"})
  /\ clock \in Nat

\* What a request has still to tell is what its record says, unless completions
\* of a task have met.
NotingOK(r) == job[r].at = "noting" => \E p \in Subjects : job[r].row = NoteRow(p) /\ job[r].seen = notes[p]
SavingOK(r) == job[r].at = "saving" => job[r].row[1] = "document"
CompletingOK(r) ==
  job[r].at = "completing" => job[r].seen.time \in Nat /\ \E n \in 1..Len(tasks) : job[r].row = TaskRow(n)
TellsCompletion(r) ==
  job[r].at = "telling" =>
    \A n : job[r].row = DoneRow(n) =>
      n \in 1..Len(tasks) /\ (TaskRow(n) \in troubled \/ job[r].seen.time = tasks[n].completed)
TellsStatus(r) ==
  job[r].at = "telling" => \A n : \A s \in EventStatuses : job[r].row = StatusEvent(n, s) => job[r].seen.what = s

Requested(r) == NotingOK(r) /\ SavingOK(r) /\ CompletingOK(r) /\ TellsCompletion(r) /\ TellsStatus(r)

\* A task is being completed by one request at a time, or it is known that two met.
Completes(r, n) ==
  \/ job[r].at = "completing" /\ job[r].row = TaskRow(n)
  \/ job[r].at = "telling" /\ job[r].row = DoneRow(n)
CompletedAlone ==
  \A r, q \in Requests : \A n : Completes(r, n) /\ Completes(q, n) => r = q \/ TaskRow(n) \in troubled

\* What the timeline tells, or somebody has yet to tell, or died before he could.
NoteTold(p) ==
  \/ notes[p] = None /\ \A i \in DOMAIN noteFeed : noteFeed[i].person # p
  \/ \E r \in Requests : job[r].at = "noting" /\ job[r].row = NoteRow(p)
  \/ p \in untold
  \/ \E i \in DOMAIN noteFeed : /\ noteFeed[i].person = p /\ noteFeed[i].text = notes[p]
                                /\ \A j \in DOMAIN noteFeed : noteFeed[j].person = p => j <= i
DoneTold(n) ==
  \/ tasks[n].completed = 0 \/ TaskRow(n) \in troubled
  \/ \E r \in Requests : job[r].at = "telling" /\ job[r].row = DoneRow(n)
  \/ DoneRow(n) \in DOMAIN feed /\ feed[DoneRow(n)].time = tasks[n].completed
StatusTold(n) ==
  \/ signatures[n] = "sent" \/ \E x \in troubled : x[1] = "signature" /\ x[2] = n
  \/ \E r \in Requests : job[r].at = "telling" /\ job[r].row = StatusEvent(n, signatures[n])
  \/ StatusEvent(n, signatures[n]) \in DOMAIN feed
EventsRight ==
  \A n : \A s \in EventStatuses : StatusEvent(n, s) \in DOMAIN feed => feed[StatusEvent(n, s)].what = s

RecordTold ==
  /\ \A p \in Subjects : NoteTold(p)
  /\ \A n \in 1..Len(tasks) : DoneTold(n)
  /\ \A n \in 1..Len(signatures) : StatusTold(n)

RecordInv ==
  Threads /\ RecordTypes /\ (\A r \in Requests : Requested(r)) /\ CompletedAlone /\ RecordTold /\ EventsRight

LEMMA RecordBegins == RecordInit => RecordInv
<1> SUFFICES ASSUME RecordInit PROVE RecordInv
  OBVIOUS
<1>1. Threads /\ \A r \in Requests : job[r].at = "idle"
  BY DEF RecordInit, RequestInit, Idle, Threads
<1>2. /\ notes = [p \in Subjects |-> None] /\ tasks = <<>> /\ signatures = <<>> /\ noteFeed = <<>>
      /\ DOMAIN feed = {} /\ clock = 0
  BY DEF RecordInit
<1>3. RecordTypes /\ Len(tasks) = 0 /\ Len(signatures) = 0 /\ DOMAIN noteFeed = {}
  BY <1>2 DEF RecordTypes, NoteTexts
<1>4. \A r \in Requests : Requested(r)
  BY <1>1 DEF Requested, NotingOK, SavingOK, CompletingOK, TellsCompletion, TellsStatus
<1>5. CompletedAlone
  BY <1>1 DEF CompletedAlone, Completes
<1>6. RecordTold /\ EventsRight
  BY <1>2, <1>3 DEF RecordTold, NoteTold, EventsRight
<1> QED BY <1>1, <1>3, <1>4, <1>5, <1>6 DEF RecordInv

\* A request that does not go on has as much to tell as before.
LEMMA RequestStays ==
  ASSUME NEW q \in Requests, Requested(q), job'[q] = job[q], RecordTypes, Len(tasks') >= Len(tasks), Len(tasks') \in Nat,
         troubled \subseteq troubled',
         job[q].at = "noting" => UNCHANGED notes,
         job[q].at = "telling" =>
           \A n \in 1..Len(tasks) : job[q].row = DoneRow(n) => tasks'[n].completed = tasks[n].completed \/ TaskRow(n) \in troubled
  PROVE  Requested(q)'
<1>0. Len(tasks) \in Nat
  BY DEF RecordTypes
<1>1. NotingOK(q)'
  BY DEF Requested, NotingOK
<1>2. SavingOK(q)'
  BY DEF Requested, SavingOK
<1>3. CompletingOK(q)'
  BY <1>0 DEF Requested, CompletingOK
<1>4. TellsCompletion(q)'
  BY <1>0 DEF Requested, TellsCompletion
<1>5. TellsStatus(q)'
  BY DEF Requested, TellsStatus
<1> QED BY <1>1, <1>2, <1>3, <1>4, <1>5 DEF Requested

LEMMA NoteStays ==
  ASSUME NEW p, NoteTold(p), UNCHANGED noteFeed, notes'[p] = notes[p], untold \subseteq untold',
         \A q \in Requests : job[q].at = "noting" /\ job[q].row = NoteRow(p) => job'[q] = job[q] \/ p \in untold'
  PROVE  NoteTold(p)'
BY DEF NoteTold

LEMMA DoneStays ==
  ASSUME NEW n, DoneTold(n), UNCHANGED feed, tasks'[n].completed = tasks[n].completed, troubled \subseteq troubled',
         \A q \in Requests : job[q].at = "telling" /\ job[q].row = DoneRow(n) => job'[q] = job[q] \/ TaskRow(n) \in troubled'
  PROVE  DoneTold(n)'
BY DEF DoneTold

LEMMA StatusStays ==
  ASSUME NEW n, StatusTold(n), UNCHANGED feed, signatures'[n] = signatures[n], troubled \subseteq troubled',
         \A q \in Requests : job[q].at = "telling" /\ job[q].row = StatusEvent(n, signatures[n])
            => job'[q] = job[q] \/ \E x \in troubled' : x[1] = "signature" /\ x[2] = n
  PROVE  StatusTold(n)'
BY DEF StatusTold

\* A request that completes no task leaves the completions of the others alone.
LEMMA AloneStays ==
  ASSUME CompletedAlone, NEW r \in Requests, Others(r), troubled \subseteq troubled',
         \A n : Completes(r, n)' => Completes(r, n)
  PROVE  CompletedAlone'
<1> SUFFICES ASSUME NEW q \in Requests, NEW s \in Requests, NEW n, Completes(q, n)', Completes(s, n)'
             PROVE  q = s \/ TaskRow(n) \in troubled'
  BY DEF CompletedAlone
<1>1. Completes(q, n) /\ Completes(s, n)
  BY DEF Completes, Others
<1> QED BY <1>1 DEF CompletedAlone

\* The request that begins to tell of a row, or goes on to: tasks and signatures
\* may have been added, and a signature changed of which it tells.
GoesTelling(r, x, event) ==
  /\ job[r].at \notin {"noting", "telling", "completing"}
  /\ job'[r].at = "telling" /\ job'[r].row = x /\ job'[r].seen = event
  /\ \A n : x # DoneRow(n)
  /\ \A n : \A s \in EventStatuses : x = StatusEvent(n, s) => event.what = s
TasksGrow ==
  /\ Len(tasks) \in Nat /\ Len(tasks') \in Nat /\ Len(tasks') >= Len(tasks)
  /\ \A n \in 1..Len(tasks') :
       DoneTold(n)' \/ (n \in 1..Len(tasks) /\ tasks'[n] = tasks[n])
  /\ \A n \in 1..Len(tasks) : tasks'[n] = tasks[n]
SignaturesGrow ==
  \A n \in 1..Len(signatures') :
    StatusTold(n)' \/ (n \in 1..Len(signatures) /\ signatures'[n] = signatures[n])

LEMMA Tellings ==
  ASSUME RecordInv, NEW r \in Requests, Others(r), NEW x, NEW event, GoesTelling(r, x, event),
         RecordTypes', TasksGrow, SignaturesGrow, UNCHANGED <<notes, feed, noteFeed, untold, troubled>>
  PROVE  RecordInv'
<1>0. RecordTypes /\ RecordTold /\ \A q \in Requests : Requested(q)
  BY DEF RecordInv
<1>1. job'[r].at = "telling" /\ job'[r].row = x /\ job'[r].seen = event
      /\ job[r].at \notin {"noting", "telling", "completing"} /\ \A n : x # DoneRow(n)
  BY DEF GoesTelling
<1>2. Requested(r)'
  <2>1. TellsCompletion(r)'
    BY <1>1 DEF TellsCompletion
  <2>2. TellsStatus(r)'
    BY DEF GoesTelling, TellsStatus
  <2>3. NotingOK(r)' /\ SavingOK(r)' /\ CompletingOK(r)'
    BY <1>1 DEF NotingOK, SavingOK, CompletingOK
  <2> QED BY <2>1, <2>2, <2>3 DEF Requested
<1>3. \A q \in Requests : Requested(q)'
  <2> SUFFICES ASSUME NEW q \in Requests, q # r PROVE Requested(q)'
    BY <1>2
  <2>1. job'[q] = job[q] /\ Requested(q)
    BY <1>0 DEF Others
  <2>2. Len(tasks') >= Len(tasks) /\ Len(tasks') \in Nat /\ \A n \in 1..Len(tasks) : tasks'[n] = tasks[n]
    BY DEF TasksGrow
  <2> QED BY <1>0, <2>1, <2>2, RequestStays
<1>4. CompletedAlone'
  <2>1. \A n : ~Completes(r, n)'
    BY <1>1 DEF Completes
  <2> QED BY <2>1, AloneStays DEF RecordInv
<1>5. \A q \in Requests : job[q].at \in {"noting", "telling"} => job'[q] = job[q]
  BY <1>1 DEF Others
<1>6. \A p \in Subjects : NoteTold(p)'
  BY <1>0, <1>5, NoteStays DEF RecordTold
<1>7. \A n \in 1..Len(tasks') : DoneTold(n)'
  <2> SUFFICES ASSUME NEW n \in 1..Len(tasks), tasks'[n] = tasks[n] PROVE DoneTold(n)'
    BY DEF TasksGrow
  <2> QED BY <1>0, <1>5, DoneStays DEF RecordTold
<1>8. \A n \in 1..Len(signatures') : StatusTold(n)'
  <2> SUFFICES ASSUME NEW n \in 1..Len(signatures), signatures'[n] = signatures[n] PROVE StatusTold(n)'
    BY DEF SignaturesGrow
  <2> QED BY <1>0, <1>5, StatusStays DEF RecordTold
<1>9. EventsRight'
  BY DEF RecordInv, EventsRight
<1> QED BY <1>3, <1>4, <1>6, <1>7, <1>8, <1>9 DEF RecordInv, RecordTold, Others

\* A row of another kind tells neither of a completion nor of a status.
LEMMA OtherKinds ==
  ASSUME NEW x, x[1] \notin {"task completed", "signature"}
  PROVE  (\A n : x # DoneRow(n)) /\ \A n, s : x # StatusEvent(n, s)
<1>1. \A n : DoneRow(n)[1] = "task completed"
  BY DEF DoneRow
<1>2. \A n, s : StatusEvent(n, s)[1] = "signature"
  BY DEF StatusEvent
<1> QED BY <1>1, <1>2

LEMMA RowAppended ==
  ASSUME NEW S, NEW s \in Seq(S), NEW x \in S
  PROVE  /\ Append(s, x) \in Seq(S) /\ Len(Append(s, x)) = Len(s) + 1 /\ Len(s) \in Nat
         /\ Append(s, x)[Len(s) + 1] = x /\ \A n \in 1..Len(s) : Append(s, x)[n] = s[n]
OBVIOUS

LEMMA NoTasks == ASSUME RecordTypes, UNCHANGED tasks PROVE TasksGrow
BY DEF RecordTypes, TasksGrow

\* Steps by which a record is written and its request goes on to tell of it.
LEMMA TaskCreations == ASSUME RecordInv, NEW r \in Requests, NEW p \in Subjects, CreateTask(r, p) PROVE RecordInv'
<1> DEFINE row == [person |-> p, completed |-> 0]
<1>1. /\ tasks' = Append(tasks, row) /\ Adds(r, <<"task created", Len(tasks) + 1>>, Event("created", 0))
      /\ UNCHANGED <<notes, acts, signatures, stored, timelineVars, clock, troubled>> /\ RecordTypes
  BY DEF CreateTask, RecordInv
<1>2. row \in TaskRows /\ row.completed = 0
  BY DEF TaskRows
<1> HIDE DEF row
<1>3. /\ tasks' \in Seq(TaskRows) /\ Len(tasks') = Len(tasks) + 1 /\ Len(tasks) \in Nat
      /\ tasks'[Len(tasks) + 1] = row /\ \A n \in 1..Len(tasks) : tasks'[n] = tasks[n]
  <2>1. tasks \in Seq(TaskRows)
    BY <1>1 DEF RecordTypes
  <2>2. tasks' = Append(tasks, row)
    BY <1>1
  <2> QED BY <1>2, <2>1, <2>2, RowAppended
<1>4. RecordTypes'
  BY <1>1, <1>3 DEF RecordTypes, timelineVars
<1>5. PICK x : x = <<"task created", Len(tasks) + 1>>
  OBVIOUS
<1>6. Others(r) /\ Held(job'[r], "telling", x, Event("created", 0), {}) /\ job[r].at = "idle"
  BY <1>1, <1>5, Calls DEF Adds, RecordInv
<1>7. x[1] \notin {"task completed", "signature"}
  BY <1>5
<1>8. GoesTelling(r, x, Event("created", 0))
  BY <1>6, <1>7, OtherKinds DEF GoesTelling, Held
<1>9. TasksGrow
  <2>0. PICK k : k = Len(tasks) + 1
    OBVIOUS
  <2>1. \A n \in 1..Len(tasks') : n \in 1..Len(tasks) \/ n = k
    BY <1>3, <2>0
  <2>2. tasks'[k].completed = 0
    BY <1>2, <1>3, <2>0
  <2>3. DoneTold(k)'
    BY <2>2 DEF DoneTold
  <2>4. Len(tasks) \in Nat /\ Len(tasks') \in Nat /\ Len(tasks') >= Len(tasks)
    BY <1>3
  <2> QED BY <1>3, <2>1, <2>3, <2>4 DEF TasksGrow
<1>10. SignaturesGrow
  BY <1>1 DEF SignaturesGrow
<1> QED BY <1>1, <1>4, <1>6, <1>8, <1>9, <1>10, Tellings DEF timelineVars

LEMMA ActivityCreations == ASSUME RecordInv, NEW r \in Requests, NEW p \in Subjects, CreateActivity(r, p) PROVE RecordInv'
<1>1. /\ Adds(r, <<"activity", Len(acts) + 1>>, Event("created", 0)) /\ RecordTypes
      /\ UNCHANGED <<notes, tasks, signatures, stored, timelineVars, clock, troubled>>
  BY DEF CreateActivity, RecordInv
<1>2. RecordTypes' /\ Len(tasks) \in Nat
  BY <1>1 DEF RecordTypes, timelineVars
<1>3. PICK x : x = <<"activity", Len(acts) + 1>>
  OBVIOUS
<1>4. Others(r) /\ Held(job'[r], "telling", x, Event("created", 0), {}) /\ job[r].at = "idle"
  BY <1>1, <1>3, Calls DEF Adds, RecordInv
<1>5. x[1] \notin {"task completed", "signature"}
  BY <1>3
<1>6. GoesTelling(r, x, Event("created", 0))
  BY <1>4, <1>5, OtherKinds DEF GoesTelling, Held
<1>7. TasksGrow /\ SignaturesGrow
  BY <1>1, NoTasks DEF SignaturesGrow
<1> QED BY <1>1, <1>2, <1>4, <1>6, <1>7, Tellings DEF timelineVars

LEMMA SignatureCreations == ASSUME RecordInv, NEW r \in Requests, CreateSignatureRequest(r) PROVE RecordInv'
<1>1. /\ Adds(r, <<"signature", Len(signatures) + 1, "requested">>, Event("sent", 0)) /\ RecordTypes
      /\ signatures' = Append(signatures, "sent")
      /\ UNCHANGED <<notes, tasks, acts, stored, timelineVars, clock, troubled>>
  BY DEF CreateSignatureRequest, RecordInv
<1>2. /\ signatures' \in Seq(EventStatuses \cup {"sent"}) /\ Len(signatures') = Len(signatures) + 1
      /\ Len(signatures) \in Nat /\ Len(tasks) \in Nat
      /\ signatures'[Len(signatures) + 1] = "sent" /\ \A n \in 1..Len(signatures) : signatures'[n] = signatures[n]
  <2> DEFINE S == EventStatuses \cup {"sent"}
  <2>1. signatures \in Seq(S) /\ "sent" \in S
    BY <1>1 DEF RecordTypes
  <2> HIDE DEF S
  <2>2. Len(tasks) \in Nat
    BY <1>1 DEF RecordTypes
  <2>3. signatures' \in Seq(S) /\ Len(signatures') = Len(signatures) + 1
        /\ Len(signatures) \in Nat
        /\ signatures'[Len(signatures) + 1] = "sent" /\ \A n \in 1..Len(signatures) : signatures'[n] = signatures[n]
    BY <1>1, <2>1
  <2> QED BY <2>2, <2>3 DEF S
<1>3. RecordTypes'
  BY <1>1, <1>2 DEF RecordTypes, timelineVars
<1>4. PICK x : x = <<"signature", Len(signatures) + 1, "requested">>
  OBVIOUS
<1>5. Others(r) /\ Held(job'[r], "telling", x, Event("sent", 0), {}) /\ job[r].at = "idle"
  BY <1>1, <1>4, Calls DEF Adds, RecordInv
<1>6. x[1] = "signature" /\ x[3] = "requested"
  BY <1>4
<1>7. GoesTelling(r, x, Event("sent", 0))
  <2>1. \A n : x # DoneRow(n)
    <3>1. \A n : DoneRow(n)[1] = "task completed"
      BY DEF DoneRow
    <3> QED BY <1>6, <3>1
  <2>2. \A n : \A s \in EventStatuses : x # StatusEvent(n, s)
    <3>1. \A n, s : StatusEvent(n, s)[3] = s
      BY DEF StatusEvent
    <3>2. "requested" \notin EventStatuses
      BY DEF EventStatuses
    <3> QED BY <1>6, <3>1, <3>2
  <2> QED BY <1>5, <2>1, <2>2 DEF GoesTelling, Held
<1>8. TasksGrow
  BY <1>1, NoTasks
<1>9. SignaturesGrow
  <2>1. \A n \in 1..Len(signatures') : n \in 1..Len(signatures) \/ n = Len(signatures) + 1
    BY <1>2
  <2> QED BY <1>2, <2>1 DEF StatusTold, SignaturesGrow
<1> QED BY <1>1, <1>3, <1>5, <1>7, <1>8, <1>9, Tellings DEF timelineVars

LEMMA SignatureEvents ==
  ASSUME RecordInv, NEW r \in Requests, NEW n \in DOMAIN signatures, NEW status \in EventStatuses,
         ApplySignatureEvent(r, n, status)
  PROVE  RecordInv'
<1>1. /\ Adds(r, StatusEvent(n, status), Event(status, 0)) /\ RecordTypes
      /\ signatures' = [signatures EXCEPT ![n] = status]
      /\ UNCHANGED <<notes, tasks, acts, stored, timelineVars, clock, troubled>>
  BY DEF ApplySignatureEvent, RecordInv
<1>2. /\ signatures' \in Seq(EventStatuses \cup {"sent"}) /\ Len(signatures') = Len(signatures)
      /\ Len(signatures) \in Nat /\ Len(tasks) \in Nat /\ n \in 1..Len(signatures)
      /\ signatures'[n] = status /\ \A k \in 1..Len(signatures) : k # n => signatures'[k] = signatures[k]
  <2> DEFINE S == EventStatuses \cup {"sent"}
  <2>1. signatures \in Seq(S) /\ status \in S
    BY <1>1 DEF RecordTypes
  <2> HIDE DEF S
  <2>2. Len(tasks) \in Nat
    BY <1>1 DEF RecordTypes
  <2>3. signatures' \in Seq(S) /\ Len(signatures') = Len(signatures) /\ Len(signatures) \in Nat /\ n \in 1..Len(signatures)
        /\ signatures'[n] = status /\ \A k \in 1..Len(signatures) : k # n => signatures'[k] = signatures[k]
    BY <1>1, <2>1
  <2> QED BY <2>2, <2>3 DEF S
<1>3. RecordTypes'
  BY <1>1, <1>2 DEF RecordTypes, timelineVars
<1>4. Others(r) /\ Held(job'[r], "telling", StatusEvent(n, status), Event(status, 0), {}) /\ job[r].at = "idle"
  BY <1>1, Calls DEF Adds, RecordInv
<1>5. Event(status, 0).what = status
  BY DEF Event
<1>6. PICK x : x = StatusEvent(n, status)
  OBVIOUS
<1>7. GoesTelling(r, x, Event(status, 0))
  <2>1. \A k : x # DoneRow(k)
    <3>1. \A k : DoneRow(k)[1] = "task completed"
      BY DEF DoneRow
    <3>2. x[1] = "signature"
      BY <1>6 DEF StatusEvent
    <3> QED BY <3>1, <3>2
  <2>2. \A k, s : x = StatusEvent(k, s) => s = status
    BY <1>6 DEF StatusEvent
  <2> QED BY <1>4, <1>5, <1>6, <2>1, <2>2 DEF GoesTelling, Held
<1>8. TasksGrow
  BY <1>1, NoTasks
<1>9. StatusTold(n)'
  <2>1. job'[r].at = "telling" /\ job'[r].row = StatusEvent(n, signatures'[n])
    BY <1>2, <1>4 DEF Held
  <2> QED BY <2>1 DEF StatusTold, StatusEvent
<1>10. SignaturesGrow
  BY <1>2, <1>9 DEF SignaturesGrow
<1> QED BY <1>1, <1>3, <1>4, <1>7, <1>8, <1>10, Tellings DEF timelineVars

\* Steps that change neither what there is to tell nor what is told, nor the
\* requests that have to tell it.
LEMMA QuietRecords ==
  ASSUME RecordInv, NEW r \in Requests, Others(r), UNCHANGED <<notes, tasks, signatures, clock, feed, noteFeed>>,
         troubled \subseteq troubled', untold \subseteq untold',
         Requested(r)', \A n : Completes(r, n)' => Completes(r, n),
         job[r].at = "noting" => \A p : job[r].row = NoteRow(p) => p \in untold',
         job[r].at = "telling" => \A n : job[r].row = DoneRow(n) => TaskRow(n) \in troubled',
         job[r].at = "telling" => job[r].row \in troubled' \/ job[r].row[1] # "signature"
  PROVE  RecordInv'
<1>0. RecordTypes /\ RecordTold /\ \A q \in Requests : Requested(q)
  BY DEF RecordInv
<1>1. RecordTypes'
  BY <1>0 DEF RecordTypes
<1>2. \A q \in Requests : Requested(q)'
  <2> SUFFICES ASSUME NEW q \in Requests, q # r PROVE Requested(q)'
    OBVIOUS
  <2>1. job'[q] = job[q] /\ Requested(q)
    BY <1>0 DEF Others
  <2>2. Len(tasks) \in Nat
    BY <1>0 DEF RecordTypes
  <2> QED BY <1>0, <2>1, <2>2, RequestStays
<1>3. CompletedAlone'
  BY AloneStays DEF RecordInv
<1>4. ASSUME NEW p \in Subjects PROVE NoteTold(p)'
  <2>1. \A q \in Requests : job[q].at = "noting" /\ job[q].row = NoteRow(p)
          => job'[q] = job[q] \/ p \in untold'
    BY DEF Others
  <2> QED BY <1>0, <2>1, NoteStays DEF RecordTold
<1>5. ASSUME NEW n \in 1..Len(tasks') PROVE DoneTold(n)'
  <2>1. \A q \in Requests : job[q].at = "telling" /\ job[q].row = DoneRow(n)
          => job'[q] = job[q] \/ TaskRow(n) \in troubled'
    BY DEF Others
  <2> QED BY <1>0, <2>1, DoneStays DEF RecordTold
<1>6. ASSUME NEW n \in 1..Len(signatures') PROVE StatusTold(n)'
  <2>1. StatusEvent(n, signatures[n])[1] = "signature" /\ StatusEvent(n, signatures[n])[2] = n
    BY DEF StatusEvent
  <2>2. \A q \in Requests : job[q].at = "telling" /\ job[q].row = StatusEvent(n, signatures[n])
          => job'[q] = job[q] \/ \E x \in troubled' : x[1] = "signature" /\ x[2] = n
    BY <2>1 DEF Others
  <2> QED BY <1>0, <2>2, StatusStays DEF RecordTold
<1>7. EventsRight'
  BY DEF RecordInv, EventsRight
<1> QED BY <1>1, <1>2, <1>3, <1>4, <1>5, <1>6, <1>7 DEF RecordInv, RecordTold, Others

LEMMA FileSteps ==
  ASSUME RecordInv, NEW r \in Requests,
         \/ \E p \in Subjects, title \in Titles, kind \in {"staff", "census"} : SaveStart(r, p, title, kind)
         \/ SaveFails(r) \/ LinkCensus(r)
  PROVE  RecordInv'
<1>1. UNCHANGED <<notes, tasks, signatures, clock, timelineVars, troubled>>
  BY DEF SaveStart, SaveFails, LinkCensus, written
<1>2. /\ Others(r) /\ job[r].at \in {"idle", "saving", "linking"}
      /\ job'[r].at \in {"idle", "saving"} /\ (job'[r].at = "saving" => job'[r].row[1] = "document")
  <2>1. ASSUME NEW p \in Subjects, NEW title \in Titles, NEW kind \in {"staff", "census"}, SaveStart(r, p, title, kind)
        PROVE  Others(r) /\ job[r].at = "idle" /\ job'[r].at = "saving" /\ job'[r].row[1] = "document"
    <3>1. PICK x, seen : x = <<"document", uploads + 1>>
                         /\ seen = [person |-> p, file |-> StoredName(p, title, uploads + 1), archived |-> FALSE]
      OBVIOUS
    <3>2. Starts(r, "saving", x, seen, {kind})
      BY <2>1, <3>1 DEF SaveStart
    <3>3. Others(r) /\ Held(job'[r], "saving", x, seen, {kind}) /\ job[r].at = "idle"
      BY <3>2, Calls DEF RecordInv
    <3> QED BY <3>1, <3>3 DEF Held
  <2>2. CASE SaveFails(r) \/ LinkCensus(r)
    BY <2>2, EndSteps DEF SaveFails, LinkCensus, Serves, RecordInv
  <2> QED BY <2>1, <2>2
<1>3. Requested(r)'
  BY <1>2 DEF Requested, NotingOK, SavingOK, CompletingOK, TellsCompletion, TellsStatus
<1>4. \A n : ~Completes(r, n)'
  BY <1>2 DEF Completes
<1> QED BY <1>1, <1>2, <1>3, <1>4, QuietRecords DEF timelineVars

LEMMA FileStores == ASSUME RecordInv, NEW r \in Requests, SaveStore(r) PROVE RecordInv'
<1>1. /\ job[r].at = "saving" /\ RecordTypes /\ Requested(r)
      /\ UNCHANGED <<notes, tasks, signatures, clock, timelineVars, troubled>>
  BY DEF SaveStore, Serves, RecordInv, written
<1>2. PICK x : x = job[r].row /\ x[1] = "document"
  BY <1>1 DEF Requested, SavingOK
<1>3. CASE "census" \in job[r].todo
  <2>1. Local(r, "linking", x, None, {})
    BY <1>2, <1>3 DEF SaveStore, Goes
  <2>2. Others(r) /\ Held(job'[r], "linking", x, None, {})
    BY <2>1, LocalSteps DEF RecordInv
  <2>3. job'[r].at = "linking"
    BY <2>2 DEF Held
  <2>4. Requested(r)' /\ \A n : ~Completes(r, n)'
    BY <2>3 DEF Requested, NotingOK, SavingOK, CompletingOK, TellsCompletion, TellsStatus, Completes
  <2> QED BY <1>1, <2>2, <2>4, QuietRecords DEF timelineVars
<1>4. CASE "census" \notin job[r].todo
  <2>1. Local(r, "telling", x, Event("uploaded", 0), {})
    BY <1>2, <1>4 DEF SaveStore, Goes
  <2>2. Others(r) /\ Held(job'[r], "telling", x, Event("uploaded", 0), {})
    BY <2>1, LocalSteps DEF RecordInv
  <2>3. x[1] \notin {"task completed", "signature"}
    BY <1>2
  <2>4. GoesTelling(r, x, Event("uploaded", 0))
    BY <1>1, <2>2, <2>3, OtherKinds DEF GoesTelling, Held
  <2>5. TasksGrow /\ SignaturesGrow
    BY <1>1, NoTasks DEF SignaturesGrow
  <2>6. RecordTypes'
    BY <1>1 DEF RecordTypes, timelineVars
  <2> QED BY <1>1, <2>2, <2>4, <2>5, <2>6, Tellings DEF timelineVars
<1> QED BY <1>3, <1>4

LEMMA RecordCrashes == ASSUME RecordInv, NEW r \in Requests, RecordCrash(r) PROVE RecordInv'
<1>1. /\ Ends(r) /\ UNCHANGED <<notes, tasks, signatures, clock, feed, noteFeed>>
      /\ troubled' = troubled \cup {IF job[r].row[1] = "task completed" THEN TaskRow(job[r].row[2]) ELSE job[r].row}
      /\ untold' = IF job[r].at = "noting" THEN untold \cup {job[r].row[2]} ELSE untold
  BY DEF RecordCrash, Dies, written, TaskRow
<1>2. Others(r) /\ job'[r].at = "idle"
  BY <1>1, EndSteps DEF RecordInv
<1>3. Requested(r)' /\ \A n : ~Completes(r, n)'
  BY <1>2 DEF Requested, NotingOK, SavingOK, CompletingOK, TellsCompletion, TellsStatus, Completes
<1>4. job[r].at = "noting" => \A p : job[r].row = NoteRow(p) => p \in untold'
  <2>1. \A p : NoteRow(p)[2] = p
    BY DEF NoteRow
  <2> QED BY <1>1, <2>1
<1>5. \A n : job[r].row = DoneRow(n) => TaskRow(n) \in troubled'
  <2>1. \A n : DoneRow(n)[1] = "task completed" /\ DoneRow(n)[2] = n
    BY DEF DoneRow
  <2> QED BY <1>1, <2>1
<1>6. job[r].row \in troubled' \/ job[r].row[1] # "signature"
  BY <1>1
<1>7. troubled \subseteq troubled' /\ untold \subseteq untold'
  BY <1>1
<1> QED BY <1>1, <1>2, <1>3, <1>4, <1>5, <1>6, <1>7, QuietRecords

LEMMA RecordStutters ==
  ASSUME RecordInv, UNCHANGED <<notes, tasks, signatures, clock, timelineVars, troubled, job>> PROVE RecordInv'
BY DEF RecordInv, Threads, RecordTypes, Requested, NotingOK, SavingOK, CompletingOK, TellsCompletion, TellsStatus,
       CompletedAlone, Completes, RecordTold, NoteTold, DoneTold, StatusTold, EventsRight, timelineVars

----------------------------------------------------------------------------
(* Notes *)

LEMMA NotesSaved ==
  ASSUME RecordInv, NEW r \in Requests, NEW p \in Subjects, NEW text \in NoteTexts, UpdateNotes(r, p, text)
  PROVE  RecordInv'
<1>1. /\ notes' = [notes EXCEPT ![p] = text] /\ \A q \in Requests : job[q].at # "noting"
      /\ UNCHANGED <<tasks, acts, signatures, stored, timelineVars, clock, troubled>>
      /\ RecordTypes /\ RecordTold /\ \A q \in Requests : Requested(q)
  BY DEF UpdateNotes, LoopIsFree, OnLoop, RecordInv
<1>2. RecordTypes' /\ notes'[p] = text /\ \A o \in Subjects : o # p => notes'[o] = notes[o]
  BY <1>1 DEF RecordTypes, timelineVars
<1>3. CASE text = notes[p]
  <2>1. UNCHANGED <<notes, job>>
    BY <1>1, <1>3 DEF UpdateNotes, Previous, Serve, RecordTypes
  <2> QED BY <1>1, <2>1, RecordStutters
<1>4. CASE text # notes[p]
  <2>1. Starts(r, "noting", NoteRow(p), text, {})
    BY <1>4 DEF UpdateNotes, Previous, NoteRow
  <2>2. Others(r) /\ Held(job'[r], "noting", NoteRow(p), text, {}) /\ job[r].at = "idle"
    BY <2>1, Calls DEF RecordInv
  <2>3. job'[r].at = "noting" /\ job'[r].row = NoteRow(p) /\ job'[r].seen = text
    BY <2>2 DEF Held
  <2>4. Requested(r)'
    <3>1. NotingOK(r)'
      BY <1>2, <2>3 DEF NotingOK, NoteRow
    <3>2. SavingOK(r)' /\ CompletingOK(r)' /\ TellsCompletion(r)' /\ TellsStatus(r)'
      BY <2>3 DEF SavingOK, CompletingOK, TellsCompletion, TellsStatus
    <3> QED BY <3>1, <3>2 DEF Requested
  <2>5. \A q \in Requests : Requested(q)'
    <3> SUFFICES ASSUME NEW q \in Requests, q # r PROVE Requested(q)'
      BY <2>4
    <3>1. job'[q] = job[q] /\ Requested(q) /\ job[q].at # "noting" /\ Len(tasks) \in Nat
      BY <1>1, <2>2 DEF Others, RecordTypes
    <3> QED BY <1>1, <3>1, RequestStays
  <2>6. CompletedAlone'
    <3>1. \A n : ~Completes(r, n)'
      BY <2>3 DEF Completes
    <3> QED BY <1>1, <2>2, <3>1, AloneStays DEF RecordInv
  <2>7. ASSUME NEW o \in Subjects PROVE NoteTold(o)'
    <3>1. CASE o = p
      <4>1. \E q \in Requests : job'[q].at = "noting" /\ job'[q].row = NoteRow(p)
        BY <2>3
      <4> QED BY <3>1, <4>1 DEF NoteTold, NoteRow
    <3>2. CASE o # p
      BY <1>1, <1>2, <3>2, NoteStays DEF RecordTold, timelineVars
    <3> QED BY <3>1, <3>2
  <2>8. \A q \in Requests : job[q].at = "telling" => job'[q] = job[q]
    BY <2>2 DEF Others
  <2>9. \A n \in 1..Len(tasks') : DoneTold(n)'
    BY <1>1, <2>8, DoneStays DEF RecordTold, timelineVars
  <2>10. \A n \in 1..Len(signatures') : StatusTold(n)'
    BY <1>1, <2>8, StatusStays DEF RecordTold, timelineVars
  <2>11. EventsRight'
    BY <1>1 DEF RecordInv, EventsRight, timelineVars
  <2> QED BY <1>2, <2>2, <2>5, <2>6, <2>7, <2>9, <2>10, <2>11 DEF RecordInv, RecordTold, Others
<1> QED BY <1>3, <1>4

LEMMA NotesTelling == ASSUME RecordInv, NEW r \in Requests, TellNotes(r) PROVE RecordInv'
<1>1. /\ job[r].at = "noting" /\ noteFeed' = Append(noteFeed, [person |-> job[r].row[2], text |-> job[r].seen])
      /\ untold' = untold \ {job[r].row[2]}
      /\ Ends(r) /\ UNCHANGED <<written, stored, feed, clock, troubled>>
      /\ RecordTypes /\ RecordTold /\ NotingOK(r) /\ \A q \in Requests : Requested(q)
  BY DEF TellNotes, Serves, RecordInv, Requested
<1>2. PICK p \in Subjects : job[r].row = NoteRow(p) /\ job[r].seen = notes[p]
  BY <1>1 DEF NotingOK
<1>3. NoteRow(p)[2] = p /\ \A o : NoteRow(o) = NoteRow(p) => o = p
  BY DEF NoteRow
<1>4. PICK event : event = [person |-> p, text |-> notes[p]]
  OBVIOUS
<1>5. event \in NoteEvents /\ event.person = p /\ event.text = notes[p] /\ noteFeed' = Append(noteFeed, event)
  BY <1>1, <1>2, <1>3, <1>4 DEF NoteEvents, RecordTypes
<1>6. /\ noteFeed' \in Seq(NoteEvents) /\ Len(noteFeed') = Len(noteFeed) + 1 /\ Len(noteFeed) \in Nat
      /\ noteFeed'[Len(noteFeed) + 1] = event /\ \A i \in 1..Len(noteFeed) : noteFeed'[i] = noteFeed[i]
  <2>1. noteFeed \in Seq(NoteEvents)
    BY <1>1 DEF RecordTypes
  <2> QED BY <1>5, <2>1, RowAppended
<1>7. RecordTypes'
  BY <1>1, <1>6 DEF RecordTypes, written
<1>8. Others(r) /\ job'[r].at = "idle"
  BY <1>1, EndSteps DEF RecordInv
<1>9. \A q \in Requests : Requested(q)'
  <2> SUFFICES ASSUME NEW q \in Requests PROVE Requested(q)'
    OBVIOUS
  <2>1. CASE q = r
    BY <1>8, <2>1 DEF Requested, NotingOK, SavingOK, CompletingOK, TellsCompletion, TellsStatus
  <2>2. CASE q # r
    <3>1. job'[q] = job[q] /\ Requested(q) /\ Len(tasks) \in Nat /\ UNCHANGED <<tasks, notes>>
      BY <1>1, <1>8, <2>2 DEF Others, RecordTypes, written
    <3> QED BY <1>1, <3>1, RequestStays
  <2> QED BY <2>1, <2>2
<1>10. CompletedAlone'
  <2>1. \A n : ~Completes(r, n)'
    BY <1>8 DEF Completes
  <2> QED BY <1>1, <1>8, <2>1, AloneStays DEF RecordInv
<1>11. DOMAIN noteFeed = 1..Len(noteFeed) /\ DOMAIN noteFeed' = 1..(Len(noteFeed) + 1)
  BY <1>1, <1>6 DEF RecordTypes
<1>12. ASSUME NEW o \in Subjects PROVE NoteTold(o)'
  <2>1. CASE o = p
    <3>1. PICK k : k = Len(noteFeed) + 1
      OBVIOUS
    <3>2. k \in DOMAIN noteFeed' /\ noteFeed'[k].person = p /\ noteFeed'[k].text = notes'[p]
          /\ \A j \in DOMAIN noteFeed' : j <= k
      BY <1>1, <1>5, <1>6, <1>11, <3>1 DEF written
    <3> QED BY <2>1, <3>2 DEF NoteTold
  <2>2. CASE o # p
    <3>1. NoteTold(o) /\ notes'[o] = notes[o] /\ (o \in untold => o \in untold')
      BY <1>1, <1>2, <1>3, <2>2 DEF RecordTold, written
    <3>2. ASSUME NEW q \in Requests, job[q].at = "noting", job[q].row = NoteRow(o) PROVE NoteTold(o)'
      <4>1. q # r
        BY <1>2, <1>3, <2>2, <3>2
      <4>2. job'[q] = job[q]
        BY <1>8, <4>1 DEF Others
      <4> QED BY <3>2, <4>2 DEF NoteTold, NoteRow
    <3>3. \A j \in DOMAIN noteFeed' : noteFeed'[j].person = o => j \in DOMAIN noteFeed /\ noteFeed'[j] = noteFeed[j]
      <4>1. \A j \in DOMAIN noteFeed' : j \in DOMAIN noteFeed \/ j = Len(noteFeed) + 1
        BY <1>6, <1>11
      <4> QED BY <1>5, <1>6, <1>11, <2>2, <4>1
    <3>4. \A j \in DOMAIN noteFeed : j \in DOMAIN noteFeed' /\ noteFeed'[j] = noteFeed[j]
      BY <1>6, <1>11
    <3>5. CASE notes[o] = None /\ \A i \in DOMAIN noteFeed : noteFeed[i].person # o
      BY <3>1, <3>3, <3>5 DEF NoteTold
    <3>6. CASE o \in untold
      BY <3>1, <3>6 DEF NoteTold
    <3>7. ASSUME NEW i \in DOMAIN noteFeed, noteFeed[i].person = o, noteFeed[i].text = notes[o],
                 \A j \in DOMAIN noteFeed : noteFeed[j].person = o => j <= i
          PROVE  NoteTold(o)'
      <4>1. i \in DOMAIN noteFeed' /\ noteFeed'[i].person = o /\ noteFeed'[i].text = notes'[o]
        BY <3>1, <3>4, <3>7
      <4>2. \A j \in DOMAIN noteFeed' : noteFeed'[j].person = o => j <= i
        BY <3>3, <3>7
      <4> QED BY <4>1, <4>2 DEF NoteTold
    <3> QED BY <3>1, <3>2, <3>5, <3>6, <3>7 DEF NoteTold
  <2> QED BY <2>1, <2>2
<1>13. \A q \in Requests : job[q].at = "telling" => job'[q] = job[q]
  BY <1>1, <1>8 DEF Others
<1>14. UNCHANGED <<tasks, signatures, feed, troubled>>
  BY <1>1 DEF written
<1>15. \A n \in 1..Len(tasks') : DoneTold(n)'
  BY <1>1, <1>13, <1>14, DoneStays DEF RecordTold
<1>16. \A n \in 1..Len(signatures') : StatusTold(n)'
  BY <1>1, <1>13, <1>14, StatusStays DEF RecordTold
<1>17. EventsRight'
  BY <1>14 DEF RecordInv, EventsRight
<1> QED BY <1>7, <1>8, <1>9, <1>10, <1>12, <1>15, <1>16, <1>17 DEF RecordInv, RecordTold, Others

----------------------------------------------------------------------------
(* Events and completions *)

\* The request that writes nothing and ends, or leaves every completion alone.
LEMMA RequestsLeft ==
  ASSUME RecordInv, NEW r \in Requests, Others(r), job'[r].at = "idle", UNCHANGED <<notes, tasks, troubled>>
  PROVE  (\A q \in Requests : Requested(q)') /\ CompletedAlone'
<1>1. ASSUME NEW q \in Requests PROVE Requested(q)'
  <2>1. CASE q = r
    BY <2>1 DEF Requested, NotingOK, SavingOK, CompletingOK, TellsCompletion, TellsStatus
  <2>2. CASE q # r
    <3>1. job'[q] = job[q] /\ Requested(q) /\ RecordTypes /\ Len(tasks) \in Nat
      BY <2>2 DEF Others, RecordInv, RecordTypes
    <3> QED BY <3>1, RequestStays
  <2> QED BY <2>1, <2>2
<1>2. CompletedAlone'
  <2>1. \A n : ~Completes(r, n)'
    BY DEF Completes
  <2> QED BY <2>1, AloneStays DEF RecordInv
<1> QED BY <1>1, <1>2

LEMMA EventsTold == ASSUME RecordInv, NEW r \in Requests, TellEvent(r) PROVE RecordInv'
<1>1. /\ job[r].at = "telling" /\ feed' = Put(feed, job[r].row, job[r].seen)
      /\ Ends(r) /\ UNCHANGED <<notes, tasks, signatures, noteFeed, untold, clock, troubled>>
      /\ RecordTypes /\ RecordTold /\ EventsRight /\ TellsCompletion(r) /\ TellsStatus(r)
  BY DEF TellEvent, Serves, Upserted, written, RecordInv, Requested
<1>2. Others(r) /\ job'[r].at = "idle"
  BY <1>1, EndSteps DEF RecordInv
<1>3. (\A q \in Requests : Requested(q)') /\ CompletedAlone'
  BY <1>1, <1>2, RequestsLeft
<1>4. PICK x, event : x = job[r].row /\ event = job[r].seen
  OBVIOUS
<1>5. /\ DOMAIN feed' = DOMAIN feed \cup {x} /\ feed'[x] = event
      /\ \A k \in DOMAIN feed : k # x => feed'[k] = feed[k]
  <2>1. feed' = Put(feed, x, event)
    BY <1>1, <1>4
  <2> QED BY <2>1 DEF Put
<1>6. RecordTypes'
  BY <1>1 DEF RecordTypes
<1>7. \A q \in Requests : q # r => job'[q] = job[q]
  BY <1>2 DEF Others
<1>8. ASSUME NEW p \in Subjects PROVE NoteTold(p)'
  BY <1>1, <1>7, NoteStays DEF RecordTold
<1>9. ASSUME NEW n \in 1..Len(tasks') PROVE DoneTold(n)'
  <2>0. DoneTold(n) /\ tasks'[n] = tasks[n]
    BY <1>1 DEF RecordTold
  <2>1. PICK y : y = DoneRow(n)
    OBVIOUS
  <2>2. CASE x = y
    <3>1. TaskRow(n) \in troubled \/ event.time = tasks[n].completed
      BY <1>1, <1>4, <2>1, <2>2 DEF TellsCompletion
    <3> QED BY <1>1, <1>5, <2>0, <2>1, <2>2, <3>1 DEF DoneTold, DoneRow, TaskRow
  <2>3. CASE x # y
    <3>1. \A q \in Requests : job[q].at = "telling" /\ job[q].row = y => job'[q] = job[q]
      BY <1>4, <1>7, <2>3
    <3>2. y \in DOMAIN feed => y \in DOMAIN feed' /\ feed'[y] = feed[y]
      BY <1>5, <2>3
    <3>3. DoneTold(n)'
      <4>1. CASE tasks[n].completed = 0 \/ TaskRow(n) \in troubled
        BY <1>1, <2>0, <4>1 DEF DoneTold, TaskRow
      <4>2. CASE \E q \in Requests : job[q].at = "telling" /\ job[q].row = y
        BY <2>1, <3>1, <4>2 DEF DoneTold, DoneRow
      <4>3. CASE y \in DOMAIN feed /\ feed[y].time = tasks[n].completed
        BY <2>0, <2>1, <3>2, <4>3 DEF DoneTold, DoneRow
      <4> QED BY <2>0, <2>1, <4>1, <4>2, <4>3 DEF DoneTold
    <3> QED BY <3>3
  <2> QED BY <2>2, <2>3
<1>10. ASSUME NEW n \in 1..Len(signatures') PROVE StatusTold(n)'
  <2>0. StatusTold(n) /\ signatures' = signatures
    BY <1>1 DEF RecordTold
  <2>1. PICK y : y = StatusEvent(n, signatures[n])
    OBVIOUS
  <2>2. y \in DOMAIN feed \/ x = y => StatusTold(n)'
    BY <1>5, <2>0, <2>1 DEF StatusTold, StatusEvent
  <2>3. x # y => \A q \in Requests : job[q].at = "telling" /\ job[q].row = y => job'[q] = job[q]
    BY <1>4, <1>7
  <2>4. CASE \E q \in Requests : job[q].at = "telling" /\ job[q].row = y
    BY <2>0, <2>1, <2>2, <2>3, <2>4 DEF StatusTold, StatusEvent
  <2>5. CASE signatures[n] = "sent" \/ \E z \in troubled : z[1] = "signature" /\ z[2] = n
    BY <1>1, <2>0, <2>5 DEF StatusTold
  <2> QED BY <2>0, <2>1, <2>2, <2>4, <2>5 DEF StatusTold
<1>11. EventsRight'
  <2> SUFFICES ASSUME NEW n, NEW s \in EventStatuses, StatusEvent(n, s) \in DOMAIN feed'
               PROVE  feed'[StatusEvent(n, s)].what = s
    BY DEF EventsRight, StatusEvent
  <2>1. PICK y : y = StatusEvent(n, s)
    OBVIOUS
  <2>2. CASE x = y
    <3>1. event.what = s
      BY <1>1, <1>4, <2>1, <2>2 DEF TellsStatus
    <3> QED BY <1>5, <2>1, <2>2, <3>1
  <2>3. CASE x # y
    <3>1. y \in DOMAIN feed /\ feed'[y] = feed[y]
      BY <1>5, <2>1, <2>3
    <3>2. feed[y].what = s
      BY <1>1, <2>1, <3>1 DEF EventsRight
    <3> QED BY <2>1, <3>1, <3>2
  <2> QED BY <2>2, <2>3
<1> QED BY <1>2, <1>3, <1>6, <1>8, <1>9, <1>10, <1>11 DEF RecordInv, RecordTold, Others

\* A completion that begins while another of the same task goes on is one that
\* met it.
LEMMA CompletionsBegin ==
  ASSUME RecordInv, NEW r \in Requests, NEW n \in DOMAIN tasks, CompleteStart(r, n) PROVE RecordInv'
<1>1. /\ clock' = clock + 1 /\ Starts(r, "completing", TaskRow(n), Event("completed", clock + 1), {})
      /\ troubled' = IF \E q \in Requests : job[q].row \in {TaskRow(n), DoneRow(n)}
                     THEN troubled \cup {TaskRow(n)} ELSE troubled
      /\ UNCHANGED <<notes, tasks, signatures, feed, noteFeed, untold>>
      /\ RecordTypes /\ RecordTold /\ EventsRight
  BY DEF CompleteStart, TaskRow, DoneRow, written, timelineVars, RecordInv
<1>2. Others(r) /\ Held(job'[r], "completing", TaskRow(n), Event("completed", clock + 1), {}) /\ job[r].at = "idle"
  BY <1>1, Calls DEF RecordInv
<1>3. job'[r].at = "completing" /\ job'[r].row = TaskRow(n) /\ job'[r].seen = Event("completed", clock + 1)
  BY <1>2 DEF Held
<1>4. /\ RecordTypes' /\ Event("completed", clock + 1).time \in Nat
      /\ n \in 1..Len(tasks) /\ Len(tasks) \in Nat /\ troubled \subseteq troubled'
  BY <1>1 DEF RecordTypes, Event
<1>5. ASSUME NEW q \in Requests PROVE Requested(q)'
  <2>1. CASE q = r
    <3>1. CompletingOK(r)'
      BY <1>1, <1>3, <1>4 DEF CompletingOK, TaskRow
    <3>2. NotingOK(r)' /\ SavingOK(r)' /\ TellsCompletion(r)' /\ TellsStatus(r)'
      BY <1>3 DEF NotingOK, SavingOK, TellsCompletion, TellsStatus
    <3> QED BY <2>1, <3>1, <3>2 DEF Requested
  <2>2. CASE q # r
    <3>1. job'[q] = job[q] /\ Requested(q)
      BY <1>2, <2>2 DEF Others, RecordInv
    <3> QED BY <1>1, <1>4, <3>1, RequestStays
  <2> QED BY <2>1, <2>2
<1>6. CompletedAlone'
  <2> SUFFICES ASSUME NEW q \in Requests, NEW s \in Requests, NEW k, Completes(q, k)', Completes(s, k)', q # s
               PROVE  TaskRow(k) \in troubled'
    BY DEF CompletedAlone, TaskRow
  <2>1. Completes(r, k)' => TaskRow(k) = TaskRow(n)
    BY <1>3 DEF Completes, TaskRow
  <2>2. TaskRow(k) = TaskRow(n) => k = n
    BY DEF TaskRow
  <2>3. \A o \in Requests : o # r => (Completes(o, k)' => Completes(o, k))
    BY <1>2 DEF Others, Completes, TaskRow, DoneRow
  <2>4. CASE q = r \/ s = r
    <3>1. k = n
      BY <2>1, <2>2, <2>4
    <3>2. \E o \in Requests : Completes(o, n)
      BY <2>3, <2>4, <3>1
    <3>3. \E o \in Requests : job[o].row \in {TaskRow(n), DoneRow(n)}
      BY <3>2 DEF Completes
    <3> QED BY <1>1, <3>1, <3>3
  <2>5. CASE q # r /\ s # r
    BY <1>4, <2>3, <2>5 DEF RecordInv, CompletedAlone
  <2> QED BY <2>4, <2>5
<1>7. \A q \in Requests : job[q].at \in {"noting", "telling"} => job'[q] = job[q]
  BY <1>2 DEF Others
<1>8. \A p \in Subjects : NoteTold(p)'
  BY <1>1, <1>4, <1>7, NoteStays DEF RecordTold
<1>9. \A k \in 1..Len(tasks') : DoneTold(k)'
  BY <1>1, <1>4, <1>7, DoneStays DEF RecordTold
<1>10. \A k \in 1..Len(signatures') : StatusTold(k)'
  BY <1>1, <1>4, <1>7, StatusStays DEF RecordTold
<1>11. EventsRight'
  BY <1>1 DEF EventsRight
<1> QED BY <1>2, <1>4, <1>5, <1>6, <1>8, <1>9, <1>10, <1>11 DEF RecordInv, RecordTold, Others

LEMMA CompletionsWritten == ASSUME RecordInv, NEW r \in Requests, CompleteWrite(r) PROVE RecordInv'
<1>1. /\ job[r].at = "completing" /\ RecordTypes /\ RecordTold /\ EventsRight /\ CompletedAlone
      /\ tasks' = [tasks EXCEPT ![job[r].row[2]].completed = job[r].seen.time]
      /\ Goes(r, "telling", DoneRow(job[r].row[2]), job[r].seen, {})
      /\ UNCHANGED <<notes, signatures, feed, noteFeed, untold, clock, troubled>>
  BY DEF CompleteWrite, Serves, DoneRow, timelineVars, RecordInv
<1>0. PICK event : event = job[r].seen
  OBVIOUS
<1>2. PICK n \in 1..Len(tasks) : job[r].row = TaskRow(n) /\ event = job[r].seen /\ event.time \in Nat
  BY <1>0, <1>1 DEF RecordInv, Requested, CompletingOK
<1>3. tasks' = [tasks EXCEPT ![n].completed = event.time] /\ Goes(r, "telling", DoneRow(n), event, {})
  BY <1>1, <1>2 DEF TaskRow
<1>4. Others(r) /\ job'[r].at = "telling" /\ job'[r].row = DoneRow(n) /\ job'[r].seen = event
  <2>1. Others(r) /\ Held(job'[r], "telling", DoneRow(n), event, {})
    BY <1>3, LocalSteps DEF Goes, RecordInv
  <2> QED BY <2>1 DEF Held
<1>5. /\ tasks' \in Seq(TaskRows) /\ Len(tasks') = Len(tasks) /\ Len(tasks) \in Nat
      /\ tasks'[n].completed = event.time /\ \A k \in 1..Len(tasks) : k # n => tasks'[k] = tasks[k]
  <2>1. tasks \in Seq(TaskRows) /\ tasks[n] \in TaskRows
    BY <1>1 DEF RecordTypes
  <2>2. tasks' = [tasks EXCEPT ![n] = [tasks[n] EXCEPT !.completed = event.time]]
    BY <1>3, <2>1
  <2>3. [tasks[n] EXCEPT !.completed = event.time] \in TaskRows
    BY <1>2, <2>1 DEF TaskRows
  <2>4. [tasks[n] EXCEPT !.completed = event.time].completed = event.time
    BY <2>1 DEF TaskRows
  <2> QED BY <2>1, <2>2, <2>3, <2>4
<1>6. RecordTypes'
  BY <1>1, <1>5 DEF RecordTypes
<1>7. \A q \in Requests : q # r => job'[q] = job[q]
  BY <1>4 DEF Others
<1>8. \A q \in Requests : q # r /\ job[q].at = "telling" /\ job[q].row = DoneRow(n) => TaskRow(n) \in troubled
  BY <1>1, <1>2 DEF CompletedAlone, Completes
<1>9. ASSUME NEW q \in Requests PROVE Requested(q)'
  <2>1. CASE q = r
    <3>1. TellsCompletion(r)'
      <4> SUFFICES ASSUME NEW k, DoneRow(n) = DoneRow(k)
                   PROVE  k \in 1..Len(tasks') /\ event.time = tasks'[k].completed
        BY <1>4 DEF TellsCompletion, DoneRow
      <4>1. k = n
        BY DEF DoneRow
      <4> QED BY <1>5, <4>1
    <3>2. TellsStatus(r)'
      <4>1. DoneRow(n)[1] = "task completed" /\ \A k, s : StatusEvent(k, s)[1] = "signature"
        BY DEF DoneRow, StatusEvent
      <4>2. \A k, s : DoneRow(n) # StatusEvent(k, s)
        BY <4>1
      <4> QED BY <1>4, <4>2 DEF TellsStatus, DoneRow, StatusEvent
    <3>3. NotingOK(r)' /\ SavingOK(r)' /\ CompletingOK(r)'
      BY <1>4 DEF NotingOK, SavingOK, CompletingOK
    <3> QED BY <2>1, <3>1, <3>2, <3>3 DEF Requested
  <2>2. CASE q # r
    <3>1. job'[q] = job[q] /\ Requested(q)
      BY <1>7, <2>2 DEF RecordInv
    <3>2. \A k \in 1..Len(tasks) : k # n => tasks'[k].completed = tasks[k].completed
      BY <1>5
    <3>3. job[q].at = "telling" => \A k \in 1..Len(tasks) : job[q].row = DoneRow(k)
            => tasks'[k].completed = tasks[k].completed \/ TaskRow(k) \in troubled
      BY <1>8, <2>2, <3>2
    <3>4. Len(tasks') >= Len(tasks) /\ Len(tasks') \in Nat
      BY <1>5
    <3> QED BY <1>1, <3>1, <3>3, <3>4, RequestStays
  <2> QED BY <2>1, <2>2
<1>10. CompletedAlone'
  <2>1. \A k : Completes(r, k)' => Completes(r, k)
    <3> SUFFICES ASSUME NEW k, Completes(r, k)' PROVE Completes(r, k)
      OBVIOUS
    <3>1. DoneRow(n) = DoneRow(k)
      BY <1>4 DEF Completes, DoneRow
    <3>2. k = n
      BY <3>1 DEF DoneRow
    <3> QED BY <1>1, <1>2, <3>2 DEF Completes
  <2> QED BY <1>1, <1>4, <2>1, AloneStays
<1>11. \A p \in Subjects : NoteTold(p)'
  <2>1. \A q \in Requests : job[q].at = "noting" => job'[q] = job[q]
    BY <1>1, <1>7
  <2> QED BY <1>1, <2>1, NoteStays DEF RecordTold
<1>12. \A q \in Requests : job[q].at = "telling" => job'[q] = job[q]
  BY <1>1, <1>7
<1>13. ASSUME NEW k \in 1..Len(tasks') PROVE DoneTold(k)'
  <2>1. CASE k = n
    BY <1>4, <2>1 DEF DoneTold, DoneRow
  <2>2. CASE k # n
    BY <1>1, <1>5, <1>12, <2>2, DoneStays DEF RecordTold
  <2> QED BY <2>1, <2>2
<1>14. \A k \in 1..Len(signatures') : StatusTold(k)'
  BY <1>1, <1>12, StatusStays DEF RecordTold
<1>15. EventsRight'
  BY <1>1 DEF EventsRight
<1> QED BY <1>4, <1>6, <1>9, <1>10, <1>11, <1>13, <1>14, <1>15 DEF RecordInv, RecordTold, Others

LEMMA RecordSteps == RecordInv /\ [RecordNext]_recordVars => RecordInv'
<1> SUFFICES ASSUME RecordInv, [RecordNext]_recordVars PROVE RecordInv'
  OBVIOUS
<1>1. ASSUME NEW r \in Requests,
             TellEvent(r) \/ TellNotes(r) \/ CompleteWrite(r) \/ RecordCrash(r)
      PROVE  RecordInv'
  BY <1>1, EventsTold, NotesTelling, CompletionsWritten, RecordCrashes
<1>2. ASSUME NEW r \in Requests, SaveFails(r) \/ SaveStore(r) \/ LinkCensus(r) \/ CreateSignatureRequest(r)
      PROVE  RecordInv'
  BY <1>2, FileSteps, FileStores, SignatureCreations
<1>3. ASSUME NEW r \in Requests, NEW n \in DOMAIN tasks, CompleteStart(r, n) PROVE RecordInv'
  BY <1>3, CompletionsBegin
<1>4. ASSUME NEW r \in Requests, NEW n \in DOMAIN signatures, NEW s \in EventStatuses, ApplySignatureEvent(r, n, s)
      PROVE  RecordInv'
  BY <1>4, SignatureEvents
<1>5. ASSUME NEW r \in Requests, NEW p \in Subjects,
             \/ CreateTask(r, p) \/ CreateActivity(r, p)
             \/ \E text \in NoteTexts : UpdateNotes(r, p, text)
             \/ \E title \in Titles, kind \in {"staff", "census"} : SaveStart(r, p, title, kind)
      PROVE  RecordInv'
  BY <1>5, TaskCreations, ActivityCreations, NotesSaved, FileSteps
<1>6. ASSUME NEW n \in DOMAIN docs, ArchiveDocument(n) PROVE RecordInv'
  BY <1>6, RecordStutters DEF ArchiveDocument, Serve, written, timelineVars
<1>7. CASE UNCHANGED recordVars
  BY <1>7, RecordStutters DEF recordVars, written, requestVars
<1> QED BY <1>1, <1>2, <1>3, <1>4, <1>5, <1>6, <1>7 DEF RecordNext, NoteTexts

LEMMA RecordTellsAll == RecordInv => TimelineTells
<1> SUFFICES ASSUME RecordInv PROVE TimelineTells
  OBVIOUS
<1>1. RecordTypes /\ RecordTold /\ EventsRight /\ DOMAIN tasks = 1..Len(tasks) /\ DOMAIN signatures = 1..Len(signatures)
  BY DEF RecordInv, RecordTypes
<1>2. NotesOnTimeline
  <2> SUFFICES ASSUME NEW p \in Subjects
               PROVE  \/ (\A i \in DOMAIN noteFeed : noteFeed[i].person # p) /\ notes[p] = None
                      \/ (\E r \in Requests : job[r].row = NoteRow(p)) \/ p \in untold
                      \/ \E i \in DOMAIN noteFeed :
                           /\ noteFeed[i].person = p /\ noteFeed[i].text = notes[p]
                           /\ \A j \in DOMAIN noteFeed : noteFeed[j].person = p => j <= i
    BY DEF NotesOnTimeline, Underway, NoteRow
  <2> QED BY <1>1 DEF RecordTold, NoteTold
<1>3. CompletionOnTimeline
  <2> SUFFICES ASSUME NEW n \in DOMAIN tasks
               PROVE  \/ tasks[n].completed = 0 \/ (\E r \in Requests : job[r].row = DoneRow(n)) \/ TaskRow(n) \in troubled
                      \/ DoneRow(n) \in DOMAIN feed /\ feed[DoneRow(n)].time = tasks[n].completed
    BY DEF CompletionOnTimeline, Underway, DoneRow, TaskRow
  <2> QED BY <1>1 DEF RecordTold, DoneTold
<1>4. SignatureTold
  <2> SUFFICES ASSUME NEW n \in DOMAIN signatures, signatures[n] # "sent"
               PROVE  \/ \E x \in DOMAIN feed : x[1] = "signature" /\ x[2] = n /\ feed[x].what = signatures[n]
                      \/ \E x \in troubled \cup {job[r].row : r \in {r \in Requests : ~Waits(r)}} :
                           x[1] = "signature" /\ x[2] = n
    BY DEF SignatureTold
  <2>1. PICK y : y = StatusEvent(n, signatures[n])
    OBVIOUS
  <2>2. y[1] = "signature" /\ y[2] = n /\ signatures[n] \in EventStatuses
    BY <1>1, <2>1 DEF StatusEvent, RecordTypes
  <2>3. CASE y \in DOMAIN feed
    BY <1>1, <2>1, <2>2, <2>3 DEF EventsRight
  <2>4. CASE \E r \in Requests : job[r].at = "telling" /\ job[r].row = y
    <3>1. PICK r \in Requests : job[r].at = "telling" /\ job[r].row = y
      BY <2>4
    <3>2. ~Waits(r)
      BY <3>1 DEF Waits, Idle
    <3> QED BY <2>2, <3>1, <3>2
  <2> QED BY <1>1, <2>1, <2>3, <2>4 DEF RecordTold, StatusTold
<1> QED BY <1>2, <1>3, <1>4 DEF TimelineTells

\* In every reachable state the timeline tells the present state of a person's
\* notes, of his completed tasks and of his signatures, whatever the order in
\* which the handlers of person_detail.py write the record and then its event:
\* except of what a request has yet to tell, of one that died before it told,
\* and of a task whose completions met.
THEOREM TimelineHolds == RecordSpec => []TimelineTells
<1>1. RecordSpec => []RecordInv
  BY RecordBegins, RecordSteps, PTL DEF RecordSpec
<1> QED BY <1>1, RecordTellsAll, PTL

----------------------------------------------------------------------------
(* The scan of a tax return *)

DetectorNames == {DETECTORS[n] : n \in 1..15}

LEMMA DetectorFacts ==
  /\ Len(DETECTORS) = 15 /\ DOMAIN Condition = DetectorNames
  /\ {"filing_rejected", "transmission"} \subseteq DetectorNames
  /\ Condition["filing_rejected"] <=> stage = "rejected"
  /\ Condition["transmission"] => stage # "accepted"
<1>1. Len(DETECTORS) = 15
  BY DEF DETECTORS
<1>2. DetectorNames = {"doc_missing", "organizer", "questionnaire", "signatures", "nonresponse", "overdue",
    "wf_blocked", "no_preparer", "no_reviewer", "filing_rejected", "transmission",
    "acceptance_pending", "retention", "signoff", "docreview"}
  BY DEF DetectorNames, DETECTORS
<1>3. DOMAIN Condition = {"doc_missing", "organizer", "questionnaire", "signatures", "nonresponse", "overdue",
    "wf_blocked", "no_preparer", "no_reviewer", "filing_rejected", "transmission",
    "acceptance_pending", "retention", "signoff", "docreview"}
  BY DEF Condition
<1>4. Condition["filing_rejected"] = FilingRejection /\ Condition["transmission"] = FilingTransmissionFailure
  BY DEF Condition
<1>5. (FilingRejection <=> stage = "rejected") /\ (FilingTransmissionFailure => stage # "accepted")
  BY DEF FilingRejection, FilingTransmissionFailure, In
<1> QED BY <1>1, <1>2, <1>3, <1>4, <1>5

LEMMA ConditionsStay == ASSUME UNCHANGED returnVars PROVE Condition' = Condition
BY DEF returnVars, Condition, MissingDocuments, MissingOrganizer, MissingQuestionnaire, MissingSignatures,
       ClientNonResponse, OverdueWork, BlockedWorkflowStep, MissingPreparer, MissingReviewer, FilingRejection,
       FilingTransmissionFailure, AcceptancePending, ComplianceDocsMissing, RequiredReviewSkipped, DocumentAmbiguity,
       In, There

\* The statuses of an exception, as the engine allows them to change.
Alarming == Exceptions!ACTIVE_STATUSES
LEMMA StatusFacts ==
  /\ Alarming \subseteq Exceptions!Statuses /\ "resolved" \in Exceptions!Statuses \ Alarming
  /\ {"open", "reopened", "in_progress"} \subseteq Alarming /\ "absent" \notin Alarming
  /\ NotBegun \subseteq Alarming
  /\ \A s \in NotBegun : "in_progress" \in Exceptions!TRANSITIONS[s]
  /\ \A s \in Alarming \ NotBegun : "resolved" \in Exceptions!TRANSITIONS[s]
  /\ \A s \in Exceptions!Statuses : "in_progress" \in Exceptions!TRANSITIONS[s] => s \in Alarming
BY DEF Alarming, NotBegun, Exceptions!ACTIVE_STATUSES, Exceptions!CLOSED_STATUSES, Exceptions!Statuses, Exceptions!TRANSITIONS

ScanTypes == exc \in [DetectorNames -> Exceptions!Statuses \cup {"absent"}]

\* Where a scan is, and what it has listed.
ScanAt(r) ==
  /\ Scanning(r) => job[r].row \in 1..15
  /\ job[r].at = "apply" => job[r].seen \in {"holds", "clear"}
  /\ job[r].at = "begin" => job[r].seen \in Alarming
  /\ job[r].at = "resolve" => job[r].seen = "in_progress"

Agrees(d) == Condition[d] <=> Alarmed(d)

\* A scan that nothing has disturbed has made its detectors agree, up to the
\* present one, and what it has read of that still holds.
CalmOK(r) ==
  /\ r \in Requests /\ Scanning(r)
  /\ \A k \in 1..15 : k < job[r].row => Agrees(DETECTORS[k])
  /\ job[r].at = "apply" => (job[r].seen = "holds" <=> Condition[DETECTORS[job[r].row]])
  /\ job[r].at \in {"begin", "resolve"} => ~Condition[DETECTORS[job[r].row]]
OnlyCalm == calm # {} \/ settled => \A q \in Requests : ~Waits(q) => q \in calm
CalmInv ==
  /\ OnlyCalm /\ (\A r \in calm : CalmOK(r))
  /\ settled => \A d \in DetectorNames : Agrees(d)

\* What a scan has read of a filing is as the last transition left it.
SoundOK(r) ==
  /\ job[r].at = "apply" /\ DETECTORS[job[r].row] = "filing_rejected" => (job[r].seen = "holds" <=> stage = "rejected")
  /\ job[r].at = "apply" /\ DETECTORS[job[r].row] = "transmission" /\ job[r].seen = "holds" => stage # "accepted"
  /\ job[r].at \in {"begin", "resolve"} /\ DETECTORS[job[r].row] = "filing_rejected" => stage # "rejected"
FilingAgrees ==
  /\ stage = "rejected" => Alarmed("filing_rejected")
  /\ stage = "accepted" => ~Alarmed("filing_rejected") /\ ~Alarmed("transmission")
FilingInv ==
  ~unsound =>
    /\ \A r, q \in Requests : Hooked(r) /\ Hooked(q) => r = q
    /\ \A r \in Requests : Hooked(r) => job[r].row = stage
    /\ \A r \in Requests : SoundOK(r)
    /\ (\A r \in Requests : ~Hooked(r)) => FilingAgrees

ScanInv ==
  Threads /\ ScanTypes /\ (\A r \in Requests : ScanAt(r)) /\ BreaksOffOnlyIfMoved /\ CalmInv /\ FilingInv

LEMMA ScansBegin == TaxScanInit => ScanInv
<1> SUFFICES ASSUME TaxScanInit PROVE ScanInv
  OBVIOUS
<1>1. Threads /\ \A r \in Requests : job[r].at = "idle"
  BY DEF TaxScanInit, RequestInit, Idle, Threads
<1>2. PICK was \in Exceptions!Statuses \cup {"absent"} : exc = [d \in DOMAIN Condition |-> was]
  BY DEF TaxScanInit
<1>3. ScanTypes
  BY <1>2, DetectorFacts DEF ScanTypes
<1>4. \A r \in Requests : ScanAt(r) /\ SoundOK(r) /\ ~Hooked(r)
  BY <1>1 DEF ScanAt, SoundOK, Scanning, Hooked, Serves
<1>5. calm = {} /\ settled = FALSE /\ refusals = {} /\ stage = "received"
  BY DEF TaxScanInit
<1> QED BY <1>1, <1>3, <1>4, <1>5
        DEF ScanInv, BreaksOffOnlyIfMoved, CalmInv, OnlyCalm, FilingInv, FilingAgrees

----------------------------------------------------------------------------
(* The steps of a scan *)

\* What a step of a scan may do to the exceptions.
Careful ==
  /\ calm # {} \/ settled => \A d \in DetectorNames : Agrees(d) => Agrees(d)'
  /\ ~unsound => /\ stage = "rejected" /\ Alarmed("filing_rejected") => Alarmed("filing_rejected")'
                 /\ stage = "accepted" => \A d \in {"filing_rejected", "transmission"} : Alarmed(d)' => Alarmed(d)

LEMMA ScansGoOn ==
  ASSUME ScanInv, NEW r \in Requests, Others(r), UNCHANGED <<returnVars, unsound>>, Careful,
         ~Hooked(r), ~Hooked(r)', ScanAt(r)', ScanTypes', BreaksOffOnlyIfMoved', ~unsound => SoundOK(r)',
         calm' \ {r} \subseteq calm, r \in calm' => CalmOK(r)', OnlyCalm',
         (settled' => settled \/ \A d \in DetectorNames : Agrees(d)')
  PROVE  ScanInv'
<1>0. \A q \in Requests : q # r => job'[q] = job[q]
  BY DEF Others
<1>1. Condition' = Condition /\ stage' = stage
  BY ConditionsStay DEF returnVars
<1>2. ASSUME NEW q \in Requests PROVE ScanAt(q)'
  BY <1>0 DEF ScanInv, ScanAt, Scanning
<1>3. ASSUME NEW q \in calm' PROVE CalmOK(q)'
  <2>1. CASE q # r
    <3>1. q \in calm /\ CalmOK(q)
      BY <2>1, <1>3 DEF ScanInv, CalmInv
    <3>2. q \in Requests /\ job'[q] = job[q] /\ job[q].row \in 1..15
      BY <1>0, <2>1, <3>1 DEF CalmOK, ScanInv, ScanAt
    <3>3. \A k \in 1..15 : DETECTORS[k] \in DetectorNames
      BY DEF DetectorNames
    <3>4. \A k \in 1..15 : Agrees(DETECTORS[k]) => Agrees(DETECTORS[k])'
      BY <3>1, <3>3 DEF Careful
    <3>5. \A k \in 1..15 : k < job'[q].row => Agrees(DETECTORS[k])'
      BY <3>1, <3>2, <3>4 DEF CalmOK
    <3>6. Scanning(q)'
      BY <3>1, <3>2 DEF CalmOK, Scanning
    <3> QED BY <1>1, <3>1, <3>2, <3>5, <3>6 DEF CalmOK
  <2> QED BY <1>3, <2>1
<1>4. settled' => \A d \in DetectorNames : Agrees(d)'
  BY DEF ScanInv, CalmInv, Careful
<1>5. FilingInv'
  <2> SUFFICES ASSUME ~unsound PROVE /\ \A p, q \in Requests : Hooked(p)' /\ Hooked(q)' => p = q
                                     /\ \A q \in Requests : Hooked(q)' => job'[q].row = stage'
                                     /\ \A q \in Requests : SoundOK(q)'
                                     /\ (\A q \in Requests : ~Hooked(q)') => FilingAgrees'
    BY DEF FilingInv
  <2>1. \A q \in Requests : Hooked(q)' <=> Hooked(q) /\ q # r
    BY <1>0 DEF Hooked, Serves
  <2>2. \A q \in Requests : SoundOK(q)'
    BY <1>0, <1>1 DEF ScanInv, FilingInv, SoundOK
  <2>3. FilingAgrees => FilingAgrees'
    BY <1>1 DEF Careful, FilingAgrees
  <2> QED BY <1>0, <1>1, <2>1, <2>2, <2>3 DEF ScanInv, FilingInv
<1> QED BY <1>2, <1>3, <1>4, <1>5 DEF ScanInv, CalmInv, Others

\* Where exceptions stay as they are.
LEMMA ExceptionsStay == ASSUME UNCHANGED <<returnVars, exc>> PROVE Careful /\ (ScanTypes => ScanTypes') /\ \A d : Agrees(d)' <=> Agrees(d)
<1>1. Condition' = Condition /\ \A d : Alarmed(d)' <=> Alarmed(d)
  BY ConditionsStay DEF Alarmed
<1> QED BY <1>1 DEF Careful, ScanTypes, Agrees

LEMMA ScanStarts == ASSUME ScanInv, NEW r \in Requests, ScanTax(r) PROVE ScanInv'
<1>1. /\ Starts(r, "detect", 1, None, {}) /\ UNCHANGED <<returnVars, exc, settled, unsound, refusals>>
      /\ calm' = IF \A q \in Requests : ~Waits(q) => q \in calm THEN calm \cup {r} ELSE calm
      /\ ScanTypes /\ BreaksOffOnlyIfMoved /\ CalmInv /\ OnlyCalm
  BY DEF ScanTax, ScanInv, CalmInv
<1>2. Others(r) /\ job[r].at = "idle" /\ job'[r].at = "detect" /\ job'[r].row = 1
  <2>1. Others(r) /\ Held(job'[r], "detect", 1, None, {}) /\ job[r].at = "idle"
    BY <1>1, Calls DEF ScanInv
  <2> QED BY <2>1 DEF Held
<1>3. ~Hooked(r) /\ ~Hooked(r)' /\ ScanAt(r)' /\ SoundOK(r)' /\ BreaksOffOnlyIfMoved'
  BY <1>1, <1>2 DEF Hooked, Serves, ScanAt, Scanning, SoundOK, BreaksOffOnlyIfMoved
<1>4. Careful /\ ScanTypes'
  BY <1>1, ExceptionsStay
<1>5. CalmOK(r)'
  BY <1>2 DEF CalmOK, Scanning
<1>6. OnlyCalm'
  <2>1. \A q \in Requests : q # r => (Waits(q)' <=> Waits(q))
    BY <1>2 DEF Others, Waits, Idle
  <2>2. CASE \A q \in Requests : ~Waits(q) => q \in calm
    BY <1>1, <2>1, <2>2 DEF OnlyCalm
  <2>3. CASE ~\A q \in Requests : ~Waits(q) => q \in calm
    BY <1>1, <2>3 DEF OnlyCalm
  <2> QED BY <2>2, <2>3
<1> QED BY <1>1, <1>2, <1>3, <1>4, <1>5, <1>6, ScansGoOn

LEMMA Detects == ASSUME ScanInv, NEW r \in Requests, Detect(r) PROVE ScanInv'
<1>0. PICK n : n = job[r].row
  OBVIOUS
<1>1. /\ job[r].at = "detect" /\ Goes(r, "apply", n, IF Condition[DETECTORS[n]] THEN "holds" ELSE "clear", {})
      /\ UNCHANGED <<returnVars, exc, scanHistory, unsound, refusals>> /\ n \in 1..15
      /\ ScanTypes /\ BreaksOffOnlyIfMoved /\ CalmInv /\ OnlyCalm
  BY <1>0 DEF Detect, Serves, ScanInv, CalmInv, ScanAt, Scanning
<1>2. /\ Others(r) /\ job'[r].at = "apply" /\ job'[r].row = n
      /\ job'[r].seen = IF Condition[DETECTORS[n]] THEN "holds" ELSE "clear"
  <2>1. PICK seen : seen = IF Condition[DETECTORS[n]] THEN "holds" ELSE "clear"
    OBVIOUS
  <2>2. Others(r) /\ Held(job'[r], "apply", n, seen, {})
    BY <1>1, <2>1, LocalSteps DEF Goes, ScanInv
  <2> QED BY <2>1, <2>2 DEF Held
<1>3. ~Hooked(r) /\ ~Hooked(r)' /\ ScanAt(r)' /\ BreaksOffOnlyIfMoved'
  BY <1>1, <1>2 DEF Hooked, Serves, ScanAt, Scanning, BreaksOffOnlyIfMoved
<1>4. Careful /\ ScanTypes' /\ \A d : Agrees(d)' <=> Agrees(d)
  BY <1>1, ExceptionsStay
<1>5. Condition' = Condition /\ stage' = stage
  BY <1>1, ConditionsStay DEF returnVars
<1>6. SoundOK(r)'
  BY <1>2, <1>5, DetectorFacts DEF SoundOK
<1>7. r \in calm => CalmOK(r)'
  <2> SUFFICES ASSUME r \in calm, CalmOK(r) PROVE CalmOK(r)'
    BY <1>1 DEF CalmInv
  <2> QED BY <1>0, <1>1, <1>2, <1>4, <1>5 DEF CalmOK, Scanning
<1>8. calm' = calm /\ settled' = settled
  BY <1>1 DEF scanHistory
<1>9. OnlyCalm'
  <2>1. \A q \in Requests : ~Waits(q)' => ~Waits(q)
    BY <1>1, <1>2 DEF Others, Waits, Idle
  <2> QED BY <1>1, <1>8, <2>1 DEF OnlyCalm
<1> QED BY <1>1, <1>2, <1>3, <1>4, <1>6, <1>7, <1>8, <1>9, ScansGoOn

\* A scan under way is the business of the ones that nothing has disturbed.
LEMMA CalmIsBusy ==
  ASSUME ScanInv, NEW r \in Requests, Scanning(r), calm # {} \/ settled PROVE r \in calm /\ CalmOK(r)
<1>1. ~Waits(r)
  BY DEF Scanning, Waits, Idle
<1> QED BY <1>1 DEF ScanInv, CalmInv, OnlyCalm

LEMMA DetectorDone ==
  ASSUME ScanInv, NEW r \in Requests, NEW n \in 1..15, job[r].row = n, Scanning(r), NextDetector(r),
         UNCHANGED <<returnVars, unsound>>, Careful, ScanTypes', BreaksOffOnlyIfMoved',
         r \in calm => Agrees(DETECTORS[n])'
  PROVE  ScanInv'
<1>0. Threads /\ CalmInv /\ OnlyCalm
  BY DEF ScanInv, CalmInv
<1>1. ~Hooked(r)
  BY DEF Scanning, Hooked, Serves
<1>2. ASSUME r \in calm PROVE \A k \in 1..15 : k < n + 1 => Agrees(DETECTORS[k])'
  <2>1. CalmOK(r) /\ \A k \in 1..15 : DETECTORS[k] \in DetectorNames
    BY <1>2, <1>0 DEF CalmInv, DetectorNames
  <2>2. \A k \in 1..15 : k < n => Agrees(DETECTORS[k])'
    BY <1>2, <2>1 DEF CalmOK, Careful
  <2>3. \A k \in 1..15 : k < n + 1 => k < n \/ k = n
    OBVIOUS
  <2> QED BY <1>2, <2>2, <2>3
<1>3. CASE n < 15
  <2>1. Goes(r, "detect", n + 1, None, {}) /\ UNCHANGED scanHistory
    BY <1>3, DetectorFacts DEF NextDetector
  <2>2. Others(r) /\ job'[r].at = "detect" /\ job'[r].row = n + 1
    <3>1. Others(r) /\ Held(job'[r], "detect", n + 1, None, {})
      BY <1>0, <2>1, LocalSteps DEF Goes
    <3> QED BY <3>1 DEF Held
  <2>3. ~Hooked(r)' /\ ScanAt(r)' /\ SoundOK(r)' /\ Scanning(r)'
    BY <1>3, <2>2 DEF Hooked, Serves, ScanAt, Scanning, SoundOK
  <2>4. calm' = calm /\ settled' = settled
    BY <2>1 DEF scanHistory
  <2>5. r \in calm => CalmOK(r)'
    BY <1>2, <2>2, <2>3 DEF CalmOK
  <2>6. OnlyCalm'
    <3>1. \A q \in Requests : ~Waits(q)' => ~Waits(q)
      BY <2>2 DEF Others, Waits, Idle, Scanning
    <3> QED BY <1>0, <2>4, <3>1 DEF OnlyCalm
  <2> QED BY <1>1, <2>2, <2>3, <2>4, <2>5, <2>6, ScansGoOn
<1>4. CASE n = 15
  <2>1. /\ Ends(r) /\ calm' = calm \ {r}
        /\ settled' = (settled \/ (r \in calm /\ \A q \in Requests \ {r} : Waits(q)))
    BY <1>4, DetectorFacts DEF NextDetector
  <2>2. Others(r) /\ job'[r] = Idle /\ job'[r].at = "idle"
    BY <1>0, <2>1, EndSteps
  <2>3. ~Hooked(r)' /\ ScanAt(r)' /\ SoundOK(r)'
    BY <2>2 DEF Hooked, Serves, ScanAt, Scanning, SoundOK
  <2>4. settled' => settled \/ \A d \in DetectorNames : Agrees(d)'
    <3> SUFFICES ASSUME r \in calm, NEW d \in DetectorNames PROVE Agrees(d)'
      BY <2>1
    <3>1. PICK k \in 1..15 : d = DETECTORS[k]
      BY DEF DetectorNames
    <3> QED BY <1>2, <1>4, <3>1
  <2>5. OnlyCalm'
    <3>1. \A q \in Requests : ~Waits(q)' => q # r /\ ~Waits(q)
      BY <2>2 DEF Others, Waits
    <3> QED BY <1>0, <2>1, <3>1 DEF OnlyCalm
  <2> QED BY <1>1, <2>1, <2>2, <2>3, <2>4, <2>5, ScansGoOn
<1> QED BY <1>3, <1>4

LEMMA ScanBreaksOff ==
  ASSUME ScanInv, NEW r \in Requests, NEW d, Scanning(r), BreaksOff(r, d), job[r].seen # exc[d],
         UNCHANGED <<returnVars, unsound>>
  PROVE  ScanInv'
<1>1. /\ refusals' = refusals \cup {<<job[r].seen, exc[d]>>} /\ Ends(r) /\ calm' = calm \ {r}
      /\ UNCHANGED <<exc, settled>> /\ Threads /\ ScanTypes /\ BreaksOffOnlyIfMoved /\ OnlyCalm
  BY DEF BreaksOff, ScanInv, CalmInv
<1>2. Others(r) /\ job'[r] = Idle /\ job'[r].at = "idle"
  BY <1>1, EndSteps
<1>3. ~Hooked(r) /\ ~Hooked(r)' /\ ScanAt(r)' /\ SoundOK(r)'
  BY <1>2 DEF Hooked, Serves, ScanAt, Scanning, SoundOK
<1>4. BreaksOffOnlyIfMoved'
  BY <1>1 DEF BreaksOffOnlyIfMoved
<1>5. OnlyCalm'
  <2>1. \A q \in Requests : ~Waits(q)' => q # r /\ ~Waits(q)
    BY <1>2 DEF Others, Waits
  <2> QED BY <1>1, <2>1 DEF OnlyCalm
<1> QED BY <1>1, <1>2, <1>3, <1>4, <1>5, ExceptionsStay, ScansGoOn

\* One exception changes.
LEMMA OneChanges ==
  ASSUME ScanTypes, NEW d \in DetectorNames, NEW s \in Exceptions!Statuses, exc' = [exc EXCEPT ![d] = s]
  PROVE  ScanTypes' /\ (Alarmed(d)' <=> s \in Alarming) /\ \A e \in DetectorNames : e # d => (Alarmed(e)' <=> Alarmed(e))
BY DEF ScanTypes, Alarmed, Alarming

LEMMA RaisedIsActive == ASSUME NEW d PROVE Raised(d) \in Alarming
BY StatusFacts DEF Raised, Alarmed, Alarming

LEMMA Applies == ASSUME ScanInv, NEW r \in Requests, Apply(r) PROVE ScanInv'
<1>0. PICK n \in 1..15, d \in DetectorNames : n = job[r].row /\ d = DETECTORS[n]
  BY DEF Apply, Serves, ScanInv, ScanAt, Scanning, DetectorNames
<1>1. /\ job[r].at = "apply" /\ Scanning(r) /\ UNCHANGED <<returnVars, unsound, refusals>>
      /\ exc' = IF job[r].seen = "holds" THEN [exc EXCEPT ![d] = Raised(d)] ELSE exc
      /\ IF job[r].seen = "clear" /\ Alarmed(d)
         THEN Goes(r, "begin", n, exc[d], {}) /\ UNCHANGED scanHistory
         ELSE NextDetector(r)
      /\ Threads /\ ScanTypes /\ BreaksOffOnlyIfMoved /\ OnlyCalm /\ job[r].seen \in {"holds", "clear"}
  BY <1>0 DEF Apply, Serves, Scanning, ScanInv, ScanAt, CalmInv
<1>2. BreaksOffOnlyIfMoved'
  BY <1>1 DEF BreaksOffOnlyIfMoved
<1>3. Condition' = Condition /\ stage' = stage
  BY <1>1, ConditionsStay DEF returnVars
<1>4. r \in calm => (job[r].seen = "holds" <=> Condition[d])
  BY <1>0, <1>1 DEF ScanInv, CalmInv, CalmOK
<1>5. ~unsound => SoundOK(r)
  BY DEF ScanInv, FilingInv
<1>6. CASE job[r].seen = "holds"
  <2>1. NextDetector(r) /\ exc' = [exc EXCEPT ![d] = Raised(d)] /\ Raised(d) \in Exceptions!Statuses
    BY <1>1, <1>6, RaisedIsActive, StatusFacts
  <2>2. ScanTypes' /\ Alarmed(d)' /\ \A e \in DetectorNames : e # d => (Alarmed(e)' <=> Alarmed(e))
    BY <1>1, <2>1, OneChanges, RaisedIsActive
  <2>3. r \in calm => Agrees(d)'
    BY <1>3, <1>4, <1>6, <2>2 DEF Agrees
  <2>4. Careful
    <3>1. calm # {} \/ settled => \A e \in DetectorNames : Agrees(e) => Agrees(e)'
      BY <1>1, <1>3, <2>2, <2>3, CalmIsBusy DEF Agrees
    <3>2. ~unsound => (d = "filing_rejected" => stage = "rejected") /\ (d = "transmission" => stage # "accepted")
      BY <1>0, <1>1, <1>5, <1>6 DEF SoundOK
    <3>3. "filing_rejected" \in DetectorNames /\ "transmission" \in DetectorNames
      BY DetectorFacts
    <3> QED BY <2>2, <3>1, <3>2, <3>3 DEF Careful
  <2> QED BY <1>0, <1>1, <1>2, <2>1, <2>2, <2>3, <2>4, DetectorDone
<1>7. CASE job[r].seen = "clear"
  <2>1. exc' = exc /\ Careful /\ ScanTypes' /\ \A e : Agrees(e)' <=> Agrees(e)
    BY <1>1, <1>7, ExceptionsStay
  <2>2. CASE Alarmed(d)
    <3>1. Goes(r, "begin", n, exc[d], {}) /\ calm' = calm /\ settled' = settled
      BY <1>1, <1>7, <2>2 DEF scanHistory
    <3>2. Others(r) /\ job'[r].at = "begin" /\ job'[r].row = n /\ job'[r].seen = exc[d]
      <4>1. Others(r) /\ Held(job'[r], "begin", n, exc[d], {})
        BY <1>1, <3>1, LocalSteps DEF Goes
      <4> QED BY <4>1 DEF Held
    <3>3. ~Hooked(r) /\ ~Hooked(r)' /\ ScanAt(r)' /\ Scanning(r)'
      BY <1>1, <2>2, <3>2 DEF Hooked, Serves, ScanAt, Scanning, Alarmed, Alarming
    <3>4. ~unsound => SoundOK(r)'
      BY <1>0, <1>1, <1>3, <1>5, <1>7, <3>2 DEF SoundOK
    <3>5. r \in calm => CalmOK(r)'
      <4> SUFFICES ASSUME r \in calm, CalmOK(r) PROVE CalmOK(r)'
        BY DEF ScanInv, CalmInv
      <4> QED BY <1>0, <1>3, <1>4, <1>7, <2>1, <3>2, <3>3 DEF CalmOK
    <3>6. OnlyCalm'
      <4>1. \A q \in Requests : ~Waits(q)' => ~Waits(q)
        BY <1>1, <3>2 DEF Others, Waits, Idle
      <4> QED BY <1>1, <3>1, <4>1 DEF OnlyCalm
    <3> QED BY <1>1, <1>2, <2>1, <3>1, <3>2, <3>3, <3>4, <3>5, <3>6, ScansGoOn
  <2>3. CASE ~Alarmed(d)
    <3>1. r \in calm => Agrees(d)'
      BY <1>4, <1>7, <2>1, <2>3 DEF Agrees
    <3> QED BY <1>0, <1>1, <1>2, <2>1, <2>3, <3>1, DetectorDone
  <2> QED BY <2>2, <2>3
<1> QED BY <1>1, <1>6, <1>7

LEMMA WorkBegins == ASSUME ScanInv, NEW r \in Requests, BeginWork(r) PROVE ScanInv'
<1>0. PICK n \in 1..15, d \in DetectorNames : n = job[r].row /\ d = DETECTORS[n]
  BY DEF BeginWork, Serves, ScanInv, ScanAt, Scanning, DetectorNames
<1>1. /\ job[r].at = "begin" /\ Scanning(r) /\ job[r].seen \in NotBegun /\ UNCHANGED <<returnVars, unsound>>
      /\ Threads /\ ScanTypes /\ BreaksOffOnlyIfMoved /\ OnlyCalm
  BY DEF BeginWork, Serves, Scanning, ScanInv, CalmInv
<1>2. CASE CanMove(d, "in_progress")
  <2>1. /\ exc' = [exc EXCEPT ![d] = "in_progress"] /\ Goes(r, "resolve", n, "in_progress", {})
        /\ UNCHANGED <<scanHistory, refusals>>
    BY <1>0, <1>2 DEF BeginWork
  <2>2. Alarmed(d)
    BY <1>2, StatusFacts DEF CanMove, Alarmed, Alarming
  <2>3. ScanTypes' /\ \A e \in DetectorNames : Alarmed(e)' <=> Alarmed(e)
    BY <1>1, <2>1, <2>2, OneChanges, StatusFacts
  <2>4. Condition' = Condition /\ stage' = stage /\ BreaksOffOnlyIfMoved' /\ calm' = calm /\ settled' = settled
    BY <1>1, <2>1, ConditionsStay DEF returnVars, scanHistory, BreaksOffOnlyIfMoved
  <2>5. Careful /\ \A e \in DetectorNames : Agrees(e)' <=> Agrees(e)
    BY <2>3, <2>4, DetectorFacts DEF Careful, Agrees
  <2>6. Others(r) /\ job'[r].at = "resolve" /\ job'[r].row = n /\ job'[r].seen = "in_progress"
    <3>1. Others(r) /\ Held(job'[r], "resolve", n, "in_progress", {})
      BY <1>1, <2>1, LocalSteps DEF Goes
    <3> QED BY <3>1 DEF Held
  <2>7. ~Hooked(r) /\ ~Hooked(r)' /\ ScanAt(r)' /\ Scanning(r)'
    BY <1>1, <2>6 DEF Hooked, Serves, ScanAt, Scanning
  <2>8. ~unsound => SoundOK(r)'
    <3>1. ~unsound => SoundOK(r)
      BY DEF ScanInv, FilingInv
    <3> QED BY <1>0, <1>1, <2>4, <2>6, <3>1 DEF SoundOK
  <2>9. r \in calm => CalmOK(r)'
    <3> SUFFICES ASSUME r \in calm, CalmOK(r) PROVE CalmOK(r)'
      BY DEF ScanInv, CalmInv
    <3>1. \A k \in 1..15 : DETECTORS[k] \in DetectorNames
      BY DEF DetectorNames
    <3> QED BY <1>0, <1>1, <2>4, <2>5, <2>6, <2>7, <3>1 DEF CalmOK
  <2>10. OnlyCalm'
    <3>1. \A q \in Requests : ~Waits(q)' => ~Waits(q)
      BY <1>1, <2>6 DEF Others, Waits, Idle
    <3> QED BY <1>1, <2>4, <3>1 DEF OnlyCalm
  <2> QED BY <1>1, <2>3, <2>4, <2>5, <2>6, <2>7, <2>8, <2>9, <2>10, ScansGoOn
<1>3. CASE ~CanMove(d, "in_progress")
  <2>1. BreaksOff(r, d)
    BY <1>0, <1>3 DEF BeginWork
  <2>2. job[r].seen # exc[d]
    BY <1>1, <1>3, StatusFacts DEF CanMove
  <2> QED BY <1>1, <2>1, <2>2, ScanBreaksOff
<1> QED BY <1>2, <1>3

LEMMA AutoResolves == ASSUME ScanInv, NEW r \in Requests, AutoResolve(r) PROVE ScanInv'
<1>0. PICK n \in 1..15, d \in DetectorNames : n = job[r].row /\ d = DETECTORS[n]
  BY DEF AutoResolve, Serves, ScanInv, ScanAt, Scanning, DetectorNames
<1>1. /\ job[r].at \in {"begin", "resolve"} /\ Scanning(r) /\ job[r].seen \in Alarming \ NotBegun
      /\ UNCHANGED <<returnVars, unsound>>
      /\ Threads /\ ScanTypes /\ BreaksOffOnlyIfMoved /\ OnlyCalm
  <2>1. "in_progress" \in Alarming \ NotBegun
    BY StatusFacts DEF NotBegun
  <2> QED BY <2>1 DEF AutoResolve, Serves, Scanning, ScanInv, ScanAt, CalmInv
<1>2. CASE CanMove(d, "resolved")
  <2>1. exc' = [exc EXCEPT ![d] = "resolved"] /\ NextDetector(r) /\ UNCHANGED refusals
    BY <1>0, <1>2 DEF AutoResolve
  <2>2. ScanTypes' /\ ~Alarmed(d)' /\ \A e \in DetectorNames : e # d => (Alarmed(e)' <=> Alarmed(e))
    BY <1>1, <2>1, OneChanges, StatusFacts
  <2>3. Condition' = Condition /\ stage' = stage /\ BreaksOffOnlyIfMoved'
    BY <1>1, <2>1, ConditionsStay DEF returnVars, BreaksOffOnlyIfMoved
  <2>4. r \in calm => Agrees(d)'
    BY <1>0, <1>1, <2>2, <2>3 DEF ScanInv, CalmInv, CalmOK, Agrees
  <2>5. Careful
    <3>1. calm # {} \/ settled => \A e \in DetectorNames : Agrees(e) => Agrees(e)'
      BY <1>1, <2>2, <2>3, <2>4, CalmIsBusy DEF Agrees
    <3>2. ~unsound => (d = "filing_rejected" => stage # "rejected")
      BY <1>0, <1>1 DEF ScanInv, FilingInv, SoundOK
    <3> QED BY <2>2, <3>1, <3>2, DetectorFacts DEF Careful
  <2> QED BY <1>0, <1>1, <2>1, <2>2, <2>3, <2>4, <2>5, DetectorDone
<1>3. CASE ~CanMove(d, "resolved")
  <2>1. BreaksOff(r, d)
    BY <1>0, <1>3 DEF AutoResolve
  <2>2. job[r].seen # exc[d]
    BY <1>1, <1>3, StatusFacts DEF CanMove
  <2> QED BY <1>1, <2>1, <2>2, ScanBreaksOff
<1> QED BY <1>2, <1>3

----------------------------------------------------------------------------
(* The steps that disturb scans *)

LEMMA Disturbances ==
  ASSUME ScanInv, Disturb, Threads', ScanTypes', \A q \in Requests : ScanAt(q)', UNCHANGED refusals, FilingInv'
  PROVE  ScanInv'
<1>1. BreaksOffOnlyIfMoved'
  BY DEF ScanInv, BreaksOffOnlyIfMoved
<1>2. CalmInv'
  BY DEF Disturb, CalmInv, OnlyCalm
<1> QED BY <1>1, <1>2 DEF ScanInv

\* Where neither the stage nor the exceptions of a filing change.
LEMMA FilingStays ==
  ASSUME FilingInv, UNCHANGED <<job, stage>>, ~unsound' => ~unsound,
         ~unsound' => \A d \in {"filing_rejected", "transmission"} : Alarmed(d)' <=> Alarmed(d)
  PROVE  FilingInv'
<1>1. \A q \in Requests : (Hooked(q)' <=> Hooked(q)) /\ (SoundOK(q) => SoundOK(q)')
  BY DEF Hooked, Serves, SoundOK
<1>2. ~unsound' => (FilingAgrees => FilingAgrees')
  BY DEF FilingAgrees
<1> QED BY <1>1, <1>2 DEF FilingInv

LEMMA ReturnMoves == ASSUME ScanInv, NEW r \in Requests, NEW to, TransitionReturn(r, to) PROVE ScanInv'
<1>1. /\ stage' = to /\ Starts(r, "hook", to, None, {}) /\ unsound' = (\E q \in Requests : ~Waits(q))
      /\ Disturb /\ UNCHANGED <<sources, exc, refusals>> /\ Threads /\ ScanTypes
  BY DEF TransitionReturn, ScanInv
<1>2. Others(r) /\ job'[r].at = "hook" /\ job'[r].row = to
  <2>1. Others(r) /\ Held(job'[r], "hook", to, None, {})
    BY <1>1, Calls
  <2> QED BY <2>1 DEF Held
<1>3. ASSUME NEW q \in Requests PROVE ScanAt(q)'
  <2>1. CASE q = r
    BY <1>2, <2>1 DEF ScanAt, Scanning
  <2>2. CASE q # r
    BY <1>2, <2>2 DEF ScanInv, ScanAt, Scanning, Others
  <2> QED BY <2>1, <2>2
<1>4. FilingInv'
  <2> SUFFICES ASSUME \A q \in Requests : Waits(q) PROVE FilingInv'
    BY <1>1 DEF FilingInv
  <2>1. \A q \in Requests : q # r => job'[q].at = "idle"
    BY <1>2 DEF Others, Waits, Idle
  <2>2. \A q \in Requests : Hooked(q)' <=> q = r
    BY <1>2, <2>1 DEF Hooked, Serves
  <2>3. \A q \in Requests : SoundOK(q)'
    BY <1>2, <2>1 DEF SoundOK
  <2> QED BY <1>1, <1>2, <2>2, <2>3 DEF FilingInv
<1> QED BY <1>1, <1>2, <1>3, <1>4, Disturbances DEF ScanTypes, Others

LEMMA FilingsFollow == ASSUME ScanInv, NEW r \in Requests, FilingHook(r) PROVE ScanInv'
<1>1. /\ Hooked(r) /\ Ends(r) /\ Disturb /\ UNCHANGED <<returnVars, unsound, refusals>> /\ Threads /\ ScanTypes
      /\ exc' = CASE job[r].row = "rejected" -> [exc EXCEPT !["filing_rejected"] = Raised("filing_rejected")]
              [] job[r].row = "accepted" ->
                   [d \in DOMAIN exc |-> IF d \in FILING_BLOCKER_CODES /\ Alarmed(d) THEN "resolved" ELSE exc[d]]
              [] OTHER -> exc
  BY DEF FilingHook, ScanInv
<1>2. Others(r) /\ job'[r].at = "idle"
  BY <1>1, EndSteps
<1>3. "filing_rejected" \in DetectorNames /\ "transmission" \in DetectorNames
  BY DetectorFacts
<1>4. ASSUME job[r].row = "rejected" PROVE ScanTypes' /\ Alarmed("filing_rejected")'
  <2>1. exc' = [exc EXCEPT !["filing_rejected"] = Raised("filing_rejected")]
    BY <1>1, <1>4
  <2>2. Raised("filing_rejected") \in Alarming /\ Alarming \subseteq Exceptions!Statuses
    BY RaisedIsActive, StatusFacts
  <2> QED BY <1>1, <1>3, <2>1, <2>2, OneChanges
<1>5. ASSUME job[r].row = "accepted" PROVE ScanTypes' /\ ~Alarmed("filing_rejected")' /\ ~Alarmed("transmission")'
  <2>1. exc' = [d \in DetectorNames |-> IF d \in FILING_BLOCKER_CODES /\ Alarmed(d) THEN "resolved" ELSE exc[d]]
    BY <1>1, <1>5 DEF ScanTypes
  <2>2. ScanTypes'
    BY <1>1, <2>1, StatusFacts DEF ScanTypes
  <2>3. \A d \in FILING_BLOCKER_CODES : exc'[d] \notin Alarming
    BY <1>3, <2>1, StatusFacts DEF FILING_BLOCKER_CODES, Alarmed, Alarming
  <2> QED BY <2>2, <2>3 DEF FILING_BLOCKER_CODES, Alarmed, Alarming
<1>6. ScanTypes'
  <2>1. CASE job[r].row \notin {"rejected", "accepted"}
    BY <1>1, <2>1 DEF ScanTypes
  <2> QED BY <1>4, <1>5, <2>1
<1>7. ASSUME NEW q \in Requests PROVE ScanAt(q)'
  <2>1. CASE q = r
    BY <1>2, <2>1 DEF ScanAt, Scanning
  <2>2. CASE q # r
    BY <1>2, <2>2 DEF ScanInv, ScanAt, Scanning, Others
  <2> QED BY <2>1, <2>2
<1>8. FilingInv'
  <2> SUFFICES ASSUME ~unsound PROVE FilingInv'
    BY <1>1 DEF FilingInv
  <2>1. job[r].row = stage /\ stage' = stage /\ \A q \in Requests : Hooked(q) => q = r
    BY <1>1 DEF ScanInv, FilingInv, returnVars
  <2>2. \A q \in Requests : ~Hooked(q)'
    BY <1>2, <2>1 DEF Hooked, Serves, Others
  <2>3. ASSUME NEW q \in Requests PROVE SoundOK(q)'
    <3>1. SoundOK(q)
      BY DEF ScanInv, FilingInv
    <3> QED BY <1>2, <2>1, <3>1 DEF SoundOK, Others
  <2>4. FilingAgrees'
    BY <1>4, <1>5, <2>1 DEF FilingAgrees
  <2> QED BY <2>2, <2>3, <2>4 DEF FilingInv
<1> QED BY <1>1, <1>2, <1>6, <1>7, <1>8, Disturbances DEF Others

LEMMA PapersAndDays ==
  ASSUME ScanInv, (\E kind \in Sources : SourceChanges(kind)) \/ (\E n \in Spans : DaysPass(n)) PROVE ScanInv'
<1>1. UNCHANGED <<job, stage, exc, unsound, refusals>> /\ Disturb
  BY DEF SourceChanges, DaysPass, Serve, requestVars
<1>2. FilingInv'
  BY <1>1, FilingStays DEF ScanInv, Alarmed
<1>3. Threads' /\ ScanTypes' /\ \A q \in Requests : ScanAt(q)'
  BY <1>1 DEF ScanInv, Threads, ScanTypes, ScanAt, Scanning
<1> QED BY <1>1, <1>2, <1>3, Disturbances

LEMMA StaffWork ==
  ASSUME ScanInv, NEW d \in DOMAIN exc, NEW to \in Exceptions!Statuses, StaffMove(d, to) PROVE ScanInv'
<1>1. /\ exc' = [exc EXCEPT ![d] = to] /\ UNCHANGED <<job, returnVars, refusals>> /\ Disturb /\ ScanTypes
      /\ unsound' = (unsound \/ d \in {"filing_rejected", "transmission"}) /\ d \in DetectorNames
  BY DEF StaffMove, Serve, ScanInv, ScanTypes
<1>2. ScanTypes' /\ \A e \in DetectorNames : e # d => (Alarmed(e)' <=> Alarmed(e))
  BY <1>1, OneChanges
<1>3. FilingInv'
  BY <1>1, <1>2, FilingStays, DetectorFacts DEF ScanInv, returnVars
<1>4. Threads' /\ \A q \in Requests : ScanAt(q)'
  BY <1>1 DEF ScanInv, Threads, ScanAt, Scanning
<1> QED BY <1>1, <1>2, <1>3, <1>4, Disturbances

LEMMA ScansDie == ASSUME ScanInv, NEW r \in Requests, TaxScanCrash(r) PROVE ScanInv'
<1>1. /\ Ends(r) /\ unsound' = (unsound \/ Hooked(r)) /\ Disturb /\ UNCHANGED <<returnVars, exc, refusals>>
      /\ Threads /\ ScanTypes
  BY DEF TaxScanCrash, Dies, ScanInv
<1>2. Others(r) /\ job'[r].at = "idle"
  BY <1>1, EndSteps
<1>3. ASSUME NEW q \in Requests PROVE ScanAt(q)' /\ (SoundOK(q) => SoundOK(q)') /\ (Hooked(q)' <=> Hooked(q) /\ q # r)
  <2>1. stage' = stage
    BY <1>1 DEF returnVars
  <2>2. CASE q = r
    BY <1>2, <2>2 DEF ScanAt, Scanning, SoundOK, Hooked, Serves
  <2>3. CASE q # r
    BY <1>2, <2>1, <2>3 DEF ScanInv, ScanAt, Scanning, SoundOK, Hooked, Serves, Others
  <2> QED BY <2>2, <2>3
<1>4. FilingInv'
  <2> SUFFICES ASSUME ~unsound, ~Hooked(r) PROVE FilingInv'
    BY <1>1 DEF FilingInv
  <2>1. \A q \in Requests : Hooked(q)' <=> Hooked(q)
    BY <1>3
  <2>2. \A q \in Requests : SoundOK(q)' /\ (Hooked(q) => job'[q].row = stage')
    BY <1>1, <1>2, <1>3 DEF ScanInv, FilingInv, Others, returnVars
  <2>3. FilingAgrees => FilingAgrees'
    BY <1>1 DEF FilingAgrees, Alarmed, returnVars
  <2> QED BY <2>1, <2>2, <2>3 DEF ScanInv, FilingInv
<1> QED BY <1>1, <1>2, <1>3, <1>4, Disturbances DEF ScanTypes, Others

LEMMA ScanSteps == ScanInv /\ [TaxScanNext]_taxScanVars => ScanInv'
<1> SUFFICES ASSUME ScanInv, [TaxScanNext]_taxScanVars PROVE ScanInv'
  OBVIOUS
<1>1. ASSUME NEW r \in Requests, ScanTax(r) \/ Detect(r) \/ Apply(r) \/ BeginWork(r) \/ AutoResolve(r)
      PROVE  ScanInv'
  BY <1>1, ScanStarts, Detects, Applies, WorkBegins, AutoResolves
<1>2. ASSUME NEW r \in Requests, FilingHook(r) \/ TaxScanCrash(r) \/ \E to \in Stages : TransitionReturn(r, to)
      PROVE  ScanInv'
  BY <1>2, FilingsFollow, ScansDie, ReturnMoves
<1>3. CASE (\E kind \in Sources : SourceChanges(kind)) \/ (\E n \in Spans : DaysPass(n))
  BY <1>3, PapersAndDays
<1>4. CASE \E d \in DOMAIN exc, to \in Exceptions!Statuses : StaffMove(d, to)
  BY <1>4, StaffWork
<1>5. CASE UNCHANGED taxScanVars
  <2>1. UNCHANGED <<returnVars, stage, exc, calm, settled, unsound, refusals, job>>
    BY <1>5 DEF taxScanVars, scanHistory, requestVars, returnVars
  <2>2. Condition' = Condition /\ \A d : Alarmed(d)' <=> Alarmed(d)
    BY <2>1, ConditionsStay DEF Alarmed
  <2>3. FilingInv'
    BY <2>1, <2>2, FilingStays DEF ScanInv
  <2>4. Threads' /\ ScanTypes' /\ BreaksOffOnlyIfMoved' /\ \A q \in Requests : ScanAt(q)'
    BY <2>1 DEF ScanInv, Threads, ScanTypes, BreaksOffOnlyIfMoved, ScanAt, Scanning
  <2>5. \A d : Agrees(d)' <=> Agrees(d)
    BY <2>2 DEF Agrees
  <2>6. \A q \in Requests : CalmOK(q) => CalmOK(q)'
    BY <2>1, <2>2, <2>5 DEF CalmOK, Scanning
  <2>7. CalmInv'
    BY <2>1, <2>5, <2>6 DEF ScanInv, CalmInv, CalmOK, OnlyCalm, Waits
  <2> QED BY <2>3, <2>4, <2>7 DEF ScanInv
<1> QED BY <1>1, <1>2, <1>3, <1>4, <1>5 DEF TaxScanNext

\* In every reachable state, whatever was resolved, cancelled or left half
\* closed before: after a scan that nothing disturbed, the detectors of
\* tax_exception_detectors.py whose condition holds are those with an active
\* exception, the exceptions of a filing follow the last transition although
\* scans run beside it, and a scan breaks off only where somebody else has
\* moved what it had listed.
THEOREM AlarmsHold == TaxScanSpec => []AlarmsAgree
<1>1. ScanInv => AlarmsAgree
  <2>1. ScanInv => TaxScanAgrees
    BY DetectorFacts DEF ScanInv, CalmInv, Agrees, TaxScanAgrees
  <2>2. ScanInv => FilingAlarmsFollow
    BY DEF ScanInv, FilingInv, FilingAgrees, FilingAlarmsFollow
  <2> QED BY <2>1, <2>2 DEF ScanInv, AlarmsAgree
<1>2. TaxScanSpec => []ScanInv
  BY ScansBegin, ScanSteps, PTL DEF TaxScanSpec
<1> QED BY <1>1, <1>2, PTL
=============================================================================
