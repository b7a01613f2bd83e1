---------------------------- MODULE Relationships ---------------------------
(***************************************************************************)
(* The graph of people, households and organizations (relationships.py,    *)
(* organization_service.py).  A change is one transaction; the timeline,   *)
(* the assignment of a new organization and the audit trail are written in *)
(* later ones.                                                             *)
(***************************************************************************)
EXTENDS Requests

CONSTANTS
  Relatives,  \* people
  Households,
  Types,      \* relationship types
  Colleagues, \* users
  TeamsOf,    \* user -> the teams he is a member of today
  Writers,    \* users who hold record.write_all
  Lines,      \* service lines
  Shares      \* what may be owned of an organization, in percent

ASSUME RelationAssumption == Shares \subseteq 0..100

VARIABLES
  named,    \* named entities are 1..named
  edges,    \* edge -> [active, ended]
  news,     \* external id of a timeline event -> its person
  orgs,     \* organization -> its profile
  sees,     \* active assignments, as <<user or team, organization>>
  lines,    \* <<organization, service line>> -> status
  roles,    \* organization_service_roles, oldest first
  owned,    \* edge -> relationship_ownership, its share
  cutoff    \* history: what requests that died had still to write

graph == <<named, edges, news>>
business == <<orgs, sees, lines, roles, owned>>
relationVars == <<graph, business, cutoff, requestVars>>

RelationInit ==
  /\ named = 0 /\ edges = << >> /\ news = << >>
  /\ orgs = << >> /\ sees = {} /\ lines = << >> /\ roles = <<>> /\ owned = << >>
  /\ cutoff = {} /\ RequestInit

\* relationship_entities: one for a person, one for a household, and one for
\* every name that is given, whether or not it was given before.
Person(p) == <<"person", p>>
Household(h) == <<"household", h>>
Named(n) == <<"named", n>>

----------------------------------------------------------------------------
(* relationships.py *)

\* What an event is known by: the relationship, hence one event for each.
EventId(kind, e) == <<kind, e>>

\* create_relationship: with another person, or with a name; an edge that
\* exists is taken up again.
CreateRelationship(r, p, t, target, ended) ==
  LET to == IF target = None THEN Named(named + 1) ELSE Person(target)
      e == <<Person(p), to, t>>
  IN  /\ named' = IF target = None THEN named + 1 ELSE named
      /\ edges' = Put(edges, e, [active |-> ~ended, ended |-> ended])
      /\ Starts(r, "tell", EventId("added", e), p, {})
      /\ UNCHANGED <<news, business, cutoff>>

\* deactivate_relationship, which the route allows to whoever may write the
\* person or the household that the edge starts from.
DeactivateRelationship(r, e) ==
  /\ e[1][1] \in {"person", "household"}
  /\ edges' = [edges EXCEPT ![e] = [active |-> FALSE, ended |-> TRUE]]
  /\ IF e[1][1] = "person" THEN Starts(r, "tell", EventId("ended", e), e[1][2], {}) ELSE Serve
  /\ UNCHANGED <<named, news, business, cutoff>>

\* add_timeline_event: an event with the same id is replaced.
Tell(r) ==
  /\ Serves(r, "tell")
  /\ news' = Put(news, job[r].row, job[r].seen)
  /\ Ends(r) /\ UNCHANGED <<named, edges, business, cutoff>>

\* _relationship_rows, hence the edges of a person's graph.
GraphOf(p) == {e \in DOMAIN edges : edges[e].active /\ Person(p) \in {e[1], e[2]}}

\* Mutant: an edge is found where it starts.
FoundFrom(e) == IF e[1][1] = "person" THEN {e[1]} ELSE {}

\* search_relationships lists an active edge under each person that it joins.
Roots(e) == {x \in {e[1], e[2]} : x[1] = "person"}
Found == UNION {Roots(e) \X {e} : e \in {e \in DOMAIN edges : edges[e].active}}

----------------------------------------------------------------------------
(* organization_service.py *)

\* create_organization assigns it, whatever its status, to its creator ...
Assigns(status) == TRUE

CreateOrganization(r, u, status) ==
  LET o == Named(named + 1)
  IN  /\ named' = named + 1
      /\ orgs' = Put(orgs, o, [status |-> status, by |-> u])
      /\ Starts(r, IF Assigns(status) THEN "assign" ELSE "audit", o, u, {})
      /\ UNCHANGED <<edges, news, sees, lines, roles, owned, cutoff>>

\* ... in a second transaction, and the audit event is a third.  The one route
\* leaves assign_owner as it is, true, and has a user.
AssignCreator(r) ==
  /\ Serves(r, "assign")
  /\ sees' = sees \cup {<<job[r].seen, job[r].row>>}
  /\ Goes(r, "audit", job[r].row, job[r].seen, {})
  /\ UNCHANGED <<graph, orgs, lines, roles, owned, cutoff>>

AuditOrganization(r) ==
  /\ Serves(r, "audit") /\ Ends(r)
  /\ UNCHANGED <<graph, business, cutoff>>

\* An organization is assigned to a team.
AssignTeam(t, o) ==
  /\ sees' = sees \cup {<<t, o>>} /\ Serve
  /\ UNCHANGED <<graph, orgs, lines, roles, owned, cutoff>>

\* What a user may change: organizations that are assigned to him or to a team
\* of his, and every one with record.write_all.
InScope(u, o) == u \in Writers \/ \E x \in {u} \cup TeamsOf[u] : <<x, o>> \in sees

UpdateOrganization(r, u, o, status) ==
  /\ InScope(u, o)
  /\ orgs' = [orgs EXCEPT ![o].status = status]
  /\ Starts(r, "audit", o, u, {})
  /\ UNCHANGED <<graph, sees, lines, roles, owned, cutoff>>

\* add_service_line refuses one that the organization has.
AddServiceLine(r, u, o, l, status) ==
  /\ InScope(u, o) /\ <<o, l>> \notin DOMAIN lines
  /\ lines' = Put(lines, <<o, l>>, status)
  /\ Starts(r, "audit", o, u, {})
  /\ UNCHANGED <<graph, orgs, sees, roles, owned, cutoff>>

SetServiceLineStatus(r, u, o, l, status) ==
  /\ InScope(u, o) /\ <<o, l>> \in DOMAIN lines
  /\ lines' = [lines EXCEPT ![<<o, l>>] = status]
  /\ Starts(r, "audit", o, u, {})
  /\ UNCHANGED <<graph, orgs, sees, roles, owned, cutoff>>

\* assign_role never looks for a role that is held already.
AssignRole(r, u, o, holder) ==
  /\ InScope(u, o)
  /\ roles' = Append(roles, [org |-> o, user |-> holder, ended |-> FALSE])
  /\ Starts(r, "audit", o, u, {})
  /\ UNCHANGED <<graph, orgs, sees, lines, owned, cutoff>>

EndRole(r, u, n) ==
  /\ InScope(u, roles[n].org)
  /\ roles' = [roles EXCEPT ![n].ended = TRUE]
  /\ Starts(r, "audit", roles[n].org, u, {})
  /\ UNCHANGED <<graph, orgs, sees, lines, owned, cutoff>>

PossibleOwners == {Person(p) : p \in Relatives} \cup {Household(h) : h \in Households} \cup DOMAIN orgs

\* record_ownership: an edge that is on record already makes the insert fail and
\* with it the transaction.  The edge is active, whenever it ends.
RecordOwnership(r, u, o, owner, t, share, ended) ==
  LET e == <<owner, o, t>>
  IN  /\ InScope(u, o) /\ owner # o /\ e \notin DOMAIN edges
      /\ edges' = Put(edges, e, [active |-> TRUE, ended |-> ended])
      /\ owned' = Put(owned, e, share)
      /\ Starts(r, "audit", o, u, {})
      /\ UNCHANGED <<named, news, orgs, sees, lines, roles, cutoff>>

----------------------------------------------------------------------------
RelationCrash(r) ==
  /\ Dies(r)
  /\ cutoff' = cutoff \cup {<<job[r].at, job[r].row, job[r].seen>>}
  /\ UNCHANGED <<graph, business>>

Statuses == {"prospect", "active"}

GraphNext ==
  \E r \in Requests :
    \/ \E p \in Relatives, t \in Types, target \in Relatives \cup {None}, ended \in BOOLEAN :
         CreateRelationship(r, p, t, target, ended)
    \/ \E e \in DOMAIN edges : DeactivateRelationship(r, e)
    \/ Tell(r)

OrganizationNext ==
  \E r \in Requests :
    \/ AssignCreator(r) \/ AuditOrganization(r)
    \/ \E u \in Colleagues :
         \/ \E s \in Statuses : CreateOrganization(r, u, s)
         \/ \E o \in DOMAIN orgs :
              \/ \E s \in Statuses : UpdateOrganization(r, u, o, s)
              \/ \E l \in Lines, s \in Statuses :
                   AddServiceLine(r, u, o, l, s) \/ SetServiceLineStatus(r, u, o, l, s)
              \/ \E holder \in Colleagues : AssignRole(r, u, o, holder)
              \/ \E owner \in PossibleOwners, t \in Types, share \in Shares, ended \in BOOLEAN :
                   RecordOwnership(r, u, o, owner, t, share, ended)
         \/ \E n \in DOMAIN roles : EndRole(r, u, n)

RelationNext ==
  \/ GraphNext \/ OrganizationNext
  \/ \E t \in UNION {TeamsOf[u] : u \in Colleagues}, o \in DOMAIN orgs : AssignTeam(t, o)
  \/ \E r \in Requests : RelationCrash(r)

RelationSpec == RelationInit /\ [][RelationNext]_relationVars

----------------------------------------------------------------------------
(* Properties *)

\* Whoever a relationship was added for has it on the timeline, whatever others
\* add afterwards and whoever they relate to, unless the request that added it
\* has died or has yet to write the event.
AddedIsTold ==
  \A e \in DOMAIN edges \ DOMAIN owned :
    \/ \E id \in DOMAIN news : id[1] = "added" /\ news[id] = e[1][2]
    \/ \E c \in cutoff : c[1] = "tell" /\ c[3] = e[1][2]
    \/ \E r \in Requests : Serves(r, "tell") /\ job[r].seen = e[1][2]

\* The search finds under a person what the person's graph shows, whether the
\* relationship starts or ends there and whatever is at its other end.
SearchFindsGraph ==
  \A p \in Relatives : {e \in DOMAIN edges : <<Person(p), e>> \in Found} = GraphOf(p)

\* Whoever creates an organization can work on it, or the request that created
\* it has died or is still under way.
CreatorSees ==
  \A o \in DOMAIN orgs :
    \/ InScope(orgs[o].by, o)
    \/ <<"assign", o, orgs[o].by>> \in cutoff
    \/ \E r \in Requests : Serves(r, "assign") /\ job[r].row = o

\* What was added is seen by everybody who is to see it, in every place.
RelationsShown == AddedIsTold /\ SearchFindsGraph /\ CreatorSees
=============================================================================
