-------------------------- MODULE IdentityMatching --------------------------
(***************************************************************************)
(* Contacts that the importers bring in from several systems, the plan     *)
(* that groups those with the same e-mail and phone, and the review that   *)
(* makes a group of contacts one person (plan_matches.py, matches.py,      *)
(* person_merge.py).  The plan is a file that the pages read anew at every *)
(* request and address by position.                                        *)
(***************************************************************************)
EXTENDS Requests

CONSTANTS
  Contacts,   \* rows that source_contacts may come to hold
  System,     \* contact -> the system it is imported from
  Keys,       \* pairs of e-mail and phone, as naturals: the plan is sorted
  Tokens,     \* the words of names
  Values,     \* what an export may say of a contact: [key, name]
  LargeGroup  \* members from which a group is too large to be safe

ASSUME MatchingAssumption ==
  /\ Keys \subseteq Nat /\ IsFiniteSet(Keys)
  /\ None \notin Nat /\ None # "approved"
  /\ Values \subseteq [key : Keys \cup {None}, name : SUBSET Tokens]

VARIABLES
  contacts,   \* contact -> its values, or None
  plan,       \* the groups of the plan that need review, in order
  decisions,  \* group -> its row of match_review_decisions, or None
  persons,    \* people created by merges: they are 1..persons
  links,      \* person_source_links, as <<person, contact>>
  alone       \* history: no two decisions have been under way at once

identityVars == <<contacts, plan, decisions, persons, links, alone, requestVars>>

IdentityInit ==
  /\ contacts \in [Contacts -> Values \cup {None}]
  /\ plan = <<>> /\ decisions = [g \in SUBSET Contacts |-> None]
  /\ persons = 0 /\ links = {} /\ alone = TRUE
  /\ RequestInit

----------------------------------------------------------------------------
(* The importers: an export is one transaction *)

Replaced(values) ==
  [c \in Contacts |-> IF c \in DOMAIN values THEN values[c] ELSE contacts[c]]

\* Wealthbox identifies a contact by its id, Schwab by its account: its row is
\* replaced.
ImportContacts(values) ==
  /\ contacts' = Replaced(values)
  /\ Serve /\ UNCHANGED <<plan, decisions, persons, links, alone>>

ImportProfiles(values) ==
  /\ contacts' = Replaced(values)
  /\ Serve /\ UNCHANGED <<plan, decisions, persons, links, alone>>

\* Dave Ramsey's rows are identified by their content: one that changed is new.
ImportRows(values) ==
  /\ contacts' = [c \in Contacts |->
                    IF c \in DOMAIN values /\ contacts[c] = None THEN values[c] ELSE contacts[c]]
  /\ Serve /\ UNCHANGED <<plan, decisions, persons, links, alone>>

----------------------------------------------------------------------------
(* plan_matches.py *)

Sharing(k) == {c \in Contacts : contacts[c] # None /\ contacts[c].key = k}
Systems(g) == {System[c] : c \in g}

\* names_compatible: two names at least, with a word that all of them have.
Compatible(g) ==
  LET named == {c \in g : contacts[c].name # {}}
  IN  Cardinality(named) > 1 /\ \E t \in Tokens : \A c \in named : t \in contacts[c].name

NeedsReview(g) ==
  \/ Cardinality(g) # Cardinality(Systems(g))
  \/ ~Compatible(g)
  \/ Cardinality(g) > LargeGroup

\* The n-th of some pairs of e-mail and phone in order.
Nth(keys, n) == CHOOSE k \in keys : Cardinality({j \in keys : j < k}) = n - 1

\* The rows of the plan that say REVIEW.
PlannedKeys == {k \in Keys : Cardinality(Systems(Sharing(k))) > 1 /\ NeedsReview(Sharing(k))}
Planned == [n \in 1..Cardinality(PlannedKeys) |-> Sharing(Nth(PlannedKeys, n))]

MakePlan ==
  /\ plan' = Planned
  /\ Serve /\ UNCHANGED <<contacts, decisions, persons, links, alone>>

----------------------------------------------------------------------------
(* matches.py *)

\* A reviewer has the page of the n-th group before him.
ShowGroup(r, n) ==
  /\ Starts(r, "page", n, plan[n], {})
  /\ UNCHANGED <<contacts, plan, decisions, persons, links, alone>>

\* An approved merge is locked.
Open(g, decision) == decisions[g] = "approved" => decision = "approved"

\* count_pending_match_groups, for the dashboard.
DecidedGroups == {g \in {plan[n] : n \in DOMAIN plan} : decisions[g] # None}
PendingCount == IF Len(plan) > Cardinality(DecidedGroups) THEN Len(plan) - Cardinality(DecidedGroups) ELSE 0

\* What match_review_page lists as pending.
PendingListed == {n \in DOMAIN plan : decisions[plan[n]] = None}

Deciding(r) == job[r].at \in {"merge", "link", "decide"}

\* save_match_decision reads the plan and the group's decision ...
DecideRead(r, decision) ==
  LET n == job[r].row
  IN  /\ Serves(r, "page")
      /\ IF n <= Len(plan) /\ Open(plan[n], decision)
         THEN Goes(r, IF decision = "approved" THEN "merge" ELSE "decide",
                   [group |-> plan[n], decision |-> decision], None, {})
         ELSE Ends(r)
      /\ alone' = (alone /\ \A q \in Requests : ~Deciding(q))
      /\ UNCHANGED <<contacts, plan, decisions, persons, links>>

\* merge_source_contacts: people the contacts are linked to already, unless
\* there are several, which is refused.
Existing(known) == IF Cardinality(known) > 1 THEN {} ELSE known

\* ... merges the contacts in one transaction, which reads their links first ...
MergeRead(r) ==
  LET known == {l[1] : l \in {l \in links : l[2] \in job[r].row.group}}
  IN  /\ Serves(r, "merge")
      /\ IF known = {} THEN Goes(r, "link", job[r].row, None, {})
         ELSE IF Existing(known) = {} THEN Ends(r)
         ELSE \E p \in Existing(known) : Goes(r, "link", job[r].row, p, {})
      /\ UNCHANGED <<contacts, plan, decisions, persons, links, alone>>

\* Mutant: a contact that has a person already is left alone.
UnlinkedOnly(p, g) == {p} \X {c \in g : \A l \in links : l[2] # c}

NewLinks(p, g) == {p} \X g

MergeWrite(r) ==
  LET p == IF job[r].seen = None THEN persons + 1 ELSE job[r].seen
  IN  /\ Serves(r, "link")
      /\ persons' = IF job[r].seen = None THEN p ELSE persons
      /\ links' = links \cup NewLinks(p, job[r].row.group)
      /\ Goes(r, "decide", job[r].row, None, {})
      /\ UNCHANGED <<contacts, plan, decisions, alone>>

\* ... and then writes the decision.
DecideWrite(r) ==
  /\ Serves(r, "decide")
  /\ decisions' = [decisions EXCEPT ![job[r].row.group] = job[r].row.decision]
  /\ Ends(r) /\ UNCHANGED <<contacts, plan, persons, links, alone>>

IdentityCrash(r) ==
  /\ Dies(r) /\ UNCHANGED <<contacts, plan, decisions, persons, links, alone>>

ImportNext ==
  \E s \in Systems(Contacts) : \E rows \in SUBSET {c \in Contacts : System[c] = s} \ {{}} :
    \E values \in [rows -> Values] :
      \/ s = "Wealthbox" /\ ImportContacts(values)
      \/ s = "Schwab Profile" /\ ImportProfiles(values)
      \/ s = "Dave Ramsey" /\ ImportRows(values)

IdentityNext ==
  \/ ImportNext \/ MakePlan
  \/ \E r \in Requests :
       \/ \E n \in DOMAIN plan : ShowGroup(r, n)
       \/ \E d \in {"approved", "rejected", "skipped"} : DecideRead(r, d)
       \/ MergeRead(r) \/ MergeWrite(r) \/ DecideWrite(r) \/ IdentityCrash(r)

IdentitySpec == IdentityInit /\ [][IdentityNext]_identityVars

----------------------------------------------------------------------------
(* Properties *)

PersonsOf(c) == {l[1] : l \in {l \in links : l[2] = c}}

\* A group is called approved only once it is one person: whatever the plan says
\* meanwhile and wherever a reviewer's request dies, its contacts have a person
\* in common.
ApprovedIsMerged ==
  \A g \in SUBSET Contacts :
    decisions[g] = "approved" => \E p \in 1..persons : \A c \in g : p \in PersonsOf(c)

\* The dashboard's count of pending groups is the length of the list it leads
\* to, however often the plan was made anew over decided groups.
PendingAgrees == PendingCount = Cardinality(PendingListed)

\* While decisions do not overlap, no sequence of imports, plans and merges
\* gives a contact to two people.
OnePerson == alone => \A c \in Contacts : Cardinality(PersonsOf(c)) <= 1

\* Decisions, persons and the plan agree.
DecisionsAgree == ApprovedIsMerged /\ OnePerson /\ PendingAgrees
=============================================================================
