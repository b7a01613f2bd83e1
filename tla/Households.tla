----------------------------- MODULE Households -----------------------------
(***************************************************************************)
(* The members of households (households.py): one of them is the head of a *)
(* household, one of a person's households is the primary one, and that one*)
(* is in the row of the person.  A save is one transaction, and its handler*)
(* never awaits once it has begun, so that in the one process that serves  *)
(* requests no two saves overlap: a save is one step.                      *)
(***************************************************************************)
EXTENDS Requests

CONSTANTS
  Homes,     \* households
  Kin        \* people

VARIABLES
  members,  \* <<household, person>> -> [head, primary]
  homeOf    \* person -> people.household_id

householdVars == <<members, homeOf, requestVars>>

HouseholdInit == members = << >> /\ homeOf = [p \in Kin |-> None] /\ RequestInit

\* Mutant: the other households of a person keep their mark.
MarkedHere(h, p, head, primary) ==
  {m \in DOMAIN members : (head /\ m[1] = h) \/ (primary /\ m = <<h, p>>)}

\* save_household_member first clears the marks that it is about to give: of the
\* household's members, of the person's households.
Marked(h, p, head, primary) ==
  {m \in DOMAIN members : (head /\ m[1] = h) \/ (primary /\ m[2] = p)}

Cleared(h, p, head, primary) ==
  [m \in Marked(h, p, head, primary) |->
     [head |-> members[m].head /\ ~(head /\ m[1] = h),
      primary |-> members[m].primary /\ ~(primary /\ m[2] = p)]]

\* The members with the rows that have been cleared.
Updated(rows) == [m \in DOMAIN members |-> IF m \in DOMAIN rows THEN rows[m] ELSE members[m]]

SaveMember(h, p, head, primary) ==
  /\ members' = Put(Updated(Cleared(h, p, head, primary)), <<h, p>>, [head |-> head, primary |-> primary])
  /\ homeOf' = IF primary THEN [homeOf EXCEPT ![p] = h] ELSE homeOf
  /\ Serve

HouseholdNext == \E h \in Homes, p \in Kin, head, primary \in BOOLEAN : SaveMember(h, p, head, primary)

HouseholdSpec == HouseholdInit /\ [][HouseholdNext]_householdVars

----------------------------------------------------------------------------
(* Properties *)

\* Whoever is saved as what, and in whatever order: a household has one head, and
\* a person one primary household, which is the one the person's own row names.
HouseholdsAgree ==
  /\ \A m, n \in DOMAIN members :
       members[m].head /\ members[n].head /\ m[1] = n[1] => m = n
  /\ \A m \in DOMAIN members : members[m].primary => homeOf[m[2]] = m[1]
=============================================================================
