--------------------------- MODULE TaxEngagements ---------------------------
(***************************************************************************)
(* The opening of a tax engagement, a chain of transactions, and what the  *)
(* lists of the practice show of it (tax_domain.py).                       *)
(***************************************************************************)
EXTENDS Requests

CONSTANTS
  Preparers,  \* users
  GroupsOf,   \* user -> the teams he is a member of, whatever the dates of that
  Readers,    \* users who hold record.read_all
  Offices,
  RuleDays,   \* days, with 5 and 6 modulo 7 at the weekend, a rule may name
  FinalDay    \* bound: the last day

ASSUME OpeningAssumption == RuleDays \subseteq Nat

VARIABLES
  rules,     \* the published deadline rules, as days: the last has the highest version
  opened,    \* tax engagements with their return, as [office, deadline: [due, calculated, rule]]
  has,       \* return -> which of its workflow instance, link, event and audit there are
  works,     \* assignments, as [of, user, ended]; the user may be a team
  intakes,   \* return -> whether its intake has found the workflow
  answered,  \* history: engagements whose request was answered, as [of, user]
  officeOf,  \* tax_office_memberships, as [user, office, until]
  now        \* today

chainVars == <<opened, has, works, intakes, answered>>
openingVars == <<rules, chainVars, officeOf, now, requestVars>>

OpeningInit ==
  /\ rules \in {<<>>} \cup {<<d>> : d \in RuleDays}
  /\ opened = <<>> /\ has = <<>> /\ works = {}
  /\ intakes = <<>> /\ answered = {} /\ officeOf = {} /\ now = 0
  /\ RequestInit

----------------------------------------------------------------------------
(* create_engagement *)

\* business_due_date, which is called without holidays.
BusinessDueDate(d) == CHOOSE x \in d..(d + 2) : x % 7 < 5 /\ \A y \in d..(x - 1) : y % 7 >= 5

\* Of the published rules the one with the highest version counts.
Deadline ==
  IF rules = <<>> THEN None
  ELSE LET day == BusinessDueDate(rules[Len(rules)])
       IN  [due |-> day, calculated |-> day, rule |-> Len(rules)]

\* The first transaction: engagement, return and deadline.
OpenReturn(r, office, u) ==
  /\ opened' = Append(opened, [office |-> office, deadline |-> Deadline])
  /\ has' = Append(has, {})
  /\ Starts(r, "launch", Len(opened) + 1, None, {u})
  /\ UNCHANGED <<rules, works, intakes, answered, officeOf, now>>

\* A step of the chain that leaves something of the return behind.
Leaves(r, place, what, next) ==
  /\ Serves(r, place) /\ has' = [has EXCEPT ![job[r].row] = @ \cup what]
  /\ Goes(r, next, job[r].row, None, job[r].todo)
  /\ UNCHANGED <<rules, opened, works, intakes, answered, officeOf, now>>

\* launch_workflow, with the return in its idempotency key.
LaunchFlow(r) == Leaves(r, "launch", {"flow"}, "link")

\* Mutant: the link is left to somebody else.
LinkLater(r) == Leaves(r, "link", {}, "assign")

LinkFlow(r) == Leaves(r, "link", {"link"}, "assign")

\* assign_work, when the payload names somebody.
AssignReturn(r) ==
  /\ Serves(r, "assign")
  /\ works' = works \cup {[of |-> job[r].row, user |-> u, ended |-> FALSE] : u \in job[r].todo \ {None}}
  /\ Goes(r, "tell", job[r].row, None, job[r].todo)
  /\ UNCHANGED <<rules, opened, has, intakes, answered, officeOf, now>>

TellOpened(r) == Leaves(r, "tell", {"event"}, "record")

RecordOpened(r) == Leaves(r, "record", {"audit"}, "intake")

\* launch_intake, whose requests to the client name the workflow that is linked;
\* TaxIntake has its transactions.
OpenIntake(r) ==
  LET n == job[r].row
  IN  /\ Serves(r, "intake")
      /\ intakes' = [m \in DOMAIN intakes \cup {n} |-> IF m = n THEN "link" \in has[n] ELSE intakes[m]]
      /\ answered' = answered \cup {[of |-> n, user |-> u] : u \in job[r].todo}
      /\ Ends(r)
      /\ UNCHANGED <<rules, opened, has, works, officeOf, now>>

\* The process dies, or a call raises: nothing that was committed is undone.
OpeningCrash(r) == Dies(r) /\ UNCHANGED <<rules, chainVars, officeOf, now>>

PublishRule(d) ==
  /\ rules' = Append(rules, d) /\ Serve
  /\ UNCHANGED <<opened, has, works, intakes, answered, officeOf, now>>

OverrideDeadline(n, d) ==
  /\ opened[n].deadline # None /\ opened' = [opened EXCEPT ![n].deadline.due = d] /\ Serve
  /\ UNCHANGED <<rules, has, works, intakes, answered, officeOf, now>>

----------------------------------------------------------------------------
(* list_engagements *)

JoinOffice(u, office, until) ==
  /\ officeOf' = officeOf \cup {[user |-> u, office |-> office, until |-> until]} /\ Serve
  /\ UNCHANGED <<rules, opened, has, works, intakes, answered, now>>

EndWork(w) ==
  /\ works' = (works \ {w}) \cup {[of |-> w.of, user |-> w.user, ended |-> TRUE]} /\ Serve
  /\ UNCHANGED <<rules, opened, has, intakes, answered, officeOf, now>>

Groups == UNION {GroupsOf[u] : u \in Preparers}

\* A return is assigned to a team.
AssignGroup(n, t) ==
  /\ works' = works \cup {[of |-> n, user |-> t, ended |-> FALSE]} /\ Serve
  /\ UNCHANGED <<rules, opened, has, intakes, answered, officeOf, now>>

\* _scope_filter
InTaxScope(u, n) ==
  \/ u \in Readers
  \/ \E x \in {u} \cup GroupsOf[u] : [of |-> n, user |-> x, ended |-> FALSE] \in works
  \/ \E m \in officeOf : m.user = u /\ m.office = opened[n].office /\ (m.until = None \/ m.until >= now)

\* Deadline, link and workflow are outer joins: each return in scope has its item.
ListEngagements(u) == {n \in DOMAIN opened : InTaxScope(u, n)}

TaxDayEnds ==
  /\ now < FinalDay /\ now' = now + 1
  /\ UNCHANGED <<rules, chainVars, officeOf, requestVars>>

----------------------------------------------------------------------------
OpeningNext ==
  \/ \E r \in Requests :
       \/ LaunchFlow(r) \/ LinkFlow(r) \/ AssignReturn(r) \/ TellOpened(r) \/ RecordOpened(r)
       \/ OpenIntake(r) \/ OpeningCrash(r)
       \/ \E office \in Offices, u \in Preparers \cup {None} : OpenReturn(r, office, u)
  \/ \E n \in DOMAIN opened, d \in RuleDays : OverrideDeadline(n, d)
  \/ \E u \in Preparers, office \in Offices, until \in {None, 0} : JoinOffice(u, office, until)
  \/ \E n \in DOMAIN opened, t \in Groups : AssignGroup(n, t)
  \/ \E w \in works : EndWork(w)
  \/ \E d \in RuleDays : PublishRule(d)
  \/ TaxDayEnds

OpeningSpec == OpeningInit /\ [][OpeningNext]_openingVars

----------------------------------------------------------------------------
(* Properties *)

\* Whoever is answered that the engagement is open has all of it: the intake has
\* asked the client in the name of the linked workflow, the events are there, and
\* the preparer has it in his list until he is taken off it.
AnsweredIsWhole ==
  \A a \in answered :
    /\ {"flow", "event", "audit"} \subseteq has[a.of] /\ intakes[a.of]
    /\ a.user # None => [of |-> a.of, user |-> a.user, ended |-> TRUE] \in works
                        \/ a.of \in ListEngagements(a.user)

\* An engagement whose opening broke off after the first transaction is in the
\* lists of its office, where somebody can find it: no deadline, workflow or
\* assignment has to be there for that.
BrokenOffIsListed ==
  \A m \in officeOf, n \in DOMAIN opened :
    m.until = None /\ m.office = opened[n].office => n \in ListEngagements(m.user)

\* The calculated date of a deadline is a weekday, never before the day that the
\* rule names and at most two days after it, whatever is published or overridden
\* afterwards.
DeadlineOnWeekday ==
  \A n \in DOMAIN opened :
    LET d == opened[n].deadline
    IN  d # None => /\ d.calculated % 7 \notin {5, 6}
                    /\ d.calculated \in rules[d.rule]..(rules[d.rule] + 2)

\* An opening that was answered is whole, one that broke off can be found, and
\* either has the deadline of its rule.
OpeningIsWhole == AnsweredIsWhole /\ BrokenOffIsListed /\ DeadlineOnWeekday
=============================================================================
