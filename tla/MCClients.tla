------------------------------ MODULE MCClients -----------------------------
(* What surrounds a client, for TLC: Microsoft 365, the contacts of other  *)
(* systems, the accounts of a custodian, the portal and the engagements.   *)
(* The parts share no state: one of them is looked at at a time.           *)
EXTENDS MicrosoftDocuments, MicrosoftAccount, MicrosoftInbox, IdentityMatching,
        Portfolio, Relationships, Households, Portal, PersonRecord, StaffAccess,
        TaxScan, TaxEngagements, Engagements, TLC

CONSTANTS r1, r2, i1, p1, p2, m1, e1, a1, c1, c2, c3, c4, t1, f1, f2, f3, n1, n2, s1, h1, h2, t0, u1, l1, b1, k1

SomeBudgets == 2..7

\* What earlier scans of a return have left, of each kind.
Earlier == {"absent", "in_progress", "reopened", "cancelled"}

Interchangeable == Permutations({r1, r2})
OneTeam == (u1 :> {l1})
OneSender == (m1 :> a1)
OneAttendee == (e1 :> {a1})

Origin == (c1 :> "Wealthbox") @@ (c2 :> "Schwab Profile") @@ (c3 :> "Wealthbox") @@ (c4 :> "Dave Ramsey")
OnlyKeys == [key : 1..2, name : {{}}] \cup {[key |-> 2, name |-> {t1}]}
TwoPairs == [c \in {c1, c2, c3, c4} |-> [key |-> IF c \in {c1, c2} THEN 1 ELSE 2, name |-> {}]]

\* Two account lists, of which the second closes an account and moves cash, and
\* a list of positions.
Reported ==
  (f1 :> ((n1 :> [mailbox |-> a1, status |-> "open", cash |-> 0])
          @@ (n2 :> [mailbox |-> None, status |-> "open", cash |-> 0])))
  @@ (f2 :> ((n1 :> [mailbox |-> None, status |-> "closed", cash |-> 20])
             @@ (n2 :> [mailbox |-> a1, status |-> "open", cash |-> 20])))
  @@ (f3 :> << >>)
Held == (f1 :> {}) @@ (f2 :> {}) @@ (f3 :> {<<n1, s1>>})

VARIABLE part  \* the service that is looked at

documentsOwn == <<log, matches, documents, link, timeline, apart, lost>>
accountOwn == <<session, account, home, rows>>
inboxOwn == <<addressOf, mailbox, calendar, unmatched, attendees, mail, agenda, cut>>
identityOwn == <<contacts, plan, decisions, persons, links, alone>>
portfolioOwn == <<mailOf, books, holdings, runs, told>>
relationsOwn == <<named, edges, news, orgs, sees, lines, roles, owned, cutoff>>
householdsOwn == <<members, homeOf>>
portalOwn == <<client, grant, invitation, resets, sessions, familyOf, threads, messages, receipts, posted, delivered, notices, disturbed>>
recordOwn == <<notes, tasks, acts, disk, docs, census, signatures, feed, noteFeed, untold, uploads, clock, troubled>>
staffOwn == <<users, logins, composition, inserts, held, memberships, assigned, day, late, composed, meeting>>
scanOwn == <<stage, waited, sources, exc, calm, settled, unsound, refusals>>
openingOwn == <<rules, opened, has, works, intakes, answered, officeOf, now>>
engagementOwn == <<general, closings, twice, theDay>>

vars == <<part, documentsOwn, accountOwn, inboxOwn, identityOwn, portfolioOwn, relationsOwn, householdsOwn, portalOwn, recordOwn, staffOwn, scanOwn, openingOwn, engagementOwn, requestVars>>

Budget == [documents |-> 4, account |-> 6, inbox |-> 4, identity |-> 5, portfolio |-> 6, relations |-> 3, households |-> 4, portal |-> 5, record |-> 4, staff |-> 3, scan |-> 2, opening |-> 3, engagement |-> 4]

Init ==
  /\ part \in DOMAIN Budget
  /\ DocumentInit
  /\ AccountInit
  /\ InboxInit
  /\ IdentityInit /\ contacts = TwoPairs
  /\ PortfolioInit
  /\ part # "portfolio" => mailOf = [p \in Owners |-> None]
  /\ RelationInit
  /\ HouseholdInit
  /\ PortalInit
  /\ part # "portal" => familyOf = [p \in Clients |-> h1]
  /\ RecordInit
  /\ StaffAccessInit
  /\ part # "staff" => composition = [x \in Roles |-> {}]
  /\ TaxScanInit
  /\ IF part = "scan" THEN \E was \in Earlier : exc = [d \in DOMAIN exc |-> was]
     ELSE sources = {} /\ exc = [d \in DOMAIN exc |-> "absent"]
  /\ OpeningInit /\ (part = "opening" \/ rules = <<>>)
  /\ EngagementInit
  /\ budget = Budget[part]

OthersDocument == <<part, accountOwn, inboxOwn, identityOwn, portfolioOwn, relationsOwn, householdsOwn, portalOwn, recordOwn, staffOwn, scanOwn, openingOwn, engagementOwn>>
OthersAccount == <<part, documentsOwn, inboxOwn, identityOwn, portfolioOwn, relationsOwn, householdsOwn, portalOwn, recordOwn, staffOwn, scanOwn, openingOwn, engagementOwn>>
OthersInbox == <<part, documentsOwn, accountOwn, identityOwn, portfolioOwn, relationsOwn, householdsOwn, portalOwn, recordOwn, staffOwn, scanOwn, openingOwn, engagementOwn>>
OthersIdentity == <<part, documentsOwn, accountOwn, inboxOwn, portfolioOwn, relationsOwn, householdsOwn, portalOwn, recordOwn, staffOwn, scanOwn, openingOwn, engagementOwn>>
OthersPortfolio == <<part, documentsOwn, accountOwn, inboxOwn, identityOwn, relationsOwn, householdsOwn, portalOwn, recordOwn, staffOwn, scanOwn, openingOwn, engagementOwn>>
OthersRelation == <<part, documentsOwn, accountOwn, inboxOwn, identityOwn, portfolioOwn, householdsOwn, portalOwn, recordOwn, staffOwn, scanOwn, openingOwn, engagementOwn>>
OthersHousehold == <<part, documentsOwn, accountOwn, inboxOwn, identityOwn, portfolioOwn, relationsOwn, portalOwn, recordOwn, staffOwn, scanOwn, openingOwn, engagementOwn>>
OthersPortal == <<part, documentsOwn, accountOwn, inboxOwn, identityOwn, portfolioOwn, relationsOwn, householdsOwn, recordOwn, staffOwn, scanOwn, openingOwn, engagementOwn>>
OthersRecord == <<part, documentsOwn, accountOwn, inboxOwn, identityOwn, portfolioOwn, relationsOwn, householdsOwn, portalOwn, staffOwn, scanOwn, openingOwn, engagementOwn>>
OthersStaffAccess == <<part, documentsOwn, accountOwn, inboxOwn, identityOwn, portfolioOwn, relationsOwn, householdsOwn, portalOwn, recordOwn, scanOwn, openingOwn, engagementOwn>>
OthersTaxScan == <<part, documentsOwn, accountOwn, inboxOwn, identityOwn, portfolioOwn, relationsOwn, householdsOwn, portalOwn, recordOwn, staffOwn, openingOwn, engagementOwn>>
OthersOpening == <<part, documentsOwn, accountOwn, inboxOwn, identityOwn, portfolioOwn, relationsOwn, householdsOwn, portalOwn, recordOwn, staffOwn, scanOwn, engagementOwn>>
OthersEngagement == <<part, documentsOwn, accountOwn, inboxOwn, identityOwn, portfolioOwn, relationsOwn, householdsOwn, portalOwn, recordOwn, staffOwn, scanOwn, openingOwn>>

Next ==
  \/ part = "documents" /\ DocumentNext /\ UNCHANGED OthersDocument
  \/ part = "account" /\ AccountNext /\ UNCHANGED OthersAccount
  \/ part = "inbox" /\ InboxNext /\ UNCHANGED OthersInbox
  \/ part = "identity" /\ IdentityNext /\ UNCHANGED OthersIdentity
  \/ part = "portfolio" /\ PortfolioNext /\ UNCHANGED OthersPortfolio
  \/ part = "relations" /\ RelationNext /\ UNCHANGED OthersRelation
  \/ part = "households" /\ HouseholdNext /\ UNCHANGED OthersHousehold
  \/ part = "portal" /\ PortalNext /\ UNCHANGED OthersPortal
  \/ part = "record" /\ RecordNext /\ UNCHANGED OthersRecord
  \/ part = "staff" /\ StaffAccessNext /\ UNCHANGED OthersStaffAccess
  \/ part = "scan" /\ TaxScanNext /\ UNCHANGED OthersTaxScan
  \/ part = "opening" /\ OpeningNext /\ UNCHANGED OthersOpening
  \/ part = "engagement" /\ EngagementNext /\ UNCHANGED OthersEngagement

Spec == Init /\ [][Next]_vars
=============================================================================
