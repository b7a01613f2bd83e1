--------------------------- MODULE MicrosoftProofs ----------------------------
(*****************************************************************************)
(* Theorems about what comes from other systems, for every set of jobs and   *)
(* every instance of the constants: the Microsoft 365 account, its           *)
(* documents, mail and meetings, the contacts that are matched to persons,   *)
(* and the lists of accounts that a custodian sends.                         *)
(*****************************************************************************)
EXTENDS MicrosoftAccount, MicrosoftDocuments, MicrosoftInbox, IdentityMatching, Portfolio,
        FiniteSetTheorems, TLAPS

----------------------------------------------------------------------------
(* Threads and their locals *)

\* The locals of the threads are a function, and only one thread's change.
Threads == job = [r \in Requests |-> job[r]]

Others(r) == Threads' /\ \A q \in Requests \ {r} : job'[q] = job[q]

Held(j, place, row, seen, todo) == j.at = place /\ j.row = row /\ j.seen = seen /\ j.todo = todo

LEMMA LocalSteps ==
  ASSUME Threads, NEW r \in Requests, NEW place, NEW row, NEW seen, NEW todo,
         Local(r, place, row, seen, todo)
  PROVE  Others(r) /\ Held(job'[r], place, row, seen, todo)
<1>1. job' = [job EXCEPT ![r] = [at |-> place, row |-> row, seen |-> seen, todo |-> todo]]
  BY DEF Local
<1>2. job'[r] = [at |-> place, row |-> row, seen |-> seen, todo |-> todo]
  BY <1>1 DEF Threads
<1>3. Others(r)
  BY <1>1 DEF Threads, Others
<1> QED BY <1>2, <1>3 DEF Held

LEMMA Calls ==
  ASSUME Threads, NEW r \in Requests, NEW place, NEW row, NEW seen, NEW todo, Starts(r, place, row, seen, todo)
  PROVE  Others(r) /\ Held(job'[r], place, row, seen, todo) /\ job[r].at = "idle" /\ job'[r].at = place
<1>1. Local(r, place, row, seen, todo)
  BY DEF Starts
<1>2. Others(r) /\ Held(job'[r], place, row, seen, todo)
  BY <1>1, LocalSteps
<1>3. job[r].at = "idle"
  BY DEF Starts, Waits, Idle
<1> QED BY <1>2, <1>3 DEF Held

LEMMA EndSteps ==
  ASSUME Threads, NEW r \in Requests, Ends(r)
  PROVE  Others(r) /\ job'[r] = Idle /\ job'[r].at = "idle" /\ UNCHANGED budget
BY DEF Threads, Others, Ends, Idle

\* The threads at a place, before and after, are the same with the same locals.
Undisturbed(place) ==
  \A q \in Requests : job[q].at = place \/ job'[q].at = place => job'[q] = job[q]

LEMMA OtherPlaces ==
  ASSUME NEW r \in Requests, Others(r), NEW place, job[r].at # place, job'[r].at # place
  PROVE  Undisturbed(place)
BY DEF Others, Undisturbed

LEMMA StillPlaces == ASSUME UNCHANGED job, NEW place PROVE Undisturbed(place)
BY DEF Undisturbed

----------------------------------------------------------------------------
(* The account *)

AccountRows == [id : Nat, signIn : Nat, health : {"none", "ok", "error"}]

\* A row with the tokens of a sign-in that was stored in it.
StoredAccount(a) == a \in AccountRows /\ a.signIn \in DOMAIN home /\ home[a.signIn] = a.id

\* What the jobs hold is such a row, though it may no longer be the account's.
AccountJobsOK ==
  /\ job = [r \in Requests |-> job[r]]
  /\ \A r \in Requests : job[r].at \in {"token", "sync"} => StoredAccount(job[r].seen)

AccountInv ==
  /\ home \in Seq(Nat) /\ rows \in Nat
  /\ account # None => StoredAccount(account)
  /\ AccountJobsOK

----------------------------------------------------------------------------

LEMMA AccountBegins == AccountInit => AccountInv
BY DEF AccountInit, RequestInit, AccountInv, AccountJobsOK, Idle

\* A job that goes on with a row that was stored, or is done.
LEMMA JobsKept ==
  ASSUME AccountJobsOK, NEW r \in Requests, NEW j, job' = [job EXCEPT ![r] = j], home' = home,
         j.at \in {"token", "sync"} => StoredAccount(j.seen)
  PROVE  AccountJobsOK'
<1>1. \A q \in Requests : job'[q] = IF q = r THEN j ELSE job[q]
  BY DEF AccountJobsOK
<1>2. job' = [q \in Requests |-> job'[q]]
  BY DEF AccountJobsOK
<1> QED BY <1>1, <1>2 DEF AccountJobsOK, StoredAccount

\* What a job writes by the id it read is a stored row again.
LEMMA AddressedStored ==
  ASSUME NEW a, StoredAccount(a), account # None => StoredAccount(account)
  PROVE  /\ Addressed(a) # None => StoredAccount(Addressed(a))
         /\ account # None =>
              StoredAccount([a EXCEPT !.health = account.health])
              /\ StoredAccount(Addressed([a EXCEPT !.health = account.health]))
<1>1. account # None => StoredAccount([a EXCEPT !.health = account.health])
  BY DEF StoredAccount, AccountRows
<1> QED BY <1>1 DEF Addressed

LEMMA NextInv == AccountInv /\ [AccountNext]_accountVars => AccountInv'
<1> SUFFICES ASSUME AccountInv, [AccountNext]_accountVars PROVE AccountInv'
  OBVIOUS
<1>1. CASE UNCHANGED accountVars
  BY <1>1 DEF accountVars, requestVars, AccountInv, AccountJobsOK, StoredAccount
<1>2. CASE Connect \/ CallbackFails \/ Disconnect
  BY <1>2 DEF Connect, CallbackFails, Disconnect, Serve, Arrives, AccountInv, AccountJobsOK, StoredAccount
<1>3. CASE Callback
  <2>1. /\ home' = Append(home, account'.id) /\ job' = job
        /\ home \in Seq(Nat) /\ Len(home) \in Nat
    BY <1>3 DEF Callback, Serve, AccountInv
  <2>2. account' \in AccountRows /\ account'.signIn = Len(home) + 1
    <3>1. CASE account = None
      BY <1>3, <2>1, <3>1 DEF Callback, Account, AccountRows, AccountInv
    <3>2. CASE account # None
      <4>1. account \in AccountRows /\ Len(home) + 1 \in Nat
        BY <2>1, <3>2 DEF AccountInv, StoredAccount
      <4>2. account' = [account EXCEPT !.signIn = Len(home) + 1]
        BY <1>3, <3>2 DEF Callback
      <4> QED BY <4>1, <4>2 DEF AccountRows
    <3> QED BY <3>1, <3>2
  <2>3. account'.id \in Nat /\ home' \in Seq(Nat) /\ DOMAIN home' = 1..(Len(home) + 1)
    BY <2>1, <2>2 DEF AccountRows
  <2>4. home'[Len(home) + 1] = account'.id /\ \A n \in DOMAIN home : home'[n] = home[n]
    BY <2>1, <2>3
  <2>5. StoredAccount(account)'
    BY <2>2, <2>3, <2>4 DEF StoredAccount
  <2>6. AccountJobsOK'
    BY <2>1, <2>3, <2>4 DEF AccountInv, AccountJobsOK, StoredAccount
  <2>7. rows' \in Nat
    BY <1>3 DEF Callback, AccountInv
  <2> QED BY <2>3, <2>5, <2>6, <2>7 DEF AccountInv
<1>4. ASSUME NEW r \in Requests, JobStart(r) PROVE AccountInv'
  <2>1. StoredAccount(account) /\ UNCHANGED <<home, rows, account>>
    BY <1>4 DEF JobStart, AccountInv
  <2>2. AccountJobsOK'
    BY <1>4, <2>1, JobsKept DEF JobStart, Starts, Local, AccountInv
  <2> QED BY <2>1, <2>2 DEF AccountInv, StoredAccount
<1>5. ASSUME NEW r \in Requests, TokenValid(r) PROVE AccountInv'
  <2>1. StoredAccount(job[r].seen) /\ UNCHANGED <<home, rows, account>>
    BY <1>5 DEF TokenValid, Serves, AccountInv, AccountJobsOK
  <2>2. AccountJobsOK'
    BY <1>5, <2>1, JobsKept DEF TokenValid, Goes, Local, AccountInv
  <2> QED BY <2>1, <2>2 DEF AccountInv, StoredAccount
<1>6. ASSUME NEW r \in Requests, TokenRefreshed(r) PROVE AccountInv'
  <2>1. StoredAccount(job[r].seen) /\ UNCHANGED <<home, rows>>
    BY <1>6 DEF TokenRefreshed, Serves, AccountInv, AccountJobsOK
  <2>2. AccountJobsOK'
    BY <1>6, <2>1, JobsKept DEF TokenRefreshed, Goes, Local, AccountInv
  <2>3. account' # None => StoredAccount(account')
    BY <1>6, <2>1, AddressedStored DEF TokenRefreshed, AccountInv
  <2> QED BY <2>1, <2>2, <2>3 DEF AccountInv, StoredAccount
<1>7. ASSUME NEW r \in Requests, NEW health \in {"ok", "error"}, HealthRecorded(r, health) PROVE AccountInv'
  <2>1. UNCHANGED <<home, rows>>
    BY <1>7 DEF HealthRecorded
  <2>2. AccountJobsOK'
    BY <1>7, <2>1, JobsKept DEF HealthRecorded, Ends, Idle, AccountInv
  <2>3. account' # None => StoredAccount(account')
    BY <1>7 DEF HealthRecorded, AccountInv, StoredAccount, AccountRows
  <2> QED BY <2>1, <2>2, <2>3 DEF AccountInv, StoredAccount
<1>8. ASSUME NEW r \in Requests, AccountCrash(r) PROVE AccountInv'
  <2>1. UNCHANGED <<home, rows, account>>
    BY <1>8 DEF AccountCrash
  <2>2. AccountJobsOK'
    BY <1>8, <2>1, JobsKept DEF AccountCrash, Dies, Ends, Idle, AccountInv
  <2> QED BY <2>1, <2>2 DEF AccountInv, StoredAccount
<1> QED BY <1>1, <1>2, <1>3, <1>4, <1>5, <1>6, <1>7, <1>8 DEF AccountNext

\* Whatever jobs are still under way when the account is disconnected, and
\* however often it is connected again, a row only ever holds tokens of a
\* sign-in that was stored in it.
THEOREM DisconnectHolds == AccountSpec => []DisconnectForgets
<1>1. AccountInv => DisconnectForgets
  BY DEF AccountInv, StoredAccount, DisconnectForgets
<1> QED BY <1>1, AccountBegins, NextInv, PTL DEF AccountSpec

----------------------------------------------------------------------------
(* A custodian's lists *)

\* What an import has written so far and has told is told.
ClosedRow(a, row) == books[a] # None /\ books[a].status # "closed" /\ row.status = "closed" /\ row.person # None
WritesAreTold(r) ==
  /\ job[r].row \in Exports /\ job[r].todo \subseteq DOMAIN Accountings[job[r].row]
  /\ DOMAIN job[r].seen \subseteq Accounts
  /\ \A a \in DOMAIN job[r].seen :
       /\ job[r].seen[a].cash \in Amounts
       /\ ClosedRow(a, job[r].seen[a])
            => told[<<a, "closed", job[r].seen[a].cash>>] = job[r].seen[a].person

ImportInv ==
  /\ Threads /\ DOMAIN books = Accounts /\ DOMAIN told = Accounts \X Kinds \X Amounts
  /\ \A r, q \in Requests : Importing(r) /\ Importing(q) => r = q
  /\ \A r \in Requests : Importing(r) => WritesAreTold(r)

LEMMA ImportBegins == PortfolioInit => ImportInv
<1> SUFFICES ASSUME PortfolioInit PROVE ImportInv
  OBVIOUS
<1>1. Threads /\ \A r \in Requests : ~Importing(r)
  BY DEF PortfolioInit, RequestInit, Idle, Threads, Importing, Serves
<1> QED BY <1>1 DEF PortfolioInit, ImportInv

LEMMA ImportsStay ==
  ASSUME ImportInv, UNCHANGED <<job, told>>, DOMAIN books' = Accounts,
         \A r \in Requests, a \in Accounts : Importing(r) /\ a \in DOMAIN job[r].seen => books'[a] = books[a]
  PROVE  ImportInv'
<1>1. ASSUME NEW r \in Requests, Importing(r) PROVE WritesAreTold(r)'
  <2>1. WritesAreTold(r)
    BY <1>1 DEF ImportInv
  <2> QED BY <1>1, <2>1 DEF WritesAreTold, ClosedRow
<1> QED BY <1>1 DEF ImportInv, Importing, Serves, Threads

LEMMA ListStep == ASSUME ImportInv, NEW f \in Exports, ListAccounts(f) PROVE ImportInv'
<1>1. UNCHANGED <<job, told>> /\ DOMAIN books' = Accounts
  BY DEF ListAccounts, Serve
<1>2. ASSUME NEW r \in Requests, NEW a \in Accounts, Importing(r), a \in DOMAIN job[r].seen
      PROVE  books'[a] = books[a]
  <2>1. a \notin DOMAIN Accountings[f]
    BY <1>2 DEF ListAccounts, Written
  <2> QED BY <2>1 DEF ListAccounts
<1> QED BY <1>1, <1>2, ImportsStay

LEMMA StartStep == ASSUME ImportInv, NEW r \in Requests, NEW f \in Exports, ImportStart(r, f) PROVE ImportInv'
<1>1. CASE f \in runs
  BY <1>1, ImportsStay DEF ImportStart, Serve, ImportInv
<1>2. CASE f \notin runs
  <2>1. /\ Starts(r, "import", f, << >>, DOMAIN Accountings[f])
        /\ \A q \in Requests : ~Importing(q)
        /\ UNCHANGED <<books, told>>
    BY <1>2 DEF ImportStart
  <2>2. Others(r) /\ Held(job'[r], "import", f, << >>, DOMAIN Accountings[f])
    BY <2>1, LocalSteps DEF Starts, ImportInv
  <2>3. \A q \in Requests : Importing(q)' => q = r
    BY <2>1, <2>2 DEF Others, Importing, Serves
  <2>4. WritesAreTold(r)'
    <3>1. job'[r].seen = << >> /\ job'[r].row = f /\ job'[r].todo = DOMAIN Accountings[f]
      BY <2>2 DEF Held
    <3>2. DOMAIN job'[r].seen = {}
      BY <3>1
    <3> QED BY <3>1, <3>2 DEF WritesAreTold
  <2> QED BY <2>1, <2>2, <2>3, <2>4 DEF ImportInv, Others
<1> QED BY <1>1, <1>2

LEMMA AccountStep ==
  ASSUME ImportInv, NEW r \in Requests, NEW a \in Accounts, ImportAccount(r, a)
  PROVE  ImportInv'
<1> DEFINE f == job[r].row
           said == Accountings[f][a]
<1>1. Importing(r) /\ WritesAreTold(r) /\ a \in job[r].todo /\ \A q \in Requests : Importing(q) => q = r
  BY DEF ImportAccount, ImportInv
<1>2. PICK p : LET row == [person |-> p, status |-> said.status, cash |-> said.cash]
                   kind == Happened(books[a], row)
               IN  /\ told' = IF p = None \/ kind = None THEN told
                              ELSE [told EXCEPT ![<<a, kind, said.cash>>] = p]
                   /\ Goes(r, "import", f, Put(job[r].seen, a, row), job[r].todo \ {a})
  BY DEF ImportAccount
<1> DEFINE row == [person |-> p, status |-> said.status, cash |-> said.cash]
           kind == Happened(books[a], row)
<1>3. /\ told' = IF p = None \/ kind = None THEN told ELSE [told EXCEPT ![<<a, kind, said.cash>>] = p]
      /\ Goes(r, "import", f, Put(job[r].seen, a, row), job[r].todo \ {a})
      /\ UNCHANGED books
  BY <1>2 DEF ImportAccount
<1>4. said.cash \in Amounts
  BY <1>1, PortfolioAssumption DEF WritesAreTold
<1>5. row.person = p /\ row.status = said.status /\ row.cash = said.cash
  OBVIOUS
<1>6. ClosedRow(a, row) => kind = "closed" /\ p # None
  BY <1>5 DEF ClosedRow, Happened
<1> HIDE DEF row, kind, said
<1>7. DOMAIN told' = Accounts \X Kinds \X Amounts
  BY <1>3 DEF ImportInv
<1>8. ClosedRow(a, row) => told'[<<a, "closed", row.cash>>] = p
  <2> SUFFICES ASSUME ClosedRow(a, row) PROVE told'[<<a, "closed", said.cash>>] = p
    BY <1>5
  <2>1. kind = "closed" /\ p # None /\ kind # None
    BY <1>6, PortfolioAssumption
  <2>2. told' = [told EXCEPT ![<<a, "closed", said.cash>>] = p]
    BY <1>3, <2>1
  <2>3. <<a, "closed", said.cash>> \in DOMAIN told
    BY <1>4 DEF ImportInv, Kinds
  <2> QED BY <2>2, <2>3
<1>9. \A b \in Accounts, c \in Amounts : b # a => told'[<<b, "closed", c>>] = told[<<b, "closed", c>>]
  <2> TAKE b \in Accounts, c \in Amounts
  <2> SUFFICES ASSUME b # a PROVE told'[<<b, "closed", c>>] = told[<<b, "closed", c>>]
    OBVIOUS
  <2>1. <<b, "closed", c>> # <<a, kind, said.cash>>
    OBVIOUS
  <2> QED BY <1>3, <2>1 DEF ImportInv
<1> DEFINE new == Put(job[r].seen, a, row)
<1>10. Others(r) /\ Held(job'[r], "import", f, new, job[r].todo \ {a})
  BY <1>3, LocalSteps DEF Goes, ImportInv
<1>11. DOMAIN new = DOMAIN job[r].seen \cup {a} /\ new[a] = row /\ \A b \in DOMAIN job[r].seen : b # a => new[b] = job[r].seen[b]
  BY DEF Put
<1> HIDE DEF new, f
<1>12. job'[r].row = f /\ job'[r].seen = new /\ job'[r].todo = job[r].todo \ {a}
  BY <1>10 DEF Held
<1>13. ASSUME NEW b \in DOMAIN new
       PROVE  /\ new[b].cash \in Amounts
              /\ ClosedRow(b, new[b]) => told'[<<b, "closed", new[b].cash>>] = new[b].person
  <2>1. CASE b = a
    BY <1>3, <1>4, <1>5, <1>8, <1>11, <2>1 DEF ClosedRow
  <2>2. CASE b # a
    <3>1. b \in DOMAIN job[r].seen /\ new[b] = job[r].seen[b] /\ b \in Accounts
      BY <1>1, <1>11, <2>2 DEF WritesAreTold
    <3>2. /\ new[b].cash \in Amounts
          /\ ClosedRow(b, new[b]) => told[<<b, "closed", new[b].cash>>] = new[b].person
      BY <1>1, <3>1 DEF WritesAreTold
    <3>3. told'[<<b, "closed", new[b].cash>>] = told[<<b, "closed", new[b].cash>>]
      BY <1>9, <2>2, <3>1, <3>2
    <3> QED BY <1>3, <3>2, <3>3 DEF ClosedRow
  <2> QED BY <2>1, <2>2
<1>14. WritesAreTold(r)'
  <2>1. f \in Exports /\ job[r].todo \subseteq DOMAIN Accountings[f] /\ DOMAIN new \subseteq Accounts
    BY <1>1, <1>11 DEF WritesAreTold, f
  <2>2. UNCHANGED books
    BY <1>3
  <2> QED BY <1>12, <1>13, <2>1, <2>2 DEF WritesAreTold, ClosedRow
<1>15. \A q \in Requests : Importing(q)' => q = r
  BY <1>1, <1>10 DEF Others, Importing, Serves
<1> QED BY <1>3, <1>7, <1>10, <1>14, <1>15 DEF ImportInv, Others

LEMMA ImportEnds ==
  ASSUME ImportInv, NEW r \in Requests, ImportCommit(r) \/ PortfolioCrash(r)
  PROVE  ImportInv'
<1>1. Others(r) /\ job'[r].at = "idle" /\ UNCHANGED told
  BY EndSteps DEF ImportInv, ImportCommit, PortfolioCrash, Dies
<1>2. \A q \in Requests : Importing(q)' => Importing(q) /\ job'[q] = job[q] /\ q # r
  BY <1>1 DEF Others, Importing, Serves
<1>3. DOMAIN books' = Accounts
  BY DEF ImportInv, ImportCommit, PortfolioCrash
<1>4. CASE ImportCommit(r)
  <2>1. \A q \in Requests : ~Importing(q)'
    BY <1>2, <1>4 DEF ImportInv, ImportCommit
  <2> QED BY <1>1, <1>3, <2>1 DEF ImportInv, Others
<1>5. CASE PortfolioCrash(r)
  <2>1. UNCHANGED books
    BY <1>5 DEF PortfolioCrash
  <2>2. ASSUME NEW q \in Requests, Importing(q)' PROVE WritesAreTold(q)'
    <3>1. WritesAreTold(q) /\ job'[q] = job[q]
      BY <1>2, <2>2 DEF ImportInv
    <3> QED BY <1>1, <2>1, <3>1 DEF WritesAreTold, ClosedRow
  <2> QED BY <1>1, <1>2, <1>3, <2>2 DEF ImportInv, Others
<1> QED BY <1>4, <1>5

LEMMA ImportSteps == ImportInv /\ [PortfolioNext]_portfolioVars => ImportInv'
<1> SUFFICES ASSUME ImportInv, [PortfolioNext]_portfolioVars PROVE ImportInv'
  OBVIOUS
<1>1. CASE (\E p \in Owners, m \in Mailboxes \cup {None} : EditMail(p, m)) \/ UNCHANGED portfolioVars
  <2>1. UNCHANGED <<job, told, books>>
    BY <1>1 DEF EditMail, Serve, portfolioVars, requestVars
  <2> QED BY <2>1, ImportsStay DEF ImportInv
<1> QED BY <1>1, ListStep, StartStep, AccountStep, ImportEnds DEF PortfolioNext

\* An import that closes an account has told its owner so (import_portfolio_file), for any lists and amounts.
THEOREM OwnersAreTold == PortfolioSpec => ClosureIsTold
<1> DEFINE Step ==
      \A a \in Accounts :
        runs' # runs /\ books[a] # None /\ books'[a] # books[a] /\ books'[a].person # None
        /\ books[a].status # "closed" /\ books'[a].status = "closed"
        => told[<<a, "closed", books'[a].cash>>] = books'[a].person
<1>1. ImportInv /\ [PortfolioNext]_portfolioVars => [Step]_portfolioVars
  <2> SUFFICES ASSUME ImportInv, PortfolioNext, runs' # runs,
                      NEW a \in Accounts, books[a] # None, books'[a] # books[a], books'[a].person # None,
                      books[a].status # "closed", books'[a].status = "closed"
               PROVE  told[<<a, "closed", books'[a].cash>>] = books'[a].person
    OBVIOUS
  <2>1. PICK r \in Requests : ImportCommit(r)
    BY DEF PortfolioNext, EditMail, ListAccounts, ImportStart, ImportAccount, PortfolioCrash
  <2>2. WritesAreTold(r)
    BY <2>1 DEF ImportInv, ImportCommit
  <2>3. a \in DOMAIN job[r].seen /\ books'[a] = job[r].seen[a]
    BY <2>1 DEF ImportCommit, ImportInv
  <2> QED BY <2>2, <2>3 DEF WritesAreTold, ClosedRow
<1> QED BY <1>1, ImportBegins, ImportSteps, PTL DEF PortfolioSpec, ClosureIsTold

----------------------------------------------------------------------------
(* Contacts and persons *)

\* The pairs of a plan are numbered: every number has one, and no two share one.
LEMMA Numbered ==
  ASSUME NEW S, S \subseteq Nat, IsFiniteSet(S)
  PROVE  \A n \in 1..Cardinality(S) : Nth(S, n) \in S /\ Cardinality({j \in S : j < Nth(S, n)}) = n - 1
<1> DEFINE Below(k) == {j \in S : j < k}
           C == Cardinality(S)
           f == [k \in S |-> Cardinality(Below(k)) + 1]
<1>1. C \in Nat
  BY FS_CardinalityType
<1>2. ASSUME NEW k \in S PROVE IsFiniteSet(Below(k)) /\ Cardinality(Below(k)) \in Nat /\ Cardinality(Below(k)) < C
  <2>1. Below(k) \in SUBSET S /\ k \notin Below(k)
    OBVIOUS
  <2> HIDE DEF Below
  <2>2. IsFiniteSet(Below(k)) /\ Cardinality(Below(k)) <= C /\ Cardinality(Below(k)) # C
    BY <2>1, FS_Subset
  <2>3. Cardinality(Below(k)) \in Nat
    BY <2>2, FS_CardinalityType
  <2> QED BY <1>1, <2>2, <2>3
<1>3. ASSUME NEW j \in S, NEW k \in S, j < k PROVE Cardinality(Below(j)) < Cardinality(Below(k))
  <2>1. Below(j) \in SUBSET Below(k) /\ j \in Below(k) /\ j \notin Below(j)
    <3>1. \A i \in S : i < j => i < k
      <4>1. j \in Nat /\ k \in Nat /\ \A i \in S : i \in Nat
        OBVIOUS
      <4> QED BY <1>3, <4>1
    <3>2. j \in Nat
      OBVIOUS
    <3>3. Below(j) \in SUBSET Below(k)
      BY <3>1
    <3>4. j \in Below(k)
      BY <1>3
    <3>5. j \notin Below(j)
      BY <3>2
    <3> QED BY <3>3, <3>4, <3>5
  <2> HIDE DEF Below
  <2>2. Cardinality(Below(j)) <= Cardinality(Below(k)) /\ Cardinality(Below(j)) # Cardinality(Below(k))
    BY <1>2, <2>1, FS_Subset
  <2> QED BY <1>2, <2>2
<1> HIDE DEF Below, C
<1>4. f \in Injection(S, 1..C)
  <2>1. f \in [S -> 1..C]
    BY <1>1, <1>2
  <2>2. ASSUME NEW j \in S, NEW k \in S, f[j] = f[k] PROVE j = k
    <3>1. Cardinality(Below(j)) = Cardinality(Below(k))
      BY <1>2, <2>2
    <3>2. ~(j < k) /\ ~(k < j)
      BY <1>2, <1>3, <3>1
    <3>3. j \in Nat /\ k \in Nat
      OBVIOUS
    <3> QED BY <3>2, <3>3
  <2> QED BY <2>1, <2>2 DEF Injection, IsInjective
<1>5. IsFiniteSet(1..C) /\ Cardinality(1..C) = C
  BY <1>1, FS_Interval
<1>6. f \in Surjection(S, 1..C)
  BY <1>4, <1>5, FS_Injection DEF C
<1>7. ASSUME NEW n \in 1..C PROVE \E k \in S : Cardinality(Below(k)) = n - 1
  <2>1. PICK k \in S : f[k] = n
    BY <1>6 DEF Surjection
  <2> QED BY <1>1, <1>2, <2>1
<1> QED BY <1>7 DEF Nth, C, Below

\* A set of which two elements differ has more than one.
LEMMA MoreThanOne ==
  ASSUME NEW S, IsFiniteSet(S), NEW x \in S, NEW y \in S, x # y
  PROVE  Cardinality(S) > 1
<1>1. Cardinality(S) \in Nat /\ Cardinality(S) # 0 /\ Cardinality(S) # 1
  <2>1. Cardinality(S) \in Nat
    BY FS_CardinalityType
  <2>2. Cardinality(S) # 0
    BY FS_EmptySet
  <2>3. Cardinality(S) # 1
    BY FS_Singleton
  <2> QED BY <2>1, <2>2, <2>3
<1> QED BY <1>1

LEMMA AtMostOne ==
  ASSUME NEW S, \A x, y \in S : x = y
  PROVE  Cardinality(S) <= 1
<1>1. CASE S = {}
  BY <1>1, FS_EmptySet
<1>2. ASSUME NEW x \in S PROVE Cardinality(S) <= 1
  <2>1. S = {x}
    BY <1>2
  <2>2. Cardinality({x}) = 1
    BY FS_Singleton
  <2> QED BY <2>1, <2>2
<1> QED BY <1>1, <1>2

----------------------------------------------------------------------------
Merged(g) == \E p \in 1..persons : \A c \in g : <<p, c>> \in links

PlanRows == plan \in Seq(SUBSET Contacts) /\ \A i, j \in DOMAIN plan : plan[i] = plan[j] => i = j

MatchRows ==
  /\ DOMAIN decisions = SUBSET Contacts
  /\ persons \in Nat /\ links \subseteq (1..persons) \X Contacts
  /\ \A g \in SUBSET Contacts : decisions[g] = "approved" => Merged(g)

\* What a request that decides has found.
DecidesWell(r) ==
  /\ Serves(r, "page") => job[r].row \in Nat \ {0}
  /\ Deciding(r) => job[r].row.group \in SUBSET Contacts
  /\ Serves(r, "link") => job[r].seen \in {None} \cup 1..persons
  /\ Serves(r, "decide") /\ job[r].row.decision = "approved" => Merged(job[r].row.group)

\* As long as one decision follows another, ...
InTurn ==
  /\ \A r, q \in Requests : Deciding(r) /\ Deciding(q) => r = q
  /\ \A l, k \in links : l[2] = k[2] => l[1] = k[1]
  /\ \A r \in Requests : Serves(r, "link") => \A l \in links : l[2] \in job[r].row.group => l[1] = job[r].seen

IdentityInv ==
  /\ Threads /\ PlanRows /\ MatchRows /\ (\A r \in Requests : DecidesWell(r))
  /\ alone \in BOOLEAN /\ (alone => InTurn)

LEMMA IdentityStart == IdentityInit => IdentityInv
<1> SUFFICES ASSUME IdentityInit PROVE IdentityInv
  OBVIOUS
<1>1. Threads /\ \A r \in Requests : job[r].at = "idle"
  BY DEF IdentityInit, RequestInit, Idle, Threads
<1>2. PlanRows
  BY DEF IdentityInit, PlanRows
<1>3. MatchRows
  BY MatchingAssumption DEF IdentityInit, MatchRows
<1>4. \A r \in Requests : DecidesWell(r)
  BY <1>1 DEF DecidesWell, Deciding, Serves
<1>5. alone \in BOOLEAN /\ InTurn
  BY <1>1 DEF IdentityInit, InTurn, Deciding, Serves
<1> QED BY <1>1, <1>2, <1>3, <1>4, <1>5 DEF IdentityInv

\* A plan lists every group once.
LEMMA PlanStep == ASSUME IdentityInv, MakePlan PROVE IdentityInv'
<1>1. \A k, j \in PlannedKeys : Sharing(k) = Sharing(j) => k = j
  <2> SUFFICES ASSUME NEW k \in PlannedKeys, NEW j \in PlannedKeys, Sharing(k) = Sharing(j) PROVE k = j
    OBVIOUS
  <2>1. Sharing(k) # {}
    <3>1. SUFFICES ASSUME Sharing(k) = {} PROVE FALSE
      OBVIOUS
    <3>2. Systems(Sharing(k)) = {}
      BY <3>1 DEF Systems
    <3> QED BY <3>2, FS_EmptySet DEF PlannedKeys
  <2> QED BY <2>1 DEF Sharing
<1>2. PlannedKeys \subseteq Nat /\ IsFiniteSet(PlannedKeys)
  BY MatchingAssumption, FS_Subset DEF PlannedKeys
<1>3. Cardinality(PlannedKeys) \in Nat
  BY <1>2, FS_CardinalityType
<1> DEFINE Rank(k) == Cardinality({j \in PlannedKeys : j < k})
<1>4. \A n \in 1..Cardinality(PlannedKeys) :
        Nth(PlannedKeys, n) \in PlannedKeys /\ Rank(Nth(PlannedKeys, n)) = n - 1
  BY <1>2, Numbered
<1> HIDE DEF Rank
<1>5. Planned \in Seq(SUBSET Contacts) /\ DOMAIN Planned = 1..Cardinality(PlannedKeys)
      /\ \A n \in DOMAIN Planned : Planned[n] = Sharing(Nth(PlannedKeys, n))
  BY <1>3 DEF Planned, Sharing
<1>6. ASSUME NEW m \in DOMAIN Planned, NEW n \in DOMAIN Planned, Planned[m] = Planned[n] PROVE m = n
  <2>1. Nth(PlannedKeys, m) = Nth(PlannedKeys, n)
    BY <1>1, <1>4, <1>5, <1>6
  <2>2. m - 1 = n - 1 /\ m \in Int /\ n \in Int
    BY <1>3, <1>4, <1>5, <2>1
  <2> QED BY <2>2
<1>7. PlanRows'
  BY <1>5, <1>6 DEF MakePlan, PlanRows
<1>8. UNCHANGED <<job, decisions, persons, links, alone>>
  BY DEF MakePlan, Serve
<1> QED BY <1>7, <1>8 DEF IdentityInv, Threads, MatchRows, Merged, DecidesWell, InTurn, Deciding, Serves

LEMMA RestStays ==
  ASSUME IdentityInv, UNCHANGED <<plan, decisions, persons, links, alone, job>>
  PROVE  IdentityInv'
<1>1. PlanRows' /\ MatchRows' /\ Threads'
  BY DEF IdentityInv, PlanRows, MatchRows, Merged, Threads
<1>2. \A r \in Requests : DecidesWell(r)'
  BY DEF IdentityInv, DecidesWell, Merged, Deciding, Serves
<1>3. alone => InTurn'
  BY DEF IdentityInv, InTurn, Deciding, Serves
<1> QED BY <1>1, <1>2, <1>3 DEF IdentityInv

LEMMA MergedStays ==
  ASSUME NEW g, Merged(g), persons \in Nat, persons' \in Nat, persons <= persons', links \subseteq links'
  PROVE  Merged(g)'
BY DEF Merged

\* The requests that a step does not belong to go on as they were.
LEMMA OthersDecideWell ==
  ASSUME NEW q \in Requests, DecidesWell(q), job'[q] = job[q],
         persons \in Nat, persons' \in Nat, persons <= persons', links \subseteq links'
  PROVE  DecidesWell(q)'
<1>1. Serves(q, "decide") /\ job[q].row.decision = "approved" => Merged(job[q].row.group)'
  BY MergedStays DEF DecidesWell
<1> QED BY <1>1 DEF DecidesWell, Deciding, Serves, Merged

LEMMA ShowStep == ASSUME IdentityInv, NEW r \in Requests, NEW n \in DOMAIN plan, ShowGroup(r, n) PROVE IdentityInv'
<1>1. Threads /\ PlanRows /\ MatchRows /\ n \in Nat \ {0}
  BY DEF IdentityInv, PlanRows
<1>2. UNCHANGED <<plan, decisions, persons, links, alone>> /\ Starts(r, "page", n, plan[n], {})
  BY DEF ShowGroup
<1>3. Others(r) /\ Held(job'[r], "page", n, plan[n], {})
  BY <1>1, <1>2, LocalSteps DEF Starts
<1>4. job'[r].at = "page" /\ job'[r].row = n
  BY <1>3 DEF Held
<1>5. DecidesWell(r)'
  BY <1>1, <1>4 DEF DecidesWell, Deciding, Serves
<1>6. ASSUME NEW q \in Requests PROVE DecidesWell(q)'
  <2>1. CASE q # r
    BY <1>1, <1>2, <1>3, <2>1, OthersDecideWell DEF Others, IdentityInv, MatchRows
  <2> QED BY <1>5, <2>1
<1>7. alone => InTurn'
  BY <1>2, <1>3, <1>4 DEF IdentityInv, InTurn, Others, Deciding, Serves
<1> QED BY <1>1, <1>2, <1>3, <1>6, <1>7 DEF IdentityInv, PlanRows, MatchRows, Merged, Others

LEMMA DecideReads ==
  ASSUME IdentityInv, NEW r \in Requests, NEW d \in {"approved", "rejected", "skipped"}, DecideRead(r, d)
  PROVE  IdentityInv'
<1>1. Threads /\ PlanRows /\ MatchRows /\ DecidesWell(r)
  BY DEF IdentityInv
<1>2. /\ UNCHANGED <<plan, decisions, persons, links>> /\ job[r].at = "page"
      /\ alone' = (alone /\ \A q \in Requests : ~Deciding(q))
  BY DEF DecideRead, Serves
<1> DEFINE n == job[r].row
           row == [group |-> plan[n], decision |-> d]
           place == IF d = "approved" THEN "merge" ELSE "decide"
<1>3. (Goes(r, place, row, None, {}) /\ n <= Len(plan)) \/ Ends(r)
  BY DEF DecideRead
<1>4. n \in Nat \ {0}
  BY <1>1, <1>2 DEF DecidesWell, Serves
<1>5. row.group = plan[n] /\ row.decision = d
  OBVIOUS
<1>6. ASSUME Others(r), DecidesWell(r)', job'[r].at # "link" PROVE IdentityInv'
  <2>1. ASSUME NEW q \in Requests PROVE DecidesWell(q)'
    <3>1. CASE q # r
      BY <1>1, <1>2, <1>6, <3>1, OthersDecideWell DEF Others, IdentityInv, MatchRows
    <3> QED BY <1>6, <3>1
  <2>2. alone' => InTurn'
    <3>1. SUFFICES ASSUME alone' PROVE InTurn'
      OBVIOUS
    <3>2. InTurn /\ \A q \in Requests : ~Deciding(q)
      BY <1>2, <3>1 DEF IdentityInv
    <3>3. \A q \in Requests : Deciding(q)' => q = r
      BY <1>6, <3>2 DEF Others, Deciding
    <3>4. \A q \in Requests : ~Serves(q, "link")'
      BY <1>6, <3>2 DEF Others, Deciding, Serves
    <3> QED BY <1>2, <3>2, <3>3, <3>4 DEF InTurn
  <2> QED BY <1>1, <1>2, <1>6, <2>1, <2>2 DEF IdentityInv, PlanRows, MatchRows, Merged, Others
<1> HIDE DEF row, place
<1>7. CASE Ends(r)
  <2>1. Others(r) /\ job'[r].at = "idle"
    BY <1>1, <1>7, EndSteps
  <2> QED BY <1>6, <2>1 DEF DecidesWell, Deciding, Serves
<1>8. CASE Goes(r, place, row, None, {}) /\ n <= Len(plan)
  <2>1. Others(r) /\ Held(job'[r], place, row, None, {})
    BY <1>1, <1>8, LocalSteps DEF Goes
  <2>2. plan[n] \in SUBSET Contacts
    BY <1>1, <1>4, <1>8 DEF PlanRows
  <2>3. job'[r].at = place /\ job'[r].row = row
    BY <2>1 DEF Held
  <2>4. DecidesWell(r)' /\ job'[r].at # "link"
    BY <1>5, <2>2, <2>3 DEF DecidesWell, Deciding, Serves, place
  <2> QED BY <1>6, <2>1, <2>4
<1> QED BY <1>3, <1>7, <1>8

LEMMA MergeReads == ASSUME IdentityInv, NEW r \in Requests, MergeRead(r) PROVE IdentityInv'
<1>1. Threads /\ PlanRows /\ MatchRows /\ DecidesWell(r) /\ UNCHANGED <<plan, decisions, persons, links, alone>>
      /\ job[r].at = "merge"
  BY DEF IdentityInv, MergeRead, Serves
<1> DEFINE g == job[r].row.group
           known == {l[1] : l \in {l \in links : l[2] \in g}}
<1>2. \/ known = {} /\ Goes(r, "link", job[r].row, None, {})
      \/ Ends(r)
      \/ known # {} /\ Cardinality(known) <= 1 /\ \E p \in known : Goes(r, "link", job[r].row, p, {})
  <2>1. IF known = {} THEN Goes(r, "link", job[r].row, None, {})
        ELSE IF Existing(known) = {} THEN Ends(r)
        ELSE \E p \in Existing(known) : Goes(r, "link", job[r].row, p, {})
    BY DEF MergeRead
  <2>2. IsFiniteSet(known)
    <3>1. known \in SUBSET (1..persons)
      BY <1>1 DEF MatchRows
    <3>2. IsFiniteSet(1..persons)
      BY <1>1, FS_Interval DEF MatchRows
    <3> QED BY <3>1, <3>2, FS_Subset
  <2> HIDE DEF known
  <2>3. Existing(known) # {} => Existing(known) = known /\ Cardinality(known) <= 1
    <3>1. Cardinality(known) \in Nat
      BY <2>2, FS_CardinalityType
    <3> QED BY <3>1 DEF Existing
  <2> QED BY <2>1, <2>3
<1>3. g \in SUBSET Contacts
  BY <1>1 DEF DecidesWell, Deciding
<1>4. ASSUME Others(r), DecidesWell(r)',
             Deciding(r)' /\ alone => \A l \in links : l[2] \in job'[r].row.group => l[1] = job'[r].seen
      PROVE  IdentityInv'
  <2>1. ASSUME NEW q \in Requests PROVE DecidesWell(q)'
    <3>1. CASE q # r
      BY <1>1, <1>4, <3>1, OthersDecideWell DEF Others, IdentityInv, MatchRows
    <3> QED BY <1>4, <3>1
  <2>2. alone => InTurn'
    <3>1. SUFFICES ASSUME alone PROVE InTurn'
      OBVIOUS
    <3>2. InTurn /\ Deciding(r)
      BY <1>1, <3>1 DEF IdentityInv, Deciding
    <3>3. \A q \in Requests : Deciding(q)' => q = r
      BY <1>4, <3>2 DEF Others, Deciding, InTurn
    <3>4. \A q \in Requests : Serves(q, "link")' => q = r
      BY <3>3 DEF Deciding, Serves
    <3> QED BY <1>1, <1>4, <3>1, <3>2, <3>3, <3>4 DEF InTurn, Deciding, Serves
  <2> QED BY <1>1, <1>4, <2>1, <2>2 DEF IdentityInv, PlanRows, MatchRows, Merged, Others
<1>5. ASSUME NEW p, Goes(r, "link", job[r].row, p, {}), p \in {None} \cup 1..persons,
             alone => \A l \in links : l[2] \in g => l[1] = p
      PROVE  IdentityInv'
  <2>1. Others(r) /\ Held(job'[r], "link", job[r].row, p, {})
    BY <1>1, <1>5, LocalSteps DEF Goes
  <2>2. job'[r].at = "link" /\ job'[r].row = job[r].row /\ job'[r].seen = p
    BY <2>1 DEF Held
  <2>3. DecidesWell(r)'
    BY <1>1, <1>3, <1>5, <2>2 DEF DecidesWell, Deciding, Serves
  <2> QED BY <1>4, <1>5, <2>1, <2>2, <2>3
<1>6. CASE known = {} /\ Goes(r, "link", job[r].row, None, {})
  <2>1. \A l \in links : l[2] \notin g
    BY <1>6
  <2> QED BY <1>5, <1>6, <2>1
<1>7. CASE Ends(r)
  <2>1. Others(r) /\ job'[r].at = "idle"
    BY <1>1, <1>7, EndSteps
  <2>2. DecidesWell(r)' /\ ~Deciding(r)'
    BY <2>1 DEF DecidesWell, Deciding, Serves
  <2> QED BY <1>4, <2>1, <2>2
<1>8. ASSUME NEW p \in known, Cardinality(known) <= 1, Goes(r, "link", job[r].row, p, {}) PROVE IdentityInv'
  <2>0. known \in SUBSET (1..persons)
    BY <1>1 DEF MatchRows
  <2>1. known \in SUBSET (1..persons) /\ IsFiniteSet(1..persons)
    BY SMTT(40), <1>1, <2>0, FS_Interval DEF MatchRows
  <2>2. \A x \in known : x = p
    <3> HIDE DEF known
    <3>1. SUFFICES ASSUME NEW x \in known, x # p PROVE FALSE
      OBVIOUS
    <3>2. IsFiniteSet(known)
      BY <2>1, FS_Subset
    <3>3. Cardinality(known) > 1 /\ Cardinality(known) \in Nat
      BY <1>8, <3>1, <3>2, MoreThanOne, FS_CardinalityType
    <3> QED BY <1>8, <3>3
  <2>3. \A l \in links : l[2] \in g => l[1] = p
    BY <2>2
  <2> QED BY <1>5, <1>8, <2>1, <2>3
<1> QED BY <1>2, <1>6, <1>7, <1>8

LEMMA MergeWrites == ASSUME IdentityInv, NEW r \in Requests, MergeWrite(r) PROVE IdentityInv'
<1>1. /\ Threads /\ PlanRows /\ MatchRows /\ DecidesWell(r) /\ UNCHANGED <<plan, decisions, alone>>
      /\ job[r].at = "link" /\ Goes(r, "decide", job[r].row, None, {})
  BY DEF IdentityInv, MergeWrite, Serves
<1> DEFINE g == job[r].row.group
           p == IF job[r].seen = None THEN persons + 1 ELSE job[r].seen
<1>2. /\ persons' = (IF job[r].seen = None THEN p ELSE persons)
      /\ links' = links \cup ({p} \X g)
  BY DEF MergeWrite, NewLinks
<1>3. g \in SUBSET Contacts /\ job[r].seen \in {None} \cup 1..persons
  BY <1>1 DEF DecidesWell, Deciding, Serves
<1>4. persons \in Nat /\ links \subseteq (1..persons) \X Contacts
  BY <1>1 DEF MatchRows
<1>5. persons' \in Nat /\ persons <= persons' /\ p \in 1..persons' /\ links \subseteq links'
  BY <1>2, <1>3, <1>4
<1> HIDE DEF p
<1>6. links' \subseteq (1..persons') \X Contacts
  <2>1. 1..persons \subseteq 1..persons'
    BY <1>4, <1>5
  <2> QED BY <1>2, <1>3, <1>4, <1>5, <2>1
<1>7. \A c \in g : <<p, c>> \in links'
  BY <1>2
<1>8. Others(r) /\ Held(job'[r], "decide", job[r].row, None, {})
  BY <1>1, LocalSteps DEF Goes
<1>9. job'[r].at = "decide" /\ job'[r].row = job[r].row
  BY <1>8 DEF Held
<1>10. DecidesWell(r)'
  BY <1>3, <1>5, <1>7, <1>9 DEF DecidesWell, Deciding, Serves, Merged
<1>11. ASSUME NEW q \in Requests PROVE DecidesWell(q)'
  <2>1. CASE q # r
    BY <1>4, <1>5, <1>8, <2>1, OthersDecideWell DEF Others, IdentityInv
  <2> QED BY <1>10, <2>1
<1>12. MatchRows'
  BY <1>1, <1>4, <1>5, <1>6, MergedStays DEF MatchRows
<1>13. alone => InTurn'
  <2>1. SUFFICES ASSUME alone PROVE InTurn'
    OBVIOUS
  <2>2. InTurn /\ Deciding(r)
    BY <1>1, <2>1 DEF IdentityInv, Deciding
  <2>3. \A q, s \in Requests : Deciding(q)' /\ Deciding(s)' => q = s
    BY <1>1, <1>8, <1>9, <2>2 DEF Others, Deciding, InTurn
  <2>4. \A q \in Requests : ~Serves(q, "link")'
    BY <1>8, <1>9, <2>2 DEF Others, Deciding, InTurn, Serves
  <2>5. \A l \in links : l[2] \in g => l[1] = p
    <3>1. \A l \in links : l[2] \in g => l[1] = job[r].seen
      BY <1>1, <2>2 DEF InTurn, Serves
    <3>2. job[r].seen # None => p = job[r].seen
      BY DEF p
    <3>3. job[r].seen = None => \A l \in links : l[2] \notin g
      <4>1. SUFFICES ASSUME job[r].seen = None, NEW l \in links, l[2] \in g PROVE FALSE
        OBVIOUS
      <4>2. l[1] = None /\ l[1] \in Nat
        BY <1>4, <3>1, <4>1
      <4> QED BY <4>2, MatchingAssumption
    <3> QED BY <3>1, <3>2, <3>3
  <2>6. \A l, k \in links' : l[2] = k[2] => l[1] = k[1]
    <3> SUFFICES ASSUME NEW l \in links', NEW k \in links', l[2] = k[2] PROVE l[1] = k[1]
      OBVIOUS
    <3>1. \A x \in links' : x \in links \/ (x[1] = p /\ x[2] \in g)
      <4>1. SUFFICES ASSUME NEW x \in links', x \notin links PROVE x[1] = p /\ x[2] \in g
        OBVIOUS
      <4>2. x \in {p} \X g
        BY <1>2, <4>1
      <4> QED BY <4>2
    <3>2. \A x, y \in links : x[2] = y[2] => x[1] = y[1]
      BY <2>2 DEF InTurn
    <3> QED BY <2>5, <3>1, <3>2
  <2> QED BY <2>3, <2>4, <2>6 DEF InTurn
<1> QED BY <1>1, <1>8, <1>11, <1>12, <1>13 DEF IdentityInv, PlanRows, Others

LEMMA DecideEnds ==
  ASSUME IdentityInv, NEW r \in Requests, DecideWrite(r) \/ IdentityCrash(r)
  PROVE  IdentityInv'
<1>1. Threads /\ PlanRows /\ MatchRows /\ DecidesWell(r) /\ UNCHANGED <<plan, persons, links, alone>>
  BY DEF IdentityInv, DecideWrite, IdentityCrash
<1>2. Others(r) /\ job'[r].at = "idle"
  BY <1>1, EndSteps DEF DecideWrite, IdentityCrash, Dies
<1>3. ASSUME NEW q \in Requests PROVE DecidesWell(q)'
  <2>1. CASE q # r
    BY <1>1, <1>2, <2>1, OthersDecideWell DEF Others, IdentityInv, MatchRows
  <2>2. CASE q = r
    BY <1>2, <2>2 DEF DecidesWell, Deciding, Serves
  <2> QED BY <2>1, <2>2
<1>4. alone => InTurn'
  <2>1. \A q \in Requests : (Deciding(q)' => Deciding(q)) /\ (Serves(q, "link")' => Serves(q, "link") /\ job'[q] = job[q])
    BY <1>2 DEF Others, Deciding, Serves
  <2> QED BY <1>1, <2>1 DEF IdentityInv, InTurn
<1>5. MatchRows'
  <2>1. CASE IdentityCrash(r)
    BY <1>1, <2>1 DEF IdentityCrash, MatchRows, Merged
  <2>2. CASE DecideWrite(r)
    <3> DEFINE g == job[r].row.group
    <3>1. /\ job[r].at = "decide" /\ g \in SUBSET Contacts
          /\ decisions' = [decisions EXCEPT ![g] = job[r].row.decision]
      BY <1>1, <2>2 DEF DecideWrite, DecidesWell, Deciding, Serves
    <3>2. ASSUME NEW x \in SUBSET Contacts, decisions'[x] = "approved" PROVE Merged(x)
      <4>1. CASE x = g
        BY <1>1, <3>1, <3>2, <4>1 DEF DecidesWell, Serves, MatchRows
      <4>2. CASE x # g
        BY <1>1, <3>1, <3>2, <4>2 DEF MatchRows
      <4> QED BY <4>1, <4>2
    <3> QED BY <1>1, <3>1, <3>2 DEF MatchRows, Merged
  <2> QED BY <2>1, <2>2
<1> QED BY <1>1, <1>2, <1>3, <1>4, <1>5 DEF IdentityInv, PlanRows, Others

LEMMA IdentitySteps == IdentityInv /\ [IdentityNext]_identityVars => IdentityInv'
<1> SUFFICES ASSUME IdentityInv, [IdentityNext]_identityVars PROVE IdentityInv'
  OBVIOUS
<1>1. CASE ImportNext \/ UNCHANGED identityVars
  <2>1. UNCHANGED <<plan, decisions, persons, links, alone, job>>
    BY <1>1 DEF ImportNext, ImportContacts, ImportProfiles, ImportRows, Serve, identityVars, requestVars
  <2> QED BY <2>1, RestStays
<1> QED BY <1>1, PlanStep, ShowStep, DecideReads, MergeReads, MergeWrites, DecideEnds DEF IdentityNext

----------------------------------------------------------------------------
\* As many groups are pending as are listed.
LEMMA Counted == IdentityInv => PendingAgrees
<1> SUFFICES ASSUME IdentityInv PROVE PendingAgrees
  OBVIOUS
<1> DEFINE N == Len(plan)
           D == {n \in DOMAIN plan : decisions[plan[n]] # None}
           f == [n \in D |-> plan[n]]
<1>1. N \in Nat /\ DOMAIN plan = 1..N /\ PlanRows
  BY DEF IdentityInv, PlanRows
<1>2. IsFiniteSet(1..N) /\ Cardinality(1..N) = N
  <2> HIDE DEF N
  <2>1. IsFiniteSet(1..N) /\ Cardinality(1..N) = IF 1 > N THEN 0 ELSE N - 1 + 1
    BY <1>1, FS_Interval
  <2> QED BY <1>1, <2>1
<1>3. IsFiniteSet(D) /\ Cardinality(D) \in Nat
  BY <1>1, <1>2, FS_Subset, FS_CardinalityType
<1>4. f \in Bijection(D, DecidedGroups)
  <2>1. f \in [D -> DecidedGroups]
    BY DEF DecidedGroups
  <2>2. \A i, j \in D : f[i] = f[j] => i = j
    BY <1>1 DEF PlanRows
  <2>3. \A g \in DecidedGroups : \E n \in D : f[n] = g
    BY DEF DecidedGroups
  <2> QED BY <2>1, <2>2, <2>3 DEF Bijection, Injection, Surjection, IsInjective
<1>5. Cardinality(DecidedGroups) = Cardinality(D)
  BY <1>3, <1>4, FS_Bijection DEF ExistsBijection
<1>6. PendingListed \cup D = 1..N /\ PendingListed \cap D = {} /\ IsFiniteSet(PendingListed)
  <2>1. PendingListed \in SUBSET (1..N)
    BY <1>1 DEF PendingListed
  <2>2. IsFiniteSet(PendingListed)
    BY <1>2, <2>1, FS_Subset
  <2> QED BY <1>1, <2>2 DEF PendingListed
<1> HIDE DEF D, N
<1>7. N = Cardinality(PendingListed) + Cardinality(D) - 0
  <2>1. Cardinality(PendingListed \cup D) =
          Cardinality(PendingListed) + Cardinality(D) - Cardinality(PendingListed \cap D)
    BY <1>3, <1>6, FS_Union
  <2>2. Cardinality(PendingListed \cap D) = 0
    BY <1>6, FS_EmptySet
  <2> QED BY <1>2, <1>6, <2>1, <2>2
<1>8. Cardinality(PendingListed) \in Nat
  BY <1>6, FS_CardinalityType
<1> QED BY <1>1, <1>3, <1>5, <1>7, <1>8 DEF PendingAgrees, PendingCount, N

\* A group is called approved only once it is one person, no contact has two
\* people while decisions do not overlap, and the count of pending groups is
\* the length of the list, however often the plan is made anew (plan_matches,
\* merge_source_contacts): for any contacts, keys, names and requests.
THEOREM PlansHold == IdentitySpec => []DecisionsAgree
<1>1. IdentityInv => ApprovedIsMerged
  <2> SUFFICES ASSUME IdentityInv, NEW g \in SUBSET Contacts, decisions[g] = "approved"
               PROVE  \E p \in 1..persons : \A c \in g : p \in PersonsOf(c)
    BY DEF ApprovedIsMerged
  <2>1. PICK p \in 1..persons : \A c \in g : <<p, c>> \in links
    BY DEF IdentityInv, MatchRows, Merged
  <2>2. ASSUME NEW c \in g PROVE p \in PersonsOf(c)
    <3>1. <<p, c>> \in {l \in links : l[2] = c} /\ <<p, c>>[1] = p
      BY <2>1, <2>2
    <3> QED BY <3>1 DEF PersonsOf
  <2> QED BY <2>2
<1>2. IdentityInv => OnePerson
  <2> SUFFICES ASSUME IdentityInv, alone, NEW c \in Contacts PROVE Cardinality(PersonsOf(c)) <= 1
    BY DEF OnePerson
  <2>1. \A x, y \in PersonsOf(c) : x = y
    BY DEF IdentityInv, InTurn, PersonsOf
  <2> QED BY <2>1, AtMostOne
<1> QED BY <1>1, <1>2, Counted, IdentityStart, IdentitySteps, PTL DEF IdentitySpec, DecisionsAgree

----------------------------------------------------------------------------
(* Documents *)

\* A finite set of numbers has a least one.
LEMMA Least ==
  ASSUME NEW S, S \subseteq Nat, IsFiniteSet(S), S # {}
  PROVE  \E m \in S : \A o \in S : m <= o
<1>1. Cardinality(S) \in Nat /\ Cardinality(S) # 0
  BY FS_CardinalityType, FS_EmptySet
<1>2. 1 \in 1..Cardinality(S)
  BY <1>1
<1>0. \A n \in 1..Cardinality(S) : Nth(S, n) \in S /\ Cardinality({j \in S : j < Nth(S, n)}) = n - 1
  BY Numbered
<1>3. PICK k : k \in S /\ Cardinality({j \in S : j < k}) = 0
  <2> DEFINE B(x) == Cardinality({j \in S : j < x})
  <2>1. \A n \in 1..Cardinality(S) : Nth(S, n) \in S /\ B(Nth(S, n)) = n - 1
    BY <1>0
  <2> HIDE DEF B
  <2>2. Nth(S, 1) \in S /\ B(Nth(S, 1)) = 0
    BY <1>2, <2>1
  <2> QED BY <2>2 DEF B
<1>4. IsFiniteSet({j \in S : j < k})
  BY FS_Subset
<1>5. {j \in S : j < k} = {}
  BY <1>3, <1>4, FS_EmptySet
<1>6. ASSUME NEW o \in S PROVE k <= o
  <2>1. ~(o < k) /\ o \in Nat /\ k \in Nat
    BY <1>3, <1>5
  <2> QED BY <2>1
<1> QED BY <1>3, <1>6

\* The last change of an item among the first ones of the drive.
IsLast(i, n, upto) == n \in 1..upto /\ log[n].item = i /\ \A m \in n+1..upto : log[m].item # i

OwnersOf == Persons \cup {None}
DocumentRows == [person : OwnersOf, status : {"pending", "matched", "ignored"}, deleted : BOOLEAN]

DocumentTypes ==
  /\ log \in Seq([item : Items, deleted : BOOLEAN])
  /\ matches \in [Items -> OwnersOf] /\ timeline \in [Items -> OwnersOf]
  /\ documents \in [Items -> DocumentRows \cup {None}]
  /\ link \in 0..Len(log)

\* An item that has changed has a last change.
LastChanges == \A i \in Items : (\A n \in 1..Len(log) : log[n].item # i) \/ \E n : IsLast(i, n, Len(log))

\* What a thread carries from one of its transactions to the next.
Errand(r) ==
  /\ Syncing(r) => job[r].seen \in [Items -> OwnersOf]
  /\ job[r].at \in {"store", "publish"} =>
       /\ job[r].row \in [upto : 0..Len(log), change : (1..Len(log)) \cup {None}]
       /\ \A n \in job[r].todo : n \in 1..job[r].row.upto /\ IsLast(log[n].item, n, job[r].row.upto)
  /\ Serves(r, "publish") => job[r].row.change \in 1..Len(log) /\ job[r].seen[log[job[r].row.change].item] # None
  /\ job[r].at \in {"review", "reviewed"} =>
       job[r].row \in Items /\ documents[job[r].row] # None /\ job[r].seen \in Persons
  /\ Serves(r, "reviewed") => timeline[job[r].row] # None

\* The items whose last change is among the first ones and not to be done are
\* stored as it left them.
Settled(upto, todo) ==
  \A i \in Items, n \in 1..upto :
    n \notin todo /\ IsLast(i, n, Len(log)) => (Shown(i) <=> ~log[n].deleted)

\* A sync that runs alone has done what it has not to do.
Alone(r) ==
  job[r].at \in {"store", "publish"} =>
    /\ \A n \in job[r].todo : n > link
    /\ Settled(job[r].row.upto, job[r].todo)

Apart ==
  apart =>
    /\ \A q, r \in Requests : Syncing(q) /\ Syncing(r) => q = r
    /\ Settled(link, {})
    /\ \A r \in Requests : Alone(r)

DocumentInv ==
  Threads /\ DocumentTypes /\ LastChanges /\ (\A r \in Requests : Errand(r)) /\ Apart /\ PersonShown

LEMMA DocumentStart == DocumentInit => DocumentInv
<1> SUFFICES ASSUME DocumentInit PROVE DocumentInv
  OBVIOUS
<1>1. Threads /\ \A r \in Requests : job[r].at = "idle"
  BY DEF DocumentInit, RequestInit, Idle, Threads
<1>2. log = <<>> /\ Len(log) = 0 /\ link = 0 /\ documents = [i \in Items |-> None]
  BY DEF DocumentInit
<1>3. DocumentTypes
  BY <1>2 DEF DocumentInit, DocumentTypes, OwnersOf
<1>4. LastChanges
  BY <1>2 DEF LastChanges
<1>5. \A r \in Requests : Errand(r)
  BY <1>1 DEF Errand, Syncing, Serves
<1>6. Apart
  BY <1>1, <1>2 DEF Apart, Syncing, Alone, Settled
<1>7. PersonShown
  BY <1>2 DEF PersonShown
<1> QED BY <1>1, <1>3, <1>4, <1>5, <1>6, <1>7 DEF DocumentInv

\* The last change of an item is the one that LastChange gives.
LEMMA LastOne ==
  ASSUME DocumentTypes, LastChanges, NEW i \in Items, NEW n \in 1..Len(log)
  PROVE  n = LastChange(i, Len(log)) <=> IsLast(i, n, Len(log))
<1>1. Len(log) \in Nat
  BY DEF DocumentTypes
<1>2. ASSUME NEW m, NEW o, IsLast(i, m, Len(log)), IsLast(i, o, Len(log)) PROVE m = o
  <2>1. m \in Nat /\ o \in Nat /\ ~(m < o) /\ ~(o < m)
    BY <1>1, <1>2 DEF IsLast
  <2> QED BY <2>1
<1>3. CASE \A m \in 1..Len(log) : log[m].item # i
  BY <1>1, <1>3 DEF LastChange, IsLast
<1>4. CASE \E m : IsLast(i, m, Len(log))
  <2>1. PICK m : IsLast(i, m, Len(log))
    BY <1>4
  <2>2. m \in 1..Len(log) /\ log[m].item = i /\ \A o \in m+1..Len(log) : log[o].item # i
    BY <2>1 DEF IsLast
  <2> DEFINE c == CHOOSE k \in 1..Len(log) : log[k].item = i /\ \A o \in k+1..Len(log) : log[o].item # i
  <2>3. c \in 1..Len(log) /\ log[c].item = i /\ \A o \in c+1..Len(log) : log[o].item # i
    BY <2>2
  <2>4. LastChange(i, Len(log)) = c
    BY <2>2 DEF LastChange
  <2>5. IsLast(i, c, Len(log))
    BY <2>3 DEF IsLast
  <2> HIDE DEF c
  <2> QED BY <1>2, <2>4, <2>5
<1> QED BY <1>3, <1>4 DEF LastChanges

\* A step that leaves the drive, its link and what is shown as they are.
Quiet ==
  /\ UNCHANGED <<log, link, matches>>
  /\ documents' \in [Items -> DocumentRows \cup {None}]
  /\ timeline' \in [Items -> OwnersOf]
  /\ \A i \in Items : (documents[i] # None => documents'[i] # None) /\ (timeline[i] # None => timeline'[i] # None)

LEMMA ErrandsStay ==
  ASSUME Quiet, NEW q \in Requests, Errand(q), job'[q] = job[q]
  PROVE  Errand(q)'
BY DEF Quiet, Errand, Syncing, Serves, IsLast

LEMMA ErrandsOfOthers ==
  ASSUME DocumentInv, Quiet, NEW r \in Requests, Others(r), Errand(r)'
  PROVE  \A q \in Requests : Errand(q)'
<1> TAKE q \in Requests
<1>1. CASE q # r
  BY <1>1, ErrandsStay DEF Others, DocumentInv
<1> QED BY <1>1

LEMMA TypesStay ==
  ASSUME DocumentInv, Quiet PROVE DocumentTypes' /\ LastChanges'
BY DEF DocumentInv, Quiet, DocumentTypes, LastChanges, IsLast

LEMMA SettledStays ==
  ASSUME UNCHANGED log, \A i \in Items : Shown(i)' <=> Shown(i), NEW upto, NEW todo, Settled(upto, todo)
  PROVE  Settled(upto, todo)'
BY DEF Settled, IsLast

\* A step of one thread that shows what was shown and syncs nothing.
LEMMA ApartStays ==
  ASSUME DocumentInv, NEW r \in Requests, Others(r), UNCHANGED <<log, link, apart>>,
         \A i \in Items : Shown(i)' <=> Shown(i),
         Syncing(r)' => Syncing(r),
         job'[r].at \in {"store", "publish"} =>
           /\ job[r].at \in {"store", "publish"}
           /\ job'[r].todo = job[r].todo /\ job'[r].row.upto = job[r].row.upto
  PROVE  Apart'
<1> SUFFICES ASSUME apart PROVE Apart'
  BY DEF Apart
<1>1. \A q \in Requests : Syncing(q)' => Syncing(q)
  BY DEF Others, Syncing
<1>2. Settled(link, {})'
  BY SettledStays DEF DocumentInv, Apart
<1>3. ASSUME NEW q \in Requests PROVE Alone(q)'
  <2> SUFFICES ASSUME job'[q].at \in {"store", "publish"} PROVE Alone(q)'
    BY DEF Alone
  <2>1. job[q].at \in {"store", "publish"} /\ job'[q].todo = job[q].todo /\ job'[q].row.upto = job[q].row.upto
    BY DEF Others
  <2>2. Settled(job[q].row.upto, job[q].todo)
    BY <2>1 DEF DocumentInv, Apart, Alone
  <2>3. Settled(job[q].row.upto, job[q].todo)'
    <3> DEFINE u == job[q].row.upto
               t == job[q].todo
    <3> HIDE DEF u, t
    <3>1. u' = u /\ t' = t
      BY <2>1 DEF u, t
    <3>2. Settled(u, t)
      BY <2>2 DEF u, t
    <3> QED BY <3>1, <3>2 DEF u, t, Settled, IsLast
  <2> QED BY <2>1, <2>3 DEF DocumentInv, Apart, Alone
<1> QED BY <1>1, <1>2, <1>3 DEF DocumentInv, Apart

\* Where the drive, and with it nothing that is stored, changes.
LEMMA DriveSteps ==
  ASSUME DocumentInv, NEW i \in Items, NEW deleted \in BOOLEAN, DriveChanges(i, deleted)
  PROVE  DocumentInv'
<1> DEFINE new == [item |-> i, deleted |-> deleted]
<1>0. PICK N \in Nat : N = Len(log)
  BY DEF DocumentInv, DocumentTypes
<1>1. /\ Threads /\ DocumentTypes /\ LastChanges
      /\ log' = Append(log, new) /\ UNCHANGED <<matches, documents, link, timeline, apart, lost, job>>
  BY DEF DocumentInv, DriveChanges, requestVars
<1>2. /\ log' \in Seq([item : Items, deleted : BOOLEAN]) /\ Len(log') = N + 1 /\ N \in Nat
      /\ log'[N + 1] = new /\ \A n \in 1..N : log'[n] = log[n]
  BY <1>0, <1>1 DEF DocumentTypes
<1>3. DocumentTypes'
  BY <1>0, <1>1, <1>2 DEF DocumentTypes
<1>4. ASSUME NEW k \in Items, NEW n, NEW upto \in 0..N
      PROVE  IsLast(k, n, upto)' <=> IsLast(k, n, upto)
  BY <1>0, <1>2 DEF IsLast
<1>5. LastChanges'
  <2> SUFFICES ASSUME NEW k \in Items PROVE (\A n \in 1..N+1 : log'[n].item # k) \/ \E n : IsLast(k, n, N + 1)'
    BY SMTT(40), <1>0, <1>2 DEF LastChanges, IsLast
  <2>1. CASE k = i
    <3>1. IsLast(k, N + 1, N + 1)'
      BY <1>0, <1>2, <2>1 DEF IsLast
    <3> QED BY <3>1
  <2>2. CASE k # i /\ \A n \in 1..N : log[n].item # k
    BY <1>0, <1>2, <2>2
  <2>3. CASE k # i /\ \E n : IsLast(k, n, N)
    <3>1. PICK n : IsLast(k, n, N)
      BY <2>3
    <3>2. IsLast(k, n, N + 1)'
      BY SMTT(40), <1>0, <1>2, <2>3, <3>1 DEF IsLast
    <3> QED BY <3>2
  <2> QED BY <1>0, <1>1, <2>1, <2>2, <2>3 DEF LastChanges
<1>6. ASSUME NEW k \in Items, NEW n \in 1..N, IsLast(k, n, N + 1)' PROVE IsLast(k, n, N)
  BY <1>0, <1>2, <1>6 DEF IsLast
<1>7. ASSUME NEW upto \in 0..N, NEW todo, Settled(upto, todo) PROVE Settled(upto, todo)'
  <2> SUFFICES ASSUME NEW k \in Items, NEW n \in 1..upto, n \notin todo, IsLast(k, n, N + 1)'
               PROVE  Shown(k)' <=> ~log'[n].deleted
    BY <1>0, <1>2 DEF Settled, IsLast
  <2>1. n \in 1..N
    BY <1>0, <1>2
  <2>2. IsLast(k, n, N)
    BY <1>6, <2>1
  <2> QED BY <1>0, <1>1, <1>2, <1>7, <2>1, <2>2 DEF Settled, Shown
<1>8. ASSUME NEW r \in Requests PROVE Errand(r)'
  <2>1. Errand(r)
    BY DEF DocumentInv
  <2>2. CASE job[r].at \in {"store", "publish"}
    <3>1. /\ job[r].row \in [upto : 0..N, change : (1..N) \cup {None}]
          /\ \A n \in job[r].todo : n \in 1..job[r].row.upto /\ IsLast(log[n].item, n, job[r].row.upto)
      BY <1>0, <2>1, <2>2 DEF Errand
    <3>2. job[r].row \in [upto : 0..N+1, change : (1..N+1) \cup {None}]
      BY <1>0, <1>2, <3>1
    <3>3. \A n \in job[r].todo : IsLast(log[n].item, n, job[r].row.upto)'
      <4> SUFFICES ASSUME NEW n \in job[r].todo PROVE IsLast(log[n].item, n, job[r].row.upto)'
        OBVIOUS
      <4>1. n \in 1..N /\ job[r].row.upto \in 0..N /\ IsLast(log[n].item, n, job[r].row.upto)
        BY <1>0, <1>2, <3>1
      <4>2. log'[n] = log[n] /\ log[n] \in [item : Items, deleted : BOOLEAN]
        <5>1. n \in 1..Len(log)
          BY <1>0, <4>1
        <5>2. log[n] \in [item : Items, deleted : BOOLEAN]
          <6> DEFINE C == [item : Items, deleted : BOOLEAN]
          <6>1. log \in Seq(C)
            BY <1>1 DEF DocumentTypes
          <6> HIDE DEF C
          <6>2. log[n] \in C
            BY <5>1, <6>1
          <6> QED BY <6>2 DEF C
        <5> QED BY <1>2, <4>1, <5>2
      <4>3. PICK u \in 0..N : u = job[r].row.upto
        BY <4>1
      <4>4. PICK k \in Items : k = log[n].item /\ k = log'[n].item
        BY <4>2
      <4>5. IsLast(k, n, u)
        BY <4>1, <4>3, <4>4
      <4>6. IsLast(k, n, u)'
        BY <1>4, <4>5
      <4> QED BY <1>1, <4>3, <4>4, <4>6 DEF IsLast
    <3>4. Serves(r, "publish") => job[r].row.change \in 1..N /\ log'[job[r].row.change] = log[job[r].row.change]
      BY <1>0, <1>2, <2>1 DEF Errand
    <3> QED BY <1>0, <1>1, <1>2, <2>1, <2>2, <3>1, <3>2, <3>3, <3>4 DEF Errand, Syncing, Serves, IsLast
  <2>3. CASE job[r].at \notin {"store", "publish"}
    BY <1>1, <2>1, <2>3 DEF Errand, Syncing, Serves
  <2> QED BY <2>2, <2>3
<1>9. Apart'
  <2> SUFFICES ASSUME apart PROVE Apart'
    BY <1>0, <1>1 DEF Apart
  <2>1. Settled(link, {})'
    <3>1. link \in 0..N /\ Settled(link, {})
      BY <1>0, <1>1 DEF DocumentTypes, DocumentInv, Apart
    <3>2. PICK l \in 0..N : l = link
      BY <3>1
    <3>3. Settled(l, {})
      BY <3>1, <3>2
    <3>4. Settled(l, {})'
      BY <1>7, <3>3
    <3> QED BY <1>1, <3>2, <3>4 DEF Settled
  <2>2. ASSUME NEW r \in Requests PROVE Alone(r)'
    <3> SUFFICES ASSUME job[r].at \in {"store", "publish"} PROVE Alone(r)'
      BY <1>0, <1>1 DEF Alone
    <3> DEFINE u == job[r].row.upto
               t == job[r].todo
    <3>1. u \in 0..N /\ Settled(u, t) /\ \A n \in t : n > link
      BY <1>0 DEF DocumentInv, Errand, Apart, Alone
    <3> HIDE DEF u, t
    <3>2. Settled(u, t)'
      <4>1. u' = u /\ t' = t
        BY <1>0, <1>1 DEF u, t
      <4>2. \A k \in Items, n \in 1..u : n \notin t /\ IsLast(k, n, Len(log))' => (Shown(k)' <=> ~log'[n].deleted)
        BY <1>0, <1>7, <3>1 DEF Settled
      <4> QED BY <4>1, <4>2 DEF Settled
    <3> QED BY <1>1, <3>1, <3>2 DEF Alone, u, t
  <2> QED BY <1>0, <1>1, <2>1, <2>2 DEF Apart, DocumentInv, Syncing
<1>10. PersonShown'
  <2>1. \A r \in Requests, k \in Items : Publishing(r, k) => Publishing(r, k)'
    BY <1>0, <1>1, <1>2 DEF DocumentInv, Errand, Publishing, Serves
  <2> QED BY <1>1, <2>1 DEF DocumentInv, PersonShown
<1> QED BY <1>1, <1>3, <1>5, <1>8, <1>9, <1>10 DEF DocumentInv, Threads

\* Addresses and rules, and a document that is ignored.
LEMMA DeskSteps ==
  ASSUME DocumentInv, NEW i \in Items, (\E p \in OwnersOf : MatchingChanges(i, p)) \/ IgnoreDocument(i)
  PROVE  DocumentInv'
<1>1. UNCHANGED <<log, link, timeline, apart, lost, job>> /\ DocumentTypes
  BY DEF MatchingChanges, IgnoreDocument, Serve, DocumentInv
<1>2. /\ matches' \in [Items -> OwnersOf] /\ documents' \in [Items -> DocumentRows \cup {None}]
      /\ \A k \in Items : /\ documents'[k] = None <=> documents[k] = None
                          /\ documents[k] # None => /\ documents'[k].deleted = documents[k].deleted
                                                    /\ documents'[k].person = documents[k].person
  <2>1. CASE \E p \in OwnersOf : MatchingChanges(i, p)
    BY <1>1, <2>1 DEF MatchingChanges, DocumentTypes
  <2>2. CASE IgnoreDocument(i)
    <3>1. documents[i] \in DocumentRows /\ None \notin DocumentRows
      BY <1>1, <2>2, DocumentAssumption DEF IgnoreDocument, AwaitsReview, DocumentTypes, DocumentRows, OwnersOf
    <3>2. [documents[i] EXCEPT !.status = "ignored"] \in DocumentRows
      BY <3>1 DEF DocumentRows
    <3> QED BY <1>1, <2>2, <3>1, <3>2 DEF IgnoreDocument, DocumentTypes, DocumentRows
  <2> QED BY <2>1, <2>2
<1>3. DocumentTypes' /\ LastChanges'
  BY SMTT(40), <1>1, <1>2 DEF DocumentInv, DocumentTypes, LastChanges, IsLast
<1>4. \A r \in Requests : Errand(r)'
  BY SMTT(40), <1>1, <1>2 DEF DocumentInv, Errand, Syncing, Serves, IsLast
<1>5. \A k \in Items : Shown(k)' <=> Shown(k)
  BY <1>2 DEF Shown
<1>6. Apart'
  BY <1>1, <1>5 DEF DocumentInv, Apart, Syncing, Alone, Settled, IsLast
<1>7. PersonShown'
  BY <1>1, <1>2 DEF DocumentInv, PersonShown, Publishing, Serves
<1> QED BY <1>1, <1>3, <1>4, <1>6, <1>7 DEF DocumentInv, Threads

LEMMA SyncStarts == ASSUME DocumentInv, NEW r \in Requests, SyncStart(r) PROVE DocumentInv'
<1>1. /\ Threads /\ DocumentTypes /\ UNCHANGED <<log, matches, documents, link, timeline, lost>>
      /\ Starts(r, "fetch", None, matches, {}) /\ apart' = (apart /\ \A q \in Requests : ~Syncing(q))
  BY DEF DocumentInv, SyncStart
<1>2. Others(r) /\ Held(job'[r], "fetch", None, matches, {}) /\ job[r].at = "idle" /\ job'[r].at = "fetch"
  BY <1>1, Calls
<1>3. Quiet
  BY <1>1 DEF Quiet, DocumentTypes
<1>4. Errand(r)'
  BY <1>1, <1>2 DEF Errand, Syncing, Serves, Held, DocumentTypes
<1>5. \A q \in Requests : Errand(q)'
  BY <1>2, <1>3, <1>4, ErrandsOfOthers
<1>6. Apart'
  <2> SUFFICES ASSUME apart' PROVE Apart'
    BY DEF Apart
  <2>1. apart /\ \A q \in Requests : ~Syncing(q)
    BY <1>1
  <2>2. \A q \in Requests : Syncing(q)' => q = r
    BY <1>2, <2>1 DEF Others, Syncing
  <2>3. \A q \in Requests : Alone(q)'
    BY <1>2, <2>2 DEF Alone, Syncing
  <2> QED BY <1>1, <2>1, <2>2, <2>3 DEF DocumentInv, Apart, Settled, IsLast, Shown
<1>7. PersonShown'
  BY <1>1, <1>2 DEF DocumentInv, PersonShown, Publishing, Serves, Others
<1> QED BY <1>2, <1>3, <1>5, <1>6, <1>7, TypesStay DEF DocumentInv, Others

LEMMA ReviewReads ==
  ASSUME DocumentInv, NEW r \in Requests, NEW i \in Items, NEW p \in Persons, ReviewRead(r, i, p)
  PROVE  DocumentInv'
<1>1. /\ Threads /\ DocumentTypes /\ UNCHANGED <<log, matches, documents, link, timeline, apart, lost>>
      /\ Starts(r, "review", i, p, {}) /\ documents[i] # None
  BY DEF DocumentInv, ReviewRead, AwaitsReview
<1>2. Others(r) /\ Held(job'[r], "review", i, p, {}) /\ job[r].at = "idle" /\ job'[r].at = "review"
  BY <1>1, Calls
<1>3. Quiet
  BY <1>1 DEF Quiet, DocumentTypes
<1>4. Errand(r)'
  BY <1>1, <1>2 DEF Errand, Syncing, Serves, Held
<1>5. \A q \in Requests : Errand(q)'
  BY <1>2, <1>3, <1>4, ErrandsOfOthers
<1>6. Apart'
  BY <1>1, <1>2, ApartStays DEF Syncing, Shown
<1>7. PersonShown'
  BY <1>1, <1>2 DEF DocumentInv, PersonShown, Publishing, Serves, Others
<1> QED BY <1>2, <1>3, <1>5, <1>6, <1>7, TypesStay DEF DocumentInv, Others

LEMMA SyncFetches == ASSUME DocumentInv, NEW r \in Requests, SyncFetch(r) PROVE DocumentInv'
<1> DEFINE row == [upto |-> Len(log), change |-> None]
           seen == job[r].seen
           due == Delta(link)
<1>1. /\ Threads /\ DocumentTypes /\ LastChanges /\ Errand(r) /\ job[r].at = "fetch"
      /\ UNCHANGED <<log, matches, documents, link, timeline, apart, lost>>
      /\ Goes(r, "store", row, seen, due)
  BY DEF DocumentInv, SyncFetch, Serves
<1> HIDE DEF row, seen, due
<1>2. Others(r) /\ Held(job'[r], "store", row, seen, due)
  BY <1>1, LocalSteps DEF Goes
<1>3. job'[r].at = "store" /\ job'[r].row = row /\ job'[r].seen = seen /\ job'[r].todo = due
  BY <1>2 DEF Held
<1>4. \A n \in due : n \in 1..Len(log) /\ n > link /\ IsLast(log[n].item, n, Len(log))
  <2> SUFFICES ASSUME NEW n \in due PROVE n \in 1..Len(log) /\ n > link /\ IsLast(log[n].item, n, Len(log))
    OBVIOUS
  <2>1. n \in link+1..Len(log) /\ n = LastChange(log[n].item, Len(log)) /\ Len(log) \in Nat /\ link \in Nat
    BY <1>1 DEF Delta, DocumentTypes, due
  <2>2. n \in 1..Len(log) /\ n > link
    BY <2>1
  <2>3. log[n].item \in Items
    <3> DEFINE C == [item : Items, deleted : BOOLEAN]
    <3>1. log \in Seq(C)
      BY <1>1 DEF DocumentTypes
    <3> HIDE DEF C
    <3>2. log[n] \in C
      BY <2>2, <3>1
    <3> QED BY <3>2 DEF C
  <2> QED BY <1>1, <2>1, <2>2, <2>3, LastOne
<1>5. \A i \in Items, n \in 1..Len(log) : n > link /\ IsLast(i, n, Len(log)) => n \in due
  <2> SUFFICES ASSUME NEW i \in Items, NEW n \in 1..Len(log), n > link, IsLast(i, n, Len(log)) PROVE n \in due
    OBVIOUS
  <2>1. n = LastChange(log[n].item, Len(log))
    BY <1>1, LastOne DEF IsLast
  <2>2. n \in link+1..Len(log)
    BY <1>1 DEF DocumentTypes
  <2> QED BY <2>1, <2>2 DEF due, Delta
<1>6. Quiet
  BY <1>1 DEF Quiet, DocumentTypes
<1>7. Errand(r)'
  <2>1. row \in [upto : 0..Len(log), change : (1..Len(log)) \cup {None}] /\ row.upto = Len(log)
    BY <1>1 DEF row, DocumentTypes
  <2>2. seen \in [Items -> OwnersOf]
    BY <1>1 DEF Errand, Syncing, seen
  <2> QED BY <1>1, <1>3, <1>4, <2>1, <2>2 DEF Errand, Syncing, Serves, IsLast
<1>8. \A q \in Requests : Errand(q)'
  BY <1>2, <1>6, <1>7, ErrandsOfOthers
<1>9. Apart'
  <2> SUFFICES ASSUME apart PROVE Apart'
    BY <1>1 DEF Apart
  <2>1. \A q \in Requests : Syncing(q)' => q = r
    BY <1>1, <1>2 DEF Others, Syncing, DocumentInv, Apart
  <2>2. Settled(link, {})
    BY DEF DocumentInv, Apart
  <2>3. Settled(Len(log), due)
    <3>1. link \in 0..Len(log) /\ Len(log) \in Nat
      BY <1>1 DEF DocumentTypes
    <3> SUFFICES ASSUME NEW i \in Items, NEW n \in 1..Len(log), n \notin due, IsLast(i, n, Len(log))
                 PROVE  Shown(i) <=> ~log[n].deleted
      BY DEF Settled
    <3>2. n \in 1..link
      BY <1>5, <3>1
    <3> QED BY <2>2, <3>2 DEF Settled
  <2>4. Alone(r)'
    <3>1. row.upto = Len(log)
      BY DEF row
    <3> QED BY <1>1, <1>3, <1>4, <2>3, <3>1 DEF Alone, Settled, IsLast, Shown
  <2>5. \A q \in Requests : Alone(q)'
    BY <2>1, <2>4 DEF Alone, Syncing
  <2> QED BY <1>1, <2>1, <2>2, <2>5 DEF Apart, Settled, IsLast, Shown
<1>10. PersonShown'
  BY <1>1, <1>2, <1>3 DEF DocumentInv, PersonShown, Publishing, Serves, Others
<1> QED BY <1>2, <1>6, <1>8, <1>9, <1>10, TypesStay DEF DocumentInv, Others

LEMMA SyncPublishes == ASSUME DocumentInv, NEW r \in Requests, SyncPublish(r) PROVE DocumentInv'
<1> DEFINE i == log[job[r].row.change].item
           row == job[r].row
           seen == job[r].seen
           todo == job[r].todo
<1>1. /\ Threads /\ DocumentTypes /\ Errand(r) /\ job[r].at = "publish"
      /\ UNCHANGED <<log, matches, documents, link, apart>>
      /\ timeline' = [timeline EXCEPT ![i] = seen[i]] /\ lost' = lost \ {i}
      /\ Goes(r, "store", row, seen, todo)
  BY DEF DocumentInv, SyncPublish, Serves
<1>2. i \in Items /\ seen[i] \in OwnersOf /\ seen[i] # None
  <2>1. row.change \in 1..Len(log) /\ seen[i] # None /\ seen \in [Items -> OwnersOf]
    BY <1>1 DEF Errand, Serves, Syncing
  <2>2. i \in Items
    <3> DEFINE C == [item : Items, deleted : BOOLEAN]
    <3>1. log \in Seq(C)
      BY <1>1 DEF DocumentTypes
    <3> HIDE DEF C
    <3>2. log[row.change] \in C
      BY <2>1, <3>1
    <3> QED BY <3>2 DEF C
  <2> QED BY <2>1, <2>2
<1> HIDE DEF i, row, seen, todo
<1>3. Others(r) /\ Held(job'[r], "store", row, seen, todo)
  BY <1>1, LocalSteps DEF Goes
<1>4. job'[r].at = "store" /\ job'[r].row = row /\ job'[r].seen = seen /\ job'[r].todo = todo
  BY <1>3 DEF Held
<1>5. Quiet
  BY <1>1, <1>2 DEF Quiet, DocumentTypes
<1>6. Errand(r)'
  BY <1>1, <1>4 DEF Errand, Syncing, Serves, IsLast, row, seen, todo
<1>7. \A q \in Requests : Errand(q)'
  BY <1>3, <1>5, <1>6, ErrandsOfOthers
<1>8. Apart'
  BY <1>1, <1>3, <1>4, ApartStays DEF Syncing, Shown, row, todo
<1>9. PersonShown'
  <2> SUFFICES ASSUME NEW k \in Items, documents[k] # None, documents[k].person # None, k \notin lost'
               PROVE  timeline'[k] # None \/ \E q \in Requests : Publishing(q, k)'
    BY <1>1 DEF PersonShown
  <2>1. CASE k = i
    BY <1>1, <1>2, <2>1 DEF DocumentTypes
  <2>2. CASE k # i
    <3>1. timeline[k] # None \/ \E q \in Requests : Publishing(q, k)
      BY <1>1, <2>2 DEF DocumentInv, PersonShown
    <3>2. ASSUME NEW q \in Requests, Publishing(q, k) PROVE Publishing(q, k)'
      <4>1. q # r
        BY <2>2, <3>2 DEF Publishing, i
      <4> QED BY <1>1, <1>3, <3>2, <4>1 DEF Others, Publishing, Serves
    <3> QED BY <1>5, <3>1, <3>2 DEF Quiet
  <2> QED BY <2>1, <2>2
<1> QED BY <1>3, <1>5, <1>7, <1>8, <1>9, TypesStay DEF DocumentInv, Others

\* The next item is the one of the oldest change that is to do.
Next1(S) == CHOOSE m \in S : \A o \in S : m <= o

LEMMA NextOne ==
  ASSUME DocumentTypes, NEW r \in Requests, Errand(r), Serves(r, "store"), job[r].todo # {}
  PROVE  /\ Next1(job[r].todo) \in job[r].todo /\ Next1(job[r].todo) \in 1..Len(log)
         /\ log[Next1(job[r].todo)] \in [item : Items, deleted : BOOLEAN]
<1> DEFINE S == job[r].todo
           m == Next1(S)
<1>1. Len(log) \in Nat /\ job[r].row.upto \in 0..Len(log) /\ S \subseteq 1..job[r].row.upto
  BY DEF Errand, Serves, DocumentTypes
<1>2. S \subseteq 1..Len(log)
  BY <1>1
<1>3. IsFiniteSet(S)
  <2>1. PICK N \in Nat : N = Len(log)
    BY <1>1
  <2>2. IsFiniteSet(1..N)
    BY FS_Interval
  <2>3. S \in SUBSET (1..N)
    BY <1>2, <2>1
  <2> HIDE DEF S
  <2> QED BY <2>2, <2>3, FS_Subset
<1>4. \E k \in S : \A o \in S : k <= o
  BY <1>2, <1>3, Least
<1>5. m \in S
  BY <1>4 DEF Next1
<1> HIDE DEF m
<1>6. log[m] \in [item : Items, deleted : BOOLEAN]
  <2> DEFINE C == [item : Items, deleted : BOOLEAN]
  <2>1. log \in Seq(C)
    BY DEF DocumentTypes
  <2> HIDE DEF C
  <2>2. log[m] \in C
    BY <1>2, <1>5, <2>1
  <2> QED BY <2>2 DEF C
<1> QED BY <1>2, <1>5, <1>6 DEF m

\* What storing an item leaves of its row.
LEMMA StoredRow ==
  ASSUME DocumentTypes, NEW i \in Items, NEW p \in OwnersOf
  PROVE  /\ Stored(i, p) \in DocumentRows /\ Stored(i, p) # None /\ Stored(i, p).deleted = FALSE
         /\ p # None => Stored(i, p).person = p
         /\ p = None /\ documents[i] # None => Stored(i, p).person = documents[i].person
         /\ p = None /\ documents[i] = None => Stored(i, p).person = None
         /\ documents[i] # None =>
              /\ [documents[i] EXCEPT !.deleted = TRUE] \in DocumentRows
              /\ [documents[i] EXCEPT !.deleted = TRUE].deleted = TRUE
              /\ [documents[i] EXCEPT !.deleted = TRUE].person = documents[i].person
<1>1. documents[i] # None => documents[i] \in DocumentRows
  BY DEF DocumentTypes
<1>2. None \notin DocumentRows
  BY DocumentAssumption DEF DocumentRows, OwnersOf
<1>3. Document(p) \in DocumentRows /\ Document(p).person = p /\ Document(p).deleted = FALSE
  BY DEF Document, DocumentRows
<1>4. documents[i] # None =>
        /\ [documents[i] EXCEPT !.deleted = FALSE] \in DocumentRows
        /\ [documents[i] EXCEPT !.deleted = FALSE].deleted = FALSE
        /\ [documents[i] EXCEPT !.deleted = FALSE].person = documents[i].person
        /\ [documents[i] EXCEPT !.deleted = TRUE] \in DocumentRows
        /\ [documents[i] EXCEPT !.deleted = TRUE].deleted = TRUE
        /\ [documents[i] EXCEPT !.deleted = TRUE].person = documents[i].person
  BY <1>1 DEF DocumentRows
<1> QED BY <1>2, <1>3, <1>4 DEF Stored

LEMMA SyncStores == ASSUME DocumentInv, NEW r \in Requests, SyncStore(r) PROVE DocumentInv'
<1> DEFINE S == job[r].todo
           n == Next1(S)
           i == log[n].item
           row == job[r].row
           seen == job[r].seen
           p == seen[i]
           place == IF ~log[n].deleted /\ p # None THEN "publish" ELSE "store"
           new == IF log[n].deleted THEN row ELSE [row EXCEPT !.change = n]
<1>1. /\ Threads /\ DocumentTypes /\ Errand(r) /\ Serves(r, "store") /\ S # {}
      /\ UNCHANGED <<log, matches, link, timeline, apart, lost>>
  BY DEF DocumentInv, SyncStore
<1>2. n \in S /\ n \in 1..Len(log) /\ log[n] \in [item : Items, deleted : BOOLEAN]
  BY <1>1, NextOne
<1>3. i \in Items /\ log[n].deleted \in BOOLEAN /\ seen \in [Items -> OwnersOf] /\ p \in OwnersOf
  BY <1>1, <1>2 DEF Errand, Syncing, Serves
<1>4. /\ Goes(r, place, new, seen, S \ {n})
      /\ \/ log[n].deleted /\ documents[i] = None /\ documents' = documents
         \/ log[n].deleted /\ documents[i] # None /\ documents' = [documents EXCEPT ![i].deleted = TRUE]
         \/ ~log[n].deleted /\ documents' = [documents EXCEPT ![i] = Stored(i, p)]
  <2>1. CASE log[n].deleted
    BY <2>1 DEF SyncStore, Next1
  <2>2. CASE ~log[n].deleted
    BY <2>2 DEF SyncStore, Next1, OnTimeline
  <2> QED BY <2>1, <2>2
<1>5. /\ row \in [upto : 0..Len(log), change : (1..Len(log)) \cup {None}]
      /\ \A o \in S : o \in 1..row.upto /\ IsLast(log[o].item, o, row.upto)
  BY <1>1 DEF Errand, Serves
<1>6. /\ new \in [upto : 0..Len(log), change : (1..Len(log)) \cup {None}] /\ new.upto = row.upto
      /\ place \in {"store", "publish"} /\ (place = "publish" => new.change = n /\ p # None)
  BY <1>2, <1>5
<1>7. \A k \in Items : k # i => documents'[k] = documents[k]
  BY <1>1, <1>3, <1>4 DEF DocumentTypes
<1>8. /\ documents'[i] \in DocumentRows \cup {None} /\ (documents'[i] # None /\ ~documents'[i].deleted <=> ~log[n].deleted)
      /\ documents[i] # None => documents'[i] # None
      /\ documents'[i] # None /\ documents'[i].person # None =>
           place = "publish" \/ (documents[i] # None /\ documents'[i].person = documents[i].person)
  <2> HIDE DEF n, seen
  <2>1. /\ Stored(i, p) \in DocumentRows /\ Stored(i, p) # None /\ Stored(i, p).deleted = FALSE
        /\ p # None => Stored(i, p).person = p
        /\ p = None /\ documents[i] # None => Stored(i, p).person = documents[i].person
        /\ p = None /\ documents[i] = None => Stored(i, p).person = None
        /\ documents[i] # None =>
             /\ [documents[i] EXCEPT !.deleted = TRUE] \in DocumentRows
             /\ [documents[i] EXCEPT !.deleted = TRUE].deleted = TRUE
             /\ [documents[i] EXCEPT !.deleted = TRUE].person = documents[i].person
    BY <1>1, <1>3, StoredRow
  <2>2. None \notin DocumentRows
    BY DocumentAssumption DEF DocumentRows, OwnersOf
  <2>3. CASE log[n].deleted /\ documents[i] = None /\ documents' = documents
    BY <1>1, <1>3, <2>3 DEF Shown
  <2>4. CASE log[n].deleted /\ documents[i] # None /\ documents' = [documents EXCEPT ![i].deleted = TRUE]
    <3>1. documents'[i] = [documents[i] EXCEPT !.deleted = TRUE]
      BY <1>1, <1>3, <2>4 DEF DocumentTypes
    <3> QED BY <2>1, <2>2, <2>4, <3>1 DEF Shown
  <2>5. CASE ~log[n].deleted /\ documents' = [documents EXCEPT ![i] = Stored(i, p)]
    <3>1. documents'[i] = Stored(i, p)
      BY <1>1, <1>3, <2>5 DEF DocumentTypes
    <3>2. documents'[i] \in DocumentRows /\ documents'[i] # None /\ documents'[i].deleted = FALSE
      BY <2>1, <3>1
    <3>3. p # None => place = "publish"
      BY <2>5
    <3>4. p = None /\ documents[i] # None => documents'[i].person = documents[i].person
      BY <2>1, <3>1
    <3>5. p = None /\ documents[i] = None => documents'[i].person = None
      BY <2>1, <3>1
    <3>6. documents'[i] # None /\ ~documents'[i].deleted <=> ~log[n].deleted
      BY <2>5, <3>2
    <3>7. documents'[i] # None /\ documents'[i].person # None =>
            place = "publish" \/ (documents[i] # None /\ documents'[i].person = documents[i].person)
      <4> HIDE DEF p, place, i
      <4> QED BY <3>3, <3>4, <3>5
    <3>8. documents'[i] \in DocumentRows \cup {None} /\ (documents[i] # None => documents'[i] # None)
      BY <3>2
    <3> QED BY <3>6, <3>7, <3>8
  <2> QED BY <1>4, <2>3, <2>4, <2>5
<1> HIDE DEF n, i, row, seen, p, place, new, S
<1>9. Others(r) /\ Held(job'[r], place, new, seen, S \ {n})
  BY <1>4, <1>1, LocalSteps DEF Goes
<1>10. job'[r].at = place /\ job'[r].row = new /\ job'[r].seen = seen /\ job'[r].todo = S \ {n}
  BY <1>9 DEF Held
<1>11. documents' \in [Items -> DocumentRows \cup {None}]
  <2>1. documents \in [Items -> DocumentRows \cup {None}] /\ DOMAIN documents' = Items /\ documents' = [k \in Items |-> documents'[k]]
    BY <1>1, <1>3, <1>4 DEF DocumentTypes
  <2> HIDE DEF DocumentRows
  <2> QED BY <1>7, <1>8, <2>1
<1>12. Quiet
  BY <1>1, <1>7, <1>8, <1>11 DEF Quiet, DocumentTypes
<1>13. Errand(r)'
  <2>1. \A o \in S \ {n} : o \in 1..new.upto /\ IsLast(log[o].item, o, new.upto)
    BY <1>5, <1>6
  <2>2. place = "publish" => new.change \in 1..Len(log) /\ seen[log[new.change].item] # None
    BY <1>2, <1>6 DEF i, p
  <2> QED BY <1>1, <1>3, <1>6, <1>10, <2>1, <2>2 DEF Errand, Syncing, Serves, IsLast
<1>14. \A q \in Requests : Errand(q)'
  BY <1>9, <1>12, <1>13, ErrandsOfOthers
<1>15. Apart'
  <2> SUFFICES ASSUME apart PROVE Apart'
    BY <1>1 DEF Apart
  <2>1. \A q \in Requests : Syncing(q)' => q = r
    BY <1>1, <1>9 DEF Others, Syncing, Serves, DocumentInv, Apart
  <2>2. Settled(link, {}) /\ Settled(row.upto, S) /\ \A o \in S : o > link
    BY <1>1 DEF DocumentInv, Apart, Alone, Serves, row, S
  <2>3. link \in Nat /\ row.upto \in 0..Len(log) /\ Len(log) \in Nat
    BY <1>1, <1>5 DEF DocumentTypes
  <2>4. \A k \in Items : k # i => Shown(k)' = Shown(k)
    BY <1>7 DEF Shown
  <2>5. Settled(link, {})'
    <3> SUFFICES ASSUME NEW k \in Items, NEW m \in 1..link, IsLast(k, m, Len(log)) PROVE Shown(k)' <=> ~log[m].deleted
      BY <1>1 DEF Settled, IsLast
    <3>1. Shown(k) <=> ~log[m].deleted
      BY <2>2 DEF Settled
    <3>2. CASE k = i
      <4>1. n > link /\ n \in m+1..Len(log) /\ log[n].item = i
        BY <1>2, <2>2, <2>3 DEF i
      <4> QED BY <3>2, <4>1 DEF IsLast
    <3> QED BY <2>4, <3>1, <3>2
  <2>6. \A k \in Items, m \in 1..row.upto :
          m \notin S \ {n} /\ IsLast(k, m, Len(log)) => (Shown(k)' <=> ~log[m].deleted)
    <3> SUFFICES ASSUME NEW k \in Items, NEW m \in 1..row.upto, m \notin S \ {n}, IsLast(k, m, Len(log))
                 PROVE  Shown(k)' <=> ~log[m].deleted
      OBVIOUS
    <3>1. CASE k = i
      <4>1. IsLast(i, n, row.upto)
        BY <1>2, <1>5 DEF i
      <4>2. ~(m < n) /\ ~(n < m) /\ m \in Nat /\ n \in Nat
        <5>1. m < n => n \in m+1..Len(log) /\ log[n].item = i
          BY <1>2, <2>3 DEF i
        <5>2. n < m => m \in n+1..row.upto
          BY <1>2, <2>3
        <5> QED BY <1>2, <2>3, <3>1, <4>1, <5>1, <5>2 DEF IsLast
      <4>3. m = n
        BY <4>2
      <4> QED BY <1>8, <3>1, <4>3 DEF Shown
    <3>2. CASE k # i
      <4>1. m # n
        BY <3>2 DEF IsLast, i
      <4>2. Shown(k) <=> ~log[m].deleted
        BY <2>2, <4>1 DEF Settled
      <4> QED BY <2>4, <3>2, <4>2
    <3> QED BY <3>1, <3>2
  <2>7. Alone(r)'
    BY <1>1, <1>6, <1>10, <2>2, <2>6 DEF Alone, Settled, IsLast
  <2>8. \A q \in Requests : Alone(q)'
    BY <2>1, <2>7 DEF Alone, Syncing
  <2> QED BY <1>1, <2>1, <2>5, <2>8 DEF Apart
<1>16. PersonShown'
  <2> SUFFICES ASSUME NEW k \in Items, documents'[k] # None, documents'[k].person # None, k \notin lost
               PROVE  timeline[k] # None \/ \E q \in Requests : Publishing(q, k)'
    BY <1>1 DEF PersonShown
  <2>1. ASSUME NEW q \in Requests, Publishing(q, k) PROVE Publishing(q, k)'
    <3>1. q # r
      BY <1>1, <2>1 DEF Publishing, Serves
    <3> QED BY <1>1, <1>9, <2>1, <3>1 DEF Others, Publishing, Serves
  <2>2. CASE documents[k] # None /\ documents'[k].person = documents[k].person
    BY <2>1, <2>2 DEF DocumentInv, PersonShown
  <2>3. CASE k = i /\ place = "publish"
    <3>1. Publishing(r, k)'
      BY <1>1, <1>6, <1>10, <2>3 DEF Publishing, Serves, i
    <3> QED BY <3>1
  <2> QED BY <1>7, <1>8, <2>2, <2>3
<1> QED BY <1>9, <1>12, <1>14, <1>15, <1>16, TypesStay DEF DocumentInv, Others

LEMMA SyncSaves == ASSUME DocumentInv, NEW r \in Requests, SyncSave(r) PROVE DocumentInv'
<1>1. /\ Threads /\ DocumentTypes /\ LastChanges /\ Errand(r) /\ job[r].at = "store" /\ job[r].todo = {}
      /\ UNCHANGED <<log, matches, documents, timeline, apart, lost>>
      /\ link' = job[r].row.upto /\ Ends(r)
  BY DEF DocumentInv, SyncSave, Saved, Serves
<1>2. Others(r) /\ job'[r].at = "idle"
  BY <1>1, EndSteps
<1>3. job[r].row.upto \in 0..Len(log)
  BY <1>1 DEF Errand
<1>4. DocumentTypes' /\ LastChanges'
  BY <1>1, <1>3 DEF DocumentTypes, LastChanges, IsLast
<1>5. ASSUME NEW q \in Requests PROVE Errand(q)'
  <2>1. CASE q = r
    BY <1>2, <2>1 DEF Errand, Syncing, Serves
  <2>2. CASE q # r
    BY <1>1, <1>2, <2>2 DEF DocumentInv, Others, Errand, Syncing, Serves, IsLast
  <2> QED BY <2>1, <2>2
<1>6. Apart'
  <2> SUFFICES ASSUME apart PROVE Apart'
    BY <1>1 DEF Apart
  <2>1. \A q \in Requests : ~Syncing(q)'
    BY <1>1, <1>2 DEF Others, Syncing, DocumentInv, Apart
  <2>2. Settled(job[r].row.upto, {})
    BY <1>1 DEF DocumentInv, Apart, Alone
  <2>3. Settled(link, {})'
    BY <1>1, <2>2 DEF Settled, IsLast, Shown
  <2>4. \A q \in Requests : Alone(q)'
    BY <2>1 DEF Alone, Syncing
  <2> QED BY <2>1, <2>3, <2>4 DEF Apart
<1>7. PersonShown'
  BY <1>1, <1>2 DEF DocumentInv, PersonShown, Publishing, Serves, Others
<1> QED BY <1>2, <1>4, <1>5, <1>6, <1>7 DEF DocumentInv, Others

LEMMA ReviewerPublishes == ASSUME DocumentInv, NEW r \in Requests, DocumentReviewPublish(r) PROVE DocumentInv'
<1> DEFINE i == job[r].row
           p == job[r].seen
<1>1. /\ Threads /\ DocumentTypes /\ Errand(r) /\ job[r].at = "review"
      /\ UNCHANGED <<log, matches, documents, link, apart>>
      /\ timeline' = [timeline EXCEPT ![i] = p] /\ lost' = lost \ {i}
      /\ Goes(r, "reviewed", i, p, {})
  BY DEF DocumentInv, DocumentReviewPublish, Serves
<1>2. i \in Items /\ p \in Persons /\ p # None /\ documents[i] # None
  BY <1>1, DocumentAssumption DEF Errand
<1> HIDE DEF i, p
<1>3. Others(r) /\ Held(job'[r], "reviewed", i, p, {})
  BY <1>1, LocalSteps DEF Goes
<1>4. job'[r].at = "reviewed" /\ job'[r].row = i /\ job'[r].seen = p
  BY <1>3 DEF Held
<1>5. timeline' \in [Items -> OwnersOf] /\ timeline'[i] = p /\ \A k \in Items : k # i => timeline'[k] = timeline[k]
  BY <1>1, <1>2 DEF DocumentTypes, OwnersOf
<1>6. Quiet
  BY <1>1, <1>2, <1>5 DEF Quiet, DocumentTypes
<1>7. Errand(r)'
  BY <1>1, <1>2, <1>4, <1>5 DEF Errand, Syncing, Serves
<1>8. \A q \in Requests : Errand(q)'
  BY <1>3, <1>6, <1>7, ErrandsOfOthers
<1>9. Apart'
  BY <1>1, <1>3, <1>4, ApartStays DEF Syncing, Shown
<1>10. PersonShown'
  <2>1. \A q \in Requests, k \in Items : Publishing(q, k) => Publishing(q, k)'
    BY <1>1, <1>3 DEF Others, Publishing, Serves
  <2> QED BY <1>1, <1>2, <1>5, <2>1 DEF DocumentInv, PersonShown
<1> QED BY <1>3, <1>6, <1>8, <1>9, <1>10, TypesStay DEF DocumentInv, Others

LEMMA ReviewerWrites == ASSUME DocumentInv, NEW r \in Requests, DocumentReviewWrite(r) PROVE DocumentInv'
<1> DEFINE i == job[r].row
           p == job[r].seen
<1>1. /\ Threads /\ DocumentTypes /\ Errand(r) /\ job[r].at = "reviewed"
      /\ UNCHANGED <<log, matches, link, timeline, apart, lost>> /\ Ends(r)
      /\ documents' = [documents EXCEPT ![i].person = p, ![i].status = "matched"]
  BY DEF DocumentInv, DocumentReviewWrite, Serves
<1>2. i \in Items /\ p \in OwnersOf /\ documents[i] # None /\ timeline[i] # None
  BY <1>1 DEF Errand, Serves, OwnersOf
<1>3. Others(r) /\ job'[r].at = "idle"
  BY <1>1, EndSteps
<1> HIDE DEF i, p
<1>4. /\ documents' \in [Items -> DocumentRows \cup {None}]
      /\ documents'[i] # None /\ documents'[i].deleted = documents[i].deleted
      /\ \A k \in Items : k # i => documents'[k] = documents[k]
  <2>1. documents[i] \in DocumentRows /\ None \notin DocumentRows
    BY <1>1, <1>2, DocumentAssumption DEF DocumentTypes, DocumentRows, OwnersOf
  <2>2. documents' = [documents EXCEPT ![i] = [[documents[i] EXCEPT !.person = p] EXCEPT !.status = "matched"]]
    BY <1>1, <1>2 DEF DocumentTypes
  <2> DEFINE new == [[documents[i] EXCEPT !.person = p] EXCEPT !.status = "matched"]
  <2>3. new \in DocumentRows /\ new.deleted = documents[i].deleted
    BY <1>2, <2>1 DEF DocumentRows
  <2> HIDE DEF new
  <2> QED BY <1>1, <1>2, <2>1, <2>2, <2>3 DEF DocumentTypes, new
<1>5. Quiet
  BY <1>1, <1>4 DEF Quiet, DocumentTypes
<1>6. Errand(r)'
  BY <1>3 DEF Errand, Syncing, Serves
<1>7. \A q \in Requests : Errand(q)'
  BY <1>3, <1>5, <1>6, ErrandsOfOthers
<1>8. \A k \in Items : Shown(k)' <=> Shown(k)
  BY <1>2, <1>4 DEF Shown
<1>9. Apart'
  BY <1>1, <1>3, <1>8, ApartStays DEF Syncing
<1>10. PersonShown'
  <2>1. \A q \in Requests, k \in Items : Publishing(q, k) => Publishing(q, k)'
    BY <1>1, <1>3 DEF Others, Publishing, Serves
  <2> QED BY <1>1, <1>2, <1>4, <2>1 DEF DocumentInv, PersonShown
<1> QED BY <1>3, <1>5, <1>7, <1>9, <1>10, TypesStay DEF DocumentInv, Others

LEMMA DocumentCrashes == ASSUME DocumentInv, NEW r \in Requests, DocumentCrash(r) PROVE DocumentInv'
<1>1. /\ Threads /\ DocumentTypes /\ UNCHANGED <<log, matches, documents, link, timeline, apart>> /\ Ends(r)
      /\ lost' = lost \cup (IF Serves(r, "publish") THEN {log[job[r].row.change].item} ELSE {})
  BY DEF DocumentInv, DocumentCrash, Dies
<1>2. Others(r) /\ job'[r].at = "idle"
  BY <1>1, EndSteps
<1>3. Quiet
  BY <1>1 DEF Quiet, DocumentTypes
<1>4. Errand(r)'
  BY <1>2 DEF Errand, Syncing, Serves
<1>5. \A q \in Requests : Errand(q)'
  BY <1>2, <1>3, <1>4, ErrandsOfOthers
<1>6. Apart'
  BY <1>1, <1>2, ApartStays DEF Syncing, Shown
<1>7. PersonShown'
  <2>1. \A q \in Requests, k \in Items : Publishing(q, k) => Publishing(q, k)' \/ k \in lost'
    BY <1>1, <1>2 DEF Others, Publishing, Serves
  <2> QED BY <1>1, <2>1 DEF DocumentInv, PersonShown
<1> QED BY <1>2, <1>3, <1>5, <1>6, <1>7, TypesStay DEF DocumentInv, Others

LEMMA DocumentSteps == DocumentInv /\ [DocumentNext]_documentVars => DocumentInv'
<1> SUFFICES ASSUME DocumentInv, [DocumentNext]_documentVars PROVE DocumentInv'
  OBVIOUS
<1>1. CASE UNCHANGED documentVars
  BY <1>1 DEF documentVars, requestVars, DocumentInv, Threads, DocumentTypes, LastChanges, IsLast, Errand, Syncing,
              Serves, Apart, Alone, Settled, Shown, PersonShown, Publishing
<1>2. ASSUME NEW i \in Items,
             \/ \E deleted \in BOOLEAN : DriveChanges(i, deleted)
             \/ \E p \in Persons \cup {None} : MatchingChanges(i, p)
             \/ IgnoreDocument(i)
             \/ \E r \in Requests, p \in Persons : ReviewRead(r, i, p)
      PROVE  DocumentInv'
  BY <1>2, DriveSteps, DeskSteps, ReviewReads DEF OwnersOf
<1>3. ASSUME NEW r \in Requests,
             \/ SyncStart(r) \/ SyncFetch(r) \/ SyncStore(r) \/ SyncPublish(r) \/ SyncSave(r)
             \/ DocumentReviewPublish(r) \/ DocumentReviewWrite(r) \/ DocumentCrash(r)
      PROVE  DocumentInv'
  BY <1>3, SyncStarts, SyncFetches, SyncStores, SyncPublishes, SyncSaves, ReviewerPublishes, ReviewerWrites,
     DocumentCrashes
<1> QED BY <1>1, <1>2, <1>3 DEF DocumentNext

\* Documents follow the drive and the timelines follow the documents, wherever
\* syncs overlap and die (sync_microsoft_documents).
THEOREM SyncsKeepUp == DocumentSpec => []DocumentsFollow
<1>1. DocumentInv => LinkCoversChanges
  <2> SUFFICES ASSUME DocumentInv, apart, NEW i \in Items,
                      LastChange(i, Len(log)) # 0, LastChange(i, Len(log)) <= link
               PROVE  Shown(i) <=> ~log[LastChange(i, Len(log))].deleted
    BY DEF LinkCoversChanges
  <2> DEFINE n == LastChange(i, Len(log))
  <2>1. link \in 0..Len(log) /\ Len(log) \in Nat /\ DocumentTypes /\ LastChanges /\ Settled(link, {})
    BY DEF DocumentInv, DocumentTypes, Apart
  <2>2. n \in 1..Len(log)
    <3>1. CASE \A m \in 1..Len(log) : log[m].item # i
      BY <3>1 DEF LastChange
    <3>2. CASE \E m : IsLast(i, m, Len(log))
      <4>1. PICK m : IsLast(i, m, Len(log))
        BY <3>2
      <4>2. m \in 1..Len(log)
        BY <4>1 DEF IsLast
      <4>3. m = LastChange(i, Len(log))
        BY <2>1, <4>1, <4>2, LastOne
      <4> QED BY <4>2, <4>3
    <3> QED BY <2>1, <3>1, <3>2 DEF LastChanges
  <2>3. IsLast(i, n, Len(log))
    BY <2>1, <2>2, LastOne
  <2>4. n \in 1..link
    BY <2>1, <2>2
  <2> HIDE DEF n
  <2>5. Shown(i) <=> ~log[n].deleted
    BY <2>1, <2>3, <2>4 DEF Settled
  <2> QED BY <2>5 DEF n
<1>2. DocumentInv => DocumentsFollow
  BY <1>1 DEF DocumentInv, DocumentsFollow
<1> QED BY <1>2, DocumentStart, DocumentSteps, PTL DEF DocumentSpec

----------------------------------------------------------------------------
(* Mail and meetings *)

\* Whom the sync that is at a meeting publishes it to.
KnownTo(r) == {a \in Attendees[job[r].row] : Known(job[r].seen, a)}
Publishes(r, i) ==
  /\ job[r].at = "event" /\ job[r].row = i[1]
  /\ i[2] \in KnownTo(r) /\ attendees[i].person = Owner(job[r].seen, i[2])

InboxRows ==
  /\ mail \in [Messages -> People \cup {None}]
  /\ DOMAIN unmatched = Messages /\ DOMAIN attendees = Invited

MailMatched ==
  \A m \in Messages : unmatched[m] # None /\ unmatched[m].status = "matched" => mail[m] # None

MeetingsMatched ==
  \A i \in Invited : attendees[i] # None /\ attendees[i].status = "matched" =>
    \/ <<i[1], attendees[i].person>> \in agenda \/ i[1] \in cut
    \/ \E r \in Requests : Publishes(r, i)

\* What a review has published before it writes.
Reviews(r) ==
  /\ Serves(r, "publish mail") => job[r].row \in Messages /\ job[r].seen \in People
  /\ Serves(r, "write mail") => job[r].row \in Messages /\ mail[job[r].row] # None
  /\ Serves(r, "publish meeting") => job[r].row \in Invited
  /\ Serves(r, "write meeting") => job[r].row \in Invited /\ <<job[r].row[1], job[r].seen>> \in agenda

InboxInv == Threads /\ InboxRows /\ MailMatched /\ MeetingsMatched /\ \A r \in Requests : Reviews(r)

LEMMA InboxStart == InboxInit => InboxInv
<1> SUFFICES ASSUME InboxInit PROVE InboxInv
  OBVIOUS
<1>1. Threads /\ \A r \in Requests : job[r].at = "idle"
  BY DEF InboxInit, RequestInit, Idle, Threads
<1>2. InboxRows /\ MailMatched /\ MeetingsMatched
  BY DEF InboxInit, InboxRows, MailMatched, MeetingsMatched
<1>3. \A r \in Requests : Reviews(r)
  BY <1>1 DEF Reviews, Serves
<1> QED BY <1>1, <1>2, <1>3 DEF InboxInv

\* What is on a timeline stays there, and a review that goes on finds it.
Keeps ==
  /\ mail' \in [Messages -> People \cup {None}] /\ \A m \in Messages : mail[m] # None => mail'[m] # None
  /\ agenda \subseteq agenda'

LEMMA ReviewsStay ==
  ASSUME Keeps, NEW q \in Requests, Reviews(q), job'[q] = job[q]
  PROVE  Reviews(q)'
BY DEF Keeps, Reviews, Serves

LEMMA ReviewsOfOthers ==
  ASSUME InboxInv, Keeps, NEW r \in Requests, Others(r), Reviews(r)'
  PROVE  \A q \in Requests : Reviews(q)'
<1> TAKE q \in Requests
<1>1. CASE q # r
  BY <1>1, ReviewsStay DEF Others, InboxInv
<1> QED BY <1>1

\* A step that matches no attendee and takes no publisher away.
LEMMA MeetingsStay ==
  ASSUME MeetingsMatched, agenda \subseteq agenda', cut \subseteq cut',
         \A i \in Invited : attendees'[i] # None /\ attendees'[i].status = "matched" => attendees'[i] = attendees[i],
         \A q \in Requests : job[q].at = "event" => job'[q] = job[q]
  PROVE  MeetingsMatched'
<1> SUFFICES ASSUME NEW i \in Invited, attendees'[i] # None, attendees'[i].status = "matched"
             PROVE  \/ <<i[1], attendees'[i].person>> \in agenda' \/ i[1] \in cut'
                    \/ \E r \in Requests : Publishes(r, i)'
  BY DEF MeetingsMatched
<1>1. attendees'[i] = attendees[i]
  OBVIOUS
<1>2. \/ <<i[1], attendees[i].person>> \in agenda \/ i[1] \in cut
      \/ \E r \in Requests : Publishes(r, i)
  BY <1>1 DEF MeetingsMatched
<1>3. ASSUME NEW r \in Requests, Publishes(r, i) PROVE Publishes(r, i)'
  BY <1>1, <1>3 DEF Publishes, KnownTo
<1> QED BY <1>1, <1>2, <1>3

LEMMA OutsideSteps ==
  ASSUME InboxInv, UNCHANGED <<tables, cut, job>>
  PROVE  InboxInv'
<1>1. Keeps
  BY DEF Keeps, InboxInv, InboxRows, tables
<1>2. \A r \in Requests : Reviews(r)'
  BY <1>1, ReviewsStay DEF InboxInv
<1>3. MeetingsMatched'
  BY MeetingsStay DEF InboxInv, tables
<1> QED BY <1>2, <1>3 DEF InboxInv, Threads, InboxRows, MailMatched, tables

\* Requests that begin.
LEMMA BeginSteps ==
  ASSUME InboxInv, NEW r \in Requests, NEW place, NEW row, NEW seen, NEW todo,
         Starts(r, place, row, seen, todo), UNCHANGED <<tables, cut>>,
         place \in {"mail", "calendar", "publish mail", "publish meeting"},
         place = "publish mail" => row \in Messages /\ seen \in People,
         place = "publish meeting" => row \in Invited
  PROVE  InboxInv'
<1>1. Others(r) /\ Held(job'[r], place, row, seen, todo) /\ job[r].at = "idle" /\ job'[r].at = place
  BY Calls DEF InboxInv
<1>2. job'[r].row = row /\ job'[r].seen = seen
  BY <1>1 DEF Held
<1>3. Reviews(r)'
  BY <1>1, <1>2 DEF Reviews, Serves
<1>4. Keeps
  BY DEF Keeps, InboxInv, InboxRows, tables
<1>5. MeetingsMatched'
  BY <1>1, MeetingsStay DEF InboxInv, tables, Others
<1>6. \A q \in Requests : Reviews(q)'
  BY <1>1, <1>3, <1>4, ReviewsOfOthers
<1> QED BY <1>1, <1>5, <1>6 DEF InboxInv, InboxRows, MailMatched, tables, Others

LEMMA IgnoreSteps ==
  ASSUME InboxInv,
         (\E m \in Messages : IgnoreMessage(m)) \/ \E i \in Invited : IgnoreAttendee(i)
  PROVE  InboxInv'
<1>1. UNCHANGED <<job, mail, agenda, cut>>
  BY DEF IgnoreMessage, IgnoreAttendee, Serve, outside
<1>2. /\ DOMAIN unmatched' = Messages /\ DOMAIN attendees' = Invited
      /\ \A m \in Messages : unmatched'[m] = unmatched[m] \/ unmatched'[m].status = "ignored"
      /\ \A i \in Invited : attendees'[i] = attendees[i] \/ attendees'[i].status = "ignored"
  BY DEF IgnoreMessage, IgnoreAttendee, InboxInv, InboxRows, Row
<1>3. Keeps
  BY <1>1 DEF Keeps, InboxInv, InboxRows
<1>4. \A r \in Requests : Reviews(r)'
  BY <1>1, <1>3, ReviewsStay DEF InboxInv
<1>5. MeetingsMatched'
  BY <1>1, <1>2, MeetingsStay DEF InboxInv
<1>6. MailMatched'
  BY <1>1, <1>2 DEF InboxInv, MailMatched
<1> QED BY <1>1, <1>2, <1>4, <1>5, <1>6 DEF InboxInv, InboxRows, Threads

LEMMA MailSteps == ASSUME InboxInv, NEW r \in Requests, NEW m \in Messages, MailStep(r, m) PROVE InboxInv'
<1>1. Threads /\ InboxRows /\ MailMatched /\ UNCHANGED <<outside, attendees, agenda>> /\ job[r].at = "mail"
  BY DEF InboxInv, MailStep, Serves
<1>2. Others(r) /\ job'[r].at \in {"idle", "mail"}
  <2>1. CASE Ends(r)
    BY <1>1, <2>1, EndSteps
  <2>2. CASE Goes(r, "mail", None, job[r].seen, job[r].todo \ {m})
    <3>1. Others(r) /\ Held(job'[r], "mail", None, job[r].seen, job[r].todo \ {m})
      BY <1>1, <2>2, LocalSteps DEF Goes
    <3> QED BY <3>1 DEF Held
  <2> QED BY <2>1, <2>2 DEF MailStep
<1>3. mail' \in [Messages -> People \cup {None}] /\ \A k \in Messages : mail[k] # None => mail'[k] # None
  BY <1>1, InboxAssumption DEF MailStep, InboxRows
<1>4. /\ DOMAIN unmatched' = Messages
      /\ \A k \in Messages : unmatched'[k] = unmatched[k] \/ unmatched'[k].status = "pending"
  BY <1>1 DEF MailStep, InboxRows, Queued, Row
<1>5. Keeps
  BY <1>1, <1>3 DEF Keeps
<1>6. MeetingsMatched'
  BY <1>1, <1>2, MeetingsStay DEF InboxInv, outside, Others
<1>7. Reviews(r)'
  BY <1>2 DEF Reviews, Serves
<1>8. \A q \in Requests : Reviews(q)'
  BY <1>2, <1>5, <1>7, ReviewsOfOthers
<1> QED BY <1>1, <1>2, <1>3, <1>4, <1>6, <1>8 DEF InboxInv, InboxRows, MailMatched, Others

LEMMA ResolveSteps ==
  ASSUME InboxInv, NEW r \in Requests, NEW e \in Meetings, CalendarResolve(r, e)
  PROVE  InboxInv'
<1> DEFINE known == {a \in Attendees[e] : Known(job[r].seen, a)}
           due(i) == i[1] = e /\ i[2] \in known /\ attendees[i] # None /\ attendees[i].status = "pending"
<1>1. /\ Threads /\ InboxRows /\ MailMatched /\ UNCHANGED <<outside, unmatched, mail, agenda>>
      /\ job[r].at = "calendar" /\ Goes(r, "event", e, job[r].seen, job[r].todo \ {e})
      /\ attendees' = [i \in Invited |->
                         IF due(i) THEN Row("matched", Owner(job[r].seen, i[2])) ELSE attendees[i]]
  BY DEF InboxInv, CalendarResolve, Serves
<1>2. Others(r) /\ Held(job'[r], "event", e, job[r].seen, job[r].todo \ {e})
  BY <1>1, LocalSteps DEF Goes
<1>3. job'[r].at = "event" /\ job'[r].row = e /\ job'[r].seen = job[r].seen
  BY <1>2 DEF Held
<1>4. ASSUME NEW i \in Invited, attendees'[i] # None, attendees'[i].status = "matched"
      PROVE  \/ <<i[1], attendees'[i].person>> \in agenda' \/ i[1] \in cut'
             \/ \E q \in Requests : Publishes(q, i)'
  <2>1. CASE due(i)
    <3>1. attendees'[i] = Row("matched", Owner(job[r].seen, i[2]))
      BY <1>1, <2>1
    <3>2. attendees'[i].person = Owner(job[r].seen, i[2])
      BY <3>1 DEF Row
    <3>3. i[1] = e /\ i[2] \in Attendees[e] /\ Known(job[r].seen, i[2])
      BY <2>1
    <3>4. KnownTo(r)' = {a \in Attendees[e] : Known(job[r].seen, a)}
      BY <1>3 DEF KnownTo
    <3>5. Owner(job[r].seen, i[2])' = Owner(job[r].seen, i[2])
      BY <1>3 DEF Owner
    <3>6. Publishes(r, i)'
      BY <1>3, <3>2, <3>3, <3>4, <3>5 DEF Publishes
    <3> QED BY <3>6
  <2>2. CASE ~due(i)
    <3>1. attendees'[i] = attendees[i]
      BY <1>1, <2>2
    <3>2. \/ <<i[1], attendees[i].person>> \in agenda \/ i[1] \in cut
          \/ \E q \in Requests : Publishes(q, i)
      BY <1>4, <3>1 DEF InboxInv, MeetingsMatched
    <3>3. ASSUME NEW q \in Requests, Publishes(q, i) PROVE Publishes(q, i)'
      <4>1. q # r
        BY <1>1, <3>3 DEF Publishes
      <4>2. job'[q] = job[q]
        BY <1>2, <4>1 DEF Others
      <4> QED BY <3>1, <3>3, <4>2 DEF Publishes, KnownTo
    <3> QED BY <1>1, <3>1, <3>2, <3>3 DEF outside
  <2> QED BY <2>1, <2>2
<1>5. MeetingsMatched'
  BY <1>4 DEF MeetingsMatched
<1>6. Keeps
  BY <1>1 DEF Keeps, InboxRows
<1>7. Reviews(r)'
  BY <1>3 DEF Reviews, Serves
<1>8. \A q \in Requests : Reviews(q)'
  BY <1>2, <1>6, <1>7, ReviewsOfOthers
<1> QED BY <1>1, <1>2, <1>5, <1>8 DEF InboxInv, InboxRows, MailMatched, Others

LEMMA PublishSteps == ASSUME InboxInv, NEW r \in Requests, CalendarPublish(r) PROVE InboxInv'
<1> DEFINE e == job[r].row
           known == {a \in Attendees[e] : Known(job[r].seen, a)}
<1>1. /\ Threads /\ InboxRows /\ MailMatched /\ UNCHANGED <<outside, unmatched, mail>> /\ job[r].at = "event"
      /\ agenda' = agenda \cup {<<e, Owner(job[r].seen, a)>> : a \in known}
      /\ attendees' = [i \in Invited |->
                         IF i[1] = e /\ i[2] \notin known THEN Queued(attendees[i]) ELSE attendees[i]]
  BY DEF InboxInv, CalendarPublish, Serves
<1>2. Others(r) /\ job'[r].at \in {"idle", "calendar"}
  <2>1. CASE Ends(r)
    BY <1>1, <2>1, EndSteps
  <2>2. CASE Goes(r, "calendar", None, job[r].seen, job[r].todo)
    <3>1. Others(r) /\ Held(job'[r], "calendar", None, job[r].seen, job[r].todo)
      BY <1>1, <2>2, LocalSteps DEF Goes
    <3> QED BY <3>1 DEF Held
  <2> QED BY <2>1, <2>2 DEF CalendarPublish
<1>3. \A i \in Invited : attendees'[i] = attendees[i] \/ attendees'[i].status = "pending"
  BY <1>1 DEF Queued, Row
<1>4. ASSUME NEW i \in Invited, attendees'[i] # None, attendees'[i].status = "matched"
      PROVE  \/ <<i[1], attendees'[i].person>> \in agenda' \/ i[1] \in cut'
             \/ \E q \in Requests : Publishes(q, i)'
  <2>1. attendees'[i] = attendees[i]
    BY <1>3, <1>4
  <2>2. \/ <<i[1], attendees[i].person>> \in agenda \/ i[1] \in cut
        \/ \E q \in Requests : Publishes(q, i)
    BY <1>4, <2>1 DEF InboxInv, MeetingsMatched
  <2>3. ASSUME Publishes(r, i) PROVE <<i[1], attendees[i].person>> \in agenda'
    <3>1. i[1] = e /\ i[2] \in known /\ attendees[i].person = Owner(job[r].seen, i[2])
      BY <2>3 DEF Publishes, KnownTo
    <3>2. <<e, Owner(job[r].seen, i[2])>> \in agenda'
      BY <1>1, <3>1
    <3> QED BY <3>1, <3>2
  <2>4. ASSUME NEW q \in Requests, q # r, Publishes(q, i) PROVE Publishes(q, i)'
    <3>1. job'[q] = job[q]
      BY <1>2, <2>4 DEF Others
    <3> QED BY <2>1, <2>4, <3>1 DEF Publishes, KnownTo
  <2> QED BY <1>1, <2>1, <2>2, <2>3, <2>4 DEF outside
<1>5. MeetingsMatched'
  BY <1>4 DEF MeetingsMatched
<1>6. Keeps
  BY <1>1 DEF Keeps, InboxRows
<1>7. Reviews(r)'
  BY <1>2 DEF Reviews, Serves
<1>8. \A q \in Requests : Reviews(q)'
  BY <1>2, <1>6, <1>7, ReviewsOfOthers
<1> QED BY <1>1, <1>2, <1>5, <1>8 DEF InboxInv, InboxRows, MailMatched, Others

LEMMA ReviewPublishes == ASSUME InboxInv, NEW r \in Requests, ReviewPublish(r) PROVE InboxInv'
<1> DEFINE x == job[r].row
           p == job[r].seen
           place == IF Serves(r, "publish mail") THEN "write mail" ELSE "write meeting"
<1>1. /\ Threads /\ InboxRows /\ MailMatched /\ Reviews(r) /\ UNCHANGED <<outside, unmatched, attendees>>
      /\ job[r].at \in {"publish mail", "publish meeting"}
      /\ Goes(r, place, x, p, {})
  BY DEF InboxInv, ReviewPublish
<1>2. \/ Serves(r, "publish mail") /\ mail' = [mail EXCEPT ![x] = p] /\ UNCHANGED agenda
      \/ Serves(r, "publish meeting") /\ agenda' = agenda \cup {<<x[1], p>>} /\ UNCHANGED mail
  BY DEF ReviewPublish, Serves
<1> HIDE DEF place
<1>3. Others(r) /\ Held(job'[r], place, x, p, {})
  BY <1>1, LocalSteps DEF Goes
<1>4. job'[r].at = place /\ job'[r].row = x /\ job'[r].seen = p
  BY <1>3 DEF Held
<1>5. Keeps
  BY <1>1, <1>2, InboxAssumption DEF Keeps, InboxRows, Reviews
<1>6. Reviews(r)'
  <2>1. CASE Serves(r, "publish mail") /\ mail' = [mail EXCEPT ![x] = p]
    <3>1. place = "write mail" /\ x \in Messages /\ p \in People
      BY <1>1, <2>1 DEF Reviews, place
    <3>2. mail'[x] # None
      BY <1>1, <2>1, <3>1, InboxAssumption DEF InboxRows
    <3> QED BY <1>4, <3>1, <3>2 DEF Reviews, Serves
  <2>2. CASE Serves(r, "publish meeting") /\ agenda' = agenda \cup {<<x[1], p>>}
    <3>1. place = "write meeting" /\ x \in Invited
      BY <1>1, <2>2 DEF Reviews, Serves, place
    <3> QED BY <1>4, <2>2, <3>1 DEF Reviews, Serves
  <2> QED BY <1>2, <2>1, <2>2
<1>7. \A q \in Requests : Reviews(q)'
  BY <1>3, <1>5, <1>6, ReviewsOfOthers
<1>8. MeetingsMatched'
  BY <1>1, <1>3, <1>5, MeetingsStay DEF InboxInv, outside, Others, Keeps
<1>9. MailMatched'
  BY <1>1, <1>5 DEF MailMatched, Keeps
<1> QED BY <1>1, <1>3, <1>5, <1>7, <1>8, <1>9 DEF InboxInv, InboxRows, Others, Keeps

LEMMA ReviewWrites == ASSUME InboxInv, NEW r \in Requests, ReviewWrite(r) PROVE InboxInv'
<1> DEFINE x == job[r].row
           p == job[r].seen
<1>1. /\ Threads /\ InboxRows /\ MailMatched /\ MeetingsMatched /\ Reviews(r)
      /\ UNCHANGED <<outside, mail, agenda>> /\ Ends(r)
      /\ job[r].at \in {"write mail", "write meeting"}
  BY DEF InboxInv, ReviewWrite, Published
<1>2. \/ Serves(r, "write mail") /\ unmatched' = [unmatched EXCEPT ![x] = Row("matched", p)] /\ UNCHANGED attendees
      \/ Serves(r, "write meeting") /\ attendees' = [attendees EXCEPT ![x] = Row("matched", p)] /\ UNCHANGED unmatched
  BY <1>1 DEF ReviewWrite, Serves
<1>3. Others(r) /\ job'[r].at = "idle"
  BY <1>1, EndSteps
<1>4. Keeps
  BY <1>1 DEF Keeps, InboxRows
<1>5. Reviews(r)'
  BY <1>3 DEF Reviews, Serves
<1>6. \A q \in Requests : Reviews(q)'
  BY <1>3, <1>4, <1>5, ReviewsOfOthers
<1>7. \A q \in Requests : job[q].at = "event" => job'[q] = job[q]
  BY <1>1, <1>3 DEF Others
<1>8. CASE Serves(r, "write mail") /\ unmatched' = [unmatched EXCEPT ![x] = Row("matched", p)] /\ UNCHANGED attendees
  <2>1. MeetingsMatched'
    BY <1>1, <1>7, <1>8, MeetingsStay DEF outside
  <2>2. MailMatched'
    BY <1>1, <1>8 DEF MailMatched, Reviews, InboxRows
  <2> QED BY <1>1, <1>3, <1>6, <1>8, <2>1, <2>2 DEF InboxInv, InboxRows, Others
<1>9. CASE Serves(r, "write meeting") /\ attendees' = [attendees EXCEPT ![x] = Row("matched", p)] /\ UNCHANGED unmatched
  <2>1. x \in Invited /\ <<x[1], p>> \in agenda
    BY <1>1, <1>9 DEF Reviews
  <2>2. attendees'[x] = Row("matched", p) /\ \A i \in Invited : i # x => attendees'[i] = attendees[i]
    BY <1>1, <1>9, <2>1 DEF InboxRows
  <2>3. attendees'[x].person = p
    BY <2>2 DEF Row
  <2>4. ASSUME NEW i \in Invited, attendees'[i] # None, attendees'[i].status = "matched"
        PROVE  \/ <<i[1], attendees'[i].person>> \in agenda' \/ i[1] \in cut'
               \/ \E q \in Requests : Publishes(q, i)'
    <3>1. CASE i = x
      BY <1>1, <2>1, <2>3, <3>1
    <3>2. CASE i # x
      <4>1. attendees'[i] = attendees[i]
        BY <2>2, <3>2
      <4>2. \/ <<i[1], attendees[i].person>> \in agenda \/ i[1] \in cut
            \/ \E q \in Requests : Publishes(q, i)
        BY <1>1, <2>4, <4>1 DEF MeetingsMatched
      <4>3. ASSUME NEW q \in Requests, Publishes(q, i) PROVE Publishes(q, i)'
        BY <1>7, <4>1, <4>3 DEF Publishes, KnownTo
      <4> QED BY <1>1, <4>1, <4>2, <4>3 DEF outside
    <3> QED BY <3>1, <3>2
  <2>5. MeetingsMatched'
    BY <2>4 DEF MeetingsMatched
  <2> QED BY <1>1, <1>3, <1>6, <1>9, <2>5 DEF InboxInv, InboxRows, MailMatched, Others
<1> QED BY <1>2, <1>8, <1>9

LEMMA InboxCrashes == ASSUME InboxInv, NEW r \in Requests, InboxCrash(r) PROVE InboxInv'
<1>1. /\ Threads /\ InboxRows /\ MailMatched /\ MeetingsMatched /\ UNCHANGED tables
      /\ cut' = IF Serves(r, "event") THEN cut \cup {job[r].row} ELSE cut
  BY DEF InboxInv, InboxCrash
<1>2. Others(r) /\ job'[r].at = "idle"
  BY <1>1, EndSteps DEF InboxCrash, Dies
<1>3. Keeps
  BY <1>1 DEF Keeps, InboxRows, tables
<1>4. Reviews(r)'
  BY <1>2 DEF Reviews, Serves
<1>5. \A q \in Requests : Reviews(q)'
  BY <1>2, <1>3, <1>4, ReviewsOfOthers
<1>6. MeetingsMatched'
  <2> SUFFICES ASSUME NEW i \in Invited, attendees[i] # None, attendees[i].status = "matched"
               PROVE  \/ <<i[1], attendees[i].person>> \in agenda \/ i[1] \in cut'
                      \/ \E q \in Requests : Publishes(q, i)'
    BY <1>1 DEF MeetingsMatched, tables
  <2>1. \/ <<i[1], attendees[i].person>> \in agenda \/ i[1] \in cut
        \/ \E q \in Requests : Publishes(q, i)
    BY <1>1 DEF MeetingsMatched
  <2>2. Publishes(r, i) => i[1] \in cut'
    BY <1>1 DEF Publishes, Serves
  <2>3. ASSUME NEW q \in Requests, q # r, Publishes(q, i) PROVE Publishes(q, i)'
    <3>1. job'[q] = job[q]
      BY <1>2, <2>3 DEF Others
    <3> QED BY <1>1, <2>3, <3>1 DEF Publishes, KnownTo, tables
  <2> QED BY <1>1, <2>1, <2>2, <2>3
<1> QED BY <1>1, <1>2, <1>5, <1>6 DEF InboxInv, InboxRows, MailMatched, tables, Others

LEMMA InboxSteps == InboxInv /\ [InboxNext]_inboxVars => InboxInv'
<1> SUFFICES ASSUME InboxInv, [InboxNext]_inboxVars PROVE InboxInv'
  OBVIOUS
<1>1. CASE \/ \E m \in Messages : Receive(m)
           \/ \E e \in Meetings : Plan(e)
           \/ \E p \in People, a \in Addresses \cup {None} : EditPerson(p, a)
           \/ UNCHANGED inboxVars
  <2>1. UNCHANGED <<tables, cut, job>>
    BY <1>1 DEF Receive, Plan, EditPerson, Serve, inboxVars, requestVars, tables
  <2> QED BY <2>1, OutsideSteps
<1>2. ASSUME NEW r \in Requests, MailStart(r) \/ CalendarStart(r) PROVE InboxInv'
  <2>1. UNCHANGED <<tables, cut>>
    BY <1>2 DEF MailStart, CalendarStart, outside
  <2>2. ASSUME NEW place \in {"mail", "calendar"}, NEW seen, NEW todo, Starts(r, place, None, seen, todo)
        PROVE  InboxInv'
    <3>1. place # "publish mail" /\ place # "publish meeting"
      OBVIOUS
    <3> QED BY <2>1, <2>2, <3>1, BeginSteps
  <2> QED BY <1>2, <2>2 DEF MailStart, CalendarStart
<1>3. ASSUME NEW r \in Requests, NEW p \in People,
             \/ \E m \in Messages : MatchMessage(r, m, p) \/ CreateContact(r, m, p)
             \/ \E i \in Invited : MatchAttendee(r, i, p)
      PROVE  InboxInv'
  BY <1>3, BeginSteps DEF MatchMessage, CreateContact, MatchAttendee, outside
<1> QED BY <1>1, <1>2, <1>3, IgnoreSteps, MailSteps, ResolveSteps, PublishSteps, ReviewPublishes, ReviewWrites,
           InboxCrashes DEF InboxNext

\* A queue calls nothing matched that no timeline shows, however syncs and
\* reviews of the same mail and meetings overlap and die.
THEOREM MatchesAreShown == InboxSpec => []MatchedIsShown
<1>1. InboxInv => MatchedIsShown
  BY DEF InboxInv, MailMatched, MeetingsMatched, MatchedIsShown, Publishes, Serves
<1> QED BY <1>1, InboxStart, InboxSteps, PTL DEF InboxSpec
=============================================================================
