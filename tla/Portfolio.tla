------------------------------ MODULE Portfolio -----------------------------
(***************************************************************************)
(* Custodian exports and the accounts they bring in: the portfolio import  *)
(* (portfolio_import.py with the adapter of schwab_csv.py) and the list of *)
(* accounts of schwab.py, which write the same rows, and the timeline that *)
(* tells the account's owner.                                              *)
(***************************************************************************)
EXTENDS Requests

CONSTANTS
  Accounts,    \* account numbers
  Owners,      \* people
  Mailboxes,   \* e-mail addresses
  Amounts,     \* what an account may hold in cash, in thousands
  Exports,     \* files of the raw-import folder, by their hash
  Accountings, \* file -> account -> what it says: [mailbox, status, cash]
  Positions    \* file -> the pairs of account and security it lists

ASSUME PortfolioAssumption ==
  /\ Amounts \subseteq Nat /\ None # "closed"
  /\ \A f \in Exports : DOMAIN Accountings[f] \subseteq Accounts
                        /\ \A a \in DOMAIN Accountings[f] : Accountings[f][a].cash \in Amounts

VARIABLES
  mailOf,   \* person -> primary e-mail, or None
  books,    \* account -> its row, or None
  holdings, \* pairs of account and security
  runs,     \* the files of portfolio_import_runs
  told      \* external id of a timeline event -> its person, or None

portfolioVars == <<mailOf, books, holdings, runs, told, requestVars>>

Kinds == {"opened", "closed", "cash"}

PortfolioInit ==
  /\ mailOf \in [Owners -> Mailboxes \cup {None}]
  /\ books = [a \in Accounts |-> None]
  /\ holdings = {} /\ runs = {}
  /\ told = [e \in Accounts \X Kinds \X Amounts |-> None]
  /\ RequestInit

EditMail(p, m) ==
  /\ mailOf' = [mailOf EXCEPT ![p] = m]
  /\ Serve /\ UNCHANGED <<books, holdings, runs, told>>

----------------------------------------------------------------------------
(* portfolio_import.py: one transaction, that holds the custodian's row *)

Importing(r) == Serves(r, "import")
Written(r) == IF Importing(r) THEN job[r].seen ELSE << >>

\* A file that is on record already is skipped.
ImportStart(r, f) ==
  /\ \A q \in Requests : ~Importing(q)
  /\ IF f \in runs
     THEN Serve
     ELSE Starts(r, "import", f, << >>, DOMAIN Accountings[f])
  /\ UNCHANGED <<mailOf, books, holdings, runs, told>>

\* Who owns an account: a person with its e-mail, or whoever had it.
PersonsFor(before, matched) ==
  IF matched # {} THEN matched
  ELSE {IF before = None THEN None ELSE before.person}

\* Mutant: a movement of cash is noticed before anything else.
CashFirst(before, row) ==
  CASE before = None -> "opened"
    [] before # None /\ row.cash - before.cash \notin -9..9 -> "cash"
    [] before # None /\ before.status # row.status /\ row.status = "closed" -> "closed"
    [] OTHER -> None

\* What there is to tell of a row: the first that applies.
Happened(before, row) ==
  IF before = None THEN "opened"
  ELSE IF before.status # row.status /\ row.status = "closed" THEN "closed"
  ELSE IF row.cash - before.cash \notin -9..9 THEN "cash"
  ELSE None

\* An account of the file is written, and its owner is told: that is a
\* transaction of its own, which replaces an event with the same values.
ImportAccount(r, a) ==
  LET said == Accountings[job[r].row][a]
      matched == {p \in Owners : said.mailbox # None /\ mailOf[p] = said.mailbox}
  IN  /\ Importing(r) /\ a \in job[r].todo
      /\ \E p \in PersonsFor(books[a], matched) :
           LET row == [person |-> p, status |-> said.status, cash |-> said.cash]
               kind == Happened(books[a], row)
           IN  /\ told' = IF p = None \/ kind = None THEN told
                          ELSE [told EXCEPT ![<<a, kind, said.cash>>] = p]
               /\ Goes(r, "import", job[r].row, Put(job[r].seen, a, row),
                       job[r].todo \ {a})
      /\ UNCHANGED <<mailOf, books, holdings, runs>>

\* Positions of accounts that are on the books are added or replaced, never
\* removed, and the run is put on record.
ImportCommit(r) ==
  LET now == [a \in DOMAIN books |-> IF a \in DOMAIN job[r].seen THEN job[r].seen[a] ELSE books[a]]
  IN  /\ Importing(r) /\ job[r].todo = {}
      /\ books' = now
      /\ holdings' = holdings \cup {h \in Positions[job[r].row] : now[h[1]] # None}
      /\ runs' = runs \cup {job[r].row}
      /\ Ends(r) /\ UNCHANGED <<mailOf, told>>

PortfolioCrash(r) == Dies(r) /\ UNCHANGED <<mailOf, books, holdings, runs, told>>

----------------------------------------------------------------------------
(* schwab.py: the list of accounts, which knows nothing of people.  A row   *)
(* that an import has written is locked until its end.                      *)

ListAccounts(f) ==
  /\ \A q \in Requests : DOMAIN Written(q) \cap DOMAIN Accountings[f] = {}
  /\ books' = [a \in Accounts |->
                 IF a \notin DOMAIN Accountings[f] THEN books[a]
                 ELSE [person |-> IF books[a] = None THEN None ELSE books[a].person,
                       status |-> Accountings[f][a].status,
                       cash |-> Accountings[f][a].cash]]
  /\ Serve /\ UNCHANGED <<mailOf, holdings, runs, told>>

PortfolioNext ==
  \/ \E p \in Owners, m \in Mailboxes \cup {None} : EditMail(p, m)
  \/ \E f \in Exports : ListAccounts(f)
  \/ \E r \in Requests :
       \/ \E f \in Exports : ImportStart(r, f)
       \/ \E a \in Accounts : ImportAccount(r, a)
       \/ ImportCommit(r) \/ PortfolioCrash(r)

PortfolioSpec == PortfolioInit /\ [][PortfolioNext]_portfolioVars

----------------------------------------------------------------------------
(* Properties *)

\* An import that closes an account has told its owner so, whatever else the
\* file changes and whoever the account belonged to before.
ClosureIsTold ==
  [][\A a \in Accounts :
       runs' # runs /\ books[a] # None /\ books'[a] # books[a] /\ books'[a].person # None
       /\ books[a].status # "closed" /\ books'[a].status = "closed"
       => told[<<a, "closed", books'[a].cash>>] = books'[a].person]_portfolioVars
=============================================================================
