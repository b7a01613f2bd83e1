-------------------------- MODULE MicrosoftAccount --------------------------
(***************************************************************************)
(* The connected Microsoft 365 account: signing in and out in the browser  *)
(* (microsoft365_oauth.py) beside the sync jobs, which read the account's  *)
(* row, refresh its token cache and write both the cache and the outcome   *)
(* back by id (microsoft_identity.py).                                     *)
(***************************************************************************)
EXTENDS Requests

VARIABLES
  session,  \* the browser session: a subset of {"flow", "user"}
  account,  \* the row of microsoft_accounts, or None
  home,     \* history: the row that each sign-in was stored in, in turn
  rows      \* sequence of ids: rows inserted so far

accountVars == <<session, account, home, rows, requestVars>>

AccountInit ==
  /\ session = {} /\ account = None
  /\ home = <<>> /\ rows = 0
  /\ RequestInit

\* The row: its id, the sign-in its encrypted token cache descends from, and
\* what the last job reported.
Account(id, signIn, health) == [id |-> id, signIn |-> signIn, health |-> health]

\* connect_microsoft365
Connect ==
  /\ session' = session \cup {"flow"}
  /\ Serve /\ UNCHANGED <<account, home, rows>>

\* microsoft365_callback: the flow is used up whatever Microsoft answers, except
\* when the answer does not belong to it.  A sign-in that succeeds is stored: the
\* row of the tenant's user is inserted or gets the new cache.
CallbackFails ==
  /\ "flow" \in session
  /\ session' \in {session, session \ {"flow"}}
  /\ Serve /\ UNCHANGED <<account, home, rows>>

Callback ==
  /\ "flow" \in session
  /\ account' = IF account = None THEN Account(rows + 1, Len(home) + 1, "none")
                ELSE [account EXCEPT !.signIn = Len(home) + 1]
  /\ rows' = IF account = None THEN rows + 1 ELSE rows
  /\ home' = Append(home, account'.id)
  /\ session' = {"user"}
  /\ Serve

\* disconnect_microsoft365: only a session that has signed in deletes the row.
Disconnect ==
  /\ account' = IF "user" \in session THEN None ELSE account
  /\ session' = {}
  /\ Serve /\ UNCHANGED <<home, rows>>

----------------------------------------------------------------------------
(* The start and the end of a sync job *)

\* Mutant: the row is found by its user, and put back when it is gone.
AddressedByUser(a) == Account(IF account = None THEN a.id ELSE account.id, a.signIn, a.health)

\* An update by id: nothing happens when the row has been deleted since.
Addressed(a) == IF account # None /\ account.id = a.id THEN a ELSE account

\* The job picks the account; there being none is an error.
JobStart(r) ==
  /\ account # None
  /\ Starts(r, "token", None, account, {})
  /\ UNCHANGED <<session, account, home, rows>>

\* get_microsoft_access_token: the cache that was read still does, or it is
\* refreshed and persisted.
TokenValid(r) ==
  /\ Serves(r, "token")
  /\ Goes(r, "sync", None, job[r].seen, {})
  /\ UNCHANGED <<session, account, home, rows>>

TokenRefreshed(r) ==
  /\ Serves(r, "token")
  /\ account' = IF account = None THEN Addressed(job[r].seen)
                ELSE Addressed([job[r].seen EXCEPT !.health = account.health])
  /\ Goes(r, "sync", None, job[r].seen, {})
  /\ UNCHANGED <<session, home, rows>>

\* record_sync_health, after a token that could not be had and after a sync.
HealthRecorded(r, health) ==
  /\ Serves(r, IF health = "error" THEN "token" ELSE "sync")
  /\ account' = IF account # None /\ account.id = job[r].seen.id
                THEN [account EXCEPT !.health = health] ELSE account
  /\ Ends(r) /\ UNCHANGED <<session, home, rows>>

\* A sync that Microsoft or the database breaks off records nothing.
AccountCrash(r) == Dies(r) /\ UNCHANGED <<session, account, home, rows>>

AccountNext ==
  \/ Connect \/ CallbackFails \/ Callback \/ Disconnect
  \/ \E r \in Requests :
       JobStart(r) \/ TokenValid(r) \/ TokenRefreshed(r) \/ AccountCrash(r)
       \/ \E health \in {"ok", "error"} : HealthRecorded(r, health)

AccountSpec == AccountInit /\ [][AccountNext]_accountVars

----------------------------------------------------------------------------
(* Properties *)

\* Disconnecting is final for the tokens it deletes: a job that has read the
\* account before writes into that very row or nowhere, so a row only ever
\* holds the tokens of a sign-in that was stored in it.
DisconnectForgets == account # None => home[account.signIn] = account.id
=============================================================================
