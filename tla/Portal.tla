------------------------------- MODULE Portal -------------------------------
(***************************************************************************)
(* The client portal (portal/service.py, routes/portal.py): invitations and*)
(* sign-in, secure threads with their messages and read receipts, and      *)
(* notifications.  What an account reaches follows from its grant and from *)
(* who belongs to which household at the moment.                           *)
(***************************************************************************)
EXTENDS Requests

CONSTANTS
  Emails,    \* normalized addresses, one account for each
  Clients,   \* people
  Families,  \* households
  Notices    \* idempotency keys of notifications

VARIABLES
  client,      \* e-mail -> its portal_accounts row
  grant,       \* e-mail -> its portal_access_grants row
  invitation,  \* e-mail -> "open", "accepted" or "expired"
  resets,      \* portal_auth_tokens, as [email, used]
  sessions,    \* portal_sessions, as [email, live]
  familyOf,    \* person -> people.household_id
  threads,     \* portal_threads, as [person, home, by]
  messages,    \* portal_messages, as [thread, inner]
  receipts,    \* portal_message_receipts, as <<"receipt", message, e-mail>>
  posted,      \* external id of a timeline event -> its message
  delivered,   \* idempotency key -> times its provider was called
  notices,     \* keys on record in portal_notifications
  disturbed    \* history: what a request was about that died or met another

portalPeople == <<client, grant, invitation, resets, sessions, familyOf>>
mailbag == <<threads, messages, receipts, posted>>
portalVars == <<portalPeople, mailbag, delivered, notices, disturbed, requestVars>>

PortalInit ==
  /\ client = << >> /\ grant = << >> /\ invitation = << >>
  /\ resets = <<>> /\ sessions = <<>>
  /\ familyOf \in [Clients -> Families]
  /\ threads = <<>> /\ messages = <<>> /\ receipts = <<>> /\ posted = << >>
  /\ delivered = [k \in Notices |-> 0] /\ notices = {} /\ disturbed = {}
  /\ RequestInit

AccessTypes == {"self", "joint"}
Allowances == {{"messages", "documents"}, {"documents"}}

\* Requests that are about x.
About(x) == {q \in Requests : ~Waits(q) /\ job[q].row = x}

----------------------------------------------------------------------------
(* Accounts *)

\* invite_portal_account: a second account with an address is refused.
Invite(e, p, kind, allows) ==
  /\ e \notin DOMAIN client
  /\ client' = Put(client, e, [status |-> "invited", person |-> p])
  /\ grant' = Put(grant, e, [person |-> IF kind = "self" THEN p ELSE None, home |-> familyOf[p],
                           kind |-> kind, allows |-> allows])
  /\ invitation' = Put(invitation, e, "open")
  /\ Serve /\ UNCHANGED <<resets, sessions, familyOf, mailbag, delivered, notices, disturbed>>

\* Mutant: an invitation counts until it expires.
Unexpired(e) == invitation[e] # "expired"

\* The rows that accept_invitation locks.
Acceptable(e) == invitation[e] = "open"

\* accept_invitation, and sign-in as a second transaction of the same request.
AcceptInvitation(r, e) ==
  /\ e \in DOMAIN invitation /\ Acceptable(e)
  /\ invitation' = [invitation EXCEPT ![e] = "accepted"]
  /\ client' = [client EXCEPT ![e].status = "active"]
  /\ Starts(r, "signing in", <<"sign-in", e>>, None, {})
  /\ UNCHANGED <<grant, resets, sessions, familyOf, mailbag, delivered, notices, disturbed>>

CreatePortalSession(r) ==
  LET e == job[r].row[2]
  IN  /\ Serves(r, "signing in") /\ client[e].status = "active"
      /\ sessions' = Append(sessions, [email |-> e, live |-> TRUE])
      /\ Ends(r)
      /\ UNCHANGED <<client, grant, invitation, resets, familyOf, mailbag, delivered, notices, disturbed>>

RequestPasswordReset(e) ==
  /\ e \in DOMAIN client /\ client[e].status = "active"
  /\ resets' = Append(resets, [email |-> e, used |-> FALSE])
  /\ Serve
  /\ UNCHANGED <<client, grant, invitation, sessions, familyOf, mailbag, delivered, notices, disturbed>>

\* A used token hands over to the identity provider; no session comes of it.
ConsumePasswordReset(n) ==
  /\ ~resets[n].used /\ resets' = [resets EXCEPT ![n].used = TRUE]
  /\ Serve
  /\ UNCHANGED <<client, grant, invitation, sessions, familyOf, mailbag, delivered, notices, disturbed>>

RevokePortalSession(n) ==
  /\ sessions[n].live /\ sessions' = [sessions EXCEPT ![n].live = FALSE]
  /\ Serve
  /\ UNCHANGED <<client, grant, invitation, resets, familyOf, mailbag, delivered, notices, disturbed>>

\* The time of an invitation or of a session runs out.
Expire ==
  /\ \/ /\ \E e \in DOMAIN invitation :
             invitation[e] = "open" /\ invitation' = [invitation EXCEPT ![e] = "expired"]
        /\ UNCHANGED sessions
     \/ /\ \E n \in DOMAIN sessions :
             sessions[n].live /\ sessions' = [sessions EXCEPT ![n].live = FALSE]
        /\ UNCHANGED invitation
  /\ Serve /\ UNCHANGED <<client, grant, resets, familyOf, mailbag, delivered, notices, disturbed>>

\* A person's household is edited outside the portal.
Move(p, h) ==
  /\ familyOf' = [familyOf EXCEPT ![p] = h]
  /\ Serve
  /\ UNCHANGED <<client, grant, invitation, resets, sessions, mailbag, delivered, notices, disturbed>>

----------------------------------------------------------------------------
(* What an account reaches *)

SignedIn(e) ==
  \E n \in DOMAIN sessions :
    sessions[n].live /\ sessions[n].email = e /\ client[e].status = "active"

\* portal_scope with a permission: a grant that does not allow it adds nothing.
Granted(e, permission) == IF permission \in grant[e].allows THEN {grant[e].home} ELSE {}
Shared(e, permission) ==
  IF grant[e].kind = "joint" THEN Granted(e, permission) ELSE {}
Within(e, permission) ==
  {p \in Clients :
     \/ permission \in grant[e].allows /\ grant[e].person = p
     \/ familyOf[p] \in Shared(e, permission)}

\* Mutant: a thread is reached through its person.
ReachesPerson(e, t) == threads[t].person \in Within(e, "messages")

\* The condition of send_message, list_messages and mark_read.
Reaches(e, t) ==
  \/ threads[t].person \in Within(e, "messages")
  \/ threads[t].home \in Shared(e, "messages")

----------------------------------------------------------------------------
(* Messages *)

MessageEvent(t, m) == <<"message", m>>

\* A message is stored in one transaction and told in a second one.
Post(r, t, inner) ==
  LET m == Len(messages) + 1
  IN  /\ messages' = Append(messages, [thread |-> t, inner |-> inner])
      /\ IF inner THEN Serve ELSE Starts(r, "telling", MessageEvent(t, m), <<"message", m>>, {})

\* The scope is read before the transaction; nothing in the code takes back a
\* grant, and a move in between leaves the granted household as it is.
CreateThread(r, e, p, h) ==
  /\ SignedIn(e)
  /\ p \in Within(e, "messages") /\ h \in Granted(e, "messages")
  /\ threads' = Append(threads, [person |-> p, home |-> h, by |-> e])
  /\ Post(r, Len(threads) + 1, FALSE)
  /\ UNCHANGED <<portalPeople, receipts, posted, delivered, notices, disturbed>>

SendMessage(r, e, t) ==
  /\ SignedIn(e) /\ Reaches(e, t) /\ Post(r, t, FALSE)
  /\ UNCHANGED <<portalPeople, threads, receipts, posted, delivered, notices, disturbed>>

StaffSendMessage(r, t, inner) ==
  /\ Post(r, t, inner)
  /\ UNCHANGED <<portalPeople, threads, receipts, posted, delivered, notices, disturbed>>

TellMessage(r) ==
  /\ Serves(r, "telling")
  /\ posted' = Put(posted, job[r].row, job[r].seen)
  /\ Ends(r) /\ UNCHANGED <<portalPeople, threads, messages, receipts, delivered, notices, disturbed>>

\* list_messages
Listed(e, t) == IF Reaches(e, t) THEN {m \in DOMAIN messages : messages[m].thread = t /\ ~messages[m].inner}
                ELSE {}

\* mark_read finds no receipt of this account for the message ...
Unread(e, m) == \A n \in DOMAIN receipts : receipts[n] # <<"receipt", m, e>>

MarkReadStart(r, e, m) ==
  /\ SignedIn(e) /\ ~messages[m].inner /\ Reaches(e, messages[m].thread) /\ Unread(e, m)
  /\ Starts(r, "reading", <<"receipt", m, e>>, None, {})
  /\ disturbed' = disturbed \cup (IF About(<<"receipt", m, e>>) = {} THEN {} ELSE {<<"receipt", m, e>>})
  /\ UNCHANGED <<portalPeople, mailbag, delivered, notices>>

\* ... and stores one; the unique key holds a null and refuses nothing.
MarkReadWrite(r) ==
  /\ Serves(r, "reading") /\ receipts' = Append(receipts, job[r].row)
  /\ Ends(r) /\ UNCHANGED <<portalPeople, threads, messages, posted, delivered, notices, disturbed>>

----------------------------------------------------------------------------
(* Notifications *)

NotOnRecord(k) == k \notin notices

\* notify calls the provider before it stores the row ...
NotifyDeliver(r, k) ==
  /\ NotOnRecord(k)
  /\ delivered' = [delivered EXCEPT ![k] = @ + 1]
  /\ Starts(r, "delivered", <<"notice", k>>, None, {})
  /\ disturbed' = disturbed \cup (IF About(<<"notice", k>>) = {} THEN {} ELSE {<<"notice", k>>})
  /\ UNCHANGED <<portalPeople, mailbag, notices>>

\* ... of which the unique key lets one through.
NotifyStore(r) ==
  /\ Serves(r, "delivered") /\ notices' = notices \cup {job[r].row[2]}
  /\ Ends(r) /\ UNCHANGED <<portalPeople, mailbag, delivered, disturbed>>

----------------------------------------------------------------------------
PortalCrash(r) ==
  /\ Dies(r) /\ disturbed' = disturbed \cup {job[r].row, job[r].seen}
  /\ UNCHANGED <<portalPeople, mailbag, delivered, notices>>

AccountStep ==
  \/ \E e \in Emails :
       \/ \E p \in Clients, kind \in AccessTypes, allows \in Allowances : Invite(e, p, kind, allows)
       \/ RequestPasswordReset(e)
       \/ \E r \in Requests : AcceptInvitation(r, e)
  \/ \E r \in Requests : CreatePortalSession(r)
  \/ \E n \in DOMAIN resets : ConsumePasswordReset(n)
  \/ \E n \in DOMAIN sessions : RevokePortalSession(n)
  \/ Expire
  \/ \E p \in Clients, h \in Families : Move(p, h)

MessageStep ==
  \E r \in Requests :
    \/ TellMessage(r) \/ MarkReadWrite(r) \/ NotifyStore(r) \/ PortalCrash(r)
    \/ \E k \in Notices : NotifyDeliver(r, k)
    \/ \E t \in DOMAIN threads, inner \in BOOLEAN : StaffSendMessage(r, t, inner)
    \/ \E e \in DOMAIN client :
         \/ \E p \in Clients, h \in Families : CreateThread(r, e, p, h)
         \/ \E t \in DOMAIN threads : SendMessage(r, e, t)
         \/ \E m \in DOMAIN messages : MarkReadStart(r, e, m)

PortalNext == AccountStep \/ MessageStep

PortalSpec == PortalInit /\ [][PortalNext]_portalVars

----------------------------------------------------------------------------
(* Properties *)

\* Whoever opened a thread goes on finding it and what clients may see of it,
\* though the person it is about has moved to another household since.
WriterReads ==
  \A t \in DOMAIN threads, m \in DOMAIN messages :
    messages[m].thread = t /\ ~messages[m].inner => m \in Listed(threads[t].by, t)

\* Every message that clients may see has an event of its own on the timeline,
\* unless the request that sent it died or has yet to tell it; a note of the
\* staff has none.
PostedIsTold ==
  \A m \in DOMAIN messages :
    IF messages[m].inner THEN <<"message", m>> \notin {posted[x] : x \in DOMAIN posted}
    ELSE \/ <<"message", m>> \in {posted[x] : x \in DOMAIN posted}
         \/ <<"message", m>> \in disturbed
         \/ \E r \in Requests : Serves(r, "telling") /\ job[r].seen = <<"message", m>>

\* An invitation leads to at most one session, however often its link is followed
\* and although accepting and signing in are two transactions; a message is read
\* once by an account, and a notification delivered once, except where two
\* requests met or one died.
OnceEach ==
  /\ \A e \in DOMAIN client : Cardinality({n \in DOMAIN sessions : sessions[n].email = e}) <= 1
  /\ \A i, j \in DOMAIN receipts : receipts[i] = receipts[j] => i = j \/ receipts[i] \in disturbed
  /\ \A k \in Notices : delivered[k] > 1 => <<"notice", k>> \in disturbed

\* Threads and their messages reach their readers.
ThreadsKept == WriterReads /\ PostedIsTold
=============================================================================
