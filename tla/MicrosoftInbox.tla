--------------------------- MODULE MicrosoftInbox ---------------------------
(***************************************************************************)
(* Mail and meetings of Microsoft 365 and the people they belong to: the   *)
(* two sync jobs (microsoft_mail_sync.py, microsoft_calendar_sync.py), the *)
(* reviews of senders and attendees nobody was found for                   *)
(* (microsoft365_inbox_review.py, microsoft365_calendar.py) and the        *)
(* timeline.  Every row a sync or a review writes is a transaction.        *)
(***************************************************************************)
EXTENDS Requests

CONSTANTS
  Messages, Meetings, Addresses, People,
  Sender,     \* message -> address
  Attendees,  \* meeting -> addresses, the owner's left out
  Top         \* messages a sync asks for

ASSUME InboxAssumption == None \notin People

VARIABLES
  addressOf,  \* person -> his address, or None
  mailbox,    \* messages received, oldest first
  calendar,   \* meeting -> "none", "planned", "cancelled"
  unmatched,  \* message -> row of microsoft_unmatched_messages, or None
  attendees,  \* <<meeting, address>> -> row of ..._calendar_attendees, or None
  mail,       \* message -> the person whose timeline shows it, or None
  agenda,     \* <<meeting, person>> pairs on timelines
  cut         \* history: meetings at which a calendar sync has died

inboxVars == <<addressOf, mailbox, calendar, unmatched, attendees, mail, agenda, cut, requestVars>>
tables == <<unmatched, attendees, mail, agenda>>
outside == <<addressOf, mailbox, calendar, cut>>

Invited == {i \in Meetings \X Addresses : i[2] \in Attendees[i[1]]}

InboxInit ==
  /\ addressOf = [p \in People |-> None]
  /\ mailbox = <<>> /\ calendar = [e \in Meetings |-> "none"]
  /\ unmatched = [m \in Messages |-> None] /\ attendees = [i \in Invited |-> None]
  /\ mail = [m \in Messages |-> None] /\ agenda = {} /\ cut = {}
  /\ RequestInit

Row(status, p) == [status |-> status, person |-> p]

\* Outside: mail arrives, meetings are planned and called off, staff edit people.
Receive(m) ==
  /\ \A n \in 1..Len(mailbox) : mailbox[n] # m
  /\ mailbox' = Append(mailbox, m)
  /\ UNCHANGED <<addressOf, calendar, cut, tables, requestVars>>

Plan(e) ==
  /\ calendar[e] # "cancelled"
  /\ calendar' = [calendar EXCEPT ![e] = IF @ = "none" THEN "planned" ELSE "cancelled"]
  /\ UNCHANGED <<addressOf, mailbox, cut, tables, requestVars>>

EditPerson(p, a) ==
  /\ addressOf' = [addressOf EXCEPT ![p] = a]
  /\ Serve /\ UNCHANGED <<mailbox, calendar, cut, tables>>

\* The upsert of either queue leaves the status of a row alone.
Queued(row) == IF row = None THEN Row("pending", None) ELSE row

----------------------------------------------------------------------------
(* sync_recent_mail *)

MailStart(r) ==
  /\ Starts(r, "mail", None, addressOf,
            {m \in Messages : \E n \in 1..Len(mailbox) : mailbox[n] = m /\ n > Len(mailbox) - Top})
  /\ UNCHANGED <<outside, tables>>

\* Of several people with the address the row read last counts.
MailStep(r, m) ==
  LET senders == {p \in People : job[r].seen[p] = Sender[m]}
  IN  /\ Serves(r, "mail") /\ m \in job[r].todo
      /\ IF senders = {}
         THEN unmatched' = [unmatched EXCEPT ![m] = Queued(@)] /\ UNCHANGED mail
         ELSE (\E p \in senders : mail' = [mail EXCEPT ![m] = p]) /\ UNCHANGED unmatched
      /\ IF job[r].todo = {m} THEN Ends(r) ELSE Goes(r, "mail", None, job[r].seen, job[r].todo \ {m})
      /\ UNCHANGED <<outside, attendees, agenda>>

----------------------------------------------------------------------------
(* sync_calendar_events *)

\* build_person_email_index leaves out an address that several people have.
Known(index, a) == \E p \in People : {q \in People : index[q] = a} = {p}
Owner(index, a) == CHOOSE p \in People : index[p] = a

CalendarStart(r) ==
  /\ Starts(r, "calendar", None, addressOf, {e \in Meetings : calendar[e] = "planned"})
  /\ UNCHANGED <<outside, tables>>

\* Of one event, pending attendees who are known now are resolved first ...
CalendarResolve(r, e) ==
  LET known == {a \in Attendees[e] : Known(job[r].seen, a)}
      due(i) == i[1] = e /\ i[2] \in known /\ attendees[i] # None /\ attendees[i].status = "pending"
  IN  /\ Serves(r, "calendar") /\ e \in job[r].todo
      /\ attendees' = [i \in Invited |->
                         IF due(i) THEN Row("matched", Owner(job[r].seen, i[2])) ELSE attendees[i]]
      /\ Goes(r, "event", e, job[r].seen, job[r].todo \ {e})
      /\ UNCHANGED <<outside, unmatched, mail, agenda>>

\* ... then the event is published to those found, and the others are queued.
CalendarPublish(r) ==
  LET e == job[r].row
      known == {a \in Attendees[e] : Known(job[r].seen, a)}
  IN  /\ Serves(r, "event")
      /\ agenda' = agenda \cup {<<e, Owner(job[r].seen, a)>> : a \in known}
      /\ attendees' = [i \in Invited |->
                         IF i[1] = e /\ i[2] \notin known THEN Queued(attendees[i]) ELSE attendees[i]]
      /\ IF job[r].todo = {} THEN Ends(r) ELSE Goes(r, "calendar", None, job[r].seen, job[r].todo)
      /\ UNCHANGED <<outside, unmatched, mail>>

----------------------------------------------------------------------------
(* The reviews: what is pending is read, published and then written by id *)

Pending(row) == row # None /\ row.status = "pending"

IgnoreMessage(m) ==
  /\ Pending(unmatched[m])
  /\ unmatched' = [unmatched EXCEPT ![m] = Row("ignored", None)]
  /\ Serve /\ UNCHANGED <<outside, attendees, mail, agenda>>

IgnoreAttendee(i) ==
  /\ Pending(attendees[i])
  /\ attendees' = [attendees EXCEPT ![i] = Row("ignored", None)]
  /\ Serve /\ UNCHANGED <<outside, unmatched, mail, agenda>>

\* match_message_to_person
MatchMessage(r, m, p) ==
  /\ Pending(unmatched[m])
  /\ Starts(r, "publish mail", m, p, {})
  /\ UNCHANGED <<outside, tables>>

\* create_contact_from_message: the sender becomes a person in the transaction
\* that looks for him.
CreateContact(r, m, p) ==
  /\ Pending(unmatched[m])
  /\ addressOf[p] = None /\ \A q \in People : addressOf[q] # Sender[m]
  /\ addressOf' = [addressOf EXCEPT ![p] = Sender[m]]
  /\ Starts(r, "publish mail", m, p, {})
  /\ UNCHANGED <<mailbox, calendar, cut, tables>>

\* match_calendar_attendee
MatchAttendee(r, i, p) ==
  /\ Pending(attendees[i])
  /\ Starts(r, "publish meeting", i, p, {})
  /\ UNCHANGED <<outside, tables>>

\* Mutant: the row is written before the timeline.
PublishedLater == {"publish mail", "publish meeting"}

\* Where a review writes its row: after the timeline has the event.
Published == {"write mail", "write meeting"}

ReviewPublish(r) ==
  /\ job[r].at \in {"publish mail", "publish meeting"}
  /\ IF Serves(r, "publish mail")
     THEN mail' = [mail EXCEPT ![job[r].row] = job[r].seen] /\ UNCHANGED agenda
     ELSE agenda' = agenda \cup {<<job[r].row[1], job[r].seen>>} /\ UNCHANGED mail
  /\ Goes(r, IF Serves(r, "publish mail") THEN "write mail" ELSE "write meeting",
          job[r].row, job[r].seen, {})
  /\ UNCHANGED <<outside, unmatched, attendees>>

ReviewWrite(r) ==
  LET row == Row("matched", job[r].seen)
  IN  /\ job[r].at \in Published
      /\ IF job[r].at \in {"write mail", "publish mail"}
         THEN unmatched' = [unmatched EXCEPT ![job[r].row] = row] /\ UNCHANGED attendees
         ELSE attendees' = [attendees EXCEPT ![job[r].row] = row] /\ UNCHANGED unmatched
      /\ Ends(r) /\ UNCHANGED <<outside, mail, agenda>>

InboxCrash(r) ==
  /\ Dies(r)
  /\ cut' = IF Serves(r, "event") THEN cut \cup {job[r].row} ELSE cut
  /\ UNCHANGED <<addressOf, mailbox, calendar, tables>>

InboxNext ==
  \/ \E m \in Messages : Receive(m) \/ IgnoreMessage(m)
  \/ \E e \in Meetings : Plan(e)
  \/ \E p \in People, a \in Addresses \cup {None} : EditPerson(p, a)
  \/ \E i \in Invited : IgnoreAttendee(i)
  \/ \E r \in Requests :
       \/ MailStart(r) \/ CalendarStart(r) \/ CalendarPublish(r)
       \/ \E m \in Messages : MailStep(r, m)
       \/ \E e \in Meetings : CalendarResolve(r, e)
       \/ \E p \in People : \/ \E m \in Messages : MatchMessage(r, m, p) \/ CreateContact(r, m, p)
                            \/ \E i \in Invited : MatchAttendee(r, i, p)
       \/ ReviewPublish(r) \/ ReviewWrite(r) \/ InboxCrash(r)

InboxSpec == InboxInit /\ [][InboxNext]_inboxVars

----------------------------------------------------------------------------
(* Properties *)

\* A queue calls nothing matched that no timeline shows: a message is on the
\* timeline of somebody, and a meeting on its attendee's own - which a sync
\* writes after the queue, so that the meetings at which one died are excepted.
MatchedIsShown ==
  /\ \A m \in Messages :
       unmatched[m] # None /\ unmatched[m].status = "matched" => mail[m] # None
  /\ \A i \in Invited :
       attendees[i] # None /\ attendees[i].status = "matched"
         => \/ <<i[1], attendees[i].person>> \in agenda \/ i[1] \in cut
            \/ \E r \in Requests : Serves(r, "event") /\ job[r].row = i[1]
=============================================================================
