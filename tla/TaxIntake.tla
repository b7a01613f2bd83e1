----------------------------- MODULE TaxIntake -----------------------------
(***************************************************************************)
(* The intake of one tax return: letter, organizer and questionnaire, the  *)
(* checklist of documents and the portal requests that ask for them        *)
(* (tax_intake.py, the requests of portal/service.py), the links by which  *)
(* uploads are matched to checklist items and reviewed                     *)
(* (tax_document_intelligence.py), the record of what is missing, and the  *)
(* two workflow steps the intake completes.                                *)
(***************************************************************************)
EXTENDS Requests

CONSTANTS
  Items,      \* the items of the checklist template
  Required,   \* those a return cannot do without
  Documents,  \* files the client has
  Content,    \* document -> what its hash identifies
  MaxLinks    \* bound: links made

ASSUME ItemAssumption == Required \subseteq Items /\ None \notin Items

VARIABLES
  papers,     \* letter, organizer, questionnaire -> "none", "open", "done"
  checklist,  \* item -> its row, or None
  requests,   \* item -> the portal request for it, or None
  missing,    \* item -> its rows of tax_missing_items, as [open, resolved]
  links,      \* rows of tax_document_links, by id
  steps,      \* the workflow steps "intake" and "documents"
  apart,      \* history: no two requests have been under way at once
  moved       \* history: an accepted link has been classified anew

intakeVars == <<papers, checklist, requests, missing, links, steps, apart, moved, requestVars>>
files == <<checklist, missing, links>>
history == <<apart, moved>>

Papers == {"letter", "organizer", "questionnaire"}
Link(d, i, status) == [document |-> d, item |-> i, status |-> status]

IntakeInit ==
  /\ papers = [k \in Papers |-> "none"]
  /\ checklist = [i \in Items |-> None] /\ requests = [i \in Items |-> None]
  /\ missing = [i \in Items |-> [open |-> 0, resolved |-> 0]]
  /\ links = <<>>
  /\ steps = [intake |-> "active", documents |-> "pending"]
  /\ apart = TRUE /\ moved = FALSE
  /\ RequestInit

\* Every request of this module that takes several transactions starts here.
Begins(r, place, row, seen, todo) ==
  /\ Starts(r, place, row, seen, todo)
  /\ apart' = (apart /\ \A q \in Requests : Waits(q))

----------------------------------------------------------------------------
(* launch_intake *)

Launched == papers.organizer # "none"

\* The first transaction stops every later launch; a unique key, every other.
Launch(r) ==
  /\ ~Launched
  /\ papers' = [k \in Papers |-> "open"]
  /\ Begins(r, "launch", None, None, Items)
  /\ UNCHANGED <<files, requests, steps, moved>>

\* For each item the portal request comes first ...
LaunchRequest(r, i) ==
  /\ Serves(r, "launch") /\ i \in job[r].todo
  /\ requests' = [requests EXCEPT ![i] = [status |-> "open", document |-> None]]
  /\ Goes(r, "item", i, None, job[r].todo \ {i})
  /\ UNCHANGED <<papers, files, steps, history>>

\* ... and then its checklist row and the record that it is missing.
LaunchItem(r) ==
  LET i == job[r].row
  IN  /\ Serves(r, "item")
      /\ checklist' = [checklist EXCEPT ![i] = [status |-> "missing", document |-> None]]
      /\ missing' = [missing EXCEPT ![i].open = IF i \in Required THEN @ + 1 ELSE @]
      /\ IF job[r].todo = {} THEN Ends(r) ELSE Goes(r, "launch", None, None, job[r].todo)
      /\ UNCHANGED <<papers, requests, links, steps, history>>

----------------------------------------------------------------------------
(* Forms, and _advance at the end of each service *)

\* accept_letter is final; save_organizer and save_questionnaire are not: what
\* is saved after completion, without completing again, opens the form.
SaveForm(r, k, complete) ==
  /\ Launched
  /\ k = "letter" => complete /\ papers[k] # "done"
  /\ papers' = [papers EXCEPT ![k] = IF complete THEN "done" ELSE "open"]
  /\ Begins(r, "advance", None, None, {})
  /\ UNCHANGED <<files, requests, steps, moved>>

Received(i) == checklist[i] # None /\ checklist[i].status = "received"

\* The gates of intake_detail.
FormsDone == \A k \in Papers : papers[k] = "done"
DocumentsDone == \A i \in Items : checklist[i] # None /\ i \in Required => Received(i)

\* The gates are read, and acted upon in later transactions.
AdvanceRead(r) ==
  /\ Serves(r, "advance")
  /\ Goes(r, "gates", None, [forms |-> FormsDone, documents |-> DocumentsDone], {})
  /\ UNCHANGED <<papers, files, requests, steps, history>>

AdvanceIntake(r) ==
  /\ Serves(r, "gates")
  /\ steps' = IF job[r].seen.forms /\ steps.intake = "active"
              THEN [intake |-> "completed", documents |-> "active"] ELSE steps
  /\ IF job[r].seen.forms /\ job[r].seen.documents
     THEN Goes(r, "documents", None, None, {}) ELSE Ends(r)
  /\ UNCHANGED <<papers, files, requests, history>>

AdvanceDocuments(r) ==
  /\ Serves(r, "documents")
  /\ steps' = IF steps.documents = "active" THEN [steps EXCEPT !.documents = "completed"] ELSE steps
  /\ Ends(r) /\ UNCHANGED <<papers, files, requests, history>>

----------------------------------------------------------------------------
(* Uploads: confirm_request_upload, approve_request_upload, sync_documents *)

Uploaded(d) == \/ \E i \in Items : requests[i] # None /\ requests[i].document = d
               \/ \E l \in 1..Len(links) : links[l].document = d

\* What is up to date in the portal, for a sync to take.
Synced == {i \in Items : /\ checklist[i] # None /\ requests[i] # None
                         /\ requests[i].status \in {"uploaded", "approved"}}

\* A request takes an upload whatever its status; the sync follows at once if
\* the request belongs to a checklist item.
Upload(r, i, d) ==
  /\ requests[i] # None /\ ~Uploaded(d)
  /\ requests' = [requests EXCEPT ![i] = [status |-> "uploaded", document |-> d]]
  /\ IF checklist[i] = None THEN Serve /\ UNCHANGED apart ELSE Begins(r, "sync", None, None, {})
  /\ UNCHANGED <<papers, files, steps, moved>>

Decide(i, status) ==
  /\ requests[i] # None /\ requests[i].status = "uploaded"
  /\ requests' = [requests EXCEPT ![i].status = status]
  /\ Serve /\ UNCHANGED <<papers, files, steps, history>>

SyncStart(r) ==
  /\ Launched
  /\ Begins(r, "sync", None, None, {})
  /\ UNCHANGED <<papers, files, requests, steps, moved>>

SyncRead(r) ==
  /\ Serves(r, "sync")
  /\ Goes(r, "ingest", None, None, {<<i, requests[i].document>> : i \in Synced})
  /\ UNCHANGED <<papers, files, requests, steps, history>>

----------------------------------------------------------------------------
(* _ingest: a document that no live link has yet gets one.  Its portal       *)
(* request settles whose it is; a document with the content of an accepted   *)
(* one goes to review.                                                       *)

Live(d) == \E l \in 1..Len(links) : links[l].document = d /\ links[l].status # "rejected"
AcceptedFor(d) == \E l \in 1..Len(links) : links[l].document = d /\ links[l].status = "accepted"
Duplicate(d) == \E e \in Documents \ {d} : Content[e] = Content[d] /\ AcceptedFor(e)

\* _resolve_checklist
Resolved(i, d) ==
  /\ checklist' = [checklist EXCEPT ![i] = [status |-> "received", document |-> d]]
  /\ missing' = [missing EXCEPT ![i] = [open |-> 0, resolved |-> @.resolved + @.open]]

IngestRead(r, pair) ==
  /\ Serves(r, "ingest") /\ pair \in job[r].todo
  /\ IF Live(pair[2]) THEN Goes(r, "ingest", None, None, job[r].todo \ {pair})
     ELSE /\ Len(links) < MaxLinks
          /\ Goes(r, "link", pair, IF Duplicate(pair[2]) THEN "proposed" ELSE "accepted",
                  job[r].todo \ {pair})
  /\ UNCHANGED <<papers, files, requests, steps, history>>

\* The ownership checks pass here: an upload is only confirmed for the person
\* that the request is about, and the signal of a request names the same one.
\* The index on accepted links lets one of two ingests through; the other
\* returns the link it finds.
IngestWrite(r) ==
  LET i == job[r].row[1]  d == job[r].row[2]
  IN  /\ Serves(r, "link")
      /\ IF job[r].seen = "accepted" /\ AcceptedFor(d) THEN UNCHANGED files
         ELSE /\ Len(links) < MaxLinks
              /\ links' = Append(links, Link(d, i, job[r].seen))
              /\ IF job[r].seen = "accepted" THEN Resolved(i, d) ELSE UNCHANGED <<checklist, missing>>
      /\ Goes(r, "ingest", None, None, job[r].todo)
      /\ UNCHANGED <<papers, requests, steps, history>>

\* compute_missing: the rows to open and to resolve are read and then written.
Satisfied(i) == Received(i) /\ checklist[i].document # None

ComputeRead(r) ==
  /\ Serves(r, "ingest") /\ job[r].todo = {}
  /\ LET rows == {i \in Items : checklist[i] # None}
     IN  Goes(r, "compute", None,
              [open |-> {i \in rows \cap Required : ~Satisfied(i) /\ missing[i].open = 0},
               resolve |-> {i \in rows : Satisfied(i) /\ missing[i].open > 0}], {})
  /\ UNCHANGED <<papers, files, requests, steps, history>>

ComputeWrite(r) ==
  /\ Serves(r, "compute")
  /\ missing' = [i \in Items |->
       [open |-> missing[i].open + (IF i \in job[r].seen.open THEN 1 ELSE 0)
                  - (IF i \in job[r].seen.resolve /\ missing[i].open > 0 THEN 1 ELSE 0),
        resolved |-> missing[i].resolved
                  + (IF i \in job[r].seen.resolve /\ missing[i].open > 0 THEN 1 ELSE 0)]]
  /\ Goes(r, "advance", None, None, {})
  /\ UNCHANGED <<papers, checklist, links, requests, steps, history>>

----------------------------------------------------------------------------
(* review_action: the link is read, judged and written by id *)

AllowedFrom ==
  [accept |-> {"proposed"}, reject |-> {"proposed"}, reassign |-> {"proposed", "rejected"},
   classify |-> {"proposed", "accepted"}, duplicate |-> {"proposed"}, revert |-> {"accepted"}]
Actions == DOMAIN AllowedFrom

\* A classification names an item of the checklist, or none.
ReviewRead(r, l, action, i) ==
  /\ links[l].status \in AllowedFrom[action]
  /\ i # None => action = "classify" /\ checklist[i] # None
  /\ Begins(r, "review", l, [action |-> action, item |-> i, link |-> links[l]], {})
  /\ UNCHANGED <<papers, files, requests, steps, moved>>

\* Mutant: the item stays received.
RevertedInPart(i) ==
  /\ missing' = [missing EXCEPT ![i] = [open |-> @.open + @.resolved, resolved |-> 0]]
  /\ UNCHANGED checklist

\* A reverted link gives its item back, whoever has satisfied it since.
Reverted(i) ==
  /\ checklist' = [checklist EXCEPT ![i] = [status |-> "missing", document |-> None]]
  /\ missing' = [missing EXCEPT ![i] = [open |-> @.open + @.resolved, resolved |-> 0]]

\* An accept that the index on accepted links refuses is rolled back.
ReviewWrite(r) ==
  LET l == job[r].row
      link == job[r].seen.link
      action == job[r].seen.action
      Becomes(row) == links' = [links EXCEPT ![l] = row]
      NoItem == UNCHANGED <<checklist, missing>>
  IN  /\ Serves(r, "review")
      /\ \/ /\ action = "accept"
            /\ ~\E k \in 1..Len(links) : k # l /\ links[k].document = link.document /\ links[k].status = "accepted"
            /\ Becomes([links[l] EXCEPT !.status = "accepted"])
            /\ IF link.item = None THEN NoItem ELSE Resolved(link.item, link.document)
         \/ action = "reject" /\ Becomes([links[l] EXCEPT !.status = "rejected"]) /\ NoItem
         \/ action = "reassign" /\ Becomes(Link(link.document, None, "proposed")) /\ NoItem
         \/ action = "classify" /\ Becomes([links[l] EXCEPT !.item = job[r].seen.item]) /\ NoItem
         \/ action = "duplicate" /\ Becomes([links[l] EXCEPT !.status = "superseded"]) /\ NoItem
         \/ /\ action = "revert"
            /\ Becomes([links[l] EXCEPT !.status = "proposed"])
            /\ IF link.item = None THEN NoItem ELSE Reverted(link.item)
      /\ moved' = (moved \/ (action = "classify" /\ link.status = "accepted"))
      /\ Ends(r) /\ UNCHANGED <<papers, requests, steps, apart>>

IntakeCrash(r) == Dies(r) /\ UNCHANGED <<papers, files, requests, steps, history>>

IntakeNext ==
  \E r \in Requests :
    \/ Launch(r) \/ LaunchItem(r) \/ AdvanceRead(r) \/ AdvanceIntake(r) \/ AdvanceDocuments(r)
    \/ SyncStart(r) \/ SyncRead(r) \/ IngestWrite(r) \/ ComputeRead(r) \/ ComputeWrite(r)
    \/ ReviewWrite(r) \/ IntakeCrash(r)
    \/ \E k \in Papers, complete \in BOOLEAN : SaveForm(r, k, complete)
    \/ \E i \in Items : \/ LaunchRequest(r, i)
                        \/ \E status \in {"approved", "rejected"} : Decide(i, status)
                        \/ \E d \in Documents : Upload(r, i, d) \/ IngestRead(r, <<i, d>>)
    \/ \E l \in 1..Len(links), action \in Actions, i \in Items \cup {None} : ReviewRead(r, l, action, i)

IntakeSpec == IntakeInit /\ [][IntakeNext]_intakeVars

----------------------------------------------------------------------------
(* Properties *)

\* While requests are served one after the other, wherever they die: a received
\* item has an accepted document of its own (unless somebody has classified an
\* accepted link anew) ...
ReceivedIsAccepted ==
  apart /\ ~moved =>
    \A i \in Items : Received(i) =>
      \E l \in 1..Len(links) : links[l] = Link(checklist[i].document, i, "accepted")

\* ... and a required item that is not received is on record as missing, so
\* that the client is reminded of it.
MissingIsOnRecord ==
  apart => \A i \in Required : checklist[i] # None /\ ~Received(i) => missing[i].open > 0

\* The checklist and the documents agree.
ChecklistHonest == ReceivedIsAccepted /\ MissingIsOnRecord
=============================================================================
