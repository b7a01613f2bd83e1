------------------------- MODULE MicrosoftDocuments -------------------------
(***************************************************************************)
(* One drive of Microsoft 365, the documents stored of it and what the     *)
(* timeline shows (microsoft_document_sync.py, the documents review of     *)
(* microsoft365_documents.py).  A sync asks for the changes since the      *)
(* delta link it has read, stores and publishes one item after the other,  *)
(* each in a transaction, and saves the new link last.                     *)
(***************************************************************************)
EXTENDS Requests

CONSTANTS
  Items,     \* files of the drive
  Persons,    \* persons
  MaxEdits   \* bound: changes made in Microsoft 365

ASSUME DocumentAssumption ==
  /\ None \notin Persons
  /\ None \notin [person : Persons \cup {None}, status : {"pending", "matched", "ignored"}, deleted : BOOLEAN]

VARIABLES
  log,       \* the drive: its changes, oldest first, as [item, deleted]
  matches,   \* item -> the person the rules and addresses give now, or None
  documents, \* item -> the row of microsoft_documents, or None
  link,      \* the drive's delta link: changes it has behind it
  timeline,  \* item -> the person whose timeline shows it, or None
  apart,     \* history: no two syncs have been under way at once
  lost        \* history: items whose sync died before it published them

documentVars == <<log, matches, documents, link, timeline, apart, lost, requestVars>>

DocumentInit ==
  /\ log = <<>> /\ link = 0 /\ apart = TRUE /\ lost = {}
  /\ matches = [i \in Items |-> None]
  /\ documents = [i \in Items |-> None] /\ timeline = [i \in Items |-> None]
  /\ RequestInit

Syncing(r) == job[r].at \in {"fetch", "store", "publish"}

\* Outside: somebody edits or deletes a file, staff record an address or rule.
DriveChanges(i, deleted) ==
  /\ Len(log) < MaxEdits
  /\ log' = Append(log, [item |-> i, deleted |-> deleted])
  /\ UNCHANGED <<matches, documents, link, timeline, apart, lost, requestVars>>

MatchingChanges(i, p) ==
  /\ matches' = [matches EXCEPT ![i] = p]
  /\ Serve /\ UNCHANGED <<log, documents, link, timeline, apart, lost>>

\* The changes behind a link, in order; the last one of an item stands for
\* those before it.
LastChange(i, upto) ==
  IF \A n \in 1..upto : log[n].item # i THEN 0
  ELSE CHOOSE n \in 1..upto : log[n].item = i /\ \A m \in n+1..upto : log[m].item # i
Delta(from) == {n \in from+1..Len(log) : n = LastChange(log[n].item, Len(log))}

----------------------------------------------------------------------------
(* sync_microsoft_documents *)

\* The people and rules are read once, for all drives.
SyncStart(r) ==
  /\ Starts(r, "fetch", None, matches, {})
  /\ apart' = (apart /\ \A q \in Requests : ~Syncing(q))
  /\ UNCHANGED <<log, matches, documents, link, timeline, lost>>

\* The link is read and the pages behind it are fetched.
SyncFetch(r) ==
  /\ Serves(r, "fetch")
  /\ Goes(r, "store", [upto |-> Len(log), change |-> None], job[r].seen, Delta(link))
  /\ UNCHANGED <<log, matches, documents, link, timeline, apart, lost>>

Document(p) == [person |-> p, status |-> IF p = None THEN "pending" ELSE "matched", deleted |-> FALSE]

\* The upsert: without a match the person, and with him the status, stays.
Stored(i, p) ==
  IF documents[i] = None THEN Document(p)
  ELSE IF p = None THEN [documents[i] EXCEPT !.deleted = FALSE] ELSE Document(p)

\* Whether the timeline is told of an item.
OnTimeline(i, p) == p # None

\* store_microsoft_document for the next item.
SyncStore(r) ==
  LET n == CHOOSE m \in job[r].todo : \A o \in job[r].todo : m <= o
      i == log[n].item
      p == job[r].seen[i]
  IN  /\ Serves(r, "store") /\ job[r].todo # {}
      /\ IF log[n].deleted
         THEN /\ documents' = IF documents[i] = None THEN documents
                              ELSE [documents EXCEPT ![i].deleted = TRUE]
              /\ Goes(r, "store", job[r].row, job[r].seen, job[r].todo \ {n})
         ELSE /\ documents' = [documents EXCEPT ![i] = Stored(i, p)]
              /\ Goes(r, IF OnTimeline(i, p) THEN "publish" ELSE "store",
                      [job[r].row EXCEPT !.change = n], job[r].seen, job[r].todo \ {n})
      /\ UNCHANGED <<log, matches, link, timeline, apart, lost>>

\* The timeline has one event for an item, which is updated.
SyncPublish(r) ==
  LET i == log[job[r].row.change].item
  IN  /\ Serves(r, "publish")
      /\ timeline' = [timeline EXCEPT ![i] = job[r].seen[i]]
      /\ Goes(r, "store", job[r].row, job[r].seen, job[r].todo)
      /\ lost' = lost \ {i}
      /\ UNCHANGED <<log, matches, documents, link, apart>>

\* Mutant: the link is saved before the items are stored.
SavedEarly(r) == Serves(r, "store")

\* When the link is saved: every item has been stored and published.
Saved(r) == Serves(r, "store") /\ job[r].todo = {}

SyncSave(r) ==
  /\ Saved(r)
  /\ link' = job[r].row.upto
  /\ Ends(r) /\ UNCHANGED <<log, matches, documents, timeline, apart, lost>>

----------------------------------------------------------------------------
(* The review of documents nobody was matched to *)

AwaitsReview(i) == documents[i] # None /\ documents[i].status = "pending"

IgnoreDocument(i) ==
  /\ AwaitsReview(i)
  /\ documents' = [documents EXCEPT ![i].status = "ignored"]
  /\ Serve /\ UNCHANGED <<log, matches, link, timeline, apart, lost>>

\* match_document reads, publishes and writes in three transactions.
ReviewRead(r, i, p) ==
  /\ AwaitsReview(i)
  /\ Starts(r, "review", i, p, {})
  /\ UNCHANGED <<log, matches, documents, link, timeline, apart, lost>>

DocumentReviewPublish(r) ==
  /\ Serves(r, "review")
  /\ timeline' = [timeline EXCEPT ![job[r].row] = job[r].seen]
  /\ lost' = lost \ {job[r].row}
  /\ Goes(r, "reviewed", job[r].row, job[r].seen, {})
  /\ UNCHANGED <<log, matches, documents, link, apart>>

DocumentReviewWrite(r) ==
  /\ Serves(r, "reviewed")
  /\ documents' = [documents EXCEPT ![job[r].row].person = job[r].seen,
                                    ![job[r].row].status = "matched"]
  /\ Ends(r) /\ UNCHANGED <<log, matches, link, timeline, apart, lost>>

DocumentCrash(r) ==
  /\ Dies(r)
  /\ lost' = lost \cup (IF Serves(r, "publish") THEN {log[job[r].row.change].item} ELSE {})
  /\ UNCHANGED <<log, matches, documents, link, timeline, apart>>

DocumentNext ==
  \/ \E i \in Items :
       \/ \E deleted \in BOOLEAN : DriveChanges(i, deleted)
       \/ \E p \in Persons \cup {None} : MatchingChanges(i, p)
       \/ IgnoreDocument(i)
       \/ \E r \in Requests, p \in Persons : ReviewRead(r, i, p)
  \/ \E r \in Requests :
       SyncStart(r) \/ SyncFetch(r) \/ SyncStore(r) \/ SyncPublish(r) \/ SyncSave(r)
       \/ DocumentReviewPublish(r) \/ DocumentReviewWrite(r) \/ DocumentCrash(r)

DocumentSpec == DocumentInit /\ [][DocumentNext]_documentVars

----------------------------------------------------------------------------
(* Properties *)

Shown(i) == documents[i] # None /\ ~documents[i].deleted
Publishing(r, i) == Serves(r, "publish") /\ log[job[r].row.change].item = i

\* The delta link never runs ahead of the documents, wherever a sync dies:
\* while syncs do not overlap, a file whose last change is behind the link is
\* stored as that change left it.
LinkCoversChanges ==
  apart =>
    \A i \in Items :
      LET n == LastChange(i, Len(log))
      IN  n # 0 /\ n <= link /\ (\A r \in Requests : ~Syncing(r)) =>
            (Shown(i) <=> ~log[n].deleted)

\* A document that has a person is on a timeline, whether a sync or a reviewer
\* gave it to him; the one exception is a document whose sync died in between,
\* until a later sync or a reviewer publishes it.
PersonShown ==
  \A i \in Items :
    documents[i] # None /\ documents[i].person # None /\ i \notin lost
      => timeline[i] # None \/ \E r \in Requests : Publishing(r, i)

\* Documents follow the drive, and the timelines follow the documents.
DocumentsFollow == LinkCoversChanges /\ PersonShown
=============================================================================
