---------------------------- MODULE PersonRecord ----------------------------
(***************************************************************************)
(* What the advisers keep of a person: notes in a file, tasks, activities, *)
(* documents on disk, signatures, and the timeline that tells of them.  The*)
(* record is written first and its event afterwards, in a transaction of   *)
(* its own.  Handlers of the event loop run one at a time up to their next *)
(* await; the others are served by threads.                                *)
(***************************************************************************)
EXTENDS Requests

CONSTANTS
  Subjects,   \* people
  Texts,      \* what the notes of a person may say
  Titles      \* file names as they are uploaded

ASSUME RecordAssumption == None \notin Texts

VARIABLES
  notes,       \* person -> the text of the file, None when empty
  tasks,       \* tasks, as [person, completed]
  acts,        \* activities, the person of each
  disk,        \* stored name -> the upload that wrote the file
  docs,        \* upload -> its documents row
  census,      \* documents linked to an organization
  signatures,  \* signature_requests, the status of each
  feed,        \* external id of a timeline event -> what it tells
  noteFeed,    \* the note_updated events, oldest first
  uploads,     \* uploads so far
  clock,       \* the time of the latest completion of a task
  untold,      \* history: people whose notes were saved and not told, since the last that was
  troubled     \* history: what requests were about that died, or met

written == <<notes, tasks, acts, signatures>>
stored == <<disk, docs, census, uploads>>
timelineVars == <<feed, noteFeed, untold>>
recordVars == <<written, stored, timelineVars, clock, troubled, requestVars>>

RecordInit ==
  /\ notes = [p \in Subjects |-> None] /\ tasks = <<>> /\ acts = <<>> /\ signatures = <<>>
  /\ disk = << >> /\ docs = << >> /\ census = {} /\ uploads = 0
  /\ feed = << >> /\ noteFeed = <<>> /\ untold = {}
  /\ clock = 0 /\ troubled = {}
  /\ RequestInit

\* A handler of the event loop that has not come to an await yet.
OnLoop(r) == job[r].at \in {"noting", "saving", "linking"}
LoopIsFree == \A r \in Requests : ~OnLoop(r)

\* add_timeline_event replaces an event with the same external id.
Upserted(x, event) == Put(feed, x, event)

\* An event that a request has still to add.
Event(what, time) == [what |-> what, time |-> time]
Adds(r, x, event) == Starts(r, "telling", x, event, {})

TellEvent(r) ==
  /\ Serves(r, "telling")
  /\ feed' = Upserted(job[r].row, job[r].seen)
  /\ Ends(r) /\ UNCHANGED <<written, stored, noteFeed, untold, clock, troubled>>

----------------------------------------------------------------------------
(* Notes *)

\* Mutant: the previous text is read once the new one is saved.
ReadLate(p, text) == text

\* get_person_notes, before the save
Previous(p, text) == notes[p]

UpdateNotes(r, p, text) ==
  /\ LoopIsFree
  /\ notes' = [notes EXCEPT ![p] = text]
  /\ IF text # Previous(p, text) THEN Starts(r, "noting", <<"notes", p>>, text, {}) ELSE Serve
  /\ UNCHANGED <<tasks, acts, signatures, stored, timelineVars, clock, troubled>>

\* The event of a note has no external id, so that none is replaced.
TellNotes(r) ==
  /\ Serves(r, "noting")
  /\ noteFeed' = Append(noteFeed, [person |-> job[r].row[2], text |-> job[r].seen])
  /\ untold' = untold \ {job[r].row[2]}
  /\ Ends(r) /\ UNCHANGED <<written, stored, feed, clock, troubled>>

----------------------------------------------------------------------------
(* Tasks, activities and signatures *)

CreateTask(r, p) ==
  /\ LoopIsFree
  /\ tasks' = Append(tasks, [person |-> p, completed |-> 0])
  /\ Adds(r, <<"task created", Len(tasks) + 1>>, Event("created", 0))
  /\ UNCHANGED <<notes, acts, signatures, stored, timelineVars, clock, troubled>>

\* complete_person_task takes the time, ...
CompleteStart(r, n) ==
  /\ clock' = clock + 1
  /\ Starts(r, "completing", <<"task", n>>, Event("completed", clock + 1), {})
  /\ troubled' = IF \E q \in Requests : job[q].row \in {<<"task", n>>, <<"task completed", n>>}
                 THEN troubled \cup {<<"task", n>>} ELSE troubled
  /\ UNCHANGED <<written, stored, timelineVars>>

\* ... completes the task, whether or not it is open, ...
CompleteWrite(r) ==
  LET n == job[r].row[2]
  IN  /\ Serves(r, "completing")
      /\ tasks' = [tasks EXCEPT ![n].completed = job[r].seen.time]
      /\ Goes(r, "telling", <<"task completed", n>>, job[r].seen, {})
      /\ UNCHANGED <<notes, acts, signatures, stored, timelineVars, clock, troubled>>

CreateActivity(r, p) ==
  /\ LoopIsFree
  /\ acts' = Append(acts, p)
  /\ Adds(r, <<"activity", Len(acts) + 1>>, Event("created", 0))
  /\ UNCHANGED <<notes, tasks, signatures, stored, timelineVars, clock, troubled>>

CreateSignatureRequest(r) ==
  /\ signatures' = Append(signatures, "sent")
  /\ Adds(r, <<"signature", Len(signatures) + 1, "requested">>, Event("sent", 0))
  /\ UNCHANGED <<notes, tasks, acts, stored, timelineVars, clock, troubled>>

StatusEvent(n, status) == <<"signature", n, status>>

\* apply_signature_event takes over any status, in the order of arrival.
ApplySignatureEvent(r, n, status) ==
  /\ signatures' = [signatures EXCEPT ![n] = status]
  /\ Adds(r, StatusEvent(n, status), Event(status, 0))
  /\ UNCHANGED <<notes, tasks, acts, stored, timelineVars, clock, troubled>>

----------------------------------------------------------------------------
(* Documents *)

\* save_person_document: a name of its own, in the person's directory.
StoredName(p, title, n) == <<p, n>>

SaveStart(r, p, title, kind) ==
  LET n == uploads + 1
      name == StoredName(p, title, n)
  IN  /\ LoopIsFree
      /\ uploads' = n /\ disk' = Put(disk, name, n)
      /\ Starts(r, "saving", <<"document", n>>, [person |-> p, file |-> name, archived |-> FALSE], {kind})
      /\ UNCHANGED <<written, docs, census, timelineVars, clock, troubled>>

Unlinked(name) == [x \in DOMAIN disk \ {name} |-> disk[x]]

\* The read of the upload or the insert of its row raises.
SaveFails(r) ==
  /\ Serves(r, "saving")
  /\ disk' = Unlinked(job[r].seen.file)
  /\ Ends(r) /\ UNCHANGED <<written, docs, census, uploads, timelineVars, clock, troubled>>

\* The row; then a census is linked to its organization, and a document of the
\* staff is told.
SaveStore(r) ==
  LET n == job[r].row[2]
  IN  /\ Serves(r, "saving")
      /\ docs' = Put(docs, n, job[r].seen)
      /\ IF "census" \in job[r].todo THEN Goes(r, "linking", job[r].row, None, {})
         ELSE Goes(r, "telling", job[r].row, Event("uploaded", 0), {})
      /\ UNCHANGED <<written, disk, census, uploads, timelineVars, clock, troubled>>

LinkCensus(r) ==
  /\ Serves(r, "linking") /\ census' = census \cup {job[r].row[2]}
  /\ Ends(r) /\ UNCHANGED <<written, disk, docs, uploads, timelineVars, clock, troubled>>

\* archive_document hides the row and keeps the file.
ArchiveDocument(n) ==
  /\ docs' = [docs EXCEPT ![n].archived = TRUE]
  /\ Serve /\ UNCHANGED <<written, disk, census, uploads, timelineVars, clock, troubled>>

----------------------------------------------------------------------------
\* The process dies; what the thread was about is remembered.
RecordCrash(r) ==
  /\ Dies(r)
  /\ troubled' = troubled \cup {IF job[r].row[1] = "task completed" THEN <<"task", job[r].row[2]>>
                                ELSE job[r].row}
  /\ untold' = IF job[r].at = "noting" THEN untold \cup {job[r].row[2]} ELSE untold
  /\ UNCHANGED <<written, stored, feed, noteFeed, clock>>

EventStatuses == {"viewed", "completed"}

RecordNext ==
  \/ \E r \in Requests :
       \/ TellEvent(r) \/ TellNotes(r) \/ CompleteWrite(r) \/ RecordCrash(r)
       \/ SaveFails(r) \/ SaveStore(r) \/ LinkCensus(r) \/ CreateSignatureRequest(r)
       \/ \E n \in DOMAIN tasks : CompleteStart(r, n)
       \/ \E n \in DOMAIN signatures, s \in EventStatuses : ApplySignatureEvent(r, n, s)
       \/ \E p \in Subjects :
            \/ CreateTask(r, p) \/ CreateActivity(r, p)
            \/ \E text \in Texts \cup {None} : UpdateNotes(r, p, text)
            \/ \E title \in Titles, kind \in {"staff", "census"} : SaveStart(r, p, title, kind)
  \/ \E n \in DOMAIN docs : ArchiveDocument(n)

RecordSpec == RecordInit /\ [][RecordNext]_recordVars

----------------------------------------------------------------------------
(* Properties *)

Underway(x) == \E r \in Requests : job[r].row = x

\* The latest event of a person's notes shows what the file says, unless a
\* request that saved it died before it told and none has told since: the change
\* that is told next makes up for it.
NotesOnTimeline ==
  \A p \in Subjects :
    LET ofPerson == {i \in DOMAIN noteFeed : noteFeed[i].person = p}
    IN  \/ ofPerson = {} /\ notes[p] = None
        \/ Underway(<<"notes", p>>) \/ p \in untold
        \/ \E i \in ofPerson : (\A j \in ofPerson : j <= i) /\ noteFeed[i].text = notes[p]

\* The timeline tells of a completed task when it was completed, unless two
\* completions of it met or one died.
CompletionOnTimeline ==
  \A n \in DOMAIN tasks :
    LET x == <<"task completed", n>>
    IN  \/ tasks[n].completed = 0 \/ Underway(x) \/ <<"task", n>> \in troubled
        \/ x \in DOMAIN feed /\ feed[x].time = tasks[n].completed

\* Whatever status a signature has come to, the timeline has an event that tells
\* that status, however many have come since and in whatever order.
SignatureTold ==
  \A n \in DOMAIN signatures :
    \/ signatures[n] = "sent"
    \/ \E x \in DOMAIN feed : x[1] = "signature" /\ x[2] = n /\ feed[x].what = signatures[n]
    \/ \E x \in troubled \cup {job[r].row : r \in {r \in Requests : ~Waits(r)}} :
         x[1] = "signature" /\ x[2] = n

\* The timeline tells the present state of a person's notes, tasks and
\* signatures.
TimelineTells == NotesOnTimeline /\ CompletionOnTimeline /\ SignatureTold
=============================================================================
