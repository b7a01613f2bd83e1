----------------------- MODULE ExceptionEngineProofs -----------------------
(***************************************************************************)
(* Proofs about ExceptionEngine for every number of rows, keys and callers *)
(* and every bound.                                                        *)
(***************************************************************************)
EXTENDS ExceptionEngine, FiniteSetTheorems, TLAPS

\* What the program counter of a caller says of its other variables: a row
\* to reopen, comment on or publish about is a row of the table, and a
\* comment under way has read a status.
CallersOK ==
  \A c \in Callers :
    /\ pc[c] \in {"reopen", "comment", "publish"} => target[c] \in Ids
    /\ pc[c] = "comment" => seen[c] \in Statuses

TypeInv == TypeOK /\ CallersOK

\* A commit that writes a well-formed row keeps the state well formed.
LEMMA CommitType ==
  ASSUME TypeInv, NEW c \in Callers, NEW i \in Ids, NEW r \in Row,
         NEW from \in Statuses \cup {"none"}, r.status \in Statuses,
         Commit(c, i, r, from)
  PROVE  TypeInv'
<1> USE DEF TypeInv, TypeOK
<1>1. [from |-> from, to |-> r.status] \in Event
  BY DEF Event
<1>2. events' \in [Ids -> Seq(Event)]
  BY <1>1 DEF Commit, AppendEvent
<1>3. exceptions' \in [Ids -> Row]
  BY DEF Commit
<1>4. /\ pc' \in [Callers -> Labels]
      /\ arg' \in [Callers -> AnyKey]
      /\ target' \in [Callers -> Ids \cup {0}]
  BY DEF Commit, Goto, Labels, AnyKey
<1>5. UNCHANGED <<notes, audit, seen>>
  BY DEF Commit
<1>6. CallersOK'
  BY <1>5 DEF CallersOK, Commit, Goto
<1> QED
  BY <1>2, <1>3, <1>4, <1>5, <1>6

\* A step that only moves a caller to a label and row of the right kind.
LEMMA GotoType ==
  ASSUME TypeInv, NEW c \in Callers, NEW label \in Labels, NEW key \in AnyKey,
         NEW row \in Ids \cup {0}, Goto(c, label, key, row),
         label \in {"reopen", "publish"} => row \in Ids, label # "comment",
         UNCHANGED <<exceptions, events, notes, audit, seen>>
  PROVE  TypeInv'
BY DEF TypeInv, TypeOK, CallersOK, Goto

\* The generic transition and its five uses.
LEMMA TransitionType ==
  ASSUME TypeInv, NEW c \in Callers, NEW i \in Ids, NEW to \in Statuses,
         NEW resolution \in BOOLEAN, Transition(c, i, to, resolution)
  PROVE  TypeInv'
<1> DEFINE r == [exceptions[i] EXCEPT !.status = to, !.resolution = resolution]
<1>1. r \in Row /\ r.status \in Statuses
  BY DEF TypeInv, TypeOK, Row
<1>2. exceptions[i].status \in Statuses
  BY DEF Transition, Present, TypeInv, TypeOK, Row
<1>3. Commit(c, i, r, exceptions[i].status)
  BY DEF Transition
<1> QED
  BY <1>1, <1>2, <1>3, CommitType

\* The first state is well formed.
LEMMA InitType == Init => TypeInv
<1> SUFFICES ASSUME Init PROVE TypeInv
  OBVIOUS
<1>1. NoRow \in Row
  BY BoundsAssumption DEF NoRow, Row, AnyKey, AnyOwner, Kinds
<1>2. exceptions \in [Ids -> Row]
  BY <1>1 DEF Init
<1>3. events \in [Ids -> Seq(Event)] /\ notes \in [Ids -> Seq(Statuses)]
  BY DEF Init
<1>4. /\ audit \in [Ids -> Nat]
      /\ pc \in [Callers -> Labels]
      /\ arg \in [Callers -> AnyKey]
      /\ target \in [Callers -> Ids \cup {0}]
      /\ seen \in [Callers -> Statuses \cup {"none"}]
  BY DEF Init, Labels, AnyKey
<1>5. CallersOK
  BY DEF Init, CallersOK
<1> QED
  BY <1>2, <1>3, <1>4, <1>5 DEF TypeInv, TypeOK

\* Every step of the engine keeps the state well formed.
LEMMA NextType == TypeInv /\ [Next]_vars => TypeInv'
<1> SUFFICES ASSUME TypeInv, [Next]_vars PROVE TypeInv'
  OBVIOUS
<1>1. CASE UNCHANGED vars
  BY <1>1 DEF vars, TypeInv, TypeOK, CallersOK
<1>2. ASSUME NEW c \in Callers, Raise(c) PROVE TypeInv'
  <2> Ids \subseteq Nat \ {0}
    BY DEF Ids
  <2>1. ASSUME NEW k \in AnyKey, RaiseSelectActive(c, k) PROVE TypeInv'
    BY <2>1, GotoType DEF RaiseSelectActive, Labels
  <2>2. CASE RaiseSelectResolved(c)
    <3>1. arg[c] \in AnyKey
      BY DEF TypeInv, TypeOK
    <3>2. CASE ResolvedWith(arg[c]) = {} /\ Goto(c, "insert", arg[c], 0)
      BY <2>2, <3>1, <3>2, GotoType DEF RaiseSelectResolved, Labels
    <3>3. CASE \E i \in Newest(ResolvedWith(arg[c])) : Goto(c, "reopen", arg[c], i)
      <4>1. PICK i \in Ids : Goto(c, "reopen", arg[c], i)
        BY <3>3 DEF Newest, ResolvedWith
      <4> QED
        BY <2>2, <3>1, <4>1, GotoType DEF RaiseSelectResolved, Labels
    <3> QED
      BY <2>2, <3>2, <3>3 DEF RaiseSelectResolved
  <2>3. CASE RaiseReopen(c)
    <3> DEFINE i == target[c]
               r == [exceptions[i] EXCEPT !.status = "reopened", !.resolution = FALSE]
    <3>1. i \in Ids /\ Commit(c, i, r, "resolved")
      BY <2>3 DEF RaiseReopen, TypeInv, CallersOK
    <3>2. exceptions[i] \in Row
      BY <3>1 DEF TypeInv, TypeOK
    <3>3. r \in Row /\ r.status \in Statuses
      BY <3>2 DEF Row, Statuses, ACTIVE_STATUSES
    <3>4. "resolved" \in Statuses
      BY DEF Statuses, CLOSED_STATUSES
    <3> QED
      BY <3>1, <3>3, <3>4, CommitType
  <2>4. ASSUME NEW kind \in RaiseKinds, RaiseInsert(c, kind) PROVE TypeInv'
    <3>1. PICK i \in Ids : Commit(c, i, NewRow(arg[c], kind), "none")
      BY <2>4 DEF RaiseInsert, FreshIds
    <3>2. arg[c] \in AnyKey /\ kind \in Kinds /\ 0 \in 0..MaxLevel
      BY KindAssumption, BoundsAssumption DEF TypeInv, TypeOK
    <3>3. NewRow(arg[c], kind) \in Row /\ NewRow(arg[c], kind).status \in Statuses
      BY <3>2 DEF NewRow, Row, Statuses, ACTIVE_STATUSES, AnyOwner
    <3> QED
      BY <3>1, <3>3, CommitType
  <2>5. CASE RaiseRejected(c)
    BY <2>5, GotoType DEF RaiseRejected, Labels, TypeInv, TypeOK
  <2>6. CASE RaiseConflict(c)
    BY <2>6, GotoType DEF RaiseConflict, Labels, AnyKey
  <2> QED
    BY <1>2, <2>1, <2>2, <2>3, <2>4, <2>5, <2>6 DEF Raise
<1>3. ASSUME NEW c \in Callers, NEW i \in Ids, Mutate(c, i) PROVE TypeInv'
  <2> USE DEF Statuses, ACTIVE_STATUSES, CLOSED_STATUSES
  <2>0. exceptions[i].resolution \in BOOLEAN
    BY DEF TypeInv, TypeOK, Row
  <2>1. CASE Acknowledge(c, i)
    BY <2>0, <2>1, TransitionType DEF Acknowledge
  <2>2. CASE BeginWork(c, i)
    BY <2>0, <2>2, TransitionType DEF BeginWork
  <2>3. CASE PlaceWaiting(c, i)
    BY <2>0, <2>3, TransitionType DEF PlaceWaiting
  <2>4. CASE Cancel(c, i)
    BY <2>0, <2>4, TransitionType DEF Cancel
  <2>5. CASE Reopen(c, i)
    BY <2>5, TransitionType DEF Reopen
  <2>6. ASSUME NEW o \in AnyOwner, Escalate(c, i, o) PROVE TypeInv'
    <3> DEFINE r == [exceptions[i] EXCEPT !.status = "escalated", !.level = @ + 1,
                                          !.owner = IF o = NoOwner THEN @ ELSE o]
    <3>1. Commit(c, i, r, exceptions[i].status) /\ exceptions[i].status \in Statuses
      BY <2>6 DEF Escalate, Active
    <3>2. exceptions[i] \in Row /\ exceptions[i].level < MaxLevel
      BY <2>6 DEF Escalate, TypeInv, TypeOK
    <3>3. exceptions[i].level + 1 \in 0..MaxLevel
      BY <3>2, BoundsAssumption DEF Row
    <3>4. r \in Row /\ r.status \in Statuses
      BY <3>2, <3>3 DEF Row, AnyOwner
    <3> QED
      BY <3>1, <3>4, CommitType
  <2>7. CASE Resolve(c, i)
    <3> DEFINE r == [exceptions[i] EXCEPT !.status = "resolved", !.resolution = TRUE]
    <3>1. Commit(c, i, r, exceptions[i].status) /\ exceptions[i].status \in Statuses
      BY <2>7 DEF Resolve, Present, TypeInv, TypeOK, Row
    <3>2. r \in Row /\ r.status \in Statuses
      BY DEF TypeInv, TypeOK, Row
    <3> QED
      BY <3>1, <3>2, CommitType
  <2>8. ASSUME NEW o \in Owners, Assign(c, i, o) PROVE TypeInv'
    <3>1. exceptions[i].status \in Statuses
      BY <2>8 DEF Assign, Present, TypeInv, TypeOK, Row
    <3>2. notes' \in [Ids -> Seq(Statuses)]
      BY <2>8, <3>1 DEF Assign, AppendNote, TypeInv, TypeOK
    <3>3. [exceptions[i] EXCEPT !.owner = o] \in Row
      <4>1. exceptions[i] \in Row /\ o \in AnyOwner
        BY DEF TypeInv, TypeOK, AnyOwner
      <4> QED BY <4>1, ZenonT(30) DEF Row
    <3>4. exceptions' = [exceptions EXCEPT ![i] = [exceptions[i] EXCEPT !.owner = o]]
      BY <2>8 DEF Assign
    <3>5. exceptions' \in [Ids -> Row]
      BY <3>3, <3>4 DEF TypeInv, TypeOK
    <3> QED
      BY <2>8, <3>2, <3>5
         DEF Assign, AppendNote, Goto, TypeInv, TypeOK, CallersOK, Labels, AnyKey
  <2>9. CASE CommentRead(c, i)
    <3>1. exceptions[i].status \in Statuses
      BY <2>9 DEF CommentRead, Present, TypeInv, TypeOK, Row
    <3> QED
      BY <2>9, <3>1 DEF CommentRead, Goto, TypeInv, TypeOK, CallersOK, Labels, AnyKey
  <2> QED
    BY <1>3, <2>1, <2>2, <2>3, <2>4, <2>5, <2>6, <2>7, <2>8, <2>9 DEF Mutate
<1>4. ASSUME NEW c \in Callers, CommentInsert(c) PROVE TypeInv'
  <2>1. target[c] \in Ids /\ seen[c] \in Statuses
    BY <1>4 DEF CommentInsert, TypeInv, CallersOK
  <2>2. notes' \in [Ids -> Seq(Statuses)]
    BY <1>4, <2>1 DEF CommentInsert, AppendNote, TypeInv, TypeOK
  <2> QED
    BY <1>4, <2>1, <2>2
       DEF CommentInsert, AppendNote, Goto, TypeInv, TypeOK, CallersOK, Labels, AnyKey
<1>5. ASSUME NEW c \in Callers, Publish(c) PROVE TypeInv'
  BY <1>5 DEF Publish, Goto, TypeInv, TypeOK, CallersOK, Labels, AnyKey
<1>6. ASSUME NEW c \in Callers, Crash(c) PROVE TypeInv'
  BY <1>6 DEF Crash, Goto, TypeInv, TypeOK, CallersOK, Labels, AnyKey
<1> QED
  BY <1>1, <1>2, <1>3, <1>4, <1>5, <1>6 DEF Next

\* Type correctness: under every interleaving of callers, crashes included,
\* rows, ledger and callers keep the shape the schema fixes.
THEOREM TypeCorrect == Spec => []TypeOK
<1>1. Spec => []TypeInv
  BY InitType, NextType, PTL DEF Spec
<1>2. TypeInv => TypeOK
  BY DEF TypeInv
<1> QED
  BY <1>1, <1>2, PTL

----------------------------------------------------------------------------
(* Safety.  Every step either leaves statuses and ledger alone or commits a *)
(* move that the table, its index and the ledger agree on.                  *)

\* A step that changes no status, key, level or resolution and logs nothing.
Quiet ==
  /\ events' = events
  /\ \A i \in Ids :
       /\ exceptions'[i].status = exceptions[i].status
       /\ exceptions'[i].key = exceptions[i].key
       /\ exceptions'[i].resolution = exceptions[i].resolution
       /\ exceptions'[i].level = exceptions[i].level

\* The row a raise is about to re-activate exists: rows are never deleted.
TargetsPresent == \A c \in Callers : pc[c] = "reopen" => Present(target[c])

\* The moves ExceptionLifecycle knows: open, advance, re-activate.
Lawful(i, to) ==
  \/ ~Present(i) /\ to = "open"
  \/ LegalMove(exceptions[i].status, to)
  \/ Present(i) /\ to = "reopened"

\* Writing r over row i is a move the index accepts and the lifecycle knows,
\* from is what the ledger may say of it, and level and resolution columns
\* follow the status.
Accepted(i, r, from) ==
  /\ r.status \in Statuses
  /\ Lawful(i, r.status)
  /\ r.status \in ACTIVE_STATUSES =>
       \/ ~Duplicate(i, r.key)
       \/ Active(i) /\ r.key = exceptions[i].key
  /\ \/ Present(i) /\ from = exceptions[i].status
     \/ ~Present(i) /\ from = "none"
     \/ from = "resolved" /\ r.status = "reopened"
  /\ ResolutionOnlyWhenResolved => (r.resolution <=> r.status = "resolved")
  /\ r.level = IF ~Present(i) THEN 0
               ELSE IF r.status = "escalated" THEN exceptions[i].level + 1 ELSE exceptions[i].level

Move(i, r, from) ==
  /\ Accepted(i, r, from)
  /\ exceptions' = [exceptions EXCEPT ![i] = r]
  /\ events' = [events EXCEPT ![i] = Append(@, [from |-> from, to |-> r.status])]

\* A generic transition is a move.
LEMMA TransitionMoves ==
  ASSUME TypeInv, NEW c \in Callers, NEW i \in Ids, NEW to \in Statuses, to # "escalated",
         NEW resolution \in BOOLEAN, Transition(c, i, to, resolution),
         ResolutionOnlyWhenResolved => (resolution <=> to = "resolved")
  PROVE  \E r, from : Move(i, r, from)
<1> DEFINE r == [exceptions[i] EXCEPT !.status = to, !.resolution = resolution]
<1>1. exceptions[i] \in Row
  BY DEF TypeInv, TypeOK
<1>2. /\ r.status = to /\ r.key = exceptions[i].key /\ r.resolution = resolution
      /\ r.level = exceptions[i].level
  BY <1>1 DEF Row
<1>3. Accepted(i, r, exceptions[i].status)
  <2>1. exceptions[i].status \in Statuses
    BY <1>1 DEF Transition, Present, Row
  <2>2. Lawful(i, to)
    BY <2>1 DEF Transition, Lawful, LegalMove
  <2> QED
    BY <1>2, <2>2 DEF Accepted, Transition
<1>4. Move(i, r, exceptions[i].status)
  BY <1>2, <1>3 DEF Move, Transition, Commit, AppendEvent
<1> QED
  BY <1>4

\* Every step of the engine is quiet or a move.
LEMMA StepMoves ==
  ASSUME TypeInv, TargetsPresent, [Next]_vars
  PROVE  Quiet \/ \E i \in Ids : \E r, from : Move(i, r, from)
<1> DEFINE Goal == Quiet \/ \E i \in Ids : \E r, from : Move(i, r, from)
<1> USE DEF Goal
<1>1. CASE UNCHANGED vars
  BY <1>1 DEF vars, Quiet
<1>2. ASSUME NEW c \in Callers, Raise(c) PROVE Goal
  <2>1. ASSUME NEW k \in AnyKey, RaiseSelectActive(c, k) PROVE Goal
    BY <2>1 DEF RaiseSelectActive, Quiet
  <2>2. CASE RaiseSelectResolved(c)
    BY <2>2 DEF RaiseSelectResolved, Quiet
  <2>3. CASE RaiseReopen(c)
    <3> DEFINE i == target[c]
               r == [exceptions[i] EXCEPT !.status = "reopened", !.resolution = FALSE]
    <3>1. /\ i \in Ids
          /\ ~Duplicate(i, exceptions[i].key)
          /\ Commit(c, i, r, "resolved")
      BY <2>3 DEF RaiseReopen, TypeInv, CallersOK
    <3>2. exceptions[i] \in Row
      BY <3>1 DEF TypeInv, TypeOK
    <3>3. /\ r.status = "reopened" /\ r.key = exceptions[i].key /\ r.resolution = FALSE
          /\ r.level = exceptions[i].level
      BY <3>2 DEF Row
    <3>4. Accepted(i, r, "resolved")
      <4>1. Lawful(i, r.status) /\ Present(i)
        BY <2>3, <3>3 DEF Lawful, TargetsPresent, RaiseReopen
      <4> QED
        BY <3>1, <3>3, <4>1 DEF Accepted, Statuses, ACTIVE_STATUSES
    <3>5. Move(i, r, "resolved")
      BY <3>1, <3>3, <3>4 DEF Move, Commit, AppendEvent
    <3> QED
      BY <3>1, <3>5
  <2>4. ASSUME NEW kind \in RaiseKinds, RaiseInsert(c, kind) PROVE Goal
    <3> DEFINE r == NewRow(arg[c], kind)
    <3>1. PICK i \in FreshIds : Commit(c, i, r, "none")
      BY <2>4 DEF RaiseInsert
    <3>2. i \in Ids /\ i \in Nat /\ ~Present(i)
      BY <3>1 DEF FreshIds, Ids
    <3>3. ~Duplicate(i, arg[c])
      BY <2>4 DEF RaiseInsert, Duplicate, ActiveWith, Ids
    <3>4. r.status = "open" /\ r.key = arg[c] /\ r.resolution = FALSE /\ r.level = 0
      BY DEF NewRow
    <3>5. Accepted(i, r, "none")
      BY <3>2, <3>3, <3>4 DEF Accepted, Lawful, Statuses, ACTIVE_STATUSES
    <3>6. Move(i, r, "none")
      BY <3>1, <3>4, <3>5 DEF Move, Commit, AppendEvent
    <3> QED
      BY <3>2, <3>6
  <2>5. CASE RaiseRejected(c)
    BY <2>5 DEF RaiseRejected, Quiet
  <2>6. CASE RaiseConflict(c)
    BY <2>6 DEF RaiseConflict, Quiet
  <2> QED
    BY <1>2, <2>1, <2>2, <2>3, <2>4, <2>5, <2>6 DEF Raise
<1>3. ASSUME NEW c \in Callers, NEW i \in Ids, Mutate(c, i) PROVE Goal
  <2>1. exceptions[i] \in Row
    BY DEF TypeInv, TypeOK
  <2>2. exceptions[i].resolution \in BOOLEAN /\ exceptions[i].level \in Nat
    BY <2>1 DEF Row
  <2>3. ASSUME NEW to \in {"acknowledged", "in_progress", "waiting", "cancelled"},
               Transition(c, i, to, exceptions[i].resolution)
        PROVE  Goal
    <3>1. exceptions[i].status \in Statuses
      BY <2>1, <2>3 DEF Transition, Present, Row
    <3>2. exceptions[i].status # "resolved" /\ to \in Statuses
      BY <2>3, <3>1 DEF Transition, TRANSITIONS, Statuses, ACTIVE_STATUSES, CLOSED_STATUSES
    <3>3. ResolutionOnlyWhenResolved => (exceptions[i].resolution <=> to = "resolved")
      BY <3>2 DEF ResolutionOnlyWhenResolved
    <3> QED
      BY <2>2, <2>3, <3>2, <3>3, TransitionMoves
  <2>4. CASE Acknowledge(c, i) \/ BeginWork(c, i) \/ PlaceWaiting(c, i) \/ Cancel(c, i)
    BY <2>3, <2>4 DEF Acknowledge, BeginWork, PlaceWaiting, Cancel
  <2>5. CASE Reopen(c, i)
    <3>1. "reopened" \in Statuses
      BY DEF Statuses, ACTIVE_STATUSES
    <3> QED
      BY <2>5, <3>1, TransitionMoves DEF Reopen
  <2>6. ASSUME NEW o \in AnyOwner, Escalate(c, i, o) PROVE Goal
    <3> DEFINE r == [exceptions[i] EXCEPT !.status = "escalated", !.level = @ + 1,
                                          !.owner = IF o = NoOwner THEN @ ELSE o]
    <3>1. Commit(c, i, r, exceptions[i].status) /\ Active(i)
      BY <2>6 DEF Escalate
    <3>2. /\ r.status = "escalated" /\ r.key = exceptions[i].key
          /\ r.resolution = exceptions[i].resolution /\ r.level = exceptions[i].level + 1
      BY <2>1 DEF Row
    <3>3. exceptions[i].status # "resolved" /\ exceptions[i].status # "absent"
      BY <3>1 DEF Active, ACTIVE_STATUSES
    <3>4. Accepted(i, r, exceptions[i].status)
      BY <3>1, <3>2, <3>3
         DEF Accepted, Lawful, LegalMove, Active, Present, Statuses, ACTIVE_STATUSES,
             ResolutionOnlyWhenResolved
    <3>5. Move(i, r, exceptions[i].status)
      BY <3>1, <3>2, <3>4 DEF Move, Commit, AppendEvent
    <3> QED
      BY <3>5
  <2>7. CASE Resolve(c, i)
    <3> DEFINE r == [exceptions[i] EXCEPT !.status = "resolved", !.resolution = TRUE]
    <3>1. Commit(c, i, r, exceptions[i].status) /\ Present(i)
      BY <2>7 DEF Resolve
    <3>2. /\ r.status = "resolved" /\ r.key = exceptions[i].key /\ r.resolution = TRUE
          /\ r.level = exceptions[i].level
      BY <2>1 DEF Row
    <3>3. Accepted(i, r, exceptions[i].status)
      <4>1. exceptions[i].status \in Statuses
        BY <2>1, <3>1 DEF Present, Row
      <4>2. Lawful(i, r.status)
        BY <2>7, <3>2, <4>1 DEF Resolve, Lawful, LegalMove
      <4> QED
        BY <3>1, <3>2, <4>2 DEF Accepted, Statuses, ACTIVE_STATUSES, CLOSED_STATUSES
    <3>4. Move(i, r, exceptions[i].status)
      BY <3>1, <3>2, <3>3 DEF Move, Commit, AppendEvent
    <3> QED
      BY <3>4
  <2>8. ASSUME NEW o \in Owners, Assign(c, i, o) PROVE Goal
    <3>1. exceptions' = [exceptions EXCEPT ![i] = [exceptions[i] EXCEPT !.owner = o]]
      BY <2>8 DEF Assign
    <3>2. exceptions \in [Ids -> Row]
      BY DEF TypeInv, TypeOK
    <3> QED
      BY <2>1, <2>8, <3>1, <3>2 DEF Assign, Quiet, Row
  <2>9. CASE CommentRead(c, i)
    BY <2>9 DEF CommentRead, Quiet
  <2> QED
    BY <1>3, <2>4, <2>5, <2>6, <2>7, <2>8, <2>9 DEF Mutate
<1>4. ASSUME NEW c \in Callers, CommentInsert(c) \/ Publish(c) \/ Crash(c) PROVE Goal
  BY <1>4 DEF CommentInsert, Publish, Crash, Quiet
<1> QED
  BY <1>1, <1>2, <1>3, <1>4 DEF Next

\* Rows stay, and a raise only goes on to re-activate a row it found.
LEMMA TargetsStay ==
  ASSUME TypeInv, TargetsPresent, [Next]_vars
  PROVE  TargetsPresent'
<1>1. \A i \in Ids : Present(i) => Present(i)'
  <2>1. CASE Quiet
    BY <2>1 DEF Quiet, Present
  <2>2. ASSUME NEW i \in Ids, NEW r, NEW from, Move(i, r, from)
        PROVE  \A j \in Ids : Present(j) => Present(j)'
    <3>1. "absent" \notin Statuses
      BY DEF Statuses, ACTIVE_STATUSES, CLOSED_STATUSES
    <3>2. exceptions'[i] = r /\ \A j \in Ids \ {i} : exceptions'[j] = exceptions[j]
      BY <2>2 DEF Move, TypeInv, TypeOK
    <3> QED
      BY <2>2, <3>1, <3>2 DEF Move, Accepted, Present
  <2> QED
    BY <2>1, <2>2, StepMoves
<1>2. SUFFICES ASSUME NEW d \in Callers, pc'[d] = "reopen" PROVE Present(target[d])'
  BY DEF TargetsPresent
<1>3. CASE pc[d] = "reopen" /\ target'[d] = target[d]
  <2>1. target[d] \in Ids /\ Present(target[d])
    BY <1>3 DEF TypeInv, CallersOK, TargetsPresent
  <2>2. Present(target[d])' <=> exceptions'[target'[d]].status # "absent"
    BY DEF Present
  <2>3. exceptions'[target[d]].status # "absent"
    BY <1>1, <2>1 DEF Present
  <2> QED
    BY <1>3, <2>2, <2>3
<1>4. ASSUME RaiseSelectResolved(d) PROVE Present(target[d])'
  <2>1. PICK i \in Newest(ResolvedWith(arg[d])) : Goto(d, "reopen", arg[d], i)
    BY <1>2, <1>4 DEF RaiseSelectResolved, Goto, TypeInv, TypeOK
  <2>2. exceptions[i].status = "resolved" /\ target'[d] = i /\ exceptions' = exceptions
    BY <1>4, <2>1 DEF Newest, ResolvedWith, Goto, RaiseSelectResolved, TypeInv, TypeOK
  <2> QED
    BY <2>2 DEF Present
<1>5. \/ pc[d] = "reopen" /\ target'[d] = target[d]
      \/ RaiseSelectResolved(d)
  <2>1. CASE UNCHANGED vars
    BY <1>2, <2>1 DEF vars
  <2>2. ASSUME NEW c \in Callers, NEW label, NEW key, NEW row, Goto(c, label, key, row),
               label # "reopen"
        PROVE  pc[d] = "reopen" /\ target'[d] = target[d]
    BY <1>2, <2>2 DEF Goto, TypeInv, TypeOK
  <2>3. ASSUME NEW c \in Callers, Raise(c), ~RaiseSelectResolved(c)
        PROVE  pc[d] = "reopen" /\ target'[d] = target[d]
    BY <2>2, <2>3 DEF Raise, RaiseSelectActive, RaiseReopen, RaiseInsert, RaiseRejected,
                      RaiseConflict, Commit
  <2>4. ASSUME NEW c \in Callers, NEW i \in Ids, Mutate(c, i)
        PROVE  pc[d] = "reopen" /\ target'[d] = target[d]
    BY <2>2, <2>4 DEF Mutate, Acknowledge, BeginWork, PlaceWaiting, Cancel, Reopen, Escalate,
                      Resolve, Assign, CommentRead, Transition, Commit, AppendNote
  <2>5. ASSUME NEW c \in Callers, CommentInsert(c) \/ Publish(c) \/ Crash(c)
        PROVE  pc[d] = "reopen" /\ target'[d] = target[d]
    BY <2>2, <2>5 DEF CommentInsert, Publish, Crash, AppendNote
  <2>6. ASSUME NEW c \in Callers, RaiseSelectResolved(c), c # d
        PROVE  pc[d] = "reopen" /\ target'[d] = target[d]
    BY <1>2, <2>6 DEF RaiseSelectResolved, Goto, TypeInv, TypeOK
  <2> QED
    BY <2>1, <2>3, <2>4, <2>5, <2>6 DEF Next
<1> QED
  BY <1>3, <1>4, <1>5

\* The five safety properties that lean on each other, as one inductive
\* invariant: the ledger's chain and the level of a new row need the ledger
\* to explain the row, and a generic move keeps the resolution columns right
\* only because they were.
Safe ==
  /\ OneActivePerKey
  /\ LedgerExplainsRow
  /\ ChainUnlessReactivated
  /\ ResolutionOnlyWhenResolved
  /\ LevelCountsEscalations

\* What a move leaves in the table and in the ledger.
LEMMA MoveEffect ==
  ASSUME TypeInv, NEW i \in Ids, NEW r, NEW from, Move(i, r, from)
  PROVE  /\ exceptions'[i] = r
         /\ \A j \in Ids \ {i} : exceptions'[j] = exceptions[j] /\ events'[j] = events[j]
         /\ events'[i] = Append(events[i], [from |-> from, to |-> r.status])
         /\ events[i] \in Seq(Event)
BY DEF Move, TypeInv, TypeOK

LEMMA MoveKeepsOneActive ==
  ASSUME TypeInv, NEW i \in Ids, NEW r, NEW from, Move(i, r, from), OneActivePerKey
  PROVE  OneActivePerKey'
<1> SUFFICES ASSUME NEW a \in Ids, NEW b \in Ids, Active(a)', Active(b)',
                    exceptions'[a].key = exceptions'[b].key, exceptions'[a].key # NoKey
             PROVE  a = b
  BY DEF OneActivePerKey
<1>1. \A j \in Ids \ {i} : exceptions'[j] = exceptions[j]
  BY MoveEffect
<1>2. exceptions'[i] = r
  BY MoveEffect
<1>3. CASE a # i /\ b # i
  BY <1>1, <1>3 DEF OneActivePerKey, Active
<1>4. ASSUME NEW j \in Ids \ {i}, Active(i)', Active(j),
             r.key = exceptions[j].key, r.key # NoKey
      PROVE  FALSE
  <2>1. r.status \in ACTIVE_STATUSES
    BY <1>2, <1>4 DEF Active
  <2>2. ~(~Duplicate(i, r.key))
    BY <1>4 DEF Duplicate, ActiveWith
  <2>3. Active(i) /\ r.key = exceptions[i].key
    BY <2>1, <2>2 DEF Move, Accepted
  <2> QED
    BY <1>4, <2>3 DEF OneActivePerKey
<1> QED
  BY <1>1, <1>2, <1>3, <1>4 DEF Active

LEMMA MoveKeepsLedger ==
  ASSUME TypeInv, NEW i \in Ids, NEW r, NEW from, Move(i, r, from),
         LedgerExplainsRow, ChainUnlessReactivated
  PROVE  LedgerExplainsRow' /\ ChainUnlessReactivated'
<1> DEFINE e == [from |-> from, to |-> r.status]
<1>1. \A j \in Ids \ {i} : exceptions'[j] = exceptions[j] /\ events'[j] = events[j]
  BY MoveEffect
<1>2. exceptions'[i] = r /\ events'[i] = Append(events[i], e) /\ events[i] \in Seq(Event)
  BY MoveEffect
<1>3. /\ Len(events'[i]) = Len(events[i]) + 1 /\ Len(events[i]) \in Nat
      /\ events'[i][Len(events[i]) + 1] = e
      /\ \A n \in 1..Len(events[i]) : events'[i][n] = events[i][n]
      /\ events'[i] # <<>>
  BY <1>2
<1>4. LedgerExplainsRow'
  BY <1>1, <1>2, <1>3 DEF LedgerExplainsRow, Present
<1>5. ASSUME NEW n \in 2..Len(events'[i])
      PROVE  \/ events'[i][n].from = events'[i][n - 1].to
             \/ events'[i][n] = [from |-> "resolved", to |-> "reopened"]
  <2>1. CASE n \in 2..Len(events[i])
    <3>1. /\ events'[i][n] = events[i][n]
          /\ events'[i][n - 1] = events[i][n - 1]
      BY <1>3, <2>1
    <3> QED
      BY <2>1, <3>1 DEF ChainUnlessReactivated
  <2>2. CASE n = Len(events[i]) + 1
    <3>1. n - 1 = Len(events[i]) /\ n - 1 \in 1..Len(events[i]) /\ events[i] # <<>>
      BY <1>2, <1>3, <2>2
    <3>5. exceptions[i].status = events[i][n - 1].to
      BY <3>1 DEF LedgerExplainsRow
    <3>6. events[i][n - 1] \in Event
      BY <1>2, <3>1
    <3>7. events[i][n - 1].to \in Statuses
      BY <3>6 DEF Event
    <3>2. Present(i) /\ exceptions[i].status = events[i][n - 1].to
      BY <3>5, <3>7 DEF Present, Statuses, ACTIVE_STATUSES, CLOSED_STATUSES
    <3>3. e.from = from /\ events'[i][n] = e /\ events'[i][n - 1] = events[i][n - 1]
      BY <1>3, <2>2, <3>1
    <3>4. \/ from = exceptions[i].status
          \/ from = "resolved" /\ r.status = "reopened"
      BY <3>2 DEF Move, Accepted
    <3> QED
      BY <3>2, <3>3, <3>4
  <2> QED
    BY <1>3, <2>1, <2>2
<1>6. ChainUnlessReactivated'
  BY <1>1, <1>5 DEF ChainUnlessReactivated
<1> QED
  BY <1>4, <1>6

LEMMA MoveKeepsResolution ==
  ASSUME TypeInv, NEW i \in Ids, NEW r, NEW from, Move(i, r, from),
         ResolutionOnlyWhenResolved
  PROVE  ResolutionOnlyWhenResolved'
<1>1. /\ exceptions'[i] = r
      /\ \A j \in Ids \ {i} : exceptions'[j] = exceptions[j]
  BY MoveEffect
<1>2. r.resolution <=> r.status = "resolved"
  BY DEF Move, Accepted
<1> QED
  BY <1>1, <1>2 DEF ResolutionOnlyWhenResolved

LEMMA EscalationsFinite ==
  ASSUME TypeInv, NEW i \in Ids
  PROVE  IsFiniteSet(Escalations(i)) /\ Cardinality(Escalations(i)) \in Nat
<1>1. events[i] \in Seq(Event)
  BY DEF TypeInv, TypeOK
<1>2. Len(events[i]) \in Nat /\ IsFiniteSet(1..Len(events[i]))
  BY <1>1, FS_Interval
<1>3. IsFiniteSet(Escalations(i))
  BY <1>2, FS_Subset DEF Escalations
<1> QED BY <1>3, FS_CardinalityType

LEMMA MoveKeepsLevels ==
  ASSUME TypeInv, NEW i \in Ids, NEW r, NEW from, Move(i, r, from),
         LedgerExplainsRow, LevelCountsEscalations
  PROVE  LevelCountsEscalations'
<1> DEFINE e == [from |-> from, to |-> r.status]
           n == Len(events[i]) + 1
           S == Escalations(i)
<1>1. \A j \in Ids \ {i} : exceptions'[j] = exceptions[j] /\ events'[j] = events[j]
  BY MoveEffect
<1>2. exceptions'[i] = r /\ events'[i] = Append(events[i], e) /\ events[i] \in Seq(Event)
  BY MoveEffect
<1>3. /\ Len(events'[i]) = n /\ Len(events[i]) \in Nat /\ events'[i][n] = e
      /\ \A m \in 1..Len(events[i]) : events'[i][m] = events[i][m]
  BY <1>2
<1>4. Escalations(i)' = IF r.status = "escalated" THEN S \cup {n} ELSE S
  BY <1>3 DEF Escalations
<1>5. n \notin S /\ IsFiniteSet(S)
  BY <1>3, EscalationsFinite DEF Escalations
<1>6. Cardinality(Escalations(i)') = Cardinality(S) + (IF r.status = "escalated" THEN 1 ELSE 0)
  <2>1. Cardinality(S) \in Nat
    BY EscalationsFinite
  <2>2. Cardinality(S \cup {n}) = Cardinality(S) + 1
    BY <1>5, FS_AddElement
  <2> QED BY <1>4, <2>1, <2>2
<1>7. exceptions[i].level = Cardinality(S)
  BY DEF LevelCountsEscalations
<1>8. ~Present(i) => exceptions[i].level = 0 /\ r.status = "open"
  <2>1. SUFFICES ASSUME ~Present(i) PROVE exceptions[i].level = 0 /\ r.status = "open"
    OBVIOUS
  <2>2. events[i] = <<>>
    <3>1. SUFFICES ASSUME events[i] # <<>> PROVE FALSE
      OBVIOUS
    <3>2. Len(events[i]) \in 1..Len(events[i])
      BY <1>2, <3>1
    <3>3. events[i][Len(events[i])] \in Event
      BY <1>2, <3>2
    <3>4. exceptions[i].status \in Statuses
      BY <3>1, <3>3 DEF LedgerExplainsRow, Event
    <3> QED BY <2>1, <3>4 DEF Present, Statuses, ACTIVE_STATUSES, CLOSED_STATUSES
  <2>3. S = {}
    BY <2>2 DEF Escalations
  <2>4. r.status = "open"
    BY <2>1 DEF Move, Accepted, Lawful, LegalMove, Present, TRANSITIONS, Statuses,
                ACTIVE_STATUSES, CLOSED_STATUSES
  <2> QED BY <1>7, <2>3, <2>4, FS_EmptySet
<1>9. r.level = exceptions[i].level + (IF r.status = "escalated" THEN 1 ELSE 0)
  <2>1. exceptions[i].level \in Nat
    BY <1>7, EscalationsFinite
  <2> QED BY <1>8, <2>1 DEF Move, Accepted
<1>10. exceptions'[i].level = Cardinality(Escalations(i)')
  BY <1>2, <1>6, <1>7, <1>9
<1>11. \A j \in Ids \ {i} : exceptions'[j].level = Cardinality(Escalations(j)')
  BY <1>1 DEF LevelCountsEscalations, Escalations
<1> QED BY <1>10, <1>11 DEF LevelCountsEscalations

LEMMA QuietKeepsSafe ==
  ASSUME Quiet, Safe PROVE Safe'
<1>1. OneActivePerKey'
  BY DEF Quiet, Safe, OneActivePerKey, Active
<1>2. LedgerExplainsRow'
  BY DEF Quiet, Safe, LedgerExplainsRow, Present
<1>3. ChainUnlessReactivated'
  BY DEF Quiet, Safe, ChainUnlessReactivated
<1>4. ResolutionOnlyWhenResolved'
  BY DEF Quiet, Safe, ResolutionOnlyWhenResolved
<1>5. LevelCountsEscalations'
  BY DEF Quiet, Safe, LevelCountsEscalations, Escalations
<1> QED
  BY <1>1, <1>2, <1>3, <1>4, <1>5 DEF Safe

\* The invariant holds in every reachable state.
LEMMA SafeAlways == Spec => []Safe
<1>1. Init => TypeInv /\ TargetsPresent /\ Safe
  <2>0. ASSUME Init PROVE TargetsPresent
    BY <2>0 DEF Init, TargetsPresent
  <2>1. ASSUME Init PROVE Safe
    <3>1. OneActivePerKey /\ LedgerExplainsRow /\ ChainUnlessReactivated /\ ResolutionOnlyWhenResolved
      BY <2>1 DEF Init, OneActivePerKey, LedgerExplainsRow, ChainUnlessReactivated,
                  ResolutionOnlyWhenResolved, Active, Present, NoRow, ACTIVE_STATUSES
    <3>2. \A i \in Ids : Escalations(i) = {} /\ exceptions[i].level = 0
      BY <2>1 DEF Init, NoRow, Escalations
    <3>3. LevelCountsEscalations
      BY <3>2, FS_EmptySet DEF LevelCountsEscalations
    <3> QED BY <3>1, <3>3 DEF Safe
  <2> QED
    BY <2>0, <2>1, InitType
<1>2. TypeInv /\ TargetsPresent /\ Safe /\ [Next]_vars => (TypeInv /\ TargetsPresent /\ Safe)'
  <2> SUFFICES ASSUME TypeInv, TargetsPresent, Safe, [Next]_vars
               PROVE  TypeInv' /\ TargetsPresent' /\ Safe'
    OBVIOUS
  <2>1. TypeInv'
    BY NextType
  <2>2. ASSUME Quiet PROVE Safe'
    BY <2>2, QuietKeepsSafe
  <2>3. ASSUME NEW i \in Ids, NEW r, NEW from, Move(i, r, from) PROVE Safe'
    BY <2>3, MoveKeepsOneActive, MoveKeepsLedger, MoveKeepsResolution, MoveKeepsLevels DEF Safe
  <2>4. Quiet \/ \E i \in Ids : \E r, from : Move(i, r, from)
    BY StepMoves
  <2>5. TargetsPresent'
    BY TargetsStay
  <2> QED
    BY <2>1, <2>2, <2>3, <2>4, <2>5
<1> QED
  BY <1>1, <1>2, PTL DEF Spec

\* However many callers raise, reopen and re-activate at once, a dedupe key
\* never has two active exceptions.
THEOREM DedupeHolds == Spec => []OneActivePerKey
BY SafeAlways, PTL DEF Safe

\* The status of every exception is the one its last status event led to.
THEOREM LedgerAgrees == Spec => []LedgerExplainsRow
BY SafeAlways, PTL DEF Safe

\* Only the unlocked re-activation can put an event into the ledger whose
\* from_status is not the status the event before it led to.
THEOREM ChainHolds == Spec => []ChainUnlessReactivated
BY SafeAlways, PTL DEF Safe

\* A row carries a resolution exactly while it is resolved.
THEOREM ResolutionHolds == Spec => []ResolutionOnlyWhenResolved
BY SafeAlways, PTL DEF Safe

----------------------------------------------------------------------------
(* What readers are told.  Comments read without a lock and publications   *)
(* follow the commit, so that both are about the past; the invariant is    *)
(* that it is a past that was: what a comment holds is in the ledger, and  *)
(* every publication due has an entry of its own.                          *)

\* Status s is in the ledger of row i.
Logged(i, s) == \E m \in 1..Len(events[i]) : events[i][m].to = s

CommentsOK == \A c \in Callers : pc[c] = "comment" => Logged(target[c], seen[c])

Told == NotesReportRealStatuses /\ AuditBackedByLedger /\ CommentsOK

\* What may be audited about row i: its part of the ledger.
Entries(i) == Len(events[i]) + Len(notes[i])

\* The kinds of steps there are for tables of notes and audit.
Passing(c) ==
  /\ \E label, key, row : label \notin {"publish", "comment"} /\ Goto(c, label, key, row)
  /\ \A d \in Callers \ {c} : seen'[d] = seen[d]
  /\ UNCHANGED <<events, notes, audit>>

Logging(c, i) ==
  /\ \E e \in Event : events' = [events EXCEPT ![i] = Append(@, e)]
  /\ Goto(c, "publish", NoKey, i)
  /\ UNCHANGED <<notes, audit, seen>>

Noting(c, i) ==
  /\ \E s : Logged(i, s) /\ notes' = [notes EXCEPT ![i] = Append(@, s)]
  /\ Goto(c, "publish", NoKey, i)
  /\ \A d \in Callers \ {c} : seen'[d] = seen[d]
  /\ UNCHANGED <<events, audit>>

\* The ledger of a row that exists has the row's status.
LEMMA StatusLogged ==
  ASSUME TypeInv, LedgerExplainsRow, NEW i \in Ids, Present(i)
  PROVE  Logged(i, exceptions[i].status)
<1>1. events[i] \in Seq(Event) /\ events[i] # <<>>
  BY DEF TypeInv, TypeOK, LedgerExplainsRow
<1>2. Len(events[i]) \in 1..Len(events[i])
  BY <1>1
<1> QED BY <1>1, <1>2 DEF LedgerExplainsRow, Logged

\* A commit logs what it did.
LEMMA CommitLogs ==
  ASSUME TypeInv, NEW c \in Callers, NEW i \in Ids, NEW r, NEW from \in Statuses \cup {"none"},
         r.status \in Statuses, Commit(c, i, r, from)
  PROVE  Logging(c, i)
<1>1. [from |-> from, to |-> r.status] \in Event
  BY DEF Event
<1> QED BY <1>1 DEF Commit, AppendEvent, Logging

LEMMA StepKinds ==
  ASSUME TypeInv, LedgerExplainsRow, CommentsOK, [Next]_vars
  PROVE  \/ UNCHANGED vars
         \/ \E c \in Callers :
              Passing(c) \/ Publish(c) \/ \E i \in Ids : Logging(c, i) \/ Noting(c, i) \/ CommentRead(c, i)
<1> DEFINE OfAKind(c) == Passing(c) \/ Publish(c)
                         \/ \E i \in Ids : Logging(c, i) \/ Noting(c, i) \/ CommentRead(c, i)
<1> SUFFICES ASSUME NEW c \in Callers,
                    Raise(c) \/ (\E i \in Ids : Mutate(c, i)) \/ CommentInsert(c) \/ Crash(c)
             PROVE  OfAKind(c)
  BY DEF Next
<1>1. ASSUME Raise(c) PROVE OfAKind(c)
  <2>1. CASE RaiseSelectResolved(c) \/ RaiseRejected(c) \/ RaiseConflict(c)
    BY <2>1 DEF RaiseSelectResolved, RaiseRejected, RaiseConflict, Passing
  <2>2. ASSUME NEW k \in AnyKey, RaiseSelectActive(c, k) PROVE OfAKind(c)
    <3>1. (IF k = NoKey THEN "insert" ELSE "find_resolved") \notin {"publish", "comment"}
      OBVIOUS
    <3> QED BY <2>2, <3>1 DEF RaiseSelectActive, Passing
  <2>3. CASE RaiseReopen(c)
    <3> DEFINE i == target[c]
               r == [exceptions[i] EXCEPT !.status = "reopened", !.resolution = FALSE]
    <3>1. i \in Ids /\ Commit(c, i, r, "resolved")
      BY <2>3 DEF RaiseReopen, TypeInv, CallersOK
    <3>2. exceptions[i] \in Row
      BY <3>1 DEF TypeInv, TypeOK
    <3>3. r.status \in Statuses /\ "resolved" \in Statuses
      BY <3>2 DEF Row, Statuses, ACTIVE_STATUSES, CLOSED_STATUSES
    <3> HIDE DEF r, i
    <3> QED BY <3>1, <3>3, CommitLogs
  <2>4. ASSUME NEW kind \in RaiseKinds, RaiseInsert(c, kind) PROVE OfAKind(c)
    <3> DEFINE r == NewRow(arg[c], kind)
    <3>1. PICK i \in FreshIds : Commit(c, i, r, "none")
      BY <2>4 DEF RaiseInsert
    <3>2. i \in Ids /\ r.status \in Statuses
      BY <3>1 DEF FreshIds, NewRow, Statuses, ACTIVE_STATUSES
    <3> HIDE DEF r
    <3> QED BY <3>1, <3>2, CommitLogs
  <2> QED BY <1>1, <2>1, <2>2, <2>3, <2>4 DEF Raise
<1>2. ASSUME NEW i \in Ids, Mutate(c, i) PROVE OfAKind(c)
  <2>1. exceptions[i] \in Row /\ (Present(i) => exceptions[i].status \in Statuses)
    BY DEF TypeInv, TypeOK, Row, Present
  <2>2. ASSUME NEW to \in Statuses, NEW resolution, Transition(c, i, to, resolution) PROVE OfAKind(c)
    <3> DEFINE r == [exceptions[i] EXCEPT !.status = to, !.resolution = resolution]
    <3>1. r.status = to /\ Present(i) /\ Commit(c, i, r, exceptions[i].status)
      BY <2>1, <2>2 DEF Transition, Row
    <3> HIDE DEF r
    <3> QED BY <2>1, <3>1, CommitLogs
  <2>3. CASE Acknowledge(c, i) \/ BeginWork(c, i) \/ PlaceWaiting(c, i) \/ Cancel(c, i) \/ Reopen(c, i)
    BY <2>2, <2>3 DEF Acknowledge, BeginWork, PlaceWaiting, Cancel, Reopen, Statuses,
                      ACTIVE_STATUSES, CLOSED_STATUSES
  <2>4. ASSUME NEW o \in AnyOwner, Escalate(c, i, o) PROVE OfAKind(c)
    <3> DEFINE r == [exceptions[i] EXCEPT !.status = "escalated", !.level = @ + 1,
                                          !.owner = IF o = NoOwner THEN @ ELSE o]
    <3>1. /\ r.status = "escalated" /\ Commit(c, i, r, exceptions[i].status)
          /\ exceptions[i].status \in Statuses /\ "escalated" \in Statuses
      BY <2>1, <2>4 DEF Escalate, Row, Active, Statuses, ACTIVE_STATUSES
    <3> HIDE DEF r
    <3> QED BY <3>1, CommitLogs
  <2>5. CASE Resolve(c, i)
    <3> DEFINE r == [exceptions[i] EXCEPT !.status = "resolved", !.resolution = TRUE]
    <3>1. /\ r.status = "resolved" /\ Commit(c, i, r, exceptions[i].status)
          /\ exceptions[i].status \in Statuses /\ "resolved" \in Statuses
      BY <2>1, <2>5 DEF Resolve, Row, Statuses, CLOSED_STATUSES
    <3> HIDE DEF r
    <3> QED BY <3>1, CommitLogs
  <2>6. ASSUME NEW o \in Owners, Assign(c, i, o) PROVE OfAKind(c)
    <3>1. Logged(i, exceptions[i].status)
      BY <2>6, StatusLogged DEF Assign
    <3> QED BY <2>6, <3>1 DEF Assign, AppendNote, Noting
  <2> QED BY <1>2, <2>3, <2>4, <2>5, <2>6 DEF Mutate
<1>3. CASE CommentInsert(c)
  <2>1. target[c] \in Ids /\ Logged(target[c], seen[c])
    BY <1>3 DEF CommentInsert, TypeInv, CallersOK, CommentsOK
  <2>2. \A d \in Callers \ {c} : seen'[d] = seen[d]
    BY <1>3 DEF CommentInsert, TypeInv, TypeOK
  <2> QED BY <1>3, <2>1, <2>2 DEF CommentInsert, AppendNote, Noting
<1>4. CASE Crash(c)
  BY <1>4 DEF Crash, Passing, TypeInv, TypeOK
<1> QED BY <1>1, <1>2, <1>3, <1>4

\* Who still has to publish about row i after a caller has gone on.
LEMMA PublishersStep ==
  ASSUME TypeInv, NEW c \in Callers, NEW label, NEW key, NEW row, Goto(c, label, key, row),
         NEW i \in Ids
  PROVE  /\ Cardinality(Publishers(i)) \in Nat /\ Cardinality(Publishers(i)') \in Nat
         /\ Cardinality(Publishers(i)') <= Cardinality(Publishers(i))
              + (IF label = "publish" /\ row = i THEN 1 ELSE 0)
         /\ c \in Publishers(i) /\ label # "publish" =>
              Cardinality(Publishers(i)') = Cardinality(Publishers(i)) - 1
<1> DEFINE P == Publishers(i)
<1>1. IsFiniteSet(P)
  BY FS_Subset, CallersAssumption DEF CallersAssumption, Publishers
<1>2. Publishers(i)' = IF label = "publish" /\ row = i THEN P \cup {c} ELSE P \ {c}
  BY DEF Publishers, Goto, TypeInv, TypeOK
<1>3. /\ Cardinality(P) \in Nat /\ Cardinality(P \cup {c}) \in Nat /\ Cardinality(P \ {c}) \in Nat
  BY <1>1, FS_CardinalityType, FS_AddElement, FS_RemoveElement
<1>4. /\ Cardinality(P \cup {c}) = IF c \in P THEN Cardinality(P) ELSE Cardinality(P) + 1
      /\ Cardinality(P \ {c}) = IF c \in P THEN Cardinality(P) - 1 ELSE Cardinality(P)
  BY <1>1, FS_AddElement, FS_RemoveElement
<1> HIDE DEF P
<1>5. CASE label = "publish" /\ row = i
  BY <1>2, <1>3, <1>4, <1>5 DEF P
<1>6. CASE ~(label = "publish" /\ row = i)
  BY <1>2, <1>3, <1>4, <1>6 DEF P
<1> QED BY <1>5, <1>6

\* The ledger only grows.
LEMMA LoggedStays ==
  ASSUME TypeInv, NEW e, NEW i \in Ids, NEW j \in Ids, NEW s, Logged(j, s),
         events' = [events EXCEPT ![i] = Append(@, e)]
  PROVE  Logged(j, s)'
<1>1. events[i] \in Seq(Event) /\ events[j] \in Seq(Event)
  BY DEF TypeInv, TypeOK
<1>2. CASE j = i
  <2>1. events'[i] = Append(events[i], e)
    BY DEF TypeInv, TypeOK
  <2>2. Len(events'[i]) = Len(events[i]) + 1 /\ Len(events[i]) \in Nat
        /\ \A m \in 1..Len(events[i]) : events'[i][m] = events[i][m]
    BY <1>1, <2>1
  <2> QED BY <1>2, <2>2 DEF Logged
<1>3. CASE j # i
  BY <1>3 DEF Logged, TypeInv, TypeOK
<1> QED BY <1>2, <1>3

LEMMA CommentsKept ==
  ASSUME TypeInv, CommentsOK, NEW c \in Callers, NEW label, NEW key, NEW row,
         Goto(c, label, key, row), label # "comment",
         \A d \in Callers \ {c} : seen'[d] = seen[d],
         \A j \in Ids : \A s : Logged(j, s) => Logged(j, s)'
  PROVE  CommentsOK'
<1> SUFFICES ASSUME NEW d \in Callers, pc'[d] = "comment" PROVE Logged(target[d], seen[d])'
  BY DEF CommentsOK
<1>1. d # c /\ pc[d] = "comment" /\ target'[d] = target[d] /\ seen'[d] = seen[d]
  BY DEF Goto, TypeInv, TypeOK
<1>2. PICK j, s : j \in Ids /\ j = target[d] /\ s = seen[d]
  BY <1>1 DEF TypeInv, CallersOK
<1>3. Logged(j, s)'
  BY <1>1, <1>2 DEF CommentsOK
<1> QED BY <1>1, <1>2, <1>3 DEF Logged

\* The two lengths by name, for the arithmetic.
LEMMA EntriesAre ==
  ASSUME TypeInv, NEW i \in Ids
  PROVE  \E e, n \in Nat : Len(events[i]) = e /\ Len(notes[i]) = n /\ Entries(i) = e + n
<1>1. PICK e \in Nat : Len(events[i]) = e
  BY DEF TypeInv, TypeOK
<1>2. PICK n \in Nat : Len(notes[i]) = n
  BY DEF TypeInv, TypeOK
<1> QED BY <1>1, <1>2 DEF Entries

LEMMA EntriesType == ASSUME TypeInv, NEW i \in Ids PROVE Entries(i) \in Nat
BY EntriesAre

LEMMA PassingKeeps == ASSUME TypeInv, Told, NEW c \in Callers, Passing(c) PROVE Told'
<1>1. PICK label, key, row : label \notin {"publish", "comment"} /\ Goto(c, label, key, row)
  BY DEF Passing
<1>2. CommentsOK'
  BY <1>1, CommentsKept DEF Passing, Told, Logged
<1>3. NotesReportRealStatuses'
  BY DEF Passing, Told, NotesReportRealStatuses
<1>4. ASSUME NEW i \in Ids
      PROVE  audit'[i] + Cardinality(Publishers(i)') <= Entries(i)'
  <2>1. /\ Cardinality(Publishers(i)) \in Nat /\ Cardinality(Publishers(i)') \in Nat
        /\ Cardinality(Publishers(i)') <= Cardinality(Publishers(i))
    BY <1>1, PublishersStep
  <2>2. audit[i] + Cardinality(Publishers(i)) <= Entries(i) /\ audit[i] \in Nat /\ Entries(i) \in Nat
    BY EntriesType DEF Told, AuditBackedByLedger, Entries, TypeInv, TypeOK
  <2>3. audit'[i] = audit[i] /\ Entries(i)' = Entries(i)
    BY DEF Passing, Entries
  <2> QED BY <2>1, <2>2, <2>3
<1> QED BY <1>2, <1>3, <1>4 DEF Told, AuditBackedByLedger, Entries

LEMMA LoggingKeeps ==
  ASSUME TypeInv, Told, NEW c \in Callers, NEW i \in Ids, Logging(c, i) PROVE Told'
<1>1. PICK e0 \in Event : events' = [events EXCEPT ![i] = Append(@, e0)]
  BY DEF Logging
<1>2. \A j \in Ids : \A s : Logged(j, s) => Logged(j, s)'
  BY <1>1, LoggedStays
<1>3. CommentsOK'
  BY <1>2, CommentsKept DEF Logging, Told
<1>4. NotesReportRealStatuses'
  <2>1. \A j \in Ids : \A n \in 1..Len(notes[j]) : Logged(j, notes[j][n])
    BY DEF Told, NotesReportRealStatuses, Logged
  <2>2. \A j \in Ids : \A n \in 1..Len(notes[j]) :
          \E m \in 1..Len(events'[j]) : events'[j][m].to = notes[j][n]
    BY <1>2, <2>1, ZenonT(30) DEF Logged
  <2> QED BY <2>2 DEF Logging, NotesReportRealStatuses
<1>5. ASSUME NEW j \in Ids
      PROVE  audit'[j] + Cardinality(Publishers(j)') <= Entries(j)'
  <2>1. /\ Cardinality(Publishers(j)) \in Nat /\ Cardinality(Publishers(j)') \in Nat
        /\ Cardinality(Publishers(j)') <= Cardinality(Publishers(j)) + (IF j = i THEN 1 ELSE 0)
    BY PublishersStep DEF Logging
  <2>2. audit[j] + Cardinality(Publishers(j)) <= Entries(j) /\ audit[j] \in Nat /\ Entries(j) \in Nat
    BY EntriesType DEF Told, AuditBackedByLedger, Entries, TypeInv, TypeOK
  <2>3. PICK e, n \in Nat : Len(events[j]) = e /\ Len(notes[j]) = n /\ Entries(j) = e + n
    BY EntriesAre
  <2>4. Len(events'[j]) = IF j = i THEN e + 1 ELSE e
    <3>1. CASE j = i
      <4>1. events'[i] = Append(events[i], e0) /\ events[i] \in Seq(Event)
        BY <1>1 DEF TypeInv, TypeOK
      <4>2. Len(events'[i]) = Len(events[i]) + 1
        BY <4>1
      <4> QED BY <2>3, <3>1, <4>2
    <3>2. CASE j # i
      BY <1>1, <2>3, <3>2 DEF TypeInv, TypeOK
    <3> QED BY <3>1, <3>2
  <2>5. audit'[j] = audit[j] /\ notes'[j] = notes[j]
    BY DEF Logging
  <2>6. Entries(j)' = Entries(j) + (IF j = i THEN 1 ELSE 0)
    <3>1. Len(notes'[j]) = n
      BY <2>3, <2>5
    <3> QED BY <2>3, <2>4, <3>1 DEF Entries
  <2> QED BY <2>1, <2>2, <2>5, <2>6
<1> QED BY <1>3, <1>4, <1>5 DEF Told, AuditBackedByLedger, Entries

LEMMA NotingKeeps ==
  ASSUME TypeInv, Told, NEW c \in Callers, NEW i \in Ids, Noting(c, i) PROVE Told'
<1>1. PICK s : Logged(i, s) /\ notes' = [notes EXCEPT ![i] = Append(@, s)]
  BY DEF Noting
<1>2. CommentsOK'
  BY CommentsKept DEF Noting, Told, Logged
<1>3. \A j \in Ids :
        /\ Len(notes[j]) \in Nat
        /\ j # i => notes'[j] = notes[j]
        /\ j = i => Len(notes'[j]) = Len(notes[j]) + 1 /\ notes'[j][Len(notes[j]) + 1] = s
        /\ \A n \in 1..Len(notes[j]) : notes'[j][n] = notes[j][n]
  <2> SUFFICES ASSUME NEW j \in Ids
               PROVE  /\ Len(notes[j]) \in Nat
                      /\ j # i => notes'[j] = notes[j]
                      /\ j = i => Len(notes'[j]) = Len(notes[j]) + 1 /\ notes'[j][Len(notes[j]) + 1] = s
                      /\ \A n \in 1..Len(notes[j]) : notes'[j][n] = notes[j][n]
    OBVIOUS
  <2>1. notes[j] \in Seq(Statuses) /\ (j # i => notes'[j] = notes[j])
        /\ (j = i => notes'[j] = Append(notes[j], s))
    BY <1>1 DEF TypeInv, TypeOK
  <2> QED BY <2>1
<1>4. NotesReportRealStatuses'
  <2> SUFFICES ASSUME NEW j \in Ids, NEW n \in 1..Len(notes'[j]) PROVE Logged(j, notes'[j][n])
    BY DEF Noting, NotesReportRealStatuses, Logged
  <2>1. CASE n \in 1..Len(notes[j])
    <3>1. notes'[j][n] = notes[j][n]
      BY <1>3, <2>1
    <3> QED BY <2>1, <3>1 DEF Told, NotesReportRealStatuses, Logged
  <2>2. CASE n \notin 1..Len(notes[j])
    <3>1. j = i
      BY <1>3, <2>2
    <3>2. n = Len(notes[j]) + 1
      BY <1>3, <2>2, <3>1
    <3> QED BY <1>1, <1>3, <3>1, <3>2
  <2> QED BY <2>1, <2>2
<1>5. ASSUME NEW j \in Ids
      PROVE  audit'[j] + Cardinality(Publishers(j)') <= Entries(j)'
  <2>1. /\ Cardinality(Publishers(j)) \in Nat /\ Cardinality(Publishers(j)') \in Nat
        /\ Cardinality(Publishers(j)') <= Cardinality(Publishers(j)) + (IF j = i THEN 1 ELSE 0)
    BY PublishersStep DEF Noting
  <2>2. audit[j] + Cardinality(Publishers(j)) <= Entries(j) /\ audit[j] \in Nat /\ Entries(j) \in Nat
    BY EntriesType DEF Told, AuditBackedByLedger, Entries, TypeInv, TypeOK
  <2>3. PICK e, n \in Nat : Len(events[j]) = e /\ Len(notes[j]) = n /\ Entries(j) = e + n
    BY EntriesAre
  <2>4. Len(notes'[j]) = IF j = i THEN n + 1 ELSE n
    <3>1. CASE j = i
      BY <1>3, <2>3, <3>1
    <3>2. CASE j # i
      BY <1>3, <2>3, <3>2
    <3> QED BY <3>1, <3>2
  <2>5. audit'[j] = audit[j] /\ events'[j] = events[j]
    BY DEF Noting
  <2>6. Entries(j)' = Entries(j) + (IF j = i THEN 1 ELSE 0)
    <3>1. Len(events'[j]) = e
      BY <2>3, <2>5
    <3> QED BY <2>3, <2>4, <3>1 DEF Entries
  <2> QED BY <2>1, <2>2, <2>5, <2>6
<1> QED BY <1>2, <1>4, <1>5 DEF Told, AuditBackedByLedger, Entries

LEMMA PublishKeeps == ASSUME TypeInv, Told, NEW c \in Callers, Publish(c) PROVE Told'
<1>1. target[c] \in Ids /\ Goto(c, "idle", NoKey, 0) /\ UNCHANGED <<events, notes, seen>>
  BY DEF Publish, TypeInv, CallersOK
<1>2. CommentsOK'
  BY <1>1, CommentsKept DEF Told, Logged
<1>3. NotesReportRealStatuses'
  BY <1>1 DEF Told, NotesReportRealStatuses
<1>4. ASSUME NEW j \in Ids
      PROVE  audit'[j] + Cardinality(Publishers(j)') <= Entries(j)'
  <2>1. /\ Cardinality(Publishers(j)) \in Nat /\ Cardinality(Publishers(j)') \in Nat
        /\ Cardinality(Publishers(j)') <= Cardinality(Publishers(j))
        /\ c \in Publishers(j) => Cardinality(Publishers(j)') = Cardinality(Publishers(j)) - 1
    BY <1>1, PublishersStep
  <2>2. audit[j] + Cardinality(Publishers(j)) <= Entries(j) /\ audit[j] \in Nat /\ Entries(j) \in Nat
    BY EntriesType DEF Told, AuditBackedByLedger, Entries, TypeInv, TypeOK
  <2>3. audit'[j] = IF j = target[c] THEN audit[j] + 1 ELSE audit[j]
    BY DEF Publish, TypeInv, TypeOK
  <2>4. c \in Publishers(j) <=> j = target[c]
    BY DEF Publish, Publishers
  <2>5. Entries(j)' = Entries(j)
    BY <1>1 DEF Entries
  <2>6. CASE j = target[c]
    BY <2>1, <2>2, <2>3, <2>4, <2>5, <2>6
  <2>7. CASE j # target[c]
    BY <2>1, <2>2, <2>3, <2>5, <2>7
  <2> QED BY <2>6, <2>7
<1> QED BY <1>2, <1>3, <1>4 DEF Told, AuditBackedByLedger, Entries

LEMMA CommentReadKeeps ==
  ASSUME TypeInv, LedgerExplainsRow, Told, NEW c \in Callers, NEW i \in Ids, CommentRead(c, i)
  PROVE  Told'
<1>1. Goto(c, "comment", NoKey, i) /\ UNCHANGED <<events, notes, audit>> /\ Present(i)
  BY DEF CommentRead
<1>2. CommentsOK'
  <2> SUFFICES ASSUME NEW d \in Callers, pc'[d] = "comment" PROVE Logged(target[d], seen[d])'
    BY DEF CommentsOK
  <2>1. CASE d = c
    <3>1. target'[d] = i /\ seen'[d] = exceptions[i].status
      BY <2>1, <1>1 DEF CommentRead, Goto, TypeInv, TypeOK
    <3>2. Logged(i, exceptions[i].status)
      BY <1>1, StatusLogged
    <3> QED BY <1>1, <3>1, <3>2 DEF Logged
  <2>2. CASE d # c
    <3>1. pc[d] = "comment" /\ target'[d] = target[d] /\ seen'[d] = seen[d]
      BY <2>2, <1>1 DEF CommentRead, Goto, TypeInv, TypeOK
    <3>2. Logged(target[d], seen[d])
      BY <3>1 DEF Told, CommentsOK
    <3> QED BY <1>1, <3>1, <3>2 DEF Logged
  <2> QED BY <2>1, <2>2
<1>3. NotesReportRealStatuses'
  BY <1>1 DEF Told, NotesReportRealStatuses
<1>4. ASSUME NEW j \in Ids
      PROVE  audit'[j] + Cardinality(Publishers(j)') <= Entries(j)'
  <2>1. /\ Cardinality(Publishers(j)) \in Nat /\ Cardinality(Publishers(j)') \in Nat
        /\ Cardinality(Publishers(j)') <= Cardinality(Publishers(j))
    BY <1>1, PublishersStep
  <2>2. audit[j] + Cardinality(Publishers(j)) <= Entries(j) /\ audit[j] \in Nat /\ Entries(j) \in Nat
    BY EntriesType DEF Told, AuditBackedByLedger, Entries, TypeInv, TypeOK
  <2>3. audit'[j] = audit[j] /\ Entries(j)' = Entries(j)
    BY <1>1 DEF Entries
  <2> QED BY <2>1, <2>2, <2>3
<1> QED BY <1>2, <1>3, <1>4 DEF Told, AuditBackedByLedger, Entries

\* Whatever comments read before others commit, and whichever publications
\* crashes lose, level, notes and audit never report what did not happen.
THEOREM RecordsHold == Spec => []RecordsHonest
<1>1. Init => Told
  <2> SUFFICES ASSUME Init PROVE Told
    OBVIOUS
  <2>1. \A i \in Ids : Publishers(i) = {} /\ audit[i] = 0 /\ events[i] = <<>> /\ notes[i] = <<>>
    BY DEF Init, Publishers
  <2>2. AuditBackedByLedger
    <3>1. \A i \in Ids : Cardinality(Publishers(i)) = 0
      BY <2>1, FS_EmptySet
    <3>2. ASSUME NEW i \in Ids PROVE Entries(i) = 0
      <4>1. Len(events[i]) = 0 /\ Len(notes[i]) = 0
        BY <2>1
      <4> QED BY <4>1 DEF Entries
    <3>3. \A i \in Ids : audit[i] + Cardinality(Publishers(i)) <= Entries(i)
      BY <2>1, <3>1, <3>2
    <3> QED BY <3>3 DEF AuditBackedByLedger, Entries
  <2>3. NotesReportRealStatuses /\ CommentsOK
    BY <2>1 DEF Init, NotesReportRealStatuses, CommentsOK
  <2> QED BY <2>2, <2>3 DEF Told
<1>2. TypeInv /\ Safe /\ Told /\ [Next]_vars => Told'
  <2> SUFFICES ASSUME TypeInv, Safe, Told, [Next]_vars PROVE Told'
    OBVIOUS
  <2>1. LedgerExplainsRow
    BY DEF Safe
  <2>2. CASE UNCHANGED vars
    BY <2>2 DEF vars, Told, NotesReportRealStatuses, AuditBackedByLedger, CommentsOK, Logged, Publishers
  <2>3. CASE ~UNCHANGED vars
    <3>1. PICK c \in Callers :
            Passing(c) \/ Publish(c) \/ \E i \in Ids : Logging(c, i) \/ Noting(c, i) \/ CommentRead(c, i)
      BY <2>1, <2>3, StepKinds DEF Told
    <3> QED
      BY <2>1, <3>1, PassingKeeps, PublishKeeps, LoggingKeeps, NotingKeeps, CommentReadKeeps
  <2> QED BY <2>2, <2>3
<1>3. Spec => []TypeInv
  BY InitType, NextType, PTL DEF Spec
<1>4. TypeInv /\ Safe /\ Told => RecordsHonest
  BY DEF Safe, Told, RecordsHonest
<1> QED BY <1>1, <1>2, <1>3, <1>4, SafeAlways, PTL DEF Spec

----------------------------------------------------------------------------
(* Refinement *)

\* Every step of the engine is a step of ExceptionLifecycle on the status
\* column, or leaves that column alone.
LEMMA StepImplements ==
  ASSUME TypeInv, TargetsPresent, [Next]_vars
  PROVE  [Lifecycle!LifecycleNext]_[i \in Ids |-> exceptions[i].status]
<1> DEFINE column == [i \in Ids |-> exceptions[i].status]
<1>1. CASE Quiet
  <2>1. column' = column
    BY <1>1 DEF Quiet
  <2> QED
    BY <2>1
<1>2. ASSUME NEW i \in Ids, NEW r, NEW from, Move(i, r, from)
      PROVE  Lifecycle!LifecycleNext
  <2>1. exceptions'[i] = r /\ \A j \in Ids \ {i} : exceptions'[j] = exceptions[j]
    BY <1>2 DEF Move, TypeInv, TypeOK
  <2>2. column' = [column EXCEPT ![i] = r.status]
    BY <2>1
  <2>3. r.status \in Statuses /\ Lawful(i, r.status)
    BY <1>2 DEF Move, Accepted
  <2>4. column[i] = exceptions[i].status
    OBVIOUS
  <2>5. CASE ~Present(i) /\ r.status = "open"
    BY <2>2, <2>4, <2>5 DEF Lifecycle!LifecycleNext, Lifecycle!Open, Present
  <2>6. CASE LegalMove(exceptions[i].status, r.status)
    <3>1. Lifecycle!LegalMove(column[i], r.status)
      BY <2>4, <2>6 DEF LegalMove, Lifecycle!LegalMove, Statuses, Lifecycle!Statuses, TRANSITIONS,
           Lifecycle!TRANSITIONS, ACTIVE_STATUSES, Lifecycle!ACTIVE_STATUSES, CLOSED_STATUSES,
           Lifecycle!CLOSED_STATUSES
    <3>2. r.status \in Lifecycle!Statuses
      BY <2>3 DEF Statuses, Lifecycle!Statuses, ACTIVE_STATUSES, Lifecycle!ACTIVE_STATUSES,
           CLOSED_STATUSES, Lifecycle!CLOSED_STATUSES
    <3> QED
      BY <2>2, <3>1, <3>2 DEF Lifecycle!LifecycleNext, Lifecycle!Advance
  <2>7. CASE Present(i) /\ r.status = "reopened"
    BY <2>2, <2>4, <2>7 DEF Lifecycle!LifecycleNext, Lifecycle!Reactivate, Present
  <2> QED
    BY <2>3, <2>5, <2>6, <2>7 DEF Lawful
<1> QED
  BY <1>1, <1>2, StepMoves

\* The engine implements the abstract lifecycle, whatever transactions of
\* whatever callers overlap.
THEOREM EngineImplementsLifecycle == Spec => ImplementsLifecycle
<1>1. Init => Lifecycle!LifecycleInit
  BY DEF Init, Lifecycle!LifecycleInit, NoRow
<1>2. TypeInv /\ TargetsPresent /\ [Next]_vars
        => [Lifecycle!LifecycleNext]_[i \in Ids |-> exceptions[i].status]
  BY StepImplements
<1>3. Spec => []TypeInv
  BY InitType, NextType, PTL DEF Spec
<1>4. Spec => []TargetsPresent
  <2>1. Init => TargetsPresent
    BY DEF Init, TargetsPresent
  <2> QED
    BY <1>3, <2>1, TargetsStay, PTL DEF Spec
<1> QED
  BY <1>1, <1>2, <1>3, <1>4, PTL DEF Spec, ImplementsLifecycle, Lifecycle!LifecycleSpec

----------------------------------------------------------------------------
(* One caller at a time.  That a cancelled exception stays cancelled, which *)
(* fails when a raise overlaps another call, holds when none does.          *)

OneCaller == \A c, d \in Callers : c = d

\* The row that a raise has selected is as it was selected.
StillResolved == \A c \in Callers : pc[c] = "reopen" => exceptions[target[c]].status = "resolved"

\* No other step leads to the re-activation.
LEMMA ResolvedStays ==
  ASSUME TypeInv, OneCaller, StillResolved, [Next]_vars PROVE StillResolved'
<1>1. CASE UNCHANGED vars
  BY <1>1 DEF vars, StillResolved
<1>2. ASSUME NEW c \in Callers, RaiseSelectResolved(c) PROVE StillResolved'
  <2>1. pc' = [pc EXCEPT ![c] = pc'[c]] /\ target' = [target EXCEPT ![c] = target'[c]] /\ UNCHANGED exceptions
    BY <1>2 DEF RaiseSelectResolved, Goto, TypeInv, TypeOK
  <2>2. pc'[c] = "reopen" => target'[c] \in ResolvedWith(arg[c])
    BY <1>2 DEF RaiseSelectResolved, Goto, Newest, TypeInv, TypeOK
  <2>3. pc'[c] = "reopen" => exceptions'[target'[c]].status = "resolved"
    BY <2>1, <2>2 DEF ResolvedWith
  <2> QED BY <1>2, <2>3 DEF OneCaller, StillResolved
<1>3. ASSUME NEW c \in Callers, NEW label, NEW key, NEW row, Goto(c, label, key, row), label # "reopen"
      PROVE  StillResolved'
  <2>1. pc'[c] # "reopen"
    BY <1>3 DEF Goto, TypeInv, TypeOK
  <2> QED BY <1>3, <2>1 DEF OneCaller, StillResolved
<1>4. ASSUME NEW c \in Callers, Raise(c) PROVE StillResolved'
  BY <1>2, <1>3, <1>4 DEF Raise, RaiseSelectActive, RaiseReopen, RaiseInsert, RaiseRejected,
     RaiseConflict, Commit
<1>5. ASSUME NEW c \in Callers, NEW i \in Ids, Mutate(c, i) PROVE StillResolved'
  BY <1>3, <1>5 DEF Mutate, Acknowledge, BeginWork, PlaceWaiting, Cancel, Reopen, Transition, Escalate,
     Resolve, Assign, CommentRead, AppendNote, Commit
<1>6. ASSUME NEW c \in Callers, CommentInsert(c) \/ Publish(c) \/ Crash(c) PROVE StillResolved'
  BY <1>3, <1>6 DEF CommentInsert, AppendNote, Publish, Crash
<1> QED BY <1>1, <1>4, <1>5, <1>6 DEF Next

\* A commit that writes another row, or this one if it was not cancelled.
LEMMA CommitSpares ==
  ASSUME TypeInv, NEW c, NEW i \in Ids, NEW r, NEW from, Commit(c, i, r, from),
         exceptions[i].status # "cancelled", NEW j \in Ids, exceptions[j].status = "cancelled"
  PROVE  exceptions'[j].status = "cancelled"
BY DEF Commit, TypeInv, TypeOK

LEMMA CancelledStays ==
  ASSUME TypeInv, StillResolved, Next, NEW j \in Ids, exceptions[j].status = "cancelled"
  PROVE  exceptions'[j].status = "cancelled"
<1> DEFINE Goal == exceptions'[j].status = "cancelled"
<1>1. ASSUME NEW c \in Callers, Raise(c) PROVE Goal
  <2>1. CASE UNCHANGED exceptions
    BY <2>1
  <2>2. CASE RaiseReopen(c)
    <3>1. target[c] \in Ids /\ exceptions[target[c]].status # "cancelled"
      BY <1>1, <2>2 DEF RaiseReopen, TypeInv, CallersOK, StillResolved
    <3> QED BY <2>2, <3>1, CommitSpares DEF RaiseReopen
  <2>3. ASSUME NEW kind \in RaiseKinds, RaiseInsert(c, kind) PROVE Goal
    <3>1. PICK i \in FreshIds : Commit(c, i, NewRow(arg[c], kind), "none")
      BY <2>3 DEF RaiseInsert
    <3>2. i \in Ids /\ i \in Nat /\ ~Present(i)
      BY <3>1 DEF FreshIds, Ids
    <3> QED BY <3>1, <3>2, CommitSpares DEF Present
  <2> QED BY <1>1, <2>1, <2>2, <2>3 DEF Raise, RaiseSelectActive, RaiseSelectResolved, RaiseRejected, RaiseConflict
<1>2. ASSUME NEW c \in Callers, NEW i \in Ids, Mutate(c, i) PROVE Goal
  <2>1. ASSUME NEW to, NEW resolution, Transition(c, i, to, resolution) PROVE Goal
    <3>1. exceptions[i].status # "cancelled"
      BY <2>1 DEF Transition, TRANSITIONS
    <3> QED BY <2>1, <3>1, CommitSpares DEF Transition
  <2>2. ASSUME NEW o \in AnyOwner, Escalate(c, i, o) PROVE Goal
    BY <2>2, CommitSpares DEF Escalate, Active, ACTIVE_STATUSES
  <2>3. CASE Resolve(c, i)
    <3>1. exceptions[i].status # "cancelled"
      BY <2>3 DEF Resolve, TRANSITIONS
    <3> QED BY <2>3, <3>1, CommitSpares DEF Resolve
  <2>4. ASSUME NEW o \in Owners, Assign(c, i, o) PROVE Goal
    <3>1. exceptions[j] \in Row /\ exceptions' = [exceptions EXCEPT ![i].owner = o]
      BY <2>4 DEF Assign, TypeInv, TypeOK
    <3> QED BY <3>1 DEF TypeInv, TypeOK, Row
  <2>5. CASE CommentRead(c, i)
    BY <2>5 DEF CommentRead
  <2> QED BY <1>2, <2>1, <2>2, <2>3, <2>4, <2>5 DEF Mutate, Acknowledge, BeginWork, PlaceWaiting, Cancel, Reopen
<1>3. ASSUME NEW c \in Callers, CommentInsert(c) \/ Publish(c) \/ Crash(c) PROVE Goal
  BY <1>3 DEF CommentInsert, Publish, Crash
<1> QED BY <1>1, <1>2, <1>3 DEF Next

\* If calls do not overlap, a cancelled exception stays cancelled, as the
\* engine's docstring promises of every mutation ("validates the approved state
\* machine against the current row"): the unlocked SELECT of raise_exception
\* is the one place where the promise depends on it.
THEOREM CancelledIsFinalOneByOne == OneCaller /\ Spec => CancelledIsFinal
<1> DEFINE A == \A i \in Ids : exceptions[i].status = "cancelled" => exceptions'[i].status = "cancelled"
<1> SUFFICES ASSUME OneCaller PROVE Spec => CancelledIsFinal
  OBVIOUS
<1>1. Init => StillResolved
  BY DEF Init, StillResolved
<1>2. TypeInv /\ StillResolved /\ [Next]_vars => StillResolved'
  BY ResolvedStays
<1>3. TypeInv /\ StillResolved /\ [Next]_vars => [A]_vars
  BY CancelledStays
<1>4. Spec => []TypeInv
  BY InitType, NextType, PTL DEF Spec
<1>5. Spec => [][A]_vars
  BY <1>1, <1>2, <1>3, <1>4, PTL DEF Spec
<1> QED BY <1>5 DEF CancelledIsFinal
=============================================================================
