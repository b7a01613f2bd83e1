------------------------ MODULE DetectorScanProofs ------------------------
(***************************************************************************)
(* What DetectorScan guarantees for any records and any number of manual   *)
(* scans: type correctness, that an undisturbed scan leaves exceptions and *)
(* records in agreement, and that further scans then change nothing.       *)
(***************************************************************************)
EXTENDS DetectorScan, TLAPS

Raising(s) == scan[s].at \in {"raise", "flip", "insert"}
Closing(s) == scan[s].at \in {"close", "begin", "resolve"}

\* Which keys a scan works through: those it read while it raises, others
\* while it closes.
LocalsOK ==
  \A s \in Scans :
    /\ Raising(s) => /\ scan[s].todo \subseteq scan[s].conditions
                     /\ scan[s].open \subseteq scan[s].conditions
                     /\ scan[s].cur \in Keys => scan[s].cur \in scan[s].todo
    /\ Closing(s) => /\ scan[s].todo \cap scan[s].conditions = {}
                     /\ scan[s].cur \notin scan[s].conditions
    /\ scan[s].at = "flip" => Flips

TypeInv == TypeOK /\ LocalsOK

----------------------------------------------------------------------------
(* Type correctness *)

ScanRecord == [at : Places, conditions : SUBSET Keys, open : SUBSET Keys,
               todo : SUBSET Keys, unstarted : SUBSET Keys, cur : Keys \cup {NoKey}]

\* What the type invariant says of one scan.
ScanOK(r) ==
  /\ r \in ScanRecord
  /\ r.cur \in Keys <=> r.at \in {"flip", "insert", "begin", "resolve"}
  /\ r.at \in {"raise", "flip", "insert"} =>
       /\ r.todo \subseteq r.conditions /\ r.open \subseteq r.conditions
       /\ r.cur \in Keys => r.cur \in r.todo
  /\ r.at \in {"close", "begin", "resolve"} =>
       r.todo \cap r.conditions = {} /\ r.cur \notin r.conditions
  /\ r.at = "flip" => Flips

LEMMA ScansOK ==
  ASSUME TypeInv
  PROVE  scan \in [Scans -> ScanRecord] /\ \A s \in Scans : ScanOK(scan[s])
BY DEF TypeInv, TypeOK, LocalsOK, ScanOK, ScanRecord, Raising, Closing

\* A step that replaces the record of one scan by a well-formed one.
LEMMA ScanType ==
  ASSUME TypeInv, NEW s \in Scans, NEW r, ScanOK(r), scan' = [scan EXCEPT ![s] = r],
         UNCHANGED <<family, bounds>>,
         source' \in [Keys -> {"due", "overdue", "done"}],
         exc' \in [Keys -> Statuses \cup {"absent"}],
         calm' \subseteq Scans, settled' \in BOOLEAN
  PROVE  TypeInv'
<1>1. scan' \in [Scans -> ScanRecord] /\ \A t \in Scans : ScanOK(scan'[t])
  BY ScansOK DEF ScanOK
<1>2. Flips' = Flips
  BY DEF Flips
<1> QED
  BY <1>1, <1>2 DEF TypeInv, TypeOK, LocalsOK, ScanOK, ScanRecord, Raising, Closing, bounds

LEMMA IdleOK == ScanOK(Idle)
BY ScanAssumption DEF Idle, ScanOK, ScanRecord, Places

LEMMA InitType == Init => TypeInv
<1> SUFFICES ASSUME Init PROVE TypeInv
  OBVIOUS
<1>1. ScanOK(Idle)
  BY IdleOK
<1>2. scan \in [Scans -> ScanRecord] /\ \A s \in Scans : ScanOK(scan[s])
  BY <1>1 DEF Init, ScanOK
<1>3. source \in [Keys -> {"due", "overdue", "done"}] /\ exc \in [Keys -> Statuses \cup {"absent"}]
  BY DEF Init
<1>4. changes \in 0..MaxChanges /\ moves \in 0..MaxMoves /\ crashes \in 0..MaxCrashes
  BY ScanAssumption DEF Init
<1>5. family \in Families /\ calm \subseteq Scans /\ settled \in BOOLEAN
  BY DEF Init
<1> QED
  BY <1>2, <1>3, <1>4, <1>5 DEF TypeInv, TypeOK, LocalsOK, ScanOK, ScanRecord, Raising, Closing

\* Every step of a scan replaces its record by a well-formed one.
LEMMA StepRecord ==
  ASSUME TypeInv, NEW s \in Scans, ScanStep(s)
  PROVE  \E r : ScanOK(r) /\ scan' = [scan EXCEPT ![s] = r]
<1> DEFINE old == scan[s]
<1>0. ScanOK(old) /\ scan \in [Scans -> ScanRecord]
  BY ScansOK
<1>1. CASE ReadConditions(s)
  <2> DEFINE held == {k \in Keys : Holds(k)}
             r == [Idle EXCEPT !.at = "raise", !.conditions = held, !.todo = held,
                               !.open = {k \in held : source[k] = "due"}]
  <2>1. ScanOK(r)
    BY ScanAssumption DEF Idle, ScanOK, ScanRecord, Places
  <2>2. scan' = [scan EXCEPT ![s] = r]
    BY <1>1 DEF ReadConditions
  <2> QED
    BY <2>1, <2>2
<1>2. ASSUME NEW k \in Keys, FlipRead(s, k)
      PROVE  \E r : ScanOK(r) /\ scan' = [scan EXCEPT ![s] = r]
  <2> DEFINE r == [old EXCEPT !.cur = k, !.at = IF source[k] = "due" THEN "flip" ELSE "insert"]
  <2>1. ScanOK(r)
    BY <1>0, <1>2 DEF FlipRead, At, ScanOK, ScanRecord, Places
  <2>2. scan' = [scan EXCEPT ![s] = r]
    BY <1>0, <1>2 DEF FlipRead
  <2> QED
    BY <2>1, <2>2
<1>3. CASE FlipWrite(s)
  <2> DEFINE r == [old EXCEPT !.at = "insert"]
  <2>1. ScanOK(r)
    BY <1>0, <1>3 DEF FlipWrite, At, ScanOK, ScanRecord, Places
  <2>2. scan' = [scan EXCEPT ![s] = r]
    BY <1>0, <1>3 DEF FlipWrite
  <2> QED
    BY <2>1, <2>2
<1>4. ASSUME NEW k \in Keys, Raise(s, k)
      PROVE  \E r : ScanOK(r) /\ scan' = [scan EXCEPT ![s] = r]
  <2> DEFINE r == [old EXCEPT !.at = "raise", !.todo = @ \ {k}, !.cur = NoKey]
  <2>1. ScanOK(r)
    BY <1>0, <1>4, ScanAssumption DEF Raise, At, ScanOK, ScanRecord, Places
  <2>2. scan' = [scan EXCEPT ![s] = r]
    BY <1>0, <1>4 DEF Raise
  <2> QED
    BY <2>1, <2>2
<1>5. CASE ListOpen(s)
  <2> DEFINE r == [old EXCEPT !.at = "close", !.todo = Stale(s),
                              !.unstarted = {k \in Stale(s) : exc[k] \in NotStarted}]
  <2>1. ScanOK(r)
    BY <1>0, <1>5, ScanAssumption DEF ListOpen, Stale, At, ScanOK, ScanRecord, Places
  <2>2. scan' = [scan EXCEPT ![s] = r]
    BY <1>0, <1>5 DEF ListOpen
  <2> QED
    BY <2>1, <2>2
<1>6. ASSUME NEW k \in Keys, PickStale(s, k)
      PROVE  \E r : ScanOK(r) /\ scan' = [scan EXCEPT ![s] = r]
  <2> DEFINE r == [old EXCEPT !.cur = k, !.todo = @ \ {k},
                              !.at = IF k \in old.unstarted THEN "begin" ELSE "resolve"]
  <2>1. ScanOK(r)
    BY <1>0, <1>6 DEF PickStale, At, ScanOK, ScanRecord, Places
  <2>2. scan' = [scan EXCEPT ![s] = r]
    BY <1>0, <1>6 DEF PickStale
  <2> QED
    BY <2>1, <2>2
<1>7. ASSUME NEW failed \in BOOLEAN, At(s, "begin") \/ At(s, "resolve"), Over(s, failed)
      PROVE  \E r : ScanOK(r) /\ scan' = [scan EXCEPT ![s] = r]
  <2> DEFINE r == [old EXCEPT !.at = "close", !.cur = NoKey]
  <2>1. ScanOK(r)
    BY <1>0, <1>7, ScanAssumption DEF At, ScanOK, ScanRecord, Places
  <2>2. scan' = [scan EXCEPT ![s] = r] \/ scan' = [scan EXCEPT ![s] = Idle]
    BY <1>0, <1>7 DEF Over
  <2> QED
    BY <2>1, <2>2, IdleOK
<1>8. CASE Begin(s)
  <2> DEFINE r == [old EXCEPT !.at = "resolve"]
  <2>1. ScanOK(r)
    BY <1>0, <1>8 DEF Begin, At, ScanOK, ScanRecord, Places
  <2>2. scan' = [scan EXCEPT ![s] = r] \/ Over(s, TRUE)
    BY <1>0, <1>8 DEF Begin
  <2> QED
    BY <1>7, <1>8, <2>1, <2>2 DEF Begin
<1>9. CASE Resolve(s)
  BY <1>7, <1>9 DEF Resolve
<1>10. CASE ScanEnd(s)
  BY <1>10, IdleOK DEF ScanEnd
<1> QED
  BY <1>1, <1>2, <1>3, <1>4, <1>5, <1>6, <1>8, <1>9, <1>10 DEF ScanStep

\* What a step of a scan leaves alone, and the types of what it writes.
LEMMA StepFrame ==
  ASSUME TypeInv, NEW s \in Scans, ScanStep(s)
  PROVE  /\ UNCHANGED <<family, bounds>>
         /\ source' \in [Keys -> {"due", "overdue", "done"}]
         /\ exc' \in [Keys -> Statuses \cup {"absent"}]
         /\ calm' \subseteq Scans /\ settled' \in BOOLEAN
<1> USE DEF TypeInv, TypeOK, history
<1>1. CASE ReadConditions(s)
  BY <1>1 DEF ReadConditions
<1>2. ASSUME NEW k \in Keys, FlipRead(s, k) \/ PickStale(s, k)
      PROVE  UNCHANGED <<family, source, exc, history, bounds>>
  BY <1>2 DEF FlipRead, PickStale
<1>3. CASE FlipWrite(s)
  BY <1>3 DEF FlipWrite
<1>4. ASSUME NEW k \in Keys, Raise(s, k)
      PROVE  /\ UNCHANGED <<family, source, history, bounds>>
             /\ exc' \in [Keys -> Statuses \cup {"absent"}]
  <2>1. Raised(k) \in Statuses \cup {"absent"}
    BY DEF Raised, Statuses, ACTIVE_STATUSES
  <2> QED
    BY <1>4, <2>1 DEF Raise
<1>5. CASE ListOpen(s)
  BY <1>5 DEF ListOpen
<1>6. CASE Begin(s)
  BY <1>6 DEF Begin, Statuses, ACTIVE_STATUSES
<1>7. CASE Resolve(s)
  BY <1>7 DEF Resolve, Statuses, CLOSED_STATUSES
<1>8. CASE ScanEnd(s)
  BY <1>8 DEF ScanEnd
<1> QED
  BY <1>1, <1>2, <1>3, <1>4, <1>5, <1>6, <1>7, <1>8 DEF ScanStep

\* Every step keeps the state well typed.
LEMMA NextType == TypeInv /\ [Next]_vars => TypeInv'
<1> SUFFICES ASSUME TypeInv, [Next]_vars PROVE TypeInv'
  OBVIOUS
<1>1. ASSUME NEW s \in Scans, ScanStep(s) PROVE TypeInv'
  BY <1>1, StepRecord, StepFrame, ScanType
<1>2. ASSUME NEW s \in Scans, Crash(s) PROVE TypeInv'
  <2>1. scan' \in [Scans -> ScanRecord] /\ \A t \in Scans : ScanOK(scan'[t])
    BY <1>2, ScansOK, IdleOK DEF Crash, ScanOK
  <2>2. crashes' \in 0..MaxCrashes
    BY <1>2, ScanAssumption DEF Crash, TypeInv, TypeOK
  <2>3. Flips' = Flips
    BY <1>2 DEF Crash, Flips
  <2> QED
    BY <1>2, <2>1, <2>2, <2>3 DEF Crash, Disturb, TypeInv, TypeOK, LocalsOK, ScanOK, ScanRecord,
       Raising, Closing
<1>3. ASSUME NEW k \in Keys, NEW to \in {"due", "done"}, SourceChanges(k, to) PROVE TypeInv'
  <2>1. changes' \in 0..MaxChanges
    BY <1>3, ScanAssumption DEF SourceChanges, TypeInv, TypeOK
  <2> QED
    BY <1>3, <2>1 DEF SourceChanges, Disturb, TypeInv, TypeOK, LocalsOK, Raising, Closing, Flips
<1>4. ASSUME NEW k \in Keys, NEW to \in Statuses, StaffMove(k, to) PROVE TypeInv'
  <2>1. moves' \in 0..MaxMoves
    BY <1>4, ScanAssumption DEF StaffMove, TypeInv, TypeOK
  <2> QED
    BY <1>4, <2>1 DEF StaffMove, Disturb, TypeInv, TypeOK, LocalsOK, Raising, Closing, Flips
<1>5. CASE UNCHANGED vars
  BY <1>5 DEF vars, history, bounds, TypeInv, TypeOK, LocalsOK, Raising, Closing, Flips
<1> QED
  BY <1>1, <1>2, <1>3, <1>4, <1>5 DEF Next

\* Type correctness: whatever overlaps, a scan works on a key exactly between
\* two of its transactions for it, and every variable keeps its type.
THEOREM ScanTypeCorrect == Spec => []TypeOK
<1>1. TypeInv => TypeOK
  BY DEF TypeInv
<1> QED
  BY <1>1, InitType, NextType, PTL DEF Spec

----------------------------------------------------------------------------
(* Undisturbed scans *)

Calm == calm # {}

\* Between disturbances no scan is under way that was disturbed.
AllCalm == Calm => \A s \in Scans : InFlight(s) => s \in calm

\* A scan that was not disturbed knows the records as they are ...
Fresh == \A s \in Scans : InFlight(s) => \A k \in Keys : k \in scan[s].conditions <=> Holds(k)

\* ... and has raised what it does not still have to raise, ...
RaisedSoFar ==
  \A s \in Scans : \A k \in Keys :
    Holds(k) /\ ((Raising(s) /\ k \notin scan[s].todo) \/ Closing(s)) => Active(k)

\* ... flipped what it found open ...
FlippedSoFar ==
  Flips => \A s \in Scans : \A k \in Keys :
    /\ Raising(s) /\ k \in scan[s].conditions /\ k \notin scan[s].todo \cap scan[s].open
         => source[k] # "due"
    /\ scan[s].at = "insert" /\ k = scan[s].cur => source[k] # "due"
    /\ Closing(s) /\ k \in scan[s].conditions => source[k] # "due"

\* Some scan is about to resolve k, and can.
BeingResolved(k) == \E s \in Scans : At(s, "resolve") /\ scan[s].cur = k

Started(k) == exc[k] \notin NotStarted

\* ... and leaves no cleared exception alone unless another scan is about to
\* resolve it.
ClosedSoFar ==
  \A s \in Scans : \A k \in Keys :
    Closing(s) /\ ~Holds(k) /\ Active(k) =>
      k \in scan[s].todo \/ k = scan[s].cur \/ BeingResolved(k)

\* A status as listed can only be out of date because another scan began the
\* work and is about to resolve it.
Listed ==
  \A s \in Scans : \A k \in Keys :
    Closing(s) /\ Active(k) =>
      /\ k \in scan[s].todo => IF k \in scan[s].unstarted THEN Started(k) => BeingResolved(k)
                               ELSE Started(k)
      /\ k = scan[s].cur /\ At(s, "begin") => (Started(k) => BeingResolved(k))
      /\ k = scan[s].cur /\ At(s, "resolve") => Started(k)

CalmInv == Calm => Fresh /\ RaisedSoFar /\ FlippedSoFar /\ ClosedSoFar /\ Listed

\* After an undisturbed scan there is nothing left to do for others.
SettledInv ==
  settled =>
    /\ Calm
    /\ Agreement
    /\ Flips => \A k \in Keys : source[k] # "due"
    /\ \A s \in Scans : /\ scan[s].at \notin {"flip", "begin", "resolve"}
                        /\ At(s, "close") => scan[s].todo = {}

Inv == AllCalm /\ CalmInv /\ SettledInv

\* The first step of _flip_overdue.
LEMMA FlipReadKeeps ==
  ASSUME TypeInv, Inv, Calm, NEW s \in Scans, NEW k \in Keys, FlipRead(s, k)
  PROVE  Inv'
<1> DEFINE r == [scan[s] EXCEPT !.cur = k, !.at = IF source[k] = "due" THEN "flip" ELSE "insert"]
<1>1. scan \in [Scans -> ScanRecord] /\ scan' = [scan EXCEPT ![s] = r]
  BY ScansOK DEF FlipRead
<1>2. \A t \in Scans \ {s} : scan'[t] = scan[t]
  BY <1>1
<1>3. /\ scan'[s].at = IF source[k] = "due" THEN "flip" ELSE "insert"
      /\ scan'[s].cur = k
      /\ scan'[s].conditions = scan[s].conditions /\ scan'[s].open = scan[s].open
      /\ scan'[s].todo = scan[s].todo /\ scan'[s].unstarted = scan[s].unstarted
  BY <1>1 DEF ScanRecord
<1>4. /\ scan[s].at = "raise" /\ k \in scan[s].todo /\ k \in scan[s].open
      /\ UNCHANGED <<family, source, exc, calm, settled>> /\ Flips
  BY DEF FlipRead, At, history
<1>5. \A j \in Keys :
        /\ Holds(j)' <=> Holds(j)
        /\ Active(j)' <=> Active(j)
        /\ Started(j)' <=> Started(j)
        /\ BeingResolved(j) => BeingResolved(j)'
  BY <1>2, <1>3, <1>4 DEF Holds, Active, Started, BeingResolved, At
<1>6. AllCalm'
  BY <1>2, <1>3, <1>4 DEF Inv, AllCalm, InFlight, At, Calm
<1>7. Fresh /\ RaisedSoFar /\ FlippedSoFar /\ ClosedSoFar /\ Listed
  BY DEF Inv, CalmInv
<1>8. Fresh'
  BY <1>2, <1>3, <1>4, <1>5, <1>7 DEF Fresh, InFlight, At
<1>9. RaisedSoFar'
  BY <1>2, <1>3, <1>4, <1>5, <1>7 DEF RaisedSoFar, Raising, Closing
<1>10. FlippedSoFar'
  BY <1>2, <1>3, <1>4, <1>7 DEF FlippedSoFar, Raising, Closing, Flips
<1>11. ClosedSoFar'
  BY <1>2, <1>3, <1>4, <1>5, <1>7 DEF ClosedSoFar, Closing
<1>12. Listed'
  BY <1>2, <1>3, <1>4, <1>5, <1>7 DEF Listed, Closing, At
<1>13. SettledInv'
  <2>1. settled => source[k] # "due" /\ \A t \in Scans : At(t, "close") => scan[t].todo = {}
    BY <1>4, ScansOK DEF Inv, SettledInv, ScanOK, ScanRecord
  <2>2. Agreement => Agreement'
    BY <1>5 DEF Agreement
  <2> QED
    BY <1>2, <1>3, <1>4, <2>1, <2>2 DEF Inv, SettledInv, Calm, Flips, At
<1> QED
  BY <1>6, <1>8, <1>9, <1>10, <1>11, <1>12, <1>13 DEF Inv, CalmInv

\* The second step of _flip_overdue: a record that holds, and goes on to.
LEMMA FlipWriteKeeps ==
  ASSUME TypeInv, Inv, Calm, NEW s \in Scans, FlipWrite(s)
  PROVE  Inv'
<1> DEFINE k == scan[s].cur
           r == [scan[s] EXCEPT !.at = "insert"]
<1>1. scan \in [Scans -> ScanRecord] /\ scan' = [scan EXCEPT ![s] = r]
  BY ScansOK DEF FlipWrite
<1>2. \A t \in Scans \ {s} : scan'[t] = scan[t]
  BY <1>1
<1>3. /\ scan'[s].at = "insert" /\ scan'[s].cur = k
      /\ scan'[s].conditions = scan[s].conditions /\ scan'[s].open = scan[s].open
      /\ scan'[s].todo = scan[s].todo /\ scan'[s].unstarted = scan[s].unstarted
  BY <1>1 DEF ScanRecord
<1>4. /\ scan[s].at = "flip" /\ source' = [source EXCEPT ![k] = "overdue"]
      /\ UNCHANGED <<family, exc, calm, settled>>
  BY DEF FlipWrite, At, history
<1>5. k \in Keys /\ k \in scan[s].todo /\ k \in scan[s].conditions
  BY <1>4, ScansOK DEF ScanOK
<1>6. Fresh /\ RaisedSoFar /\ FlippedSoFar /\ ClosedSoFar /\ Listed
  BY DEF Inv, CalmInv
<1>7. Holds(k)
  BY <1>4, <1>5, <1>6 DEF Fresh, InFlight, At
<1>8. source'[k] = "overdue" /\ \A j \in Keys \ {k} : source'[j] = source[j]
  BY <1>4, <1>5 DEF TypeInv, TypeOK
<1>9. \A j \in Keys :
        /\ Holds(j)' <=> Holds(j)
        /\ Active(j)' <=> Active(j)
        /\ Started(j)' <=> Started(j)
        /\ BeingResolved(j) => BeingResolved(j)'
  BY <1>2, <1>3, <1>4, <1>7, <1>8 DEF Holds, Active, Started, BeingResolved, At
<1>10. AllCalm'
  BY <1>2, <1>3, <1>4 DEF Inv, AllCalm, InFlight, At, Calm
<1>11. Fresh'
  BY <1>2, <1>3, <1>4, <1>6, <1>9 DEF Fresh, InFlight, At
<1>12. RaisedSoFar'
  BY <1>2, <1>3, <1>4, <1>6, <1>9 DEF RaisedSoFar, Raising, Closing
<1>13. FlippedSoFar'
  BY <1>2, <1>3, <1>4, <1>6, <1>8 DEF FlippedSoFar, Raising, Closing, Flips
<1>14. ClosedSoFar'
  BY <1>2, <1>3, <1>4, <1>6, <1>9 DEF ClosedSoFar, Closing
<1>15. Listed'
  BY <1>2, <1>3, <1>4, <1>6, <1>9 DEF Listed, Closing, At
<1>16. SettledInv'
  BY <1>4 DEF Inv, SettledInv
<1> QED
  BY <1>10, <1>11, <1>12, <1>13, <1>14, <1>15, <1>16 DEF Inv, CalmInv

\* raise_exception: about a record that holds, so no scan is closing its key.
LEMMA RaiseKeeps ==
  ASSUME TypeInv, Inv, Calm, NEW s \in Scans, NEW k \in Keys, Raise(s, k)
  PROVE  Inv'
<1> DEFINE r == [scan[s] EXCEPT !.at = "raise", !.todo = @ \ {k}, !.cur = NoKey]
<1>1. scan \in [Scans -> ScanRecord] /\ scan' = [scan EXCEPT ![s] = r]
  BY ScansOK DEF Raise
<1>2. \A t \in Scans \ {s} : scan'[t] = scan[t]
  BY <1>1
<1>3. /\ scan'[s].at = "raise" /\ scan'[s].cur = NoKey
      /\ scan'[s].conditions = scan[s].conditions /\ scan'[s].open = scan[s].open
      /\ scan'[s].todo = scan[s].todo \ {k} /\ scan'[s].unstarted = scan[s].unstarted
  BY <1>1 DEF ScanRecord
<1>4. /\ \/ scan[s].at = "raise" /\ k \in scan[s].todo /\ ~(Flips /\ k \in scan[s].open)
         \/ scan[s].at = "insert" /\ k = scan[s].cur
      /\ exc' = [exc EXCEPT ![k] = Raised(k)]
      /\ UNCHANGED <<family, source, calm, settled>>
  BY DEF Raise, At, history
<1>5. Raising(s) /\ k \in scan[s].todo /\ k \in scan[s].conditions
  BY <1>4, ScansOK DEF ScanOK, Raising
<1>6. Fresh /\ RaisedSoFar /\ FlippedSoFar /\ ClosedSoFar /\ Listed
  BY DEF Inv, CalmInv
<1>7. Holds(k)
  BY <1>5, <1>6 DEF Fresh, InFlight, At, Raising
<1>8. exc'[k] = Raised(k) /\ \A j \in Keys \ {k} : exc'[j] = exc[j]
  BY <1>4 DEF TypeInv, TypeOK
<1>9. Active(k)'
  BY <1>8 DEF Active, Raised, ACTIVE_STATUSES
<1>10. \A j \in Keys :
        /\ Holds(j)' <=> Holds(j)
        /\ Active(j) => Active(j)'
        /\ j # k => (Active(j)' <=> Active(j)) /\ (Started(j)' <=> Started(j))
        /\ BeingResolved(j) => BeingResolved(j)'
  BY <1>2, <1>3, <1>4, <1>8, <1>9 DEF Holds, Active, Started, BeingResolved, At
<1>11. \A t \in Scans : Closing(t) => k \notin scan[t].todo /\ k # scan[t].cur
  <2> SUFFICES ASSUME NEW t \in Scans, Closing(t) PROVE k \notin scan[t].todo /\ k # scan[t].cur
    OBVIOUS
  <2>1. k \in scan[t].conditions
    BY <1>6, <1>7 DEF Fresh, InFlight, At, Closing
  <2> QED
    BY <2>1, ScansOK DEF ScanOK, Closing
<1>12. AllCalm'
  BY <1>2, <1>3, <1>4 DEF Inv, AllCalm, InFlight, At, Calm
<1>13. Fresh'
  BY <1>2, <1>3, <1>5, <1>6, <1>10 DEF Fresh, InFlight, At, Raising
<1>14. RaisedSoFar'
  BY <1>2, <1>3, <1>5, <1>6, <1>9, <1>10 DEF RaisedSoFar, Raising, Closing
<1>15. FlippedSoFar'
  BY <1>2, <1>3, <1>4, <1>5, <1>6 DEF FlippedSoFar, Raising, Closing, Flips
<1>16. ClosedSoFar'
  BY <1>2, <1>3, <1>6, <1>7, <1>10 DEF ClosedSoFar, Closing
<1>17. Listed'
  BY <1>2, <1>3, <1>6, <1>10, <1>11 DEF Listed, Closing, At
<1>18. SettledInv'
  <2>1. Agreement => Agreement'
    BY <1>7, <1>9, <1>10 DEF Agreement
  <2> QED
    BY <1>2, <1>3, <1>4, <2>1 DEF Inv, SettledInv, Calm, Flips, At
<1> QED
  BY <1>12, <1>13, <1>14, <1>15, <1>16, <1>17, <1>18 DEF Inv, CalmInv

\* SELECT of the open exceptions.
LEMMA ListOpenKeeps ==
  ASSUME TypeInv, Inv, Calm, NEW s \in Scans, ListOpen(s)
  PROVE  Inv'
<1> DEFINE r == [scan[s] EXCEPT !.at = "close", !.todo = Stale(s),
                                !.unstarted = {k \in Stale(s) : exc[k] \in NotStarted}]
<1>1. scan \in [Scans -> ScanRecord] /\ scan' = [scan EXCEPT ![s] = r]
  BY ScansOK DEF ListOpen
<1>2. \A t \in Scans \ {s} : scan'[t] = scan[t]
  BY <1>1
<1>3. /\ scan'[s].at = "close" /\ scan'[s].cur = scan[s].cur
      /\ scan'[s].conditions = scan[s].conditions /\ scan'[s].open = scan[s].open
      /\ scan'[s].todo = Stale(s)
      /\ scan'[s].unstarted = {k \in Stale(s) : exc[k] \in NotStarted}
  BY <1>1 DEF ScanRecord
<1>4. /\ scan[s].at = "raise" /\ scan[s].todo = {}
      /\ UNCHANGED <<family, source, exc, calm, settled>>
  BY DEF ListOpen, At, history
<1>5. \A k \in Keys : k \in Stale(s) <=> Active(k) /\ k \notin scan[s].conditions
  BY DEF Stale
<1>6. Fresh /\ RaisedSoFar /\ FlippedSoFar /\ ClosedSoFar /\ Listed
  BY DEF Inv, CalmInv
<1>7. \A j \in Keys :
        /\ Holds(j)' <=> Holds(j)
        /\ Active(j)' <=> Active(j)
        /\ Started(j)' <=> Started(j)
        /\ BeingResolved(j) => BeingResolved(j)'
  BY <1>2, <1>3, <1>4 DEF Holds, Active, Started, BeingResolved, At
<1>8. AllCalm'
  BY <1>2, <1>3, <1>4 DEF Inv, AllCalm, InFlight, At, Calm
<1>9. Fresh'
  BY <1>2, <1>3, <1>4, <1>6, <1>7 DEF Fresh, InFlight, At
<1>10. RaisedSoFar'
  BY <1>2, <1>3, <1>4, <1>6, <1>7 DEF RaisedSoFar, Raising, Closing
<1>11. FlippedSoFar'
  BY <1>2, <1>3, <1>4, <1>6 DEF FlippedSoFar, Raising, Closing, Flips
<1>12. \A k \in Keys : k \in scan[s].conditions <=> Holds(k)
  BY <1>4, <1>6 DEF Fresh, InFlight, At
<1>13. ClosedSoFar'
  BY <1>2, <1>3, <1>5, <1>6, <1>7, <1>12 DEF ClosedSoFar, Closing
<1>14. Listed'
  BY <1>2, <1>3, <1>5, <1>6, <1>7 DEF Listed, Closing, At, Started
<1>15. SettledInv'
  <2>1. Agreement => Agreement' /\ Stale(s) = {}
    BY <1>5, <1>7, <1>12 DEF Agreement, Stale
  <2> QED
    BY <1>2, <1>3, <1>4, <2>1 DEF Inv, SettledInv, Calm, Flips, At
<1> QED
  BY <1>8, <1>9, <1>10, <1>11, <1>13, <1>14, <1>15 DEF Inv, CalmInv

\* _auto_resolve takes up the next listed exception.
LEMMA PickStaleKeeps ==
  ASSUME TypeInv, Inv, Calm, NEW s \in Scans, NEW k \in Keys, PickStale(s, k)
  PROVE  Inv'
<1> DEFINE r == [scan[s] EXCEPT !.cur = k, !.todo = @ \ {k},
                                !.at = IF k \in scan[s].unstarted THEN "begin" ELSE "resolve"]
<1>1. scan \in [Scans -> ScanRecord] /\ scan' = [scan EXCEPT ![s] = r]
  BY ScansOK DEF PickStale
<1>2. \A t \in Scans \ {s} : scan'[t] = scan[t]
  BY <1>1
<1>3. /\ scan'[s].at = IF k \in scan[s].unstarted THEN "begin" ELSE "resolve"
      /\ scan'[s].cur = k
      /\ scan'[s].conditions = scan[s].conditions /\ scan'[s].open = scan[s].open
      /\ scan'[s].todo = scan[s].todo \ {k} /\ scan'[s].unstarted = scan[s].unstarted
  BY <1>1 DEF ScanRecord
<1>4. /\ scan[s].at = "close" /\ k \in scan[s].todo
      /\ UNCHANGED <<family, source, exc, calm, settled>>
  BY DEF PickStale, At, history
<1>5. scan[s].cur \notin Keys
  BY <1>4, ScansOK DEF ScanOK
<1>6. Fresh /\ RaisedSoFar /\ FlippedSoFar /\ ClosedSoFar /\ Listed
  BY DEF Inv, CalmInv
<1>7. \A j \in Keys :
        /\ Holds(j)' <=> Holds(j)
        /\ Active(j)' <=> Active(j)
        /\ Started(j)' <=> Started(j)
        /\ BeingResolved(j) => BeingResolved(j)'
  BY <1>2, <1>3, <1>4 DEF Holds, Active, Started, BeingResolved, At
<1>8. AllCalm'
  BY <1>2, <1>3, <1>4 DEF Inv, AllCalm, InFlight, At, Calm
<1>9. Fresh'
  BY <1>2, <1>3, <1>4, <1>6, <1>7 DEF Fresh, InFlight, At
<1>10. RaisedSoFar'
  BY <1>2, <1>3, <1>4, <1>6, <1>7 DEF RaisedSoFar, Raising, Closing
<1>11. FlippedSoFar'
  BY <1>2, <1>3, <1>4, <1>6 DEF FlippedSoFar, Raising, Closing, Flips
<1>12. ClosedSoFar'
  BY <1>2, <1>3, <1>4, <1>5, <1>6, <1>7 DEF ClosedSoFar, Closing
<1>13. Listed'
  BY <1>2, <1>3, <1>4, <1>6, <1>7 DEF Listed, Closing, At
<1>14. SettledInv'
  BY <1>4 DEF Inv, SettledInv, At
<1> QED
  BY <1>8, <1>9, <1>10, <1>11, <1>12, <1>13, <1>14 DEF Inv, CalmInv

\* The call for a key is over and its exception is closed, or another scan is
\* about to resolve it: nothing is left undone.
LEMMA OverKeeps ==
  ASSUME TypeInv, Inv, Calm, NEW s \in Scans, NEW failed \in BOOLEAN,
         At(s, "begin") \/ At(s, "resolve"), Over(s, failed),
         UNCHANGED <<family, source, history>>,
         NEW k \in Keys, k = scan[s].cur, ~Holds(k),
         \A j \in Keys : j # k => exc'[j] = exc[j],
         Active(k)' =>
           /\ exc'[k] = exc[k]
           /\ \E t \in Scans \ {s} : At(t, "resolve") /\ scan[t].cur = k
  PROVE  Inv'
<1> DEFINE r == [scan[s] EXCEPT !.at = "close", !.cur = NoKey]
<1>1. scan \in [Scans -> ScanRecord] /\ scan[s] \in ScanRecord
  BY ScansOK
<1>2. scan' = [scan EXCEPT ![s] = r] \/ scan' = [scan EXCEPT ![s] = Idle]
  BY <1>1 DEF Over
<1>20. scan'[s] = r \/ scan'[s] = Idle
  BY <1>1, <1>2
<1>3. \A t \in Scans \ {s} : scan'[t] = scan[t]
  BY <1>1, <1>2
<1>4. \/ scan'[s].at = "idle"
      \/ /\ scan'[s].at = "close" /\ scan'[s].cur = NoKey
         /\ scan'[s].conditions = scan[s].conditions /\ scan'[s].open = scan[s].open
         /\ scan'[s].todo = scan[s].todo /\ scan'[s].unstarted = scan[s].unstarted
  <2>1. CASE scan'[s] = r
    BY <1>1, <2>1 DEF ScanRecord
  <2>2. CASE scan'[s] = Idle
    BY <2>2 DEF Idle
  <2> QED
    BY <1>20, <2>1, <2>2
<1>5. Closing(s) /\ UNCHANGED <<family, source, calm, settled>>
  BY DEF Closing, At, history
<1>6. Fresh /\ RaisedSoFar /\ FlippedSoFar /\ ClosedSoFar /\ Listed
  BY DEF Inv, CalmInv
<1>7. \A j \in Keys :
        /\ Holds(j)' <=> Holds(j)
        /\ Active(j)' => Active(j) /\ (Started(j)' <=> Started(j))
        /\ j # k => (Active(j)' <=> Active(j))
  <2>1. ASSUME NEW j \in Keys, j # k PROVE exc'[j] = exc[j]
    BY <2>1
  <2>2. Active(k)' => exc'[k] = exc[k]
    OBVIOUS
  <2> QED
    BY <1>5, <2>1, <2>2 DEF Holds, Active, Started
<1>8. \A j \in Keys : Active(j)' /\ BeingResolved(j) => BeingResolved(j)'
  <2> SUFFICES ASSUME NEW j \in Keys, Active(j)', BeingResolved(j) PROVE BeingResolved(j)'
    OBVIOUS
  <2>1. PICK t \in Scans \ {s} : At(t, "resolve") /\ scan[t].cur = j
    <3>1. CASE j = k
      BY <3>1
    <3>2. CASE j # k
      BY <3>2 DEF BeingResolved
    <3> QED
      BY <3>1, <3>2
  <2> QED
    BY <1>3, <2>1 DEF BeingResolved, At
<1>9. Active(k)' => BeingResolved(k)
  BY DEF BeingResolved
<1>10. AllCalm'
  BY <1>3, <1>4, <1>5 DEF Inv, AllCalm, InFlight, At, Calm, Closing
<1>11. Fresh'
  BY <1>3, <1>4, <1>5, <1>6, <1>7 DEF Fresh, InFlight, At, Closing
<1>12. RaisedSoFar'
  BY <1>3, <1>4, <1>5, <1>6, <1>7 DEF RaisedSoFar, Raising, Closing
<1>13. FlippedSoFar'
  BY <1>3, <1>4, <1>5, <1>6 DEF FlippedSoFar, Raising, Closing, Flips
<1>14. ClosedSoFar'
  BY <1>3, <1>4, <1>5, <1>6, <1>7, <1>8, <1>9 DEF ClosedSoFar, Closing
<1>15. Listed'
  BY <1>1, <1>3, <1>4, <1>5, <1>6, <1>7, <1>8, ScanAssumption DEF Listed, Closing, At
<1>16. SettledInv'
  BY <1>5 DEF Inv, SettledInv, At
<1> QED
  BY <1>10, <1>11, <1>12, <1>13, <1>14, <1>15, <1>16 DEF Inv, CalmInv

\* Of an active exception, work that has not started can begin, and work that
\* has started can be resolved.
LEMMA ActiveMoves ==
  ASSUME NEW k \in Keys, Active(k)
  PROVE  /\ ~Started(k) => CanMove(k, "in_progress")
         /\ Started(k) => CanMove(k, "resolved")
BY DEF Active, Started, CanMove, NotStarted, ACTIVE_STATUSES, Statuses, TRANSITIONS

\* begin_work
LEMMA BeginKeeps ==
  ASSUME TypeInv, Inv, Calm, NEW s \in Scans, Begin(s)
  PROVE  Inv'
<1> DEFINE r == [scan[s] EXCEPT !.at = "resolve"]
<1>0. PICK k \in Keys : k = scan[s].cur
  BY ScansOK DEF Begin, At, ScanOK
<1>1. scan \in [Scans -> ScanRecord] /\ scan[s].at = "begin" /\ k = scan[s].cur
      /\ k \notin scan[s].conditions
  BY <1>0, ScansOK DEF Begin, At, ScanOK
<1>2. Fresh /\ RaisedSoFar /\ FlippedSoFar /\ ClosedSoFar /\ Listed
  BY DEF Inv, CalmInv
<1>3. ~Holds(k)
  BY <1>1, <1>2 DEF Fresh, InFlight, At
<1>4. UNCHANGED <<family, source, history>>
  BY DEF Begin
<1>5. CASE ~CanMove(k, "in_progress")
  <2>1. Over(s, TRUE) /\ UNCHANGED exc
    BY <1>1, <1>5 DEF Begin
  <2>2. Active(k) => BeingResolved(k)
    BY <1>1, <1>2, <1>5, ActiveMoves DEF Listed, Closing, At
  <2>3. Active(k)' => \E t \in Scans \ {s} : At(t, "resolve") /\ scan[t].cur = k
    BY <1>1, <2>1, <2>2 DEF BeingResolved, Active, At
  <2> QED
    BY <1>1, <1>3, <1>4, <2>1, <2>3, OverKeeps DEF At
<1>6. CASE CanMove(k, "in_progress")
  <2>1. scan' = [scan EXCEPT ![s] = r] /\ exc' = [exc EXCEPT ![k] = "in_progress"]
    BY <1>1, <1>6 DEF Begin
  <2>2. \A t \in Scans \ {s} : scan'[t] = scan[t]
    BY <1>1, <2>1
  <2>3. /\ scan'[s].at = "resolve" /\ scan'[s].cur = k
        /\ scan'[s].conditions = scan[s].conditions /\ scan'[s].open = scan[s].open
        /\ scan'[s].todo = scan[s].todo /\ scan'[s].unstarted = scan[s].unstarted
    BY <1>1, <2>1 DEF ScanRecord
  <2>4. exc'[k] = "in_progress" /\ \A j \in Keys \ {k} : exc'[j] = exc[j]
    BY <1>1, <2>1 DEF TypeInv, TypeOK
  <2>5. Active(k)' /\ Started(k)' /\ BeingResolved(k)'
    BY <2>3, <2>4 DEF Active, Started, BeingResolved, At, NotStarted, ACTIVE_STATUSES
  <2>6. Active(k)
    BY <1>6 DEF Active, CanMove, Statuses, ACTIVE_STATUSES, CLOSED_STATUSES, TRANSITIONS
  <2>7. UNCHANGED <<family, source, calm, settled>>
    BY <1>4 DEF history
  <2>8. \A j \in Keys :
          /\ Holds(j)' <=> Holds(j)
          /\ Active(j)' <=> Active(j)
          /\ j # k => (Started(j)' <=> Started(j))
          /\ BeingResolved(j) => BeingResolved(j)'
    BY <1>1, <2>2, <2>3, <2>4, <2>5, <2>6, <2>7 DEF Holds, Active, Started, BeingResolved, At
  <2>9. AllCalm'
    BY <1>1, <2>2, <2>3, <2>7 DEF Inv, AllCalm, InFlight, At, Calm
  <2>10. Fresh'
    BY <1>1, <1>2, <2>2, <2>3, <2>8 DEF Fresh, InFlight, At
  <2>11. RaisedSoFar'
    BY <1>1, <1>2, <2>2, <2>3, <2>8 DEF RaisedSoFar, Raising, Closing
  <2>12. FlippedSoFar'
    BY <1>1, <1>2, <2>2, <2>3, <2>7 DEF FlippedSoFar, Raising, Closing, Flips
  <2>13. ClosedSoFar'
    BY <1>1, <1>2, <2>2, <2>3, <2>8 DEF ClosedSoFar, Closing
  <2>14. Listed'
    BY <1>1, <1>2, <2>2, <2>3, <2>5, <2>8 DEF Listed, Closing, At
  <2>15. SettledInv'
    BY <1>1, <2>7 DEF Inv, SettledInv, At
  <2> QED
    BY <2>9, <2>10, <2>11, <2>12, <2>13, <2>14, <2>15 DEF Inv, CalmInv
<1> QED
  BY <1>5, <1>6

\* resolve
LEMMA ResolveKeeps ==
  ASSUME TypeInv, Inv, Calm, NEW s \in Scans, Resolve(s)
  PROVE  Inv'
<1>0. PICK k \in Keys : k = scan[s].cur
  BY ScansOK DEF Resolve, At, ScanOK
<1>1. scan[s].at = "resolve" /\ k = scan[s].cur /\ k \notin scan[s].conditions
  BY <1>0, ScansOK DEF Resolve, At, ScanOK
<1>2. Fresh /\ Listed
  BY DEF Inv, CalmInv
<1>3. ~Holds(k)
  BY <1>1, <1>2 DEF Fresh, InFlight, At
<1>4. UNCHANGED <<family, source, history>>
  BY DEF Resolve
<1>5. CASE ~CanMove(k, "resolved")
  <2>1. Over(s, TRUE) /\ UNCHANGED exc
    BY <1>1, <1>5 DEF Resolve
  <2>2. ~Active(k)
    BY <1>1, <1>2, <1>5, ActiveMoves DEF Listed, Closing, At
  <2>3. ~Active(k)'
    BY <2>1, <2>2 DEF Active
  <2> QED
    BY <1>1, <1>3, <1>4, <2>1, <2>3, OverKeeps DEF At
<1>6. CASE CanMove(k, "resolved")
  <2>1. Over(s, FALSE) /\ exc' = [exc EXCEPT ![k] = "resolved"]
    BY <1>1, <1>6 DEF Resolve
  <2>2. exc'[k] = "resolved" /\ \A j \in Keys : j # k => exc'[j] = exc[j]
    BY <1>1, <2>1 DEF TypeInv, TypeOK
  <2>3. ~Active(k)'
    BY <2>2 DEF Active, ACTIVE_STATUSES
  <2> QED
    BY <1>1, <1>3, <1>4, <2>1, <2>2, <2>3, OverKeeps DEF At
<1> QED
  BY <1>5, <1>6

\* A scan that was not disturbed ends, the others being idle: agreement.
LEMMA ScanEndKeeps ==
  ASSUME TypeInv, Inv, Calm, NEW s \in Scans, ScanEnd(s)
  PROVE  Inv'
<1>1. /\ scan \in [Scans -> ScanRecord] /\ scan[s].at = "close" /\ scan[s].todo = {}
      /\ scan[s].cur \notin Keys
  BY ScansOK DEF ScanEnd, At, ScanOK
<1>2. (\A t \in Scans \ {s} : scan'[t] = scan[t]) /\ scan'[s].at = "idle"
  BY <1>1 DEF ScanEnd, Idle
<1>3. UNCHANGED <<family, source, exc, calm>>
  BY DEF ScanEnd
<1>4. Fresh /\ RaisedSoFar /\ FlippedSoFar /\ ClosedSoFar /\ Listed
  BY DEF Inv, CalmInv
<1>5. \A j \in Keys :
        /\ Holds(j)' <=> Holds(j)
        /\ Active(j)' <=> Active(j)
        /\ Started(j)' <=> Started(j)
        /\ BeingResolved(j) => BeingResolved(j)'
  BY <1>1, <1>2, <1>3 DEF Holds, Active, Started, BeingResolved, At
<1>6. AllCalm'
  BY <1>2, <1>3 DEF Inv, AllCalm, InFlight, At, Calm
<1>7. Fresh'
  BY <1>2, <1>4, <1>5 DEF Fresh, InFlight, At
<1>8. RaisedSoFar'
  BY <1>2, <1>4, <1>5 DEF RaisedSoFar, Raising, Closing
<1>9. FlippedSoFar'
  BY <1>2, <1>3, <1>4 DEF FlippedSoFar, Raising, Closing, Flips
<1>10. ClosedSoFar'
  BY <1>2, <1>4, <1>5 DEF ClosedSoFar, Closing
<1>11. Listed'
  BY <1>2, <1>4, <1>5 DEF Listed, Closing, At
<1>12. SettledInv'
  <2>1. CASE settled
    <3>1. Agreement => Agreement'
      BY <1>5 DEF Agreement
    <3> QED
      BY <1>2, <1>3, <2>1, <3>1 DEF Inv, SettledInv, Calm, Flips, At
  <2>2. CASE \A t \in Scans \ {s} : ~InFlight(t)
    <3>1. \A k \in Keys : ~BeingResolved(k)
      BY <1>1, <2>2 DEF BeingResolved, InFlight, At
    <3>2. Agreement
      BY <1>1, <1>4, <3>1 DEF Agreement, RaisedSoFar, ClosedSoFar, Closing
    <3>3. Flips => \A k \in Keys : source[k] # "due"
      BY <1>1, <1>4 DEF FlippedSoFar, Fresh, Closing, Holds, InFlight, At
    <3>4. Agreement' /\ (Flips => \A k \in Keys : source[k] # "due")'
      BY <1>3, <1>5, <3>2, <3>3 DEF Agreement, Flips
    <3> QED
      BY <1>2, <1>3, <2>2, <3>4 DEF SettledInv, Calm, InFlight, At
  <2>3. CASE ~settled'
    BY <2>3 DEF SettledInv
  <2> QED
    BY <2>1, <2>2, <2>3 DEF ScanEnd
<1> QED
  BY <1>6, <1>7, <1>8, <1>9, <1>10, <1>11, <1>12 DEF Inv, CalmInv

\* A scan reads the records, beside others that were not disturbed either.
LEMMA ReadKeeps ==
  ASSUME TypeInv, Inv, NEW s \in Scans, ReadConditions(s)
  PROVE  Inv'
<1> DEFINE held == {k \in Keys : Holds(k)}
           r == [Idle EXCEPT !.at = "raise", !.conditions = held, !.todo = held,
                             !.open = {k \in held : source[k] = "due"}]
<1>1. /\ scan \in [Scans -> ScanRecord] /\ scan[s].at = "idle" /\ scan[s].cur \notin Keys
      /\ scan' = [scan EXCEPT ![s] = r]
  BY ScansOK DEF ReadConditions, At, ScanOK
<1>2. /\ \A t \in Scans \ {s} : scan'[t] = scan[t]
      /\ scan'[s].at = "raise" /\ scan'[s].cur = NoKey
      /\ scan'[s].conditions = held /\ scan'[s].todo = held
      /\ scan'[s].open = {k \in held : source[k] = "due"}
  BY <1>1 DEF Idle
<1>3. UNCHANGED <<family, source, exc, settled>>
  BY DEF ReadConditions
<1>4. \A j \in Keys :
        /\ Holds(j)' <=> Holds(j)
        /\ Active(j)' <=> Active(j)
        /\ Started(j)' <=> Started(j)
        /\ BeingResolved(j) => BeingResolved(j)'
  BY <1>1, <1>2, <1>3 DEF Holds, Active, Started, BeingResolved, At
<1>5. CASE ~Calm'
  <2>1. ~settled
    BY <1>5 DEF ReadConditions, Calm, Inv, SettledInv
  <2> QED
    BY <1>3, <1>5, <2>1 DEF Inv, AllCalm, CalmInv, SettledInv
<1>6. CASE Calm'
  <2>1. \A t \in Scans \ {s} : InFlight(t) => t \in calm
    BY <1>6 DEF ReadConditions, Calm, Inv, AllCalm
  <2>2. calm' = calm \cup {s}
    BY <2>1 DEF ReadConditions
  <2>3. AllCalm'
    BY <1>2, <2>1, <2>2 DEF AllCalm, InFlight, At
  <2>4. \A t \in Scans \ {s} : InFlight(t) =>
          Fresh /\ RaisedSoFar /\ FlippedSoFar /\ ClosedSoFar /\ Listed
    BY <2>1 DEF Inv, CalmInv, Calm
  <2>5. Fresh'
    BY <1>2, <1>4, <2>4 DEF Fresh, InFlight, At
  <2>6. RaisedSoFar'
    BY <1>2, <1>4, <2>4 DEF RaisedSoFar, Raising, Closing, InFlight, At
  <2>7. FlippedSoFar'
    BY <1>2, <1>3, <2>4 DEF FlippedSoFar, Raising, Closing, InFlight, At, Flips
  <2>8. ClosedSoFar'
    BY <1>2, <1>4, <2>4 DEF ClosedSoFar, Closing, InFlight, At
  <2>9. Listed'
    BY <1>2, <1>4, <2>4 DEF Listed, Closing, InFlight, At
  <2>10. SettledInv'
    <3>1. Agreement => Agreement'
      BY <1>4 DEF Agreement
    <3> QED
      BY <1>2, <1>3, <2>2, <3>1 DEF Inv, SettledInv, Calm, Flips, At
  <2> QED
    BY <2>3, <2>5, <2>6, <2>7, <2>8, <2>9, <2>10 DEF Inv, CalmInv
<1> QED
  BY <1>5, <1>6

\* Every step keeps the invariant: what disturbs scans makes it hold of none.
LEMMA NextKeeps == TypeInv /\ Inv /\ [Next]_vars => Inv'
<1> SUFFICES ASSUME TypeInv, Inv, [Next]_vars PROVE Inv'
  OBVIOUS
<1>1. ASSUME Disturb PROVE Inv'
  BY <1>1 DEF Disturb, Inv, AllCalm, CalmInv, SettledInv, Calm
<1>2. ASSUME NEW s \in Scans, ScanStep(s), ~Calm, ~ReadConditions(s) PROVE Inv'
  <2>1. ~settled /\ calm = {}
    BY <1>2 DEF Calm, Inv, SettledInv
  <2>2. calm' = {} /\ ~settled'
    <3>1. CASE ScanEnd(s)
      <4>1. calm' = calm
        BY <3>1 DEF ScanEnd
      <4>2. settled' => settled \/ s \in calm
        BY <3>1, Zenon DEF ScanEnd
      <4> QED
        BY <2>1, <4>1, <4>2
    <3>2. ASSUME NEW k \in Keys, FlipRead(s, k) \/ Raise(s, k) \/ PickStale(s, k)
          PROVE  calm' = {} /\ ~settled'
      BY <2>1, <3>2 DEF FlipRead, Raise, PickStale, history
    <3>3. CASE FlipWrite(s) \/ ListOpen(s) \/ Begin(s) \/ Resolve(s)
      <4>1. UNCHANGED history
        BY <3>3 DEF FlipWrite, ListOpen, Begin, Resolve
      <4>2. calm' = calm /\ settled' = settled
        BY <4>1 DEF history
      <4> QED
        BY <2>1, <4>2
    <3> QED
      BY <1>2, <3>1, <3>2, <3>3 DEF ScanStep
  <2> QED
    BY <2>1, <2>2 DEF Inv, AllCalm, CalmInv, SettledInv, Calm
<1>3. ASSUME NEW s \in Scans, ScanStep(s) PROVE Inv'
  BY <1>2, <1>3, ReadKeeps, FlipReadKeeps, FlipWriteKeeps, RaiseKeeps, ListOpenKeeps,
     PickStaleKeeps, BeginKeeps, ResolveKeeps, ScanEndKeeps DEF ScanStep
<1>4. CASE UNCHANGED vars
  BY <1>4 DEF vars, history, bounds, Inv, AllCalm, CalmInv, SettledInv, Calm, Fresh, RaisedSoFar,
     FlippedSoFar, ClosedSoFar, Listed, Agreement, InFlight, At, Raising, Closing, Holds, Active,
     Started, BeingResolved, Flips
<1> QED
  BY <1>1, <1>3, <1>4 DEF Next, SourceChanges, StaffMove, Crash

LEMMA InvAlways == Spec => [](TypeInv /\ Inv)
<1>1. Init => Inv
  BY DEF Init, Inv, AllCalm, CalmInv, SettledInv, Calm
<1> QED
  BY <1>1, InitType, NextType, NextKeeps, PTL DEF Spec

\* For any records and any number of manual scans: after a scan that nothing
\* disturbed, exactly the records whose condition holds have a live exception.
THEOREM AgreementHolds == Spec => []SettledAgrees
<1>1. Inv => SettledAgrees
  BY DEF Inv, SettledInv, SettledAgrees
<1> QED
  BY <1>1, InvAlways, PTL

\* And from then on scans change neither exceptions nor records.
THEOREM RescansAreIdle == Spec => RescanChangesNothing
<1>1. ASSUME TypeInv, Inv, settled, NEW s \in Scans, ScanStep(s)
      PROVE  UNCHANGED <<source, exc>>
  <2>1. Calm /\ Agreement /\ scan[s].at \notin {"flip", "begin", "resolve"}
    BY <1>1 DEF Inv, SettledInv
  <2>2. ASSUME NEW k \in Keys, Raise(s, k) PROVE UNCHANGED <<source, exc>>
    <3>1. k \in scan[s].conditions /\ InFlight(s)
      BY <1>1, <2>2, ScansOK DEF Raise, At, InFlight, ScanOK
    <3>2. Active(k)
      BY <1>1, <2>1, <3>1 DEF Inv, CalmInv, Fresh, Agreement
    <3> QED
      BY <1>1, <2>2, <3>2 DEF Raise, Raised, TypeInv, TypeOK
  <2> QED
    BY <1>1, <2>1, <2>2 DEF ScanStep, ReadConditions, FlipRead, FlipWrite, ListOpen, PickStale,
       Begin, Resolve, ScanEnd, At
<1>2. TypeInv /\ Inv /\ [Next]_vars
        => [settled /\ (\E s \in Scans : ScanStep(s)) => UNCHANGED <<source, exc>>]_vars
  BY <1>1
<1> QED
  BY <1>2, InvAlways, PTL DEF Spec, RescanChangesNothing

=============================================================================
