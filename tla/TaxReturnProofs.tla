---------------------------- MODULE TaxReturnProofs ----------------------------
(***************************************************************************)
(* Both ledgers of a return explain their status columns, and a decision   *)
(* moves the return at most once, for any stretch of its life and any      *)
(* number of requests.  A request may write a status it read long ago: the *)
(* invariant says that its move was an edge then, and that the decision it *)
(* acts for is on record, not yet used, and in no other request's hands.   *)
(***************************************************************************)
EXTENDS TaxReturn, FiniteSetTheorems, TLAPS

Calls == [at : Places, to : STATES \cup FilingStatuses \cup {"none"},
          from : STATES \cup {"none"}, force : BOOLEAN, for : Principals,
          key : FilingKeys \cup {NoKey}, rows : SUBSET FILING_BLOCKER_CODES]

Decisions == Reviews \cup ApprovalTypes

\* A record of a request that is on its way to a move.
Moving(r) == r.at \in {"read", "gate", "write"}

\* Where a request wants to go, and that its move was an edge of what it read.
CallOK(r) ==
  /\ Moving(r) \/ r.at \in {"hook", "close"} => r.to \in STATES
  /\ r.at = "filing" => r.to \in DOMAIN FiledTo
  /\ r.from \in STATES <=> r.at \in {"gate", "write", "hook", "close"}
  /\ r.at \in {"gate", "write"} => r.force \/ r.to \in TRANSITIONS[r.from]

\* A decision is acted on by one request, or has been by one event.
TokensOK ==
  \A t \in Decisions : \A c \in Callers :
    Moving(call[c]) /\ call[c].for = t =>
      /\ Decided(t)
      /\ \A n \in DOMAIN events : events[n].for # t
      /\ \A d \in Callers : Moving(call[d]) /\ call[d].for = t => d = c

Inv ==
  /\ life \in Lives
  /\ TypeOK
  /\ \A c \in Callers : CallOK(call[c])
  /\ LedgersAgree
  /\ DecisionsActOnce
  /\ TokensOK

----------------------------------------------------------------------------
(* The tables of the module *)

LEMMA StartIsState == ASSUME NEW l \in Lives PROVE l.start \in STATES
<1>1. PICK n \in 1..Len(MainPath) : MainPath[n] = l.start
  BY ReturnAssumption
<1>2. Len(MainPath) = 13
  BY DEF MainPath
<1>3. n \in 1..13
  BY <1>2
<1>4. MainPath[n] \in STATES
  BY <1>3 DEF MainPath, STATES
<1> QED BY <1>1, <1>4

\* The names of statuses, decisions and principals that are not mixed up.
LEMMA Names ==
  /\ "none" \notin STATES
  /\ ReviewTypes \cap ApprovalTypes = {}
  /\ \A t \in ReviewTypes \cup ApprovalTypes : t \notin {"none", "staff", "filing", "workflow"}
BY DEF STATES, ReviewTypes, ApprovalTypes

\* Every decision and every filing update asks for a status of the lifecycle.
LEMMA Targets ==
  /\ \A t \in ReviewTypes : ReviewedTo[t] \in STATES
  /\ \A t \in ApprovalTypes : ApprovedTo[t] \in STATES
  /\ "in_preparation" \in STATES
<1>1. \A t \in ReviewTypes : ReviewedTo[t] \in STATES
  BY DEF ReviewTypes, ReviewedTo, STATES
<1>2. \A t \in ApprovalTypes : ApprovedTo[t] \in STATES
  BY DEF ApprovalTypes, ApprovedTo, STATES
<1> QED BY <1>1, <1>2 DEF STATES

LEMMA FilingTargets ==
  /\ \A f \in FilingStatuses : FILING_TRANSITIONS[f] \subseteq DOMAIN FiledTo
  /\ DOMAIN FiledTo \subseteq FilingStatuses
  /\ \A to \in DOMAIN FiledTo : FiledTo[to] \in STATES
BY DEF FilingStatuses, FILING_TRANSITIONS, FiledTo, STATES

LEMMA MilestoneTargetType == MilestoneTarget # "none" => MilestoneTarget \in STATES
BY DEF MilestoneTarget, STATES

\* The parts of a life that its assumption types.
LEMMA LifeType ==
  ASSUME life \in Lives
  PROVE  /\ Reviews \subseteq ReviewTypes /\ Start \in STATES
         /\ ForceValues \subseteq BOOLEAN /\ Detected \subseteq BlockerCodes
         /\ WorkflowSteps \subseteq MilestoneSteps
         /\ MaxEvents \in Nat /\ MaxCrashes \in Nat
BY ReturnAssumption, StartIsState
   DEF Reviews, Start, ForceValues, Detected, WorkflowSteps, MaxEvents, MaxCrashes

\* A life is chosen once.
LEMMA SameLife ==
  ASSUME UNCHANGED life
  PROVE  /\ Callers' = Callers /\ Start' = Start /\ Reviews' = Reviews
         /\ ForceValues' = ForceValues /\ Detected' = Detected
         /\ WorkflowSteps' = WorkflowSteps /\ FilingKeys' = FilingKeys
         /\ MaxEvents' = MaxEvents /\ MaxCrashes' = MaxCrashes
         /\ InitialFiling' = InitialFiling /\ Decisions' = Decisions
<1>1. /\ Callers' = Callers /\ Start' = Start /\ Reviews' = Reviews
      /\ ForceValues' = ForceValues /\ Detected' = Detected
      /\ WorkflowSteps' = WorkflowSteps /\ FilingKeys' = FilingKeys
      /\ MaxEvents' = MaxEvents /\ MaxCrashes' = MaxCrashes
  BY DEF Callers, Start, Reviews, ForceValues, Detected, WorkflowSteps, FilingKeys,
         MaxEvents, MaxCrashes
<1>2. StartAt' = StartAt
  BY <1>1 DEF StartAt
<1> QED BY <1>1, <1>2 DEF InitialFiling, Passed, Decisions

\* A call of transition_return: its record, typed.
LEMMA CallRecord ==
  ASSUME NEW to \in STATES, NEW force \in BOOLEAN, NEW for \in Principals
  PROVE  LET r == CallAt("read", to, force, for, NoKey)
         IN  r \in Calls /\ CallOK(r) /\ Moving(r) /\ r.for = for
<1> DEFINE r == CallAt("read", to, force, for, NoKey)
<1>1. r \in Calls
  BY DEF CallAt, Calls, Places
<1>2. CallOK(r)
  BY Names DEF CallAt, CallOK, Moving
<1> QED BY <1>1, <1>2 DEF CallAt, Moving

LEMMA IdleRecord == Idle \in Calls /\ CallOK(Idle) /\ ~Moving(Idle)
<1>1. Idle \in Calls
  BY DEF Idle, CallAt, Calls, Places, Principals
<1>2. CallOK(Idle) /\ ~Moving(Idle)
  BY Names DEF Idle, CallAt, CallOK, Moving
<1> QED BY <1>1, <1>2

LEMMA InitInv == Init => Inv
<1> SUFFICES ASSUME Init PROVE Inv
  OBVIOUS
<1>1. life \in Lives /\ \A c \in Callers : call[c] = Idle
  BY DEF Init
<1>2. TypeOK
  <2>1. call \in [Callers -> Calls]
    BY IdleRecord DEF Init
  <2>2. /\ status \in STATES /\ filing \in FilingStatuses
        /\ events = <<>> /\ filings = <<>> /\ milestones \subseteq WorkflowSteps
        /\ crashes \in 0..MaxCrashes
    BY <1>1, LifeType DEF Init, InitialFiling, FilingStatuses
  <2>3. /\ reviews \in [Reviews -> {"none", "pending", "approved", "returned"}]
        /\ approvals \in [ApprovalTypes -> {"none", "pending", "approved", "rejected"}]
        /\ blockers \in [BlockerCodes -> {"none", "active", "closed"}]
    BY DEF Init
  <2>4. \A c \in Callers :
          call[c].from \in STATES <=> call[c].at \in {"gate", "write", "hook", "close"}
    BY <1>1, Names DEF Idle, CallAt
  <2> QED BY <2>1, <2>2, <2>3, <2>4 DEF TypeOK, Calls
<1>3. \A c \in Callers : CallOK(call[c]) /\ ~Moving(call[c])
  BY <1>1, IdleRecord
<1>4. LedgersAgree /\ DecisionsActOnce
  BY DEF Init, LedgersAgree, LedgerExplainsStatus, FilingLedgerAgrees, DecisionsActOnce,
         LastStatus, ToSet
<1> QED BY <1>1, <1>2, <1>3, <1>4 DEF Inv, TokensOK

----------------------------------------------------------------------------
(* Steps that write neither ledger nor decision *)

\* The ledgers and decisions are what they were.
LEMMA SameLedgers ==
  ASSUME Inv, UNCHANGED <<status, events, filing, filings, reviews, approvals, life>>
  PROVE  /\ LedgersAgree' /\ DecisionsActOnce'
         /\ \A t \in Decisions : Decided(t)' = Decided(t)
<1>1. \A t : Decided(t)' = Decided(t)
  BY SameLife DEF Decided
<1>2. LedgersAgree'
  BY SameLife DEF Inv, LedgersAgree, LedgerExplainsStatus, FilingLedgerAgrees, LastStatus
<1>3. DecisionsActOnce'
  BY <1>1, SameLife DEF Inv, DecisionsActOnce, Decisions
<1> QED BY <1>1, <1>2, <1>3

\* A request goes on, to a record that holds no other decision than before.
LEMMA CallStep ==
  ASSUME Inv, NEW c \in Callers, NEW r \in Calls, CallOK(r),
         call' = [call EXCEPT ![c] = r],
         Moving(r) /\ r.for \in Decisions => Moving(call[c]) /\ call[c].for = r.for,
         UNCHANGED <<status, events, filing, filings, reviews, approvals, milestones, life>>,
         blockers' \in [BlockerCodes -> {"none", "active", "closed"}],
         crashes' \in 0..MaxCrashes
  PROVE  Inv'
<1>1. Callers' = Callers /\ call'[c] = r /\ \A d \in Callers \ {c} : call'[d] = call[d]
  BY SameLife DEF Inv, TypeOK
<1>2. TypeOK'
  <2>1. call \in [Callers -> Calls]
    BY DEF Inv, TypeOK, Calls
  <2>2. call' \in [Callers -> Calls]
    BY <2>1
  <2>3. \A d \in Callers :
          call'[d].from \in STATES <=> call'[d].at \in {"gate", "write", "hook", "close"}
    BY <1>1 DEF Inv, TypeOK, CallOK
  <2>4. Calls' = Calls
    BY SameLife DEF Calls
  <2> HIDE DEF Calls
  <2>5. call' \in [Callers' -> Calls'] /\ Reviews' = Reviews /\ FilingKeys' = FilingKeys
        /\ WorkflowSteps' = WorkflowSteps /\ MaxCrashes' = MaxCrashes /\ Callers' = Callers
    BY <2>2, <2>4, SameLife
  <2> QED BY <2>3, <2>5 DEF Inv, TypeOK, Calls
<1>3. \A d \in Callers' : CallOK(call[d])'
  BY <1>1 DEF Inv, CallOK, Moving
<1>4. TokensOK'
  <2> SUFFICES ASSUME NEW t \in Decisions, NEW d \in Callers, Moving(call'[d]), call'[d].for = t
               PROVE  /\ Decided(t)'
                      /\ \A n \in DOMAIN events : events[n].for # t
                      /\ \A e \in Callers : Moving(call'[e]) /\ call'[e].for = t => e = d
    BY SameLife DEF TokensOK, Moving
  <2>1. \A e \in Callers : Moving(call'[e]) /\ call'[e].for = t =>
          Moving(call[e]) /\ call[e].for = t
    BY <1>1
  <2> QED BY <2>1, SameLedgers DEF Inv, TokensOK
<1> QED BY <1>2, <1>3, <1>4, SameLedgers DEF Inv

\* A request ends.
LEMMA ReturnKeeps ==
  ASSUME Inv, NEW c \in Callers, Return(c),
         UNCHANGED <<status, events, filing, filings, reviews, approvals, milestones, life>>,
         blockers' \in [BlockerCodes -> {"none", "active", "closed"}],
         crashes' \in 0..MaxCrashes
  PROVE  Inv'
BY IdleRecord, CallStep DEF Return

\* A request is taken up for staff, the filing or the workflow.
LEMMA CallKeeps ==
  ASSUME Inv, NEW c \in Callers, NEW to \in STATES, NEW force \in BOOLEAN,
         NEW for \in {"staff", "filing", "workflow"}, CallTransition(c, to, force, for),
         UNCHANGED <<status, events, filing, filings, reviews, approvals, blockers,
                     milestones, crashes, life>>
  PROVE  Inv'
<1>1. PICK r : r = CallAt("read", to, force, for, NoKey)
  OBVIOUS
<1>2. for \in Principals
  BY DEF Principals
<1>3. r \in Calls /\ CallOK(r) /\ r.for = for
  BY <1>1, <1>2, CallRecord
<1>4. r.for \notin Decisions
  BY <1>3, Names, LifeType DEF Inv, Decisions
<1>5. call' = [call EXCEPT ![c] = r]
  BY <1>1 DEF CallTransition
<1>6. blockers' \in [BlockerCodes -> {"none", "active", "closed"}] /\ crashes' \in 0..MaxCrashes
  BY DEF Inv, TypeOK
<1> QED BY <1>3, <1>4, <1>5, <1>6, CallStep

\* What the actions below need of a request's record.
LEMMA CallType ==
  ASSUME Inv, NEW c \in Callers
  PROVE  /\ call[c] \in Calls /\ CallOK(call[c])
         /\ call \in [Callers -> Calls]
BY DEF Inv, TypeOK, Calls

LEMMA ReadStatusKeeps ==
  ASSUME Inv, UNCHANGED life, NEW c \in Callers, ReadStatus(c) PROVE Inv'
<1> DEFINE place == IF call[c].to \in CLOSING_STATES THEN "gate" ELSE "write"
<1>1. /\ call[c].at = "read" /\ Allowed(c)
      /\ call' = [call EXCEPT ![c].from = status, ![c].at = place]
      /\ UNCHANGED <<lifecycle, filingState, reviews, blockers, milestones, crashes>>
  BY DEF ReadStatus
<1>2. PICK r : r = [call[c] EXCEPT !.from = status, !.at = place]
  OBVIOUS
<1>3. call[c] \in Calls /\ call \in [Callers -> Calls] /\ status \in STATES
      /\ call[c].to \in STATES
  BY <1>1, CallType DEF Inv, TypeOK, CallOK, Moving
<1>4. place \in {"gate", "write"} /\ place \in Places
  BY DEF Places
<1> HIDE DEF place
<1>5. /\ r.at = place /\ r.from = status /\ r.to = call[c].to /\ r.for = call[c].for
      /\ r.force = call[c].force
  BY <1>2, <1>3 DEF Calls
<1>6. r \in Calls
  BY <1>2, <1>3, <1>4 DEF Calls
<1>7. CallOK(r)
  BY <1>1, <1>3, <1>4, <1>5 DEF CallOK, Moving, Allowed
<1>8. call' = [call EXCEPT ![c] = r]
  BY <1>1, <1>2, <1>3
<1>9. Moving(call[c])
  BY <1>1 DEF Moving
<1> QED BY <1>1, <1>5, <1>6, <1>7, <1>8, <1>9, CallStep DEF lifecycle, filingState, Inv, TypeOK

LEMMA NoMoveKeeps ==
  ASSUME Inv, UNCHANGED life, NEW c \in Callers, NoMove(c) PROVE Inv'
BY ReturnKeeps DEF NoMove, lifecycle, filingState, Inv, TypeOK

LEMMA PassGateKeeps ==
  ASSUME Inv, UNCHANGED life, NEW c \in Callers, PassGate(c) PROVE Inv'
<1>1. /\ call[c].at = "gate"
      /\ UNCHANGED <<lifecycle, filingState, reviews, blockers, milestones, crashes>>
  BY DEF PassGate
<1>2. CASE Return(c)
  BY <1>1, <1>2, ReturnKeeps DEF lifecycle, filingState, Inv, TypeOK
<1>3. CASE Goto(c, "write")
  <2>1. PICK r : r = [call[c] EXCEPT !.at = "write"]
    OBVIOUS
  <2>2. call[c] \in Calls /\ call \in [Callers -> Calls] /\ CallOK(call[c])
    BY CallType
  <2>3. /\ r \in Calls /\ r.at = "write" /\ r.from = call[c].from /\ r.to = call[c].to
        /\ r.for = call[c].for /\ r.force = call[c].force
    BY <2>1, <2>2 DEF Calls, Places
  <2>4. CallOK(r) /\ Moving(call[c])
    BY <1>1, <2>2, <2>3 DEF CallOK, Moving
  <2>5. call' = [call EXCEPT ![c] = r]
    BY <1>3, <2>1, <2>2 DEF Goto
  <2> QED BY <1>1, <2>3, <2>4, <2>5, CallStep DEF lifecycle, filingState, Inv, TypeOK
<1> QED BY <1>2, <1>3 DEF PassGate

LEMMA RejectionHookKeeps ==
  ASSUME Inv, UNCHANGED life, NEW c \in Callers, RejectionHook(c) PROVE Inv'
<1>1. blockers' \in [BlockerCodes -> {"none", "active", "closed"}]
  BY DEF RejectionHook, Inv, TypeOK
<1> QED BY <1>1, ReturnKeeps DEF RejectionHook, lifecycle, filingState, Inv, TypeOK

LEMMA AcceptanceHookKeeps ==
  ASSUME Inv, UNCHANGED life, NEW c \in Callers, AcceptanceHook(c) PROVE Inv'
<1> DEFINE codes == OpenBlockers \cap FILING_BLOCKER_CODES
<1>1. /\ call[c].at = "hook"
      /\ call' = [call EXCEPT ![c].at = "close", ![c].rows = codes]
      /\ UNCHANGED <<lifecycle, filingState, reviews, blockers, milestones, crashes>>
  BY DEF AcceptanceHook
<1>2. codes \in SUBSET FILING_BLOCKER_CODES
  OBVIOUS
<1> HIDE DEF codes
<1>3. PICK r : r = [call[c] EXCEPT !.at = "close", !.rows = codes]
  OBVIOUS
<1>4. call[c] \in Calls /\ call \in [Callers -> Calls] /\ CallOK(call[c])
  BY CallType
<1>5. /\ r \in Calls /\ r.at = "close" /\ r.from = call[c].from /\ r.to = call[c].to
  BY <1>2, <1>3, <1>4 DEF Calls, Places
<1>6. CallOK(r) /\ ~Moving(r)
  BY <1>1, <1>4, <1>5 DEF CallOK, Moving
<1>7. call' = [call EXCEPT ![c] = r]
  BY <1>1, <1>3, <1>4
<1> QED BY <1>1, <1>5, <1>6, <1>7, CallStep DEF lifecycle, filingState, Inv, TypeOK

LEMMA CloseListedKeeps ==
  ASSUME Inv, UNCHANGED life, NEW c \in Callers, CloseListed(c) PROVE Inv'
<1>1. /\ call[c].at = "close"
      /\ UNCHANGED <<lifecycle, filingState, reviews, milestones, crashes>>
  BY DEF CloseListed
<1>2. CASE Return(c) /\ UNCHANGED blockers
  BY <1>1, <1>2, ReturnKeeps DEF lifecycle, filingState, Inv, TypeOK
<1>3. ASSUME NEW b \in call[c].rows,
             blockers' = [blockers EXCEPT ![b] = "closed"],
             call' = [call EXCEPT ![c].rows = @ \ {b}]
      PROVE  Inv'
  <2>1. PICK r : r = [call[c] EXCEPT !.rows = @ \ {b}]
    OBVIOUS
  <2>2. call[c] \in Calls /\ call \in [Callers -> Calls] /\ CallOK(call[c])
    BY CallType
  <2>3. /\ r \in Calls /\ r.at = "close" /\ r.from = call[c].from /\ r.to = call[c].to
    BY <1>1, <2>1, <2>2 DEF Calls
  <2>4. CallOK(r) /\ ~Moving(r)
    BY <1>1, <2>2, <2>3 DEF CallOK, Moving
  <2>5. call' = [call EXCEPT ![c] = r]
    BY <1>3, <2>1, <2>2
  <2>6. blockers' \in [BlockerCodes -> {"none", "active", "closed"}]
    BY <1>3 DEF Inv, TypeOK
  <2> QED BY <1>1, <2>3, <2>4, <2>5, <2>6, CallStep DEF lifecycle, filingState, Inv, TypeOK
<1> QED BY <1>2, <1>3 DEF CloseListed

LEMMA CrashKeeps ==
  ASSUME Inv, UNCHANGED life, NEW c \in Callers, Crash(c) PROVE Inv'
<1>1. crashes' \in 0..MaxCrashes
  BY LifeType DEF Crash, Inv, TypeOK
<1> QED BY <1>1, ReturnKeeps DEF Crash, lifecycle, filingState, Inv, TypeOK

LEMMA StaffTransitionKeeps ==
  ASSUME Inv, UNCHANGED life, NEW c \in Callers, NEW to \in STATES, NEW force \in ForceValues,
         StaffTransition(c, to, force)
  PROVE  Inv'
<1>1. force \in BOOLEAN
  BY LifeType DEF Inv
<1> QED BY <1>1, CallKeeps DEF StaffTransition, lifecycle, filingState

LEMMA SyncWorkflowKeeps ==
  ASSUME Inv, UNCHANGED life, NEW c \in Callers, SyncWorkflow(c) PROVE Inv'
<1>1. PICK to \in STATES : to = MilestoneTarget
  BY MilestoneTargetType DEF SyncWorkflow
<1>2. CallTransition(c, to, FALSE, "workflow")
  BY <1>1 DEF SyncWorkflow
<1> QED BY <1>2, CallKeeps DEF SyncWorkflow, lifecycle, filingState

LEMMA FilingReadKeeps ==
  ASSUME Inv, UNCHANGED life, NEW c \in Callers, NEW to \in FilingStatuses,
         NEW key \in FilingKeys \cup {NoKey}, FilingRead(c, to, key)
  PROVE  Inv'
<1>1. PICK r : r = CallAt("filing", to, FALSE, "filing", key)
  OBVIOUS
<1>2. to \in DOMAIN FiledTo
  BY FilingTargets DEF FilingRead, Inv, TypeOK
<1>3. r \in Calls /\ r.at = "filing" /\ r.to = to /\ r.from = "none"
  BY <1>1 DEF CallAt, Calls, Places, Principals
<1>4. CallOK(r) /\ ~Moving(r)
  BY <1>2, <1>3, Names DEF CallOK, Moving
<1>5. call' = [call EXCEPT ![c] = r]
  BY <1>1 DEF FilingRead
<1> QED BY <1>3, <1>4, <1>5, CallStep DEF FilingRead, lifecycle, filingState, Inv, TypeOK

----------------------------------------------------------------------------
(* Steps that write a ledger or a decision *)

Events == Seq([from : STATES, to : STATES, force : BOOLEAN, for : Principals])
Filings == Seq([status : FilingStatuses, key : FilingKeys \cup {NoKey}])

TablesOK ==
  /\ status \in STATES /\ filing \in FilingStatuses
  /\ events \in Events /\ filings \in Filings
  /\ reviews \in [Reviews -> {"none", "pending", "approved", "returned"}]
  /\ approvals \in [ApprovalTypes -> {"none", "pending", "approved", "rejected"}]
  /\ blockers \in [BlockerCodes -> {"none", "active", "closed"}]
  /\ milestones \subseteq WorkflowSteps
  /\ crashes \in 0..MaxCrashes

LEMMA TablesType == ASSUME Inv PROVE TablesOK
BY DEF Inv, TypeOK, TablesOK, Events, Filings

\* A request writes tables and goes on.
LEMMA WriteStep ==
  ASSUME Inv, UNCHANGED life, NEW c \in Callers, NEW r \in Calls, CallOK(r),
         call' = [call EXCEPT ![c] = r],
         TablesOK', LedgersAgree', DecisionsActOnce', TokensOK'
  PROVE  Inv'
<1>1. Callers' = Callers /\ call'[c] = r /\ \A d \in Callers \ {c} : call'[d] = call[d]
  BY SameLife DEF Inv, TypeOK
<1>2. TypeOK'
  <2>1. call' \in [Callers -> Calls]
    BY CallType
  <2>2. \A d \in Callers :
          call'[d].from \in STATES <=> call'[d].at \in {"gate", "write", "hook", "close"}
    BY <1>1 DEF Inv, TypeOK, CallOK
  <2>3. Calls' = Calls
    BY SameLife DEF Calls
  <2> HIDE DEF Calls
  <2>4. call' \in [Callers' -> Calls'] /\ Callers' = Callers
    BY <2>1, <2>3, SameLife
  <2> QED BY <2>2, <2>4 DEF TypeOK, TablesOK, Calls, Events, Filings
<1>3. \A d \in Callers' : CallOK(call[d])'
  BY <1>1 DEF Inv, CallOK, Moving
<1> QED BY <1>2, <1>3 DEF Inv

\* Nobody's request goes on, and no decision is made.
LEMMA TableStep ==
  ASSUME Inv, UNCHANGED <<life, call, status, events, filing, filings, approvals, crashes>>,
         TablesOK', \A t \in Decisions : Decided(t)' = Decided(t)
  PROVE  Inv'
<1>1. TypeOK'
  BY SameLife DEF Inv, TypeOK, TablesOK, Events, Filings
<1>2. LedgersAgree'
  BY SameLife DEF Inv, LedgersAgree, LedgerExplainsStatus, FilingLedgerAgrees, LastStatus
<1>3. DecisionsActOnce'
  BY SameLife DEF Inv, DecisionsActOnce, Decisions
<1>4. TokensOK'
  BY SameLife DEF Inv, TokensOK, Moving
<1>5. \A c \in Callers' : CallOK(call[c])'
  BY SameLife DEF Inv, CallOK, Moving
<1> QED BY <1>1, <1>2, <1>3, <1>4, <1>5 DEF Inv

LEMMA FilingWriteKeeps ==
  ASSUME Inv, UNCHANGED life, NEW c \in Callers, FilingWrite(c) PROVE Inv'
<1> DEFINE entry == [status |-> call[c].to, key |-> call[c].key]
<1>1. /\ call[c].at = "filing"
      /\ UNCHANGED <<status, events, approvals, reviews, blockers, milestones, crashes, life>>
  BY DEF FilingWrite, lifecycle
<1>2. CASE KeyUsed(call[c].key)
  BY <1>1, <1>2, ReturnKeeps DEF FilingWrite, filingState, Inv, TypeOK
<1>3. CASE ~KeyUsed(call[c].key)
  <2>1. /\ filings' = Append(filings, entry) /\ filing' = call[c].to
        /\ CallTransition(c, FiledTo[call[c].to], FALSE, "filing")
    BY <1>3 DEF FilingWrite
  <2>2. /\ call[c].to \in DOMAIN FiledTo /\ call[c].to \in FilingStatuses
        /\ call[c].key \in FilingKeys \cup {NoKey}
    BY <1>1, CallType, FilingTargets DEF CallOK, Calls
  <2>3. entry \in [status : FilingStatuses, key : FilingKeys \cup {NoKey}]
    BY <2>2
  <2>4. filings \in Filings /\ TablesOK
    BY TablesType DEF TablesOK
  <2> HIDE DEF entry
  <2>5. filings' \in Filings
    BY <2>1, <2>3, <2>4 DEF Filings
  <2>6. TablesOK'
    BY <1>1, <2>1, <2>2, <2>4, <2>5, SameLife DEF TablesOK, Filings
  <2>7. PICK r : r = CallAt("read", FiledTo[call[c].to], FALSE, "filing", NoKey)
    OBVIOUS
  <2>8. r \in Calls /\ CallOK(r) /\ r.for = "filing"
    <3>1. FiledTo[call[c].to] \in STATES /\ "filing" \in Principals
      BY <2>2, FilingTargets DEF Principals
    <3> QED BY <2>7, <3>1, CallRecord
  <2>9. call' = [call EXCEPT ![c] = r]
    BY <2>1, <2>7 DEF CallTransition
  <2>10. LedgersAgree'
    <3>1. LedgerExplainsStatus'
      BY <1>1, SameLife DEF Inv, LedgersAgree, LedgerExplainsStatus, LastStatus
    <3>2. /\ Len(filings') = Len(filings) + 1 /\ Len(filings) \in Nat
          /\ DOMAIN filings = 1..Len(filings) /\ DOMAIN filings' = 1..Len(filings')
          /\ filings'[Len(filings')] = entry
          /\ \A n \in DOMAIN filings : filings'[n] = filings[n]
      BY <2>1, <2>3, <2>4, <2>5 DEF Filings
    <3>3. entry.status = call[c].to /\ entry.key = call[c].key
      BY DEF entry
    <3>4. filings' # <<>> /\ Last(filings') = entry
      BY <3>2 DEF Last
    <3>5. \A n \in DOMAIN filings : entry.key # NoKey => filings[n].key # entry.key
      BY <1>3, <3>3 DEF KeyUsed, ToSet
    <3>6. \A m, n \in DOMAIN filings' :
            filings'[m].key = filings'[n].key /\ filings'[m].key # NoKey => m = n
      <4> SUFFICES ASSUME NEW m \in DOMAIN filings', NEW n \in DOMAIN filings',
                          filings'[m].key = filings'[n].key, filings'[m].key # NoKey
                   PROVE  m = n
        OBVIOUS
      <4>1. CASE m \in DOMAIN filings /\ n \in DOMAIN filings
        BY <3>2, <4>1 DEF Inv, LedgersAgree, FilingLedgerAgrees
      <4>2. CASE m \notin DOMAIN filings /\ n \in DOMAIN filings
        BY <3>2, <3>5, <4>2
      <4>3. CASE m \in DOMAIN filings /\ n \notin DOMAIN filings
        BY <3>2, <3>5, <4>3
      <4>4. CASE m \notin DOMAIN filings /\ n \notin DOMAIN filings
        BY <3>2, <4>4
      <4> QED BY <4>1, <4>2, <4>3, <4>4
    <3>7. FilingLedgerAgrees'
      BY <2>1, <3>3, <3>4, <3>6 DEF FilingLedgerAgrees
    <3> QED BY <3>1, <3>7 DEF LedgersAgree
  <2>11. \A t : Decided(t)' = Decided(t)
    BY <1>1, SameLife DEF Decided
  <2>12. DecisionsActOnce'
    BY <1>1, <2>11, SameLife DEF Inv, DecisionsActOnce
  <2>13. TokensOK'
    <3>1. "filing" \notin Decisions
      BY Names, LifeType DEF Inv, Decisions
    <3>2. \A d \in Callers \ {c} : call'[d] = call[d]
      BY <2>9, CallType
    <3>3. call'[c] = r
      BY <2>9, CallType
    <3> QED BY <1>1, <2>8, <2>11, <3>1, <3>2, <3>3, SameLife DEF Inv, TokensOK, Moving
  <2> QED BY <2>6, <2>8, <2>9, <2>10, <2>12, <2>13, WriteStep
<1> QED BY <1>2, <1>3

LEMMA WriteKeeps ==
  ASSUME Inv, UNCHANGED life, NEW c \in Callers, Write(c) PROVE Inv'
<1>1. /\ call[c].at = "write" /\ status' = call[c].to
      /\ events' = Append(events, Event(c)) /\ approvals' = Ask(call[c].to)
      /\ UNCHANGED <<filing, filings, reviews, blockers, milestones, crashes, life>>
  BY DEF Write, filingState
<1>2. /\ call[c].to \in STATES /\ call[c].from \in STATES
      /\ call[c].force \in BOOLEAN /\ call[c].for \in Principals
      /\ call[c].force \/ call[c].to \in TRANSITIONS[call[c].from]
      /\ Moving(call[c])
  <2>1. call[c] \in Calls /\ CallOK(call[c])
    BY CallType
  <2>2. call[c].force \in BOOLEAN /\ call[c].for \in Principals
    BY <2>1 DEF Calls
  <2> QED BY <1>1, <2>1, <2>2 DEF CallOK, Moving
<1>3. TablesOK /\ events \in Events
  BY TablesType DEF TablesOK
<1>4. Event(c) \in [from : STATES, to : STATES, force : BOOLEAN, for : Principals]
  BY <1>2 DEF Event
<1>5. /\ Event(c).to = call[c].to /\ Event(c).from = call[c].from
      /\ Event(c).force = call[c].force /\ Event(c).for = call[c].for
  BY DEF Event
<1>6. /\ events' \in Events
      /\ Len(events') = Len(events) + 1 /\ Len(events) \in Nat
      /\ DOMAIN events = 1..Len(events) /\ DOMAIN events' = 1..Len(events')
      /\ events'[Len(events')] = Event(c)
      /\ \A n \in DOMAIN events : events'[n] = events[n]
  BY <1>1, <1>3, <1>4 DEF Events
<1>7. /\ approvals' \in [ApprovalTypes -> {"none", "pending", "approved", "rejected"}]
      /\ \A t \in Decisions : Decided(t) => Decided(t)'
  <2>1. approvals' \in [ApprovalTypes -> {"none", "pending", "approved", "rejected"}]
        /\ \A t \in ApprovalTypes : approvals'[t] = approvals[t] \/ approvals[t] = "none"
    BY <1>1, <1>3 DEF Ask, TablesOK
  <2> QED BY <1>1, <2>1, SameLife DEF Decided, Decisions
<1>8. TablesOK'
  BY <1>1, <1>2, <1>3, <1>6, <1>7, SameLife DEF TablesOK, Filings, Events
<1>9. PICK r : /\ r \in Calls /\ CallOK(r) /\ ~Moving(r)
               /\ call' = [call EXCEPT ![c] = r]
  <2>1. CASE Return(c)
    BY <2>1, IdleRecord DEF Return
  <2>2. CASE Goto(c, "hook")
    <3>1. PICK r : r = [call[c] EXCEPT !.at = "hook"]
      OBVIOUS
    <3>2. call[c] \in Calls /\ call \in [Callers -> Calls] /\ CallOK(call[c])
      BY CallType
    <3>3. /\ r \in Calls /\ r.at = "hook" /\ r.from = call[c].from /\ r.to = call[c].to
      BY <3>1, <3>2 DEF Calls, Places
    <3>4. CallOK(r) /\ ~Moving(r)
      BY <1>2, <3>3 DEF CallOK, Moving
    <3>5. call' = [call EXCEPT ![c] = r]
      BY <2>2, <3>1, <3>2 DEF Goto
    <3> QED BY <3>3, <3>4, <3>5
  <2> QED BY <2>1, <2>2 DEF Write
<1>10. LedgersAgree'
  <2>1. LastStatus' = call[c].to
    <3>1. events' # <<>> /\ Last(events') = Event(c)
      BY <1>6 DEF Last
    <3> QED BY <1>5, <3>1 DEF LastStatus
  <2>2. \A e \in ToSet(events') : e.force \/ e.to \in TRANSITIONS[e.from]
    <3>1. \A n \in DOMAIN events' : events'[n].force \/ events'[n].to \in TRANSITIONS[events'[n].from]
      <4> SUFFICES ASSUME NEW n \in DOMAIN events'
                   PROVE  events'[n].force \/ events'[n].to \in TRANSITIONS[events'[n].from]
        OBVIOUS
      <4>1. CASE n \in DOMAIN events
        BY <1>6, <4>1 DEF Inv, LedgersAgree, LedgerExplainsStatus, ToSet
      <4>2. CASE n = Len(events')
        BY <1>2, <1>5, <1>6, <4>2
      <4> QED BY <1>6, <4>1, <4>2
    <3> QED BY <3>1 DEF ToSet
  <2>3. FilingLedgerAgrees'
    BY <1>1, SameLife DEF Inv, LedgersAgree, FilingLedgerAgrees
  <2> QED BY <1>1, <2>1, <2>2, <2>3 DEF LedgersAgree, LedgerExplainsStatus
<1>11. DecisionsActOnce'
  <2> SUFFICES ASSUME NEW t \in Decisions, NEW n \in DOMAIN events', events'[n].for = t
               PROVE  Decided(t)' /\ \A m \in DOMAIN events' : events'[m].for = t => m = n
    BY SameLife DEF DecisionsActOnce, Decisions
  <2>1. CASE t = call[c].for
    <3>1. Decided(t) /\ \A m \in DOMAIN events : events[m].for # t
      BY <1>2, <2>1 DEF Inv, TokensOK
    <3> QED BY <1>6, <1>7, <3>1
  <2>2. CASE t # call[c].for
    <3>1. \A m \in DOMAIN events' : events'[m].for = t =>
            m \in DOMAIN events /\ events[m].for = t
      BY <1>5, <1>6, <2>2
    <3> QED BY <1>7, <3>1 DEF Inv, DecisionsActOnce, Decisions
  <2> QED BY <2>1, <2>2
<1>12. TokensOK'
  <2> SUFFICES ASSUME NEW t \in Decisions, NEW d \in Callers, Moving(call'[d]), call'[d].for = t
               PROVE  /\ Decided(t)'
                      /\ \A n \in DOMAIN events' : events'[n].for # t
                      /\ \A e \in Callers : Moving(call'[e]) /\ call'[e].for = t => e = d
    BY <1>1, SameLife DEF TokensOK, Moving
  <2>1. call'[c] = r /\ \A e \in Callers \ {c} : call'[e] = call[e]
    BY <1>9, CallType
  <2>2. d # c /\ Moving(call[d]) /\ call[d].for = t
    BY <1>9, <2>1
  <2>3. call[c].for # t
    BY <1>2, <2>2 DEF Inv, TokensOK
  <2>4. /\ Decided(t) /\ \A n \in DOMAIN events : events[n].for # t
        /\ \A e \in Callers : Moving(call[e]) /\ call[e].for = t => e = d
    BY <2>2 DEF Inv, TokensOK
  <2>5. \A n \in DOMAIN events' : events'[n].for # t
    BY <1>5, <1>6, <2>3, <2>4
  <2> QED BY <1>7, <1>9, <2>1, <2>4, <2>5
<1> QED BY <1>8, <1>9, <1>10, <1>11, <1>12, WriteStep

\* A decision that was not made yet is made, and its move is asked for.
LEMMA DecisionKeeps ==
  ASSUME Inv, UNCHANGED <<life, status, events, filing, filings, blockers, milestones, crashes>>,
         NEW c \in Callers, NEW t \in Decisions, NEW to \in STATES,
         CallTransition(c, to, FALSE, t), TablesOK',
         ~Decided(t), Decided(t)',
         \A u \in Decisions \ {t} : Decided(u)' = Decided(u)
  PROVE  Inv'
<1>1. PICK r : r = CallAt("read", to, FALSE, t, NoKey)
  OBVIOUS
<1>2. t \in Principals
  BY LifeType DEF Inv, Decisions, Principals
<1>3. r \in Calls /\ CallOK(r) /\ Moving(r) /\ r.for = t
  BY <1>1, <1>2, CallRecord
<1>4. call' = [call EXCEPT ![c] = r]
  BY <1>1 DEF CallTransition
<1>5. call'[c] = r /\ \A d \in Callers \ {c} : call'[d] = call[d]
  BY <1>4, CallType
<1>6. LedgersAgree'
  BY SameLife DEF Inv, LedgersAgree, LedgerExplainsStatus, FilingLedgerAgrees, LastStatus
<1>7. /\ \A n \in DOMAIN events : events[n].for # t
      /\ \A d \in Callers : ~(Moving(call[d]) /\ call[d].for = t)
  BY DEF Inv, TokensOK, DecisionsActOnce, Decisions
<1>8. DecisionsActOnce'
  <2> SUFFICES ASSUME NEW u \in Decisions, NEW n \in DOMAIN events, events[n].for = u
               PROVE  Decided(u)' /\ \A m \in DOMAIN events : events[m].for = u => m = n
    BY SameLife DEF DecisionsActOnce, Decisions
  <2> QED BY <1>7 DEF Inv, DecisionsActOnce, Decisions
<1>9. TokensOK'
  <2> SUFFICES ASSUME NEW u \in Decisions, NEW d \in Callers, Moving(call'[d]), call'[d].for = u
               PROVE  /\ Decided(u)'
                      /\ \A n \in DOMAIN events : events[n].for # u
                      /\ \A e \in Callers : Moving(call'[e]) /\ call'[e].for = u => e = d
    BY SameLife DEF TokensOK, Moving
  <2>1. CASE u = t
    BY <1>3, <1>5, <1>7, <2>1
  <2>2. CASE u # t
    BY <1>3, <1>5, <2>2 DEF Inv, TokensOK
  <2> QED BY <2>1, <2>2
<1> QED BY <1>3, <1>4, <1>6, <1>8, <1>9, WriteStep

LEMMA DecideReviewKeeps ==
  ASSUME Inv, UNCHANGED life, NEW c \in Callers, NEW t \in Reviews,
         NEW decision \in {"approved", "returned"}, DecideReview(c, t, decision)
  PROVE  Inv'
<1>1. /\ reviews[t] = "pending" /\ reviews' = [reviews EXCEPT ![t] = decision]
      /\ UNCHANGED <<status, events, approvals, filing, filings, blockers, milestones, crashes, life>>
  BY DEF DecideReview, lifecycle, filingState
<1>2. PICK to \in STATES : to = IF decision = "returned" THEN "in_preparation" ELSE ReviewedTo[t]
  BY Targets, LifeType DEF Inv
<1>3. CallTransition(c, to, FALSE, t)
  BY <1>2 DEF DecideReview
<1>4. TablesOK
  BY TablesType
<1>5. TablesOK'
  BY <1>1, <1>4, SameLife DEF TablesOK, Events, Filings
<1>6. /\ t \in Decisions /\ ~Decided(t) /\ Decided(t)'
      /\ \A u \in Decisions \ {t} : Decided(u)' = Decided(u)
  BY <1>1, <1>4, SameLife DEF Decided, Decisions, TablesOK
<1> QED BY <1>1, <1>3, <1>5, <1>6, DecisionKeeps

LEMMA ClientDecisionKeeps ==
  ASSUME Inv, UNCHANGED life, NEW c \in Callers, NEW t \in ApprovalTypes,
         NEW decision \in {"approved", "rejected"}, ClientDecision(c, t, decision)
  PROVE  Inv'
<1>1. /\ approvals[t] = "pending" /\ approvals' = [approvals EXCEPT ![t] = decision]
      /\ UNCHANGED <<status, events, reviews, filing, filings, blockers, milestones, crashes, life>>
  BY DEF ClientDecision, filingState
<1>2. PICK to \in STATES : to = IF decision = "rejected" THEN "in_preparation" ELSE ApprovedTo[t]
  BY Targets
<1>3. CallTransition(c, to, FALSE, t)
  BY <1>2 DEF ClientDecision
<1>4. TablesOK
  BY TablesType
<1>5. TablesOK'
  BY <1>1, <1>4, SameLife DEF TablesOK, Events, Filings
<1>6. t \notin Reviews /\ t \in Decisions
  BY Names, LifeType DEF Inv, Decisions
<1>7. /\ ~Decided(t) /\ Decided(t)'
      /\ \A u \in Decisions \ {t} : Decided(u)' = Decided(u)
  BY <1>1, <1>4, <1>6, SameLife DEF Decided, Decisions, TablesOK
<1> QED BY <1>1, <1>3, <1>5, <1>6, <1>7, DecisionKeeps

LEMMA RequestReviewKeeps ==
  ASSUME Inv, UNCHANGED life, NEW c \in Callers, NEW t \in Reviews, RequestReview(c, t)
  PROVE  Inv'
<1>1. /\ reviews[t] = "none" /\ reviews' = [reviews EXCEPT ![t] = "pending"]
      /\ UNCHANGED <<life, call, status, events, filing, filings, approvals, crashes, blockers,
                     milestones>>
  BY DEF RequestReview, lifecycle, filingState
<1>2. TablesOK
  BY TablesType
<1>3. TablesOK'
  BY <1>1, <1>2, SameLife DEF TablesOK, Events, Filings
<1>4. \A u \in Decisions : Decided(u)' = Decided(u)
  BY <1>1, <1>2, SameLife DEF Decided, Decisions, TablesOK
<1> QED BY <1>1, <1>3, <1>4, TableStep

LEMMA AroundKeeps ==
  ASSUME Inv, UNCHANGED life,
         \/ \E m \in WorkflowSteps : StepCompleted(m)
         \/ \E b \in Detected : BlockerChanges(b)
  PROVE  Inv'
<1>1. UNCHANGED <<life, call, status, events, filing, filings, approvals, crashes, reviews>>
  BY DEF StepCompleted, BlockerChanges, lifecycle, filingState
<1>2. TablesOK
  BY TablesType
<1>3. /\ milestones' \subseteq WorkflowSteps
      /\ blockers' \in [BlockerCodes -> {"none", "active", "closed"}]
  BY <1>2 DEF StepCompleted, BlockerChanges, TablesOK
<1>4. TablesOK'
  BY <1>1, <1>2, <1>3, SameLife DEF TablesOK, Events, Filings
<1>5. \A u \in Decisions : Decided(u)' = Decided(u)
  BY <1>1, SameLife DEF Decided
<1> QED BY <1>1, <1>4, <1>5, TableStep

LEMMA NextKeeps == Inv /\ [Next]_vars => Inv'
<1> SUFFICES ASSUME Inv, [Next]_vars PROVE Inv'
  OBVIOUS
<1>1. CASE UNCHANGED vars
  <2>1. UNCHANGED <<life, call, status, events, filing, filings, approvals, crashes, reviews,
                    milestones, blockers>>
    BY <1>1 DEF vars, lifecycle, filingState
  <2>2. TablesOK'
    BY <2>1, TablesType, SameLife DEF TablesOK, Events, Filings
  <2>3. \A u \in Decisions : Decided(u)' = Decided(u)
    BY <2>1, SameLife DEF Decided
  <2> QED BY <2>1, <2>2, <2>3, TableStep
<1>2. ASSUME Next PROVE Inv'
  <2>1. UNCHANGED life
    BY <1>2 DEF Next
  <2>2. ASSUME NEW c \in Callers, Step(c) PROVE Inv'
    BY <2>1, <2>2, ReadStatusKeeps, NoMoveKeeps, PassGateKeeps, WriteKeeps, RejectionHookKeeps,
       AcceptanceHookKeeps, CloseListedKeeps, FilingWriteKeeps DEF Step
  <2>3. ASSUME NEW c \in Callers, Request(c) PROVE Inv'
    BY <2>1, <2>3, StaffTransitionKeeps, RequestReviewKeeps, DecideReviewKeeps,
       ClientDecisionKeeps, FilingReadKeeps, SyncWorkflowKeeps DEF Request
  <2>4. ASSUME NEW c \in Callers, Crash(c) PROVE Inv'
    BY <2>1, <2>4, CrashKeeps
  <2> QED BY <1>2, <2>1, <2>2, <2>3, <2>4, AroundKeeps DEF Next
<1> QED BY <1>1, <1>2

LEMMA Invariance == Spec => []Inv
BY InitInv, NextKeeps, PTL DEF Spec

----------------------------------------------------------------------------
(* The exceptions of a return *)

\* A request that is past the gate, unforced, found no blocker: those that are
\* open were raised since.
GateKept(c) ==
  call[c].at = "write" /\ call[c].to \in CLOSING_STATES /\ ~call[c].force => OpenBlockers \subseteq raised[c]

FollowInv ==
  /\ raised \in [Callers -> SUBSET BlockerCodes]
  /\ ClosedReturnsUnblocked
  /\ \A c \in Callers : GateKept(c)
  /\ RejectionOnRecord

\* A request that is about to record a rejection.
Rejecting(r) == r.at = "hook" /\ r.to = "rejected"

LEMMA InitFollows == Init => FollowInv
<1> SUFFICES ASSUME Init PROVE FollowInv
  OBVIOUS
<1>1. OpenBlockers = {} /\ raised \in [Callers -> SUBSET BlockerCodes]
  BY DEF Init, OpenBlockers
<1>2. status # "rejected"
  <2>1. PICK n \in 1..Len(MainPath) : MainPath[n] = status
    BY ReturnAssumption DEF Init, Start
  <2>2. Len(MainPath) = 13
    BY DEF MainPath
  <2>3. n \in 1..13
    BY <2>2
  <2>4. MainPath[n] # "rejected"
    BY <2>3 DEF MainPath
  <2> QED BY <2>1, <2>4
<1> QED BY <1>1, <1>2 DEF FollowInv, ClosedReturnsUnblocked, GateKept, RejectionOnRecord

\* A request goes on; it raises nothing, and it was not to record a rejection.
LEMMA StepFollows ==
  ASSUME Inv, FollowInv, UNCHANGED <<life, status, events, history>>, NEW c \in Callers, NEW r,
         call' = [call EXCEPT ![c] = r], ~Rejecting(call[c]),
         \A b \in BlockerCodes : blockers'[b] = blockers[b] \/ blockers'[b] = "closed",
         r.at = "write" /\ r.to \in CLOSING_STATES /\ ~r.force => OpenBlockers = {}
  PROVE  FollowInv'
<1>1. /\ Callers' = Callers /\ UNCHANGED <<raised, since, lost>>
      /\ call'[c] = r /\ \A d \in Callers \ {c} : call'[d] = call[d]
  BY SameLife DEF Inv, TypeOK, history
<1>2. OpenBlockers' \subseteq OpenBlockers
  BY DEF OpenBlockers
<1>3. ClosedReturnsUnblocked'
  BY <1>1, <1>2 DEF FollowInv, ClosedReturnsUnblocked
<1>4. \A d \in Callers : GateKept(d)'
  <2> SUFFICES ASSUME NEW d \in Callers PROVE GateKept(d)'
    OBVIOUS
  <2>1. CASE d = c
    BY <1>1, <1>2, <2>1 DEF GateKept
  <2>2. CASE d # c
    BY <1>1, <1>2, <2>2 DEF FollowInv, GateKept
  <2> QED BY <2>1, <2>2
<1>5. RejectionOnRecord'
  <2>1. blockers["FILING_REJECTED"] # "none" => blockers'["FILING_REJECTED"] # "none"
    BY DEF BlockerCodes
  <2>2. \A d \in Callers : Rejecting(call[d]) => Rejecting(call'[d])
    BY <1>1
  <2> QED BY <1>1, <2>1, <2>2 DEF FollowInv, RejectionOnRecord, Rejecting
<1> QED BY <1>1, <1>3, <1>4, <1>5 DEF FollowInv

LEMMA ReturnFollows ==
  ASSUME Inv, FollowInv, UNCHANGED <<life, status, events, history>>, NEW c \in Callers, Return(c),
         \A b \in BlockerCodes : blockers'[b] = blockers[b] \/ blockers'[b] = "closed",
         ~Rejecting(call[c])
  PROVE  FollowInv'
<1>1. Idle.at = "idle"
  BY DEF Idle, CallAt
<1> QED BY <1>1, StepFollows DEF Return

LEMMA CallFollows ==
  ASSUME Inv, FollowInv, UNCHANGED <<life, status, events, blockers, history>>, NEW c \in Callers,
         NEW to, NEW force, NEW for, CallTransition(c, to, force, for), ~Rejecting(call[c])
  PROVE  FollowInv'
<1>1. PICK r : r = CallAt("read", to, force, for, NoKey)
  OBVIOUS
<1>2. r.at = "read"
  BY <1>1 DEF CallAt
<1>3. call' = [call EXCEPT ![c] = r]
  BY <1>1 DEF CallTransition
<1> QED BY <1>2, <1>3, StepFollows

\* The steps of transition_return before and after its transaction.
LEMMA MoveFollows ==
  ASSUME Inv, FollowInv, UNCHANGED life, NEW c \in Callers,
         ReadStatus(c) \/ NoMove(c) \/ PassGate(c) \/ AcceptanceHook(c) \/ CloseListed(c)
  PROVE  FollowInv'
<1>1. call[c] \in Calls /\ call \in [Callers -> Calls] /\ UNCHANGED <<status, events, history>>
  BY CallType DEF ReadStatus, NoMove, PassGate, AcceptanceHook, CloseListed, lifecycle
<1>2. CASE ReadStatus(c)
  <2> DEFINE place == IF call[c].to \in CLOSING_STATES THEN "gate" ELSE "write"
  <2>1. PICK r : r = [call[c] EXCEPT !.from = status, !.at = place]
    OBVIOUS
  <2>2. r.at = place /\ r.to = call[c].to
    BY <1>1, <2>1 DEF Calls
  <2>3. call' = [call EXCEPT ![c] = r] /\ blockers' = blockers /\ call[c].at = "read"
    BY <1>1, <1>2, <2>1 DEF ReadStatus
  <2>4. ~Rejecting(call[c])
    BY <2>3 DEF Rejecting
  <2> QED BY <1>1, <2>2, <2>3, <2>4, StepFollows
<1>3. CASE NoMove(c)
  BY <1>1, <1>3, ReturnFollows DEF NoMove, Rejecting
<1>4. CASE PassGate(c) /\ Return(c)
  BY <1>1, <1>4, ReturnFollows DEF PassGate, Rejecting
<1>5. CASE PassGate(c) /\ GateOpen(c) /\ Goto(c, "write")
  <2>1. PICK r : r = [call[c] EXCEPT !.at = "write"]
    OBVIOUS
  <2>2. r.at = "write" /\ r.to = call[c].to /\ r.force = call[c].force
    BY <1>1, <2>1 DEF Calls
  <2>3. call' = [call EXCEPT ![c] = r] /\ blockers' = blockers /\ call[c].at = "gate"
    BY <1>1, <1>5, <2>1 DEF PassGate, Goto
  <2>4. ~r.force => OpenBlockers = {}
    BY <1>5, <2>2 DEF GateOpen
  <2>5. ~Rejecting(call[c])
    BY <2>3 DEF Rejecting
  <2> QED BY <1>1, <2>2, <2>3, <2>4, <2>5, StepFollows
<1>6. CASE AcceptanceHook(c)
  <2> DEFINE codes == OpenBlockers \cap FILING_BLOCKER_CODES
  <2>1. PICK r : r = [call[c] EXCEPT !.at = "close", !.rows = codes]
    OBVIOUS
  <2>2. r.at = "close" /\ r.to = call[c].to
    BY <1>1, <2>1 DEF Calls
  <2>3. call' = [call EXCEPT ![c] = r] /\ blockers' = blockers /\ call[c].at = "hook" /\ call[c].to = "accepted"
    BY <1>1, <1>6, <2>1 DEF AcceptanceHook
  <2>4. ~Rejecting(call[c])
    BY <2>3 DEF Rejecting
  <2> QED BY <1>1, <2>2, <2>3, <2>4, StepFollows
<1>7. CASE CloseListed(c)
  <2>1. call[c].at = "close" /\ ~Rejecting(call[c])
    BY <1>7 DEF CloseListed, Rejecting
  <2>2. CASE Return(c) /\ UNCHANGED blockers
    BY <1>1, <2>1, <2>2, ReturnFollows
  <2>3. ASSUME NEW b \in call[c].rows, blockers' = [blockers EXCEPT ![b] = "closed"],
               call' = [call EXCEPT ![c].rows = @ \ {b}]
        PROVE  FollowInv'
    <3>1. PICK r : r = [call[c] EXCEPT !.rows = @ \ {b}]
      OBVIOUS
    <3>2. r.at = "close" /\ r.to = call[c].to
      BY <1>1, <2>1, <3>1 DEF Calls
    <3>3. call' = [call EXCEPT ![c] = r]
      BY <1>1, <2>3, <3>1
    <3>4. \A k \in BlockerCodes : blockers'[k] = blockers[k] \/ blockers'[k] = "closed"
      BY <2>3 DEF Inv, TypeOK
    <3> QED BY <1>1, <2>1, <3>2, <3>3, <3>4, StepFollows
  <2> QED BY <1>7, <2>2, <2>3 DEF CloseListed
<1> QED BY <1>2, <1>3, <1>4, <1>5, <1>6, <1>7 DEF PassGate

LEMMA WriteFollows == ASSUME Inv, FollowInv, UNCHANGED life, NEW c \in Callers, Write(c) PROVE FollowInv'
<1>1. /\ call[c].at = "write" /\ status' = call[c].to /\ events' = Append(events, Event(c))
      /\ UNCHANGED blockers
      /\ IF call[c].to \in {"rejected", "accepted"} THEN Goto(c, "hook") ELSE Return(c)
      /\ since' = IF call[c].to \in CLOSING_STATES THEN raised[c] ELSE {}
      /\ raised' = [raised EXCEPT ![c] = {}]
  BY DEF Write
<1>2. /\ call[c] \in Calls /\ call \in [Callers -> Calls]
      /\ Callers' = Callers /\ OpenBlockers' = OpenBlockers
  BY <1>1, CallType, SameLife DEF OpenBlockers
<1>3. PICK r : /\ call' = [call EXCEPT ![c] = r] /\ r.at # "write"
               /\ call[c].to = "rejected" => Rejecting(r)
  <2>1. CASE call[c].to \in {"rejected", "accepted"}
    <3>1. PICK r : r = [call[c] EXCEPT !.at = "hook"]
      OBVIOUS
    <3>2. r.at = "hook" /\ r.to = call[c].to
      BY <1>2, <3>1 DEF Calls
    <3>3. call' = [call EXCEPT ![c] = r]
      BY <1>1, <1>2, <2>1, <3>1 DEF Goto
    <3> QED BY <3>2, <3>3 DEF Rejecting
  <2>2. CASE call[c].to \notin {"rejected", "accepted"}
    <3>1. Idle.at = "idle"
      BY DEF Idle, CallAt
    <3> QED BY <1>1, <2>2, <3>1 DEF Return
  <2> QED BY <2>1, <2>2
<1>4. call'[c] = r /\ \A d \in Callers \ {c} : call'[d] = call[d]
  BY <1>2, <1>3
<1>5. raised' \in [Callers -> SUBSET BlockerCodes] /\ \A d \in Callers \ {c} : raised'[d] = raised[d]
  BY <1>1 DEF FollowInv
<1>6. ClosedReturnsUnblocked'
  <2>1. events' # <<>> /\ Last(events') = Event(c)
    <3>1. events \in Events
      BY TablesType DEF TablesOK
    <3> DEFINE e == Event(c)
    <3>2. e \in [from : STATES, to : STATES, force : BOOLEAN, for : Principals]
      BY <1>1, <1>2, CallType DEF Event, Calls, CallOK, Moving
    <3> HIDE DEF e
    <3>3. events' # <<>> /\ events'[Len(events')] = e
      BY <1>1, <3>1, <3>2 DEF Events, e
    <3> QED BY <3>3 DEF Last, e
  <2>2. Last(events').force = call[c].force
    BY <2>1 DEF Event
  <2>3. status' \in CLOSING_STATES /\ ~call[c].force => OpenBlockers \subseteq since'
    BY <1>1 DEF FollowInv, GateKept
  <2> QED BY <1>2, <2>1, <2>2, <2>3 DEF ClosedReturnsUnblocked
<1>7. \A d \in Callers : GateKept(d)'
  BY <1>2, <1>3, <1>4, <1>5 DEF FollowInv, GateKept
<1>8. RejectionOnRecord'
  BY <1>1, <1>2, <1>3, <1>4 DEF RejectionOnRecord, Rejecting
<1> QED BY <1>2, <1>5, <1>6, <1>7, <1>8 DEF FollowInv

\* A blocker is raised, and nobody passes the gate.
LEMMA RaiseFollows ==
  ASSUME Inv, FollowInv, UNCHANGED <<life, status, events>>, NEW b \in BlockerCodes, Raise(b),
         OpenBlockers' \subseteq OpenBlockers \cup {b}
  PROVE  /\ raised' \in [Callers' -> SUBSET BlockerCodes]
         /\ ClosedReturnsUnblocked'
         /\ \A d \in Callers : call'[d] = call[d] => GateKept(d)'
<1> DEFINE new == {b} \ OpenBlockers
<1>1. /\ raised' = [d \in Callers |->
                      IF call[d].at = "write" /\ call[d].to \in CLOSING_STATES
                      THEN raised[d] \cup new ELSE raised[d]]
      /\ since' = IF status \in CLOSING_STATES THEN since \cup new ELSE since
      /\ Callers' = Callers
  BY SameLife DEF Raise
<1>2. OpenBlockers' \subseteq OpenBlockers \cup new /\ new \subseteq BlockerCodes
  OBVIOUS
<1> HIDE DEF new
<1>3. raised' \in [Callers' -> SUBSET BlockerCodes]
  BY <1>1, <1>2 DEF FollowInv
<1>4. ClosedReturnsUnblocked'
  BY <1>1, <1>2 DEF FollowInv, ClosedReturnsUnblocked
<1>5. ASSUME NEW d \in Callers, call'[d] = call[d] PROVE GateKept(d)'
  BY <1>1, <1>2, <1>5 DEF FollowInv, GateKept
<1> QED BY <1>3, <1>4, <1>5

LEMMA RejectionFollows ==
  ASSUME Inv, FollowInv, UNCHANGED life, NEW c \in Callers, RejectionHook(c) PROVE FollowInv'
<1>1. /\ call' = [call EXCEPT ![c] = Idle] /\ blockers' = [blockers EXCEPT !["FILING_REJECTED"] = "active"]
      /\ Raise("FILING_REJECTED") /\ UNCHANGED <<status, events>>
  BY DEF RejectionHook, Return, lifecycle
<1>2. /\ Callers' = Callers /\ call'[c] = Idle /\ Idle.at = "idle"
      /\ \A d \in Callers \ {c} : call'[d] = call[d]
  BY <1>1, CallType, SameLife DEF Idle, CallAt
<1>3. "FILING_REJECTED" \in BlockerCodes /\ OpenBlockers' \subseteq OpenBlockers \cup {"FILING_REJECTED"}
  BY <1>1 DEF OpenBlockers, Inv, TypeOK, BlockerCodes
<1>4. blockers'["FILING_REJECTED"] = "active"
  BY <1>1, <1>3 DEF Inv, TypeOK
<1>5. RejectionOnRecord'
  BY <1>4 DEF RejectionOnRecord
<1>6. \A d \in Callers : GateKept(d)'
  BY <1>1, <1>2, <1>3, RaiseFollows DEF GateKept
<1> QED BY <1>1, <1>2, <1>3, <1>5, <1>6, RaiseFollows DEF FollowInv

LEMMA CrashFollows ==
  ASSUME Inv, FollowInv, UNCHANGED life, NEW c \in Callers, Crash(c) PROVE FollowInv'
<1>1. /\ call' = [call EXCEPT ![c] = Idle] /\ raised' = [raised EXCEPT ![c] = {}]
      /\ lost' = (lost \/ Rejecting(call[c]))
      /\ UNCHANGED <<status, events, blockers, since>> /\ Idle.at = "idle"
  BY DEF Crash, Return, lifecycle, Idle, CallAt, Rejecting
<1>2. /\ Callers' = Callers /\ OpenBlockers' = OpenBlockers
      /\ call'[c] = Idle /\ \A d \in Callers \ {c} : call'[d] = call[d]
  BY <1>1, CallType, SameLife DEF OpenBlockers
<1>3. raised' \in [Callers' -> SUBSET BlockerCodes] /\ \A d \in Callers \ {c} : raised'[d] = raised[d]
  BY <1>1, <1>2 DEF FollowInv
<1>4. ClosedReturnsUnblocked'
  BY <1>1, <1>2 DEF FollowInv, ClosedReturnsUnblocked
<1>5. \A d \in Callers : GateKept(d)'
  BY <1>1, <1>2, <1>3 DEF FollowInv, GateKept
<1>6. RejectionOnRecord'
  BY <1>1, <1>2 DEF FollowInv, RejectionOnRecord, Rejecting
<1> QED BY <1>2, <1>3, <1>4, <1>5, <1>6 DEF FollowInv

LEMMA RequestFollows ==
  ASSUME Inv, FollowInv, UNCHANGED life, NEW c \in Callers, Request(c) \/ FilingWrite(c) PROVE FollowInv'
<1>1. ~Rejecting(call[c])
  <2>1. Request(c) => call[c] = Idle
    BY DEF Request, StaffTransition, RequestReview, DecideReview, ClientDecision, FilingRead, SyncWorkflow
  <2>2. FilingWrite(c) => call[c].at = "filing"
    BY DEF FilingWrite
  <2>3. Idle.at = "idle"
    BY DEF Idle, CallAt
  <2> QED BY <2>1, <2>2, <2>3 DEF Rejecting
<1>2. CASE \E t \in Reviews : RequestReview(c, t)
  <2>1. UNCHANGED <<life, call, status, events, blockers, raised, since, lost>>
    BY <1>2 DEF RequestReview, lifecycle, history
  <2> QED BY <2>1, SameLife DEF FollowInv, ClosedReturnsUnblocked, GateKept, RejectionOnRecord, OpenBlockers
<1>3. CASE \E to \in FilingStatuses, key \in FilingKeys \cup {NoKey} : FilingRead(c, to, key)
  <2>1. PICK to, key : FilingRead(c, to, key)
    BY <1>3
  <2>2. PICK r : r = CallAt("filing", to, FALSE, "filing", key)
    OBVIOUS
  <2>3. r.at = "filing" /\ call' = [call EXCEPT ![c] = r] /\ UNCHANGED <<status, events, blockers, history>>
    BY <2>1, <2>2 DEF FilingRead, CallAt, lifecycle
  <2> QED BY <1>1, <2>3, StepFollows
<1>4. CASE FilingWrite(c)
  <2>1. UNCHANGED <<status, events, blockers, history>>
    BY <1>4 DEF FilingWrite, lifecycle
  <2> QED BY <1>1, <1>4, <2>1, CallFollows, ReturnFollows DEF FilingWrite
<1>5. CASE \/ \E to \in STATES, force \in ForceValues : StaffTransition(c, to, force)
           \/ \E t \in Reviews, d \in {"approved", "returned"} : DecideReview(c, t, d)
           \/ \E t \in ApprovalTypes, d \in {"approved", "rejected"} : ClientDecision(c, t, d)
           \/ SyncWorkflow(c)
  <2>1. UNCHANGED <<status, events, blockers, history>>
    BY <1>5 DEF StaffTransition, DecideReview, ClientDecision, SyncWorkflow, lifecycle
  <2>2. \E to, force, for : CallTransition(c, to, force, for)
    BY <1>5 DEF StaffTransition, DecideReview, ClientDecision, SyncWorkflow
  <2> QED BY <1>1, <2>1, <2>2, CallFollows
<1> QED BY <1>2, <1>3, <1>4, <1>5 DEF Request

LEMMA AroundFollows ==
  ASSUME Inv, FollowInv, UNCHANGED life,
         (\E m \in WorkflowSteps : StepCompleted(m)) \/ \E b \in Detected : BlockerChanges(b)
  PROVE  FollowInv'
<1>1. UNCHANGED <<life, call, status, events>> /\ Callers' = Callers
  BY SameLife DEF StepCompleted, BlockerChanges, lifecycle
<1>2. CASE \E m \in WorkflowSteps : StepCompleted(m)
  <2>1. UNCHANGED <<blockers, raised, since, lost>>
    BY <1>2 DEF StepCompleted, history
  <2> QED BY <1>1, <2>1 DEF FollowInv, ClosedReturnsUnblocked, GateKept, RejectionOnRecord, OpenBlockers
<1>3. ASSUME NEW b \in Detected, BlockerChanges(b) PROVE FollowInv'
  <2>1. b \in BlockerCodes
    BY LifeType DEF Inv
  <2>2. /\ blockers' = [blockers EXCEPT ![b] = IF @ = "active" THEN "closed" ELSE "active"]
        /\ Raise(b) /\ UNCHANGED lost
    BY <1>3 DEF BlockerChanges, Raise
  <2>3. OpenBlockers' \subseteq OpenBlockers \cup {b}
    BY <2>2 DEF OpenBlockers, Inv, TypeOK
  <2>4. blockers["FILING_REJECTED"] # "none" => blockers'["FILING_REJECTED"] # "none"
    BY <2>2 DEF Inv, TypeOK, BlockerCodes
  <2>5. RejectionOnRecord'
    BY <1>1, <2>2, <2>4 DEF FollowInv, RejectionOnRecord
  <2> QED BY <1>1, <2>1, <2>2, <2>3, <2>5, RaiseFollows DEF FollowInv
<1> QED BY <1>2, <1>3

LEMMA NextFollows == Inv /\ FollowInv /\ [Next]_vars => FollowInv'
<1> SUFFICES ASSUME Inv, FollowInv, [Next]_vars PROVE FollowInv'
  OBVIOUS
<1>1. CASE UNCHANGED vars
  BY <1>1, SameLife DEF vars, lifecycle, history, FollowInv, ClosedReturnsUnblocked, GateKept, RejectionOnRecord, OpenBlockers
<1>2. ASSUME NEW c \in Callers, UNCHANGED life, Step(c) \/ Request(c) \/ Crash(c) PROVE FollowInv'
  BY <1>2, MoveFollows, WriteFollows, RejectionFollows, RequestFollows, CrashFollows DEF Step
<1> QED BY <1>1, <1>2, AroundFollows DEF Next

----------------------------------------------------------------------------
(* Theorems *)

\* Every table and every request's record has its type, and a request knows a
\* status exactly while it is past its read.
THEOREM ReturnTypeCorrect == Spec => []TypeOK
<1>1. Inv => TypeOK
  BY DEF Inv
<1> QED BY Invariance, <1>1, PTL

\* Either ledger accounts for its status column, however the requests of a
\* return interleave and die (transition_return, record_filing).
THEOREM LedgersHold == Spec => []LedgersAgree
<1>1. Inv => LedgersAgree
  BY DEF Inv
<1> QED BY Invariance, <1>1, PTL

\* A review or client decision moves the return at most once, from however
\* many sessions it is submitted (decide_review, client_decision).
THEOREM DecisionsHold == Spec => []DecisionsActOnce
<1>1. Inv => DecisionsActOnce
  BY DEF Inv
<1> QED BY Invariance, <1>1, PTL

\* On a return closed without force every open blocker was raised behind the
\* closing request's back, after it had looked at the gate; and a rejected
\* return has its exception, or the request that owes it, or lost that request
\* (_open_blocker_exceptions, the hooks after the commit of transition_return).
THEOREM ExceptionsFollow == Spec => []BlockersFollow
<1>1. FollowInv => BlockersFollow
  BY DEF FollowInv, BlockersFollow
<1> QED BY Invariance, InitFollows, NextFollows, <1>1, PTL DEF Spec
=============================================================================
