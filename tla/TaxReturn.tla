------------------------------ MODULE TaxReturn ------------------------------
(***************************************************************************)
(* The production lifecycle of one tax return                              *)
(* (app/services/tax_return_lifecycle.py): the canonical status, its       *)
(* append-only ledger, reviews, client approvals, the filing status, and   *)
(* the blocker exceptions that gate closing.                               *)
(*                                                                         *)
(* transition_return is the one function that moves the status, and it     *)
(* reads the row it will write without a lock.  Everybody else commits a   *)
(* decision of their own first and then calls it: a review, a client       *)
(* decision and a filing update are each a committed fact before the move  *)
(* they ask for is even checked.                                           *)
(*                                                                         *)
(* Each caller (a staff or portal request) is inside at most one operation *)
(* and is described by a record: where it is, the status it wants, the     *)
(* status it read, whether it forces, and on whose behalf it moves: staff,  *)
(* the filing, the workflow, or one review or client decision.             *)
(***************************************************************************)
EXTENDS Naturals, Sequences, FiniteSets, SequencesExt

CONSTANTS
  Lives,       \* stretches of a return's life, one of which is looked at
  NoKey        \* a filing update without an idempotency key

VARIABLE life  \* the one

\* What a stretch is: the concurrent requests, the status of the return when
\* the model picks it up, whether a caller may pass force, the blocker codes
\* that detectors and staff raise and close, the review types that are
\* requested, the workflow steps still to be completed, the idempotency keys
\* of filing providers; and as bounds, the lifecycle events after the start
\* and the requests that die.
Callers == life.callers
Start == life.start
ForceValues == life.force
Detected == life.detected
Reviews == life.reviews
WorkflowSteps == life.steps
FilingKeys == life.keys
MaxEvents == life.events
MaxCrashes == life.crashes

STATES == {"received", "ready_to_prepare", "in_preparation", "awaiting_information",
           "manager_review", "partner_review", "client_review",
           "awaiting_efile_authorization", "ready_to_file", "filed", "accepted",
           "rejected", "delivered", "completed", "archived"}

TRANSITIONS ==
  [received                     |-> {"ready_to_prepare", "awaiting_information"},
   ready_to_prepare             |-> {"in_preparation", "awaiting_information"},
   in_preparation               |-> {"awaiting_information", "manager_review"},
   awaiting_information         |-> {"ready_to_prepare", "in_preparation"},
   manager_review               |-> {"in_preparation", "partner_review"},
   partner_review               |-> {"in_preparation", "client_review"},
   client_review                |-> {"in_preparation", "awaiting_efile_authorization"},
   awaiting_efile_authorization |-> {"ready_to_file"},
   ready_to_file                |-> {"filed"},
   filed                        |-> {"accepted", "rejected"},
   rejected                     |-> {"ready_to_file", "filed"},
   accepted                     |-> {"delivered"},
   delivered                    |-> {"completed"},
   completed                    |-> {"archived"},
   archived                     |-> {}]

FILING_TRANSITIONS ==
  [ready       |-> {"submitted"},
   submitted   |-> {"accepted", "rejected"},
   rejected    |-> {"resubmitted"},
   resubmitted |-> {"accepted", "rejected"},
   accepted    |-> {}]

FilingStatuses == {"ready", "submitted", "rejected", "resubmitted", "accepted"}

CLOSING_STATES == {"completed", "archived"}

\* Codes whose type has blocks_lifecycle; a sign-off stands for the
\* compliance ones.  FILING_BLOCKER_CODES is the part acceptance closes.
BlockerCodes == {"FILING_REJECTED", "FILING_TRANSMISSION_ERROR", "COMPLIANCE_SIGNOFF_MISSING"}
FILING_BLOCKER_CODES == {"FILING_REJECTED", "FILING_TRANSMISSION_ERROR"}

ReviewTypes == {"preparer", "manager", "partner"}
ApprovalTypes == {"return_approval", "efile_authorization", "delivery_acknowledgement"}

\* The status whose entry asks the client for an approval, and the one an
\* approval moves the return to.
AskedAt == [return_approval          |-> "client_review",
            efile_authorization      |-> "awaiting_efile_authorization",
            delivery_acknowledgement |-> "delivered"]
ApprovedTo == [return_approval          |-> "awaiting_efile_authorization",
               efile_authorization      |-> "ready_to_file",
               delivery_acknowledgement |-> "completed"]
ReviewedTo == [preparer |-> "manager_review", manager |-> "partner_review",
               partner |-> "client_review"]
FiledTo == [submitted |-> "filed", accepted |-> "accepted", rejected |-> "rejected",
            resubmitted |-> "filed"]

MilestoneSteps == {"intake", "documents", "prepare", "review", "file"}

\* What the way to Start has left: the approvals it passed, and the filing.
MainPath == <<"received", "ready_to_prepare", "in_preparation", "manager_review",
              "partner_review", "client_review", "awaiting_efile_authorization",
              "ready_to_file", "filed", "accepted", "delivered", "completed", "archived">>
StartAt == CHOOSE n \in 1..Len(MainPath) : MainPath[n] = Start
Passed(status) == \E n \in 1..(StartAt - 1) : MainPath[n] = status

ASSUME ReturnAssumption ==
  \A l \in Lives :
    /\ IsFiniteSet(l.callers)
    /\ \E n \in 1..Len(MainPath) : MainPath[n] = l.start
    /\ l.force \subseteq BOOLEAN
    /\ l.detected \subseteq BlockerCodes
    /\ l.reviews \subseteq ReviewTypes
    /\ l.steps \subseteq MilestoneSteps
    /\ NoKey \notin l.keys
    /\ l.events \in Nat /\ l.crashes \in Nat

VARIABLES
  status,      \* tax_engagement_returns.status
  filing,      \* tax_engagement_returns.filing_status
  events,      \* tax_return_lifecycle_events since Start
  filings,     \* tax_filing_events since Start
  reviews,     \* review type -> "none" or its status
  approvals,   \* approval type -> "none" or its status
  blockers,    \* blocker code -> "none", "active" or "closed" exception
  milestones,  \* steps of the linked workflow that are completed
  call,        \* caller -> what it is doing
  crashes,
  \* History, for the properties: the blockers raised since a caller's gate,
  \* since the gate of the request that closed the return, and whether the
  \* request that rejected it died before its hook.
  raised, since, lost

lifecycle == <<status, events, approvals>>
filingState == <<filing, filings>>
history == <<raised, since, lost>>
vars == <<lifecycle, filingState, reviews, blockers, milestones, call, crashes, history, life>>

CallAt(at, to, force, for, key) ==
  [at |-> at, to |-> to, from |-> "none", force |-> force, for |-> for, key |-> key, rows |-> {}]

Idle == CallAt("idle", "none", FALSE, "none", NoKey)

InitialFiling == IF Passed("filed") THEN "accepted"
                 ELSE IF Start = "filed" THEN "submitted" ELSE "ready"

Init ==
  /\ life \in Lives
  /\ status = Start
  /\ filing = InitialFiling
  /\ events = <<>> /\ filings = <<>>
  /\ reviews = [t \in Reviews |-> "none"]
  /\ approvals = [t \in ApprovalTypes |->
       IF Passed(AskedAt[t]) THEN "approved" ELSE IF AskedAt[t] = Start THEN "pending" ELSE "none"]
  /\ blockers = [b \in BlockerCodes |-> "none"]
  /\ milestones = {}
  /\ call = [c \in Callers |-> Idle]
  /\ crashes = 0
  /\ raised = [c \in Callers |-> {}] /\ since = {} /\ lost = FALSE

----------------------------------------------------------------------------
(* transition_return *)

\* Caller c goes on to transition_return(to) on behalf of someone.
CallTransition(c, to, force, for) ==
  call' = [call EXCEPT ![c] = CallAt("read", to, force, for, NoKey)]

Goto(c, place) == call' = [call EXCEPT ![c].at = place]

Return(c) == call' = [call EXCEPT ![c] = Idle]

Allowed(c) == call[c].force \/ call[c].to \in TRANSITIONS[status]

\* The status is read without a lock; a legal move goes on with what it read.
ReadStatus(c) ==
  /\ call[c].at = "read"
  /\ call[c].to # status
  /\ Allowed(c)
  /\ call' = [call EXCEPT ![c].from = status,
                          ![c].at = IF call[c].to \in CLOSING_STATES THEN "gate" ELSE "write"]
  /\ UNCHANGED <<lifecycle, filingState, reviews, blockers, milestones, crashes, history>>

\* Already there, or ValueError: nothing moves.  A decision the caller
\* committed before the call stays.
NoMove(c) ==
  /\ call[c].at = "read"
  /\ call[c].to = status \/ ~Allowed(c)
  /\ Return(c)
  /\ UNCHANGED <<lifecycle, filingState, reviews, blockers, milestones, crashes, history>>

OpenBlockers == {b \in BlockerCodes : blockers[b] = "active"}

\* Mutant: the gate overlooks the filing blockers.
GateOpenToFiling(c) == OpenBlockers \subseteq FILING_BLOCKER_CODES \/ call[c].force

\* _open_blocker_exceptions: none, or forced over.
GateOpen(c) == OpenBlockers = {} \/ call[c].force

PassGate(c) ==
  /\ call[c].at = "gate"
  /\ IF GateOpen(c) THEN Goto(c, "write") ELSE Return(c)
  /\ UNCHANGED <<lifecycle, filingState, reviews, blockers, milestones, crashes, history>>

Event(c) == [from |-> call[c].from, to |-> call[c].to, force |-> call[c].force,
             for |-> call[c].for]

\* Entering a client state asks for its approval, once in a return's life.
Ask(to) ==
  [t \in ApprovalTypes |->
    IF AskedAt[t] = to /\ approvals[t] = "none" THEN "pending" ELSE approvals[t]]

\* History: blocker b, if it was not open, is raised behind the back of the
\* requests that are past their gate, and on a return that is closed.
Raise(b) ==
  LET new == {b} \ OpenBlockers
  IN  /\ raised' = [c \in Callers |->
                      IF call[c].at = "write" /\ call[c].to \in CLOSING_STATES
                      THEN raised[c] \cup new ELSE raised[c]]
      /\ since' = IF status \in CLOSING_STATES THEN since \cup new ELSE since
      /\ UNCHANGED lost

\* The rest of the transaction, from the UPDATE (which takes the row lock) to
\* the commit; what the caller read is not looked at again.
Write(c) ==
  /\ call[c].at = "write" /\ Len(events) < MaxEvents
  /\ status' = call[c].to
  /\ events' = Append(events, Event(c))
  /\ approvals' = Ask(call[c].to)
  /\ IF call[c].to \in {"rejected", "accepted"} THEN Goto(c, "hook") ELSE Return(c)
  /\ since' = IF call[c].to \in CLOSING_STATES THEN raised[c] ELSE {}
  /\ raised' = [raised EXCEPT ![c] = {}]
  /\ lost' = (lost /\ call[c].to # "rejected")
  /\ UNCHANGED <<filingState, reviews, blockers, milestones, crashes>>

\* After the commit: a rejection raises FILING_REJECTED, or finds or reopens
\* the one there is.
RejectionHook(c) ==
  /\ call[c].at = "hook" /\ call[c].to = "rejected"
  /\ blockers' = [blockers EXCEPT !["FILING_REJECTED"] = "active"]
  /\ Return(c)
  /\ Raise("FILING_REJECTED")
  /\ UNCHANGED <<lifecycle, filingState, reviews, milestones, crashes>>

\* After the commit: an acceptance lists the open filing blockers ...
AcceptanceHook(c) ==
  /\ call[c].at = "hook" /\ call[c].to = "accepted"
  /\ call' = [call EXCEPT ![c].at = "close", ![c].rows = OpenBlockers \cap FILING_BLOCKER_CODES]
  /\ UNCHANGED <<lifecycle, filingState, reviews, blockers, milestones, crashes, history>>

\* ... and resolves them one by one; one that somebody resolved meanwhile is
\* an InvalidTransition, which leaves the others.
CloseListed(c) ==
  /\ call[c].at = "close"
  /\ \/ /\ call[c].rows = {}
        /\ Return(c) /\ UNCHANGED blockers
     \/ \E b \in call[c].rows :
          IF blockers[b] = "active"
          THEN /\ blockers' = [blockers EXCEPT ![b] = "closed"]
               /\ call' = [call EXCEPT ![c].rows = @ \ {b}]
          ELSE Return(c) /\ UNCHANGED blockers
  /\ UNCHANGED <<lifecycle, filingState, reviews, milestones, crashes, history>>

----------------------------------------------------------------------------
(* The callers of transition_return *)

\* The staff API and administrative scripts.
StaffTransition(c, to, force) ==
  /\ call[c] = Idle
  /\ CallTransition(c, to, force, "staff")
  /\ UNCHANGED <<lifecycle, filingState, reviews, blockers, milestones, crashes, history>>

\* A review is requested once; asking again returns the one there is.
RequestReview(c, t) ==
  /\ call[c] = Idle
  /\ reviews[t] = "none"
  /\ reviews' = [reviews EXCEPT ![t] = "pending"]
  /\ UNCHANGED <<lifecycle, filingState, blockers, milestones, call, crashes, history>>

\* Mutant: the status of the review is not looked at.
DecideAnyReview(c, t, decision) ==
  /\ call[c] = Idle
  /\ reviews[t] # "none"
  /\ reviews' = [reviews EXCEPT ![t] = decision]
  /\ CallTransition(c, IF decision = "returned" THEN "in_preparation" ELSE ReviewedTo[t],
                    FALSE, t)
  /\ UNCHANGED <<lifecycle, filingState, blockers, milestones, crashes, history>>

\* Under FOR UPDATE: a pending review is decided and committed, and then the
\* move it stands for is asked for.
DecideReview(c, t, decision) ==
  /\ call[c] = Idle
  /\ reviews[t] = "pending"
  /\ reviews' = [reviews EXCEPT ![t] = decision]
  /\ CallTransition(c, IF decision = "returned" THEN "in_preparation" ELSE ReviewedTo[t],
                    FALSE, t)
  /\ UNCHANGED <<lifecycle, filingState, blockers, milestones, crashes, history>>

\* The same for the client; an acknowledgement counts as an approval.
ClientDecision(c, t, decision) ==
  /\ call[c] = Idle
  /\ approvals[t] = "pending"
  /\ approvals' = [approvals EXCEPT ![t] = decision]
  /\ CallTransition(c, IF decision = "rejected" THEN "in_preparation" ELSE ApprovedTo[t],
                    FALSE, t)
  /\ UNCHANGED <<status, events, filingState, reviews, blockers, milestones, crashes, history>>

\* record_filing: the filing status is read without a lock ...
FilingRead(c, to, key) ==
  /\ call[c] = Idle
  /\ to \in FILING_TRANSITIONS[filing]
  /\ call' = [call EXCEPT ![c] = CallAt("filing", to, FALSE, "filing", key)]
  /\ UNCHANGED <<lifecycle, filingState, reviews, blockers, milestones, crashes, history>>

\* Mutant: the key is not looked up.
KeyNeverUsed(key) == FALSE

KeyUsed(key) == key # NoKey /\ \E f \in ToSet(filings) : f.key = key

\* ... and a key that was not used before records the update, commits, and
\* asks for the move; a used one ends the call.
FilingWrite(c) ==
  /\ call[c].at = "filing" /\ Len(filings) < MaxEvents
  /\ IF KeyUsed(call[c].key)
     THEN Return(c) /\ UNCHANGED filingState
     ELSE /\ filings' = Append(filings, [status |-> call[c].to, key |-> call[c].key])
          /\ filing' = call[c].to
          /\ CallTransition(c, FiledTo[call[c].to], FALSE, "filing")
  /\ UNCHANGED <<lifecycle, reviews, blockers, milestones, crashes, history>>

\* What the completed steps of the workflow ask of a return in this status;
\* "none" when nothing.
MilestoneTarget ==
  CASE status = "received" /\ {"intake", "documents"} \subseteq milestones -> "ready_to_prepare"
    [] status = "in_preparation" /\ "prepare" \in milestones -> "manager_review"
    [] status \in {"manager_review", "partner_review"} /\ "review" \in milestones -> "client_review"
    [] status = "ready_to_file" /\ "file" \in milestones -> "filed"
    [] OTHER -> "none"

SyncWorkflow(c) ==
  /\ call[c] = Idle
  /\ MilestoneTarget # "none"
  /\ CallTransition(c, MilestoneTarget, FALSE, "workflow")
  /\ UNCHANGED <<lifecycle, filingState, reviews, blockers, milestones, crashes, history>>

----------------------------------------------------------------------------
(* Around the return *)

\* The workflow engine completes a step.
StepCompleted(m) ==
  /\ m \notin milestones
  /\ milestones' = milestones \cup {m}
  /\ UNCHANGED <<lifecycle, filingState, reviews, blockers, call, crashes, history>>

\* A detector or a user raises or closes a blocker in the Exception Engine.
BlockerChanges(b) ==
  /\ blockers' = [blockers EXCEPT ![b] = IF @ = "active" THEN "closed" ELSE "active"]
  /\ Raise(b)
  /\ UNCHANGED <<lifecycle, filingState, reviews, milestones, call, crashes>>

\* A request dies between two of its transactions, or loses the open one.
Crash(c) ==
  /\ crashes < MaxCrashes
  /\ call[c] # Idle
  /\ crashes' = crashes + 1
  /\ Return(c)
  /\ raised' = [raised EXCEPT ![c] = {}]
  /\ lost' = (lost \/ (call[c].at = "hook" /\ call[c].to = "rejected"))
  /\ UNCHANGED since
  /\ UNCHANGED <<lifecycle, filingState, reviews, blockers, milestones>>

Step(c) ==
  \/ ReadStatus(c) \/ NoMove(c) \/ PassGate(c) \/ Write(c)
  \/ RejectionHook(c) \/ AcceptanceHook(c) \/ CloseListed(c)
  \/ FilingWrite(c)

Request(c) ==
  \/ \E to \in STATES, force \in ForceValues : StaffTransition(c, to, force)
  \/ \E t \in Reviews : RequestReview(c, t)
  \/ \E t \in Reviews, d \in {"approved", "returned"} : DecideReview(c, t, d)
  \/ \E t \in ApprovalTypes, d \in {"approved", "rejected"} : ClientDecision(c, t, d)
  \/ \E to \in FilingStatuses, key \in FilingKeys \cup {NoKey} : FilingRead(c, to, key)
  \/ SyncWorkflow(c)

Next ==
  /\ \/ \E c \in Callers : Step(c) \/ Request(c) \/ Crash(c)
     \/ \E m \in WorkflowSteps : StepCompleted(m)
     \/ \E b \in Detected : BlockerChanges(b)
  /\ UNCHANGED life

Spec == Init /\ [][Next]_vars

----------------------------------------------------------------------------
(* Properties *)

Places == {"idle", "read", "gate", "write", "hook", "close", "filing"}
Principals == {"none", "staff", "filing", "workflow"} \cup ReviewTypes \cup ApprovalTypes

\* Every variable of the program has its type, and a caller holds a read status exactly
\* while it is past the read.
TypeOK ==
  /\ status \in STATES /\ filing \in FilingStatuses
  /\ events \in Seq([from : STATES, to : STATES, force : BOOLEAN, for : Principals])
  /\ filings \in Seq([status : FilingStatuses, key : FilingKeys \cup {NoKey}])
  /\ reviews \in [Reviews -> {"none", "pending", "approved", "returned"}]
  /\ approvals \in [ApprovalTypes -> {"none", "pending", "approved", "rejected"}]
  /\ blockers \in [BlockerCodes -> {"none", "active", "closed"}]
  /\ milestones \subseteq WorkflowSteps
  /\ crashes \in 0..MaxCrashes
  /\ call \in [Callers -> [at : Places, to : STATES \cup FilingStatuses \cup {"none"},
                           from : STATES \cup {"none"}, force : BOOLEAN, for : Principals,
                           key : FilingKeys \cup {NoKey}, rows : SUBSET FILING_BLOCKER_CODES]]
  /\ \A c \in Callers :
       call[c].from \in STATES <=> call[c].at \in {"gate", "write", "hook", "close"}

Settled == \A c \in Callers : call[c] = Idle
LastStatus == IF events = <<>> THEN Start ELSE Last(events).to

\* The append-only ledger accounts for the status, and every entry is an edge
\* of TRANSITIONS, or forced, from the status its writer had read - whatever
\* the interleaving of the requests.
LedgerExplainsStatus ==
  /\ status = LastStatus
  /\ \A e \in ToSet(events) : e.force \/ e.to \in TRANSITIONS[e.from]

\* A decision that is on record: a review's or the client's.
Decided(t) ==
  IF t \in Reviews THEN reviews[t] \in {"approved", "returned"}
  ELSE approvals[t] \in {"approved", "rejected"}

\* A decision moves the return at most once, however often and from however
\* many sessions it is submitted, and no move is made for a review or an
\* approval that was not decided.
DecisionsActOnce ==
  \A t \in Reviews \cup ApprovalTypes : \A n \in DOMAIN events :
    events[n].for = t => Decided(t) /\ \A m \in DOMAIN events : events[m].for = t => m = n

\* The filing ledger accounts for the filing status, and a provider's key is
\* recorded once, however often the update is delivered.
FilingLedgerAgrees ==
  /\ filing = IF filings = <<>> THEN InitialFiling ELSE Last(filings).status
  /\ \A m, n \in DOMAIN filings :
       filings[m].key = filings[n].key /\ filings[m].key # NoKey => m = n

\* Either ledger accounts for its status column.
LedgersAgree == LedgerExplainsStatus /\ FilingLedgerAgrees

\* On a return that was closed without force, every blocker that is open was
\* raised after the closing request had looked at the gate - whichever
\* requests raced it, whatever detectors and staff raised and closed, and
\* whoever died.  That request cannot see the others: the gate is passed
\* before the row is locked.
ClosedReturnsUnblocked ==
  status \in CLOSING_STATES /\ (events = <<>> \/ ~Last(events).force) => OpenBlockers \subseteq since

\* A rejected return has its FILING_REJECTED exception, or a request that is
\* about to raise it, or lost it to the death of that very request.
RejectionOnRecord ==
  status = "rejected" =>
    \/ blockers["FILING_REJECTED"] # "none"
    \/ \E c \in Callers : call[c].at = "hook" /\ call[c].to = "rejected"
    \/ lost

\* The exceptions of a return follow its filing.
BlockersFollow == ClosedReturnsUnblocked /\ RejectionOnRecord

----------------------------------------------------------------------------
(* Statements of the documentation and of comments that the code does not keep *)

\* "Approval advances the return", "Rejection returns the return to
\* preparation": a decision is followed by its move once the request that
\* recorded it is through, if no request died.
DecisionsMoveReturn ==
  Settled /\ crashes = 0 =>
    /\ \A t \in Reviews : reviews[t] = "approved" =>
         \E e \in ToSet(events) : e.for = t /\ e.to = ReviewedTo[t]
    /\ \A t \in ApprovalTypes : approvals[t] = "rejected" =>
         \E e \in ToSet(events) : e.for = t /\ e.to = "in_preparation"
=============================================================================
