-------------------------- MODULE WorkflowInstance --------------------------
(***************************************************************************)
(* One workflow instance (app/services/workflow_automation.py): launch,    *)
(* completion of its steps, approvals, and the lifecycle actions on the    *)
(* instance, as PostgreSQL transactions at READ COMMITTED.                 *)
(*                                                                         *)
(* The variables are the committed rows.  complete_step locks only the row *)
(* of the step it completes: its own update is visible to itself, each of  *)
(* its SELECTs sees what is committed at that moment, and its UPDATEs take *)
(* effect at its commit.  transition_workflow locks the instance row.  A   *)
(* transaction can roll back at any point: a crash, or the victim of a     *)
(* database deadlock.                                                      *)
(***************************************************************************)
EXTENDS Naturals, FiniteSets

CONSTANTS
  Steps,       \* the steps of the published template
  Deps,        \* step -> the steps it depends on
  Conditional, \* steps with a condition the launch context may fail
  Reviewed,    \* steps of type approval
  Workers,     \* requests that complete steps
  Managers,    \* requests that act on the instance
  Users,       \* users that request and decide approvals
  Team,        \* an approval routed to a team instead of a user
  Approvals    \* bound: the approvals that can be requested

ASSUME WorkflowAssumption ==
  /\ Deps \in [Steps -> SUBSET Steps]
  /\ Conditional \subseteq Steps /\ Reviewed \subseteq Steps
  /\ Team \notin Users

InstanceStatuses == {"none", "active", "paused", "cancelled", "completed"}
StepStatuses == {"none", "pending", "active", "paused", "completed", "skipped", "cancelled"}

\* WORKFLOW_ACTIONS: status -> action -> new status.
WORKFLOW_ACTIONS ==
  [active    |-> [pause |-> "paused", cancel |-> "cancelled", complete |-> "completed"],
   paused    |-> [resume |-> "active", cancel |-> "cancelled"],
   cancelled |-> [reopen |-> "active"],
   completed |-> [reopen |-> "active"],
   none      |-> [x \in {} |-> "none"]]

Actions == {"pause", "resume", "cancel", "complete", "reopen"}

\* The steps an action touches are those in these statuses, and what it
\* makes of them.
Touches == [pause |-> {"active"}, resume |-> {"paused"}, reopen |-> {"paused"},
            cancel |-> {"active", "pending", "paused"}, complete |-> {}]
MakesOf == [pause |-> "paused", resume |-> "active", reopen |-> "active",
            cancel |-> "cancelled", complete |-> "completed"]

VARIABLES
  instance,  \* workflow_instances.status
  step,      \* workflow_steps.status of each step
  approval,  \* work_approvals rows
  work,      \* worker -> its transaction
  manage,    \* manager -> its transaction
  finished   \* history: the steps that were completed or skipped at some time

vars == <<instance, step, approval, work, manage, finished>>

NoApproval == [status |-> "none"]
IdleWork == [at |-> "idle"]
IdleManage == [at |-> "idle"]

Init ==
  /\ instance = "none"
  /\ step = [s \in Steps |-> "none"]
  /\ approval = [a \in Approvals |-> NoApproval]
  /\ work = [w \in Workers |-> IdleWork]
  /\ manage = [m \in Managers |-> IdleManage]
  /\ finished = {}

Done(s) == step[s] \in {"completed", "skipped"}

----------------------------------------------------------------------------
(* launch_workflow: one transaction; failed are the steps whose condition  *)
(* the context does not match.  A repeated launch finds the key and is a   *)
(* stutter.                                                                *)

Launch(failed) ==
  /\ instance = "none"
  /\ instance' = "active"
  /\ step' = [s \in Steps |-> IF s \in failed THEN "skipped"
                              ELSE IF Deps[s] = {} THEN "active" ELSE "pending"]
  /\ finished' = failed
  /\ UNCHANGED <<approval, work, manage>>

----------------------------------------------------------------------------
(* complete_step *)

\* The rows worker w holds: its step, and once they are updated the steps
\* it activates.
Held(w) ==
  CASE work[w].at = "idle"  -> {}
    [] work[w].at = "count" -> {work[w].step} \cup work[w].ready
    [] OTHER                -> {work[w].step}

FreeFor(rows, w) == \A v \in Workers \ {w} : rows \cap Held(v) = {}

ApprovalGiven(s) ==
  s \in Reviewed => \E a \in Approvals : /\ approval[a] # NoApproval
                                         /\ approval[a].step = s
                                         /\ approval[a].status = "approved"

\* SELECT ... FOR UPDATE of the step, its approval, and the update to
\* completed, which only w sees until it commits.
LockStep(w, s) ==
  /\ work[w].at = "idle"
  /\ step[s] = "active" /\ FreeFor({s}, w)
  /\ ApprovalGiven(s)
  /\ work' = [work EXCEPT ![w] = [at |-> "list", step |-> s]]
  /\ UNCHANGED <<instance, step, approval, manage, finished>>

\* SELECT the pending steps.
ListPending(w) ==
  /\ work[w].at = "list"
  /\ work' = [work EXCEPT ![w] = [at |-> "resolve", step |-> work[w].step,
                                  pending |-> {s \in Steps : step[s] = "pending"}]]
  /\ UNCHANGED <<instance, step, approval, manage, finished>>

\* Mutant: one dependency is enough.
ReadyWithAny(w) ==
  {s \in work[w].pending : \E d \in Deps[s] : Done(d) \/ d = work[w].step}

\* The listed steps whose dependencies are completed or skipped, as committed
\* now and by w itself.
Ready(w) ==
  {s \in work[w].pending : \A d \in Deps[s] : Done(d) \/ d = work[w].step}

\* SELECT the completed steps and find what is ready.
ResolveReady(w) ==
  /\ work[w].at = "resolve"
  /\ work' = [work EXCEPT ![w] = [at |-> "activate", step |-> work[w].step, ready |-> Ready(w)]]
  /\ UNCHANGED <<instance, step, approval, manage, finished>>

\* Mutant: what w activates is all that is counted.
RemainingReady(w) == work[w].ready

\* What w counts as remaining: committed, except for its own updates.
Remaining(w) ==
  {s \in Steps \ {work[w].step} :
     s \in work[w].ready \/ step[s] \in {"active", "pending", "paused"}}

\* UPDATE the ready steps, waiting for their rows (the status they have then
\* is not looked at), and count what remains.
ActivateAndCount(w) ==
  /\ work[w].at = "activate"
  /\ FreeFor(work[w].ready, w)
  /\ work' = [work EXCEPT ![w] = [at |-> "count", step |-> work[w].step,
                                  ready |-> work[w].ready, last |-> Remaining(w) = {}]]
  /\ UNCHANGED <<instance, step, approval, manage, finished>>

InstanceLocked == \E m \in Managers : manage[m].at # "idle"

\* When nothing remains the instance is completed, whatever its status; the
\* update waits for the instance row.
CommitStep(w) ==
  /\ work[w].at = "count"
  /\ work[w].last => ~InstanceLocked
  /\ step' = [s \in Steps |-> IF s = work[w].step THEN "completed"
                              ELSE IF s \in work[w].ready THEN "active" ELSE step[s]]
  /\ instance' = IF work[w].last THEN "completed" ELSE instance
  /\ work' = [work EXCEPT ![w] = IdleWork]
  /\ finished' = finished \cup {work[w].step}
  /\ UNCHANGED <<approval, manage>>

RollbackWork(w) ==
  /\ work[w].at # "idle"
  /\ work' = [work EXCEPT ![w] = IdleWork]
  /\ UNCHANGED <<instance, step, approval, manage, finished>>

----------------------------------------------------------------------------
(* transition_workflow *)

ActionAllowed(action) == action \in DOMAIN WORKFLOW_ACTIONS[instance]

\* SELECT ... FOR UPDATE of the instance; the UPDATE of the steps picks its
\* rows.
LockInstance(m, action) ==
  /\ ~InstanceLocked
  /\ ActionAllowed(action)
  /\ manage' = [manage EXCEPT ![m] =
       [at |-> "change", action |-> action,
        rows |-> {s \in Steps : step[s] \in Touches[action]}]]
  /\ UNCHANGED <<instance, step, approval, work, finished>>

\* The UPDATE waits for rows that workers hold, looks at them again, and
\* changes those that still qualify.
CommitChange(m) ==
  /\ manage[m].at = "change"
  /\ \A w \in Workers : manage[m].rows \cap Held(w) = {}
  /\ LET a == manage[m].action
     IN  /\ instance' = WORKFLOW_ACTIONS[instance][a]
         /\ step' = [s \in Steps |-> IF s \in manage[m].rows /\ step[s] \in Touches[a]
                                     THEN MakesOf[a] ELSE step[s]]
  /\ manage' = [manage EXCEPT ![m] = IdleManage]
  /\ UNCHANGED <<approval, work, finished>>

RollbackChange(m) ==
  /\ manage[m].at # "idle"
  /\ manage' = [manage EXCEPT ![m] = IdleManage]
  /\ UNCHANGED <<instance, step, approval, work, finished>>

----------------------------------------------------------------------------
(* Approvals *)

RequestApproval(a, s, by, to) ==
  /\ approval[a] = NoApproval
  /\ step[s] # "none"
  /\ to # by
  /\ approval' = [approval EXCEPT ![a] =
       [status |-> "pending", step |-> s, by |-> by, to |-> to]]
  /\ UNCHANGED <<instance, step, work, manage, finished>>

\* Under FOR UPDATE; the decider is written over the approver.
DecideApproval(a, user, decision) ==
  /\ approval[a].status = "pending"
  /\ approval[a].by # user
  /\ approval[a].to \in {user, Team}
  /\ approval' = [approval EXCEPT ![a].status = decision, ![a].to = user]
  /\ UNCHANGED <<instance, step, work, manage, finished>>

----------------------------------------------------------------------------
WorkerStep(w) ==
  \/ ListPending(w) \/ ResolveReady(w) \/ ActivateAndCount(w) \/ CommitStep(w)

Next ==
  \/ \E failed \in SUBSET Conditional : Launch(failed)
  \/ \E w \in Workers :
       \/ \E s \in Steps : LockStep(w, s)
       \/ WorkerStep(w)
       \/ RollbackWork(w)
  \/ \E m \in Managers :
       \/ \E action \in Actions : LockInstance(m, action)
       \/ CommitChange(m)
       \/ RollbackChange(m)
  \/ \E a \in Approvals :
       \/ \E s \in Reviewed, by \in Users, to \in Users \cup {Team} : RequestApproval(a, s, by, to)
       \/ \E user \in Users, d \in {"approved", "rejected"} : DecideApproval(a, user, d)

Spec == Init /\ [][Next]_vars

----------------------------------------------------------------------------
(* Properties *)

WorkRecords ==
  [at : {"idle"}] \cup [at : {"list"}, step : Steps]
    \cup [at : {"resolve"}, step : Steps, pending : SUBSET Steps]
    \cup [at : {"activate"}, step : Steps, ready : SUBSET Steps]
    \cup [at : {"count"}, step : Steps, ready : SUBSET Steps, last : BOOLEAN]

\* Every variable has its type, and no two transactions hold the same row.
TypeOK ==
  /\ instance \in InstanceStatuses
  /\ step \in [Steps -> StepStatuses]
  /\ approval \in [Approvals -> {NoApproval} \cup
       [status : {"pending", "approved", "rejected"}, step : Reviewed,
        by : Users, to : Users \cup {Team}]]
  /\ work \in [Workers -> WorkRecords]
  /\ manage \in [Managers -> [at : {"idle"}] \cup
                   [at : {"change"}, action : Actions, rows : SUBSET Steps]]
  /\ \A v, w \in Workers : v # w => Held(v) \cap Held(w) = {}
  /\ \A m, n \in Managers : manage[m].at # "idle" /\ manage[n].at # "idle" => m = n

InFlight == (\E w \in Workers : work[w].at # "idle") \/ InstanceLocked

\* A step becomes active only after each of the steps it depends on was
\* completed or skipped, also when two branches finish at once and whatever
\* the requests had read before.
ActivatesAfterDependencies ==
  [][\A s \in Steps : step[s] = "pending" /\ step'[s] = "active" => Deps[s] \subseteq finished']_vars

\* The step that completes the instance is the last one: no step is left to
\* run at that commit, also when several requests complete steps of it at
\* once and the instance is paused, resumed or cancelled meanwhile.
NoStepLeftBehind ==
  [][instance # "completed" /\ instance' = "completed" /\ UNCHANGED manage =>
       \A s \in Steps : step'[s] \notin {"active", "pending", "paused"}]_vars

----------------------------------------------------------------------------
(* Statements of the documentation that the code does not keep *)

\* Completing the steps one depends on makes it active, whoever completes
\* them: between requests an active instance has an active step, and each of
\* its pending steps waits for one that is not done.
NothingForgotten ==
  instance = "active" /\ ~InFlight =>
    /\ \E s \in Steps : step[s] = "active"
    /\ \A s \in Steps : step[s] = "pending" => \E d \in Deps[s] : ~Done(d)

\* "A step activates only when all declared dependencies are complete": at
\* the commit that makes a pending step active they are.
ActivatesInOrder ==
  [][\A s \in Steps : step[s] = "pending" /\ step'[s] = "active" =>
       \A d \in Deps[s] : step'[d] \in {"completed", "skipped"}]_vars
=============================================================================
