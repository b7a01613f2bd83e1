------------------------ MODULE WorkflowInstanceProofs ------------------------
(***************************************************************************)
(* Steps wait for what they depend on, and the step that completes the     *)
(* instance is its last, for every template, number of workers and of      *)
(* managers.  Both rest on the row locks: a worker's own step stays active *)
(* until it commits, so that two workers that are still under way count    *)
(* each other's steps as remaining.                                        *)
(***************************************************************************)
EXTENDS WorkflowInstance, TLAPS

\* The step a worker completes is active, whatever the others commit.
LocksOK == \A w \in Workers : work[w].at # "idle" => step[work[w].step] = "active"

\* What a worker is about to activate waits for nothing but its own step.
ReadyOK ==
  \A w \in Workers : work[w].at \in {"activate", "count"} =>
    \A s \in work[w].ready : Deps[s] \subseteq finished \cup {work[w].step}

FinishedOK == \A s \in Steps : Done(s) => s \in finished

LaunchOK == instance = "none" => \A s \in Steps : step[s] = "none"

\* A worker that counted nothing as remaining is the only one, and stays so.
LastOK ==
  \A w \in Workers : work[w].at = "count" /\ work[w].last =>
    /\ work[w].ready \subseteq {work[w].step}
    /\ \A s \in Steps \ {work[w].step} : step[s] \notin {"active", "pending", "paused"}

\* The action of a manager is allowed until it commits.
ManageOK ==
  \A m \in Managers : manage[m].at = "change" => ActionAllowed(manage[m].action)

Inv == TypeOK /\ LocksOK /\ ReadyOK /\ FinishedOK /\ LaunchOK /\ LastOK /\ ManageOK

----------------------------------------------------------------------------
(* Records and tables *)

\* An action leads to another status of the instance.
LEMMA ActionsType ==
  ASSUME NEW i \in InstanceStatuses, NEW a \in DOMAIN WORKFLOW_ACTIONS[i]
  PROVE  WORKFLOW_ACTIONS[i][a] \in InstanceStatuses \ {"none"}
<1>1. CASE i = "none"
  BY <1>1 DEF WORKFLOW_ACTIONS
<1>2. CASE i = "active"
  BY <1>2 DEF WORKFLOW_ACTIONS, InstanceStatuses
<1>3. CASE i = "paused"
  BY <1>3 DEF WORKFLOW_ACTIONS, InstanceStatuses
<1>4. CASE i \in {"cancelled", "completed"}
  BY <1>4 DEF WORKFLOW_ACTIONS, InstanceStatuses
<1> QED BY <1>1, <1>2, <1>3, <1>4 DEF InstanceStatuses

\* An instance that was not launched has no action.
LEMMA NoAction == DOMAIN WORKFLOW_ACTIONS["none"] = {}
BY DEF WORKFLOW_ACTIONS

\* An action touches steps under way and gives them a status.
LEMMA TouchesType ==
  ASSUME NEW a \in Actions
  PROVE  /\ Touches[a] \subseteq {"active", "pending", "paused"}
         /\ a # "cancel" => "pending" \notin Touches[a]
         /\ Touches[a] # {} => MakesOf[a] \in {"active", "paused", "cancelled"}
         /\ MakesOf[a] \in StepStatuses
         /\ a = "cancel" => MakesOf[a] = "cancelled"
BY DEF Actions, Touches, MakesOf, StepStatuses

\* The fields a worker's record has at each place.
LEMMA WorkFields ==
  ASSUME NEW r \in WorkRecords
  PROVE  /\ r.at \in {"idle", "list", "resolve", "activate", "count"}
         /\ r.at # "idle" => r.step \in Steps
         /\ r.at = "resolve" => r.pending \subseteq Steps
         /\ r.at \in {"activate", "count"} => r.ready \subseteq Steps
         /\ r.at = "count" => r.last \in BOOLEAN
BY DEF WorkRecords

----------------------------------------------------------------------------
(* The actions *)

LEMMA InitInv == Init => Inv
<1> SUFFICES ASSUME Init PROVE Inv
  OBVIOUS
<1>1. \A w \in Workers : work[w] = IdleWork /\ work[w].at = "idle"
  BY DEF Init, IdleWork
<1>2. \A m \in Managers : manage[m] = IdleManage /\ manage[m].at = "idle"
  BY DEF Init, IdleManage
<1>3. \A s \in Steps : step[s] = "none"
  BY DEF Init
<1>4. TypeOK
  <2>1. instance \in InstanceStatuses /\ step \in [Steps -> StepStatuses]
    BY DEF Init, InstanceStatuses, StepStatuses
  <2>2. approval \in [Approvals -> {NoApproval}]
    BY DEF Init
  <2>3. IdleWork \in WorkRecords
    BY DEF IdleWork, WorkRecords
  <2>4. work \in [Workers -> WorkRecords]
    BY <2>3 DEF Init
  <2>5. manage \in [Managers -> [at : {"idle"}]]
    BY DEF Init, IdleManage
  <2>6. \A w \in Workers : Held(w) = {}
    BY <1>1 DEF Held
  <2> QED BY <2>1, <2>2, <2>4, <2>5, <2>6, <1>2 DEF TypeOK
<1> QED BY <1>1, <1>2, <1>3, <1>4
        DEF Inv, LocksOK, ReadyOK, FinishedOK, LaunchOK, LastOK, ManageOK, Done

\* A step of one worker's transaction, which nobody else sees.
LEMMA OwnStep ==
  ASSUME Inv, NEW w \in Workers, NEW r \in WorkRecords,
         work' = [work EXCEPT ![w] = r],
         UNCHANGED <<instance, step, approval, manage, finished>>,
         \A v \in Workers \ {w} : Held(w)' \cap Held(v) = {},
         r.at # "idle" => step[r.step] = "active",
         r.at \in {"activate", "count"} =>
           \A s \in r.ready : Deps[s] \subseteq finished \cup {r.step},
         r.at = "count" /\ r.last =>
           /\ r.ready \subseteq {r.step}
           /\ \A s \in Steps \ {r.step} : step[s] \notin {"active", "pending", "paused"}
  PROVE  Inv'
<1>1. work'[w] = r /\ \A v \in Workers \ {w} : work'[v] = work[v]
  BY DEF Inv, TypeOK
<1>2. \A v \in Workers \ {w} : Held(v)' = Held(v)
  BY <1>1 DEF Held
<1>3. TypeOK'
  <2>1. work' \in [Workers -> WorkRecords]
    BY DEF Inv, TypeOK
  <2>2. \A u, v \in Workers : u # v => Held(u)' \cap Held(v)' = {}
    BY <1>2 DEF Inv, TypeOK
  <2> QED BY <2>1, <2>2 DEF Inv, TypeOK
<1>4. LocksOK' /\ ReadyOK' /\ LastOK'
  <2>1. LocksOK'
    BY <1>1 DEF Inv, LocksOK
  <2>2. ReadyOK'
    BY <1>1 DEF Inv, ReadyOK
  <2>3. LastOK'
    BY <1>1 DEF Inv, LastOK
  <2> QED BY <2>1, <2>2, <2>3
<1>5. FinishedOK' /\ LaunchOK' /\ ManageOK'
  BY DEF Inv, FinishedOK, LaunchOK, ManageOK, Done, ActionAllowed
<1> QED BY <1>3, <1>4, <1>5 DEF Inv

LEMMA LockStepKeeps ==
  ASSUME Inv, NEW w \in Workers, NEW s \in Steps, LockStep(w, s) PROVE Inv'
<1> DEFINE r == [at |-> "list", step |-> s]
<1>1. r \in WorkRecords /\ r.at = "list" /\ r.step = s
  BY DEF WorkRecords
<1>2. work' = [work EXCEPT ![w] = r] /\ step[s] = "active" /\ FreeFor({s}, w)
      /\ UNCHANGED <<instance, step, approval, manage, finished>>
  BY DEF LockStep
<1>3. Held(w)' = {s}
  BY <1>2 DEF Held, Inv, TypeOK
<1> HIDE DEF r
<1> QED BY <1>1, <1>2, <1>3, OwnStep DEF FreeFor

LEMMA ListPendingKeeps ==
  ASSUME Inv, NEW w \in Workers, ListPending(w) PROVE Inv'
<1>0. PICK r : r = [at |-> "resolve", step |-> work[w].step,
                  pending |-> {s \in Steps : step[s] = "pending"}]
  OBVIOUS
<1>1. work[w].at = "list" /\ work[w] \in WorkRecords /\ work[w].step \in Steps
  BY WorkFields DEF ListPending, Inv, TypeOK
<1>2. r \in WorkRecords /\ r.at = "resolve" /\ r.step = work[w].step
  BY <1>0, <1>1 DEF WorkRecords
<1>3. work' = [work EXCEPT ![w] = r]
      /\ UNCHANGED <<instance, step, approval, manage, finished>>
  BY <1>0 DEF ListPending
<1>4. Held(w)' = Held(w)
  BY <1>1, <1>2, <1>3 DEF Held, Inv, TypeOK
<1>5. step[r.step] = "active"
  BY <1>1, <1>2 DEF Inv, LocksOK
<1>6. \A v \in Workers \ {w} : Held(w)' \cap Held(v) = {}
  BY <1>4 DEF Inv, TypeOK
<1> QED BY <1>2, <1>3, <1>5, <1>6, OwnStep

LEMMA ResolveReadyKeeps ==
  ASSUME Inv, NEW w \in Workers, ResolveReady(w) PROVE Inv'
<1>0. PICK r : r = [at |-> "activate", step |-> work[w].step, ready |-> Ready(w)]
  OBVIOUS
<1>1. /\ work[w].at = "resolve" /\ work[w] \in WorkRecords /\ work[w].step \in Steps
      /\ work[w].pending \subseteq Steps
  BY WorkFields DEF ResolveReady, Inv, TypeOK
<1>2. Ready(w) \subseteq Steps
  BY <1>1 DEF Ready
<1>3. r \in WorkRecords /\ r.at = "activate" /\ r.step = work[w].step /\ r.ready = Ready(w)
  BY <1>0, <1>1, <1>2 DEF WorkRecords
<1>4. work' = [work EXCEPT ![w] = r]
      /\ UNCHANGED <<instance, step, approval, manage, finished>>
  BY <1>0 DEF ResolveReady
<1>5. Held(w)' = Held(w)
  BY <1>1, <1>3, <1>4 DEF Held, Inv, TypeOK
<1>6. step[r.step] = "active"
  BY <1>1, <1>3 DEF Inv, LocksOK
<1>7. \A s \in Ready(w) : Deps[s] \subseteq finished \cup {work[w].step}
  <2> SUFFICES ASSUME NEW s \in Ready(w), NEW d \in Deps[s], d # work[w].step
               PROVE  d \in finished
    OBVIOUS
  <2>1. s \in Steps /\ Done(d)
    BY <1>2 DEF Ready
  <2>2. d \in Steps
    BY <2>1, WorkflowAssumption
  <2> QED BY <2>1, <2>2, SMTT(30) DEF Inv, FinishedOK
<1>8. \A v \in Workers \ {w} : Held(w)' \cap Held(v) = {}
  BY <1>5 DEF Inv, TypeOK
<1> QED BY <1>3, <1>4, <1>6, <1>7, <1>8, OwnStep

LEMMA ActivateAndCountKeeps ==
  ASSUME Inv, NEW w \in Workers, ActivateAndCount(w) PROVE Inv'
<1>0. PICK r : r = [at |-> "count", step |-> work[w].step, ready |-> work[w].ready,
                  last |-> Remaining(w) = {}]
  OBVIOUS
<1>1. /\ work[w].at = "activate" /\ work[w] \in WorkRecords /\ work[w].step \in Steps
      /\ work[w].ready \subseteq Steps
  BY WorkFields DEF ActivateAndCount, Inv, TypeOK
<1>2. /\ r \in WorkRecords /\ r.at = "count" /\ r.step = work[w].step
      /\ r.ready = work[w].ready /\ r.last = (Remaining(w) = {})
  BY <1>0, <1>1 DEF WorkRecords
<1>3. work' = [work EXCEPT ![w] = r]
      /\ UNCHANGED <<instance, step, approval, manage, finished>>
      /\ FreeFor(work[w].ready, w)
  BY <1>0 DEF ActivateAndCount
<1>4. Held(w) = {work[w].step} /\ Held(w)' = {work[w].step} \cup work[w].ready
  BY <1>1, <1>2, <1>3 DEF Held, Inv, TypeOK
<1>5. \A v \in Workers \ {w} : Held(w)' \cap Held(v) = {}
  BY <1>3, <1>4 DEF FreeFor, Inv, TypeOK
<1>6. step[r.step] = "active"
  BY <1>1, <1>2 DEF Inv, LocksOK
<1>7. \A s \in r.ready : Deps[s] \subseteq finished \cup {r.step}
  BY <1>1, <1>2 DEF Inv, ReadyOK
<1>8. r.last => /\ r.ready \subseteq {r.step}
                /\ \A s \in Steps \ {r.step} : step[s] \notin {"active", "pending", "paused"}
  BY <1>1, <1>2 DEF Remaining
<1> QED BY <1>2, <1>3, <1>5, <1>6, <1>7, <1>8, OwnStep

LEMMA RollbackWorkKeeps ==
  ASSUME Inv, NEW w \in Workers, RollbackWork(w) PROVE Inv'
<1>1. IdleWork \in WorkRecords /\ IdleWork.at = "idle"
  BY DEF IdleWork, WorkRecords
<1>2. work' = [work EXCEPT ![w] = IdleWork]
      /\ UNCHANGED <<instance, step, approval, manage, finished>>
  BY DEF RollbackWork
<1>3. Held(w)' = {}
  BY <1>1, <1>2 DEF Held, Inv, TypeOK
<1>4. \A v \in Workers \ {w} : Held(w)' \cap Held(v) = {}
  BY <1>3
<1> QED BY <1>1, <1>2, <1>4, OwnStep

\* Who is under way has a step of its own: another worker's is not it.
LEMMA OwnSteps ==
  ASSUME Inv, NEW v \in Workers, NEW w \in Workers, v # w,
         work[v].at # "idle", work[w].at # "idle"
  PROVE  /\ work[v].step \in Steps /\ step[work[v].step] = "active"
         /\ work[v].step # work[w].step
         /\ work[v].step \notin Held(w)
<1>1. \A u \in {v, w} : /\ work[u].at \in {"list", "resolve", "activate", "count"}
                         /\ work[u].step \in Steps
  BY WorkFields DEF Inv, TypeOK
<1>2. \A u \in {v, w} : work[u].step \in Held(u)
  BY <1>1 DEF Held
<1>3. Held(v) \cap Held(w) = {}
  BY DEF Inv, TypeOK
<1> QED BY <1>1, <1>2, <1>3 DEF Inv, LocksOK

LEMMA CommitStepKeeps ==
  ASSUME Inv, NEW w \in Workers, CommitStep(w) PROVE Inv'
<1>1. /\ work[w].at = "count" /\ work[w] \in WorkRecords /\ work[w].step \in Steps
      /\ work[w].ready \subseteq Steps
  BY WorkFields DEF CommitStep, Inv, TypeOK
<1>2. /\ work' = [work EXCEPT ![w] = IdleWork]
      /\ finished' = finished \cup {work[w].step}
      /\ approval' = approval /\ manage' = manage
      /\ instance' = IF work[w].last THEN "completed" ELSE instance
      /\ work[w].last => ~InstanceLocked
      /\ step' = [s \in Steps |-> IF s = work[w].step THEN "completed"
                                  ELSE IF s \in work[w].ready THEN "active" ELSE step[s]]
  BY DEF CommitStep
<1>3. work'[w].at = "idle" /\ \A v \in Workers \ {w} : work'[v] = work[v]
  BY <1>2 DEF IdleWork, Inv, TypeOK
<1>4. Held(w)' = {} /\ \A v \in Workers \ {w} : Held(v)' = Held(v)
  BY <1>3 DEF Held
<1>5. step' \in [Steps -> StepStatuses]
  BY <1>2 DEF Inv, TypeOK, StepStatuses
<1>6. TypeOK'
  <2>1. IdleWork \in WorkRecords
    BY DEF IdleWork, WorkRecords
  <2>2. work' \in [Workers -> WorkRecords]
    BY <1>2, <2>1 DEF Inv, TypeOK
  <2>3. instance' \in InstanceStatuses
    BY <1>2 DEF Inv, TypeOK, InstanceStatuses
  <2>4. \A u, v \in Workers : u # v => Held(u)' \cap Held(v)' = {}
    BY <1>4 DEF Inv, TypeOK
  <2> QED BY <1>2, <1>5, <2>2, <2>3, <2>4 DEF Inv, TypeOK
<1>7. LocksOK'
  <2> SUFFICES ASSUME NEW v \in Workers \ {w}, work[v].at # "idle"
               PROVE  step'[work[v].step] = "active"
    BY <1>3 DEF LocksOK
  <2> QED BY <1>1, <1>2, OwnSteps
<1>8. ReadyOK'
  BY <1>2, <1>3 DEF Inv, ReadyOK
<1>9. FinishedOK'
  BY <1>1, <1>2 DEF Inv, FinishedOK, Done
<1>10. LaunchOK'
  <2>1. instance # "none"
    BY <1>1 DEF Inv, LocksOK, LaunchOK
  <2> QED BY <1>2, <2>1 DEF LaunchOK
<1>11. LastOK'
  <2> SUFFICES ASSUME NEW v \in Workers \ {w}, work[v].at = "count", work[v].last
               PROVE  FALSE
    BY <1>3 DEF LastOK
  <2>1. work[w].step \in Steps \ {work[v].step} /\ step[work[w].step] = "active"
    BY <1>1, OwnSteps
  <2> QED BY <2>1 DEF Inv, LastOK
<1>12. ManageOK'
  <2> SUFFICES ASSUME NEW m \in Managers, manage[m].at = "change"
               PROVE  ActionAllowed(manage[m].action)'
    BY <1>2 DEF ManageOK
  <2>1. InstanceLocked
    BY DEF InstanceLocked
  <2> QED BY <1>2, <2>1 DEF Inv, ManageOK, ActionAllowed
<1> QED BY <1>6, <1>7, <1>8, <1>9, <1>10, <1>11, <1>12 DEF Inv

LEMMA LaunchKeeps ==
  ASSUME Inv, NEW failed \in SUBSET Conditional, Launch(failed) PROVE Inv'
<1>1. /\ instance = "none" /\ instance' = "active" /\ finished' = failed
      /\ UNCHANGED <<approval, work, manage>>
      /\ step' = [s \in Steps |-> IF s \in failed THEN "skipped"
                                  ELSE IF Deps[s] = {} THEN "active" ELSE "pending"]
  BY DEF Launch
<1>2. \A w \in Workers : work[w].at = "idle"
  <2> SUFFICES ASSUME NEW w \in Workers, work[w].at # "idle" PROVE FALSE
    OBVIOUS
  <2>1. work[w].step \in Steps /\ step[work[w].step] = "active"
    BY WorkFields DEF Inv, TypeOK, LocksOK
  <2> QED BY <1>1, <2>1 DEF Inv, LaunchOK
<1>3. \A m \in Managers : manage[m].at # "change"
  BY <1>1, NoAction DEF Inv, ManageOK, ActionAllowed
<1>4. TypeOK'
  <2>1. \A w \in Workers : Held(w)' = {}
    BY <1>1, <1>2 DEF Held
  <2>2. instance' \in InstanceStatuses /\ step' \in [Steps -> StepStatuses]
    BY <1>1 DEF InstanceStatuses, StepStatuses
  <2> QED BY <1>1, <2>1, <2>2 DEF Inv, TypeOK
<1>5. FinishedOK'
  BY <1>1 DEF FinishedOK, Done
<1> QED BY <1>1, <1>2, <1>3, <1>4, <1>5
        DEF Inv, LocksOK, ReadyOK, LaunchOK, LastOK, ManageOK

\* Steps that concern neither the steps nor the workers.
LEMMA AroundKeeps ==
  ASSUME Inv, UNCHANGED <<instance, step, work, finished>>, TypeOK', ManageOK'
  PROVE  Inv'
BY DEF Inv, LocksOK, ReadyOK, FinishedOK, LaunchOK, LastOK, Done

\* A manager is idle or about to change the steps it picked.
LEMMA ManageFields ==
  ASSUME TypeOK, NEW m \in Managers
  PROVE  \/ manage[m].at = "idle"
         \/ /\ manage[m].at = "change" /\ manage[m].action \in Actions
            /\ manage[m].rows \subseteq Steps
BY DEF TypeOK

LEMMA LockInstanceKeeps ==
  ASSUME Inv, NEW m \in Managers, NEW action \in Actions, LockInstance(m, action)
  PROVE  Inv'
<1> DEFINE rows == {s \in Steps : step[s] \in Touches[action]}
           r == [at |-> "change", action |-> action, rows |-> rows]
<1>1. /\ \A n \in Managers : manage[n].at = "idle"
      /\ ActionAllowed(action)
      /\ manage' = [manage EXCEPT ![m] = r]
      /\ UNCHANGED <<instance, step, approval, work, finished>>
  BY DEF LockInstance, InstanceLocked
<1>2. r \in [at : {"change"}, action : Actions, rows : SUBSET Steps]
      /\ r.at = "change" /\ r.action = action
  OBVIOUS
<1> HIDE DEF rows, r
<1>3. manage'[m] = r /\ \A n \in Managers \ {m} : manage'[n] = manage[n]
  BY <1>1 DEF Inv, TypeOK
<1>4. TypeOK'
  <2>1. manage' \in [Managers -> [at : {"idle"}] \cup
                       [at : {"change"}, action : Actions, rows : SUBSET Steps]]
    BY <1>1, <1>2 DEF Inv, TypeOK
  <2>2. \A w \in Workers : Held(w)' = Held(w)
    BY <1>1 DEF Held
  <2> QED BY <1>1, <1>3, <2>1, <2>2 DEF Inv, TypeOK
<1>5. ManageOK'
  BY <1>1, <1>2, <1>3 DEF Inv, ManageOK, ActionAllowed
<1> QED BY <1>1, <1>4, <1>5, AroundKeeps

LEMMA RollbackChangeKeeps ==
  ASSUME Inv, NEW m \in Managers, RollbackChange(m) PROVE Inv'
<1>1. /\ manage' = [manage EXCEPT ![m] = IdleManage]
      /\ UNCHANGED <<instance, step, approval, work, finished>>
  BY DEF RollbackChange
<1>2. IdleManage \in [at : {"idle"}] /\ IdleManage.at = "idle"
  BY DEF IdleManage
<1>3. manage'[m].at = "idle" /\ \A n \in Managers \ {m} : manage'[n] = manage[n]
  BY <1>1, <1>2 DEF Inv, TypeOK
<1>4. TypeOK'
  <2>1. manage' \in [Managers -> [at : {"idle"}] \cup
                       [at : {"change"}, action : Actions, rows : SUBSET Steps]]
    BY <1>1, <1>2 DEF Inv, TypeOK
  <2>2. \A w \in Workers : Held(w)' = Held(w)
    BY <1>1 DEF Held
  <2> QED BY <1>1, <1>3, <2>1, <2>2 DEF Inv, TypeOK
<1>5. ManageOK'
  BY <1>1, <1>3 DEF Inv, ManageOK, ActionAllowed
<1> QED BY <1>1, <1>4, <1>5, AroundKeeps

LEMMA CommitChangeKeeps ==
  ASSUME Inv, NEW m \in Managers, CommitChange(m) PROVE Inv'
<1>1. PICK a \in Actions : a = manage[m].action
  BY ManageFields DEF CommitChange, Inv
<1>2. /\ manage[m].at = "change" /\ ActionAllowed(a)
      /\ \A w \in Workers : manage[m].rows \cap Held(w) = {}
      /\ instance' = WORKFLOW_ACTIONS[instance][a]
      /\ step' = [s \in Steps |-> IF s \in manage[m].rows /\ step[s] \in Touches[a]
                                  THEN MakesOf[a] ELSE step[s]]
      /\ manage' = [manage EXCEPT ![m] = IdleManage]
      /\ UNCHANGED <<approval, work, finished>>
  BY <1>1 DEF CommitChange, Inv, ManageOK
<1>3. \A n \in Managers : manage'[n].at = "idle"
  <2>1. manage'[m] = IdleManage /\ \A n \in Managers \ {m} : manage'[n] = manage[n]
    BY <1>2 DEF Inv, TypeOK
  <2>2. \A n \in Managers \ {m} : manage[n].at = "idle"
    BY <1>2 DEF Inv, TypeOK
  <2> QED BY <2>1, <2>2 DEF IdleManage
<1>4. instance' \in InstanceStatuses \ {"none"}
  BY <1>2, ActionsType DEF Inv, TypeOK, ActionAllowed
<1>5. TypeOK'
  <2>1. step' \in [Steps -> StepStatuses]
    BY <1>2, TouchesType DEF Inv, TypeOK
  <2>2. manage' \in [Managers -> [at : {"idle"}] \cup
                       [at : {"change"}, action : Actions, rows : SUBSET Steps]]
    <3>1. IdleManage \in [at : {"idle"}]
      BY DEF IdleManage
    <3> QED BY <1>2, <3>1 DEF Inv, TypeOK
  <2>3. \A w \in Workers : Held(w)' = Held(w)
    BY <1>2 DEF Held
  <2> QED BY <1>2, <1>3, <1>4, <2>1, <2>2, <2>3 DEF Inv, TypeOK
<1>6. \A w \in Workers : work[w].at # "idle" =>
        work[w].step \in Steps /\ step'[work[w].step] = "active"
  <2> SUFFICES ASSUME NEW w \in Workers, work[w].at # "idle"
               PROVE  work[w].step \in Steps /\ step'[work[w].step] = "active"
    OBVIOUS
  <2>1. work[w].step \in Steps /\ work[w].at \in {"list", "resolve", "activate", "count"}
    BY WorkFields DEF Inv, TypeOK
  <2>2. work[w].step \in Held(w)
    BY <2>1 DEF Held
  <2> QED BY <1>2, <2>1, <2>2 DEF Inv, LocksOK
<1>7. LocksOK' /\ ReadyOK'
  BY <1>2, <1>6 DEF Inv, LocksOK, ReadyOK
<1>8. FinishedOK'
  BY <1>2, TouchesType DEF Inv, FinishedOK, Done
<1>9. LastOK'
  <2> SUFFICES ASSUME NEW w \in Workers, work[w].at = "count", work[w].last,
                      NEW s \in Steps \ {work[w].step}
               PROVE  step'[s] \notin {"active", "pending", "paused"}
    BY <1>2 DEF Inv, LastOK
  <2>1. step[s] \notin {"active", "pending", "paused"}
    BY DEF Inv, LastOK
  <2> QED BY <1>2, <2>1, TouchesType
<1>10. LaunchOK' /\ ManageOK'
  BY <1>3, <1>4 DEF LaunchOK, ManageOK
<1> QED BY <1>5, <1>7, <1>8, <1>9, <1>10 DEF Inv

LEMMA RequestApprovalKeeps ==
  ASSUME Inv, NEW a \in Approvals, NEW s \in Reviewed, NEW by \in Users,
         NEW to \in Users \cup {Team}, RequestApproval(a, s, by, to)
  PROVE  Inv'
<1> DEFINE r == [status |-> "pending", step |-> s, by |-> by, to |-> to]
<1>1. /\ approval' = [approval EXCEPT ![a] = r]
      /\ UNCHANGED <<instance, step, work, manage, finished>>
  BY DEF RequestApproval
<1>2. r \in [status : {"pending", "approved", "rejected"}, step : Reviewed,
             by : Users, to : Users \cup {Team}]
  OBVIOUS
<1> HIDE DEF r
<1>3. TypeOK'
  <2>1. \A w \in Workers : Held(w)' = Held(w)
    BY <1>1 DEF Held
  <2> QED BY <1>1, <1>2, <2>1 DEF Inv, TypeOK
<1>4. ManageOK'
  BY <1>1 DEF Inv, ManageOK, ActionAllowed
<1> QED BY <1>1, <1>3, <1>4, AroundKeeps

LEMMA DecideApprovalKeeps ==
  ASSUME Inv, NEW a \in Approvals, NEW user \in Users,
         NEW decision \in {"approved", "rejected"}, DecideApproval(a, user, decision)
  PROVE  Inv'
<1> DEFINE Rows == [status : {"pending", "approved", "rejected"}, step : Reviewed,
                    by : Users, to : Users \cup {Team}]
<1>1. /\ approval[a].status = "pending"
      /\ approval' = [approval EXCEPT ![a].status = decision, ![a].to = user]
      /\ UNCHANGED <<instance, step, work, manage, finished>>
  BY DEF DecideApproval
<1>2. approval[a] \in Rows
  BY <1>1 DEF Inv, TypeOK, NoApproval
<1>3. approval' = [approval EXCEPT ![a] = [approval[a] EXCEPT !.status = decision, !.to = user]]
  BY <1>1 DEF Inv, TypeOK
<1>4. [approval[a] EXCEPT !.status = decision, !.to = user] \in Rows
  BY <1>2
<1> HIDE DEF Rows
<1>5. approval' \in [Approvals -> {NoApproval} \cup Rows]
  BY <1>3, <1>4 DEF Inv, TypeOK, Rows
<1>6. TypeOK'
  <2>1. \A w \in Workers : Held(w)' = Held(w)
    BY <1>1 DEF Held
  <2> QED BY <1>1, <1>5, <2>1 DEF Inv, TypeOK, Rows
<1>7. ManageOK'
  BY <1>1 DEF Inv, ManageOK, ActionAllowed
<1> QED BY <1>1, <1>6, <1>7, AroundKeeps

LEMMA NextKeeps == Inv /\ [Next]_vars => Inv'
<1> SUFFICES ASSUME Inv, [Next]_vars PROVE Inv'
  OBVIOUS
<1>1. CASE \E failed \in SUBSET Conditional : Launch(failed)
  BY <1>1, LaunchKeeps
<1>2. ASSUME NEW w \in Workers, NEW s \in Steps, LockStep(w, s) PROVE Inv'
  BY <1>2, LockStepKeeps
<1>3. ASSUME NEW w \in Workers, WorkerStep(w) \/ RollbackWork(w) PROVE Inv'
  BY <1>3, ListPendingKeeps, ResolveReadyKeeps, ActivateAndCountKeeps, CommitStepKeeps,
     RollbackWorkKeeps DEF WorkerStep
<1>4. ASSUME NEW m \in Managers, NEW action \in Actions, LockInstance(m, action) PROVE Inv'
  BY <1>4, LockInstanceKeeps
<1>5. ASSUME NEW m \in Managers, CommitChange(m) \/ RollbackChange(m) PROVE Inv'
  BY <1>5, CommitChangeKeeps, RollbackChangeKeeps
<1>6. ASSUME NEW a \in Approvals, NEW s \in Reviewed, NEW by \in Users,
             NEW to \in Users \cup {Team}, RequestApproval(a, s, by, to)
      PROVE  Inv'
  BY <1>6, RequestApprovalKeeps
<1>7. ASSUME NEW a \in Approvals, NEW user \in Users, NEW d \in {"approved", "rejected"},
             DecideApproval(a, user, d)
      PROVE  Inv'
  BY <1>7, DecideApprovalKeeps
<1>8. CASE UNCHANGED vars
  <2>1. UNCHANGED <<instance, step, approval, work, manage, finished>>
    BY <1>8 DEF vars
  <2>2. \A w \in Workers : Held(w)' = Held(w)
    BY <2>1 DEF Held
  <2>3. TypeOK' /\ ManageOK'
    BY <2>1, <2>2 DEF Inv, TypeOK, ManageOK, ActionAllowed
  <2> QED BY <2>1, <2>3, AroundKeeps
<1> QED BY <1>1, <1>2, <1>3, <1>4, <1>5, <1>6, <1>7, <1>8 DEF Next

LEMMA Invariance == Spec => []Inv
BY InitInv, NextKeeps, PTL DEF Spec

----------------------------------------------------------------------------
(* Theorems *)

\* The tables and the locals of the transactions are well typed, and no two
\* transactions hold the same row.
THEOREM WorkflowTypeCorrect == Spec => []TypeOK
<1>1. Inv => TypeOK
  BY DEF Inv
<1> QED BY Invariance, <1>1, PTL

\* Whatever the template, a step becomes active only after each step it
\* depends on was completed or skipped (complete_step).
THEOREM DependenciesHold == Spec => ActivatesAfterDependencies
<1> DEFINE A == \A s \in Steps : step[s] = "pending" /\ step'[s] = "active" =>
                  Deps[s] \subseteq finished'
<1>1. Inv /\ [Next]_vars => [A]_vars
  <2> SUFFICES ASSUME Inv, Next, NEW s \in Steps, step[s] = "pending", step'[s] = "active"
               PROVE  Deps[s] \subseteq finished'
    OBVIOUS
  <2>1. CASE \E failed \in SUBSET Conditional : Launch(failed)
    BY <2>1 DEF Launch, Inv, LaunchOK
  <2>2. ASSUME NEW w \in Workers, CommitStep(w) PROVE Deps[s] \subseteq finished'
    BY <2>2 DEF CommitStep, Inv, ReadyOK
  <2>3. ASSUME NEW m \in Managers, CommitChange(m) PROVE FALSE
    <3>1. manage[m].action \in Actions
      BY <2>3, ManageFields DEF CommitChange, Inv
    <3>2. step[s] \in Touches[manage[m].action] /\ step'[s] = MakesOf[manage[m].action]
      BY <2>3 DEF CommitChange
    <3> QED BY <3>1, <3>2, TouchesType
  <2>4. CASE UNCHANGED step
    BY <2>4
  <2> QED BY <2>1, <2>2, <2>3, <2>4
          DEF Next, WorkerStep, LockStep, ListPending, ResolveReady, ActivateAndCount,
              RollbackWork, LockInstance, RollbackChange, RequestApproval, DecideApproval
<1>2. Spec => [][A]_vars
  BY <1>1, Invariance, PTL DEF Spec
<1> QED BY <1>2 DEF ActivatesAfterDependencies

\* Whatever the template and however many completions are under way, the step
\* that completes the instance leaves none to run (complete_step).
THEOREM LastStepHolds == Spec => NoStepLeftBehind
<1> DEFINE A == instance # "completed" /\ instance' = "completed" /\ UNCHANGED manage =>
                  \A s \in Steps : step'[s] \notin {"active", "pending", "paused"}
<1>1. Inv /\ [Next]_vars => [A]_vars
  <2> SUFFICES ASSUME Inv, Next, instance # "completed", instance' = "completed",
                      UNCHANGED manage, NEW s \in Steps
               PROVE  step'[s] \notin {"active", "pending", "paused"}
    OBVIOUS
  <2>1. ASSUME NEW w \in Workers, CommitStep(w)
        PROVE  step'[s] \notin {"active", "pending", "paused"}
    <3>1. work[w].at = "count" /\ work[w].last
      BY <2>1 DEF CommitStep
    <3>2. CASE s = work[w].step
      BY <2>1, <3>2 DEF CommitStep
    <3>3. CASE s # work[w].step
      BY <2>1, <3>1, <3>3 DEF CommitStep, Inv, LastOK
    <3> QED BY <3>2, <3>3
  <2>2. ASSUME NEW m \in Managers, CommitChange(m) PROVE FALSE
    BY <2>2 DEF CommitChange, IdleManage, Inv, TypeOK
  <2>3. CASE \E failed \in SUBSET Conditional : Launch(failed)
    BY <2>3 DEF Launch
  <2> QED BY <2>1, <2>2, <2>3
          DEF Next, WorkerStep, LockStep, ListPending, ResolveReady, ActivateAndCount,
              RollbackWork, LockInstance, RollbackChange, RequestApproval, DecideApproval
<1>2. Spec => [][A]_vars
  BY <1>1, Invariance, PTL DEF Spec
<1> QED BY <1>2 DEF NoStepLeftBehind

----------------------------------------------------------------------------
(* Completions one at a time.  What the documentation says of the order of  *)
(* steps, and the code does not keep when completions overlap, holds when   *)
(* they do not.                                                             *)

OneAtATime == \A v, w \in Workers : v = w

\* What the one completion under way has read still holds, whatever managers do.
UpToDate ==
  \A w \in Workers :
    /\ work[w].at = "resolve" => \A s \in work[w].pending : ~Done(s)
    /\ work[w].at \in {"activate", "count"} =>
         \A s \in work[w].ready :
           ~Done(s) /\ \A d \in Deps[s] : Done(d) \/ d = work[w].step

\* No step but the completion changes which steps are done.
LEMMA DoneStays ==
  ASSUME Inv, Next, \A w \in Workers : ~CommitStep(w), \A failed \in SUBSET Conditional : ~Launch(failed)
  PROVE  \A s \in Steps : Done(s)' <=> Done(s)
<1>1. CASE UNCHANGED step
  BY <1>1 DEF Done
<1>2. ASSUME NEW m \in Managers, CommitChange(m) PROVE \A s \in Steps : Done(s)' <=> Done(s)
  <2>1. manage[m].action \in Actions
    BY <1>2, ManageFields DEF CommitChange, Inv
  <2>2. ASSUME NEW s \in Steps PROVE Done(s)' <=> Done(s)
    <3>1. CASE step[s] \in Touches[manage[m].action]
      <4>1. step'[s] \in {"active", "paused", "cancelled"} \/ step'[s] = step[s]
        BY <1>2, <2>1, <3>1, TouchesType DEF CommitChange
      <4>2. step[s] \in {"active", "pending", "paused"}
        BY <2>1, <3>1, TouchesType
      <4> QED BY <4>1, <4>2 DEF Done
    <3>2. CASE step[s] \notin Touches[manage[m].action]
      BY <1>2, <3>2 DEF CommitChange, Done
    <3> QED BY <3>1, <3>2
  <2> QED BY <2>2
<1> QED BY <1>1, <1>2
        DEF Next, WorkerStep, LockStep, ListPending, ResolveReady, ActivateAndCount,
            RollbackWork, LockInstance, RollbackChange, RequestApproval, DecideApproval

\* Before the launch nothing is under way.
LEMMA NothingBefore ==
  ASSUME Inv, instance = "none" PROVE \A w \in Workers : work[w].at = "idle"
BY WorkFields DEF Inv, LocksOK, LaunchOK, TypeOK

LEMMA UpToDateStays ==
  ASSUME OneAtATime, Inv, UpToDate, [Next]_vars PROVE UpToDate'
<1>1. CASE UNCHANGED vars
  BY <1>1 DEF vars, UpToDate, Done
<1>2. ASSUME NEW failed \in SUBSET Conditional, Launch(failed) PROVE UpToDate'
  BY <1>2, NothingBefore DEF Launch, UpToDate
<1>3. ASSUME NEW w \in Workers, CommitStep(w) PROVE UpToDate'
  <2>1. work'[w].at = "idle"
    BY <1>3 DEF CommitStep, IdleWork, Inv, TypeOK
  <2> QED BY <2>1 DEF UpToDate, OneAtATime
<1>4. ASSUME Next, \A w \in Workers : ~CommitStep(w), \A failed \in SUBSET Conditional : ~Launch(failed)
      PROVE  UpToDate'
  <2>1. \A s \in Steps : Done(s)' <=> Done(s)
    BY <1>4, DoneStays
  <2>3. ASSUME NEW w \in Workers, NEW s \in Steps, LockStep(w, s) PROVE UpToDate'
    <3>1. work'[w].at = "list"
      BY <2>3 DEF LockStep, Inv, TypeOK
    <3> QED BY <3>1 DEF UpToDate, OneAtATime
  <2>4. ASSUME NEW w \in Workers, ListPending(w) PROVE UpToDate'
    <3>1. work'[w].at = "resolve" /\ \A s \in work'[w].pending : s \in Steps /\ step[s] = "pending"
      BY <2>4 DEF ListPending, Inv, TypeOK
    <3>2. UNCHANGED step
      BY <2>4 DEF ListPending
    <3> QED BY <3>1, <3>2 DEF UpToDate, OneAtATime, Done
  <2>5. ASSUME NEW w \in Workers, ResolveReady(w) PROVE UpToDate'
    <3>1. /\ work'[w].at = "activate" /\ work'[w].step = work[w].step
          /\ work'[w].ready = Ready(w)
      BY <2>5 DEF ResolveReady, Inv, TypeOK
    <3>2. UNCHANGED step /\ work[w].at = "resolve"
      BY <2>5 DEF ResolveReady
    <3> QED BY <3>1, <3>2 DEF UpToDate, OneAtATime, Done, Ready
  <2>6. ASSUME NEW w \in Workers, ActivateAndCount(w) PROVE UpToDate'
    <3>1. /\ work'[w].at = "count" /\ work'[w].step = work[w].step
          /\ work'[w].ready = work[w].ready
      BY <2>6 DEF ActivateAndCount, Inv, TypeOK
    <3>2. UNCHANGED step /\ work[w].at = "activate"
      BY <2>6 DEF ActivateAndCount
    <3> QED BY <3>1, <3>2 DEF UpToDate, OneAtATime, Done
  <2>7. CASE UNCHANGED work
    <3>1. ASSUME NEW w \in Workers
          PROVE  /\ work[w].at = "resolve" => work[w].pending \subseteq Steps
                 /\ work[w].at \in {"activate", "count"} => work[w].ready \subseteq Steps
      BY WorkFields DEF Inv, TypeOK
    <3>2. \A s \in Steps : Deps[s] \subseteq Steps
      BY WorkflowAssumption
    <3> QED BY <2>1, <2>7, <3>1, <3>2 DEF UpToDate
  <2>8. ASSUME NEW w \in Workers, RollbackWork(w) PROVE UpToDate'
    <3>1. work'[w].at = "idle"
      BY <2>8 DEF RollbackWork, IdleWork, Inv, TypeOK
    <3> QED BY <3>1 DEF UpToDate, OneAtATime
  <2> QED BY <1>4, <2>3, <2>4, <2>5, <2>6, <2>7, <2>8
          DEF Next, WorkerStep, LockInstance, CommitChange, RollbackChange,
              RequestApproval, DecideApproval
<1> QED BY <1>1, <1>2, <1>3, <1>4

LEMMA AlwaysUpToDate == ASSUME OneAtATime PROVE Spec => []UpToDate
<1>1. Init => UpToDate
  BY DEF Init, IdleWork, UpToDate
<1>2. UpToDate /\ Inv /\ [Next]_vars => UpToDate'
  BY UpToDateStays
<1> QED BY <1>1, <1>2, Invariance, PTL DEF Spec

\* "A step activates only when all declared dependencies are complete"
\* (docs/WORKFLOW_PROCESS_AUTOMATION.md): so it is at the commit of
\* complete_step if completions do not overlap, whatever managers do meanwhile.
THEOREM InOrderOneByOne == OneAtATime /\ Spec => ActivatesInOrder
<1> DEFINE A == \A s \in Steps : step[s] = "pending" /\ step'[s] = "active" =>
                  \A d \in Deps[s] : step'[d] \in {"completed", "skipped"}
<1> SUFFICES ASSUME OneAtATime PROVE Spec => ActivatesInOrder
  OBVIOUS
<1>1. Inv /\ UpToDate /\ [Next]_vars => [A]_vars
  <2> SUFFICES ASSUME Inv, UpToDate, Next, NEW s \in Steps, step[s] = "pending", step'[s] = "active",
                      NEW d \in Deps[s]
               PROVE  step'[d] \in {"completed", "skipped"}
    OBVIOUS
  <2>1. CASE \E failed \in SUBSET Conditional : Launch(failed)
    BY <2>1 DEF Launch, Inv, LaunchOK
  <2>2. ASSUME NEW w \in Workers, CommitStep(w) PROVE step'[d] \in {"completed", "skipped"}
    <3>1. work[w].at = "count" /\ d \in Steps
      BY <2>2, WorkflowAssumption DEF CommitStep
    <3>2. s \in work[w].ready
      BY <2>2 DEF CommitStep
    <3>3. \A x \in work[w].ready : ~Done(x) /\ \A y \in Deps[x] : Done(y) \/ y = work[w].step
      BY <2>2, <3>1 DEF UpToDate
    <3>4. d = work[w].step \/ (Done(d) /\ d \notin work[w].ready)
      BY <3>2, <3>3
    <3> QED BY <2>2, <3>1, <3>4 DEF CommitStep, Done
  <2>3. ASSUME NEW m \in Managers, CommitChange(m) PROVE FALSE
    <3>1. manage[m].action \in Actions
      BY <2>3, ManageFields DEF CommitChange, Inv
    <3>2. step[s] \in Touches[manage[m].action] /\ step'[s] = MakesOf[manage[m].action]
      BY <2>3 DEF CommitChange
    <3> QED BY <3>1, <3>2, TouchesType
  <2>4. CASE UNCHANGED step
    BY <2>4
  <2> QED BY <2>1, <2>2, <2>3, <2>4
          DEF Next, WorkerStep, LockStep, ListPending, ResolveReady, ActivateAndCount,
              RollbackWork, LockInstance, RollbackChange, RequestApproval, DecideApproval
<1>2. Spec => [][A]_vars
  BY <1>1, AlwaysUpToDate, Invariance, PTL DEF Spec
<1> QED BY <1>2 DEF ActivatesInOrder


----------------------------------------------------------------------------
\* Of any steps there is one that depends on none of them: the trigger
\* validate_workflow_dependency accepts no circular dependency.
Acyclic == \A S \in SUBSET Steps : S # {} => \E s \in S : Deps[s] \cap S = {}

\* No completions at once, no manager, no step skipped at the launch.
Plain == OneAtATime /\ Acyclic /\ Steps # {} /\ Managers = {} /\ Conditional = {}

\* What a completion has read and has still to do.
CompletesAll(w) ==
  /\ work[w].at = "resolve" => {s \in Steps : step[s] = "pending"} \subseteq work[w].pending
  /\ work[w].at \in {"activate", "count"} =>
       \A s \in Steps : step[s] = "pending" =>
         s \in work[w].ready \/ \E d \in Deps[s] : ~Done(d) /\ d # work[w].step
  /\ work[w].at = "count" /\ ~work[w].last =>
       \E s \in Steps \ {work[w].step} : s \in work[w].ready \/ step[s] \in {"active", "pending", "paused"}

\* Every pending step waits for one that is not done, and an active instance
\* has a step that is not.
FlowOK ==
  /\ \A s \in Steps : step[s] = "pending" => \E d \in Deps[s] : ~Done(d)
  /\ instance # "none" => \A s \in Steps : step[s] \in {"pending", "active", "completed"}
  /\ instance = "active" => \E s \in Steps : step[s] \in {"active", "pending"}

FlowInv == FlowOK /\ \A w \in Workers : CompletesAll(w)

LEMMA LaunchFlows ==
  ASSUME Plain, Inv, FlowInv, NEW failed \in SUBSET Conditional, Launch(failed) PROVE FlowInv'
<1>1. failed = {} /\ instance' = "active"
  BY DEF Plain, Launch
<1>2. step' = [s \in Steps |-> IF Deps[s] = {} THEN "active" ELSE "pending"]
  BY <1>1 DEF Launch
<1>3. \A w \in Workers : work'[w].at = "idle"
  BY NothingBefore DEF Launch
<1>4. \A s \in Steps : Deps[s] \subseteq Steps
  BY WorkflowAssumption
<1>5. PICK s \in Steps : TRUE
  BY DEF Plain
<1> QED BY <1>1, <1>2, <1>3, <1>4, <1>5 DEF FlowInv, FlowOK, CompletesAll, Done

\* A step that commits nothing, and takes its worker to a place where it does all.
LEMMA GoesOn ==
  ASSUME Plain, FlowInv, UNCHANGED <<step, instance>>, NEW w \in Workers, CompletesAll(w)' PROVE FlowInv'
BY DEF Plain, OneAtATime, FlowInv, FlowOK, Done

LEMMA CommitFlows ==
  ASSUME Plain, Inv, FlowInv, NEW w \in Workers, CommitStep(w) PROVE FlowInv'
<1>1. /\ work[w].at = "count" /\ work'[w].at = "idle"
      /\ step' = [s \in Steps |-> IF s = work[w].step THEN "completed"
                                  ELSE IF s \in work[w].ready THEN "active" ELSE step[s]]
      /\ instance' = IF work[w].last THEN "completed" ELSE instance
  BY DEF CommitStep, IdleWork, Inv, TypeOK
<1>2. work[w].step \in Steps /\ step[work[w].step] = "active" /\ work[w].last \in BOOLEAN
  BY <1>1, WorkFields DEF Inv, TypeOK, LocksOK
<1>3. instance # "none"
  BY <1>2 DEF Inv, LaunchOK
<1>4. \A s \in Steps : Deps[s] \subseteq Steps
  BY WorkflowAssumption
<1>5. ASSUME NEW s \in Steps, step'[s] = "pending" PROVE \E d \in Deps[s] : ~Done(d)'
  <2>1. step[s] = "pending" /\ s \notin work[w].ready
    BY <1>1, <1>5
  <2>2. PICK d \in Deps[s] : ~Done(d) /\ d # work[w].step
    BY <1>1, <2>1 DEF FlowInv, CompletesAll
  <2>3. step'[d] \in {step[d], "active"}
    BY <1>1, <1>4, <2>2
  <2> QED BY <2>2, <2>3 DEF Done
<1>6. \A s \in Steps : step'[s] \in {"pending", "active", "completed"}
  BY <1>1, <1>3 DEF FlowInv, FlowOK
<1>7. ASSUME instance' = "active" PROVE \E s \in Steps : step'[s] \in {"active", "pending"}
  <2>1. ~work[w].last
    BY <1>1, <1>2, <1>7
  <2>2. PICK s \in Steps \ {work[w].step} : s \in work[w].ready \/ step[s] \in {"active", "pending", "paused"}
    BY <1>1, <2>1 DEF FlowInv, CompletesAll
  <2>3. step[s] # "paused"
    BY <1>3, <2>2 DEF FlowInv, FlowOK
  <2> QED BY <1>1, <2>2, <2>3
<1>8. \A v \in Workers : CompletesAll(v)'
  BY <1>1 DEF Plain, OneAtATime, CompletesAll
<1> QED BY <1>5, <1>6, <1>7, <1>8 DEF FlowInv, FlowOK

LEMMA FlowStays ==
  ASSUME Plain, Inv, FlowInv, [Next]_vars PROVE FlowInv'
<1>1. CASE UNCHANGED <<instance, step, work>>
  BY <1>1 DEF FlowInv, FlowOK, CompletesAll, Done
<1>2. ASSUME NEW w \in Workers, NEW s \in Steps, LockStep(w, s) PROVE FlowInv'
  <2>1. work'[w].at = "list" /\ UNCHANGED <<step, instance>>
    BY <1>2 DEF LockStep, Inv, TypeOK
  <2> QED BY <1>2, <2>1, GoesOn DEF CompletesAll
<1>3. ASSUME NEW w \in Workers, ListPending(w) PROVE FlowInv'
  <2>1. /\ work'[w].at = "resolve" /\ UNCHANGED <<step, instance>>
        /\ work'[w].pending = {s \in Steps : step[s] = "pending"}
    BY <1>3 DEF ListPending, Inv, TypeOK
  <2> QED BY <1>3, <2>1, GoesOn DEF CompletesAll
<1>4. ASSUME NEW w \in Workers, ResolveReady(w) PROVE FlowInv'
  <2>1. /\ work'[w].at = "activate" /\ work'[w].step = work[w].step /\ work'[w].ready = Ready(w)
        /\ work[w].at = "resolve" /\ UNCHANGED <<step, instance>>
    BY <1>4 DEF ResolveReady, Inv, TypeOK
  <2>2. \A s \in Steps : step[s] = "pending" =>
          s \in Ready(w) \/ \E d \in Deps[s] : ~Done(d) /\ d # work[w].step
    BY <1>4, <2>1 DEF FlowInv, CompletesAll, Ready
  <2>3. CompletesAll(w)'
    BY <2>1, <2>2 DEF CompletesAll, Done
  <2> QED BY <1>4, <2>1, <2>3, GoesOn
<1>5. ASSUME NEW w \in Workers, ActivateAndCount(w) PROVE FlowInv'
  <2>1. /\ work'[w].at = "count" /\ work'[w].step = work[w].step /\ work'[w].ready = work[w].ready
        /\ work'[w].last = (Remaining(w) = {})
        /\ work[w].at = "activate" /\ UNCHANGED <<step, instance>>
    BY <1>5 DEF ActivateAndCount, Inv, TypeOK
  <2>2. CompletesAll(w)'
    BY <1>5, <2>1 DEF FlowInv, CompletesAll, Done, Remaining
  <2> QED BY <1>5, <2>1, <2>2, GoesOn
<1>6. ASSUME NEW w \in Workers, RollbackWork(w) PROVE FlowInv'
  <2>1. work'[w].at = "idle" /\ UNCHANGED <<step, instance>>
    BY <1>6 DEF RollbackWork, IdleWork, Inv, TypeOK
  <2> QED BY <1>6, <2>1, GoesOn DEF CompletesAll
<1>7. CASE \E failed \in SUBSET Conditional : Launch(failed)
  BY <1>7, LaunchFlows
<1>8. CASE \E w \in Workers : CommitStep(w)
  BY <1>8, CommitFlows
<1>9. Managers = {}
  BY DEF Plain
<1> QED BY <1>1, <1>2, <1>3, <1>4, <1>5, <1>6, <1>7, <1>8, <1>9
        DEF Next, WorkerStep, RequestApproval, DecideApproval, vars

\* Where completions do not overlap, nobody pauses or cancels the instance and
\* the launch skips nothing, no step of a template without cycles is forgotten:
\* between requests an active instance has an active step, and every pending
\* one waits for a step that is not done (complete_step).
THEOREM NothingForgottenOneByOne == Plain /\ Spec => []NothingForgotten
<1> SUFFICES ASSUME Plain PROVE Spec => []NothingForgotten
  OBVIOUS
<1>1. Init => FlowInv
  BY DEF Init, IdleWork, FlowInv, FlowOK, CompletesAll
<1>2. FlowInv /\ Inv /\ [Next]_vars => FlowInv'
  BY FlowStays
<1>3. FlowInv => NothingForgotten
  <2> SUFFICES ASSUME FlowInv, instance = "active" PROVE \E s \in Steps : step[s] = "active"
    BY DEF NothingForgotten, FlowInv, FlowOK
  <2> DEFINE S == {s \in Steps : step[s] \in {"active", "pending"}}
  <2>1. S # {} /\ S \in SUBSET Steps
    BY DEF FlowInv, FlowOK
  <2>2. PICK s \in S : Deps[s] \cap S = {}
    BY <2>1 DEF Plain, Acyclic
  <2>3. \A d \in Deps[s] : d \in Steps /\ Done(d)
    BY <2>2, WorkflowAssumption DEF FlowInv, FlowOK, Done
  <2> QED BY <2>2, <2>3 DEF FlowInv, FlowOK
<1> QED BY <1>1, <1>2, <1>3, Invariance, PTL DEF Spec
=============================================================================
