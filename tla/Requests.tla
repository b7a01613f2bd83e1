------------------------------ MODULE Requests ------------------------------
(***************************************************************************)
(* What the services of Client360 have in common when several requests are *)
(* served at once: each is a thread with one transaction at a time, at READ*)
(* COMMITTED.  A service that reads, decides and then writes by id is two  *)
(* steps of its request; what it read is in its record of job.  A service  *)
(* whose writes do not depend on what it read, and one that locks the row  *)
(* it reads, is a single step.                                             *)
(***************************************************************************)
EXTENDS Integers, Sequences, FiniteSets

CONSTANTS
  Requests,    \* threads that serve requests or run jobs
  None,        \* NULL
  Budgets      \* bounds: how many requests arrive in all is one of these

ASSUME BudgetAssumption == Budgets \subseteq Nat

\* A row stored under its key, new or in the place of the one that was there.
Put(rows, key, row) == [k \in DOMAIN rows \cup {key} |-> IF k = key THEN row ELSE rows[k]]

VARIABLES
  job,    \* thread -> its local variables, or Idle
  budget  \* requests that may still arrive

requestVars == <<job, budget>>

\* A thread that is not serving a request.  The fields are used as the
\* services need them: where it is, the row it is about, what it has read of
\* it, and what it still has to do.
Idle == [at |-> "idle", row |-> None, seen |-> None, todo |-> {}]

RequestInit == job = [r \in Requests |-> Idle] /\ budget \in Budgets

Waits(r) == job[r] = Idle
Serves(r, place) == job[r].at = place

Arrives == budget > 0 /\ budget' = budget - 1

\* A request that is served in one step.
Serve == Arrives /\ UNCHANGED job

Local(r, place, row, seen, todo) ==
  job' = [job EXCEPT ![r] = [at |-> place, row |-> row, seen |-> seen, todo |-> todo]]

\* The thread takes up a request, or goes on with it, with the locals given.
Starts(r, place, row, seen, todo) == Waits(r) /\ Arrives /\ Local(r, place, row, seen, todo)
Goes(r, place, row, seen, todo) == Local(r, place, row, seen, todo) /\ UNCHANGED budget

\* The request is answered, or its transaction is rolled back.
Ends(r) == job' = [job EXCEPT ![r] = Idle] /\ UNCHANGED budget

\* The thread dies between two transactions, or in one, which is rolled back.
Dies(r) == ~Waits(r) /\ Ends(r)
=============================================================================
