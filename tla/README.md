# Client360: a specification of its services

Client360 (`src/`) is the back office of a wealth, tax, insurance and benefits firm: a
FastAPI application over PostgreSQL, with APScheduler jobs in the same process. Its core is
not any one page but a set of services that move records through approved lifecycles while web
requests, detector scans, sync jobs and timers act on the same rows. This directory models
those services in TLA+, checks them with TLC and proves the central facts with TLAPS.

Everything below refers to files relative to `src/`.

## 1. Inventory

### 1.1 How the program runs

* Requests run in threads (`app/routes/*`), each service call opens its own connection or
  transaction (`engine.connect()`, `engine.begin()`); PostgreSQL is at its default isolation
  level, READ COMMITTED. There is no application-level lock.
* `app/jobs/scheduler.py` runs jobs in the web process with `max_instances=1`,
  `coalesce=True`: a job never overlaps *itself*, but it overlaps requests, the other jobs,
  and the manual endpoints for the same work.
* A service publishes audit and timeline records after its commit, in further transactions.
* So the units of atomicity are: one statement, when the code takes no row lock; one
  transaction, when it locks the row it is about (`SELECT ... FOR UPDATE`). Between any two
  of them everybody else may commit, and the process may die.

The models take their actions at exactly this grain.

### 1.2 Components

| Component | State | Operations | Hard part | Status |
|---|---|---|---|---|
| **Exception Engine** `services/exception_engine.py` | `exceptions` (partial unique index on `dedupe_key` over active rows), append-only `exception_events` | raise (find active / re-activate resolved / insert), transitions, escalate, resolve, reopen, cancel, assign, comment; publish | raise and comment take no lock; the index and an `except IntegrityError` stand in for one | modelled, proved |
| **Exception SLA sweep** `services/exception_sla.py` | level, `last_notified_at`, `notification_count` | every 5 minutes: escalate breached rows up to a cap, warn once, notify | works from one snapshot; three transactions per row; one failure ends the sweep | modelled, proved |
| **Exception detectors** `services/{tax_exception,insurance,benefits}_detectors.py` | source records and the exceptions of a dedupe family | read conditions, raise, flip overdue reviews, close what cleared | conditions are stale when acted on; scheduled and manual scans overlap; two-step close | modelled, proved |
| **Tax exception scan** `services/tax_exception_detectors.py` | one return and its papers | fifteen detectors in order, beside `transition_return` | nothing isolates one detector from another; scan and transition share keys | modelled, proved |
| **Tax return lifecycle** `services/tax_return_lifecycle.py` | status, lifecycle ledger, reviews, approvals, filing ledger | transition, review, client decision, filing update, workflow sync | status is read without a lock; decision and move are two transactions; hooks after the commit | modelled, proved |
| **Workflow automation** `services/workflow_automation.py` | instances, steps, approvals | launch, complete step, pause/resume/cancel/complete/reopen, approvals | each completion locks only its own step | partly, proved |
| **Insurance commissions** `services/insurance_commissions.py` | entries, statements, lines | expected entries, payments, write-off, correction, import, reconciliation | amounts and statuses are read and written by id without locks | modelled, proved |
| **Insurance cases, policies, reviews** `services/insurance.py` | statuses, requirements, riders, reviews | status updates, completion with next review | completions overlap under a unique key | modelled, proved |
| **Producer licensing** `services/insurance_licensing.py` | licenses, education | record, update; the reminder scan and its counts | counts are differences of two snapshots | modelled, proved |
| **Benefit plans, enrollment, conditions** `services/benefits_{domain,enrollment,detectors}.py` | plans, years, employments, elections | create, status, terminate, life event, elect | three conditions share one population and its dates | partly, proved |
| **Benefit obligations** `services/benefits_obligations.py` | obligations with a materialization key | create, renewal calendar, update, complete, next occurrence, nightly job | crash between completion and next occurrence; February 29 | modelled, proved |
| **Work assignments** `services/work_management.py`, `*_work.py` | `record_assignments`, owner cache | assign, reassign, deactivate, rules, sync owner | check-then-insert; two routes to the same rows, of which one keeps the owner cache | modelled, proved |
| **Tax intake** `services/tax_intake.py` | letter, forms, checklist, milestones | launch, save, submit, milestones | a chain of transactions over several services | modelled, proved |
| **Tax document intelligence** `services/tax_document_intelligence.py` | links, missing items | ingest, review, recompute | an old decision against a newer one | partly, proved |
| **Tax engagements** `services/tax_domain.py` | returns, deadlines, rules | open, override, publish a rule, list | seven transactions one after the other | modelled, proved |
| **Engagements of other lines** `services/engagement_service.py` | status, day of closing | open, set status | the day is read before it is set | modelled, proved |
| **Microsoft 365** `jobs/microsoft_*`, `routes/microsoft365_*`, `services/microsoft_identity.py` | account and tokens, delta link, imported rows, review queues, timeline | sign in/out, sync of documents, mail, meetings; reviews | link written after the rows; tokens refreshed minutes after they were read | modelled, proved |
| **Client portal** `portal/service.py` | invitations, sessions, grants, threads, receipts, notices | invite, accept, sign in, revoke, write, read, deliver | one link in two requests; people move between households | modelled, proved |
| **Identity resolution** `matching/`, `routes/matches.py`, `services/person_merge.py` | contacts, plan file, decisions, persons | import, plan, decide, merge | the plan is read anew at every request and addressed by position; merge before decision | modelled, proved |
| **Importers and portfolio** `services/portfolio_import.py`, `importers/schwab.py` | accounts, positions, import runs | import, list, owner by e-mail | one branch decides which event a change is | modelled, proved |
| **Organizations and relationships** `services/relationships.py`, `organization_service.py`, `routes/households.py` | edges, organizations, lines, roles, ownership, members | add, end, list, search | event and assignment follow in later transactions | modelled, proved |
| **Person record** `services/{documents,notes,timeline,...}.py` | notes file, tasks, files on disk, signatures, events | save, complete, store, archive, apply provider events | record first, event later | modelled, proved |
| **Authorization and sessions** `security/`, `services/identity.py` | users, sessions, roles, teams, assignments | sign in, disable, compose, assign, scope | two scope predicates with their own tests of user, team and date | partly, proved |
| Dashboards, reports and pages | none | queries and rendering | none | left out |
| Provider adapters | none | null implementations | none | left out |
| Register builders `scripts/registers/` | none | input to output | none | left out |

(Paths are below `app/`.) `PROJECT.json` has the same list with all sources of each part,
what its model leaves out, and, under `hazards`, what can go wrong where, with the properties
that would notice.

### 1.3 How they interact

```
 requests ---------------+------------------+---------------------+
                         v                  v                     v
 scheduler -> detectors -> Exception Engine <- transition_return <- reviews, client,
     |                      ^      ^   |             |              filing, workflow sync
     +--> SLA sweep --------+      |   v             |
     |                  work mgmt -+  ledger,        +-> reads blockers before closing,
     |                                audit              raises / closes filing blockers
     +--> nightly materialization of obligations
     +--> Microsoft 365 syncs ----> timeline <---- notes, tasks, signatures, portal,
                                        ^          relationships
 reviewers, importers ------------------+
 opening of a tax engagement -> workflow -> assignment -> intake -> portal requests
```

Every arrow into the engine is a call of one of its operations, each a transaction of its
own. The engine never calls back. `transition_return` reads the open blockers of a return
from the engine's table and, after its commit, raises or resolves filing blockers there.
The workflow engine completes steps whose names the return lifecycle reads as milestones.

This is why the composition is by contract: `ExceptionLifecycle` states what any user of
the engine may see a status do; the engine and the sweep are each shown to implement it,
and the detectors, the tax scan and the return lifecycle model the engine's calls as single
steps that obey it.

The other services have one thing in common: a request serves one call at a time, and each
call is a read, a decision and a write, in one or several transactions. `Requests` states that
once: `job` is what each thread has read and still has to do, `Arrives`, `Goes`, `Ends` and `Dies` are
its steps. Every module that extends it is about *two* such threads, one of which may be the
scheduler's, and about the places where one of them may die. Beyond the thread model the
services of `MCPractice` and `MCClients` share no tables (the exceptions they raise are the
engine's, which the first six modules are about).

## 2. Modules

| Module | Stands for | Checked by |
|---|---|---|
| `ExceptionRules` | status sets, `TRANSITIONS`, the capability a resolution needs | all `Exception*`, `DetectorScan` |
| `ExceptionLifecycle` | abstract specification of the status column | instantiated by the two below |
| `ExceptionEngine` | the engine, statement by statement | `MCExceptionEngine`, `ExceptionEngineProofs` |
| `ExceptionSla` | the sweep, against staff moves and crashes | `MCExceptionSla`, `ExceptionSlaProofs` |
| `DetectorScan` | one dedupe family's scan | `MCDetectorScan`, `DetectorScanProofs` |
| `TaxReturn` | the lifecycle of one return | `MCTaxReturn`, `TaxReturnProofs` |
| `WorkflowInstance` | one workflow instance | `MCWorkflowInstance`, `WorkflowInstanceProofs` |
| `Requests` | threads that serve requests | every module below |
| `InsuranceCommissions` | the commission ledger of a policy | `MCPractice`, `PracticeProofs` |
| `InsuranceRecords` | policy, case, requirements, reviews | `MCPractice`, `PracticeProofs` |
| `ProducerLicensing` | licenses, education, their reminders | `MCPractice`, `PracticeProofs` |
| `BenefitRoster` | plans, employees, elections, conditions | `MCPractice`, `PracticeProofs` |
| `BenefitObligations` | the compliance calendar | `MCPractice`, `PracticeProofs` |
| `WorkAssignments` | the assignments of one exception | `MCPractice`, `PracticeProofs` |
| `TaxIntake` | intake, documents and requests of one return | `MCPractice`, `PracticeProofs` |
| `MicrosoftDocuments`, `MicrosoftAccount`, `MicrosoftInbox` | one drive; the connected account; mail and meetings | `MCClients`, `MicrosoftProofs` |
| `IdentityMatching` | contacts, merge plan, decisions, persons | `MCClients`, `MicrosoftProofs` |
| `Portfolio` | account and position exports | `MCClients`, `MicrosoftProofs` |
| `Relationships`, `Households` | the graph; the members of households | `MCClients`, `ClientProofs` |
| `Portal` | the client portal | `MCClients`, `ClientProofs` |
| `PersonRecord` | notes, tasks, files, signatures, timeline | `MCClients`, `ClientProofs` |
| `StaffAccess` | sessions, roles, record scope | `MCClients`, `ClientProofs`; by itself in `staff_scope` |
| `TaxScan` | the fifteen tax detectors over one return | `MCClients`, `ClientProofs` |
| `TaxEngagements`, `Engagements` | opening a tax engagement; engagements of other lines | `MCClients`, `ClientProofs` |

### ExceptionEngine

`exceptions` and `events`/`notes` are the two tables (the ledger split into events that
change the status and events that repeat it), `audit` counts publications, `pc/arg/target/seen`
are the locals of each caller. `raise_exception` is `RaiseSelectActive`,
`RaiseSelectResolved`, then `RaiseReopen` or `RaiseInsert`, with `RaiseRejected` and
`RaiseConflict` for the unique index. Everything that locks its row is one action
(`Acknowledge`, ..., `Resolve`, `Assign`); `comment` is two; `Publish` follows every commit
and `Crash` may prevent it. Calls that are refused (no capability, illegal transition,
expected status not found) change nothing and are stutters.

### ExceptionSla

The sweep's `now`, the due time and `last_notified_at` are relative clocks (`dueIn`, `ago`),
cut off where the code cannot tell values apart, so behaviours are infinite and liveness is
meaningful. `SweepStart` takes the snapshot; per row `PassOver`, `SweepEscalate`,
`SweepAborted` or `SweepWarn`; then `Dispatch` and `Touch`. `auto` and `autoAgo` are history
variables for properties only. `MaxSweepTime < Cadence` is the one timing assumption: a sweep
over active rows takes less than the shortest cadence, an hour.

### DetectorScan

`source` is the condition of each record as the detector's SELECT sees it, `exc` the
status of the exception of each key, `scan` the locals of each scan: what it read, what it
still has to do, the key it is about. The actions follow `_reconcile`/`_auto_resolve`;
`FlipRead` and `FlipWrite` are the two statements of `_flip_overdue`. `family` is chosen once:
reviews, a family with isolated failures, or a tax family. A record holds or does not, and
changes at any moment; the conditions themselves are in `BenefitRoster` (benefits),
`ProducerLicensing` (licensing) and `TaxScan` (tax). `calm` and `settled` are history
variables.

### TaxReturn

`transition_return` is `ReadStatus`/`NoMove`, `PassGate`, `Write`, then the hooks
`RejectionHook` or `AcceptanceHook` and `CloseListed`. Its callers commit first and call it
after: `DecideReview`, `ClientDecision`, `FilingRead`/`FilingWrite`, `SyncWorkflow`,
`StaffTransition`. `blockers` is the engine as the gate sees it; detectors and staff raise and
close in it whenever they like. `Start` picks the part of the lifecycle a behaviour is about;
`Init` is the state the main path leaves there. `raised`, `since` and `lost` are history: what
was raised behind the back of a request that is past its gate, what was raised since the gate
of the request that closed the return, and whether a rejection's hook died with its request.

### WorkflowInstance

The variables are the committed rows. A worker's transaction keeps what it read and holds
its step and, after its updates, the rows it activates; a manager's transaction holds the
instance. Updates take effect at the commit, locks are waited for, and any transaction can
roll back. The pending steps and the completed ones are two SELECTs, as in the code.

### The practice: `InsuranceCommissions` to `TaxIntake`

* `InsuranceCommissions`: `ledger`, `statements` and `lines` are the three tables. A correction
  (`AdjustRead`, `AdjustWrite`), a single line (`LineRead`, `LineWrite`), the walk over a
  statement (`StatementRead`, then per line `WalkRead`, `WalkWrite`) and the roll-up are
  reads followed by writes by id. Amounts are cents, `TOLERANCE` one of them.
* `InsuranceRecords`: `StatusSet` stands for the updates of a status by id; a completion is
  `CompleteRead` and `CompleteWrite` with the insert of the next review in one transaction,
  which the unique key `<<kind, date>>` may refuse as a whole.
* `ProducerLicensing`: a scan is a snapshot (`ScanStart`), the read of the ends
  (`ReadEndings`), `Remind`, `ClearReminders` and `Report`, which takes the difference of the
  snapshots. This is `run_insurance_scan`, which the scheduler runs; the licensing part, called
  by itself, takes a pair of snapshots for each of its two families.
* `BenefitRoster`: every operation is one transaction; the point are the conditions, derived
  from the tables on the day `today`.
* `BenefitObligations`: `Complete` commits; `NextRead` and `NextInsert` follow in the request,
  `JobRead`, `JobCheck`, `JobInsert` in the nightly job. `NextYear` is `_next_year` with
  February 29.
* `WorkAssignments`: check for a primary, insert and owner cache are three transactions; an
  assignment ends at the end of `inactive`. `ROUTES` are the two ways to the same rows: the
  exception's routes bring the owner cache up to date (`OwnerSynced`), those of Work Management
  do not know of it. `trusted` and `met` are history: whether the last change of an owner came
  through the exception's routes, met nobody and was finished.
* `TaxIntake`: the launch with its chain of calls, uploads that the client makes to a request
  of the portal, ingestion, review (`ReviewRead`, `ReviewWrite`, with what else the code
  reverts; a classification names no item or one that has a checklist row, as the foreign key
  of the link has it), and the reconciliation of what is missing.

### What surrounds a client: the other modules

* `MicrosoftDocuments`: `log` is the drive's history, `link` a position in it. A sync fetches,
  stores (`SyncStore`) and publishes (`SyncPublish`) item by item and saves the link last.
* `MicrosoftAccount`: `account` is the row, `home` and `rows` history: where a sign-in was
  stored first. A job reads the row, obtains a token (`TokenValid`, `TokenRefreshed`) and
  records its outcome by id.
* `MicrosoftInbox`: mail and meetings, resolution to people by address, the review queues
  and the timeline each of them publishes to.
* `IdentityMatching`: `plan` is the file, read at each request; `DecideRead`, `MergeRead`,
  `MergeWrite` and `DecideWrite` are the transactions of a review.
* `Portfolio`: an import reads an export row by row (`ImportAccount`) and commits once; the list of
  accounts of `schwab.py` writes the same rows.
* `Relationships`: an edge, its event; an organization, the assignment of its creator, its
  audit. `GraphOf` and `Found` translate the two queries that show edges; `InScope` is the
  record scope of an organization, through the user, his teams or `record.write_all`.
* `Households`: `SaveMember` clears the marks of others and writes what it was asked for, in one
  step: the handler is a coroutine that awaits nothing after the body of its request, so that
  no other save runs in between.
* `Portal`: accounts (invitation, password, grant, sign-in) and messages (threads,
  receipts, notifications) with `Listed` as the query that decides what an account finds.
* `PersonRecord`: each write of a record and each event after it. `untold` is history: people
  whose notes were saved by a request that died before the event, until the next save tells one.
* `StaffAccess`: `composition` has a role's rows with their identity, because a delete that
  waited does not remove a row that was inserted meanwhile (`Remaining`). Roles held,
  memberships and assignments have the dates of their rows. `HasRecordScope` (opening, in
  `policy.py`) and `InReach` with `Active` and `TeamIds` (listing, in `authorization.py`) are
  translated separately, each with its own date test.
* `TaxScan`: `Condition` has the fifteen conditions of one return, `DETECTORS` the order in which
  they are looked at; `Apply`, `BeginWork`, `AutoResolve` are the engine's transactions, a
  refused one ends the scan.
* `TaxEngagements`: `OpenReturn` and the six transactions after it. `Engagements`: `StatusStart`
  reads, `StatusWrite` writes.

## 3. Runs

Every property of a passing run has a mutant in `PROJECT.json`: an operator next to the
definition it replaces, changed the way a plausible bug would change the code, under which
TLC finds that property violated.

| Run | States | Bounds | What it shows |
|---|---|---|---|
| `engine_race` | 1,084,440 | a system job and an advisor, 1 key, 2 rows which compliance resolves, 5 events (3 beside a note), 1 note, level 1 | two raises, a raise against reopen/cancel/escalate, late comments, lost publications: dedupe and ledger, refinement of `ExceptionLifecycle` |
| `engine_cancelled` | violation | 2 callers, 1 row | see 6 |
| `sla_sweep` | 531,522 | 2 exceptions, cadence 3, sweep time 1, 1 staff move, 1 crash | stale snapshots and aborted sweeps; the cap is reached and not passed |
| `detector_scans` | 638,497 | 2 records, 2 scans, 2 record changes, 2 staff moves, 1 crash | agreement after an undisturbed scan, idempotence, convergence |
| `return_lives` | 2,895,193 | five stretches: filing, review and closing beside a detector, each with 2 requests, 1 crash, 2 events; a forced close with 2 requests, 1 event; from filing to the archive with 1 request, 1 crash, 6 events | both ledgers, idempotency keys, decisions, the gate and what it misses |
| `return_decision` | violation | 1 request, 2 events | see 6 |
| `workflow_race` | 186,843 | 4 steps (a diamond), 3 workers, 2 managers, 2 approvals | dependencies and the last step under concurrency |
| `workflow_join` | violation | the same diamond | see 6 |
| `workflow_order` | violation | 4 steps: one waits for the first, the last for that one and a third that waits for nothing | see 6 |
| `practice` | 746,815 | 2 requests; 4 calls on commissions, records, obligations and licensing, 3 on roster and work, 5 on the intake | what holds of ledgers, calendars and checklists although nothing is locked |
| `staff_scope` | violation | 1 user, 1 team, 1 record, 2 days, 2 calls | see 6 |
| `clients` | 802,619 | 2 requests; calls: documents 4, account 6, inbox 4, identity 5, portfolio 6, relations 3, households 4, portal 5, record 4, staff 3, scan 2, opening 3, engagement 4 | what syncs, reviews, imports and edits keep wherever one of two requests dies |

Why these bounds are enough to be interesting. A dedupe race needs two callers, one key and
a second row to collide with; five ledger events suffice for open, resolve, re-activate and
a move by the other caller in the middle. The SLA cap is three, so the row must be able to
escalate three times and be moved in between: relative time makes the number of sweeps
unbounded, only moves and crashes are counted. A second exception is needed for one row to
abort the sweep of another. A scan needs two keys so that one failed call can matter to another
key, and a second scan so that calls fail at all. The return stretches each start where two
requests can want different things of one status; six events lead from filing over a
rejection and a re-filing to the archive. The diamond is the smallest template with a join.

In `practice` and `clients` the parts share no state, so one of them is looked at at a time
(`part`) and the state spaces add up instead of multiplying. A budget counts the calls that
arrive; it is chosen per part so that the sequences the properties are about fit: a walk over
a statement beside a payment and a correction (4); completion, its retry and the job over a
leap day (4); launch, upload, two reviews and a retry (5); sign-in, disconnect and sign-in beside a
job (6); plan, decision, re-import, plan, decision (5); three exports and an edit of the
owner's address between them (6); an opening beside another and a published rule (3). How often a
step inside a call happens is not bounded. In `clients` the two requests are interchangeable and
declared symmetric: all its properties are invariants or action properties. `practice`, which
has a liveness property and a scheduler among its threads, declares no symmetry.

Deadlock checking is off only where the model may stop because its bounds are used up or
nobody calls any more (the engine, returns, `practice`, `clients` and the workflow
violations).

### Fairness

`ExceptionSla`: weak fairness of the sweep's steps and of time, because the scheduler keeps
starting the job every five minutes and the process keeps running after each of the finitely
many crashes. `DetectorScan`: weak fairness of the scheduled job's steps, for insurance and
benefits, which `start_scheduler` registers; none for manual scans, and none for the tax scan,
which no code in `app/` calls. `BenefitObligations`: weak fairness of the nightly job
(`JobNext`), which the benefits scan runs first; a crash ends one run, not the schedule.
Nothing is assumed of people anywhere: the other modules have no fairness and no liveness
properties.

## 4. Properties, and what they are for

* **Engine.** `OneActivePerKey` (the index makes up for the missing lock),
  `LedgerExplainsRow` and `ChainUnlessReactivated` (the ledger is the truth about the row, and
  the one operation that may break its chain is named), `ImplementsLifecycle`, and
  `RecordsHonest`: the level counts the escalations, a comment holds a status its row really
  had when it was read, and every publication that came due has an entry behind it.
* **Sweep.** `AutoEscalationsCapped` despite stale levels, `CountHonest` (the count misses a
  notification only because of a crash), `RepeatedSweepsDoNothing` (escalations are a cadence
  apart, without crashes), `BreachedReachesCap` (liveness).
* **Detectors.** `SettledAgrees` (after an undisturbed scan, exactly the records whose
  condition holds have a live exception, whatever other scans did meanwhile),
  `RescanChangesNothing` (idempotence), `Converges` (liveness).
* **Returns.** `LedgersAgree`, `DecisionsActOnce`, `BlockersFollow`: what blocks a return that was
  closed without force was raised after the closing request had looked, whoever raced it and
  died, and a rejected return has its exception unless the very request that had to raise it died.
* **Workflows.** `ActivatesAfterDependencies`, `NoStepLeftBehind`.
* **Practice.** `BooksAgree` (status and amounts, statement and lines, line and entry),
  `CompletionsWhole` (one next review, on the calendar, with an audit event),
  `NobodyOverlooked` (three conditions divide the employees without health coverage between
  them), `SeriesSound` (one occurrence per date, and every date exists),
  `NextOccurrenceOpens` (liveness: what a dead request did not open the job does),
  `OwnerHonest` (the owner an exception shows is one its assignments name), `ChecklistHonest` (received items have
  an accepted document, missing ones are on record), `ScansHonest` (one reminder per ending
  credential, and counts that add up).
* **Microsoft 365.** `DocumentsFollow` (the delta link never runs ahead; a document with a
  person is on a timeline), `DisconnectForgets` (no job revives a deleted sign-in),
  `MatchedIsShown`.
* **Identity, portfolio.** `DecisionsAgree` (approved means merged, one person per contact,
  the pending count is the list's length), `ClosureIsTold`.
* **Relations.** `RelationsShown` (event, search and graph, the creator's access),
  `HouseholdsAgree`.
* **Portal, record, staff.** `OnceEach`, `ThreadsKept`, `TimelineTells`, `OrdersHold` (a disabled
  user's sessions do not come back; a role is what one request composed). That what a user is
  assigned opens for him (`AssignmentsGrantAccess`) is what `staff_scope` refutes.
* **Tax scan, engagements.** `AlarmsAgree` (after a quiet scan exactly the conditions that hold
  have exceptions; the filing exceptions follow the return; a scan is cut short only by
  somebody who moved an exception), `OpeningIsWhole` (answered means complete, broken off means
  findable, deadlines are weekdays), `ClosedOnce`.

Some of these hold only outside the races the code does not exclude; the exception is then
part of the property, as a history variable named for it (`lost`, `cut`, `disturbed`,
`troubled`, `untold`, `late`, `meeting`, `twice`, `unsound`, `cutoff`, or `apart`, `alone`,
`trusted` where two requests must not meet at all). Those races are listed in 6.

## 5. Proofs

Eight modules prove, for all numbers of rows, keys, callers, requests, records and scans and
all bounds, what the runs check on small instances.

**Engine** (`ExceptionEngineProofs`). Assumptions: those `ExceptionEngine` states about its
constants (bounds are naturals, the null values are not values, `Can` is a function into
capabilities, the callers are finitely many). `TypeInv` is `TypeOK` plus `CallersOK`: a caller
at a label that uses its target has one. `TargetsPresent` adds that rows never disappear and a
re-activation is about a row that exists. `StepMoves` is the central lemma: every step is
*quiet* (tables keep rows and status ledger, except owners) or a *move* (one row changes and
one event is appended, under what the action's guard gives). `Safe`, the conjunction of
`OneActivePerKey`, `LedgerExplainsRow`, `ChainUnlessReactivated`,
`ResolutionOnlyWhenResolved` and `LevelCountsEscalations`, is then inductive relative to these
two, with one lemma per conjunct about moves instead of one per action. `OneActivePerKey` alone
is not inductive: that a move keeps it needs the guard against duplicates that `StepMoves`
extracts. `RecordsHold` needs `Told` besides: the status a pending comment has read is in the
ledger of its row for good, and the publications under way and done are no more than the
entries (which is where the finite number of callers is used). Refinement
(`EngineImplementsLifecycle`): a quiet step maps to a stutter, a move to `Open`, `Advance` or
`Reactivate`. `CancelledIsFinalOneByOne` delimits the finding of `engine_cancelled`: with one caller the row
a raise has selected is still resolved when it is re-activated (`StillResolved`), and a cancelled
exception stays cancelled.

**Sweep** (`ExceptionSlaProofs`). Assumptions: `SlaAssumption`. `AutoEscalationsCapped` is not
inductive, since a sweep decides on the level it read. `LevelInv` relates the three numbers
involved: for every row the sweep has not looked at, the sweeps' escalations are at most the
snapshot's level, which is at most the row's. `CountInv` says that until its touch the
snapshot's count is the row's, which is why the blind overwrite of `_touch` loses nothing:
only the sweep writes the column, and it does not overlap itself. `CadenceInv` relates the
notification column to the history of escalations (`SpacedOut`) and says which part of a
stale snapshot still holds (`ReadIsCurrent`): never notified, or cadence over. It holds until
a sweep dies, and only until then.

**Detectors** (`DetectorScanProofs`). Assumptions: `ScanAssumption`. `TypeInv` is `TypeOK` plus
`LocalsOK`, how what a scan read, still has to do and is doing relate at each of its places.
`SettledAgrees` says something of one moment, and needs what leads to it. As long as some scan
is undisturbed (`Calm`), every scan in flight is (`AllCalm`), since a disturbance is one for
all of them; each then knows exactly the records whose condition holds (`Fresh`); has raised,
flipped and closed what it no longer has to do (`RaisedSoFar`, `FlippedSoFar`, `ClosedSoFar`);
and what it listed as not started has not been started since unless another scan is about to
resolve it (`Listed`). The last one is the point: a call that fails because another scan was
faster leaves nothing undone, as the other is between its `begin_work` and its `resolve`, so
when the last scan ends nothing is. `RescansAreIdle` follows from agreement and `Fresh`.

**Returns** (`TaxReturnProofs`). Assumptions: `ReturnAssumption`. `CallOK` says of each request
that what it wants was an edge of what it read, which is all that survives other requests'
moves. `TokensOK` treats a decision as a token: it is in the hands of one request on its way,
or used by one event, never both. It is needed because `DecisionsActOnce` speaks of events
only and would be broken by a request that holds a decision another has used. `FollowInv`
carries the exceptions of a return, whatever requests, detectors and staff do at once: what is
open although a request found nothing at its gate was raised behind its back (`GateKept`), and
the request that closes the return hands that over to `since`; a rejection is on record, or the
request in its hook is about to record it, or that request died.

**Workflows** (`WorkflowInstanceProofs`). Assumptions: `WorkflowAssumption`. A worker's own step
stays active under its lock (`LocksOK`); what it is about to activate waits for nothing but
its own step (`ReadyOK`); whatever was done stays in `finished` (`FinishedOK`), though a
status may be overwritten. `LastOK` carries the completion of the instance: a worker that
counted nothing as remaining stays the only one, since nothing remains that anybody could lock.
Two more theorems delimit the findings of `workflow_order` and `workflow_join`: what the documentation says
holds where completions do not overlap. `InOrderOneByOne` needs that what a completion has read is still
so at its commit, whatever managers do (`UpToDate`). `NothingForgottenOneByOne` also excludes
managers and steps skipped at the launch (`Plain`; each leaves steps behind by itself) and uses that
templates have no cycles (`Acyclic`, which the trigger `validate_workflow_dependency` enforces); `FlowInv`
says that a completion has listed every pending step and activates each that waits for nothing else.

The remaining proofs are about the threads of `Requests`. They begin with the same few lemmas
(`LocalSteps`, `Calls`, `EndSteps`: a step changes the locals of its own thread only, and how)
and then say, for each place a thread can be at, what of its reads still holds there. Where a
property excepts a race by a history variable, the invariant says what that variable stands for:
as long as it has not been set, a thread that is between its read and its write is alone.

**Commissions** (`PracticeProofs`). Assumptions: `CommissionAssumption` and
`BudgetAssumption`. The invariant says what of an out-of-date read still holds at the write:
`Kept` is what every step keeps (rows are only added, a reconciled line stays so, a statement
gets no further lines after its import), so a roll-up computed from old lines claims too little
and never too much (`Backed`); `EntriesPaid` needs that no operation takes a received amount
away again.

**Obligations and reviews** (`PracticeProofs`). Assumptions: `ObligationAssumption`. What a
request or the job read of the obligations plays no role: uniqueness rests on the unique key
alone, and `NextYear` leads to a date that exists from any date that does. A completion of a
review does rest on what it read: that the next occurrence was there stays true until the write
because no step takes a review or its key away (`ReviewsKept`), and its audit event is written
before the row (`CompletionOK`).

**Roster, work, licensing** (`PracticeProofs`). Assumptions: `RosterAssumption`,
`KindAssumption`. That no employee is overlooked is a fact about the three conditions, of any
tables, and needs of the behaviour only that hire dates are days or unknown (`RosterTyped`). That the
owner of an exception is named by its assignments needs that a request nobody met is the only one
on its way to the cache, and that what it will write there still holds (`SyncsAlone`).
The reminders are like the detectors: undisturbed scans are undisturbed together (`EvenOK`), so
another scan can only do what this one would have done; a family that has been looked at has
exactly the reminders its credentials call for (`Done`, `Called`). A duplicate is excluded by the
index (`OneEach`). The counts add up because the rows of a snapshot still exist at the end of the
scan (`SnapshotsOK`); that is a fact about four disjoint sets (`DeltaAddsUp`) and holds whoever acted in between.

**Intake** (`PracticeProofs`). Assumptions: `ItemAssumption`. `ChecklistHonest` says of a required
item that is missing that it is *open* on the list of missing items. A review that reverts an item reopens an
entry if there is one; hence `OnRecord`: of a required item that has a row, a link, or a place in what a thread is
about to do, an entry has been made at some time, and entries are opened and resolved but never
deleted. What a recomputation and a review have read is up to date while threads are `apart`
(`Current`). The attempt to prove it corrected the model: a review could classify a link to an item
that has no row, which the foreign key excludes, and then revert it.

**Microsoft 365** (`MicrosoftProofs`). No assumption on the account beyond the budget's: what a job
holds, as what the account holds, is a row with a sign-in that was stored in that row; since row
ids are never reused, writing back by id can restore nothing that was deleted. Documents
(`DocumentAssumption`): each item of the drive's history that changed has a last change
(`LastChanges`, the one that `LastChange` chooses), and a sync that runs alone has stored every last
change it no longer has to do (`Settled`), first up to the position it fetched and, when it
saves that position, up to the link. Mail and meetings (`InboxAssumption`): a matched
row has been published, or the thread that will publish it is there, or it died (`cut`).

**Identity and portfolio** (`MicrosoftProofs`). Assumptions: `MatchingAssumption`,
`PortfolioAssumption`. An approved group is merged because the merge precedes the decision
(`DecidesWell`); one person per contact holds as long as decisions follow one another (`InTurn`), and needs that what
the merge read about a group's contacts is still all there is. The pending count is the list's length
because no group is in a plan twice, so that decided positions and decided groups are in bijection; that the
plan's groups are distinct rests on how `Nth` numbers the keys (`Numbered`). An import is alone (a job does not overlap itself),
so what it has written so far and what it has told agree (`WritesAreTold`).

**Staff, engagements, households** (`ClientProofs`). Assumptions: `StaffAssumption`,
`EngagementAssumption`. A session that lives was asked for after its user was last disabled
(`SignInInv`, which counts how often that was); a role outside the meetings has been read as it is by whoever composes it (`RoleInv`).
`ChangeOK`: a day of closing that was set stays set, and a change that met no other has read what
still holds. That a household has one head and a person one primary household is inductive with the
types of the tables (`HouseholdInv`): each save is one step, and takes the marks from whoever had them.

**Portal** (`ClientProofs`). `PortalInv` has one part for each thing that happens once: an accepted
invitation is a sign-in under way or a session (`SessionsOnce`), a receipt is stored or about to be
(`ReceiptsOnce`), a notice that went out is on record or about to be (`NoticesOnce`), a message a client may see is on
the timeline or about to be (`Told`). `ThreadsReach` is what a thread's author keeps whoever moves:
the grant by which it was opened names the household of the thread or its person.

**Relations, record, openings** (`ClientProofs`). Assumptions: `RelationAssumption`,
`RecordAssumption`, `OpeningAssumption`. All three are chains of transactions, and of each link one says that it is
written, or its request is at it, or its request died there: `ToldOf` and `SeenBy`; `NoteTold`, `DoneTold` and
`StatusTold`; `Chained`. For the record, that what the request is about to tell is what the row says needs
that it completes the task alone (`CompletedAlone`). A deadline is on a weekday by the arithmetic of
`BusinessDueDate` on any day (`OnWeekday`).

**Tax scan** (`ClientProofs`). `CalmInv` is the argument of the detectors without their calls in common: an
undisturbed scan has made the detectors before its present one agree, and what it has read of that one holds;
another undisturbed scan can only do the same. `FilingInv` is about scan *and* transition: outside
races (`unsound`) one transition at a time has a hook to run, what a scan has read about the filing is
what the last one left, and when no hook is pending the filing exceptions follow the stage. That
only a moved exception cuts a scan short follows from what a step may do to a status.

| Theorem | Property |
|---|---|
| `TypeCorrect`, `SlaTypeCorrect`, `ScanTypeCorrect`, `ReturnTypeCorrect`, `WorkflowTypeCorrect` | `TypeOK` (proved, no run repeats it) |
| `DedupeHolds`, `LedgerAgrees`, `ChainHolds` | `OneActivePerKey`, `LedgerExplainsRow`, `ChainUnlessReactivated` |
| `RecordsHold` | `RecordsHonest` |
| `ResolutionHolds`, `NoticesHold` | `ResolutionOnlyWhenResolved`, `NoticesNameReachedLevels` (proved, no run repeats them) |
| `EngineImplementsLifecycle`, `SlaImplementsLifecycle` | `ImplementsLifecycle` |
| `CapHolds`, `CountsHold`, `CadenceHolds` | `AutoEscalationsCapped`, `CountHonest`, `RepeatedSweepsDoNothing` |
| `AgreementHolds`, `RescansAreIdle` | `SettledAgrees`, `RescanChangesNothing` |
| `LedgersHold`, `DecisionsHold`, `ExceptionsFollow` | `LedgersAgree`, `DecisionsActOnce`, `BlockersFollow` |
| `DependenciesHold`, `LastStepHolds` | `ActivatesAfterDependencies`, `NoStepLeftBehind` |
| `CancelledIsFinalOneByOne` | `CancelledIsFinal`, with one caller |
| `InOrderOneByOne`, `NothingForgottenOneByOne` | `ActivatesInOrder`, `NothingForgotten`, with one completion at a time |
| `BooksHold`, `SeriesHold`, `ReviewsHold` | `BooksAgree`, `SeriesSound`, `CompletionsWhole` |
| `RosterIsWatched`, `OwnersHold` | `NobodyOverlooked`, `OwnerHonest` |
| `ChecklistsHold`, `ScansHold` | `ChecklistHonest`, `ScansHonest` |
| `DisconnectHolds`, `SyncsKeepUp`, `MatchesAreShown` | `DisconnectForgets`, `DocumentsFollow`, `MatchedIsShown` |
| `PlansHold`, `OwnersAreTold` | `DecisionsAgree`, `ClosureIsTold` |
| `OrdersAreKept` | `OrdersHold` |
| `ClosingsHold`, `HouseholdsHold`, `OpeningsHold` | `ClosedOnce`, `HouseholdsAgree`, `OpeningIsWhole` |
| `SessionsOpenOnce`, `ThreadsReachTheirReaders` | `OnceEach`, `ThreadsKept` |
| `AdditionsAreSeen`, `TimelineHolds` | `RelationsShown`, `TimelineTells` |
| `AlarmsHold` | `AlarmsAgree` |

Every safety and action property that a passing run checks is thereby proved as well, of the
specification of its component. Only model-checked remain the liveness properties
(`BreachedReachesCap`, `Converges`, `NextOccurrenceOpens`): fairness, as everything about
`ENABLED`, is out of the prover's reach, as is induction over recursive data. That the five violation runs have counterexamples is
TLC's to show.

## 6. Where code and documentation disagree

Five of these are runs that TLC must find violated; the others were met while modelling, are
part of the models as the code has them, and most are recorded with their hazards.

* **`engine_cancelled`.** A raise that selected a resolved row re-activates it by id even if
  it was reopened and cancelled in between; the engine's docstring promises that every
  mutation is validated against the current row.
* **`return_decision`.** A review or client decision is committed before the move it stands
  for is checked; where `TRANSITIONS` has no such edge the decision is spent and the return
  stays, against "Approval advances the return" / "Rejection returns the return to
  preparation" in `docs/TAX_RETURN_LIFECYCLE.md`.
* **`workflow_join`.** Two branches of a join completed by overlapping requests: neither
  sees the other, the join stays pending for good.
* **`workflow_order`.** A step that was listed as pending is made active again after another
  request activated it and a third completed it, beside the step that depends on it, against
  "A step activates only when all declared dependencies are complete" in
  `docs/WORKFLOW_PROCESS_AUTOMATION.md`.
* **`staff_scope`.** A record that is assigned to a user's team is listed for him, as
  `accessible_person_ids` and `organization_in_scope` take his active teams into account, and does
  not open: `has_record_scope` (`security/policy.py:12`) looks for assignments of the user
  alone. `docs/PRODUCTION_ARCHITECTURE.md:205` lets assignments of "user/team" grant access; line
  221 of the same document concedes that record scope is implemented in divergent ways.
* `_flip_overdue` checks a review and updates it without a lock, so a completion in between
  is overwritten, against its docstring (`insurance_detectors.py:134`).
* A sweep that dies between the escalation and `_touch` escalates again at once, against
  `exception_sla.py:5-7`.
* A step completion completes an instance that was paused meanwhile; steps behind skipped steps
  are never activated.
* `transition_return` does not look at the status again when it writes, so of two requests
  the second can move the return along an edge it does not have; a blocker raised between gate
  and write does not stop a close.
* `detect_filing_transmission_failure` excuses only returns that are `accepted`; once
  delivered, an old failure blocks completion.
* `write_off` calls a written-off entry terminal (`insurance_commissions.py:198`);
  `record_received` and `reconcile_line` look at no status and bring it back.
* `_sync_owner` keeps the owner cache "in step with the PRIMARY assignment only"
  (`exception_work.py:53`); `_OWNER_ROLES` has `owner` too, and the later of the two wins. What
  is assigned through Work Management (`routes/work.py`) never reaches the cache.
* `deactivate_assignment` sets `inactive_date` to the day of the call also where the assignment
  had ended before: the row is active again until midnight.
* `docs/TAX_ENGAGEMENT_INTAKE.md:48` lets the document gate follow the other three; an intake
  whose launch died before its items has none to wait for, and the gate is open.
* `tax_document_intelligence.py:403` promises that an old decision cannot overwrite a newer
  one; the guard is read without a lock, so of two at once the later write wins.
* `matches.py:182` locks an approved merge; it is locked by the group's key, so that a plan made
  anew over a larger group asks about its contacts again.
* "Stable idempotency keys prevent repeat delivery records" (`docs/CLIENT_PORTAL.md:46`): the
  record is unique, the delivery before it is not when two requests meet.
* The "honest" counts of a scan (`insurance_detectors.py:83`) are differences of two
  snapshots and include what staff did between them; they still add up (`CountsAddUp`).
* `fail_import_job` (`importers/schwab.py:170`) writes in the transaction that the error rolls back,
  so no failed job is on record; `record_ownership` (`organization_service.py:343`) goes on after
  an `IntegrityError` in a transaction PostgreSQL has already given up.

## 7. What is not modelled, and why

Record scope is modelled once, in `StaffAccess` (and `Portal` for clients); elsewhere callers
act on rows in their scope. Which capability a path of the middleware asks for is a table that
a test reads as well. Inputs that are rejected before any write are stutters. Timeline and
audit content, notification texts and templates are left out; that they are written, and when,
is modelled where it matters. `evaluate_sla`, `process_event` and `execute_automation_action`
of the workflow service are each a lookup of a key and an insert. Corrections of filed returns
do not touch the lifecycle. Of the benefits conditions, census and renewal data compare
documents with the calendar and are left out. The scoring of document signals and the
classifier stub, transactions and snapshots of an import (rows like positions), attachments and
devices of the portal, and `apply_safe_matches`, which inserts columns the present schema does
not have, are left out. Dashboards, reports and pages only read; the provider adapters are null
implementations; the register builders turn files into files.

## 8. Plan

What would add most next:

1. The composition of `TaxReturn` with `TaxScan`: in `TaxReturn` detectors and staff raise and close
   blockers whenever they like, which is more than the scan does; with the scan itself one could ask
   which blockers can be open on a closed return after a quiet scan.
2. `evaluate_sla` and `process_event` of the workflow service with their idempotency keys.
3. The remaining benefits conditions, and Microsoft documents as a second source of intake links.
4. Proofs that `DetectorScan`, `TaxScan` and the reminders of `ProducerLicensing` implement
   `ExceptionLifecycle` row by row, as the engine and the sweep are shown to: they take the
   engine's calls as single steps.
5. The licensing scan called by itself, with its snapshots per family.
