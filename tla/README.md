# Continuous: a TLA+ development of its command core

Continuous (the repository this directory belongs to) runs the work of a
service business with synthetic workers. Operators, a scheduler and the workers
themselves send commands; every command is recorded in PostgreSQL with an event,
an audit event and evidence, and nothing is executed outside without approval.
What makes the program hard is that several processes (web routes, app-server
tools, the scheduler, retries of any of them) run these commands at the same
time against the same rows, at READ COMMITTED, and may die at any statement.
This directory models that core in TLA+, checks it with TLC and proves its safety
with TLAPS.

## 1. Inventory

| Component (source) | State | Operations | Interacts with | Hard behaviour | Correct means |
|---|---|---|---|---|---|
| Budget ledger (`src/core/budgets.ts`) | `budget_accounts`, `budget_reservations`, `usage_events`, `audit_events` | `budget.reserve`, `.charge`, `.release` | worker runs and the AI gateway settle its reservations | sums over several statements under row locks; holds expire; retried commands | a reservation is charged once, an account never overbooked, a key has one effect |
| Worker runs (`src/core/worker-runs.ts`) | `worker_runs`, and the ledger's tables | `worker.run.start`, `.complete` | shares reservations with the ledger; called by every worker family | capacity checked without a lock; expired holds; competing completions | run and hold settle together, once; a run ends |
| Workflow step executor (`src/core/workflows.ts`) | `workflow_steps`, `workflow_runs` | `steps.execute`: claim, command, complete, fail | scheduler calls it; it calls worker commands; moves runs and tasks | leases, crashes, stale executors, shared owner names, attempts | one execution per step, along the definition; every step settles |
| Workflow runs (`src/core/workflows.ts`) | `workflow_runs`, `approval_requests` | `start`, `transition` | requests approvals; shares runs with executor and decisions | unlocked reads | a run moves along its definition |
| Approvals (`src/core/approvals.ts`) | `approval_requests` | `approval.request`, `.decide` | moves tasks and runs, patches worker runs, hands payroll over | unlocked reads, competing reviewers, replays | one decision per approval; decisions are final |
| Tasks (`src/core/tasks.ts`) | `tasks` | `task.create`, `.transition` | written by approvals and workflow steps | unlocked reads | terminal tasks stay terminal |
| AI gateway (`src/core/ai-gateway.ts`) | `inferences` | `ai.infer` | reserves and charges through the ledger | several transactions, no lock: a crash between two | one charged inference per key, and what a replay returns is that one |
| Adapter ledger (`src/core/adapters.ts`, its feeders in `primitives.ts`) | `adapter_runs`, `adapter_actions`, follow-up tasks | `adapters.reconcile`, `.retry`, `adapter.intent.record`, `external_action.record` | scheduler; workflow runs; tasks | two drains of one queue, attempts | one execution per attempt; retries stop |
| Scheduler (`src/worker/scheduler.ts`) with `lead.read` (`revenue.ts`) and `connection.upsert` | `connections` (buffer, cursor, last read), the runs of reads, leads | a cycle: workflow steps, adapter drains, lead polls, posts of revenue runs | workflow, worker and adapter commands; the operator edits the same connection | keys by polling window, unlocked read and write-back, partial failure | one read per window, no record skipped, buffered records are read |
| Worker registry (`src/core/workers.ts`) | `workers`, `object_versions` | `worker.upsert`, `.transition` | worker runs read it | unlocked reads | retired workers stay retired |
| Capability grants (`src/core/capabilities.ts`) | `capability_grants` | `capability.grant` | runs and steps check grants | validity windows | no run without a grant |
| Obligations, payroll, entity and object graph (`src/core/obligations.ts`, `payroll.ts`, `entity.ts`, `primitives.ts`) | their tables | inserts under keys, packet preparation | approvals, workers | replays, versions | one record per key |
| Control-plane auth (`src/core/control-plane-auth.ts`, `operators.ts`) | credentials, sessions, rotations | upsert, revoke, review, attest | every route | revocation against commands in flight | revoked credentials stay revoked |
| Worker families (`src/worker/*.ts`) | business records | some 40 commands | start a run, write records, complete the run | three transactions, crash in between | records once per key, run settled |
| Reads, routes, tools, security checks, evals | none | queries, parsing, dispatch | all of the above | | |
| Schema, migration, seed (`src/db`) | | run once under a lock | | | |

The hazards of this code, each at its line and with the property that watches
it, are listed under `hazards` in `PROJECT.json`.

## 2. Modules

| Module | Models | Composed of |
|---|---|---|
| `BudgetLedger` | the three budget commands | |
| `BudgetLedgerProofs` | its theorems | `BudgetLedger` |
| `WorkerRuns` | the two worker-run commands on the same tables | extends `BudgetLedger` |
| `WorkerRunsProofs` | its theorems | `WorkerRuns`, `BudgetLedgerProofs` |
| `WorkerCommands` | the commands of all worker families as one saga, with reviewers and operators beside it | extends `WorkerRuns`; refines it |
| `WorkerCommandsProofs` | its theorems | `WorkerCommands`, `WorkerRunsProofs` |
| `AiGateway` | `ai.infer`, several transactions over the ledger | extends `BudgetLedger`; refines it |
| `AiGatewayProofs` | its theorems | `AiGateway`, `BudgetLedgerProofs` |
| `WorkflowContract` | abstract specification: each step takes effect at most once, along the definition | |
| `WorkflowSteps` | `steps.execute` with leases, attempts and crashes | refines `WorkflowContract` |
| `WorkflowStepsProofs` | its theorems | `WorkflowSteps` |
| `Approvals` | `approval.request`, `approval.decide`, `task.transition`, workflow `transition`, approval steps | extends `WorkflowSteps` |
| `ApprovalsProofs` | its theorems | `Approvals`, `WorkflowStepsProofs` |
| `AdapterLedger` | the two adapter drains, adapter intents and external actions | |
| `AdapterLedgerProofs` | its theorems | `AdapterLedger` |
| `LeadIntake` | the scheduler's lead polls with `lead.read`, beside `connection.upsert` | |
| `LeadIntakeProofs` | its theorems | `LeadIntake` |
| `MC*` | the instances TLC checks | |

Each module with a property holds next to the definition it mutates a `...Mutant`
of it: the same code with a plausible bug, under which TLC finds the property
violated. No specification uses them.

### How transactions are modelled

A command is one transaction at READ COMMITTED. A step of the model is a
stretch of statements that no other transaction can tell from an atomic one:
a transaction is cut where it takes a lock another one may hold, and between two
statements that read what another one may write. Its open state is the session's
entry in `tx`. The locks follow from it: `KeyLocked` is the advisory lock of a
key, `AccountLocked`, `ReservationLocked` and `RunLocked` are `FOR UPDATE` locks,
and the share lock a foreign key takes on its parent row is the conjunct
`~AccountLocked(..)` of the inserts. A refusal (400, 404, 409), a failed
statement and a killed process are all `Rollback`. In particular an update made
before an error is thrown in the same transaction is undone with it, which is
why "expired" is no reachable state of a reservation.

Keys: the audit event a command writes under its key is found by the replay
lookup of the next one (`Recorded`), and the unique index on
`(tenant, source, idempotency_key)` refuses a second. A command stands for its own
fingerprint. A replay reads and returns, so it is no step.

### Correspondence

* `BudgetLedger`: `reservations`, `usage`, `audits` are the tables; `clock` is what
  `new Date()` reads. `BeginReserve`, `CountUsed`, `CountHeld`, `CommitReserve`
  are the four stretches of `reserveBudget`; `BeginCharge` and `CommitCharge` of
  `chargeBudget`; `Release` is `releaseBudget`, whose lock is taken and given up
  in one stretch. The capacity formula (`Allowance`, `MaxUnits`) is
  `assertBudgetCapacity`'s, its fall-back of a zero `hardLimit` to 100 percent
  included. The history flag `late` of a usage row is no column: it records that
  the charge committed after the hold it had found unexpired lapsed. Accounts and
  policies do not change, and one allocation period covers the behaviour, so all
  usage counts.
* `WorkerRuns`: `BeginStart`, `CountRunHeld`, `CommitStart` are
  `startCoreWorkerRun`; `BeginComplete`, `LockHold`, `CommitComplete` are
  `completeCoreWorkerRun`, which reads the time before it waits for the
  reservation's lock. Worker, capability, grant, task and connection checks of a
  start refuse without a trace and are left out.
* `WorkflowSteps`: `Claim` is `claimWorkflowStep` (the `skip locked` select and the
  update), `RunCommand` is `runWorkflowWorkerCommand`, `Complete` is
  `completeWorkflowStep`, `Fail` is `failWorkflowStep`. Time is abstract: a live
  lease becomes expired and a waiting step due at some later point. `claim` is
  what an executor's process believes; the table may say otherwise.
* `Approvals`: `Begin...` takes the advisory lock and makes the unlocked reads,
  `Commit...` writes by id. Commands under different locks overlap freely, which
  is what the code allows.
* `AiGateway`: a call is a session of the ledger and a stage in `calls`.
  `BeginInfer` is the replay lookup and the checks; `StartReserve`,
  `FinishReserve`, `StartCharge`, `FinishCharge` run the ledger's own actions under
  the derived keys `<key>:reserve` and `<key>:charge`, or replay them;
  `InsertInference` to `InsertEvidence` are the statements that each commit by
  themselves; `Abandon` is a refusal or a death between two of them. Each action
  is a ledger step or leaves the ledger alone, which `LedgerIsKept` checks and
  `GatewayKeepsLedger` proves.
* `WorkerCommands`: `shape` says how the 23 commands differ (where they store their
  output, whether a retry completes the run, when the settlement is written back,
  whether an approval is asked for); everything else they share. `ReadRun` and
  `WriteRecords` are the business transaction, which reads the run unlocked;
  `SettleBegin` to `SettleReplay` the completion; `ReadBack` and `WriteBack` the two
  statements of `persistCoreSettled...Output`; `ReadDecision` and `WriteDecision`
  the merge of `approval.decide` into the run's data; `ByHand` an operator's
  `worker.run.complete`. Which records a command writes is abstracted to one key
  in `records`.
* `AdapterLedger`: a drain's transaction is `drains[d]`: what it read (`seen`), what
  it has written and not committed (`staged`), the keys it has inserted. `Reconcile`
  and `ExecuteRetry` take one row each: the update's condition is evaluated on the
  row as it is now, the rest of the decision on the row as it was read. Both kinds
  of rows, the two selects with their limits and the order "actions before runs"
  are kept; request and response are reduced to three flags.
* `LeadIntake`: `Poll` is `listLeadPollCommands` and the key of the window;
  `ResolveConnection` the unlocked read of the connection; `StartRead`, `Conflict` the
  start of the read's run under the key; `CommitRead`, `ReadBefore` its transaction;
  `PostRun`, `PostFails` the loop over the selectors. `Upsert` overwrites the
  config in the three ways an operator can: the buffer extended with
  `lastLeadRead` sent back or dropped, or replaced.

## 3. Runs

| Run | Instance | Shows |
|---|---|---|
| `budget_ledger` | 2 calls of one `ai.infer` key and 1 direct client of the ledger, 3 ledger keys, 1 account of 2 units, 3 reservations, 3 inferences, clock to 3 | safety of the ledger and of `ai.infer` on top of it: one charge per reservation, no overbooking, one effect and one charged inference per key, whole replays, the refinement of the ledger |
| `worker_runs` | 2 sessions, 1 budget key, 2 run keys, a worker's and another account, 2 runs, 3 reservations | run and hold settle together; outcomes are final; shared accounts keep their limit |
| `worker_runs_retry` | `WorkerCommands`: 2 sessions, 1 command key and 1 operator's key, every shape of command, a clock that lets the hold expire, fairness | charged means delivered; records stay named; commands settle; the settlement ends up in the output |
| `worker_runs_overbook` | violation | two concurrent starts overbook the worker's account |
| `worker_runs_stuck` | violation | a run whose hold expired is never settled |
| `workflow_steps` | 2 executors of one name, 3 steps of one run, 2 attempts, fairness | one execution per step, refinement of the contract, every step settles |
| `workflow_steps_stuck` | violation | a crash in the last attempt leaves the step running |
| `approvals` | 2 sessions, 2 keys per command, 2 approvals, 1 run, 1 task, 1 approval step | one final decision per approval; no run is taken to a state that the definition knows but does not lead to (nothing leads to "rejected" in this one) |
| `approvals_moves` | violation | lost update: a run moves along no transition |
| `approvals_tasks` | violation | lost update: a done task is reopened |
| `adapter_ledger` | 2 drains, 1 intent (its run and its action), 3 external actions, up to 3 attempts, limit 1, fairness | attempts in order, tasks and workflow tell the truth, verdicts are final, the queue drains |
| `lead_intake` | 2 schedulers, 3 buffered records, batches of 2, a ring of 2 windows, fairness | one read per window, no record behind the cursor is skipped, reports are whole, buffered records are read |

Why these bounds are enough to be interesting. Every hazard listed is between two
commands, so two sessions suffice; three keys and three reservations let one
reservation be made, settled and made again while another is in flight; the
clock reaches past the longest hold, so holds expire in every phase; units 1 and 2
in an account of 2 (the smaller of 4 allocated and 3 monthly, at 67 percent) make
both "fits once" and "fits twice" happen. Two attempts of a step give a first, a
last and an expired one; three steps give a worker command, a successor and a
rival. Three attempts of an adapter row give a retry that fails and a retry of
that; its one intent makes a row of each kind, and with the limit of 1 the drains
still take both. Three records and batches of 2 give a full batch, a
partial one, and a record buffered while a read is in flight; two windows make a
stale call of the last window meet the present one. Runs check no deadlock because
a bounded number of keys and ids ends every behaviour.

Bounds: `MaxClock` (clock), `MaxAttempts` (the code's `maxAttempts`, 3 by default for
steps, 1 to 10 for adapter intents), `MaxRecords` (records an operator buffers),
`Batch` (25 in the code), `Limit` (rows of a drain), `Windows` (the polling windows as
a ring; a number is used again only when no call holds its key), and the finite
sets of keys and ids.

### Fairness

* `FairRunSpec` (the run `worker_runs_stuck`): the caller retries the completion (the
  code's idempotency keys exist for that); PostgreSQL grants queued row locks in
  turn, hence strong fairness of `LockHold` and `CommitComplete`; no transaction
  stays open for ever; and from some time on completions that could still settle
  are not killed. A process killed for ever could not be promised anything; with
  all of this a run whose hold has expired still does not settle.
* `FairCommandSpec`: callers call again until they are answered (strong fairness of
  `Retry`, since a call of another session under the key may be in between); a
  call that holds or waits for a lock goes on (`Proceed`, strong for the same
  reason as above); a call that is refused ends; from some time on calls that can go
  on are not stopped. Budget commands beside them have no keys in this instance.
* `FairStepSpec`: the scheduler posts `steps.execute` on a cadence, so a claimable
  step is claimed in the end. The select orders by priority, but every other step
  has finitely many attempts with pauses between them, so weak fairness per step is
  what the order amounts to for a finite ledger. An executor that does not die
  finishes its claim; time passes. Crashes are never fair and never excluded.
* `FairAdapterSpec`: the scheduler posts both drains on its cadence, retries come due,
  a drain goes on until it commits or a statement of it fails on a taken key, and
  from some time on drains are rolled back for no other reason.
* `LeadFairness`: every scheduler goes on with its cycle (`Poll` or the next step of
  its call), time passes to the next window, and from some time on a call ends
  early only because the code refuses it (`Exhausted`, `Conflict`).

## 4. What the violations say

1. `worker.run.start` checks capacity without the account lock `budget.reserve`
   takes, so concurrent starts overbook (`WorkerAccountsWithinLimit`).
   `SharedAccountsWithinLimit` shows that the damage stays on the worker's account.
2. A run whose hold has expired cannot be completed, failed or canceled
   (`RunSettles`): every outcome is refused, and the "expired" mark is rolled back.
3. A step whose executor died in its last attempt is never reclaimed
   (`ExpiredStepsMove`). `StepsSettle` shows it is the only way to be stuck.
4. `transition` and `approval.decide` read a run unlocked, under different advisory
   locks (`MovesAlongDefinition`). `RunsStayReachable` shows what survives.
5. `approval.request`, `approval.decide` and `task.transition` overwrite a task
   read unlocked (`TerminalTasksStay`).

## 5. What the models showed beside that

These are no violations of anything the repository promises, and no run is spent
on them. The properties are stated so that they hold around them, and a reader who
changes the code should know of them.

* `worker.run.complete` and step 4 of a worker command merge into run data that
  `approval.decide` has read unlocked: a decision may write back data without the
  recorded completion or, for the commands that keep a pending output, an output
  that hides the records. A retry then writes records again, meets the unique
  index, and the run is never completed. `RecordsStayNamed` and `CommandsSettle`
  name this case, and `SettlementEndsUpInOutput` claims nothing of a run whose recorded
  completion is lost.
* `lead.read`, `lead.classify` and `response.draft` complete their run only in the
  call that created the records: after a crash in between, retries answer from the
  data and the run stays running (`resumes` is FALSE in `RevenueAction`).
* A replayed completion answers with the budget of the start. A slow retry may write
  an output without usage event over one that has it; only commands that write
  back on every retry repair it (`SettlementEndsUpInOutput`).
* `ai.infer` commits its statements one by one. After a crash past the charge and
  before the audit event, a retry finds no replay, inserts another inference and
  is refused by the fingerprint of the charge, which names the first: the call
  never finishes. `OneChargedInferencePerKey` shows that it costs nothing twice.
* `budget.charge` compares the expiration with a time it read earlier, so a charge may
  commit after its hold has lapsed and its units have been given away.
  `CommittedWithinLimit` leaves such late charges out.
* `budget.release` and `budget.charge` take the hold of a running worker run. Its completion is
  refused from then on (`RunSettlesWithBudget`), and the run stays running as it does
  when the hold expires; `CommandsSettle` excepts it.
* A business transaction does not ask whether an operator has canceled the run.
* A drain that has read a row long ago may decide its first attempt again after the
  row's retry has been executed, and give it back the attempt it read; verdicts are
  final (`VerdictsAreFinal`), attempt numbers only stay in order in the audit
  events (`AttemptsInOrder`).
* An `external_action.record` that changes the state of a row that awaits a retry
  takes it out of the schedule for good. `QueueDrains` names this case.
* `lead.read` writes back the connection config it read, over an upsert in between:
  records appended meanwhile are lost from the buffer. `BufferedRecordsRead` names
  this case; `CursorCoversLeads` shows that none is skipped by the cursor.
* A window whose read was started with other records than its retry finds is refused
  for good, and the run it started stays running; the next window reads them.
* A revenue run whose post failed is not posted again by a later cycle: the cursor
  has moved past its record. `ReportIsWhole` shows that the report says so.

## 6. Proofs

TLAPS proves, for every value of the constants allowed by their assumptions
(`LedgerAssumption`, `RunAssumption`, `StepsAssumption`: finitely many reservation ids, natural
amounts, worker accounts among the accounts, owners distinct from no owner,
transitions over the states; `CommandAssumption`: the keys of commands are run
keys, and there is a worker account and an amount for a command to name;
`AdapterAssumption`: the attempts of a row are bounded by a number up to 10, the
range the code accepts, and a drain takes at least one row;
`IntakeAssumption`: a read takes at least one record, and the next window is another
one):

* `BudgetLedgerProofs`: `TypeCorrect`, `NoDoubleCharge`, `NeverOverbooked`,
  `KeysHaveOneEffect`, `SettledNeverChanges`. Two inductive invariants. `RowInv`
  relates rows, usage and audit events to each other and says that an open
  settling transaction's reservation is held; without the latter, nothing forbids
  a charge of a settled row, since the check is a step earlier than the write.
  `LimitInv` strengthens the limit: a reserve that has counted knows that what it
  summed, what it is about to sum or insert, and what others may still charge,
  fits. It is not inductive on the limit alone, because the two sums of a reserve
  are read at different times: a charge between them moves units from "held" to
  "used", and it is the account lock that keeps its usage row out until the reserve
  commits. The sums are cardinalities of sets of tokens (`Sum`), so that their laws
  (`SumType`, `SumMonotone`, `SumAdd`) follow from the library's facts on finite
  sets; a fold would need induction over data.
* `WorkerRunsProofs`: `RunTypesCorrect`, `RunsSettleWithBudget`, `RunOutcomeIsFinal`,
  `SharedAccountsNeverOverbooked`. `RunInv` says that a transaction that settles has
  its hold locked alone and still held, and that one that completes a run has it
  locked alone, still running, under the hold it read before: the checks and the
  writes are steps apart, and these locks are all that joins them. For the limit,
  `RunLimitInv` keeps the counts of `BudgetLedgerProofs` for every account and the
  limit for those that are not a worker's: a start takes no account lock, but the
  foreign key of its hold makes its insert wait for whoever has it, so it disturbs
  no reserve's count; it only overbooks the worker's account it draws on, which is
  what `WorkerRunsOverbook.cfg` shows.
* `WorkerCommandsProofs`: `CommandsImplementRuns`, `CommandsKeepRunLaws`,
  `CommandTypesCorrect`, `ChargesAreForRecords`, `RecordsAreNeverLost`, from
  `CommandInvariant`. `CommandInv` is `RunInv` and `SagaInv`. The latter says that a
  key has one run and a run one key (`RunFor`); which transaction a call may have
  open at its stage (`TxOfCall`); what a call's or a reviewer's stale read of a run's
  data can still be, given the records, the data and the events of the key
  (`CallOK`, `DataOK`, `KeyOK`); and that a key never started has left nothing
  (`UnstartedFresh`). The type of what a call holds is not enough: a charge
  names its records because a call that settles has read data that named
  them, or has written them itself. The refinement is step by step: each action of
  `CommandNext` is an action of `RunNext` or leaves `runVars` alone, under the
  invariant, since a settlement starts a completion only of a run that is its own.
  So `CommandSpec` implies `RunSpec` and inherits its theorems.
* `WorkflowStepsProofs`: `StepTypesCorrect`, `LeaseIsExclusive`,
  `StepsExecuteOnce`, `LedgerImplementsContract`, `AttemptsAreMonotone`. The
  inductive invariant says that no two executors claim the same attempt of a step
  and none an attempt the row has not reached, which is why a shared owner name
  does no harm; and that a step is done exactly when its executed event is there.
  The refinement maps a step's state "done" to membership in `finished`.

* `AiGatewayProofs`: `GatewayTypes`, `GatewayKeepsLedger`, `GatewayKeepsBudgets`,
  `ChargedStays`, `ReplayIsWhole`, `OneInferencePerKey`. `GatewayInv` adds to `RowInv`
  what the stage of a call says of the rows it has committed and which transaction
  of the ledger it may have open. `GatewayKeepsLedger` is a refinement by
  construction of the actions, so the ledger's theorems carry over. For
  `OneInferencePerKey`, `KeyInv` follows a key's charge: the reservation under its
  reserve key is one, every usage row has its audit event, and a charged inference
  is one whose reservation the charge key's usage row names; two charged
  inferences would need two usage rows of one reservation.
* `ApprovalsProofs`: `ApprovalTypesCorrect`, `ApprovalsDecidedOnce`,
  `DecisionsAreFinal`, `RunsStayWithinDefinition`, `ExecutorKeepsPromises`.
  `DecisionInv` says that open transactions hold different locks and that the
  approval of an open decision is still pending: that is what the approval's lock
  buys, since the row itself is read unlocked. The executor's invariant is kept as
  one conjunct, so its promises hold beside the operators' commands. For
  `RunsStayWithinDefinition` every set of states closed under the definition is
  an invariant, of the runs and of the states that open transactions still hold.

* `AdapterLedgerProofs`: `AdapterTypesCorrect`, `AttemptsComeInOrder`,
  `FollowupsFollowRows`, `FlowAlwaysEarned`, `VerdictsStayFinal`,
  `RetriesOnlyWhenDue`, from `AdapterInvariant`. A drain reads rows and writes them
  statements later, so `AdapterInv` says in which ways its reads may be stale
  (`SeenOK`): a retry it has read is either still due at that attempt or was
  executed by another, and a pending row it has read was on its first attempt
  or had executed the one it is on. What it has staged (`StagedOK`) is of a row still
  as its update found it, because the row lock keeps other drains out
  (`LocksExclude`); the keys it has inserted are new, because the unique index does.
  That carries the three invariants over `Commit`, where all rows of a drain
  change at once.
* `LeadIntakeProofs`: `LeadTypesCorrect`, `NoRecordIsSkipped`, `WindowsAreReadOnce`,
  `ReportsAreWhole`, from `LeadInvariant`. `LeadInv` bounds every row by what the
  operator has sent (`Within`), and says that the cursor of the stored row and of
  every row a scheduler still holds covers only leads (`Covers`), since a held row is
  what a read writes back; what a scheduler at each stage knows of its window's run
  (`HoldsOK`), which holds although the ring reuses window numbers; and that the
  run of a key keeps its input and output (`ReadsOK`). The buffer is an increasing
  sequence, so the facts about its suffixes and prefixes (`UnreadFacts` and the
  lemmas before it) follow from the library's theorems on sequences without
  induction.

Only model-checked: liveness (`StepsSettle`, `CommandsSettle`,
`SettlementEndsUpInOutput`, `QueueDrains`, `BufferedRecordsRead`), which needs
fairness and ENABLED, out of this prover's reach; and the violations, which are
counterexamples. Every invariant and every action property of a passing run is
stated by a theorem.

## 7. Not modelled

* Worker registry, capability grants, obligations, payroll, entity and object graph:
  commands of one transaction that insert or overwrite rows by id under an
  idempotency key. Their hazard is the one `ApprovalsTasks.cfg` refutes for tasks:
  a state read unlocked and written by id (`workers.ts:788`); the payroll handoff
  (`approvals.ts:1428`) and the version numbers of objects are of the same kind.
* Control-plane auth: checked by the routes before the modelled commands begin; a
  credential revoked while a command runs does not stop that command.
* The contents of business records. More than half of the code (the worker
  families, the registry, seed and schema) computes, formats and validates the
  fields of packets, drafts and prompts, or lists them as data. Its control is the
  saga of `WorkerCommands`; its data is a single key there. That is also why the map
  covers a modest share of the lines: each definition names the code that decides
  what happens and in which order, not the text around it.
* Of modelled components: the creation of runs (`start`, `task.create` insert a row
  under a key), lead sources polled through their API, several connections, the
  payload mode of `lead.read`, and schedulers configured with different lease owners
  (their requests under one key conflict instead of replaying).
  An adapter action without a workflow run of its own falls back to its adapter
  run's; the model gives both one flag. A malformed record in a lead buffer may make every
  read of it fail; in the model a read is cut off only finitely often under fairness,
  so `BufferedRecordsRead` says nothing of such a buffer.
* Reads, routes, tools, security checks, evals: no state. Deployment and marketing:
  no behaviour of the system.
