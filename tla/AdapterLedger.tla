--------------------------- MODULE AdapterLedger ----------------------------
(***************************************************************************)
(* The adapter ledger of src/src/core/adapters.ts: the drains              *)
(* adapters.reconcile and adapters.retry, beside the commands of           *)
(* src/src/core/primitives.ts that feed it, adapter.intent.record and      *)
(* external_action.record.                                                 *)
(*                                                                         *)
(* A drain is one transaction. It selects its rows without a lock, decides *)
(* on what it read, and writes each row by a conditional update that looks *)
(* only at the reconciliation state the row has by then. A row it has      *)
(* written stays locked until the drain commits. Every decision and every  *)
(* execution also inserts rows under keys that name the target and the     *)
(* attempt: a key that is taken fails the statement and with it the whole  *)
(* drain.                                                                  *)
(*                                                                         *)
(* Time is abstract: a scheduled retry becomes due at some later point.    *)
(* Rows the worker families insert as "done" and "matched" never enter the *)
(* queue and are left out.                                                 *)
(***************************************************************************)
EXTENDS Integers, FiniteSets

CONSTANTS
  Drains,         \* drain executions that may be in flight together
  Intents,        \* idempotency keys of adapter.intent.record
  ExternalKeys,   \* idempotency keys of external_action.record
  ExternalStates, \* the states external_action.record may set
  MaxAttempts,    \* config.maxAttempts of an intent: 1 .. 10 in the code
  Payloads,       \* per kind of row: what an intent's request and data say
  Limit           \* rows of a kind one drain takes

CallStates == {"queued", "running", "done", "failed", "canceled"}
Kinds == {"run", "action"}

ASSUME AdapterAssumption ==
  /\ ExternalStates \subseteq CallStates
  /\ MaxAttempts \in 1 .. 10
  /\ Payloads \subseteq [Kinds -> [flagged : BOOLEAN, tracked : BOOLEAN]]
  /\ Limit \in Nat \ {0}

VARIABLES
  rows,    \* adapter_runs and adapter_actions, by intent and kind
  audits,  \* audit_events of drains and external actions: a set of keys
  tasks,   \* follow-up tasks of system:adapter-reconciliation, by key
  flow,    \* state of the lead_to_cash run that tracked rows name
  drains   \* the open transaction of each drain

adapterVars == <<rows, audits, tasks, flow, drains>>

-----------------------------------------------------------------------------
Rows == Intents \X Kinds
NoRow == [state |-> "absent", reconciliation |-> "absent"]
Decisions == {"matched", "retry_scheduled", "needs_review"}

\* "flagged": its request or data claims an external mutation or send;
\* "tracked": they name the workflow run; "due": nextAttemptAt has come;
\* "retried": it carries the marks of an executed retry.
Row ==
  [state : CallStates, reconciliation : {"pending"} \cup Decisions,
   attempt : 1 .. MaxAttempts, maxAttempts : 1 .. MaxAttempts,
   due : BOOLEAN, error : BOOLEAN, retried : BOOLEAN,
   flagged : BOOLEAN, tracked : BOOLEAN]
AuditKey ==
  [what : Decisions \cup {"retry_executed"}, row : Rows,
   attempt : 1 .. MaxAttempts]
ExternalKey == [what : {"external_action"}, key : ExternalKeys]
TaskKey ==
  [row : Rows, decision : {"retry_scheduled", "needs_review"},
   attempt : 1 .. MaxAttempts]

FlowStates ==
  {"execution_blocked", "adapter_retry_scheduled", "adapter_failure_review",
   "post_retry_reconciled"}

\* Of an open drain: "seen" holds the selected rows it has not dealt with, as
\* it read them; "staged" and "keys" the updates and keys it has written so
\* far; "flow" the state it has given the workflow run.
NoDrain == [op |-> "none"]
NoFlow == "unchanged"
OpenDrain(d) == drains[d] # NoDrain

AdapterTypeOK ==
  /\ rows \in [Rows -> Row \cup {NoRow}]
  /\ audits \subseteq AuditKey \cup ExternalKey
  /\ \A t \in DOMAIN tasks :
       t \in TaskKey /\ tasks[t] \in {"waiting", "blocked", "closed"}
  /\ flow \in FlowStates
  /\ \A d \in Drains : OpenDrain(d) =>
       /\ drains[d].op \in {"reconcile", "retry"}
       /\ drains[d].keys \subseteq AuditKey
       /\ drains[d].flow \in FlowStates \cup {NoFlow}
       /\ \A part \in {drains[d].seen, drains[d].staged} :
            DOMAIN part \subseteq Rows /\ \A r \in DOMAIN part : part[r] \in Row

Recorded(what, r, n) ==
  [what |-> what, row |-> r, attempt |-> n] \in audits

\* The lock an update keeps on its row until the transaction ends.
RowLocked(r) ==
  \E d \in Drains : OpenDrain(d) /\ r \in DOMAIN drains[d].staged

Without(f, x) == [y \in DOMAIN f \ {x} |-> f[y]]
Merged(f, g) == [x \in DOMAIN f \cup DOMAIN g |->
                   IF x \in DOMAIN g THEN g[x] ELSE f[x]]
Put(f, x, v) == Merged(f, [y \in {x} |-> v])

-----------------------------------------------------------------------------
(* What feeds the ledger.                                                  *)

\* adapter.intent.record inserts a queued run and a queued action, both
\* pending; a replay of its key changes nothing.
RecordIntent(i, m, p) ==
  /\ rows[<<i, "action">>] = NoRow
  /\ rows' = [r \in Rows |->
       IF r[1] # i THEN rows[r]
       ELSE [state |-> "queued", reconciliation |-> "pending", attempt |-> 1,
             maxAttempts |-> m, due |-> FALSE, error |-> FALSE,
             retried |-> FALSE, flagged |-> p[r[2]].flagged,
             tracked |-> p[r[2]].tracked]]
  /\ UNCHANGED <<audits, tasks, flow, drains>>

\* external_action.record sets the state of an action, and nothing else of
\* what a drain looks at. Its update waits for a drain that holds the row.
RecordExternalAction(k, i, state) ==
  LET a == <<i, "action">>
      key == [what |-> "external_action", key |-> k]
  IN  /\ rows[a] # NoRow
      /\ key \notin audits
      /\ ~RowLocked(a)
      /\ rows' = [rows EXCEPT ![a].state = state]
      /\ audits' = audits \cup {key}
      /\ UNCHANGED <<tasks, flow, drains>>

\* nextAttemptAt of a scheduled retry comes.
ComesDue(r) ==
  /\ rows[r].reconciliation = "retry_scheduled"
  /\ ~rows[r].due
  /\ ~RowLocked(r)
  /\ rows' = [rows EXCEPT ![r].due = TRUE]
  /\ UNCHANGED <<audits, tasks, flow, drains>>

\* An operator settles a follow-up task by task.transition.
CloseTask(t) ==
  /\ tasks[t] # "closed"
  /\ tasks' = [tasks EXCEPT ![t] = "closed"]
  /\ UNCHANGED <<rows, audits, flow, drains>>

-----------------------------------------------------------------------------
(* adapters.reconcile                                                      *)

\* Mutant: an attempt beyond the last is scheduled too.
DecisionMutant(row) ==
  IF row.state = "failed" /\ row.attempt <= row.maxAttempts
  THEN "retry_scheduled"
  ELSE IF row.state = "failed" \/ row.flagged \/ row.error
       THEN "needs_review" ELSE "matched"

\* decisionFor. Rows in the queue are all dry runs.
Decision(row) ==
  IF row.state = "failed" /\ row.attempt < row.maxAttempts
  THEN "retry_scheduled"
  ELSE IF row.state = "failed" \/ row.flagged \/ row.error
       THEN "needs_review" ELSE "matched"

\* Mutant: a retry is scheduled under the number of the attempt that failed.
NextAttemptMutant(row) == row.attempt

\* incrementedAttempt.
NextAttempt(row) ==
  IF Decision(row) = "retry_scheduled" THEN row.attempt + 1 ELSE row.attempt

\* What the update of a reconciled row writes: all of it from the row as the
\* drain read it.
AfterDecision(row) ==
  LET decision == Decision(row)
  IN  [row EXCEPT
        !.state = CASE decision = "matched" -> "done"
                    [] decision = "retry_scheduled" -> "queued"
                    [] OTHER -> row.state,
        !.reconciliation = decision,
        !.attempt = NextAttempt(row),
        !.due = FALSE,
        !.error = row.error \/ decision = "retry_scheduled"]

\* The columns of that update in the row as it is now: a request, data and
\* response written meanwhile stay.
WriteDecision(now, old) ==
  [AfterDecision(old) EXCEPT !.flagged = now.flagged, !.tracked = now.tracked,
                             !.retried = now.retried]

\* workflowStateForDecision.
FlowState(decision) ==
  CASE decision = "retry_scheduled" -> "adapter_retry_scheduled"
    [] decision = "needs_review" -> "adapter_failure_review"
    [] OTHER -> "post_retry_reconciled"

\* Mutant: every match is told to the workflow run.
TellsFlowMutant(row) == row.tracked

\* retryWasExecuted and shouldRecordWorkflowReconciliation: a plain match is
\* no news to the workflow run.
TellsFlow(row) ==
  /\ row.tracked
  /\ Decision(row) # "matched" \/ (row.attempt > 1 /\ row.retried)

\* The rows a select with a limit may return, of all that meet its condition.
Batches(all) ==
  {b \in SUBSET all : \/ Cardinality(all) <= Limit /\ b = all
                      \/ Cardinality(all) > Limit /\ Cardinality(b) = Limit}

OfKind(kind) == {r \in Rows : r[2] = kind}

Pending(row) == row.reconciliation = "pending"

\* Open a drain over the rows it selects.
Begin(d, op, batch) ==
  /\ batch # {}
  /\ drains' = [drains EXCEPT ![d] =
       [op |-> op, seen |-> [r \in batch |-> rows[r]],
        staged |-> [r \in {} |-> NoRow], keys |-> {}, flow |-> NoFlow]]
  /\ UNCHANGED <<rows, audits, tasks, flow>>

BeginReconcile(d) ==
  /\ ~OpenDrain(d)
  /\ \E a \in Batches({x \in OfKind("action") : Pending(rows[x])}),
        r \in Batches({x \in OfKind("run") : Pending(rows[x])}) :
       Begin(d, "reconcile", a \cup r)

\* Actions are dealt with before runs.
NextRow(d, r) ==
  /\ r \in DOMAIN drains[d].seen
  /\ r[2] = "run" => \A q \in DOMAIN drains[d].seen : q[2] = "run"

\* The update of a row that has left the state its condition asks for finds
\* nothing, and the drain goes on.
Skip(d, r) == drains' = [drains EXCEPT ![d].seen = Without(@, r)]

\* recordDecision: the key of a decision's audit event.
DecisionKey(r, row) ==
  [what |-> Decision(row), row |-> r, attempt |-> NextAttempt(row)]

\* Decide on row r as it was read, unless it is pending no more.
DecideRow(d, r) ==
  LET old == drains[d].seen[r]
      key == DecisionKey(r, old)
  IN  /\ key \notin audits
      /\ drains' = [drains EXCEPT
           ![d].seen = Without(@, r),
           ![d].staged = Put(@, r, WriteDecision(rows[r], old)),
           ![d].keys = @ \cup {key},
           ![d].flow = IF TellsFlow(old) THEN FlowState(Decision(old)) ELSE @]

\* Mutant: the update is made whatever has become of the row.
ReconcileMutant(d, r) ==
  /\ drains[d].op = "reconcile"
  /\ NextRow(d, r)
  /\ ~RowLocked(r)
  /\ DecideRow(d, r)
  /\ UNCHANGED <<rows, audits, tasks, flow>>

Reconcile(d, r) ==
  /\ drains[d].op = "reconcile"
  /\ NextRow(d, r)
  /\ ~RowLocked(r)
  /\ IF Pending(rows[r]) THEN DecideRow(d, r) ELSE Skip(d, r)
  /\ UNCHANGED <<rows, audits, tasks, flow>>

\* createFollowupTask: one task for each row that was not matched.
FollowupTasks(d) ==
  LET staged == drains[d].staged
      open(kind) == {r \in DOMAIN staged : staged[r].reconciliation = kind}
      key(r) == [row |-> r, decision |-> staged[r].reconciliation,
                 attempt |-> staged[r].attempt]
      new == {key(r) : r \in open("retry_scheduled") \cup open("needs_review")}
  IN  [t \in new |->
         IF t.decision = "retry_scheduled" THEN "waiting" ELSE "blocked"]

CommitReconcile(d) ==
  /\ drains[d].op = "reconcile"
  /\ drains[d].seen = [r \in {} |-> NoRow]
  /\ rows' = Merged(rows, drains[d].staged)
  /\ audits' = audits \cup drains[d].keys
  /\ tasks' = Merged(tasks, FollowupTasks(d))
  /\ flow' = IF drains[d].flow = NoFlow THEN flow ELSE drains[d].flow
  /\ drains' = [drains EXCEPT ![d] = NoDrain]

-----------------------------------------------------------------------------
(* adapters.retry                                                          *)

Scheduled(row) ==
  row.state = "queued" /\ row.reconciliation = "retry_scheduled"
\* Mutant: the last attempt is not taken.
DueMutant(row) ==
  Scheduled(row) /\ row.due /\ row.attempt < row.maxAttempts

Due(row) == Scheduled(row) /\ row.due

BeginRetry(d) ==
  /\ ~OpenDrain(d)
  /\ \E a \in Batches({x \in OfKind("action") : Due(rows[x])}),
        r \in Batches({x \in OfKind("run") : Due(rows[x])}) :
       Begin(d, "retry", a \cup r)

\* What the update of an executed retry writes. Only a run's data is rewritten
\* with "no external mutation"; an action's request keeps what it says.
AfterRetry(r, row) ==
  [row EXCEPT !.state = "done", !.reconciliation = "pending", !.due = FALSE,
              !.error = FALSE, !.retried = TRUE,
              !.flagged = @ /\ r[2] = "action"]

\* recordRetryExecution: the key of an execution's event and audit event.
RetryKey(r, row) ==
  [what |-> "retry_executed", row |-> r, attempt |-> row.attempt]

\* Mutant: nothing keeps an execution from being recorded again.
ExecuteRowMutant(d, r) ==
  drains' = [drains EXCEPT
    ![d].seen = Without(@, r),
    ![d].staged = Put(@, r, AfterRetry(r, rows[r])),
    ![d].keys = @ \cup {RetryKey(r, drains[d].seen[r])}]

\* Record the execution of the attempt that was read, unless the row awaits
\* no retry any more.
ExecuteRow(d, r) ==
  LET key == RetryKey(r, drains[d].seen[r])
  IN  /\ key \notin audits
      /\ drains' = [drains EXCEPT
           ![d].seen = Without(@, r),
           ![d].staged = Put(@, r, AfterRetry(r, rows[r])),
           ![d].keys = @ \cup {key}]

ExecuteRetry(d, r) ==
  /\ drains[d].op = "retry"
  /\ NextRow(d, r)
  /\ ~RowLocked(r)
  /\ IF Scheduled(rows[r]) THEN ExecuteRow(d, r) ELSE Skip(d, r)
  /\ UNCHANGED <<rows, audits, tasks, flow>>

\* Mutant: retry tasks are left as they are.
ClosedTasksMutant(d) == tasks

\* closeRetryTasks: the retry tasks of an executed row that still wait.
ClosedTasks(d) ==
  [t \in DOMAIN tasks |->
     IF /\ t.row \in DOMAIN drains[d].staged
        /\ t.decision = "retry_scheduled"
        /\ tasks[t] = "waiting"
     THEN "closed" ELSE tasks[t]]

CommitRetry(d) ==
  /\ drains[d].op = "retry"
  /\ drains[d].seen = [r \in {} |-> NoRow]
  /\ rows' = Merged(rows, drains[d].staged)
  /\ audits' = audits \cup drains[d].keys
  /\ tasks' = ClosedTasks(d)
  /\ drains' = [drains EXCEPT ![d] = NoDrain]
  /\ UNCHANGED flow

-----------------------------------------------------------------------------
\* A failed statement or a dead process undoes the whole drain.
Rollback(d) ==
  /\ OpenDrain(d)
  /\ drains' = [drains EXCEPT ![d] = NoDrain]
  /\ UNCHANGED <<rows, audits, tasks, flow>>

AdapterInit ==
  /\ rows = [r \in Rows |-> NoRow]
  /\ audits = {}
  /\ tasks = [t \in {} |-> "waiting"]
  /\ flow = "execution_blocked"
  /\ drains = [d \in Drains |-> NoDrain]

AdapterNext ==
  \/ \E i \in Intents, m \in 1 .. MaxAttempts, p \in Payloads :
       RecordIntent(i, m, p)
  \/ \E k \in ExternalKeys, i \in Intents, state \in ExternalStates :
       RecordExternalAction(k, i, state)
  \/ \E r \in Rows : ComesDue(r)
  \/ \E t \in DOMAIN tasks : CloseTask(t)
  \/ \E d \in Drains : BeginReconcile(d)
  \/ \E d \in Drains, r \in Rows : Reconcile(d, r)
  \/ \E d \in Drains : CommitReconcile(d)
  \/ \E d \in Drains : BeginRetry(d)
  \/ \E d \in Drains, r \in Rows : ExecuteRetry(d, r)
  \/ \E d \in Drains : CommitRetry(d)
  \/ \E d \in Drains : Rollback(d)

AdapterSpec == AdapterInit /\ [][AdapterNext]_adapterVars

-----------------------------------------------------------------------------
(* Fairness. The scheduler posts both drains on its cadence and retries      *)
(* come due. A drain goes on until it commits or a statement of it fails,    *)
(* and from some time on no drain dies that could still go on.               *)

Proceed(d) ==
  \/ \E r \in Rows : Reconcile(d, r) \/ ExecuteRetry(d, r)
  \/ CommitReconcile(d)
  \/ CommitRetry(d)

\* The next statement of the drain meets a key that is taken.
Fails(d) ==
  /\ OpenDrain(d)
  /\ \E r \in Rows : /\ NextRow(d, r)
                     /\ LET old == drains[d].seen[r]
                        IN  IF drains[d].op = "reconcile"
                            THEN DecisionKey(r, old) \in audits
                            ELSE RetryKey(r, old) \in audits

Fairness ==
  /\ WF_adapterVars(\E d \in Drains : BeginReconcile(d))
  /\ WF_adapterVars(\E d \in Drains : BeginRetry(d))
  /\ WF_adapterVars(\E r \in Rows : ComesDue(r))
  /\ \A d \in Drains : /\ WF_adapterVars(Proceed(d))
                       /\ WF_adapterVars(Fails(d) /\ Rollback(d))
  /\ <>[][\A d \in Drains : Rollback(d) => Fails(d)]_adapterVars

FairAdapterSpec == AdapterSpec /\ Fairness

-----------------------------------------------------------------------------
(* Properties                                                              *)

Executed(r, n) == Recorded("retry_executed", r, n)

\* Attempts come one at a time and stop: an attempt was scheduled only after
\* the one before it had been executed, and executed only after it had been
\* scheduled, never past the maxAttempts of its row.
AttemptsInOrder ==
  \A r \in Rows : rows[r] # NoRow =>
    \A n \in 1 .. MaxAttempts :
      /\ Recorded("retry_scheduled", r, n) =>
           /\ n \in 2 .. rows[r].maxAttempts
           /\ n > 2 => Executed(r, n - 1)
      /\ Executed(r, n) => Recorded("retry_scheduled", r, n)

\* The follow-up tasks tell what became of a row: one that awaits a retry or
\* a review has its task, and no retry task waits for an attempt that has
\* been executed or that its row does not await.
FollowupsMatchRows ==
  /\ \A r \in Rows :
       rows[r].reconciliation \in {"retry_scheduled", "needs_review"} =>
         [row |-> r, decision |-> rows[r].reconciliation,
          attempt |-> rows[r].attempt] \in DOMAIN tasks
  /\ \A t \in DOMAIN tasks : tasks[t] = "waiting" =>
       /\ rows[t.row].reconciliation = "retry_scheduled"
       /\ rows[t.row].attempt = t.attempt
       /\ ~Executed(t.row, t.attempt)

\* The state the drains give the workflow run is earned by some row that names
\* it: a review by a row under review, a reconciliation by a retry that was
\* executed, a pending retry by one that was scheduled.
FlowIsEarned ==
  LET tracked == {r \in Rows : rows[r] # NoRow /\ rows[r].tracked}
  IN  CASE flow = "adapter_failure_review" ->
             \E r \in tracked : rows[r].reconciliation = "needs_review"
        [] flow = "post_retry_reconciled" ->
             \E r \in tracked : /\ rows[r].reconciliation = "matched"
                               /\ \E n \in 2 .. MaxAttempts : Executed(r, n)
        [] flow = "adapter_retry_scheduled" ->
             \E r \in tracked, n \in 2 .. MaxAttempts :
               Recorded("retry_scheduled", r, n)
        [] OTHER -> TRUE

\* A decision is final: whatever a drain read before, it neither reopens nor
\* decides again what another drain has matched or handed to review.
VerdictsAreFinal ==
  [][\A r \in Rows : rows[r].reconciliation \in {"matched", "needs_review"} =>
       /\ rows'[r].reconciliation = rows[r].reconciliation
       /\ rows'[r].attempt = rows[r].attempt
    ]_adapterVars

\* A row leaves the retry schedule only by the execution of the very attempt
\* it waits for, when it is due and once: two drains of one schedule, however
\* stale, do not execute it twice or early.
RetriesRunWhenDue ==
  [][\A r \in Rows :
       /\ rows[r].reconciliation = "retry_scheduled"
       /\ rows'[r].reconciliation # "retry_scheduled"
       => LET key == RetryKey(r, rows[r])
          IN  Due(rows[r]) /\ key \in audits' \ audits
    ]_adapterVars

\* The queue drains: a pending row is decided, and a scheduled retry whose row
\* no external action moves is executed.
QueueDrains ==
  \A r \in Rows :
    /\ rows[r].reconciliation = "pending" ~>
         rows[r].reconciliation # "pending"
    /\ rows[r].reconciliation = "retry_scheduled" ~>
         rows[r].reconciliation # "retry_scheduled" \/ rows[r].state # "queued"
=============================================================================
