------------------------------ MODULE Approvals ------------------------------
(***************************************************************************)
(* Workflow runs, approval requests and tasks together: approval.request   *)
(* and approval.decide (src/src/core/approvals.ts), task.transition        *)
(* (src/src/core/tasks.ts), workflow transition and the executor's         *)
(* approval_request steps (src/src/core/workflows.ts).                     *)
(*                                                                         *)
(* Each operator command is a transaction that takes an advisory lock,     *)
(* reads the rows it decides on without locking them, and writes them at   *)
(* the end. Between its reading and its writing, other commands, and the   *)
(* executor, commit. Only commands under the same advisory lock exclude    *)
(* each other: the same idempotency key for approval.request and           *)
(* task.transition, the same approval for approval.decide, the same run    *)
(* for a workflow transition.                                              *)
(*                                                                         *)
(* Left out: what a decision writes beside states (worker run data,        *)
(* adapter receipts, the payroll handoff), the check of the reviewer, and  *)
(* the free data merged into runs and tasks.                               *)
(***************************************************************************)
EXTENDS WorkflowSteps

CONSTANTS
  Sessions,       \* operator commands that may be in flight together
  Keys,           \* idempotency keys of operator commands
  ApprovalIds,    \* ids of approval_requests rows
  TaskIds,        \* ids of tasks rows
  NoTask,         \* taskId left out
  NoRun,          \* workflowRunId null
  ApprovalSteps,  \* the steps of kind approval_request
  TaskOf,         \* the task of each of them, or NoTask
  AskingStates,   \* states whose transition requests an approval
  StartState,     \* state the runs are started in
  TaskTargets     \* states task.transition is asked for

TaskStates ==
  {"draft", "active", "waiting", "approval_required", "blocked", "done",
   "canceled"}
TerminalTask == {"done", "canceled"}

ASSUME ApprovalsAssumption ==
  /\ ApprovalSteps \subseteq Steps
  /\ TaskOf \in [ApprovalSteps -> TaskIds \cup {NoTask}]
  /\ NoTask \notin TaskIds /\ NoRun \notin Runs
  /\ AskingStates \subseteq States
  /\ StartState \in States
  /\ TaskTargets \subseteq TaskStates

VARIABLES
  approvals, \* approval_requests, by id
  tasks,     \* the state of each task
  audits,    \* audit events of the operator commands
  tx         \* the open transaction of each session

approvalVars == <<approvals, tasks, audits, tx>>
allVars == <<stepVars, approvalVars>>

Decisions == {"approved", "rejected", "revision_requested"}

RequestCommand == [op : {"request"}, key : Keys, task : TaskIds \cup {NoTask}]
TaskCommand    == [op : {"task"}, key : Keys, task : TaskIds, to : TaskTargets]
DecideCommand  ==
  [op : {"decide"}, key : Keys, approval : ApprovalIds, action : Decisions]
MoveCommand    == [op : {"move"}, key : Keys, run : Runs, to : States]

NoApproval == [state |-> "absent"]
Approval ==
  [state : {"pending"} \cup Decisions, run : Runs \cup {NoRun},
   task : TaskIds \cup {NoTask}]
NoTx == [from |-> "none"]
Tx == [command : RequestCommand \cup TaskCommand \cup DecideCommand
                   \cup MoveCommand,
       from : States \cup {NoState}]

ApprovalTypeOK ==
  /\ StepTypeOK
  /\ approvals \in [ApprovalIds -> Approval \cup {NoApproval}]
  /\ tasks \in [TaskIds -> TaskStates]
  /\ audits \subseteq
       [op : {"request", "task", "decide", "move"}, key : Keys,
        target : ApprovalIds \cup TaskIds \cup Runs]
  /\ tx \in [Sessions -> Tx \cup {NoTx}]

-----------------------------------------------------------------------------
\* Mutant: approval.decide locks its idempotency key, not the approval.
LockOfMutant(c) == IF c.op = "move" THEN <<"move", c.run>> ELSE <<c.op, c.key>>

\* The advisory lock a command takes.
LockOf(c) ==
  CASE c.op = "decide" -> <<"decide", c.approval>>
    [] c.op = "move"   -> <<"move", c.run>>
    [] OTHER           -> <<c.op, c.key>>

\* Mutant: replays are not looked up.
RecordedMutant(op, key) == FALSE

\* An execution of op under the key has been recorded: a repetition replays
\* it, another command under the key is refused.
Recorded(op, key) == \E x \in audits : x.op = op /\ x.key = key

\* Take the lock of a command that is neither a replay nor a conflict.
Begin(s, c, from) ==
  /\ tx[s] = NoTx
  /\ \A t \in Sessions : tx[t] # NoTx => LockOf(tx[t].command) # LockOf(c)
  /\ ~Recorded(c.op, c.key)
  /\ tx' = [tx EXCEPT ![s] = [command |-> c, from |-> from]]
  /\ UNCHANGED <<stepVars, approvals, tasks, audits>>

\* Record the execution and commit. The unique index on audit events refuses
\* a second execution under the key.
Commit(s, target) ==
  /\ ~Recorded(tx[s].command.op, tx[s].command.key)
  /\ audits' = audits \cup
       {[op |-> tx[s].command.op, key |-> tx[s].command.key, target |-> target]}
  /\ tx' = [tx EXCEPT ![s] = NoTx]

Running(s, op) == tx[s] # NoTx /\ tx[s].command.op = op

-----------------------------------------------------------------------------
\* approval.request: a done or canceled task may not request approval.
BeginRequest(s, c) ==
  /\ c.task # NoTask => tasks[c.task] \notin TerminalTask
  /\ Begin(s, c, NoState)

CommitRequest(s, a) ==
  /\ Running(s, "request")
  /\ approvals[a] = NoApproval
  /\ LET task == tx[s].command.task
     IN  /\ approvals' = [approvals EXCEPT ![a] =
              [state |-> "pending", run |-> NoRun, task |-> task]]
         /\ tasks' = IF task = NoTask THEN tasks
                     ELSE [tasks EXCEPT ![task] = "approval_required"]
  /\ Commit(s, a)
  /\ UNCHANGED stepVars

\* task.transition: a done or canceled task moves to no other state.
BeginTask(s, c) ==
  /\ tasks[c.task] \in TerminalTask => c.to = tasks[c.task]
  /\ Begin(s, c, NoState)

CommitTask(s) ==
  /\ Running(s, "task")
  /\ tasks' = [tasks EXCEPT ![tx[s].command.task] = tx[s].command.to]
  /\ Commit(s, tx[s].command.task)
  /\ UNCHANGED <<stepVars, approvals>>

-----------------------------------------------------------------------------
\* approval.decide: read the pending approval and the state of its run.
BeginDecide(s, c) ==
  /\ approvals[c.approval].state = "pending"
  /\ LET r == approvals[c.approval].run
     IN  Begin(s, c, IF r = NoRun THEN NoState ELSE run[r])

\* Mutant: the task takes over the decision as its state.
TaskStateForMutant(action) == action

\* taskStateForDecision.
TaskStateFor(action) ==
  CASE action = "approved"           -> "waiting"
    [] action = "revision_requested" -> "active"
    [] OTHER                         -> "blocked"

\* Mutant: the decision moves the run to any state the definition knows
\* (isKnownWorkflowState in place of canTransition).
DecidedStateMutant(from, action) == IF action \in States THEN action ELSE from

\* Where a decision leaves a run it found in state from.
DecidedState(from, action) ==
  IF <<from, action>> \in Transitions THEN action ELSE from

\* Decide the approval, move its task, and write the run's state: the next
\* one, or again the one that was read.
CommitDecide(s) ==
  /\ Running(s, "decide")
  /\ LET c == tx[s].command
         row == approvals[c.approval]
     IN  /\ approvals' = [approvals EXCEPT ![c.approval].state = c.action]
         /\ tasks' = IF row.task = NoTask THEN tasks
                     ELSE [tasks EXCEPT ![row.task] = TaskStateFor(c.action)]
         /\ run' = IF row.run = NoRun THEN run
                   ELSE [run EXCEPT ![row.run] =
                          DecidedState(tx[s].from, c.action)]
         /\ Commit(s, c.approval)
  /\ UNCHANGED <<step, executed, commanded, claim>>

-----------------------------------------------------------------------------
\* transition of a workflow run, read without locking the row.
BeginMove(s, c) ==
  /\ <<run[c.run], c.to>> \in Transitions
  /\ Begin(s, c, run[c.run])

\* The approval request a workflow writes.
Asked(r, task) == [state |-> "pending", run |-> r, task |-> task]

\* Write the new state, and request an approval if the state asks for one.
CommitMove(s) ==
  /\ Running(s, "move")
  /\ LET c == tx[s].command
     IN  /\ run' = [run EXCEPT ![c.run] = c.to]
         /\ \/ /\ c.to \notin AskingStates
               /\ UNCHANGED approvals
            \/ /\ c.to \in AskingStates
               /\ \E a \in ApprovalIds :
                    /\ approvals[a] = NoApproval
                    /\ approvals' = [approvals EXCEPT ![a] =
                         Asked(c.run, NoTask)]
         /\ Commit(s, c.run)
  /\ UNCHANGED <<step, executed, commanded, claim, tasks>>

-----------------------------------------------------------------------------
\* The executor completes an approval_request step: in one transaction it
\* also writes the request and moves the task, whatever the task's state.
CompleteAsking(e, a) ==
  /\ Complete(e)
  /\ claim[e].step \in ApprovalSteps
  /\ approvals[a] = NoApproval
  /\ LET st == claim[e].step
     IN  /\ approvals' = [approvals EXCEPT ![a] = Asked(RunOf[st], TaskOf[st])]
         /\ tasks' = IF TaskOf[st] = NoTask THEN tasks
                     ELSE [tasks EXCEPT ![TaskOf[st]] = "approval_required"]
  /\ UNCHANGED <<audits, tx>>

\* Everything else the executor does.
ExecutorStep ==
  /\ StepNext
  /\ \A x \in executed' \ executed : x.step \notin ApprovalSteps
  /\ UNCHANGED approvalVars

\* A refusal, an error or a dead connection.
Rollback(s) ==
  /\ tx[s] # NoTx
  /\ tx' = [tx EXCEPT ![s] = NoTx]
  /\ UNCHANGED <<stepVars, approvals, tasks, audits>>

ApprovalInit ==
  /\ StepInit
  /\ run = [r \in Runs |-> StartState]
  /\ approvals = [a \in ApprovalIds |-> NoApproval]
  /\ tasks = [t \in TaskIds |-> "active"]
  /\ audits = {}
  /\ tx = [s \in Sessions |-> NoTx]

ApprovalNext ==
  \/ \E s \in Sessions, c \in RequestCommand : BeginRequest(s, c)
  \/ \E s \in Sessions, a \in ApprovalIds : CommitRequest(s, a)
  \/ \E s \in Sessions, c \in TaskCommand : BeginTask(s, c)
  \/ \E s \in Sessions : CommitTask(s)
  \/ \E s \in Sessions, c \in DecideCommand : BeginDecide(s, c)
  \/ \E s \in Sessions : CommitDecide(s)
  \/ \E s \in Sessions, c \in MoveCommand : BeginMove(s, c)
  \/ \E s \in Sessions : CommitMove(s)
  \/ \E e \in Executors, a \in ApprovalIds : CompleteAsking(e, a)
  \/ ExecutorStep
  \/ \E s \in Sessions : Rollback(s)

ApprovalSpec == ApprovalInit /\ [][ApprovalNext]_allVars

-----------------------------------------------------------------------------
(* Properties                                                              *)

\* An approval is decided once: it is asked for before it is decided, a
\* decision is never replaced, and its run and task never change.
DecisionIsFinal ==
  [][\A a \in ApprovalIds :
       /\ approvals[a] = NoApproval =>
            approvals'[a] = NoApproval \/ approvals'[a].state = "pending"
       /\ approvals[a].state = "pending" =>
            \E d \in {"pending"} \cup Decisions :
              approvals'[a] = [approvals[a] EXCEPT !.state = d]
       /\ approvals[a].state \in Decisions =>
            approvals'[a] = approvals[a]]_allVars

\* A decided approval has exactly one decision on record, and a key names one
\* effect, however often commands are repeated.
OneDecisionPerApproval ==
  /\ \A x, y \in audits : x.op = y.op /\ x.key = y.key => x = y
  /\ \A a \in ApprovalIds :
       LET decided == {x \in audits : x.op = "decide" /\ x.target = a}
       IN  /\ (approvals[a].state \in Decisions) <=> (decided # {})
           /\ \A x, y \in decided : x = y

\* Whatever commands interleave, and in whatever state a decision finds its
\* run, no run is taken to a state that its definition knows but does not lead
\* to from the start: it stays in every set of states that contains the start
\* and that no transition leaves. Stale reads move runs back or past each
\* other (MovesAlongDefinition), but only among those states.
ClosedSets ==
  {set \in SUBSET States :
     /\ StartState \in set
     /\ \A t \in Transitions : t[1] \in set => t[2] \in set}
RunsStayReachable == \A set \in ClosedSets : \A r \in Runs : run[r] \in set

\* What docs/workflows.md says: the runtime validates transitions against the
\* definition. A command that read the run before another one moved it moves
\* it along no transition, or back.
MovesAlongDefinition ==
  [][\A r \in Runs : run'[r] # run[r] => <<run[r], run'[r]>> \in Transitions
    ]_allVars

\* What task.transition says of itself: done or canceled tasks cannot
\* transition to another state.
TerminalTasksStay ==
  [][\A t \in TaskIds : tasks[t] \in TerminalTask => tasks'[t] = tasks[t]
    ]_allVars
=============================================================================
