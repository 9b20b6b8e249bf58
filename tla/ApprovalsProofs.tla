--------------------------- MODULE ApprovalsProofs ---------------------------
(***************************************************************************)
(* Proofs about Approvals, for any number of sessions, executors, keys,    *)
(* approvals, tasks, steps and runs, and any definition.                   *)
(***************************************************************************)
EXTENDS Approvals, WorkflowStepsProofs

Open(s) == tx[s] # NoTx
Commands == RequestCommand \cup TaskCommand \cup DecideCommand \cup MoveCommand

ApprovalTypes ==
  /\ approvals \in [ApprovalIds -> Approval \cup {NoApproval}]
  /\ tasks \in [TaskIds -> TaskStates]
  /\ audits \subseteq
       [op : {"request", "task", "decide", "move"}, key : Keys,
        target : ApprovalIds \cup TaskIds \cup Runs]
  /\ tx \in [Sessions -> Tx \cup {NoTx}]

\* Open transactions hold different locks. An open decision's approval is
\* still pending, and its transaction holds the state of a run it will write.
LockInv ==
  /\ \A s, t \in Sessions :
       Open(s) /\ Open(t) /\ LockOf(tx[s].command) = LockOf(tx[t].command)
       => s = t
  /\ \A s \in Sessions : Running(s, "decide") =>
       LET row == approvals[tx[s].command.approval]
       IN  /\ row.state = "pending"
           /\ row.run # NoRun => tx[s].from \in States

DecisionInv == StepInv /\ ApprovalTypes /\ LockInv /\ OneDecisionPerApproval

-----------------------------------------------------------------------------
\* The kinds of a transaction, and what the record of each has.
LEMMA TxKinds ==
  ASSUME ApprovalTypes, NEW s \in Sessions
  PROVE  /\ Open(s) => tx[s] \in Tx
         /\ NoTx \notin Tx
         /\ Running(s, "request") => tx[s].command \in RequestCommand
         /\ Running(s, "task") => tx[s].command \in TaskCommand
         /\ Running(s, "decide") => tx[s].command \in DecideCommand
         /\ Running(s, "move") => tx[s].command \in MoveCommand
<1>1. Open(s) => tx[s] \in Tx
  BY DEF ApprovalTypes, Open
<1>2. NoTx \notin Tx
  BY DEF Tx, NoTx
<1>3. ASSUME NEW op \in {"request", "task", "decide", "move"}, Running(s, op)
      PROVE  tx[s].command \in Commands /\ tx[s].command.op = op
  BY <1>1, <1>3 DEF Running, Open, Tx, Commands
<1>4. \A c \in Commands :
        /\ c.op = "request" => c \in RequestCommand
        /\ c.op = "task" => c \in TaskCommand
        /\ c.op = "decide" => c \in DecideCommand
        /\ c.op = "move" => c \in MoveCommand
  BY DEF Commands, RequestCommand, TaskCommand, DecideCommand, MoveCommand
<1>. QED
  BY <1>1, <1>2, <1>3, <1>4

LEMMA ApprovalKinds ==
  ASSUME ApprovalTypes, NEW a \in ApprovalIds
  PROVE  /\ approvals[a].state # "absent" =>
              approvals[a] \in Approval /\ approvals[a] # NoApproval
         /\ approvals[a] # NoApproval => approvals[a] \in Approval
         /\ approvals[a] = NoApproval => approvals[a].state = "absent"
  BY DEF ApprovalTypes, NoApproval, Approval

-----------------------------------------------------------------------------
\* The parts of an operator command that all of them share.

\* Opening a transaction under a lock no other one holds.
LEMMA BeginStep ==
  ASSUME DecisionInv, NEW s \in Sessions, NEW c \in Commands,
         NEW from \in States \cup {NoState}, Begin(s, c, from),
         c.op = "decide" => /\ approvals[c.approval].state = "pending"
                            /\ approvals[c.approval].run # NoRun => from \in States
  PROVE  DecisionInv'
<1> DEFINE t == [command |-> c, from |-> from]
<1>1. tx' = [tx EXCEPT ![s] = t] /\ tx[s] = NoTx
      /\ UNCHANGED <<stepVars, approvals, tasks, audits>>
  BY DEF Begin
<1>2. t \in Tx /\ t # NoTx /\ t.command = c /\ t.from = from
  BY DEF Tx, Commands, NoTx
<1>. HIDE DEF t
<1>3. tx \in [Sessions -> Tx \cup {NoTx}]
  BY DEF DecisionInv, ApprovalTypes
<1>4. tx'[s] = t /\ \A u \in Sessions \ {s} : tx'[u] = tx[u]
  BY <1>1, <1>3
<1>5. StepInv'
  BY <1>1 DEF DecisionInv, StepInv, StepTypeOK, ClaimInv, ExecutedOnce, stepVars
<1>6. ApprovalTypes'
  BY <1>1, <1>2 DEF DecisionInv, ApprovalTypes
<1>7. LockInv'
  <2>1. ASSUME NEW u \in Sessions, NEW v \in Sessions, Open(u)', Open(v)',
               LockOf(tx'[u].command) = LockOf(tx'[v].command)
        PROVE  u = v
    <3>1. \A w \in Sessions \ {s} : Open(w)' => Open(w)
      BY <1>4 DEF Open
    <3>2. \A w \in Sessions \ {s} :
            Open(w) => LockOf(tx[w].command) # LockOf(c)
      BY DEF Begin, Open
    <3>. QED
      BY <2>1, <3>1, <3>2, <1>2, <1>4 DEF DecisionInv, LockInv
  <2>2. ASSUME NEW u \in Sessions, Running(u, "decide")'
        PROVE  LET row == approvals'[tx'[u].command.approval]
               IN  /\ row.state = "pending"
                   /\ row.run # NoRun => tx'[u].from \in States
    BY <2>2, <1>1, <1>2, <1>4 DEF DecisionInv, LockInv, Running
  <2>. QED
    BY <2>1, <2>2 DEF LockInv, Open, LockOf
<1>8. OneDecisionPerApproval'
  BY <1>1 DEF DecisionInv, OneDecisionPerApproval
<1>. QED
  BY <1>5, <1>6, <1>7, <1>8 DEF DecisionInv

\* Ending a transaction that leaves the approvals of other open decisions as
\* they are.
LEMMA EndStep ==
  ASSUME DecisionInv, NEW s \in Sessions,
         tx' = [tx EXCEPT ![s] = NoTx],
         \A u \in Sessions \ {s} : Running(u, "decide") =>
           approvals'[tx[u].command.approval] = approvals[tx[u].command.approval]
  PROVE  LockInv' /\ tx' \in [Sessions -> Tx \cup {NoTx}]
<1>1. tx \in [Sessions -> Tx \cup {NoTx}]
  BY DEF DecisionInv, ApprovalTypes
<1>2. tx'[s] = NoTx /\ \A u \in Sessions \ {s} : tx'[u] = tx[u]
  BY <1>1
<1>3. ASSUME NEW u \in Sessions, NEW v \in Sessions, Open(u)', Open(v)',
             LockOf(tx'[u].command) = LockOf(tx'[v].command)
      PROVE  u = v
  BY <1>2, <1>3 DEF DecisionInv, LockInv, Open
<1>4. ASSUME NEW u \in Sessions, Running(u, "decide")'
      PROVE  LET row == approvals'[tx'[u].command.approval]
             IN  /\ row.state = "pending"
                 /\ row.run # NoRun => tx'[u].from \in States
  BY <1>2, <1>4 DEF DecisionInv, LockInv, Running
<1>. QED
  BY <1>1, <1>3, <1>4 DEF LockInv, Open, LockOf

\* What the audit event of a commit does to the record of the keys, and to the
\* decisions recorded of an approval.
LEMMA AuditStep ==
  ASSUME DecisionInv, NEW s \in Sessions, Open(s),
         NEW target \in ApprovalIds \cup TaskIds \cup Runs, Commit(s, target)
  PROVE  /\ audits' \subseteq
              [op : {"request", "task", "decide", "move"}, key : Keys,
               target : ApprovalIds \cup TaskIds \cup Runs]
         /\ \A x, y \in audits' : x.op = y.op /\ x.key = y.key => x = y
         /\ tx[s].command.op # "decide" =>
              \A x : x.op = "decide" => (x \in audits' <=> x \in audits)
         /\ tx[s].command.op = "decide" =>
              \A a : {x \in audits' : x.op = "decide" /\ x.target = a} =
                       {x \in audits : x.op = "decide" /\ x.target = a} \cup
                         (IF a = target
                          THEN {[op |-> "decide", key |-> tx[s].command.key,
                                 target |-> target]}
                          ELSE {})
<1> DEFINE c == tx[s].command
           z == [op |-> c.op, key |-> c.key, target |-> target]
<1>1. audits' = audits \cup {z} /\ \A x \in audits : ~(x.op = c.op /\ x.key = c.key)
  BY DEF Commit, Recorded
<1>2. c.key \in Keys /\ c.op \in {"request", "task", "decide", "move"}
  BY TxKinds DEF DecisionInv, Tx, RequestCommand, TaskCommand, DecideCommand,
                 MoveCommand
<1>3. z.op = c.op /\ z.key = c.key /\ z.target = target
  OBVIOUS
<1>4. z \in [op : {"request", "task", "decide", "move"}, key : Keys,
             target : ApprovalIds \cup TaskIds \cup Runs]
  BY <1>2
<1>5. audits' \subseteq
        [op : {"request", "task", "decide", "move"}, key : Keys,
         target : ApprovalIds \cup TaskIds \cup Runs]
  BY <1>1, <1>4 DEF DecisionInv, ApprovalTypes
<1>. HIDE DEF z
<1>6. \A x, y \in audits' : x.op = y.op /\ x.key = y.key => x = y
  BY <1>1, <1>3 DEF DecisionInv, OneDecisionPerApproval
<1>7. ASSUME c.op # "decide" PROVE \A x : x.op = "decide" => (x \in audits' <=> x \in audits)
  BY <1>1, <1>3, <1>7
<1>8. ASSUME c.op = "decide", NEW a
      PROVE  {x \in audits' : x.op = "decide" /\ x.target = a} =
               {x \in audits : x.op = "decide" /\ x.target = a} \cup
                 (IF a = target THEN {z} ELSE {})
  BY <1>1, <1>3, <1>8
<1>9. c.op = "decide" => z = [op |-> "decide", key |-> c.key, target |-> target]
  BY DEF z
<1>. QED
  BY <1>5, <1>6, <1>7, <1>8, <1>9

\* The executor's invariant only asks of runs that they have a state.
LEMMA RunStep ==
  ASSUME StepInv, run' \in [Runs -> States],
         UNCHANGED <<step, executed, commanded, claim>>
  PROVE  StepInv'
  BY DEF StepInv, StepTypeOK, ClaimInv, ExecutedOnce

\* A new pending approval, asked for when nobody decides it.
LEMMA NewApproval ==
  ASSUME DecisionInv, NEW a \in ApprovalIds, approvals[a] = NoApproval,
         NEW row \in Approval, row.state = "pending",
         approvals' = [approvals EXCEPT ![a] = row]
  PROVE  /\ approvals' \in [ApprovalIds -> Approval \cup {NoApproval}]
         /\ \A b \in ApprovalIds :
              (approvals'[b].state \in Decisions) <=> (approvals[b].state \in Decisions)
         /\ \A u \in Sessions : Running(u, "decide") =>
              approvals'[tx[u].command.approval] = approvals[tx[u].command.approval]
<1>1. approvals \in [ApprovalIds -> Approval \cup {NoApproval}]
  BY DEF DecisionInv, ApprovalTypes
<1>2. approvals'[a] = row /\ \A b \in ApprovalIds \ {a} : approvals'[b] = approvals[b]
  BY <1>1
<1>3. approvals[a].state = "absent"
  BY ApprovalKinds DEF DecisionInv
<1>4. \A b \in ApprovalIds :
        (approvals'[b].state \in Decisions) <=> (approvals[b].state \in Decisions)
  BY <1>2, <1>3 DEF Decisions
<1>5. ASSUME NEW u \in Sessions, Running(u, "decide")
      PROVE  approvals'[tx[u].command.approval] = approvals[tx[u].command.approval]
  <2>1. tx[u].command.approval \in ApprovalIds
    BY <1>5, TxKinds DEF DecisionInv, DecideCommand
  <2>2. approvals[tx[u].command.approval].state = "pending"
    BY <1>5 DEF DecisionInv, LockInv
  <2>. QED
    BY <1>2, <1>3, <2>1, <2>2
<1>. QED
  BY <1>1, <1>4, <1>5

\* The record of decisions survives a step that adds no decision.
LEMMA SameDecisions ==
  ASSUME DecisionInv,
         \A x, y \in audits' : x.op = y.op /\ x.key = y.key => x = y,
         \A x : x.op = "decide" => (x \in audits' <=> x \in audits),
         \A b \in ApprovalIds :
           (approvals'[b].state \in Decisions) <=> (approvals[b].state \in Decisions)
  PROVE  OneDecisionPerApproval'
<1>1. \A b \in ApprovalIds :
        {x \in audits' : x.op = "decide" /\ x.target = b}
          = {x \in audits : x.op = "decide" /\ x.target = b}
  OBVIOUS
<1>. QED
  BY <1>1 DEF DecisionInv, OneDecisionPerApproval

-----------------------------------------------------------------------------
\* One lemma for each command.

LEMMA RequestStep ==
  ASSUME DecisionInv, NEW s \in Sessions, NEW a \in ApprovalIds, CommitRequest(s, a)
  PROVE  DecisionInv'
<1> DEFINE task == tx[s].command.task
           row == [state |-> "pending", run |-> NoRun, task |-> task]
<1>1. Open(s) /\ tx[s].command.op = "request" /\ task \in TaskIds \cup {NoTask}
  BY TxKinds DEF CommitRequest, Running, Open, DecisionInv, RequestCommand
<1>2. row \in Approval /\ row.state = "pending"
  BY <1>1 DEF Approval
<1>3. approvals[a] = NoApproval /\ approvals' = [approvals EXCEPT ![a] = row]
      /\ tasks' = (IF task = NoTask THEN tasks
                   ELSE [tasks EXCEPT ![task] = "approval_required"])
      /\ Commit(s, a) /\ UNCHANGED stepVars
  BY DEF CommitRequest
<1>. HIDE DEF row, task
<1>4. StepInv'
  BY <1>3, RunStep DEF DecisionInv, StepInv, StepTypeOK, stepVars
<1>5. tx' = [tx EXCEPT ![s] = NoTx]
  BY <1>3 DEF Commit
<1>6. LockInv' /\ tx' \in [Sessions -> Tx \cup {NoTx}]
  BY <1>2, <1>3, <1>5, NewApproval, EndStep
<1>7. tasks' \in [TaskIds -> TaskStates]
  BY <1>1, <1>3 DEF DecisionInv, ApprovalTypes, TaskStates
<1>8. ApprovalTypes'
  BY <1>1, <1>2, <1>3, <1>6, <1>7, NewApproval, AuditStep DEF ApprovalTypes
<1>9. OneDecisionPerApproval'
  BY <1>1, <1>2, <1>3, NewApproval, AuditStep, SameDecisions
<1>. QED
  BY <1>4, <1>6, <1>8, <1>9 DEF DecisionInv

LEMMA TaskStep ==
  ASSUME DecisionInv, NEW s \in Sessions, CommitTask(s)
  PROVE  DecisionInv'
<1> DEFINE c == tx[s].command
<1>1. Open(s) /\ c.op = "task" /\ c.task \in TaskIds /\ c.to \in TaskStates
  BY TxKinds, ApprovalsAssumption
  DEF CommitTask, Running, Open, DecisionInv, TaskCommand
<1>2. tasks' = [tasks EXCEPT ![c.task] = c.to] /\ Commit(s, c.task)
      /\ UNCHANGED <<stepVars, approvals>>
  BY DEF CommitTask
<1>3. StepInv'
  BY <1>2, RunStep DEF DecisionInv, StepInv, StepTypeOK, stepVars
<1>4. tx' = [tx EXCEPT ![s] = NoTx] /\ approvals' = approvals
  BY <1>2 DEF Commit
<1>5. LockInv' /\ tx' \in [Sessions -> Tx \cup {NoTx}]
  BY <1>4, EndStep
<1>6. tasks' \in [TaskIds -> TaskStates]
  BY <1>1, <1>2 DEF DecisionInv, ApprovalTypes
<1>7. ApprovalTypes'
  BY <1>1, <1>2, <1>4, <1>5, <1>6, AuditStep DEF DecisionInv, ApprovalTypes
<1>8. OneDecisionPerApproval'
  BY <1>1, <1>2, <1>4, AuditStep, SameDecisions
<1>. QED
  BY <1>3, <1>5, <1>7, <1>8 DEF DecisionInv

LEMMA DecideStep ==
  ASSUME DecisionInv, NEW s \in Sessions, CommitDecide(s)
  PROVE  DecisionInv'
<1> DEFINE c == tx[s].command
           a == c.approval
           row == approvals[a]
           decided(b) == {x \in audits : x.op = "decide" /\ x.target = b}
<1>1. /\ Open(s) /\ Running(s, "decide") /\ c.op = "decide"
      /\ a \in ApprovalIds /\ c.action \in Decisions
  BY TxKinds DEF CommitDecide, Running, Open, DecisionInv, DecideCommand
<1>2. /\ approvals' = [approvals EXCEPT ![a].state = c.action]
      /\ tasks' = (IF row.task = NoTask THEN tasks
                   ELSE [tasks EXCEPT ![row.task] = TaskStateFor(c.action)])
      /\ run' = (IF row.run = NoRun THEN run
                 ELSE [run EXCEPT ![row.run] = DecidedState(tx[s].from, c.action)])
      /\ Commit(s, a) /\ UNCHANGED <<step, executed, commanded, claim>>
  BY DEF CommitDecide
<1>3. row.state = "pending" /\ (row.run # NoRun => tx[s].from \in States)
  BY <1>1 DEF DecisionInv, LockInv
<1>4. row \in Approval
  BY <1>1, <1>3, ApprovalKinds DEF DecisionInv
<1>5. TaskStateFor(c.action) \in TaskStates
  BY <1>1 DEF TaskStateFor, TaskStates, Decisions
<1>6. row.run # NoRun => DecidedState(tx[s].from, c.action) \in States
  BY <1>3, StepsAssumption DEF DecidedState
<1>7. tx' = [tx EXCEPT ![s] = NoTx]
  BY <1>2 DEF Commit
<1>8. approvals \in [ApprovalIds -> Approval \cup {NoApproval}]
  BY DEF DecisionInv, ApprovalTypes
<1>9. /\ approvals'[a] = [row EXCEPT !.state = c.action]
      /\ approvals'[a].state = c.action
      /\ \A b \in ApprovalIds \ {a} : approvals'[b] = approvals[b]
  BY <1>1, <1>2, <1>4, <1>8 DEF Approval
<1>. HIDE DEF row
<1>10. run' \in [Runs -> States]
  <2>1. run \in [Runs -> States]
    BY DEF DecisionInv, StepInv, StepTypeOK
  <2>. QED
    BY <1>2, <1>6, <2>1
<1>11. StepInv'
  BY <1>2, <1>10, RunStep DEF DecisionInv
<1>12. LockInv' /\ tx' \in [Sessions -> Tx \cup {NoTx}]
  <2>1. ASSUME NEW u \in Sessions \ {s}, Running(u, "decide")
        PROVE  approvals'[tx[u].command.approval] = approvals[tx[u].command.approval]
    <3>1. tx[u].command \in DecideCommand /\ Open(u)
      BY <2>1, TxKinds DEF DecisionInv, Running, Open
    <3>2. tx[u].command.op = "decide" /\ tx[u].command.approval \in ApprovalIds
      BY <3>1 DEF DecideCommand
    <3>3. LockOf(tx[u].command) = <<"decide", tx[u].command.approval>>
          /\ LockOf(c) = <<"decide", a>>
      BY <1>1, <3>2 DEF LockOf
    <3>4. tx[u].command.approval # a
      BY <1>1, <2>1, <3>1, <3>3 DEF DecisionInv, LockInv
    <3>. QED
      BY <1>9, <3>2, <3>4
  <2>. QED
    BY <1>7, <2>1, EndStep
<1>13. tasks' \in [TaskIds -> TaskStates]
  BY <1>2, <1>5 DEF DecisionInv, ApprovalTypes
<1>14. approvals' \in [ApprovalIds -> Approval \cup {NoApproval}]
  <2>1. [row EXCEPT !.state = c.action] \in Approval
    BY <1>1, <1>4 DEF Approval
  <2>. QED
    BY <1>2, <1>8, <1>9, <2>1
<1>15. ApprovalTypes'
  BY <1>1, <1>2, <1>12, <1>13, <1>14, AuditStep DEF ApprovalTypes
<1>16. OneDecisionPerApproval'
  <2>1. \A x, y \in audits' : x.op = y.op /\ x.key = y.key => x = y
    BY <1>1, <1>2, AuditStep
  <2>2. \A b : {x \in audits' : x.op = "decide" /\ x.target = b} =
           decided(b) \cup
             (IF b = a THEN {[op |-> "decide", key |-> c.key, target |-> a]} ELSE {})
    BY <1>1, <1>2, AuditStep
  <2>3. row.state \notin Decisions
    BY <1>3 DEF Decisions
  <2>4. decided(a) = {}
    BY <1>1, <2>3 DEF row, DecisionInv, OneDecisionPerApproval
  <2>5. ASSUME NEW b \in ApprovalIds
        PROVE  LET d == {x \in audits' : x.op = "decide" /\ x.target = b}
               IN  /\ (approvals'[b].state \in Decisions) <=> (d # {})
                   /\ \A x, y \in d : x = y
    <3>1. CASE b = a
      <4> DEFINE z == [op |-> "decide", key |-> c.key, target |-> a]
      <4>1. {x \in audits' : x.op = "decide" /\ x.target = b} = {z}
        BY <2>2, <2>4, <3>1
      <4>2. approvals'[b].state \in Decisions
        BY <1>1, <1>9, <3>1
      <4>. QED
        BY <4>1, <4>2
    <3>2. CASE b # a
      <4>1. {x \in audits' : x.op = "decide" /\ x.target = b} = decided(b)
        BY <2>2, <3>2
      <4>2. approvals'[b] = approvals[b]
        BY <1>9, <3>2
      <4>. QED
        BY <4>1, <4>2 DEF DecisionInv, OneDecisionPerApproval
    <3>. QED
      BY <3>1, <3>2
  <2>. QED
    BY <2>1, <2>5 DEF OneDecisionPerApproval
<1>. QED
  BY <1>11, <1>12, <1>15, <1>16 DEF DecisionInv

LEMMA MoveStep ==
  ASSUME DecisionInv, NEW s \in Sessions, CommitMove(s)
  PROVE  DecisionInv'
<1> DEFINE c == tx[s].command
<1>1. /\ Open(s) /\ c.op = "move" /\ c.run \in Runs /\ c.to \in States
  BY TxKinds DEF CommitMove, Running, Open, DecisionInv, MoveCommand
<1>2. /\ run' = [run EXCEPT ![c.run] = c.to] /\ Commit(s, c.run)
      /\ UNCHANGED <<step, executed, commanded, claim, tasks>>
  BY DEF CommitMove
<1>3. /\ approvals' \in [ApprovalIds -> Approval \cup {NoApproval}]
      /\ \A b \in ApprovalIds :
           (approvals'[b].state \in Decisions) <=> (approvals[b].state \in Decisions)
      /\ \A u \in Sessions : Running(u, "decide") =>
           approvals'[tx[u].command.approval] = approvals[tx[u].command.approval]
  <2>1. CASE UNCHANGED approvals
    BY <2>1 DEF DecisionInv, ApprovalTypes
  <2>2. ASSUME NEW a \in ApprovalIds, approvals[a] = NoApproval,
               approvals' = [approvals EXCEPT ![a] = Asked(c.run, NoTask)]
        PROVE  /\ approvals' \in [ApprovalIds -> Approval \cup {NoApproval}]
               /\ \A b \in ApprovalIds :
                    (approvals'[b].state \in Decisions) <=> (approvals[b].state \in Decisions)
               /\ \A u \in Sessions : Running(u, "decide") =>
                    approvals'[tx[u].command.approval] = approvals[tx[u].command.approval]
    <3>1. Asked(c.run, NoTask) \in Approval /\ Asked(c.run, NoTask).state = "pending"
      BY <1>1 DEF Asked, Approval
    <3>. QED
      BY <2>2, <3>1, NewApproval
  <2>. QED
    BY <2>1, <2>2 DEF CommitMove
<1>4. run' \in [Runs -> States]
  BY <1>1, <1>2 DEF DecisionInv, StepInv, StepTypeOK
<1>5. StepInv'
  BY <1>2, <1>4, RunStep DEF DecisionInv
<1>6. tx' = [tx EXCEPT ![s] = NoTx]
  BY <1>2 DEF Commit
<1>7. LockInv' /\ tx' \in [Sessions -> Tx \cup {NoTx}]
  BY <1>3, <1>6, EndStep
<1>8. ApprovalTypes'
  BY <1>1, <1>2, <1>3, <1>7, AuditStep DEF DecisionInv, ApprovalTypes
<1>9. OneDecisionPerApproval'
  BY <1>1, <1>2, <1>3, AuditStep, SameDecisions
<1>. QED
  BY <1>5, <1>7, <1>8, <1>9 DEF DecisionInv

LEMMA AskingStep ==
  ASSUME DecisionInv, NEW e \in Executors, NEW a \in ApprovalIds,
         CompleteAsking(e, a)
  PROVE  DecisionInv'
<1> DEFINE st == claim[e].step
           row == Asked(RunOf[st], TaskOf[st])
<1>1. /\ Complete(e) /\ st \in ApprovalSteps /\ approvals[a] = NoApproval
      /\ approvals' = [approvals EXCEPT ![a] = row]
      /\ tasks' = (IF TaskOf[st] = NoTask THEN tasks
                   ELSE [tasks EXCEPT ![TaskOf[st]] = "approval_required"])
      /\ UNCHANGED <<audits, tx>>
  BY DEF CompleteAsking
<1>2. st \in Steps /\ RunOf[st] \in Runs /\ TaskOf[st] \in TaskIds \cup {NoTask}
  BY <1>1, ApprovalsAssumption, StepsAssumption
<1>3. row \in Approval /\ row.state = "pending"
  BY <1>2 DEF Asked, Approval
<1>. HIDE DEF row, st
<1>4. StepInv'
  BY <1>1, CompleteStep DEF DecisionInv
<1>5. /\ approvals' \in [ApprovalIds -> Approval \cup {NoApproval}]
      /\ \A b \in ApprovalIds :
           (approvals'[b].state \in Decisions) <=> (approvals[b].state \in Decisions)
      /\ \A u \in Sessions : Running(u, "decide") =>
           approvals'[tx[u].command.approval] = approvals[tx[u].command.approval]
  BY <1>1, <1>3, NewApproval
<1>6. tasks' \in [TaskIds -> TaskStates]
  BY <1>1, <1>2 DEF DecisionInv, ApprovalTypes, TaskStates
<1>7. ApprovalTypes'
  BY <1>1, <1>5, <1>6 DEF DecisionInv, ApprovalTypes
<1>8. LockInv'
  BY <1>1, <1>5 DEF DecisionInv, LockInv, Open, Running, LockOf
<1>9. OneDecisionPerApproval'
  BY <1>1, <1>5, SameDecisions DEF DecisionInv, OneDecisionPerApproval
<1>. QED
  BY <1>4, <1>7, <1>8, <1>9 DEF DecisionInv

LEMMA RollbackStep ==
  ASSUME DecisionInv, NEW s \in Sessions, Rollback(s)
  PROVE  DecisionInv'
<1>1. tx' = [tx EXCEPT ![s] = NoTx]
      /\ UNCHANGED <<stepVars, approvals, tasks, audits>>
  BY DEF Rollback
<1>2. StepInv'
  BY <1>1, RunStep DEF DecisionInv, StepInv, StepTypeOK, stepVars
<1>3. LockInv' /\ tx' \in [Sessions -> Tx \cup {NoTx}]
  BY <1>1, EndStep
<1>4. ApprovalTypes' /\ OneDecisionPerApproval'
  BY <1>1, <1>3 DEF DecisionInv, ApprovalTypes, OneDecisionPerApproval
<1>. QED
  BY <1>2, <1>3, <1>4 DEF DecisionInv

\* The first stretch of each command.
LEMMA OpenStep ==
  ASSUME DecisionInv, NEW s \in Sessions,
         \/ \E c \in RequestCommand : BeginRequest(s, c)
         \/ \E c \in TaskCommand : BeginTask(s, c)
         \/ \E c \in DecideCommand : BeginDecide(s, c)
         \/ \E c \in MoveCommand : BeginMove(s, c)
  PROVE  DecisionInv'
<1>1. ASSUME NEW c \in RequestCommand, BeginRequest(s, c) PROVE DecisionInv'
  <2>1. c \in Commands /\ c.op # "decide"
    BY DEF Commands, RequestCommand
  <2>. QED
    BY <1>1, <2>1, BeginStep DEF BeginRequest
<1>2. ASSUME NEW c \in TaskCommand, BeginTask(s, c) PROVE DecisionInv'
  <2>1. c \in Commands /\ c.op # "decide"
    BY DEF Commands, TaskCommand
  <2>. QED
    BY <1>2, <2>1, BeginStep DEF BeginTask
<1>3. ASSUME NEW c \in DecideCommand, BeginDecide(s, c) PROVE DecisionInv'
  <2> DEFINE row == approvals[c.approval]
             from == IF row.run = NoRun THEN NoState ELSE run[row.run]
  <2>1. c \in Commands /\ c.approval \in ApprovalIds
    BY DEF Commands, DecideCommand
  <2>2. row.state = "pending" /\ Begin(s, c, from)
    BY <1>3 DEF BeginDecide
  <2>3. row \in Approval
    BY <2>1, <2>2, ApprovalKinds DEF DecisionInv
  <2>4. row.run # NoRun => run[row.run] \in States
    BY <2>3 DEF Approval, DecisionInv, StepInv, StepTypeOK
  <2>5. from \in States \cup {NoState} /\ (row.run # NoRun => from \in States)
    BY <2>4
  <2>. HIDE DEF from
  <2>. QED
    BY <2>1, <2>2, <2>5, BeginStep
<1>4. ASSUME NEW c \in MoveCommand, BeginMove(s, c) PROVE DecisionInv'
  <2>1. c \in Commands /\ c.op # "decide" /\ run[c.run] \in States
    BY DEF Commands, MoveCommand, DecisionInv, StepInv, StepTypeOK
  <2>. QED
    BY <1>4, <2>1, BeginStep DEF BeginMove
<1>. QED
  BY <1>1, <1>2, <1>3, <1>4

LEMMA ApprovalNextStep ==
  ASSUME DecisionInv, ApprovalNext
  PROVE  DecisionInv'
<1>1. ASSUME ExecutorStep PROVE DecisionInv'
  <2>1. StepInv'
    BY <1>1, StepInvKept DEF ExecutorStep, DecisionInv
  <2>2. UNCHANGED approvalVars
    BY <1>1 DEF ExecutorStep
  <2>. QED
    BY <2>1, <2>2 DEF approvalVars, DecisionInv, ApprovalTypes, LockInv, Open,
                      Running, LockOf, OneDecisionPerApproval
<1>. QED
  BY <1>1, OpenStep, RequestStep, TaskStep, DecideStep, MoveStep, AskingStep,
     RollbackStep DEF ApprovalNext

-----------------------------------------------------------------------------
\* The invariant of approvals, tasks, runs and open commands.
LEMMA DecisionInvariant == ApprovalSpec => []DecisionInv
<1>1. ApprovalInit => DecisionInv
  <2> SUFFICES ASSUME ApprovalInit PROVE DecisionInv
    OBVIOUS
  <2>1. StepInv
    BY StepInvStarts DEF ApprovalInit
  <2>2. ApprovalTypes /\ LockInv
    BY DEF ApprovalInit, ApprovalTypes, LockInv, Open, Running, TaskStates
  <2>3. OneDecisionPerApproval
    BY DEF ApprovalInit, OneDecisionPerApproval, NoApproval, Decisions
  <2>. QED
    BY <2>1, <2>2, <2>3 DEF DecisionInv
<1>2. DecisionInv /\ UNCHANGED allVars => DecisionInv'
  BY DEF allVars, stepVars, approvalVars, DecisionInv, StepInv, StepTypeOK,
         ClaimInv, ExecutedOnce, ApprovalTypes, LockInv, Open, Running, LockOf,
         OneDecisionPerApproval
<1>3. DecisionInv /\ [ApprovalNext]_allVars => DecisionInv'
  BY <1>2, ApprovalNextStep
<1>. QED
  BY <1>1, <1>3, PTL DEF ApprovalSpec

\* Every command writes rows of the types their tables declare.
THEOREM ApprovalTypesCorrect == ApprovalSpec => []ApprovalTypeOK
<1>1. DecisionInv => ApprovalTypeOK
  BY DEF DecisionInv, StepInv, ApprovalTypes, ApprovalTypeOK
<1>. QED
  BY <1>1, DecisionInvariant, PTL

\* However reviewers' commands overlap and are repeated, a decided approval has
\* one decision on record and a key one effect.
THEOREM ApprovalsDecidedOnce == ApprovalSpec => []OneDecisionPerApproval
<1>1. DecisionInv => OneDecisionPerApproval
  BY DEF DecisionInv
<1>. QED
  BY <1>1, DecisionInvariant, PTL

\* The executor keeps its promises while operators move its runs and tasks.
THEOREM ExecutorKeepsPromises == ApprovalSpec => [](OneHolder /\ ExecutedOnce)
<1>1. DecisionInv => OneHolder /\ ExecutedOnce
  BY DEF DecisionInv, StepInv, ClaimInv, OneHolder, Holds
<1>. QED
  BY <1>1, DecisionInvariant, PTL

\* A step leaves an approval alone, asks for it, or decides it.
LEMMA ApprovalMoves ==
  ASSUME DecisionInv, ApprovalNext, NEW a \in ApprovalIds
  PROVE  \/ approvals'[a] = approvals[a]
         \/ approvals[a] = NoApproval /\ approvals'[a].state = "pending"
         \/ /\ approvals[a] \in Approval /\ approvals[a].state = "pending"
            /\ \E d \in Decisions : approvals'[a] = [approvals[a] EXCEPT !.state = d]
<1> DEFINE Moves ==
      \/ approvals'[a] = approvals[a]
      \/ approvals[a] = NoApproval /\ approvals'[a].state = "pending"
      \/ /\ approvals[a] \in Approval /\ approvals[a].state = "pending"
         /\ \E d \in Decisions : approvals'[a] = [approvals[a] EXCEPT !.state = d]
<1>1. approvals \in [ApprovalIds -> Approval \cup {NoApproval}]
  BY DEF DecisionInv, ApprovalTypes
<1>2. ASSUME NEW b \in ApprovalIds, approvals[b] = NoApproval, NEW row,
             row.state = "pending", approvals' = [approvals EXCEPT ![b] = row]
      PROVE  Moves
  BY <1>1, <1>2
<1>3. ASSUME UNCHANGED approvals PROVE Moves
  BY <1>3
<1>4. ASSUME NEW s \in Sessions, NEW b \in ApprovalIds, CommitRequest(s, b)
      PROVE  Moves
  <2> DEFINE row == [state |-> "pending", run |-> NoRun, task |-> tx[s].command.task]
  <2>1. approvals[b] = NoApproval /\ approvals' = [approvals EXCEPT ![b] = row]
        /\ row.state = "pending"
    BY <1>4 DEF CommitRequest
  <2>. QED
    BY <1>2, <2>1
<1>5. ASSUME NEW s \in Sessions, CommitDecide(s) PROVE Moves
  <2> DEFINE b == tx[s].command.approval
             d == tx[s].command.action
  <2>1. Running(s, "decide") /\ b \in ApprovalIds /\ d \in Decisions
    BY <1>5, TxKinds DEF CommitDecide, DecisionInv, DecideCommand
  <2>2. approvals' = [approvals EXCEPT ![b].state = d]
    BY <1>5 DEF CommitDecide
  <2>3. approvals[b].state = "pending"
    BY <2>1 DEF DecisionInv, LockInv
  <2>4. approvals[b] \in Approval
    BY <2>1, <2>3, ApprovalKinds DEF DecisionInv
  <2>. HIDE DEF b, d
  <2>5. CASE a = b
    <3>1. approvals'[a] = [approvals[a] EXCEPT !.state = d]
      BY <1>1, <2>1, <2>2, <2>5
    <3>. QED
      BY <2>1, <2>3, <2>4, <2>5, <3>1
  <2>6. CASE a # b
    BY <1>1, <2>2, <2>6
  <2>. QED
    BY <2>5, <2>6
<1>6. ASSUME NEW s \in Sessions, CommitMove(s) PROVE Moves
  <2>1. ASSUME NEW b \in ApprovalIds, approvals[b] = NoApproval,
               approvals' = [approvals EXCEPT ![b] = Asked(tx[s].command.run, NoTask)]
        PROVE  Moves
    BY <1>2, <2>1 DEF Asked
  <2>. QED
    BY <1>3, <1>6, <2>1 DEF CommitMove
<1>7. ASSUME NEW e \in Executors, NEW b \in ApprovalIds, CompleteAsking(e, b)
      PROVE  Moves
  <2> DEFINE row == Asked(RunOf[claim[e].step], TaskOf[claim[e].step])
  <2>1. approvals[b] = NoApproval /\ approvals' = [approvals EXCEPT ![b] = row]
        /\ row.state = "pending"
    BY <1>7 DEF CompleteAsking, Asked
  <2>. QED
    BY <1>2, <2>1
<1>. HIDE DEF Moves
<1>8. Moves
  BY <1>3, <1>4, <1>5, <1>6, <1>7
  DEF ApprovalNext, BeginRequest, BeginTask, BeginDecide, BeginMove, Begin,
      CommitTask, ExecutorStep, approvalVars, Rollback
<1>. QED
  BY <1>8 DEF Moves

\* An approval is asked for once and decided once, and what it is about does
\* not change, whatever reviewers and executors do in between.
THEOREM DecisionsAreFinal == ApprovalSpec => DecisionIsFinal
<1> DEFINE Final(a) ==
      /\ approvals[a] = NoApproval =>
           approvals'[a] = NoApproval \/ approvals'[a].state = "pending"
      /\ approvals[a].state = "pending" =>
           \E d \in {"pending"} \cup Decisions :
             approvals'[a] = [approvals[a] EXCEPT !.state = d]
      /\ approvals[a].state \in Decisions => approvals'[a] = approvals[a]
<1>1. ASSUME DecisionInv, [ApprovalNext]_allVars, NEW a \in ApprovalIds PROVE Final(a)
  <2>1. approvals[a] \in Approval \cup {NoApproval}
    BY <1>1 DEF DecisionInv, ApprovalTypes
  <2>2. approvals[a] = NoApproval => approvals[a].state = "absent"
    BY DEF NoApproval
  <2>3. ASSUME approvals'[a] = approvals[a] PROVE Final(a)
    <3>1. ASSUME approvals[a].state = "pending"
          PROVE  approvals'[a] = [approvals[a] EXCEPT !.state = "pending"]
      BY <2>1, <2>2, <2>3, <3>1 DEF Approval
    <3>. QED
      BY <2>3, <3>1
  <2>4. ASSUME approvals[a] = NoApproval, approvals'[a].state = "pending" PROVE Final(a)
    BY <2>2, <2>4 DEF Decisions
  <2>5. ASSUME approvals[a].state = "pending", NEW d \in Decisions,
               approvals'[a] = [approvals[a] EXCEPT !.state = d]
        PROVE  Final(a)
    BY <2>2, <2>5 DEF Decisions
  <2>6. CASE UNCHANGED allVars
    BY <2>3, <2>6 DEF allVars, approvalVars
  <2>7. CASE ApprovalNext
    <3>. HIDE DEF Final
    <3>. QED
      BY <1>1, <2>3, <2>4, <2>5, <2>7, ApprovalMoves
  <2>. QED
    BY <1>1, <2>6, <2>7
<1>2. DecisionInv /\ [ApprovalNext]_allVars => [\A a \in ApprovalIds : Final(a)]_allVars
  BY <1>1
<1>. QED
  BY <1>2, DecisionInvariant, PTL DEF ApprovalSpec, DecisionIsFinal

-----------------------------------------------------------------------------
\* Stale decisions and moves cannot take a run out of the states its
\* definition leads to: what a transaction holds to write was in them too.
Within(closed) ==
  /\ \A r \in Runs : run[r] \in closed
  /\ \A s \in Sessions :
       Open(s) => tx[s].from = NoState \/ tx[s].from \in closed
  /\ \A s \in Sessions : Running(s, "move") => tx[s].command.to \in closed

\* Opening a transaction that holds states of the closed set.
LEMMA WithinBegin ==
  ASSUME NEW closed, Within(closed), DecisionInv, NEW s \in Sessions, NEW c \in Commands,
         NEW from \in {NoState} \cup closed, Begin(s, c, from),
         c.op = "move" => c.to \in closed
  PROVE  Within(closed)'
<1> DEFINE t == [command |-> c, from |-> from]
<1>1. tx' = [tx EXCEPT ![s] = t] /\ run' = run
  BY DEF Begin, stepVars
<1>2. t.command = c /\ t.from = from
  OBVIOUS
<1>. HIDE DEF t
<1>3. tx'[s] = t /\ \A u \in Sessions \ {s} : tx'[u] = tx[u]
  BY <1>1 DEF DecisionInv, ApprovalTypes
<1>. QED
  BY <1>1, <1>2, <1>3 DEF Within, Open, Running

\* A commit or a rollback that leaves every run in the closed set.
LEMMA WithinEnd ==
  ASSUME NEW closed, Within(closed), DecisionInv,
         \A r \in Runs : run'[r] \in closed,
         \/ UNCHANGED tx
         \/ \E s \in Sessions : tx' = [tx EXCEPT ![s] = NoTx]
  PROVE  Within(closed)'
<1>1. \A u \in Sessions : tx'[u] = tx[u] \/ tx'[u] = NoTx
  BY DEF DecisionInv, ApprovalTypes
<1>. QED
  BY <1>1 DEF Within, Open, Running

LEMMA WithinStep ==
  ASSUME NEW closed \in ClosedSets, Within(closed), DecisionInv, ApprovalNext
  PROVE  Within(closed)'
<1>1. run \in [Runs -> States]
  BY DEF DecisionInv, StepInv, StepTypeOK
<1>2. ASSUME NEW x \in States, NEW y \in States, <<x, y>> \in Transitions, x \in closed
      PROVE  y \in closed
  BY <1>2 DEF ClosedSets
<1>3. ASSUME NEW s \in Sessions, NEW c \in RequestCommand, BeginRequest(s, c)
      PROVE  Within(closed)'
  BY <1>3, WithinBegin DEF BeginRequest, Commands, RequestCommand
<1>4. ASSUME NEW s \in Sessions, NEW c \in TaskCommand, BeginTask(s, c)
      PROVE  Within(closed)'
  BY <1>4, WithinBegin DEF BeginTask, Commands, TaskCommand
<1>5. ASSUME NEW s \in Sessions, NEW c \in DecideCommand, BeginDecide(s, c)
      PROVE  Within(closed)'
  <2> DEFINE r == approvals[c.approval].run
             from == IF r = NoRun THEN NoState ELSE run[r]
  <2>1. approvals[c.approval] \in Approval
    BY <1>5, ApprovalKinds DEF BeginDecide, DecideCommand, DecisionInv
  <2>2. from \in {NoState} \cup closed
    BY <2>1 DEF Approval, Within
  <2>3. c \in Commands /\ c.op # "move"
    BY DEF Commands, DecideCommand
  <2>4. Begin(s, c, from)
    BY <1>5 DEF BeginDecide
  <2>. HIDE DEF from
  <2>. QED
    BY <2>2, <2>3, <2>4, WithinBegin
<1>6. ASSUME NEW s \in Sessions, NEW c \in MoveCommand, BeginMove(s, c)
      PROVE  Within(closed)'
  <2>1. c.run \in Runs /\ c.to \in States /\ c \in Commands
    BY DEF MoveCommand, Commands
  <2>2. run[c.run] \in closed
    BY <2>1 DEF Within
  <2>3. c.to \in closed
    BY <1>1, <1>2, <1>6, <2>1, <2>2 DEF BeginMove
  <2>. QED
    BY <1>6, <2>1, <2>2, <2>3, WithinBegin DEF BeginMove
<1>7. ASSUME NEW s \in Sessions, CommitDecide(s) PROVE Within(closed)'
  <2> DEFINE c == tx[s].command
             row == approvals[c.approval]
             to == DecidedState(tx[s].from, c.action)
  <2>1. /\ run' = (IF row.run = NoRun THEN run ELSE [run EXCEPT ![row.run] = to])
        /\ tx' = [tx EXCEPT ![s] = NoTx] /\ Running(s, "decide") /\ Open(s)
    BY <1>7 DEF CommitDecide, Commit, Running, Open
  <2>2. row.run # NoRun => tx[s].from \in States /\ tx[s].from \in closed
    <3>1. row.run # NoRun => tx[s].from \in States
      BY <2>1 DEF DecisionInv, LockInv
    <3>. QED
      BY <2>1, <3>1, StepsAssumption DEF Within
  <2>3. row.run # NoRun => to \in closed
    BY <1>2, <2>2, StepsAssumption DEF DecidedState
  <2>. HIDE DEF row, to
  <2>4. \A r \in Runs : run'[r] \in closed
    BY <1>1, <2>1, <2>3 DEF Within
  <2>. QED
    BY <2>1, <2>4, WithinEnd
<1>8. ASSUME NEW s \in Sessions, CommitMove(s) PROVE Within(closed)'
  <2>1. /\ run' = [run EXCEPT ![tx[s].command.run] = tx[s].command.to]
        /\ tx' = [tx EXCEPT ![s] = NoTx] /\ Running(s, "move")
    BY <1>8 DEF CommitMove, Commit
  <2>2. tx[s].command.to \in closed
    BY <2>1 DEF Within
  <2>3. \A r \in Runs : run'[r] \in closed
    BY <1>1, <2>1, <2>2 DEF Within
  <2>. QED
    BY <2>1, <2>3, WithinEnd
<1>9. ASSUME NEW e \in Executors, Complete(e) PROVE \A r \in Runs : run'[r] \in closed
  <2> DEFINE st == claim[e].step
             r == RunOf[st]
  <2>1. /\ claim[e] # NoClaim /\ CanMove(st, run[r])
        /\ run' = [run EXCEPT ![r] = ToState[st]]
    BY <1>9 DEF Complete, Holds
  <2>2. st \in Steps
    BY <2>1 DEF DecisionInv, StepInv, StepTypeOK, Claims
  <2>3. r \in Runs /\ ToState[st] \in States
    BY <2>2, StepsAssumption
  <2>. HIDE DEF st, r
  <2>4. ToState[st] \in closed
    BY <1>1, <1>2, <2>1, <2>3 DEF CanMove, Within
  <2>. QED
    BY <1>1, <2>1, <2>4 DEF Within
<1>10. ASSUME NEW e \in Executors, NEW a \in ApprovalIds, CompleteAsking(e, a)
       PROVE  Within(closed)'
  BY <1>9, <1>10, WithinEnd DEF CompleteAsking
<1>11. ASSUME ExecutorStep PROVE Within(closed)'
  <2>1. (\A r \in Runs : run'[r] \in closed) \/ run' = run
    BY <1>9, <1>11 DEF ExecutorStep, StepNext, Claim, RunCommand, Fail, Crash,
                       LeaseExpires, WaitEnds
  <2>. QED
    BY <1>11, <2>1, WithinEnd DEF ExecutorStep, approvalVars, Within
<1>12. ASSUME NEW s \in Sessions,
              run' = run, tx' = [tx EXCEPT ![s] = NoTx]
       PROVE  Within(closed)'
  BY <1>12, WithinEnd DEF Within
<1>13. ASSUME NEW s \in Sessions,
              \/ \E a \in ApprovalIds : CommitRequest(s, a)
              \/ CommitTask(s) \/ Rollback(s)
       PROVE  Within(closed)'
  BY <1>12, <1>13 DEF CommitRequest, CommitTask, Commit, Rollback, stepVars
<1>. QED
  BY <1>3, <1>4, <1>5, <1>6, <1>7, <1>8, <1>10, <1>11, <1>13 DEF ApprovalNext

\* A run read stale may be moved along no transition, but never to a state
\* that its definition does not lead to from the start.
THEOREM RunsStayWithinDefinition == ApprovalSpec => []RunsStayReachable
<1> DEFINE AllWithin == \A set \in ClosedSets : Within(set)
<1>1. ApprovalInit => AllWithin
  BY DEF ApprovalInit, Within, ClosedSets, Open, Running
<1>2. AllWithin /\ UNCHANGED allVars => AllWithin'
  BY DEF Within, allVars, stepVars, approvalVars, Open, Running, ClosedSets
<1>3. DecisionInv /\ AllWithin /\ ApprovalNext => AllWithin'
  BY WithinStep DEF ClosedSets
<1>4. AllWithin => RunsStayReachable
  BY DEF Within, RunsStayReachable
<1>. HIDE DEF AllWithin
<1>. QED
  BY <1>1, <1>2, <1>3, <1>4, DecisionInvariant, PTL DEF ApprovalSpec
=============================================================================
