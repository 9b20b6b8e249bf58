--------------------------- MODULE WorkerCommands ---------------------------
(***************************************************************************)
(* The commands of the worker families (src/src/worker/*.ts), each a saga  *)
(* over worker.run.start and worker.run.complete:                          *)
(*   1. start the run under the caller's key (a transaction of its own);   *)
(*   2. write the command's records and its output into worker_runs.data,  *)
(*      under an advisory lock of the key, unless the data already names   *)
(*      them: then this is a retry;                                        *)
(*   3. complete the run under the same key (a transaction of its own);    *)
(*   4. read the data of the run again and write the settlement into it.   *)
(* The process may stop between any two steps, and the caller calls again  *)
(* with the same key and input. A reviewer decides the approval the        *)
(* records ask for, and an operator may complete the run by hand: both     *)
(* write worker_runs.data too, the reviewer from what was read unlocked.   *)
(***************************************************************************)
EXTENDS WorkerRuns

CONSTANT CommandKeys  \* run keys that are keys of worker commands

\* A command names the account of its worker and the units it asks for.
ASSUME CommandAssumption ==
  /\ CommandKeys \subseteq RunKeys
  /\ WorkerAccounts # {}
  /\ UnitSizes # {}

VARIABLES
  shape,    \* what kind of command each key is a call of
  records,  \* keys whose business records are committed
  data,     \* worker_runs.data, by run
  settled,  \* the output a completion under a command's key recorded
  call,     \* the command each session executes
  review    \* approval.decide on the approval of a key

commandVars == <<runVars, shape, records, data, settled, call, review>>
sagaVars == <<shape, records, data, settled, call, review>>

-----------------------------------------------------------------------------
(* How the commands differ: where step 2 stores the output, whether a      *)
(* retry that finds the run still running completes it, when step 4 runs,  *)
(* and whether the records ask for an approval.                            *)

Shape ==
  [stores : (SUBSET {"output", "pending"}) \ {{}}, resumes : BOOLEAN,
   persists : {"always", "settled", "created", "never"}, approval : BOOLEAN]

Prepares(stores, persists) ==
  [stores |-> stores, resumes |-> TRUE, persists |-> persists, approval |-> TRUE]

InvoicePrepare       == Prepares({"output"}, "always")
ArFollowupDraft      == Prepares({"output"}, "always")
CashForecastGenerate == Prepares({"output"}, "always")
PaymentDraftPrepare  == Prepares({"output"}, "always")
SchedulePropose      == Prepares({"output"}, "always")
CustomerUpdateDraft  == Prepares({"output"}, "always")
CloseoutPrepare      == Prepares({"output"}, "always")
ExceptionRoute       == [Prepares({"output"}, "always") EXCEPT !.approval = FALSE]
FilingPrepare        == Prepares({"output"}, "always")
MarginReviewPrepare  == Prepares({"output", "pending"}, "always")
BriefGenerate        == Prepares({"output", "pending"}, "settled")
DecisionQueuePrepare == [Prepares({"output", "pending"}, "settled")
                           EXCEPT !.approval = FALSE]
AnomalyTriage        == [Prepares({"output", "pending"}, "settled")
                           EXCEPT !.approval = FALSE]
SystemsCommand       == Prepares({"output"}, "settled")
HirePacketPrepare    == Prepares({"output"}, "never")
PayrollInputPrepare  == Prepares({"output"}, "never")
CampaignDraft        == Prepares({"output"}, "created")
RecoveryDraft        == Prepares({"pending"}, "never")
RevenueRun           == Prepares({"pending"}, "never")
PaymentLinkPrepare   == Prepares({"pending"}, "never")
Continue             == [Prepares({"pending"}, "never") EXCEPT !.approval = FALSE]
RevenueAction ==
  [stores |-> {"pending"}, resumes |-> FALSE, persists |-> "never",
   approval |-> FALSE]
LeadRead == RevenueAction

Commands ==
  {InvoicePrepare, ArFollowupDraft, CashForecastGenerate, PaymentDraftPrepare,
   SchedulePropose, CustomerUpdateDraft, CloseoutPrepare, ExceptionRoute,
   FilingPrepare, MarginReviewPrepare, BriefGenerate, DecisionQueuePrepare,
   AnomalyTriage, SystemsCommand, HirePacketPrepare, PayrollInputPrepare,
   CampaignDraft, RecoveryDraft, RevenueRun, PaymentLinkPrepare, Continue,
   RevenueAction, LeadRead}

-----------------------------------------------------------------------------
(* worker_runs.data: its output (whether it names the records, the usage   *)
(* event of the charge, a decision), the pending output, and the budget    *)
(* settlement a completion recorded.                                       *)

NoOutput == [named |-> FALSE, usage |-> FALSE, decided |-> FALSE]
Output == [named : BOOLEAN, usage : BOOLEAN, decided : BOOLEAN]
Prepared == [NoOutput EXCEPT !.named = TRUE]

FreshData == [output |-> NoOutput, pending |-> FALSE, charge |-> FALSE]
RunData == [output : Output, pending : BOOLEAN, charge : BOOLEAN]

\* outputData: the pending output stands in for an output that is empty.
OutputData(d) ==
  IF d.output = NoOutput /\ d.pending THEN Prepared ELSE d.output

NoCall == [stage |-> "none"]
Stages == {"starting", "started", "writing", "settling", "persisting",
           "writing back"}
Call == [stage : Stages, key : CommandKeys, created : BOOLEAN,
         output : Output, usage : BOOLEAN, read : RunData]
Review == [phase : {"open", "deciding", "decided"}, read : RunData]

CommandTypeOK ==
  /\ RunTypeOK
  /\ shape \in [CommandKeys -> Commands]
  /\ Commands \subseteq Shape
  /\ records \subseteq CommandKeys
  /\ data \in [RunIds -> RunData]
  /\ settled \in [CommandKeys -> Output]
  /\ call \in [Sessions -> Call \cup {NoCall}]
  /\ review \in [CommandKeys -> Review]

\* The run the start under key k made, once there is one.
RunOf(k) ==
  LET started(w) == \E e \in audits : e.op = "start" /\ e.key = k /\ e.target = w
  IN  CHOOSE w \in RunIds : (\E v \in RunIds : started(v)) => started(w)

StartOf(k) == [op |-> "start", account |-> CHOOSE a \in WorkerAccounts : TRUE,
               units |-> CHOOSE u \in UnitSizes : TRUE, expiresAt |-> NoExpiry]

-----------------------------------------------------------------------------
(* Step 1: worker.run.start under the caller's key, or its replay.         *)

CallStart(s, k) ==
  /\ call[s] = NoCall
  /\ BeginStart(s, k, StartOf(k))
  /\ call' = [call EXCEPT ![s] =
       [stage |-> "starting", key |-> k, created |-> FALSE,
        output |-> NoOutput, usage |-> FALSE, read |-> FreshData]]
  /\ UNCHANGED <<shape, records, data, settled, review>>

CallCount(s) == CountRunHeld(s) /\ UNCHANGED sagaVars

CallStarted(s, r, w) ==
  /\ CommitStart(s, r, w)
  /\ call[s] # NoCall
  /\ call' = [call EXCEPT ![s].stage = "started"]
  /\ UNCHANGED <<shape, records, data, settled, review>>

Retry(s, k) ==
  /\ call[s] = NoCall
  /\ tx[s] = NoTx
  /\ ~RunKeyLocked("start", k)
  /\ Recorded("start", k)
  /\ call' = [call EXCEPT ![s] =
       [stage |-> "started", key |-> k, created |-> FALSE,
        output |-> NoOutput, usage |-> FALSE, read |-> FreshData]]
  /\ UNCHANGED <<runVars, shape, records, data, settled, review>>

-----------------------------------------------------------------------------
(* Step 2: the business transaction, under the key's advisory lock. It     *)
(* reads the run without locking it.                                       *)

Writing(k) == \E s \in Sessions : call[s].stage = "writing" /\ call[s].key = k

\* Mutant: a retry never writes the settlement back.
PersistsMutant(k, found, created) == created

Persists(k, found, created) ==
  CASE shape[k].persists = "always"  -> TRUE
    [] shape[k].persists = "settled" -> found = "running"
    [] shape[k].persists = "created" -> created
    [] shape[k].persists = "never"   -> FALSE

\* Mutant: a retry that found the records answers and does not complete.
AfterReplayMutant(c, found) ==
  IF Persists(c.key, found, FALSE) THEN [c EXCEPT !.stage = "persisting"]
  ELSE NoCall

\* What a retry that found the records goes on with.
AfterReplay(c, found) ==
  IF found = "running"
  THEN IF shape[c.key].resumes THEN [c EXCEPT !.stage = "settling"] ELSE NoCall
  ELSE IF Persists(c.key, found, FALSE) THEN [c EXCEPT !.stage = "persisting"]
       ELSE NoCall

\* Mutant: a running run counts as a retry, whatever its data names.
ReplaysMutant(k, d, found) == OutputData(d).named \/ found = "running"

\* The data names the records, or, where the command stores both outputs, a
\* finished run carries the command that wrote it.
Replays(k, d, found) ==
  \/ OutputData(d).named
  \/ shape[k].stores = {"output", "pending"} /\ found # "running" /\ d.pending

\* Take the lock and read the run: a retry, or records to write.
ReadRun(s) ==
  /\ call[s].stage = "started"
  /\ ~Writing(call[s].key)
  /\ LET k == call[s].key
         d == data[RunOf(k)]
         c == [call[s] EXCEPT !.output = OutputData(d), !.usage = d.charge]
     IN  call' = [call EXCEPT ![s] =
           IF Replays(k, d, runs[RunOf(k)].state)
           THEN AfterReplay(c, runs[RunOf(k)].state)
           ELSE [call[s] EXCEPT !.stage = "writing", !.read = d]]
  /\ UNCHANGED <<runVars, shape, records, data, settled, review>>

\* Insert the records, whose external ids and events are unique by key, and
\* update the run, once nobody has it locked.
WriteRecords(s) ==
  /\ call[s].stage = "writing"
  /\ LET k == call[s].key
         w == RunOf(k)
         d == call[s].read
     IN  /\ k \notin records
         /\ ~RunLocked(w)
         /\ records' = records \cup {k}
         /\ data' = [data EXCEPT ![w] =
              [d EXCEPT
                 !.output = IF "output" \in shape[k].stores THEN Prepared ELSE @,
                 !.pending = ("pending" \in shape[k].stores)]]
  /\ call' = [call EXCEPT ![s].stage = "settling", ![s].created = TRUE,
                          ![s].read = FreshData, ![s].output = Prepared]
  /\ UNCHANGED <<runVars, shape, settled, review>>

-----------------------------------------------------------------------------
(* Step 3: worker.run.complete under the same key.                         *)

DoneCommand(k) == [op |-> "complete", run |-> RunOf(k), state |-> "done"]

SettleBegin(s) ==
  /\ call[s].stage = "settling"
  /\ BeginComplete(s, call[s].key, DoneCommand(call[s].key))
  /\ UNCHANGED sagaVars

\* Whoever completes a run, a command or an operator by hand, replaces the
\* output and records the settlement.
SettleCommit(s) ==
  /\ CommitComplete(s)
  /\ LET w == tx[s].command.run
         given == IF call[s] = NoCall THEN NoOutput ELSE call[s].output
     IN  /\ data' = [data EXCEPT ![w].output = given,
                                 ![w].charge = (tx[s].command.state = "done")]
         /\ settled' = IF call[s] = NoCall THEN settled
                       ELSE [settled EXCEPT ![call[s].key] = given]
  /\ call' = [call EXCEPT ![s] =
       IF call[s] # NoCall /\ Persists(call[s].key, "running", call[s].created)
       THEN [call[s] EXCEPT !.stage = "persisting", !.usage = TRUE]
       ELSE NoCall]
  /\ UNCHANGED <<shape, records, review>>

\* The completion is recorded already: with the same output this is a replay,
\* whose answer names the reservation and no usage event.
SettleReplay(s) ==
  /\ call[s].stage = "settling"
  /\ tx[s] = NoTx
  /\ LET k == call[s].key
     IN  /\ ~RunKeyLocked("complete", k)
         /\ Recorded("complete", k)
         /\ settled[k] = call[s].output
         /\ call' = [call EXCEPT ![s] =
              IF Persists(k, "running", call[s].created)
              THEN [call[s] EXCEPT !.stage = "persisting", !.usage = FALSE]
              ELSE NoCall]
  /\ UNCHANGED <<runVars, shape, records, data, settled, review>>

-----------------------------------------------------------------------------
(* Step 4: the settlement is merged into the data of the run, read and     *)
(* written in two statements of no transaction.                            *)

ReadBack(s) ==
  /\ call[s].stage = "persisting"
  /\ call' = [call EXCEPT ![s].stage = "writing back",
                          ![s].read = data[RunOf(call[s].key)]]
  /\ UNCHANGED <<runVars, shape, records, data, settled, review>>

\* Mutant: the settlement replaces the output instead of joining it.
WriteBackMutant(s) ==
  /\ call[s].stage = "writing back"
  /\ LET c == call[s]
         w == RunOf(c.key)
     IN  /\ ~RunLocked(w)
         /\ data' = [data EXCEPT ![w] =
              [c.read EXCEPT !.output = [NoOutput EXCEPT !.usage = c.usage]]]
  /\ call' = [call EXCEPT ![s] = NoCall]
  /\ UNCHANGED <<runVars, shape, records, settled, review>>

WriteBack(s) ==
  /\ call[s].stage = "writing back"
  /\ LET c == call[s]
         w == RunOf(c.key)
     IN  /\ ~RunLocked(w)
         /\ data' = [data EXCEPT ![w] =
              [c.read EXCEPT !.output =
                 [c.output EXCEPT !.usage = (@ \/ c.usage)
                                    /\ shape[c.key].persists # "created"]]]
  /\ call' = [call EXCEPT ![s] = NoCall]
  /\ UNCHANGED <<runVars, shape, records, settled, review>>

-----------------------------------------------------------------------------
(* approval.decide: one decision of the key's approval, which merges itself *)
(* into the data of the run it read without a lock.                        *)

ReadDecision(k) ==
  /\ k \in records
  /\ shape[k].approval
  /\ review[k].phase = "open"
  /\ review' = [review EXCEPT ![k] = [phase |-> "deciding",
                                      read |-> data[RunOf(k)]]]
  /\ UNCHANGED <<runVars, shape, records, data, settled, call>>

\* Mutant: the decision replaces the output instead of joining it.
WriteDecisionMutant(k) ==
  /\ review[k].phase = "deciding"
  /\ ~RunLocked(RunOf(k))
  /\ data' = [data EXCEPT ![RunOf(k)].output = [decided |-> TRUE]]
  /\ review' = [review EXCEPT ![k] = [phase |-> "decided", read |-> FreshData]]
  /\ UNCHANGED <<runVars, shape, records, settled, call>>

WriteDecision(k) ==
  /\ review[k].phase = "deciding"
  /\ ~RunLocked(RunOf(k))
  /\ data' = [data EXCEPT ![RunOf(k)] =
                [review[k].read EXCEPT !.output.decided = TRUE]]
  /\ review' = [review EXCEPT ![k] = [phase |-> "decided", read |-> FreshData]]
  /\ UNCHANGED <<runVars, shape, records, settled, call>>

-----------------------------------------------------------------------------
\* A refusal, a failed statement or a process that stops: what the call has
\* open rolls back, and the call is over.
Stop(s) ==
  /\ call[s] # NoCall
  /\ call' = [call EXCEPT ![s] = NoCall]
  /\ IF tx[s] = NoTx THEN UNCHANGED runVars
     ELSE Rollback(s) /\ UNCHANGED runs
  /\ UNCHANGED <<shape, records, data, settled, review>>

\* An operator completes a run by hand, under a key of no command.
ByHand(s) ==
  /\ call[s] = NoCall
  /\ \E k \in RunKeys \ CommandKeys, c \in CompleteCommand :
       BeginComplete(s, k, c)
  /\ UNCHANGED sagaVars

SettleLock(s) == LockHold(s) /\ UNCHANGED sagaVars

\* The budget commands beside them, and time.
Beside == Next /\ (\A s \in Sessions : call[s] # NoCall => tx'[s] = tx[s])
               /\ UNCHANGED <<runs, sagaVars>>

CommandInit ==
  /\ RunInit
  /\ shape \in [CommandKeys -> Commands]
  /\ records = {}
  /\ data = [w \in RunIds |-> FreshData]
  /\ settled = [k \in CommandKeys |-> NoOutput]
  /\ call = [s \in Sessions |-> NoCall]
  /\ review = [k \in CommandKeys |-> [phase |-> "open", read |-> FreshData]]

CommandNext ==
  \/ Beside
  \/ \E s \in Sessions, k \in CommandKeys : CallStart(s, k)
  \/ \E s \in Sessions : CallCount(s)
  \/ \E s \in Sessions, r \in ReservationIds, w \in RunIds : CallStarted(s, r, w)
  \/ \E s \in Sessions, k \in CommandKeys : Retry(s, k)
  \/ \E s \in Sessions : ReadRun(s)
  \/ \E s \in Sessions : WriteRecords(s)
  \/ \E s \in Sessions : SettleBegin(s)
  \/ \E s \in Sessions : SettleLock(s)
  \/ \E s \in Sessions : SettleCommit(s)
  \/ \E s \in Sessions : SettleReplay(s)
  \/ \E s \in Sessions : ReadBack(s)
  \/ \E s \in Sessions : WriteBack(s)
  \/ \E k \in CommandKeys : ReadDecision(k)
  \/ \E k \in CommandKeys : WriteDecision(k)
  \/ \E s \in Sessions : Stop(s)
  \/ \E s \in Sessions : ByHand(s)

CommandSpec == CommandInit /\ [][CommandNext]_commandVars
-----------------------------------------------------------------------------
(* Fairness: callers call again until they are answered, what waits for a  *)
(* lock gets it in its turn, no transaction stays open for ever, and from  *)
(* some time on a call that can go on is not stopped.                      *)

\* A call that will be refused: its records are there under an output that
\* no longer names them, or its run was settled otherwise or cannot be.
Refused(s) ==
  \/ call[s].stage = "writing" /\ call[s].key \in records
  \/ /\ call[s].stage = "settling" /\ tx[s] = NoTx
     /\ IF Recorded("complete", call[s].key)
        THEN settled[call[s].key] # call[s].output
        ELSE runs[RunOf(call[s].key)].state # "running"
  \/ /\ call[s].stage = "settling" /\ tx[s] # NoTx
     /\ ~CanSettle(tx[s].reservation, tx[s].now)

\* The next step of a call that is past its start.
Proceed(s) ==
  \/ ReadRun(s) \/ WriteRecords(s)
  \/ SettleBegin(s) \/ SettleLock(s) \/ SettleCommit(s) \/ SettleReplay(s)
  \/ ReadBack(s) \/ WriteBack(s)

\* The end of a call that is refused, or whose start is, and of a transaction
\* of an operator.
GiveUp(s) ==
  \/ Stop(s) /\ (Refused(s) \/ call[s].stage = "starting")
  \/ Beside /\ call[s] = NoCall /\ Rollback(s)

CallsRepeated ==
  /\ \A k \in CommandKeys : SF_commandVars(\E s \in Sessions : Retry(s, k))
  /\ \A s \in Sessions : SF_commandVars(Proceed(s)) /\ WF_commandVars(GiveUp(s))
  /\ <>[][\A s \in Sessions :
            call[s] # NoCall /\ call'[s] = NoCall =>
              \/ Refused(s)
              \/ call[s].stage = "starting"
              \/ ReadRun(s) \/ SettleCommit(s) \/ SettleReplay(s)
              \/ WriteBack(s)]_commandVars

FairCommandSpec == CommandSpec /\ CallsRepeated

-----------------------------------------------------------------------------
(* Properties                                                              *)

\* No run is completed, and nothing is charged, under the key of a command
\* whose records are not committed; and what the completion recorded names
\* them. However calls, retries and crashes interleave.
ChargedCommandsDelivered ==
  \A k \in CommandKeys :
    Recorded("complete", k) =>
      /\ k \in records
      /\ settled[k].named
      /\ reservations[runs[RunOf(k)].reservation].state = "used"

\* Once the data of a run names the records of its command it goes on naming
\* them, so that retries find them, as long as no operator completes the run
\* by hand. Only a decision that read a run with a pending output and no
\* output yet hides them.
RecordsStayNamed ==
  [][\A k \in records :
       LET w == RunOf(k)
           ofCommand == \/ runs'[w].state = "running"
                        \/ \E e \in audits' : e.op = "complete" /\ e.key = k
           hides == /\ review'[k] # review[k]
                    /\ review[k].read.output = NoOutput
       IN  OutputData(data[w]).named /\ ofCommand =>
             OutputData(data'[w]).named \/ hides
    ]_commandVars

\* A command whose records are committed is settled by its retries, unless its
\* hold is lost, a decision hides the pending output, or it is one of those
\* whose retries do not complete the run.
CommandsSettle ==
  \A k \in CommandKeys :
    k \in records ~>
      LET w == RunOf(k)
          hold == reservations[runs[w].reservation]
      IN  \/ runs[w].state # "running"
          \/ hold.state # "held"
          \/ hold.expiresAt <= clock
          \/ ~OutputData(data[w]).named
          \/ ~shape[k].resumes

\* A command that writes its settlement back on every retry ends with an
\* output that names the usage event of the charge, and keeps it: whatever a
\* slower retry, whose answer names none, wrote over it before. Unless a
\* decision has overwritten the recorded settlement.
SettlementEndsUpInOutput ==
  \A k \in CommandKeys :
    (Recorded("complete", k) /\ shape[k].persists = "always") ~>
      [](data[RunOf(k)].output.usage \/ ~data[RunOf(k)].charge)
=============================================================================
