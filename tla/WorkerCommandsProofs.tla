------------------------ MODULE WorkerCommandsProofs ------------------------
(***************************************************************************)
(* Proofs about WorkerCommands, for any number of sessions, commands, keys *)
(* and runs, and any mix of command shapes.                                *)
(***************************************************************************)
EXTENDS WorkerCommands, WorkerRunsProofs

-----------------------------------------------------------------------------
(* The invariant.                                                          *)

\* The start under key k made run w.
RunFor(k, w) ==
  \E e \in audits : e.op = "start" /\ e.key = k /\ e.target = w

\* Run w has been settled by no one but the command of key k.
OfCommand(k, w) == runs[w].state = "running" \/ Recorded("complete", k)

Named(d) == d.output.named

SagaTypes ==
  /\ shape \in [CommandKeys -> Commands]
  /\ records \subseteq CommandKeys
  /\ data \in [RunIds -> RunData]
  /\ settled \in [CommandKeys -> Output]
  /\ call \in [Sessions -> Call \cup {NoCall}]
  /\ review \in [CommandKeys -> Review]

\* Keys and the runs their starts made are one to one.
StartsMatchRuns ==
  /\ \A k \in RunKeys, w \in RunIds : RunFor(k, w) => runs[w] # NoRow
  /\ \A k, l \in RunKeys, v, w \in RunIds :
       RunFor(k, v) /\ RunFor(l, w) => (k = l <=> v = w)

\* A transaction of a call is the one its stage asks for; one that completes a
\* run by hand has no command's key.
TxOfCall(s) ==
  /\ tx[s].phase \in {"run counting", "run inserting"} =>
       call[s].stage = "starting" /\ tx[s].key = call[s].key
  /\ Completion(s) =>
       \/ call[s] = NoCall /\ tx[s].key \notin CommandKeys
       \/ /\ call[s].stage = "settling" /\ tx[s].key = call[s].key
          /\ RunFor(call[s].key, tx[s].command.run)
          /\ tx[s].command.state = "done"

\* How far call c has come. What it goes on with names the records, unless the
\* run was settled by hand.
CallOK(c) ==
  /\ c.stage # "starting" => Recorded("start", c.key)
  /\ c.stage = "writing" /\ c.key \notin records => c.read.output = NoOutput
  /\ c.stage = "settling" => c.key \in records /\ c.output.named
  /\ c.stage \in {"persisting", "writing back"} =>
       /\ c.key \in records
       /\ \A w \in RunIds :
            RunFor(c.key, w) /\ OfCommand(c.key, w) => c.output.named

\* What a run's data, or a read of it, holds of the records of command k: an
\* output that names them, or none yet if k stores a pending output only.
Tells(k, d) ==
  /\ "output" \in shape[k].stores => Named(d)
  /\ d.output # NoOutput => Named(d)

\* How the records, the data and the review of key k and its run w agree.
DataOK(k, w) ==
  /\ k \notin records => data[w].output = NoOutput /\ ~data[w].pending
  /\ Recorded("complete", k) => runs[w].state = "done"
  /\ k \in records /\ OfCommand(k, w) =>
       /\ "output" \in shape[k].stores => Named(data[w])
       /\ review[k].phase # "decided" => Tells(k, data[w])
       /\ review[k].phase = "deciding" => Tells(k, review[k].read)

KeyOK(k) ==
  /\ k \in records => Recorded("start", k)
  /\ review[k].phase # "open" => k \in records
  /\ Recorded("complete", k) => k \in records /\ settled[k].named
  /\ \A w \in RunIds : RunFor(k, w) => DataOK(k, w)

UnstartedFresh == \A w \in RunIds : runs[w] = NoRow => data[w] = FreshData

SagaInv ==
  /\ SagaTypes
  /\ StartsMatchRuns
  /\ \A s \in Sessions : TxOfCall(s) /\ (call[s] # NoCall => CallOK(call[s]))
  /\ \A k \in CommandKeys : KeyOK(k)
  /\ UnstartedFresh

CommandInv == RunInv /\ SagaInv

-----------------------------------------------------------------------------
(* Facts about commands.                                                   *)

LEMMA CommandsAreShapes == Commands \subseteq Shape
<1> DEFINE Places == (SUBSET {"output", "pending"}) \ {{}}
<1>1. /\ {"output"} \in Places /\ {"pending"} \in Places
      /\ {"output", "pending"} \in Places
  OBVIOUS
<1>2. \A stores \in Places, a \in BOOLEAN,
         persists \in {"always", "settled", "created", "never"} :
        /\ Prepares(stores, persists) \in Shape
        /\ [Prepares(stores, persists) EXCEPT !.approval = a] \in Shape
  BY DEF Prepares, Shape
<1>3. RevenueAction \in Shape
  BY <1>1 DEF RevenueAction, Shape
<1> QED
  BY <1>1, <1>2, <1>3
  DEF Commands, InvoicePrepare, ArFollowupDraft, CashForecastGenerate,
      PaymentDraftPrepare, SchedulePropose, CustomerUpdateDraft, CloseoutPrepare,
      ExceptionRoute, FilingPrepare, MarginReviewPrepare, BriefGenerate,
      DecisionQueuePrepare, AnomalyTriage, SystemsCommand, HirePacketPrepare,
      PayrollInputPrepare, CampaignDraft, RecoveryDraft, RevenueRun,
      PaymentLinkPrepare, Continue, LeadRead

LEMMA OutputFacts ==
  /\ NoOutput \in Output /\ Prepared \in Output
  /\ Prepared.named /\ ~NoOutput.named
  /\ FreshData \in RunData
  /\ FreshData.output = NoOutput /\ ~FreshData.pending
  /\ \A d \in RunData : OutputData(d) \in Output
  /\ \A d \in RunData :
       OutputData(d).named <=> d.output.named \/ (d.output = NoOutput /\ d.pending)
<1>1. NoOutput \in Output /\ Prepared \in Output /\ Prepared.named /\ ~NoOutput.named
  BY DEF NoOutput, Prepared, Output
<1>2. /\ FreshData \in RunData
      /\ FreshData.output = NoOutput /\ ~FreshData.pending
  BY <1>1 DEF FreshData, RunData
<1>3. ASSUME NEW d \in RunData
      PROVE  /\ OutputData(d) \in Output
             /\ OutputData(d).named <=>
                  d.output.named \/ (d.output = NoOutput /\ d.pending)
  <2>1. d.output \in Output
    BY DEF RunData
  <2>2. CASE d.output = NoOutput /\ d.pending
    BY <1>1, <2>2 DEF OutputData
  <2>3. CASE ~(d.output = NoOutput /\ d.pending)
    BY <2>1, <2>3 DEF OutputData
  <2> QED  BY <2>2, <2>3
<1> QED  BY <1>1, <1>2, <1>3

LEMMA CallFacts ==
  /\ NoCall \notin Call /\ NoCall.stage = "none"
  /\ \A c \in Call : c.stage \in Stages /\ c.key \in CommandKeys
                     /\ c.output \in Output /\ c.read \in RunData
                     /\ c # NoCall
<1>1. NoCall.stage = "none" /\ "none" \notin Stages
  BY DEF NoCall, Stages
<1>2. \A c \in Call : c.stage \in Stages /\ c.key \in CommandKeys
                      /\ c.output \in Output /\ c.read \in RunData
  BY DEF Call
<1> QED  BY <1>1, <1>2

LEMMA CallOfStage ==
  ASSUME SagaTypes, NEW s \in Sessions, call[s].stage \in Stages
  PROVE  call[s] \in Call /\ call[s] # NoCall /\ call[s].key \in CommandKeys
BY CallFacts DEF SagaTypes, Stages

\* A key has the run its start made, and no other.
LEMMA RunOfIs ==
  ASSUME StartsMatchRuns, NEW k \in RunKeys, NEW w \in RunIds, RunFor(k, w)
  PROVE  RunOf(k) = w
<1>1. RunOf(k) \in RunIds /\ RunFor(k, RunOf(k))
  BY DEF RunOf, RunFor
<1> QED  BY <1>1 DEF StartsMatchRuns

LEMMA StartedRun ==
  ASSUME RunTypeOK, StartsMatchRuns, NEW k \in CommandKeys, Recorded("start", k)
  PROVE  /\ RunOf(k) \in RunIds /\ RunFor(k, RunOf(k))
         /\ \A w \in RunIds : RunFor(k, w) => w = RunOf(k)
         /\ \A l \in CommandKeys : RunFor(l, RunOf(k)) => l = k
         /\ runs[RunOf(k)] # NoRow
<1>0. k \in RunKeys /\ CommandKeys \subseteq RunKeys
  BY CommandAssumption
<1>1. PICK e \in audits : e.op = "start" /\ e.key = k
  BY DEF Recorded
<1>2. e.target \in RunIds
  BY <1>1 DEF RunTypeOK, AuditRow
<1>3. RunFor(k, e.target)
  BY <1>1 DEF RunFor
<1> DEFINE w == e.target
<1>4. RunOf(k) = w
  BY <1>0, <1>2, <1>3, RunOfIs
<1> HIDE DEF w
<1> QED  BY <1>0, <1>2, <1>3, <1>4 DEF StartsMatchRuns, w

LEMMA RunForRecorded ==
  ASSUME NEW k, NEW w, RunFor(k, w)
  PROVE  Recorded("start", k)
BY DEF RunFor, Recorded

-----------------------------------------------------------------------------
(* What every step keeps.                                                  *)

\* Events stay recorded, a started key gets no second run, and a run settled by
\* hand is never settled by a command.
Onward ==
  /\ \A k \in RunKeys, w \in RunIds : RunFor(k, w) => RunFor(k, w)'
  /\ \A k \in RunKeys : Recorded("start", k) =>
       /\ Recorded("start", k)'
       /\ \A w \in RunIds : RunFor(k, w)' => RunFor(k, w)
  /\ \A k \in CommandKeys, w \in RunIds :
       RunFor(k, w) /\ OfCommand(k, w)' => OfCommand(k, w)
  /\ records \subseteq records'

LEMMA CallKept ==
  ASSUME SagaTypes, Onward, NEW c \in Call, CallOK(c)
  PROVE  CallOK(c)'
<1>1. c.key \in CommandKeys /\ c.key \in RunKeys
  BY CallFacts, CommandAssumption
<1>2. Recorded("start", c.key) =>
        /\ Recorded("start", c.key)'
        /\ \A w \in RunIds : RunFor(c.key, w)' => RunFor(c.key, w)
  BY <1>1 DEF Onward
<1>3. \A w \in RunIds : RunFor(c.key, w) /\ OfCommand(c.key, w)'
                         => OfCommand(c.key, w)
  BY <1>1 DEF Onward
<1>4. c.key \in records => c.key \in records'
  BY DEF Onward
<1> QED
  BY <1>2, <1>3, <1>4 DEF CallOK

LEMMA TxKept ==
  ASSUME SagaInv, RunTypeOK, Onward, NEW s \in Sessions, TxOfCall(s),
         call'[s] = call[s], tx'[s] = tx[s]
  PROVE  TxOfCall(s)'
<1>1. tx[s].phase \in {"run counting", "run inserting"} =>
        call[s].stage = "starting" /\ tx[s].key = call[s].key
  BY DEF TxOfCall
<1>2. SUFFICES ASSUME Completion(s)
               PROVE  \/ call[s] = NoCall /\ tx[s].key \notin CommandKeys
                      \/ /\ call[s].stage = "settling" /\ tx[s].key = call[s].key
                         /\ RunFor(call[s].key, tx[s].command.run)'
                         /\ tx[s].command.state = "done"
  BY <1>1 DEF TxOfCall, Completion, RunFor
<1>3. CASE call[s] = NoCall /\ tx[s].key \notin CommandKeys
  BY <1>3
<1>4. CASE /\ call[s].stage = "settling" /\ tx[s].key = call[s].key
           /\ RunFor(call[s].key, tx[s].command.run)
           /\ tx[s].command.state = "done"
  <2>1. call[s].key \in RunKeys
    BY <1>4, CallOfStage, CommandAssumption DEF Stages, SagaInv
  <2>2. tx[s].command.run \in RunIds
    BY <1>2, RunTxKinds DEF CompleteTx, CompleteCommand
  <2>3. RunFor(call[s].key, tx[s].command.run)'
    BY <1>4, <2>1, <2>2 DEF Onward, RunFor
  <2> QED  BY <1>4, <2>3
<1> QED  BY <1>2, <1>3, <1>4 DEF TxOfCall

LEMMA IdleTx ==
  ASSUME NEW s \in Sessions, tx'[s] = NoTx
  PROVE  TxOfCall(s)'
<1>1. tx'[s].phase = "idle"
  BY DEF NoTx
<1> QED  BY <1>1 DEF TxOfCall, Completion

\* A key whose records, review and settlement a step leaves alone.
LEMMA KeyKept ==
  ASSUME SagaInv, Onward, NEW k \in CommandKeys, KeyOK(k),
         shape' = shape, k \in records' <=> k \in records,
         review'[k] = review[k], settled'[k] = settled[k],
         Recorded("complete", k)' <=> Recorded("complete", k),
         \A w \in RunIds : RunFor(k, w)' =>
           /\ RunFor(k, w) /\ data'[w] = data[w]
           /\ runs[w].state = "done" => runs'[w].state = "done"
  PROVE  KeyOK(k)'
<1>1. k \in RunKeys
  BY CommandAssumption
<1>2. /\ k \in records' => Recorded("start", k)'
      /\ review'[k].phase # "open" => k \in records'
      /\ Recorded("complete", k)' => k \in records' /\ settled'[k].named
  BY <1>1 DEF KeyOK, Onward
<1>3. ASSUME NEW w \in RunIds, RunFor(k, w)'
      PROVE  DataOK(k, w)'
  <2>1. /\ RunFor(k, w) /\ data'[w] = data[w] /\ DataOK(k, w)
        /\ runs[w].state = "done" => runs'[w].state = "done"
    BY <1>3 DEF KeyOK
  <2>2. OfCommand(k, w)' => OfCommand(k, w)
    BY <2>1 DEF Onward
  <2>3. /\ k \notin records' => data'[w].output = NoOutput /\ ~data'[w].pending
        /\ Recorded("complete", k)' => runs'[w].state = "done"
    BY <2>1 DEF DataOK
  <2>4. k \in records' /\ OfCommand(k, w)' =>
          /\ "output" \in shape'[k].stores => Named(data[w])'
          /\ review'[k].phase # "decided" => Tells(k, data[w])'
          /\ review'[k].phase = "deciding" => Tells(k, review[k].read)'
    BY <2>1, <2>2 DEF DataOK, Tells, Named
  <2> QED  BY <2>3, <2>4 DEF DataOK
<1> QED  BY <1>2, <1>3 DEF KeyOK

-----------------------------------------------------------------------------
(* Steps that leave runs and worker-run events alone.                      *)

Quiet ==
  /\ UNCHANGED runs
  /\ \A k, w : RunFor(k, w)' <=> RunFor(k, w)
  /\ \A op \in {"start", "complete"} : \A k : Recorded(op, k)' <=> Recorded(op, k)

LEMMA QuietOnward ==
  ASSUME Quiet, records \subseteq records'
  PROVE  Onward
BY DEF Quiet, Onward, OfCommand

\* Such a step keeps the invariant when it leaves each session a call and a
\* transaction that are right, and each key's records and data alone.
LEMMA QuietStep ==
  ASSUME SagaInv, RunTypeOK, Quiet,
         UNCHANGED <<shape, records, data, settled, review>>,
         call' \in [Sessions -> Call \cup {NoCall}],
         \A s \in Sessions :
           /\ call'[s] = call[s] \/ (call'[s] # NoCall => CallOK(call'[s]))
           /\ \/ call'[s] = call[s] /\ tx'[s] = tx[s]
              \/ TxOfCall(s)'
  PROVE  SagaInv'
<1>1. Onward
  BY QuietOnward
<1>2. SagaTypes'
  BY DEF SagaInv, SagaTypes
<1>3. StartsMatchRuns' /\ UnstartedFresh'
  BY DEF Quiet, SagaInv, StartsMatchRuns, UnstartedFresh
<1>4. ASSUME NEW s \in Sessions
      PROVE  TxOfCall(s)' /\ (call'[s] # NoCall => CallOK(call[s])')
  <2>1. TxOfCall(s)'
    BY <1>1, TxKept DEF SagaInv
  <2>2. ASSUME call'[s] # NoCall
        PROVE  CallOK(call[s])'
    <3>1. call'[s] \in Call /\ CallOK(call'[s])
      BY <2>2 DEF SagaInv, SagaTypes
    <3> DEFINE c == call'[s]
    <3>2. \A x \in Call : CallOK(x) => CallOK(x)'
      BY <1>1, CallKept DEF SagaInv
    <3> QED  BY <3>1, <3>2
  <2> QED  BY <2>1, <2>2
<1>5. ASSUME NEW k \in CommandKeys
      PROVE  KeyOK(k)'
  BY <1>1, KeyKept DEF SagaInv, Quiet
<1> QED  BY <1>2, <1>3, <1>4, <1>5 DEF SagaInv

\* The events of the budget commands are of no run.
LEMMA OtherEvents ==
  ASSUME UNCHANGED runs,
         \/ audits' = audits
         \/ \E e : audits' = audits \cup {e} /\ e.op \notin {"start", "complete"}
  PROVE  Quiet
<1>1. ASSUME NEW k, NEW w
      PROVE  RunFor(k, w)' <=> RunFor(k, w)
  BY DEF RunFor
<1>2. ASSUME NEW op \in {"start", "complete"}, NEW k
      PROVE  Recorded(op, k)' <=> Recorded(op, k)
  BY DEF Recorded
<1> QED  BY <1>1, <1>2 DEF Quiet

\* A budget command is quiet, and opens no transaction of a run.
LEMMA BudgetQuiet ==
  ASSUME RunTypeOK, Next, UNCHANGED runs
  PROVE  /\ Quiet
         /\ \A s \in Sessions :
              tx'[s] = tx[s] \/ TxOfCall(s)'
<1> DEFINE Other(s) == /\ tx'[s].phase \notin {"run counting", "run inserting"}
                       /\ \/ tx'[s].phase \notin {"run locked", "settling"}
                          \/ tx'[s].command.op # "complete"
           Events == \/ audits' = audits
                     \/ \E e : audits' = audits \cup {e}
                               /\ e.op \notin {"start", "complete"}
           Txs == \A s \in Sessions : tx'[s] = tx[s] \/ Other(s)
<1>0. tx \in [Sessions -> AllTx]
  BY DEF RunTypeOK, AllTx
<1>1. ASSUME NEW s \in Sessions, NEW k \in Keys, NEW c \in ReserveCommand,
             BeginReserve(s, k, c)
      PROVE  Events /\ Txs
  BY <1>0, <1>1 DEF BeginReserve
<1>2. ASSUME NEW s \in Sessions, CountUsed(s)
      PROVE  Events /\ Txs
  <2>1. tx[s] \in ReserveTx
    BY <1>2, RunTxKinds DEF CountUsed
  <2> QED  BY <1>0, <1>2, <2>1 DEF CountUsed, ReserveTx
<1>3. ASSUME NEW s \in Sessions, CountHeld(s)
      PROVE  Events /\ Txs
  <2>1. tx[s] \in ReserveTx
    BY <1>3, RunTxKinds DEF CountHeld
  <2> QED  BY <1>0, <1>3, <2>1 DEF CountHeld, ReserveTx
<1>4. ASSUME NEW s \in Sessions, NEW r \in ReservationIds, CommitReserve(s, r)
      PROVE  Events /\ Txs
  <2> DEFINE e == [op |-> "reserve", key |-> tx[s].key, target |-> r]
  <2>1. audits' = audits \cup {e} /\ e.op \notin {"start", "complete"}
    BY <1>4 DEF CommitReserve
  <2>2. tx' = [tx EXCEPT ![s] = NoTx] /\ NoTx.phase = "idle"
    BY <1>4 DEF CommitReserve, NoTx
  <2> HIDE DEF e
  <2> QED  BY <1>0, <2>1, <2>2
<1>5. ASSUME NEW s \in Sessions, NEW k \in Keys, NEW c \in ChargeCommand,
             BeginCharge(s, k, c)
      PROVE  Events /\ Txs
  BY <1>0, <1>5 DEF BeginCharge, ChargeCommand
<1>6. ASSUME NEW s \in Sessions, CommitCharge(s)
      PROVE  Events /\ Txs
  <2> DEFINE e == [op |-> "charge", key |-> tx[s].key, target |-> tx[s].reservation]
  <2>1. audits' = audits \cup {e} /\ e.op \notin {"start", "complete"}
    BY <1>6 DEF CommitCharge
  <2>2. tx' = [tx EXCEPT ![s] = NoTx] /\ NoTx.phase = "idle"
    BY <1>6 DEF CommitCharge, NoTx
  <2> HIDE DEF e
  <2> QED  BY <1>0, <2>1, <2>2
<1>7. ASSUME NEW k \in Keys, NEW c \in ReleaseCommand, Release(k, c)
      PROVE  Events /\ Txs
  <2> DEFINE e == [op |-> "release", key |-> k, target |-> c.reservation]
  <2>1. audits' = audits \cup {e} /\ e.op \notin {"start", "complete"}
    BY <1>7 DEF Release
  <2>2. tx' = tx
    BY <1>7 DEF Release
  <2> HIDE DEF e
  <2> QED  BY <2>1, <2>2
<1>8. ASSUME NEW s \in Sessions, Rollback(s)
      PROVE  Events /\ Txs
  BY <1>0, <1>8 DEF Rollback, NoTx
<1>9. ASSUME Tick
      PROVE  Events /\ Txs
  BY <1>9 DEF Tick
<1>10. Events /\ Txs
  BY <1>1, <1>2, <1>3, <1>4, <1>5, <1>6, <1>7, <1>8, <1>9 DEF Next
<1>11. Quiet
  BY <1>10, OtherEvents
<1>12. \A s \in Sessions : Other(s) => TxOfCall(s)'
  BY DEF TxOfCall, Completion
<1> QED  BY <1>10, <1>11, <1>12

LEMMA SameRunVars ==
  ASSUME UNCHANGED <<audits, runs>>
  PROVE  Quiet
BY OtherEvents

\* What the session of a call past its start, and between the transactions of
\* the run, has open concerns no run.
LEMMA OtherTx ==
  ASSUME NEW s \in Sessions, TxOfCall(s), UNCHANGED tx,
         call[s] # NoCall, call[s].stage \notin {"starting", "settling"}
  PROVE  TxOfCall(s)'
BY DEF TxOfCall, Completion

-----------------------------------------------------------------------------
(* One lemma for each kind of step: it keeps the invariant and is a step of *)
(* WorkerRuns, or leaves the runs and their budget alone.                   *)

LEMMA BesideStep ==
  ASSUME SagaInv, RunTypeOK, Beside
  PROVE  SagaInv'
<1>1. Next /\ UNCHANGED <<runs, sagaVars>>
  BY DEF Beside
<1>2. Quiet /\ \A s \in Sessions : tx'[s] = tx[s] \/ TxOfCall(s)'
  BY <1>1, BudgetQuiet
<1>3. call' = call /\ UNCHANGED <<shape, records, data, settled, review>>
  BY <1>1 DEF sagaVars
<1>4. call' \in [Sessions -> Call \cup {NoCall}]
  BY <1>3 DEF SagaInv, SagaTypes
<1> QED  BY <1>2, <1>3, <1>4, QuietStep

\* A step of one session that leaves the rows and the events alone.
LEMMA SessionStep ==
  ASSUME SagaInv, RunTypeOK, NEW s \in Sessions, NEW x, NEW c \in Call \cup {NoCall},
         tx' = [tx EXCEPT ![s] = x], call' = [call EXCEPT ![s] = c],
         UNCHANGED <<audits, runs, shape, records, data, settled, review>>,
         c # NoCall => CallOK(c), TxOfCall(s)'
  PROVE  SagaInv'
<1>1. Quiet
  BY SameRunVars
<1>2. /\ call \in [Sessions -> Call \cup {NoCall}]
      /\ DOMAIN tx = Sessions
  BY DEF SagaInv, SagaTypes, RunTypeOK
<1>3. call' \in [Sessions -> Call \cup {NoCall}]
  BY <1>2
<1>4. call'[s] = c
  BY <1>2
<1>5. \A t \in Sessions \ {s} : call'[t] = call[t] /\ tx'[t] = tx[t]
  BY <1>2
<1>6. ASSUME NEW t \in Sessions
      PROVE  /\ call'[t] = call[t] \/ (call'[t] # NoCall => CallOK(call'[t]))
             /\ \/ call'[t] = call[t] /\ tx'[t] = tx[t]
                \/ TxOfCall(t)'
  <2>1. CASE t = s
    BY <1>4, <2>1
  <2>2. CASE t # s
    BY <1>5, <2>2
  <2> QED  BY <2>1, <2>2
<1> QED  BY <1>1, <1>3, <1>6, QuietStep

LEMMA CallStartStep ==
  ASSUME SagaInv, RunTypeOK, NEW s \in Sessions, NEW k \in CommandKeys, CallStart(s, k)
  PROVE  SagaInv'
<1> DEFINE x == [phase |-> "run counting", key |-> k, command |-> StartOf(k),
                 used |-> UsedUnits(StartOf(k).account), now |-> clock]
           c == [stage |-> "starting", key |-> k, created |-> FALSE,
                 output |-> NoOutput, usage |-> FALSE, read |-> FreshData]
<1>1. /\ tx' = [tx EXCEPT ![s] = x] /\ call' = [call EXCEPT ![s] = c]
      /\ UNCHANGED <<audits, runs, shape, records, data, settled, review>>
  BY DEF CallStart, BeginStart
<1>2. c \in Call /\ c.stage = "starting" /\ c.key = k
  BY OutputFacts DEF Call, Stages
<1>3. x.phase = "run counting" /\ x.key = k
  OBVIOUS
<1> HIDE DEF x, c
<1>4. CallOK(c)
  BY <1>2 DEF CallOK
<1>5. tx'[s] = x /\ call'[s] = c
  BY <1>1 DEF SagaInv, SagaTypes, RunTypeOK
<1>6. TxOfCall(s)'
  BY <1>2, <1>3, <1>5 DEF TxOfCall, Completion
<1> QED  BY <1>1, <1>2, <1>4, <1>6, SessionStep

LEMMA CallCountStep ==
  ASSUME SagaInv, RunTypeOK, NEW s \in Sessions, CallCount(s)
  PROVE  SagaInv'
<1> DEFINE x == [tx[s] EXCEPT !.phase = "run inserting"]
<1>1. /\ tx' = [tx EXCEPT ![s] = x] /\ call' = call
      /\ UNCHANGED <<audits, runs, shape, records, data, settled, review>>
  BY DEF CallCount, CountRunHeld, sagaVars
<1>2. tx[s].phase = "run counting" /\ tx[s] \in StartTx
  BY RunTxKinds DEF CallCount, CountRunHeld
<1>3. x.phase = "run inserting" /\ x.key = tx[s].key
  BY <1>2 DEF StartTx
<1> HIDE DEF x
<1>4. call' = [call EXCEPT ![s] = call[s]] /\ call[s] \in Call \cup {NoCall}
  BY <1>1 DEF SagaInv, SagaTypes
<1>5. tx'[s] = x
  BY <1>1 DEF RunTypeOK
<1>6. TxOfCall(s) /\ (call[s] # NoCall => CallOK(call[s]))
  BY DEF SagaInv
<1>7. TxOfCall(s)'
  BY <1>1, <1>2, <1>3, <1>5, <1>6 DEF TxOfCall, Completion
<1> DEFINE c == call[s]
<1>8. /\ call' = [call EXCEPT ![s] = c] /\ c \in Call \cup {NoCall}
      /\ c # NoCall => CallOK(c)
  BY <1>4, <1>6
<1> HIDE DEF c
<1> QED  BY <1>1, <1>7, <1>8, SessionStep

LEMMA StopStep ==
  ASSUME SagaInv, RunTypeOK, NEW s \in Sessions, Stop(s)
  PROVE  SagaInv'
<1>1. tx' = [tx EXCEPT ![s] = NoTx] /\ UNCHANGED <<audits, runs>>
  BY DEF Stop, Rollback, runVars, vars, RunTypeOK
<1>2. /\ call' = [call EXCEPT ![s] = NoCall]
      /\ UNCHANGED <<shape, records, data, settled, review>>
  BY DEF Stop
<1>3. tx'[s] = NoTx
  BY <1>1 DEF RunTypeOK
<1>4. TxOfCall(s)'
  BY <1>3, IdleTx
<1>5. NoCall \in Call \cup {NoCall}
  OBVIOUS
<1> QED  BY <1>1, <1>2, <1>4, <1>5, SessionStep

LEMMA SettleLockStep ==
  ASSUME SagaInv, RunTypeOK, NEW s \in Sessions, SettleLock(s)
  PROVE  SagaInv'
<1> DEFINE x == [tx[s] EXCEPT !.phase = "settling"]
           c == call[s]
<1>1. /\ tx' = [tx EXCEPT ![s] = x] /\ call' = call
      /\ UNCHANGED <<audits, runs, shape, records, data, settled, review>>
  BY DEF SettleLock, LockHold, sagaVars
<1>2. tx[s].phase = "run locked" /\ Completion(s) /\ tx[s] \in CompleteTx
  BY RunTxKinds DEF SettleLock, LockHold
<1>3. /\ x.phase = "settling" /\ x.key = tx[s].key /\ x.command = tx[s].command
  BY <1>2 DEF CompleteTx
<1> HIDE DEF x
<1>4. tx'[s] = x
  BY <1>1 DEF RunTypeOK
<1>5. TxOfCall(s) /\ (c # NoCall => CallOK(c))
  BY DEF SagaInv
<1>6. TxOfCall(s)'
  BY <1>1, <1>2, <1>3, <1>4, <1>5 DEF TxOfCall, RunFor
<1>7. call' = [call EXCEPT ![s] = c] /\ c \in Call \cup {NoCall}
  BY <1>1 DEF SagaInv, SagaTypes
<1> HIDE DEF c
<1> QED  BY <1>1, <1>5, <1>6, <1>7, SessionStep

\* A completion of a run that is opened under a key of no command.
LEMMA ByHandStep ==
  ASSUME SagaInv, RunTypeOK, NEW s \in Sessions, ByHand(s)
  PROVE  SagaInv'
<1>1. PICK k \in RunKeys \ CommandKeys, d \in CompleteCommand :
        BeginComplete(s, k, d)
  BY DEF ByHand
<1> DEFINE x == [phase |-> "run locked", key |-> k, command |-> d,
                 reservation |-> runs[d.run].reservation, now |-> clock]
<1>2. tx' = [tx EXCEPT ![s] = x] /\ UNCHANGED <<audits, runs>>
  BY <1>1 DEF BeginComplete
<1>3. call[s] = NoCall /\ UNCHANGED <<shape, records, data, settled, review, call>>
  BY DEF ByHand, sagaVars
<1>4. x.phase = "run locked" /\ x.key = k
  OBVIOUS
<1> HIDE DEF x
<1>5. tx'[s] = x /\ call'[s] = NoCall
  BY <1>2, <1>3 DEF RunTypeOK
<1>6. TxOfCall(s)'
  BY <1>4, <1>5 DEF TxOfCall
<1>7. call' = [call EXCEPT ![s] = NoCall] /\ NoCall \in Call \cup {NoCall}
  BY <1>3 DEF SagaInv, SagaTypes
<1> QED  BY <1>2, <1>3, <1>6, <1>7, SessionStep

LEMMA SettleBeginStep ==
  ASSUME SagaInv, RunTypeOK, NEW s \in Sessions, SettleBegin(s)
  PROVE  /\ SagaInv'
         /\ call[s].key \in RunKeys
         /\ DoneCommand(call[s].key) \in CompleteCommand
<1> DEFINE k == call[s].key
           d == DoneCommand(k)
           x == [phase |-> "run locked", key |-> k, command |-> d,
                 reservation |-> runs[d.run].reservation, now |-> clock]
<1>1. /\ tx' = [tx EXCEPT ![s] = x]
      /\ UNCHANGED <<audits, runs, shape, records, data, settled, review, call>>
  BY DEF SettleBegin, BeginComplete, sagaVars
<1>2. /\ call[s].stage = "settling" /\ call[s] \in Call /\ call[s] # NoCall
      /\ k \in CommandKeys
  BY CallOfStage DEF SettleBegin, Stages, SagaInv
<1>3. CallOK(call[s]) /\ Recorded("start", k)
  BY <1>2 DEF SagaInv, CallOK
<1>4. RunOf(k) \in RunIds /\ RunFor(k, RunOf(k))
  BY <1>2, <1>3, StartedRun DEF SagaInv
<1>5. x.phase = "run locked" /\ x.key = k /\ x.command = d
  OBVIOUS
<1>6. d.run = RunOf(k) /\ d.state = "done"
  BY DEF DoneCommand
<1>7. d \in CompleteCommand /\ k \in RunKeys
  BY <1>2, <1>4, CommandAssumption DEF DoneCommand, CompleteCommand, Outcomes
<1> HIDE DEF x, d
<1>8. tx'[s] = x /\ call'[s] = call[s]
  BY <1>1 DEF RunTypeOK
<1>9. ASSUME NEW l, NEW w, RunFor(l, w)
      PROVE  RunFor(l, w)'
  BY <1>1, <1>9 DEF RunFor
<1>10. TxOfCall(s)'
  <2>1. \A l, w : l = k /\ w = d.run => RunFor(l, w)'
    BY <1>4, <1>6, <1>9
  <2>2. call'[s].stage = "settling" /\ tx'[s].key = call'[s].key
        /\ call'[s].key = k /\ tx'[s].command = d
    BY <1>2, <1>5, <1>8
  <2>3. RunFor(call[s].key, tx[s].command.run)'
    BY <2>1, <2>2
  <2> QED  BY <1>5, <1>6, <1>8, <2>2, <2>3 DEF TxOfCall
<1> DEFINE c == call[s]
<1>11. /\ call' = [call EXCEPT ![s] = c] /\ c \in Call \cup {NoCall} /\ CallOK(c)
  BY <1>1, <1>2, <1>3 DEF SagaInv, SagaTypes
<1>12. SagaInv'
  <2> HIDE DEF c
  <2> QED  BY <1>1, <1>10, <1>11, SessionStep
<1> QED  BY <1>7, <1>12 DEF d

\* A step that only moves the call of one session.
LEMMA CallStep ==
  ASSUME SagaInv, RunTypeOK, NEW s \in Sessions, NEW c \in Call \cup {NoCall},
         call' = [call EXCEPT ![s] = c],
         UNCHANGED <<runVars, shape, records, data, settled, review>>,
         c # NoCall => CallOK(c),
         \/ tx[s] = NoTx
         \/ call[s] # NoCall /\ call[s].stage \notin {"starting", "settling"}
  PROVE  SagaInv'
<1>1. UNCHANGED <<tx, audits, runs>>
  BY DEF runVars, vars
<1>2. tx' = [tx EXCEPT ![s] = tx[s]]
  BY <1>1 DEF RunTypeOK
<1>3. TxOfCall(s)'
  BY <1>1, IdleTx, OtherTx DEF SagaInv
<1> QED  BY <1>1, <1>2, <1>3, SessionStep

LEMMA RetryStep ==
  ASSUME SagaInv, RunTypeOK, NEW s \in Sessions, NEW k \in CommandKeys, Retry(s, k)
  PROVE  SagaInv'
<1> DEFINE c == [stage |-> "started", key |-> k, created |-> FALSE,
                 output |-> NoOutput, usage |-> FALSE, read |-> FreshData]
<1>1. /\ tx[s] = NoTx /\ Recorded("start", k) /\ call' = [call EXCEPT ![s] = c]
      /\ UNCHANGED <<runVars, shape, records, data, settled, review>>
  BY DEF Retry
<1>2. c \in Call /\ c.stage = "started" /\ c.key = k
  BY OutputFacts DEF Call, Stages
<1> HIDE DEF c
<1>3. CallOK(c)
  BY <1>1, <1>2 DEF CallOK
<1> QED  BY <1>1, <1>2, <1>3, CallStep

\* What a call past its start knows of its run.
LEMMA RunOfCall ==
  ASSUME SagaInv, RunTypeOK, NEW s \in Sessions, call[s].stage \in Stages \ {"starting"}
  PROVE  /\ call[s] \in Call /\ call[s] # NoCall /\ CallOK(call[s])
         /\ call[s].key \in CommandKeys /\ Recorded("start", call[s].key)
         /\ RunOf(call[s].key) \in RunIds
         /\ RunFor(call[s].key, RunOf(call[s].key))
         /\ DataOK(call[s].key, RunOf(call[s].key))
         /\ data[RunOf(call[s].key)] \in RunData
<1> DEFINE k == call[s].key
<1>1. call[s] \in Call /\ call[s] # NoCall /\ k \in CommandKeys
  BY CallOfStage DEF SagaInv
<1>2. CallOK(call[s]) /\ Recorded("start", k)
  BY <1>1 DEF SagaInv, CallOK
<1>3. RunOf(k) \in RunIds /\ RunFor(k, RunOf(k))
  BY <1>1, <1>2, StartedRun DEF SagaInv
<1>4. DataOK(k, RunOf(k))
  BY <1>1, <1>3 DEF SagaInv, KeyOK
<1>5. data[RunOf(k)] \in RunData
  BY <1>3 DEF SagaInv, SagaTypes
<1> QED  BY <1>1, <1>2, <1>3, <1>4, <1>5

LEMMA ReadRunStep ==
  ASSUME SagaInv, RunTypeOK, NEW s \in Sessions, ReadRun(s)
  PROVE  SagaInv'
<1> DEFINE k == call[s].key
           w == RunOf(k)
           d == data[w]
           c == [call[s] EXCEPT !.output = OutputData(d), !.usage = d.charge]
           found == runs[w].state
           writes == [call[s] EXCEPT !.stage = "writing", !.read = d]
           settles == [c EXCEPT !.stage = "settling"]
           persists == [c EXCEPT !.stage = "persisting"]
           next == IF Replays(k, d, found) THEN AfterReplay(c, found) ELSE writes
<1>1. call[s].stage = "started"
  BY DEF ReadRun
<1>2. /\ call[s] \in Call /\ call[s] # NoCall
      /\ k \in CommandKeys /\ Recorded("start", k) /\ w \in RunIds /\ RunFor(k, w)
      /\ DataOK(k, w) /\ d \in RunData
  BY <1>1, RunOfCall DEF Stages
<1>3. /\ call' = [call EXCEPT ![s] = next]
      /\ UNCHANGED <<runVars, shape, records, data, settled, review>>
  BY DEF ReadRun
<1>4. /\ OutputData(d) \in Output /\ d.charge \in BOOLEAN
      /\ OutputData(d).named <=> Named(d) \/ (d.output = NoOutput /\ d.pending)
  BY <1>2, OutputFacts DEF RunData, Named
<1>5. /\ writes \in Call /\ writes.stage = "writing" /\ writes.key = k
      /\ writes.read = d
  BY <1>2 DEF Call, Stages
<1>6. c \in Call /\ c.key = k /\ c.output = OutputData(d)
  BY <1>2, <1>4 DEF Call
<1>7. /\ settles \in Call /\ settles.stage = "settling" /\ settles.key = k
      /\ settles.output = OutputData(d)
      /\ persists \in Call /\ persists.stage = "persisting" /\ persists.key = k
      /\ persists.output = OutputData(d)
  BY <1>6 DEF Call, Stages
<1>8. shape[k] \in Shape
  BY <1>2, CommandsAreShapes DEF SagaInv, SagaTypes
<1>9. d.output = NoOutput \/ Named(d) \/ k \in records
  BY <1>2 DEF DataOK
\* A retry finds records; what it goes on with names them.
<1>10. ASSUME Replays(k, d, found)
       PROVE  k \in records
  BY <1>2, <1>4, <1>10, OutputFacts DEF Replays, DataOK, Named
<1>11. ASSUME Replays(k, d, found), found = "running"
       PROVE  OutputData(d).named
  BY <1>11 DEF Replays
<1>12. ASSUME Replays(k, d, found), OfCommand(k, w)
       PROVE  OutputData(d).named
  <2>1. CASE OutputData(d).named
    BY <2>1
  <2>2. CASE shape[k].stores = {"output", "pending"}
    <3>1. "output" \in shape[k].stores
      BY <2>2
    <3> QED  BY <1>2, <1>4, <1>10, <1>12, <3>1 DEF DataOK
  <2> QED  BY <1>12, <2>1, <2>2 DEF Replays
<1>13. \A v \in RunIds : RunFor(k, v) => v = w
  BY <1>2, StartedRun DEF SagaInv
<1>14. CallOK(writes)
  <2>1. k \notin records => d.output = NoOutput
    BY <1>2 DEF DataOK
  <2> QED  BY <1>2, <1>5, <2>1 DEF CallOK
<1>15. Replays(k, d, found) /\ found = "running" => CallOK(settles)
  BY <1>2, <1>7, <1>10, <1>11 DEF CallOK
<1>16. Replays(k, d, found) => CallOK(persists)
  BY <1>2, <1>7, <1>10, <1>12, <1>13 DEF CallOK
<1>17. next \in {writes, NoCall} \/ (Replays(k, d, found) /\ next = persists)
         \/ (Replays(k, d, found) /\ found = "running" /\ next = settles)
  BY <1>6 DEF AfterReplay
<1> HIDE DEF next, settles, persists, writes
<1>18. next \in Call \cup {NoCall} /\ (next # NoCall => CallOK(next))
  BY <1>5, <1>7, <1>14, <1>15, <1>16, <1>17
<1> QED  BY <1>1, <1>2, <1>3, <1>18, CallStep

LEMMA SettleReplayStep ==
  ASSUME SagaInv, RunTypeOK, NEW s \in Sessions, SettleReplay(s)
  PROVE  SagaInv'
<1> DEFINE k == call[s].key
           persists == [call[s] EXCEPT !.stage = "persisting", !.usage = FALSE]
           c == IF Persists(k, "running", call[s].created) THEN persists ELSE NoCall
<1>1. /\ call[s].stage = "settling" /\ tx[s] = NoTx
      /\ call' = [call EXCEPT ![s] = c]
      /\ UNCHANGED <<runVars, shape, records, data, settled, review>>
  BY DEF SettleReplay
<1>2. call[s] \in Call /\ call[s] # NoCall /\ CallOK(call[s])
  BY <1>1, RunOfCall DEF Stages
<1>3. /\ persists \in Call /\ persists.stage = "persisting" /\ persists.key = k
      /\ persists.output = call[s].output
  BY <1>2 DEF Call, Stages
<1>4. CallOK(persists)
  BY <1>1, <1>2, <1>3 DEF CallOK
<1>5. c \in Call \cup {NoCall} /\ (c # NoCall => CallOK(c))
  BY <1>3, <1>4
<1> HIDE DEF c
<1> QED  BY <1>1, <1>5, CallStep

LEMMA ReadBackStep ==
  ASSUME SagaInv, RunTypeOK, NEW s \in Sessions, ReadBack(s)
  PROVE  SagaInv'
<1> DEFINE k == call[s].key
           c == [call[s] EXCEPT !.stage = "writing back", !.read = data[RunOf(k)]]
<1>1. call[s].stage = "persisting"
  BY DEF ReadBack
<1>2. /\ call' = [call EXCEPT ![s] = c]
      /\ UNCHANGED <<runVars, shape, records, data, settled, review>>
  BY DEF ReadBack
<1>3. /\ call[s] \in Call /\ call[s] # NoCall /\ CallOK(call[s])
      /\ data[RunOf(k)] \in RunData
  BY <1>1, RunOfCall DEF Stages
<1>4. /\ c \in Call /\ c.stage = "writing back" /\ c.key = k
      /\ c.output = call[s].output
  BY <1>3 DEF Call, Stages
<1> HIDE DEF c
<1>5. CallOK(c)
  BY <1>1, <1>3, <1>4 DEF CallOK
<1> QED  BY <1>1, <1>2, <1>3, <1>4, <1>5, CallStep

\* A step that leaves the runs and their transactions alone and concerns the
\* records, the data and the review of one key, and the call of a session that
\* has nothing of a run open.
LEMMA DataStep ==
  ASSUME SagaInv, RunTypeOK, UNCHANGED runVars, NEW k \in CommandKeys,
         Recorded("start", k), SagaTypes',
         UNCHANGED <<shape, settled>>,
         records' \in {records, records \cup {k}},
         \A w \in RunIds : ~RunFor(k, w) => data'[w] = data[w],
         \A l \in CommandKeys : l # k => review'[l] = review[l],
         KeyOK(k)',
         \A s \in Sessions :
           \/ call'[s] = call[s]
           \/ /\ call[s] # NoCall
              /\ call[s].stage \notin {"starting", "settling"}
              /\ call'[s] # NoCall => CallOK(call[s])'
  PROVE  SagaInv'
<1>1. UNCHANGED <<tx, audits, runs>>
  BY DEF runVars, vars
<1>2. Quiet
  BY <1>1, SameRunVars
<1>3. Onward
  BY <1>2, QuietOnward
<1>4. StartsMatchRuns'
  BY <1>2 DEF Quiet, SagaInv, StartsMatchRuns
<1>5. k \in RunKeys /\ CommandKeys \subseteq RunKeys
  BY CommandAssumption
<1>6. UnstartedFresh'
  <2>1. ASSUME NEW w \in RunIds, runs'[w] = NoRow
        PROVE  data'[w] = FreshData
    <3>1. runs[w] = NoRow /\ ~RunFor(k, w)
      BY <1>1, <1>5, <2>1 DEF SagaInv, StartsMatchRuns
    <3> QED  BY <3>1 DEF SagaInv, UnstartedFresh
  <2> QED  BY <2>1 DEF UnstartedFresh
<1>7. ASSUME NEW s \in Sessions
      PROVE  TxOfCall(s)' /\ (call'[s] # NoCall => CallOK(call[s])')
  <2>1. TxOfCall(s) /\ (call[s] # NoCall => CallOK(call[s]))
    BY DEF SagaInv
  <2>2. CASE call'[s] = call[s]
    <3>1. TxOfCall(s)'
      BY <1>1, <1>3, <2>1, <2>2, TxKept
    <3>2. ASSUME call'[s] # NoCall
          PROVE  CallOK(call[s])'
      <4> DEFINE c == call[s]
      <4>1. c \in Call /\ CallOK(c)
        BY <2>1, <2>2, <3>2 DEF SagaInv, SagaTypes
      <4>2. \A x \in Call : CallOK(x) => CallOK(x)'
        BY <1>3, CallKept DEF SagaInv
      <4>3. call'[s] \in Call /\ CallOK(call'[s])
        BY <2>2, <4>1
      <4> QED  BY <4>2, <4>3
    <3> QED  BY <3>1, <3>2
  <2>3. CASE call'[s] # call[s]
    <3>1. /\ call[s] # NoCall /\ call[s].stage \notin {"starting", "settling"}
          /\ call'[s] # NoCall => CallOK(call[s])'
      BY <2>3
    <3>2. TxOfCall(s)'
      BY <1>1, <2>1, <3>1, OtherTx
    <3> QED  BY <3>1, <3>2
  <2> QED  BY <2>2, <2>3
<1>8. ASSUME NEW l \in CommandKeys
      PROVE  KeyOK(l)'
  <2>1. CASE l = k
    BY <2>1
  <2>2. CASE l # k
    <3>1. \A w \in RunIds : RunFor(l, w)' =>
            /\ RunFor(l, w) /\ data'[w] = data[w]
            /\ runs[w].state = "done" => runs'[w].state = "done"
      BY <1>1, <1>2, <1>5, <2>2 DEF Quiet, SagaInv, StartsMatchRuns
    <3>2. /\ l \in records' <=> l \in records
          /\ review'[l] = review[l] /\ settled'[l] = settled[l]
          /\ Recorded("complete", l)' <=> Recorded("complete", l)
      BY <1>2, <2>2 DEF Quiet
    <3>3. KeyOK(l)
      BY DEF SagaInv
    <3> QED  BY <1>3, <3>1, <3>2, <3>3, KeyKept
  <2> QED  BY <2>1, <2>2
<1> QED  BY <1>4, <1>6, <1>7, <1>8 DEF SagaInv

LEMMA WriteRecordsStep ==
  ASSUME SagaInv, RunTypeOK, NEW s \in Sessions, WriteRecords(s)
  PROVE  SagaInv'
<1> DEFINE k0 == call[s].key
           w0 == RunOf(k0)
           d0 == call[s].read
           out == IF "output" \in shape[k0].stores THEN Prepared ELSE d0.output
           new == [d0 EXCEPT
                     !.output = IF "output" \in shape[k0].stores THEN Prepared ELSE @,
                     !.pending = ("pending" \in shape[k0].stores)]
           c == [call[s] EXCEPT !.stage = "settling", !.created = TRUE,
                                !.read = FreshData, !.output = Prepared]
<1>1. call[s].stage = "writing" /\ k0 \notin records
  BY DEF WriteRecords
<1>2. /\ call[s] \in Call /\ call[s] # NoCall /\ CallOK(call[s])
      /\ k0 \in CommandKeys /\ Recorded("start", k0)
      /\ w0 \in RunIds /\ RunFor(k0, w0) /\ DataOK(k0, w0)
  BY <1>1, RunOfCall DEF Stages
<1>3. /\ UNCHANGED <<runVars, shape, settled, review>>
      /\ records' = records \cup {k0}
      /\ data' = [data EXCEPT ![w0] = new]
  BY DEF WriteRecords
<1>4. call' = [call EXCEPT ![s].stage = "settling", ![s].created = TRUE,
                           ![s].read = FreshData, ![s].output = Prepared]
  BY DEF WriteRecords
<1>5. call' = [call EXCEPT ![s] = c]
  BY <1>4 DEF SagaInv, SagaTypes
<1>6. /\ c \in Call /\ c.stage = "settling" /\ c.key = k0 /\ c.output = Prepared
  BY <1>2, OutputFacts DEF Call, Stages
<1>7. d0 \in RunData /\ d0.output = NoOutput
  BY <1>1, <1>2, CallFacts DEF CallOK
<1>8. new \in RunData /\ new.output = out
  <2>1. out \in Output
    BY <1>7, OutputFacts DEF RunData
  <2>2. \A o \in Output, p \in BOOLEAN :
          /\ [d0 EXCEPT !.output = o, !.pending = p] \in RunData
          /\ [d0 EXCEPT !.output = o, !.pending = p].output = o
    BY <1>7 DEF RunData
  <2> DEFINE p0 == ("pending" \in shape[k0].stores)
  <2>3. p0 \in BOOLEAN
    OBVIOUS
  <2>4. new = [d0 EXCEPT !.output = out, !.pending = p0]
    OBVIOUS
  <2> HIDE DEF p0, new, out
  <2> QED  BY <2>1, <2>2, <2>3, <2>4
<1>9. /\ "output" \in shape[k0].stores => Named(new)
      /\ new.output # NoOutput => Named(new)
  BY <1>7, <1>8, OutputFacts DEF Named
<1> HIDE DEF new, c
<1>10. SagaTypes'
  <2>1. data' \in [RunIds -> RunData]
    BY <1>2, <1>3, <1>8 DEF SagaInv, SagaTypes
  <2>2. call' \in [Sessions -> Call \cup {NoCall}]
    BY <1>5, <1>6 DEF SagaInv, SagaTypes
  <2>3. records' \subseteq CommandKeys
    BY <1>2, <1>3 DEF SagaInv, SagaTypes
  <2> QED  BY <1>3, <2>1, <2>2, <2>3 DEF SagaInv, SagaTypes
<1>11. PICK k \in CommandKeys, w \in RunIds : k = k0 /\ w = w0
  BY <1>2
<1>12. data'[w] = new /\ \A v \in RunIds : v # w => data'[v] = data[v]
  BY <1>3, <1>11 DEF SagaInv, SagaTypes
<1>13. Quiet
  BY <1>3, SameRunVars DEF runVars, vars
<1>14. KeyOK(k)'
  <2>1. k \in records' /\ Recorded("start", k)'
    BY <1>2, <1>3, <1>11, <1>13 DEF Quiet
  <2>2. KeyOK(k) /\ k \notin records
    BY <1>1, <1>11 DEF SagaInv
  <2>3. review'[k].phase = "open" /\ ~Recorded("complete", k)'
    BY <1>3, <1>13, <2>2 DEF KeyOK, Quiet
  <2>4. ASSUME NEW v \in RunIds, RunFor(k, v)'
        PROVE  v = w
    BY <1>2, <1>11, <1>13, <2>4, StartedRun DEF Quiet, SagaInv
  <2>5. DataOK(k, w)'
    <3>1. /\ "output" \in shape'[k].stores => Named(data[w])'
          /\ Tells(k, data[w])'
      BY <1>3, <1>9, <1>11, <1>12 DEF Tells, Named
    <3> QED  BY <2>1, <2>3, <3>1 DEF DataOK
  <2> QED  BY <2>1, <2>3, <2>4, <2>5 DEF KeyOK
<1>15. ASSUME NEW t \in Sessions
       PROVE  \/ call'[t] = call[t]
              \/ /\ call[t] # NoCall /\ call[t].stage \notin {"starting", "settling"}
                 /\ call'[t] # NoCall => CallOK(call[t])'
  <2>1. CASE t # s
    BY <1>5, <2>1 DEF SagaInv, SagaTypes
  <2>2. CASE t = s
    <3>1. call'[t] = c
      BY <1>5, <2>2 DEF SagaInv, SagaTypes
    <3>2. /\ call'[t].stage = "settling" /\ call'[t].output.named
          /\ call'[t].key \in records' /\ call'[t].key = k
      BY <1>3, <1>6, <1>11, <3>1, OutputFacts
    <3>3. Recorded("start", k)'
      BY <1>2, <1>11, <1>13 DEF Quiet
    <3>4. CallOK(call[t])'
      BY <3>2, <3>3 DEF CallOK
    <3> QED  BY <1>1, <1>2, <2>2, <3>4
  <2> QED  BY <2>1, <2>2
<1> QED
  BY <1>2, <1>3, <1>10, <1>11, <1>12, <1>14, <1>15, DataStep

LEMMA WriteBackStep ==
  ASSUME SagaInv, RunTypeOK, NEW s \in Sessions, WriteBack(s)
  PROVE  SagaInv'
<1> DEFINE c == call[s]
           out == [c.output EXCEPT !.usage = (@ \/ c.usage)
                                     /\ shape[c.key].persists # "created"]
           new == [c.read EXCEPT !.output =
                     [c.output EXCEPT !.usage = (@ \/ c.usage)
                                        /\ shape[c.key].persists # "created"]]
<1>1. c.stage = "writing back"
  BY DEF WriteBack
<1>2. /\ c \in Call /\ c # NoCall /\ CallOK(c)
      /\ c.key \in CommandKeys /\ Recorded("start", c.key)
      /\ RunOf(c.key) \in RunIds /\ RunFor(c.key, RunOf(c.key))
      /\ DataOK(c.key, RunOf(c.key))
  BY <1>1, RunOfCall DEF Stages
<1>3. /\ UNCHANGED <<runVars, shape, records, settled, review>>
      /\ data' = [data EXCEPT ![RunOf(c.key)] = new]
      /\ call' = [call EXCEPT ![s] = NoCall]
  BY DEF WriteBack
<1>4. out \in Output /\ out.named = c.output.named
  BY <1>2 DEF Call, Output
<1>5. new \in RunData /\ new.output = out
  BY <1>2, <1>4 DEF Call, RunData
<1>6. PICK k \in CommandKeys, w \in RunIds : k = c.key /\ w = RunOf(c.key)
  BY <1>2
<1>7. k \in records /\ (OfCommand(k, w) => Named(new))
  BY <1>1, <1>2, <1>4, <1>5, <1>6 DEF CallOK, Named
<1> HIDE DEF new, out, c
<1>8. data'[w] = new /\ \A v \in RunIds : v # w => data'[v] = data[v]
  BY <1>3, <1>6 DEF SagaInv, SagaTypes
<1>9. SagaTypes'
  <2>1. data' \in [RunIds -> RunData]
    BY <1>2, <1>3, <1>5 DEF SagaInv, SagaTypes
  <2> QED  BY <1>3, <2>1 DEF SagaInv, SagaTypes
<1>10. Quiet
  BY <1>3, SameRunVars DEF runVars, vars
<1>11. KeyOK(k)'
  <2>1. KeyOK(k) /\ DataOK(k, w)
    BY <1>2, <1>6 DEF SagaInv
  <2>2. /\ k \in records' /\ Recorded("start", k)'
        /\ Recorded("complete", k)' => settled'[k].named
    BY <1>3, <1>7, <1>10, <2>1 DEF KeyOK, Quiet
  <2>3. ASSUME NEW v \in RunIds, RunFor(k, v)'
        PROVE  v = w
    BY <1>2, <1>6, <1>10, <2>3, StartedRun DEF Quiet, SagaInv
  <2>4. DataOK(k, w)'
    <3>1. OfCommand(k, w)' => OfCommand(k, w)
      BY <1>10 DEF Quiet, OfCommand
    <3>2. OfCommand(k, w) =>
            /\ Named(data[w])' /\ Tells(k, data[w])'
            /\ review'[k].phase = "deciding" => Tells(k, review[k].read)'
      BY <1>3, <1>7, <1>8, <2>1 DEF DataOK, Tells, Named
    <3>3. Recorded("complete", k)' => runs'[w].state = "done"
      BY <1>10, <2>1 DEF Quiet, DataOK
    <3> QED  BY <2>2, <3>1, <3>2, <3>3 DEF DataOK
  <2> QED  BY <2>2, <2>3, <2>4 DEF KeyOK
<1>12. \A t \in Sessions : call'[t] = call[t] \/ (t = s /\ call'[t] = NoCall)
  BY <1>3 DEF SagaInv, SagaTypes
<1>13. ASSUME NEW t \in Sessions
       PROVE  \/ call'[t] = call[t]
              \/ /\ call[t] # NoCall /\ call[t].stage \notin {"starting", "settling"}
                 /\ call'[t] # NoCall => CallOK(call[t])'
  BY <1>1, <1>2, <1>12 DEF c
<1> QED
  BY <1>2, <1>3, <1>6, <1>8, <1>9, <1>11, <1>13, DataStep

\* What a key whose records are committed knows of its run.
LEMMA RunOfKey ==
  ASSUME SagaInv, RunTypeOK, NEW k \in CommandKeys, k \in records
  PROVE  /\ KeyOK(k) /\ Recorded("start", k)
         /\ RunOf(k) \in RunIds /\ RunFor(k, RunOf(k)) /\ DataOK(k, RunOf(k))
         /\ data[RunOf(k)] \in RunData /\ review[k] \in Review
<1>1. KeyOK(k) /\ Recorded("start", k)
  BY DEF SagaInv, KeyOK
<1>2. RunOf(k) \in RunIds /\ RunFor(k, RunOf(k))
  BY <1>1, StartedRun DEF SagaInv
<1> QED  BY <1>1, <1>2 DEF KeyOK, SagaInv, SagaTypes

LEMMA ReadDecisionStep ==
  ASSUME SagaInv, RunTypeOK, NEW k \in CommandKeys, ReadDecision(k)
  PROVE  SagaInv'
<1>1. /\ KeyOK(k) /\ Recorded("start", k)
      /\ RunOf(k) \in RunIds /\ RunFor(k, RunOf(k))
  BY RunOfKey DEF ReadDecision
<1>2. PICK w \in RunIds : w = RunOf(k)
  BY <1>1
<1>3. DataOK(k, w) /\ data[w] \in RunData
  BY <1>2, RunOfKey DEF ReadDecision
<1>4. /\ k \in records /\ review[k].phase = "open"
      /\ review' = [review EXCEPT ![k] = [phase |-> "deciding", read |-> data[w]]]
      /\ UNCHANGED <<runVars, shape, records, data, settled, call>>
  BY <1>2 DEF ReadDecision
<1>5. review'[k] = [phase |-> "deciding", read |-> data[w]]
  BY <1>4 DEF SagaInv, SagaTypes
<1>6. SagaTypes'
  <2>1. [phase |-> "deciding", read |-> data[w]] \in Review
    BY <1>3 DEF Review
  <2>2. review' \in [CommandKeys -> Review]
    BY <1>4, <2>1 DEF SagaInv, SagaTypes
  <2> QED  BY <1>4, <2>2 DEF SagaInv, SagaTypes
<1>7. Quiet
  BY <1>4, SameRunVars DEF runVars, vars
<1>8. KeyOK(k)'
  <2>1. /\ k \in records' /\ Recorded("start", k)'
        /\ Recorded("complete", k)' => settled'[k].named
    BY <1>1, <1>4, <1>7 DEF KeyOK, Quiet
  <2>2. ASSUME NEW v \in RunIds, RunFor(k, v)'
        PROVE  v = w
    BY <1>1, <1>2, <1>7, <2>2, StartedRun DEF Quiet, SagaInv
  <2>3. DataOK(k, w)'
    <3>1. OfCommand(k, w)' => OfCommand(k, w)
      BY <1>7 DEF Quiet, OfCommand
    <3>2. OfCommand(k, w) =>
            /\ "output" \in shape[k].stores => Named(data[w])
            /\ Tells(k, data[w])
      BY <1>3, <1>4 DEF DataOK
    <3>3. OfCommand(k, w) =>
            /\ "output" \in shape'[k].stores => Named(data[w])'
            /\ Tells(k, data[w])' /\ Tells(k, review[k].read)'
      BY <1>4, <1>5, <3>2 DEF Tells, Named
    <3>4. Recorded("complete", k)' => runs'[w].state = "done"
      BY <1>7, <1>3 DEF Quiet, DataOK
    <3> QED  BY <2>1, <3>1, <3>3, <3>4 DEF DataOK
  <2> QED  BY <2>1, <2>2, <2>3 DEF KeyOK
<1>9. \A l \in CommandKeys : l # k => review'[l] = review[l]
  BY <1>4 DEF SagaInv, SagaTypes
<1> QED  BY <1>1, <1>4, <1>6, <1>8, <1>9, DataStep

LEMMA WriteDecisionStep ==
  ASSUME SagaInv, RunTypeOK, NEW k \in CommandKeys, WriteDecision(k)
  PROVE  SagaInv'
<1>1. k \in records
  BY DEF WriteDecision, SagaInv, KeyOK
<1>2. /\ KeyOK(k) /\ Recorded("start", k) /\ RunOf(k) \in RunIds
      /\ RunFor(k, RunOf(k)) /\ review[k] \in Review
  BY <1>1, RunOfKey
<1>3. PICK w \in RunIds : w = RunOf(k)
  BY <1>2
<1> DEFINE d == review[k].read
           new == [review[k].read EXCEPT !.output.decided = TRUE]
           done == [phase |-> "decided", read |-> FreshData]
<1>4. /\ review[k].phase = "deciding" /\ DataOK(k, w)
      /\ data' = [data EXCEPT ![w] = new]
      /\ review' = [review EXCEPT ![k] = done]
      /\ UNCHANGED <<runVars, shape, records, settled, call>>
  BY <1>1, <1>3, RunOfKey DEF WriteDecision
<1>5. /\ new \in RunData /\ new.output.named = d.output.named
  <2>1. d \in RunData /\ d.output \in Output
    BY <1>2 DEF Review, RunData
  <2>2. /\ [d.output EXCEPT !.decided = TRUE] \in Output
        /\ [d.output EXCEPT !.decided = TRUE].named = d.output.named
    BY <2>1 DEF Output
  <2>3. new = [d EXCEPT !.output = [d.output EXCEPT !.decided = TRUE]]
    BY <2>1 DEF RunData
  <2> QED  BY <2>1, <2>2, <2>3 DEF RunData
<1>6. done \in Review /\ done.phase = "decided"
  BY OutputFacts DEF Review
<1>7. OfCommand(k, w) /\ "output" \in shape[k].stores => new.output.named
  BY <1>1, <1>4, <1>5 DEF DataOK, Tells, Named
<1> HIDE DEF new, done
<1>8. /\ data'[w] = new /\ \A v \in RunIds : v # w => data'[v] = data[v]
      /\ review'[k] = done /\ \A l \in CommandKeys : l # k => review'[l] = review[l]
  BY <1>4 DEF SagaInv, SagaTypes
<1>9. SagaTypes'
  <2>1. data' \in [RunIds -> RunData] /\ review' \in [CommandKeys -> Review]
    BY <1>4, <1>5, <1>6 DEF SagaInv, SagaTypes
  <2> QED  BY <1>4, <2>1 DEF SagaInv, SagaTypes
<1>10. Quiet
  BY <1>4, SameRunVars DEF runVars, vars
<1>11. KeyOK(k)'
  <2>1. /\ k \in records' /\ Recorded("start", k)'
        /\ Recorded("complete", k)' => settled'[k].named
    BY <1>1, <1>2, <1>4, <1>10 DEF KeyOK, Quiet
  <2>2. ASSUME NEW v \in RunIds, RunFor(k, v)'
        PROVE  v = w
    BY <1>2, <1>3, <1>10, <2>2, StartedRun DEF Quiet, SagaInv
  <2>3. DataOK(k, w)'
    <3>1. OfCommand(k, w)' => OfCommand(k, w)
      BY <1>10 DEF Quiet, OfCommand
    <3>2. OfCommand(k, w) =>
            ("output" \in shape'[k].stores => Named(data[w])')
      BY <1>4, <1>7, <1>8 DEF Named
    <3>3. review'[k].phase = "decided"
      BY <1>6, <1>8
    <3>4. Recorded("complete", k)' => runs'[w].state = "done"
      BY <1>10, <1>4 DEF Quiet, DataOK
    <3> QED  BY <2>1, <3>1, <3>2, <3>3, <3>4 DEF DataOK
  <2> QED  BY <2>1, <2>2, <2>3 DEF KeyOK
<1>12. \A v \in RunIds : ~RunFor(k, v) => data'[v] = data[v]
  BY <1>2, <1>3, <1>8
<1> QED  BY <1>2, <1>4, <1>8, <1>9, <1>11, <1>12, DataStep

LEMMA CallStartedStep ==
  ASSUME SagaInv, RunTypeOK, NEW s \in Sessions, NEW r \in ReservationIds,
         NEW w \in RunIds, CallStarted(s, r, w)
  PROVE  SagaInv'
<1> DEFINE c == [call[s] EXCEPT !.stage = "started"]
<1>1. /\ call[s].stage = "starting" /\ tx[s].key = call[s].key
  BY DEF CallStarted, CommitStart, SagaInv, TxOfCall
<1>2. call[s] \in Call /\ call[s].key \in CommandKeys
  BY <1>1, CallOfStage DEF Stages, SagaInv
<1>3. PICK k \in CommandKeys : k = call[s].key
  BY <1>2
<1>4. PICK e : e = [op |-> "start", key |-> k, target |-> w]
  OBVIOUS
<1>5. /\ ~Recorded("start", k) /\ runs[w] = NoRow
      /\ audits' = audits \cup {e}
      /\ runs' = [runs EXCEPT ![w] = [state |-> "running", reservation |-> r]]
      /\ tx' = [tx EXCEPT ![s] = NoTx]
  BY <1>1, <1>3, <1>4 DEF CallStarted, CommitStart
<1>6. UNCHANGED <<shape, records, data, settled, review>>
  BY DEF CallStarted
<1>7. call' = [call EXCEPT ![s] = c]
  BY DEF CallStarted, SagaInv, SagaTypes
<1>8. c \in Call /\ c.stage = "started" /\ c.key = k
  BY <1>2, <1>3 DEF Call, Stages
<1> HIDE DEF c
<1>9. /\ tx'[s] = NoTx /\ call'[s] = c
      /\ \A t \in Sessions : t # s => tx'[t] = tx[t] /\ call'[t] = call[t]
  BY <1>5, <1>7 DEF SagaInv, SagaTypes, RunTypeOK
<1>10. /\ runs'[w].state = "running" /\ runs'[w] # NoRow
       /\ \A v \in RunIds : v # w => runs'[v] = runs[v]
  BY <1>5 DEF RunTypeOK, NoRow
<1>11. ASSUME NEW l, NEW v
       PROVE  RunFor(l, v)' <=> RunFor(l, v) \/ (l = k /\ v = w)
  BY <1>4, <1>5 DEF RunFor
<1>12. ASSUME NEW l
       PROVE  /\ Recorded("start", l)' <=> Recorded("start", l) \/ l = k
              /\ Recorded("complete", l)' <=> Recorded("complete", l)
  BY <1>4, <1>5 DEF Recorded
<1>13. k \in RunKeys /\ CommandKeys \subseteq RunKeys
  BY CommandAssumption
<1>14. /\ \A v : ~RunFor(k, v)
       /\ \A l \in RunKeys : ~RunFor(l, w)
  BY <1>5, RunForRecorded DEF SagaInv, StartsMatchRuns
<1>15. StartsMatchRuns'
  <2>1. ASSUME NEW l \in RunKeys, NEW v \in RunIds, RunFor(l, v)'
        PROVE  runs'[v] # NoRow
    BY <1>10, <1>11, <2>1 DEF SagaInv, StartsMatchRuns
  <2>2. ASSUME NEW l \in RunKeys, NEW m \in RunKeys, NEW u \in RunIds, NEW v \in RunIds,
               RunFor(l, u)', RunFor(m, v)'
        PROVE  l = m <=> u = v
    <3>1. RunFor(l, u) \/ (l = k /\ u = w)
      BY <1>11, <2>2
    <3>2. RunFor(m, v) \/ (m = k /\ v = w)
      BY <1>11, <2>2
    <3> QED  BY <1>13, <1>14, <3>1, <3>2 DEF SagaInv, StartsMatchRuns
  <2> QED  BY <2>1, <2>2 DEF StartsMatchRuns
<1>16. Onward
  <2>1. \A l \in RunKeys, v \in RunIds : RunFor(l, v) => RunFor(l, v)'
    BY <1>11
  <2>2. ASSUME NEW l \in RunKeys, Recorded("start", l)
        PROVE  /\ Recorded("start", l)'
               /\ \A v \in RunIds : RunFor(l, v)' => RunFor(l, v)
    BY <1>5, <1>11, <1>12, <2>2
  <2>3. ASSUME NEW l \in CommandKeys, NEW v \in RunIds, RunFor(l, v),
               OfCommand(l, v)'
        PROVE  OfCommand(l, v)
    <3>1. v # w
      BY <1>13, <1>14, <2>3
    <3> QED  BY <1>10, <1>12, <2>3, <3>1 DEF OfCommand
  <2> QED  BY <1>6, <2>1, <2>2, <2>3 DEF Onward
<1>17. SagaTypes'
  <2>1. call' \in [Sessions -> Call \cup {NoCall}]
    BY <1>7, <1>8 DEF SagaInv, SagaTypes
  <2> QED  BY <1>6, <2>1 DEF SagaInv, SagaTypes
<1>18. UnstartedFresh'
  BY <1>6, <1>10 DEF SagaInv, UnstartedFresh
<1>19. ASSUME NEW t \in Sessions
       PROVE  TxOfCall(t)' /\ (call'[t] # NoCall => CallOK(call[t])')
  <2>1. CASE t = s
    <3>1. TxOfCall(t)'
      BY <1>9, <2>1, IdleTx
    <3>2. call'[t].stage = "started" /\ call'[t].key = k
      BY <1>8, <1>9, <2>1
    <3>3. Recorded("start", k)'
      BY <1>12
    <3>4. CallOK(call[t])'
      BY <3>2, <3>3 DEF CallOK
    <3> QED  BY <3>1, <3>4
  <2>2. CASE t # s
    <3>1. TxOfCall(t)'
      BY <1>9, <1>16, <2>2, TxKept DEF SagaInv
    <3>2. ASSUME call'[t] # NoCall
          PROVE  CallOK(call[t])'
      <4>1. call'[t] \in Call /\ CallOK(call'[t])
        BY <1>9, <2>2, <3>2 DEF SagaInv, SagaTypes
      <4>2. \A x \in Call : CallOK(x) => CallOK(x)'
        BY <1>16, CallKept DEF SagaInv
      <4> QED  BY <4>1, <4>2
    <3> QED  BY <3>1, <3>2
  <2> QED  BY <2>1, <2>2
<1>20. ASSUME NEW l \in CommandKeys
       PROVE  KeyOK(l)'
  <2>1. KeyOK(l)
    BY DEF SagaInv
  <2>2. CASE l = k
    <3>1. k \notin records /\ ~Recorded("complete", k) /\ review[k].phase = "open"
      BY <1>5, <2>1, <2>2 DEF KeyOK
    <3>2. data[w] = FreshData
      BY <1>5 DEF SagaInv, UnstartedFresh
    <3>3. DataOK(k, w)'
      BY <1>6, <1>12, <3>1, <3>2, OutputFacts DEF DataOK
    <3>4. \A v \in RunIds : RunFor(k, v)' => v = w
      BY <1>11, <1>14
    <3>5. k \notin records' /\ ~Recorded("complete", k)' /\ review'[k].phase = "open"
      BY <1>6, <1>12, <3>1
    <3>6. KeyOK(k)'
      BY <3>3, <3>4, <3>5 DEF KeyOK
    <3> QED  BY <2>2, <3>6
  <2>3. CASE l # k
    <3>1. \A v \in RunIds : RunFor(l, v)' =>
            /\ RunFor(l, v) /\ data'[v] = data[v]
            /\ runs[v].state = "done" => runs'[v].state = "done"
      BY <1>6, <1>10, <1>11, <1>13, <1>14, <2>3
    <3>2. Recorded("complete", l)' <=> Recorded("complete", l)
      BY <1>12
    <3> QED  BY <1>6, <1>16, <2>1, <3>1, <3>2, KeyKept
  <2> QED  BY <2>2, <2>3
<1> QED  BY <1>15, <1>17, <1>18, <1>19, <1>20 DEF SagaInv

\* A completion commits for the run that its transaction has locked.
LEMMA SettlesOwnRun ==
  ASSUME RunInv, SagaInv, NEW s \in Sessions, CommitComplete(s)
  PROVE  /\ Completion(s) /\ tx[s] \in CompleteTx /\ TxOfCall(s)
         /\ tx[s].command.run \in RunIds /\ tx[s].command.state \in Outcomes
         /\ runs[tx[s].command.run].state = "running"
         /\ runs[tx[s].command.run] \in RunRow
<1>1. Completion(s)
  BY DEF CommitComplete, Completion
<1>2. tx[s] \in CompleteTx
  BY <1>1, RunTxKinds DEF RunInv, RunTypes
<1>3. tx[s].command.run \in RunIds /\ tx[s].command.state \in Outcomes
  BY <1>2 DEF CompleteTx, CompleteCommand
<1>4. runs[tx[s].command.run].state = "running"
  BY <1>1 DEF RunInv, RunIsLocked
<1>5. runs[tx[s].command.run] \in RunRow
  BY <1>3, <1>4, RunRowKinds DEF RunInv, RunTypes
<1> QED  BY <1>1, <1>2, <1>3, <1>4, <1>5 DEF SagaInv

LEMMA SettleCommitStep ==
  ASSUME RunInv, SagaInv, NEW s \in Sessions, SettleCommit(s)
  PROVE  SagaInv'
<1>0. RunTypeOK
  BY DEF RunInv, RunTypes
<1>1. /\ TxOfCall(s) /\ Completion(s) /\ tx[s].command.run \in RunIds
      /\ tx[s].command.state \in Outcomes
      /\ runs[tx[s].command.run].state = "running"
      /\ runs[tx[s].command.run] \in RunRow
  BY SettlesOwnRun DEF SettleCommit
<1>2. PICK w \in RunIds, key \in {tx[s].key},
           e \in {[op |-> "complete", key |-> tx[s].key, target |-> tx[s].command.run]} :
        /\ w = tx[s].command.run /\ key = tx[s].key
        /\ e = [op |-> "complete", key |-> key, target |-> w]
  BY <1>1
<1> DEFINE outcome == tx[s].command.state
           given == IF call[s] = NoCall THEN NoOutput ELSE call[s].output
           c == IF call[s] # NoCall /\ Persists(call[s].key, "running", call[s].created)
                THEN [call[s] EXCEPT !.stage = "persisting", !.usage = TRUE]
                ELSE NoCall
           charged == (tx[s].command.state = "done")
<1>3. /\ audits' = audits \cup {e}
      /\ runs' = [runs EXCEPT ![w].state = outcome]
      /\ tx' = [tx EXCEPT ![s] = NoTx]
  BY <1>2 DEF SettleCommit, CommitComplete
<1>4. /\ data' = [data EXCEPT ![w].output = given, ![w].charge = charged]
      /\ settled' = IF call[s] = NoCall THEN settled
                    ELSE [settled EXCEPT ![call[s].key] = given]
      /\ call' = [call EXCEPT ![s] = c]
      /\ UNCHANGED <<shape, records, review>>
  BY <1>2 DEF SettleCommit
\* Who completes the run: an operator by hand, or the command it belongs to.
<1>5. \/ call[s] = NoCall /\ key \notin CommandKeys
      \/ /\ call[s].stage = "settling" /\ key = call[s].key
         /\ RunFor(key, w) /\ outcome = "done"
  BY <1>1, <1>2 DEF TxOfCall
<1>6. call[s] # NoCall => /\ call[s] \in Call /\ CallOK(call[s])
                          /\ call[s].stage = "settling"
                          /\ key = call[s].key /\ key \in CommandKeys
                          /\ RunFor(key, w) /\ outcome = "done"
  BY <1>5, CallFacts DEF SagaInv, SagaTypes
<1>7. given \in Output
  BY <1>6, OutputFacts, CallFacts
<1>8. call[s] # NoCall => key \in records /\ given.named
  BY <1>6 DEF CallOK
<1>9. c \in Call \cup {NoCall} /\ (c # NoCall => CallOK(c))
  <2> DEFINE p == [call[s] EXCEPT !.stage = "persisting", !.usage = TRUE]
  <2>1. CASE c = NoCall
    BY <2>1
  <2>2. CASE c # NoCall
    <3>1. call[s] # NoCall /\ c = p
      BY <2>2
    <3>2. /\ p \in Call /\ p.stage = "persisting" /\ p.key = call[s].key
          /\ p.output = call[s].output
      BY <1>6, <3>1 DEF Call, Stages
    <3>3. CallOK(p)
      BY <1>6, <3>1, <3>2 DEF CallOK
    <3> QED  BY <3>1, <3>2, <3>3
  <2> QED  BY <2>1, <2>2
<1> DEFINE row == [data[w] EXCEPT !.output = given, !.charge = charged]
<1>10. /\ data'[w] = row /\ \A v \in RunIds : v # w => data'[v] = data[v]
       /\ data' \in [RunIds -> RunData]
       /\ row.output = given /\ row.pending = data[w].pending
  <2>1. data[w] \in RunData /\ data \in [RunIds -> RunData]
    BY DEF SagaInv, SagaTypes
  <2>2. \A o \in Output, p \in BOOLEAN :
          /\ [data[w] EXCEPT !.output = o, !.charge = p] \in RunData
          /\ [data[w] EXCEPT !.output = o, !.charge = p].output = o
          /\ [data[w] EXCEPT !.output = o, !.charge = p].pending = data[w].pending
    BY <2>1 DEF RunData
  <2>3. charged \in BOOLEAN
    OBVIOUS
  <2>4. data' = [data EXCEPT ![w] = row]
    BY <1>4, <2>1 DEF RunData
  <2> HIDE DEF charged, given
  <2>5. /\ row \in RunData /\ row.output = given /\ row.pending = data[w].pending
    BY <1>7, <2>2, <2>3
  <2> HIDE DEF row
  <2> QED  BY <2>1, <2>4, <2>5
<1>11. /\ tx'[s] = NoTx /\ call'[s] = c
       /\ \A t \in Sessions : t # s => tx'[t] = tx[t] /\ call'[t] = call[t]
       /\ call' \in [Sessions -> Call \cup {NoCall}]
  <2> HIDE DEF c
  <2> QED  BY <1>0, <1>3, <1>4, <1>9 DEF SagaInv, SagaTypes, RunTypeOK
<1>12. /\ settled' \in [CommandKeys -> Output]
       /\ call[s] # NoCall => settled'[key] = given
       /\ \A l \in CommandKeys : l # key => settled'[l] = settled[l]
  BY <1>4, <1>5, <1>6, <1>7 DEF SagaInv, SagaTypes
<1> HIDE DEF c, row, charged, given
<1>13. /\ runs'[w].state = outcome /\ runs'[w] # NoRow
       /\ \A v \in RunIds : v # w => runs'[v] = runs[v]
  BY <1>0, <1>1, <1>2, <1>3 DEF RunTypeOK, RunRow, NoRow, Outcomes
<1>14. ASSUME NEW l, NEW v
       PROVE  RunFor(l, v)' <=> RunFor(l, v)
  BY <1>2, <1>3 DEF RunFor
<1>15. ASSUME NEW l
       PROVE  /\ Recorded("start", l)' <=> Recorded("start", l)
              /\ Recorded("complete", l)' <=> Recorded("complete", l) \/ l = key
  BY <1>2, <1>3 DEF Recorded
<1>16. CommandKeys \subseteq RunKeys /\ runs[w] # NoRow
  BY <1>1, <1>2, CommandAssumption DEF RunRow, NoRow, Outcomes
<1>17. StartsMatchRuns' /\ UnstartedFresh'
  <2>1. StartsMatchRuns'
    <3>1. \A v \in RunIds : runs'[v] = NoRow => runs[v] = NoRow
      BY <1>13
    <3> QED  BY <1>14, <3>1 DEF SagaInv, StartsMatchRuns
  <2>2. UnstartedFresh'
    BY <1>10, <1>13 DEF SagaInv, UnstartedFresh
  <2> QED  BY <2>1, <2>2
\* The runs of other commands, and a run the operator settles.
<1>18. ASSUME NEW l \in CommandKeys, NEW v \in RunIds, RunFor(l, v),
              OfCommand(l, v)'
       PROVE  OfCommand(l, v) /\ (v = w => l = key)
  <2>1. CASE v = w
    <3>1. OfCommand(l, v)
      BY <1>1, <1>2, <2>1 DEF OfCommand
    <3>2. runs'[v].state # "running"
      BY <1>1, <1>13, <2>1 DEF Outcomes
    <3>3. Recorded("complete", l) \/ l = key
      BY <1>15, <1>18, <3>2 DEF OfCommand
    <3>4. Recorded("complete", l) => runs[v].state = "done"
      BY <1>18 DEF SagaInv, KeyOK, DataOK
    <3> QED  BY <1>1, <1>2, <2>1, <3>1, <3>3, <3>4
  <2>2. CASE v # w
    <3>1. l = key => RunFor(l, w)
      BY <1>5, <1>18
    <3>2. l # key
      BY <1>16, <1>18, <2>2, <3>1 DEF SagaInv, StartsMatchRuns
    <3> QED  BY <1>13, <1>15, <1>18, <2>2, <3>2 DEF OfCommand
  <2> QED  BY <2>1, <2>2
<1>19. Onward
  BY <1>4, <1>14, <1>15, <1>18 DEF Onward
<1>20. SagaTypes'
  BY <1>4, <1>10, <1>11, <1>12 DEF SagaInv, SagaTypes
<1>21. ASSUME NEW t \in Sessions
       PROVE  TxOfCall(t)' /\ (call'[t] # NoCall => CallOK(call[t])')
  <2>1. \A x \in Call : CallOK(x) => CallOK(x)'
    BY <1>19, CallKept DEF SagaInv
  <2>2. TxOfCall(t)'
    BY <1>0, <1>11, <1>19, IdleTx, TxKept DEF SagaInv
  <2>3. ASSUME call'[t] # NoCall
        PROVE  CallOK(call[t])'
    <3>1. call'[t] \in Call /\ CallOK(call'[t])
      BY <1>9, <1>11, <2>3 DEF SagaInv, SagaTypes
    <3> QED  BY <2>1, <3>1
  <2> QED  BY <2>2, <2>3
<1>22. ASSUME NEW l \in CommandKeys
       PROVE  KeyOK(l)'
  <2>0. KeyOK(l)
    BY DEF SagaInv
  <2>1. \/ call[s] # NoCall /\ l = key
        \/ l # key
    BY <1>5, CallFacts
  <2>2. l \in records' => Recorded("start", l)'
    BY <1>4, <1>15, <2>0 DEF KeyOK
  <2>3. review'[l].phase # "open" => l \in records'
    BY <1>4, <2>0 DEF KeyOK
  <2>4. Recorded("complete", l)' => l \in records' /\ settled'[l].named
    BY <1>4, <1>8, <1>12, <1>15, <2>0, <2>1 DEF KeyOK
  <2>5. ASSUME NEW v \in RunIds, RunFor(l, v)'
        PROVE  DataOK(l, v)'
    <3>1. RunFor(l, v) /\ DataOK(l, v)
      BY <1>14, <2>0, <2>5 DEF KeyOK
    <3>2. l \notin records' => data'[v].output = NoOutput /\ ~data'[v].pending
      <4>1. CASE v # w
        BY <1>4, <1>10, <3>1, <4>1 DEF DataOK
      <4>2. CASE v = w
        <5>1. l \notin records' => call[s] = NoCall
          BY <1>4, <1>6, <1>8, <1>16, <3>1, <4>2 DEF SagaInv, StartsMatchRuns
        <5>2. call[s] = NoCall => given = NoOutput
          BY DEF given
        <5> QED  BY <1>4, <1>10, <3>1, <4>2, <5>1, <5>2 DEF DataOK
      <4> QED  BY <4>1, <4>2
    <3>3. Recorded("complete", l)' => runs'[v].state = "done"
      <4>1. CASE l = key
        <5>1. RunFor(key, w) /\ outcome = "done"
          BY <1>6, <2>1, <4>1
        <5>2. v = w
          BY <1>16, <3>1, <4>1, <5>1 DEF SagaInv, StartsMatchRuns
        <5> QED  BY <1>13, <5>1, <5>2
      <4>2. CASE l # key
        <5>1. Recorded("complete", l)' => runs[v].state = "done"
          BY <1>15, <3>1, <4>2 DEF DataOK
        <5> QED  BY <1>1, <1>2, <1>13, <5>1
      <4> QED  BY <4>1, <4>2
    <3>4. ASSUME l \in records', OfCommand(l, v)'
          PROVE  /\ "output" \in shape'[l].stores => Named(data[v])'
                 /\ review'[l].phase # "decided" => Tells(l, data[v])'
                 /\ review'[l].phase = "deciding" => Tells(l, review[l].read)'
      <4>1. OfCommand(l, v) /\ (v = w => l = key)
        BY <1>18, <3>1, <3>4
      <4>2. l \in records
        BY <1>4, <3>4
      <4>3. /\ "output" \in shape[l].stores => Named(data[v])
            /\ review[l].phase # "decided" => Tells(l, data[v])
            /\ review[l].phase = "deciding" => Tells(l, review[l].read)
        BY <3>1, <4>1, <4>2 DEF DataOK
      <4>4. CASE v # w
        BY <1>4, <1>10, <4>3, <4>4 DEF Tells, Named
      <4>5. CASE v = w
        <5>1. Named(data[v])'
          BY <1>8, <1>10, <2>1, <4>1, <4>5 DEF Named
        <5>2. review[l].phase = "deciding" => Tells(l, review[l].read)'
          BY <1>4, <4>3 DEF Tells, Named
        <5> QED  BY <1>4, <5>1, <5>2 DEF Tells, Named
      <4> QED  BY <4>4, <4>5
    <3> QED  BY <3>2, <3>3, <3>4 DEF DataOK
  <2> QED  BY <2>2, <2>3, <2>4, <2>5 DEF KeyOK
<1> QED  BY <1>17, <1>20, <1>21, <1>22 DEF SagaInv

LEMMA SagaStep ==
  ASSUME CommandInv, [CommandNext]_commandVars
  PROVE  SagaInv'
<1>0. RunInv /\ SagaInv /\ RunTypeOK
  BY DEF CommandInv, RunInv, RunTypes
<1>1. CASE UNCHANGED commandVars
  <2>1. UNCHANGED <<runVars, shape, records, data, settled, review, call>>
    BY <1>1 DEF commandVars
  <2>2. UNCHANGED <<tx, audits, runs>>
    BY <2>1 DEF runVars, vars
  <2>3. Quiet
    BY <2>2, SameRunVars
  <2>4. call' \in [Sessions -> Call \cup {NoCall}]
    BY <1>0, <2>1 DEF SagaInv, SagaTypes
  <2> QED  BY <1>0, <2>1, <2>2, <2>3, <2>4, QuietStep
<1>2. CASE CommandNext
  BY <1>0, <1>2, BesideStep, CallStartStep, CallCountStep, CallStartedStep,
     RetryStep, ReadRunStep, WriteRecordsStep, SettleBeginStep, SettleLockStep,
     SettleCommitStep, SettleReplayStep, ReadBackStep, WriteBackStep,
     ReadDecisionStep, WriteDecisionStep, StopStep, ByHandStep
  DEF CommandNext
<1> QED  BY <1>1, <1>2

-----------------------------------------------------------------------------
(* The commands implement WorkerRuns: whatever they do with the runs and    *)
(* the budget is what worker.run.start, worker.run.complete and the budget  *)
(* commands do.                                                             *)

LEMMA StartOfType == \A k : StartOf(k) \in StartCommand
<1>1. /\ (CHOOSE a \in WorkerAccounts : TRUE) \in WorkerAccounts
      /\ (CHOOSE u \in UnitSizes : TRUE) \in UnitSizes
  BY CommandAssumption
<1> QED  BY <1>1 DEF StartOf, StartCommand

LEMMA StepRefines ==
  ASSUME CommandInv, [CommandNext]_commandVars
  PROVE  [RunNext]_runVars
<1>0. RunInv /\ SagaInv /\ RunTypeOK
  BY DEF CommandInv, RunInv, RunTypes
<1>1. CASE UNCHANGED commandVars
  BY <1>1 DEF commandVars
<1>2. ASSUME Beside
      PROVE  RunNext
  BY <1>2 DEF Beside, RunNext
<1>3. ASSUME NEW s \in Sessions, NEW k \in CommandKeys, CallStart(s, k)
      PROVE  RunNext
  <2>1. k \in RunKeys /\ StartOf(k) \in StartCommand
    BY CommandAssumption, StartOfType
  <2> QED  BY <1>3, <2>1 DEF CallStart, RunNext
<1>4. ASSUME NEW s \in Sessions, CallCount(s)
      PROVE  RunNext
  BY <1>4 DEF CallCount, RunNext
<1>5. ASSUME NEW s \in Sessions, NEW r \in ReservationIds, NEW w \in RunIds,
             CallStarted(s, r, w)
      PROVE  RunNext
  BY <1>5 DEF CallStarted, RunNext
<1>6. ASSUME NEW s \in Sessions, SettleBegin(s)
      PROVE  RunNext
  <2>1. /\ call[s].key \in RunKeys /\ DoneCommand(call[s].key) \in CompleteCommand
        /\ BeginComplete(s, call[s].key, DoneCommand(call[s].key))
    BY <1>0, <1>6, SettleBeginStep DEF SettleBegin
  <2> QED  BY <2>1 DEF RunNext
<1>7. ASSUME NEW s \in Sessions, SettleLock(s)
      PROVE  RunNext
  BY <1>7 DEF SettleLock, RunNext
<1>8. ASSUME NEW s \in Sessions, SettleCommit(s)
      PROVE  RunNext
  BY <1>8 DEF SettleCommit, RunNext
<1>9. ASSUME NEW s \in Sessions, Stop(s)
      PROVE  RunNext \/ UNCHANGED runVars
  BY <1>9 DEF Stop, RunNext, Next
<1>10. ASSUME NEW s \in Sessions, ByHand(s)
       PROVE  RunNext
  BY <1>10 DEF ByHand, RunNext
<1>11. ASSUME NEW s \in Sessions,
              \/ \E k \in CommandKeys : Retry(s, k)
              \/ ReadRun(s) \/ WriteRecords(s) \/ SettleReplay(s)
              \/ ReadBack(s) \/ WriteBack(s)
       PROVE  UNCHANGED runVars
  BY <1>11 DEF Retry, ReadRun, WriteRecords, SettleReplay, ReadBack, WriteBack
<1>12. ASSUME NEW k \in CommandKeys, ReadDecision(k) \/ WriteDecision(k)
       PROVE  UNCHANGED runVars
  BY <1>12 DEF ReadDecision, WriteDecision
<1> QED
  BY <1>1, <1>2, <1>3, <1>4, <1>5, <1>6, <1>7, <1>8, <1>9, <1>10, <1>11, <1>12
  DEF CommandNext

LEMMA CommandInitial == CommandInit => CommandInv
<1> SUFFICES ASSUME CommandInit PROVE CommandInv
  OBVIOUS
<1>1. RunInit
  BY DEF CommandInit
<1>2. RunInv
  BY <1>1, RunInitial
<1>3. audits = {} /\ runs = [w \in RunIds |-> NoRow]
      /\ tx = [s \in Sessions |-> NoTx]
  BY <1>1 DEF RunInit, Init
<1>4. /\ \A op, k : ~Recorded(op, k)
      /\ \A k, w : ~RunFor(k, w)
  BY <1>3 DEF Recorded, RunFor
<1>5. SagaTypes
  <2>1. [phase |-> "open", read |-> FreshData] \in Review
    BY OutputFacts DEF Review
  <2> QED  BY <2>1, OutputFacts DEF CommandInit, SagaTypes
<1>6. \A s \in Sessions : tx[s].phase = "idle" /\ call[s] = NoCall
  BY <1>3 DEF CommandInit, NoTx
<1>7. \A s \in Sessions : TxOfCall(s)
  BY <1>6 DEF TxOfCall, Completion
<1>8. ASSUME NEW k \in CommandKeys
      PROVE  KeyOK(k)
  BY <1>4 DEF CommandInit, KeyOK
<1> QED
  BY <1>2, <1>4, <1>5, <1>6, <1>7, <1>8
  DEF CommandInit, CommandInv, SagaInv, StartsMatchRuns, UnstartedFresh

LEMMA CommandStep ==
  ASSUME CommandInv, [CommandNext]_commandVars
  PROVE  CommandInv'
<1>1. RunInv'
  BY StepRefines, RunNextStep DEF CommandInv
<1> QED  BY <1>1, SagaStep DEF CommandInv

\* The invariant above holds in every reachable state: how far each call has
\* come, what its transaction is, and how the records, the data of the run, the
\* reads that calls and reviewers hold and the events of a key agree.
THEOREM CommandInvariant == CommandSpec => []CommandInv
BY CommandInitial, CommandStep, PTL DEF CommandSpec

\* The worker commands implement WorkerRuns: however calls, retries, crashes,
\* reviewers and operators interleave, the runs, the holds, the usage and the
\* events change as worker.run.start, worker.run.complete and the budget
\* commands change them, or not at all. What is proved of those holds of the
\* commands too.
THEOREM CommandsImplementRuns == CommandSpec => RunSpec
<1>1. CommandInit => RunInit
  BY DEF CommandInit
<1> QED
  BY <1>1, StepRefines, CommandInvariant, PTL DEF CommandSpec, RunSpec

\* So the commands cannot part a run from its budget, reopen a run that is
\* settled, nor push an account that is not a worker's past its limit.
THEOREM CommandsKeepRunLaws ==
  CommandSpec => /\ []RunSettlesWithBudget
                 /\ OutcomeIsFinal
                 /\ []SharedAccountsWithinLimit
BY CommandsImplementRuns, RunsSettleWithBudget, RunOutcomeIsFinal,
   SharedAccountsNeverOverbooked

\* Every value the commands keep has the type its table or its saga declares,
\* and every kind of command is one of the shapes.
THEOREM CommandTypesCorrect == CommandSpec => []CommandTypeOK
<1>1. CommandInv => CommandTypeOK
  BY CommandsAreShapes
  DEF CommandInv, RunInv, RunTypes, SagaInv, SagaTypes, CommandTypeOK
<1> QED  BY <1>1, CommandInvariant, PTL

\* A charge under a command's key pays for committed records, and what the
\* completion recorded names them: the saga settles only after its second step,
\* and a retry completes only what it found.
THEOREM ChargesAreForRecords == CommandSpec => []ChargedCommandsDelivered
<1>1. ASSUME CommandInv, NEW k \in CommandKeys, Recorded("complete", k)
      PROVE  /\ k \in records /\ settled[k].named
             /\ reservations[runs[RunOf(k)].reservation].state = "used"
  <2>1. k \in records /\ settled[k].named
    BY <1>1 DEF CommandInv, SagaInv, KeyOK
  <2>2. RunOf(k) \in RunIds /\ DataOK(k, RunOf(k))
    BY <1>1, <2>1, RunOfKey DEF CommandInv, RunInv, RunTypes
  <2>3. runs[RunOf(k)].state = "done"
    BY <1>1, <2>2 DEF DataOK
  <2>4. runs[RunOf(k)] # NoRow
    BY <2>3 DEF NoRow
  <2>5. reservations[runs[RunOf(k)].reservation].state = "used"
    BY <1>1, <2>2, <2>3, <2>4 DEF CommandInv, RunInv, RunSettlesWithBudget
  <2> QED  BY <2>1, <2>5
<1>2. CommandInv => ChargedCommandsDelivered
  BY <1>1 DEF ChargedCommandsDelivered
<1> QED  BY <1>2, CommandInvariant, PTL

-----------------------------------------------------------------------------
\* What a step does to the data of a run that names the records of its command.
LEMMA StaysNamed ==
  ASSUME CommandInv, [CommandNext]_commandVars, NEW k \in records,
         OutputData(data[RunOf(k)]).named,
         runs'[RunOf(k)].state = "running" \/ Recorded("complete", k)'
  PROVE  \/ OutputData(data'[RunOf(k)]).named
         \/ review'[k] # review[k] /\ review[k].read.output = NoOutput
<1> DEFINE Hides == review'[k] # review[k] /\ review[k].read.output = NoOutput
<1>0. RunInv /\ SagaInv /\ RunTypeOK /\ k \in CommandKeys
  BY DEF CommandInv, RunInv, RunTypes, SagaInv, SagaTypes
<1>1. /\ KeyOK(k) /\ Recorded("start", k) /\ RunOf(k) \in RunIds
      /\ RunFor(k, RunOf(k)) /\ DataOK(k, RunOf(k)) /\ review[k] \in Review
  BY <1>0, RunOfKey
<1>2. PICK w \in RunIds : w = RunOf(k)
  BY <1>1
<1>3. data'[w] \in RunData
  BY SagaStep DEF SagaInv, SagaTypes
<1>4. data'[w].output.named => OutputData(data'[w]).named
  BY <1>3, OutputFacts
<1>5. ASSUME data'[w] = data[w]
      PROVE  OutputData(data'[w]).named
  BY <1>2, <1>5
<1>6. ASSUME NEW s \in Sessions, WriteRecords(s)
      PROVE  data'[w] = data[w]
  <2>1. call[s].stage = "writing" /\ call[s].key \notin records
        /\ data' = [data EXCEPT ![RunOf(call[s].key)] = data'[RunOf(call[s].key)]]
    BY <1>0, <1>6 DEF WriteRecords, SagaInv, SagaTypes
  <2>2. RunFor(call[s].key, RunOf(call[s].key)) /\ call[s].key \in CommandKeys
    BY <1>0, <2>1, RunOfCall DEF Stages
  <2>3. RunOf(call[s].key) # w
    BY <1>0, <1>1, <1>2, <2>1, <2>2, StartedRun DEF SagaInv
  <2> QED  BY <1>0, <2>1, <2>3 DEF SagaInv, SagaTypes
<1>7. ASSUME NEW s \in Sessions, SettleCommit(s)
      PROVE  data'[w] = data[w] \/ data'[w].output.named
  <2> DEFINE v == tx[s].command.run
             given == IF call[s] = NoCall THEN NoOutput ELSE call[s].output
  <2>1. /\ TxOfCall(s) /\ Completion(s) /\ v \in RunIds
        /\ tx[s].command.state \in Outcomes /\ runs[v].state = "running"
    BY <1>0, <1>7, SettlesOwnRun DEF SettleCommit
  <2>2. /\ data' = [data EXCEPT ![v].output = given,
                                ![v].charge = (tx[s].command.state = "done")]
        /\ runs' = [runs EXCEPT ![v].state = tx[s].command.state]
        /\ audits' = audits \cup {[op |-> "complete", key |-> tx[s].key, target |-> v]}
    BY <1>7 DEF SettleCommit, CommitComplete
  <2>3. CASE v # w
    BY <1>0, <2>2, <2>3 DEF SagaInv, SagaTypes
  <2>4. CASE v = w /\ call[s] # NoCall
    <3>1. call[s].stage = "settling" /\ CallOK(call[s])
      BY <1>0, <2>1, <2>4 DEF TxOfCall, SagaInv
    <3>2. call[s].output.named
      BY <3>1 DEF CallOK
    <3>3. data[v] \in RunData
      BY <1>0, <2>1 DEF SagaInv, SagaTypes
    <3>4. data'[v].output = given
      BY <1>0, <2>1, <2>2, <3>3 DEF SagaInv, SagaTypes, RunData
    <3> QED  BY <2>4, <3>2, <3>4
  <2>5. CASE v = w /\ call[s] = NoCall
    <3>1. tx[s].key # k
      BY <1>0, <2>1, <2>5, CallFacts DEF TxOfCall
    <3>2. Recorded("complete", k)' => Recorded("complete", k)
      BY <2>2, <3>1 DEF Recorded
    <3>3. ~Recorded("complete", k)
      BY <1>1, <1>2, <2>1, <2>5 DEF DataOK
    <3>4. runs'[v].state = tx[s].command.state
      BY <1>0, <2>1, <2>2, RunRowKinds DEF RunTypeOK, RunRow
    <3> QED  BY <1>2, <2>1, <2>5, <3>2, <3>3, <3>4 DEF Outcomes
  <2> QED  BY <2>3, <2>4, <2>5
<1>8. ASSUME NEW s \in Sessions, WriteBack(s)
      PROVE  data'[w] = data[w] \/ data'[w].output.named
  <2> DEFINE c == call[s]
             v == RunOf(c.key)
             out == [c.output EXCEPT !.usage = (@ \/ c.usage)
                                       /\ shape[c.key].persists # "created"]
  <2>1. c.stage = "writing back"
    BY <1>8 DEF WriteBack
  <2>2. /\ c \in Call /\ c # NoCall /\ CallOK(c) /\ c.key \in CommandKeys
        /\ v \in RunIds /\ RunFor(c.key, v)
    BY <1>0, <2>1, RunOfCall DEF Stages
  <2>3. data' = [data EXCEPT ![v] = [c.read EXCEPT !.output = out]]
        /\ UNCHANGED runVars
    BY <1>8 DEF WriteBack
  <2>4. CASE v # w
    BY <1>0, <2>3, <2>4 DEF SagaInv, SagaTypes
  <2>5. CASE v = w
    <3>1. c.key = k
      BY <1>0, <1>1, <1>2, <2>2, <2>5, StartedRun DEF SagaInv
    <3>2. OfCommand(k, w)
      BY <1>2, <2>3 DEF OfCommand, runVars, vars, Recorded
    <3>3. c.output.named
      BY <2>1, <2>2, <2>5, <3>1, <3>2 DEF CallOK
    <3>4. out.named
      BY <2>2, <3>3 DEF Call, Output
    <3>5. data'[w].output = out
      BY <1>0, <2>2, <2>3, <2>5 DEF SagaInv, SagaTypes, Call, RunData
    <3> QED  BY <3>4, <3>5
  <2> QED  BY <2>4, <2>5
<1>9. ASSUME NEW l \in CommandKeys, WriteDecision(l)
      PROVE  data'[w] = data[w] \/ data'[w].output.named \/ Hides
  <2> DEFINE v == RunOf(l)
             d == review[l].read
  <2>1. /\ review[l].phase = "deciding" /\ l \in records
        /\ data' = [data EXCEPT ![v] = [review[l].read EXCEPT !.output.decided = TRUE]]
        /\ review' = [review EXCEPT ![l] = [phase |-> "decided", read |-> FreshData]]
        /\ UNCHANGED runVars
    BY <1>0, <1>9 DEF WriteDecision, SagaInv, KeyOK
  <2>2. v \in RunIds /\ RunFor(l, v) /\ review[l] \in Review /\ DataOK(l, v)
    BY <1>0, <2>1, RunOfKey
  <2>3. CASE v # w
    BY <1>0, <2>1, <2>3 DEF SagaInv, SagaTypes
  <2>4. CASE v = w
    <3>1. l = k
      BY <1>0, <1>1, <1>2, <2>2, <2>4, StartedRun DEF SagaInv
    <3>2. OfCommand(k, w)
      BY <1>2, <2>1 DEF OfCommand, runVars, vars, Recorded
    <3>3. Tells(k, d)
      BY <2>1, <2>2, <2>4, <3>1, <3>2 DEF DataOK
    <3>4. d \in RunData /\ d.output \in Output
      BY <2>2 DEF Review, RunData
    <3>5. review'[k].phase = "decided"
      BY <1>0, <2>1, <3>1 DEF SagaInv, SagaTypes
    <3>6. CASE d.output = NoOutput
      BY <2>1, <3>1, <3>5, <3>6
    <3>7. CASE d.output # NoOutput
      <4>1. d.output.named
        BY <3>3, <3>7 DEF Tells, Named
      <4>2. [d EXCEPT !.output.decided = TRUE].output.named
        BY <3>4, <4>1 DEF RunData, Output
      <4>3. data'[w] = [d EXCEPT !.output.decided = TRUE]
        BY <1>0, <2>1, <2>4 DEF SagaInv, SagaTypes
      <4> QED  BY <4>2, <4>3
    <3> QED  BY <3>6, <3>7
  <2> QED  BY <2>3, <2>4
<1>10. \/ data' = data
       \/ \E s \in Sessions : WriteRecords(s) \/ SettleCommit(s) \/ WriteBack(s)
       \/ \E l \in CommandKeys : WriteDecision(l)
  BY DEF CommandNext, commandVars, sagaVars, Beside, CallStart, CallCount,
         CallStarted, Retry, ReadRun, SettleBegin, SettleLock, SettleReplay,
         ReadBack, ReadDecision, Stop, ByHand
<1> HIDE DEF Hides
<1>11. OutputData(data'[w]).named \/ Hides
  BY <1>4, <1>5, <1>6, <1>7, <1>8, <1>9, <1>10
<1> QED  BY <1>2, <1>11 DEF Hides

\* A run whose data names the records of its command goes on naming them, so
\* that a retry finds them and never writes them twice: whatever settlement,
\* write back or decision, from a read however old, is merged into it. Only a
\* decision that read a pending output and no output yet hides them.
THEOREM RecordsAreNeverLost == CommandSpec => RecordsStayNamed
<1> DEFINE Stay ==
      \A k \in records :
        LET w == RunOf(k)
            ofCommand == \/ runs'[w].state = "running"
                         \/ \E e \in audits' : e.op = "complete" /\ e.key = k
            hides == /\ review'[k] # review[k]
                     /\ review[k].read.output = NoOutput
        IN  OutputData(data[w]).named /\ ofCommand =>
              OutputData(data'[w]).named \/ hides
<1>1. CommandInv /\ [CommandNext]_commandVars => [Stay]_commandVars
  BY StaysNamed DEF Recorded
<1>2. CommandSpec => [][Stay]_commandVars
  BY <1>1, CommandInvariant, PTL DEF CommandSpec
<1> QED
  BY <1>2 DEF RecordsStayNamed
=============================================================================
