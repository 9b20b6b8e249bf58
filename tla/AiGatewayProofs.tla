-------------------------- MODULE AiGatewayProofs ---------------------------
(***************************************************************************)
(* Proofs about AiGateway, for any number of callers, keys, reservations   *)
(* and inferences. A call is a process without a lock of its own; what it  *)
(* may rely on is written down as CallInv. From it follows that every step *)
(* of the gateway is a step of the budget ledger or leaves it alone, so    *)
(* that what is proved of the ledger holds under the gateway, and that the *)
(* charges of a key's attempts end up in one inference.                    *)
(***************************************************************************)
EXTENDS AiGateway, BudgetLedgerProofs

-----------------------------------------------------------------------------
(* The inductive invariant.                                                *)

\* The stages past a step of the call.
Reserved  == {"inserting", "charging", "updating", "publishing", "auditing",
              "proving"}
Inserted  == Reserved \ {"inserting"}
Settled   == Inserted \ {"charging"}
Written   == Settled \ {"updating"}
Published == Written \ {"publishing"}

\* Key q of ai.infer made the hold r.
Hold(q, r) ==
  \E e \in audits : /\ e.op = "reserve"
                    /\ e.key = ReserveKey[q]
                    /\ e.target = r

\* An open ledger transaction of a call belongs to the stage the call is in;
\* nobody else uses the ledger keys of the gateway.
TxOk(s) ==
  /\ s \in Callers /\ tx[s].phase \in {"locked", "counting", "inserting"} =>
       At(s, "reserving") /\ tx[s].key = ReserveKey[calls[s].key]
  /\ s \in Callers /\ tx[s].phase = "settling" =>
       /\ At(s, "charging")
       /\ tx[s].key = ChargeKey[calls[s].key]
       /\ tx[s].reservation = calls[s].reservation
  /\ s \notin Callers /\ tx[s] # NoTx => tx[s].key \in DirectKeys
TxInv == \A s \in Sessions : TxOk(s)

\* What a call has done so far is there.
CallOk(g) ==
  /\ calls[g].stage \in Reserved =>
       /\ calls[g].reservation \in ReservationIds
       /\ Hold(calls[g].key, calls[g].reservation)
  /\ calls[g].stage \in Inserted =>
       /\ calls[g].inference \in InferenceIds
       /\ inferences[calls[g].inference] # NoRow
       /\ inferences[calls[g].inference].key = calls[g].key
       /\ inferences[calls[g].inference].reservation = calls[g].reservation
  /\ calls[g].stage \in Settled => inferences[calls[g].inference].charged
  /\ calls[g].stage \in Written => inferences[calls[g].inference].result
  /\ calls[g].stage \in Published => calls[g].key \in aiEvents
CallInv == \A g \in Callers : CallOk(g)

\* Every inference stands on the hold of its key.
HoldInv ==
  \A i \in InferenceIds : inferences[i] # NoRow =>
    Hold(inferences[i].key, inferences[i].reservation)

\* Every usage row has the audit event of its charge.
UsageAudited ==
  \A u \in usage : \E e \in audits :
    e.op = "charge" /\ e.key = u.key /\ e.target = u.reservation

\* The charged inferences are the charges under the keys of the gateway.
ChargeInv ==
  /\ \A q \in AiKeys, u \in usage : u.key = ChargeKey[q] =>
       \E i \in Charged(q) : inferences[i].reservation = u.reservation
  /\ \A q \in AiKeys : \A i \in Charged(q) :
       \E u \in usage : /\ u.key = ChargeKey[q]
                        /\ u.reservation = inferences[i].reservation
  /\ \A q \in AiKeys : \A i, j \in Charged(q) : i = j

\* Types, and what a step needs to be the ledger's.
GatewayInv == RowInv /\ AiTypeOK /\ TxInv /\ CallInv

-----------------------------------------------------------------------------
(* The gateway's steps are the ledger's.                                   *)

\* A call that is about something names a key and keeps the fields of a call.
LEMMA CallKinds ==
  ASSUME AiTypeOK, NEW g \in Callers, calls[g] # NoCall
  PROVE  /\ calls[g] \in Call
         /\ calls[g].key \in AiKeys
         /\ calls[g].stage \in Stages
  BY DEF AiTypeOK, Call

LEMMA StageKinds ==
  ASSUME AiTypeOK, NEW g \in Callers, calls[g].stage \in Stages
  PROVE  calls[g] # NoCall /\ calls[g] \in Call /\ calls[g].key \in AiKeys
  BY DEF AiTypeOK, Call, NoCall, Stages

\* The reserve a call sends is a command of the ledger.
LEMMA ReserveOfType ==
  \A q \in AiKeys : ReserveOf(q) \in ReserveCommand
  BY GatewayAssumption DEF ReserveOf, ReserveCommand

\* A step of a client beside the gateway is a step of the ledger.
LEMMA DirectIsLedger == DirectStep => Next
<1>1. DirectKeys \subseteq Keys
  BY DEF DirectKeys
<1>. QED
  BY <1>1 DEF DirectStep, Next

\* Whatever the gateway does, the ledger makes one of its own steps or none.
LEMMA StepIsLedgers == GatewayInv /\ [AiNext]_aiVars => [Next]_vars
<1> SUFFICES ASSUME GatewayInv, [AiNext]_aiVars PROVE [Next]_vars
  OBVIOUS
<1>. USE DEF GatewayInv
<1>1. CASE DirectStep
  BY <1>1, DirectIsLedger
<1>2. ASSUME NEW g \in Callers, StartReserve(g) PROVE Next
  <2>1. calls[g].key \in AiKeys
    BY <1>2, StageKinds DEF StartReserve, At, Stages
  <2>2. g \in Sessions /\ ReserveKey[calls[g].key] \in Keys
    BY <2>1, GatewayAssumption
  <2>3. ReserveOf(calls[g].key) \in ReserveCommand
    BY <2>1, ReserveOfType
  <2>. QED
    BY <1>2, <2>2, <2>3 DEF StartReserve, Next
<1>3. ASSUME NEW g \in Callers, NEW r \in ReservationIds, FinishReserve(g, r)
      PROVE  Next
  BY <1>3, GatewayAssumption DEF FinishReserve, Next
<1>4. ASSUME NEW g \in Callers, StartCharge(g) PROVE Next
  <2>1. calls[g].key \in AiKeys
    BY <1>4, StageKinds DEF StartCharge, At, Stages
  <2>2. g \in Sessions /\ ChargeKey[calls[g].key] \in Keys
    BY <2>1, GatewayAssumption
  <2>3. ChargeOf(g) \in ChargeCommand
    BY <1>4 DEF StartCharge, At, CallInv, CallOk, Reserved, ChargeOf, ChargeCommand
  <2>. QED
    BY <1>4, <2>2, <2>3 DEF StartCharge, Next
<1>5. ASSUME NEW g \in Callers, FinishCharge(g) PROVE Next
  BY <1>5, GatewayAssumption DEF FinishCharge, Next
<1>6. ASSUME NEW g \in Callers, Abandon(g) PROVE Next \/ UNCHANGED vars
  <2>1. g \in Sessions
    BY GatewayAssumption
  <2>2. CASE tx[g] = NoTx
    <3>1. tx' = tx
      BY <1>6, <2>1, <2>2 DEF Abandon, AiTypeOK, TypeOK
    <3>. QED
      BY <1>6, <3>1 DEF Abandon, vars
  <2>3. CASE tx[g] # NoTx
    <3>1. Rollback(g)
      BY <1>6, <2>3 DEF Abandon, Rollback
    <3>. QED
      BY <2>1, <3>1 DEF Next
  <2>. QED
    BY <2>2, <2>3
<1>. QED
  BY <1>1, <1>2, <1>3, <1>4, <1>5, <1>6
     DEF AiNext, aiVars, vars, BeginInfer, ReplayReserve, InsertInference,
         UpdateResult, PublishEvent, AuditInference, InsertEvidence

\* Audit events and usage rows are only ever added.
LEMMA LedgerGrows ==
  [Next]_vars => audits \subseteq audits' /\ usage \subseteq usage'
  BY DEF Next, vars, BeginReserve, CountUsed, CountHeld, CommitReserve,
         BeginCharge, CommitCharge, Release, Rollback, Tick

-----------------------------------------------------------------------------
(* The invariant is inductive.                                             *)

\* What no step of the gateway takes back from an inference row.
Kept(i) ==
  inferences[i] # NoRow =>
    /\ inferences'[i] # NoRow
    /\ inferences'[i].key = inferences[i].key
    /\ inferences'[i].reservation = inferences[i].reservation
    /\ inferences[i].charged => inferences'[i].charged
    /\ inferences[i].result => inferences'[i].result

\* A row that is there is a full row.
LEMMA InferenceKinds ==
  ASSUME AiTypeOK, NEW i \in InferenceIds, inferences[i] # NoRow
  PROVE  inferences[i] \in InferenceRow
  BY DEF AiTypeOK

\* Setting one of the flags of a row keeps its other fields.
LEMMA FlagSet ==
  ASSUME AiTypeOK, NEW i \in InferenceIds, inferences[i] # NoRow,
         \/ inferences' = [inferences EXCEPT ![i].charged = TRUE]
         \/ inferences' = [inferences EXCEPT ![i].result = TRUE]
         \/ inferences' = [inferences EXCEPT ![i].proved = TRUE]
  PROVE  /\ inferences' \in [InferenceIds -> InferenceRow \cup {NoRow}]
         /\ \A j \in InferenceIds \ {i} : inferences'[j] = inferences[j]
         /\ \A j \in InferenceIds : Kept(j)
<1>1. inferences[i] \in InferenceRow
  BY InferenceKinds
<1>2. \A j \in InferenceIds \ {i} : inferences'[j] = inferences[j]
  BY DEF AiTypeOK
<1>3. /\ inferences'[i] \in InferenceRow
      /\ inferences'[i].key = inferences[i].key
      /\ inferences'[i].reservation = inferences[i].reservation
      /\ inferences[i].charged => inferences'[i].charged
      /\ inferences[i].result => inferences'[i].result
  <2>1. CASE inferences' = [inferences EXCEPT ![i].charged = TRUE]
    <3>1. inferences'[i] = [inferences[i] EXCEPT !.charged = TRUE]
      BY <2>1 DEF AiTypeOK
    <3>. QED
      BY <1>1, <3>1 DEF InferenceRow
  <2>2. CASE inferences' = [inferences EXCEPT ![i].result = TRUE]
    <3>1. inferences'[i] = [inferences[i] EXCEPT !.result = TRUE]
      BY <2>2 DEF AiTypeOK
    <3>. QED
      BY <1>1, <3>1 DEF InferenceRow
  <2>3. CASE inferences' = [inferences EXCEPT ![i].proved = TRUE]
    <3>1. inferences'[i] = [inferences[i] EXCEPT !.proved = TRUE]
      BY <2>3 DEF AiTypeOK
    <3>. QED
      BY <1>1, <3>1 DEF InferenceRow
  <2>. QED
    BY <2>1, <2>2, <2>3
<1>4. inferences' \in [InferenceIds -> InferenceRow \cup {NoRow}]
  BY <1>2, <1>3 DEF AiTypeOK
<1>6. inferences'[i] # NoRow
  BY <1>3 DEF InferenceRow, NoRow
<1>7. \A j \in InferenceIds : Kept(j)
  BY <1>2, <1>3, <1>6 DEF Kept
<1>. QED
  BY <1>2, <1>4, <1>7

\* The row of a call that has inserted it.
LEMMA OwnRow ==
  ASSUME GatewayInv, NEW g \in Callers, calls[g].stage \in Inserted
  PROVE  /\ calls[g].inference \in InferenceIds
         /\ inferences[calls[g].inference] # NoRow
         /\ inferences[calls[g].inference].key = calls[g].key
         /\ inferences[calls[g].inference].reservation = calls[g].reservation
  BY DEF GatewayInv, CallInv, CallOk

\* A charge that commits is the call's own, between insert and update.
LEMMA Charging ==
  ASSUME GatewayInv, NEW g \in Callers, CommitCharge(g)
  PROVE  /\ At(g, "charging")
         /\ calls[g].stage \in Inserted /\ calls[g].stage \in Stages
         /\ tx[g].key = ChargeKey[calls[g].key]
         /\ tx[g].reservation = calls[g].reservation
  BY GatewayAssumption
     DEF GatewayInv, TxInv, TxOk, CommitCharge, At, Inserted, Reserved, Stages

\* A reserve that commits is the call's own, and its first step.
LEMMA Reserving ==
  ASSUME GatewayInv, NEW g \in Callers, NEW r \in ReservationIds,
         CommitReserve(g, r)
  PROVE  /\ At(g, "reserving")
         /\ tx[g].key = ReserveKey[calls[g].key]
  BY GatewayAssumption DEF GatewayInv, TxInv, TxOk, CommitReserve

\* No step takes anything back from an inference row.
LEMMA InferencesKept ==
  GatewayInv /\ [AiNext]_aiVars => \A i \in InferenceIds : Kept(i)
<1> SUFFICES ASSUME GatewayInv, [AiNext]_aiVars
             PROVE  \A i \in InferenceIds : Kept(i)
  OBVIOUS
<1>1. ASSUME NEW g \in Callers, NEW i \in InferenceIds, InsertInference(g, i)
      PROVE  \A j \in InferenceIds : Kept(j)
  BY <1>1 DEF InsertInference, Kept, GatewayInv, AiTypeOK
<1>2. ASSUME NEW g \in Callers, FinishCharge(g)
      PROVE  \A i \in InferenceIds : Kept(i)
  BY <1>2, Charging, OwnRow, FlagSet DEF FinishCharge, GatewayInv
<1>3. ASSUME NEW g \in Callers, UpdateResult(g)
      PROVE  \A i \in InferenceIds : Kept(i)
  BY <1>3, OwnRow, FlagSet DEF UpdateResult, GatewayInv, At, Inserted, Reserved
<1>4. ASSUME NEW g \in Callers, InsertEvidence(g)
      PROVE  \A i \in InferenceIds : Kept(i)
  BY <1>4, OwnRow, FlagSet DEF InsertEvidence, GatewayInv, At, Inserted, Reserved
<1>5. ASSUME UNCHANGED inferences PROVE \A i \in InferenceIds : Kept(i)
  BY <1>5 DEF Kept
<1>. QED
  BY <1>1, <1>2, <1>3, <1>4, <1>5
     DEF AiNext, aiVars, BeginInfer, StartReserve, ReplayReserve, FinishReserve,
         StartCharge, PublishEvent, AuditInference, Abandon

\* What the ledger has recorded stays recorded.
LEMMA RecordsStay ==
  GatewayInv /\ [AiNext]_aiVars => audits \subseteq audits' /\ usage \subseteq usage'
  BY StepIsLedgers, LedgerGrows

\* Events are only ever added.
LEMMA EventsGrow == [AiNext]_aiVars => aiEvents \subseteq aiEvents'
  BY DEF AiNext, aiVars, BeginInfer, StartReserve, ReplayReserve, FinishReserve,
         InsertInference, StartCharge, FinishCharge, UpdateResult, PublishEvent,
         AuditInference, InsertEvidence, Abandon

\* A call keeps what it relies on while others step.
LEMMA CallFrame ==
  ASSUME GatewayInv, [AiNext]_aiVars, NEW g \in Callers, calls'[g] = calls[g]
  PROVE  CallOk(g)'
<1>1. CallOk(g)
  BY DEF GatewayInv, CallInv
<1>2. audits \subseteq audits'
  BY RecordsStay
<1>3. calls[g].stage \in Inserted =>
        calls[g].inference \in InferenceIds /\ Kept(calls[g].inference)
  BY <1>1, InferencesKept DEF CallOk
<1>4. aiEvents \subseteq aiEvents'
  BY EventsGrow
<1>5. Settled \subseteq Inserted /\ Written \subseteq Inserted
  BY DEF Settled, Written
<1>6. calls[g].stage \in Reserved =>
        /\ calls'[g].reservation \in ReservationIds
        /\ \E e \in audits' : /\ e.op = "reserve"
                             /\ e.key = ReserveKey[calls'[g].key]
                             /\ e.target = calls'[g].reservation
  BY <1>1, <1>2 DEF CallOk, Hold
<1>7. calls[g].stage \in Inserted =>
        /\ calls'[g].inference \in InferenceIds
        /\ inferences'[calls'[g].inference] # NoRow
        /\ inferences'[calls'[g].inference].key = calls'[g].key
        /\ inferences'[calls'[g].inference].reservation = calls'[g].reservation
        /\ calls[g].stage \in Settled => inferences'[calls'[g].inference].charged
        /\ calls[g].stage \in Written => inferences'[calls'[g].inference].result
  BY <1>1, <1>3 DEF CallOk, Kept
<1>. QED
  BY <1>1, <1>4, <1>5, <1>6, <1>7 DEF CallOk, Hold

\* So does the transaction of a session.
LEMMA TxFrame ==
  ASSUME TxInv, NEW s \in Sessions, tx'[s] = tx[s],
         s \in Callers => calls'[s] = calls[s]
  PROVE  TxOk(s)'
  BY DEF TxInv, TxOk, At

\* A step of the call of g need only look after g.
LEMMA CallerStep ==
  ASSUME GatewayInv, [AiNext]_aiVars, NEW g \in Callers, AiTypeOK',
         \A s \in Sessions \ {g} : tx'[s] = tx[s],
         \A h \in Callers \ {g} : calls'[h] = calls[h],
         TxOk(g)', CallOk(g)'
  PROVE  GatewayInv'
<1>1. RowInv'
  BY StepIsLedgers, RowStep DEF GatewayInv
<1>2. TxInv'
  <2>1. ASSUME NEW s \in Sessions PROVE TxOk(s)'
    <3>1. CASE s = g
      BY <3>1
    <3>2. CASE s # g
      BY <3>2, TxFrame DEF GatewayInv
    <3>. QED
      BY <3>1, <3>2
  <2>. QED
    BY <2>1 DEF TxInv
<1>3. CallInv'
  <2>1. ASSUME NEW h \in Callers PROVE CallOk(h)'
    <3>1. CASE h = g
      BY <3>1
    <3>2. CASE h # g
      BY <3>2, CallFrame
    <3>. QED
      BY <3>1, <3>2
  <2>. QED
    BY <2>1 DEF CallInv
<1>. QED
  BY <1>1, <1>2, <1>3 DEF GatewayInv

\* MoveTo changes the stage alone.
LEMMA MoveToIs ==
  ASSUME AiTypeOK, NEW g \in Callers, calls[g] # NoCall, NEW stage \in Stages,
         MoveTo(g, stage)
  PROVE  /\ calls' \in [Callers -> Call \cup {NoCall}]
         /\ \A h \in Callers \ {g} : calls'[h] = calls[h]
         /\ calls'[g].stage = stage
         /\ calls'[g].key = calls[g].key
         /\ calls'[g].reservation = calls[g].reservation
         /\ calls'[g].inference = calls[g].inference
<1>1. calls[g] \in Call
  BY CallKinds
<1>2. calls'[g] = [calls[g] EXCEPT !.stage = stage]
  BY DEF MoveTo, AiTypeOK
<1>3. calls'[g] \in Call
  BY <1>1, <1>2 DEF Call
<1>. QED
  BY <1>1, <1>2, <1>3 DEF MoveTo, AiTypeOK, Call

\* A transaction of a session that has none open is no obligation.
LEMMA IdleTx ==
  ASSUME NEW s \in Sessions, tx'[s] = NoTx
  PROVE  TxOk(s)'
  BY DEF TxOk, NoTx

\* In the stages that do not use the ledger the session has no transaction.
LEMMA NoOpenTx ==
  ASSUME GatewayInv, NEW g \in Callers, ~At(g, "reserving"), ~At(g, "charging")
  PROVE  tx[g] = NoTx
<1>1. tx[g].phase \notin {"locked", "counting", "inserting", "settling"}
  BY GatewayAssumption DEF GatewayInv, TxInv, TxOk
<1>. QED
  BY <1>1, GatewayAssumption
     DEF GatewayInv, AiTypeOK, TypeOK, ReserveTx, ChargeTx, NoTx

\* A step of a client beside the calls, or in the middle of a reserve.
LEMMA DirectKeeps ==
  ASSUME GatewayInv, DirectStep,
         UNCHANGED <<inferences, aiEvents, aiAudits, calls>>
  PROVE  GatewayInv'
<1>1. [AiNext]_aiVars
  BY DEF AiNext
<1>2. RowInv'
  BY <1>1, StepIsLedgers, RowStep DEF GatewayInv
<1>3. AiTypeOK'
  BY <1>2 DEF RowInv, AiTypeOK, GatewayInv
<1>4. CallInv'
  BY <1>1, CallFrame DEF CallInv
<1>. USE DEF GatewayInv
<1>5. ASSUME NEW s \in Sessions \ Callers, NEW k \in DirectKeys, NEW c,
             BeginReserve(s, k, c) \/ BeginCharge(s, k, c)
      PROVE  TxInv'
  BY <1>5 DEF BeginReserve, BeginCharge, TxInv, TxOk, AiTypeOK, TypeOK, At
<1>6. ASSUME NEW s \in Sessions \ Callers, tx' = [tx EXCEPT ![s] = NoTx]
      PROVE  TxInv'
  BY <1>6 DEF TxInv, TxOk, AiTypeOK, TypeOK, At, NoTx
<1>7. ASSUME NEW s \in Sessions, CountUsed(s) \/ CountHeld(s) PROVE TxInv'
  <2>1. tx[s] \in ReserveTx
    BY <1>7, TxKinds DEF CountUsed, CountHeld, AiTypeOK
  <2>2. /\ tx'[s].phase \in {"counting", "inserting"}
        /\ tx'[s].key = tx[s].key
        /\ tx[s].phase \in {"locked", "counting"}
    BY <1>7, <2>1 DEF CountUsed, CountHeld, AiTypeOK, TypeOK, ReserveTx
  <2>3. \A t \in Sessions \ {s} : tx'[t] = tx[t]
    BY <1>7 DEF CountUsed, CountHeld, AiTypeOK, TypeOK
  <2>4. tx[s] # NoTx
    BY <2>2 DEF NoTx
  <2>5. TxOk(s)'
    BY <2>2, <2>4 DEF TxInv, TxOk, At
  <2>6. ASSUME NEW t \in Sessions PROVE TxOk(t)'
    BY <2>3, <2>5, TxFrame
  <2>. QED
    BY <2>6 DEF TxInv
<1>8. ASSUME UNCHANGED tx PROVE TxInv'
  BY <1>8 DEF TxInv, TxOk, At
<1>9. TxInv'
  BY <1>5, <1>6, <1>7, <1>8
     DEF DirectStep, CommitReserve, CommitCharge, Rollback, Release, Tick
<1>. QED
  BY <1>2, <1>3, <1>4, <1>9

\* The ledger's part of a step needs no more work.
LEMMA LedgerTypes ==
  GatewayInv /\ [AiNext]_aiVars => RowInv' /\ TypeOK'
<1>1. GatewayInv /\ [AiNext]_aiVars => RowInv'
  BY StepIsLedgers, RowStep DEF GatewayInv
<1>2. RowInv' => TypeOK'
  BY DEF RowInv
<1>. QED
  BY <1>1, <1>2

\* The invariant holds at first and every step preserves it.
LEMMA GatewayInit == AiInit => GatewayInv
<1> SUFFICES ASSUME AiInit PROVE GatewayInv
  OBVIOUS
<1>1. TypeOK
  BY InitType DEF AiInit
<1>2. RowInv
  BY <1>1 DEF AiInit, Init, RowInv, SettlingHeld, NoTx
<1>3. AiTypeOK
  BY <1>1 DEF AiInit, AiTypeOK
<1>4. TxInv
  BY DEF AiInit, Init, TxInv, TxOk, NoTx
<1>5. CallInv
  BY DEF AiInit, CallInv, CallOk, NoCall, Reserved, Inserted, Settled, Written,
         Published
<1>. QED
  BY <1>2, <1>3, <1>4, <1>5 DEF GatewayInv

LEMMA GatewayStep == GatewayInv /\ [AiNext]_aiVars => GatewayInv'
<1> SUFFICES ASSUME GatewayInv, [AiNext]_aiVars PROVE GatewayInv'
  OBVIOUS
<1>. USE DEF GatewayInv
<1>a. TypeOK' /\ audits \subseteq audits'
  BY LedgerTypes, RecordsStay
<1>b. Callers \subseteq Sessions
  BY GatewayAssumption
<1>1. CASE DirectStep /\ UNCHANGED <<inferences, aiEvents, aiAudits, calls>>
  BY <1>1, DirectKeeps
<1>2. ASSUME NEW g \in Callers, NEW q \in AiKeys, BeginInfer(g, q)
      PROVE  GatewayInv'
  <2> DEFINE call == [stage |-> "reserving", key |-> q, reservation |-> NoId,
                      inference |-> NoId]
  <2>1. call \in Call
    BY DEF Call, Stages
  <2>2. /\ calls'[g] = call
        /\ \A h \in Callers \ {g} : calls'[h] = calls[h]
        /\ calls' \in [Callers -> Call \cup {NoCall}]
    BY <1>2, <2>1 DEF BeginInfer, AiTypeOK
  <2>3. AiTypeOK'
    BY <1>2, <1>a, <2>2 DEF BeginInfer, AiTypeOK
  <2>4. tx[g] = NoTx /\ tx' = tx
    BY <1>2, NoOpenTx DEF BeginInfer, At, NoCall, vars
  <2>5. CallOk(g)'
    BY <2>2 DEF CallOk, Reserved, Inserted, Settled, Written, Published
  <2>6. TxOk(g)'
    BY <1>b, <2>4, IdleTx
  <2>. QED
    BY <2>2, <2>3, <2>4, <2>5, <2>6, CallerStep
<1>3. ASSUME NEW g \in Callers, StartReserve(g) PROVE GatewayInv'
  <2>1. AiTypeOK'
    BY <1>3, <1>a DEF StartReserve, AiTypeOK
  <2>2. /\ tx'[g].key = ReserveKey[calls[g].key]
        /\ tx'[g].phase = "locked"
        /\ \A s \in Sessions \ {g} : tx'[s] = tx[s]
        /\ calls' = calls
    BY <1>3, <1>b DEF StartReserve, BeginReserve, AiTypeOK, TypeOK
  <2>3. TxOk(g)'
    BY <1>3, <2>2 DEF TxOk, At, StartReserve
  <2>4. CallOk(g)'
    BY <2>2, CallFrame
  <2>. QED
    BY <2>1, <2>2, <2>3, <2>4, CallerStep
<1>4. ASSUME NEW g \in Callers, NEW r \in ReservationIds,
             At(g, "reserving"), tx'[g] = NoTx,
             \A s \in Sessions \ {g} : tx'[s] = tx[s],
             calls' = [calls EXCEPT ![g].stage = "inserting",
                                    ![g].reservation = r],
             \E e \in audits' : /\ e.op = "reserve"
                                /\ e.key = ReserveKey[calls[g].key]
                                /\ e.target = r,
             UNCHANGED <<inferences, aiEvents, aiAudits>>
      PROVE  GatewayInv'
  <2>1. calls[g] \in Call
    BY <1>4, StageKinds DEF At, Stages
  <2>2. calls'[g] = [calls[g] EXCEPT !.stage = "inserting", !.reservation = r]
    BY <1>4 DEF AiTypeOK
  <2>3. /\ calls'[g] \in Call
        /\ calls'[g].stage = "inserting"
        /\ calls'[g].reservation = r
        /\ calls'[g].key = calls[g].key
    BY <2>1, <2>2 DEF Call, Stages
  <2>4. \A h \in Callers \ {g} : calls'[h] = calls[h]
    BY <1>4 DEF AiTypeOK
  <2>5. calls' \in [Callers -> Call \cup {NoCall}]
    BY <1>4, <2>3, <2>4 DEF AiTypeOK
  <2>6. AiTypeOK'
    BY <1>4, <1>a, <2>5 DEF AiTypeOK
  <2>7. CallOk(g)'
    BY <1>4, <2>3 DEF CallOk, Hold, Inserted, Settled, Written, Published
  <2>8. TxOk(g)'
    BY <1>4, <1>b, IdleTx
  <2>. QED
    BY <1>4, <2>4, <2>6, <2>7, <2>8, CallerStep
<1>5. ASSUME NEW g \in Callers, ReplayReserve(g) PROVE GatewayInv'
  <2>1. PICK e \in audits :
          /\ e.op = "reserve"
          /\ e.key = ReserveKey[calls[g].key]
          /\ calls' = [calls EXCEPT ![g].stage = "inserting",
                                    ![g].reservation = e.target]
    BY <1>5 DEF ReplayReserve
  <2>2. e.target \in ReservationIds
    BY DEF AiTypeOK, TypeOK, AuditRow
  <2>3. /\ At(g, "reserving")
        /\ tx'[g] = NoTx
        /\ \A s \in Sessions \ {g} : tx'[s] = tx[s]
        /\ UNCHANGED <<inferences, aiEvents, aiAudits>>
    BY <1>5 DEF ReplayReserve, vars
  <2>. QED
    BY <1>4, <1>a, <2>1, <2>2, <2>3
<1>6. ASSUME NEW g \in Callers, NEW r \in ReservationIds, FinishReserve(g, r)
      PROVE  GatewayInv'
  <2>1. At(g, "reserving") /\ tx[g].key = ReserveKey[calls[g].key]
    BY <1>6, Reserving DEF FinishReserve
  <2>2. [op |-> "reserve", key |-> tx[g].key, target |-> r] \in audits'
    BY <1>6 DEF FinishReserve, CommitReserve
  <2>3. tx'[g] = NoTx /\ \A s \in Sessions \ {g} : tx'[s] = tx[s]
    BY <1>6, <1>b DEF FinishReserve, CommitReserve, AiTypeOK, TypeOK
  <2>4. \E e \in audits' : /\ e.op = "reserve"
                           /\ e.key = ReserveKey[calls[g].key]
                           /\ e.target = r
    BY <2>1, <2>2
  <2>. QED
    BY <1>4, <1>6, <2>1, <2>3, <2>4 DEF FinishReserve
<1>7. ASSUME NEW g \in Callers, NEW i \in InferenceIds, InsertInference(g, i)
      PROVE  GatewayInv'
  <2>1. calls[g] \in Call /\ calls[g].key \in AiKeys
    BY <1>7, StageKinds DEF InsertInference, At, Stages
  <2>2. /\ calls[g].reservation \in ReservationIds
        /\ Hold(calls[g].key, calls[g].reservation)
    BY <1>7 DEF InsertInference, At, CallInv, CallOk, Reserved
  <2> DEFINE row == [key |-> calls[g].key, reservation |-> calls[g].reservation,
                     charged |-> FALSE, result |-> FALSE, proved |-> FALSE]
  <2>3. row \in InferenceRow /\ inferences'[i] = row
    BY <1>7, <2>1, <2>2 DEF InsertInference, InferenceRow, AiTypeOK
  <2>4. inferences' \in [InferenceIds -> InferenceRow \cup {NoRow}]
    BY <1>7, <2>3 DEF InsertInference, AiTypeOK
  <2>5. calls'[g] = [calls[g] EXCEPT !.stage = "charging", !.inference = i]
    BY <1>7 DEF InsertInference, AiTypeOK
  <2>6. /\ calls'[g] \in Call
        /\ calls'[g].stage = "charging"
        /\ calls'[g].inference = i
        /\ calls'[g].reservation = calls[g].reservation
        /\ calls'[g].key = calls[g].key
    BY <2>1, <2>5 DEF Call, Stages
  <2>7. \A h \in Callers \ {g} : calls'[h] = calls[h]
    BY <1>7 DEF InsertInference, AiTypeOK
  <2>8. calls' \in [Callers -> Call \cup {NoCall}]
    BY <1>7, <2>6, <2>7 DEF InsertInference, AiTypeOK
  <2>9. AiTypeOK'
    BY <1>7, <1>a, <2>4, <2>8 DEF InsertInference, AiTypeOK
  <2>10. row # NoRow
    BY <2>3 DEF InferenceRow, NoRow
  <2>11. CallOk(g)'
    <3>1. calls'[g].stage \notin Settled /\ Written \subseteq Settled
            /\ Published \subseteq Settled
      BY <2>6 DEF Settled, Written, Published
    <3>2. inferences'[i].key = calls[g].key
            /\ inferences'[i].reservation = calls[g].reservation
      BY <2>3
    <3>. QED
      BY <1>a, <2>2, <2>3, <2>6, <2>10, <3>1, <3>2 DEF CallOk, Hold
  <2>12. tx[g] = NoTx /\ tx' = tx
    BY <1>7, NoOpenTx DEF InsertInference, At, vars
  <2>13. TxOk(g)'
    BY <1>b, <2>12, IdleTx
  <2>. QED
    BY <2>7, <2>9, <2>11, <2>12, <2>13, CallerStep
<1>8. ASSUME NEW g \in Callers, StartCharge(g) PROVE GatewayInv'
  <2>1. AiTypeOK'
    BY <1>8, <1>a DEF StartCharge, AiTypeOK
  <2>2. /\ tx'[g].key = ChargeKey[calls[g].key]
        /\ tx'[g].phase = "settling"
        /\ tx'[g].reservation = calls[g].reservation
        /\ \A s \in Sessions \ {g} : tx'[s] = tx[s]
        /\ calls' = calls
    BY <1>8, <1>b DEF StartCharge, BeginCharge, ChargeOf, AiTypeOK, TypeOK
  <2>3. TxOk(g)'
    BY <1>8, <2>2 DEF TxOk, At, StartCharge
  <2>4. CallOk(g)'
    BY <2>2, CallFrame
  <2>. QED
    BY <2>1, <2>2, <2>3, <2>4, CallerStep
<1>9. ASSUME NEW g \in Callers, FinishCharge(g) PROVE GatewayInv'
  <2> DEFINE i == calls[g].inference
  <2>1. At(g, "charging") /\ calls[g].stage \in Inserted
    BY <1>9, Charging DEF FinishCharge
  <2>2. i \in InferenceIds /\ inferences[i] # NoRow
    BY <2>1, OwnRow
  <2>3. /\ inferences' \in [InferenceIds -> InferenceRow \cup {NoRow}]
        /\ Kept(i)
    BY <1>9, <2>2, FlagSet DEF FinishCharge
  <2>4. inferences'[i].charged
    BY <1>9, <2>2, InferenceKinds DEF FinishCharge, AiTypeOK, InferenceRow
  <2>5. calls[g] # NoCall
    BY <2>1, StageKinds DEF At, Stages
  <2>6. /\ calls' \in [Callers -> Call \cup {NoCall}]
        /\ \A h \in Callers \ {g} : calls'[h] = calls[h]
        /\ calls'[g].stage = "updating"
        /\ calls'[g].key = calls[g].key
        /\ calls'[g].reservation = calls[g].reservation
        /\ calls'[g].inference = i
    BY <1>9, <2>5, MoveToIs DEF FinishCharge, Stages
  <2>7. AiTypeOK'
    BY <1>9, <1>a, <2>3, <2>6 DEF FinishCharge, AiTypeOK
  <2>8. CallOk(g)'
    <3>1. CallOk(g) /\ calls[g].stage \in Reserved
      BY <2>1 DEF CallInv, Inserted
    <3>2. calls'[g].stage \notin Written /\ calls'[g].stage \notin Published
      BY <2>6 DEF Written, Published
    <3>. QED
      BY <1>a, <2>1, <2>3, <2>4, <2>6, <3>1, <3>2 DEF CallOk, Hold, Kept
  <2>9. tx'[g] = NoTx /\ \A s \in Sessions \ {g} : tx'[s] = tx[s]
    BY <1>9, <1>b DEF FinishCharge, CommitCharge, AiTypeOK, TypeOK
  <2>10. TxOk(g)'
    BY <1>b, <2>9, IdleTx
  <2>. QED
    BY <2>6, <2>7, <2>8, <2>9, <2>10, CallerStep
<1>10. ASSUME NEW g \in Callers, UpdateResult(g) PROVE GatewayInv'
  <2> DEFINE i == calls[g].inference
  <2>1. At(g, "updating") /\ calls[g].stage \in Settled
          /\ calls[g].stage \in Inserted /\ calls[g].stage \in Reserved
    BY <1>10 DEF UpdateResult, At, Settled, Inserted, Reserved
  <2>2. i \in InferenceIds /\ inferences[i] # NoRow
    BY <2>1, OwnRow
  <2>3. /\ inferences' \in [InferenceIds -> InferenceRow \cup {NoRow}]
        /\ Kept(i)
    BY <1>10, <2>2, FlagSet DEF UpdateResult
  <2>4. inferences'[i].result
    BY <1>10, <2>2, InferenceKinds DEF UpdateResult, AiTypeOK, InferenceRow
  <2>5. calls[g] # NoCall
    BY <2>1, StageKinds DEF At, Stages
  <2>6. /\ calls' \in [Callers -> Call \cup {NoCall}]
        /\ \A h \in Callers \ {g} : calls'[h] = calls[h]
        /\ calls'[g].stage = "publishing"
        /\ calls'[g].key = calls[g].key
        /\ calls'[g].reservation = calls[g].reservation
        /\ calls'[g].inference = i
    BY <1>10, <2>5, MoveToIs DEF UpdateResult, Stages
  <2>7. AiTypeOK'
    BY <1>10, <1>a, <2>3, <2>6 DEF UpdateResult, AiTypeOK
  <2>8. CallOk(g)'
    <3>1. CallOk(g)
      BY DEF CallInv
    <3>2. calls'[g].stage \notin Published
      BY <2>6 DEF Published
    <3>. QED
      BY <1>a, <2>1, <2>3, <2>4, <2>6, <3>1, <3>2 DEF CallOk, Hold, Kept
  <2>9. tx[g] = NoTx /\ tx' = tx
    BY <1>10, NoOpenTx DEF UpdateResult, At, vars
  <2>10. TxOk(g)'
    BY <1>b, <2>9, IdleTx
  <2>. QED
    BY <2>6, <2>7, <2>8, <2>9, <2>10, CallerStep
<1>11. ASSUME NEW g \in Callers, PublishEvent(g) PROVE GatewayInv'
  <2>1. At(g, "publishing") /\ calls[g].stage \in Written
          /\ calls[g].stage \in Settled
          /\ calls[g].stage \in Inserted /\ calls[g].stage \in Reserved
    BY <1>11 DEF PublishEvent, At, Written, Settled, Inserted, Reserved
  <2>2. calls[g] # NoCall /\ calls[g].key \in AiKeys
    BY <2>1, StageKinds DEF At, Stages
  <2>3. /\ calls' \in [Callers -> Call \cup {NoCall}]
        /\ \A h \in Callers \ {g} : calls'[h] = calls[h]
        /\ calls'[g].stage = "auditing"
        /\ calls'[g].key = calls[g].key
        /\ calls'[g].reservation = calls[g].reservation
        /\ calls'[g].inference = calls[g].inference
    BY <1>11, <2>2, MoveToIs DEF PublishEvent, Stages
  <2>4. AiTypeOK'
    BY <1>11, <1>a, <2>2, <2>3 DEF PublishEvent, AiTypeOK
  <2>5. CallOk(g)'
    <3>1. CallOk(g)
      BY DEF CallInv
    <3>2. inferences' = inferences /\ calls[g].key \in aiEvents'
      BY <1>11 DEF PublishEvent
    <3>. QED
      BY <1>a, <2>1, <2>3, <3>1, <3>2 DEF CallOk, Hold
  <2>6. tx[g] = NoTx /\ tx' = tx
    BY <1>11, NoOpenTx DEF PublishEvent, At, vars
  <2>7. TxOk(g)'
    BY <1>b, <2>6, IdleTx
  <2>. QED
    BY <2>3, <2>4, <2>5, <2>6, <2>7, CallerStep
<1>12. ASSUME NEW g \in Callers, AuditInference(g) PROVE GatewayInv'
  <2>1. At(g, "auditing") /\ calls[g].stage \in Published
          /\ calls[g].stage \in Written /\ calls[g].stage \in Settled
          /\ calls[g].stage \in Inserted /\ calls[g].stage \in Reserved
    BY <1>12
       DEF AuditInference, At, Published, Written, Settled, Inserted, Reserved
  <2>2. calls[g] # NoCall /\ calls[g].key \in AiKeys
    BY <2>1, StageKinds DEF At, Stages
  <2>3. /\ calls' \in [Callers -> Call \cup {NoCall}]
        /\ \A h \in Callers \ {g} : calls'[h] = calls[h]
        /\ calls'[g].stage = "proving"
        /\ calls'[g].key = calls[g].key
        /\ calls'[g].reservation = calls[g].reservation
        /\ calls'[g].inference = calls[g].inference
    BY <1>12, <2>2, MoveToIs DEF AuditInference, Stages
  <2>4. [key |-> calls[g].key, inference |-> calls[g].inference]
          \in [key : AiKeys, inference : InferenceIds]
    BY <2>1, <2>2, OwnRow
  <2>5. AiTypeOK'
    BY <1>12, <1>a, <2>3, <2>4 DEF AuditInference, AiTypeOK
  <2>6. CallOk(g)'
    <3>1. CallOk(g)
      BY DEF CallInv
    <3>2. inferences' = inferences /\ aiEvents' = aiEvents
      BY <1>12 DEF AuditInference
    <3>. QED
      BY <1>a, <2>1, <2>3, <3>1, <3>2 DEF CallOk, Hold
  <2>7. tx[g] = NoTx /\ tx' = tx
    BY <1>12, NoOpenTx DEF AuditInference, At, vars
  <2>8. TxOk(g)'
    BY <1>b, <2>7, IdleTx
  <2>. QED
    BY <2>3, <2>5, <2>6, <2>7, <2>8, CallerStep
<1>13. ASSUME NEW g \in Callers, calls' = [calls EXCEPT ![g] = NoCall],
              AiTypeOK', tx'[g] = NoTx,
              \A s \in Sessions \ {g} : tx'[s] = tx[s]
       PROVE  GatewayInv'
  <2>1. calls'[g] = NoCall /\ \A h \in Callers \ {g} : calls'[h] = calls[h]
    BY <1>13 DEF AiTypeOK
  <2>2. CallOk(g)'
    BY <2>1 DEF CallOk, NoCall, Reserved, Inserted, Settled, Written, Published
  <2>3. TxOk(g)'
    BY <1>13, <1>b, IdleTx
  <2>. QED
    BY <1>13, <2>1, <2>2, <2>3, CallerStep
<1>14. ASSUME NEW g \in Callers, InsertEvidence(g) PROVE GatewayInv'
  <2> DEFINE i == calls[g].inference
  <2>1. At(g, "proving") /\ calls[g].stage \in Inserted
    BY <1>14 DEF InsertEvidence, At, Inserted, Reserved
  <2>2. i \in InferenceIds /\ inferences[i] # NoRow
    BY <2>1, OwnRow
  <2>3. inferences' \in [InferenceIds -> InferenceRow \cup {NoRow}]
    BY <1>14, <2>2, FlagSet DEF InsertEvidence
  <2>4. AiTypeOK'
    BY <1>14, <1>a, <2>3 DEF InsertEvidence, AiTypeOK
  <2>5. tx[g] = NoTx /\ tx' = tx
    BY <1>14, NoOpenTx DEF InsertEvidence, At, vars
  <2>. QED
    BY <1>13, <1>14, <2>4, <2>5 DEF InsertEvidence
<1>15. ASSUME NEW g \in Callers, Abandon(g) PROVE GatewayInv'
  <2>1. AiTypeOK'
    BY <1>15, <1>a DEF Abandon, AiTypeOK
  <2>2. tx'[g] = NoTx /\ \A s \in Sessions \ {g} : tx'[s] = tx[s]
    BY <1>15, <1>b DEF Abandon, AiTypeOK, TypeOK
  <2>. QED
    BY <1>13, <1>15, <2>1, <2>2 DEF Abandon
<1>16. CASE UNCHANGED aiVars
  <2>1. AiTypeOK'
    BY <1>16, <1>a DEF aiVars, AiTypeOK
  <2>2. TxInv'
    BY <1>16 DEF aiVars, vars, TxInv, TxOk, At
  <2>3. CallInv'
    BY <1>16, CallFrame DEF aiVars, CallInv
  <2>. QED
    BY <2>1, <2>2, <2>3, LedgerTypes
<1>. QED
  BY <1>1, <1>2, <1>3, <1>5, <1>6, <1>7, <1>8, <1>9, <1>10, <1>11, <1>12,
     <1>14, <1>15, <1>16 DEF AiNext

LEMMA GatewayCorrect == AiSpec => []GatewayInv
  BY GatewayInit, GatewayStep, PTL DEF AiSpec

-----------------------------------------------------------------------------
(* Theorems.                                                               *)

\* Every row ai.infer writes has its type, and the ledger under it too.
THEOREM GatewayTypes == AiSpec => []AiTypeOK
<1>1. GatewayInv => AiTypeOK
  BY DEF GatewayInv
<1>. QED
  BY <1>1, GatewayCorrect, PTL

\* The gateway uses the budget ledger only through its commands: every
\* behavior of the gateway is, seen at the ledger's tables, one of the ledger.
THEOREM GatewayKeepsLedger == AiSpec => LedgerIsKept
<1>1. AiInit => Init
  BY DEF AiInit
<1>. QED
  BY <1>1, GatewayCorrect, StepIsLedgers, PTL DEF AiSpec, Spec, LedgerIsKept

\* So the promises of the ledger hold however ai.infer is retried, cut short
\* and raced: no hold is charged twice, and no account spends past its limit.
THEOREM GatewayKeepsBudgets ==
  AiSpec => [](ChargedOnce /\ OneEffectPerKey /\ CommittedWithinLimit)
<1>1. AiSpec => Spec
  BY GatewayKeepsLedger DEF LedgerIsKept
<1>. QED
  BY <1>1, NoDoubleCharge, KeysHaveOneEffect, NeverOverbooked, PTL

-----------------------------------------------------------------------------
(* A charged inference stays charged.                                      *)

\* An inference that becomes charged is the committing call's, and its hold is
\* still held.
LEMMA BecomesCharged ==
  ASSUME GatewayInv, [AiNext]_aiVars, NEW i \in InferenceIds,
         inferences[i] # NoRow, ~inferences[i].charged, inferences'[i].charged
  PROVE  reservations[inferences[i].reservation].state = "held"
<1>. USE DEF GatewayInv
<1>1. ASSUME NEW g \in Callers, FinishCharge(g)
      PROVE  reservations[inferences[i].reservation].state = "held"
  <2>1. /\ calls[g].stage \in Inserted
        /\ tx[g].reservation = calls[g].reservation
    BY <1>1, Charging DEF FinishCharge
  <2>2. i = calls[g].inference
    BY <1>1 DEF FinishCharge, AiTypeOK
  <2>3. inferences[i].reservation = calls[g].reservation
    BY <2>1, <2>2, OwnRow
  <2>. QED
    BY <1>1, <2>1, <2>3, GatewayAssumption
       DEF FinishCharge, CommitCharge, RowInv, SettlingHeld
<1>2. ASSUME NEW g \in Callers, NEW j \in InferenceIds, InsertInference(g, j)
      PROVE  FALSE
  BY <1>2 DEF InsertInference, AiTypeOK
<1>3. ASSUME NEW g \in Callers, UpdateResult(g) PROVE FALSE
  <2>1. inferences'[i].charged = inferences[i].charged
    BY <1>3, InferenceKinds DEF UpdateResult, AiTypeOK, InferenceRow
  <2>. QED
    BY <2>1
<1>4. ASSUME NEW g \in Callers, InsertEvidence(g) PROVE FALSE
  <2>1. inferences'[i].charged = inferences[i].charged
    BY <1>4, InferenceKinds DEF InsertEvidence, AiTypeOK, InferenceRow
  <2>. QED
    BY <2>1
<1>5. ASSUME UNCHANGED inferences PROVE FALSE
  BY <1>5
<1>. QED
  BY <1>1, <1>2, <1>3, <1>4, <1>5
     DEF AiNext, aiVars, BeginInfer, StartReserve, ReplayReserve, FinishReserve,
         StartCharge, PublishEvent, AuditInference, Abandon

\* A charged inference is never charged again or taken back, and it is charged
\* only out of a hold that still stands.
THEOREM ChargedStays == AiSpec => ChargedInferenceStays
<1> DEFINE Stays ==
      \A i \in InferenceIds : inferences[i] # NoRow =>
        /\ inferences'[i].key = inferences[i].key
        /\ inferences'[i].reservation = inferences[i].reservation
        /\ inferences[i].charged => inferences'[i].charged
        /\ ~inferences[i].charged /\ inferences'[i].charged =>
             reservations[inferences[i].reservation].state = "held"
<1>1. GatewayInv /\ [AiNext]_aiVars => [Stays]_aiVars
  BY InferencesKept, BecomesCharged DEF Kept
<1>. QED
  BY <1>1, GatewayCorrect, PTL DEF AiSpec, ChargedInferenceStays

-----------------------------------------------------------------------------
(* The audit event of a key.                                               *)

\* What a published result relies on is not taken back.
LEMMA AuditStep ==
  GatewayInv /\ AuditNamesChargedInference /\ [AiNext]_aiVars
    => AuditNamesChargedInference'
<1> SUFFICES ASSUME GatewayInv, AuditNamesChargedInference, [AiNext]_aiVars
             PROVE  AuditNamesChargedInference'
  OBVIOUS
<1>1. aiEvents \subseteq aiEvents'
  BY EventsGrow
<1>2. ASSUME NEW i \in InferenceIds, NEW q \in AiKeys, i \in Charged(q)
      PROVE  i \in {j \in InferenceIds : /\ inferences'[j] # NoRow
                                         /\ inferences'[j].key = q
                                         /\ inferences'[j].charged}
  BY <1>2, InferencesKept DEF Charged, Kept
<1>3. ASSUME NEW i \in InferenceIds, inferences[i] # NoRow, inferences[i].result
      PROVE  inferences'[i].result
  BY <1>3, InferencesKept DEF Kept
<1>4. \A a \in aiAudits : a.key \in AiKeys /\ a.inference \in InferenceIds
  BY DEF GatewayInv, AiTypeOK
<1>5. ASSUME NEW a \in aiAudits
      PROVE  /\ a.key \in aiEvents'
             /\ a.inference \in {j \in InferenceIds :
                                   /\ inferences'[j] # NoRow
                                   /\ inferences'[j].key = a.key
                                   /\ inferences'[j].charged}
             /\ inferences'[a.inference].result
  <2>1. a.key \in aiEvents /\ a.inference \in Charged(a.key)
          /\ inferences[a.inference].result
    BY DEF AuditNamesChargedInference
  <2>2. inferences[a.inference] # NoRow
    BY <2>1 DEF Charged
  <2>. QED
    BY <1>1, <1>2, <1>3, <1>4, <2>1, <2>2
<1>6. ASSUME NEW g \in Callers, AuditInference(g)
      PROVE  AuditNamesChargedInference'
  <2> DEFINE new == [key |-> calls[g].key, inference |-> calls[g].inference]
  <2>1. /\ calls[g].stage \in Published /\ calls[g].stage \in Written
        /\ calls[g].stage \in Settled /\ calls[g].stage \in Inserted
    BY <1>6 DEF AuditInference, At, Published, Written, Settled, Inserted, Reserved
  <2>2. CallOk(g)
    BY DEF GatewayInv, CallInv
  <2>3. inferences' = inferences /\ aiAudits' = aiAudits \cup {new}
    BY <1>6 DEF AuditInference
  <2>4. /\ new.key \in aiEvents'
        /\ new.inference \in InferenceIds
        /\ inferences'[new.inference] # NoRow
        /\ inferences'[new.inference].key = new.key
        /\ inferences'[new.inference].charged
        /\ inferences'[new.inference].result
    BY <1>1, <2>1, <2>2, <2>3 DEF CallOk
  <2>5. \A a \in aiAudits : a.key # new.key
    BY <1>6 DEF AuditInference, Audited
  <2>6. \A a, b \in aiAudits' : a.key = b.key => a = b
    BY <2>3, <2>5 DEF AuditNamesChargedInference
  <2>. HIDE DEF new
  <2>. QED
    BY <1>5, <2>3, <2>4, <2>6 DEF AuditNamesChargedInference, Charged
<1>7. ASSUME aiAudits' = aiAudits PROVE AuditNamesChargedInference'
  <2>1. \A a, b \in aiAudits' : a.key = b.key => a = b
    BY <1>7 DEF AuditNamesChargedInference
  <2>. QED
    BY <1>5, <1>7, <2>1 DEF AuditNamesChargedInference, Charged
<1>. QED
  BY <1>6, <1>7
     DEF AiNext, aiVars, BeginInfer, StartReserve, ReplayReserve, FinishReserve,
         InsertInference, StartCharge, FinishCharge, UpdateResult, PublishEvent,
         InsertEvidence, Abandon

\* What a replay of ai.infer returns is the key's one charged inference, with
\* its result, whichever of the attempts under the key got there.
THEOREM ReplayIsWhole == AiSpec => []AuditNamesChargedInference
<1>1. AiInit => AuditNamesChargedInference
  BY DEF AiInit, AuditNamesChargedInference
<1>. QED
  BY <1>1, GatewayCorrect, AuditStep, PTL DEF AiSpec

-----------------------------------------------------------------------------
(* One charged inference for a key.                                        *)

\* What the holds, the charges and the audits of a key have in common.
KeyInv == HoldInv /\ UsageAudited /\ ChargeInv

\* Charges are audited.
LEMMA UsageAuditedStep == UsageAudited /\ [Next]_vars => UsageAudited'
<1> SUFFICES ASSUME UsageAudited, [Next]_vars PROVE UsageAudited'
  OBVIOUS
<1>1. audits \subseteq audits'
  BY LedgerGrows
<1>2. ASSUME NEW s \in Sessions, CommitCharge(s) PROVE UsageAudited'
  <2> DEFINE d == [op |-> "charge", key |-> tx[s].key, target |-> tx[s].reservation]
  <2>1. d \in audits' /\ d.op = "charge" /\ d.key = tx[s].key
          /\ d.target = tx[s].reservation
    BY <1>2 DEF CommitCharge
  <2>2. \A u \in usage' \ usage :
          u.key = tx[s].key /\ u.reservation = tx[s].reservation
    BY <1>2 DEF CommitCharge
  <2>. HIDE DEF d
  <2>. QED
    BY <1>1, <2>1, <2>2 DEF UsageAudited
<1>3. ASSUME UNCHANGED usage PROVE UsageAudited'
  BY <1>1, <1>3 DEF UsageAudited
<1>. QED
  BY <1>2, <1>3
     DEF Next, BeginReserve, CountUsed, CountHeld, CommitReserve, BeginCharge,
         Release, Rollback, Tick, vars

\* A new inference row stands on the hold of the call that inserts it.
LEMMA HoldStep == GatewayInv /\ HoldInv /\ [AiNext]_aiVars => HoldInv'
<1> SUFFICES ASSUME GatewayInv, HoldInv, [AiNext]_aiVars,
                    NEW i \in InferenceIds, inferences'[i] # NoRow
             PROVE  \E e \in audits' :
                      /\ e.op = "reserve"
                      /\ e.key = ReserveKey[inferences'[i].key]
                      /\ e.target = inferences'[i].reservation
  BY DEF HoldInv, Hold
<1>1. audits \subseteq audits'
  BY RecordsStay
<1>2. CASE inferences[i] # NoRow
  BY <1>1, <1>2, InferencesKept DEF HoldInv, Hold, Kept
<1>3. CASE inferences[i] = NoRow
  <2>1. ASSUME NEW g \in Callers, NEW j \in InferenceIds, InsertInference(g, j)
        PROVE  /\ inferences'[i].key = calls[g].key
               /\ inferences'[i].reservation = calls[g].reservation
               /\ Hold(calls[g].key, calls[g].reservation)
    <3>1. j = i
      BY <1>3, <2>1 DEF InsertInference, GatewayInv, AiTypeOK
    <3>2. /\ inferences'[i].key = calls[g].key
          /\ inferences'[i].reservation = calls[g].reservation
      BY <2>1, <3>1 DEF InsertInference, GatewayInv, AiTypeOK
    <3>3. Hold(calls[g].key, calls[g].reservation)
      BY <2>1 DEF InsertInference, At, GatewayInv, CallInv, CallOk, Reserved
    <3>. QED
      BY <3>2, <3>3
  <2>2. ASSUME NEW g \in Callers, FinishCharge(g) PROVE FALSE
    BY <1>3, <2>2, Charging, OwnRow DEF FinishCharge, GatewayInv, AiTypeOK
  <2>3. ASSUME NEW g \in Callers, UpdateResult(g) PROVE FALSE
    BY <1>3, <2>3, OwnRow
       DEF UpdateResult, GatewayInv, AiTypeOK, At, Inserted, Reserved
  <2>4. ASSUME NEW g \in Callers, InsertEvidence(g) PROVE FALSE
    BY <1>3, <2>4, OwnRow
       DEF InsertEvidence, GatewayInv, AiTypeOK, At, Inserted, Reserved
  <2>5. \E g \in Callers, j \in InferenceIds : InsertInference(g, j)
    BY <1>3, <2>2, <2>3, <2>4
       DEF AiNext, aiVars, BeginInfer, StartReserve, ReplayReserve, FinishReserve,
           StartCharge, PublishEvent, AuditInference, Abandon
  <2>. QED
    BY <1>1, <2>1, <2>5 DEF Hold
<1>. QED
  BY <1>2, <1>3

\* The charged inferences of a key after a step.
ChargedNext(q) == {i \in InferenceIds : /\ inferences'[i] # NoRow
                                        /\ inferences'[i].key = q
                                        /\ inferences'[i].charged}

\* A step without a gateway charge leaves the charged inferences as they are.
LEMMA ChargedFrame ==
  ASSUME GatewayInv, [AiNext]_aiVars, \A g \in Callers : ~FinishCharge(g)
  PROVE  \A q \in AiKeys :
           /\ ChargedNext(q) = Charged(q)
           /\ \A i \in Charged(q) :
                inferences'[i].reservation = inferences[i].reservation
<1>1. ASSUME NEW i \in InferenceIds, inferences'[i] # NoRow, inferences'[i].charged
      PROVE  inferences[i] # NoRow /\ inferences[i].charged
  <2>1. ASSUME NEW g \in Callers, NEW j \in InferenceIds, InsertInference(g, j)
        PROVE  inferences'[i] = inferences[i]
    BY <1>1, <2>1 DEF InsertInference, GatewayInv, AiTypeOK
  <2>2. ASSUME NEW g \in Callers, NEW j \in InferenceIds, j = calls[g].inference,
               inferences[j] # NoRow,
               \/ inferences' = [inferences EXCEPT ![j].result = TRUE]
               \/ inferences' = [inferences EXCEPT ![j].proved = TRUE]
        PROVE  inferences[i] # NoRow /\ inferences'[i].charged = inferences[i].charged
    <3>1. inferences[j] \in InferenceRow
      BY <2>2, InferenceKinds DEF GatewayInv
    <3>2. CASE i = j
      <4>1. CASE inferences' = [inferences EXCEPT ![j].result = TRUE]
        BY <2>2, <3>1, <3>2, <4>1 DEF GatewayInv, AiTypeOK, InferenceRow
      <4>2. CASE inferences' = [inferences EXCEPT ![j].proved = TRUE]
        BY <2>2, <3>1, <3>2, <4>2 DEF GatewayInv, AiTypeOK, InferenceRow
      <4>. QED
        BY <2>2, <4>1, <4>2
    <3>3. CASE i # j
      BY <1>1, <2>2, <3>3 DEF GatewayInv, AiTypeOK
    <3>. QED
      BY <3>2, <3>3
  <2>3. ASSUME NEW g \in Callers, UpdateResult(g) \/ InsertEvidence(g)
        PROVE  inferences[i] # NoRow /\ inferences'[i].charged = inferences[i].charged
    <3>1. calls[g].stage \in Inserted
      BY <2>3 DEF UpdateResult, InsertEvidence, At, Inserted, Reserved
    <3>2. calls[g].inference \in InferenceIds /\ inferences[calls[g].inference] # NoRow
      BY <3>1, OwnRow
    <3>. QED
      BY <2>2, <2>3, <3>2 DEF UpdateResult, InsertEvidence
  <2>4. CASE UNCHANGED inferences
    BY <1>1, <2>4
  <2>. QED
    BY <1>1, <2>1, <2>3, <2>4
       DEF AiNext, aiVars, BeginInfer, StartReserve, ReplayReserve, FinishReserve,
           StartCharge, PublishEvent, AuditInference, Abandon
<1>2. \A i \in InferenceIds : Kept(i)
  BY InferencesKept
<1>. QED
  BY <1>1, <1>2 DEF ChargedNext, Charged, Kept

\* The charge of a call is the first under its key, and makes its inference
\* the key's charged one.
LEMMA ChargeStep ==
  GatewayInv /\ UsageAudited /\ ChargeInv /\ [AiNext]_aiVars => ChargeInv'
<1> SUFFICES ASSUME GatewayInv, UsageAudited, ChargeInv, [AiNext]_aiVars
             PROVE  ChargeInv'
  OBVIOUS
<1> DEFINE Goal ==
      /\ \A q \in AiKeys, u \in usage' : u.key = ChargeKey[q] =>
           \E i \in ChargedNext(q) : inferences'[i].reservation = u.reservation
      /\ \A q \in AiKeys : \A i \in ChargedNext(q) :
           \E u \in usage' : /\ u.key = ChargeKey[q]
                             /\ u.reservation = inferences'[i].reservation
      /\ \A q \in AiKeys : \A i, j \in ChargedNext(q) : i = j
<1>1. Goal => ChargeInv'
  BY DEF ChargeInv, Charged, ChargedNext
<1>2. CASE \A g \in Callers : ~FinishCharge(g)
  <2>1. \A q \in AiKeys :
           /\ ChargedNext(q) = Charged(q)
           /\ \A i \in Charged(q) :
                inferences'[i].reservation = inferences[i].reservation
    BY <1>2, ChargedFrame
  <2>2. usage \subseteq usage'
    BY RecordsStay
  <2>3. \A u \in usage' \ usage, q \in AiKeys : u.key # ChargeKey[q]
    <3>1. ASSUME NEW s \in Sessions \ Callers, CommitCharge(s)
          PROVE  \A u \in usage' \ usage, q \in AiKeys : u.key # ChargeKey[q]
      <4>1. tx[s].key \in DirectKeys
        BY <3>1 DEF GatewayInv, TxInv, TxOk, CommitCharge, NoTx
      <4>2. \A u \in usage' \ usage : u.key = tx[s].key
        BY <3>1 DEF CommitCharge
      <4>. QED
        BY <4>1, <4>2 DEF DirectKeys
    <3>2. CASE UNCHANGED usage
      BY <3>2
    <3>. QED
      BY <1>2, <3>1, <3>2
         DEF AiNext, DirectStep, aiVars, vars, BeginInfer, StartReserve,
             ReplayReserve, FinishReserve, InsertInference, StartCharge,
             UpdateResult, PublishEvent, AuditInference, InsertEvidence, Abandon,
             BeginReserve, CountUsed, CountHeld, CommitReserve, BeginCharge,
             Release, Rollback, Tick
  <2>4. Goal
    <3>1. ASSUME NEW q \in AiKeys, NEW u \in usage', u.key = ChargeKey[q]
          PROVE  \E i \in ChargedNext(q) :
                   inferences'[i].reservation = u.reservation
      <4>1. u \in usage
        BY <2>3, <3>1
      <4>. QED
        BY <2>1, <3>1, <4>1 DEF ChargeInv
    <3>2. ASSUME NEW q \in AiKeys, NEW i \in ChargedNext(q)
          PROVE  \E u \in usage' : /\ u.key = ChargeKey[q]
                                   /\ u.reservation = inferences'[i].reservation
      BY <2>1, <2>2 DEF ChargeInv
    <3>3. \A q \in AiKeys : \A i, j \in ChargedNext(q) : i = j
      BY <2>1 DEF ChargeInv
    <3>. QED
      BY <3>1, <3>2, <3>3
  <2>. QED
    BY <1>1, <2>4
<1>3. ASSUME NEW g \in Callers, FinishCharge(g) PROVE ChargeInv'
  <2> DEFINE p == calls[g].key
             i == calls[g].inference
             v == [key |-> tx[g].key, reservation |-> tx[g].reservation,
                   account |-> reservations[tx[g].reservation].account,
                   units |-> reservations[tx[g].reservation].units,
                   late |-> clock >= reservations[tx[g].reservation].expiresAt]
  <2>1. /\ calls[g].stage \in Inserted
        /\ calls[g].stage \in Stages
        /\ tx[g].key = ChargeKey[p]
        /\ tx[g].reservation = calls[g].reservation
    BY <1>3, Charging DEF FinishCharge
  <2>2. p \in AiKeys
    BY <2>1, StageKinds DEF GatewayInv
  <2>3. /\ i \in InferenceIds
        /\ inferences[i] # NoRow
        /\ inferences[i].key = p
        /\ inferences[i].reservation = calls[g].reservation
    BY <2>1, OwnRow
  <2>4. usage' = usage \cup {v}
    BY <1>3 DEF FinishCharge, CommitCharge
  <2>5. v.key = ChargeKey[p] /\ v.reservation = calls[g].reservation
    BY <2>1
  <2>6. \A u \in usage : u.key # ChargeKey[p]
    BY <1>3, <2>1 DEF FinishCharge, CommitCharge, Recorded, UsageAudited
  <2>7. Charged(p) = {}
    BY <2>2, <2>6 DEF ChargeInv
  <2>8. /\ inferences'[i] # NoRow
        /\ inferences'[i].key = p
        /\ inferences'[i].reservation = calls[g].reservation
        /\ inferences'[i].charged
    <3>1. Kept(i)
      BY <2>3, InferencesKept
    <3>2. inferences'[i].charged
      BY <1>3, <2>3, InferenceKinds
         DEF FinishCharge, GatewayInv, AiTypeOK, InferenceRow
    <3>. QED
      BY <2>3, <3>1, <3>2 DEF Kept
  <2>9. \A j \in InferenceIds \ {i} : inferences'[j] = inferences[j]
    BY <1>3 DEF FinishCharge, GatewayInv, AiTypeOK
  <2>. HIDE DEF p, i, v
  <2>10. ChargedNext(p) = {i}
    BY <2>3, <2>7, <2>8, <2>9 DEF Charged, ChargedNext
  <2>11. \A q \in AiKeys \ {p} : ChargedNext(q) = Charged(q) /\ i \notin Charged(q)
    BY <2>3, <2>8, <2>9 DEF Charged, ChargedNext
  <2>12. \A q \in AiKeys \ {p} : ChargeKey[q] # ChargeKey[p]
    BY <2>2, GatewayAssumption
  <2>13. Goal
    <3>1. ASSUME NEW q \in AiKeys, q # p
          PROVE  /\ \A u \in usage' : u.key = ChargeKey[q] =>
                      \E j \in ChargedNext(q) :
                        inferences'[j].reservation = u.reservation
                 /\ \A j \in ChargedNext(q) : \E u \in usage' :
                      /\ u.key = ChargeKey[q]
                      /\ u.reservation = inferences'[j].reservation
                 /\ \A j, k \in ChargedNext(q) : j = k
      <4>1. \A j \in Charged(q) : inferences'[j] = inferences[j]
        BY <2>9, <2>11, <3>1 DEF Charged
      <4>2. ChargedNext(q) = Charged(q) /\ ChargeKey[q] # v.key
        BY <2>5, <2>11, <2>12, <3>1
      <4>3. ASSUME NEW u \in usage', u.key = ChargeKey[q]
            PROVE  \E j \in ChargedNext(q) :
                     inferences'[j].reservation = u.reservation
        <5>1. u \in usage
          BY <2>4, <4>2, <4>3
        <5>. QED
          BY <4>1, <4>2, <4>3, <5>1 DEF ChargeInv
      <4>4. ASSUME NEW j \in ChargedNext(q)
            PROVE  \E u \in usage' : /\ u.key = ChargeKey[q]
                                     /\ u.reservation = inferences'[j].reservation
        BY <2>4, <4>1, <4>2 DEF ChargeInv
      <4>5. \A j, k \in ChargedNext(q) : j = k
        BY <4>2 DEF ChargeInv
      <4>. QED
        BY <4>3, <4>4, <4>5
    <3>2. \A u \in usage' : u.key = ChargeKey[p] =>
            \E j \in ChargedNext(p) : inferences'[j].reservation = u.reservation
      BY <2>4, <2>5, <2>6, <2>8, <2>10
    <3>3. \A j \in ChargedNext(p) : \E u \in usage' :
             u.key = ChargeKey[p] /\ u.reservation = inferences'[j].reservation
      BY <2>4, <2>5, <2>8, <2>10
    <3>4. \A j, k \in ChargedNext(p) : j = k
      BY <2>10
    <3>. QED
      BY <3>1, <3>2, <3>3, <3>4
  <2>. QED
    BY <1>1, <2>13
<1>. QED
  BY <1>2, <1>3

\* A set without two elements has at most one.
LEMMA AtMostOne ==
  ASSUME NEW S, \A x, y \in S : x = y
  PROVE  Cardinality(S) = (IF S = {} THEN 0 ELSE 1)
<1>1. CASE S = {}
  BY <1>1, FS_EmptySet
<1>2. CASE S # {}
  <2>1. PICK x \in S : TRUE
    BY <1>2
  <2>2. S = {x}
    BY <2>1
  <2>. QED
    BY <1>2, <2>2, FS_Singleton
<1>. QED
  BY <1>1, <1>2

\* The invariants together say what OneChargedInferencePerKey says.
LEMMA KeyInvSuffices ==
  GatewayInv /\ KeyInv /\ ChargedOnce /\ OneEffectPerKey
    => OneChargedInferencePerKey
<1> SUFFICES ASSUME GatewayInv, KeyInv, ChargedOnce, OneEffectPerKey,
                    NEW q \in AiKeys
             PROVE  LET charges == {u \in usage : u.key = ChargeKey[q]}
                    IN  /\ Cardinality(Charged(q)) = Cardinality(charges)
                        /\ Cardinality(charges) <= 1
                        /\ \A i \in Charged(q), u \in charges :
                             /\ u.reservation = inferences[i].reservation
                             /\ \E e \in audits : /\ e.op = "reserve"
                                                  /\ e.key = ReserveKey[q]
                                                  /\ e.target = u.reservation
  BY DEF OneChargedInferencePerKey
<1>. USE DEF KeyInv
<1> DEFINE charges == {u \in usage : u.key = ChargeKey[q]}
<1>1. ASSUME NEW u \in charges, NEW v \in charges PROVE u = v
  <2>1. PICK d \in audits :
          d.op = "charge" /\ d.key = u.key /\ d.target = u.reservation
    BY DEF UsageAudited
  <2>2. PICK e \in audits :
          e.op = "charge" /\ e.key = v.key /\ e.target = v.reservation
    BY DEF UsageAudited
  <2>3. d = e
    BY <2>1, <2>2 DEF OneEffectPerKey
  <2>4. u.reservation = v.reservation
    BY <2>1, <2>2, <2>3
  <2>5. u \in usage /\ v \in usage /\ u.reservation \in ReservationIds
    BY DEF GatewayInv, AiTypeOK, TypeOK, UsageRow
  <2>. QED
    BY <2>4, <2>5 DEF ChargedOnce
<1>2. \A i, j \in Charged(q) : i = j
  BY DEF ChargeInv
<1>3. charges = {} <=> Charged(q) = {}
  BY DEF ChargeInv
<1>4. Cardinality(charges) = (IF charges = {} THEN 0 ELSE 1)
  <2>. HIDE DEF charges
  <2>. QED
    BY <1>1, AtMostOne
<1>5. Cardinality(Charged(q)) = (IF Charged(q) = {} THEN 0 ELSE 1)
  BY <1>2, AtMostOne
<1>6. ASSUME NEW i \in Charged(q), NEW u \in charges
      PROVE  /\ u.reservation = inferences[i].reservation
             /\ \E e \in audits : /\ e.op = "reserve"
                                  /\ e.key = ReserveKey[q]
                                  /\ e.target = u.reservation
  <2>1. PICK v \in usage :
          v.key = ChargeKey[q] /\ v.reservation = inferences[i].reservation
    BY DEF ChargeInv
  <2>2. u = v
    BY <1>1, <2>1
  <2>3. Hold(inferences[i].key, inferences[i].reservation)
          /\ inferences[i].key = q
    BY DEF HoldInv, Charged
  <2>. QED
    BY <2>1, <2>2, <2>3 DEF Hold
<1>. HIDE DEF charges
<1>7. /\ Cardinality(Charged(q)) = Cardinality(charges)
      /\ Cardinality(charges) <= 1
  BY <1>3, <1>4, <1>5
<1>. QED
  BY <1>6, <1>7 DEF charges

\* However often a key of ai.infer is sent, and by however many at once, its
\* units are charged once, to one inference, out of the one hold of the key.
THEOREM OneInferencePerKey == AiSpec => []OneChargedInferencePerKey
<1>1. AiInit => KeyInv
  BY DEF AiInit, Init, KeyInv, HoldInv, UsageAudited, ChargeInv, Charged
<1>2. GatewayInv /\ KeyInv /\ [AiNext]_aiVars => KeyInv'
  BY HoldStep, StepIsLedgers, UsageAuditedStep, ChargeStep DEF KeyInv
<1>3. AiSpec => []KeyInv
  BY <1>1, <1>2, GatewayCorrect, PTL DEF AiSpec
<1>4. AiSpec => []ChargedOnce /\ []OneEffectPerKey
  BY GatewayKeepsBudgets, PTL
<1>. QED
  BY <1>3, <1>4, GatewayCorrect, KeyInvSuffices, PTL

=============================================================================
