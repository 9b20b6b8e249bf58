----------------------------- MODULE AiGateway ------------------------------
(***************************************************************************)
(* The AI gateway of src/src/core/ai-gateway.ts: ai.infer, on top of the   *)
(* budget ledger.                                                          *)
(*                                                                         *)
(* A call is no transaction and takes no lock of its own. It looks for an  *)
(* earlier execution of its key, calls budget.reserve, inserts an          *)
(* inference row, calls budget.charge and then records the result, an      *)
(* event, an audit event and evidence, each statement committed by itself. *)
(* The two ledger commands are the ledger's own transactions, under keys   *)
(* made from the call's key; the process of a call is their session. A     *)
(* call that is refused or dies leaves what it has committed behind, and   *)
(* its caller may send it again.                                           *)
(* A key always comes with the same request (another one is refused as a   *)
(* conflict), and the route it selects stays the same.                     *)
(***************************************************************************)
EXTENDS BudgetLedger

CONSTANTS
  Callers,       \* the sessions that execute ai.infer
  AiKeys,        \* idempotency keys of ai.infer
  ReserveKey,    \* per key of ai.infer: its key for budget.reserve
  ChargeKey,     \* per key of ai.infer: its key for budget.charge
  AiAccount,     \* per key: config.budgetAccountId
  AiUnits,       \* per key: config.maxUnits
  InferenceIds   \* ids of inferences rows

DirectKeys == Keys \ UNION {{ReserveKey[q], ChargeKey[q]} : q \in AiKeys}

ASSUME GatewayAssumption ==
  /\ Callers \subseteq Sessions
  /\ ReserveKey \in [AiKeys -> Keys]
  /\ ChargeKey \in [AiKeys -> Keys]
  /\ \A p, q \in AiKeys : /\ ReserveKey[p] # ChargeKey[q]
                          /\ p # q => /\ ReserveKey[p] # ReserveKey[q]
                                      /\ ChargeKey[p] # ChargeKey[q]
  /\ AiAccount \in [AiKeys -> Accounts]
  /\ AiUnits \in [AiKeys -> UnitSizes]

VARIABLES
  inferences, \* inferences, by id; "charged": a usage row names it
  aiEvents,   \* keys under which ai.inference.completed events were inserted
  aiAudits,   \* their audit events: a set of [key, inference]
  calls       \* what the process of each call is about

aiVars == <<vars, inferences, aiEvents, aiAudits, calls>>

-----------------------------------------------------------------------------
InferenceRow ==
  [key : AiKeys, reservation : ReservationIds, charged : BOOLEAN,
   result : BOOLEAN, proved : BOOLEAN]

NoCall == [stage |-> "idle"]
NoId == "none"
Stages ==
  {"reserving", "inserting", "charging", "updating", "publishing",
   "auditing", "proving"}
Call ==
  [stage : Stages, key : AiKeys, reservation : ReservationIds \cup {NoId},
   inference : InferenceIds \cup {NoId}]

AiTypeOK ==
  /\ TypeOK
  /\ inferences \in [InferenceIds -> InferenceRow \cup {NoRow}]
  /\ aiEvents \subseteq AiKeys
  /\ aiAudits \subseteq [key : AiKeys, inference : InferenceIds]
  /\ calls \in [Callers -> Call \cup {NoCall}]

Audited(q) == \E a \in aiAudits : a.key = q
At(g, stage) == calls[g].stage = stage
MoveTo(g, stage) == calls' = [calls EXCEPT ![g].stage = stage]

ReserveOf(q) ==
  [op |-> "reserve", account |-> AiAccount[q], units |-> AiUnits[q],
   expiresAt |-> NoExpiry]

-----------------------------------------------------------------------------
(* The steps of a call, in order.                                          *)

\* replayedInference finds no audit event of the key, and the references of
\* the request resolve.
BeginInfer(g, q) ==
  /\ calls[g] = NoCall
  /\ ~Audited(q)
  /\ calls' = [calls EXCEPT ![g] =
       [stage |-> "reserving", key |-> q, reservation |-> NoId,
        inference |-> NoId]]
  /\ UNCHANGED <<vars, inferences, aiEvents, aiAudits>>

\* budget.reserve opens its transaction ...
StartReserve(g) ==
  /\ At(g, "reserving")
  /\ BeginReserve(g, ReserveKey[calls[g].key], ReserveOf(calls[g].key))
  /\ UNCHANGED <<inferences, aiEvents, aiAudits, calls>>

\* Mutant: the hold of the earlier attempt is found but not taken over.
ReplayReserveMutant(g) ==
  /\ At(g, "reserving")
  /\ tx[g] = NoTx
  /\ ~KeyLocked(ReserveKey[calls[g].key])
  /\ Recorded("reserve", ReserveKey[calls[g].key])
  /\ MoveTo(g, "inserting")
  /\ UNCHANGED <<vars, inferences, aiEvents, aiAudits>>

\* ... or finds that an earlier attempt has reserved, and returns its hold,
\* whatever has become of it.
ReplayReserve(g) ==
  /\ At(g, "reserving")
  /\ tx[g] = NoTx
  /\ ~KeyLocked(ReserveKey[calls[g].key])
  /\ \E e \in audits :
       /\ e.op = "reserve"
       /\ e.key = ReserveKey[calls[g].key]
       /\ calls' = [calls EXCEPT ![g].stage = "inserting",
                                 ![g].reservation = e.target]
  /\ UNCHANGED <<vars, inferences, aiEvents, aiAudits>>

FinishReserve(g, r) ==
  /\ CommitReserve(g, r)
  /\ calls' = [calls EXCEPT ![g].stage = "inserting", ![g].reservation = r]
  /\ UNCHANGED <<inferences, aiEvents, aiAudits>>

\* Mutant: an attempt writes over the row of an earlier one.
InsertInferenceMutant(g, i) ==
  /\ At(g, "inserting")
  /\ inferences' = [inferences EXCEPT ![i] =
       [key |-> calls[g].key, reservation |-> calls[g].reservation,
        charged |-> FALSE, result |-> FALSE, proved |-> FALSE]]
  /\ calls' = [calls EXCEPT ![g].stage = "charging", ![g].inference = i]
  /\ UNCHANGED <<vars, aiEvents, aiAudits>>

\* The row is inserted before the units are charged.
InsertInference(g, i) ==
  /\ At(g, "inserting")
  /\ inferences[i] = NoRow
  /\ inferences' = [inferences EXCEPT ![i] =
       [key |-> calls[g].key, reservation |-> calls[g].reservation,
        charged |-> FALSE, result |-> FALSE, proved |-> FALSE]]
  /\ calls' = [calls EXCEPT ![g].stage = "charging", ![g].inference = i]
  /\ UNCHANGED <<vars, aiEvents, aiAudits>>

ChargeOf(g) == [op |-> "charge", reservation |-> calls[g].reservation]

\* Mutant: the charge is sent under the key of the reserve.
StartChargeMutant(g) ==
  /\ At(g, "charging")
  /\ BeginCharge(g, ReserveKey[calls[g].key], ChargeOf(g))
  /\ UNCHANGED <<inferences, aiEvents, aiAudits, calls>>

\* budget.charge names the new inference in its fingerprint: under a key that
\* an earlier attempt has charged it is a conflict, never a replay.
StartCharge(g) ==
  /\ At(g, "charging")
  /\ BeginCharge(g, ChargeKey[calls[g].key], ChargeOf(g))
  /\ UNCHANGED <<inferences, aiEvents, aiAudits, calls>>

FinishCharge(g) ==
  /\ CommitCharge(g)
  /\ inferences' = [inferences EXCEPT ![calls[g].inference].charged = TRUE]
  /\ MoveTo(g, "updating")
  /\ UNCHANGED <<aiEvents, aiAudits>>

\* Mutant: the result is not written back to the row.
UpdateResultMutant(g) ==
  /\ At(g, "updating")
  /\ MoveTo(g, "publishing")
  /\ UNCHANGED <<vars, inferences, aiEvents, aiAudits>>

\* The inference row gets its result, which names usage and reservation.
UpdateResult(g) ==
  /\ At(g, "updating")
  /\ inferences' = [inferences EXCEPT ![calls[g].inference].result = TRUE]
  /\ MoveTo(g, "publishing")
  /\ UNCHANGED <<vars, aiEvents, aiAudits>>

\* Event and audit event are unique by key.
PublishEvent(g) ==
  /\ At(g, "publishing")
  /\ calls[g].key \notin aiEvents
  /\ aiEvents' = aiEvents \cup {calls[g].key}
  /\ MoveTo(g, "auditing")
  /\ UNCHANGED <<vars, inferences, aiAudits>>

AuditInference(g) ==
  /\ At(g, "auditing")
  /\ ~Audited(calls[g].key)
  /\ aiAudits' = aiAudits \cup
       {[key |-> calls[g].key, inference |-> calls[g].inference]}
  /\ MoveTo(g, "proving")
  /\ UNCHANGED <<vars, inferences, aiEvents>>

InsertEvidence(g) ==
  /\ At(g, "proving")
  /\ inferences' = [inferences EXCEPT ![calls[g].inference].proved = TRUE]
  /\ calls' = [calls EXCEPT ![g] = NoCall]
  /\ UNCHANGED <<vars, aiEvents, aiAudits>>

\* Mutant: a call that gives up hands its hold back behind the ledger's back.
AbandonMutant(g) ==
  /\ calls[g] # NoCall
  /\ calls' = [calls EXCEPT ![g] = NoCall]
  /\ tx' = [tx EXCEPT ![g] = NoTx]
  /\ reservations' = [r \in ReservationIds |->
       IF calls[g].reservation = r
       THEN [reservations[r] EXCEPT !.state = "released"]
       ELSE reservations[r]]
  /\ UNCHANGED <<clock, usage, audits, inferences, aiEvents, aiAudits>>

\* The call is refused or dies. An open ledger transaction rolls back.
Abandon(g) ==
  /\ calls[g] # NoCall
  /\ calls' = [calls EXCEPT ![g] = NoCall]
  /\ tx' = [tx EXCEPT ![g] = NoTx]
  /\ UNCHANGED <<clock, reservations, usage, audits, inferences, aiEvents,
                 aiAudits>>

-----------------------------------------------------------------------------
\* Other clients of the ledger, and the middle of the calls' reserves.
DirectStep ==
  \/ \E s \in Sessions \ Callers, k \in DirectKeys :
       \/ \E c \in ReserveCommand : BeginReserve(s, k, c)
       \/ \E c \in ChargeCommand : BeginCharge(s, k, c)
  \/ \E s \in Sessions \ Callers :
       \/ \E r \in ReservationIds : CommitReserve(s, r)
       \/ CommitCharge(s)
       \/ Rollback(s)
  \/ \E k \in DirectKeys, c \in ReleaseCommand : Release(k, c)
  \/ \E s \in Sessions : CountUsed(s) \/ CountHeld(s)
  \/ Tick

AiInit ==
  /\ Init
  /\ inferences = [i \in InferenceIds |-> NoRow]
  /\ aiEvents = {}
  /\ aiAudits = {}
  /\ calls = [g \in Callers |-> NoCall]

AiNext ==
  \/ DirectStep /\ UNCHANGED <<inferences, aiEvents, aiAudits, calls>>
  \/ \E g \in Callers, q \in AiKeys : BeginInfer(g, q)
  \/ \E g \in Callers : StartReserve(g)
  \/ \E g \in Callers : ReplayReserve(g)
  \/ \E g \in Callers, r \in ReservationIds : FinishReserve(g, r)
  \/ \E g \in Callers, i \in InferenceIds : InsertInference(g, i)
  \/ \E g \in Callers : StartCharge(g)
  \/ \E g \in Callers : FinishCharge(g)
  \/ \E g \in Callers : UpdateResult(g)
  \/ \E g \in Callers : PublishEvent(g)
  \/ \E g \in Callers : AuditInference(g)
  \/ \E g \in Callers : InsertEvidence(g)
  \/ \E g \in Callers : Abandon(g)

AiSpec == AiInit /\ [][AiNext]_aiVars

-----------------------------------------------------------------------------
(* Properties                                                              *)

Charged(q) == {i \in InferenceIds : /\ inferences[i] # NoRow
                                    /\ inferences[i].key = q
                                    /\ inferences[i].charged}

\* However often a key is sent, and by however many at once, its units are
\* charged once, to one inference, out of the one hold of the key; and there
\* is no charge under the key that no inference accounts for. Attempts that
\* were cut short may leave inference rows, but none of those is charged.
OneChargedInferencePerKey ==
  \A q \in AiKeys :
    LET charges == {u \in usage : u.key = ChargeKey[q]}
    IN  /\ Cardinality(Charged(q)) = Cardinality(charges)
        /\ Cardinality(charges) <= 1
        /\ \A i \in Charged(q), u \in charges :
             /\ u.reservation = inferences[i].reservation
             /\ \E e \in audits : /\ e.op = "reserve"
                                  /\ e.key = ReserveKey[q]
                                  /\ e.target = u.reservation

\* What a replay returns is whole: the audit event of a key is the only one,
\* its event was published before it, and the inference it names was charged
\* and has its result, although another attempt may have been inserted last.
AuditNamesChargedInference ==
  \A a \in aiAudits :
    /\ \A b \in aiAudits : a.key = b.key => a = b
    /\ a.key \in aiEvents
    /\ a.inference \in Charged(a.key)
    /\ inferences[a.inference].result

\* A charged inference is never charged again, taken back or handed to another
\* call, whatever crashes and retries follow.
ChargedInferenceStays ==
  [][\A i \in InferenceIds : inferences[i] # NoRow =>
       /\ inferences'[i].key = inferences[i].key
       /\ inferences'[i].reservation = inferences[i].reservation
       /\ inferences[i].charged => inferences'[i].charged
       /\ ~inferences[i].charged /\ inferences'[i].charged =>
            reservations[inferences[i].reservation].state = "held"
    ]_aiVars

\* The gateway changes the ledger only as the ledger's own commands do.
LedgerIsKept == Spec
=============================================================================
