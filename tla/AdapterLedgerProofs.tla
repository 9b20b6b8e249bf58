------------------------- MODULE AdapterLedgerProofs -------------------------
(***************************************************************************)
(* Proofs about AdapterLedger, for any number of drains, intents and       *)
(* external actions, and any bound on attempts.                            *)
(***************************************************************************)
EXTENDS AdapterLedger, TLAPS

\* What an open drain holds: rows it has selected or written, by row.
Part == UNION {[S -> Row] : S \in SUBSET Rows}
Drain ==
  [op : {"reconcile", "retry"}, seen : Part, staged : Part,
   keys : SUBSET AuditKey, flow : FlowStates \cup {NoFlow}]
TaskState == {"waiting", "blocked", "closed"}

Types ==
  /\ rows \in [Rows -> Row \cup {NoRow}]
  /\ audits \subseteq AuditKey \cup ExternalKey
  /\ tasks \in [DOMAIN tasks -> TaskState] /\ DOMAIN tasks \subseteq TaskKey
  /\ flow \in FlowStates
  /\ drains \in [Drains -> Drain \cup {NoDrain}]

\* The rows of an intent come together, and before every audit event of one.
\* A pending row has executed its attempt or is on its first; a row that
\* awaits a retry has had it scheduled.
RowsMatchAudits ==
  /\ \A i \in Intents : rows[<<i, "run">>] = NoRow <=> rows[<<i, "action">>] = NoRow
  /\ \A k \in audits : k \in AuditKey => rows[k.row] # NoRow
  /\ \A r \in Rows :
       /\ rows[r].reconciliation = "pending" =>
            rows[r].attempt = 1 \/ Executed(r, rows[r].attempt)
       /\ rows[r].reconciliation = "retry_scheduled" =>
            Recorded("retry_scheduled", r, rows[r].attempt)

\* What a drain has read of row r, as old, may be stale; but then the attempt
\* it read has been executed by another.
SeenOK(op, r, old) ==
  /\ rows[r] # NoRow
  /\ rows[r].maxAttempts = old.maxAttempts /\ rows[r].tracked = old.tracked
  /\ op = "reconcile" =>
       Pending(old) /\ (old.attempt = 1 \/ Executed(r, old.attempt))
  /\ op = "retry" =>
       \/ Executed(r, old.attempt)
       \/ /\ rows[r].reconciliation = "retry_scheduled"
          /\ rows[r].due /\ rows[r].attempt = old.attempt

\* What a drain has written to row r, as new, from a row that is still as the
\* update found it.
StagedOK(op, r, new) ==
  /\ rows[r] # NoRow
  /\ rows[r].maxAttempts = new.maxAttempts /\ rows[r].tracked = new.tracked
  /\ op = "reconcile" =>
       /\ Pending(rows[r])
       /\ new.reconciliation \in Decisions
       /\ new.reconciliation = "matched" =>
            new.attempt = 1 \/ Executed(r, new.attempt)
       /\ new.reconciliation = "retry_scheduled" =>
            /\ new.attempt \in 2 .. new.maxAttempts
            /\ new.attempt > 2 => Executed(r, new.attempt - 1)
  /\ op = "retry" => Due(rows[r]) /\ new = AfterRetry(r, rows[r])

\* The audit event that goes with a staged row.
StagedKey(op, r, new) ==
  [what |-> IF op = "retry" THEN "retry_executed" ELSE new.reconciliation,
   row |-> r, attempt |-> new.attempt]

\* A drain tells the workflow run what one of the rows it writes earns.
FlowOK(d) ==
  /\ d.op = "retry" => d.flow = NoFlow
  /\ d.flow # NoFlow =>
       \E r \in DOMAIN d.staged :
         LET new == d.staged[r]
         IN  /\ new.tracked
             /\ d.flow = FlowState(new.reconciliation)
             /\ new.reconciliation = "matched" =>
                  new.attempt > 1 /\ Executed(r, new.attempt)

DrainOK(d) ==
  /\ \A r \in DOMAIN d.seen : SeenOK(d.op, r, d.seen[r])
  /\ \A r \in DOMAIN d.staged : StagedOK(d.op, r, d.staged[r])
  /\ d.keys = {StagedKey(d.op, r, d.staged[r]) : r \in DOMAIN d.staged}
  /\ d.keys \cap audits = {}
  /\ FlowOK(d)

LocksExclude ==
  \A d, e \in Drains : OpenDrain(d) /\ OpenDrain(e) =>
    \A r \in DOMAIN drains[d].staged : r \in DOMAIN drains[e].staged => d = e

DrainsOK == \A d \in Drains : OpenDrain(d) => DrainOK(drains[d])

\* Only a scheduled retry's task waits.
WaitingForRetry == \A t \in DOMAIN tasks :
  tasks[t] = "waiting" => t.decision = "retry_scheduled"

AdapterInv ==
  /\ Types
  /\ RowsMatchAudits
  /\ LocksExclude
  /\ DrainsOK
  /\ WaitingForRetry
  /\ AttemptsInOrder
  /\ FollowupsMatchRows
  /\ FlowIsEarned

-----------------------------------------------------------------------------
(* The operators of the drains.                                            *)

\* What decisionFor and incrementedAttempt return: a retry is the next attempt
\* and stays within the row's bound.
LEMMA DecisionFacts ==
  ASSUME NEW old \in Row
  PROVE  /\ Decision(old) \in Decisions
         /\ NextAttempt(old) \in 1 .. MaxAttempts
         /\ Decision(old) = "retry_scheduled" =>
              /\ NextAttempt(old) = old.attempt + 1
              /\ NextAttempt(old) <= old.maxAttempts
         /\ Decision(old) # "retry_scheduled" =>
              NextAttempt(old) = old.attempt
BY AdapterAssumption DEF Row, Decision, NextAttempt, Decisions

\* The row that a reconciling drain writes.
LEMMA WrittenRow ==
  ASSUME NEW now \in Row, NEW old \in Row
  PROVE  LET new == WriteDecision(now, old)
         IN  /\ new \in Row
             /\ new.reconciliation = Decision(old)
             /\ new.attempt = NextAttempt(old)
             /\ new.maxAttempts = old.maxAttempts
             /\ new.tracked = now.tracked
<1> DEFINE after == AfterDecision(old)
           new == WriteDecision(now, old)
<1>1. /\ after \in Row
      /\ after.reconciliation = Decision(old)
      /\ after.attempt = NextAttempt(old)
      /\ after.maxAttempts = old.maxAttempts
  <2> DEFINE s == CASE Decision(old) = "matched" -> "done"
                    [] Decision(old) = "retry_scheduled" -> "queued"
                    [] OTHER -> old.state
             e == old.error \/ Decision(old) = "retry_scheduled"
             n == NextAttempt(old)
             v == Decision(old)
  <2>1. s \in CallStates
    BY DecisionFacts DEF Row, CallStates, Decisions
  <2>2. e \in BOOLEAN
    OBVIOUS
  <2>3. n \in 1 .. MaxAttempts /\ v \in {"pending"} \cup Decisions
    BY DecisionFacts
  <2>4. after = [old EXCEPT !.state = s, !.reconciliation = v, !.attempt = n,
                            !.due = FALSE, !.error = e]
    BY DEF AfterDecision
  <2> HIDE DEF s, e, n, v, after
  <2>5. /\ after \in Row /\ after.reconciliation = v /\ after.attempt = n
        /\ after.maxAttempts = old.maxAttempts
    BY <2>1, <2>2, <2>3, <2>4 DEF Row
  <2> QED  BY <2>5 DEF v, n
<1>2. new = [after EXCEPT !.flagged = now.flagged, !.tracked = now.tracked,
                          !.retried = now.retried]
  BY DEF WriteDecision
<1> HIDE DEF after, new
<1>3. /\ new \in Row
      /\ new.reconciliation = Decision(old)
      /\ new.attempt = NextAttempt(old)
      /\ new.maxAttempts = old.maxAttempts
      /\ new.tracked = now.tracked
  BY <1>1, <1>2 DEF Row
<1> QED  BY <1>3 DEF new

\* The row that a retrying drain writes.
LEMMA RetriedRow ==
  ASSUME NEW r, NEW row \in Row
  PROVE  LET new == AfterRetry(r, row)
         IN  /\ new \in Row
             /\ new.reconciliation = "pending"
             /\ new.attempt = row.attempt
             /\ new.maxAttempts = row.maxAttempts
             /\ new.tracked = row.tracked
<1> DEFINE new == AfterRetry(r, row)
           f == row.flagged /\ r[2] = "action"
<1>1. new = [row EXCEPT !.state = "done", !.reconciliation = "pending",
                        !.due = FALSE, !.error = FALSE, !.retried = TRUE,
                        !.flagged = f]
  BY DEF AfterRetry
<1>2. f \in BOOLEAN
  OBVIOUS
<1> HIDE DEF new, f
<1>3. /\ new \in Row
      /\ new.reconciliation = "pending"
      /\ new.attempt = row.attempt
      /\ new.maxAttempts = row.maxAttempts
      /\ new.tracked = row.tracked
  BY <1>1, <1>2 DEF Row, CallStates
<1> QED  BY <1>3 DEF new

LEMMA NoRowIsNone ==
  /\ NoRow \notin Row
  /\ NoRow.reconciliation = "absent"
  /\ NoRow.state = "absent"
BY DEF NoRow, Row, CallStates

LEMMA NoDrainIsNone == NoDrain \notin Drain /\ NoDrain.op = "none"
BY DEF NoDrain, Drain

LEMMA PartFacts ==
  ASSUME NEW p \in Part
  PROVE  /\ DOMAIN p \subseteq Rows
         /\ \A r \in DOMAIN p : p[r] \in Row
BY DEF Part

LEMMA PutPart ==
  ASSUME NEW p \in Part, NEW r \in Rows, NEW v \in Row
  PROVE  /\ Put(p, r, v) \in Part
         /\ DOMAIN Put(p, r, v) = DOMAIN p \cup {r}
         /\ Put(p, r, v)[r] = v
         /\ \A q \in DOMAIN p \ {r} : Put(p, r, v)[q] = p[q]
<1> DEFINE u == Put(p, r, v)
           S == DOMAIN p \cup {r}
<1>1. u = [x \in S |-> IF x \in {r} THEN v ELSE p[x]]
  BY DEF Put, Merged
<1> HIDE DEF u
<1>2. S \subseteq Rows /\ u \in [S -> Row]
  BY <1>1, PartFacts
<1>3. u \in Part
  BY <1>2 DEF Part
<1> QED  BY <1>1, <1>3 DEF u

LEMMA WithoutPart ==
  ASSUME NEW p \in Part, NEW r
  PROVE  /\ Without(p, r) \in Part
         /\ DOMAIN Without(p, r) = DOMAIN p \ {r}
         /\ \A q \in DOMAIN p \ {r} : Without(p, r)[q] = p[q]
<1> DEFINE u == Without(p, r)
           S == DOMAIN p \ {r}
<1>1. u = [x \in S |-> p[x]]
  BY DEF Without
<1> HIDE DEF u
<1>2. S \subseteq Rows /\ u \in [S -> Row]
  BY <1>1, PartFacts
<1>3. u \in Part
  BY <1>2 DEF Part
<1> QED  BY <1>1, <1>3 DEF u

\* A key of an external action is none of a drain's.
LEMMA KeysApart == AuditKey \cap ExternalKey = {}
BY DEF AuditKey, ExternalKey, Decisions

-----------------------------------------------------------------------------
(* Steps of a drain that write nothing yet.                                *)

\* A step that changes only the open transaction of d keeps the invariant when
\* what it leaves there is right and no other drain holds its rows.
LEMMA DrainStep ==
  ASSUME AdapterInv, NEW d \in Drains, NEW x \in Drain \cup {NoDrain},
         drains' = [drains EXCEPT ![d] = x],
         UNCHANGED <<rows, audits, tasks, flow>>,
         x # NoDrain => DrainOK(x),
         x # NoDrain =>
           \A e \in Drains \ {d} : OpenDrain(e) =>
             \A r \in DOMAIN x.staged : r \notin DOMAIN drains[e].staged
  PROVE  AdapterInv'
<1>0. drains \in [Drains -> Drain \cup {NoDrain}]
  BY DEF AdapterInv, Types
<1>1. Types'
  BY <1>0 DEF AdapterInv, Types
<1>2. RowsMatchAudits' /\ AttemptsInOrder' /\ FollowupsMatchRows'
      /\ FlowIsEarned' /\ WaitingForRetry'
  BY DEF AdapterInv, RowsMatchAudits, AttemptsInOrder, FollowupsMatchRows,
         FlowIsEarned, WaitingForRetry, Executed, Recorded
<1>3. LocksExclude'
  BY <1>0 DEF AdapterInv, LocksExclude, OpenDrain
<1>4. ASSUME NEW e \in Drains, OpenDrain(e)'
      PROVE  DrainOK(drains[e])'
  <2>1. DrainOK(drains'[e])
    BY <1>0, <1>4 DEF AdapterInv, DrainsOK, OpenDrain
  <2> QED
    BY <2>1 DEF DrainOK, SeenOK, StagedOK, FlowOK, Executed, Recorded
<1> QED  BY <1>1, <1>2, <1>3, <1>4 DEF AdapterInv, DrainsOK

LEMMA BeginStep ==
  ASSUME AdapterInv, NEW d \in Drains, NEW op \in {"reconcile", "retry"},
         NEW batch \in SUBSET Rows,
         \A r \in batch : IF op = "reconcile" THEN Pending(rows[r])
                                             ELSE Due(rows[r]),
         Begin(d, op, batch)
  PROVE  AdapterInv'
<1> DEFINE seen == [r \in batch |-> rows[r]]
           staged == [r \in {} |-> NoRow]
           x == [op |-> op, seen |-> seen, staged |-> staged, keys |-> {},
                 flow |-> NoFlow]
<1>1. \A r \in batch : rows[r] \in Row
  BY NoRowIsNone DEF AdapterInv, Types, Pending, Due, Scheduled
<1>2. seen \in Part /\ staged \in Part
  BY <1>1 DEF Part
<1>3. x \in Drain
  BY <1>2 DEF Drain
<1>4. ASSUME NEW r \in batch  PROVE SeenOK(op, r, rows[r])
  BY <1>1, <1>4, NoRowIsNone
  DEF AdapterInv, RowsMatchAudits, SeenOK, Pending, Due, Scheduled
<1>5. DrainOK(x)
  BY <1>4 DEF DrainOK, FlowOK
<1>6. DOMAIN x.staged = {}
  OBVIOUS
<1>7. drains' = [drains EXCEPT ![d] = x] /\ UNCHANGED <<rows, audits, tasks, flow>>
  BY DEF Begin
<1> HIDE DEF x
<1> QED  BY <1>3, <1>5, <1>6, <1>7, DrainStep

\* What a drain has dealt with already, it need not see any more.
LEMMA SkipStep ==
  ASSUME AdapterInv, NEW d \in Drains, OpenDrain(d), NEW r \in Rows,
         Skip(d, r), UNCHANGED <<rows, audits, tasks, flow>>
  PROVE  AdapterInv'
<1> DEFINE old == drains[d]
           x == [old EXCEPT !.seen = Without(old.seen, r)]
<1>1. old \in Drain /\ DrainOK(old)
  BY DEF AdapterInv, Types, DrainsOK, OpenDrain
<1>2. /\ Without(old.seen, r) \in Part
      /\ DOMAIN Without(old.seen, r) \subseteq DOMAIN old.seen
      /\ \A q \in DOMAIN Without(old.seen, r) :
           Without(old.seen, r)[q] = old.seen[q]
  <2>1. old.seen \in Part /\ old.staged \in Part
    BY <1>1 DEF Drain
  <2> HIDE DEF old
  <2> QED  BY <2>1, WithoutPart
<1>3. drains' = [drains EXCEPT ![d] = x]
  BY DEF Skip, AdapterInv, Types
<1> HIDE DEF old
<1>4. /\ x \in Drain
      /\ x.op = old.op /\ x.seen = Without(old.seen, r)
      /\ x.staged = old.staged /\ x.keys = old.keys /\ x.flow = old.flow
  BY <1>1, <1>2 DEF Drain
<1> HIDE DEF x
<1>5. DrainOK(x)
  BY <1>1, <1>2, <1>4 DEF DrainOK, FlowOK
<1>6. \A e \in Drains \ {d} : OpenDrain(e) =>
        \A q \in DOMAIN x.staged : q \notin DOMAIN drains[e].staged
  BY <1>4 DEF AdapterInv, LocksExclude, OpenDrain, old
<1> QED  BY <1>3, <1>4, <1>5, <1>6, DrainStep

\* Writing row r: the drain keeps what it had, deals with r, stages the new
\* row and its key, and may tell the workflow run.
LEMMA StageStep ==
  ASSUME AdapterInv, NEW d \in Drains, OpenDrain(d), NEW r \in Rows,
         ~RowLocked(r), NEW new \in Row, NEW key \in AuditKey,
         NEW told \in FlowStates \cup {NoFlow},
         drains' = [drains EXCEPT
           ![d].seen = Without(@, r), ![d].staged = Put(@, r, new),
           ![d].keys = @ \cup {key}, ![d].flow = told],
         UNCHANGED <<rows, audits, tasks, flow>>,
         key \notin audits,
         key = StagedKey(drains[d].op, r, new),
         StagedOK(drains[d].op, r, new),
         \/ told = drains[d].flow
         \/ /\ drains[d].op = "reconcile" /\ new.tracked
            /\ told = FlowState(new.reconciliation)
            /\ new.reconciliation = "matched" =>
                 new.attempt > 1 /\ Executed(r, new.attempt)
  PROVE  AdapterInv'
<1> DEFINE old == drains[d]
           seen == Without(old.seen, r)
           staged == Put(old.staged, r, new)
           keys == old.keys \cup {key}
           x == [old EXCEPT !.seen = seen, !.staged = staged, !.keys = keys,
                            !.flow = told]
<1>1. old \in Drain /\ DrainOK(old)
  BY DEF AdapterInv, Types, DrainsOK, OpenDrain
<1>2. /\ seen \in Part
      /\ DOMAIN seen \subseteq DOMAIN old.seen
      /\ \A q \in DOMAIN seen : seen[q] = old.seen[q]
  <2>1. old.seen \in Part /\ old.staged \in Part
    BY <1>1 DEF Drain
  <2> HIDE DEF old
  <2>2. /\ Without(old.seen, r) \in Part
        /\ DOMAIN Without(old.seen, r) = DOMAIN old.seen \ {r}
        /\ \A q \in DOMAIN old.seen \ {r} :
             Without(old.seen, r)[q] = old.seen[q]
    BY ONLY <2>1, WithoutPart
  <2> QED  BY <2>2
<1>3. /\ staged \in Part
      /\ DOMAIN staged = DOMAIN old.staged \cup {r}
      /\ staged[r] = new
      /\ \A q \in DOMAIN old.staged \ {r} : staged[q] = old.staged[q]
  <2>1. old.seen \in Part /\ old.staged \in Part
    BY <1>1 DEF Drain
  <2> HIDE DEF old
  <2> QED  BY <2>1, PutPart
<1>4. r \notin DOMAIN old.staged
  BY DEF RowLocked
<1>5. drains' = [drains EXCEPT ![d] = x]
  BY DEF AdapterInv, Types
<1>6. keys \subseteq AuditKey
  BY <1>1 DEF Drain
<1> HIDE DEF seen, staged
<1>7. /\ x \in Drain
      /\ x.op = old.op /\ x.seen = seen
      /\ x.staged = staged /\ x.keys = keys /\ x.flow = told
  BY <1>1, <1>2, <1>3, <1>6 DEF Drain
<1>8. \A e \in Drains \ {d} : OpenDrain(e) =>
        \A q \in DOMAIN staged : q \notin DOMAIN drains[e].staged
  BY <1>3 DEF AdapterInv, LocksExclude, OpenDrain, RowLocked
<1>9. DrainOK(x)
  <2>1. \A q \in DOMAIN seen : SeenOK(old.op, q, seen[q])
    BY <1>1, <1>2 DEF DrainOK
  <2>2. \A q \in DOMAIN staged : StagedOK(old.op, q, staged[q])
    BY <1>1, <1>3 DEF DrainOK
  <2>3. keys = {StagedKey(old.op, q, staged[q]) : q \in DOMAIN staged}
    <3>1. old.keys = {StagedKey(old.op, q, old.staged[q]) : q \in DOMAIN old.staged}
      BY <1>1 DEF DrainOK
    <3>2. \A q \in DOMAIN old.staged : staged[q] = old.staged[q]
      BY <1>3, <1>4
    <3>3. key = StagedKey(old.op, r, staged[r])
      BY <1>3
    <3> HIDE DEF old
    <3> QED  BY <1>3, <3>1, <3>2, <3>3
  <2>4. keys \cap audits = {}
    BY <1>1 DEF DrainOK
  <2>5. old.op = "retry" => told = NoFlow
    BY <1>1 DEF DrainOK, FlowOK
  <2>6. ASSUME told # NoFlow
        PROVE  \E q \in DOMAIN staged :
                 /\ staged[q].tracked
                 /\ told = FlowState(staged[q].reconciliation)
                 /\ staged[q].reconciliation = "matched" =>
                      staged[q].attempt > 1 /\ Executed(q, staged[q].attempt)
    <3>1. CASE told = old.flow
      BY <1>1, <1>3, <1>4, <2>6, <3>1 DEF DrainOK, FlowOK
    <3>2. CASE told # old.flow
      BY <1>3, <3>2
    <3> QED  BY <3>1, <3>2
  <2> HIDE DEF x, keys, old
  <2>7. FlowOK(x)
    BY <1>7, <2>5, <2>6 DEF FlowOK
  <2> QED  BY <1>7, <2>1, <2>2, <2>3, <2>4, <2>7 DEF DrainOK
<1> HIDE DEF x, keys
<1> QED  BY <1>5, <1>7, <1>8, <1>9, DrainStep

LEMMA BeginReconcileStep ==
  ASSUME AdapterInv, NEW d \in Drains, BeginReconcile(d)
  PROVE  AdapterInv'
<1>1. PICK a \in Batches({q \in OfKind("action") : Pending(rows[q])}),
           b \in Batches({q \in OfKind("run") : Pending(rows[q])}) :
        Begin(d, "reconcile", a \cup b)
  BY DEF BeginReconcile
<1>2. a \subseteq Rows /\ \A q \in a : Pending(rows[q])
  BY DEF Batches, OfKind
<1>3. b \subseteq Rows /\ \A q \in b : Pending(rows[q])
  BY DEF Batches, OfKind
<1> QED  BY <1>1, <1>2, <1>3, BeginStep

LEMMA BeginRetryStep ==
  ASSUME AdapterInv, NEW d \in Drains, BeginRetry(d)
  PROVE  AdapterInv'
<1>1. PICK a \in Batches({q \in OfKind("action") : Due(rows[q])}),
           b \in Batches({q \in OfKind("run") : Due(rows[q])}) :
        Begin(d, "retry", a \cup b)
  BY DEF BeginRetry
<1>2. a \subseteq Rows /\ \A q \in a : Due(rows[q])
  BY DEF Batches, OfKind
<1>3. b \subseteq Rows /\ \A q \in b : Due(rows[q])
  BY DEF Batches, OfKind
<1> QED  BY <1>1, <1>2, <1>3, BeginStep

LEMMA ReconcileStep ==
  ASSUME AdapterInv, NEW d \in Drains, NEW r \in Rows, Reconcile(d, r)
  PROVE  AdapterInv'
<1>1. /\ drains[d].op = "reconcile" /\ OpenDrain(d)
      /\ r \in DOMAIN drains[d].seen
      /\ ~RowLocked(r) /\ UNCHANGED <<rows, audits, tasks, flow>>
  BY NoDrainIsNone DEF Reconcile, NextRow, OpenDrain
<1>2. CASE ~Pending(rows[r])
  BY <1>1, <1>2, SkipStep DEF Reconcile
<1>3. CASE Pending(rows[r])
  <2> DEFINE old == drains[d].seen[r]
             now == rows[r]
             new == WriteDecision(now, old)
             key == DecisionKey(r, old)
             told == IF TellsFlow(old) THEN FlowState(Decision(old))
                                       ELSE drains[d].flow
  <2>1. drains[d] \in Drain /\ DrainOK(drains[d])
    BY <1>1 DEF AdapterInv, Types, DrainsOK, OpenDrain
  <2>2. old \in Row /\ SeenOK("reconcile", r, old)
    <3>1. drains[d].seen \in Part
      BY <2>1 DEF Drain
    <3> QED  BY <3>1, <1>1, <2>1, PartFacts DEF DrainOK
  <2>3. now \in Row
    BY <1>3, NoRowIsNone DEF AdapterInv, Types, Pending
  <2>4. /\ key \notin audits
        /\ drains' = [drains EXCEPT
             ![d].seen = Without(@, r), ![d].staged = Put(@, r, new),
             ![d].keys = @ \cup {key}, ![d].flow = told]
    BY <1>3 DEF Reconcile, DecideRow
  <2>5. key \in AuditKey
    BY <2>2, DecisionFacts DEF DecisionKey, AuditKey
  <2>6. told \in FlowStates \cup {NoFlow}
    BY <2>1 DEF Drain, FlowState, FlowStates
  <2>7. SeenOK("reconcile", r, old) /\ Pending(now) /\ now = rows[r]
    BY <1>3, <2>2
  <2> HIDE DEF old, now
  <2>8. /\ new \in Row
        /\ new.reconciliation = Decision(old) /\ new.attempt = NextAttempt(old)
        /\ new.maxAttempts = old.maxAttempts /\ new.tracked = now.tracked
    BY <2>2, <2>3, WrittenRow
  <2> HIDE DEF new
  <2>9. /\ old.attempt \in 1 .. MaxAttempts /\ MaxAttempts \in 1 .. 10
        /\ old.maxAttempts \in 1 .. MaxAttempts
    BY <2>2, AdapterAssumption DEF Row
  <2>10. StagedOK("reconcile", r, new)
    <3>1. new.reconciliation = "matched" =>
            new.attempt = 1 \/ Executed(r, new.attempt)
      BY <2>2, <2>7, <2>8, DecisionFacts DEF SeenOK
    <3>2. new.reconciliation = "retry_scheduled" =>
            /\ new.attempt \in 2 .. new.maxAttempts
            /\ new.attempt > 2 => Executed(r, new.attempt - 1)
      <4>1. SUFFICES ASSUME new.reconciliation = "retry_scheduled"
                     PROVE  /\ new.attempt \in 2 .. new.maxAttempts
                            /\ new.attempt > 2 => Executed(r, new.attempt - 1)
        OBVIOUS
      <4>2. /\ new.attempt = old.attempt + 1
            /\ new.attempt <= new.maxAttempts
        BY <4>1, <2>2, <2>8, DecisionFacts
      <4>3. new.attempt - 1 = old.attempt
        BY <4>2, <2>9
      <4>4. old.attempt = 1 \/ Executed(r, old.attempt)
        BY <2>7 DEF SeenOK
      <4>5. new.attempt \in 2 .. new.maxAttempts
        BY <2>8, <2>9, <4>2
      <4>6. CASE old.attempt = 1
        BY <4>2, <4>5, <4>6
      <4>7. CASE Executed(r, old.attempt)
        BY <4>3, <4>5, <4>7
      <4> QED  BY <4>4, <4>6, <4>7
    <3> QED  BY <2>2, <2>7, <2>8, <3>1, <3>2, DecisionFacts DEF SeenOK, StagedOK
  <2>11. key = StagedKey("reconcile", r, new)
    BY <2>8 DEF DecisionKey, StagedKey
  <2>12. \/ told = drains[d].flow
         \/ /\ new.tracked
            /\ told = FlowState(new.reconciliation)
            /\ new.reconciliation = "matched" =>
                 new.attempt > 1 /\ Executed(r, new.attempt)
    <3>1. CASE TellsFlow(old)
      <4>1. new.tracked
        BY <3>1, <2>7, <2>8 DEF TellsFlow, SeenOK
      <4>2. ASSUME new.reconciliation = "matched"
            PROVE  new.attempt > 1 /\ Executed(r, new.attempt)
        BY <3>1, <4>2, <2>2, <2>7, <2>8, <2>9, DecisionFacts
        DEF TellsFlow, SeenOK
      <4> QED  BY <3>1, <4>1, <4>2, <2>8
    <3> QED  BY <3>1
  <2> HIDE DEF key, told
  <2> QED
    BY <1>1, <2>4, <2>5, <2>6, <2>8, <2>10, <2>11, <2>12, StageStep
<1> QED  BY <1>2, <1>3

LEMMA ExecuteRetryStep ==
  ASSUME AdapterInv, NEW d \in Drains, NEW r \in Rows, ExecuteRetry(d, r)
  PROVE  AdapterInv'
<1>1. /\ drains[d].op = "retry" /\ OpenDrain(d)
      /\ r \in DOMAIN drains[d].seen
      /\ ~RowLocked(r) /\ UNCHANGED <<rows, audits, tasks, flow>>
  BY NoDrainIsNone DEF ExecuteRetry, NextRow, OpenDrain
<1>2. CASE ~Scheduled(rows[r])
  BY <1>1, <1>2, SkipStep DEF ExecuteRetry
<1>3. CASE Scheduled(rows[r])
  <2> DEFINE old == drains[d].seen[r]
             now == rows[r]
             new == AfterRetry(r, now)
             key == RetryKey(r, old)
             told == drains[d].flow
  <2>1. drains[d] \in Drain /\ DrainOK(drains[d])
    BY <1>1 DEF AdapterInv, Types, DrainsOK, OpenDrain
  <2>2. old \in Row /\ SeenOK("retry", r, old)
    <3>1. drains[d].seen \in Part
      BY <2>1 DEF Drain
    <3> QED  BY <3>1, <1>1, <2>1, PartFacts DEF DrainOK
  <2>3. now \in Row
    BY <1>3, NoRowIsNone DEF AdapterInv, Types, Scheduled
  <2>4. key \notin audits
    BY <1>3 DEF ExecuteRetry, ExecuteRow
  <2>5. drains' = [drains EXCEPT
             ![d].seen = Without(@, r), ![d].staged = Put(@, r, new),
             ![d].keys = @ \cup {key}, ![d].flow = told]
    <3> DEFINE s == Without(drains[d].seen, r)
               p == Put(drains[d].staged, r, new)
               k == drains[d].keys \cup {key}
    <3>1. drains' = [drains EXCEPT
                      ![d] = [@ EXCEPT !.seen = s, !.staged = p, !.keys = k]]
      BY <1>3 DEF ExecuteRetry, ExecuteRow, AdapterInv, Types
    <3> HIDE DEF s, p, k
    <3>2. [drains[d] EXCEPT !.seen = s, !.staged = p, !.keys = k] =
          [drains[d] EXCEPT !.seen = s, !.staged = p, !.keys = k, !.flow = told]
      BY <2>1 DEF Drain
    <3>3. drains' = [drains EXCEPT ![d] = [drains[d] EXCEPT
            !.seen = s, !.staged = p, !.keys = k, !.flow = told]]
      BY <3>1, <3>2
    <3> QED  BY <3>3 DEF s, p, k
  <2>6. key \in AuditKey
    BY <2>2 DEF RetryKey, AuditKey, Row
  <2>7. told \in FlowStates \cup {NoFlow}
    BY <2>1 DEF Drain
  <2>8. Due(now) /\ now.attempt = old.attempt
    <3>1. ~Executed(r, old.attempt)
      BY <2>4 DEF Executed, Recorded, RetryKey
    <3> QED  BY <1>3, <2>2, <3>1 DEF SeenOK, Due
  <2>9. SeenOK("retry", r, old) /\ now = rows[r]
    BY <2>2
  <2> HIDE DEF old, now
  <2>10. /\ new \in Row
         /\ new.reconciliation = "pending" /\ new.attempt = now.attempt
         /\ new.maxAttempts = now.maxAttempts /\ new.tracked = now.tracked
    BY <2>3, RetriedRow
  <2>11. StagedOK("retry", r, new)
    BY <2>8, <2>9, <2>10 DEF StagedOK, SeenOK
  <2> HIDE DEF new
  <2>12. key = StagedKey("retry", r, new)
    BY <2>8, <2>10 DEF RetryKey, StagedKey
  <2> HIDE DEF key
  <2> QED
    BY <1>1, <2>4, <2>5, <2>6, <2>7, <2>10, <2>11, <2>12, StageStep
<1> QED  BY <1>2, <1>3

LEMMA RollbackStep ==
  ASSUME AdapterInv, NEW d \in Drains, Rollback(d)
  PROVE  AdapterInv'
BY DrainStep DEF Rollback

-----------------------------------------------------------------------------
(* Steps beside the drains.                                                *)

\* What flow is earned by, case by case.
FlowReasons ==
  /\ flow = "adapter_failure_review" =>
       \E r \in Rows : /\ rows[r] # NoRow /\ rows[r].tracked
                      /\ rows[r].reconciliation = "needs_review"
  /\ flow = "post_retry_reconciled" =>
       \E r \in Rows : /\ rows[r] # NoRow /\ rows[r].tracked
                      /\ rows[r].reconciliation = "matched"
                      /\ \E n \in 2 .. MaxAttempts : Executed(r, n)
  /\ flow = "adapter_retry_scheduled" =>
       \E r \in Rows : /\ rows[r] # NoRow /\ rows[r].tracked
                      /\ \E n \in 2 .. MaxAttempts :
                           Recorded("retry_scheduled", r, n)

LEMMA FlowCases ==
  /\ FlowIsEarned <=> FlowReasons
  /\ FlowIsEarned' <=> FlowReasons'
BY DEF FlowIsEarned, FlowReasons

\* An update of one row that no drain holds, to columns no drain decides,
\* keeps the invariant.
LEMMA RowStep ==
  ASSUME AdapterInv, NEW r \in Rows, NEW v \in Row, NEW ks \in SUBSET ExternalKey,
         rows[r] # NoRow, ~RowLocked(r),
         v.reconciliation = rows[r].reconciliation,
         v.attempt = rows[r].attempt, v.maxAttempts = rows[r].maxAttempts,
         v.tracked = rows[r].tracked, rows[r].due => v.due,
         rows' = [rows EXCEPT ![r] = v],
         audits' = audits \cup ks,
         UNCHANGED <<tasks, flow, drains>>
  PROVE  AdapterInv'
<1>1. Types'
  BY DEF AdapterInv, Types
<1>2. \A what, q, n : what # "external_action" =>
        (Recorded(what, q, n)' <=> Recorded(what, q, n))
  BY DEF Recorded, ExternalKey
<1>3. \A q, n : Executed(q, n)' <=> Executed(q, n)
  BY <1>2 DEF Executed
<1>4. \A q \in Rows :
        /\ (rows'[q] = NoRow) <=> (rows[q] = NoRow)
        /\ rows'[q].reconciliation = rows[q].reconciliation
        /\ rows'[q].attempt = rows[q].attempt
        /\ rows'[q].maxAttempts = rows[q].maxAttempts
        /\ rows'[q].tracked = rows[q].tracked
        /\ rows[q].due => rows'[q].due
  BY NoRowIsNone DEF AdapterInv, Types
<1>5. \A q \in Rows : q # r => rows'[q] = rows[q]
  BY DEF AdapterInv, Types
<1>6. RowsMatchAudits'
  <2>1. \A i \in Intents : <<i, "run">> \in Rows /\ <<i, "action">> \in Rows
    BY DEF Rows, Kinds
  <2>2. \A k \in audits' : k \in AuditKey => k \in audits /\ k.row \in Rows
    BY KeysApart DEF AuditKey
  <2> QED  BY <1>2, <1>3, <1>4, <2>1, <2>2 DEF AdapterInv, RowsMatchAudits
<1>7. LocksExclude' /\ WaitingForRetry'
  BY DEF AdapterInv, LocksExclude, WaitingForRetry, OpenDrain
<1>8. ASSUME NEW e \in Drains, OpenDrain(e)'
      PROVE  DrainOK(drains[e])'
  <2> DEFINE x == drains[e]
  <2>1. x \in Drain /\ DrainOK(x) /\ x' = x /\ r \notin DOMAIN x.staged
    BY <1>8 DEF AdapterInv, Types, DrainsOK, OpenDrain, RowLocked
  <2>2. x.seen \in Part /\ x.staged \in Part /\ x.keys \subseteq AuditKey
    BY <2>1 DEF Drain
  <2>3. ASSUME NEW q \in DOMAIN x.seen
        PROVE  SeenOK(x.op, q, x.seen[q])'
    BY <1>3, <1>4, <2>1, <2>2, PartFacts DEF DrainOK, SeenOK
  <2>4. ASSUME NEW q \in DOMAIN x.staged
        PROVE  StagedOK(x.op, q, x.staged[q])'
    BY <1>3, <1>5, <2>1, <2>2, PartFacts DEF DrainOK, StagedOK
  <2>5. x.keys \cap audits' = {}
    BY <2>1, <2>2, KeysApart DEF DrainOK
  <2>6. FlowOK(x)'
    BY <1>3, <2>1 DEF DrainOK, FlowOK
  <2> QED  BY <2>1, <2>3, <2>4, <2>5, <2>6 DEF DrainOK
<1>9. AttemptsInOrder'
  BY <1>2, <1>3, <1>4 DEF AdapterInv, AttemptsInOrder
<1>10. FollowupsMatchRows'
  <2>1. \A t \in DOMAIN tasks : t.row \in Rows
    BY DEF AdapterInv, Types, TaskKey
  <2> QED  BY <1>3, <1>4, <2>1 DEF AdapterInv, FollowupsMatchRows
<1>11. FlowIsEarned'
  BY <1>2, <1>3, <1>4, FlowCases DEF AdapterInv, FlowReasons
<1> QED
  BY <1>1, <1>6, <1>7, <1>8, <1>9, <1>10, <1>11 DEF AdapterInv, DrainsOK

LEMMA RecordExternalActionStep ==
  ASSUME AdapterInv, NEW k \in ExternalKeys, NEW i \in Intents,
         NEW state \in ExternalStates, RecordExternalAction(k, i, state)
  PROVE  AdapterInv'
<1> DEFINE a == <<i, "action">>
           v == [rows[a] EXCEPT !.state = state]
           ks == {[what |-> "external_action", key |-> k]}
<1>1. a \in Rows /\ rows[a] # NoRow /\ ~RowLocked(a)
  BY DEF RecordExternalAction, Rows, Kinds
<1>2. rows[a] \in Row
  BY <1>1 DEF AdapterInv, Types
<1>3. ks \in SUBSET ExternalKey
  BY DEF ExternalKey
<1>4. /\ rows' = [rows EXCEPT ![a] = v] /\ audits' = audits \cup ks
      /\ UNCHANGED <<tasks, flow, drains>>
  BY DEF RecordExternalAction
<1> HIDE DEF a
<1>5. v \in Row
  <2>1. state \in CallStates
    BY AdapterAssumption
  <2> QED  BY <1>2, <2>1 DEF Row
<1>6. /\ v.reconciliation = rows[a].reconciliation
      /\ v.attempt = rows[a].attempt /\ v.maxAttempts = rows[a].maxAttempts
      /\ v.tracked = rows[a].tracked /\ v.due = rows[a].due
  BY <1>2 DEF Row
<1> HIDE DEF v, ks
<1> QED  BY <1>1, <1>3, <1>4, <1>5, <1>6, RowStep

LEMMA ComesDueStep ==
  ASSUME AdapterInv, NEW r \in Rows, ComesDue(r)
  PROVE  AdapterInv'
<1> DEFINE v == [rows[r] EXCEPT !.due = TRUE]
<1>1. /\ rows[r] # NoRow /\ ~RowLocked(r)
      /\ rows' = [rows EXCEPT ![r] = v]
      /\ UNCHANGED <<audits, tasks, flow, drains>>
  BY NoRowIsNone DEF ComesDue
<1>2. rows[r] \in Row
  BY <1>1 DEF AdapterInv, Types
<1>3. /\ v \in Row
      /\ v.reconciliation = rows[r].reconciliation
      /\ v.attempt = rows[r].attempt /\ v.maxAttempts = rows[r].maxAttempts
      /\ v.tracked = rows[r].tracked /\ v.due
  BY <1>2 DEF Row
<1> DEFINE none == {}
<1>4. none \in SUBSET ExternalKey /\ audits' = audits \cup none
  BY <1>1
<1>5. rows[r].due => v.due
  BY <1>3
<1> HIDE DEF v, none
<1>6. UNCHANGED <<tasks, flow, drains>>
  BY <1>1
<1> QED  BY <1>1, <1>3, <1>4, <1>5, <1>6, RowStep

LEMMA CloseTaskStep ==
  ASSUME AdapterInv, NEW t \in DOMAIN tasks, CloseTask(t)
  PROVE  AdapterInv'
<1>1. /\ tasks' = [tasks EXCEPT ![t] = "closed"]
      /\ UNCHANGED <<rows, audits, flow, drains>>
  BY DEF CloseTask
<1>2. /\ DOMAIN tasks' = DOMAIN tasks
      /\ \A u \in DOMAIN tasks : tasks'[u] = "waiting" => tasks[u] = "waiting"
  BY <1>1
<1>3. Types'
  BY <1>1 DEF AdapterInv, Types, TaskState
<1>4. RowsMatchAudits' /\ LocksExclude' /\ AttemptsInOrder' /\ FlowIsEarned'
  BY <1>1 DEF AdapterInv, RowsMatchAudits, LocksExclude, AttemptsInOrder,
              FlowIsEarned, Executed, Recorded, OpenDrain
<1>5. ASSUME NEW e \in Drains, OpenDrain(e)'
      PROVE  DrainOK(drains[e])'
  <2>1. DrainOK(drains[e]) /\ drains'[e] = drains[e]
    BY <1>1, <1>5 DEF AdapterInv, DrainsOK, OpenDrain
  <2> QED
    BY <1>1, <2>1 DEF DrainOK, SeenOK, StagedOK, FlowOK, Executed, Recorded
<1>6. WaitingForRetry' /\ FollowupsMatchRows'
  BY <1>1, <1>2
  DEF AdapterInv, WaitingForRetry, FollowupsMatchRows, Executed, Recorded
<1> QED  BY <1>3, <1>4, <1>5, <1>6 DEF AdapterInv, DrainsOK

\* A row that has an audit event is there.
LEMMA RecordedRow ==
  ASSUME Types, RowsMatchAudits, NEW what, NEW r \in Rows, NEW n,
         what # "external_action", Recorded(what, r, n)
  PROVE  rows[r] # NoRow
<1> DEFINE k == [what |-> what, row |-> r, attempt |-> n]
<1>1. k \in audits /\ k.what # "external_action" /\ k.row = r
  BY DEF Recorded
<1> HIDE DEF k
<1>2. k \in AuditKey
  BY <1>1 DEF Types, ExternalKey
<1> QED  BY <1>1, <1>2 DEF RowsMatchAudits

LEMMA RecordIntentStep ==
  ASSUME AdapterInv, NEW i \in Intents, NEW m \in 1 .. MaxAttempts,
         NEW p \in Payloads, RecordIntent(i, m, p)
  PROVE  AdapterInv'
<1> DEFINE new(r) ==
      [state |-> "queued", reconciliation |-> "pending", attempt |-> 1,
       maxAttempts |-> m, due |-> FALSE, error |-> FALSE,
       retried |-> FALSE, flagged |-> p[r[2]].flagged,
       tracked |-> p[r[2]].tracked]
<1>1. /\ rows' = [r \in Rows |-> IF r[1] # i THEN rows[r] ELSE new(r)]
      /\ UNCHANGED <<audits, tasks, flow, drains>>
  BY DEF RecordIntent
<1>2. ASSUME NEW r \in Rows
      PROVE  /\ new(r) \in Row /\ new(r) # NoRow
             /\ new(r).reconciliation = "pending" /\ new(r).attempt = 1
  <2>1. p[r[2]].flagged \in BOOLEAN /\ p[r[2]].tracked \in BOOLEAN
    BY AdapterAssumption DEF Rows
  <2>2. 1 \in 1 .. MaxAttempts
    BY AdapterAssumption
  <2> QED  BY <2>1, <2>2, NoRowIsNone DEF Row, CallStates
<1>3. ASSUME NEW r \in Rows, r[1] = i
      PROVE  rows[r] = NoRow
  <2>1. rows[<<i, "action">>] = NoRow /\ rows[<<i, "run">>] = NoRow
    BY DEF RecordIntent, AdapterInv, RowsMatchAudits
  <2>2. r = <<i, "action">> \/ r = <<i, "run">>
    BY <1>3 DEF Rows, Kinds
  <2> QED  BY <2>1, <2>2
<1>4. \A r \in Rows :
        \/ r[1] # i /\ rows'[r] = rows[r]
        \/ /\ r[1] = i
           /\ rows[r] = NoRow /\ rows'[r] \in Row /\ rows'[r] # NoRow
           /\ rows'[r].reconciliation = "pending" /\ rows'[r].attempt = 1
  BY <1>1, <1>2, <1>3
<1>5. rows' \in [Rows -> Row \cup {NoRow}]
  BY <1>1, <1>2 DEF AdapterInv, Types
<1> HIDE DEF new
<1>6. Types'
  BY <1>1, <1>5 DEF AdapterInv, Types
<1>7. \A what, q, n : Recorded(what, q, n)' <=> Recorded(what, q, n)
  BY <1>1 DEF Recorded
<1>8. \A q, n : Executed(q, n)' <=> Executed(q, n)
  BY <1>7 DEF Executed
<1>9. \A r \in Rows : rows[r] # NoRow => rows'[r] = rows[r]
  BY <1>4
<1>10. RowsMatchAudits'
  <2>1. ASSUME NEW j \in Intents
        PROVE  rows'[<<j, "run">>] = NoRow <=> rows'[<<j, "action">>] = NoRow
    <3>1. /\ <<j, "run">> \in Rows /\ <<j, "action">> \in Rows
          /\ <<j, "run">>[1] = j /\ <<j, "action">>[1] = j
      BY DEF Rows, Kinds
    <3> QED  BY <1>4, <3>1 DEF AdapterInv, RowsMatchAudits
  <2>2. \A k \in audits : k \in AuditKey => k.row \in Rows
    BY DEF AuditKey
  <2>3. \A k \in audits' : k \in AuditKey => rows'[k.row] # NoRow
    BY <1>1, <1>9, <2>2 DEF AdapterInv, RowsMatchAudits
  <2> QED  BY <1>4, <1>7, <1>8, <2>1, <2>3 DEF AdapterInv, RowsMatchAudits
<1>11. LocksExclude' /\ WaitingForRetry'
  BY <1>1 DEF AdapterInv, LocksExclude, WaitingForRetry, OpenDrain
<1>12. ASSUME NEW e \in Drains, OpenDrain(e)'
       PROVE  DrainOK(drains[e])'
  <2> DEFINE x == drains[e]
  <2>1. x \in Drain /\ DrainOK(x) /\ x' = x
    BY <1>1, <1>12 DEF AdapterInv, Types, DrainsOK, OpenDrain
  <2>2. x.seen \in Part /\ x.staged \in Part
    BY <2>1 DEF Drain
  <2>3. ASSUME NEW q \in DOMAIN x.seen
        PROVE  SeenOK(x.op, q, x.seen[q])'
    BY <1>8, <1>9, <2>1, <2>2, PartFacts DEF DrainOK, SeenOK
  <2>4. ASSUME NEW q \in DOMAIN x.staged
        PROVE  StagedOK(x.op, q, x.staged[q])'
    BY <1>8, <1>9, <2>1, <2>2, PartFacts DEF DrainOK, StagedOK
  <2>5. x.keys \cap audits' = {}
    BY <1>1, <2>1 DEF DrainOK
  <2>6. FlowOK(x)'
    BY <1>8, <2>1 DEF DrainOK, FlowOK
  <2> QED  BY <2>1, <2>3, <2>4, <2>5, <2>6 DEF DrainOK
<1>13. AttemptsInOrder'
  <2>1. SUFFICES ASSUME NEW r \in Rows, rows'[r] # NoRow,
                        NEW n \in 1 .. MaxAttempts
                 PROVE  /\ Recorded("retry_scheduled", r, n) =>
                             /\ n \in 2 .. rows'[r].maxAttempts
                             /\ n > 2 => Executed(r, n - 1)
                        /\ Executed(r, n) => Recorded("retry_scheduled", r, n)
    BY <1>7, <1>8 DEF AttemptsInOrder
  <2>2. CASE rows[r] = NoRow
    BY <2>2, RecordedRow DEF Executed, AdapterInv
  <2>3. CASE rows[r] # NoRow
    BY <2>3, <1>9 DEF AdapterInv, AttemptsInOrder
  <2> QED  BY <2>2, <2>3
<1>14. FollowupsMatchRows'
  <2>1. \A t \in DOMAIN tasks : t.row \in Rows
    BY DEF AdapterInv, Types, TaskKey
  <2> QED
    BY <1>1, <1>4, <1>8, <2>1, NoRowIsNone DEF AdapterInv, FollowupsMatchRows
<1>15. FlowIsEarned'
  BY <1>1, <1>7, <1>8, <1>9, FlowCases DEF AdapterInv, FlowReasons
<1> QED
  BY <1>6, <1>10, <1>11, <1>12, <1>13, <1>14, <1>15 DEF AdapterInv, DrainsOK

-----------------------------------------------------------------------------
(* Commits.                                                                *)

\* What both commits do to the rows, the audit events and the other drains.
Commits(d) ==
  /\ OpenDrain(d)
  /\ rows' = Merged(rows, drains[d].staged)
  /\ audits' = audits \cup drains[d].keys
  /\ drains' = [drains EXCEPT ![d] = NoDrain]

\* The event a drain of kind op records for a row it has written as new.
Event(op, new) == IF op = "retry" THEN "retry_executed" ELSE new.reconciliation

\* A commit changes exactly the staged rows, and records one event of each,
\* which was not recorded before.
LEMMA CommitFacts ==
  ASSUME AdapterInv, NEW d \in Drains, Commits(d)
  PROVE  LET x == drains[d] IN
         /\ x \in Drain /\ DrainOK(x)
         /\ DOMAIN x.staged \subseteq Rows
         /\ rows' \in [Rows -> Row \cup {NoRow}]
         /\ audits' \subseteq AuditKey \cup ExternalKey
         /\ \A r \in Rows : r \notin DOMAIN x.staged => rows'[r] = rows[r]
         /\ \A r \in DOMAIN x.staged :
              /\ x.staged[r] \in Row /\ rows'[r] = x.staged[r]
              /\ StagedOK(x.op, r, x.staged[r])
              /\ ~Recorded(Event(x.op, x.staged[r]), r, x.staged[r].attempt)
         /\ \A what, q, n : Recorded(what, q, n)' <=>
              \/ Recorded(what, q, n)
              \/ /\ q \in DOMAIN x.staged
                 /\ what = Event(x.op, x.staged[q])
                 /\ n = x.staged[q].attempt
<1> DEFINE x == drains[d]
<1>1. x \in Drain /\ DrainOK(x)
  BY DEF AdapterInv, Types, DrainsOK, Commits, OpenDrain
<1>2. /\ rows' = Merged(rows, x.staged)
      /\ audits' = audits \cup x.keys
  BY DEF Commits
<1> HIDE DEF x
<1>3. x.staged \in Part /\ x.keys \subseteq AuditKey
  BY <1>1 DEF Drain
<1>4. /\ DOMAIN x.staged \subseteq Rows
      /\ \A r \in DOMAIN x.staged : x.staged[r] \in Row
  BY <1>3, PartFacts
<1>5. rows \in [Rows -> Row \cup {NoRow}] /\ audits \subseteq AuditKey \cup ExternalKey
  BY DEF AdapterInv, Types
<1>6. rows' = [r \in Rows |-> IF r \in DOMAIN x.staged THEN x.staged[r] ELSE rows[r]]
  <2>1. DOMAIN rows \cup DOMAIN x.staged = Rows
    BY <1>4, <1>5
  <2> QED  BY <1>2, <2>1 DEF Merged
<1>7. rows' \in [Rows -> Row \cup {NoRow}]
  BY <1>4, <1>5, <1>6
<1>8. audits' \subseteq AuditKey \cup ExternalKey
  BY <1>2, <1>3, <1>5
<1>9. x.keys = {StagedKey(x.op, r, x.staged[r]) : r \in DOMAIN x.staged}
      /\ x.keys \cap audits = {}
  BY <1>1 DEF DrainOK
<1>10. ASSUME NEW r \in DOMAIN x.staged
       PROVE  /\ StagedOK(x.op, r, x.staged[r]) /\ rows'[r] = x.staged[r]
              /\ ~Recorded(Event(x.op, x.staged[r]), r, x.staged[r].attempt)
  <2>1. StagedKey(x.op, r, x.staged[r]) \notin audits
    BY <1>9
  <2> QED
    BY <1>1, <1>4, <1>6, <2>1 DEF DrainOK, Recorded, Event, StagedKey
<1>11. ASSUME NEW what, NEW q, NEW n
       PROVE  Recorded(what, q, n)' <=>
                \/ Recorded(what, q, n)
                \/ /\ q \in DOMAIN x.staged
                   /\ what = Event(x.op, x.staged[q])
                   /\ n = x.staged[q].attempt
  <2> DEFINE k == [what |-> what, row |-> q, attempt |-> n]
  <2>1. k \in x.keys <=> /\ q \in DOMAIN x.staged
                         /\ what = Event(x.op, x.staged[q])
                         /\ n = x.staged[q].attempt
    <3>1. ASSUME k \in x.keys
          PROVE  /\ q \in DOMAIN x.staged
                 /\ what = Event(x.op, x.staged[q])
                 /\ n = x.staged[q].attempt
      <4>1. PICK r \in DOMAIN x.staged : k = StagedKey(x.op, r, x.staged[r])
        BY <1>9, <3>1
      <4>2. k = [what |-> Event(x.op, x.staged[r]), row |-> r,
                 attempt |-> x.staged[r].attempt]
        BY <4>1 DEF StagedKey, Event
      <4> QED  BY <4>2
    <3>2. ASSUME q \in DOMAIN x.staged,
                 what = Event(x.op, x.staged[q]),
                 n = x.staged[q].attempt
          PROVE  k \in x.keys
      <4>1. k = StagedKey(x.op, q, x.staged[q])
        BY <3>2 DEF StagedKey, Event
      <4> QED  BY <1>9, <3>2, <4>1
    <3> QED  BY <3>1, <3>2
  <2>2. Recorded(what, q, n)' <=> k \in audits \cup x.keys
    BY <1>2 DEF Recorded
  <2> QED  BY <2>1, <2>2 DEF Recorded
<1>12. \A r \in Rows : r \notin DOMAIN x.staged => rows'[r] = rows[r]
  BY <1>6
<1>13. /\ x \in Drain /\ DrainOK(x)
       /\ DOMAIN x.staged \subseteq Rows
       /\ rows' \in [Rows -> Row \cup {NoRow}]
       /\ audits' \subseteq AuditKey \cup ExternalKey
       /\ \A r \in Rows : r \notin DOMAIN x.staged => rows'[r] = rows[r]
       /\ \A r \in DOMAIN x.staged :
            /\ x.staged[r] \in Row /\ rows'[r] = x.staged[r]
            /\ StagedOK(x.op, r, x.staged[r])
            /\ ~Recorded(Event(x.op, x.staged[r]), r, x.staged[r].attempt)
  BY <1>1, <1>4, <1>7, <1>8, <1>10, <1>12
<1> QED  BY <1>11, <1>13 DEF x

\* What a commit leaves true of the rows, whoever commits: a staged row was
\* there with the same bound and naming, an event stays recorded.
LEMMA CommitKeeps ==
  ASSUME AdapterInv, NEW d \in Drains, Commits(d)
  PROVE  /\ \A r \in Rows :
              /\ rows'[r] = NoRow <=> rows[r] = NoRow
              /\ rows'[r].maxAttempts = rows[r].maxAttempts
              /\ rows'[r].tracked = rows[r].tracked
         /\ \A what, q, n : Recorded(what, q, n) => Recorded(what, q, n)'
         /\ \A q, n : Executed(q, n) => Executed(q, n)'
<1> DEFINE x == drains[d]
<1>1. /\ DOMAIN x.staged \subseteq Rows
      /\ \A r \in Rows : r \notin DOMAIN x.staged => rows'[r] = rows[r]
      /\ \A r \in DOMAIN x.staged :
           /\ x.staged[r] \in Row /\ rows'[r] = x.staged[r]
           /\ StagedOK(x.op, r, x.staged[r])
  BY CommitFacts
<1>2. \A what, q, n : Recorded(what, q, n) => Recorded(what, q, n)'
  BY CommitFacts
<1> HIDE DEF x
<1> QED  BY <1>1, <1>2, NoRowIsNone DEF StagedOK, Executed

LEMMA CommitMatches ==
  ASSUME AdapterInv, NEW d \in Drains, Commits(d)
  PROVE  RowsMatchAudits'
<1> DEFINE x == drains[d]
<1>1. x \in Drain /\ DOMAIN x.staged \subseteq Rows
  BY CommitFacts
<1>2. /\ \A r \in Rows : r \notin DOMAIN x.staged => rows'[r] = rows[r]
      /\ \A r \in DOMAIN x.staged :
           /\ x.staged[r] \in Row /\ rows'[r] = x.staged[r]
           /\ StagedOK(x.op, r, x.staged[r])
  BY CommitFacts
<1>3. \A r \in DOMAIN x.staged : \A what, n :
        what = Event(x.op, x.staged[r]) /\ n = x.staged[r].attempt
        => Recorded(what, r, n)'
  BY CommitFacts
<1>4. x.op \in {"reconcile", "retry"} /\ x.keys \subseteq AuditKey
  BY <1>1 DEF Drain
<1>5. x.keys = {StagedKey(x.op, r, x.staged[r]) : r \in DOMAIN x.staged}
      /\ audits' = audits \cup x.keys
  BY CommitFacts DEF DrainOK, Commits
<1> HIDE DEF x
<1>6. \A i \in Intents : rows'[<<i, "run">>] = NoRow <=> rows'[<<i, "action">>] = NoRow
  <2>1. \A i \in Intents : <<i, "run">> \in Rows /\ <<i, "action">> \in Rows
    BY DEF Rows, Kinds
  <2> QED  BY <2>1, CommitKeeps DEF AdapterInv, RowsMatchAudits
<1>7. ASSUME NEW k \in audits', k \in AuditKey
      PROVE  rows'[k.row] # NoRow
  <2>1. k.row \in Rows
    BY <1>7 DEF AuditKey
  <2>2. CASE k \in audits
    BY <1>7, <2>1, <2>2, CommitKeeps DEF AdapterInv, RowsMatchAudits
  <2>3. CASE k \in x.keys
    <3>1. PICK r \in DOMAIN x.staged : k = StagedKey(x.op, r, x.staged[r])
      BY <1>5, <2>3
    <3>2. k.row = r
      BY <3>1 DEF StagedKey
    <3> QED  BY <1>2, <3>2, NoRowIsNone
  <2> QED  BY <1>5, <2>2, <2>3
<1>8. ASSUME NEW r \in Rows
      PROVE  /\ rows'[r].reconciliation = "pending" =>
                  rows'[r].attempt = 1 \/ Executed(r, rows[r].attempt)'
             /\ rows'[r].reconciliation = "retry_scheduled" =>
                  Recorded("retry_scheduled", r, rows[r].attempt)'
  <2>1. CASE r \notin DOMAIN x.staged
    <3>1. rows'[r] = rows[r]
      BY <1>2, <2>1
    <3>2. /\ Executed(r, rows[r].attempt) => Executed(r, rows[r].attempt)'
          /\ Recorded("retry_scheduled", r, rows[r].attempt)
             => Recorded("retry_scheduled", r, rows[r].attempt)'
      BY <3>1, CommitKeeps
    <3> QED  BY <3>1, <3>2 DEF AdapterInv, RowsMatchAudits
  <2>2. CASE r \in DOMAIN x.staged
    <3>1. /\ rows'[r] = x.staged[r] /\ StagedOK(x.op, r, x.staged[r])
          /\ \A what, n : what = Event(x.op, x.staged[r]) /\ n = x.staged[r].attempt
               => Recorded(what, r, n)'
          /\ rows[r] # NoRow
      BY <1>2, <1>3, <2>2 DEF StagedOK
    <3>2. CASE x.op = "retry"
      <4>1. rows'[r].reconciliation = "pending"
        <5>1. rows[r] \in Row
          BY <3>1 DEF AdapterInv, Types
        <5> QED  BY <3>1, <3>2, <5>1, RetriedRow DEF StagedOK
      <4>2. Executed(r, rows[r].attempt)'
        BY <3>1, <3>2 DEF Event, Executed
      <4> QED  BY <4>1, <4>2
    <3>3. CASE x.op = "reconcile"
      BY <3>1, <3>3 DEF StagedOK, Event, Decisions
    <3> QED  BY <1>4, <3>2, <3>3
  <2> QED  BY <2>1, <2>2
<1> QED  BY <1>6, <1>7, <1>8 DEF RowsMatchAudits, Executed, Recorded

LEMMA CommitDrains ==
  ASSUME AdapterInv, NEW d \in Drains, Commits(d)
  PROVE  LocksExclude' /\ DrainsOK'
<1> DEFINE x == drains[d]
<1>1. /\ x \in Drain /\ DrainOK(x)
      /\ \A r \in Rows : r \notin DOMAIN x.staged => rows'[r] = rows[r]
      /\ \A r \in DOMAIN x.staged :
           /\ x.staged[r] \in Row /\ rows'[r] = x.staged[r]
           /\ StagedOK(x.op, r, x.staged[r])
  BY CommitFacts
<1>2. \A what, q, n : Recorded(what, q, n)' <=>
        \/ Recorded(what, q, n)
        \/ /\ q \in DOMAIN x.staged
           /\ what = Event(x.op, x.staged[q])
           /\ n = x.staged[q].attempt
  BY CommitFacts
<1>3. \A e \in Drains : OpenDrain(e)' =>
        OpenDrain(e) /\ e # d /\ drains'[e] = drains[e]
  BY DEF Commits, OpenDrain, AdapterInv, Types
<1>4. LocksExclude'
  BY <1>3 DEF AdapterInv, LocksExclude
<1>5. ASSUME NEW e \in Drains, OpenDrain(e)'
      PROVE  DrainOK(drains[e])'
  <2> DEFINE y == drains[e]
  <2>1. y \in Drain /\ DrainOK(y) /\ y' = y
    BY <1>3, <1>5 DEF AdapterInv, Types, DrainsOK, OpenDrain
  <2>2. \A r \in DOMAIN y.staged : r \notin DOMAIN x.staged
    BY <1>3, <1>5 DEF AdapterInv, LocksExclude, Commits
  <2>3. y.seen \in Part /\ y.staged \in Part
    BY <2>1 DEF Drain
  <2>4. ASSUME NEW q \in DOMAIN y.seen
        PROVE  SeenOK(y.op, q, y.seen[q])'
    <3> DEFINE old == y.seen[q]
    <3>1. q \in Rows /\ SeenOK(y.op, q, old) /\ old' = old
      BY <2>1, <2>3, <2>4, PartFacts DEF DrainOK
    <3>2. /\ rows'[q] # NoRow
          /\ rows'[q].maxAttempts = old.maxAttempts
          /\ rows'[q].tracked = old.tracked
      BY <3>1, CommitKeeps DEF SeenOK
    <3>3. Executed(q, old.attempt) => Executed(q, old.attempt)'
      BY <3>1, CommitKeeps
    <3>4. y.op = "retry" =>
            \/ Executed(q, old.attempt)'
            \/ /\ rows'[q].reconciliation = "retry_scheduled"
               /\ rows'[q].due /\ rows'[q].attempt = old.attempt
      <4>1. CASE q \notin DOMAIN x.staged
        BY <1>1, <3>1, <3>3, <4>1 DEF SeenOK
      <4>2. CASE q \in DOMAIN x.staged
        <5>1. StagedOK(x.op, q, x.staged[q])
          BY <1>1, <4>2
        <5>2. CASE x.op = "reconcile"
          BY <3>1, <3>3, <5>1, <5>2 DEF SeenOK, StagedOK, Pending
        <5>3. CASE x.op = "retry"
          <6>1. rows[q] \in Row
            BY <3>1 DEF SeenOK, AdapterInv, Types
          <6>2. x.staged[q].attempt = rows[q].attempt
            BY <5>1, <5>3, <6>1, RetriedRow DEF StagedOK
          <6>3. ASSUME rows[q].attempt = old.attempt
                PROVE  Executed(q, old.attempt)'
            BY <1>2, <3>1, <4>2, <5>3, <6>2, <6>3 DEF Event, Executed
          <6> QED  BY <3>1, <3>3, <6>3 DEF SeenOK
        <5> QED  BY <1>1, <5>2, <5>3 DEF Drain
      <4> QED  BY <4>1, <4>2
    <3>5. y.op = "reconcile" =>
            Pending(old) /\ (old.attempt = 1 \/ Executed(q, old.attempt)')
      BY <3>1, <3>3 DEF SeenOK
    <3> QED  BY <2>1, <3>1, <3>2, <3>4, <3>5 DEF SeenOK
  <2>5. ASSUME NEW q \in DOMAIN y.staged
        PROVE  StagedOK(y.op, q, y.staged[q])'
    <3> DEFINE new == y.staged[q]
    <3>1. q \in Rows /\ StagedOK(y.op, q, new) /\ new' = new
      BY <2>1, <2>3, <2>5, PartFacts DEF DrainOK
    <3>2. rows'[q] = rows[q]
      BY <1>1, <2>2, <2>5, <3>1
    <3>3. \A n : Executed(q, n) => Executed(q, n)'
      BY CommitKeeps
    <3> QED  BY <2>1, <3>1, <3>2, <3>3 DEF StagedOK
  <2>6. y.keys \cap audits' = {}
    <3>1. /\ y.keys = {StagedKey(y.op, r, y.staged[r]) : r \in DOMAIN y.staged}
          /\ y.keys \cap audits = {}
      BY <2>1 DEF DrainOK
    <3>2. /\ x.keys = {StagedKey(x.op, r, x.staged[r]) : r \in DOMAIN x.staged}
          /\ audits' = audits \cup x.keys
      BY <1>1 DEF DrainOK, Commits
    <3>3. \A k \in y.keys : k.row \in DOMAIN y.staged
      BY <3>1 DEF StagedKey
    <3>4. \A k \in x.keys : k.row \in DOMAIN x.staged
      BY <3>2 DEF StagedKey
    <3> QED  BY <2>2, <3>1, <3>2, <3>3, <3>4
  <2>7. FlowOK(y)'
    <3>1. FlowOK(y) /\ \A q, n : Executed(q, n) => Executed(q, n)'
      BY <2>1, CommitKeeps DEF DrainOK
    <3> HIDE DEF y
    <3> QED  BY <2>1, <3>1 DEF FlowOK
  <2>8. y'.keys = {StagedKey(y'.op, r, y'.staged[r]) : r \in DOMAIN y'.staged}
    BY <2>1 DEF DrainOK
  <2> QED  BY <2>1, <2>4, <2>5, <2>6, <2>7, <2>8 DEF DrainOK
<1> QED  BY <1>4, <1>5 DEF DrainsOK

LEMMA CommitAttempts ==
  ASSUME AdapterInv, NEW d \in Drains, Commits(d)
  PROVE  AttemptsInOrder'
<1> DEFINE x == drains[d]
<1>1. /\ x.op \in {"reconcile", "retry"}
      /\ \A r \in DOMAIN x.staged :
           /\ x.staged[r] \in Row /\ StagedOK(x.op, r, x.staged[r])
           /\ rows'[r] = x.staged[r]
  BY CommitFacts DEF Drain
<1>2. \A what, q, n : Recorded(what, q, n)' <=>
        \/ Recorded(what, q, n)
        \/ /\ q \in DOMAIN x.staged
           /\ what = Event(x.op, x.staged[q])
           /\ n = x.staged[q].attempt
  BY CommitFacts
<1> HIDE DEF x
<1> SUFFICES ASSUME NEW r \in Rows, rows'[r] # NoRow, NEW n \in 1 .. MaxAttempts
             PROVE  /\ Recorded("retry_scheduled", r, n)' =>
                         /\ n \in 2 .. rows'[r].maxAttempts
                         /\ n > 2 => Executed(r, n - 1)'
                    /\ Executed(r, n)' => Recorded("retry_scheduled", r, n)'
  BY DEF AttemptsInOrder
<1>3. /\ rows[r] # NoRow
      /\ rows'[r].maxAttempts = rows[r].maxAttempts
      /\ Executed(r, n - 1) => Executed(r, n - 1)'
      /\ Recorded("retry_scheduled", r, n) => Recorded("retry_scheduled", r, n)'
  BY CommitKeeps
<1>4. ASSUME Recorded("retry_scheduled", r, n)'
      PROVE  n \in 2 .. rows'[r].maxAttempts /\ (n > 2 => Executed(r, n - 1)')
  <2>1. CASE Recorded("retry_scheduled", r, n)
    BY <1>3, <2>1 DEF AdapterInv, AttemptsInOrder
  <2>2. CASE ~Recorded("retry_scheduled", r, n)
    <3>1. /\ r \in DOMAIN x.staged /\ n = x.staged[r].attempt
          /\ Event(x.op, x.staged[r]) = "retry_scheduled"
      BY <1>2, <1>4, <2>2
    <3>2. x.op = "reconcile" /\ x.staged[r].reconciliation = "retry_scheduled"
      BY <1>1, <3>1 DEF Event
    <3> QED  BY <1>1, <1>3, <3>1, <3>2 DEF StagedOK
  <2> QED  BY <2>1, <2>2
<1>5. ASSUME Executed(r, n)'
      PROVE  Recorded("retry_scheduled", r, n)'
  <2>1. CASE Executed(r, n)
    BY <1>3, <2>1 DEF AdapterInv, AttemptsInOrder
  <2>2. CASE ~Executed(r, n)
    <3>1. /\ r \in DOMAIN x.staged /\ n = x.staged[r].attempt
          /\ Event(x.op, x.staged[r]) = "retry_executed"
      BY <1>2, <1>5, <2>2 DEF Executed
    <3>2. x.op = "retry"
      BY <1>1, <3>1 DEF Event, StagedOK, Decisions
    <3>3. rows[r] \in Row
      BY <1>3 DEF AdapterInv, Types
    <3>4. rows[r].reconciliation = "retry_scheduled" /\ rows[r].attempt = n
      BY <1>1, <3>1, <3>2, <3>3, RetriedRow DEF StagedOK, Due, Scheduled
    <3> QED  BY <1>3, <3>4 DEF AdapterInv, RowsMatchAudits
  <2> QED  BY <2>1, <2>2
<1> QED  BY <1>4, <1>5

\* No commit writes to a row that has its verdict: what a drain staged was
\* pending or due, and is so until the drain ends.
LEMMA VerdictKept ==
  ASSUME AdapterInv, NEW d \in Drains, Commits(d), NEW r \in Rows,
         rows[r].reconciliation \in {"matched", "needs_review"}
  PROVE  r \notin DOMAIN drains[d].staged /\ rows'[r] = rows[r]
<1> DEFINE x == drains[d]
<1>1. /\ x.op \in {"reconcile", "retry"}
      /\ \A q \in DOMAIN x.staged : StagedOK(x.op, q, x.staged[q])
      /\ \A q \in Rows : q \notin DOMAIN x.staged => rows'[q] = rows[q]
  BY CommitFacts DEF Drain
<1>2. r \notin DOMAIN x.staged
  BY <1>1 DEF StagedOK, Pending, Due, Scheduled
<1> QED  BY <1>1, <1>2

LEMMA CommitFlow ==
  ASSUME AdapterInv, NEW d \in Drains, Commits(d),
         flow' = IF drains[d].flow = NoFlow THEN flow ELSE drains[d].flow
  PROVE  flow' \in FlowStates /\ FlowIsEarned'
<1> DEFINE x == drains[d]
<1>1. /\ x \in Drain /\ FlowOK(x)
      /\ DOMAIN x.staged \subseteq Rows
      /\ \A r \in DOMAIN x.staged :
           /\ x.staged[r] \in Row /\ StagedOK(x.op, r, x.staged[r])
           /\ rows'[r] = x.staged[r]
  BY CommitFacts DEF DrainOK
<1>2. \A what, q, n : Recorded(what, q, n)' <=>
        \/ Recorded(what, q, n)
        \/ /\ q \in DOMAIN x.staged
           /\ what = Event(x.op, x.staged[q])
           /\ n = x.staged[q].attempt
  BY CommitFacts
<1>3. x.op \in {"reconcile", "retry"} /\ x.flow \in FlowStates \cup {NoFlow}
  BY <1>1 DEF Drain
<1>4. flow' \in FlowStates
  BY <1>3 DEF AdapterInv, Types
<1>5. CASE x.flow = NoFlow
  <2>1. flow' = flow /\ FlowReasons
    BY <1>5, FlowCases DEF AdapterInv
  <2>2. FlowReasons'
    BY <2>1, CommitKeeps, VerdictKept DEF FlowReasons
  <2> QED  BY <1>4, <2>2, FlowCases
<1>6. CASE x.flow # NoFlow
  <2>1. PICK r \in DOMAIN x.staged :
          /\ x.staged[r].tracked
          /\ x.flow = FlowState(x.staged[r].reconciliation)
          /\ x.staged[r].reconciliation = "matched" =>
               x.staged[r].attempt > 1 /\ Executed(r, x.staged[r].attempt)
    BY <1>1, <1>6 DEF FlowOK
  <2>2. x.op = "reconcile" /\ flow' = x.flow
    BY <1>1, <1>3, <1>6 DEF FlowOK
  <2> DEFINE new == x.staged[r]
  <2>3. /\ new \in Row /\ new # NoRow /\ new.tracked /\ rows'[r] = new
        /\ r \in Rows /\ StagedOK("reconcile", r, new)
    BY <1>1, <2>1, <2>2, NoRowIsNone
  <2>4. PICK v \in Decisions, n \in 1 .. MaxAttempts :
          v = new.reconciliation /\ n = new.attempt
    BY <2>3 DEF StagedOK, Row
  <2>5. /\ rows'[r] # NoRow /\ rows'[r].tracked
        /\ rows'[r].reconciliation = v /\ flow' = FlowState(v)
    BY <2>1, <2>2, <2>3, <2>4
  <2>6. Recorded(v, r, n)'
    BY <1>2, <2>1, <2>2, <2>4 DEF Event
  <2>7. v = "matched" => n \in 2 .. MaxAttempts /\ Executed(r, n)'
    BY <2>1, <2>4, CommitKeeps
  <2>8. v = "retry_scheduled" => n \in 2 .. MaxAttempts
    BY <2>3, <2>4 DEF StagedOK
  <2> HIDE DEF new, x
  <2>9. FlowReasons'
    BY <2>3, <2>5, <2>6, <2>7, <2>8 DEF FlowReasons, FlowState, Decisions
  <2> QED  BY <1>4, <2>9, FlowCases
<1> QED  BY <1>5, <1>6

\* The tasks of a reconciling drain: one for each row it hands on.
LEMMA FollowupFacts ==
  ASSUME NEW d
  PROVE  LET new == FollowupTasks(d)
             staged == drains[d].staged
         IN  /\ \A t \in DOMAIN new :
                  /\ t.row \in DOMAIN staged
                  /\ t.decision = staged[t.row].reconciliation
                  /\ t.attempt = staged[t.row].attempt
                  /\ t = [row |-> t.row, decision |-> t.decision,
                          attempt |-> t.attempt]
                  /\ t.decision \in {"retry_scheduled", "needs_review"}
                  /\ new[t] = IF t.decision = "retry_scheduled"
                              THEN "waiting" ELSE "blocked"
             /\ \A r \in DOMAIN staged :
                  staged[r].reconciliation \in {"retry_scheduled", "needs_review"}
                  => [row |-> r, decision |-> staged[r].reconciliation,
                      attempt |-> staged[r].attempt] \in DOMAIN new
BY DEF FollowupTasks

LEMMA CommitReconcileStep ==
  ASSUME AdapterInv, NEW d \in Drains, CommitReconcile(d)
  PROVE  AdapterInv'
<1> DEFINE x == drains[d]
           new == FollowupTasks(d)
<1>1. /\ Commits(d) /\ x.op = "reconcile"
      /\ tasks' = Merged(tasks, new)
      /\ flow' = IF x.flow = NoFlow THEN flow ELSE x.flow
  BY NoDrainIsNone DEF CommitReconcile, Commits, OpenDrain
<1>2. /\ x \in Drain /\ DOMAIN x.staged \subseteq Rows
      /\ rows' \in [Rows -> Row \cup {NoRow}]
      /\ audits' \subseteq AuditKey \cup ExternalKey
      /\ \A r \in Rows : r \notin DOMAIN x.staged => rows'[r] = rows[r]
      /\ \A r \in DOMAIN x.staged :
           /\ x.staged[r] \in Row /\ rows'[r] = x.staged[r]
           /\ StagedOK(x.op, r, x.staged[r])
           /\ ~Recorded(Event(x.op, x.staged[r]), r, x.staged[r].attempt)
  BY <1>1, CommitFacts
<1>3. \A what, q, n : Recorded(what, q, n)' <=>
        \/ Recorded(what, q, n)
        \/ /\ q \in DOMAIN x.staged
           /\ what = Event(x.op, x.staged[q])
           /\ n = x.staged[q].attempt
  BY <1>1, CommitFacts
<1>4. /\ \A t \in DOMAIN new :
           /\ t.row \in DOMAIN x.staged
           /\ t.decision = x.staged[t.row].reconciliation
           /\ t.attempt = x.staged[t.row].attempt
           /\ t = [row |-> t.row, decision |-> t.decision, attempt |-> t.attempt]
           /\ t.decision \in {"retry_scheduled", "needs_review"}
           /\ new[t] = IF t.decision = "retry_scheduled"
                       THEN "waiting" ELSE "blocked"
      /\ \A r \in DOMAIN x.staged :
           x.staged[r].reconciliation \in {"retry_scheduled", "needs_review"}
           => [row |-> r, decision |-> x.staged[r].reconciliation,
               attempt |-> x.staged[r].attempt] \in DOMAIN new
  BY FollowupFacts
<1>5. flow' \in FlowStates /\ FlowIsEarned'
  BY <1>1, CommitFlow
<1> HIDE DEF x, new
<1>6. /\ DOMAIN tasks' = DOMAIN tasks \cup DOMAIN new
      /\ \A t \in DOMAIN new : tasks'[t] = new[t]
      /\ \A t \in DOMAIN tasks \ DOMAIN new : tasks'[t] = tasks[t]
  BY <1>1 DEF Merged
<1>7. ASSUME NEW t \in DOMAIN new
      PROVE  t \in TaskKey
  <2>1. t.row \in Rows /\ t.attempt \in 1 .. MaxAttempts
    BY <1>2, <1>4 DEF Row
  <2> QED  BY <1>4, <2>1 DEF TaskKey
<1>8. DOMAIN tasks' \subseteq TaskKey /\ tasks' \in [DOMAIN tasks' -> TaskState]
  <2>1. \A t \in DOMAIN tasks' : tasks'[t] \in TaskState
    BY <1>4, <1>6 DEF AdapterInv, Types, TaskState
  <2>2. tasks' = [t \in DOMAIN tasks' |-> tasks'[t]]
    BY <1>1 DEF Merged
  <2> QED  BY <1>6, <1>7, <2>1, <2>2 DEF AdapterInv, Types
<1>9. drains' \in [Drains -> Drain \cup {NoDrain}]
  BY <1>1 DEF Commits, AdapterInv, Types
<1>10. Types'
  BY <1>2, <1>5, <1>8, <1>9 DEF Types
<1>11. WaitingForRetry'
  BY <1>4, <1>6 DEF AdapterInv, WaitingForRetry
<1>12. ASSUME NEW r \in Rows,
              rows'[r].reconciliation \in {"retry_scheduled", "needs_review"}
       PROVE  [row |-> r, decision |-> rows'[r].reconciliation,
               attempt |-> rows'[r].attempt] \in DOMAIN tasks'
  <2>1. CASE r \in DOMAIN x.staged
    BY <1>2, <1>4, <1>6, <1>12, <2>1
  <2>2. CASE r \notin DOMAIN x.staged
    <3>1. rows'[r] = rows[r]
      BY <1>2, <2>2
    <3> QED  BY <1>6, <1>12, <3>1 DEF AdapterInv, FollowupsMatchRows
  <2> QED  BY <2>1, <2>2
<1>13. ASSUME NEW t \in DOMAIN tasks', tasks'[t] = "waiting"
       PROVE  /\ rows'[t.row].reconciliation = "retry_scheduled"
              /\ rows'[t.row].attempt = t.attempt
              /\ ~Executed(t.row, t.attempt)'
  <2>1. \A q, n : Executed(q, n)' => Executed(q, n)
    <3>1. \A q \in DOMAIN x.staged : Event(x.op, x.staged[q]) # "retry_executed"
      BY <1>1, <1>2 DEF Event, StagedOK, Decisions
    <3> QED  BY <1>3, <3>1 DEF Executed
  <2>2. CASE t \in DOMAIN new
    <3>1. /\ t.row \in DOMAIN x.staged /\ t.decision = "retry_scheduled"
          /\ x.staged[t.row].reconciliation = "retry_scheduled"
          /\ t.attempt = x.staged[t.row].attempt
      BY <1>4, <1>6, <1>13, <2>2
    <3>2. ~Recorded("retry_scheduled", t.row, t.attempt)
      BY <1>1, <1>2, <3>1 DEF Event
    <3>3. t.row \in Rows /\ rows[t.row] # NoRow /\ t.attempt \in 1 .. MaxAttempts
      BY <1>2, <3>1 DEF StagedOK, Row
    <3>4. ~Executed(t.row, t.attempt)
      BY <3>2, <3>3 DEF AdapterInv, AttemptsInOrder
    <3> QED  BY <1>2, <2>1, <3>1, <3>4
  <2>3. CASE t \notin DOMAIN new
    <3>1. /\ t \in DOMAIN tasks /\ tasks[t] = "waiting"
          /\ t.row \in Rows
      BY <1>6, <1>13, <2>3 DEF AdapterInv, Types, TaskKey
    <3>2. /\ rows[t.row].reconciliation = "retry_scheduled"
          /\ rows[t.row].attempt = t.attempt /\ ~Executed(t.row, t.attempt)
      BY <3>1 DEF AdapterInv, FollowupsMatchRows
    <3>3. t.row \notin DOMAIN x.staged
      BY <1>1, <1>2, <3>2 DEF StagedOK, Pending
    <3> QED  BY <1>2, <2>1, <3>1, <3>2, <3>3
  <2> QED  BY <2>2, <2>3
<1>14. FollowupsMatchRows'
  BY <1>12, <1>13 DEF FollowupsMatchRows
<1> QED
  BY <1>1, <1>5, <1>10, <1>11, <1>14, CommitMatches, CommitDrains, CommitAttempts
  DEF AdapterInv

LEMMA CommitRetryStep ==
  ASSUME AdapterInv, NEW d \in Drains, CommitRetry(d)
  PROVE  AdapterInv'
<1> DEFINE x == drains[d]
<1>1. /\ Commits(d) /\ x.op = "retry"
      /\ tasks' = ClosedTasks(d) /\ flow' = flow
  BY NoDrainIsNone DEF CommitRetry, Commits, OpenDrain
<1>2. /\ x \in Drain /\ DrainOK(x) /\ DOMAIN x.staged \subseteq Rows
      /\ rows' \in [Rows -> Row \cup {NoRow}]
      /\ audits' \subseteq AuditKey \cup ExternalKey
      /\ \A r \in Rows : r \notin DOMAIN x.staged => rows'[r] = rows[r]
      /\ \A r \in DOMAIN x.staged :
           rows'[r] = x.staged[r] /\ StagedOK(x.op, r, x.staged[r])
  BY <1>1, CommitFacts
<1>3. \A what, q, n : Recorded(what, q, n)' <=>
        \/ Recorded(what, q, n)
        \/ /\ q \in DOMAIN x.staged
           /\ what = Event(x.op, x.staged[q])
           /\ n = x.staged[q].attempt
  BY <1>1, CommitFacts
<1>4. flow' \in FlowStates /\ FlowIsEarned'
  <2>1. x.flow = NoFlow
    BY <1>1, <1>2 DEF DrainOK, FlowOK
  <2> QED  BY <1>1, <2>1, CommitFlow
<1>5. /\ DOMAIN tasks' = DOMAIN tasks
      /\ tasks' \in [DOMAIN tasks -> TaskState]
      /\ \A t \in DOMAIN tasks : tasks'[t] = "waiting" =>
           /\ tasks[t] = "waiting"
           /\ t.row \in DOMAIN x.staged => t.decision # "retry_scheduled"
  BY <1>1 DEF ClosedTasks, AdapterInv, Types, TaskState
<1>6. drains' \in [Drains -> Drain \cup {NoDrain}]
  BY <1>1 DEF Commits, AdapterInv, Types
<1>7. Types'
  BY <1>2, <1>4, <1>5, <1>6 DEF AdapterInv, Types
<1>8. WaitingForRetry'
  BY <1>5 DEF AdapterInv, WaitingForRetry
<1>9. \A r \in DOMAIN x.staged : rows'[r].reconciliation = "pending"
  <2> SUFFICES ASSUME NEW r \in DOMAIN x.staged
               PROVE  rows'[r].reconciliation = "pending"
    OBVIOUS
  <2>1. rows[r] \in Row /\ rows'[r] = AfterRetry(r, rows[r])
    BY <1>1, <1>2 DEF StagedOK, AdapterInv, Types
  <2> QED  BY <2>1, RetriedRow
<1> HIDE DEF x
<1>10. ASSUME NEW r \in Rows,
              rows'[r].reconciliation \in {"retry_scheduled", "needs_review"}
       PROVE  [row |-> r, decision |-> rows'[r].reconciliation,
               attempt |-> rows'[r].attempt] \in DOMAIN tasks'
  <2>1. rows'[r] = rows[r]
    BY <1>2, <1>9, <1>10
  <2> QED  BY <1>5, <1>10, <2>1 DEF AdapterInv, FollowupsMatchRows
<1>11. ASSUME NEW t \in DOMAIN tasks', tasks'[t] = "waiting"
       PROVE  /\ rows'[t.row].reconciliation = "retry_scheduled"
              /\ rows'[t.row].attempt = t.attempt
              /\ ~Executed(t.row, t.attempt)'
  <2>1. /\ t \in DOMAIN tasks /\ tasks[t] = "waiting"
        /\ t.row \in Rows /\ t.row \notin DOMAIN x.staged
    BY <1>5, <1>11 DEF AdapterInv, Types, TaskKey, WaitingForRetry
  <2>2. /\ rows[t.row].reconciliation = "retry_scheduled"
        /\ rows[t.row].attempt = t.attempt /\ ~Executed(t.row, t.attempt)
    BY <2>1 DEF AdapterInv, FollowupsMatchRows
  <2> QED  BY <1>2, <1>3, <2>1, <2>2 DEF Executed
<1>12. FollowupsMatchRows'
  BY <1>10, <1>11 DEF FollowupsMatchRows
<1> QED
  BY <1>1, <1>4, <1>7, <1>8, <1>12, CommitMatches, CommitDrains, CommitAttempts
  DEF AdapterInv

-----------------------------------------------------------------------------
(* The invariant.                                                          *)

LEMMA AdapterInitInv == AdapterInit => AdapterInv
<1> SUFFICES ASSUME AdapterInit  PROVE AdapterInv
  OBVIOUS
<1>1. /\ \A r \in Rows : rows[r] = NoRow
      /\ audits = {} /\ DOMAIN tasks = {} /\ flow = "execution_blocked"
      /\ \A d \in Drains : ~OpenDrain(d)
  BY DEF AdapterInit, OpenDrain
<1>2. Types
  BY DEF AdapterInit, Types, FlowStates
<1>3. RowsMatchAudits
  <2>1. \A i \in Intents : <<i, "run">> \in Rows /\ <<i, "action">> \in Rows
    BY DEF Rows, Kinds
  <2> QED  BY <1>1, <2>1, NoRowIsNone DEF RowsMatchAudits
<1>4. LocksExclude /\ DrainsOK /\ WaitingForRetry /\ AttemptsInOrder
  BY <1>1 DEF LocksExclude, DrainsOK, WaitingForRetry, AttemptsInOrder
<1>5. FollowupsMatchRows
  BY <1>1, NoRowIsNone DEF FollowupsMatchRows
<1>6. FlowIsEarned
  BY <1>1, FlowCases DEF FlowReasons
<1> QED  BY <1>2, <1>3, <1>4, <1>5, <1>6 DEF AdapterInv

LEMMA AdapterNextInv == AdapterInv /\ [AdapterNext]_adapterVars => AdapterInv'
<1> SUFFICES ASSUME AdapterInv, [AdapterNext]_adapterVars  PROVE AdapterInv'
  OBVIOUS
<1>1. CASE UNCHANGED adapterVars
  <2>1. /\ Types' /\ RowsMatchAudits' /\ LocksExclude' /\ WaitingForRetry'
        /\ AttemptsInOrder' /\ FollowupsMatchRows' /\ FlowIsEarned'
    BY <1>1 DEF adapterVars, AdapterInv, Types, RowsMatchAudits, LocksExclude,
       WaitingForRetry, AttemptsInOrder, FollowupsMatchRows, FlowIsEarned,
       Executed, Recorded, OpenDrain
  <2>2. ASSUME NEW e \in Drains, OpenDrain(e)'
        PROVE  DrainOK(drains[e])'
    <3>1. DrainOK(drains[e]) /\ drains'[e] = drains[e]
      BY <1>1, <2>2 DEF adapterVars, AdapterInv, DrainsOK, OpenDrain
    <3> QED
      BY <1>1, <3>1
      DEF adapterVars, DrainOK, SeenOK, StagedOK, FlowOK, Executed, Recorded
  <2> QED  BY <2>1, <2>2 DEF AdapterInv, DrainsOK
<1>2. ASSUME NEW i \in Intents, NEW m \in 1 .. MaxAttempts, NEW p \in Payloads,
             RecordIntent(i, m, p)
      PROVE  AdapterInv'
  BY <1>2, RecordIntentStep
<1>3. ASSUME NEW k \in ExternalKeys, NEW i \in Intents,
             NEW state \in ExternalStates, RecordExternalAction(k, i, state)
      PROVE  AdapterInv'
  BY <1>3, RecordExternalActionStep
<1>4. ASSUME NEW r \in Rows, ComesDue(r)  PROVE AdapterInv'
  BY <1>4, ComesDueStep
<1>5. ASSUME NEW t \in DOMAIN tasks, CloseTask(t)  PROVE AdapterInv'
  BY <1>5, CloseTaskStep
<1>6. ASSUME NEW d \in Drains, BeginReconcile(d) \/ BeginRetry(d)
      PROVE  AdapterInv'
  BY <1>6, BeginReconcileStep, BeginRetryStep
<1>7. ASSUME NEW d \in Drains, NEW r \in Rows,
             Reconcile(d, r) \/ ExecuteRetry(d, r)
      PROVE  AdapterInv'
  BY <1>7, ReconcileStep, ExecuteRetryStep
<1>8. ASSUME NEW d \in Drains, CommitReconcile(d) \/ CommitRetry(d)
      PROVE  AdapterInv'
  BY <1>8, CommitReconcileStep, CommitRetryStep
<1>9. ASSUME NEW d \in Drains, Rollback(d)  PROVE AdapterInv'
  BY <1>9, RollbackStep
<1> QED
  BY <1>1, <1>2, <1>3, <1>4, <1>5, <1>6, <1>7, <1>8, <1>9 DEF AdapterNext

\* The strengthening that the theorems below follow from: it says in which ways
\* what an open drain has read may be stale, and what it may have written.
THEOREM AdapterInvariant == AdapterSpec => []AdapterInv
BY AdapterInitInv, AdapterNextInv, PTL DEF AdapterSpec

\* Every value the drains and the commands beside them write to a row, an audit
\* event, a follow-up task or the workflow run has the type its table declares,
\* and no attempt number passes the bound of the queue.
THEOREM AdapterTypesCorrect == AdapterSpec => []AdapterTypeOK
<1>1. AdapterInv => AdapterTypeOK
  <2> SUFFICES ASSUME AdapterInv  PROVE AdapterTypeOK
    OBVIOUS
  <2>1. /\ rows \in [Rows -> Row \cup {NoRow}]
        /\ audits \subseteq AuditKey \cup ExternalKey
        /\ flow \in FlowStates
        /\ \A t \in DOMAIN tasks :
             t \in TaskKey /\ tasks[t] \in {"waiting", "blocked", "closed"}
    BY DEF AdapterInv, Types, TaskState
  <2>2. ASSUME NEW d \in Drains, OpenDrain(d)
        PROVE  /\ drains[d].op \in {"reconcile", "retry"}
               /\ drains[d].keys \subseteq AuditKey
               /\ drains[d].flow \in FlowStates \cup {NoFlow}
               /\ \A part \in {drains[d].seen, drains[d].staged} :
                    /\ DOMAIN part \subseteq Rows
                    /\ \A r \in DOMAIN part : part[r] \in Row
    <3>1. drains[d] \in Drain
      BY <2>2 DEF AdapterInv, Types, OpenDrain
    <3>2. drains[d].seen \in Part /\ drains[d].staged \in Part
      BY <3>1 DEF Drain
    <3> QED  BY <3>1, <3>2, PartFacts DEF Drain
  <2> QED  BY <2>1, <2>2 DEF AdapterTypeOK
<1> QED  BY <1>1, AdapterInvariant, PTL

\* The attempts of a row come one at a time and stop at the row's bound,
\* however many reconcile and retry drains work on it with stale reads: the
\* conditional updates and the unique audit keys of src/src/core/adapters.ts
\* admit one decision and one execution of each attempt.
THEOREM AttemptsComeInOrder == AdapterSpec => []AttemptsInOrder
<1>1. AdapterInv => AttemptsInOrder
  BY DEF AdapterInv
<1> QED  BY <1>1, AdapterInvariant, PTL

\* A row that awaits a retry or a review has its follow-up task, and no retry
\* task waits for an attempt that ran: createFollowupTask and closeRetryTasks
\* commit with the updates they belong to.
THEOREM FollowupsFollowRows == AdapterSpec => []FollowupsMatchRows
<1>1. AdapterInv => FollowupsMatchRows
  BY DEF AdapterInv
<1> QED  BY <1>1, AdapterInvariant, PTL

\* The state a drain gives the lead_to_cash run is earned by a row that names
\* the run, whatever other drains decide between its reads and its commit.
THEOREM FlowAlwaysEarned == AdapterSpec => []FlowIsEarned
<1>1. AdapterInv => FlowIsEarned
  BY DEF AdapterInv
<1> QED  BY <1>1, AdapterInvariant, PTL

-----------------------------------------------------------------------------
(* Steps.                                                                  *)

\* Only a commit moves a row on: every other step leaves each row's decision
\* and attempt as they are, unless the row was not there.
LEMMA OnlyCommitsDecide ==
  ASSUME AdapterInv, [AdapterNext]_adapterVars,
         \A d \in Drains : ~CommitReconcile(d) /\ ~CommitRetry(d),
         NEW r \in Rows, rows[r] # NoRow
  PROVE  /\ rows'[r].reconciliation = rows[r].reconciliation
         /\ rows'[r].attempt = rows[r].attempt
<1>0. rows \in [Rows -> Row \cup {NoRow}] /\ rows[r] \in Row
  BY DEF AdapterInv, Types
<1>1. CASE UNCHANGED rows
  BY <1>1
<1>2. ASSUME NEW i \in Intents, NEW m \in 1 .. MaxAttempts, NEW p \in Payloads,
             RecordIntent(i, m, p)
      PROVE  rows'[r] = rows[r]
  <2>1. rows[<<i, "action">>] = NoRow /\ rows[<<i, "run">>] = NoRow
    BY <1>2 DEF RecordIntent, AdapterInv, RowsMatchAudits
  <2>2. r[1] # i
    BY <2>1 DEF Rows, Kinds
  <2> QED  BY <1>2, <2>2 DEF RecordIntent
<1>3. ASSUME NEW k \in ExternalKeys, NEW i \in Intents,
             NEW state \in ExternalStates, RecordExternalAction(k, i, state)
      PROVE  /\ rows'[r].reconciliation = rows[r].reconciliation
             /\ rows'[r].attempt = rows[r].attempt
  <2> DEFINE a == <<i, "action">>
  <2>1. rows' = [rows EXCEPT ![a] = [@ EXCEPT !.state = state]]
    BY <1>3 DEF RecordExternalAction
  <2> HIDE DEF a
  <2> QED  BY <1>0, <2>1 DEF Row
<1>4. ASSUME NEW q \in Rows, ComesDue(q)
      PROVE  /\ rows'[r].reconciliation = rows[r].reconciliation
             /\ rows'[r].attempt = rows[r].attempt
  <2>1. rows' = [rows EXCEPT ![q] = [@ EXCEPT !.due = TRUE]]
    BY <1>4 DEF ComesDue
  <2> QED  BY <1>0, <2>1 DEF Row
<1>5. ASSUME NEW d \in Drains,
             \/ BeginReconcile(d) \/ BeginRetry(d) \/ Rollback(d)
             \/ \E q \in Rows : Reconcile(d, q) \/ ExecuteRetry(d, q)
      PROVE  UNCHANGED rows
  BY <1>5 DEF BeginReconcile, BeginRetry, Begin, Rollback, Reconcile, ExecuteRetry
<1>6. ASSUME NEW t \in DOMAIN tasks, CloseTask(t)  PROVE UNCHANGED rows
  BY <1>6 DEF CloseTask
<1> QED
  BY <1>1, <1>2, <1>3, <1>4, <1>5, <1>6 DEF AdapterNext, adapterVars

\* A decision is final: no drain, however stale its reads, reopens or decides
\* again what was matched or handed to review.
THEOREM VerdictsStayFinal == AdapterSpec => VerdictsAreFinal
<1> DEFINE Final ==
      \A r \in Rows : rows[r].reconciliation \in {"matched", "needs_review"} =>
        /\ rows'[r].reconciliation = rows[r].reconciliation
        /\ rows'[r].attempt = rows[r].attempt
<1>1. AdapterInv /\ [AdapterNext]_adapterVars => [Final]_adapterVars
  <2> SUFFICES ASSUME AdapterInv, [AdapterNext]_adapterVars, NEW r \in Rows,
                      rows[r].reconciliation \in {"matched", "needs_review"}
               PROVE  /\ rows'[r].reconciliation = rows[r].reconciliation
                      /\ rows'[r].attempt = rows[r].attempt
    OBVIOUS
  <2>1. rows[r] # NoRow
    BY NoRowIsNone
  <2>2. ASSUME NEW d \in Drains, CommitReconcile(d) \/ CommitRetry(d)
        PROVE  rows'[r] = rows[r]
    <3>1. Commits(d)
      BY <2>2, NoDrainIsNone DEF CommitReconcile, CommitRetry, Commits, OpenDrain
    <3> QED  BY <3>1, VerdictKept
  <2> QED  BY <2>1, <2>2, OnlyCommitsDecide
<1>2. AdapterSpec => [][Final]_adapterVars
  BY <1>1, AdapterInvariant, PTL DEF AdapterSpec
<1> QED  BY <1>2 DEF VerdictsAreFinal

\* A row leaves the retry schedule only by the execution of the attempt it waits
\* for, when that is due and for the first time: what executeAdapterRetry does
\* with a stale read never reaches the row.
THEOREM RetriesOnlyWhenDue == AdapterSpec => RetriesRunWhenDue
<1> DEFINE Runs ==
      \A r \in Rows :
        /\ rows[r].reconciliation = "retry_scheduled"
        /\ rows'[r].reconciliation # "retry_scheduled"
        => LET key == RetryKey(r, rows[r])
           IN  Due(rows[r]) /\ key \in audits' \ audits
<1>1. AdapterInv /\ [AdapterNext]_adapterVars => [Runs]_adapterVars
  <2> SUFFICES ASSUME AdapterInv, [AdapterNext]_adapterVars, NEW r \in Rows,
                      rows[r].reconciliation = "retry_scheduled",
                      rows'[r].reconciliation # "retry_scheduled"
               PROVE  /\ Due(rows[r])
                      /\ RetryKey(r, rows[r]) \in audits' \ audits
    OBVIOUS
  <2>1. rows[r] # NoRow
    BY NoRowIsNone
  <2>2. PICK d \in Drains : CommitReconcile(d) \/ CommitRetry(d)
    BY <2>1, OnlyCommitsDecide
  <2> DEFINE x == drains[d]
  <2>3. Commits(d) /\ x.op \in {"reconcile", "retry"}
    BY <2>2, NoDrainIsNone DEF CommitReconcile, CommitRetry, Commits, OpenDrain
  <2>4. /\ DrainOK(x)
        /\ r \notin DOMAIN x.staged => rows'[r] = rows[r]
        /\ r \in DOMAIN x.staged => StagedOK(x.op, r, x.staged[r])
    BY <2>3, CommitFacts
  <2>5. audits' = audits \cup x.keys
    BY <2>3 DEF Commits
  <2> HIDE DEF x
  <2>6. r \in DOMAIN x.staged /\ x.op = "retry"
    BY <2>3, <2>4 DEF StagedOK, Pending
  <2>7. Due(rows[r]) /\ x.staged[r].attempt = rows[r].attempt
    <3>1. rows[r] \in Row
      BY <2>1 DEF AdapterInv, Types
    <3> QED  BY <2>4, <2>6, <3>1, RetriedRow DEF StagedOK
  <2>8. RetryKey(r, rows[r]) = StagedKey(x.op, r, x.staged[r])
    BY <2>6, <2>7 DEF RetryKey, StagedKey
  <2>9. StagedKey(x.op, r, x.staged[r]) \in x.keys /\ x.keys \cap audits = {}
    BY <2>4, <2>6 DEF DrainOK
  <2> QED  BY <2>5, <2>7, <2>8, <2>9
<1>2. AdapterSpec => [][Runs]_adapterVars
  BY <1>1, AdapterInvariant, PTL DEF AdapterSpec
<1> QED  BY <1>2 DEF RetriesRunWhenDue
=============================================================================
