-------------------------- MODULE WorkerRunsProofs --------------------------
(***************************************************************************)
(* Proofs about WorkerRuns, for any number of sessions, keys, accounts,    *)
(* reservations, runs and units.                                           *)
(***************************************************************************)
EXTENDS WorkerRuns, BudgetLedgerProofs

AllTx == ReserveTx \cup ChargeTx \cup StartTx \cup CompleteTx \cup {NoTx}

RunTypes == RunTypeOK /\ IsFiniteSet(usage)

Settling(s)   == tx[s].phase = "settling"
Completion(s) == /\ tx[s].phase \in {"run locked", "settling"}
                 /\ tx[s].command.op = "complete"

\* A hold that a transaction settles is still held, and locked by nobody else.
HoldLocked(s) ==
  Settling(s) =>
    /\ reservations[tx[s].reservation].state = "held"
    /\ \A t \in Sessions :
         Settling(t) /\ tx[t].reservation = tx[s].reservation => t = s

\* A run that a transaction completes is still running under the hold the
\* transaction read, and locked by nobody else.
RunIsLocked(s) ==
  Completion(s) =>
    /\ runs[tx[s].command.run].state = "running"
    /\ runs[tx[s].command.run].reservation = tx[s].reservation
    /\ \A t \in Sessions :
         Completion(t) /\ tx[t].command.run = tx[s].command.run => t = s

UsageIsUsed == \A u \in usage : reservations[u.reservation].state = "used"

RunInv ==
  /\ RunTypes
  /\ \A s \in Sessions : HoldLocked(s) /\ RunIsLocked(s)
  /\ UsageIsUsed
  /\ RunSettlesWithBudget

-----------------------------------------------------------------------------
\* The phase of a transaction tells which command has it open.
LEMMA RunTxKinds ==
  ASSUME RunTypeOK, NEW s \in Sessions
  PROVE  /\ tx[s] \in AllTx
         /\ tx[s].phase \in {"locked", "counting", "inserting"} =>
              tx[s] \in ReserveTx
         /\ tx[s].phase \in {"run counting", "run inserting"} => tx[s] \in StartTx
         /\ Completion(s) => tx[s] \in CompleteTx
         /\ tx[s].phase = "run locked" => Completion(s)
         /\ Settling(s) /\ ~Completion(s) => tx[s] \in ChargeTx
         /\ Settling(s) => tx[s].reservation \in ReservationIds
         /\ Settling(s) /\ tx[s].command.op = "charge" => ~Completion(s)
<1>1. tx[s] \in AllTx
  BY DEF RunTypeOK, AllTx
<1>2. CASE tx[s] \in ReserveTx
  BY <1>1, <1>2 DEF ReserveTx, Settling, Completion
<1>3. CASE tx[s] \in ChargeTx
  BY <1>1, <1>3 DEF ChargeTx, ChargeCommand, Settling, Completion
<1>4. CASE tx[s] \in StartTx
  BY <1>1, <1>4 DEF StartTx, Settling, Completion
<1>5. CASE tx[s] \in CompleteTx
  BY <1>1, <1>5 DEF CompleteTx, CompleteCommand, Settling, Completion
<1>6. CASE tx[s] = NoTx
  BY <1>1, <1>6 DEF NoTx, Settling, Completion
<1>. QED
  BY <1>1, <1>2, <1>3, <1>4, <1>5, <1>6 DEF AllTx

\* What a row of the two tables is that is not missing.
LEMMA RunRowKinds ==
  ASSUME RunTypeOK
  PROVE  /\ \A r \in ReservationIds :
              reservations[r].state \in {"held", "used", "released"} =>
                reservations[r] \in ReservationRow
         /\ \A w \in RunIds :
              /\ runs[w].state \in {"running"} \cup Outcomes => runs[w] \in RunRow
              /\ runs[w] # NoRow => runs[w] \in RunRow
         /\ NoRow \notin RunRow /\ NoRow \notin ReservationRow
         /\ NoRow.state = "absent"
  BY DEF RunTypeOK, RunRow, ReservationRow, NoRow, Outcomes

-----------------------------------------------------------------------------
\* A step that only opens, advances or ends the transaction of a session.
LEMMA TxOnly ==
  ASSUME RunInv, NEW s \in Sessions, NEW x \in AllTx,
         tx' = [tx EXCEPT ![s] = x], clock' = clock,
         UNCHANGED <<reservations, usage, audits, runs>>,
         x.phase = "settling" =>
           /\ reservations[x.reservation].state = "held"
           /\ \A t \in Sessions \ {s} :
                Settling(t) => tx[t].reservation # x.reservation,
         x.phase \in {"run locked", "settling"} /\ x.command.op = "complete" =>
           /\ runs[x.command.run].state = "running"
           /\ runs[x.command.run].reservation = x.reservation
           /\ \A t \in Sessions \ {s} :
                Completion(t) => tx[t].command.run # x.command.run
  PROVE  RunInv'
<1>1. tx \in [Sessions -> AllTx]
  BY DEF RunInv, RunTypes, RunTypeOK, AllTx
<1>2. tx'[s] = x /\ \A t \in Sessions \ {s} : tx'[t] = tx[t]
  BY <1>1
<1>3. RunTypes'
  <2>1. tx' \in [Sessions -> AllTx]
    BY <1>1
  <2>. QED
    BY <2>1 DEF RunInv, RunTypes, RunTypeOK, AllTx
<1>4. ASSUME NEW t \in Sessions PROVE HoldLocked(t)'
  <2>1. CASE t = s
    BY <1>2, <2>1 DEF HoldLocked, Settling
  <2>2. CASE t # s
    <3>1. SUFFICES ASSUME Settling(t)'
                   PROVE  /\ reservations'[tx'[t].reservation].state = "held"
                          /\ \A u \in Sessions :
                               Settling(u)' /\ tx'[u].reservation = tx'[t].reservation
                               => u = t
      BY DEF HoldLocked
    <3>2. tx'[t] = tx[t] /\ Settling(t) /\ HoldLocked(t)
      BY <1>2, <2>2, <3>1 DEF RunInv, Settling
    <3>3. reservations'[tx'[t].reservation].state = "held"
      BY <3>2 DEF HoldLocked
    <3>4. ASSUME NEW u \in Sessions, Settling(u)',
                 tx'[u].reservation = tx'[t].reservation
          PROVE  u = t
      <4>1. u # s
        BY <1>2, <2>2, <3>2, <3>4 DEF Settling
      <4>2. tx'[u] = tx[u] /\ Settling(u)
        BY <1>2, <3>4, <4>1 DEF Settling
      <4>. QED
        BY <3>2, <3>4, <4>2 DEF HoldLocked
    <3>. QED
      BY <3>3, <3>4
  <2>. QED
    BY <2>1, <2>2
<1>5. ASSUME NEW t \in Sessions PROVE RunIsLocked(t)'
  <2>1. CASE t = s
    BY <1>2, <2>1 DEF RunIsLocked, Completion
  <2>2. CASE t # s
    <3>1. SUFFICES ASSUME Completion(t)'
                   PROVE  /\ runs'[tx'[t].command.run].state = "running"
                          /\ runs'[tx'[t].command.run].reservation = tx'[t].reservation
                          /\ \A u \in Sessions :
                               Completion(u)' /\ tx'[u].command.run = tx'[t].command.run
                               => u = t
      BY DEF RunIsLocked
    <3>2. tx'[t] = tx[t] /\ Completion(t) /\ RunIsLocked(t)
      BY <1>2, <2>2, <3>1 DEF RunInv, Completion
    <3>3. /\ runs'[tx'[t].command.run].state = "running"
          /\ runs'[tx'[t].command.run].reservation = tx'[t].reservation
      BY <3>2 DEF RunIsLocked
    <3>4. ASSUME NEW u \in Sessions, Completion(u)',
                 tx'[u].command.run = tx'[t].command.run
          PROVE  u = t
      <4>1. u # s
        BY <1>2, <2>2, <3>2, <3>4 DEF Completion
      <4>2. tx'[u] = tx[u] /\ Completion(u)
        BY <1>2, <3>4, <4>1 DEF Completion
      <4>. QED
        BY <3>2, <3>4, <4>2 DEF RunIsLocked
    <3>. QED
      BY <3>3, <3>4
  <2>. QED
    BY <2>1, <2>2
<1>6. UsageIsUsed' /\ RunSettlesWithBudget'
  BY DEF RunInv, UsageIsUsed, RunSettlesWithBudget
<1>. QED
  BY <1>3, <1>4, <1>5, <1>6 DEF RunInv

\* A transaction that ends, with what it has written: the hold it may have
\* settled is locked by nobody else, nor is the run it may have closed.
LEMMA TxEnds ==
  ASSUME RunInv, NEW s \in Sessions, tx' = [tx EXCEPT ![s] = NoTx],
         \A t \in Sessions \ {s} :
           /\ Settling(t) => reservations'[tx[t].reservation]
                               = reservations[tx[t].reservation]
           /\ Completion(t) => runs'[tx[t].command.run] = runs[tx[t].command.run]
  PROVE  \A t \in Sessions : HoldLocked(t)' /\ RunIsLocked(t)'
<1>0. tx \in [Sessions -> AllTx]
  BY DEF RunInv, RunTypes, RunTypeOK, AllTx
<1>1. tx'[s] = NoTx /\ \A t \in Sessions \ {s} : tx'[t] = tx[t]
  BY <1>0
<1>2. ~Settling(s)' /\ ~Completion(s)'
  <2>1. tx'[s].phase = "idle"
    BY <1>1 DEF NoTx
  <2>. QED
    BY <2>1 DEF Settling, Completion
<1>3. ASSUME NEW t \in Sessions \ {s}
      PROVE  /\ Settling(t)' <=> Settling(t)
             /\ Completion(t)' <=> Completion(t)
  BY <1>1 DEF Settling, Completion
<1>4. ASSUME NEW t \in Sessions PROVE HoldLocked(t)'
  <2>1. CASE t = s
    BY <1>2, <2>1 DEF HoldLocked
  <2>2. CASE t # s
    BY <1>1, <1>2, <1>3, <2>2 DEF RunInv, HoldLocked
  <2>. QED
    BY <2>1, <2>2
<1>5. ASSUME NEW t \in Sessions PROVE RunIsLocked(t)'
  <2>1. CASE t = s
    BY <1>2, <2>1 DEF RunIsLocked
  <2>2. CASE t # s
    BY <1>1, <1>2, <1>3, <2>2 DEF RunInv, RunIsLocked
  <2>. QED
    BY <2>1, <2>2
<1>. QED
  BY <1>4, <1>5

-----------------------------------------------------------------------------
\* budget.release: a hold nobody settles is released. A run that had it keeps
\* it, still running.
LEMMA ReleaseStep ==
  ASSUME RunInv, NEW k \in Keys, NEW c \in ReleaseCommand, Release(k, c),
         UNCHANGED runs
  PROVE  RunInv'
<1> DEFINE r == c.reservation
<1>1. /\ r \in ReservationIds /\ reservations[r].state = "held"
      /\ reservations' = [reservations EXCEPT ![r].state = "released"]
      /\ ~ReservationLocked(r)
      /\ audits' = audits \cup {[op |-> "release", key |-> k, target |-> r]}
      /\ UNCHANGED <<clock, usage, tx>>
  BY DEF Release, ReleaseCommand
<1>. HIDE DEF r
<1>2. reservations[r] \in ReservationRow /\ reservations \in Table
  BY <1>1, RunRowKinds DEF RunInv, RunTypes, RunTypeOK, Table
<1>3. /\ reservations'[r].state = "released" /\ reservations'[r] \in ReservationRow
      /\ \A q \in ReservationIds \ {r} : reservations'[q] = reservations[q]
      /\ reservations' \in Table
  BY <1>1, <1>2 DEF Table, ReservationRow
<1>4. [op |-> "release", key |-> k, target |-> r] \in AuditRow
  BY <1>1 DEF AuditRow
<1>5. RunTypes'
  BY <1>1, <1>3, <1>4 DEF RunInv, RunTypes, RunTypeOK, Table
<1>6. ASSUME NEW t \in Sessions PROVE HoldLocked(t)'
  <2>1. Settling(t) => tx[t].reservation # r /\ tx[t].reservation \in ReservationIds
    BY <1>1, RunTxKinds DEF ReservationLocked, Settling, RunInv, RunTypes
  <2>. QED
    BY <1>1, <1>3, <2>1 DEF RunInv, HoldLocked, Settling
<1>7. \A t \in Sessions : RunIsLocked(t)'
  BY <1>1 DEF RunInv, RunIsLocked, Completion
<1>8. \A u \in usage : u.reservation # r /\ u.reservation \in ReservationIds
  BY <1>1 DEF RunInv, UsageIsUsed, RunTypes, RunTypeOK
<1>9. UsageIsUsed'
  BY <1>1, <1>3, <1>8 DEF RunInv, UsageIsUsed
<1>10. RunSettlesWithBudget'
  <2>1. ASSUME NEW w \in RunIds, runs[w] # NoRow
        PROVE  /\ runs[w].reservation \in ReservationIds
               /\ runs[w].state \in Outcomes => runs[w].reservation # r
    BY <1>1, <2>1, RunRowKinds
    DEF RunInv, RunTypes, RunRow, RunSettlesWithBudget, Outcomes
  <2>2. reservations'[r] # NoRow
    BY <1>3, RunRowKinds DEF RunInv, RunTypes
  <2>. QED
    BY <1>1, <1>3, <2>1, <2>2 DEF RunInv, RunSettlesWithBudget, Outcomes
<1>. QED
  BY <1>5, <1>6, <1>7, <1>9, <1>10 DEF RunInv

\* A new hold, and perhaps a new run under it. Nothing refers to either yet.
LEMMA InsertStep ==
  ASSUME RunInv, NEW s \in Sessions, NEW r \in ReservationIds,
         NEW row \in ReservationRow, row.state = "held", reservations[r] = NoRow,
         reservations' = [reservations EXCEPT ![r] = row],
         tx' = [tx EXCEPT ![s] = NoTx],
         UNCHANGED <<clock, usage>>,
         audits' \subseteq AuditRow \cup [op : {"start", "complete"},
                                          key : RunKeys, target : RunIds],
         \/ UNCHANGED runs
         \/ \E w \in RunIds :
              /\ runs[w] = NoRow
              /\ runs' = [runs EXCEPT ![w] = [state |-> "running", reservation |-> r]]
  PROVE  RunInv'
<1> DEFINE new == [state |-> "running", reservation |-> r]
<1>1. new \in RunRow /\ new.state = "running" /\ new.reservation = r
  BY DEF RunRow
<1>2. /\ reservations \in Table /\ runs \in [RunIds -> RunRow \cup {NoRow}]
      /\ tx \in [Sessions -> AllTx]
  BY DEF RunInv, RunTypes, RunTypeOK, Table, AllTx
<1>3. /\ reservations'[r] = row
      /\ \A q \in ReservationIds \ {r} : reservations'[q] = reservations[q]
      /\ reservations' \in Table
  BY <1>2 DEF Table
<1>4. PICK W \in SUBSET RunIds :
        /\ \A w \in W : runs[w] = NoRow /\ runs'[w] = new
        /\ \A w \in RunIds \ W : runs'[w] = runs[w]
        /\ \A v, w \in W : v = w
        /\ runs' \in [RunIds -> RunRow \cup {NoRow}]
  <2>1. CASE UNCHANGED runs
    <3>1. {} \in SUBSET RunIds
      OBVIOUS
    <3>. QED
      BY <1>2, <2>1, <3>1
  <2>2. ASSUME NEW w \in RunIds, runs[w] = NoRow, runs' = [runs EXCEPT ![w] = new]
        PROVE  \E W \in SUBSET RunIds :
                 /\ \A v \in W : runs[v] = NoRow /\ runs'[v] = new
                 /\ \A v \in RunIds \ W : runs'[v] = runs[v]
                 /\ \A v, x \in W : v = x
                 /\ runs' \in [RunIds -> RunRow \cup {NoRow}]
    <3>. HIDE DEF new
    <3>1. {w} \in SUBSET RunIds
      OBVIOUS
    <3>2. runs'[w] = new /\ \A v \in RunIds \ {w} : runs'[v] = runs[v]
      BY <1>2, <2>2
    <3>3. runs' \in [RunIds -> RunRow \cup {NoRow}]
      BY <1>1, <1>2, <2>2
    <3>. QED
      BY <2>2, <3>1, <3>2, <3>3
  <2>. QED
    BY <2>1, <2>2
<1>. HIDE DEF new
<1>5. RunTypes'
  <2>1. tx' \in [Sessions -> AllTx]
    BY <1>2 DEF AllTx
  <2>. QED
    BY <1>3, <1>4, <2>1 DEF RunInv, RunTypes, RunTypeOK, Table, AllTx
<1>6. NoRow.state = "absent" /\ NoRow \notin RunRow /\ NoRow \notin ReservationRow
  BY RunRowKinds DEF RunInv, RunTypes
<1>7. ASSUME NEW t \in Sessions
      PROVE  /\ Settling(t) => tx[t].reservation \in ReservationIds \ {r}
             /\ Completion(t) => tx[t].command.run \in RunIds \ W
  <2>1. Settling(t) => tx[t].reservation \in ReservationIds \ {r}
    BY <1>6, RunTxKinds DEF RunInv, RunTypes, HoldLocked
  <2>2. Completion(t) => tx[t].command.run \in RunIds
    BY RunTxKinds DEF RunInv, RunTypes, CompleteTx, CompleteCommand
  <2>3. Completion(t) => runs[tx[t].command.run].state = "running"
    BY DEF RunInv, RunIsLocked
  <2>. QED
    BY <1>4, <1>6, <2>1, <2>2, <2>3
<1>8. \A t \in Sessions : HoldLocked(t)' /\ RunIsLocked(t)'
  BY <1>3, <1>4, <1>7, TxEnds
<1>9. \A u \in usage : u.reservation \in ReservationIds \ {r}
  BY <1>6 DEF RunInv, UsageIsUsed, RunTypes, RunTypeOK
<1>10. UsageIsUsed'
  BY <1>3, <1>9 DEF RunInv, UsageIsUsed
<1>11. \A w \in RunIds \ W :
         runs[w] # NoRow => runs[w].reservation \in ReservationIds \ {r}
  BY RunRowKinds DEF RunInv, RunTypes, RunSettlesWithBudget, RunRow
<1>12. RunSettlesWithBudget'
  <2>1. ASSUME NEW w \in RunIds, runs'[w] # NoRow
        PROVE  LET q == runs'[w].reservation
                   charges == {u \in usage' : u.reservation = q}
               IN  /\ reservations'[q] # NoRow
                   /\ runs'[w].state = "done" =>
                        /\ reservations'[q].state = "used"
                        /\ \A u \in charges : u.key \in RunKeys
                   /\ runs'[w].state \in {"failed", "canceled"} =>
                        reservations'[q].state = "released" /\ charges = {}
    <3>1. CASE w \in W
      BY <1>1, <1>3, <1>4, <1>6, <3>1
    <3>2. CASE w \notin W
      BY <1>3, <1>4, <1>11, <2>1, <3>2 DEF RunInv, RunSettlesWithBudget
    <3>. QED
      BY <3>1, <3>2
  <2>2. ASSUME NEW v \in RunIds, NEW w \in RunIds, runs'[v] # NoRow,
               runs'[w] # NoRow, runs'[v].reservation = runs'[w].reservation
        PROVE  v = w
    <3>1. CASE v \in W /\ w \in W
      BY <1>4, <3>1
    <3>2. CASE v \notin W /\ w \notin W
      BY <1>4, <2>2, <3>2 DEF RunInv, RunSettlesWithBudget
    <3>3. CASE ~(v \in W <=> w \in W)
      BY <1>1, <1>4, <1>11, <2>2, <3>3
    <3>. QED
      BY <3>1, <3>2, <3>3
  <2>. QED
    BY <2>1, <2>2 DEF RunSettlesWithBudget
<1>. QED
  BY <1>5, <1>8, <1>10, <1>12 DEF RunInv

UsageRecord ==
  [key : Keys \cup RunKeys, reservation : ReservationIds,
   account : Accounts, units : Nat \ {0}, late : BOOLEAN]

\* A transaction settles the hold it has locked, and closes its run if it is a
\* completion. Only a used hold is charged.
LEMMA SettleStep ==
  ASSUME RunInv, NEW s \in Sessions, Settling(s),
         NEW hold \in {"used", "released"}, NEW u \in UsageRecord,
         NEW o \in Outcomes,
         u.reservation = tx[s].reservation,
         reservations' = [reservations EXCEPT ![tx[s].reservation].state = hold],
         usage' = IF hold = "used" THEN usage \cup {u} ELSE usage,
         tx' = [tx EXCEPT ![s] = NoTx], clock' = clock,
         audits' \subseteq AuditRow \cup [op : {"start", "complete"},
                                          key : RunKeys, target : RunIds],
         Completion(s) =>
           /\ runs' = [runs EXCEPT ![tx[s].command.run].state = o]
           /\ u.key \in RunKeys
           /\ o = "done" <=> hold = "used",
         ~Completion(s) => UNCHANGED runs
  PROVE  RunInv'
<1> DEFINE r == tx[s].reservation
           W == IF Completion(s) THEN {tx[s].command.run} ELSE {}
<1>1. /\ reservations \in Table /\ runs \in [RunIds -> RunRow \cup {NoRow}]
      /\ tx \in [Sessions -> AllTx] /\ usage \subseteq UsageRecord
      /\ IsFiniteSet(usage)
  BY DEF RunInv, RunTypes, RunTypeOK, Table, AllTx, UsageRecord
<1>2. r \in ReservationIds /\ reservations[r].state = "held"
  BY RunTxKinds DEF RunInv, RunTypes, HoldLocked
<1>3. reservations[r] \in ReservationRow
  BY <1>2, RunRowKinds DEF RunInv, RunTypes
<1>4. /\ reservations'[r].state = hold /\ reservations'[r] \in ReservationRow
      /\ \A q \in ReservationIds \ {r} : reservations'[q] = reservations[q]
      /\ reservations' \in Table
  BY <1>1, <1>2, <1>3 DEF Table, ReservationRow
<1>5. W \subseteq RunIds
  BY RunTxKinds DEF RunInv, RunTypes, CompleteTx, CompleteCommand
<1>6. \A w \in W : runs[w].state = "running" /\ runs[w].reservation = r
                   /\ runs[w] \in RunRow
  BY <1>5, RunRowKinds DEF RunInv, RunTypes, RunIsLocked
<1>7. /\ \A w \in W : runs'[w].state = o /\ runs'[w].reservation = r
      /\ \A w \in RunIds \ W : runs'[w] = runs[w]
      /\ runs' \in [RunIds -> RunRow \cup {NoRow}]
  <2>1. CASE Completion(s)
    <3> DEFINE w == tx[s].command.run
    <3>1. W = {w} /\ runs' = [runs EXCEPT ![w].state = o]
      BY <2>1
    <3>2. w \in RunIds /\ runs[w] \in RunRow /\ runs[w].reservation = r
      BY <1>5, <1>6, <3>1
    <3>. HIDE DEF w, W, r
    <3>3. [runs[w] EXCEPT !.state = o] \in RunRow
      BY <3>2 DEF RunRow
    <3>4. runs'[w] = [runs[w] EXCEPT !.state = o]
      BY <1>1, <3>1, <3>2
    <3>5. runs'[w].state = o /\ runs'[w].reservation = r
      BY <3>2, <3>4 DEF RunRow
    <3>6. \A v \in RunIds \ {w} : runs'[v] = runs[v]
      BY <1>1, <3>1
    <3>7. runs' \in [RunIds -> RunRow \cup {NoRow}]
      BY <1>1, <3>1, <3>2, <3>3
    <3>. QED
      BY <3>1, <3>5, <3>6, <3>7
  <2>2. CASE ~Completion(s)
    BY <1>1, <2>2
  <2>. QED
    BY <2>1, <2>2
<1>8. \A v \in RunIds \ W :
        /\ runs[v] # NoRow => runs[v].reservation \in ReservationIds
        /\ runs[v] # NoRow /\ runs[v].reservation = r =>
             W = {} /\ runs[v].state = "running"
  <2>1. ASSUME NEW v \in RunIds \ W, runs[v] # NoRow
        PROVE  runs[v] \in RunRow
    BY <2>1, RunRowKinds DEF RunInv, RunTypes
  <2>2. ASSUME NEW v \in RunIds \ W, runs[v] # NoRow, runs[v].reservation = r
        PROVE  runs[v].state = "running"
    BY <1>2, <2>1, <2>2 DEF RunInv, RunSettlesWithBudget, RunRow, Outcomes
  <2>3. ASSUME NEW v \in RunIds \ W, runs[v] # NoRow, runs[v].reservation = r,
               NEW w \in W
        PROVE  FALSE
    <3>1. runs[w] # NoRow /\ w \in RunIds
      BY <1>5, <1>6, RunRowKinds DEF RunInv, RunTypes
    <3>. QED
      BY <1>6, <2>3, <3>1 DEF RunInv, RunSettlesWithBudget
  <2>. HIDE DEF W, r
  <2>. QED
    BY <2>1, <2>2, <2>3 DEF RunRow
<1>. HIDE DEF W
<1>9. RunTypes'
  <2>1. tx' \in [Sessions -> AllTx]
    BY <1>1 DEF AllTx
  <2>2. usage' \subseteq UsageRecord
    BY <1>1
  <2>3. IsFiniteSet(usage')
    BY <1>1, FS_AddElement
  <2>. QED
    BY <1>4, <1>7, <2>1, <2>2, <2>3
    DEF RunInv, RunTypes, RunTypeOK, Table, AllTx, UsageRecord
<1>10. ASSUME NEW t \in Sessions \ {s}
       PROVE  /\ Settling(t) => tx[t].reservation \in ReservationIds \ {r}
              /\ Completion(t) => tx[t].command.run \in RunIds \ W
  <2>1. Settling(t) => tx[t].reservation \in ReservationIds \ {r}
    BY RunTxKinds DEF RunInv, RunTypes, HoldLocked
  <2>2. Completion(t) => tx[t].command.run \in RunIds
    BY RunTxKinds DEF RunInv, RunTypes, CompleteTx, CompleteCommand
  <2>3. Completion(t) /\ Completion(s) => tx[t].command.run # tx[s].command.run
    BY DEF RunInv, RunIsLocked
  <2>. QED
    BY <2>1, <2>2, <2>3 DEF W
<1>11. \A t \in Sessions : HoldLocked(t)' /\ RunIsLocked(t)'
  BY <1>4, <1>7, <1>10, TxEnds
<1>12. \A x \in usage : x.reservation \in ReservationIds \ {r}
  BY <1>1, <1>2 DEF RunInv, UsageIsUsed, UsageRecord
<1>13. UsageIsUsed'
  BY <1>4, <1>12 DEF RunInv, UsageIsUsed
<1>14. /\ \A q \in ReservationIds \ {r} :
            {x \in usage' : x.reservation = q} = {x \in usage : x.reservation = q}
       /\ {x \in usage' : x.reservation = r} = IF hold = "used" THEN {u} ELSE {}
  BY <1>12
<1>15. RunSettlesWithBudget'
  <2>0. NoRow \notin ReservationRow /\ NoRow \notin RunRow
    BY RunRowKinds DEF RunInv, RunTypes
  <2>1. ASSUME NEW w \in RunIds, runs'[w] # NoRow
        PROVE  LET q == runs'[w].reservation
                   charges == {x \in usage' : x.reservation = q}
               IN  /\ reservations'[q] # NoRow
                   /\ runs'[w].state = "done" =>
                        /\ reservations'[q].state = "used"
                        /\ \A x \in charges : x.key \in RunKeys
                   /\ runs'[w].state \in {"failed", "canceled"} =>
                        reservations'[q].state = "released" /\ charges = {}
    <3>1. CASE w \in W
      <4>1. Completion(s)
        BY <3>1 DEF W
      <4>2. runs'[w].reservation = r /\ runs'[w].state = o
        BY <1>7, <3>1
      <4>. HIDE DEF r
      <4>. QED
        BY <1>4, <1>14, <2>0, <4>1, <4>2
    <3>2. CASE w \notin W /\ runs[w].reservation = r
      <4>1. runs'[w] = runs[w] /\ runs[w].state = "running"
        BY <1>7, <1>8, <2>1, <3>2
      <4>. QED
        BY <1>4, <2>0, <3>2, <4>1
    <3>3. CASE w \notin W /\ runs[w].reservation # r
      <4>1. runs'[w] = runs[w] /\ runs[w].reservation \in ReservationIds \ {r}
        BY <1>7, <1>8, <2>1, <3>3
      <4> DEFINE q == runs[w].reservation
      <4>2. /\ reservations[q] # NoRow
            /\ runs[w].state = "done" =>
                 /\ reservations[q].state = "used"
                 /\ \A x \in {x \in usage : x.reservation = q} : x.key \in RunKeys
            /\ runs[w].state \in {"failed", "canceled"} =>
                 /\ reservations[q].state = "released"
                 /\ {x \in usage : x.reservation = q} = {}
        BY <2>1, <4>1 DEF RunInv, RunSettlesWithBudget
      <4>3. /\ reservations'[q] = reservations[q]
            /\ {x \in usage' : x.reservation = q} = {x \in usage : x.reservation = q}
        BY <1>4, <1>14, <4>1
      <4>. QED
        BY <4>1, <4>2, <4>3
    <3>. QED
      BY <3>1, <3>2, <3>3
  <2>2. ASSUME NEW v \in RunIds, NEW w \in RunIds, runs'[v] # NoRow,
               runs'[w] # NoRow, runs'[v].reservation = runs'[w].reservation
        PROVE  v = w
    <3>1. /\ runs[v] # NoRow /\ runs[w] # NoRow
          /\ runs[v].reservation = runs'[v].reservation
          /\ runs[w].reservation = runs'[w].reservation
      BY <1>6, <1>7, <2>0, <2>2
    <3>. QED
      BY <2>2, <3>1 DEF RunInv, RunSettlesWithBudget
  <2>. QED
    BY <2>1, <2>2 DEF RunSettlesWithBudget
<1>. QED
  BY <1>9, <1>11, <1>13, <1>15 DEF RunInv

-----------------------------------------------------------------------------
\* What an account has used is a number, charges of runs included.
LEMMA RunUsedUnitsType ==
  ASSUME RunTypes, NEW a
  PROVE  UsedUnits(a) \in Nat
<1> DEFINE rows == {u \in usage : u.account = a}
<1>1. IsFiniteSet(rows)
  BY FS_Subset DEF RunTypes
<1>2. [u \in rows |-> u.units] \in [rows -> Nat]
  BY DEF RunTypes, RunTypeOK
<1>. HIDE DEF rows
<1>3. Sum([u \in rows |-> u.units]) \in Nat
  BY <1>1, <1>2, SumType
<1>. QED
  BY <1>3 DEF UsedUnits, UnitsOf, rows

\* Every step of the budget commands preserves the invariant.
LEMMA BudgetStep ==
  ASSUME RunInv, Next, UNCHANGED runs
  PROVE  RunInv'
<1>. USE DEF RunInv, RunTypes
<1>0. /\ tx \in [Sessions -> AllTx] /\ reservations \in Table
      /\ clock \in Nat
  BY DEF RunTypeOK, AllTx, Table
<1>1. ASSUME NEW s \in Sessions, NEW k \in Keys, NEW c \in ReserveCommand,
             BeginReserve(s, k, c)
      PROVE  RunInv'
  <2> DEFINE x == [phase |-> "locked", key |-> k, command |-> c,
                   used |-> 0, now |-> 0]
  <2>1. x \in AllTx /\ x.phase = "locked"
    BY DEF AllTx, ReserveTx
  <2>2. /\ tx' = [tx EXCEPT ![s] = x] /\ clock' = clock
        /\ UNCHANGED <<reservations, usage, audits, runs>>
    BY <1>1 DEF BeginReserve
  <2>. HIDE DEF x, RunInv
  <2>. QED
    BY <2>1, <2>2, TxOnly
<1>2. ASSUME NEW s \in Sessions, CountUsed(s)
      PROVE  RunInv'
  <2> DEFINE a == tx[s].command.account
             x == [tx[s] EXCEPT !.phase = "counting", !.used = UsedUnits(a),
                                !.now = clock]
  <2>1. tx[s] \in ReserveTx
    BY <1>2, RunTxKinds DEF CountUsed
  <2>2. UsedUnits(a) \in Nat
    BY RunUsedUnitsType
  <2>3. x \in AllTx /\ x.phase = "counting"
    BY <1>0, <2>1, <2>2 DEF AllTx, ReserveTx
  <2>4. tx' = [tx EXCEPT ![s] = x]
    <3>1. tx' = [tx EXCEPT ![s].phase = "counting", ![s].used = UsedUnits(a),
                           ![s].now = clock]
      BY <1>2 DEF CountUsed
    <3>. QED
      BY <1>0, <2>1, <3>1 DEF ReserveTx
  <2>5. clock' = clock /\ UNCHANGED <<reservations, usage, audits, runs>>
    BY <1>2 DEF CountUsed
  <2>. HIDE DEF x, RunInv
  <2>. QED
    BY <2>3, <2>4, <2>5, TxOnly
<1>3. ASSUME NEW s \in Sessions, CountHeld(s)
      PROVE  RunInv'
  <2> DEFINE x == [tx[s] EXCEPT !.phase = "inserting"]
  <2>1. tx[s] \in ReserveTx
    BY <1>3, RunTxKinds DEF CountHeld
  <2>2. x \in AllTx /\ x.phase = "inserting"
    BY <2>1 DEF AllTx, ReserveTx
  <2>3. tx' = [tx EXCEPT ![s] = x]
    BY <1>0, <1>3 DEF CountHeld
  <2>4. clock' = clock /\ UNCHANGED <<reservations, usage, audits, runs>>
    BY <1>3 DEF CountHeld
  <2>. HIDE DEF x, RunInv
  <2>. QED
    BY <2>2, <2>3, <2>4, TxOnly
<1>4. ASSUME NEW s \in Sessions, NEW r \in ReservationIds, CommitReserve(s, r)
      PROVE  RunInv'
  <2> DEFINE c == tx[s].command
             expiresAt == IF c.expiresAt = NoExpiry THEN clock + HoldTime
                                                    ELSE c.expiresAt
             row == [state |-> "held", account |-> c.account, units |-> c.units,
                     expiresAt |-> expiresAt]
  <2>1. tx[s] \in ReserveTx
    BY <1>4, RunTxKinds DEF CommitReserve
  <2>2. c \in ReserveCommand /\ tx[s].key \in Keys
    BY <2>1 DEF ReserveTx
  <2>3. expiresAt \in Nat
    <3>1. c.expiresAt \in Nat \/ c.expiresAt = NoExpiry
      BY <2>2, LedgerAssumption DEF ReserveCommand
    <3>2. clock + HoldTime \in Nat
      BY <1>0, LedgerAssumption
    <3>. QED
      BY <3>1, <3>2
  <2>4. c.account \in Accounts /\ c.units \in Nat \ {0}
    BY <2>2, LedgerAssumption DEF ReserveCommand
  <2>5. reservations[r] = NoRow /\ reservations' = [reservations EXCEPT ![r] = row]
    BY <1>4 DEF CommitReserve
  <2>6. audits' = audits \cup {[op |-> "reserve", key |-> tx[s].key, target |-> r]}
    BY <1>4 DEF CommitReserve
  <2>7. audits' \subseteq AuditRow \cup [op : {"start", "complete"},
                                         key : RunKeys, target : RunIds]
    BY <2>2, <2>6 DEF RunTypeOK, AuditRow
  <2>8. tx' = [tx EXCEPT ![s] = NoTx] /\ UNCHANGED <<clock, usage>>
    BY <1>4 DEF CommitReserve
  <2>. HIDE DEF expiresAt
  <2>9. row \in ReservationRow /\ row.state = "held"
    BY <2>3, <2>4 DEF ReservationRow
  <2>. HIDE DEF row, RunInv
  <2>. QED
    BY <2>5, <2>7, <2>8, <2>9, InsertStep
<1>5. ASSUME NEW s \in Sessions, NEW k \in Keys, NEW c \in ChargeCommand,
             BeginCharge(s, k, c)
      PROVE  RunInv'
  <2> DEFINE x == [phase |-> "settling", key |-> k, command |-> c,
                   reservation |-> c.reservation]
  <2>1. x \in AllTx /\ x.command.op = "charge" /\ x.reservation = c.reservation
    BY DEF AllTx, ChargeTx, ChargeCommand
  <2>2. reservations[c.reservation].state = "held"
    BY <1>5 DEF BeginCharge
  <2>3. \A t \in Sessions \ {s} : Settling(t) => tx[t].reservation # c.reservation
    BY <1>5 DEF BeginCharge, ReservationLocked, Settling
  <2>4. /\ tx' = [tx EXCEPT ![s] = x] /\ clock' = clock
        /\ UNCHANGED <<reservations, usage, audits, runs>>
    BY <1>5 DEF BeginCharge
  <2>. HIDE DEF x, RunInv
  <2>. QED
    BY <2>1, <2>2, <2>3, <2>4, TxOnly
<1>6. ASSUME NEW s \in Sessions, CommitCharge(s)
      PROVE  RunInv'
  <2> DEFINE r == tx[s].reservation
             row == reservations[r]
             u == [key |-> tx[s].key, reservation |-> r, account |-> row.account,
                   units |-> row.units, late |-> clock >= row.expiresAt]
  <2>1. Settling(s) /\ ~Completion(s) /\ tx[s] \in ChargeTx
    BY <1>6, RunTxKinds DEF CommitCharge, Settling
  <2>2. r \in ReservationIds /\ row.state = "held" /\ tx[s].key \in Keys
    BY <2>1 DEF ChargeTx, HoldLocked
  <2>3. row \in ReservationRow
    BY <2>2, RunRowKinds
  <2>4. (clock >= row.expiresAt) \in BOOLEAN
    OBVIOUS
  <2>5. u \in UsageRecord /\ u.reservation = r
    BY <2>2, <2>3, <2>4 DEF ReservationRow, UsageRecord
  <2>6. /\ usage' = usage \cup {u}
        /\ reservations' = [reservations EXCEPT ![r].state = "used"]
        /\ audits' = audits \cup {[op |-> "charge", key |-> tx[s].key, target |-> r]}
        /\ tx' = [tx EXCEPT ![s] = NoTx] /\ clock' = clock
    BY <1>6 DEF CommitCharge
  <2>7. audits' \subseteq AuditRow \cup [op : {"start", "complete"},
                                         key : RunKeys, target : RunIds]
    BY <2>2, <2>6 DEF RunTypeOK, AuditRow
  <2>8. "done" \in Outcomes
    BY DEF Outcomes
  <2>9. usage' = IF "used" = "used" THEN usage \cup {u} ELSE usage
    BY <2>6
  <2>. HIDE DEF u, RunInv
  <2>. QED
    BY <2>1, <2>5, <2>6, <2>7, <2>8, <2>9, SettleStep
<1>7. ASSUME NEW k \in Keys, NEW c \in ReleaseCommand, Release(k, c)
      PROVE  RunInv'
  BY <1>7, ReleaseStep
<1>8. ASSUME NEW s \in Sessions, Rollback(s)
      PROVE  RunInv'
  <2>1. NoTx \in AllTx /\ NoTx.phase = "idle"
    BY DEF AllTx, NoTx
  <2>2. /\ tx' = [tx EXCEPT ![s] = NoTx] /\ clock' = clock
        /\ UNCHANGED <<reservations, usage, audits, runs>>
    BY <1>8 DEF Rollback
  <2>. HIDE DEF RunInv
  <2>. QED
    BY <2>1, <2>2, TxOnly
<1>9. CASE Tick
  <2>1. clock' \in Nat /\ UNCHANGED <<reservations, usage, audits, tx, runs>>
    BY <1>0, <1>9 DEF Tick
  <2>2. RunTypes'
    BY <2>1 DEF RunTypeOK
  <2>3. \A s \in Sessions : HoldLocked(s)' /\ RunIsLocked(s)'
    BY <2>1 DEF HoldLocked, RunIsLocked, Settling, Completion
  <2>4. UsageIsUsed' /\ RunSettlesWithBudget'
    BY <2>1 DEF UsageIsUsed, RunSettlesWithBudget
  <2>. QED
    BY <2>2, <2>3, <2>4
<1>. QED
  BY <1>1, <1>2, <1>3, <1>4, <1>5, <1>6, <1>7, <1>8, <1>9 DEF Next

\* Every step preserves the invariant: a start and a completion insert and
\* settle as the budget commands do.
LEMMA RunNextStep == RunInv /\ [RunNext]_runVars => RunInv'
<1> SUFFICES ASSUME RunInv, [RunNext]_runVars PROVE RunInv'
  OBVIOUS
<1>0. /\ RunTypeOK /\ tx \in [Sessions -> AllTx] /\ reservations \in Table
      /\ runs \in [RunIds -> RunRow \cup {NoRow}] /\ clock \in Nat
  BY DEF RunInv, RunTypes, RunTypeOK, AllTx, Table
<1>1. ASSUME NEW s \in Sessions, NEW k \in RunKeys, NEW c \in StartCommand,
             BeginStart(s, k, c)
      PROVE  RunInv'
  <2> DEFINE x == [phase |-> "run counting", key |-> k, command |-> c,
                   used |-> UsedUnits(c.account), now |-> clock]
  <2>1. UsedUnits(c.account) \in Nat
    BY RunUsedUnitsType DEF RunInv
  <2>2. x \in AllTx /\ x.phase = "run counting"
    BY <1>0, <2>1 DEF AllTx, StartTx
  <2>3. /\ tx' = [tx EXCEPT ![s] = x] /\ clock' = clock
        /\ UNCHANGED <<reservations, usage, audits, runs>>
    BY <1>1 DEF BeginStart
  <2>. HIDE DEF x
  <2>. QED
    BY <2>2, <2>3, TxOnly
<1>2. ASSUME NEW s \in Sessions, CountRunHeld(s)
      PROVE  RunInv'
  <2> DEFINE x == [tx[s] EXCEPT !.phase = "run inserting"]
  <2>1. tx[s] \in StartTx
    BY <1>0, <1>2, RunTxKinds DEF CountRunHeld
  <2>2. x \in AllTx /\ x.phase = "run inserting"
    BY <2>1 DEF AllTx, StartTx
  <2>3. tx' = [tx EXCEPT ![s] = x]
    BY <1>0, <1>2 DEF CountRunHeld
  <2>4. clock' = clock /\ UNCHANGED <<reservations, usage, audits, runs>>
    BY <1>2 DEF CountRunHeld
  <2>. HIDE DEF x
  <2>. QED
    BY <2>2, <2>3, <2>4, TxOnly
<1>3. ASSUME NEW s \in Sessions, NEW r \in ReservationIds, NEW w \in RunIds,
             CommitStart(s, r, w)
      PROVE  RunInv'
  <2> DEFINE c == tx[s].command
             expiresAt == IF c.expiresAt = NoExpiry THEN tx[s].now + RunHoldTime
                                                    ELSE c.expiresAt
             row == [state |-> "held", account |-> c.account, units |-> c.units,
                     expiresAt |-> expiresAt]
  <2>1. tx[s] \in StartTx
    BY <1>0, <1>3, RunTxKinds DEF CommitStart
  <2>2. c \in StartCommand /\ tx[s].key \in RunKeys /\ tx[s].now \in Nat
    BY <2>1 DEF StartTx
  <2>3. expiresAt \in Nat
    <3>1. c.expiresAt \in Nat \/ c.expiresAt = NoExpiry
      BY <2>2, LedgerAssumption DEF StartCommand
    <3>2. tx[s].now + RunHoldTime \in Nat
      BY <2>2, RunAssumption
    <3>. QED
      BY <3>1, <3>2
  <2>4. c.account \in Accounts /\ c.units \in Nat \ {0}
    BY <2>2, LedgerAssumption, RunAssumption DEF StartCommand
  <2>5. /\ reservations[r] = NoRow /\ reservations' = [reservations EXCEPT ![r] = row]
        /\ runs[w] = NoRow
        /\ runs' = [runs EXCEPT ![w] = [state |-> "running", reservation |-> r]]
    BY <1>3 DEF CommitStart
  <2>6. audits' = audits \cup {[op |-> "start", key |-> tx[s].key, target |-> w]}
    BY <1>3 DEF CommitStart
  <2>7. audits' \subseteq AuditRow \cup [op : {"start", "complete"},
                                         key : RunKeys, target : RunIds]
    BY <1>0, <2>2, <2>6 DEF RunTypeOK
  <2>8. tx' = [tx EXCEPT ![s] = NoTx] /\ UNCHANGED <<clock, usage>>
    BY <1>3 DEF CommitStart
  <2>. HIDE DEF expiresAt
  <2>9. row \in ReservationRow /\ row.state = "held"
    BY <2>3, <2>4 DEF ReservationRow
  <2>. HIDE DEF row
  <2>. QED
    BY <2>5, <2>7, <2>8, <2>9, InsertStep
<1>4. ASSUME NEW s \in Sessions, NEW k \in RunKeys, NEW c \in CompleteCommand,
             BeginComplete(s, k, c)
      PROVE  RunInv'
  <2> DEFINE x == [phase |-> "run locked", key |-> k, command |-> c,
                   reservation |-> runs[c.run].reservation, now |-> clock]
  <2>1. c.run \in RunIds /\ runs[c.run].state = "running"
    BY <1>4 DEF BeginComplete, CompleteCommand
  <2>2. runs[c.run].reservation \in ReservationIds
    BY <1>0, <2>1, RunRowKinds DEF RunRow
  <2>3. /\ x \in AllTx /\ x.phase = "run locked" /\ x.command.run = c.run
        /\ x.reservation = runs[c.run].reservation
    BY <1>0, <2>2 DEF AllTx, CompleteTx
  <2>4. \A t \in Sessions \ {s} : Completion(t) => tx[t].command.run # c.run
    BY <1>4 DEF BeginComplete, RunLocked, Completion
  <2>5. /\ tx' = [tx EXCEPT ![s] = x] /\ clock' = clock
        /\ UNCHANGED <<reservations, usage, audits, runs>>
    BY <1>4 DEF BeginComplete
  <2>. HIDE DEF x
  <2>. QED
    BY <2>1, <2>3, <2>4, <2>5, TxOnly
<1>5. ASSUME NEW s \in Sessions, LockHold(s)
      PROVE  RunInv'
  <2> DEFINE x == [tx[s] EXCEPT !.phase = "settling"]
  <2>1. Completion(s) /\ tx[s] \in CompleteTx
    BY <1>0, <1>5, RunTxKinds DEF LockHold
  <2>2. /\ x \in AllTx /\ x.phase = "settling"
        /\ x.reservation = tx[s].reservation /\ x.command = tx[s].command
    BY <2>1 DEF AllTx, CompleteTx
  <2>3. reservations[x.reservation].state = "held"
    BY <1>5, <2>2 DEF LockHold, CanSettle
  <2>4. \A t \in Sessions \ {s} : Settling(t) => tx[t].reservation # x.reservation
    BY <1>5, <2>2 DEF LockHold, ReservationLocked, Settling
  <2>5. /\ runs[x.command.run].state = "running"
        /\ runs[x.command.run].reservation = x.reservation
        /\ \A t \in Sessions \ {s} :
             Completion(t) => tx[t].command.run # x.command.run
    BY <2>1, <2>2 DEF RunInv, RunIsLocked
  <2>6. tx' = [tx EXCEPT ![s] = x]
    BY <1>0, <1>5 DEF LockHold
  <2>7. clock' = clock /\ UNCHANGED <<reservations, usage, audits, runs>>
    BY <1>5 DEF LockHold
  <2>. HIDE DEF x
  <2>. QED
    BY <2>2, <2>3, <2>4, <2>5, <2>6, <2>7, TxOnly
<1>6. ASSUME NEW s \in Sessions, CommitComplete(s)
      PROVE  RunInv'
  <2> DEFINE c == tx[s].command
             r == tx[s].reservation
             row == reservations[r]
             u == [key |-> tx[s].key, reservation |-> r, account |-> row.account,
                   units |-> row.units, late |-> clock >= row.expiresAt]
  <2>1. Settling(s) /\ Completion(s) /\ tx[s] \in CompleteTx
    BY <1>0, <1>6, RunTxKinds DEF CommitComplete, Settling, Completion
  <2>2. /\ r \in ReservationIds /\ row.state = "held" /\ tx[s].key \in RunKeys
        /\ c.state \in Outcomes /\ c.run \in RunIds
    BY <2>1 DEF CompleteTx, CompleteCommand, RunInv, HoldLocked
  <2>3. row \in ReservationRow
    BY <1>0, <2>2, RunRowKinds
  <2>4. (clock >= row.expiresAt) \in BOOLEAN
    OBVIOUS
  <2>5. u \in UsageRecord /\ u.reservation = r /\ u.key \in RunKeys
    BY <2>2, <2>3, <2>4 DEF ReservationRow, UsageRecord
  <2>6. /\ usage' = IF c.state = "done" THEN usage \cup {u} ELSE usage
        /\ reservations' = [reservations EXCEPT ![r].state = HoldAfter(c.state)]
        /\ runs' = [runs EXCEPT ![c.run].state = c.state]
        /\ audits' = audits \cup
             {[op |-> "complete", key |-> tx[s].key, target |-> c.run]}
        /\ tx' = [tx EXCEPT ![s] = NoTx] /\ clock' = clock
    BY <1>6 DEF CommitComplete
  <2>7. /\ HoldAfter(c.state) \in {"used", "released"}
        /\ c.state = "done" <=> HoldAfter(c.state) = "used"
    BY DEF HoldAfter
  <2>8. audits' \subseteq AuditRow \cup [op : {"start", "complete"},
                                         key : RunKeys, target : RunIds]
    BY <1>0, <2>2, <2>6 DEF RunTypeOK
  <2>. HIDE DEF u
  <2>. QED
    BY <2>1, <2>2, <2>5, <2>6, <2>7, <2>8, SettleStep
<1>7. CASE UNCHANGED runVars
  <2>1. UNCHANGED <<clock, reservations, usage, audits, tx, runs>>
    BY <1>7 DEF runVars, vars
  <2>2. RunTypes' = RunTypes
    BY <2>1 DEF RunTypes, RunTypeOK
  <2>3. \A s \in Sessions : /\ HoldLocked(s)' <=> HoldLocked(s)
                            /\ RunIsLocked(s)' <=> RunIsLocked(s)
    BY <2>1 DEF HoldLocked, RunIsLocked, Settling, Completion
  <2>4. /\ UsageIsUsed' <=> UsageIsUsed
        /\ RunSettlesWithBudget' <=> RunSettlesWithBudget
    BY <2>1 DEF UsageIsUsed, RunSettlesWithBudget
  <2>. QED
    BY <2>2, <2>3, <2>4 DEF RunInv
<1>. QED
  BY <1>1, <1>2, <1>3, <1>4, <1>5, <1>6, <1>7, BudgetStep DEF RunNext

LEMMA RunInitial == RunInit => RunInv
<1>1. SUFFICES ASSUME RunInit PROVE RunInv
  OBVIOUS
<1>2. /\ clock = 0 /\ usage = {} /\ audits = {}
      /\ reservations = [r \in ReservationIds |-> NoRow]
      /\ tx = [s \in Sessions |-> NoTx]
      /\ runs = [w \in RunIds |-> NoRow]
  BY <1>1 DEF RunInit, Init
<1>3. RunTypes
  BY <1>2, FS_EmptySet DEF RunTypes, RunTypeOK
<1>4. \A s \in Sessions : HoldLocked(s) /\ RunIsLocked(s)
  BY <1>2 DEF HoldLocked, RunIsLocked, Settling, Completion, NoTx
<1>5. UsageIsUsed /\ RunSettlesWithBudget
  BY <1>2 DEF UsageIsUsed, RunSettlesWithBudget
<1>. QED
  BY <1>3, <1>4, <1>5 DEF RunInv

LEMMA RunInvariant == RunSpec => []RunInv
BY RunInitial, RunNextStep, PTL DEF RunSpec

\* Every value the two commands write, beside those of the budget commands,
\* has the type its table declares.
THEOREM RunTypesCorrect == RunSpec => []RunTypeOK
<1>1. RunInv => RunTypeOK
  BY DEF RunInv, RunTypes
<1>. QED
  BY <1>1, RunInvariant, PTL

\* A run and its hold settle together, whatever budget commands reach the same
\* hold at the same time: completeWorkerRun keeps both locked from the checks
\* to the commit.
THEOREM RunsSettleWithBudget == RunSpec => []RunSettlesWithBudget
<1>1. RunInv => RunSettlesWithBudget
  BY DEF RunInv
<1>. QED
  BY <1>1, RunInvariant, PTL

-----------------------------------------------------------------------------
\* A step writes the row of a hold only while it is missing or held, and that
\* of a run only while it is missing or running, keeping its hold.
LEMMA OnlyOpenRowsChange ==
  ASSUME RunInv, [RunNext]_runVars
  PROVE  /\ \A r \in ReservationIds :
              reservations[r] = NoRow \/ reservations[r].state = "held"
                \/ reservations'[r] = reservations[r]
         /\ \A w \in RunIds :
              \/ runs[w] = NoRow
              \/ runs[w].state = "running" /\ runs'[w].reservation = runs[w].reservation
              \/ runs'[w] = runs[w]
<1>0. /\ RunTypeOK /\ reservations \in [ReservationIds -> ReservationRow \cup {NoRow}]
      /\ runs \in [RunIds -> RunRow \cup {NoRow}]
  BY DEF RunInv, RunTypes, RunTypeOK
<1> DEFINE Rows ==
             \A r \in ReservationIds :
               reservations[r] = NoRow \/ reservations[r].state = "held"
                 \/ reservations'[r] = reservations[r]
           Runs ==
             \A w \in RunIds :
               \/ runs[w] = NoRow
               \/ runs[w].state = "running" /\ runs'[w].reservation = runs[w].reservation
               \/ runs'[w] = runs[w]
<1>1. ASSUME UNCHANGED <<reservations, runs>>
      PROVE  Rows /\ Runs
  BY <1>1
<1>2. ASSUME NEW s \in Sessions, NEW r \in ReservationIds, CommitReserve(s, r),
             UNCHANGED runs
      PROVE  Rows /\ Runs
  BY <1>0, <1>2 DEF CommitReserve
<1>3. ASSUME NEW s \in Sessions, CommitCharge(s), UNCHANGED runs
      PROVE  Rows /\ Runs
  <2>1. reservations[tx[s].reservation].state = "held"
    BY <1>3 DEF CommitCharge, RunInv, HoldLocked, Settling
  <2>. QED
    BY <1>0, <1>3, <2>1 DEF CommitCharge
<1>4. ASSUME NEW k \in Keys, NEW c \in ReleaseCommand, Release(k, c),
             UNCHANGED runs
      PROVE  Rows /\ Runs
  BY <1>0, <1>4 DEF Release
<1>5. ASSUME NEW s \in Sessions, NEW r \in ReservationIds, NEW w \in RunIds,
             CommitStart(s, r, w)
      PROVE  Rows /\ Runs
  BY <1>0, <1>5 DEF CommitStart
<1>6. ASSUME NEW s \in Sessions, CommitComplete(s)
      PROVE  Rows /\ Runs
  <2> DEFINE v == tx[s].command.run
  <2>1. /\ reservations[tx[s].reservation].state = "held"
        /\ runs[v].state = "running"
    BY <1>6 DEF CommitComplete, RunInv, HoldLocked, RunIsLocked, Settling, Completion
  <2>2. /\ \A r \in ReservationIds \ {tx[s].reservation} :
             reservations'[r] = reservations[r]
        /\ runs' = [runs EXCEPT ![v].state = tx[s].command.state]
    BY <1>0, <1>6 DEF CommitComplete
  <2>. HIDE DEF v
  <2>3. \A w \in RunIds \ {v} : runs'[w] = runs[w]
    BY <1>0, <2>2
  <2>4. v \in RunIds => runs'[v].reservation = runs[v].reservation
    <3>1. SUFFICES ASSUME v \in RunIds PROVE runs'[v].reservation = runs[v].reservation
      OBVIOUS
    <3>2. runs[v] \in RunRow
      BY <1>0, <2>1, <3>1, RunRowKinds
    <3>3. runs'[v] = [runs[v] EXCEPT !.state = tx[s].command.state]
      BY <1>0, <2>2, <3>1
    <3>. QED
      BY <3>2, <3>3 DEF RunRow
  <2>. QED
    BY <2>1, <2>2, <2>3, <2>4
<1>7. ASSUME Next, UNCHANGED runs
      PROVE  Rows /\ Runs
  <2>1. ASSUME NEW s \in Sessions, Rollback(s) PROVE Rows /\ Runs
    BY <1>1, <1>7, <2>1 DEF Rollback
  <2>2. ASSUME NEW s \in Sessions, CountUsed(s) \/ CountHeld(s) PROVE Rows /\ Runs
    BY <1>1, <1>7, <2>2 DEF CountUsed, CountHeld
  <2>3. ASSUME NEW s \in Sessions, NEW k \in Keys, NEW c \in ReserveCommand,
               BeginReserve(s, k, c)
        PROVE  Rows /\ Runs
    BY <1>1, <1>7, <2>3 DEF BeginReserve
  <2>4. ASSUME NEW s \in Sessions, NEW k \in Keys, NEW c \in ChargeCommand,
               BeginCharge(s, k, c)
        PROVE  Rows /\ Runs
    BY <1>1, <1>7, <2>4 DEF BeginCharge
  <2>5. ASSUME Tick PROVE Rows /\ Runs
    BY <1>1, <1>7, <2>5 DEF Tick
  <2>. HIDE DEF Rows, Runs
  <2>. QED
    BY <1>2, <1>3, <1>4, <1>7, <2>1, <2>2, <2>3, <2>4, <2>5 DEF Next
<1>8. ASSUME UNCHANGED runVars
      PROVE  Rows /\ Runs
  BY <1>1, <1>8 DEF runVars, vars
<1>9. ASSUME NEW s \in Sessions, CountRunHeld(s) \/ LockHold(s)
      PROVE  Rows /\ Runs
  BY <1>1, <1>9 DEF CountRunHeld, LockHold
<1>10. ASSUME NEW s \in Sessions, NEW k \in RunKeys, NEW c \in StartCommand,
              BeginStart(s, k, c)
       PROVE  Rows /\ Runs
  BY <1>1, <1>10 DEF BeginStart
<1>11. ASSUME NEW s \in Sessions, NEW k \in RunKeys, NEW c \in CompleteCommand,
              BeginComplete(s, k, c)
       PROVE  Rows /\ Runs
  BY <1>1, <1>11 DEF BeginComplete
<1>12. Rows /\ Runs
  <2>. HIDE DEF Rows, Runs
  <2>. QED
    BY <1>5, <1>6, <1>7, <1>8, <1>9, <1>10, <1>11 DEF RunNext
<1>. QED
  BY <1>12

\* What a completed run says stays true: neither a second completion nor a
\* budget command that races it changes the run or its settled hold.
THEOREM RunOutcomeIsFinal == RunSpec => OutcomeIsFinal
<1> DEFINE Final ==
      \A w \in RunIds : runs[w] # NoRow =>
        LET r == runs[w].reservation
        IN  /\ runs'[w].reservation = r
            /\ runs[w].state # "running" =>
                 runs'[w] = runs[w] /\ reservations'[r] = reservations[r]
<1>1. RunInv /\ [RunNext]_runVars => [Final]_runVars
  <2>1. SUFFICES ASSUME RunInv, [RunNext]_runVars, NEW w \in RunIds, runs[w] # NoRow
                 PROVE  /\ runs'[w].reservation = runs[w].reservation
                        /\ runs[w].state # "running" =>
                             /\ runs'[w] = runs[w]
                             /\ reservations'[runs[w].reservation]
                                  = reservations[runs[w].reservation]
    OBVIOUS
  <2>2. runs[w] \in RunRow
    BY <2>1, RunRowKinds DEF RunInv, RunTypes
  <2>3. runs[w].state # "running" =>
          /\ reservations[runs[w].reservation] # NoRow
          /\ reservations[runs[w].reservation].state # "held"
    BY <2>1, <2>2 DEF RunInv, RunSettlesWithBudget, RunRow, Outcomes
  <2>. QED
    BY <2>1, <2>2, <2>3, OnlyOpenRowsChange DEF RunRow
<1>2. RunSpec => [][Final]_runVars
  BY <1>1, RunInvariant, PTL DEF RunSpec
<1>. QED
  BY <1>2 DEF OutcomeIsFinal

-----------------------------------------------------------------------------
(* The limit of an account that is not a worker's. The counts of an open   *)
(* budget.reserve are right for every account, as in BudgetLedgerProofs: a *)
(* start inserts no hold and a completion no charge while a reserve has    *)
(* the account row locked. Only starts escape the limit, and only on the   *)
(* worker's own account, for they count without that lock.                 *)

Shared == Accounts \ WorkerAccounts
RunLimitInv == CountInv /\ \A a \in Shared : LimitOf(a)

\* The sums of a state are numbers.
LEMMA RunSums ==
  ASSUME RunTypes, NEW a, NEW t
  PROVE  /\ TimelyOf(usage, a) \in Nat
         /\ UsedUnits(a) \in Nat
         /\ TimelyOf(usage, a) <= UsedUnits(a)
         /\ HeldOf(reservations, a, t) \in Nat
<1>1. (\A u \in usage : u.units \in Nat) /\ IsFiniteSet(usage) /\ reservations \in Table
  BY DEF RunTypes, RunTypeOK, Table
<1>. QED
  BY <1>1, TimelyType, HeldType DEF UsedUnits

\* A transaction that has the account row locked is a well-typed reserve.
LEMMA RunCountingType ==
  ASSUME RunTypes, NEW s \in Sessions, Counting(s)
  PROVE  /\ tx[s] \in ReserveTx
         /\ tx[s].command.account \in Accounts
         /\ tx[s].command.units \in Nat \ {0}
         /\ tx[s].used \in Nat
         /\ tx[s].now \in Nat
         /\ MaxUnits(tx[s].command.account) \in Nat
<1>1. tx[s] \in ReserveTx
  BY RunTxKinds DEF Counting, RunTypes
<1>2. tx[s].command.account \in Accounts /\ tx[s].command.units \in UnitSizes
  BY <1>1 DEF ReserveTx, ReserveCommand
<1>. QED
  BY <1>1, <1>2, LedgerAssumption, MaxUnitsType DEF ReserveTx

\* Whatever reads the same commands and leaves no account spending or holding
\* more keeps the counts and the limits of the accounts it leaves alone.
LEMMA NoMoreUnits ==
  ASSUME RunTypes, RunTypes', CountInv, NEW A \in SUBSET Accounts,
         clock <= clock',
         \A t \in Sessions : tx'[t] = tx[t] \/ ~Counting(t)',
         \A t \in Sessions : Counting(t)' => tx[t].command.account \in A,
         \A a \in A : /\ TimelyOf(usage', a) <= TimelyOf(usage, a)
                      /\ HeldOf(reservations', a, clock')
                           <= HeldOf(reservations, a, clock)
  PROVE  CountInv' /\ \A a \in A : LimitOf(a) => LimitOf(a)'
<1>1. ASSUME NEW a \in Accounts
      PROVE  /\ TimelyOf(usage, a) \in Nat /\ HeldOf(reservations, a, clock) \in Nat
             /\ TimelyOf(usage', a) \in Nat /\ HeldOf(reservations', a, clock') \in Nat
             /\ MaxUnits(a) \in Nat
  <2>1. /\ \A u \in usage' : u.units \in Nat
        /\ IsFiniteSet(usage') /\ reservations' \in Table
    BY DEF RunTypes, RunTypeOK, Table
  <2>2. TimelyOf(usage', a) \in Nat
    BY <2>1, TimelyType
  <2>3. HeldOf(reservations', a, clock') \in Nat
    BY <2>1, HeldType
  <2>. QED
    BY <2>2, <2>3, RunSums, MaxUnitsType
<1>2. ASSUME NEW a \in A, LimitOf(a) PROVE LimitOf(a)'
  <2>1. TimelyOf(usage, a) + HeldOf(reservations, a, clock) <= MaxUnits(a)
    BY <1>2 DEF LimitOf
  <2>2. TimelyOf(usage', a) + HeldOf(reservations', a, clock') <= MaxUnits(a)
    BY <1>1, <2>1
  <2>. QED
    BY <2>2 DEF LimitOf
<1>3. CountInv'
  <2>1. SUFFICES ASSUME NEW t \in Sessions, Counting(t)'
                 PROVE  /\ TimelyOf(usage', tx'[t].command.account) <= tx'[t].used
                        /\ tx'[t].now <= clock'
                        /\ tx'[t].phase = "inserting" =>
                             tx'[t].used
                               + HeldOf(reservations', tx'[t].command.account, clock')
                               + tx'[t].command.units
                             <= MaxUnits(tx'[t].command.account)
                        /\ \A u \in Sessions :
                             Counting(u)'
                               /\ tx'[u].command.account = tx'[t].command.account
                               => u = t
    BY DEF CountInv
  <2> DEFINE a == tx[t].command.account
  <2>2. tx'[t] = tx[t] /\ Counting(t) /\ a \in A
    BY <2>1 DEF Counting
  <2>3. /\ TimelyOf(usage, a) <= tx[t].used
        /\ tx[t].now <= clock
        /\ tx[t].phase = "inserting" =>
             tx[t].used + HeldOf(reservations, a, clock) + tx[t].command.units
               <= MaxUnits(a)
        /\ \A u \in Sessions : Counting(u) /\ tx[u].command.account = a => u = t
    BY <2>2 DEF CountInv
  <2>4. tx[t].used \in Nat /\ tx[t].now \in Nat /\ tx[t].command.units \in Nat
    BY <2>2, RunCountingType
  <2>5. clock \in Nat /\ clock' \in Nat
    BY DEF RunTypes, RunTypeOK
  <2>6. /\ TimelyOf(usage', a) <= TimelyOf(usage, a)
        /\ HeldOf(reservations', a, clock') <= HeldOf(reservations, a, clock)
    BY <2>2
  <2>7. TimelyOf(usage', a) <= tx[t].used
    BY <1>1, <2>2, <2>3, <2>4, <2>6
  <2>8. tx[t].now <= clock'
    BY <2>3, <2>4, <2>5
  <2>9. tx[t].phase = "inserting" =>
          tx[t].used + HeldOf(reservations', a, clock') + tx[t].command.units
            <= MaxUnits(a)
    BY <1>1, <2>2, <2>3, <2>4, <2>6
  <2>10. ASSUME NEW u \in Sessions, Counting(u)', tx'[u].command.account = a
         PROVE  u = t
    <3>1. tx'[u] = tx[u] /\ Counting(u)
      BY <2>10 DEF Counting
    <3>. QED
      BY <2>3, <2>10, <3>1
  <2>. QED
    BY <2>2, <2>7, <2>8, <2>9, <2>10
<1>. QED
  BY <1>2, <1>3

\* A step that only opens, advances or ends a transaction that counts nothing.
LEMMA TxKeepsLimits ==
  ASSUME RunTypes, RunTypes', RunLimitInv,
         UNCHANGED <<clock, reservations, usage>>,
         \A t \in Sessions : tx'[t] = tx[t] \/ ~Counting(t)'
  PROVE  RunLimitInv'
<1>1. clock \in Nat /\ clock' = clock
  BY DEF RunTypes, RunTypeOK
<1>2. \A t \in Sessions : Counting(t)' => tx[t].command.account \in Accounts
  BY RunCountingType DEF Counting
<1>3. ASSUME NEW a \in Accounts
      PROVE  /\ TimelyOf(usage', a) <= TimelyOf(usage, a)
             /\ HeldOf(reservations', a, clock') <= HeldOf(reservations, a, clock)
  <2>1. TimelyOf(usage, a) \in Nat /\ HeldOf(reservations, a, clock) \in Nat
    BY RunSums
  <2>2. /\ TimelyOf(usage', a) = TimelyOf(usage, a)
        /\ HeldOf(reservations', a, clock') = HeldOf(reservations, a, clock)
    OBVIOUS
  <2>. QED
    BY <2>1, <2>2
<1>4. CountInv /\ Accounts \in SUBSET Accounts /\ clock <= clock'
  BY <1>1 DEF RunLimitInv
<1>5. CountInv' /\ \A a \in Accounts : LimitOf(a) => LimitOf(a)'
  BY <1>2, <1>3, <1>4, NoMoreUnits
<1>. QED
  BY <1>5 DEF RunLimitInv, Shared

\* Fewer holds, of the same size, or later: no account holds more.
LEMMA FewerHolds ==
  ASSUME RunTypes, RunTypes', RunLimitInv, clock <= clock', usage' = usage,
         \A r \in ReservationIds :
           \/ reservations'[r] = reservations[r]
           \/ reservations'[r].state # "held",
         \A t \in Sessions : tx'[t] = tx[t] \/ ~Counting(t)'
  PROVE  RunLimitInv'
<1>1. clock \in Nat /\ clock' \in Nat /\ reservations \in Table /\ reservations' \in Table
  BY DEF RunTypes, RunTypeOK, Table
<1>2. \A t \in Sessions : Counting(t)' => tx[t].command.account \in Accounts
  BY RunCountingType DEF Counting
<1>3. ASSUME NEW a \in Accounts
      PROVE  /\ TimelyOf(usage', a) <= TimelyOf(usage, a)
             /\ HeldOf(reservations', a, clock') <= HeldOf(reservations, a, clock)
  <2>1. TimelyOf(usage, a) \in Nat /\ HeldOf(reservations, a, clock) \in Nat
          /\ HeldOf(reservations, a, clock') \in Nat
          /\ HeldOf(reservations', a, clock') \in Nat
    BY <1>1, RunSums, HeldType
  <2>2. \A r \in LiveOf(reservations', a, clock') :
          r \in LiveOf(reservations, a, clock')
            /\ reservations'[r].units = reservations[r].units
    BY DEF LiveOf
  <2>3. HeldOf(reservations', a, clock') <= HeldOf(reservations, a, clock')
    BY <1>1, <2>2, HeldMonotone
  <2>4. HeldOf(reservations, a, clock') <= HeldOf(reservations, a, clock)
    BY <1>1, HeldLater
  <2>5. HeldOf(reservations', a, clock') <= HeldOf(reservations, a, clock)
    BY <2>1, <2>3, <2>4
  <2>. QED
    BY <2>1, <2>5
<1>4. CountInv /\ Accounts \in SUBSET Accounts
  BY DEF RunLimitInv
<1>5. CountInv' /\ \A a \in Accounts : LimitOf(a) => LimitOf(a)'
  BY <1>2, <1>3, <1>4, NoMoreUnits
<1>. QED
  BY <1>5 DEF RunLimitInv, Shared

\* A hold inserted on one account leaves what the others hold alone.
LEMMA OthersHold ==
  ASSUME NEW res \in Table, NEW new \in Table, NEW r \in ReservationIds,
         res[r] = NoRow, \A q \in ReservationIds \ {r} : new[q] = res[q],
         NEW b, new[r].account # b, NEW t
  PROVE  HeldOf(new, b, t) = HeldOf(res, b, t)
<1>1. LiveOf(new, b, t) = LiveOf(res, b, t)
  BY DEF LiveOf, NoRow
<1>2. \A q \in LiveOf(new, b, t) : new[q].units = res[q].units
  BY DEF LiveOf
<1>. QED
  BY <1>1, <1>2 DEF HeldOf

\* An insert on account a, while no other transaction has a's row locked:
\* budget.reserve has counted for it, and a start is on a worker's account.
LEMMA InsertKeepsLimits ==
  ASSUME RunTypes, RunTypes', RunLimitInv, NEW s \in Sessions,
         NEW r \in ReservationIds, NEW a \in Accounts, NEW n \in Nat,
         reservations[r] = NoRow,
         \A q \in ReservationIds \ {r} : reservations'[q] = reservations[q],
         reservations'[r].state = "held", reservations'[r].account = a,
         reservations'[r].units = n,
         UNCHANGED <<clock, usage>>,
         \A t \in Sessions \ {s} :
           tx'[t] = tx[t] /\ (Counting(t) => tx[t].command.account # a),
         tx'[s] = NoTx,
         \/ a \notin Shared
         \/ reservations'[r].expiresAt > clock
              /\ TimelyOf(usage, a) + HeldOf(reservations, a, clock) + n <= MaxUnits(a)
  PROVE  RunLimitInv'
<1> DEFINE A == Accounts \ {a}
<1>1. clock \in Nat /\ clock' = clock /\ reservations \in Table /\ reservations' \in Table
  BY DEF RunTypes, RunTypeOK, Table
<1>2. ~Counting(s)'
  BY DEF Counting, NoTx
<1>3. \A t \in Sessions : /\ tx'[t] = tx[t] \/ ~Counting(t)'
                          /\ Counting(t)' => tx[t].command.account \in A
  BY <1>2, RunCountingType DEF Counting
<1>4. ASSUME NEW b \in A
      PROVE  /\ TimelyOf(usage', b) <= TimelyOf(usage, b)
             /\ HeldOf(reservations', b, clock') <= HeldOf(reservations, b, clock)
  <2>1. TimelyOf(usage, b) \in Nat /\ HeldOf(reservations, b, clock) \in Nat
    BY RunSums
  <2>2. HeldOf(reservations', b, clock') = HeldOf(reservations, b, clock)
    BY <1>1, OthersHold
  <2>3. TimelyOf(usage', b) = TimelyOf(usage, b)
    OBVIOUS
  <2>. QED
    BY <2>1, <2>2, <2>3
<1>5. CountInv /\ A \in SUBSET Accounts /\ clock <= clock'
  BY <1>1 DEF RunLimitInv
<1>. HIDE DEF A
<1>6. CountInv' /\ \A b \in A : LimitOf(b) => LimitOf(b)'
  BY <1>3, <1>4, <1>5, NoMoreUnits
<1>7. a \in Shared => LimitOf(a)'
  <2>1. SUFFICES ASSUME a \in Shared
                 PROVE  TimelyOf(usage', a) + HeldOf(reservations', a, clock')
                          <= MaxUnits(a)
    BY DEF LimitOf
  <2>2. r \in LiveOf(reservations', a, clock)
    BY <2>1 DEF LiveOf
  <2>3. LiveOf(reservations, a, clock) = LiveOf(reservations', a, clock) \ {r}
    BY DEF LiveOf, NoRow
  <2>4. \A q \in LiveOf(reservations, a, clock) :
          reservations'[q].units = reservations[q].units
    BY <2>3 DEF LiveOf
  <2>5. HeldOf(reservations', a, clock) = HeldOf(reservations, a, clock) + n
    BY <1>1, <2>2, <2>3, <2>4, HeldAdd
  <2>6. TimelyOf(usage, a) \in Nat /\ HeldOf(reservations, a, clock) \in Nat
          /\ MaxUnits(a) \in Nat
    BY RunSums, MaxUnitsType
  <2>7. TimelyOf(usage, a) + HeldOf(reservations', a, clock) <= MaxUnits(a)
    BY <2>1, <2>5, <2>6
  <2>. QED
    BY <1>1, <2>7
<1>. QED
  BY <1>6, <1>7 DEF RunLimitInv, Shared, A

\* A charge moves the units of a live hold to the account's usage; that of an
\* expired one is late, and counts as nothing here.
LEMMA ChargeKeepsLimits ==
  ASSUME RunTypes, RunTypes', RunLimitInv, NEW s \in Sessions,
         NEW r \in ReservationIds, NEW a \in Accounts, NEW n \in Nat, NEW u,
         reservations[r].state = "held", reservations[r].account = a,
         reservations[r].units = n, reservations[r].expiresAt \in Nat,
         reservations'[r].state = "used",
         \A q \in ReservationIds \ {r} : reservations'[q] = reservations[q],
         u \notin usage, usage' = usage \cup {u}, clock' = clock,
         u.account = a, u.units = n,
         ~u.late => reservations[r].expiresAt > clock,
         \A t \in Sessions \ {s} : tx'[t] = tx[t], tx'[s] = NoTx,
         \A t \in Sessions : Counting(t) => tx[t].command.account # a
  PROVE  RunLimitInv'
<1> DEFINE A == Accounts \ {a}
<1>1. /\ clock \in Nat /\ reservations \in Table /\ reservations' \in Table
      /\ \A v \in usage : v.units \in Nat
      /\ IsFiniteSet(usage)
  BY DEF RunTypes, RunTypeOK, Table
<1>2. ~Counting(s)'
  BY DEF Counting, NoTx
<1>3. \A t \in Sessions : /\ tx'[t] = tx[t] \/ ~Counting(t)'
                          /\ Counting(t)' => tx[t].command.account \in A
  BY <1>2, RunCountingType DEF Counting
<1>4. ASSUME NEW b \in Accounts
      PROVE  TimelyOf(usage', b) =
               IF a = b /\ ~u.late THEN TimelyOf(usage, b) + n ELSE TimelyOf(usage, b)
  BY <1>1, TimelyAdd
<1>5. ASSUME NEW b \in Accounts
      PROVE  /\ TimelyOf(usage, b) \in Nat /\ HeldOf(reservations, b, clock) \in Nat
             /\ HeldOf(reservations', b, clock) \in Nat
             /\ HeldOf(reservations', b, clock) <= HeldOf(reservations, b, clock)
  <2>1. \A q \in LiveOf(reservations', b, clock) :
          q \in LiveOf(reservations, b, clock)
            /\ reservations'[q].units = reservations[q].units
    BY DEF LiveOf
  <2>. QED
    BY <1>1, <2>1, RunSums, HeldType, HeldMonotone
<1>6. ASSUME NEW b \in A
      PROVE  /\ TimelyOf(usage', b) <= TimelyOf(usage, b)
             /\ HeldOf(reservations', b, clock') <= HeldOf(reservations, b, clock)
  <2>1. TimelyOf(usage', b) = TimelyOf(usage, b) /\ b \in Accounts
    BY <1>4
  <2>. QED
    BY <1>5, <2>1
<1>7. CountInv /\ A \in SUBSET Accounts /\ clock <= clock'
  BY <1>1 DEF RunLimitInv
<1>. HIDE DEF A
<1>8. CountInv' /\ \A b \in A : LimitOf(b) => LimitOf(b)'
  BY <1>3, <1>6, <1>7, NoMoreUnits
<1>9. LimitOf(a) => LimitOf(a)'
  <2>1. SUFFICES ASSUME TimelyOf(usage, a) + HeldOf(reservations, a, clock)
                          <= MaxUnits(a)
                 PROVE  TimelyOf(usage', a) + HeldOf(reservations', a, clock)
                          <= MaxUnits(a)
    BY DEF LimitOf
  <2>2. MaxUnits(a) \in Nat
    BY MaxUnitsType
  <2>3. CASE u.late
    <3>1. TimelyOf(usage', a) = TimelyOf(usage, a)
      BY <1>4, <2>3
    <3>. QED
      BY <1>5, <2>1, <2>2, <3>1
  <2>4. CASE ~u.late
    <3>1. r \in LiveOf(reservations, a, clock)
      BY <2>4 DEF LiveOf
    <3>2. LiveOf(reservations', a, clock) = LiveOf(reservations, a, clock) \ {r}
      BY DEF LiveOf
    <3>3. \A q \in LiveOf(reservations', a, clock) :
            reservations[q].units = reservations'[q].units
      BY <3>2 DEF LiveOf
    <3>4. HeldOf(reservations, a, clock) = HeldOf(reservations', a, clock) + n
      BY <1>1, <3>1, <3>2, <3>3, HeldAdd
    <3>5. TimelyOf(usage', a) = TimelyOf(usage, a) + n
      BY <1>4, <2>4
    <3>. QED
      BY <1>5, <2>1, <2>2, <3>4, <3>5
  <2>. QED
    BY <2>3, <2>4
<1>. QED
  BY <1>8, <1>9 DEF RunLimitInv, Shared, A

\* Counting the usage, and then the holds, of a locked account.
LEMMA CountingKeepsLimits ==
  ASSUME RunTypes, RunTypes', RunLimitInv, NEW s \in Sessions,
         CountUsed(s) \/ CountHeld(s)
  PROVE  RunLimitInv'
<1>0. /\ tx \in [Sessions -> AllTx] /\ reservations \in Table /\ clock \in Nat
  BY DEF RunTypes, RunTypeOK, AllTx, Table
<1> DEFINE a == tx[s].command.account
<1>1. UNCHANGED <<clock, reservations, usage>>
        /\ \A t \in Sessions \ {s} : tx'[t] = tx[t]
  BY <1>0 DEF CountUsed, CountHeld
<1>2. tx[s] \in ReserveTx
  BY RunTxKinds DEF RunTypes, CountUsed, CountHeld
<1>3. a \in Accounts /\ tx[s].command.units \in Nat /\ MaxUnits(a) \in Nat
  BY <1>2, LedgerAssumption, MaxUnitsType DEF ReserveTx, ReserveCommand
<1>4. CASE CountUsed(s)
  <2>1. /\ tx'[s].phase = "counting" /\ tx'[s].used = UsedUnits(a)
        /\ tx'[s].now = clock /\ tx'[s].command = tx[s].command
    BY <1>0, <1>2, <1>4 DEF CountUsed, ReserveTx
  <2>2. \A t \in Sessions \ {s} : Counting(t) => tx[t].command.account # a
    BY <1>4 DEF CountUsed, AccountLocked, Counting
  <2>3. TimelyOf(usage, a) <= UsedUnits(a)
    BY RunSums
  <2>4. clock <= clock
    BY <1>0
  <2>5. CountInv'
    BY <1>1, <2>1, <2>2, <2>3, <2>4 DEF RunLimitInv, CountInv, Counting
  <2>. QED
    BY <1>1, <2>5 DEF RunLimitInv, LimitOf
<1>5. CASE CountHeld(s)
  <2>1. /\ tx'[s].phase = "inserting" /\ tx'[s].used = tx[s].used
        /\ tx'[s].now = tx[s].now /\ tx'[s].command = tx[s].command
    BY <1>0, <1>2, <1>5 DEF CountHeld, ReserveTx
  <2>2. Counting(s)
    BY <1>5 DEF CountHeld, Counting
  <2>3. tx[s].used \in Nat /\ tx[s].now \in Nat
    BY <1>2 DEF ReserveTx
  <2>4. tx[s].used + HeldOf(reservations, a, tx[s].now) + tx[s].command.units
          <= MaxUnits(a)
    BY <1>5 DEF CountHeld, HeldUnits, HeldOf, Live, LiveOf
  <2>5. tx[s].now <= clock
    BY <2>2 DEF RunLimitInv, CountInv
  <2>6. HeldOf(reservations, a, clock) <= HeldOf(reservations, a, tx[s].now)
    BY <1>0, <2>3, <2>5, HeldLater
  <2>7. HeldOf(reservations, a, clock) \in Nat
          /\ HeldOf(reservations, a, tx[s].now) \in Nat
    BY RunSums
  <2>8. tx[s].used + HeldOf(reservations, a, clock) + tx[s].command.units
          <= MaxUnits(a)
    BY <1>3, <2>3, <2>4, <2>6, <2>7
  <2>9. CountInv'
    BY <1>1, <2>1, <2>2, <2>8 DEF RunLimitInv, CountInv, Counting
  <2>. QED
    BY <1>1, <2>9 DEF RunLimitInv, LimitOf
<1>. QED
  BY <1>4, <1>5

\* The charge that budget.charge and a "done" completion make.
LEMMA SettledCharge ==
  ASSUME RunInv, RunInv', RunLimitInv, NEW s \in Sessions, Settling(s),
         NEW r, r = tx[s].reservation, NEW row, row = reservations[r],
         NEW u,
         u = [key |-> tx[s].key, reservation |-> r, account |-> row.account,
              units |-> row.units, late |-> clock >= row.expiresAt],
         ~AccountLocked(row.account),
         usage' = usage \cup {u},
         reservations' = [reservations EXCEPT ![r].state = "used"],
         tx' = [tx EXCEPT ![s] = NoTx], clock' = clock
  PROVE  RunLimitInv'
<1>1. /\ RunTypes /\ RunTypes' /\ tx \in [Sessions -> AllTx]
      /\ reservations \in [ReservationIds -> ReservationRow \cup {NoRow}]
      /\ clock \in Nat
  BY DEF RunInv, RunTypes, RunTypeOK, AllTx
<1>2. r \in ReservationIds /\ row.state = "held"
  BY <1>1, RunTxKinds DEF RunTypes, RunInv, HoldLocked
<1>3. row \in ReservationRow
  BY <1>1, <1>2, RunRowKinds DEF RunTypes
<1>4. row.account \in Accounts /\ row.units \in Nat /\ row.expiresAt \in Nat
  BY <1>3 DEF ReservationRow
<1>5. u.reservation = r /\ u.account = row.account /\ u.units = row.units
  OBVIOUS
<1>6. u \notin usage
  BY <1>2, <1>5 DEF RunInv, UsageIsUsed
<1>7. ~u.late => row.expiresAt > clock
  <2>1. u.late = (clock >= row.expiresAt)
    BY ZenonT(30)
  <2>2. SUFFICES ASSUME ~u.late PROVE row.expiresAt > clock
    OBVIOUS
  <2>3. ~(clock >= row.expiresAt)
    BY <2>1, <2>2
  <2>. QED
    BY <1>1, <1>4, <2>3
<1>8. /\ reservations'[r].state = "used"
      /\ \A q \in ReservationIds \ {r} : reservations'[q] = reservations[q]
  BY <1>1, <1>2, <1>3 DEF ReservationRow
<1>9. tx'[s] = NoTx /\ \A t \in Sessions \ {s} : tx'[t] = tx[t]
  BY <1>1
<1>10. \A t \in Sessions : Counting(t) => tx[t].command.account # row.account
  BY DEF AccountLocked, Counting
<1>. QED
  BY <1>1, <1>2, <1>4, <1>5, <1>6, <1>7, <1>8, <1>9, <1>10, ChargeKeepsLimits

\* Every step keeps the counts, and the limits of the accounts runs do not use.
LEMMA RunLimitStep == RunInv /\ RunLimitInv /\ [RunNext]_runVars => RunLimitInv'
<1> SUFFICES ASSUME RunInv, RunLimitInv, [RunNext]_runVars PROVE RunLimitInv'
  OBVIOUS
<1>0. RunInv'
  BY RunNextStep
<1>a. /\ RunTypes /\ RunTypes' /\ RunTypeOK /\ tx \in [Sessions -> AllTx]
      /\ reservations \in [ReservationIds -> ReservationRow \cup {NoRow}]
      /\ clock \in Nat
  BY <1>0 DEF RunInv, RunTypes, RunTypeOK, AllTx
\* Steps that leave the tables alone.
<1>b. ASSUME NEW s \in Sessions, NEW x, tx' = [tx EXCEPT ![s] = x],
             x.phase \notin {"counting", "inserting"},
             UNCHANGED <<clock, reservations, usage>>
      PROVE  RunLimitInv'
  <2>1. \A t \in Sessions : tx'[t] = tx[t] \/ ~Counting(t)'
    BY <1>a, <1>b DEF Counting
  <2>. QED
    BY <1>a, <1>b, <2>1, TxKeepsLimits
<1>1. ASSUME NEW s \in Sessions, NEW k \in Keys, NEW c \in ReserveCommand,
             BeginReserve(s, k, c)
      PROVE  RunLimitInv'
  BY <1>1, <1>b DEF BeginReserve
<1>2. ASSUME NEW s \in Sessions, CountUsed(s) \/ CountHeld(s)
      PROVE  RunLimitInv'
  BY <1>2, <1>a, CountingKeepsLimits
<1>3. ASSUME NEW s \in Sessions, NEW r \in ReservationIds, CommitReserve(s, r)
      PROVE  RunLimitInv'
  <2> DEFINE c == tx[s].command
  <2>1. Counting(s) /\ tx[s].phase = "inserting"
    BY <1>3 DEF CommitReserve, Counting
  <2>2. c.account \in Accounts /\ c.units \in Nat
    BY <1>a, <2>1, RunCountingType
  <2>3. /\ reservations[r] = NoRow
        /\ \A q \in ReservationIds \ {r} : reservations'[q] = reservations[q]
        /\ reservations'[r].state = "held" /\ reservations'[r].account = c.account
        /\ reservations'[r].units = c.units /\ reservations'[r].expiresAt > clock
        /\ UNCHANGED <<clock, usage>>
    BY <1>3, <1>a DEF CommitReserve
  <2>4. tx'[s] = NoTx /\ \A t \in Sessions \ {s} : tx'[t] = tx[t]
    BY <1>3, <1>a DEF CommitReserve
  <2>5. \A t \in Sessions \ {s} : Counting(t) => tx[t].command.account # c.account
    BY <2>1 DEF RunLimitInv, CountInv
  <2>6. /\ TimelyOf(usage, c.account) <= tx[s].used
        /\ tx[s].used + HeldOf(reservations, c.account, clock) + c.units
             <= MaxUnits(c.account)
    BY <2>1 DEF RunLimitInv, CountInv
  <2>7. /\ TimelyOf(usage, c.account) \in Nat /\ tx[s].used \in Nat
        /\ HeldOf(reservations, c.account, clock) \in Nat
        /\ MaxUnits(c.account) \in Nat
    BY <1>a, <2>1, RunSums, RunCountingType
  <2>. HIDE DEF c
  <2>8. TimelyOf(usage, c.account) + HeldOf(reservations, c.account, clock) + c.units
          <= MaxUnits(c.account)
    BY <2>2, <2>6, <2>7
  <2>. QED
    BY <1>a, <2>2, <2>3, <2>4, <2>5, <2>8, InsertKeepsLimits
<1>4. ASSUME NEW s \in Sessions, NEW k \in Keys, NEW c \in ChargeCommand,
             BeginCharge(s, k, c)
      PROVE  RunLimitInv'
  BY <1>4, <1>b DEF BeginCharge
<1>5. ASSUME NEW s \in Sessions, CommitCharge(s)
      PROVE  RunLimitInv'
  BY <1>0, <1>5, SettledCharge DEF CommitCharge, Settling
<1>6. ASSUME NEW k \in Keys, NEW c \in ReleaseCommand, Release(k, c)
      PROVE  RunLimitInv'
  <2>1. /\ \A q \in ReservationIds :
             reservations'[q] = reservations[q] \/ reservations'[q].state = "released"
        /\ UNCHANGED <<clock, usage, tx>>
    <3>1. c.reservation \in ReservationIds
      BY DEF ReleaseCommand
    <3>2. reservations[c.reservation] \in ReservationRow
      BY <1>6, <1>a, <3>1, RunRowKinds DEF Release
    <3>. QED
      BY <1>6, <1>a, <3>1, <3>2 DEF Release, ReservationRow
  <2>2. clock <= clock'
    BY <1>a, <2>1
  <2>. QED
    BY <1>a, <2>1, <2>2, FewerHolds
<1>7. ASSUME NEW s \in Sessions, Rollback(s)
      PROVE  RunLimitInv'
  BY <1>7, <1>b DEF Rollback, NoTx
<1>8. ASSUME Tick
      PROVE  RunLimitInv'
  <2>1. clock <= clock' /\ UNCHANGED <<reservations, usage, tx>>
    BY <1>8, <1>a DEF Tick
  <2>. QED
    BY <1>a, <2>1, FewerHolds
<1>9. ASSUME NEW s \in Sessions, NEW k \in RunKeys, NEW c \in StartCommand,
             BeginStart(s, k, c)
      PROVE  RunLimitInv'
  BY <1>9, <1>b DEF BeginStart
<1>10. ASSUME NEW s \in Sessions, CountRunHeld(s) \/ LockHold(s)
       PROVE  RunLimitInv'
  <2>1. /\ tx'[s].phase \in {"run inserting", "settling"}
        /\ \A t \in Sessions \ {s} : tx'[t] = tx[t]
        /\ UNCHANGED <<clock, reservations, usage>>
    <3>1. tx[s] \in StartTx \cup CompleteTx
      BY <1>10, <1>a, RunTxKinds DEF CountRunHeld, LockHold
    <3>. QED
      BY <1>10, <1>a, <3>1 DEF CountRunHeld, LockHold, StartTx, CompleteTx
  <2>2. \A t \in Sessions : tx'[t] = tx[t] \/ ~Counting(t)'
    BY <2>1 DEF Counting
  <2>. QED
    BY <1>a, <2>1, <2>2, TxKeepsLimits
<1>11. ASSUME NEW s \in Sessions, NEW r \in ReservationIds, NEW w \in RunIds,
              CommitStart(s, r, w)
       PROVE  RunLimitInv'
  <2> DEFINE c == tx[s].command
  <2>1. tx[s] \in StartTx
    BY <1>a, <1>11, RunTxKinds DEF CommitStart
  <2>2. c.account \in WorkerAccounts /\ c.account \in Accounts /\ c.units \in Nat
    BY <2>1, RunAssumption, LedgerAssumption DEF StartTx, StartCommand
  <2>3. /\ reservations[r] = NoRow
        /\ \A q \in ReservationIds \ {r} : reservations'[q] = reservations[q]
        /\ reservations'[r].state = "held" /\ reservations'[r].account = c.account
        /\ reservations'[r].units = c.units
        /\ UNCHANGED <<clock, usage>>
    BY <1>11, <1>a DEF CommitStart
  <2>4. tx'[s] = NoTx /\ \A t \in Sessions \ {s} : tx'[t] = tx[t]
    BY <1>11, <1>a DEF CommitStart
  <2>5. \A t \in Sessions : Counting(t) => tx[t].command.account # c.account
    BY <1>11 DEF CommitStart, AccountLocked, Counting
  <2>6. c.account \notin Shared
    BY <2>2 DEF Shared
  <2>. HIDE DEF c
  <2>. QED
    BY <1>a, <2>2, <2>3, <2>4, <2>5, <2>6, InsertKeepsLimits
<1>12. ASSUME NEW s \in Sessions, NEW k \in RunKeys, NEW c \in CompleteCommand,
              BeginComplete(s, k, c)
       PROVE  RunLimitInv'
  BY <1>12, <1>b DEF BeginComplete
<1>13. ASSUME NEW s \in Sessions, CommitComplete(s)
       PROVE  RunLimitInv'
  <2> DEFINE c == tx[s].command
             r == tx[s].reservation
  <2>1. /\ Settling(s) /\ clock' = clock /\ tx' = [tx EXCEPT ![s] = NoTx]
        /\ reservations' = [reservations EXCEPT ![r].state = HoldAfter(c.state)]
    BY <1>13 DEF CommitComplete, Settling
  <2>2. CASE c.state = "done"
    <3>1. HoldAfter(c.state) = "used"
      BY <2>2 DEF HoldAfter
    <3>2. reservations' = [reservations EXCEPT ![r].state = "used"]
      BY <2>1, <3>1
    <3>3. /\ ~AccountLocked(reservations[r].account)
          /\ usage' = usage \cup
               {[key |-> tx[s].key, reservation |-> r,
                 account |-> reservations[r].account,
                 units |-> reservations[r].units,
                 late |-> clock >= reservations[r].expiresAt]}
      BY <1>13, <2>2 DEF CommitComplete
    <3>. QED
      BY <1>0, <2>1, <3>2, <3>3, SettledCharge
  <2>3. CASE c.state # "done"
    <3>1. HoldAfter(c.state) = "released" /\ usage' = usage
      BY <1>13, <2>3 DEF CommitComplete, HoldAfter
    <3>2. r \in ReservationIds /\ reservations[r].state = "held"
      BY <1>a, <2>1, RunTxKinds DEF RunInv, HoldLocked
    <3>3. reservations[r] \in ReservationRow
      BY <1>a, <3>2, RunRowKinds
    <3>4. \A q \in ReservationIds :
            reservations'[q] = reservations[q] \/ reservations'[q].state = "released"
      BY <1>a, <2>1, <3>1, <3>2, <3>3 DEF ReservationRow
    <3>5. \A t \in Sessions : tx'[t] = tx[t] \/ ~Counting(t)'
      BY <1>a, <2>1 DEF Counting, NoTx
    <3>6. clock <= clock'
      BY <1>a, <2>1
    <3>. QED
      BY <1>a, <3>1, <3>4, <3>5, <3>6, FewerHolds
  <2>. QED
    BY <2>2, <2>3
<1>14. ASSUME UNCHANGED runVars
       PROVE  RunLimitInv'
  <2>1. UNCHANGED <<clock, reservations, usage, tx>>
    BY <1>14 DEF runVars, vars
  <2>. QED
    BY <1>a, <2>1, TxKeepsLimits
<1>. HIDE DEF RunLimitInv
<1>15. ASSUME Next PROVE RunLimitInv'
  BY <1>1, <1>2, <1>3, <1>4, <1>5, <1>6, <1>7, <1>8, <1>15 DEF Next
<1>. QED
  BY <1>9, <1>10, <1>11, <1>12, <1>13, <1>14, <1>15 DEF RunNext

\* Worker runs leave the limit of every account that is not a worker's intact,
\* though worker.run.start counts without budget.reserve's lock: a start may
\* only draw on the worker's own account.
THEOREM SharedAccountsNeverOverbooked == RunSpec => []SharedAccountsWithinLimit
<1>1. RunInit => RunLimitInv
  BY InitLimits DEF RunInit, RunLimitInv, Shared
<1>2. RunLimitInv => SharedAccountsWithinLimit
  BY DEF RunLimitInv, Shared, LimitOf, SharedAccountsWithinLimit, WithinLimit,
         TimelyUnits, TimelyOf, HeldUnits, HeldOf, Live, LiveOf
<1>. QED
  BY <1>1, <1>2, RunInvariant, RunLimitStep, PTL DEF RunSpec
=============================================================================
