------------------------- MODULE BudgetLedgerProofs -------------------------
(***************************************************************************)
(* Proofs about BudgetLedger, for any number of sessions, keys, accounts,  *)
(* reservations and units. First the laws of Sum, then type correctness,   *)
(* then the invariants each property needs.                                *)
(***************************************************************************)
EXTENDS BudgetLedger, FiniteSetTheorems, TLAPS

-----------------------------------------------------------------------------
(* Laws of Sum.                                                            *)

\* The tokens of finitely many rows are finitely many, so a sum is a number.
LEMMA SumType ==
  ASSUME NEW D, IsFiniteSet(D), NEW f \in [D -> Nat]
  PROVE  IsFiniteSet(Tokens(f)) /\ Sum(f) \in Nat
<1> DEFINE tok(x) == {x} \X (1 .. f[x])
           T == {tok(x) : x \in D}
           g == [x \in D |-> tok(x)]
<1>1. IsFiniteSet(T)
  <2>1. g \in Surjection(D, T)
    BY DEF Surjection
  <2>. HIDE DEF T, g
  <2>. QED
    BY <2>1, FS_Surjection
<1>2. \A t \in T : IsFiniteSet(t)
  <2>. SUFFICES ASSUME NEW x \in D PROVE IsFiniteSet(tok(x))
    OBVIOUS
  <2>1. f[x] \in Int
    OBVIOUS
  <2>2. IsFiniteSet(1 .. f[x])
    BY <2>1, FS_Interval
  <2>3. IsFiniteSet({x})
    BY FS_Singleton
  <2>. QED
    BY <2>2, <2>3, FS_Product
<1>3. Tokens(f) = UNION T
  BY DEF Tokens
<1>4. IsFiniteSet(UNION T)
  <2>. HIDE DEF T
  <2>. QED
    BY <1>1, <1>2, FS_UNION
<1>. QED
  BY <1>3, <1>4, FS_CardinalityType DEF Sum

\* Leaving rows out does not make a sum larger.
LEMMA SumMonotone ==
  ASSUME NEW D, IsFiniteSet(D), NEW f \in [D -> Nat],
         NEW C \in SUBSET D, NEW g \in [C -> Nat],
         \A x \in C : g[x] = f[x]
  PROVE  Sum(g) <= Sum(f)
<1>1. Tokens(g) \subseteq Tokens(f)
  BY DEF Tokens
<1>. QED
  BY <1>1, SumType, FS_Subset DEF Sum

\* One more row adds its units.
LEMMA SumAdd ==
  ASSUME NEW D, IsFiniteSet(D), NEW f \in [D -> Nat], NEW x, x \notin D,
         NEW g \in [D \cup {x} -> Nat],
         \A y \in D : g[y] = f[y]
  PROVE  Sum(g) = Sum(f) + g[x]
<1> DEFINE tok == {x} \X (1 .. g[x])
<1>1. IsFiniteSet(tok) /\ Cardinality(tok) = g[x]
  <2>1. IsFiniteSet({x}) /\ Cardinality({x}) = 1
    BY FS_Singleton
  <2>2. IsFiniteSet(1 .. g[x]) /\ Cardinality(1 .. g[x]) = g[x]
    BY FS_Interval
  <2> DEFINE I == 1 .. g[x]
  <2>3. IsFiniteSet(I) /\ IsFiniteSet({x})
    BY <2>1, <2>2
  <2> HIDE DEF I
  <2>4. IsFiniteSet({x} \X I) /\ Cardinality({x} \X I) = Cardinality({x}) * Cardinality(I)
    BY <2>3, FS_Product
  <2> USE DEF I
  <2>5. Cardinality({x}) * Cardinality(I) = g[x]
    BY <2>1, <2>2
  <2>. QED
    BY <2>4, <2>5
<1>2. Tokens(g) = Tokens(f) \cup tok
  <2>1. Tokens(g) = UNION {{y} \X (1 .. g[y]) : y \in D \cup {x}}
    BY DEF Tokens
  <2>2. Tokens(f) = UNION {{y} \X (1 .. g[y]) : y \in D}
    BY DEF Tokens
  <2>. QED
    BY <2>1, <2>2
<1>3. Tokens(f) \cap tok = {}
  BY DEF Tokens
<1>4. IsFiniteSet(Tokens(f)) /\ Cardinality(Tokens(f)) \in Nat
  BY SumType, FS_CardinalityType
<1>5. Cardinality(Tokens(f) \cup tok)
        = Cardinality(Tokens(f)) + Cardinality(tok) - Cardinality(Tokens(f) \cap tok)
  <2>. HIDE DEF tok
  <2>. QED
    BY <1>1, <1>4, FS_Union
<1>6. Cardinality(Tokens(f) \cap tok) = 0
  BY <1>3, FS_EmptySet
<1>. QED
  BY <1>1, <1>2, <1>4, <1>5, <1>6 DEF Sum

-----------------------------------------------------------------------------
(* Type correctness.                                                       *)

LEMMA InitType == Init => TypeOK
  BY FS_EmptySet DEF Init, TypeOK, NoRow, NoTx

\* The limit of an account is a number.
LEMMA MaxUnitsType == \A a \in Accounts : MaxUnits(a) \in Nat
<1> SUFFICES ASSUME NEW a \in Accounts PROVE MaxUnits(a) \in Nat
  OBVIOUS
<1>1. Allowance(a) \in Nat
  BY LedgerAssumption DEF Allowance, Smaller
<1>2. (IF HardLimit[a] = 0 THEN 100 ELSE HardLimit[a]) \in Nat
  BY LedgerAssumption
<1> DEFINE pct == IF HardLimit[a] = 0 THEN 100 ELSE HardLimit[a]
           p == Allowance(a) * pct
<1>3. p \in Nat
  BY <1>1, <1>2
<1>4. MaxUnits(a) = p \div 100
  BY DEF MaxUnits
<1>. HIDE DEF p
<1>. QED
  BY <1>3, <1>4

\* Usage of an account is a number.
LEMMA UnitsOfType ==
  ASSUME NEW rows, IsFiniteSet(rows), rows \subseteq UsageRow
  PROVE  UnitsOf(rows) \in Nat
<1>1. [u \in rows |-> u.units] \in [rows -> Nat]
  BY DEF UsageRow
<1>. QED
  BY <1>1, SumType DEF UnitsOf

-----------------------------------------------------------------------------
(* What a settling transaction may rely on: the row lock it holds is its   *)
(* own, and the hold it found is still there.                              *)

SettlingHeld ==
  \A s \in Sessions : tx[s].phase = "settling" =>
    /\ reservations[tx[s].reservation].state = "held"
    /\ \A t \in Sessions :
         tx[t].phase = "settling" /\ tx[t].reservation = tx[s].reservation
           => t = s

RowInv == TypeOK /\ SettlingHeld

\* An open transaction in phase "settling" is a charge's, in an earlier
\* phase a reserve's.
LEMMA TxKinds ==
  ASSUME TypeOK, NEW s \in Sessions
  PROVE  /\ tx[s] = NoTx \/ tx[s] \in ReserveTx \/ tx[s] \in ChargeTx
         /\ tx[s].phase = "settling" => tx[s] \in ChargeTx
         /\ tx[s].phase \in {"locked", "counting", "inserting"} =>
              tx[s] \in ReserveTx
  BY DEF TypeOK, ReserveTx, ChargeTx, NoTx

\* A row whose state is not "absent" is a full row.
LEMMA RowKinds ==
  ASSUME TypeOK, NEW r \in ReservationIds,
         reservations[r].state \in {"held", "used", "released"}
  PROVE  reservations[r] \in ReservationRow
  BY DEF TypeOK, NoRow

\* Every step preserves the type invariant and the row locks' promise.
LEMMA RowStep == RowInv /\ [Next]_vars => RowInv'
<1> SUFFICES ASSUME RowInv, [Next]_vars PROVE RowInv'
  OBVIOUS
<1>. USE DEF RowInv
<1>1. ASSUME NEW s \in Sessions, NEW k \in Keys, NEW c \in ReserveCommand,
             BeginReserve(s, k, c)
      PROVE  RowInv'
  <2>1. [phase |-> "locked", key |-> k, command |-> c, used |-> 0, now |-> 0]
          \in ReserveTx
    BY DEF ReserveTx
  <2>2. TypeOK'
    BY <1>1, <2>1 DEF BeginReserve, TypeOK
  <2>3. SettlingHeld'
    BY <1>1, <2>1, TxKinds DEF BeginReserve, SettlingHeld, TypeOK
  <2>. QED
    BY <2>2, <2>3
<1>2. ASSUME NEW s \in Sessions, CountUsed(s)
      PROVE  RowInv'
  <2>1. tx[s] \in ReserveTx
    BY <1>2, TxKinds DEF CountUsed
  <2>2. UsedUnits(tx[s].command.account) \in Nat
    <3>1. IsFiniteSet({u \in usage : u.account = tx[s].command.account})
      BY FS_Subset DEF TypeOK
    <3>. QED
      BY <3>1, UnitsOfType DEF UsedUnits, TypeOK
  <2>3. tx'[s] \in ReserveTx /\ tx'[s].phase = "counting"
    BY <1>2, <2>1, <2>2 DEF CountUsed, TypeOK, ReserveTx
  <2>4. TypeOK'
    BY <1>2, <2>3 DEF CountUsed, TypeOK
  <2>5. SettlingHeld'
    BY <1>2, <2>3 DEF CountUsed, SettlingHeld, TypeOK
  <2>. QED
    BY <2>4, <2>5
<1>3. ASSUME NEW s \in Sessions, CountHeld(s)
      PROVE  RowInv'
  <2>1. tx[s] \in ReserveTx
    BY <1>3, TxKinds DEF CountHeld
  <2>2. tx'[s] \in ReserveTx /\ tx'[s].phase = "inserting"
    BY <1>3, <2>1 DEF CountHeld, TypeOK, ReserveTx
  <2>3. TypeOK'
    BY <1>3, <2>2 DEF CountHeld, TypeOK
  <2>4. SettlingHeld'
    BY <1>3, <2>2 DEF CountHeld, SettlingHeld, TypeOK
  <2>. QED
    BY <2>3, <2>4
<1>4. ASSUME NEW s \in Sessions, NEW r \in ReservationIds, CommitReserve(s, r)
      PROVE  RowInv'
  <2>1. tx[s] \in ReserveTx
    BY <1>4, TxKinds DEF CommitReserve
  <2>2. /\ tx[s].command \in ReserveCommand
        /\ tx[s].key \in Keys
    BY <2>1 DEF ReserveTx
  <2>3. (IF tx[s].command.expiresAt = NoExpiry THEN clock + HoldTime
                                             ELSE tx[s].command.expiresAt) \in Nat
    <3>1. tx[s].command.expiresAt \in ExpiryTimes \cup {NoExpiry}
      BY <2>2 DEF ReserveCommand
    <3>2. tx[s].command.expiresAt # NoExpiry => tx[s].command.expiresAt \in Nat
      BY <3>1, LedgerAssumption
    <3>3. clock + HoldTime \in Nat
      BY LedgerAssumption DEF TypeOK
    <3>. QED
      BY <3>2, <3>3
  <2>4. reservations'[r] \in ReservationRow /\ reservations'[r].state = "held"
    BY <1>4, <2>2, <2>3, LedgerAssumption
       DEF CommitReserve, ReserveCommand, ReservationRow, TypeOK
  <2>5. TypeOK'
    <3>1. reservations' \in [ReservationIds -> ReservationRow \cup {NoRow}]
      BY <1>4, <2>4 DEF CommitReserve, TypeOK
    <3>2. audits' \subseteq AuditRow
      BY <1>4, <2>2 DEF CommitReserve, TypeOK, AuditRow
    <3>. QED
      BY <1>4, <3>1, <3>2 DEF CommitReserve, TypeOK
  <2>6. SettlingHeld'
    BY <1>4, <2>4, TxKinds DEF CommitReserve, SettlingHeld, TypeOK, NoTx, NoRow
  <2>. QED
    BY <2>5, <2>6
<1>5. ASSUME NEW s \in Sessions, NEW k \in Keys, NEW c \in ChargeCommand,
             BeginCharge(s, k, c)
      PROVE  RowInv'
  <2>1. c.reservation \in ReservationIds
    BY DEF ChargeCommand
  <2>2. tx'[s] \in ChargeTx /\ tx'[s].phase = "settling"
           /\ tx'[s].reservation = c.reservation
    BY <1>5, <2>1 DEF BeginCharge, ChargeTx, TypeOK
  <2>3. TypeOK'
    BY <1>5, <2>2 DEF BeginCharge, TypeOK
  <2>4. SettlingHeld'
    BY <1>5, <2>2 DEF BeginCharge, SettlingHeld, TypeOK, ReservationLocked
  <2>. QED
    BY <2>3, <2>4
<1>6. ASSUME NEW s \in Sessions, CommitCharge(s)
      PROVE  RowInv'
  <2> DEFINE r == tx[s].reservation
             row == reservations[r]
  <2>1. tx[s] \in ChargeTx
    BY <1>6, TxKinds DEF CommitCharge
  <2>2. r \in ReservationIds /\ tx[s].key \in Keys
    BY <2>1 DEF ChargeTx
  <2>3. row.state = "held"
    BY <1>6 DEF CommitCharge, SettlingHeld
  <2>4. row \in ReservationRow
    BY <2>2, <2>3, RowKinds
  <2>5. TypeOK'
    <3>1. reservations' = [reservations EXCEPT ![r].state = "used"]
      BY <1>6 DEF CommitCharge
    <3>2. reservations' \in [ReservationIds -> ReservationRow \cup {NoRow}]
      BY <2>2, <2>4, <3>1 DEF TypeOK, ReservationRow
    <3> DEFINE u == [key |-> tx[s].key, reservation |-> r,
                     account |-> row.account, units |-> row.units,
                     late |-> clock >= row.expiresAt]
    <3>3. usage' = usage \cup {u}
      BY <1>6 DEF CommitCharge
    <3>4. u \in UsageRow
      BY <2>2, <2>4 DEF UsageRow, ReservationRow
    <3>. HIDE DEF u
    <3>5. usage' \subseteq UsageRow /\ IsFiniteSet(usage')
      BY <3>3, <3>4, FS_AddElement DEF TypeOK
    <3>6. audits' \subseteq AuditRow
      BY <1>6, <2>2 DEF CommitCharge, TypeOK, AuditRow
    <3>. QED
      BY <1>6, <3>2, <3>5, <3>6 DEF CommitCharge, TypeOK
  <2>6. SettlingHeld'
    BY <1>6, <2>2, <2>3, TxKinds DEF CommitCharge, SettlingHeld, TypeOK, NoTx, ChargeTx
  <2>. QED
    BY <2>5, <2>6
<1>7. ASSUME NEW k \in Keys, NEW c \in ReleaseCommand, Release(k, c)
      PROVE  RowInv'
  <2>1. c.reservation \in ReservationIds
    BY DEF ReleaseCommand
  <2>2. reservations[c.reservation] \in ReservationRow
    BY <1>7, <2>1, RowKinds DEF Release
  <2>3. reservations' \in [ReservationIds -> ReservationRow \cup {NoRow}]
    BY <1>7, <2>1, <2>2 DEF Release, TypeOK, ReservationRow
  <2>4. audits' \subseteq AuditRow
    BY <1>7, <2>1 DEF Release, TypeOK, AuditRow
  <2>5. TypeOK'
    BY <1>7, <2>3, <2>4 DEF Release, TypeOK
  <2>6. SettlingHeld'
    BY <1>7, <2>1, TxKinds
       DEF Release, SettlingHeld, TypeOK, ReservationLocked, ChargeTx
  <2>. QED
    BY <2>5, <2>6
<1>8. ASSUME NEW s \in Sessions, Rollback(s)
      PROVE  RowInv'
  <2>1. TypeOK'
    BY <1>8 DEF Rollback, TypeOK
  <2>2. SettlingHeld'
    BY <1>8 DEF Rollback, SettlingHeld, TypeOK, NoTx
  <2>. QED
    BY <2>1, <2>2
<1>9. CASE Tick
  BY <1>9 DEF Tick, TypeOK, SettlingHeld
<1>10. CASE UNCHANGED vars
  BY <1>10 DEF vars, TypeOK, SettlingHeld
<1>. QED
  BY <1>1, <1>2, <1>3, <1>4, <1>5, <1>6, <1>7, <1>8, <1>9, <1>10 DEF Next

\* Type correctness, and that a charge between its check and its commit
\* still finds the hold it checked, alone.
LEMMA RowCorrect == Spec => []RowInv
<1>1. Init => RowInv
  BY InitType DEF Init, RowInv, SettlingHeld, NoTx
<1>. QED
  BY <1>1, RowStep, PTL DEF Spec

\* Every value budgets.ts writes has the type its tables declare.
THEOREM TypeCorrect == Spec => []TypeOK
<1>1. RowInv => TypeOK
  BY DEF RowInv
<1>. QED
  BY <1>1, RowCorrect, PTL

-----------------------------------------------------------------------------
(* Every effect happens once.                                              *)

\* The charge of a hold is its only one: CommitCharge finds the hold it
\* locked still held, so no usage row names it yet.
LEMMA ChargedOnceStep ==
  RowInv /\ ChargedOnce /\ [Next]_vars => ChargedOnce'
<1> SUFFICES ASSUME RowInv, ChargedOnce, [Next]_vars PROVE ChargedOnce'
  OBVIOUS
<1>. USE DEF RowInv
<1>1. ASSUME NEW s \in Sessions, NEW r \in ReservationIds, CommitReserve(s, r)
      PROVE  ChargedOnce'
  <2>1. \A q \in ReservationIds \ {r} : reservations'[q] = reservations[q]
    BY <1>1 DEF CommitReserve, TypeOK
  <2>2. reservations[r] = NoRow /\ reservations'[r].state = "held"
    BY <1>1 DEF CommitReserve, TypeOK
  <2>3. usage' = usage
    BY <1>1 DEF CommitReserve
  <2>. QED
    BY <2>1, <2>2, <2>3 DEF ChargedOnce, NoRow
<1>2. ASSUME NEW s \in Sessions, CommitCharge(s)
      PROVE  ChargedOnce'
  <2> DEFINE r == tx[s].reservation
             row == reservations[r]
             u == [key |-> tx[s].key, reservation |-> r,
                   account |-> row.account, units |-> row.units,
                   late |-> clock >= row.expiresAt]
  <2>1. r \in ReservationIds
    BY <1>2, TxKinds DEF CommitCharge, ChargeTx
  <2>2. row.state = "held"
    BY <1>2 DEF CommitCharge, SettlingHeld
  <2>3. row \in ReservationRow
    BY <2>1, <2>2, RowKinds
  <2>4. \A v \in usage : v.reservation # r
    BY <2>1, <2>2 DEF ChargedOnce
  <2>5. usage' = usage \cup {u}
    BY <1>2 DEF CommitCharge
  <2>6. reservations' = [reservations EXCEPT ![r].state = "used"]
    BY <1>2 DEF CommitCharge
  <2>7. /\ \A q \in ReservationIds \ {r} : reservations'[q] = reservations[q]
        /\ reservations'[r].state = "used"
        /\ reservations'[r].account = row.account
        /\ reservations'[r].units = row.units
    BY <2>1, <2>3, <2>6 DEF TypeOK, ReservationRow
  <2>8. u.reservation = r /\ u.account = row.account /\ u.units = row.units
    OBVIOUS
  <2>. HIDE DEF u, r, row
  <2>9. ASSUME NEW q \in ReservationIds, q # r
        PROVE  {v \in usage' : v.reservation = q} = {v \in usage : v.reservation = q}
    BY <2>5, <2>8, <2>9
  <2>10. {v \in usage' : v.reservation = r} = {u}
    BY <2>4, <2>5, <2>8
  <2>. QED
    BY <2>7, <2>8, <2>9, <2>10 DEF ChargedOnce
<1>3. ASSUME NEW k \in Keys, NEW c \in ReleaseCommand, Release(k, c)
      PROVE  ChargedOnce'
  <2> DEFINE r == c.reservation
  <2>1. r \in ReservationIds
    BY DEF ReleaseCommand
  <2>2. reservations[r] \in ReservationRow /\ reservations[r].state = "held"
    BY <1>3, <2>1, RowKinds DEF Release
  <2>3. /\ \A q \in ReservationIds \ {r} : reservations'[q] = reservations[q]
        /\ reservations'[r].state = "released"
    BY <1>3, <2>1, <2>2 DEF Release, TypeOK, ReservationRow
  <2>4. usage' = usage
    BY <1>3 DEF Release
  <2>. QED
    BY <2>2, <2>3, <2>4 DEF ChargedOnce
<1>4. ASSUME UNCHANGED <<reservations, usage>> PROVE ChargedOnce'
  BY <1>4 DEF ChargedOnce
<1>. QED
  BY <1>1, <1>2, <1>3, <1>4
     DEF Next, BeginReserve, CountUsed, CountHeld, BeginCharge, Rollback, Tick, vars

\* budget.charge: no interleaving of charges, releases and replays spends a
\* reservation twice, or spends another amount or account than it held.
THEOREM NoDoubleCharge == Spec => []ChargedOnce
<1>1. Init => ChargedOnce
  BY DEF Init, ChargedOnce, NoRow
<1>. QED
  BY <1>1, RowCorrect, ChargedOnceStep, PTL DEF Spec

\* A settled reservation is final. The step that would break it, a charge
\* settling what a release settled first, cannot happen: the charge keeps its
\* row lock from the check to the commit.
THEOREM SettledNeverChanges == Spec => SettledIsFinal
<1> DEFINE Fixed ==
      \A r \in ReservationIds :
        /\ reservations[r].state \in {"used", "released"} =>
             reservations'[r] = reservations[r]
        /\ reservations[r].state = "held" =>
             \E next \in {"held", "used", "released"} :
               reservations'[r] = [reservations[r] EXCEPT !.state = next]
<1>1. RowInv /\ [Next]_vars => [Fixed]_vars
  <2> SUFFICES ASSUME RowInv, [Next]_vars PROVE Fixed
    OBVIOUS
  <2>. USE DEF RowInv
  <2>1. ASSUME NEW r \in ReservationIds, reservations[r].state = "held"
        PROVE  reservations[r] = [reservations[r] EXCEPT !.state = "held"]
    BY <2>1, RowKinds DEF ReservationRow
  <2>2. ASSUME UNCHANGED reservations PROVE Fixed
    BY <2>1, <2>2
  <2>3. ASSUME NEW s \in Sessions, NEW r \in ReservationIds, CommitReserve(s, r)
        PROVE  Fixed
    <3>1. reservations[r] = NoRow
      BY <2>3 DEF CommitReserve
    <3>2. \A q \in ReservationIds \ {r} : reservations'[q] = reservations[q]
      BY <2>3 DEF CommitReserve, TypeOK
    <3>. QED
      BY <2>1, <3>1, <3>2 DEF NoRow
  <2>4. ASSUME NEW r \in ReservationIds, reservations[r].state = "held",
               NEW next \in {"used", "released"},
               reservations' = [reservations EXCEPT ![r].state = next]
        PROVE  Fixed
    <3>1. reservations'[r] = [reservations[r] EXCEPT !.state = next]
      BY <2>4 DEF TypeOK
    <3>2. \A q \in ReservationIds \ {r} : reservations'[q] = reservations[q]
      BY <2>4 DEF TypeOK
    <3>. QED
      BY <2>1, <2>4, <3>1, <3>2
  <2>5. ASSUME NEW s \in Sessions, CommitCharge(s) PROVE Fixed
    <3>1. tx[s].reservation \in ReservationIds
      BY <2>5, TxKinds DEF CommitCharge, ChargeTx
    <3>2. reservations[tx[s].reservation].state = "held"
      BY <2>5 DEF CommitCharge, SettlingHeld
    <3>3. reservations' = [reservations EXCEPT ![tx[s].reservation].state = "used"]
      BY <2>5 DEF CommitCharge
    <3>. HIDE DEF Fixed
    <3>. QED
      BY <2>4, <3>1, <3>2, <3>3
  <2>6. ASSUME NEW k \in Keys, NEW c \in ReleaseCommand, Release(k, c) PROVE Fixed
    <3>1. c.reservation \in ReservationIds
      BY DEF ReleaseCommand
    <3>. HIDE DEF Fixed
    <3>. QED
      BY <2>4, <2>6, <3>1 DEF Release
  <2>. HIDE DEF Fixed
  <2>. QED
    BY <2>2, <2>3, <2>5, <2>6
       DEF Next, BeginReserve, CountUsed, CountHeld, BeginCharge, Rollback, Tick, vars
<1>. QED
  BY <1>1, RowCorrect, PTL DEF Spec, SettledIsFinal

-----------------------------------------------------------------------------
(* Every key has one effect.                                               *)

\* The audit event of the effect, with no event of its (op, key) before it
\* and none of its (op, target), keeps audit events and effects one to one.
LEMMA EffectStep ==
  RowInv /\ OneEffectPerKey /\ [Next]_vars => OneEffectPerKey'
<1> SUFFICES ASSUME RowInv, OneEffectPerKey, [Next]_vars
             PROVE  OneEffectPerKey'
  OBVIOUS
<1>. USE DEF RowInv
\* The three committing actions share this shape.
<1>1. ASSUME NEW op \in {"reserve", "charge", "release"}, NEW k \in Keys,
             NEW r \in ReservationIds, NEW row \in ReservationRow,
             ~Recorded(op, k),
             audits' = audits \cup {[op |-> op, key |-> k, target |-> r]},
             reservations' = [reservations EXCEPT ![r] = row],
             op = "reserve" => reservations[r] = NoRow /\ row.state = "held",
             op # "reserve" => reservations[r].state = "held",
             op = "charge" => row.state = "used",
             op = "release" => row.state = "released"
      PROVE  OneEffectPerKey'
  <2> DEFINE e0 == [op |-> op, key |-> k, target |-> r]
  <2>1. /\ \A q \in ReservationIds \ {r} : reservations'[q] = reservations[q]
        /\ reservations'[r] = row
    BY <1>1 DEF TypeOK
  <2>2. e0.op = op /\ e0.key = k /\ e0.target = r
    OBVIOUS
  <2>3. audits' = audits \cup {e0}
    BY <1>1
  <2>. HIDE DEF e0
  <2>4. \A e \in audits : ~(e.op = op /\ e.key = k)
    BY <1>1 DEF Recorded
  <2>5. \A e \in audits : ~(e.op = op /\ e.target = r)
    BY <1>1 DEF OneEffectPerKey, NoRow
  <2>6. \A d, e \in audits' : d.op = e.op /\ d.key = e.key => d = e
    BY <2>2, <2>3, <2>4 DEF OneEffectPerKey
  <2>7. ASSUME NEW q \in ReservationIds
        PROVE  \A d, e \in audits' : d.op = e.op /\ d.target = e.target => d = e
    BY <2>2, <2>3, <2>5 DEF OneEffectPerKey
  <2>8. ASSUME NEW q \in ReservationIds, q # r, NEW o
        PROVE  {e \in audits' : e.op = o /\ e.target = q}
                 = {e \in audits : e.op = o /\ e.target = q}
    BY <2>2, <2>3, <2>8
  <2>9. ASSUME NEW o
        PROVE  {e \in audits' : e.op = o /\ e.target = r} # {} <=>
                 o = op \/ {e \in audits : e.op = o /\ e.target = r} # {}
    BY <2>2, <2>3
  <2>10. ASSUME NEW q \in ReservationIds
         PROVE  LET made(o) == {e \in audits' : e.op = o /\ e.target = q}
                IN  /\ (reservations'[q] # NoRow) <=> (made("reserve") # {})
                    /\ (reservations'[q].state = "used") <=> (made("charge") # {})
                    /\ (reservations'[q].state = "released")
                         <=> (made("release") # {})
    <3>1. CASE q # r
      BY <2>1, <2>8, <3>1 DEF OneEffectPerKey
    <3>2. CASE q = r
      BY <1>1, <2>1, <2>9, <3>2 DEF OneEffectPerKey, NoRow, ReservationRow
    <3>. QED
      BY <3>1, <3>2
  <2>. QED
    BY <2>6, <2>7, <2>10 DEF OneEffectPerKey
<1>2. ASSUME NEW s \in Sessions, NEW r \in ReservationIds, CommitReserve(s, r)
      PROVE  OneEffectPerKey'
  <2>1. tx[s] \in ReserveTx
    BY <1>2, TxKinds DEF CommitReserve
  <2>2. RowInv'
    BY RowStep
  <2>3. reservations'[r].state = "held" /\ reservations'[r] \in ReservationRow
    <3>1. reservations'[r].state = "held"
      BY <1>2 DEF CommitReserve, TypeOK
    <3>. QED
      BY <2>2, <3>1 DEF TypeOK, NoRow
  <2>4. reservations' = [reservations EXCEPT ![r] = reservations'[r]]
    BY <1>2 DEF CommitReserve, TypeOK
  <2>5. tx[s].key \in Keys
    BY <2>1 DEF ReserveTx
  <2>. QED
    BY <1>1, <1>2, <2>3, <2>4, <2>5 DEF CommitReserve
<1>3. ASSUME NEW s \in Sessions, CommitCharge(s)
      PROVE  OneEffectPerKey'
  <2> DEFINE r == tx[s].reservation
  <2>1. r \in ReservationIds /\ tx[s].key \in Keys
    BY <1>3, TxKinds DEF CommitCharge, ChargeTx
  <2>2. reservations[r].state = "held"
    BY <1>3 DEF CommitCharge, SettlingHeld
  <2>3. reservations[r] \in ReservationRow
    BY <2>1, <2>2, RowKinds
  <2> DEFINE row == [reservations[r] EXCEPT !.state = "used"]
  <2>4. row \in ReservationRow /\ row.state = "used"
    BY <2>3 DEF ReservationRow
  <2>5. reservations' = [reservations EXCEPT ![r] = row]
    BY <1>3 DEF CommitCharge
  <2>6. ~Recorded("charge", tx[s].key)
    BY <1>3 DEF CommitCharge
  <2>7. audits' = audits \cup {[op |-> "charge", key |-> tx[s].key, target |-> r]}
    BY <1>3 DEF CommitCharge
  <2>. HIDE DEF row
  <2>. QED
    BY <1>1, <2>1, <2>2, <2>4, <2>5, <2>6, <2>7
<1>4. ASSUME NEW k \in Keys, NEW c \in ReleaseCommand, Release(k, c)
      PROVE  OneEffectPerKey'
  <2> DEFINE r == c.reservation
  <2>1. r \in ReservationIds
    BY DEF ReleaseCommand
  <2>2. reservations[r].state = "held"
    BY <1>4 DEF Release
  <2>3. reservations[r] \in ReservationRow
    BY <2>1, <2>2, RowKinds
  <2> DEFINE row == [reservations[r] EXCEPT !.state = "released"]
  <2>4. row \in ReservationRow /\ row.state = "released"
    BY <2>3 DEF ReservationRow
  <2>5. reservations' = [reservations EXCEPT ![r] = row]
    BY <1>4 DEF Release
  <2>6. ~Recorded("release", k)
    BY <1>4 DEF Release
  <2>7. audits' = audits \cup {[op |-> "release", key |-> k, target |-> r]}
    BY <1>4 DEF Release
  <2>. HIDE DEF row
  <2>. QED
    BY <1>1, <2>1, <2>2, <2>4, <2>5, <2>6, <2>7
<1>5. ASSUME UNCHANGED <<reservations, audits>> PROVE OneEffectPerKey'
  BY <1>5 DEF OneEffectPerKey
<1>. QED
  BY <1>2, <1>3, <1>4, <1>5
     DEF Next, BeginReserve, CountUsed, CountHeld, BeginCharge, Rollback, Tick, vars

\* However often a command is sent under one key, and whatever runs beside
\* it, it takes effect at most once, and no effect lacks its audit event.
THEOREM KeysHaveOneEffect == Spec => []OneEffectPerKey
<1>1. Init => OneEffectPerKey
  BY DEF Init, OneEffectPerKey, NoRow
<1>. QED
  BY <1>1, RowCorrect, EffectStep, PTL DEF Spec

-----------------------------------------------------------------------------
(* The limit of an account.                                                *)

\* Held units and timely usage as functions of the tables they read, so that
\* two states' sums can be compared.
LiveOf(res, a, t) ==
  {r \in ReservationIds : /\ res[r].state = "held"
                          /\ res[r].account = a
                          /\ res[r].expiresAt > t}
HeldOf(res, a, t) == Sum([r \in LiveOf(res, a, t) |-> res[r].units])
TimelyOf(rows, a) == UnitsOf({u \in rows : u.account = a /\ ~u.late})

Table == [ReservationIds -> ReservationRow \cup {NoRow}]

\* Sums of holds are numbers.
LEMMA HeldType ==
  ASSUME NEW res \in Table, NEW a, NEW t
  PROVE  /\ IsFiniteSet(LiveOf(res, a, t))
         /\ [r \in LiveOf(res, a, t) |-> res[r].units] \in [LiveOf(res, a, t) -> Nat]
         /\ HeldOf(res, a, t) \in Nat
<1>1. IsFiniteSet(LiveOf(res, a, t))
  BY LedgerAssumption, FS_Subset DEF LiveOf
<1>2. \A r \in LiveOf(res, a, t) : res[r].units \in Nat
  BY DEF LiveOf, Table, ReservationRow, NoRow
<1>. QED
  BY <1>1, <1>2, SumType DEF HeldOf

\* Fewer live holds of unchanged size hold no more units.
LEMMA HeldMonotone ==
  ASSUME NEW res \in Table, NEW new \in Table, NEW a, NEW t, NEW u,
         \A r \in LiveOf(new, a, u) :
           r \in LiveOf(res, a, t) /\ new[r].units = res[r].units
  PROVE  HeldOf(new, a, u) <= HeldOf(res, a, t)
<1> DEFINE D == LiveOf(res, a, t)
           C == LiveOf(new, a, u)
           f == [r \in D |-> res[r].units]
           g == [r \in C |-> new[r].units]
<1>1. IsFiniteSet(D) /\ f \in [D -> Nat] /\ g \in [C -> Nat]
  BY HeldType
<1>2. C \in SUBSET D /\ \A r \in C : g[r] = f[r]
  OBVIOUS
<1>3. HeldOf(new, a, u) = Sum(g) /\ HeldOf(res, a, t) = Sum(f)
  BY DEF HeldOf
<1>. HIDE DEF D, C, f, g
<1>. QED
  BY <1>1, <1>2, <1>3, SumMonotone

\* A hold more, or a hold less, changes the sum by its units.
LEMMA HeldAdd ==
  ASSUME NEW res \in Table, NEW new \in Table, NEW a, NEW t,
         NEW r \in LiveOf(new, a, t),
         LiveOf(res, a, t) = LiveOf(new, a, t) \ {r},
         \A q \in LiveOf(res, a, t) : new[q].units = res[q].units
  PROVE  HeldOf(new, a, t) = HeldOf(res, a, t) + new[r].units
<1> DEFINE D == LiveOf(res, a, t)
           C == LiveOf(new, a, t)
           f == [q \in D |-> res[q].units]
           g == [q \in C |-> new[q].units]
<1>1. IsFiniteSet(D) /\ f \in [D -> Nat] /\ g \in [C -> Nat]
  BY HeldType
<1>2. C = D \cup {r} /\ r \notin D
  OBVIOUS
<1>3. (\A q \in D : g[q] = f[q]) /\ g[r] = new[r].units
  BY <1>2
<1>4. HeldOf(new, a, t) = Sum(g) /\ HeldOf(res, a, t) = Sum(f)
  BY DEF HeldOf
<1>. HIDE DEF D, C, f, g
<1>5. g \in [D \cup {r} -> Nat]
  BY <1>1, <1>2
<1>6. Sum(g) = Sum(f) + g[r]
  BY <1>1, <1>2, <1>3, <1>5, SumAdd
<1>. QED
  BY <1>3, <1>4, <1>6

\* Timely usage is part of the usage, and both are numbers.
LEMMA TimelyType ==
  ASSUME NEW rows, \A u \in rows : u.units \in Nat, IsFiniteSet(rows), NEW a
  PROVE  /\ TimelyOf(rows, a) \in Nat
         /\ UnitsOf({u \in rows : u.account = a}) \in Nat
         /\ TimelyOf(rows, a) <= UnitsOf({u \in rows : u.account = a})
<1> DEFINE D == {u \in rows : u.account = a}
           C == {u \in rows : u.account = a /\ ~u.late}
           f == [u \in D |-> u.units]
           g == [u \in C |-> u.units]
<1>1. IsFiniteSet(D) /\ IsFiniteSet(C)
  BY FS_Subset
<1>2. f \in [D -> Nat] /\ g \in [C -> Nat] /\ C \in SUBSET D
  OBVIOUS
<1>3. \A u \in C : g[u] = f[u]
  OBVIOUS
<1>4. UnitsOf(D) = Sum(f) /\ TimelyOf(rows, a) = Sum(g)
  BY DEF UnitsOf, TimelyOf
<1>. HIDE DEF D, C, f, g
<1>5. Sum(f) \in Nat /\ Sum(g) \in Nat /\ Sum(g) <= Sum(f)
  BY <1>1, <1>2, <1>3, SumType, SumMonotone
<1>. QED
  BY <1>4, <1>5 DEF D

\* A charge on time adds its units to its own account's usage; a late one,
\* or one of another account, adds nothing.
LEMMA TimelyAdd ==
  ASSUME NEW rows, \A v \in rows : v.units \in Nat, IsFiniteSet(rows), NEW a,
         NEW u, u.units \in Nat, u \notin rows
  PROVE  TimelyOf(rows \cup {u}, a) =
           IF u.account = a /\ ~u.late THEN TimelyOf(rows, a) + u.units
                                       ELSE TimelyOf(rows, a)
<1> DEFINE D == {v \in rows : v.account = a /\ ~v.late}
           C == {v \in rows \cup {u} : v.account = a /\ ~v.late}
           f == [v \in D |-> v.units]
           g == [v \in C |-> v.units]
<1>1. IsFiniteSet(D) /\ f \in [D -> Nat]
  BY FS_Subset
<1>2. TimelyOf(rows, a) = Sum(f) /\ TimelyOf(rows \cup {u}, a) = Sum(g)
  BY DEF TimelyOf, UnitsOf
<1>3. CASE u.account = a /\ ~u.late
  <2>1. C = D \cup {u} /\ u \notin D
    BY <1>3
  <2>2. g \in [C -> Nat] /\ g[u] = u.units
    BY <2>1
  <2>3. \A v \in D : g[v] = f[v]
    BY <2>1
  <2>. HIDE DEF D, C, f, g
  <2>4. Sum(g) = Sum(f) + g[u]
    BY <1>1, <2>1, <2>2, <2>3, SumAdd
  <2>. QED
    BY <1>2, <1>3, <2>2, <2>4
<1>4. CASE ~(u.account = a /\ ~u.late)
  <2>1. C = D
    BY <1>4
  <2>2. g = f
    BY <2>1
  <2>. HIDE DEF D, C, f, g
  <2>. QED
    BY <1>2, <1>4, <2>2
<1>. QED
  BY <1>3, <1>4

\* Why the limit holds: the account row's lock is one transaction's at a
\* time; while it is held no timely charge of the account commits, so the
\* usage counted first is still an upper bound when the holds are counted,
\* and no hold is added before the transaction's own.
Counting(s) == tx[s].phase \in {"counting", "inserting"}
CountInv ==
  \A s \in Sessions : Counting(s) =>
    /\ TimelyOf(usage, tx[s].command.account) <= tx[s].used
    /\ tx[s].now <= clock
    /\ tx[s].phase = "inserting" =>
         tx[s].used + HeldOf(reservations, tx[s].command.account, clock)
           + tx[s].command.units <= MaxUnits(tx[s].command.account)
    /\ \A t \in Sessions :
         Counting(t) /\ tx[t].command.account = tx[s].command.account => t = s
LimitOf(a) ==
  TimelyOf(usage, a) + HeldOf(reservations, a, clock) <= MaxUnits(a)
LimitInv == CountInv /\ \A a \in Accounts : LimitOf(a)

\* The sums of a state are numbers.
LEMMA StateSums ==
  ASSUME TypeOK, NEW a, NEW t
  PROVE  /\ TimelyOf(usage, a) \in Nat
         /\ UsedUnits(a) \in Nat
         /\ TimelyOf(usage, a) <= UsedUnits(a)
         /\ HeldOf(reservations, a, t) \in Nat
  BY TimelyType, HeldType DEF TypeOK, UsageRow, Table, UsedUnits

\* The holds that live at a later time hold no more units.
LEMMA HeldLater ==
  ASSUME NEW res \in Table, NEW a, NEW t \in Nat, NEW u \in Nat, t <= u
  PROVE  HeldOf(res, a, u) <= HeldOf(res, a, t)
<1>1. \A r \in LiveOf(res, a, u) : r \in LiveOf(res, a, t)
  <2> SUFFICES ASSUME NEW r \in LiveOf(res, a, u)
               PROVE  r \in LiveOf(res, a, t)
    OBVIOUS
  <2>1. r \in ReservationIds /\ res[r].state = "held" /\ res[r].account = a
          /\ res[r].expiresAt > u
    BY DEF LiveOf
  <2>2. res[r].expiresAt \in Nat
    BY <2>1 DEF Table, ReservationRow, NoRow
  <2>3. res[r].expiresAt > t
    BY <2>1, <2>2
  <2>. QED
    BY <2>1, <2>3 DEF LiveOf
<1>. QED
  BY <1>1, HeldMonotone

\* A counting transaction is a well-typed reserve.
LEMMA CountingType ==
  ASSUME TypeOK, NEW s \in Sessions, Counting(s)
  PROVE  /\ tx[s].command.account \in Accounts
         /\ tx[s].command.units \in Nat \ {0}
         /\ tx[s].used \in Nat
         /\ tx[s].now \in Nat
         /\ MaxUnits(tx[s].command.account) \in Nat
<1>1. tx[s] \in ReserveTx
  BY TxKinds DEF Counting
<1>2. tx[s].command.account \in Accounts /\ tx[s].command.units \in UnitSizes
  BY <1>1 DEF ReserveTx, ReserveCommand
<1>. QED
  BY <1>1, <1>2, LedgerAssumption, MaxUnitsType DEF ReserveTx

\* No step breaks the counts or the limit.
LEMMA LimitStep == RowInv /\ LimitInv /\ [Next]_vars => LimitInv'
<1> SUFFICES ASSUME RowInv, LimitInv, [Next]_vars PROVE LimitInv'
  OBVIOUS
<1>. USE DEF RowInv
<1>0. RowInv'
  BY RowStep
<1>a. reservations \in Table /\ reservations' \in Table
  BY <1>0 DEF TypeOK, Table
\* Steps that leave the tables alone and make no transaction count.
<1>1. ASSUME UNCHANGED <<clock, reservations, usage>>,
             \A s \in Sessions : tx'[s] = tx[s] \/ ~Counting(s)'
      PROVE  LimitInv'
  BY <1>1 DEF LimitInv, LimitOf, CountInv, Counting
\* Steps that only make holds fewer.
<1>2. ASSUME UNCHANGED <<usage, tx>>, clock <= clock',
             \A a \in Accounts : HeldOf(reservations', a, clock')
                                   <= HeldOf(reservations, a, clock)
      PROVE  LimitInv'
  <2>1. CountInv'
    <3> SUFFICES ASSUME NEW s \in Sessions, Counting(s)
                 PROVE /\ TimelyOf(usage, tx[s].command.account) <= tx[s].used
                       /\ tx[s].now <= clock'
                       /\ tx[s].phase = "inserting" =>
                            tx[s].used
                              + HeldOf(reservations', tx[s].command.account, clock')
                              + tx[s].command.units
                            <= MaxUnits(tx[s].command.account)
                       /\ \A t \in Sessions :
                            Counting(t)
                              /\ tx[t].command.account = tx[s].command.account
                              => t = s
      BY <1>2 DEF CountInv, Counting
    <3> DEFINE a == tx[s].command.account
    <3>1. a \in Accounts /\ MaxUnits(a) \in Nat /\ tx[s].used \in Nat
            /\ tx[s].command.units \in Nat /\ tx[s].now \in Nat
      BY CountingType
    <3>2. HeldOf(reservations, a, clock) \in Nat /\ HeldOf(reservations', a, clock') \in Nat
      BY <1>a, HeldType
    <3>3. clock \in Nat /\ clock' \in Nat
      BY <1>0 DEF TypeOK
    <3>4. HeldOf(reservations', a, clock') <= HeldOf(reservations, a, clock)
      BY <1>2, <3>1
    <3>5. tx[s].now <= clock'
      BY <1>2, <3>1, <3>3 DEF LimitInv, CountInv
    <3>6. tx[s].phase = "inserting" =>
            tx[s].used + HeldOf(reservations, a, clock) + tx[s].command.units
              <= MaxUnits(a)
      BY DEF LimitInv, CountInv
    <3>. QED
      BY <3>1, <3>2, <3>4, <3>5, <3>6 DEF LimitInv, CountInv
  <2>2. ASSUME NEW a \in Accounts PROVE LimitOf(a)'
    <3>1. HeldOf(reservations, a, clock) \in Nat /\ HeldOf(reservations', a, clock') \in Nat
      BY <1>a, HeldType
    <3>2. TimelyOf(usage, a) \in Nat /\ MaxUnits(a) \in Nat
      BY StateSums, MaxUnitsType
    <3>3. TimelyOf(usage, a) + HeldOf(reservations, a, clock) <= MaxUnits(a)
      BY DEF LimitInv, LimitOf
    <3>4. TimelyOf(usage, a) + HeldOf(reservations', a, clock') <= MaxUnits(a)
      BY <1>2, <3>1, <3>2, <3>3
    <3>. QED
      BY <1>2, <3>4 DEF LimitOf
  <2>. QED
    BY <2>1, <2>2 DEF LimitInv
<1>3. ASSUME NEW s \in Sessions, NEW k \in Keys, NEW c \in ReserveCommand,
             BeginReserve(s, k, c)
      PROVE  LimitInv'
  BY <1>1, <1>3 DEF BeginReserve, Counting, TypeOK
<1>4. ASSUME NEW s \in Sessions, CountUsed(s)
      PROVE  LimitInv'
  <2> DEFINE a == tx[s].command.account
  <2>1. /\ tx'[s].phase = "counting" /\ tx'[s].used = UsedUnits(a)
        /\ tx'[s].now = clock /\ tx'[s].command = tx[s].command
    BY <1>4, TxKinds DEF CountUsed, TypeOK, ReserveTx
  <2>2. \A t \in Sessions \ {s} : tx'[t] = tx[t]
    BY <1>4 DEF CountUsed, TypeOK
  <2>3. \A t \in Sessions \ {s} : Counting(t) => tx[t].command.account # a
    BY <1>4 DEF CountUsed, AccountLocked, Counting
  <2>4. TimelyOf(usage, a) <= UsedUnits(a)
    BY StateSums
  <2>5. UNCHANGED <<clock, reservations, usage>>
    BY <1>4 DEF CountUsed
  <2>6. clock <= clock
    BY DEF TypeOK
  <2>7. CountInv'
    BY <2>1, <2>2, <2>3, <2>4, <2>5, <2>6 DEF LimitInv, CountInv, Counting
  <2>. QED
    BY <2>5, <2>7 DEF LimitInv, LimitOf
<1>5. ASSUME NEW s \in Sessions, CountHeld(s)
      PROVE  LimitInv'
  <2> DEFINE a == tx[s].command.account
  <2>1. /\ tx'[s].phase = "inserting" /\ tx'[s].used = tx[s].used
        /\ tx'[s].now = tx[s].now /\ tx'[s].command = tx[s].command
    BY <1>5, TxKinds DEF CountHeld, TypeOK, ReserveTx
  <2>2. \A t \in Sessions \ {s} : tx'[t] = tx[t]
    BY <1>5 DEF CountHeld, TypeOK
  <2>3. UNCHANGED <<clock, reservations, usage>>
    BY <1>5 DEF CountHeld
  <2>4. Counting(s)
    BY <1>5 DEF CountHeld, Counting
  <2>5. a \in Accounts /\ MaxUnits(a) \in Nat /\ tx[s].used \in Nat
          /\ tx[s].command.units \in Nat /\ tx[s].now \in Nat
    BY <2>4, CountingType
  <2>6. tx[s].used + HeldOf(reservations, a, tx[s].now) + tx[s].command.units
          <= MaxUnits(a)
    BY <1>5 DEF CountHeld, HeldUnits, HeldOf, Live, LiveOf
  <2>7. tx[s].now <= clock
    BY <2>4 DEF LimitInv, CountInv
  <2>8. HeldOf(reservations, a, clock) <= HeldOf(reservations, a, tx[s].now)
    BY <1>a, <2>5, <2>7, HeldLater DEF TypeOK
  <2>9. HeldOf(reservations, a, clock) \in Nat
          /\ HeldOf(reservations, a, tx[s].now) \in Nat
    BY StateSums
  <2>10. tx[s].used + HeldOf(reservations, a, clock) + tx[s].command.units
           <= MaxUnits(a)
    BY <2>5, <2>6, <2>8, <2>9
  <2>11. CountInv'
    BY <2>1, <2>2, <2>3, <2>4, <2>10 DEF LimitInv, CountInv, Counting
  <2>. QED
    BY <2>3, <2>11 DEF LimitInv, LimitOf
<1>6. ASSUME NEW s \in Sessions, NEW r \in ReservationIds, CommitReserve(s, r)
      PROVE  LimitInv'
  <2> DEFINE a == tx[s].command.account
             new == reservations'
  <2>1. Counting(s) /\ tx[s].phase = "inserting"
    BY <1>6 DEF CommitReserve, Counting
  <2>2. a \in Accounts /\ MaxUnits(a) \in Nat /\ tx[s].used \in Nat
          /\ tx[s].command.units \in Nat
    BY <2>1, CountingType
  <2>3. UNCHANGED <<clock, usage>>
    BY <1>6 DEF CommitReserve
  <2>4. /\ new[r].state = "held" /\ new[r].account = a
        /\ new[r].units = tx[s].command.units /\ new[r].expiresAt > clock
    BY <1>6 DEF CommitReserve, TypeOK
  <2>5. (\A q \in ReservationIds \ {r} : new[q] = reservations[q])
          /\ reservations[r] = NoRow
    BY <1>6 DEF CommitReserve, TypeOK
  <2>6. (\A t \in Sessions \ {s} : tx'[t] = tx[t]) /\ tx'[s] = NoTx
    BY <1>6 DEF CommitReserve, TypeOK
  <2>7. ASSUME NEW b, b # a
        PROVE  HeldOf(new, b, clock) = HeldOf(reservations, b, clock)
    <3>1. LiveOf(new, b, clock) = LiveOf(reservations, b, clock)
      BY <2>4, <2>5, <2>7 DEF LiveOf, NoRow
    <3>2. \A q \in LiveOf(new, b, clock) : new[q].units = reservations[q].units
      BY <2>4, <2>5, <2>7 DEF LiveOf
    <3>. QED
      BY <3>1, <3>2 DEF HeldOf
  <2>8. HeldOf(new, a, clock) = HeldOf(reservations, a, clock) + tx[s].command.units
    <3>1. r \in LiveOf(new, a, clock)
      BY <2>4 DEF LiveOf
    <3>2. LiveOf(reservations, a, clock) = LiveOf(new, a, clock) \ {r}
      BY <2>4, <2>5 DEF LiveOf, NoRow
    <3>3. \A q \in LiveOf(reservations, a, clock) : new[q].units = reservations[q].units
      BY <2>5, <3>2 DEF LiveOf
    <3>. QED
      BY <1>a, <2>4, <3>1, <3>2, <3>3, HeldAdd
  <2>9. TimelyOf(usage, a) <= tx[s].used
          /\ tx[s].used + HeldOf(reservations, a, clock) + tx[s].command.units
               <= MaxUnits(a)
    BY <2>1 DEF LimitInv, CountInv
  <2>10. TimelyOf(usage, a) \in Nat /\ HeldOf(reservations, a, clock) \in Nat
    BY StateSums
  <2>11. TimelyOf(usage, a) + HeldOf(new, a, clock) <= MaxUnits(a)
    BY <2>2, <2>8, <2>9, <2>10
  <2>12. \A b \in Accounts : LimitOf(b)'
    BY <2>3, <2>7, <2>11 DEF LimitInv, LimitOf
  <2>13. \A t \in Sessions :
           Counting(t)' => t # s /\ Counting(t) /\ tx[t].command.account # a
    BY <2>1, <2>6 DEF Counting, NoTx, LimitInv, CountInv
  <2>. HIDE DEF new, a
  <2>14. CountInv'
    BY <2>3, <2>6, <2>7, <2>13 DEF LimitInv, CountInv, Counting, new
  <2>. QED
    BY <2>12, <2>14 DEF LimitInv
<1>7. ASSUME NEW s \in Sessions, NEW k \in Keys, NEW c \in ChargeCommand,
             BeginCharge(s, k, c)
      PROVE  LimitInv'
  BY <1>1, <1>7 DEF BeginCharge, Counting, TypeOK
<1>8. ASSUME NEW s \in Sessions, CommitCharge(s)
      PROVE  LimitInv'
  <2> DEFINE r == tx[s].reservation
             row == reservations[r]
             a == row.account
             u == [key |-> tx[s].key, reservation |-> r,
                   account |-> row.account, units |-> row.units,
                   late |-> clock >= row.expiresAt]
             new == reservations'
  <2>1. r \in ReservationIds /\ tx[s].key \in Keys
    BY <1>8, TxKinds DEF CommitCharge, ChargeTx
  <2>2. row.state = "held"
    BY <1>8 DEF CommitCharge, SettlingHeld
  <2>3. row \in ReservationRow
    BY <2>1, <2>2, RowKinds
  <2>4. u \in UsageRow /\ u.account = a /\ u.units = row.units
          /\ u.late = (clock >= row.expiresAt)
    <3>1. u \in UsageRow
      BY <2>1, <2>3 DEF UsageRow, ReservationRow
    <3>2. u.account = a /\ u.units = row.units
      OBVIOUS
    <3>3. u.late = (clock >= row.expiresAt)
      BY ZenonT(30)
    <3>. QED
      BY <3>1, <3>2, <3>3
  <2>5. UNCHANGED clock /\ usage' = usage \cup {u}
    BY <1>8 DEF CommitCharge
  <2>6. /\ \A q \in ReservationIds \ {r} : new[q] = reservations[q]
        /\ new[r].state = "used"
    BY <1>8, <2>1, <2>3 DEF CommitCharge, TypeOK, ReservationRow
  <2>7. (\A t \in Sessions \ {s} : tx'[t] = tx[t]) /\ tx'[s] = NoTx
    BY <1>8 DEF CommitCharge, TypeOK
  <2>8. \A t \in Sessions : Counting(t) => tx[t].command.account # a
    BY <1>8 DEF CommitCharge, AccountLocked, Counting
  <2>9. row.units \in Nat /\ row.expiresAt \in Nat /\ clock \in Nat /\ a \in Accounts
    BY <2>3 DEF ReservationRow, TypeOK
  <2>10. TypeOK /\ new \in Table
    BY <1>a
  <2>. HIDE DEF u
  <2>11. u \notin usage \/ usage' = usage
    BY <2>5
  <2>12. ASSUME NEW b
         PROVE  TimelyOf(usage', b) <=
                  IF b = a /\ ~u.late THEN TimelyOf(usage, b) + row.units
                                      ELSE TimelyOf(usage, b)
    <3>1. TimelyOf(usage, b) \in Nat
      BY StateSums
    <3>2. CASE u \in usage
      <4>1. TimelyOf(usage', b) = TimelyOf(usage, b)
        <5>1. usage' = usage
          BY <2>5, <3>2
        <5>. QED
          BY <5>1
      <4>. HIDE DEF row
      <4>. QED
        BY <2>9, <3>1, <4>1
    <3>3. CASE u \notin usage
      <4>1. TimelyOf(usage', b) =
              IF u.account = b /\ ~u.late THEN TimelyOf(usage, b) + u.units
                                          ELSE TimelyOf(usage, b)
        BY <2>4, <2>5, <3>3, TimelyAdd DEF TypeOK, UsageRow
      <4>. HIDE DEF row
      <4>. QED
        BY <2>4, <2>9, <3>1, <4>1
    <3>. QED
      BY <3>2, <3>3
  <2>13. ASSUME NEW b
         PROVE  HeldOf(new, b, clock) <= HeldOf(reservations, b, clock)
    <3>1. \A q \in LiveOf(new, b, clock) :
            q \in LiveOf(reservations, b, clock) /\ new[q].units = reservations[q].units
      BY <2>6 DEF LiveOf
    <3>. QED
      BY <1>a, <3>1, HeldMonotone
  <2>14. ~u.late =>
           HeldOf(reservations, a, clock) = HeldOf(new, a, clock) + row.units
    <3>1. SUFFICES ASSUME ~u.late
                   PROVE HeldOf(reservations, a, clock)
                           = HeldOf(new, a, clock) + row.units
      OBVIOUS
    <3>2. r \in LiveOf(reservations, a, clock)
      <4>1. ~(clock >= row.expiresAt)
        BY <2>4, <3>1
      <4>2. row.expiresAt > clock
        BY <2>9, <4>1
      <4>. QED
        BY <2>1, <2>2, <4>2 DEF LiveOf
    <3>3. LiveOf(new, a, clock) = LiveOf(reservations, a, clock) \ {r}
      BY <2>6 DEF LiveOf
    <3>4. \A q \in LiveOf(new, a, clock) : reservations[q].units = new[q].units
      BY <2>6, <3>3 DEF LiveOf
    <3>. QED
      BY <1>a, <3>2, <3>3, <3>4, HeldAdd
  <2>15. ASSUME NEW b \in Accounts PROVE LimitOf(b)'
    <3>1. /\ TimelyOf(usage, b) \in Nat /\ HeldOf(reservations, b, clock) \in Nat
          /\ HeldOf(new, b, clock) \in Nat /\ MaxUnits(b) \in Nat
      BY <1>a, StateSums, HeldType, MaxUnitsType
    <3>2. TimelyOf(usage', b) \in Nat
      BY <1>0, TimelyType DEF TypeOK, UsageRow
    <3>3. TimelyOf(usage, b) + HeldOf(reservations, b, clock) <= MaxUnits(b)
      BY DEF LimitInv, LimitOf
    <3>4. CASE b = a /\ ~u.late
      <4>1. TimelyOf(usage', b) <= TimelyOf(usage, b) + row.units
        BY <2>12, <3>4
      <4>2. HeldOf(reservations, b, clock) = HeldOf(new, b, clock) + row.units
        BY <2>14, <3>4
      <4>. HIDE DEF row, new
      <4>3. TimelyOf(usage', b) + HeldOf(new, b, clock) <= MaxUnits(b)
        BY <2>9, <3>1, <3>2, <3>3, <4>1, <4>2
      <4>. QED
        BY <2>5, <4>3 DEF LimitOf, new
    <3>5. CASE ~(b = a /\ ~u.late)
      <4>1. TimelyOf(usage', b) <= TimelyOf(usage, b)
        BY <2>12, <3>5
      <4>2. HeldOf(new, b, clock) <= HeldOf(reservations, b, clock)
        BY <2>13
      <4>. HIDE DEF row, new
      <4>3. TimelyOf(usage', b) + HeldOf(new, b, clock) <= MaxUnits(b)
        BY <3>1, <3>2, <3>3, <4>1, <4>2
      <4>. QED
        BY <2>5, <4>3 DEF LimitOf, new
    <3>. QED
      BY <3>4, <3>5
  <2>16. \A t \in Sessions : Counting(t)' => t # s /\ Counting(t)
    BY <2>7 DEF Counting, NoTx
  <2>17. ASSUME NEW t \in Sessions, Counting(t), t # s
         PROVE  LET b == tx[t].command.account
                IN  /\ TimelyOf(usage', b) <= tx[t].used
                    /\ tx[t].phase = "inserting" =>
                         tx[t].used + HeldOf(new, b, clock) + tx[t].command.units
                           <= MaxUnits(b)
    <3> DEFINE b == tx[t].command.account
    <3>1. b # a
      BY <2>8, <2>17
    <3>2. TimelyOf(usage', b) <= TimelyOf(usage, b)
      BY <2>12, <3>1
    <3>3. HeldOf(new, b, clock) <= HeldOf(reservations, b, clock)
      BY <2>13
    <3>4. /\ TimelyOf(usage, b) \in Nat /\ HeldOf(reservations, b, clock) \in Nat
          /\ HeldOf(new, b, clock) \in Nat /\ MaxUnits(b) \in Nat
          /\ tx[t].used \in Nat /\ tx[t].command.units \in Nat
      BY <1>a, <2>17, StateSums, HeldType, CountingType
    <3>5. TimelyOf(usage', b) \in Nat
      BY <1>0, TimelyType DEF TypeOK, UsageRow
    <3>6. /\ TimelyOf(usage, b) <= tx[t].used
          /\ tx[t].phase = "inserting" =>
               tx[t].used + HeldOf(reservations, b, clock) + tx[t].command.units
                 <= MaxUnits(b)
      BY <2>17 DEF LimitInv, CountInv
    <3>. HIDE DEF b, new
    <3>7. TimelyOf(usage', b) <= tx[t].used
      BY <3>2, <3>4, <3>5, <3>6
    <3>8. tx[t].phase = "inserting" =>
            tx[t].used + HeldOf(new, b, clock) + tx[t].command.units <= MaxUnits(b)
      BY <3>3, <3>4, <3>6
    <3>. QED
      BY <3>7, <3>8 DEF b
  <2>. HIDE DEF row, r
  <2>18. CountInv'
    BY <2>5, <2>7, <2>16, <2>17 DEF LimitInv, CountInv, Counting
  <2>. QED
    BY <2>15, <2>18 DEF LimitInv
<1>9. ASSUME NEW k \in Keys, NEW c \in ReleaseCommand, Release(k, c)
      PROVE  LimitInv'
  <2> DEFINE r == c.reservation
  <2>1. r \in ReservationIds
    BY DEF ReleaseCommand
  <2>2. reservations[r] \in ReservationRow
    BY <1>9, <2>1, RowKinds DEF Release
  <2>3. /\ \A q \in ReservationIds \ {r} : reservations'[q] = reservations[q]
        /\ reservations'[r].state = "released"
    BY <1>9, <2>1, <2>2 DEF Release, TypeOK, ReservationRow
  <2>4. ASSUME NEW a \in Accounts
        PROVE  HeldOf(reservations', a, clock) <= HeldOf(reservations, a, clock)
    <3>1. \A q \in LiveOf(reservations', a, clock) :
            q \in LiveOf(reservations, a, clock)
              /\ reservations'[q].units = reservations[q].units
      BY <2>3 DEF LiveOf
    <3>. QED
      BY <1>a, <3>1, HeldMonotone
  <2>5. UNCHANGED <<clock, usage, tx>>
    BY <1>9 DEF Release
  <2>6. clock <= clock'
    BY <2>5 DEF TypeOK
  <2>. QED
    BY <1>2, <2>4, <2>5, <2>6
<1>10. ASSUME NEW s \in Sessions, Rollback(s)
       PROVE  LimitInv'
  BY <1>1, <1>10 DEF Rollback, Counting, NoTx, TypeOK
<1>11. CASE Tick
  <2>1. clock \in Nat /\ clock' \in Nat /\ clock <= clock'
    BY <1>11 DEF Tick, TypeOK
  <2>2. \A a \in Accounts :
          HeldOf(reservations', a, clock') <= HeldOf(reservations, a, clock)
    BY <1>11, <1>a, <2>1, HeldLater DEF Tick
  <2>. QED
    BY <1>2, <1>11, <2>1, <2>2 DEF Tick
<1>12. CASE UNCHANGED vars
  BY <1>1, <1>12 DEF vars
<1>. QED
  BY <1>3, <1>4, <1>5, <1>6, <1>7, <1>8, <1>9, <1>10, <1>11, <1>12 DEF Next

\* Nothing is spent or held at first.
LEMMA InitLimits == Init => CountInv /\ \A a \in Accounts : LimitOf(a)
<1> SUFFICES ASSUME Init PROVE CountInv /\ \A a \in Accounts : LimitOf(a)
  OBVIOUS
<1>1. CountInv
  BY DEF Init, CountInv, Counting, NoTx
<1>2. ASSUME NEW a \in Accounts PROVE LimitOf(a)
  <2>1. /\ LiveOf(reservations, a, clock) = {}
        /\ {u \in usage : u.account = a /\ ~u.late} = {}
    BY DEF Init, LiveOf, NoRow
  <2>2. Tokens([x \in {} |-> reservations[x].units]) = {}
          /\ Tokens([x \in {} |-> x.units]) = {}
    BY DEF Tokens
  <2>3. Cardinality({}) = 0
    BY FS_EmptySet
  <2>4. HeldOf(reservations, a, clock) = 0
    BY <2>1, <2>2, <2>3 DEF HeldOf, Sum
  <2>5. TimelyOf(usage, a) = 0
    BY <2>1, <2>2, <2>3 DEF TimelyOf, UnitsOf, Sum
  <2>. QED
    BY <2>4, <2>5, MaxUnitsType DEF LimitOf
<1>. QED
  BY <1>1, <1>2

\* budget.reserve never overbooks an account: timely usage and live holds
\* together stay within the limit, for any number of concurrent sessions.
THEOREM NeverOverbooked == Spec => []CommittedWithinLimit
<1>1. Init => LimitInv
  BY InitLimits DEF LimitInv
<1>2. LimitInv => CommittedWithinLimit
  BY DEF LimitInv, LimitOf, CommittedWithinLimit, WithinLimit, TimelyUnits,
         TimelyOf, HeldUnits, HeldOf, Live, LiveOf
<1>. QED
  BY <1>1, <1>2, RowCorrect, LimitStep, PTL DEF Spec
=============================================================================
