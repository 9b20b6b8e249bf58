---------------------------- MODULE BudgetLedger ----------------------------
(***************************************************************************)
(* The intelligence budget ledger of src/src/core/budgets.ts: the commands *)
(* budget.reserve, budget.charge and budget.release.                       *)
(*                                                                         *)
(* Every command is one database transaction at READ COMMITTED, so what is *)
(* a step here is a stretch of the transaction that no other transaction   *)
(* can tell from an atomic one:                                            *)
(*   - a transaction begins by taking the advisory lock of its idempotency *)
(*     key and looking up the audit event an earlier execution left;       *)
(*   - budget.reserve then locks the account row (FOR UPDATE), sums usage, *)
(*     sums holds in a later statement (a later snapshot), and inserts;    *)
(*   - budget.charge locks the reservation row, checks it, and inserts a   *)
(*     usage row whose foreign key needs a share of the account row, which *)
(*     a budget.reserve of the same account keeps from it;                 *)
(*   - budget.release locks the reservation row, checks it and updates it. *)
(* A refused command, a replay and a command that dies roll back: they     *)
(* leave no trace but the end of the session's transaction.                *)
(***************************************************************************)
EXTENDS Integers, FiniteSets

CONSTANTS
  Sessions,         \* command executions that may be in flight together
  Keys,             \* idempotency keys callers choose
  Accounts,         \* budget_accounts rows (active, with an active policy)
  ReservationIds,   \* ids of budget_reservations rows
  UnitSizes,        \* unit amounts a reserve may ask for
  ExpiryTimes,      \* values of config.expiresAt a reserve may ask for
  NoExpiry,         \* config.expiresAt left out
  AllocatedUnits,   \* per account: units of the allocations now in force
  MonthlyUnits,     \* per account: monthlyUnits of its policy
  PerTaskUnits,     \* per account: perTaskUnits of its policy
  HardLimit,        \* per account: hardLimit of its policy, in percent
  HoldTime,         \* default life of a hold (15 minutes in the code)
  MaxClock          \* bound of the model's clock

ASSUME LedgerAssumption ==
  /\ IsFiniteSet(ReservationIds)
  /\ UnitSizes \subseteq Nat \ {0}
  /\ ExpiryTimes \subseteq Nat
  /\ NoExpiry \notin Nat
  /\ AllocatedUnits \in [Accounts -> Nat]
  /\ MonthlyUnits \in [Accounts -> Nat]
  /\ PerTaskUnits \in [Accounts -> Nat]
  /\ HardLimit \in [Accounts -> Nat]
  /\ HoldTime \in Nat \ {0}
  /\ MaxClock \in Nat

VARIABLES
  clock,        \* the time new Date() reads
  reservations, \* budget_reservations, by id
  usage,        \* usage_events: a set of rows
  audits,       \* audit_events: a set of rows
  tx            \* the open transaction of each session

vars == <<clock, reservations, usage, audits, tx>>

-----------------------------------------------------------------------------
(* Commands. A command is its own fingerprint: two requests with the same  *)
(* key and the same command are a replay, with another command a conflict. *)

ReserveCommand ==
  [op : {"reserve"}, account : Accounts, units : UnitSizes,
   expiresAt : ExpiryTimes \cup {NoExpiry}]
ChargeCommand  == [op : {"charge"}, reservation : ReservationIds]
ReleaseCommand == [op : {"release"}, reservation : ReservationIds]

NoRow == [state |-> "absent"]
ReservationRow ==
  [state : {"held", "used", "released"}, account : Accounts,
   units : Nat \ {0}, expiresAt : Nat]
UsageRow ==
  [key : Keys, reservation : ReservationIds, account : Accounts,
   units : Nat \ {0}, late : BOOLEAN]
AuditRow ==
  [op : {"reserve", "charge", "release"}, key : Keys,
   target : ReservationIds]

NoTx == [phase |-> "idle"]
ReserveTx ==
  [phase : {"locked", "counting", "inserting"}, key : Keys,
   command : ReserveCommand, used : Nat, now : Nat]
ChargeTx ==
  [phase : {"settling"}, key : Keys, command : ChargeCommand,
   reservation : ReservationIds]

TypeOK ==
  /\ clock \in Nat
  /\ reservations \in [ReservationIds -> ReservationRow \cup {NoRow}]
  /\ usage \subseteq UsageRow
  /\ IsFiniteSet(usage)
  /\ audits \subseteq AuditRow
  /\ tx \in [Sessions -> ReserveTx \cup ChargeTx \cup {NoTx}]

-----------------------------------------------------------------------------
(* Locks. They live as long as the transaction that took them.             *)

\* pg_advisory_xact_lock on (tenant, source:key).
KeyLocked(k) == \E s \in Sessions : tx[s] # NoTx /\ tx[s].key = k

\* Mutant: budget.reserve without its "select .. for update" of the account.
AccountLockedMutant(a) == FALSE

\* The FOR UPDATE lock of a budget_accounts row.
AccountLocked(a) ==
  \E s \in Sessions : /\ tx[s].phase \in {"counting", "inserting"}
                      /\ tx[s].command.account = a

\* Mutant: a charge and a release that read the reservation unlocked.
ReservationLockedMutant(r) == FALSE

\* The FOR UPDATE lock of a budget_reservations row.
ReservationLocked(r) ==
  \E s \in Sessions : tx[s].phase = "settling" /\ tx[s].reservation = r

\* Mutant: the replay lookup misses the events of a release.
RecordedMutant(op, k) == op # "release" /\ \E e \in audits : e.op = op /\ e.key = k

\* The audit event an execution of op under key k committed: what the replay
\* lookup finds and what the unique index on idempotency keys refuses twice.
Recorded(op, k) == \E e \in audits : e.op = op /\ e.key = k

-----------------------------------------------------------------------------
(* Capacity of an account: assertBudgetCapacity.                           *)

\* SUM(units): one token for every unit of every row. Written with a
\* cardinality, not a fold, so that its laws can be proved.
Tokens(f) == UNION {{x} \X (1 .. f[x]) : x \in DOMAIN f}
Sum(f) == Cardinality(Tokens(f))

\* The smaller of an allocation and a monthly allowance.
Smaller(m, n) == IF m <= n THEN m ELSE n

Allowance(a) ==
  IF AllocatedUnits[a] > 0 /\ MonthlyUnits[a] > 0
  THEN Smaller(AllocatedUnits[a], MonthlyUnits[a])
  ELSE IF AllocatedUnits[a] > 0 THEN AllocatedUnits[a] ELSE MonthlyUnits[a]

\* A hardLimit of 0 falls back to 100 percent, as numberValue(..) || 100 does.
MaxUnits(a) ==
  (Allowance(a) * (IF HardLimit[a] = 0 THEN 100 ELSE HardLimit[a])) \div 100

UnitsOf(rows) == Sum([u \in rows |-> u.units])
UsedUnits(a)  == UnitsOf({u \in usage : u.account = a})

\* Holds that still count at time t.
Live(a, t) ==
  {r \in ReservationIds : /\ reservations[r].state = "held"
                          /\ reservations[r].account = a
                          /\ reservations[r].expiresAt > t}
HeldUnits(a, t) == Sum([r \in Live(a, t) |-> reservations[r].units])

-----------------------------------------------------------------------------
(* budget.reserve                                                          *)

\* Take the key's lock; no earlier execution is recorded.
BeginReserve(s, k, c) ==
  /\ tx[s] = NoTx
  /\ ~KeyLocked(k)
  /\ ~Recorded("reserve", k)
  /\ tx' = [tx EXCEPT ![s] = [phase |-> "locked", key |-> k, command |-> c,
                              used |-> 0, now |-> 0]]
  /\ UNCHANGED <<clock, reservations, usage, audits>>

\* Lock the account row, check the per-task limit and sum its usage.
CountUsed(s) ==
  /\ tx[s].phase = "locked"
  /\ LET a == tx[s].command.account
     IN  /\ ~AccountLocked(a)
         /\ tx[s].command.units <= PerTaskUnits[a]
         /\ tx' = [tx EXCEPT ![s].phase = "counting",
                             ![s].used = UsedUnits(a),
                             ![s].now = clock]
  /\ UNCHANGED <<clock, reservations, usage, audits>>

\* Sum the holds that had not expired when the check started, and go on
\* only below the limit.
CountHeld(s) ==
  /\ tx[s].phase = "counting"
  /\ LET c == tx[s].command
     IN  tx[s].used + HeldUnits(c.account, tx[s].now) + c.units
           <= MaxUnits(c.account)
  /\ tx' = [tx EXCEPT ![s].phase = "inserting"]
  /\ UNCHANGED <<clock, reservations, usage, audits>>

\* Insert the reservation, its event, audit event and evidence, and commit.
CommitReserve(s, r) ==
  /\ tx[s].phase = "inserting"
  /\ reservations[r] = NoRow
  /\ ~Recorded("reserve", tx[s].key)
  /\ LET c == tx[s].command
         expiresAt == IF c.expiresAt = NoExpiry THEN clock + HoldTime
                                                ELSE c.expiresAt
     IN  /\ expiresAt > clock
         /\ reservations' = [reservations EXCEPT ![r] =
              [state |-> "held", account |-> c.account, units |-> c.units,
               expiresAt |-> expiresAt]]
  /\ audits' = audits \cup
       {[op |-> "reserve", key |-> tx[s].key, target |-> r]}
  /\ tx' = [tx EXCEPT ![s] = NoTx]
  /\ UNCHANGED <<clock, usage>>

-----------------------------------------------------------------------------
(* budget.charge                                                           *)

\* Take the key's lock and the reservation's, and find it held and unexpired.
BeginCharge(s, k, c) ==
  /\ tx[s] = NoTx
  /\ ~KeyLocked(k)
  /\ ~Recorded("charge", k)
  /\ ~ReservationLocked(c.reservation)
  /\ reservations[c.reservation].state = "held"
  /\ reservations[c.reservation].expiresAt > clock
  /\ tx' = [tx EXCEPT ![s] = [phase |-> "settling", key |-> k, command |-> c,
                              reservation |-> c.reservation]]
  /\ UNCHANGED <<clock, reservations, usage, audits>>

\* Insert the usage row of the whole reserved amount, mark the reservation
\* used, and commit. "late" records a commit past the expiration the
\* transaction had checked before.
CommitCharge(s) ==
  /\ tx[s].phase = "settling"
  /\ tx[s].command.op = "charge"
  /\ ~Recorded("charge", tx[s].key)
  /\ LET r == tx[s].reservation
         row == reservations[r]
     IN  /\ ~AccountLocked(row.account)
         /\ usage' = usage \cup
              {[key |-> tx[s].key, reservation |-> r, account |-> row.account,
                units |-> row.units, late |-> clock >= row.expiresAt]}
         /\ reservations' = [reservations EXCEPT ![r].state = "used"]
         /\ audits' = audits \cup
              {[op |-> "charge", key |-> tx[s].key, target |-> r]}
  /\ tx' = [tx EXCEPT ![s] = NoTx]
  /\ UNCHANGED clock

-----------------------------------------------------------------------------
(* budget.release: an expired hold may be released too.                    *)

\* Mutant: the release does not look at the state of the row.
ReleaseMutant(k, c) ==
  /\ ~KeyLocked(k)
  /\ ~Recorded("release", k)
  /\ ~ReservationLocked(c.reservation)
  /\ reservations[c.reservation] # NoRow
  /\ reservations' = [reservations EXCEPT ![c.reservation].state = "released"]
  /\ audits' = audits \cup
       {[op |-> "release", key |-> k, target |-> c.reservation]}
  /\ UNCHANGED <<clock, usage, tx>>

Release(k, c) ==
  /\ ~KeyLocked(k)
  /\ ~Recorded("release", k)
  /\ ~ReservationLocked(c.reservation)
  /\ reservations[c.reservation].state = "held"
  /\ reservations' = [reservations EXCEPT ![c.reservation].state = "released"]
  /\ audits' = audits \cup
       {[op |-> "release", key |-> k, target |-> c.reservation]}
  /\ UNCHANGED <<clock, usage, tx>>

-----------------------------------------------------------------------------
\* A refusal (409, 404, 400), a failed statement or a dead connection: the
\* transaction rolls back, a charge's "expired" update included.
Rollback(s) ==
  /\ tx[s] # NoTx
  /\ tx' = [tx EXCEPT ![s] = NoTx]
  /\ UNCHANGED <<clock, reservations, usage, audits>>

Tick ==
  /\ clock < MaxClock
  /\ clock' = clock + 1
  /\ UNCHANGED <<reservations, usage, audits, tx>>

Init ==
  /\ clock = 0
  /\ reservations = [r \in ReservationIds |-> NoRow]
  /\ usage = {}
  /\ audits = {}
  /\ tx = [s \in Sessions |-> NoTx]

Next ==
  \/ \E s \in Sessions, k \in Keys, c \in ReserveCommand : BeginReserve(s, k, c)
  \/ \E s \in Sessions : CountUsed(s)
  \/ \E s \in Sessions : CountHeld(s)
  \/ \E s \in Sessions, r \in ReservationIds : CommitReserve(s, r)
  \/ \E s \in Sessions, k \in Keys, c \in ChargeCommand : BeginCharge(s, k, c)
  \/ \E s \in Sessions : CommitCharge(s)
  \/ \E k \in Keys, c \in ReleaseCommand : Release(k, c)
  \/ \E s \in Sessions : Rollback(s)
  \/ Tick

Spec == Init /\ [][Next]_vars

-----------------------------------------------------------------------------
(* Properties                                                              *)

\* A reservation is charged at most once, and is "used" exactly when one
\* usage row of its own account and amount says so.
ChargedOnce ==
  \A r \in ReservationIds :
    LET charges == {u \in usage : u.reservation = r}
    IN  /\ \A u, v \in charges : u = v
        /\ (reservations[r].state = "used") <=> (charges # {})
        /\ \A u \in charges : /\ u.account = reservations[r].account
                              /\ u.units = reservations[r].units

\* What an account has spent on time and still holds stays within the limit
\* its policy sets, however reserves, charges and releases interleave. Only a
\* charge that commits after the hold it checked has expired escapes it.
TimelyUnits(a) == UnitsOf({u \in usage : u.account = a /\ ~u.late})
WithinLimit(a) == TimelyUnits(a) + HeldUnits(a, clock) <= MaxUnits(a)
CommittedWithinLimit == \A a \in Accounts : WithinLimit(a)

\* A key has one effect however often the command is sent: audit events name
\* distinct (command, key) pairs, every reservation was made by one of them,
\* and so was every charge and every release.
OneEffectPerKey ==
  /\ \A d, e \in audits : d.op = e.op /\ d.key = e.key => d = e
  /\ \A r \in ReservationIds :
       LET made(op) == {e \in audits : e.op = op /\ e.target = r}
       IN  /\ (reservations[r] # NoRow) <=> (made("reserve") # {})
           /\ (reservations[r].state = "used") <=> (made("charge") # {})
           /\ (reservations[r].state = "released") <=> (made("release") # {})
           /\ \A d, e \in audits :
                d.op = e.op /\ d.target = e.target => d = e

\* A settled reservation never changes again, and a hold changes only its
\* state: no interleaving charges what was released or moves it elsewhere.
SettledIsFinal ==
  [][\A r \in ReservationIds :
       /\ reservations[r].state \in {"used", "released"} =>
            reservations'[r] = reservations[r]
       /\ reservations[r].state = "held" =>
            \E next \in {"held", "used", "released"} :
              reservations'[r] = [reservations[r] EXCEPT !.state = next]
    ]_vars
=============================================================================
