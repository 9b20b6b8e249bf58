----------------------------- MODULE WorkerRuns -----------------------------
(***************************************************************************)
(* worker.run.start and worker.run.complete of src/src/core/worker-runs.ts *)
(* beside the budget commands: the two share the reservation and usage     *)
(* tables.                                                                 *)
(*                                                                         *)
(* worker.run.start makes the capacity check of budget.reserve but takes   *)
(* no lock on the account row first. worker.run.complete locks the run     *)
(* row, reads the time, locks the run's reservation, and settles both in   *)
(* one transaction: a "done" run charges the whole hold, a "failed" or     *)
(* "canceled" one releases it.                                             *)
(* The worker, capability, grant, task and connection checks of a start    *)
(* either pass or refuse the command without a trace; a start that begins  *)
(* here has passed them.                                                   *)
(***************************************************************************)
EXTENDS BudgetLedger

CONSTANTS
  RunIds,          \* ids of worker_runs rows
  RunKeys,         \* idempotency keys of worker-run commands
  WorkerAccounts,  \* budget accounts whose target is a worker
  RunHoldTime      \* default life of a run's hold (24 hours in the code)

ASSUME RunAssumption ==
  /\ WorkerAccounts \subseteq Accounts
  /\ RunKeys \cap Keys = {}
  /\ RunHoldTime \in Nat \ {0}

VARIABLE runs      \* worker_runs, by id

runVars == <<vars, runs>>

Outcomes == {"done", "failed", "canceled"}

\* Mutant: any account may pay for a run, not only the worker's.
StartCommandMutant ==
  [op : {"start"}, account : Accounts, units : UnitSizes,
   expiresAt : ExpiryTimes \cup {NoExpiry}]

StartCommand ==
  [op : {"start"}, account : WorkerAccounts, units : UnitSizes,
   expiresAt : ExpiryTimes \cup {NoExpiry}]
CompleteCommand == [op : {"complete"}, run : RunIds, state : Outcomes]

RunRow == [state : {"running"} \cup Outcomes, reservation : ReservationIds]
StartTx ==
  [phase : {"run counting", "run inserting"}, key : RunKeys,
   command : StartCommand, used : Nat, now : Nat]
CompleteTx ==
  [phase : {"run locked", "settling"}, key : RunKeys,
   command : CompleteCommand, reservation : ReservationIds, now : Nat]

RunTypeOK ==
  /\ clock \in Nat
  /\ reservations \in [ReservationIds -> ReservationRow \cup {NoRow}]
  /\ usage \subseteq [key : Keys \cup RunKeys, reservation : ReservationIds,
                      account : Accounts, units : Nat \ {0}, late : BOOLEAN]
  /\ audits \subseteq AuditRow \cup [op : {"start", "complete"},
                                     key : RunKeys, target : RunIds]
  /\ tx \in [Sessions -> ReserveTx \cup ChargeTx \cup StartTx
                           \cup CompleteTx \cup {NoTx}]
  /\ runs \in [RunIds -> RunRow \cup {NoRow}]

\* pg_advisory_xact_lock on (tenant, source:key): starts and completions use
\* different prefixes.
RunKeyLocked(op, k) ==
  \E s \in Sessions : tx[s] # NoTx /\ tx[s].key = k /\ tx[s].command.op = op

\* The FOR UPDATE lock of a worker_runs row.
RunLocked(w) ==
  \E s \in Sessions : /\ tx[s].phase \in {"run locked", "settling"}
                      /\ tx[s].command.op = "complete"
                      /\ tx[s].command.run = w

\* A hold may be settled, whatever the outcome, while it has neither been
\* settled otherwise nor expired at the time read.
CanSettle(r, now) ==
  reservations[r].state = "held" /\ reservations[r].expiresAt > now

\* Mutant: only a done run settles its hold.
HoldAfterMutant(outcome) == IF outcome = "done" THEN "used" ELSE "held"

\* Mutant: the hold takes over the state of the run.
HoldAfterOutcomeMutant(outcome) == outcome

\* The state an outcome leaves the hold in.
HoldAfter(outcome) == IF outcome = "done" THEN "used" ELSE "released"

-----------------------------------------------------------------------------
(* worker.run.start                                                        *)

\* Take the key's lock, find no earlier start, check the per-task limit and
\* sum the usage of the worker's account. The account row is not locked.
BeginStart(s, k, c) ==
  /\ tx[s] = NoTx
  /\ ~RunKeyLocked("start", k)
  /\ ~Recorded("start", k)
  /\ c.units <= PerTaskUnits[c.account]
  /\ tx' = [tx EXCEPT ![s] =
       [phase |-> "run counting", key |-> k, command |-> c,
        used |-> UsedUnits(c.account), now |-> clock]]
  /\ UNCHANGED <<clock, reservations, usage, audits, runs>>

\* Sum the live holds and go on below the limit. A requested expiration must
\* lie ahead of the time the command started.
CountRunHeld(s) ==
  /\ tx[s].phase = "run counting"
  /\ LET c == tx[s].command
     IN  /\ tx[s].used + HeldUnits(c.account, tx[s].now) + c.units
              <= MaxUnits(c.account)
         /\ c.expiresAt # NoExpiry => c.expiresAt > tx[s].now
  /\ tx' = [tx EXCEPT ![s].phase = "run inserting"]
  /\ UNCHANGED <<clock, reservations, usage, audits, runs>>

\* Insert the hold (whose foreign key a budget.reserve of the account keeps
\* waiting), the running run, the event, the audit event, and commit.
CommitStart(s, r, w) ==
  /\ tx[s].phase = "run inserting"
  /\ reservations[r] = NoRow
  /\ runs[w] = NoRow
  /\ ~Recorded("start", tx[s].key)
  /\ LET c == tx[s].command
     IN  /\ ~AccountLocked(c.account)
         /\ reservations' = [reservations EXCEPT ![r] =
              [state |-> "held", account |-> c.account, units |-> c.units,
               expiresAt |-> IF c.expiresAt = NoExpiry
                             THEN tx[s].now + RunHoldTime
                             ELSE c.expiresAt]]
  /\ runs' = [runs EXCEPT ![w] = [state |-> "running", reservation |-> r]]
  /\ audits' = audits \cup
       {[op |-> "start", key |-> tx[s].key, target |-> w]}
  /\ tx' = [tx EXCEPT ![s] = NoTx]
  /\ UNCHANGED <<clock, usage>>

-----------------------------------------------------------------------------
(* worker.run.complete                                                     *)

\* Take the key's lock and the run's, find the run running, and read the
\* time.
BeginComplete(s, k, c) ==
  /\ tx[s] = NoTx
  /\ ~RunKeyLocked("complete", k)
  /\ ~Recorded("complete", k)
  /\ ~RunLocked(c.run)
  /\ runs[c.run].state = "running"
  /\ tx' = [tx EXCEPT ![s] =
       [phase |-> "run locked", key |-> k, command |-> c,
        reservation |-> runs[c.run].reservation, now |-> clock]]
  /\ UNCHANGED <<clock, reservations, usage, audits, runs>>

\* Lock the hold, when whoever else has it locked lets go of it.
LockHold(s) ==
  /\ tx[s].phase = "run locked"
  /\ ~ReservationLocked(tx[s].reservation)
  /\ CanSettle(tx[s].reservation, tx[s].now)
  /\ tx' = [tx EXCEPT ![s].phase = "settling"]
  /\ UNCHANGED <<clock, reservations, usage, audits, runs>>

\* Charge or release the hold, close the run, and commit.
CommitComplete(s) ==
  /\ tx[s].phase = "settling"
  /\ tx[s].command.op = "complete"
  /\ ~Recorded("complete", tx[s].key)
  /\ LET c == tx[s].command
         r == tx[s].reservation
         row == reservations[r]
     IN  /\ \/ /\ c.state = "done"
               /\ ~AccountLocked(row.account)
               /\ usage' = usage \cup
                    {[key |-> tx[s].key, reservation |-> r,
                      account |-> row.account, units |-> row.units,
                      late |-> clock >= row.expiresAt]}
            \/ c.state # "done" /\ UNCHANGED usage
         /\ reservations' =
              [reservations EXCEPT ![r].state = HoldAfter(c.state)]
         /\ runs' = [runs EXCEPT ![c.run].state = c.state]
         /\ audits' = audits \cup
              {[op |-> "complete", key |-> tx[s].key, target |-> c.run]}
  /\ tx' = [tx EXCEPT ![s] = NoTx]
  /\ UNCHANGED clock

-----------------------------------------------------------------------------
RunInit == Init /\ runs = [w \in RunIds |-> NoRow]

RunNext ==
  \/ Next /\ UNCHANGED runs
  \/ \E s \in Sessions, k \in RunKeys, c \in StartCommand : BeginStart(s, k, c)
  \/ \E s \in Sessions : CountRunHeld(s)
  \/ \E s \in Sessions, r \in ReservationIds, w \in RunIds : CommitStart(s, r, w)
  \/ \E s \in Sessions, k \in RunKeys, c \in CompleteCommand :
       BeginComplete(s, k, c)
  \/ \E s \in Sessions : LockHold(s)
  \/ \E s \in Sessions : CommitComplete(s)

RunSpec == RunInit /\ [][RunNext]_runVars

\* The caller keeps retrying the completion of a run it started, a retry that
\* waits for a lock gets it in its turn, no transaction stays open for ever,
\* and from some time on completions that may still settle are not killed.
Completing(s) ==
  /\ tx[s].phase \in {"run locked", "settling"}
  /\ tx[s].command.op = "complete"
  /\ CanSettle(tx[s].reservation, tx[s].now)
CompletionRetried ==
  /\ \A w \in RunIds :
       SF_runVars(\E s \in Sessions, k \in RunKeys, o \in Outcomes :
         BeginComplete(s, k, [op |-> "complete", run |-> w, state |-> o]))
  /\ \A s \in Sessions :
       /\ SF_runVars(LockHold(s))
       /\ SF_runVars(CommitComplete(s))
       /\ WF_runVars(~Completing(s) /\ Rollback(s) /\ UNCHANGED runs)
  /\ <>[][\A s \in Sessions :
            Completing(s) =>
              tx'[s] = tx[s] \/ LockHold(s) \/ CommitComplete(s)]_runVars

FairRunSpec == RunSpec /\ CompletionRetried

-----------------------------------------------------------------------------
(* Properties                                                              *)

\* A run and its budget settle together: a done run's hold is used, by the
\* charge the completion itself made; a failed or canceled run's hold is
\* released and never charged; and no two runs share a hold.
RunSettlesWithBudget ==
  /\ \A w \in RunIds : runs[w] # NoRow =>
       LET r == runs[w].reservation
           charges == {u \in usage : u.reservation = r}
       IN  /\ reservations[r] # NoRow
           /\ runs[w].state = "done" =>
                /\ reservations[r].state = "used"
                /\ \A u \in charges : u.key \in RunKeys
           /\ runs[w].state \in {"failed", "canceled"} =>
                reservations[r].state = "released" /\ charges = {}
  /\ \A v, w \in RunIds :
       /\ runs[v] # NoRow /\ runs[w] # NoRow
       /\ runs[v].reservation = runs[w].reservation
       => v = w

\* Worker runs cannot push an account that is not a worker's past its limit:
\* they may not draw on it, whatever they interleave with.
SharedAccountsWithinLimit ==
  \A a \in Accounts \ WorkerAccounts : WithinLimit(a)

\* The limit of the worker's own account, which docs promise is checked
\* before a run starts. Two starts that both count before either inserts
\* overbook it.
WorkerAccountsWithinLimit == \A a \in WorkerAccounts : WithinLimit(a)

\* A finished run keeps its outcome and its settlement: no later completion or
\* budget command changes the run or its hold. A running one keeps its hold.
OutcomeIsFinal ==
  [][\A w \in RunIds : runs[w] # NoRow =>
       LET r == runs[w].reservation
       IN  /\ runs'[w].reservation = r
           /\ runs[w].state # "running" =>
                runs'[w] = runs[w] /\ reservations'[r] = reservations[r]
    ]_runVars

\* What docs/core-platform.md says of worker.run.complete: the run settles.
RunSettles == \A w \in RunIds : runs[w] # NoRow ~> runs[w].state \in Outcomes
=============================================================================
