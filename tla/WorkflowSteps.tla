---------------------------- MODULE WorkflowSteps ----------------------------
(***************************************************************************)
(* The workflow step executor of src/src/core/workflows.ts: steps.execute. *)
(*                                                                         *)
(* An executor claims a step with a lease (one transaction, FOR UPDATE     *)
(* SKIP LOCKED), runs the worker command of a worker_command step outside  *)
(* any transaction, and then completes the step in a transaction that      *)
(* locks the step row, checks that the lease is still its own, locks the   *)
(* run row, and moves the run. A step that throws is marked failed, to be  *)
(* retried after a pause until its attempts are used up. An executor may   *)
(* die at any point, and may go on after its lease has expired.            *)
(*                                                                         *)
(* Time is abstract: leasedUntil and the pause before nextAttemptAt (or    *)
(* dueAt) run out some time after they are set. The records a handler      *)
(* writes in the completing transaction beside the step, the run and the   *)
(* executed event (packets, adapter intents, rule changes, obligations)    *)
(* are left out. The order of claims (priority, due date) is left open.    *)
(***************************************************************************)
EXTENDS Integers, FiniteSets

CONSTANTS
  Executors,    \* steps.execute calls that may be in flight together
  Owners,       \* lease owner names
  OwnerOf,      \* name each executor leases under; the default is shared
  NoOwner,      \* leaseOwner null
  Steps, Runs, RunOf,
  States, Transitions, FromState, NoState, ToState,
  CommandSteps, \* the steps of kind worker_command
  MaxAttempts   \* maxAttempts of every step (3 by default)

ASSUME StepsAssumption ==
  /\ OwnerOf \in [Executors -> Owners]
  /\ NoOwner \notin Owners
  /\ RunOf \in [Steps -> Runs]
  /\ Transitions \subseteq States \X States
  /\ NoState \notin States
  /\ FromState \in [Steps -> States \cup {NoState}]
  /\ ToState \in [Steps -> States]
  /\ CommandSteps \subseteq Steps
  /\ MaxAttempts \in Nat \ {0}

VARIABLES
  step,      \* workflow_steps, by id
  run,       \* the state of each workflow_runs row
  executed,  \* workflow.step.executed events, keyed by step and attempt
  commanded, \* worker commands that took effect, under their step's key
  claim      \* what each executor believes it has claimed

stepVars == <<step, run, executed, commanded, claim>>

StepRow ==
  [state : {"queued", "running", "failed", "done"},
   attempt : 1 .. MaxAttempts, owner : Owners \cup {NoOwner},
   lease : {"none", "live", "expired"}, waiting : BOOLEAN]
Claims == [step : Steps, attempt : 1 .. MaxAttempts,
           phase : {"claimed", "commanded"}]
NoClaim == [phase |-> "none"]

StepTypeOK ==
  /\ step \in [Steps -> StepRow]
  /\ run \in [Runs -> States]
  /\ executed \subseteq [step : Steps, attempt : 1 .. MaxAttempts]
  /\ commanded \subseteq CommandSteps
  /\ claim \in [Executors -> Claims \cup {NoClaim}]

\* Mutant: the lease check goes by the owner's name alone.
HoldsMutant(e) ==
  /\ claim[e] # NoClaim
  /\ LET row == step[claim[e].step]
     IN  row.state = "running" /\ row.owner = OwnerOf[e]

\* The claimed attempt is the one the ledger still shows running: what
\* completeWorkflowStep and failWorkflowStep ask of the row they update.
Holds(e) ==
  /\ claim[e] # NoClaim
  /\ LET row == step[claim[e].step]
     IN  /\ row.state = "running"
         /\ row.owner = OwnerOf[e]
         /\ row.attempt = claim[e].attempt

\* Mutant: the completion does not ask the definition for the transition.
CanMoveMutant(st, s) == s = ToState[st] \/ FromState[st] \in {NoState, s}

\* A step may move its run: it is there already, or the run is where the
\* step expects it and the definition has the transition.
CanMove(st, s) ==
  \/ s = ToState[st]
  \/ /\ FromState[st] \in {NoState, s}
     /\ <<s, ToState[st]>> \in Transitions

-----------------------------------------------------------------------------
\* Mutant: the last attempt is counted off by one.
ClaimableMutant(st) ==
  /\ \/ step[st].state = "queued"
     \/ /\ step[st].state \in {"failed", "running"}
        /\ step[st].attempt <= MaxAttempts
        /\ step[st].lease # "live"
  /\ ~step[st].waiting

\* Mutant: an expired lease is not claimed again.
ClaimableOnceMutant(st) ==
  /\ \/ step[st].state = "queued"
     \/ /\ step[st].state = "failed"
        /\ step[st].attempt < MaxAttempts
        /\ step[st].lease # "live"
  /\ ~step[st].waiting

\* What claimWorkflowStep selects.
Claimable(st) ==
  /\ \/ step[st].state = "queued"
     \/ /\ step[st].state \in {"failed", "running"}
        /\ step[st].attempt < MaxAttempts
        /\ step[st].lease # "live"
  /\ ~step[st].waiting

\* Mutant: reclaiming a step does not count as a new attempt.
ClaimMutant(e, st) ==
  /\ claim[e] = NoClaim
  /\ Claimable(st)
  /\ step' = [step EXCEPT ![st] =
       [@ EXCEPT !.state = "running", !.owner = OwnerOf[e], !.lease = "live"]]
  /\ claim' = [claim EXCEPT ![e] =
       [step |-> st, attempt |-> step[st].attempt, phase |-> "claimed"]]
  /\ UNCHANGED <<run, executed, commanded>>

\* Lease a step. Every claim but the first is a new attempt.
Claim(e, st) ==
  /\ claim[e] = NoClaim
  /\ Claimable(st)
  /\ LET attempt == IF step[st].state = "queued" THEN step[st].attempt
                                                 ELSE step[st].attempt + 1
     IN  /\ step' = [step EXCEPT ![st] =
              [@ EXCEPT !.state = "running", !.attempt = attempt,
                        !.owner = OwnerOf[e], !.lease = "live"]]
         /\ claim' = [claim EXCEPT ![e] =
              [step |-> st, attempt |-> attempt, phase |-> "claimed"]]
  /\ UNCHANGED <<run, executed, commanded>>

\* Run the worker command of the claimed step. Its idempotency key is the
\* step's, so a repetition replays what the first one did.
RunCommand(e) ==
  /\ claim[e].phase = "claimed"
  /\ claim[e].step \in CommandSteps
  /\ commanded' = commanded \cup {claim[e].step}
  /\ claim' = [claim EXCEPT ![e].phase = "commanded"]
  /\ UNCHANGED <<step, run, executed>>

\* Complete the step, if the lease is still held, and move its run.
Complete(e) ==
  /\ Holds(e)
  /\ LET st == claim[e].step
         r == RunOf[st]
     IN  /\ st \in CommandSteps => claim[e].phase = "commanded"
         /\ CanMove(st, run[r])
         /\ run' = [run EXCEPT ![r] = ToState[st]]
         /\ executed' = executed \cup
              {[step |-> st, attempt |-> claim[e].attempt]}
         /\ step' = [step EXCEPT ![st] =
              [@ EXCEPT !.state = "done", !.owner = NoOwner,
                        !.lease = "none", !.waiting = FALSE]]
  /\ claim' = [claim EXCEPT ![e] = NoClaim]
  /\ UNCHANGED commanded

\* Mutant: failWorkflowStep without its where clause on the lease.
FailMutant(e) ==
  /\ claim[e] # NoClaim
  /\ step' = [step EXCEPT ![claim[e].step] =
       [@ EXCEPT !.state = "failed", !.owner = NoOwner, !.lease = "none",
                 !.waiting = claim[e].attempt < MaxAttempts]]
  /\ claim' = [claim EXCEPT ![e] = NoClaim]
  /\ UNCHANGED <<run, executed, commanded>>

\* The command or the completion threw: mark the step failed, to be retried
\* after a pause if it has attempts left. A lost lease is left alone.
Fail(e) ==
  /\ claim[e] # NoClaim
  /\ step' = IF Holds(e)
             THEN [step EXCEPT ![claim[e].step] =
                    [@ EXCEPT !.state = "failed", !.owner = NoOwner,
                              !.lease = "none",
                              !.waiting = claim[e].attempt < MaxAttempts]]
             ELSE step
  /\ claim' = [claim EXCEPT ![e] = NoClaim]
  /\ UNCHANGED <<run, executed, commanded>>

\* The executor's process dies; a command it had sent may still take effect.
Crash(e) ==
  /\ claim[e] # NoClaim
  /\ \/ UNCHANGED commanded
     \/ /\ claim[e].phase = "claimed"
        /\ claim[e].step \in CommandSteps
        /\ commanded' = commanded \cup {claim[e].step}
  /\ claim' = [claim EXCEPT ![e] = NoClaim]
  /\ UNCHANGED <<step, run, executed>>

\* leasedUntil passes.
LeaseExpires(st) ==
  /\ step[st].lease = "live"
  /\ step' = [step EXCEPT ![st].lease = "expired"]
  /\ UNCHANGED <<run, executed, commanded, claim>>

\* dueAt or nextAttemptAt passes.
WaitEnds(st) ==
  /\ step[st].waiting
  /\ step' = [step EXCEPT ![st].waiting = FALSE]
  /\ UNCHANGED <<run, executed, commanded, claim>>

-----------------------------------------------------------------------------
\* The steps the workers queued: the first attempt, due now or later.
StepInit ==
  /\ step \in [Steps ->
       [state : {"queued"}, attempt : {1}, owner : {NoOwner},
        lease : {"none"}, waiting : BOOLEAN]]
  /\ run \in [Runs -> States]
  /\ executed = {}
  /\ commanded = {}
  /\ claim = [e \in Executors |-> NoClaim]

StepNext ==
  \/ \E e \in Executors, st \in Steps : Claim(e, st)
  \/ \E e \in Executors : RunCommand(e)
  \/ \E e \in Executors : Complete(e)
  \/ \E e \in Executors : Fail(e)
  \/ \E e \in Executors : Crash(e)
  \/ \E st \in Steps : LeaseExpires(st)
  \/ \E st \in Steps : WaitEnds(st)

StepSpec == StepInit /\ [][StepNext]_stepVars

\* The scheduler keeps calling steps.execute, an executor that does not die
\* finishes what it claimed, and time passes.
StepFairness ==
  /\ \A st \in Steps :
       /\ WF_stepVars(\E e \in Executors : Claim(e, st))
       /\ WF_stepVars(LeaseExpires(st))
       /\ WF_stepVars(WaitEnds(st))
  /\ \A e \in Executors :
       WF_stepVars(RunCommand(e) \/ Complete(e) \/ Fail(e))

FairStepSpec == StepSpec /\ StepFairness

-----------------------------------------------------------------------------
(* Properties                                                              *)

\* Of all executors, stale ones included, at most one can still complete or
\* fail a step. Executors share a lease owner's name by default, so it is
\* the attempt that tells a stale claim from the present one.
OneHolder ==
  \A e, f \in Executors :
    Holds(e) /\ Holds(f) /\ claim[e].step = claim[f].step => e = f

\* A step is executed at most once, over all its attempts; it is done
\* exactly when its executed event is there; and a worker_command step is
\* done only after its command took effect.
ExecutedOnce ==
  /\ \A x, y \in executed : x.step = y.step => x = y
  /\ \A st \in Steps :
       /\ (step[st].state = "done") <=> (\E x \in executed : x.step = st)
       /\ step[st].state = "done" /\ st \in CommandSteps => st \in commanded

\* The ledger implements its contract: what runs see is each step taking
\* effect at most once, along the definition.
Contract == INSTANCE WorkflowContract WITH
  state <- run, finished <- {st \in Steps : step[st].state = "done"}
ImplementsContract == Contract!Spec

\* A step never loses an attempt: a retry is always a new one, done is final,
\* and a failed step with no attempt left is never picked up again.
AttemptsOnlyGrow ==
  [][\A st \in Steps :
       /\ step'[st].attempt >= step[st].attempt
       /\ step[st].state = "done" => step'[st] = step[st]
       /\ step[st].state = "failed" /\ step[st].attempt = MaxAttempts =>
            step'[st] = step[st]]_stepVars

\* Every queued step is eventually done, or fails its last attempt, or is
\* left running by an executor that died in its last attempt.
Abandoned(st) ==
  /\ step[st].state = "running" /\ step[st].attempt = MaxAttempts
  /\ \A e \in Executors : ~(Holds(e) /\ claim[e].step = st)
OutOfAttempts(st) == step[st].state = "failed" /\ step[st].attempt = MaxAttempts
StepsSettle ==
  \A st \in Steps :
    step[st].state = "queued" ~>
      step[st].state = "done" \/ OutOfAttempts(st) \/ Abandoned(st)

\* What docs/workflows.md says of the scheduler: expired steps keep moving.
ExpiredStepsMove ==
  \A st \in Steps :
    (step[st].state = "running" /\ step[st].lease = "expired") ~>
      ~(step[st].state = "running" /\ step[st].lease = "expired")
=============================================================================
