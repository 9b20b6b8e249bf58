-------------------------- MODULE WorkflowContract --------------------------
(***************************************************************************)
(* What the workflow step ledger promises, whoever executes a step and     *)
(* however often: a step takes effect at most once, and what it does to    *)
(* its run is one transition of the run's workflow definition.             *)
(***************************************************************************)
CONSTANTS
  Steps,        \* workflow_steps rows
  Runs,         \* workflow_runs rows
  RunOf,        \* the run of each step
  States,       \* states of the workflow definition
  Transitions,  \* its transitions, pairs of states
  FromState,    \* the state a step expects its run in
  NoState,      \* the step expects none
  ToState       \* the state it moves its run to

VARIABLES
  state,        \* the state of each run
  finished      \* the steps that took effect

\* A step in state s of its run may take effect.
Fits(st, s) ==
  \/ s = ToState[st]
  \/ /\ FromState[st] \in {NoState, s}
     /\ <<s, ToState[st]>> \in Transitions

Init ==
  /\ state \in [Runs -> States]
  /\ finished = {}

Finish(st) ==
  /\ st \notin finished
  /\ Fits(st, state[RunOf[st]])
  /\ state' = [state EXCEPT ![RunOf[st]] = ToState[st]]
  /\ finished' = finished \cup {st}

Spec == Init /\ [][\E st \in Steps : Finish(st)]_<<state, finished>>
=============================================================================
