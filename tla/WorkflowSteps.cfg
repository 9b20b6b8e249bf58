SPECIFICATION FairStepSpec
CONSTANTS
  Executors = {e1, e2}
  Owners <- MCOwners
  OwnerOf <- MCOwnerOf
  NoOwner = NoOwner
  s1 = s1
  s2 = s2
  s3 = s3
  r1 = r1
  Steps = {s1, s2, s3}
  Runs = {r1}
  RunOf <- MCRunOf
  States <- MCStates
  Transitions <- MCTransitions
  FromState <- MCFromState
  NoState = NoState
  ToState <- MCToState
  CommandSteps <- MCCommands
  MaxAttempts = 2
INVARIANTS StepTypeOK OneHolder ExecutedOnce
PROPERTIES ImplementsContract AttemptsOnlyGrow StepsSettle
CHECK_DEADLOCK FALSE
