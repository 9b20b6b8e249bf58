SPECIFICATION ApprovalSpec
CONSTANTS
  Executors = {}
  Owners <- MCOwners
  OwnerOf <- MCOwnerOf
  NoOwner = NoOwner
  ask = ask
  r1 = r1
  t1 = t1
  Steps = {}
  Runs = {}
  RunOf <- MCRunOf
  States <- MCStates
  Transitions <- MCTransitions
  FromState <- MCFromState
  NoState = NoState
  ToState <- MCToState
  CommandSteps = {}
  MaxAttempts = 1
  Sessions = {s1, s2}
  Keys = {k1, k2}
  ApprovalIds = {a1, a2}
  TaskIds = {t1}
  NoTask = NoTask
  NoRun = NoRun
  ApprovalSteps = {}
  TaskOf <- MCTaskOf
  AskingStates <- MCAsking
  StartState = "draft"
  TaskTargets = {"done"}
PROPERTY TerminalTasksStay
CHECK_DEADLOCK FALSE
