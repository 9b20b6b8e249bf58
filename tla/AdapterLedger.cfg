SPECIFICATION FairAdapterSpec
CONSTANTS
  Drains = {d1, d2}
  Intents = {i1}
  ExternalKeys = {x1, x2, x3}
  ExternalStates = {"failed", "queued", "done"}
  MaxAttempts = 3
  Payloads <- MCPayloads
  Limit = 1
INVARIANTS AdapterTypeOK AttemptsInOrder FollowupsMatchRows FlowIsEarned
PROPERTIES VerdictsAreFinal RetriesRunWhenDue QueueDrains
CHECK_DEADLOCK FALSE
