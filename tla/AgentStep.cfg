\* One agent, two questions, a window longer than the repeat threshold, a stack of
\* two for three checkpoints, a threshold on either side of the one confidence.
CONSTANTS
  None = None
  Ids = {i1, i2}
  Clients = {q1, q2}
  Options = {approve, deny}
  Deny = {deny}
  NoError = NoError
  NoText = NoText
  Errors = {NoError, NoText, broken}
  Prints = {click, scroll}
  Window = 3
  Threshold = 2
  Rules <- DefaultRules
  InterveneThreshold = 70
  RiskInputs <- SomeMatches
  Boosts = {5}
  Confidences = {54}
  BaseThreshold = 55
  MinThreshold = 54
  MaxThreshold = 55
  MaxLen = 2
  MaxSteps = 2
  MaxCheckpoints = 3
SYMMETRY Renamings
SPECIFICATION AgentSpec
INVARIANTS VersionTellsThePath DecisionIffResolved OnePerClient
           AgentTypeOK RunsOnlyApproved LoopIsCaught RollbackIsTrue
PROPERTIES Final
