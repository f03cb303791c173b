\* A cancel meets a delivery: card and token stay.
CONSTANTS
  None = None
  Ids = {i1}
  Tokens = {k1}
  Callers = {h1}
  Options = {yes}
  Configured <- AllChannels
  Requested <- TelegramFirst
  Faults = {}
  MaxTaps = 1
  MaxCrashes = 0
SPECIFICATION Spec
INVARIANTS CancelTearsDown
