\* The daemon crashes once; sends and revocations fail or lose their reply.
CONSTANTS
  None = None
  Ids = {i1}
  Tokens = {k1, k2}
  Callers = {h1}
  Options = {yes}
  Configured <- AllChannels
  Requested <- TelegramFirst
  Faults = {"crash", "send", "revoke"}
  MaxTaps = 1
  MaxCrashes = 1
SPECIFICATION Spec
INVARIANTS OneDelivery StillAnswerable
PROPERTIES ImplementsIntervention
