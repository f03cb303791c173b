\* Fair scheduling, one crash: questions are asked, taps handled, tasks end.
CONSTANTS
  None = None
  Ids = {i1}
  Tokens = {k1, k2}
  Callers = {h1}
  Options = {yes}
  Configured <- AllChannels
  Requested <- TelegramFirst
  Faults = {"crash"}
  MaxTaps = 1
  MaxCrashes = 1
SPECIFICATION FairSpec
PROPERTIES Asked TapsAreHandled SettledBecomesQuiet
