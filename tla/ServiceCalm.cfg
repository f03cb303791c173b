\* One incarnation of the daemon, sends and revocations that all succeed; a
\* snapshot may not be stored.
CONSTANTS
  None = None
  Ids = {i1}
  Tokens = {k1}
  Callers = {h1, h2}
  Options = {yes, no}
  Configured <- AllChannels
  Requested <- TelegramFirst
  Faults = {"snapshot"}
  MaxTaps = 2
  MaxCrashes = 0
SPECIFICATION Spec
INVARIANTS TypeOK AnsweredIsTornDown OutcomeIsBroadcast BroadcastIsTrue
PROPERTIES BroadcastIsFinal LateDecisionNeverWins
