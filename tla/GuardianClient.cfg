\* One call of any kind, over a WebSocket or by polling, with a prompt on stdin, every
\* fault, and whoever else may answer.
CONSTANTS
  None = None
  Ids = {i1}
  Clients = {c1}
  Options = {yes, no}
  Subscribers = {c1}
  QueueSize = 2
  Faults = {"create", "socket", "get", "cancel", "abort", "skew", "restart"}
  Kinds = {"ask", "sync", "guard"}
  Sockets = {c1}
  Prompts = {c1}
  Deny = {no}
SPECIFICATION FairClientSpec
INVARIANTS ClientTypeOK ToldTheOutcome NoDeafHandler LeavesNoQuestion
PROPERTIES CallsEnd
\* The call has ended.
CHECK_DEADLOCK FALSE
