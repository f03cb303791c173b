\* Without takeovers on the connection: transactions are exclusive and whole.
CONSTANTS
  None = None
  t1 = t1
  t2 = t2
  t3 = t3
  c1 = c1
  c2 = c2
  Ids = {i1}
  Clients = {q1}
  Options = {yes}
  Choices = {yes}
  Channels = {tg}
  Tokens = {k1}
  Signals = {}
  Tasks = {t1, t2}
  Conns = {c1, c2}
  ConnOf <- TwoConns
  Ops <- LockedOps
  Faults = {"crash", "error"}
SPECIFICATION Spec
INVARIANTS ExclusiveTransaction
PROPERTIES SettlingRevokes
