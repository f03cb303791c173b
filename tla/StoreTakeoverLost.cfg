\* A takeover is lost with the transaction it fell into.
CONSTANTS
  None = None
  t1 = t1
  t2 = t2
  t3 = t3
  c1 = c1
  c2 = c2
  Ids = {i1}
  Clients = {q1}
  Options = {yes}
  Choices = {yes}
  Channels = {tg}
  Tokens = {}
  Signals = {s1}
  Tasks = {t1, t2}
  Conns = {c1}
  ConnOf <- OneConn
  Ops <- StoreOps
  Faults = {}
SPECIFICATION Spec
INVARIANTS TakeoversArePersisted
