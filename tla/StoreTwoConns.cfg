\* Two processes on one file, every operation, crashes and failing statements.
CONSTANTS
  None = None
  t1 = t1
  t2 = t2
  t3 = t3
  c1 = c1
  c2 = c2
  Ids = {i1}
  Clients = {q1}
  Options = {yes}
  Choices = {yes, bogus}
  Channels = {tg}
  Tokens = {k1}
  Signals = {s1}
  Tasks = {t1, t2}
  Conns = {c1, c2}
  ConnOf <- TwoConns
  Ops <- StoreOps
  Faults = {"crash", "error"}
SPECIFICATION Spec
INVARIANTS TypeOK TransactionUnderLock ToldIsCommitted CreateIsDurable AskedSomewhere
PROPERTIES ImplementsIntervention
