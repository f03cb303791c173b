\* Two connections, and takeovers that end a transaction half way: the lost race.
CONSTANTS
  None = None
  t1 = t1
  t2 = t2
  t3 = t3
  c1 = c1
  c2 = c2
  Ids = {i1}
  Clients = {q1}
  Options = {yes}
  Choices = {yes}
  Channels = {tg}
  Tokens = {}
  Signals = {s1}
  Tasks = {t1, t2, t3}
  Conns = {c1, c2}
  ConnOf <- TwoConns
  Ops <- LostRaceOps
  Faults = {}
SPECIFICATION FairSpec
INVARIANTS SingleWinner OutcomeSurvives
PROPERTIES CallsReturn
