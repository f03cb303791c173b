\* Two agents where there is room for one, a console that hears everything or one tenant.
CONSTANTS
  None = None
  AnyTenant = AnyTenant
  Agents = {a1, a2}
  Tenants = {t1, t2}
  Consoles = {w1}
  Scopes = {AnyTenant, t1}
  Roles = {"operator"}
  Rules <- SomeRules
  MaxAgents = 1
  SignalQueue = 1
  EventQueue = 2
  History = 3
  Recent = 2
  MaxEvents = 4
  MaxSignals = 2
SYMMETRY Renamings
SPECIFICATION Spec
INVARIANTS TypeOK OnlyOldestIsLost LedgerIsTrue StatusIsShown
\* The bounds stop it.
CHECK_DEADLOCK FALSE
