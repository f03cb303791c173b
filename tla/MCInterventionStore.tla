------------------------ MODULE MCInterventionStore ------------------------
(* Small instances of InterventionStore for TLC.                            *)
EXTENDS InterventionStore

CONSTANTS t1, t2, t3, c1, c2

\* Every task uses the one store of the process.
OneConn == [t \in Tasks |-> c1]

\* t1 uses the first connection, the others the second.
TwoConns == [t \in Tasks |-> IF t = t1 THEN c1 ELSE c2]

StoreOps == AllOps \ {"get"}

LockedOps == StoreOps \ {"takeover"}

\* Enough operations for a compare-and-set to lose its race: a takeover on its
\* connection ends its transaction and the other connection writes the row.
LostRaceOps == {"create", "await", "timeout", "takeover", "get"}
=============================================================================
