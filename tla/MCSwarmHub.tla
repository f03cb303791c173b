----------------------------- MODULE MCSwarmHub -----------------------------
(* Small instances of SwarmHub for TLC.                                     *)
EXTENDS SwarmHub, TLC

\* Operators everywhere, but one tenant is reserved to admins.
SomeRules ==
  << [priority |-> 0, tenant |-> AnyTenant, roles |-> {"operator"}],
     [priority |-> 1, tenant |-> CHOOSE t \in Tenants : t \in Scopes, roles |-> {"admin"}] >>

\* Which agent is which makes no difference, and no property is about liveness.
Renamings == Permutations(Agents)
=============================================================================
