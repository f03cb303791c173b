---------------------------- MODULE ChannelRouter ---------------------------
(***************************************************************************)
(* swarm/routing.py over its rules, a sequence in the order they came.  A  *)
(* rule names one tenant or, with AnyTenant, all: agent type, agent id and *)
(* labels narrow it the same way and are left out.                         *)
(***************************************************************************)
EXTENDS Integers, Sequences

CONSTANT AnyTenant

DefaultRule == [priority |-> -1, tenant |-> AnyTenant, roles |-> {"admin", "operator", "viewer"}]

Matching(rules, meta) == {n \in DOMAIN rules : rules[n].tenant \in {AnyTenant, meta.tenant}}

\* The sort is stable: the first of the highest priority.
Resolve(rules, meta) ==
  LET matching == Matching(rules, meta)
      First(n) == \A m \in matching : \/ rules[m].priority < rules[n].priority
                                      \/ rules[m].priority = rules[n].priority /\ n <= m
  IN  IF matching = {} THEN DefaultRule ELSE rules[CHOOSE n \in matching : First(n)]

Authorized(rules, meta, role) == role \in Resolve(rules, meta).roles

=============================================================================
