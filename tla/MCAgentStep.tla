---------------------------- MODULE MCAgentStep -----------------------------
(* Small instances of AgentStep for TLC.                                    *)
EXTENDS AgentStep, TLC

\* An authentication word: MEDIUM, and HIGH once "main" has boosted it to 70.
SomeMatches == {{9}}

\* The score and level of the best rule say what the rules say one by one: every
\* set of built-in rules, with every boost up to the one that is enough alone.
ASSUME RiskIsWhatTheRulesSay ==
  \A matched \in SUBSET DOMAIN Rules, boost \in {5 * n : n \in 0..14} :
    RiskIntervenes(matched, boost) <=> Alarming(matched, boost)

\* Which of them is which makes no difference, and no property is about liveness.
Renamings == Permutations(Ids) \cup Permutations(Clients) \cup Permutations(Prints)
=============================================================================
