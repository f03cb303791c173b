--------------------------- MODULE RiskEvaluator ----------------------------
(***************************************************************************)
(* smart/risk_evaluator.py once the regular expressions have matched: the  *)
(* rules it is constructed with, the built-in ones for instance, and the   *)
(* score and level of a set of them.  Scores are in hundredths.            *)
(***************************************************************************)
EXTENDS Naturals, Sequences

CONSTANTS
  Rules,              \* rules, in the order they are tried
  InterveneThreshold  \* intervene_threshold, 70 by default

Low == 1
Medium == 2
High == 3
Critical == 4

ASSUME RulesAssumption ==
  /\ Rules \in Seq([score : 0..100, level : Low..Critical])
  /\ InterveneThreshold \in Nat

Rule(score, level) == [score |-> score, level |-> level]

\* rm -rf, dd, mkfs, drop, truncate, delete, pay, submit, auth change, force
\* push, chmod 777, in the order they are tried.
DefaultRules ==
  << Rule(95, Critical), Rule(98, Critical), Rule(90, Critical), Rule(92, Critical),
     Rule(85, High), Rule(80, High), Rule(78, High), Rule(72, High), Rule(65, Medium),
     Rule(75, High), Rule(70, High) >>

LevelForScore(score) ==
  CASE score >= 90 -> Critical
    [] score \in 70..89 -> High
    [] score \in 40..69 -> Medium
    [] OTHER -> Low

\* Only a score above 0 replaces the one the search starts from.
Scoring(matched) == {n \in matched : Rules[n].score > 0}

\* The first of them with the highest score.
BestRule(matched) ==
  CHOOSE n \in Scoring(matched) :
    \A m \in Scoring(matched) : \/ Rules[m].score < Rules[n].score
                                \/ Rules[m].score = Rules[n].score /\ n <= m

Best(matched) ==
  IF Scoring(matched) = {} THEN Rule(0, Low) ELSE Rules[BestRule(matched)]

Score(matched, boost) ==
  LET score == Best(matched).score + boost IN IF score > 100 THEN 100 ELSE score

Level(matched, boost) ==
  LET ofScore == LevelForScore(Score(matched, boost))
      ofRule == Best(matched).level
  IN  IF ofRule > ofScore THEN ofRule ELSE ofScore

RiskIntervenes(matched, boost) ==
  Score(matched, boost) >= InterveneThreshold \/ Level(matched, boost) >= High

=============================================================================
