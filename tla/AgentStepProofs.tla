--------------------------- MODULE AgentStepProofs ---------------------------
(***************************************************************************)
(* AgentStep for any number of questions, any window, any stack: the agent *)
(* drives the interventions only as Intervention allows, runs nothing that *)
(* loops, alarms or is uncertain unasked, sees every loop its window can   *)
(* show and rolls back to the checkpoint it says.                          *)
(***************************************************************************)
EXTENDS AgentStep, InterventionProofs, SequenceTheorems, WellFoundedInduction

-----------------------------------------------------------------------------
(* The risk evaluator.                                                     *)

\* A set of numbers that is not empty has a least one.
LEMMA LeastNumber ==
  ASSUME NEW T \in SUBSET Nat, T # {}
  PROVE  \E least \in T : \A y \in T : least <= y
<1>1. \E x \in T : \A y \in T : <<y, x>> \notin OpToRel(<, Nat)
  BY NatLessThanWellFounded, WFMin
<1>2. PICK x \in T : \A y \in T : <<y, x>> \notin OpToRel(<, Nat)
  BY <1>1
<1>3. ASSUME NEW y \in T PROVE x <= y
  <2>1. x \in Nat /\ y \in Nat
    OBVIOUS
  <2>2. ~(y < x)
    <3>1. y < x => <<y, x>> \in OpToRel(<, Nat)
      BY <2>1 DEF OpToRel
    <3> QED
      BY <1>2, <3>1
  <2> QED
    BY <2>1, <2>2
<1> QED
  BY <1>3

\* The rules are numbered, and so are their scores and levels.
LEMMA RulesAre ==
  /\ DOMAIN Rules \in SUBSET Nat
  /\ \A n \in DOMAIN Rules : Rules[n].score \in 0..100 /\ Rules[n].level \in Low..Critical
  /\ InterveneThreshold \in Nat
<1>1. \A n \in 1..Len(Rules) : Rules[n] \in [score : 0..100, level : Low..Critical]
  BY RulesAssumption, ElementOfSeq
<1>2. DOMAIN Rules = 1..Len(Rules) /\ Len(Rules) \in Nat
  BY RulesAssumption, LenProperties
<1> QED
  BY <1>1, <1>2, RulesAssumption

\* The rule evaluate chooses is one of those that matched, and none of them has a
\* higher score.
LEMMA BestIsBest ==
  ASSUME NEW matched \in SUBSET DOMAIN Rules, Scoring(matched) # {}
  PROVE  /\ BestRule(matched) \in Scoring(matched)
         /\ \A m \in Scoring(matched) : Rules[m].score <= Rules[BestRule(matched)].score
<1> DEFINE S == Scoring(matched)
           Beats(n, m) == \/ Rules[m].score < Rules[n].score
                          \/ Rules[m].score = Rules[n].score /\ n <= m
<1>1. /\ S \in SUBSET Nat /\ S # {}
      /\ \A n \in S : Rules[n].score \in 0..100
  BY RulesAre DEF Scoring
<1>2. BestRule(matched) = CHOOSE n \in S : \A m \in S : Beats(n, m)
  BY DEF BestRule
<1> HIDE DEF S
<1>3. PICK top \in S : \A m \in S : Rules[m].score <= Rules[top].score
  <2> DEFINE short == {100 - Rules[n].score : n \in S}
  <2>1. short \in SUBSET Nat /\ short # {}
    <3>1. \A k \in 0..100 : 100 - k \in Nat
      OBVIOUS
    <3>2. \A n \in S : 100 - Rules[n].score \in Nat
      BY <1>1, <3>1
    <3> QED
      BY <1>1, <3>2
  <2>2. PICK least \in short : \A y \in short : least <= y
    BY <2>1, LeastNumber
  <2>3. PICK top \in S : least = 100 - Rules[top].score
    BY <2>2
  <2>4. ASSUME NEW m \in S PROVE Rules[m].score <= Rules[top].score
    <3>1. 100 - Rules[top].score <= 100 - Rules[m].score
      BY <2>2, <2>3
    <3>2. Rules[m].score \in 0..100 /\ Rules[top].score \in 0..100
      BY <1>1
    <3>3. \A a, b \in 0..100 : 100 - a <= 100 - b => b <= a
      OBVIOUS
    <3> QED
      BY <3>1, <3>2, <3>3
  <2> QED
    BY <2>4
<1>4. PICK first \in S : \A m \in S : Beats(first, m)
  <2> DEFINE tops == {n \in S : Rules[n].score = Rules[top].score}
  <2>1. tops \in SUBSET Nat /\ tops # {}
    BY <1>1
  <2>2. PICK first \in tops : \A y \in tops : first <= y
    BY <2>1, LeastNumber
  <2>3. ASSUME NEW m \in S PROVE Beats(first, m)
    <3>1. CASE m \in tops
      BY <2>2, <3>1
    <3>2. CASE m \notin tops
      <4>1. Rules[m].score <= Rules[top].score /\ Rules[m].score # Rules[top].score
        BY <1>3, <3>2
      <4>2. Rules[m].score \in 0..100 /\ Rules[top].score \in 0..100
        BY <1>1
      <4>3. \A a, b \in 0..100 : a <= b /\ a # b => a < b
        OBVIOUS
      <4>4. Rules[m].score < Rules[top].score /\ Rules[first].score = Rules[top].score
        BY <2>2, <4>1, <4>2, <4>3
      <4> QED
        BY <4>4
    <3> QED
      BY <3>1, <3>2
  <2> QED
    BY <2>2, <2>3
<1>5. BestRule(matched) \in S /\ \A m \in S : Beats(BestRule(matched), m)
  BY <1>2, <1>4
<1>6. ASSUME NEW m \in S PROVE Rules[m].score <= Rules[BestRule(matched)].score
  <2>1. Rules[m].score \in 0..100 /\ Rules[BestRule(matched)].score \in 0..100
    BY <1>1, <1>5
  <2>2. \/ Rules[m].score < Rules[BestRule(matched)].score
        \/ Rules[m].score = Rules[BestRule(matched)].score
    BY <1>5
  <2>3. \A a, b \in 0..100 : a < b \/ a = b => a <= b
    OBVIOUS
  <2> QED
    BY <2>1, <2>2, <2>3
<1> QED
  BY <1>5, <1>6 DEF S

\* The score of the best rule is at least that of any that matched.
LEMMA BestCovers ==
  ASSUME NEW matched \in SUBSET DOMAIN Rules
  PROVE  /\ Best(matched).score \in 0..100
         /\ \A n \in matched : Rules[n].score <= Best(matched).score
<1>1. \A n \in matched : Rules[n].score \in 0..100
  BY RulesAre
<1>2. CASE Scoring(matched) = {}
  <2>1. Best(matched).score = 0
    BY <1>2 DEF Best, Rule
  <2>2. \A n \in matched : ~(Rules[n].score > 0)
    BY <1>2 DEF Scoring
  <2> QED
    BY <1>1, <2>1, <2>2
<1>3. CASE Scoring(matched) # {}
  <2>1. Best(matched) = Rules[BestRule(matched)] /\ BestRule(matched) \in matched
    BY <1>3, BestIsBest DEF Best, Scoring
  <2>2. ASSUME NEW n \in matched PROVE Rules[n].score <= Best(matched).score
    <3>1. CASE n \in Scoring(matched)
      BY <1>3, <2>1, <3>1, BestIsBest
    <3>2. CASE n \notin Scoring(matched)
      <4>1. ~(Rules[n].score > 0)
        BY <3>2 DEF Scoring
      <4> QED
        BY <1>1, <2>1, <4>1
    <3> QED
      BY <3>1, <3>2
  <2> QED
    BY <1>1, <2>1, <2>2
<1> QED
  BY <1>2, <1>3

\* Its level is a level.
LEMMA BestLevel ==
  ASSUME NEW matched \in SUBSET DOMAIN Rules
  PROVE  Best(matched).level \in Low..Critical
<1>1. CASE Scoring(matched) = {}
  BY <1>1 DEF Best, Rule, Low, Critical
<1>2. CASE Scoring(matched) # {}
  <2>1. Best(matched) = Rules[BestRule(matched)] /\ BestRule(matched) \in DOMAIN Rules
    BY <1>2, BestIsBest DEF Best, Scoring
  <2> QED
    BY <2>1, RulesAre
<1> QED
  BY <1>1, <1>2

\* "When score >= intervene_threshold": a score that comes to so much, or to 70,
\* makes the evaluator intervene, even where it is cut at 100 and the threshold
\* is above.
LEMMA ScoreIntervenes ==
  ASSUME NEW matched \in SUBSET DOMAIN Rules, NEW boost \in Nat,
         \/ Best(matched).score + boost >= InterveneThreshold
         \/ Best(matched).score + boost >= 70
  PROVE  RiskIntervenes(matched, boost)
<1> DEFINE best == Best(matched).score
           score == Score(matched, boost)
<1>1. best \in 0..100 /\ InterveneThreshold \in Nat
  BY BestCovers, RulesAre
<1>2. score = IF best + boost > 100 THEN 100 ELSE best + boost
  BY DEF Score
<1> HIDE DEF best, score
<1>3. score \in 0..100
  BY <1>1, <1>2
<1>4. score >= InterveneThreshold \/ score >= 70
  <2>1. best + boost >= InterveneThreshold \/ best + boost >= 70
    BY DEF best
  <2> QED
    BY <1>1, <1>2, <2>1
<1>5. CASE score >= InterveneThreshold
  BY <1>5 DEF RiskIntervenes, score
<1>6. CASE score >= 70
  <2> DEFINE ofScore == LevelForScore(score)
             ofRule == Best(matched).level
  <2>1. ofScore \in {High, Critical}
    BY <1>3, <1>6 DEF LevelForScore
  <2>2. Level(matched, boost) = IF ofRule > ofScore THEN ofRule ELSE ofScore
    BY DEF Level, score
  <2>3. ofRule \in Nat
    BY BestLevel DEF Low, Critical
  <2> HIDE DEF ofScore, ofRule
  <2>4. Level(matched, boost) >= High
    BY <2>1, <2>2, <2>3 DEF High, Critical
  <2> QED
    BY <2>4 DEF RiskIntervenes
<1> QED
  BY <1>4, <1>5, <1>6

\* Rules whose level says what their score says, as the built-in ones do: one of
\* level HIGH and a low score is hidden by any that scores more.
RulesAgree == \A n \in DOMAIN Rules : Rules[n].level >= High => Rules[n].score >= 70

\* What Alarming is told of rule by rule the evaluator sees in their best.
LEMMA AlarmIntervenes ==
  ASSUME RulesAgree, NEW matched \in RiskInputs \cup {None}, NEW boost \in Boosts,
         Alarming(matched, boost)
  PROVE  matched # None /\ RiskIntervenes(matched, boost)
<1>1. matched # None /\ matched \in SUBSET DOMAIN Rules /\ boost \in Nat
  BY AgentAssumption DEF Alarming
<1>2. Best(matched).score \in 0..100 /\ InterveneThreshold \in Nat
  BY <1>1, BestCovers, RulesAre
<1>3. CASE boost >= InterveneThreshold
  <2>1. Best(matched).score + boost >= InterveneThreshold
    BY <1>1, <1>2, <1>3
  <2> QED
    BY <1>1, <2>1, ScoreIntervenes
<1>4. ASSUME NEW n \in matched,
             Rules[n].score + boost >= InterveneThreshold \/ Rules[n].level >= High
      PROVE  RiskIntervenes(matched, boost)
  <2>1. Rules[n].score \in 0..100 /\ Rules[n].score <= Best(matched).score
    BY <1>1, BestCovers, RulesAre
  <2>2. Rules[n].level >= High => Rules[n].score >= 70
    BY <1>1 DEF RulesAgree
  <2>3. Rules[n].score + boost >= InterveneThreshold \/ Rules[n].score >= 70
    BY <1>4, <2>2
  <2>4. \/ Best(matched).score + boost >= InterveneThreshold
        \/ Best(matched).score + boost >= 70
    BY <1>1, <1>2, <2>1, <2>3
  <2> QED
    BY <1>1, <2>4, ScoreIntervenes
<1> QED
  BY <1>1, <1>3, <1>4 DEF Alarming

-----------------------------------------------------------------------------
(* The agent and the rows of its questions.                                *)

\* Everything an agent does to a row is a create or a transition.
LEMMA StepImplements == AgentNext => [Next]_record
<1> SUFFICES ASSUME AgentNext PROVE [Next]_record
  OBVIOUS
<1>1. CASE Question
  BY <1>1 DEF Question, Next
<1>2. CASE DaemonMoves
  <2>1. PICK i \in Ids, option \in Options \cup {None} :
          \E target \in Allowed(record[i].status) : Transition(i, target, option)
    BY <1>2 DEF DaemonMoves
  <2>2. Allowed(record[i].status) \subseteq Statuses
    BY DEF Allowed, Statuses, OpenStatuses, TerminalStatuses
  <2> QED
    BY <2>1, <2>2 DEF Next
<1>3. CASE \/ TakeCheckpoint \/ Tool \/ Proceed \/ Denied \/ Raises \/ Feedback
           \/ \E print \in Prints, error \in Errors, matched \in RiskInputs \cup {None},
                 boost \in Boosts, confidence \in Confidences \cup {None} :
                Step([print |-> print, error |-> error], matched, boost, confidence)
  BY <1>3 DEF TakeCheckpoint, Tool, Proceed, Denied, Raises, Feedback, Step
<1> QED
  BY <1>1, <1>2, <1>3 DEF AgentNext

\* AgentStep asks its questions of an Intervention and of nothing else.
THEOREM AsksInterventions == AgentSpec => Spec
<1>1. AgentInit => Init
  BY DEF AgentInit
<1>2. [AgentNext]_agentVars => [Next]_record
  BY StepImplements DEF agentVars
<1> QED
  BY <1>1, <1>2, PTL DEF AgentSpec, Spec

\* So its rows keep the invariant of Intervention.
LEMMA RowsInvariance == AgentSpec => []IInv
BY AsksInterventions, Invariance, PTL

\* and those that are settled stay as they are, whatever the agent does.
LEMMA SettledStays ==
  ASSUME IInv, AgentNext \/ UNCHANGED agentVars, NEW i \in Ids, record[i].status = "RESOLVED"
  PROVE  record'[i] = record[i]
<1>1. [Next]_record
  BY StepImplements DEF agentVars
<1>2. CASE Next
  BY <1>2, StepFinal DEF IsTerminal, TerminalStatuses
<1> QED
  BY <1>1, <1>2

Events == [print : Prints, error : Errors]

\* The agent between two awaits: what it waits for, what it knows of its action.
AgentOK ==
  /\ agent \in [pc : {"free", "asking", "waiting"}, flow : {None, "step", "tool"},
                id : Ids \cup {None}]
  /\ agent.pc = "waiting" <=> agent.id # None
  /\ ran \in [warned : BOOLEAN, id : Ids \cup {None}]

\* A question that was not approved lets nothing run: the half of RunsOnlyApproved
\* that is about answers.
OnlyApproved ==
  ran.id # None => record[ran.id].status = "RESOLVED" /\ record[ran.id].decision \notin Deny

ApprovedOK == IInv /\ AgentOK /\ OnlyApproved

\* At first nothing has run.
LEMMA InitApproved == AgentInit => AgentOK /\ OnlyApproved
BY InterventionAssumption DEF AgentInit, AgentOK, OnlyApproved, Free, Nothing

\* What has run stays approved while the agent does not run anything else.
LEMMA StillApproved ==
  ASSUME ApprovedOK, AgentNext \/ UNCHANGED agentVars, UNCHANGED ran
  PROVE  OnlyApproved'
<1>1. CASE ran.id = None
  BY <1>1 DEF ApprovedOK, OnlyApproved
<1>2. CASE ran.id # None
  <2>1. ran.id \in Ids /\ record[ran.id].status = "RESOLVED" /\ record[ran.id].decision \notin Deny
    BY <1>2 DEF ApprovedOK, AgentOK, OnlyApproved
  <2>2. record'[ran.id] = record[ran.id]
    BY <2>1, SettledStays DEF ApprovedOK
  <2> QED
    BY <1>2, <2>1, <2>2 DEF ApprovedOK, OnlyApproved
<1> QED
  BY <1>1, <1>2

\* guard_step asks, leaves it, or runs the step under no question.
LEMMA StepApproved ==
  ASSUME ApprovedOK, NEW event, NEW matched, NEW boost, NEW confidence,
         Step(event, matched, boost, confidence)
  PROVE  AgentOK' /\ OnlyApproved'
<1> DEFINE warned == Looping' \/ Alarming(matched, boost) \/ Uncertain(confidence)
<1>1. warned \in BOOLEAN
  OBVIOUS
<1>2. Ask("step") \/ Skip \/ Run(warned, None)
  BY DEF Step
<1> HIDE DEF warned
<1>3. CASE Ask("step")
  BY <1>1, <1>3, InterventionAssumption DEF Ask, Free, Nothing, AgentOK, OnlyApproved
<1>4. CASE Skip
  BY <1>4, InterventionAssumption DEF Skip, Free, Nothing, AgentOK, OnlyApproved
<1>5. CASE Run(warned, None)
  <2>1. ran' = [warned |-> warned, id |-> None] /\ agent' = Free
    BY <1>5 DEF Run
  <2> QED
    BY <1>1, <2>1, InterventionAssumption DEF Free, AgentOK, OnlyApproved
<1> QED
  BY <1>2, <1>3, <1>4, <1>5

\* A question is waited for under the id create returned.
LEMMA QuestionApproved ==
  ASSUME ApprovedOK, Question
  PROVE  AgentOK'
<1>1. PICK i \in Ids, q \in Clients :
        Create(i, q) /\ agent' = [agent EXCEPT !.pc = "waiting", !.id = i]
  BY DEF Question
<1>2. ran' = ran /\ i # None
  BY InterventionAssumption DEF Question
<1> QED
  BY <1>1, <1>2 DEF ApprovedOK, AgentOK

\* An approved action runs under the question that was approved.
LEMMA ProceedApproved ==
  ASSUME ApprovedOK, Proceed
  PROVE  AgentOK' /\ OnlyApproved'
<1>1. /\ agent.pc = "waiting" /\ agent.id \in Ids /\ agent.id # None
      /\ record[agent.id].status = "RESOLVED"
      /\ record[agent.id].decision \notin Deny
      /\ record' = record
  BY DEF ApprovedOK, AgentOK, Proceed, Approved, Settled, Refused
<1>2. CASE Run(TRUE, agent.id)
  BY <1>1, <1>2, InterventionAssumption DEF Run, Free, AgentOK, OnlyApproved
<1>3. CASE Skip
  BY <1>3, InterventionAssumption DEF Skip, Free, Nothing, AgentOK, OnlyApproved
<1> QED
  BY <1>2, <1>3 DEF Proceed

\* Every step of the agent, one by one.
LEMMA NextApproved == ApprovedOK /\ [AgentNext]_agentVars => AgentOK' /\ OnlyApproved'
<1> SUFFICES ASSUME ApprovedOK, [AgentNext]_agentVars PROVE AgentOK' /\ OnlyApproved'
  OBVIOUS
<1> USE DEF ApprovedOK
<1>1. CASE UNCHANGED agentVars
  BY <1>1, StillApproved DEF agentVars, AgentOK
<1>2. CASE AgentNext /\ (TakeCheckpoint \/ Feedback \/ DaemonMoves)
  BY <1>2, StillApproved DEF TakeCheckpoint, Feedback, DaemonMoves, AgentOK
<1>3. CASE Tool
  BY <1>3, InterventionAssumption DEF Tool, Ask, Free, Nothing, AgentOK, OnlyApproved
<1>4. CASE AgentNext /\ Question
  BY <1>4, QuestionApproved, StillApproved DEF Question
<1>5. CASE Proceed
  BY <1>5, ProceedApproved
<1>6. CASE Denied \/ Raises
  <2>1. agent' = Free /\ ran' = Nothing
    BY <1>6 DEF Denied, Raises, Skip
  <2> QED
    BY <2>1, InterventionAssumption DEF Free, Nothing, AgentOK, OnlyApproved
<1>7. ASSUME NEW print \in Prints, NEW error \in Errors, NEW matched \in RiskInputs \cup {None},
             NEW boost \in Boosts, NEW confidence \in Confidences \cup {None},
             Step([print |-> print, error |-> error], matched, boost, confidence)
      PROVE  AgentOK' /\ OnlyApproved'
  BY <1>7, StepApproved
<1> QED
  BY <1>1, <1>2, <1>3, <1>4, <1>5, <1>6, <1>7 DEF AgentNext

\* Both hold throughout, beside the invariant of the rows.
LEMMA ApprovedInvariance == AgentSpec => [](AgentOK /\ OnlyApproved)
<1>1. IInv /\ (AgentOK /\ OnlyApproved) /\ [AgentNext]_agentVars => (AgentOK /\ OnlyApproved)'
  BY NextApproved DEF ApprovedOK
<1> QED
  BY <1>1, InitApproved, RowsInvariance, PTL DEF AgentSpec

\* Whatever the engine is told and whatever fails: no action runs under a question
\* that was refused, timed out, was cancelled or failed.
THEOREM RefusedNeverRuns == AgentSpec => []OnlyApproved
BY ApprovedInvariance, PTL

-----------------------------------------------------------------------------
(* The loop detector.                                                      *)

\* The window holds events, and no more than it may.
WindowOK == history \in Seq(Events) /\ Len(history) <= Window

\* The event that is j places before the last.
Back(j) == history[Len(history) - j]

\* The last k events are of one action, or of one error.
SamePrints(k) ==
  k <= Len(history) /\ \A j \in 0..(k - 1) : Back(j).print = Back(0).print
SameErrors(k) ==
  /\ k <= Len(history)
  /\ \A j \in 0..(k - 1) : Back(j).error = Back(0).error
  /\ Back(0).error # NoError

\* What the counters count, as far as a window that holds Threshold events shows.
CountsOK ==
  /\ sameAction \in 0..Threshold /\ sameError \in 0..Threshold
  /\ \A k \in 1..Threshold : SamePrints(k) <=> k <= sameAction
  /\ \A k \in 1..Threshold : SameErrors(k) <=> k <= sameError

\* deque.append: what was j places from the end is one further from it.
LEMMA RecordedIs ==
  ASSUME WindowOK, NEW event \in Events, history' = Recorded(history, event)
  PROVE  /\ WindowOK'
         /\ Len(history') \in 1..Window
         /\ Back(0)' = event
         /\ \A k \in Nat \ {0, 1} : k <= Window =>
              (k <= Len(history') <=> k - 1 <= Len(history))
         /\ \A j \in Nat \ {0} : j < Len(history') => Back(j)' = Back(j - 1)
<1>1. Window \in Nat \ {0} /\ Len(history) \in Nat
  BY DetectorAssumption DEF WindowOK
<1>2. CASE Len(history) < Window
  <2>1. history' = Append(history, event)
    BY <1>2 DEF Recorded
  <2> QED
    BY <1>1, <1>2, <2>1 DEF WindowOK, Back
<1>3. CASE Len(history) = Window
  <2>1. history' = Append(Tail(history), event)
    BY <1>1, <1>3 DEF Recorded
  <2>2. /\ Tail(history) \in Seq(Events) /\ Len(Tail(history)) = Window - 1
        /\ \A n \in 1..(Window - 1) : Tail(history)[n] = history[n + 1]
    BY <1>1, <1>3 DEF WindowOK
  <2> QED
    BY <1>1, <1>3, <2>1, <2>2 DEF WindowOK, Back
<1> QED
  BY <1>1, <1>2, <1>3 DEF WindowOK

\* Counting one more: the run reaches k if it had reached k - 1 and goes on.
LEMMA LongerCounts ==
  ASSUME NEW run \in 0..Threshold, NEW same \in BOOLEAN
  PROVE  /\ Longer(run, same) \in 1..Threshold
         /\ \A k \in 1..Threshold : k <= Longer(run, same) <=> k = 1 \/ (same /\ k - 1 <= run)
BY DetectorAssumption DEF Longer

\* The same of what the window shows.
LEMMA PrintsCount ==
  ASSUME WindowOK, Threshold <= Window, NEW event \in Events,
         history' = Recorded(history, event), NEW k \in 1..Threshold
  PROVE  SamePrints(k)' <=> k = 1 \/ ((history # <<>> /\ LastEvent.print = event.print)
                                      /\ SamePrints(k - 1))
<1>1. /\ Len(history') \in 1..Window
      /\ Back(0)' = event
      /\ \A m \in Nat \ {0, 1} : m <= Window => (m <= Len(history') <=> m - 1 <= Len(history))
      /\ \A j \in Nat \ {0} : j < Len(history') => Back(j)' = Back(j - 1)
  BY RecordedIs
<1>2. Window \in Nat /\ Threshold \in Nat /\ Len(history) \in Nat
  BY DetectorAssumption DEF WindowOK
<1>3. CASE k = 1
  BY <1>1, <1>3 DEF SamePrints
<1>4. CASE k # 1
  <2>1. k <= Len(history') <=> k - 1 <= Len(history)
    BY <1>1, <1>2, <1>4
  <2>2. CASE k - 1 > Len(history)
    BY <1>2, <1>4, <2>1, <2>2 DEF SamePrints
  <2>3. CASE k - 1 <= Len(history)
    <3>1. history # <<>> /\ LastEvent = Back(0) /\ k <= Len(history')
      BY <1>2, <1>4, <2>1, <2>3 DEF LastEvent, Back
    <3>2. \A j \in 1..(k - 1) : Back(j)' = Back(j - 1)
      BY <1>1, <1>2, <1>4, <3>1
    <3>3. (\A j \in 0..(k - 1) : Back(j)'.print = event.print)
            <=> \A j \in 0..(k - 2) : Back(j).print = event.print
      <4>1. ASSUME \A j \in 0..(k - 1) : Back(j)'.print = event.print, NEW j \in 0..(k - 2)
            PROVE  Back(j).print = event.print
        <5>1. j + 1 \in 1..(k - 1) /\ (j + 1) - 1 = j /\ j + 1 \in 0..(k - 1)
          BY <1>4
        <5> QED
          BY <3>2, <4>1, <5>1
      <4>2. ASSUME \A j \in 0..(k - 2) : Back(j).print = event.print, NEW j \in 0..(k - 1)
            PROVE  Back(j)'.print = event.print
        <5>1. CASE j = 0
          BY <1>1, <5>1
        <5>2. CASE j # 0
          BY <1>4, <3>2, <4>2, <5>2
        <5> QED
          BY <5>1, <5>2
      <4> QED
        BY <4>1, <4>2
    <3>4. SamePrints(k)' <=> \A j \in 0..(k - 1) : Back(j)'.print = event.print
      BY <1>1, <3>1 DEF SamePrints
    <3>5. (LastEvent.print = event.print /\ SamePrints(k - 1))
            <=> \A j \in 0..(k - 2) : Back(j).print = event.print
      BY <1>2, <1>4, <2>3, <3>1 DEF SamePrints
    <3> QED
      BY <1>4, <3>1, <3>3, <3>4, <3>5
  <2> QED
    BY <1>2, <2>2, <2>3
<1> QED
  BY <1>3, <1>4

\* The same of errors; to meet none counts for nothing.
LEMMA ErrorsCount ==
  ASSUME WindowOK, Threshold <= Window, NEW event \in Events,
         history' = Recorded(history, event), NEW k \in 1..Threshold
  PROVE  SameErrors(k)' <=>
           /\ event.error # NoError
           /\ k = 1 \/ ((history # <<>> /\ LastEvent.error = event.error) /\ SameErrors(k - 1))
<1>1. /\ Len(history') \in 1..Window
      /\ Back(0)' = event
      /\ \A m \in Nat \ {0, 1} : m <= Window => (m <= Len(history') <=> m - 1 <= Len(history))
      /\ \A j \in Nat \ {0} : j < Len(history') => Back(j)' = Back(j - 1)
  BY RecordedIs
<1>2. Window \in Nat /\ Threshold \in Nat /\ Len(history) \in Nat
  BY DetectorAssumption DEF WindowOK
<1>3. CASE k = 1
  BY <1>1, <1>3 DEF SameErrors
<1>4. CASE k # 1
  <2>1. k <= Len(history') <=> k - 1 <= Len(history)
    BY <1>1, <1>2, <1>4
  <2>2. CASE k - 1 > Len(history)
    BY <1>2, <1>4, <2>1, <2>2 DEF SameErrors
  <2>3. CASE k - 1 <= Len(history)
    <3>1. history # <<>> /\ LastEvent = Back(0) /\ k <= Len(history')
      BY <1>2, <1>4, <2>1, <2>3 DEF LastEvent, Back
    <3>2. \A j \in 1..(k - 1) : Back(j)' = Back(j - 1)
      BY <1>1, <1>2, <1>4, <3>1
    <3>3. (\A j \in 0..(k - 1) : Back(j)'.error = event.error)
            <=> \A j \in 0..(k - 2) : Back(j).error = event.error
      <4>1. ASSUME \A j \in 0..(k - 1) : Back(j)'.error = event.error, NEW j \in 0..(k - 2)
            PROVE  Back(j).error = event.error
        <5>1. j + 1 \in 1..(k - 1) /\ (j + 1) - 1 = j /\ j + 1 \in 0..(k - 1)
          BY <1>4
        <5> QED
          BY <3>2, <4>1, <5>1
      <4>2. ASSUME \A j \in 0..(k - 2) : Back(j).error = event.error, NEW j \in 0..(k - 1)
            PROVE  Back(j)'.error = event.error
        <5>1. CASE j = 0
          BY <1>1, <5>1
        <5>2. CASE j # 0
          BY <1>4, <3>2, <4>2, <5>2
        <5> QED
          BY <5>1, <5>2
      <4> QED
        BY <4>1, <4>2
    <3>4. SameErrors(k)' <=> /\ \A j \in 0..(k - 1) : Back(j)'.error = event.error
                             /\ event.error # NoError
      BY <1>1, <3>1 DEF SameErrors
    <3>5. (LastEvent.error = event.error /\ SameErrors(k - 1))
            <=> /\ \A j \in 0..(k - 2) : Back(j).error = event.error
                /\ event.error # NoError
      BY <1>2, <1>4, <2>3, <3>1 DEF SameErrors
    <3> QED
      BY <1>4, <3>1, <3>3, <3>4, <3>5
  <2> QED
    BY <1>2, <2>2, <2>3
<1> QED
  BY <1>3, <1>4

LoopOK == WindowOK /\ CountsOK

\* An empty window, and nothing counted.
LEMMA InitLoop == AgentInit => LoopOK
BY DetectorAssumption DEF AgentInit, LoopOK, WindowOK, CountsOK, SamePrints, SameErrors

\* observe keeps counters and window in step.
LEMMA ObserveLoop ==
  ASSUME LoopOK, Threshold <= Window, NEW event \in Events, Observe(event)
  PROVE  LoopOK'
<1>1. /\ history' = Recorded(history, event)
      /\ sameAction' = Longer(sameAction, history # <<>> /\ LastEvent.print = event.print)
      /\ sameError' = IF event.error = NoError THEN 0
                      ELSE Longer(sameError, history # <<>> /\ LastEvent.error = event.error)
  BY DEF Observe
<1>2. WindowOK'
  BY <1>1, RecordedIs DEF LoopOK
<1>3. /\ sameAction' \in 0..Threshold
      /\ \A k \in 1..Threshold : SamePrints(k)' <=> k <= sameAction'
  <2> DEFINE same == history # <<>> /\ LastEvent.print = event.print
  <2>1. same \in BOOLEAN /\ sameAction \in 0..Threshold
    BY DEF LoopOK, CountsOK
  <2>2. sameAction' = Longer(sameAction, same)
    BY <1>1
  <2>3. /\ sameAction' \in 1..Threshold
        /\ \A k \in 1..Threshold : k <= sameAction' <=> k = 1 \/ (same /\ k - 1 <= sameAction)
    BY <2>1, <2>2, LongerCounts
  <2>4. \A k \in 1..Threshold : k # 1 => (SamePrints(k - 1) <=> k - 1 <= sameAction)
    <3>1. Threshold \in Nat
      BY DetectorAssumption
    <3> QED
      BY <3>1 DEF LoopOK, CountsOK
  <2>5. \A k \in 1..Threshold : SamePrints(k)' <=> k = 1 \/ (same /\ SamePrints(k - 1))
    BY <1>1, PrintsCount DEF LoopOK
  <2> QED
    BY <2>3, <2>4, <2>5
<1>4. /\ sameError' \in 0..Threshold
      /\ \A k \in 1..Threshold : SameErrors(k)' <=> k <= sameError'
  <2> DEFINE same == history # <<>> /\ LastEvent.error = event.error
  <2>1. same \in BOOLEAN /\ sameError \in 0..Threshold /\ Threshold \in Nat
    BY DetectorAssumption DEF LoopOK, CountsOK
  <2>2. \A k \in 1..Threshold : k # 1 => (SameErrors(k - 1) <=> k - 1 <= sameError)
    BY <2>1 DEF LoopOK, CountsOK
  <2>3. \A k \in 1..Threshold : SameErrors(k)' <=>
          event.error # NoError /\ (k = 1 \/ (same /\ SameErrors(k - 1)))
    BY <1>1, ErrorsCount DEF LoopOK
  <2>4. CASE event.error = NoError
    <3>1. sameError' = 0
      BY <1>1, <2>4
    <3> QED
      BY <2>1, <2>3, <2>4, <3>1
  <2>5. CASE event.error # NoError
    <3>1. sameError' = Longer(sameError, same)
      BY <1>1, <2>5
    <3>2. /\ sameError' \in 1..Threshold
          /\ \A k \in 1..Threshold : k <= sameError' <=> k = 1 \/ (same /\ k - 1 <= sameError)
      BY <2>1, <3>1, LongerCounts
    <3> QED
      BY <2>2, <2>3, <2>5, <3>2
  <2> QED
    BY <2>4, <2>5
<1> QED
  BY <1>2, <1>3, <1>4 DEF LoopOK, CountsOK

\* Only guard_step records an event.
LEMMA NextLoop == Threshold <= Window /\ LoopOK /\ [AgentNext]_agentVars => LoopOK'
<1> SUFFICES ASSUME Threshold <= Window, LoopOK, [AgentNext]_agentVars PROVE LoopOK'
  OBVIOUS
<1>1. ASSUME NEW print \in Prints, NEW error \in Errors, NEW matched \in RiskInputs \cup {None},
             NEW boost \in Boosts, NEW confidence \in Confidences \cup {None},
             Step([print |-> print, error |-> error], matched, boost, confidence)
      PROVE  LoopOK'
  <2>1. [print |-> print, error |-> error] \in Events
    BY DEF Events
  <2> QED
    BY <1>1, <2>1, ObserveLoop DEF Step
<1>2. CASE UNCHANGED <<history, sameAction, sameError>>
  BY <1>2 DEF LoopOK, WindowOK, CountsOK, SamePrints, SameErrors, Back
<1> QED
  BY <1>1, <1>2 DEF AgentNext, agentVars, detector, TakeCheckpoint, Tool, Question, Proceed,
                    Denied, Raises, Feedback, DaemonMoves

\* evaluate_recent: the verdict is that of the last Threshold events, but for an
\* error without a text.
LEMMA VerdictIs ==
  ASSUME WindowOK
  PROVE  EvaluateRecent(history) # "ok" <=>
           SamePrints(Threshold) \/ (SameErrors(Threshold) /\ Back(0).error # NoText)
<1> DEFINE recent == Recent(history, Threshold)
<1>1. Threshold \in Nat \ {0, 1} /\ Len(history) \in Nat
  BY DetectorAssumption DEF WindowOK
<1>2. CASE Len(history) < Threshold
  <2>1. recent = history
    BY <1>1, <1>2 DEF Recent
  <2> QED
    BY <1>1, <1>2, <2>1 DEF EvaluateRecent, SamePrints, SameErrors
<1>3. CASE Len(history) >= Threshold
  <2>1. /\ Len(recent) = Threshold
        /\ \A n \in 1..Threshold : recent[n] = Back(Threshold - n)
    <3>1. CASE Threshold >= Len(history)
      BY <1>1, <1>3, <3>1 DEF Recent, Back
    <3>2. CASE Threshold < Len(history)
      BY <1>1, <3>2 DEF WindowOK, Recent, Back
    <3> QED
      BY <1>1, <3>1, <3>2
  <2>2. \A j \in 0..(Threshold - 1) : Back(j) = recent[Threshold - j]
    BY <1>1, <2>1
  <2>3. DOMAIN recent = 1..Threshold
    BY <1>1, <1>3, <2>1 DEF WindowOK, Recent
  <2>4. SameAction(recent) <=> SamePrints(Threshold)
    BY <1>1, <1>3, <2>1, <2>2, <2>3 DEF SameAction, SamePrints
  <2>5. SameError(recent) <=> SameErrors(Threshold) /\ Back(0).error # NoText
    BY <1>1, <1>3, <2>1, <2>2, <2>3 DEF SameError, SameErrors
  <2>6. EvaluateRecent(history) # "ok" <=> SameAction(recent) \/ SameError(recent)
    BY <1>1, <2>1 DEF EvaluateRecent
  <2> QED
    BY <2>4, <2>5, <2>6
<1> QED
  BY <1>1, <1>2, <1>3

\* With any threshold the window can hold, the detector speaks exactly when the
\* last Threshold actions, or their errors, were the same in the whole history,
\* unless what was the same is the empty text.
THEOREM LoopCorrect == Threshold <= Window => (AgentSpec => []LoopIsCaught)
<1> SUFFICES ASSUME Threshold <= Window PROVE AgentSpec => []LoopIsCaught
  OBVIOUS
<1>1. LoopOK => LoopIsCaught
  <2> SUFFICES ASSUME LoopOK PROVE LoopIsCaught
    OBVIOUS
  <2>1. Threshold \in 1..Threshold /\ Threshold \in Nat
    BY DetectorAssumption
  <2>2. SamePrints(Threshold) <=> sameAction >= Threshold
    BY <2>1 DEF LoopOK, CountsOK
  <2>3. SameErrors(Threshold) <=> sameError >= Threshold
    BY <2>1 DEF LoopOK, CountsOK
  <2>4. Back(0) = LastEvent
    BY DEF LoopOK, WindowOK, Back, LastEvent
  <2> QED
    BY <2>2, <2>3, <2>4, VerdictIs DEF LoopOK, LoopIsCaught, Looping
<1>2. LoopOK /\ [AgentNext]_agentVars => LoopOK'
  BY NextLoop
<1> QED
  BY <1>1, <1>2, InitLoop, PTL DEF AgentSpec

\* The docstring promises a signal for "the same error string"; an error that has
\* no text, as str(TimeoutError()), never gives one, however often it is met in a
\* row: only the action can still be a repeated one.
THEOREM SilentErrorIsMissed ==
  Threshold <= Window =>
    (AgentSpec => [](LastEvent.error = NoText /\ sameAction < Threshold
                     => EvaluateRecent(history) = "ok"))
<1> SUFFICES ASSUME Threshold <= Window
             PROVE  AgentSpec => [](LastEvent.error = NoText /\ sameAction < Threshold
                                    => EvaluateRecent(history) = "ok")
  OBVIOUS
<1>1. LoopOK /\ LoopIsCaught =>
        (LastEvent.error = NoText /\ sameAction < Threshold => EvaluateRecent(history) = "ok")
  BY DetectorAssumption DEF LoopIsCaught, Looping, LoopOK, CountsOK
<1>2. LoopOK /\ [AgentNext]_agentVars => LoopOK'
  BY NextLoop
<1> QED
  BY <1>1, <1>2, InitLoop, LoopCorrect, PTL DEF AgentSpec

\* The window holds events and no more than it may, whatever the threshold is.
LEMMA WindowInvariance == AgentSpec => []WindowOK
<1>1. AgentInit => WindowOK
  BY DetectorAssumption DEF AgentInit, WindowOK
<1>2. ASSUME WindowOK, [AgentNext]_agentVars PROVE WindowOK'
  <2>1. ASSUME NEW print \in Prints, NEW error \in Errors, NEW matched \in RiskInputs \cup {None},
               NEW boost \in Boosts, NEW confidence \in Confidences \cup {None},
               Step([print |-> print, error |-> error], matched, boost, confidence)
        PROVE  WindowOK'
    <3>1. [print |-> print, error |-> error] \in Events
      BY DEF Events
    <3>2. history' = Recorded(history, [print |-> print, error |-> error])
      BY <2>1 DEF Step, Observe
    <3> QED
      BY <1>2, <3>1, <3>2, RecordedIs
  <2>2. CASE UNCHANGED history
    BY <1>2, <2>2 DEF WindowOK
  <2> QED
    BY <1>2, <2>1, <2>2 DEF AgentNext, agentVars, detector, TakeCheckpoint, Tool, Question,
                            Proceed, Denied, Raises, Feedback, DaemonMoves
<1> QED
  BY <1>1, <1>2, PTL DEF AgentSpec

\* The constructor takes any pair of numbers, and with a repeat_threshold above
\* window_size it never speaks: evaluate_recent is handed fewer events than it
\* wants, for ever and without a word.
THEOREM DetectorIsBlind == Threshold > Window => (AgentSpec => [](EvaluateRecent(history) = "ok"))
<1> SUFFICES ASSUME Threshold > Window
             PROVE  AgentSpec => [](EvaluateRecent(history) = "ok")
  OBVIOUS
<1>1. WindowOK => EvaluateRecent(history) = "ok"
  BY DetectorAssumption DEF WindowOK, EvaluateRecent, Recent
<1> QED
  BY <1>1, WindowInvariance, PTL

-----------------------------------------------------------------------------
(* What runs unasked.                                                      *)

\* Nothing to warn of runs without a question.
WarnedIsAsked == ran.warned => ran.id # None

\* A step the engine lets pass has nothing to warn of.
LEMMA StepWarned ==
  ASSUME RulesAgree, LoopIsCaught', NEW event,
         NEW matched \in RiskInputs \cup {None}, NEW boost \in Boosts, NEW confidence,
         Step(event, matched, boost, confidence)
  PROVE  WarnedIsAsked'
<1> DEFINE warned == Looping' \/ Alarming(matched, boost) \/ Uncertain(confidence)
<1>1. \/ Ask("step") \/ Skip
      \/ ~Intervenes(history', matched, boost, confidence) /\ Run(warned, None)
  BY DEF Step
<1>2. CASE Ask("step") \/ Skip
  BY <1>2 DEF Ask, Skip, Nothing, WarnedIsAsked
<1>3. CASE ~Intervenes(history', matched, boost, confidence) /\ Run(warned, None)
  <2>1. ~Looping'
    BY <1>3 DEF Intervenes, LoopIsCaught
  <2>2. ~Alarming(matched, boost)
    BY <1>3, AlarmIntervenes DEF Intervenes
  <2>3. ~Uncertain(confidence)
    BY <1>3 DEF Intervenes
  <2>4. warned = FALSE
    BY <2>1, <2>2, <2>3
  <2> HIDE DEF warned
  <2>5. ran' = [warned |-> FALSE, id |-> None]
    BY <1>3, <2>4 DEF Run
  <2> QED
    BY <2>5 DEF WarnedIsAsked
<1> QED
  BY <1>1, <1>2, <1>3

\* Nothing else runs anything unasked.
LEMMA NextWarned ==
  ASSUME RulesAgree, LoopIsCaught', AgentOK, WarnedIsAsked, [AgentNext]_agentVars
  PROVE  WarnedIsAsked'
<1>1. CASE UNCHANGED ran
  BY <1>1 DEF WarnedIsAsked
<1>2. CASE Proceed
  <2>1. agent.id # None
    BY <1>2 DEF Proceed, Approved, Settled, AgentOK
  <2> QED
    BY <1>2, <2>1 DEF Proceed, Run, Skip, Nothing, WarnedIsAsked
<1>3. CASE Tool \/ Denied \/ Raises
  BY <1>3 DEF Tool, Denied, Raises, Ask, Skip, Nothing, WarnedIsAsked
<1>4. ASSUME NEW print \in Prints, NEW error \in Errors, NEW matched \in RiskInputs \cup {None},
             NEW boost \in Boosts, NEW confidence \in Confidences \cup {None},
             Step([print |-> print, error |-> error], matched, boost, confidence)
      PROVE  WarnedIsAsked'
  BY <1>4, StepWarned
<1> QED
  BY <1>1, <1>2, <1>3, <1>4 DEF AgentNext, agentVars, TakeCheckpoint, Question, Feedback, DaemonMoves

\* Where the window holds repeat_threshold events and the level of each rule says
\* what its score says: no step that makes a loop of the whole history, that a rule
\* or its keywords make alarming or that is below the adaptive threshold runs
\* unless its question was approved, and no other question lets any run.
THEOREM ApprovalCorrect ==
  Threshold <= Window /\ RulesAgree => (AgentSpec => []RunsOnlyApproved)
<1> SUFFICES ASSUME Threshold <= Window, RulesAgree PROVE AgentSpec => []RunsOnlyApproved
  OBVIOUS
<1>1. AgentInit => WarnedIsAsked
  BY DEF AgentInit, Nothing, WarnedIsAsked
<1>2. LoopIsCaught' /\ AgentOK /\ WarnedIsAsked /\ [AgentNext]_agentVars => WarnedIsAsked'
  BY NextWarned
<1>3. AgentSpec => []LoopIsCaught
  BY LoopCorrect
<1>4. OnlyApproved /\ WarnedIsAsked => RunsOnlyApproved
  BY DEF OnlyApproved, WarnedIsAsked, RunsOnlyApproved
<1> QED
  BY <1>1, <1>2, <1>3, <1>4, ApprovedInvariance, PTL DEF AgentSpec

\* The built-in rules agree.
LEMMA DefaultRulesAgree == Rules = DefaultRules => RulesAgree
BY DEF DefaultRules, RulesAgree, Rule, Low, Medium, High, Critical

-----------------------------------------------------------------------------
(* The checkpoints.                                                        *)

\* s is the newest part of p, and empty only if p is.
Newest(s, p) ==
  /\ Len(s) <= Len(p)
  /\ \A n \in 1..Len(s) : s[n] = p[Len(p) - Len(s) + n]
  /\ Len(s) = 0 => Len(p) = 0

\* It stays so when both get one more,
LEMMA NewestAppend ==
  ASSUME NEW s \in Seq(Nat), NEW p \in Seq(Nat), Len(s) <= Len(p), NEW x \in Nat,
         \A n \in 1..Len(s) : s[n] = p[Len(p) - Len(s) + n]
  PROVE  /\ Append(s, x) \in Seq(Nat) /\ Append(p, x) \in Seq(Nat)
         /\ Len(Append(s, x)) = Len(s) + 1
         /\ Newest(Append(s, x), Append(p, x))
<1> DEFINE s1 == Append(s, x)
           p1 == Append(p, x)
<1>1. /\ s1 \in Seq(Nat) /\ Len(s1) = Len(s) + 1 /\ s1[Len(s) + 1] = x
      /\ \A n \in 1..Len(s) : s1[n] = s[n]
  BY AppendProperties
<1>2. /\ p1 \in Seq(Nat) /\ Len(p1) = Len(p) + 1 /\ p1[Len(p) + 1] = x
      /\ \A n \in 1..Len(p) : p1[n] = p[n]
  BY AppendProperties
<1>3. Len(s) \in Nat /\ Len(p) \in Nat
  BY LenProperties
<1> HIDE DEF s1, p1
<1>4. ASSUME NEW n \in 1..Len(s1) PROVE s1[n] = p1[Len(p1) - Len(s1) + n]
  <2>1. CASE n = Len(s) + 1
    BY <1>1, <1>2, <1>3, <2>1
  <2>2. CASE n \in 1..Len(s)
    <3>1. Len(p1) - Len(s1) + n = Len(p) - Len(s) + n /\ Len(p) - Len(s) + n \in 1..Len(p)
      BY <1>1, <1>2, <1>3, <2>2
    <3> QED
      BY <1>1, <1>2, <2>2, <3>1
  <2> QED
    BY <1>1, <1>3, <2>1, <2>2
<1>5. Newest(s1, p1)
  BY <1>1, <1>2, <1>3, <1>4 DEF Newest
<1> QED
  BY <1>1, <1>2, <1>5 DEF s1, p1

\* when it loses its oldest,
LEMMA NewestTail ==
  ASSUME NEW s \in Seq(Nat), NEW p \in Seq(Nat), Newest(s, p), s # <<>>
  PROVE  /\ Tail(s) \in Seq(Nat) /\ Len(Tail(s)) = Len(s) - 1 /\ Len(Tail(s)) <= Len(p)
         /\ \A n \in 1..Len(Tail(s)) : Tail(s)[n] = p[Len(p) - Len(Tail(s)) + n]
<1> DEFINE t == Tail(s)
<1>1. /\ t \in Seq(Nat) /\ Len(t) = Len(s) - 1
      /\ \A n \in 1..Len(t) : t[n] = s[n + 1]
  BY HeadTailProperties
<1>2. Len(s) \in Nat /\ Len(p) \in Nat
  BY LenProperties
<1> HIDE DEF t
<1>3. ASSUME NEW n \in 1..Len(t) PROVE t[n] = p[Len(p) - Len(t) + n]
  <2>1. n + 1 \in 1..Len(s) /\ Len(p) - Len(s) + (n + 1) = Len(p) - Len(t) + n
    BY <1>1, <1>2
  <2> QED
    BY <1>1, <2>1 DEF Newest
<1>4. t \in Seq(Nat) /\ Len(t) = Len(s) - 1 /\ Len(t) <= Len(p)
  BY <1>1, <1>2 DEF Newest
<1> QED
  BY <1>3, <1>4 DEF t

\* The places of two lengths that both lose k.
LEMMA CutPlaces ==
  ASSUME NEW a \in Nat, NEW b \in Nat, a <= b, NEW k \in Nat, k < a
  PROVE  /\ a - k <= b - k /\ a - k # 0
         /\ \A m \in 1..(a - k) : /\ m \in 1..a
                                 /\ (b - k) - (a - k) + m = b - a + m
                                 /\ b - a + m \in 1..(b - k)
OBVIOUS

\* and when both lose as many of their newest.
LEMMA NewestCut ==
  ASSUME NEW s \in Seq(Nat), NEW p \in Seq(Nat), Newest(s, p), NEW k \in Nat, k < Len(s)
  PROVE  /\ SubSeq(s, 1, Len(s) - k) \in Seq(Nat) /\ SubSeq(p, 1, Len(p) - k) \in Seq(Nat)
         /\ Len(SubSeq(s, 1, Len(s) - k)) = Len(s) - k
         /\ Newest(SubSeq(s, 1, Len(s) - k), SubSeq(p, 1, Len(p) - k))
<1> DEFINE s1 == SubSeq(s, 1, Len(s) - k)
           p1 == SubSeq(p, 1, Len(p) - k)
<1>1. Len(s) \in Nat /\ Len(p) \in Nat /\ Len(s) <= Len(p)
  BY LenProperties DEF Newest
<1>2. /\ \A n \in 1..(Len(s) - k) : s[n] \in Nat
      /\ \A n \in 1..(Len(p) - k) : p[n] \in Nat
      /\ Len(s) - k \in Int /\ Len(p) - k \in Int
  <2>1. /\ \A n \in 1..(Len(s) - k) : n \in 1..Len(s)
        /\ \A n \in 1..(Len(p) - k) : n \in 1..Len(p)
        /\ Len(s) - k \in Int /\ Len(p) - k \in Int
    BY <1>1
  <2>2. /\ \A n \in 1..Len(s) : s[n] \in Nat
        /\ \A n \in 1..Len(p) : p[n] \in Nat
    BY ElementOfSeq
  <2> QED
    BY <2>1, <2>2
<1>3. /\ s1 \in Seq(Nat) /\ Len(s1) = Len(s) - k
      /\ \A n \in 1..(Len(s) - k) : s1[n] = s[n]
  <2>1. /\ s1 \in Seq(Nat) /\ Len(s1) = IF 1 <= Len(s) - k THEN (Len(s) - k) - 1 + 1 ELSE 0
        /\ \A n \in 1..((Len(s) - k) - 1 + 1) : s1[n] = s[1 + n - 1]
    BY <1>2, SubSeqProperties
  <2> HIDE DEF s1
  <2>2. \A n \in 1..(Len(s) - k) : 1 + n - 1 = n /\ n \in 1..((Len(s) - k) - 1 + 1)
    BY <1>1
  <2> QED
    BY <1>1, <2>1, <2>2
<1>4. /\ p1 \in Seq(Nat) /\ Len(p1) = Len(p) - k
      /\ \A n \in 1..(Len(p) - k) : p1[n] = p[n]
  <2>1. /\ p1 \in Seq(Nat) /\ Len(p1) = IF 1 <= Len(p) - k THEN (Len(p) - k) - 1 + 1 ELSE 0
        /\ \A n \in 1..((Len(p) - k) - 1 + 1) : p1[n] = p[1 + n - 1]
    BY <1>2, SubSeqProperties
  <2> HIDE DEF p1
  <2>2. \A n \in 1..(Len(p) - k) : 1 + n - 1 = n /\ n \in 1..((Len(p) - k) - 1 + 1)
    BY <1>1
  <2> QED
    BY <1>1, <2>1, <2>2
<1> HIDE DEF s1, p1
<1>5. ASSUME NEW n \in 1..Len(s1) PROVE s1[n] = p1[Len(p1) - Len(s1) + n]
  <2>1. /\ n \in 1..Len(s) /\ Len(p1) - Len(s1) + n = Len(p) - Len(s) + n
        /\ Len(p) - Len(s) + n \in 1..(Len(p) - k) /\ n \in 1..(Len(s) - k)
    <3>1. Len(s1) = Len(s) - k /\ Len(p1) = Len(p) - k /\ n \in 1..(Len(s) - k)
      BY <1>3, <1>4
    <3> QED
      BY <1>1, <3>1, CutPlaces
  <2> QED
    BY <1>3, <1>4, <2>1 DEF Newest
<1>6. Newest(s1, p1)
  <2>1. Len(s1) <= Len(p1) /\ Len(s1) # 0
    <3>1. Len(s1) = Len(s) - k /\ Len(p1) = Len(p) - k
      BY <1>3, <1>4
    <3> QED
      BY <1>1, <3>1, CutPlaces
  <2> QED
    BY <1>5, <2>1 DEF Newest
<1> QED
  BY <1>3, <1>4, <1>6 DEF s1, p1

\* The stack is the newest part of all that was pushed and not rolled back.
StackOK ==
  /\ taken \in 0..MaxCheckpoints
  /\ stack \in Seq(Nat) /\ past \in Seq(Nat)
  /\ Len(stack) <= MaxLen
  /\ Newest(stack, past)

\* push, which may drop the oldest.
LEMMA PushStack ==
  ASSUME StackOK, TakeCheckpoint
  PROVE  StackOK'
<1>1. /\ taken' = taken + 1 /\ taken' \in 0..MaxCheckpoints /\ taken' \in Nat
      /\ stack' = Push(stack, taken') /\ past' = Append(past, taken')
  BY AgentAssumption DEF StackOK, TakeCheckpoint
<1>2. MaxLen \in Nat \ {0} /\ Len(stack) \in Nat /\ Len(past) \in Nat
  BY StackAssumption, LenProperties DEF StackOK
<1>3. CASE Len(stack) < MaxLen
  <2>1. stack' = Append(stack, taken')
    BY <1>1, <1>3 DEF Push
  <2>2. /\ stack' \in Seq(Nat) /\ past' \in Seq(Nat) /\ Len(stack') = Len(stack) + 1
        /\ Newest(stack', past')
    <3>1. /\ Len(stack) <= Len(past)
          /\ \A n \in 1..Len(stack) : stack[n] = past[Len(past) - Len(stack) + n]
      BY DEF StackOK, Newest
    <3> QED
      BY <1>1, <2>1, <3>1, NewestAppend DEF StackOK
  <2>3. Newest(stack, past)' = Newest(stack', past')
    BY DEF Newest
  <2>4. Len(stack') <= MaxLen
    BY <1>2, <1>3, <2>2
  <2> QED
    BY <1>1, <2>2, <2>3, <2>4 DEF StackOK
<1>4. CASE Len(stack) = MaxLen
  <2> DEFINE rest == Tail(stack)
  <2>1. /\ rest \in Seq(Nat) /\ Len(rest) = Len(stack) - 1 /\ Len(rest) <= Len(past)
        /\ \A n \in 1..Len(rest) : rest[n] = past[Len(past) - Len(rest) + n]
    <3>1. stack # <<>>
      BY <1>2, <1>4, EmptySeq
    <3> QED
      BY <3>1, NewestTail DEF StackOK
  <2>2. stack' = Append(rest, taken')
    BY <1>1, <1>2, <1>4 DEF Push
  <2> HIDE DEF rest
  <2>3. /\ stack' \in Seq(Nat) /\ past' \in Seq(Nat) /\ Len(stack') = Len(rest) + 1
        /\ Newest(stack', past')
    BY <1>1, <2>1, <2>2, NewestAppend DEF StackOK
  <2>4. Newest(stack, past)' = Newest(stack', past')
    BY DEF Newest
  <2>5. Len(stack') <= MaxLen
    BY <1>2, <1>4, <2>1, <2>3
  <2> QED
    BY <1>1, <2>3, <2>4, <2>5 DEF StackOK
<1> QED
  BY <1>2, <1>3, <1>4 DEF StackOK

\* rollback, which leaves at least one.
LEMMA RollBackStack ==
  ASSUME StackOK, NEW steps \in 1..MaxSteps, RollBack(steps)
  PROVE  StackOK'
<1>1. /\ steps \in Nat /\ steps < Len(stack) /\ Len(stack) \in Nat
      /\ stack' = SubSeq(stack, 1, Len(stack) - steps)
      /\ past' = SubSeq(past, 1, Len(past) - steps)
      /\ taken' = taken
  <2>1. Len(stack) \in Nat
    BY LenProperties DEF StackOK
  <2> QED
    BY <2>1, AgentAssumption DEF RollBack, CanRollback, Rollback
<1>2. /\ stack' \in Seq(Nat) /\ past' \in Seq(Nat) /\ Len(stack') = Len(stack) - steps
      /\ Newest(stack', past')
  BY <1>1, NewestCut DEF StackOK
<1>3. Newest(stack, past)' = Newest(stack', past')
  BY DEF Newest
<1>4. Len(stack') <= MaxLen
  BY <1>1, <1>2, StackAssumption DEF StackOK
<1> QED
  BY <1>1, <1>2, <1>3, <1>4 DEF StackOK

\* Nothing else touches them.
LEMMA NextStack == StackOK /\ [AgentNext]_agentVars => StackOK'
<1> SUFFICES ASSUME StackOK, [AgentNext]_agentVars PROVE StackOK'
  OBVIOUS
<1>1. CASE UNCHANGED checkpoints
  BY <1>1 DEF StackOK, Newest, checkpoints
<1>2. CASE TakeCheckpoint
  BY <1>2, PushStack
<1>3. CASE \E steps \in 1..MaxSteps : RollBack(steps)
  BY <1>3, RollBackStack
<1> QED
  BY <1>1, <1>2, <1>3 DEF AgentNext, agentVars, Step, Tool, Question, Proceed, Denied, Raises,
                          Feedback, DaemonMoves

\* It holds throughout.
LEMMA StackInvariance == AgentSpec => []StackOK
<1>1. AgentInit => StackOK
  BY StackAssumption, AgentAssumption DEF AgentInit, StackOK, Newest
<1> QED
  BY <1>1, NextStack, PTL DEF AgentSpec

\* For any size of stack and any number of steps asked for: what a rollback
\* restores is what an unbounded stack would.
THEOREM RollbackCorrect == AgentSpec => []RollbackIsTrue
<1>1. ASSUME StackOK PROVE RollbackIsTrue
  <2> DEFINE newest == SubSeq(past, Len(past) - Len(stack) + 1, Len(past))
  <2>1. /\ Len(stack) \in Nat /\ Len(past) \in Nat /\ Len(stack) <= Len(past)
        /\ stack \in Seq(Nat) /\ past \in Seq(Nat)
        /\ \A n \in 1..Len(stack) : stack[n] = past[Len(past) - Len(stack) + n]
    BY <1>1, LenProperties DEF StackOK, Newest
  <2>2. /\ Len(past) - Len(stack) + 1 \in Int /\ Len(past) \in Int
        /\ \A n \in (Len(past) - Len(stack) + 1)..Len(past) : past[n] \in Nat
    BY <2>1, ElementOfSeq
  <2>3. /\ newest \in Seq(Nat)
        /\ Len(newest) = IF Len(past) - Len(stack) + 1 <= Len(past)
                           THEN Len(past) - (Len(past) - Len(stack) + 1) + 1 ELSE 0
        /\ \A n \in 1..(Len(past) - (Len(past) - Len(stack) + 1) + 1) :
             newest[n] = past[(Len(past) - Len(stack) + 1) + n - 1]
    BY <2>2, SubSeqProperties
  <2> HIDE DEF newest
  <2>4. Len(newest) = Len(stack)
    BY <2>1, <2>3
  <2>5. ASSUME NEW n \in 1..Len(stack) PROVE newest[n] = stack[n]
    <3>1. /\ n \in 1..(Len(past) - (Len(past) - Len(stack) + 1) + 1)
          /\ (Len(past) - Len(stack) + 1) + n - 1 = Len(past) - Len(stack) + n
      BY <2>1
    <3> QED
      BY <2>1, <2>3, <3>1
  <2>6. stack = newest
    BY <2>1, <2>3, <2>4, <2>5, SeqEqual
  <2>7. ASSUME past # <<>> PROVE stack # <<>> /\ Top(stack) = past[Len(past)]
    <3>1. Len(past) # 0
      BY <2>1, <2>7, EmptySeq
    <3>2. Len(stack) # 0
      BY <1>1, <3>1 DEF StackOK, Newest
    <3>3. /\ Len(stack) \in 1..Len(stack) /\ Len(past) - Len(stack) + Len(stack) = Len(past)
      BY <2>1, <3>2
    <3>4. stack # <<>>
      BY <3>2, EmptySeq
    <3> QED
      BY <2>1, <3>3, <3>4 DEF Top
  <2> QED
    BY <2>1, <2>6, <2>7 DEF newest, RollbackIsTrue
<1> QED
  BY <1>1, StackInvariance, PTL

-----------------------------------------------------------------------------
(* The types.                                                              *)

Bounds == {BaseThreshold, MinThreshold, MaxThreshold}

ThresholdOK ==
  /\ threshold \in Int
  /\ \E low, high \in Bounds : low <= threshold /\ threshold <= high

\* update_from_outcome stops at the bound it moves towards, whatever side of it the
\* threshold has started from.
LEMMA ThresholdInvariance == AgentSpec => []ThresholdOK
<1>1. Bounds \in SUBSET Int
  BY AgentAssumption DEF Bounds
<1>2. AgentInit => ThresholdOK
  BY <1>1 DEF AgentInit, Bounds, ThresholdOK
<1>3. ASSUME ThresholdOK, [AgentNext]_agentVars PROVE ThresholdOK'
  <2>1. ASSUME NEW step \in {-2, 1, 2}, threshold' = Adapted(step) PROVE ThresholdOK'
    <3>1. PICK low \in Bounds, high \in Bounds : low <= threshold /\ threshold <= high
      BY <1>3 DEF ThresholdOK
    <3>2. /\ threshold \in Int /\ low \in Int /\ high \in Int
          /\ MinThreshold \in Bounds /\ MaxThreshold \in Bounds
          /\ MinThreshold \in Int /\ MaxThreshold \in Int
      BY <1>1, <1>3 DEF ThresholdOK, Bounds
    <3>3. CASE step \in {1, 2}
      <4>1. threshold' = IF threshold + step > MaxThreshold THEN MaxThreshold ELSE threshold + step
        BY <2>1, <3>3 DEF Adapted
      <4>2. /\ threshold' \in Int /\ threshold' <= MaxThreshold
            /\ low <= threshold' \/ MaxThreshold <= threshold'
        BY <3>1, <3>2, <3>3, <4>1
      <4> QED
        BY <3>2, <4>2 DEF ThresholdOK, Bounds
    <3>4. CASE step = -2
      <4>1. threshold' = IF threshold + (-2) < MinThreshold THEN MinThreshold ELSE threshold + (-2)
        BY <2>1, <3>4 DEF Adapted
      <4>2. /\ threshold' \in Int /\ MinThreshold <= threshold'
            /\ threshold' <= high \/ threshold' <= MinThreshold
        BY <3>1, <3>2, <4>1
      <4> QED
        BY <3>2, <4>2 DEF ThresholdOK, Bounds
    <3> QED
      BY <3>3, <3>4
  <2>2. CASE Feedback
    BY <2>1, <2>2 DEF Feedback
  <2>3. CASE UNCHANGED threshold
    BY <1>3, <2>3 DEF ThresholdOK, Bounds
  <2> QED
    BY <1>3, <2>2, <2>3 DEF AgentNext, agentVars, Step, TakeCheckpoint, Tool, Question, Proceed,
                            Denied, Raises, DaemonMoves
<1> QED
  BY <1>2, <1>3, PTL DEF AgentSpec

\* Rows are rows, and window, stack and threshold keep within their bounds.
THEOREM AgentTypeCorrect == AgentSpec => []AgentTypeOK
<1>1. ASSUME IInv, AgentOK, WindowOK, StackOK, ThresholdOK PROVE AgentTypeOK
  <2>1. \E low, high \in Bounds : threshold \in low..high
    <3>1. PICK low \in Bounds, high \in Bounds : low <= threshold /\ threshold <= high
      BY <1>1 DEF ThresholdOK
    <3>2. threshold \in Int /\ low \in Int /\ high \in Int
      BY <1>1, AgentAssumption DEF ThresholdOK, Bounds
    <3>3. threshold \in low..high
      BY <3>1, <3>2
    <3> QED
      BY <3>3
  <2> QED
    BY <1>1, <2>1 DEF Bounds, IInv, AgentOK, WindowOK, Events, StackOK, AgentTypeOK
<1> QED
  BY <1>1, RowsInvariance, ApprovedInvariance, WindowInvariance, StackInvariance,
     ThresholdInvariance, PTL

=============================================================================
