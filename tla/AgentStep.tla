------------------------------ MODULE AgentStep -----------------------------
(***************************************************************************)
(* An agent around client/guardian.py: guard_step with the smart engine    *)
(* (smart/engine.py), its checkpoints and rollbacks, and the tools of      *)
(* adapters/browser_use.py.  A question is an intervention of Intervention *)
(* and the answer to it what GuardianClient shows ask_human returns.       *)
(***************************************************************************)
EXTENDS Intervention, LoopDetector, RiskEvaluator, CheckpointStack, Integers

CONSTANTS
  Prints,         \* fingerprints of actions
  Errors,         \* texts of errors, NoError among them, NoText perhaps
  RiskInputs,     \* sets of rules a command may match
  Boosts,         \* what semantic keywords may add
  Confidences,    \* confidences of a model, in hundredths
  BaseThreshold,  \* base_threshold, min_threshold, max_threshold: 55, 35, 85
  MinThreshold,   \* unless the constructor is given others, in any order
  MaxThreshold,
  Deny,           \* deny_option_ids
  MaxSteps,       \* bound: rollback_steps a human asks for
  MaxCheckpoints  \* bound: checkpoints an agent ever takes

ASSUME AgentAssumption ==
  /\ NoError \in Errors
  /\ Deny \subseteq Options
  /\ RiskInputs \subseteq SUBSET DOMAIN Rules /\ None \notin RiskInputs
  /\ Boosts \subseteq Nat
  /\ BaseThreshold \in 1..99 /\ {MinThreshold, MaxThreshold} \subseteq Int
  /\ MaxSteps \in Nat /\ MaxCheckpoints \in Nat

VARIABLES
  history,    \* ActionHistory of the loop detector
  sameAction, \* how many of the latest actions are the same, up to Threshold
  sameError,  \* how many of the latest met the same error text, up to Threshold
  threshold,  \* the adaptive threshold of UncertaintyEvaluator
  stack,      \* CheckpointStack
  past,       \* the checkpoints an unbounded stack would have
  taken,      \* checkpoints taken so far
  agent,      \* where the agent is
  ran         \* the action it has just executed

detector == <<history, sameAction, sameError>>
checkpoints == <<stack, past, taken>>
agentVars == <<record, detector, threshold, checkpoints, agent, ran>>

Free == [pc |-> "free", flow |-> None, id |-> None]
Nothing == [warned |-> FALSE, id |-> None]

-----------------------------------------------------------------------------
(* Checkpoints.                                                            *)

TakeCheckpoint ==
  /\ agent.pc = "free"
  /\ taken < MaxCheckpoints
  /\ taken' = taken + 1
  /\ stack' = Push(stack, taken + 1)
  /\ past' = Append(past, taken + 1)
  /\ UNCHANGED <<record, detector, threshold, agent, ran>>

RollBack(steps) ==
  /\ CanRollback(stack, steps)
  /\ stack' = Rollback(stack, steps)
  /\ past' = SubSeq(past, 1, Len(past) - steps)
  /\ UNCHANGED taken

-----------------------------------------------------------------------------
(* SmartInterventionEngine.                                                *)

\* The length of a run of equal events, after one more.
Longer(run, same) == IF ~same THEN 1 ELSE IF run < Threshold THEN run + 1 ELSE run

LastEvent == history[Len(history)]

Observe(event) ==
  /\ history' = Recorded(history, event)
  /\ sameAction' = Longer(sameAction, history # <<>> /\ LastEvent.print = event.print)
  /\ sameError' = IF event.error = NoError THEN 0
                  ELSE Longer(sameError, history # <<>> /\ LastEvent.error = event.error)

\* Mutant of Intervenes: the first signal decides, whatever it says.
IntervenesFirst(events, matched, boost, confidence) == EvaluateRecent(events) # "ok"

\* Below the adaptive threshold; None is a step without a confidence.
Uncertain(confidence) == confidence # None /\ confidence < threshold

\* evaluate_step: the first of its signals that intervenes; None is a check the
\* step gives no input for.
Intervenes(events, matched, boost, confidence) ==
  \/ EvaluateRecent(events) # "ok"
  \/ matched # None /\ RiskIntervenes(matched, boost)
  \/ Uncertain(confidence)

\* What the engine is there to warn of, told by the whole past and by each rule
\* alone: a loop, ...
Looping ==
  \/ sameAction >= Threshold
  \/ sameError >= Threshold /\ LastEvent.error # NoText

\* ... a rule or words, or both together, that are worth the threshold or HIGH.
Alarming(matched, boost) ==
  /\ matched # None
  /\ \/ boost >= InterveneThreshold
     \/ \E n \in matched : \/ Rules[n].score + boost >= InterveneThreshold
                           \/ Rules[n].level >= High

-----------------------------------------------------------------------------
(* guard_step and the browser tools.                                       *)

Run(warned, id) == ran' = [warned |-> warned, id |-> id] /\ agent' = Free
Skip == agent' = Free /\ ran' = Nothing

Ask(flow) == agent' = [Free EXCEPT !.pc = "asking", !.flow = flow] /\ ran' = Nothing

\* force_ask asks without a reason; auto_ask=False only reports, force_ask or not.
Step(event, matched, boost, confidence) ==
  LET warned == Looping' \/ Alarming(matched, boost) \/ Uncertain(confidence) IN
  /\ agent.pc = "free"
  /\ Observe(event)
  /\ \/ Ask("step")
     \/ Skip
     \/ ~Intervenes(history', matched, boost, confidence) /\ Run(warned, None)
  /\ UNCHANGED <<record, threshold, checkpoints>>

\* ask_guardian_before_sensitive_action and ask_guardian_captcha_help.
Tool ==
  /\ agent.pc = "free"
  /\ Ask("tool")
  /\ UNCHANGED <<record, detector, threshold, checkpoints>>

Question ==
  /\ agent.pc = "asking"
  /\ \E i \in Ids, q \in Clients :
       Create(i, q) /\ agent' = [agent EXCEPT !.pc = "waiting", !.id = i]
  /\ UNCHANGED <<detector, threshold, checkpoints, ran>>

Settled == agent.pc = "waiting" /\ IsTerminal(record[agent.id].status)
Refused == record[agent.id].decision \in Deny

Approved == Settled /\ record[agent.id].status = "RESOLVED" /\ ~Refused

\* A step that was approved may be told to roll back first: if that cannot be,
\* guard_step raises instead of proceeding.  What was asked about counts as warned
\* of, whatever it was asked for.
Proceed ==
  /\ Approved
  /\ \/ Run(TRUE, agent.id) /\ UNCHANGED checkpoints
     \/ /\ agent.flow = "step"
        /\ \E steps \in 1..MaxSteps :
             \/ RollBack(steps) /\ Run(TRUE, agent.id)
             \/ ~CanRollback(stack, steps) /\ Skip /\ UNCHANGED checkpoints
  /\ UNCHANGED <<record, detector, threshold>>

\* InterventionDeniedError: guard_step reads the decision once more and rolls
\* back as far as it says; whatever fails there is swallowed.  A tool answers
\* HUMAN_DENIED.
Denied ==
  /\ Settled
  /\ record[agent.id].status = "RESOLVED"
  /\ Refused
  /\ \/ agent.flow = "step" /\ \E steps \in 1..MaxSteps : RollBack(steps)
     \/ UNCHANGED checkpoints
  /\ Skip
  /\ UNCHANGED <<record, detector, threshold>>

\* ask_human raises anything else: a timeout, a cancel, a failure, an error on
\* its way to the daemon or back.
Raises ==
  /\ \/ agent.pc = "asking"
     \/ agent.pc = "waiting" /\ ~Approved /\ ~(Settled /\ Refused)
  /\ Skip
  /\ UNCHANGED <<record, detector, threshold, checkpoints>>

\* Mutant of Adapted: the threshold is not held within its bounds.
AdaptedFreely(step) == threshold + step

\* Only the bound it moves towards holds it.
Adapted(step) ==
  LET moved == threshold + step IN
  CASE step > 0 /\ moved > MaxThreshold -> MaxThreshold
    [] step < 0 /\ moved < MinThreshold -> MinThreshold
    [] OTHER -> moved

\* update_from_outcome with its default step: a success, an intervention nobody
\* needed, a mistake nobody was asked about.
Feedback ==
  /\ agent.pc = "free"
  /\ \E step \in {-2, 1, 2} : threshold' = Adapted(step)
  /\ UNCHANGED <<record, detector, checkpoints, agent, ran>>

\* Deliveries, humans and deadlines.
DaemonMoves ==
  /\ \E i \in Ids, option \in Options \cup {None} :
       \E target \in Allowed(record[i].status) : Transition(i, target, option)
  /\ UNCHANGED <<detector, threshold, checkpoints, agent, ran>>

AgentInit ==
  /\ Init
  /\ history = <<>> /\ sameAction = 0 /\ sameError = 0
  /\ threshold = BaseThreshold
  /\ stack = <<>> /\ past = <<>> /\ taken = 0
  /\ agent = Free
  /\ ran = Nothing

AgentNext ==
  \/ TakeCheckpoint \/ Tool \/ Question \/ Proceed \/ Denied \/ Raises \/ Feedback \/ DaemonMoves
  \/ \E print \in Prints, error \in Errors, matched \in RiskInputs \cup {None},
        boost \in Boosts, confidence \in Confidences \cup {None} :
       Step([print |-> print, error |-> error], matched, boost, confidence)

AgentSpec == AgentInit /\ [][AgentNext]_agentVars

-----------------------------------------------------------------------------

\* Rows are rows, window and stack stay within their bounds, and the threshold
\* between the least and the greatest of the three it is constructed with, which
\* is between min_threshold and max_threshold where they are in order.
AgentTypeOK ==
  /\ TypeOK
  /\ history \in Seq([print : Prints, error : Errors]) /\ Len(history) <= Window
  /\ \E low, high \in {BaseThreshold, MinThreshold, MaxThreshold} : threshold \in low..high
  /\ Len(stack) <= MaxLen /\ taken \in 0..MaxCheckpoints
  /\ agent.pc \in {"free", "asking", "waiting"} /\ agent.id \in Ids \cup {None}
  /\ agent.pc = "waiting" <=> agent.id # None

\* What the agent executed was either nothing to warn of (no loop in all it has
\* done, no rule or keywords worth the threshold, no confidence below it) or
\* approved by a human; and a question that was denied, timed out, cancelled or
\* failed never lets an action run.
RunsOnlyApproved ==
  /\ ran.warned => ran.id # None
  /\ ran.id # None => /\ record[ran.id].status = "RESOLVED"
                      /\ record[ran.id].decision \notin Deny

\* "When the last repeat_threshold events share the same action fingerprint (or
\* the same error string), emit an intervention signal" (LoopDetector), and not
\* otherwise: what the bounded window shows is what the whole history would.  The
\* one exception is in Looping: the empty string is no error string to the code.
LoopIsCaught == EvaluateRecent(history) # "ok" <=> Looping

\* The state a rollback returns is the one of that many checkpoints ago, however
\* many the stack has dropped: it is always the newest part of an unbounded one.
RollbackIsTrue ==
  /\ Len(stack) <= Len(past)
  /\ stack = SubSeq(past, Len(past) - Len(stack) + 1, Len(past))
  /\ past # <<>> => stack # <<>> /\ Top(stack) = past[Len(past)]

=============================================================================
