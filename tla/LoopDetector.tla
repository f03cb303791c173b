---------------------------- MODULE LoopDetector ----------------------------
(***************************************************************************)
(* smart/loop_detector.py over a history, the sequence of the last events. *)
(* An event is the fingerprint of an action and the error it met.          *)
(***************************************************************************)
EXTENDS Naturals, Sequences

CONSTANTS
  Window,     \* window_size of ActionHistory
  Threshold,  \* repeat_threshold
  NoError,    \* None, of an action that met no error
  NoText      \* the text of an error that has none, as str(TimeoutError())

ASSUME DetectorAssumption ==
  /\ Window \in Nat \ {0}
  /\ Threshold \in Nat \ {0, 1}
  /\ NoError # NoText

\* deque(maxlen=window_size).append
Recorded(history, event) ==
  Append(IF Len(history) < Window THEN history ELSE Tail(history), event)

Recent(history, n) ==
  IF n >= Len(history) THEN history ELSE SubSeq(history, Len(history) - n + 1, Len(history))

\* all(errors): the empty text is as false as None.
SameError(events) ==
  /\ events[1].error \notin {NoError, NoText}
  /\ \A n \in DOMAIN events : events[n].error = events[1].error

SameAction(events) == \A n \in DOMAIN events : events[n].print = events[1].print

\* Mutant of EvaluateRecent: the whole window is compared.
EvaluateWindow(history) ==
  CASE Len(history) < Threshold -> "ok"
    [] Len(history) >= Threshold /\ SameError(history) -> "loop_error"
    [] Len(history) >= Threshold /\ ~SameError(history) /\ SameAction(history) -> "loop_action"
    [] OTHER -> "ok"

EvaluateRecent(history) ==
  LET recent == Recent(history, Threshold) IN
  CASE Len(recent) < Threshold -> "ok"
    [] Len(recent) >= Threshold /\ SameError(recent) -> "loop_error"
    [] Len(recent) >= Threshold /\ ~SameError(recent) /\ SameAction(recent) -> "loop_action"
    [] OTHER -> "ok"

=============================================================================
