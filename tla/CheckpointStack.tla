--------------------------- MODULE CheckpointStack --------------------------
(***************************************************************************)
(* client/checkpoints.py over a stack, a sequence of agent states.         *)
(***************************************************************************)
EXTENDS Naturals, Sequences

CONSTANT MaxLen  \* maxlen of CheckpointStack

ASSUME StackAssumption == MaxLen \in Nat \ {0}

\* Mutant of Push: a full stack keeps its oldest checkpoints.
PushKeepsOldest(stack, state) == IF Len(stack) < MaxLen THEN Append(stack, state) ELSE stack

Push(stack, state) == Append(IF Len(stack) < MaxLen THEN stack ELSE Tail(stack), state)

\* ValueError below 1, IndexError unless one checkpoint is left to restore.
CanRollback(stack, steps) == steps >= 1 /\ Len(stack) > steps

Rollback(stack, steps) == SubSeq(stack, 1, Len(stack) - steps)

\* The state rollback returns, once it has popped.
Top(stack) == stack[Len(stack)]

=============================================================================
