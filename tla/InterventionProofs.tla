------------------------- MODULE InterventionProofs -------------------------
(***************************************************************************)
(* The promises of Intervention, for any number of interventions, clients  *)
(* and options.  The versions of the open statuses are what makes the      *)
(* invariant inductive: they bound the version of a settled row.           *)
(***************************************************************************)
EXTENDS Intervention, TLAPS

\* An id with no row has nothing in any column.
AbsentIsEmpty == \A i \in Ids : record[i].status = Absent => record[i] = NoRecord

IInv ==
  /\ TypeOK
  /\ AbsentIsEmpty
  /\ VersionTellsThePath
  /\ DecisionIffResolved
  /\ OnePerClient

\* The row a transition writes, column by column (state_machine.py: the target
\* is a successor of an open status).
LEMMA TransitionFields ==
  ASSUME TypeOK, NEW i \in Ids, NEW target \in Statuses, NEW option \in Options \cup {None},
         Transition(i, target, option)
  PROVE  /\ record'[i] = [record[i] EXCEPT !.status = target, !.decision = option,
                                           !.version = @ + 1]
         /\ record'[i].client = record[i].client
         /\ record'[i].status = target
         /\ record'[i].decision = option
         /\ record'[i].version = record[i].version + 1
         /\ IsOpen(record[i].status)
         /\ target \in Allowed(record[i].status)
         /\ \A j \in Ids \ {i} : record'[j] = record[j]
BY DEF TypeOK, Transition, CanTransition, Allowed, IsTerminal, IsOpen, Statuses,
       OpenStatuses, TerminalStatuses, Absent

\* The row create() inserts, column by column.
LEMMA CreateFields ==
  ASSUME TypeOK, NEW i \in Ids, NEW q \in Clients, Create(i, q)
  PROVE  /\ record'[i] = [client |-> q, status |-> "PENDING", decision |-> None, version |-> 1]
         /\ record[i].status = Absent
         /\ \A j \in Ids \ {i} : record'[j] = record[j]
         /\ \A j \in Ids : record[j].client # q
BY DEF TypeOK, Create

\* A table without rows satisfies the invariant.
LEMMA InitIInv == Init => IInv
BY InterventionAssumption
   DEF Init, IInv, TypeOK, AbsentIsEmpty, VersionTellsThePath, DecisionIffResolved,
       OnePerClient, NoRecord, Statuses, OpenStatuses, TerminalStatuses, Absent

\* A created row keeps the invariant: PENDING, version 1, a new client.
LEMMA CreateIInv ==
  ASSUME IInv, NEW i \in Ids, NEW q \in Clients, Create(i, q)
  PROVE  IInv'
<1>1. /\ record'[i] = [client |-> q, status |-> "PENDING", decision |-> None, version |-> 1]
      /\ \A j \in Ids \ {i} : record'[j] = record[j]
      /\ \A j \in Ids : record[j].client # q
  BY CreateFields DEF IInv
<1>2. record' = [record EXCEPT ![i] = record'[i]]
  BY <1>1 DEF Create
<1>3. TypeOK'
  BY <1>1, <1>2 DEF IInv, TypeOK, Statuses, OpenStatuses
<1>4. AbsentIsEmpty'
  BY <1>1 DEF IInv, AbsentIsEmpty, Absent
<1>5. VersionTellsThePath'
  BY <1>1 DEF IInv, VersionTellsThePath, TerminalStatuses
<1>6. DecisionIffResolved'
  BY <1>1 DEF IInv, DecisionIffResolved
<1>7. OnePerClient'
  BY <1>1 DEF IInv, OnePerClient
<1> QED
  BY <1>3, <1>4, <1>5, <1>6, <1>7 DEF IInv

\* A transition keeps the invariant.
LEMMA TransitionIInv ==
  ASSUME IInv, NEW i \in Ids, NEW target \in Statuses, NEW option \in Options \cup {None},
         Transition(i, target, option)
  PROVE  IInv'
<1>1. /\ record'[i] = [record[i] EXCEPT !.status = target, !.decision = option,
                                        !.version = @ + 1]
      /\ record'[i].client = record[i].client
      /\ record'[i].status = target
      /\ record'[i].decision = option
      /\ record'[i].version = record[i].version + 1
      /\ IsOpen(record[i].status)
      /\ target \in Allowed(record[i].status)
      /\ \A j \in Ids \ {i} : record'[j] = record[j]
  BY TransitionFields DEF IInv
<1>2. record' = [record EXCEPT ![i] = record'[i]]
  BY <1>1 DEF Transition
<1>3. /\ record[i].version \in 0..4
      /\ record[i].status = "PENDING" => record[i].version = 1
      /\ record[i].status = "NOTIFIED" => record[i].version = 2
      /\ record[i].status = "AWAITING_HUMAN" => record[i].version \in {2, 3}
  BY DEF IInv, TypeOK, VersionTellsThePath
<1>4. record'[i].version \in 0..4
  BY <1>1, <1>3 DEF IsOpen, OpenStatuses
<1>5. TypeOK'
  <2>1. record'[i] \in [client : Clients \cup {None}, status : Statuses \cup {Absent},
                        decision : Options \cup {None}, version : 0..4]
    BY <1>1, <1>4 DEF IInv, TypeOK
  <2> QED
    BY <2>1, <1>2 DEF IInv, TypeOK
<1>6. AbsentIsEmpty'
  BY <1>1 DEF IInv, AbsentIsEmpty, Absent, Statuses, OpenStatuses, TerminalStatuses
<1>7. VersionTellsThePath'
  <2>1. /\ target = "NOTIFIED" => record'[i].version = 2
        /\ target = "AWAITING_HUMAN" => record'[i].version \in {2, 3}
        /\ target = "RESOLVED" => record'[i].version \in {3, 4}
        /\ target \in TerminalStatuses \ {"RESOLVED"} => record'[i].version \in 2..4
        /\ target # "PENDING"
    BY <1>1, <1>3 DEF IsOpen, OpenStatuses, TerminalStatuses, Allowed
  <2>2. \A j \in Ids \ {i} : record'[j] = record[j]
    BY <1>1
  <2> QED
    BY <1>1, <2>1, <2>2 DEF IInv, VersionTellsThePath
<1>8. DecisionIffResolved'
  <2>1. option \in (IF target = "RESOLVED" THEN Options ELSE {None})
    BY DEF Transition
  <2>2. None \notin Options
    BY InterventionAssumption
  <2> QED
    BY <1>1, <2>1, <2>2 DEF IInv, DecisionIffResolved
<1>9. OnePerClient'
  <2>1. \A j \in Ids : record'[j].client = record[j].client
    BY <1>1
  <2> QED
    BY <2>1 DEF IInv, OnePerClient
<1> QED
  BY <1>5, <1>6, <1>7, <1>8, <1>9 DEF IInv

\* Every step keeps the invariant.
LEMMA NextIInv == IInv /\ [Next]_record => IInv'
<1> SUFFICES ASSUME IInv, [Next]_record PROVE IInv'
  OBVIOUS
<1>1. CASE UNCHANGED record
  BY <1>1 DEF IInv, TypeOK, AbsentIsEmpty, VersionTellsThePath, DecisionIffResolved,
              OnePerClient
<1>2. ASSUME NEW i \in Ids, NEW q \in Clients, Create(i, q) PROVE IInv'
  BY <1>2, CreateIInv
<1>3. ASSUME NEW i \in Ids, NEW target \in Statuses, NEW option \in Options \cup {None},
             Transition(i, target, option)
      PROVE  IInv'
  BY <1>3, TransitionIInv
<1> QED
  BY <1>1, <1>2, <1>3 DEF Next

\* The invariant holds in every reachable state.
THEOREM Invariance == Spec => []IInv
BY InitIInv, NextIInv, PTL DEF Spec

\* Type correctness: no path through state_machine.py writes a row more than
\* four times.
THEOREM TypeCorrect == Spec => []TypeOK
BY Invariance, PTL DEF IInv

\* The version column tells how a row got to its status; RESOLVED only after
\* NOTIFIED or AWAITING_HUMAN.
THEOREM PathCorrect == Spec => []VersionTellsThePath
BY Invariance, PTL DEF IInv

\* A decision is stored exactly with RESOLVED, and is one that was offered.
THEOREM DecisionCorrect == Spec => []DecisionIffResolved
BY Invariance, PTL DEF IInv

\* No two rows answer to one client_request_id.
THEOREM ClientCorrect == Spec => []OnePerClient
BY Invariance, PTL DEF IInv

\* A step leaves terminal rows and bound client_request_ids alone.
LEMMA StepFinal ==
  IInv /\ Next => \A i \in Ids :
    /\ IsTerminal(record[i].status) => record'[i] = record[i]
    /\ record[i].client # None => record'[i].client = record[i].client
<1> SUFFICES ASSUME IInv, Next, NEW i \in Ids
             PROVE  /\ IsTerminal(record[i].status) => record'[i] = record[i]
                    /\ record[i].client # None => record'[i].client = record[i].client
  OBVIOUS
<1>1. ASSUME NEW j \in Ids, NEW q \in Clients, Create(j, q)
      PROVE  /\ IsTerminal(record[i].status) => record'[i] = record[i]
             /\ record[i].client # None => record'[i].client = record[i].client
  <2>1. record[j].status = Absent /\ \A k \in Ids \ {j} : record'[k] = record[k]
    BY <1>1, CreateFields DEF IInv
  <2>2. record[j].client = None
    BY <2>1 DEF IInv, AbsentIsEmpty, NoRecord
  <2> QED
    BY <2>1, <2>2 DEF IsTerminal, TerminalStatuses, Absent
<1>2. ASSUME NEW j \in Ids, NEW target \in Statuses, NEW option \in Options \cup {None},
             Transition(j, target, option)
      PROVE  /\ IsTerminal(record[i].status) => record'[i] = record[i]
             /\ record[i].client # None => record'[i].client = record[i].client
  <2>1. /\ record'[j].client = record[j].client
        /\ IsOpen(record[j].status)
        /\ \A k \in Ids \ {j} : record'[k] = record[k]
    BY <1>2, TransitionFields DEF IInv
  <2> QED
    BY <2>1 DEF IsTerminal, TerminalStatuses, IsOpen, OpenStatuses
<1> QED
  BY <1>1, <1>2 DEF Next

\* A settled intervention is never written again, and a client_request_id is
\* never re-bound: "settled once", for ever.
THEOREM SettledForEver == Spec => Final
<1>1. IInv /\ [Next]_record
      => [\A i \in Ids :
            /\ IsTerminal(record[i].status) => record'[i] = record[i]
            /\ record[i].client # None => record'[i].client = record[i].client]_record
  BY StepFinal
<1> QED
  BY <1>1, Invariance, PTL DEF Spec, Final

=============================================================================
