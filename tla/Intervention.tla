---------------------------- MODULE Intervention ----------------------------
(***************************************************************************)
(* What the daemon promises about interventions, whoever writes them: an   *)
(* intervention is created once per client_request_id, walks the status    *)
(* machine one legal step at a time, each step raises its version by one,  *)
(* and only RESOLVED carries a decision.  InterventionStore implements it  *)
(* on the committed database.                                              *)
(***************************************************************************)
EXTENDS InterventionLifecycle, Naturals

CONSTANTS
  Ids,      \* intervention_id values
  Clients,  \* client_request_id values
  Options,  \* option ids every request offers
  None      \* SQL NULL / Python None

ASSUME InterventionAssumption == None \notin Ids \cup Clients \cup Options

VARIABLE record  \* intervention_id -> row of the interventions table

NoRecord == [client |-> None, status |-> Absent, decision |-> None, version |-> 0]

Init == record = [i \in Ids |-> NoRecord]

\* Mutants of Create: the client_request_id is not looked up; the id is reused.
CreateUnchecked(i, q) ==
  /\ record[i].status = Absent
  /\ record' = [record EXCEPT ![i] =
       [client |-> q, status |-> "PENDING", decision |-> None, version |-> 1]]
CreateAgain(i, q) ==
  /\ \A j \in Ids : IsOpen(record[j].status) => record[j].client # q
  /\ record' = [record EXCEPT ![i] =
       [client |-> q, status |-> "PENDING", decision |-> None, version |-> 1]]

Create(i, q) ==
  /\ record[i].status = Absent
  /\ \A j \in Ids : record[j].client # q
  /\ record' = [record EXCEPT ![i] =
       [client |-> q, status |-> "PENDING", decision |-> None, version |-> 1]]

\* Mutants of Transition: the version counts twice; any status takes a decision.
TransitionTwice(i, target, option) ==
  /\ CanTransition(record[i].status, target)
  /\ option \in (IF target = "RESOLVED" THEN Options ELSE {None})
  /\ record' = [record EXCEPT ![i].status = target, ![i].decision = option,
                              ![i].version = @ + 2]
TransitionAnyDecision(i, target, option) ==
  /\ CanTransition(record[i].status, target)
  /\ record' = [record EXCEPT ![i].status = target, ![i].decision = option,
                              ![i].version = @ + 1]

\* A decision comes with RESOLVED and with nothing else.
Transition(i, target, option) ==
  /\ CanTransition(record[i].status, target)
  /\ option \in (IF target = "RESOLVED" THEN Options ELSE {None})
  /\ record' = [record EXCEPT ![i].status = target, ![i].decision = option,
                              ![i].version = @ + 1]

Next ==
  \E i \in Ids :
    \/ \E q \in Clients : Create(i, q)
    \/ \E target \in Statuses, option \in Options \cup {None} :
         Transition(i, target, option)

Spec == Init /\ [][Next]_record

-----------------------------------------------------------------------------

\* Every record is a row of the table, its version within the longest path.
TypeOK ==
  record \in [Ids -> [client : Clients \cup {None}, status : Statuses \cup {Absent},
                      decision : Options \cup {None}, version : 0..4]]

\* The version column tells how far the row has walked: a RESOLVED row has
\* passed through NOTIFIED or AWAITING_HUMAN, so a human was asked before a
\* decision was taken (no PENDING -> RESOLVED shortcut in state_machine.py).
VersionTellsThePath ==
  \A i \in Ids :
    LET r == record[i] IN
    /\ r.status = "PENDING" => r.version = 1
    /\ r.status = "NOTIFIED" => r.version = 2
    /\ r.status = "AWAITING_HUMAN" => r.version \in {2, 3}
    /\ r.status = "RESOLVED" => r.version \in {3, 4}
    /\ r.status \in TerminalStatuses \ {"RESOLVED"} => r.version \in 2..4

\* The decision column is set exactly on RESOLVED rows, to an offered option.
DecisionIffResolved ==
  \A i \in Ids :
    /\ record[i].decision # None <=> record[i].status = "RESOLVED"
    /\ record[i].decision # None => record[i].decision \in Options

\* Two interventions never answer to the same client_request_id.
OnePerClient ==
  \A i, j \in Ids :
    record[i].client = record[j].client /\ record[i].client # None => i = j

\* A terminal row is never written again (protocol 4.3: the rows of the
\* terminal statuses are empty), and a client_request_id is never re-bound.
Final ==
  [][\A i \in Ids :
       /\ IsTerminal(record[i].status) => record'[i] = record[i]
       /\ record[i].client # None => record'[i].client = record[i].client]_record

=============================================================================
