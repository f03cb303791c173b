----------------------- MODULE InterventionLifecycle -----------------------
(***************************************************************************)
(* The status machine of one intervention: daemon/state_machine.py and the *)
(* status sets of schemas.  Every other module takes its guards from here. *)
(***************************************************************************)

\* The status of an id that has no row: _ALLOWED.get(...) gives it no successor.
Absent == "ABSENT"

OpenStatuses == {"PENDING", "NOTIFIED", "AWAITING_HUMAN"}

TerminalStatuses == {"RESOLVED", "TIMEOUT", "CANCELLED", "FAILED"}

Statuses == OpenStatuses \cup TerminalStatuses

IsOpen(status) == status \in OpenStatuses

IsTerminal(status) == status \in TerminalStatuses

\* Mutant of Allowed: a decision may settle an intervention nobody was asked about.
AllowedUnasked(status) ==
  CASE status \in {"PENDING", "NOTIFIED"} -> Statuses \ {"PENDING"}
    [] status = "AWAITING_HUMAN" -> TerminalStatuses
    [] OTHER -> {}

\* _ALLOWED, with the empty set for a status the table does not list.
Allowed(status) ==
  CASE status = "PENDING" -> {"NOTIFIED", "AWAITING_HUMAN", "TIMEOUT", "CANCELLED", "FAILED"}
    [] status = "NOTIFIED" -> {"AWAITING_HUMAN"} \cup TerminalStatuses
    [] status = "AWAITING_HUMAN" -> TerminalStatuses
    [] OTHER -> {}

CanTransition(current, target) ==
  /\ current # target
  /\ ~IsTerminal(current)
  /\ target \in Allowed(current)

=============================================================================
