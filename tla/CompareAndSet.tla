--------------------------- MODULE CompareAndSet ---------------------------
(***************************************************************************)
(* The decisions of store.py that are made on a row between two awaits:    *)
(* what cas_update does with the row it has read, and what it writes.      *)
(* A row has fields client, status, decision, version and channel.         *)
(***************************************************************************)
EXTENDS InterventionLifecycle, Naturals

CONSTANTS
  Options,  \* option ids the request offers
  None      \* SQL NULL

NoRow == [client |-> None, status |-> Absent, decision |-> None, version |-> 0,
          channel |-> None]

\* The row create() inserts.
NewRow(client) == [NoRow EXCEPT !.client = client, !.status = "PENDING", !.version = 1]

\* The status is already the target, and so is the decision if one was given.
AlreadyThere(row, target, option) ==
  /\ row.status = target
  /\ option = None \/ row.decision = option

\* Mutant of MayUpdate: the option is not looked up in request.options.
MayUpdateAnyOption(row, target, option) == CanTransition(row.status, target)

\* can_transition, and RESOLVED takes one of the options the request offers.
MayUpdate(row, target, option) ==
  /\ CanTransition(row.status, target)
  /\ target = "RESOLVED" => option \in Options

\* "echo": the row as it is, idempotent; "terminal": AG_ALREADY_TERMINAL;
\* "reject": AG_NOT_FOUND, AG_STATE_CONFLICT or AG_INVALID_REQUEST.
Verdict(row, target, option) ==
  CASE AlreadyThere(row, target, option) -> "echo"
    [] IsTerminal(row.status) /\ ~AlreadyThere(row, target, option) -> "terminal"
    [] MayUpdate(row, target, option) -> "update"
    [] OTHER -> "reject"

\* Mutant of StillCurrent: UPDATE ... WHERE intervention_id = ? only.
StillCurrentById(row, read) == TRUE

\* The WHERE clause of the UPDATE, against the row that was read.
StillCurrent(row, read) == row.status = read.status /\ row.version = read.version

\* Mutants of Updated: the version is not raised; active_channel is not set.
UpdatedSameVersion(row, read, target, option, channel) ==
  [row EXCEPT !.status = target,
              !.decision = IF option = None THEN read.decision ELSE option,
              !.channel = IF channel = None THEN read.channel ELSE channel]
UpdatedNoChannel(row, read, target, option, channel) ==
  [row EXCEPT !.status = target, !.version = read.version + 1,
              !.decision = IF option = None THEN read.decision ELSE option]

\* The row the UPDATE writes; no caller's decision or channel keeps the column.
Updated(row, read, target, option, channel) ==
  [client |-> row.client,
   status |-> target,
   decision |-> IF option = None THEN read.decision ELSE option,
   version |-> read.version + 1,
   channel |-> IF channel = None THEN read.channel ELSE channel]

=============================================================================
