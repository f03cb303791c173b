--------------------------- MODULE GuardianClient ---------------------------
(***************************************************************************)
(* client/guardian.py against the daemon of EventHub: ask_human and guard, *)
(* the wait on a WebSocket that falls back to polling, the prompt on the   *)
(* agent's own stdin, the cancel on the way out.  A call is named by the   *)
(* client_request_id it generates.                                         *)
(***************************************************************************)
EXTENDS EventHub

CONSTANTS
  Kinds,    \* what an agent calls: subset of {"ask", "sync", "guard"}
  Sockets,  \* calls with prefer_websocket
  Prompts,  \* calls with local_terminal_prompt and a terminal among their channels
  Deny      \* deny_option_ids

\* How a call ends.  "early" is InterventionTimeoutError too, raised by the
\* client's own clock over a row that is still open.
Ends == {"returned", "denied", "timeout", "early", "cancelled", "failed", "error", "aborted"}

\* Faults: "create", "socket", "get", "cancel" (such a request fails), "abort"
\* (the agent cancels the task), "skew" (the agent's clock runs ahead of the
\* daemon's) and "restart".
ASSUME ClientAssumption ==
  /\ Kinds \subseteq {"ask", "sync", "guard"}
  /\ Clients \subseteq Subscribers
  /\ Sockets \cup Prompts \subseteq Clients
  /\ Deny \subseteq Options
  /\ None \notin Ends /\ {"none", "reading", "over"} \cap Options = {}

VARIABLES
  call,     \* call -> where it is, the id it knows, how it ends
  late,     \* calls whose wait has outlived timeout_seconds + 2
  prompt,   \* call -> its prompt task: "none", "reading", "over", or the option read
  readers   \* threads blocked in sys.stdin.readline, in the order they came

vars == <<hubVars, call, late, prompt, readers>>

Fresh == [kind |-> None, pc |-> "idle", id |-> None, end |-> None, unheard |-> FALSE]

Waits == {"connect", "recv", "final", "poll", "last"}

Goto(c, label) == call' = [call EXCEPT ![c].pc = label]

-----------------------------------------------------------------------------
(* Ways out.                                                               *)

\* finally: the prompt task is cancelled; its thread stays in readline.
DropPrompt(c) == prompt' = [prompt EXCEPT ![c] = IF @ = "none" THEN "none" ELSE "over"]

\* Leaving connect(...): the handler finds out when it next sends.
HangUp(c) == gone' = IF handler[c].pc = "none" THEN gone ELSE gone \cup {c}

\* asyncio.run joins the threads of its executor before it returns.
Over(c) == IF call[c].kind = "sync" THEN "joining" ELSE "done"

\* The call ends, by way of a cancel or not.
Leave(c, end, label) ==
  /\ call' = [call EXCEPT ![c].pc = label, ![c].end = end]
  /\ HangUp(c)
  /\ IF label = "cancel" THEN UNCHANGED prompt ELSE DropPrompt(c)

\* Mutant of Meaning: a deny option is an answer like any other.
MeaningResolved(status, option) ==
  CASE status = "RESOLVED" -> "returned"
    [] status = "TIMEOUT" -> "timeout"
    [] status = "CANCELLED" -> "cancelled"
    [] OTHER -> "failed"

\* _raise_or_return on a terminal update.
Meaning(status, option) ==
  CASE status = "RESOLVED" /\ option \notin Deny -> "returned"
    [] status = "RESOLVED" /\ option \in Deny -> "denied"
    [] status = "TIMEOUT" -> "timeout"
    [] status = "CANCELLED" -> "cancelled"
    [] OTHER -> "failed"

\* A timeout is cancelled once more, whether the daemon wrote it or not.
Learn(c, status, option) ==
  LET end == Meaning(status, option) IN
  Leave(c, end, IF end = "timeout" THEN "cancel" ELSE Over(c))

\* Mutant of GivesUp: an exception that is not a timeout is not cancelled.
GivesUpSilently(c, end) == Leave(c, end, IF end = "aborted" /\ call[c].kind # "guard" THEN "cancel" ELSE Over(c))

\* An exception during the wait: ask_human cancels only when it was cancelled
\* itself, guard always.
GivesUp(c, end) == Leave(c, end, IF end = "aborted" \/ call[c].kind = "guard" THEN "cancel" ELSE Over(c))

-----------------------------------------------------------------------------
(* ask_human and guard.                                                    *)

DaemonIdle == UNCHANGED <<expired, hub>>

Ask(c) ==
  /\ call[c].pc = "idle"
  /\ \E kind \in Kinds : call' = [call EXCEPT ![c].pc = "creating", ![c].kind = kind]
  /\ UNCHANGED <<hubVars, late, prompt, readers>>

\* POST /v1/interventions reaches the daemon ...
Created(c) ==
  /\ call[c].pc = "creating"
  /\ \E i \in Ids : Create(i, c)
  /\ Goto(c, "created")
  /\ UNCHANGED <<unsaid, sockets, late, prompt, readers>> /\ DaemonIdle

FirstWait(c) == IF c \in Sockets THEN "connect" ELSE "poll"

\* The local prompt, a task, and its thread in readline.
StartPrompt(c) ==
  IF c \in Prompts
    THEN prompt' = [prompt EXCEPT ![c] = "reading"] /\ readers' = Append(readers, c)
    ELSE UNCHANGED <<prompt, readers>>

\* ... and its answer the client.
CreateReturns(c) ==
  /\ call[c].pc = "created"
  /\ \E i \in Ids : record[i].client = c
                    /\ call' = [call EXCEPT ![c].pc = FirstWait(c), ![c].id = i]
  /\ StartPrompt(c)
  /\ UNCHANGED <<hubVars, late>>

\* No try around http.create: nothing is cancelled.
CreateFails(c) ==
  /\ call[c].pc \in {"creating", "created"}
  /\ \/ "create" \in Faults /\ Leave(c, "error", Over(c))
     \/ "abort" \in Faults /\ Leave(c, "aborted", Over(c))
  /\ UNCHANGED <<record, unsaid, handler, wire, late, readers>> /\ DaemonIdle

\* Any exception of _wait_websocket, its own timeout too: _wait_poll, with a new
\* deadline.
FallBack(c) == Goto(c, "poll") /\ HangUp(c) /\ late' = late \ {c}

Connect(c) ==
  /\ call[c].pc = "connect"
  /\ Accept(c, call[c].id)
  /\ Goto(c, "recv")
  /\ UNCHANGED <<record, unsaid, wire, gone, late, prompt, readers>> /\ DaemonIdle

\* Refused or dropped; a failing GET of "final" is no different.
SocketFails(c) ==
  /\ "socket" \in Faults
  /\ call[c].pc \in {"connect", "recv", "final"}
  /\ FallBack(c)
  /\ UNCHANGED <<record, unsaid, handler, wire, prompt, readers>> /\ DaemonIdle

\* Closed by the handler, with nothing left to read.
SocketCloses(c) ==
  /\ call[c].pc = "recv"
  /\ handler[c].pc = "closed" /\ wire[c] = <<>>
  /\ FallBack(c)
  /\ UNCHANGED <<record, unsaid, handler, wire, prompt, readers>> /\ DaemonIdle

Recv(c) ==
  LET m == Head(wire[c]) IN
  /\ call[c].pc = "recv"
  /\ wire[c] # <<>>
  /\ wire' = [wire EXCEPT ![c] = Tail(@)]
  /\ IF IsTerminal(m.status) THEN Learn(c, m.status, m.option) ELSE UNCHANGED <<call, gone, prompt>>
  /\ UNCHANGED <<record, unsaid, handler, late, readers>> /\ DaemonIdle

\* Mutant of RecvLate: the loop waits for a terminal update for ever.
RecvLateWaits(c) == call[c].pc = "recv" /\ c \in late /\ UNCHANGED vars

\* The deadline has passed: out of the socket, to one last GET.
RecvLate(c) ==
  /\ call[c].pc = "recv"
  /\ c \in late
  /\ Goto(c, "final")
  /\ HangUp(c)
  /\ UNCHANGED <<record, unsaid, handler, wire, late, prompt, readers>> /\ DaemonIdle

\* GET: what the row is once an overdue one has timed out.
Get(c) ==
  LET i == call[c].id IN
  /\ Read(i)
  /\ IF IsTerminal(record'[i].status)
       THEN Learn(c, record'[i].status, record'[i].decision) /\ UNCHANGED late
       ELSE CASE call[c].pc = "final" -> FallBack(c) /\ UNCHANGED prompt
              [] call[c].pc = "last" -> Leave(c, "early", "cancel") /\ UNCHANGED late
              [] OTHER -> /\ Goto(c, IF c \in late THEN "last" ELSE "poll")
                          /\ UNCHANGED <<gone, late, prompt>>

Poll(c) ==
  /\ call[c].pc \in {"final", "poll", "last"}
  /\ Get(c)
  /\ UNCHANGED <<handler, wire, readers>> /\ DaemonIdle

\* A GET of the poll fails.
PollFails(c) ==
  /\ "get" \in Faults
  /\ call[c].pc \in {"poll", "last"}
  /\ GivesUp(c, "error")
  /\ UNCHANGED <<record, unsaid, handler, wire, late, readers>> /\ DaemonIdle

\* The agent's task is cancelled during the wait.
Abort(c) ==
  /\ "abort" \in Faults
  /\ call[c].pc \in Waits
  /\ GivesUp(c, "aborted")
  /\ UNCHANGED <<record, unsaid, handler, wire, late, readers>> /\ DaemonIdle

\* After a cancel that is not the last of guard, the finally block has another.
AfterCancel(c) ==
  IF call[c].kind = "guard" /\ call[c].end \notin {"timeout", "early"} /\ call[c].pc = "cancel"
    THEN "again" ELSE Over(c)

\* _best_effort_cancel: its failure is swallowed.
BestEffortCancel(c) ==
  /\ call[c].pc \in {"cancel", "again"}
  /\ \/ Cancel(call[c].id) /\ call' = [call EXCEPT ![c].pc = AfterCancel(c), ![c].unheard = FALSE]
     \/ /\ "cancel" \in Faults
        /\ call' = [call EXCEPT ![c].pc = AfterCancel(c), ![c].unheard = TRUE]
        /\ UNCHANGED <<record, unsaid>>
  /\ DropPrompt(c)
  /\ UNCHANGED <<sockets, late, readers>> /\ DaemonIdle

Joined(c) ==
  /\ call[c].pc = "joining"
  /\ \A n \in DOMAIN readers : readers[n] # c
  /\ Goto(c, "done")
  /\ UNCHANGED <<hubVars, late, prompt, readers>>

\* A wait is timeout_seconds + 2 long and starts after the row, so the row is
\* overdue before it unless the clocks disagree.
Deadline(c) ==
  /\ call[c].pc \in Waits
  /\ c \notin late
  /\ expired[call[c].id] \/ "skew" \in Faults
  /\ late' = late \cup {c}
  /\ UNCHANGED <<hubVars, call, prompt, readers>>

-----------------------------------------------------------------------------
(* The prompt on stdin.                                                    *)

\* A line names an option, by number or by id, or none.
Choices == Options \cup {"over"}

\* A line goes to the thread that came first, be its prompt over or not.
LineTyped ==
  /\ readers # <<>>
  /\ LET c == Head(readers) IN
       IF prompt[c] = "reading"
         THEN \E choice \in Choices : prompt' = [prompt EXCEPT ![c] = choice]
         ELSE UNCHANGED prompt
  /\ readers' = Tail(readers)
  /\ UNCHANGED <<hubVars, call, late>>

\* POST decide; its errors are ignored.
PromptDecides(c) ==
  /\ prompt[c] \in Options
  /\ Decide(call[c].id, prompt[c])
  /\ prompt' = [prompt EXCEPT ![c] = "over"]
  /\ UNCHANGED <<sockets, call, late, readers>> /\ DaemonIdle

-----------------------------------------------------------------------------

ClientInit ==
  /\ HubInit
  /\ call = [c \in Clients |-> Fresh]
  /\ late = {}
  /\ prompt = [c \in Clients |-> "none"]
  /\ readers = <<>>

\* What the event loop and the daemon do for a call without anybody's wish.
Progress(c) ==
  \/ Created(c) \/ CreateReturns(c) \/ Connect(c) \/ Recv(c) \/ RecvLate(c) \/ Poll(c)
  \/ BestEffortCancel(c) \/ Joined(c) \/ Deadline(c) \/ PromptDecides(c)
  \/ SocketCloses(c)

ClientStep(c) == Ask(c) \/ Progress(c) \/ CreateFails(c) \/ SocketFails(c) \/ PollFails(c) \/ Abort(c)

Daemon ==
  \/ \E i \in Ids : DaemonStep(i)
  \/ \E s \in Subscribers : HandlerStep(s)
  \/ Restart

ClientNext ==
  \/ \E c \in Clients : ClientStep(c)
  \/ LineTyped
  \/ Daemon /\ UNCHANGED <<call, late, prompt, readers>>

ClientSpec == ClientInit /\ [][ClientNext]_vars

\* Clocks run, the event loops of both processes serve their tasks, a request
\* ends.  Nothing obliges a human, a channel or the one who types.
ClientFairness ==
  /\ \A c \in Clients : WF_vars(Progress(c))
  /\ \A i \in Ids : WF_vars(ClockPasses(i) /\ UNCHANGED <<call, late, prompt, readers>>)

FairClientSpec == ClientSpec /\ ClientFairness

-----------------------------------------------------------------------------
(* What the SDK must guarantee.                                            *)

\* Queues stay within their bound, and calls and prompts have their shape.
ClientTypeOK ==
  /\ \A s \in Subscribers : Len(queue[s]) <= QueueSize
  /\ call \in [Clients -> [kind : Kinds \cup {None},
                           pc : {"idle", "creating", "created", "cancel", "again", "joining", "done"}
                                \cup Waits,
                           id : Ids \cup {None}, end : Ends \cup {None}, unheard : BOOLEAN]]
  /\ \A c \in Clients : call[c].id # None => record[call[c].id].client = c
  /\ prompt \in [Clients -> {"none", "reading", "over"} \cup Options]

\* The outcome a call has read and tells its agent is what the row says for
\* good, by whichever way it came: snapshot, broadcast, poll or last GET.  The
\* agent goes ahead only if a human chose an option that is not a refusal.  Not
\* said of an error that is no outcome, nor of the "early" call: where clocks
\* disagree it tells its agent of a timeout nobody has written.
ToldTheOutcome ==
  \A c \in Clients :
    LET r == record[call[c].id] IN
    call[c].id # None =>
      /\ call[c].end = "returned" => r.status = "RESOLVED" /\ r.decision \in Options \ Deny
      /\ call[c].end = "denied" => r.status = "RESOLVED" /\ r.decision \in Deny
      /\ call[c].end = "timeout" => r.status = "TIMEOUT"
      /\ call[c].end = "cancelled" => r.status = "CANCELLED"
      /\ call[c].end = "failed" => r.status = "FAILED"

\* A call that gave up in its wait (its own deadline, the agent's cancellation,
\* for guard any error) leaves no question open to a human, unless the daemon
\* never heard its last cancel.
LeavesNoQuestion ==
  \A c \in Clients :
    /\ call[c].pc \in {"joining", "done"}
    /\ call[c].id # None
    /\ call[c].end # "error" \/ call[c].kind = "guard"
    /\ ~call[c].unheard
    => IsTerminal(record[call[c].id].status)

\* A call that has begun ends, even if its WebSocket dies, its update is dropped
\* or never published, and nobody answers.
CallsEnd == \A c \in Clients : call[c].pc = "creating" ~> call[c].pc \in {"joining", "done"}

=============================================================================
