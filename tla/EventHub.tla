------------------------------ MODULE EventHub ------------------------------
(***************************************************************************)
(* daemon/events.py and the WebSocket handler of app.py that serves it.    *)
(* The daemon behind them is the one Intervention promises: here one step  *)
(* writes a row and, where the service has awaits in between, a later one  *)
(* publishes it (InterventionService has those tasks).                     *)
(***************************************************************************)
EXTENDS Intervention, Sequences

CONSTANTS
  Subscribers,  \* WebSocket connections to /v1/ws, each with its handler
  QueueSize,    \* asyncio.Queue(maxsize=64) of a subscriber
  Faults        \* subset of {"restart"} and of what else GuardianClient names

ASSUME HubAssumption == QueueSize \in Nat \ {0}

VARIABLES
  expired,  \* id -> now >= expires_at
  unsaid,   \* settled interventions whose task has still to publish
  said,     \* id -> the last status published
  handler,  \* subscriber -> where its ws_endpoint is
  queue,    \* subscriber -> updates put and not yet taken
  wire,     \* subscriber -> messages sent and not yet received
  gone      \* connections the other end has left, or that are lost

hub == <<said, queue>>
sockets == <<handler, wire, gone>>
hubVars == <<record, expired, unsaid, hub, sockets>>

NoUpdate == [id |-> None, status |-> Absent, option |-> None]
Update(i, r) == [id |-> i, status |-> r.status, option |-> r.decision]

-----------------------------------------------------------------------------
(* EventHub.                                                               *)

\* Mutant of Subscribed: the handler subscribes once it has sent its snapshot.
SubscribedLate(s, i) == handler[s].pc \in {"loop", "closing"} /\ handler[s].topic = i

\* Between subscribe and unsubscribe the queue is in the set of its intervention.
\* (Nothing in the repository connects without an id: no global subscribers.)
Subscribed(s, i) ==
  handler[s].pc \in {"snapshot", "send", "loop", "closing"} /\ handler[s].topic = i

\* Mutant of Offer: a queue without its bound.
OfferAlways(q, update) == Append(q, update)

\* put_nowait; QueueFull drops the update that has just come.
Offer(q, update) == IF Len(q) < QueueSize THEN Append(q, update) ELSE q

Publish(update) ==
  /\ queue' = [s \in Subscribers |->
       IF Subscribed(s, update.id) THEN Offer(queue[s], update) ELSE queue[s]]
  /\ said' = [said EXCEPT ![update.id] = update.status]

-----------------------------------------------------------------------------
(* The daemon's writes.                                                    *)

\* A delivery: mark_awaiting or the FAILED of no channel, published in the same
\* breath; NOTIFIED is only its first half.  (What recovery delivers again and
\* finds AWAITING_HUMAN writes nothing; its update, said once more to the queues
\* of the new incarnation, is left out.)
Deliver(i) ==
  /\ \E target \in {"NOTIFIED", "AWAITING_HUMAN", "FAILED"} :
       /\ Transition(i, target, None)
       /\ IF target = "NOTIFIED" THEN UNCHANGED hub ELSE Publish(Update(i, record'[i]))
  /\ UNCHANGED <<expired, unsaid, sockets>>

Settle(i, target, option) == Transition(i, target, option) /\ unsaid' = unsaid \cup {i}

Overdue(i) == IsOpen(record[i].status) /\ expired[i]

\* get_updated: whoever reads an overdue row times it out.
Read(i) == IF Overdue(i) THEN Settle(i, "TIMEOUT", None) ELSE UNCHANGED <<record, unsaid>>

\* decide: the timeout it finds is not announced; the echo of the same decision
\* is announced once more; anything else on a settled row is refused.
Decide(i, option) ==
  CASE Overdue(i) -> Transition(i, "TIMEOUT", None) /\ UNCHANGED unsaid
    [] ~Overdue(i) /\ CanTransition(record[i].status, "RESOLVED") -> Settle(i, "RESOLVED", option)
    [] OTHER -> /\ unsaid' = IF record[i].decision = option THEN unsaid \cup {i} ELSE unsaid
                /\ UNCHANGED record

\* cancel: CANCELLED is echoed too.
Cancel(i) ==
  IF CanTransition(record[i].status, "CANCELLED")
    THEN Settle(i, "CANCELLED", None)
    ELSE /\ unsaid' = IF record[i].status = "CANCELLED" THEN unsaid \cup {i} ELSE unsaid
         /\ UNCHANGED record

\* Whoever else may touch the row: a tap, the console and its list of what is
\* open, the daemon's stdin.
Others(i) ==
  /\ record[i].status # Absent
  /\ \/ Cancel(i)
     \/ Overdue(i) /\ Read(i)
     \/ \E o \in Options : Decide(i, o)
  /\ UNCHANGED <<expired, hub, sockets>>

\* The end of a decide, cancel or get_updated, once the card is revoked.
Announce(i) ==
  /\ i \in unsaid
  /\ Publish(Update(i, record[i]))
  /\ unsaid' = unsaid \ {i}
  /\ UNCHANGED <<record, expired, sockets>>

ClockPasses(i) ==
  /\ record[i].status # Absent
  /\ ~expired[i]
  /\ expired' = [expired EXCEPT ![i] = TRUE]
  /\ UNCHANGED <<record, unsaid, hub, sockets>>

-----------------------------------------------------------------------------
(* ws_endpoint.                                                            *)

NoHandler == [pc |-> "none", topic |-> None, out |-> NoUpdate]
Handle(s, label, out) == handler' = [handler EXCEPT ![s].pc = label, ![s].out = out]

\* The other end has opened the connection.
Accept(s, topic) == handler' = [handler EXCEPT ![s] = [NoHandler EXCEPT !.pc = "accepted", !.topic = topic]]

\* hub.subscribe, and only then the snapshot.
Subscribe(s) ==
  /\ handler[s].pc = "accepted"
  /\ Handle(s, "snapshot", NoUpdate)
  /\ UNCHANGED <<record, expired, unsaid, hub, wire, gone>>

Snapshot(s) ==
  LET i == handler[s].topic IN
  /\ handler[s].pc = "snapshot"
  /\ Read(i)
  /\ Handle(s, "send", Update(i, record'[i]))
  /\ UNCHANGED <<expired, hub, wire, gone>>

\* queue.get: a handler that waits here does not see the other end leave.
Take(s) ==
  /\ handler[s].pc = "loop"
  /\ queue[s] # <<>>
  /\ Handle(s, "send", Head(queue[s]))
  /\ queue' = [queue EXCEPT ![s] = Tail(@)]
  /\ UNCHANGED <<record, expired, unsaid, said, wire, gone>>

\* send_json, then out of the loop after a terminal update or a disconnect.
Send(s) ==
  LET out == handler[s].out IN
  /\ handler[s].pc = "send"
  /\ wire' = IF s \in gone THEN wire ELSE [wire EXCEPT ![s] = Append(@, out)]
  /\ Handle(s, IF s \in gone \/ IsTerminal(out.status) THEN "closing" ELSE "loop", NoUpdate)
  /\ UNCHANGED <<record, expired, unsaid, hub, gone>>

Unsubscribe(s) ==
  /\ handler[s].pc = "closing"
  /\ Handle(s, "closed", NoUpdate)
  /\ queue' = [queue EXCEPT ![s] = <<>>]
  /\ UNCHANGED <<record, expired, unsaid, said, wire, gone>>

\* The daemon dies and comes back: the rows stay, what it had to publish and its
\* connections do not.  (What recovery delivers again is a Deliver.)
Restart ==
  /\ "restart" \in Faults
  /\ unsaid' = {}
  /\ handler' = [s \in Subscribers |->
       IF handler[s].pc = "none" THEN handler[s] ELSE [handler[s] EXCEPT !.pc = "closed", !.out = NoUpdate]]
  /\ queue' = [s \in Subscribers |-> <<>>]
  /\ UNCHANGED <<record, expired, said, wire, gone>>

HubInit ==
  /\ Init
  /\ expired = [i \in Ids |-> FALSE]
  /\ unsaid = {}
  /\ said = [i \in Ids |-> Absent]
  /\ handler = [s \in Subscribers |-> NoHandler]
  /\ queue = [s \in Subscribers |-> <<>>]
  /\ wire = [s \in Subscribers |-> <<>>]
  /\ gone = {}

DaemonStep(i) == Deliver(i) \/ Others(i) \/ Announce(i) \/ ClockPasses(i)

HandlerStep(s) == Subscribe(s) \/ Snapshot(s) \/ Take(s) \/ Send(s) \/ Unsubscribe(s)

-----------------------------------------------------------------------------

\* No handler waits for ever on the outcome of its intervention: once a terminal
\* update has been published, a handler that serves the intervention has it in
\* its queue or has sent it.  It subscribes before it reads its snapshot, so
\* nothing falls between the two (app.py, ws_endpoint).
NoDeafHandler ==
  \A s \in Subscribers :
    /\ handler[s].pc = "loop"
    /\ IsTerminal(said[handler[s].topic])
    => \E n \in DOMAIN queue[s] : IsTerminal(queue[s][n].status)

=============================================================================
