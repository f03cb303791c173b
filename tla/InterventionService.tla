------------------------- MODULE InterventionService -------------------------
(***************************************************************************)
(* daemon/service.py with the Telegram channel, its poller, the terminal   *)
(* reader and the HTTP handlers that call it, at the grain of its awaits.  *)
(* A store operation is one step here: InterventionStore shows what one is *)
(* at the grain of SQL statements.  What dies with the process is kept     *)
(* apart from what does not (the database, and Telegram's own state).      *)
(***************************************************************************)
EXTENDS CompareAndSet, Sequences, FiniteSets

CONSTANTS
  Ids,         \* interventions; also their client_request_ids
  Tokens,      \* callback tokens, each naming the card sent with it
  Callers,     \* HTTP requests in progress at once
  Configured,  \* channels build_channels has set up, "terminal" among them
  Requested,   \* sequence of channels a request names, or the default ones
  Faults,      \* subset of {"crash", "send", "revoke", "snapshot"}
  MaxTaps,     \* bound: taps a human ever makes
  MaxCrashes   \* bound: crashes of the daemon

ASSUME ServiceAssumption ==
  /\ "terminal" \in Configured
  /\ Requested \in Seq(STRING)
  /\ MaxTaps \in Nat /\ MaxCrashes \in Nat
  /\ None \notin Ids \cup Tokens \cup Callers \cup Options \cup Configured \cup {"stdin", "stderr"}
  /\ Tokens \cap {"stdin", "stderr"} = {}
  /\ Callers \cap {"poller", "stdin", "boot"} = {}

\* _preferred_channels: the terminal is always tried, last if not named.
Preferred ==
  IF \E n \in DOMAIN Requested : Requested[n] = "terminal" THEN Requested
                                                     ELSE Append(Requested, "terminal")

\* Whatever may call decide: the handlers, the poller, the stdin reader; "boot"
\* is recover_open.
Actors == Callers \cup {"poller", "stdin", "boot"}

VARIABLES
  row,        \* interventions table
  token,      \* callback_tokens table
  expired,    \* id -> now >= expires_at
  card,       \* Telegram: token -> "none", "up" (buttons shown) or "down"
  taps,       \* Telegram: callback queries in the order they were made
  confirmed,  \* Telegram: updates a getUpdates offset has acknowledged
  crashes,    \* crashes so far
  phase,      \* "down", "recovering" or "up"
  toRecover,  \* list_open() rows recover_open has not come to
  delivery,   \* id -> the _deliver task
  reader,     \* id -> a terminal reader is waiting on stdin
  messages,   \* TelegramChannel._messages
  messageIds, \* InterventionService._message_ids
  act,        \* actor -> the call it is in
  offset,     \* updates the poller has handled
  heard       \* id -> the last status EventHub.publish fanned out

durable == <<row, token, expired, card, taps, confirmed>>
memory == <<messages, messageIds>>
process == <<crashes, phase, toRecover>>
vars == <<durable, process, delivery, reader, memory, act, offset, heard>>

NoToken == [id |-> None, revoked |-> FALSE]
Idle == [pc |-> "idle", flow |-> "none", id |-> None, option |-> None, mid |-> None,
         update |-> Absent, card |-> None, late |-> FALSE]
NotDelivering == [pc |-> "idle", todo |-> <<>>, token |-> None]

-----------------------------------------------------------------------------
(* Store operations, one step each.                                        *)

\* Mutant of RevokeAll: no UPDATE of callback_tokens.
RevokeNone(i) == token

RevokeAll(i) ==
  [k \in Tokens |-> IF token[k].id = i THEN [token[k] EXCEPT !.revoked = TRUE] ELSE token[k]]

\* cas_update once its verdict is "update".
WriteRow(i, target, option, channel) ==
  /\ row' = [row EXCEPT ![i] = Updated(@, @, target, option, channel)]
  /\ token' = IF IsTerminal(target) THEN RevokeAll(i) ELSE token

\* The store's lock is free: mark_awaiting is not between its two updates.
LockFree == \A i \in Ids : delivery[i].pc # "hop"

Publish(i, status) == heard' = [heard EXCEPT ![i] = status]

\* resolve_callback_data: None for a token that is unknown or revoked.
Resolves(k) == token[k].id # None /\ ~token[k].revoked

-----------------------------------------------------------------------------
(* Actors.                                                                 *)

Goto(a, label) == act' = [act EXCEPT ![a].pc = label]
Return(a) == act' = [act EXCEPT ![a] = Idle]

\* The actors' moves leave alone what only deliveries and Telegram change.
Elsewhere == UNCHANGED <<expired, card, taps, confirmed, process, delivery, reader, offset>>

Request(a, flow, i, option, mid, label) ==
  /\ act[a].pc = "idle"
  /\ act' = [act EXCEPT ![a] =
       [Idle EXCEPT !.pc = label, !.flow = flow, !.id = i, !.option = option,
                    !.mid = mid, !.late = expired[i]]]

\* POST /v1/interventions, .../decision, .../cancel, GET (and one of the rows
\* list_open_summaries visits, and the first message of the WebSocket).
HttpRequest(a) ==
  /\ a \in Callers
  /\ phase = "up"
  /\ \E i \in Ids :
       \/ Request(a, "create", i, None, None, "create")
       \/ /\ row[i].status # Absent
          /\ \/ \E o \in Options : Request(a, "decide", i, o, None, "expire")
             \/ Request(a, "cancel", i, None, None, "cas")
             \/ Request(a, "get", i, None, None, "expire")
  /\ UNCHANGED <<durable, process, delivery, reader, memory, offset, heard>>

\* Mutant of CreateReused: a reused intervention is delivered again.
CreateReusedDelivers(a) ==
  /\ act[a].pc = "create"
  /\ LockFree
  /\ row[act[a].id].status # Absent
  /\ Goto(a, "spawn")
  /\ UNCHANGED <<row, token, memory, heard>> /\ Elsewhere

\* service.create: the row of this client_request_id, or a new one.
CreateReused(a) ==
  /\ act[a].pc = "create"
  /\ LockFree
  /\ row[act[a].id].status # Absent
  /\ Return(a)
  /\ UNCHANGED <<row, token, memory, heard>> /\ Elsewhere

CreateNew(a) ==
  LET i == act[a].id IN
  /\ act[a].pc = "create"
  /\ LockFree
  /\ row[i].status = Absent
  /\ row' = [row EXCEPT ![i] = NewRow(i)]
  /\ Goto(a, "spawn")
  /\ UNCHANGED <<token, memory, heard>> /\ Elsewhere

\* After the snapshot is written to disk and update_request has stored its URL
\* (one more await).  If either raises, create raises with the row in the table
\* and nobody to deliver it, until a restart recovers it.
SpawnDelivery(a) ==
  /\ act[a].pc = "spawn"
  /\ \/ delivery' = [delivery EXCEPT ![act[a].id] =
          [NotDelivering EXCEPT !.pc = "next", !.todo = Preferred]]
     \/ "snapshot" \in Faults /\ UNCHANGED delivery
  /\ Return(a)
  /\ UNCHANGED <<durable, process, reader, memory, offset, heard>>

\* Mutant of Goon: a GET polls on until the row times out.
GoonPolling(a) ==
  CASE act[a].flow = "decide" -> Goto(a, "cas")
    [] act[a].flow = "recover" -> Goto(a, "spawn")
    [] OTHER -> Goto(a, "expire")

\* Where a flow goes on when the intervention has not timed out: decide tries
\* its update, get_updated returns, recover_open delivers the row it had read.
Goon(a) ==
  CASE act[a].flow = "decide" -> Goto(a, "cas")
    [] act[a].flow = "recover" -> Goto(a, "spawn")
    [] OTHER -> Return(a)

\* Mutant of Expire: decide does not check the deadline.
ExpireNotOnDecide(a) ==
  LET i == act[a].id IN
  /\ act[a].pc = "expire"
  /\ IF IsOpen(row[i].status) /\ expired[i] /\ act[a].flow # "decide"
       THEN Goto(a, "expire_cas") ELSE Goon(a)
  /\ UNCHANGED <<row, token, memory, heard>> /\ Elsewhere

\* apply_timeout_if_expired reads the row ...
Expire(a) ==
  LET i == act[a].id IN
  /\ act[a].pc = "expire"
  /\ IF IsOpen(row[i].status) /\ expired[i] THEN Goto(a, "expire_cas") ELSE Goon(a)
  /\ UNCHANGED <<row, token, memory, heard>> /\ Elsewhere

\* ... and updates it, or finds it settled meanwhile: either way the caller has
\* an update to announce, except decide, which drops it.
ExpireCas(a) ==
  LET i == act[a].id IN
  /\ act[a].pc = "expire_cas"
  /\ LockFree
  /\ IF Verdict(row[i], "TIMEOUT", None) = "update"
       THEN WriteRow(i, "TIMEOUT", None, None)
       ELSE UNCHANGED <<row, token>>
  /\ IF act[a].flow = "decide"
       THEN Goon(a)
       ELSE act' = [act EXCEPT ![a].pc = "lookup", ![a].update = row'[i].status]
  /\ UNCHANGED <<memory, heard>> /\ Elsewhere

Target(flow) == IF flow = "decide" THEN "RESOLVED" ELSE "CANCELLED"

\* Mutant of PollerMovesOn: offset moves past the update that follows.
PollerMovesPast(a) == offset' = IF a = "poller" THEN offset + 2 ELSE offset

\* The poller has handled an update whatever became of it: offset moves on.
PollerMovesOn(a) == offset' = IF a = "poller" THEN offset + 1 ELSE offset

\* decide and cancel: the update, or the echo of one already made.
Settle(a) ==
  LET c == act[a]
      target == Target(c.flow)
      verdict == Verdict(row[c.id], target, c.option)
  IN
  /\ c.pc = "cas"
  /\ LockFree
  /\ verdict \in {"update", "echo"}
  /\ IF verdict = "update" THEN WriteRow(c.id, target, c.option, None)
                           ELSE UNCHANGED <<row, token>>
  /\ messageIds' = IF c.mid = None THEN messageIds ELSE [messageIds EXCEPT ![c.id] = c.mid]
  /\ act' = [act EXCEPT ![a].pc = "lookup", ![a].update = target]
  /\ UNCHANGED <<messages, heard>> /\ Elsewhere

\* AG_ALREADY_TERMINAL (cancel echoes the status instead of raising), or
\* AG_STATE_CONFLICT: nothing is revoked or published.
Refused(a) ==
  LET c == act[a] IN
  /\ c.pc = "cas"
  /\ LockFree
  /\ Verdict(row[c.id], Target(c.flow), c.option) \in {"terminal", "reject"}
  /\ Return(a)
  /\ PollerMovesOn(a)
  /\ UNCHANGED <<durable, process, delivery, reader, memory, heard>>

\* The card TelegramChannel.revoke_card will edit: the one it remembers, else
\* the message id it is given, if that is one of its own ("stdin" is not an int).
CardOf(i, mid) ==
  IF messages[i] # None THEN messages[i] ELSE IF mid \in Tokens THEN mid ELSE None

\* _revoke_remote up to the request it sends, when it has one to send.
Lookup(a) ==
  LET c == act[a]
      mid == IF c.mid # None THEN c.mid ELSE messageIds[c.id]
      target == CardOf(c.id, mid)
  IN
  /\ c.pc = "lookup"
  /\ row[c.id].channel = "telegram"
  /\ "telegram" \in Configured
  /\ target # None
  /\ act' = [act EXCEPT ![a].pc = "revoke", ![a].card = target]
  /\ UNCHANGED <<row, token, memory, heard>> /\ Elsewhere

\* Mutant of Announce: the flow ends without hub.publish.
AnnounceNothing(a) ==
  /\ UNCHANGED heard
  /\ IF a = "poller" THEN Goto(a, "clear") ELSE Return(a)

\* End of a flow that announces its update.  The poller revokes once more.
Announce(a) ==
  /\ Publish(act[a].id, act[a].update)
  /\ IF a = "poller" THEN Goto(a, "clear") ELSE Return(a)

NothingToRevoke(a) ==
  LET c == act[a]
      mid == IF c.mid # None THEN c.mid ELSE messageIds[c.id]
  IN
  /\ c.pc = "lookup"
  /\ row[c.id].channel # "telegram" \/ "telegram" \notin Configured \/ CardOf(c.id, mid) = None
  /\ Announce(a)
  /\ UNCHANGED <<row, token, memory>> /\ Elsewhere

\* editMessageReplyMarkup removes the buttons; a failure is swallowed.
TakeDown(k) ==
  \/ card' = [card EXCEPT ![k] = "down"]
  \/ "revoke" \in Faults /\ UNCHANGED card

Revoke(a) ==
  LET c == act[a] IN
  /\ c.pc = "revoke"
  /\ TakeDown(c.card)
  /\ messages' = [messages EXCEPT ![c.id] = None]
  /\ Announce(a)
  /\ UNCHANGED <<row, token, expired, taps, confirmed, process, delivery, reader,
                 messageIds, offset>>

-----------------------------------------------------------------------------
(* _deliver                                                                *)

Deliver(i, record) == delivery' = [delivery EXCEPT ![i] = record]

\* The deliveries leave alone what only actors and Telegram change.
DeliveryElsewhere == UNCHANGED <<expired, taps, confirmed, process, act, offset>>

Channel(i) == Head(delivery[i].todo)
NextChannel(i) ==
  Deliver(i, [NotDelivering EXCEPT !.pc = "next", !.todo = Tail(delivery[i].todo)])

\* The head of the list: skip it, fetch a token for it, or send to it.
PickChannel(i) ==
  LET d == delivery[i] IN
  /\ d.pc = "next"
  /\ d.todo # <<>>
  /\ IF Channel(i) \notin Configured
       THEN NextChannel(i)
       ELSE Deliver(i, [d EXCEPT !.pc = IF Channel(i) = "telegram" THEN "token" ELSE "send"])
  /\ UNCHANGED <<row, token, card, reader, memory, heard>> /\ DeliveryElsewhere

\* allocate_callback_token: whatever the row's status is by now.
AllocateToken(i) ==
  /\ delivery[i].pc = "token"
  /\ LockFree
  /\ \E k \in Tokens :
       /\ token[k] = NoToken
       /\ token' = [token EXCEPT ![k] = [id |-> i, revoked |-> FALSE]]
       /\ Deliver(i, [delivery[i] EXCEPT !.pc = "send", !.token = k])
  /\ UNCHANGED <<row, card, reader, memory, heard>> /\ DeliveryElsewhere

\* Telegram shows the card; the reply is still on its way.
SendCard(i) ==
  /\ delivery[i].pc = "send"
  /\ Channel(i) = "telegram"
  /\ card' = [card EXCEPT ![delivery[i].token] = "up"]
  /\ Deliver(i, [delivery[i] EXCEPT !.pc = "sent"])
  /\ UNCHANGED <<row, token, reader, memory, heard>> /\ DeliveryElsewhere

\* The reply: both memories of the message id are filled in.
CardSent(i) ==
  /\ delivery[i].pc = "sent"
  /\ messages' = [messages EXCEPT ![i] = delivery[i].token]
  /\ messageIds' = [messageIds EXCEPT ![i] = delivery[i].token]
  /\ Deliver(i, [delivery[i] EXCEPT !.pc = "mark"])
  /\ UNCHANGED <<row, token, card, reader, heard>> /\ DeliveryElsewhere

\* The terminal prints, Bark and Webhook push: no buttons, no token.
PushCard(i) ==
  /\ delivery[i].pc = "send"
  /\ Channel(i) # "telegram"
  /\ messageIds' = IF Channel(i) = "terminal" THEN [messageIds EXCEPT ![i] = "stderr"]
                                              ELSE messageIds
  /\ Deliver(i, [delivery[i] EXCEPT !.pc = "mark"])
  /\ UNCHANGED <<row, token, card, reader, messages, heard>> /\ DeliveryElsewhere

\* Backoff is exhausted, the API refuses, or the reply is lost ("sent"): the
\* next channel is tried, and what was sent stays.
SendFails(i) ==
  /\ "send" \in Faults
  /\ delivery[i].pc \in {"send", "sent"}
  /\ NextChannel(i)
  /\ UNCHANGED <<row, token, card, reader, memory, heard>> /\ DeliveryElsewhere

\* mark_awaiting on a PENDING row: NOTIFIED first.  A crash can leave it there.
MarkNotified(i) ==
  /\ delivery[i].pc = "mark"
  /\ LockFree
  /\ row[i].status = "PENDING"
  /\ WriteRow(i, "NOTIFIED", None, Channel(i))
  /\ Deliver(i, [delivery[i] EXCEPT !.pc = "hop"])
  /\ UNCHANGED <<card, reader, memory, heard>> /\ DeliveryElsewhere

\* Mutant of Awaited: the update does not ask what the row has become.
AwaitedAnyway(r, channel) == Updated(r, r, "AWAITING_HUMAN", None, channel)

\* The row mark_awaiting leaves: one that is AWAITING_HUMAN already, or
\* terminal, stays as it is, its active_channel too.
Awaited(r, channel) ==
  IF r.status = "NOTIFIED" THEN Updated(r, r, "AWAITING_HUMAN", None, channel) ELSE r

\* mark_awaiting to its end, the broadcast of its result, the terminal's reader.
MarkAwaiting(i) ==
  /\ \/ delivery[i].pc = "hop"
     \/ delivery[i].pc = "mark" /\ LockFree /\ row[i].status # "PENDING"
  /\ row' = [row EXCEPT ![i] = Awaited(@, Channel(i))]
  /\ Publish(i, row'[i].status)
  /\ reader' = IF Channel(i) = "terminal" THEN [reader EXCEPT ![i] = TRUE] ELSE reader
  /\ Deliver(i, NotDelivering)
  /\ UNCHANGED <<token, card, memory>> /\ DeliveryElsewhere

\* No channel took it: FAILED, unless it is settled already.
AllFailed(i) ==
  /\ delivery[i].pc = "next"
  /\ delivery[i].todo = <<>>
  /\ LockFree
  /\ IF Verdict(row[i], "FAILED", None) = "update"
       THEN WriteRow(i, "FAILED", None, None) /\ Publish(i, "FAILED")
       ELSE UNCHANGED <<row, token, heard>>
  /\ Deliver(i, NotDelivering)
  /\ UNCHANGED <<card, reader, memory>> /\ DeliveryElsewhere

-----------------------------------------------------------------------------
(* The human, Telegram, the poller and stdin.                              *)

Tap(k, o) ==
  /\ card[k] = "up"
  /\ Len(taps) < MaxTaps
  /\ taps' = Append(taps, [token |-> k, option |-> o])
  /\ UNCHANGED <<row, token, expired, card, confirmed, process, delivery, reader, memory,
                 act, offset, heard>>

\* The next getUpdates carries the offset: Telegram forgets what is below it.
Confirm ==
  /\ phase # "down"
  /\ act["poller"].pc = "idle"
  /\ confirmed < offset
  /\ confirmed' = offset
  /\ UNCHANGED <<row, token, expired, card, taps, process, delivery, reader, memory, act,
                 offset, heard>>

\* _handle_update: a tap on a live token becomes a decide ...
PollTap ==
  /\ phase # "down"
  /\ offset < Len(taps)
  /\ LET tap == taps[offset + 1] IN
       /\ Resolves(tap.token)
       /\ Request("poller", "decide", token[tap.token].id, tap.option, tap.token, "expire")
  /\ UNCHANGED <<durable, process, delivery, reader, memory, offset, heard>>

\* Mutant of PollDeadTap: an early return that skips the offset.
PollDeadTapStays == UNCHANGED vars

\* ... and one on a dead token is answered "no longer valid".
PollDeadTap ==
  /\ phase # "down"
  /\ act["poller"].pc = "idle"
  /\ offset < Len(taps)
  /\ ~Resolves(taps[offset + 1].token)
  /\ offset' = offset + 1
  /\ UNCHANGED <<durable, process, delivery, reader, memory, act, heard>>

\* After a decide that succeeded: the card of the tap itself.
PollerClears ==
  LET c == act["poller"]
      target == CardOf(c.id, c.mid)
  IN
  /\ c.pc = "clear"
  /\ TakeDown(target)
  /\ messages' = [messages EXCEPT ![c.id] = None]
  /\ Return("poller")
  /\ PollerMovesOn("poller")
  /\ UNCHANGED <<row, token, expired, taps, confirmed, process, delivery, reader,
                 messageIds, heard>>

\* One line of stdin is read: an option, or nothing the reader can use.
StdinLine(i) ==
  /\ reader[i]
  /\ reader' = [reader EXCEPT ![i] = FALSE]
  /\ \/ \E o \in Options : Request("stdin", "decide", i, o, "stdin", "expire")
     \/ UNCHANGED act
  /\ UNCHANGED <<durable, process, delivery, memory, offset, heard>>

ClockPasses(i) ==
  /\ row[i].status # Absent
  /\ ~expired[i]
  /\ expired' = [expired EXCEPT ![i] = TRUE]
  /\ UNCHANGED <<row, token, card, taps, confirmed, process, delivery, reader, memory, act,
                 offset, heard>>

-----------------------------------------------------------------------------
(* Crash and recovery.                                                     *)

OpenIds == {i \in Ids : IsOpen(row[i].status)}

Crash ==
  /\ "crash" \in Faults
  /\ phase # "down"
  /\ crashes < MaxCrashes
  /\ crashes' = crashes + 1
  /\ phase' = "down"
  /\ toRecover' = {}
  /\ delivery' = [i \in Ids |-> NotDelivering]
  /\ reader' = [i \in Ids |-> FALSE]
  /\ messages' = [i \in Ids |-> None]
  /\ messageIds' = [i \in Ids |-> None]
  /\ act' = [a \in Actors |-> Idle]
  /\ offset' = confirmed
  /\ heard' = [i \in Ids |-> Absent]
  /\ UNCHANGED durable

\* Mutants of Restart: nothing is recovered; only what was never notified is.
RestartOnly ==
  /\ phase = "down"
  /\ phase' = "recovering"
  /\ toRecover' = {}
  /\ UNCHANGED <<durable, crashes, delivery, reader, memory, act, offset, heard>>
RestartPending ==
  /\ phase = "down"
  /\ phase' = "recovering"
  /\ toRecover' = {i \in Ids : row[i].status = "PENDING"}
  /\ UNCHANGED <<durable, crashes, delivery, reader, memory, act, offset, heard>>

\* _bootstrap_state: the poller runs; recover_open has its list of open rows.
Restart ==
  /\ phase = "down"
  /\ phase' = "recovering"
  /\ toRecover' = OpenIds
  /\ UNCHANGED <<durable, crashes, delivery, reader, memory, act, offset, heard>>

Recover(i) ==
  /\ i \in toRecover
  /\ toRecover' = toRecover \ {i}
  /\ Request("boot", "recover", i, None, None, "expire")
  /\ UNCHANGED <<durable, crashes, phase, delivery, reader, memory, offset, heard>>

\* recover_open has returned: the lifespan lets requests in.
Recovered ==
  /\ phase = "recovering"
  /\ toRecover = {}
  /\ act["boot"].pc = "idle"
  /\ phase' = "up"
  /\ UNCHANGED <<durable, crashes, toRecover, delivery, reader, memory, act, offset, heard>>

-----------------------------------------------------------------------------

Init ==
  /\ row = [i \in Ids |-> NoRow]
  /\ token = [k \in Tokens |-> NoToken]
  /\ expired = [i \in Ids |-> FALSE]
  /\ card = [k \in Tokens |-> "none"]
  /\ taps = <<>>
  /\ confirmed = 0
  /\ crashes = 0
  /\ phase = "up"
  /\ toRecover = {}
  /\ delivery = [i \in Ids |-> NotDelivering]
  /\ reader = [i \in Ids |-> FALSE]
  /\ messages = [i \in Ids |-> None]
  /\ messageIds = [i \in Ids |-> None]
  /\ act = [a \in Actors |-> Idle]
  /\ offset = 0
  /\ heard = [i \in Ids |-> Absent]

\* An actor runs up to its next await.
ActorStep(a) ==
  \/ CreateReused(a) \/ CreateNew(a) \/ SpawnDelivery(a) \/ Expire(a) \/ ExpireCas(a)
  \/ Settle(a) \/ Refused(a) \/ Lookup(a) \/ NothingToRevoke(a) \/ Revoke(a)

DeliveryStep(i) ==
  \/ PickChannel(i) \/ AllocateToken(i) \/ SendCard(i) \/ CardSent(i) \/ PushCard(i)
  \/ MarkNotified(i) \/ MarkAwaiting(i) \/ AllFailed(i)

Poll == PollTap \/ PollDeadTap \/ PollerClears

Next ==
  \/ \E a \in Actors : HttpRequest(a) \/ ActorStep(a)
  \/ \E i \in Ids : DeliveryStep(i) \/ SendFails(i) \/ StdinLine(i) \/ ClockPasses(i)
                    \/ Recover(i)
  \/ \E k \in Tokens, o \in Options : Tap(k, o)
  \/ Confirm \/ Poll \/ Crash \/ Restart \/ Recovered

Spec == Init /\ [][Next]_vars

\* The event loop runs ready tasks, requests to Telegram end, and a daemon that
\* went down is started again.  Nothing obliges a human, a client or the clock.
Fairness ==
  /\ \A a \in Actors : WF_vars(ActorStep(a))
  /\ \A i \in Ids : WF_vars(DeliveryStep(i)) /\ WF_vars(Recover(i))
  /\ WF_vars(Poll) /\ WF_vars(Restart) /\ WF_vars(Recovered)

FairSpec == Spec /\ Fairness

-----------------------------------------------------------------------------
(* What the service must guarantee.                                        *)

Labels == {"idle", "create", "spawn", "expire", "expire_cas", "cas", "lookup", "revoke", "clear"}

MessageIds == Tokens \cup {"stdin", "stderr", None}

\* Tables, memories and tasks have the shape the code gives them.
TypeOK ==
  /\ row \in [Ids -> [client : Ids \cup {None}, status : Statuses \cup {Absent},
                       decision : Options \cup {None}, version : 0..4,
                       channel : Configured \cup {None}]]
  /\ token \in [Tokens -> [id : Ids \cup {None}, revoked : BOOLEAN]]
  /\ expired \in [Ids -> BOOLEAN] /\ reader \in [Ids -> BOOLEAN]
  /\ card \in [Tokens -> {"none", "up", "down"}]
  /\ taps \in Seq([token : Tokens, option : Options])
  /\ confirmed <= offset /\ offset <= Len(taps) /\ crashes <= MaxCrashes
  /\ phase \in {"down", "recovering", "up"} /\ toRecover \subseteq Ids
  /\ \A i \in Ids : delivery[i].pc \in {"idle", "next", "token", "send", "sent", "mark", "hop"}
  /\ messages \in [Ids -> Tokens \cup {None}] /\ messageIds \in [Ids -> MessageIds]
  /\ \A a \in Actors : act[a].pc \in Labels /\ act[a].mid \in MessageIds
  /\ heard \in [Ids -> Statuses \cup {Absent}]

\* Nothing the daemon has started for intervention i is still running.
Quiet(i) ==
  /\ phase = "up"
  /\ delivery[i].pc = "idle"
  /\ \A a \in Actors : act[a].id # i

Down(i) == \A k \in Tokens : token[k].id = i => card[k] # "up"

Dead(i) == \A k \in Tokens : token[k].id = i => token[k].revoked

\* One task at a time delivers an intervention: create does not deliver a
\* reused one and recover_open runs before any request is served.
OneDelivery == \A a \in Actors : act[a].pc = "spawn" => delivery[act[a].id].pc = "idle"

\* While the daemon serves and has nothing running for an open intervention, a
\* human has been asked: the row is AWAITING_HUMAN, and if its channel is
\* Telegram there is a card with buttons that the store still accepts.  A crash
\* anywhere in create, _deliver or recover_open does not strand it in PENDING.
\* (A snapshot that cannot be stored does: see SpawnDelivery.)
StillAnswerable ==
  \A i \in Ids :
    Quiet(i) /\ IsOpen(row[i].status) =>
      /\ row[i].status = "AWAITING_HUMAN"
      /\ row[i].channel = "telegram" =>
           \E k \in Tokens : token[k] = [id |-> i, revoked |-> FALSE] /\ card[k] = "up"

\* An intervention a human has answered is torn down everywhere once its tasks
\* are done: no card with buttons, no live callback token (protocol 9.4).
AnsweredIsTornDown ==
  \A i \in Ids : Quiet(i) /\ row[i].status = "RESOLVED" => Down(i) /\ Dead(i)

\* protocol 9.5: the daemon MUST destroy the remote controls of a cancelled
\* intervention and invalidate its callback_token, even when the cancel meets a
\* delivery half way.
CancelTearsDown ==
  \A i \in Ids : Quiet(i) /\ row[i].status = "CANCELLED" => Down(i) /\ Dead(i)

\* Every outcome a person or a client brought about reaches the subscribers of
\* the hub: whoever waits on the WebSocket hears it (protocol 4.4, rule 2).
OutcomeIsBroadcast ==
  \A i \in Ids :
    Quiet(i) /\ row[i].status \in {"RESOLVED", "CANCELLED", "FAILED"} => heard[i] = row[i].status

\* protocol 4.4, rule 2, for timeouts too: a transition that took effect is
\* broadcast.
TimeoutIsBroadcast ==
  \A i \in Ids : Quiet(i) /\ row[i].status = "TIMEOUT" => heard[i] = "TIMEOUT"

\* No subscriber hears an intervention come back to life: after a terminal
\* broadcast every later one, of a slow delivery or a second timeout check,
\* says the same.
BroadcastIsFinal ==
  [][\A i \in Ids : IsTerminal(heard[i]) => heard'[i] = heard[i] \/ phase' = "down"]_vars

\* A broadcast is the truth at the moment a subscriber gets it, or a terminal
\* one that stays true.
BroadcastIsTrue ==
  \A i \in Ids : IsTerminal(heard[i]) => heard[i] = row[i].status

\* A decide that began after the deadline never wins, however the clock, the
\* timeout check and other callers interleave with it.
LateDecisionNeverWins ==
  [][\A i \in Ids :
       row[i].status # "RESOLVED" /\ row'[i].status = "RESOLVED" =>
         \E a \in Actors : act[a].id = i /\ act[a].pc = "cas" /\ act'[a].pc = "lookup"
                          /\ ~act[a].late]_vars

\* Every delivered or recovered intervention leaves PENDING.
Asked == \A i \in Ids : row[i].status = "PENDING" ~> row[i].status # "PENDING"

\* Every tap is handled by the poller, across crashes.
TapsAreHandled == \A n \in 1..MaxTaps : Len(taps) >= n ~> offset >= n

\* Once settled, an intervention becomes quiet: no actor chases another for ever.
SettledBecomesQuiet == \A i \in Ids : IsTerminal(row[i].status) ~> Quiet(i)

Record(r) == [client |-> r.client, status |-> r.status, decision |-> r.decision,
              version |-> r.version]

Promised == INSTANCE Intervention WITH record <- [i \in Ids |-> Record(row[i])], Clients <- Ids

\* Through deliveries, decisions, timeouts, crashes and recoveries the rows take
\* only the steps Intervention allows.
ImplementsIntervention == Promised!Spec

=============================================================================
