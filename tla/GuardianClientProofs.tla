------------------------ MODULE GuardianClientProofs ------------------------
(***************************************************************************)
(* GuardianClient for any number of calls, any faults, any queue: calls    *)
(* and connections touch interventions only as Intervention allows, a call *)
(* tells its agent what the row says, a wait that gives up leaves no       *)
(* question open, and no handler waits for an update it will not get.      *)
(***************************************************************************)
EXTENDS GuardianClient, InterventionProofs, SequenceTheorems

-----------------------------------------------------------------------------
(* The invariant.                                                          *)

Updates == [id : Ids \cup {None}, status : Statuses \cup {Absent}, option : Options \cup {None}]

Asking == {"idle", "creating", "created"}
Cancels == {"cancel", "again"}

CallRecords ==
  [kind : Kinds \cup {None}, pc : Asking \cup Waits \cup Cancels \cup {"joining", "done"},
   id : Ids \cup {None}, end : Ends \cup {None}, unheard : BOOLEAN]

\* How a call ended is what its row says, and once it is over its row is settled
\* if it must be: ToldTheOutcome and LeavesNoQuestion, of one call.
Says(r, row) ==
  /\ r.end = "returned" => row.status = "RESOLVED" /\ row.decision \in Options \ Deny
  /\ r.end = "denied" => row.status = "RESOLVED" /\ row.decision \in Deny
  /\ r.end = "timeout" => row.status = "TIMEOUT"
  /\ r.end = "cancelled" => row.status = "CANCELLED"
  /\ r.end = "failed" => row.status = "FAILED"
  /\ /\ r.pc \in {"joining", "done"} /\ ~r.unheard
     /\ r.end # "error" \/ r.kind = "guard"
     => IsTerminal(row.status)

\* A call has an id once the daemon has answered, what it has an id of exists,
\* its connection serves that id and its prompt asks about it.
CallOK(c) ==
  /\ call[c].pc \in Asking =>
       call[c].id = None /\ call[c].end = None /\ prompt[c] = "none" /\ handler[c].pc = "none"
  /\ call[c].pc \in Waits \cup Cancels => call[c].id \in Ids
  /\ call[c].id # None =>
       record[call[c].id].status # Absent /\ Says(call[c], record[call[c].id])
  /\ prompt[c] # "none" => call[c].id \in Ids
  /\ handler[c].pc # "none" => handler[c].topic = call[c].id

PromptTypes == {"none", "reading", "over"} \cup Options

CallsOK ==
  /\ call \in [Clients -> CallRecords]
  /\ prompt \in [Clients -> PromptTypes]
  /\ \A c \in Clients : CallOK(c)

\* An update is true of a row when the row is settled as it says, if it does.
True(u, row) == IsTerminal(u.status) => row.status = u.status /\ row.decision = u.option

AllTrue(updates, row) == \A n \in 1..Len(updates) : True(updates[n], row)

\* A connection that was opened serves an intervention, and whatever is on its
\* way through it is true.
SocketOK(s) ==
  /\ handler[s].pc # "none" => handler[s].topic \in Ids
  /\ handler[s].pc = "none" => wire[s] = <<>> /\ queue[s] = <<>>
  /\ handler[s].pc = "send" => True(handler[s].out, record[handler[s].topic])
  /\ AllTrue(queue[s], record[handler[s].topic])
  /\ AllTrue(wire[s], record[handler[s].topic])

Handlers ==
  [pc : {"none", "accepted", "snapshot", "send", "loop", "closing", "closed"},
   topic : Ids \cup {None}, out : Updates]

SocketsOK ==
  /\ handler \in [Subscribers -> Handlers]
  /\ queue \in [Subscribers -> Seq(Updates)] /\ wire \in [Subscribers -> Seq(Updates)]
  /\ \A s \in Subscribers : SocketOK(s)

CInv == IInv /\ CallsOK /\ SocketsOK

\* Nothing has been called.
LEMMA InitCInv == ClientInit => CInv
<1> SUFFICES ASSUME ClientInit PROVE CInv
  OBVIOUS
<1>1. IInv
  BY InitIInv DEF ClientInit, HubInit
<1>2. /\ call = [c \in Clients |-> Fresh] /\ prompt = [c \in Clients |-> "none"]
      /\ handler = [s \in Subscribers |-> NoHandler]
      /\ queue = [s \in Subscribers |-> <<>>] /\ wire = [s \in Subscribers |-> <<>>]
  BY DEF ClientInit, HubInit
<1>3. <<>> \in Seq(Updates) /\ Len(<<>>) = 0
  BY EmptySeq
<1>4. NoUpdate \in Updates
  BY DEF NoUpdate, Updates
<1>5. CallsOK
  BY <1>2, ClientAssumption
     DEF CallsOK, CallOK, CallRecords, PromptTypes, Fresh, Asking, Waits, Cancels, NoHandler
<1>6. SocketsOK
  BY <1>2, <1>3, <1>4, ClientAssumption DEF SocketsOK, SocketOK, AllTrue, Handlers, NoHandler
<1> QED
  BY <1>1, <1>5, <1>6 DEF CInv

-----------------------------------------------------------------------------
(* The rows.                                                               *)

\* GET, decide and cancel write at most one step of the status machine.
LEMMA ServiceStep ==
  ASSUME NEW i \in Ids, Read(i) \/ Cancel(i) \/ \E o \in Options : Decide(i, o)
  PROVE  [Next]_record
<1>1. ASSUME NEW target \in Statuses, NEW option \in Options \cup {None},
             Transition(i, target, option)
      PROVE  Next
  BY <1>1 DEF Next
<1>2. CASE Read(i)
  BY <1>1, <1>2 DEF Read, Settle, Statuses, TerminalStatuses
<1>3. CASE Cancel(i)
  BY <1>1, <1>3 DEF Cancel, Settle, Statuses, TerminalStatuses
<1>4. ASSUME NEW o \in Options, Decide(i, o) PROVE [Next]_record
  <2>1. CASE Overdue(i)
    BY <1>1, <1>4, <2>1 DEF Decide, Statuses, TerminalStatuses
  <2>2. CASE ~Overdue(i) /\ CanTransition(record[i].status, "RESOLVED")
    BY <1>1, <1>4, <2>2 DEF Decide, Settle, Statuses, TerminalStatuses
  <2>3. CASE ~Overdue(i) /\ ~CanTransition(record[i].status, "RESOLVED")
    BY <1>4, <2>3 DEF Decide
  <2> QED
    BY <2>1, <2>2, <2>3
<1> QED
  BY <1>2, <1>3, <1>4

\* The daemon's own steps: a delivery, somebody else's request, a publication, a
\* clock.
LEMMA DaemonRows ==
  ASSUME NEW i \in Ids, DaemonStep(i)
  PROVE  [Next]_record
<1>1. CASE Deliver(i)
  <2>1. PICK target \in {"NOTIFIED", "AWAITING_HUMAN", "FAILED"} : Transition(i, target, None)
    BY <1>1 DEF Deliver
  <2> QED
    BY <2>1 DEF Next, Statuses, OpenStatuses, TerminalStatuses
<1>2. CASE Others(i)
  BY <1>2, ServiceStep DEF Others
<1>3. CASE Announce(i) \/ ClockPasses(i)
  BY <1>3 DEF Announce, ClockPasses
<1> QED
  BY <1>1, <1>2, <1>3 DEF DaemonStep

\* A handler reads the row it serves.
LEMMA HandlerRows ==
  ASSUME SocketsOK, NEW s \in Subscribers, HandlerStep(s)
  PROVE  [Next]_record
<1>1. CASE Snapshot(s)
  BY <1>1, ServiceStep DEF Snapshot, SocketsOK, SocketOK
<1>2. CASE Subscribe(s) \/ Take(s) \/ Send(s) \/ Unsubscribe(s)
  BY <1>2 DEF Subscribe, Take, Send, Unsubscribe
<1> QED
  BY <1>1, <1>2 DEF HandlerStep

\* A call creates its row, reads it, cancels it or decides it.
LEMMA CallRows ==
  ASSUME CallsOK, NEW c \in Clients, ClientStep(c)
  PROVE  [Next]_record
<1>1. CASE Created(c)
  BY <1>1 DEF Created, Next
<1>2. CASE Poll(c)
  <2>1. call[c].id \in Ids
    BY <1>2 DEF Poll, CallsOK, CallOK, Waits
  <2> QED
    BY <1>2, <2>1, ServiceStep DEF Poll, Get
<1>3. CASE BestEffortCancel(c)
  <2>1. call[c].id \in Ids
    BY <1>3 DEF BestEffortCancel, CallsOK, CallOK, Cancels
  <2> QED
    BY <1>3, <2>1, ServiceStep DEF BestEffortCancel
<1>4. CASE PromptDecides(c)
  <2>1. call[c].id \in Ids
    BY <1>4, ClientAssumption DEF PromptDecides, CallsOK, CallOK
  <2> QED
    BY <1>4, <2>1, ServiceStep DEF PromptDecides
<1>5. CASE \/ Ask(c) \/ CreateReturns(c) \/ CreateFails(c) \/ Connect(c) \/ SocketFails(c)
           \/ SocketCloses(c) \/ Recv(c) \/ RecvLate(c) \/ PollFails(c) \/ Abort(c) \/ Joined(c)
           \/ Deadline(c)
  BY <1>5 DEF Ask, CreateReturns, CreateFails, Connect, SocketFails, SocketCloses, Recv, RecvLate,
              PollFails, Abort, Joined, Deadline, hubVars
<1> QED
  BY <1>1, <1>2, <1>3, <1>4, <1>5 DEF ClientStep, Progress

\* Every step of agents, daemon and connections is a step of Intervention or none.
LEMMA ClientRows == CInv /\ [ClientNext]_vars => [Next]_record
<1> SUFFICES ASSUME CInv, [ClientNext]_vars PROVE [Next]_record
  OBVIOUS
<1>1. CASE UNCHANGED vars
  BY <1>1 DEF vars, hubVars
<1>2. CASE LineTyped
  BY <1>2 DEF LineTyped, hubVars
<1>3. CASE Restart
  BY <1>3 DEF Restart
<1> QED
  BY <1>1, <1>2, <1>3, CallRows, DaemonRows, HandlerRows DEF CInv, ClientNext, Daemon

\* So rows keep the invariant of Intervention; one that is settled stays as it
\* is, and one that exists goes on existing.
LEMMA RowsKept ==
  ASSUME CInv, [ClientNext]_vars
  PROVE  /\ IInv'
         /\ \A i \in Ids : IsTerminal(record[i].status) => record'[i] = record[i]
         /\ \A i \in Ids : record[i].status # Absent => record'[i].status # Absent
<1>1. [Next]_record
  BY ClientRows
<1>2. IInv'
  BY <1>1, NextIInv DEF CInv
<1>3. \A i \in Ids : IsTerminal(record[i].status) => record'[i] = record[i]
  BY <1>1, StepFinal DEF CInv
<1>4. ASSUME NEW i \in Ids, record[i].status # Absent PROVE record'[i].status # Absent
  <2>1. ASSUME NEW j \in Ids, NEW q \in Clients, Create(j, q) PROVE record'[i].status # Absent
    BY <1>4, <2>1, CreateFields DEF CInv, IInv
  <2>2. ASSUME NEW j \in Ids, NEW target \in Statuses, NEW option \in Options \cup {None},
               Transition(j, target, option)
        PROVE  record'[i].status # Absent
    <3>1. /\ record'[j].status = target
          /\ \A k \in Ids \ {j} : record'[k] = record[k]
      BY <2>2, TransitionFields DEF CInv, IInv
    <3> QED
      BY <1>4, <3>1 DEF Statuses, OpenStatuses, TerminalStatuses, Absent
  <2> QED
    BY <1>1, <1>4, <2>1, <2>2 DEF Next
<1> QED
  BY <1>2, <1>3, <1>4

-----------------------------------------------------------------------------
(* The updates.                                                            *)

\* What is read of a row, to be sent or published, is true.
LEMMA ReadIsTrue ==
  ASSUME CInv, [ClientNext]_vars, NEW i \in Ids
  PROVE  Update(i, record'[i]) \in Updates /\ True(Update(i, record'[i]), record'[i])
<1>1. record'[i].status \in Statuses \cup {Absent} /\ record'[i].decision \in Options \cup {None}
  BY RowsKept DEF IInv, TypeOK
<1> QED
  BY <1>1 DEF Update, Updates, True

\* An update stays true: what it calls settled stays settled.
LEMMA TrueKept ==
  ASSUME CInv, [ClientNext]_vars, NEW i \in Ids
  PROVE  /\ \A u : True(u, record[i]) => True(u, record'[i])
         /\ \A q : AllTrue(q, record[i]) => AllTrue(q, record'[i])
BY RowsKept DEF True, AllTrue

\* One more true update, or one less, and all are true.
LEMMA QueuesTrue ==
  ASSUME NEW q \in Seq(Updates), NEW u \in Updates, NEW row, AllTrue(q, row)
  PROVE  /\ Append(q, u) \in Seq(Updates)
         /\ True(u, row) => AllTrue(Append(q, u), row)
         /\ q # <<>> => /\ Head(q) \in Updates /\ True(Head(q), row)
                        /\ Tail(q) \in Seq(Updates) /\ AllTrue(Tail(q), row)
<1>1. Len(q) \in Nat /\ \A n \in 1..Len(q) : True(q[n], row)
  BY LenProperties DEF AllTrue
<1>2. Append(q, u) \in Seq(Updates) /\ (True(u, row) => AllTrue(Append(q, u), row))
  <2> DEFINE longer == Append(q, u)
  <2>1. /\ longer \in Seq(Updates) /\ Len(longer) = Len(q) + 1 /\ longer[Len(q) + 1] = u
        /\ \A n \in 1..Len(q) : longer[n] = q[n]
    BY AppendProperties
  <2> HIDE DEF longer
  <2>2. ASSUME True(u, row), NEW n \in 1..Len(longer) PROVE True(longer[n], row)
    <3>1. n \in 1..Len(q) \/ n = Len(q) + 1
      BY <1>1, <2>1
    <3> QED
      BY <1>1, <2>1, <2>2, <3>1
  <2> QED
    BY <2>1, <2>2 DEF longer, AllTrue
<1>3. ASSUME q # <<>>
      PROVE  /\ Head(q) \in Updates /\ True(Head(q), row)
             /\ Tail(q) \in Seq(Updates) /\ AllTrue(Tail(q), row)
  <2> DEFINE rest == Tail(q)
  <2>1. /\ Head(q) \in Updates /\ Head(q) = q[1]
        /\ rest \in Seq(Updates) /\ Len(rest) = Len(q) - 1
        /\ \A n \in 1..Len(rest) : rest[n] = q[n + 1]
    BY <1>3, HeadTailProperties
  <2>2. Len(q) # 0
    BY <1>3, EmptySeq
  <2> HIDE DEF rest
  <2>3. 1 \in 1..Len(q) /\ \A n \in 1..Len(rest) : n + 1 \in 1..Len(q)
    BY <1>1, <2>1, <2>2
  <2>4. AllTrue(rest, row)
    BY <1>1, <2>1, <2>3 DEF AllTrue
  <2> QED
    BY <1>1, <2>1, <2>3, <2>4 DEF rest
<1> QED
  BY <1>2, <1>3

\* A connection whose messages stay as they are, or are given up, stays true; so
\* it may go on, or close, as long as it has nothing new to say.
LEMMA QuietSocket ==
  ASSUME CInv, [ClientNext]_vars, NEW s \in Subscribers, handler'[s].topic = handler[s].topic,
         wire'[s] = wire[s], queue'[s] = queue[s] \/ queue'[s] = <<>>,
         handler[s].pc = "none" <=> handler'[s].pc = "none",
         handler'[s].pc = "send" => handler'[s].out = handler[s].out /\ handler[s].pc = "send"
  PROVE  SocketOK(s)'
<1>1. <<>> \in Seq(Updates) /\ Len(<<>>) = 0
  BY EmptySeq
<1>2. CASE handler[s].pc = "none"
  <2>1. handler'[s].pc = "none" /\ queue'[s] = <<>> /\ wire'[s] = <<>>
    BY <1>2 DEF CInv, SocketsOK, SocketOK
  <2> QED
    BY <1>1, <2>1 DEF SocketOK, AllTrue
<1>3. CASE handler[s].pc # "none"
  <2>1. handler[s].topic \in Ids
    BY <1>3 DEF CInv, SocketsOK, SocketOK
  <2> DEFINE row == record'[handler[s].topic]
  <2>2. /\ AllTrue(queue[s], row) /\ AllTrue(wire[s], row)
        /\ handler[s].pc = "send" => True(handler[s].out, row)
    BY <2>1, TrueKept DEF CInv, SocketsOK, SocketOK
  <2>3. AllTrue(queue'[s], row)
    BY <1>1, <2>2 DEF AllTrue
  <2> QED
    BY <1>3, <2>1, <2>2, <2>3 DEF SocketOK
<1> QED
  BY <1>2, <1>3

\* A publication reaches the connections that serve the intervention, if they
\* have room for it.
LEMMA PublishSockets ==
  ASSUME CInv, [ClientNext]_vars, NEW i \in Ids, Publish(Update(i, record'[i])),
         UNCHANGED <<handler, wire>>
  PROVE  SocketsOK'
<1> DEFINE u == Update(i, record'[i])
<1>1. /\ queue' = [s \in Subscribers |-> IF Subscribed(s, i) THEN Offer(queue[s], u) ELSE queue[s]]
      /\ handler' = handler /\ wire' = wire
  BY DEF Publish, Update
<1>2. u \in Updates /\ True(u, record'[i])
  BY ReadIsTrue
<1> HIDE DEF u
<1>3. ASSUME NEW s \in Subscribers PROVE queue'[s] \in Seq(Updates) /\ SocketOK(s)'
  <2>1. queue[s] \in Seq(Updates)
    BY DEF CInv, SocketsOK
  <2>2. CASE queue'[s] = queue[s]
    BY <1>1, <2>1, <2>2, QuietSocket
  <2>3. CASE queue'[s] # queue[s]
    <3>1. queue'[s] = Append(queue[s], u) /\ Subscribed(s, i)
      BY <1>1, <2>3 DEF Offer
    <3>2. /\ handler[s].topic = i /\ handler[s].pc # "none"
      BY <3>1 DEF Subscribed
    <3>3. /\ AllTrue(queue[s], record'[i]) /\ AllTrue(wire[s], record'[i])
          /\ handler[s].pc = "send" => True(handler[s].out, record'[i])
      BY <3>2, TrueKept DEF CInv, SocketsOK, SocketOK
    <3>4. queue'[s] \in Seq(Updates) /\ AllTrue(queue'[s], record'[i])
      BY <1>2, <2>1, <3>1, <3>3, QueuesTrue
    <3> QED
      BY <1>1, <3>2, <3>3, <3>4 DEF SocketOK
  <2> QED
    BY <2>2, <2>3
<1> QED
  BY <1>1, <1>3 DEF CInv, SocketsOK

\* A connection is opened.
LEMMA ConnectSocket ==
  ASSUME CInv, [ClientNext]_vars, NEW c \in Clients, Connect(c)
  PROVE  SocketsOK'
<1>1. /\ handler' = [handler EXCEPT ![c] = [NoHandler EXCEPT !.pc = "accepted", !.topic = call[c].id]]
      /\ queue' = queue /\ wire' = wire /\ call[c].pc = "connect"
  BY DEF Connect, Accept, DaemonIdle, hub
<1>2. c \in Subscribers /\ call[c].id \in Ids /\ NoUpdate \in Updates
  BY <1>1, ClientAssumption DEF CInv, CallsOK, CallOK, Waits, NoUpdate, Updates
<1>3. handler' \in [Subscribers -> Handlers]
  BY <1>1, <1>2 DEF CInv, SocketsOK, Handlers, NoHandler
<1>4. ASSUME NEW s \in Subscribers PROVE SocketOK(s)'
  <2>1. CASE s # c
    BY <1>1, <1>2, <2>1, QuietSocket DEF CInv, SocketsOK
  <2>2. CASE s = c
    <3>1. handler'[s].pc = "accepted" /\ handler'[s].topic = call[c].id
      BY <1>1, <1>2, <2>2 DEF CInv, SocketsOK, NoHandler
    <3>2. AllTrue(queue[c], record'[call[c].id]) /\ AllTrue(wire[c], record'[call[c].id])
      <4>1. CASE handler[c].pc = "none"
        BY <1>2, <4>1, EmptySeq DEF CInv, SocketsOK, SocketOK, AllTrue
      <4>2. CASE handler[c].pc # "none"
        BY <1>2, <4>2, TrueKept DEF CInv, CallsOK, CallOK, SocketsOK, SocketOK
      <4> QED
        BY <4>1, <4>2
    <3> QED
      BY <1>1, <1>2, <2>2, <3>1, <3>2 DEF SocketOK
  <2> QED
    BY <2>1, <2>2
<1> QED
  BY <1>1, <1>3, <1>4 DEF CInv, SocketsOK

\* The other end reads a message.
LEMMA RecvSocket ==
  ASSUME CInv, [ClientNext]_vars, NEW c \in Clients, Recv(c)
  PROVE  SocketsOK'
<1>1. /\ handler' = handler /\ queue' = queue /\ wire' = [wire EXCEPT ![c] = Tail(@)]
      /\ wire[c] # <<>>
  BY DEF Recv, DaemonIdle, hub
<1>2. c \in Subscribers /\ wire[c] \in Seq(Updates)
  BY ClientAssumption DEF CInv, SocketsOK
<1>3. ASSUME NEW s \in Subscribers PROVE wire'[s] \in Seq(Updates) /\ SocketOK(s)'
  <2>1. CASE s # c
    BY <1>1, <1>2, <2>1, QuietSocket DEF CInv, SocketsOK
  <2>2. CASE s = c
    <3> DEFINE row == record'[handler[c].topic]
    <3>1. handler[c].pc # "none" /\ handler[c].topic \in Ids
      BY <1>1, <1>2 DEF CInv, SocketsOK, SocketOK
    <3>2. /\ AllTrue(queue[c], row) /\ AllTrue(wire[c], row)
          /\ handler[c].pc = "send" => True(handler[c].out, row)
      BY <1>2, <3>1, TrueKept DEF CInv, SocketsOK, SocketOK
    <3>3. wire'[c] = Tail(wire[c])
      BY <1>1, <1>2 DEF CInv, SocketsOK
    <3>4. NoUpdate \in Updates
      BY DEF NoUpdate, Updates
    <3>5. wire'[c] \in Seq(Updates) /\ AllTrue(wire'[c], row)
      BY <1>1, <1>2, <3>2, <3>3, <3>4, QueuesTrue
    <3> QED
      BY <1>1, <2>2, <3>1, <3>2, <3>5 DEF SocketOK
  <2> QED
    BY <2>1, <2>2
<1> QED
  BY <1>1, <1>3 DEF CInv, SocketsOK

\* ws_endpoint goes on: it reads its row, takes an update, sends it, leaves.
LEMMA HandlerSocket ==
  ASSUME CInv, [ClientNext]_vars, NEW s \in Subscribers, HandlerStep(s)
  PROVE  SocketsOK'
<1> DEFINE row == record'[handler[s].topic]
<1>1. /\ handler[s].pc \in {"accepted", "snapshot", "loop", "send", "closing"}
      /\ handler[s].topic \in Ids
      /\ handler \in [Subscribers -> Handlers] /\ NoUpdate \in Updates
      /\ queue \in [Subscribers -> Seq(Updates)] /\ wire \in [Subscribers -> Seq(Updates)]
      /\ handler[s].out \in Updates
  BY DEF HandlerStep, Subscribe, Snapshot, Take, Send, Unsubscribe, CInv, SocketsOK, SocketOK,
         Handlers, NoUpdate, Updates
<1>2. /\ AllTrue(queue[s], row) /\ AllTrue(wire[s], row)
      /\ handler[s].pc = "send" => True(handler[s].out, row)
  BY <1>1, TrueKept DEF CInv, SocketsOK, SocketOK
<1>3. <<>> \in Seq(Updates) /\ AllTrue(<<>>, row)
  BY EmptySeq DEF AllTrue
<1>4. ASSUME NEW label \in {"snapshot", "send", "loop", "closing", "closed"}, NEW out \in Updates,
             Handle(s, label, out), label = "send" => True(out, row),
             NEW q \in Seq(Updates), queue' = [queue EXCEPT ![s] = q], AllTrue(q, row),
             NEW w \in Seq(Updates), wire' = [wire EXCEPT ![s] = w], AllTrue(w, row)
      PROVE  SocketsOK'
  <2>1. /\ handler' \in [Subscribers -> Handlers]
        /\ handler'[s].pc = label /\ handler'[s].out = out /\ handler'[s].topic = handler[s].topic
        /\ \A t \in Subscribers \ {s} : handler'[t] = handler[t]
    BY <1>1, <1>4 DEF Handle, Handlers
  <2>2. /\ queue' \in [Subscribers -> Seq(Updates)] /\ queue'[s] = q
        /\ \A t \in Subscribers \ {s} : queue'[t] = queue[t]
    BY <1>1, <1>4
  <2>3. /\ wire' \in [Subscribers -> Seq(Updates)] /\ wire'[s] = w
        /\ \A t \in Subscribers \ {s} : wire'[t] = wire[t]
    BY <1>1, <1>4
  <2>4. SocketOK(s)'
    BY <1>1, <1>4, <2>1, <2>2, <2>3 DEF SocketOK
  <2>5. \A t \in Subscribers \ {s} : SocketOK(t)'
    BY <2>1, <2>2, <2>3, QuietSocket
  <2> QED
    BY <2>1, <2>2, <2>3, <2>4, <2>5 DEF SocketsOK
<1>5. queue[s] \in Seq(Updates) /\ wire[s] \in Seq(Updates)
  BY <1>1
<1>6. queue = [queue EXCEPT ![s] = queue[s]] /\ wire = [wire EXCEPT ![s] = wire[s]]
  BY <1>1
<1>7. CASE Subscribe(s)
  <2>1. Handle(s, "snapshot", NoUpdate) /\ queue' = queue /\ wire' = wire
    BY <1>7 DEF Subscribe, hub
  <2> QED
    BY <1>1, <1>2, <1>4, <1>5, <1>6, <2>1
<1>8. CASE Snapshot(s)
  <2> DEFINE u == Update(handler[s].topic, record'[handler[s].topic])
  <2>1. Handle(s, "send", u) /\ queue' = queue /\ wire' = wire
    BY <1>8 DEF Snapshot, hub
  <2>2. u \in Updates /\ True(u, row)
    BY <1>1, ReadIsTrue
  <2> QED
    BY <1>2, <1>4, <1>5, <1>6, <2>1, <2>2
<1>9. CASE Take(s)
  <2>1. /\ Handle(s, "send", Head(queue[s])) /\ queue' = [queue EXCEPT ![s] = Tail(queue[s])]
        /\ wire' = wire /\ queue[s] # <<>>
    BY <1>9 DEF Take
  <2>2. /\ Head(queue[s]) \in Updates /\ True(Head(queue[s]), row)
        /\ Tail(queue[s]) \in Seq(Updates) /\ AllTrue(Tail(queue[s]), row)
    BY <1>1, <1>2, <1>5, <2>1, QueuesTrue
  <2> QED
    BY <1>2, <1>4, <1>5, <1>6, <2>1, <2>2
<1>10. CASE Send(s)
  <2> DEFINE label == IF s \in gone \/ IsTerminal(handler[s].out.status) THEN "closing" ELSE "loop"
  <2>1. /\ Handle(s, label, NoUpdate) /\ queue' = queue
        /\ wire' = [wire EXCEPT ![s] = wire[s]]
           \/ wire' = [wire EXCEPT ![s] = Append(wire[s], handler[s].out)]
        /\ handler[s].pc = "send"
    BY <1>6, <1>10 DEF Send, hub
  <2>2. label \in {"closing", "loop"} /\ label # "send"
    OBVIOUS
  <2>3. /\ Append(wire[s], handler[s].out) \in Seq(Updates)
        /\ AllTrue(Append(wire[s], handler[s].out), row)
    BY <1>1, <1>2, <1>5, <2>1, QueuesTrue
  <2> HIDE DEF label
  <2> QED
    BY <1>1, <1>2, <1>4, <1>5, <1>6, <2>1, <2>2, <2>3
<1>11. CASE Unsubscribe(s)
  <2>1. Handle(s, "closed", NoUpdate) /\ queue' = [queue EXCEPT ![s] = <<>>] /\ wire' = wire
    BY <1>11 DEF Unsubscribe
  <2> QED
    BY <1>1, <1>2, <1>3, <1>4, <1>5, <1>6, <2>1
<1> QED
  BY <1>7, <1>8, <1>9, <1>10, <1>11 DEF HandlerStep

\* The daemon dies: connections are closed, what they still had to say is lost.
LEMMA RestartSockets ==
  ASSUME CInv, [ClientNext]_vars, Restart
  PROVE  SocketsOK'
<1>1. /\ handler' = [s \in Subscribers |->
           IF handler[s].pc = "none" THEN handler[s]
           ELSE [handler[s] EXCEPT !.pc = "closed", !.out = NoUpdate]]
      /\ queue' = [s \in Subscribers |-> <<>>] /\ wire' = wire
  BY DEF Restart
<1>2. NoUpdate \in Updates /\ <<>> \in Seq(Updates)
  BY EmptySeq DEF NoUpdate, Updates
<1>3. handler' \in [Subscribers -> Handlers]
  BY <1>1, <1>2 DEF CInv, SocketsOK, Handlers
<1>4. ASSUME NEW s \in Subscribers PROVE SocketOK(s)'
  <2>1. /\ handler'[s].topic = handler[s].topic /\ wire'[s] = wire[s] /\ queue'[s] = <<>>
        /\ handler[s].pc = "none" <=> handler'[s].pc = "none"
        /\ handler'[s].pc # "send"
    BY <1>1 DEF CInv, SocketsOK, Handlers
  <2> QED
    BY <2>1, QuietSocket
<1> QED
  BY <1>1, <1>2, <1>3, <1>4 DEF CInv, SocketsOK

\* Every step, one by one.
LEMMA NextSockets ==
  ASSUME CInv, [ClientNext]_vars
  PROVE  SocketsOK'
<1>1. CASE UNCHANGED <<handler, queue, wire>>
  <2>1. \A s \in Subscribers : SocketOK(s)'
    BY <1>1, QuietSocket
  <2> QED
    BY <1>1, <2>1 DEF CInv, SocketsOK
<1>2. ASSUME NEW c \in Clients, ClientStep(c) PROVE SocketsOK'
  <2>1. CASE \/ Ask(c) \/ Created(c) \/ CreateReturns(c) \/ CreateFails(c) \/ SocketFails(c)
             \/ SocketCloses(c) \/ RecvLate(c) \/ Poll(c) \/ PollFails(c) \/ Abort(c)
             \/ BestEffortCancel(c) \/ Joined(c) \/ Deadline(c) \/ PromptDecides(c)
    BY <1>1, <2>1 DEF Ask, Created, CreateReturns, CreateFails, SocketFails, SocketCloses, RecvLate,
         Poll, PollFails, Abort, BestEffortCancel, Joined, Deadline, PromptDecides, DaemonIdle,
         hubVars, hub, sockets
  <2> QED
    BY <1>2, <2>1, ConnectSocket, RecvSocket DEF ClientStep, Progress
<1>3. ASSUME NEW i \in Ids, DaemonStep(i) PROVE SocketsOK'
  <2>1. CASE Deliver(i)
    <3>1. UNCHANGED <<handler, wire>> /\ (UNCHANGED queue \/ Publish(Update(i, record'[i])))
      BY <2>1 DEF Deliver, sockets, hub
    <3> QED
      BY <1>1, <3>1, PublishSockets
  <2>2. CASE Announce(i)
    <3>1. UNCHANGED <<handler, wire>> /\ Publish(Update(i, record'[i]))
      BY <2>2 DEF Announce, sockets
    <3> QED
      BY <3>1, PublishSockets
  <2>3. CASE Others(i) \/ ClockPasses(i)
    BY <1>1, <2>3 DEF Others, ClockPasses, sockets, hub
  <2> QED
    BY <1>3, <2>1, <2>2, <2>3 DEF DaemonStep
<1>4. CASE UNCHANGED vars \/ LineTyped
  BY <1>1, <1>4 DEF vars, LineTyped, hubVars, hub, sockets
<1> QED
  BY <1>2, <1>3, <1>4, HandlerSocket, RestartSockets DEF ClientNext, Daemon

-----------------------------------------------------------------------------
(* The calls.                                                              *)

\* What is true of a row that is settled stays true.
LEMMA SaysKept ==
  ASSUME CInv, [ClientNext]_vars, NEW i \in Ids
  PROVE  /\ record[i].status # Absent => record'[i].status # Absent
         /\ \A r : Says(r, record[i]) => Says(r, record'[i])
<1>1. \A r : Says(r, record[i]) => Says(r, record'[i])
  <2>1. CASE IsTerminal(record[i].status)
    BY <2>1, RowsKept
  <2>2. CASE ~IsTerminal(record[i].status)
    BY <2>2 DEF Says, IsTerminal, TerminalStatuses
  <2> QED
    BY <2>1, <2>2
<1> QED
  BY <1>1, RowsKept

\* A call that does not move stays as it was.
LEMMA QuietCall ==
  ASSUME CInv, [ClientNext]_vars, NEW c \in Clients, call'[c] = call[c],
         prompt[c] = "none" <=> prompt'[c] = "none",
         handler[c].pc = "none" <=> handler'[c].pc = "none",
         handler'[c].topic = handler[c].topic
  PROVE  CallOK(c)'
<1>1. CallOK(c) /\ call[c].id \in Ids \cup {None}
  BY DEF CInv, CallsOK, CallRecords
<1>2. CASE call[c].id = None
  BY <1>1, <1>2, InterventionAssumption DEF CallOK
<1>3. CASE call[c].id \in Ids
  <2>1. /\ record[call[c].id].status # Absent => record'[call[c].id].status # Absent
        /\ Says(call[c], record[call[c].id]) => Says(call[c], record'[call[c].id])
    BY <1>3, SaysKept
  <2> QED
    BY <1>1, <1>3, <2>1 DEF CallOK
<1> QED
  BY <1>1, <1>2, <1>3

\* One that does moves with an id, and still says what is so.
LEMMA MovedCall ==
  ASSUME CInv, [ClientNext]_vars, NEW c \in Clients, NEW r \in CallRecords,
         call' = [call EXCEPT ![c] = r], r.pc \notin Asking,
         r.id \in Ids, record'[r.id].status # Absent, Says(r, record'[r.id]),
         prompt' \in [Clients -> PromptTypes],
         \A d \in Clients \ {c} : prompt'[d] = prompt[d],
         handler'[c].pc # "none" => handler'[c].topic = r.id,
         \A d \in Clients \ {c} : handler'[d] = handler[d]
  PROVE  CallsOK'
<1>1. /\ call' \in [Clients -> CallRecords] /\ call'[c] = r
      /\ \A d \in Clients \ {c} : call'[d] = call[d]
  BY DEF CInv, CallsOK
<1>2. CallOK(c)'
  BY <1>1 DEF CallOK
<1>3. \A d \in Clients \ {c} : CallOK(d)'
  BY <1>1, QuietCall
<1> QED
  BY <1>1, <1>2, <1>3 DEF CallsOK

\* Within its wait, and on to a cancel.
LEMMA WaitsOn ==
  ASSUME CInv, [ClientNext]_vars, NEW c \in Clients, call[c].pc \in Waits,
         NEW r \in CallRecords, call' = [call EXCEPT ![c] = r], r.pc \in Waits \cup Cancels,
         r.id = call[c].id, r.end \in {call[c].end, "error", "aborted", "early"},
         prompt' \in [Clients -> PromptTypes],
         \A d \in Clients \ {c} : prompt'[d] = prompt[d],
         handler'[c].pc # "none" => handler'[c].topic = r.id,
         \A d \in Clients \ {c} : handler'[d] = handler[d]
  PROVE  CallsOK'
<1>1. /\ r.id \in Ids /\ r.id # None /\ r.pc \notin Asking /\ r.pc \notin {"joining", "done"}
      /\ record[r.id].status # Absent /\ Says(call[c], record[r.id])
  BY InterventionAssumption DEF CInv, CallsOK, CallOK, Asking, Waits, Cancels
<1>2. record'[r.id].status # Absent /\ Says(call[c], record'[r.id])
  BY <1>1, SaysKept
<1>3. Says(r, record'[r.id])
  BY <1>1, <1>2 DEF Says
<1> QED
  BY <1>1, <1>2, <1>3, MovedCall

\* finally: the prompt of a call that leaves is over, and nobody else's.
LEMMA PromptDropped ==
  ASSUME CallsOK, NEW c \in Clients, DropPrompt(c) \/ UNCHANGED prompt
  PROVE  /\ prompt' \in [Clients -> PromptTypes]
         /\ prompt[c] = "none" <=> prompt'[c] = "none"
         /\ \A d \in Clients \ {c} : prompt'[d] = prompt[d]
BY DEF CallsOK, DropPrompt, PromptTypes

\* A terminal update that is true is told as it is.
LEMMA LearnSays ==
  ASSUME CInv, [ClientNext]_vars, NEW c \in Clients, call[c].pc \in Waits,
         NEW status, NEW option, Learn(c, status, option), IsTerminal(status),
         record'[call[c].id].status = status, record'[call[c].id].decision = option,
         handler' = handler
  PROVE  CallsOK'
<1> DEFINE i == call[c].id
           end == Meaning(status, option)
           label == IF end = "timeout" THEN "cancel" ELSE Over(c)
           r == [call[c] EXCEPT !.pc = label, !.end = end]
<1>1. i \in Ids /\ i # None /\ call[c] \in CallRecords /\ (handler[c].pc # "none" => handler[c].topic = i)
  BY InterventionAssumption DEF CInv, CallsOK, CallOK
<1>2. IInv'
  BY RowsKept
<1>3. status = "RESOLVED" => option \in Options
  BY <1>1, <1>2 DEF IInv, DecisionIffResolved
<1>4. /\ end \in Ends
      /\ end = "returned" => status = "RESOLVED" /\ option \in Options \ Deny
      /\ end = "denied" => status = "RESOLVED" /\ option \in Deny
      /\ end = "timeout" => status = "TIMEOUT"
      /\ end = "cancelled" => status = "CANCELLED"
      /\ end = "failed" => status = "FAILED"
  BY <1>3 DEF Meaning, Ends, IsTerminal, TerminalStatuses
<1>5. label \in {"cancel", "joining", "done"}
  BY DEF Over
<1>6. call' = [call EXCEPT ![c] = r] /\ (DropPrompt(c) \/ UNCHANGED prompt)
  BY DEF Learn, Leave
<1> HIDE DEF end, label
<1>7. /\ r \in CallRecords /\ r.pc = label /\ r.end = end /\ r.id = i
  BY <1>1, <1>4, <1>5 DEF CallRecords, Cancels
<1>8. Says(r, record'[i])
  BY <1>4, <1>7 DEF Says
<1>9. record'[i].status # Absent /\ r.pc \notin Asking
  BY <1>5, <1>7 DEF IsTerminal, TerminalStatuses, Absent, Asking
<1> HIDE DEF r
<1> QED
  BY <1>1, <1>6, <1>7, <1>8, <1>9, PromptDropped, MovedCall DEF CInv

\* An exception in the wait: a cancel if it is owed, an error that owes none if not.
LEMMA GivesUpSays ==
  ASSUME CInv, [ClientNext]_vars, NEW c \in Clients, call[c].pc \in Waits,
         NEW end \in {"error", "aborted"}, GivesUp(c, end), handler' = handler
  PROVE  CallsOK'
<1> DEFINE i == call[c].id
           label == IF end = "aborted" \/ call[c].kind = "guard" THEN "cancel" ELSE Over(c)
           r == [call[c] EXCEPT !.pc = label, !.end = end]
<1>1. /\ i \in Ids /\ i # None /\ call[c] \in CallRecords
      /\ handler[c].pc # "none" => handler[c].topic = i
      /\ record[i].status # Absent
  BY InterventionAssumption DEF CInv, CallsOK, CallOK
<1>2. label \in {"cancel", "joining", "done"} /\ (label # "cancel" => end = "error" /\ call[c].kind # "guard")
  BY DEF Over
<1>3. call' = [call EXCEPT ![c] = r] /\ (DropPrompt(c) \/ UNCHANGED prompt)
  BY DEF GivesUp, Leave
<1> HIDE DEF label
<1>4. r \in CallRecords /\ r.pc = label /\ r.end = end /\ r.id = i /\ r.kind = call[c].kind
  BY <1>1, <1>2 DEF CallRecords, Cancels, Ends
<1>5. Says(r, record'[i]) /\ r.pc \notin Asking
  BY <1>2, <1>4 DEF Says, Asking
<1>6. record'[i].status # Absent
  BY <1>1, SaysKept
<1> HIDE DEF r
<1> QED
  BY <1>1, <1>3, <1>4, <1>5, <1>6, PromptDropped, MovedCall DEF CInv

\* Up to the id: what the daemon is asked, and the answer it may fail to give.
LEMMA CreateSays ==
  ASSUME CInv, [ClientNext]_vars, NEW c \in Clients,
         Ask(c) \/ Created(c) \/ CreateReturns(c) \/ CreateFails(c)
  PROVE  CallsOK'
<1>1. /\ call \in [Clients -> CallRecords] /\ prompt \in [Clients -> PromptTypes]
      /\ call[c].pc \in Asking /\ call[c].id = None /\ call[c].end = None
      /\ prompt[c] = "none" /\ handler[c].pc = "none" /\ handler' = handler
      /\ call[c] \in CallRecords
  BY DEF CInv, CallsOK, CallOK, Asking, Ask, Created, CreateReturns, CreateFails, hubVars, sockets
<1>2. \A d \in Clients \ {c} : call'[d] = call[d] /\ prompt'[d] = prompt[d] => CallOK(d)'
  BY <1>1, QuietCall
<1>3. CASE Ask(c)
  <2>1. PICK kind \in Kinds : call' = [call EXCEPT ![c].pc = "creating", ![c].kind = kind]
    BY <1>3 DEF Ask
  <2>2. /\ call'[c] = [call[c] EXCEPT !.pc = "creating", !.kind = kind]
        /\ \A d \in Clients \ {c} : call'[d] = call[d]
        /\ call' \in [Clients -> CallRecords] /\ prompt' = prompt
    BY <1>1, <1>3, <2>1 DEF CallRecords, Asking, Ask
  <2>3. CallOK(c)'
    BY <1>1, <2>2 DEF CallOK, CallRecords, Asking, Waits, Cancels
  <2> QED
    BY <1>1, <1>2, <2>2, <2>3 DEF CallsOK
<1>4. CASE Created(c)
  <2>1. /\ call'[c] = [call[c] EXCEPT !.pc = "created"]
        /\ \A d \in Clients \ {c} : call'[d] = call[d]
        /\ call' \in [Clients -> CallRecords] /\ prompt' = prompt
    BY <1>1, <1>4 DEF CallRecords, Asking, Created, Goto
  <2>2. CallOK(c)'
    BY <1>1, <2>1 DEF CallOK, CallRecords, Asking, Waits, Cancels
  <2> QED
    BY <1>1, <1>2, <2>1, <2>2 DEF CallsOK
<1>5. CASE CreateReturns(c)
  <2>1. PICK i \in Ids : /\ record[i].client = c
                         /\ call' = [call EXCEPT ![c].pc = FirstWait(c), ![c].id = i]
    BY <1>5 DEF CreateReturns
  <2>2. record[i].status # Absent /\ record' = record
    BY <1>5, <2>1, InterventionAssumption DEF CInv, IInv, AbsentIsEmpty, NoRecord, CreateReturns, hubVars
  <2> DEFINE r == [call[c] EXCEPT !.pc = FirstWait(c), !.id = i]
  <2>3. /\ r \in CallRecords /\ r.pc \notin Asking /\ r.id = i /\ r.end = None
        /\ r.pc \notin {"joining", "done"} /\ call' = [call EXCEPT ![c] = r]
    BY <1>1, <2>1 DEF CallRecords, FirstWait, Asking, Waits
  <2>4. Says(r, record'[i])
    BY <2>3, ClientAssumption DEF Says, Ends
  <2>5. /\ prompt' \in [Clients -> PromptTypes]
        /\ \A d \in Clients \ {c} : prompt'[d] = prompt[d]
    BY <1>1, <1>5 DEF CreateReturns, StartPrompt, PromptTypes
  <2> HIDE DEF r
  <2> QED
    BY <1>1, <2>2, <2>3, <2>4, <2>5, MovedCall
<1>6. CASE CreateFails(c)
  <2>1. PICK end \in {"error", "aborted"} : Leave(c, end, Over(c))
    BY <1>6 DEF CreateFails
  <2>2. /\ call'[c] = [call[c] EXCEPT !.pc = Over(c), !.end = end]
        /\ \A d \in Clients \ {c} : call'[d] = call[d]
        /\ call' \in [Clients -> CallRecords] /\ Over(c) \in {"joining", "done"}
    BY <1>1, <2>1 DEF CallRecords, Ends, Leave, Over
  <2>3. /\ prompt' \in [Clients -> PromptTypes] /\ prompt'[c] = "none"
        /\ \A d \in Clients \ {c} : prompt'[d] = prompt[d]
    BY <1>1, <2>1, PromptDropped DEF CInv, Leave
  <2>4. call'[c].id = None /\ call'[c].pc \in {"joining", "done"}
    BY <1>1, <2>2 DEF CallRecords
  <2>5. CallOK(c)'
    BY <1>1, <2>3, <2>4 DEF CallOK, Asking, Waits, Cancels
  <2> QED
    BY <1>1, <1>2, <2>2, <2>3, <2>5 DEF CallsOK
<1> QED
  BY <1>3, <1>4, <1>5, <1>6

\* The wait goes on, by another way or not.
LEMMA WaitSays ==
  ASSUME CInv, [ClientNext]_vars, NEW c \in Clients,
         Connect(c) \/ SocketFails(c) \/ SocketCloses(c) \/ RecvLate(c)
  PROVE  CallsOK'
<1>1. PICK label \in Waits : call' = [call EXCEPT ![c].pc = label]
  BY DEF Connect, SocketFails, SocketCloses, RecvLate, FallBack, Goto, Waits
<1> DEFINE r == [call[c] EXCEPT !.pc = label]
<1>2. /\ call[c].pc \in Waits /\ call[c] \in CallRecords /\ prompt' = prompt
      /\ prompt \in [Clients -> PromptTypes]
  BY DEF CInv, CallsOK, Connect, SocketFails, SocketCloses, RecvLate, Waits
<1>3. /\ r \in CallRecords /\ r.pc \in Waits \cup Cancels /\ r.id = call[c].id /\ r.end = call[c].end
      /\ call' = [call EXCEPT ![c] = r]
  BY <1>1, <1>2 DEF CallRecords
<1>4. /\ handler'[c].pc # "none" => handler'[c].topic = r.id
      /\ \A d \in Clients \ {c} : handler'[d] = handler[d]
  <2>1. CASE Connect(c)
    <3>1. handler' = [handler EXCEPT ![c] = [NoHandler EXCEPT !.pc = "accepted", !.topic = r.id]]
      BY <1>3, <2>1 DEF Connect, Accept
    <3> QED
      BY <3>1, ClientAssumption DEF CInv, SocketsOK, NoHandler
  <2>2. CASE SocketFails(c) \/ SocketCloses(c) \/ RecvLate(c)
    BY <1>3, <2>2 DEF CInv, CallsOK, CallOK, SocketFails, SocketCloses, RecvLate
  <2> QED
    BY <2>1, <2>2
<1> HIDE DEF r
<1> QED
  BY <1>2, <1>3, <1>4, WaitsOn

\* A message: the end of the wait, if it is terminal.
LEMMA RecvSays ==
  ASSUME CInv, [ClientNext]_vars, NEW c \in Clients, Recv(c)
  PROVE  CallsOK'
<1> DEFINE m == Head(wire[c])
<1>1. /\ call[c].pc \in Waits /\ wire[c] # <<>> /\ handler' = handler /\ record' = record
      /\ c \in Subscribers /\ wire[c] \in Seq(Updates)
  BY ClientAssumption DEF Recv, Waits, CInv, SocketsOK
<1>2. handler[c].pc # "none" /\ handler[c].topic = call[c].id
  BY <1>1 DEF CInv, SocketsOK, SocketOK, CallsOK, CallOK
<1>3. True(m, record[call[c].id])
  <2>1. NoUpdate \in Updates /\ AllTrue(wire[c], record[call[c].id])
    BY <1>1, <1>2 DEF CInv, SocketsOK, SocketOK, NoUpdate, Updates
  <2> QED
    BY <1>1, <2>1, QueuesTrue
<1>4. CASE IsTerminal(m.status)
  BY <1>1, <1>3, <1>4, LearnSays DEF Recv, True
<1>5. CASE ~IsTerminal(m.status)
  <2>1. UNCHANGED <<call, prompt, handler>>
    BY <1>1, <1>5 DEF Recv
  <2> QED
    BY <2>1, QuietCall DEF CInv, CallsOK
<1> QED
  BY <1>4, <1>5

\* A GET: the end of the wait, another round, another way, or the last deadline.
LEMMA PollSays ==
  ASSUME CInv, [ClientNext]_vars, NEW c \in Clients, Poll(c)
  PROVE  CallsOK'
<1> DEFINE row == record'[call[c].id]
<1>1. /\ call[c].pc \in {"final", "poll", "last"} /\ call[c].pc \in Waits /\ handler' = handler
      /\ call[c] \in CallRecords /\ prompt \in [Clients -> PromptTypes]
      /\ handler[c].pc # "none" => handler[c].topic = call[c].id
  BY DEF Poll, CInv, CallsOK, CallOK, Waits
<1>2. CASE IsTerminal(row.status)
  <2>1. Learn(c, row.status, row.decision)
    BY <1>2 DEF Poll, Get
  <2> QED
    BY <1>1, <1>2, <2>1, LearnSays
<1>3. CASE ~IsTerminal(row.status)
  <2>1. CASE call[c].pc = "last"
    <3> DEFINE r == [call[c] EXCEPT !.pc = "cancel", !.end = "early"]
    <3>1. Leave(c, "early", "cancel")
      BY <1>3, <2>1 DEF Poll, Get
    <3>2. call' = [call EXCEPT ![c] = r] /\ prompt' = prompt
      BY <3>1 DEF Leave
    <3>3. r \in CallRecords /\ r.pc \in Waits \cup Cancels /\ r.id = call[c].id /\ r.end = "early"
      BY <1>1 DEF CallRecords, Cancels, Ends
    <3> HIDE DEF r
    <3> QED
      BY <1>1, <3>2, <3>3, WaitsOn
  <2>2. CASE call[c].pc # "last"
    <3>1. PICK label \in {"poll", "last"} : call' = [call EXCEPT ![c].pc = label]
      BY <1>1, <1>3, <2>2 DEF Poll, Get, FallBack, Goto
    <3>2. prompt' = prompt
      BY <1>1, <1>3, <2>2 DEF Poll, Get
    <3> DEFINE r == [call[c] EXCEPT !.pc = label]
    <3>3. /\ r \in CallRecords /\ r.pc \in Waits \cup Cancels /\ r.id = call[c].id
          /\ r.end = call[c].end /\ call' = [call EXCEPT ![c] = r]
      BY <1>1, <3>1 DEF CallRecords, Waits
    <3> HIDE DEF r
    <3> QED
      BY <1>1, <3>2, <3>3, WaitsOn
  <2> QED
    BY <2>1, <2>2
<1> QED
  BY <1>2, <1>3

\* A cancel that is heard settles the row, unless it was settled before.
LEMMA CancelSettles ==
  ASSUME CInv, [ClientNext]_vars, NEW i \in Ids, record[i].status # Absent, Cancel(i)
  PROVE  IsTerminal(record'[i].status)
<1>1. record[i].status \in Statuses
  BY DEF CInv, IInv, TypeOK
<1>2. CASE CanTransition(record[i].status, "CANCELLED")
  <2>1. Transition(i, "CANCELLED", None)
    BY <1>2 DEF Cancel, Settle
  <2> QED
    BY <2>1, TransitionFields DEF CInv, IInv, Statuses, TerminalStatuses, IsTerminal
<1>3. CASE ~CanTransition(record[i].status, "CANCELLED")
  <2>1. record' = record
    BY <1>3 DEF Cancel
  <2> QED
    BY <1>1, <1>3, <2>1 DEF CanTransition, Allowed, Statuses, OpenStatuses, TerminalStatuses,
                            IsTerminal
<1> QED
  BY <1>2, <1>3

\* _best_effort_cancel, once or twice.
LEMMA CancelSays ==
  ASSUME CInv, [ClientNext]_vars, NEW c \in Clients, BestEffortCancel(c)
  PROVE  CallsOK'
<1> DEFINE i == call[c].id
<1>1. /\ call[c].pc \in Cancels /\ i \in Ids /\ i # None /\ call[c] \in CallRecords /\ handler' = handler
      /\ record[i].status # Absent /\ Says(call[c], record[i])
      /\ handler[c].pc # "none" => handler[c].topic = i
  BY InterventionAssumption DEF BestEffortCancel, CInv, CallsOK, CallOK, Cancels, sockets
<1>2. record'[i].status # Absent /\ Says(call[c], record'[i])
  BY <1>1, SaysKept
<1>3. PICK unheard \in BOOLEAN :
        /\ call' = [call EXCEPT ![c].pc = AfterCancel(c), ![c].unheard = unheard]
        /\ ~unheard => Cancel(i)
  BY DEF BestEffortCancel
<1> DEFINE r == [call[c] EXCEPT !.pc = AfterCancel(c), !.unheard = unheard]
<1>4. AfterCancel(c) \in {"again", "joining", "done"}
  BY DEF AfterCancel, Over
<1>5. /\ r \in CallRecords /\ r.pc \notin Asking /\ r.id = i /\ r.end = call[c].end
      /\ r.unheard = unheard /\ call' = [call EXCEPT ![c] = r]
  BY <1>1, <1>3, <1>4 DEF CallRecords, Cancels, Asking
<1> HIDE DEF r
<1>6. ~unheard => IsTerminal(record'[i].status)
  BY <1>1, <1>3, CancelSettles
<1>7. Says(r, record'[i])
  BY <1>2, <1>5, <1>6 DEF Says
<1>8. DropPrompt(c)
  BY DEF BestEffortCancel
<1> QED
  BY <1>1, <1>2, <1>5, <1>7, <1>8, PromptDropped, MovedCall DEF CInv

\* Every step, one by one.
LEMMA NextCalls ==
  ASSUME CInv, [ClientNext]_vars
  PROVE  CallsOK'
<1>1. CASE /\ call' = call /\ prompt' \in [Clients -> PromptTypes]
           /\ \A c \in Clients : prompt[c] = "none" <=> prompt'[c] = "none"
           /\ \A s \in Subscribers : /\ handler[s].pc = "none" <=> handler'[s].pc = "none"
                                     /\ handler'[s].topic = handler[s].topic
  BY <1>1, QuietCall, ClientAssumption DEF CInv, CallsOK
<1>2. ASSUME NEW c \in Clients, ClientStep(c) PROVE CallsOK'
  <2>1. CASE PollFails(c)
    BY <2>1, GivesUpSays DEF PollFails, Waits
  <2>2. CASE Abort(c)
    BY <2>2, GivesUpSays DEF Abort
  <2>3. CASE Joined(c)
    <3> DEFINE r == [call[c] EXCEPT !.pc = "done"]
    <3>1. /\ call[c] \in CallRecords /\ call[c].pc = "joining" /\ CallOK(c)
          /\ UNCHANGED <<handler, prompt, record>> /\ prompt \in [Clients -> PromptTypes]
          /\ call \in [Clients -> CallRecords]
      BY <2>3 DEF CInv, CallsOK, Joined, hubVars, sockets
    <3>2. r \in CallRecords /\ call' = [call EXCEPT ![c] = r] /\ r.id = call[c].id /\ r.pc = "done"
      BY <2>3, <3>1 DEF Joined, Goto, CallRecords
    <3>3. CASE call[c].id = None
      <4>1. CallOK(c)'
        BY <3>1, <3>2, <3>3, InterventionAssumption DEF CallOK, Asking, Waits, Cancels
      <4>2. \A d \in Clients \ {c} : CallOK(d)'
        BY <3>1, <3>2, QuietCall
      <4> QED
        BY <3>1, <3>2, <4>1, <4>2 DEF CallsOK
    <3>4. CASE call[c].id # None
      <4>1. Says(r, record'[r.id]) /\ record'[r.id].status # Absent
        BY <3>1, <3>2, <3>4 DEF CallOK, Says
      <4>2. r.id \in Ids /\ (handler'[c].pc # "none" => handler'[c].topic = r.id)
        BY <3>1, <3>2, <3>4 DEF CallOK, CallRecords
      <4> HIDE DEF r
      <4> QED
        BY <3>1, <3>2, <4>1, <4>2, MovedCall DEF Asking
    <3> QED
      BY <3>3, <3>4
  <2>4. CASE Deadline(c)
    BY <1>1, <2>4 DEF Deadline, hubVars, sockets, CInv, CallsOK
  <2>5. CASE PromptDecides(c)
    <3>1. /\ UNCHANGED <<call, handler>> /\ prompt[c] # "none"
          /\ prompt' = [prompt EXCEPT ![c] = "over"]
      BY <2>5, ClientAssumption DEF PromptDecides, sockets
    <3> QED
      BY <1>1, <3>1 DEF CInv, CallsOK, PromptTypes
  <2> QED
    BY <1>2, <2>1, <2>2, <2>3, <2>4, <2>5, CreateSays, WaitSays, RecvSays, PollSays, CancelSays
       DEF ClientStep, Progress
<1>3. CASE LineTyped
  <2>1. UNCHANGED <<call, handler>>
    BY <1>3 DEF LineTyped, hubVars, sockets
  <2>2. CASE UNCHANGED prompt
    BY <1>1, <2>1, <2>2 DEF CInv, CallsOK
  <2>3. CASE \E choice \in Choices :
               /\ prompt[Head(readers)] = "reading"
               /\ prompt' = [prompt EXCEPT ![Head(readers)] = choice]
    <3>1. PICK choice \in Choices : /\ prompt[Head(readers)] = "reading"
                                    /\ prompt' = [prompt EXCEPT ![Head(readers)] = choice]
      BY <2>3
    <3>2. choice \in PromptTypes /\ choice # "none"
      BY <3>1, ClientAssumption DEF Choices, PromptTypes
    <3> QED
      BY <1>1, <2>1, <3>1, <3>2 DEF CInv, CallsOK
  <2> QED
    BY <1>3, <2>2, <2>3 DEF LineTyped
<1>4. ASSUME NEW i \in Ids, DaemonStep(i), UNCHANGED <<call, late, prompt, readers>> PROVE CallsOK'
  <2>1. handler' = handler
    BY <1>4 DEF DaemonStep, Deliver, Others, Announce, ClockPasses, sockets
  <2> QED
    BY <1>1, <1>4, <2>1 DEF CInv, CallsOK
<1>5. ASSUME NEW s \in Subscribers, HandlerStep(s), UNCHANGED <<call, late, prompt, readers>>
      PROVE  CallsOK'
  <2>1. /\ handler[s].pc \in {"accepted", "snapshot", "loop", "send", "closing"}
        /\ \E label \in {"snapshot", "send", "loop", "closing", "closed"} : \E out :
             Handle(s, label, out)
    BY <1>5 DEF HandlerStep, Subscribe, Snapshot, Take, Send, Unsubscribe
  <2>2. \A t \in Subscribers : /\ handler[t].pc = "none" <=> handler'[t].pc = "none"
                               /\ handler'[t].topic = handler[t].topic
    BY <2>1 DEF Handle, CInv, SocketsOK, Handlers
  <2> QED
    BY <1>1, <1>5, <2>2 DEF CInv, CallsOK
<1>6. CASE Restart /\ UNCHANGED <<call, late, prompt, readers>>
  <2>1. \A t \in Subscribers : /\ handler[t].pc = "none" <=> handler'[t].pc = "none"
                               /\ handler'[t].topic = handler[t].topic
    BY <1>6 DEF Restart, CInv, SocketsOK, Handlers
  <2> QED
    BY <1>1, <1>6, <2>1 DEF CInv, CallsOK
<1>7. CASE UNCHANGED vars
  BY <1>1, <1>7 DEF vars, hubVars, sockets, CInv, CallsOK
<1> QED
  BY <1>2, <1>3, <1>4, <1>5, <1>6, <1>7 DEF ClientNext, Daemon

-----------------------------------------------------------------------------
(* What a handler hears.                                                   *)

\* Statuses that are published: NOTIFIED is not.
Published == {"AWAITING_HUMAN"} \cup TerminalStatuses

\* A handler that will come to queue.get with nothing terminal sent.
Listening(s) ==
  \/ handler[s].pc = "loop"
  \/ handler[s].pc = "send" /\ ~IsTerminal(handler[s].out.status)

HasTerminal(updates) == \E n \in 1..Len(updates) : IsTerminal(updates[n].status)

\* Only terminal updates follow the first: a row is AWAITING_HUMAN once.
OneOpen(updates) == \A n \in 1..Len(updates) : n # 1 => IsTerminal(updates[n].status)

\* A queue holds updates of a row that has been published, the one that is not
\* terminal first; so a terminal one that finds it full finds another in it.
HearsOK(s) ==
  LET row == record[handler[s].topic] IN
  /\ handler[s].pc \in {"none", "accepted", "closed"} => queue[s] = <<>>
  /\ Len(queue[s]) <= QueueSize
  /\ queue[s] # <<>> => /\ row.status \in Published
                        /\ row.status = "AWAITING_HUMAN" => Len(queue[s]) = 1
  /\ OneOpen(queue[s])
  /\ QueueSize >= 2 /\ Listening(s) /\ IsTerminal(said[handler[s].topic]) => HasTerminal(queue[s])

\* What is to be published, or was, is settled if it says so.
NewsOK ==
  /\ said \in [Ids -> Statuses \cup {Absent}]
  /\ \A i \in Ids : IsTerminal(said[i]) => IsTerminal(record[i].status)
  /\ unsaid \subseteq Ids
  /\ \A i \in unsaid : IsTerminal(record[i].status)

\* A call connects once, and knows the row it created.
KnowsOK(c) ==
  /\ call[c].pc = "connect" => handler[c].pc = "none"
  /\ call[c].id # None => record[call[c].id].client = c

HInv ==
  /\ NewsOK
  /\ \A s \in Subscribers : HearsOK(s)
  /\ \A c \in Clients : KnowsOK(c)

\* The queues of nobody are empty.
LEMMA InitHInv == ClientInit => HInv
<1> SUFFICES ASSUME ClientInit PROVE HInv
  OBVIOUS
<1>1. /\ call = [c \in Clients |-> Fresh] /\ unsaid = {} /\ said = [i \in Ids |-> Absent]
      /\ handler = [s \in Subscribers |-> NoHandler] /\ queue = [s \in Subscribers |-> <<>>]
  BY DEF ClientInit, HubInit
<1>2. Len(<<>>) = 0
  BY EmptySeq
<1>3. NewsOK
  BY <1>1 DEF NewsOK, IsTerminal, TerminalStatuses, Absent
<1>4. ASSUME NEW s \in Subscribers PROVE HearsOK(s)
  <2>1. handler[s].pc = "none" /\ queue[s] = <<>> /\ ~Listening(s)
    BY <1>1 DEF NoHandler, Listening
  <2> QED
    BY <1>2, <2>1, HubAssumption DEF HearsOK, OneOpen
<1> QED
  BY <1>1, <1>3, <1>4 DEF HInv, KnowsOK, Fresh

\* A row that has been published stays so, and is AWAITING_HUMAN only once.
LEMMA PublishedKept ==
  ASSUME CInv, [ClientNext]_vars, NEW i \in Ids
  PROVE  /\ record[i].status \in Published => record'[i].status \in Published
         /\ record'[i].status = "AWAITING_HUMAN" /\ record[i].status \in Published
              => record[i].status = "AWAITING_HUMAN"
<1>1. [Next]_record
  BY ClientRows
<1>2. CASE IsTerminal(record[i].status)
  BY <1>2, RowsKept DEF Published, IsTerminal
<1>3. CASE record[i].status = "AWAITING_HUMAN" /\ record'[i].status # "AWAITING_HUMAN"
  <2>1. ASSUME NEW j \in Ids, NEW q \in Clients, Create(j, q) PROVE FALSE
    BY <1>3, <2>1, CreateFields DEF CInv, IInv, Absent
  <2>2. ASSUME NEW j \in Ids, NEW target \in Statuses, NEW option \in Options \cup {None},
               Transition(j, target, option)
        PROVE  record'[i].status \in Published
    <3>1. /\ record'[j].status = target /\ CanTransition(record[j].status, target)
          /\ \A k \in Ids \ {j} : record'[k] = record[k]
      BY <2>2, TransitionFields DEF CInv, IInv, Transition
    <3> QED
      BY <1>3, <3>1 DEF CanTransition, Allowed, Published
  <2> QED
    BY <1>1, <1>3, <2>1, <2>2 DEF Next
<1> QED
  BY <1>2, <1>3 DEF Published, IsTerminal

\* A handler whose queue and topic stay, and that has not begun to listen, hears
\* what it heard.
LEMMA HearsOn ==
  ASSUME CInv, HInv, [ClientNext]_vars, NEW s \in Subscribers,
         handler'[s].topic = handler[s].topic, queue'[s] = queue[s],
         handler'[s].pc \in {"none", "accepted", "closed"} =>
           handler[s].pc \in {"none", "accepted", "closed"},
         Listening(s)' => Listening(s),
         handler[s].topic \in Ids =>
           (IsTerminal(said'[handler[s].topic]) => IsTerminal(said[handler[s].topic]))
  PROVE  HearsOK(s)'
<1>1. /\ HearsOK(s) /\ queue[s] \in Seq(Updates) /\ QueueSize \in Nat
      /\ handler[s].pc # "none" => handler[s].topic \in Ids
  BY HubAssumption DEF HInv, CInv, SocketsOK, SocketOK
<1>2. Listening(s) => handler[s].pc # "none"
  BY DEF Listening
<1>3. CASE handler[s].pc = "none"
  <2>1. queue[s] = <<>> /\ Len(queue[s]) = 0
    BY <1>1, <1>3, EmptySeq DEF HearsOK
  <2> QED
    BY <1>1, <1>2, <1>3, <2>1 DEF HearsOK, OneOpen
<1>4. CASE handler[s].pc # "none"
  <2>1. handler[s].topic \in Ids
    BY <1>1, <1>4
  <2>2. Len(queue[s]) \in Nat /\ (queue[s] = <<>> => Len(queue[s]) = 0)
    BY <1>1, LenProperties, EmptySeq
  <2>3. queue[s] # <<>> => record'[handler[s].topic].status \in Published
    BY <1>1, <2>1, PublishedKept DEF HearsOK
  <2>4. queue[s] # <<>> /\ record'[handler[s].topic].status = "AWAITING_HUMAN" => Len(queue[s]) = 1
    BY <1>1, <2>1, <2>2, PublishedKept DEF HearsOK
  <2> QED
    BY <1>1, <2>1, <2>3, <2>4 DEF HearsOK
<1> QED
  BY <1>3, <1>4

\* GET, decide and cancel leave to publish only what is settled.
LEMMA ServiceNews ==
  ASSUME CInv, HInv, [ClientNext]_vars, NEW i \in Ids, record[i].status # Absent,
         Read(i) \/ Cancel(i) \/ \E o \in Options : Decide(i, o)
  PROVE  unsaid' \subseteq Ids /\ \A j \in unsaid' : IsTerminal(record'[j].status)
<1>1. \A j \in unsaid : j \in Ids /\ IsTerminal(record'[j].status)
  BY RowsKept DEF HInv, NewsOK
<1>2. unsaid' \subseteq unsaid \cup {i}
  BY DEF Read, Cancel, Decide, Settle
<1>3. ASSUME NEW target \in TerminalStatuses, NEW option, Settle(i, target, option)
      PROVE  IsTerminal(record'[i].status)
  <2>1. option \in Options \cup {None} /\ target \in Statuses /\ Transition(i, target, option)
    BY <1>3 DEF Settle, Transition, Statuses
  <2>2. record'[i].status = target
    BY <2>1, TransitionFields DEF CInv, IInv
  <2> QED
    BY <2>2 DEF IsTerminal
<1>4. ASSUME i \notin unsaid, i \in unsaid' PROVE IsTerminal(record'[i].status)
  <2>1. CASE Read(i)
    BY <1>3, <1>4, <2>1 DEF Read, TerminalStatuses
  <2>2. CASE Cancel(i)
    BY <2>2, CancelSettles
  <2>3. ASSUME NEW o \in Options, Decide(i, o) PROVE IsTerminal(record'[i].status)
    <3>1. CASE Overdue(i)
      BY <1>4, <2>3, <3>1 DEF Decide
    <3>2. CASE ~Overdue(i) /\ CanTransition(record[i].status, "RESOLVED")
      BY <1>3, <2>3, <3>2 DEF Decide, TerminalStatuses
    <3>3. CASE ~Overdue(i) /\ ~CanTransition(record[i].status, "RESOLVED")
      <4>1. record' = record /\ record[i].decision = o
        BY <1>4, <2>3, <3>3 DEF Decide
      <4>2. record[i].status = "RESOLVED"
        BY <4>1, InterventionAssumption DEF CInv, IInv, DecisionIffResolved
      <4> QED
        BY <4>1, <4>2 DEF IsTerminal, TerminalStatuses
    <3> QED
      BY <3>1, <3>2, <3>3
  <2> QED
    BY <2>1, <2>2, <2>3
<1> QED
  BY <1>1, <1>2, <1>4

\* Nothing of the news changes, or the rows move under it.
LEMMA QuietNews ==
  ASSUME CInv, HInv, [ClientNext]_vars, said' = said,
         unsaid' \subseteq Ids /\ \A j \in unsaid' : IsTerminal(record'[j].status)
  PROVE  NewsOK'
BY RowsKept DEF HInv, NewsOK

\* And when nobody writes to it they do not.
LEMMA UnsaidKept ==
  ASSUME CInv, HInv, [ClientNext]_vars, unsaid' \subseteq unsaid
  PROVE  unsaid' \subseteq Ids /\ \A j \in unsaid' : IsTerminal(record'[j].status)
BY RowsKept DEF HInv, NewsOK

\* What is published of a row is what it says: AWAITING_HUMAN when it has just
\* become that, or how it was settled.
LEMMA PublishNews ==
  ASSUME CInv, HInv, [ClientNext]_vars, NEW i \in Ids, Publish(Update(i, record'[i])),
         unsaid' \subseteq unsaid
  PROVE  NewsOK'
<1>1. /\ said' = [said EXCEPT ![i] = record'[i].status]
      /\ record'[i].status \in Statuses \cup {Absent}
  BY RowsKept DEF Publish, Update, IInv, TypeOK
<1>2. said' \in [Ids -> Statuses \cup {Absent}]
  BY <1>1 DEF HInv, NewsOK
<1>3. ASSUME NEW j \in Ids, IsTerminal(said'[j]) PROVE IsTerminal(record'[j].status)
  <2>1. CASE j = i
    BY <1>1, <1>3, <2>1 DEF HInv, NewsOK
  <2>2. CASE j # i
    BY <1>1, <1>3, <2>2, RowsKept DEF HInv, NewsOK
  <2> QED
    BY <2>1, <2>2
<1> QED
  BY <1>2, <1>3, UnsaidKept DEF NewsOK

\* An update is offered to a queue: it is in it, or what is in it is terminal.
LEMMA OfferHears ==
  ASSUME NEW q \in Seq(Updates), NEW u \in Updates, Len(q) <= QueueSize, OneOpen(q),
         q # <<>> => IsTerminal(u.status)
  PROVE  /\ Offer(q, u) \in Seq(Updates) /\ Len(Offer(q, u)) <= QueueSize /\ OneOpen(Offer(q, u))
         /\ q = <<>> => Len(Offer(q, u)) = 1
         /\ QueueSize >= 2 /\ IsTerminal(u.status) => HasTerminal(Offer(q, u))
<1>1. /\ Len(q) \in Nat /\ QueueSize \in Nat \ {0} /\ (q # <<>> => Len(q) # 0) /\ (q = <<>> => Len(q) = 0)
      /\ \A n \in 1..Len(q) : n # 1 => IsTerminal(q[n].status)
  BY LenProperties, EmptySeq, HubAssumption DEF OneOpen
<1>2. CASE Len(q) < QueueSize
  <2> DEFINE longer == Append(q, u)
  <2>1. /\ longer \in Seq(Updates) /\ Len(longer) = Len(q) + 1 /\ longer[Len(q) + 1] = u
        /\ \A n \in 1..Len(q) : longer[n] = q[n]
    BY AppendProperties
  <2>2. Offer(q, u) = longer
    BY <1>2 DEF Offer
  <2> HIDE DEF longer
  <2>3. ASSUME NEW n \in 1..Len(longer), n # 1 PROVE IsTerminal(longer[n].status)
    <3>1. n \in 1..Len(q) \/ (n = Len(q) + 1 /\ q # <<>>)
      BY <1>1, <2>1, <2>3
    <3> QED
      BY <1>1, <2>1, <2>3, <3>1
  <2>4. IsTerminal(u.status) => HasTerminal(longer)
    <3>1. Len(q) + 1 \in 1..Len(longer)
      BY <1>1, <2>1
    <3> QED
      BY <2>1, <3>1 DEF HasTerminal
  <2>5. Len(longer) <= QueueSize
    BY <1>1, <1>2, <2>1
  <2> QED
    BY <1>1, <2>1, <2>2, <2>3, <2>4, <2>5 DEF OneOpen
<1>3. CASE ~(Len(q) < QueueSize)
  <2>1. Offer(q, u) = q /\ q # <<>>
    BY <1>1, <1>3 DEF Offer
  <2>2. ASSUME QueueSize >= 2 PROVE HasTerminal(q)
    <3>1. 2 \in 1..Len(q)
      BY <1>1, <1>3, <2>2
    <3> QED
      BY <1>1, <3>1 DEF HasTerminal
  <2> QED
    BY <2>1, <2>2
<1> QED
  BY <1>2, <1>3

\* A publication: whoever serves the intervention has it, or has what it says.
LEMMA PublishHears ==
  ASSUME CInv, HInv, [ClientNext]_vars, NEW i \in Ids, Publish(Update(i, record'[i])),
         handler' = handler,
         \/ IsTerminal(record'[i].status)
         \/ record'[i].status = "AWAITING_HUMAN" /\ record[i].status \notin Published,
         NEW s \in Subscribers
  PROVE  HearsOK(s)'
<1> DEFINE u == Update(i, record'[i])
<1>1. /\ queue'[s] = IF Subscribed(s, i) THEN Offer(queue[s], u) ELSE queue[s]
      /\ said' = [said EXCEPT ![i] = u.status] /\ u.status = record'[i].status
      /\ u \in Updates
  BY ReadIsTrue DEF Publish, Update
<1>2. /\ HearsOK(s) /\ queue[s] \in Seq(Updates)
      /\ handler[s].pc # "none" => handler[s].topic \in Ids
      /\ said \in [Ids -> Statuses \cup {Absent}] /\ QueueSize \in Nat
  BY HubAssumption DEF HInv, NewsOK, CInv, SocketsOK, SocketOK
<1> HIDE DEF u
<1>3. CASE Subscribed(s, i)
  <2>1. handler[s].topic = i /\ handler[s].pc \in {"snapshot", "send", "loop", "closing"}
    BY <1>3 DEF Subscribed
  <2>2. queue[s] # <<>> => IsTerminal(u.status)
    BY <1>1, <1>2, <2>1 DEF HearsOK
  <2>3. /\ queue'[s] \in Seq(Updates) /\ Len(queue'[s]) <= QueueSize /\ OneOpen(queue'[s])
        /\ queue[s] = <<>> => Len(queue'[s]) = 1
        /\ QueueSize >= 2 /\ IsTerminal(u.status) => HasTerminal(queue'[s])
    BY <1>1, <1>2, <1>3, <2>2, OfferHears DEF HearsOK
  <2>4. record'[i].status \in Published /\ (record'[i].status = "AWAITING_HUMAN" => queue[s] = <<>>)
    BY <1>1, <2>2 DEF Published, IsTerminal, TerminalStatuses
  <2>5. said'[i] = u.status
    BY <1>1, <1>2
  <2> QED
    BY <1>1, <2>1, <2>3, <2>4, <2>5 DEF HearsOK
<1>4. CASE ~Subscribed(s, i)
  <2>1. CASE handler[s].pc \notin {"snapshot", "send", "loop", "closing"}
    <3>1. ~Listening(s) /\ queue'[s] = queue[s] /\ ~Listening(s)'
      BY <1>1, <1>4, <2>1 DEF Listening
    <3>2. handler[s].pc \in {"none", "accepted", "closed"}
      BY <2>1 DEF CInv, SocketsOK, Handlers
    <3>3. queue[s] = <<>> /\ Len(queue[s]) = 0
      BY <1>2, <3>2, EmptySeq DEF HearsOK
    <3> QED
      BY <1>2, <3>1, <3>3 DEF HearsOK, OneOpen
  <2>2. CASE handler[s].topic # i
    <3>1. said'[handler[s].topic] = said[handler[s].topic] \/ handler[s].topic \notin Ids
      BY <1>1, <1>2, <2>2
    <3>2. queue'[s] = queue[s] /\ (Listening(s)' <=> Listening(s))
      BY <1>1, <1>4 DEF Listening
    <3> QED
      BY <3>1, <3>2, HearsOn
  <2> QED
    BY <1>4, <2>1, <2>2 DEF Subscribed
<1> QED
  BY <1>3, <1>4

\* A tail: what follows the first is terminal, and so what terminal there was
\* beyond it is still there.
LEMMA TailHears ==
  ASSUME NEW q \in Seq(Updates), q # <<>>, OneOpen(q)
  PROVE  /\ Len(Tail(q)) = Len(q) - 1 /\ Tail(q) \in Seq(Updates) /\ Head(q) \in Updates
         /\ OneOpen(Tail(q))
         /\ HasTerminal(q) => IsTerminal(Head(q).status) \/ HasTerminal(Tail(q))
<1> DEFINE rest == Tail(q)
<1>1. /\ Head(q) \in Updates /\ Head(q) = q[1] /\ rest \in Seq(Updates) /\ Len(rest) = Len(q) - 1
      /\ \A n \in 1..Len(rest) : rest[n] = q[n + 1]
  BY HeadTailProperties
<1>2. Len(q) \in Nat /\ Len(q) # 0
  BY LenProperties, EmptySeq
<1> HIDE DEF rest
<1>3. ASSUME NEW n \in 1..Len(rest) PROVE IsTerminal(rest[n].status)
  <2>1. n + 1 \in 1..Len(q) /\ n + 1 # 1
    BY <1>1, <1>2
  <2> QED
    BY <1>1, <2>1 DEF OneOpen
<1>4. ASSUME NEW n \in 1..Len(q), IsTerminal(q[n].status), n # 1 PROVE HasTerminal(rest)
  <2>1. n - 1 \in 1..Len(rest)
    BY <1>1, <1>2, <1>4
  <2> QED
    BY <1>3, <2>1 DEF HasTerminal
<1>5. HasTerminal(q) => IsTerminal(q[1].status) \/ HasTerminal(rest)
  BY <1>4 DEF HasTerminal
<1> QED
  BY <1>1, <1>3, <1>5 DEF rest, OneOpen

\* ws_endpoint goes on: what it hears before it sends it, or leaves.
LEMMA HandlerHears ==
  ASSUME CInv, HInv, [ClientNext]_vars, NEW s \in Subscribers, HandlerStep(s)
  PROVE  \A t \in Subscribers : HearsOK(t)'
<1>1. /\ handler \in [Subscribers -> Handlers] /\ queue \in [Subscribers -> Seq(Updates)]
      /\ handler[s].topic \in Ids /\ handler[s].pc \in {"accepted", "snapshot", "loop", "send", "closing"}
      /\ HearsOK(s) /\ queue[s] \in Seq(Updates) /\ said' = said /\ QueueSize \in Nat
  BY HubAssumption DEF CInv, SocketsOK, SocketOK, HInv, HandlerStep, Subscribe, Snapshot, Take, Send,
     Unsubscribe, hub
<1>2. ASSUME NEW label, NEW out, Handle(s, label, out)
      PROVE  /\ handler'[s].pc = label /\ handler'[s].out = out /\ handler'[s].topic = handler[s].topic
             /\ \A t \in Subscribers \ {s} : handler'[t] = handler[t]
  BY <1>1, <1>2 DEF Handle, Handlers
<1>3. ASSUME NEW label, NEW out, Handle(s, label, out), queue' = queue,
             label \notin {"none", "accepted", "closed"},
             label = "loop" \/ (label = "send" /\ ~IsTerminal(out.status)) =>
               Listening(s) \/ ~IsTerminal(said[handler[s].topic])
      PROVE  HearsOK(s)'
  <2>1. Listening(s)' => Listening(s) \/ ~IsTerminal(said[handler[s].topic])
    BY <1>2, <1>3 DEF Listening
  <2>2. CASE Listening(s)' => Listening(s)
    BY <1>1, <1>2, <1>3, <2>2, HearsOn
  <2>3. CASE ~IsTerminal(said[handler[s].topic])
    <3>1. /\ queue[s] # <<>> => record'[handler[s].topic].status \in Published
          /\ queue[s] # <<>> /\ record'[handler[s].topic].status = "AWAITING_HUMAN" => Len(queue[s]) = 1
      BY <1>1, PublishedKept DEF HearsOK
    <3> QED
      BY <1>1, <1>2, <1>3, <2>3, <3>1 DEF HearsOK
  <2> QED
    BY <2>1, <2>2, <2>3
<1>4. ASSUME NEW t \in Subscribers \ {s}, handler'[t] = handler[t], queue'[t] = queue[t]
      PROVE  HearsOK(t)'
  <2>1. Listening(t)' => Listening(t)
    BY <1>4 DEF Listening
  <2> QED
    BY <1>1, <1>4, <2>1, HearsOn
<1>5. CASE Subscribe(s)
  <2>1. Handle(s, "snapshot", NoUpdate) /\ queue' = queue
    BY <1>5 DEF Subscribe, hub
  <2> QED
    BY <1>2, <1>3, <1>4, <2>1
<1>6. CASE Snapshot(s)
  <2> DEFINE u == Update(handler[s].topic, record'[handler[s].topic])
  <2>1. Handle(s, "send", u) /\ queue' = queue
    BY <1>6 DEF Snapshot, hub
  <2>2. ~IsTerminal(u.status) => ~IsTerminal(said[handler[s].topic])
    BY <1>1, RowsKept DEF Update, HInv, NewsOK
  <2> HIDE DEF u
  <2> QED
    BY <1>2, <1>3, <1>4, <2>1, <2>2
<1>7. CASE Take(s)
  <2>1. /\ Handle(s, "send", Head(queue[s])) /\ queue[s] # <<>> /\ handler[s].pc = "loop"
        /\ queue'[s] = Tail(queue[s]) /\ \A t \in Subscribers \ {s} : queue'[t] = queue[t]
    BY <1>1, <1>7 DEF Take
  <2>2. /\ Len(Tail(queue[s])) = Len(queue[s]) - 1 /\ Tail(queue[s]) \in Seq(Updates)
        /\ OneOpen(Tail(queue[s]))
        /\ HasTerminal(queue[s]) => IsTerminal(Head(queue[s]).status) \/ HasTerminal(Tail(queue[s]))
    BY <1>1, <2>1, TailHears DEF HearsOK
  <2>3. Len(queue[s]) \in Nat /\ (Tail(queue[s]) # <<>> => Len(Tail(queue[s])) # 0)
    BY <1>1, <2>2, LenProperties, EmptySeq
  <2>4. /\ handler'[s].pc = "send" /\ handler'[s].out = Head(queue[s])
        /\ handler'[s].topic = handler[s].topic
        /\ \A t \in Subscribers \ {s} : handler'[t] = handler[t]
    BY <1>2, <2>1
  <2>5. /\ record'[handler[s].topic].status \in Published
        /\ record'[handler[s].topic].status = "AWAITING_HUMAN" => Len(queue[s]) = 1
    BY <1>1, <2>1, PublishedKept DEF HearsOK
  <2>6. /\ Len(queue'[s]) <= QueueSize
        /\ record'[handler[s].topic].status = "AWAITING_HUMAN" => queue'[s] = <<>>
    BY <1>1, <2>1, <2>2, <2>3, <2>5 DEF HearsOK
  <2>7. QueueSize >= 2 /\ Listening(s)' /\ IsTerminal(said'[handler[s].topic]) => HasTerminal(queue'[s])
    BY <1>1, <2>1, <2>2, <2>4 DEF HearsOK, Listening
  <2>8. HearsOK(s)'
    BY <1>1, <2>1, <2>2, <2>4, <2>5, <2>6, <2>7 DEF HearsOK
  <2> QED
    BY <1>4, <2>1, <2>4, <2>8
<1>8. CASE Send(s)
  <2> DEFINE label == IF s \in gone \/ IsTerminal(handler[s].out.status) THEN "closing" ELSE "loop"
  <2>1. Handle(s, label, NoUpdate) /\ queue' = queue /\ handler[s].pc = "send"
    BY <1>8 DEF Send, hub
  <2>2. label \in {"closing", "loop"} /\ (label = "loop" => Listening(s))
    BY <2>1 DEF Listening
  <2> HIDE DEF label
  <2> QED
    BY <1>2, <1>3, <1>4, <2>1, <2>2
<1>9. CASE Unsubscribe(s)
  <2>1. /\ Handle(s, "closed", NoUpdate)
        /\ queue'[s] = <<>> /\ \A t \in Subscribers \ {s} : queue'[t] = queue[t]
    BY <1>1, <1>9 DEF Unsubscribe
  <2>2. handler'[s].pc = "closed" /\ \A t \in Subscribers \ {s} : handler'[t] = handler[t]
    BY <1>2, <2>1
  <2>3. ~Listening(s)' /\ Len(<<>>) = 0
    BY <2>2, EmptySeq DEF Listening
  <2>4. HearsOK(s)'
    BY <1>1, <2>1, <2>3 DEF HearsOK, OneOpen
  <2> QED
    BY <1>4, <2>1, <2>2, <2>4
<1> QED
  BY <1>5, <1>6, <1>7, <1>8, <1>9 DEF HandlerStep

\* The daemon dies, and nobody listens.
LEMMA RestartHears ==
  ASSUME CInv, HInv, [ClientNext]_vars, Restart
  PROVE  NewsOK' /\ \A s \in Subscribers : HearsOK(s)'
<1>1. /\ handler' = [s \in Subscribers |->
           IF handler[s].pc = "none" THEN handler[s]
           ELSE [handler[s] EXCEPT !.pc = "closed", !.out = NoUpdate]]
      /\ queue' = [s \in Subscribers |-> <<>>] /\ said' = said /\ unsaid' = {}
  BY DEF Restart
<1>2. ASSUME NEW s \in Subscribers PROVE HearsOK(s)'
  <2>1. handler'[s].pc \in {"none", "closed"} /\ queue'[s] = <<>> /\ Len(<<>>) = 0
    BY <1>1, EmptySeq DEF CInv, SocketsOK, Handlers
  <2> QED
    BY <2>1, HubAssumption DEF HearsOK, OneOpen, Listening
<1> QED
  BY <1>1, <1>2, QuietNews

\* What is published stays true of the row, and nothing else is.
LEMMA NextNews ==
  ASSUME CInv, HInv, [ClientNext]_vars
  PROVE  NewsOK'
<1>1. CASE UNCHANGED <<said, unsaid>>
  BY <1>1, QuietNews, UnsaidKept
<1>2. ASSUME said' = said, NEW i \in Ids, record[i].status # Absent,
             Read(i) \/ Cancel(i) \/ \E o \in Options : Decide(i, o)
      PROVE  NewsOK'
  BY <1>2, QuietNews, ServiceNews
<1>3. ASSUME NEW c \in Clients, ClientStep(c) PROVE NewsOK'
  <2>1. CASE Poll(c) \/ BestEffortCancel(c) \/ PromptDecides(c)
    <3>1. call[c].id \in Ids /\ record[call[c].id].status # Absent /\ said' = said
      BY <2>1, ClientAssumption, InterventionAssumption
         DEF Poll, BestEffortCancel, PromptDecides, CInv, CallsOK, CallOK, Waits, Cancels, DaemonIdle, hub
    <3>2. \/ UNCHANGED unsaid
          \/ Read(call[c].id) \/ Cancel(call[c].id) \/ \E o \in Options : Decide(call[c].id, o)
      BY <2>1 DEF Poll, Get, BestEffortCancel, PromptDecides
    <3> QED
      BY <1>1, <1>2, <3>1, <3>2
  <2>2. CASE \/ Ask(c) \/ Created(c) \/ CreateReturns(c) \/ CreateFails(c) \/ Connect(c)
             \/ SocketFails(c) \/ SocketCloses(c) \/ Recv(c) \/ RecvLate(c) \/ PollFails(c)
             \/ Abort(c) \/ Joined(c) \/ Deadline(c)
    BY <1>1, <2>2 DEF Ask, Created, CreateReturns, CreateFails, Connect, SocketFails, SocketCloses,
         Recv, RecvLate, PollFails, Abort, Joined, Deadline, DaemonIdle, hubVars, hub
  <2> QED
    BY <1>3, <2>1, <2>2 DEF ClientStep, Progress
<1>4. ASSUME NEW i \in Ids, DaemonStep(i) PROVE NewsOK'
  <2>1. CASE Deliver(i)
    <3>1. unsaid' = unsaid /\ (said' = said \/ Publish(Update(i, record'[i])))
      BY <2>1 DEF Deliver, hub
    <3> QED
      BY <1>1, <3>1, PublishNews
  <2>2. CASE Announce(i)
    <3>1. Publish(Update(i, record'[i])) /\ unsaid' \subseteq unsaid
      BY <2>2 DEF Announce
    <3> QED
      BY <3>1, PublishNews
  <2>3. CASE Others(i)
    BY <1>2, <2>3 DEF Others, hub
  <2>4. CASE ClockPasses(i)
    BY <1>1, <2>4 DEF ClockPasses, hub
  <2> QED
    BY <1>4, <2>1, <2>2, <2>3, <2>4 DEF DaemonStep
<1>5. ASSUME NEW s \in Subscribers, HandlerStep(s) PROVE NewsOK'
  <2>1. CASE Snapshot(s)
    <3>1. handler[s].topic \in Ids /\ said' = said /\ Read(handler[s].topic)
      BY <2>1 DEF Snapshot, CInv, SocketsOK, SocketOK, hub
    <3>2. UNCHANGED unsaid \/ record[handler[s].topic].status # Absent
      BY <3>1 DEF Read, Overdue, IsOpen, OpenStatuses, Absent
    <3> QED
      BY <1>1, <1>2, <3>1, <3>2
  <2>2. CASE Subscribe(s) \/ Take(s) \/ Send(s) \/ Unsubscribe(s)
    BY <1>1, <2>2 DEF Subscribe, Take, Send, Unsubscribe, hub
  <2> QED
    BY <1>5, <2>1, <2>2 DEF HandlerStep
<1>6. CASE UNCHANGED vars \/ LineTyped
  BY <1>1, <1>6 DEF vars, LineTyped, hubVars, hub
<1> QED
  BY <1>3, <1>4, <1>5, <1>6, RestartHears DEF ClientNext, Daemon

\* A handler hears on, step by step.
LEMMA NextHears ==
  ASSUME CInv, HInv, [ClientNext]_vars
  PROVE  \A s \in Subscribers : HearsOK(s)'
<1>1. ASSUME UNCHANGED <<handler, hub>> PROVE \A s \in Subscribers : HearsOK(s)'
  BY <1>1, HearsOn DEF Listening, hub
<1>2. ASSUME NEW c \in Clients, ClientStep(c) PROVE \A s \in Subscribers : HearsOK(s)'
  <2>1. CASE Connect(c)
    <3>1. /\ handler' = [handler EXCEPT ![c] = [NoHandler EXCEPT !.pc = "accepted", !.topic = call[c].id]]
          /\ queue' = queue /\ said' = said /\ handler[c].pc = "none" /\ c \in Subscribers
          /\ handler \in [Subscribers -> Handlers]
      BY <2>1, ClientAssumption DEF Connect, Accept, DaemonIdle, hub, HInv, KnowsOK, CInv, SocketsOK
    <3>2. \A s \in Subscribers \ {c} : HearsOK(s)'
      BY <3>1, HearsOn DEF Listening
    <3>3. queue'[c] = <<>> /\ Len(<<>>) = 0 /\ handler'[c].pc = "accepted"
      BY <3>1, EmptySeq DEF HInv, HearsOK, NoHandler
    <3>4. HearsOK(c)'
      BY <3>3, HubAssumption DEF HearsOK, OneOpen, Listening
    <3> QED
      BY <3>2, <3>4
  <2>2. CASE \/ Ask(c) \/ Created(c) \/ CreateReturns(c) \/ CreateFails(c) \/ SocketFails(c)
             \/ SocketCloses(c) \/ Recv(c) \/ RecvLate(c) \/ Poll(c) \/ PollFails(c) \/ Abort(c)
             \/ BestEffortCancel(c) \/ Joined(c) \/ Deadline(c) \/ PromptDecides(c)
    BY <1>1, <2>2 DEF Ask, Created, CreateReturns, CreateFails, SocketFails, SocketCloses, Recv,
         RecvLate, Poll, PollFails, Abort, BestEffortCancel, Joined, Deadline, PromptDecides,
         DaemonIdle, hubVars, sockets
  <2> QED
    BY <1>2, <2>1, <2>2 DEF ClientStep, Progress
<1>3. ASSUME NEW i \in Ids, DaemonStep(i) PROVE \A s \in Subscribers : HearsOK(s)'
  <2>1. CASE Deliver(i)
    <3>1. PICK target \in {"NOTIFIED", "AWAITING_HUMAN", "FAILED"} :
            /\ Transition(i, target, None)
            /\ IF target = "NOTIFIED" THEN UNCHANGED hub ELSE Publish(Update(i, record'[i]))
      BY <2>1 DEF Deliver
    <3>2. /\ record'[i].status = target /\ handler' = handler
          /\ CanTransition(record[i].status, target)
      BY <2>1, <3>1, TransitionFields
         DEF Deliver, sockets, CInv, IInv, Transition, Statuses, OpenStatuses, TerminalStatuses
    <3>3. target = "AWAITING_HUMAN" => record[i].status \notin Published
      BY <3>2 DEF CanTransition, Allowed, Published, TerminalStatuses, IsTerminal
    <3>4. CASE target = "NOTIFIED"
      BY <1>1, <3>1, <3>2, <3>4
    <3>5. CASE target # "NOTIFIED"
      BY <3>1, <3>2, <3>3, <3>5, PublishHears DEF IsTerminal, TerminalStatuses
    <3> QED
      BY <3>4, <3>5
  <2>2. CASE Announce(i)
    <3>1. /\ Publish(Update(i, record'[i])) /\ handler' = handler
          /\ IsTerminal(record'[i].status)
      BY <2>2 DEF Announce, sockets, HInv, NewsOK
    <3> QED
      BY <3>1, PublishHears
  <2>3. CASE Others(i) \/ ClockPasses(i)
    BY <1>1, <2>3 DEF Others, ClockPasses, sockets
  <2> QED
    BY <1>3, <2>1, <2>2, <2>3 DEF DaemonStep
<1>4. CASE UNCHANGED vars \/ LineTyped
  BY <1>1, <1>4 DEF vars, LineTyped, hubVars, sockets
<1> QED
  BY <1>2, <1>3, <1>4, HandlerHears, RestartHears DEF ClientNext, Daemon

\* Only the answer to its create gives a call an id, or has it connect.
LEMMA IdGiven ==
  ASSUME CInv, NEW c \in Clients, ClientStep(c), ~CreateReturns(c)
  PROVE  /\ call'[c].id = call[c].id /\ (call'[c].pc = "connect" => call'[c] = call[c])
         /\ \A d \in Clients \ {c} : call'[d] = call[d]
<1>1. call \in [Clients -> CallRecords]
  BY DEF CInv, CallsOK
<1>3. ASSUME NEW end, NEW label \in {"cancel", "joining", "done"}, Leave(c, end, label)
      PROVE  /\ call'[c].id = call[c].id /\ call'[c].pc # "connect"
             /\ \A d \in Clients \ {c} : call'[d] = call[d]
  BY <1>1, <1>3 DEF Leave, CallRecords
<1>4. ASSUME NEW label, label # "connect", Goto(c, label)
      PROVE  /\ call'[c].id = call[c].id /\ call'[c].pc # "connect"
             /\ \A d \in Clients \ {c} : call'[d] = call[d]
  BY <1>1, <1>4 DEF Goto, CallRecords
<1>5. CASE Ask(c)
  BY <1>1, <1>5 DEF Ask, CallRecords
<1>6. CASE Created(c) \/ Connect(c) \/ RecvLate(c) \/ Joined(c) \/ SocketFails(c) \/ SocketCloses(c)
  BY <1>4, <1>6 DEF Created, Connect, RecvLate, Joined, SocketFails, SocketCloses, FallBack
<1>7. CASE CreateFails(c) \/ PollFails(c) \/ Abort(c)
  BY <1>3, <1>7 DEF CreateFails, PollFails, Abort, GivesUp, Over
<1>8. ASSUME NEW status, NEW option, Learn(c, status, option)
      PROVE  /\ call'[c].id = call[c].id /\ call'[c].pc # "connect"
             /\ \A d \in Clients \ {c} : call'[d] = call[d]
  BY <1>3, <1>8 DEF Learn, Over
<1>9. CASE Recv(c)
  BY <1>8, <1>9 DEF Recv
<1>10. CASE Poll(c)
  BY <1>3, <1>4, <1>8, <1>10 DEF Poll, Get, FallBack
<1>11. CASE BestEffortCancel(c)
  BY <1>1, <1>11 DEF BestEffortCancel, AfterCancel, Over, CallRecords
<1>12. CASE Deadline(c) \/ PromptDecides(c)
  BY <1>12 DEF Deadline, PromptDecides
<1> QED
  BY <1>5, <1>6, <1>7, <1>9, <1>10, <1>11, <1>12 DEF ClientStep, Progress

\* A handler exists once it is asked for.
LEMMA NoHandlerYet ==
  ASSUME CInv, [ClientNext]_vars, NEW c \in Clients, handler[c].pc = "none", ~Connect(c)
  PROVE  handler'[c].pc = "none"
<1>1. c \in Subscribers /\ handler \in [Subscribers -> Handlers]
  BY ClientAssumption DEF CInv, SocketsOK
<1>2. ASSUME NEW d \in Clients, ClientStep(d) PROVE handler'[c].pc = "none"
  <2>1. CASE Connect(d)
    BY <1>1, <2>1 DEF Connect, Accept
  <2>2. CASE ~Connect(d)
    BY <1>2, <2>2 DEF ClientStep, Progress, Ask, Created, CreateReturns, CreateFails, SocketFails,
         SocketCloses, Recv, RecvLate, Poll, PollFails, Abort, BestEffortCancel, Joined, Deadline,
         PromptDecides, hubVars, sockets
  <2> QED
    BY <2>1, <2>2
<1>3. ASSUME NEW i \in Ids, DaemonStep(i) PROVE handler'[c].pc = "none"
  BY <1>3 DEF DaemonStep, Deliver, Others, Announce, ClockPasses, sockets
<1>4. ASSUME NEW s \in Subscribers, HandlerStep(s) PROVE handler'[c].pc = "none"
  <2>1. handler[s].pc # "none" /\ \E label, out : Handle(s, label, out)
    BY <1>4 DEF HandlerStep, Subscribe, Snapshot, Take, Send, Unsubscribe
  <2> QED
    BY <1>1, <2>1 DEF Handle
<1>5. CASE Restart
  BY <1>1, <1>5 DEF Restart
<1>6. CASE UNCHANGED vars \/ LineTyped
  BY <1>6 DEF vars, LineTyped, hubVars, sockets
<1> QED
  BY <1>2, <1>3, <1>4, <1>5, <1>6 DEF ClientNext, Daemon

\* What a call knows is its own row, and it connects once.
LEMMA NextKnows ==
  ASSUME CInv, HInv, [ClientNext]_vars, NEW c \in Clients
  PROVE  KnowsOK(c)'
<1>1. KnowsOK(c) /\ call[c].id \in Ids \cup {None} /\ c # None
  BY InterventionAssumption DEF HInv, CInv, CallsOK, CallRecords
<1>2. \A i \in Ids : record[i].client = c => record'[i].client = c
  BY <1>1, ClientRows, StepFinal DEF CInv
<1>3. ASSUME call'[c].id = call[c].id, call'[c].pc = "connect" => call'[c] = call[c] /\ ~Connect(c)
      PROVE  KnowsOK(c)'
  BY <1>1, <1>2, <1>3, NoHandlerYet DEF KnowsOK
<1>4. CASE call'[c] = call[c] /\ ~Connect(c)
  BY <1>3, <1>4
<1>5. CASE CreateReturns(c)
  <2>1. PICK i \in Ids : /\ record[i].client = c
                         /\ call' = [call EXCEPT ![c].pc = FirstWait(c), ![c].id = i]
    BY <1>5 DEF CreateReturns
  <2>2. call'[c].id = i /\ handler[c].pc = "none" /\ handler' = handler
    BY <1>5, <2>1 DEF CreateReturns, CInv, CallsOK, CallRecords, CallOK, Asking, hubVars, sockets
  <2> QED
    BY <1>2, <2>1, <2>2 DEF KnowsOK
<1>6. ASSUME NEW d \in Clients, ClientStep(d) PROVE KnowsOK(c)'
  <2>1. CASE d = c /\ ~CreateReturns(c)
    <3>1. Connect(c) => call'[c].pc = "recv"
      BY DEF Connect, Goto, CInv, CallsOK, CallRecords
    <3> QED
      BY <1>3, <1>6, <2>1, <3>1, IdGiven
  <2>2. CASE d # c
    <3>1. call'[c] = call[c]
      <4>1. CASE CreateReturns(d)
        BY <2>2, <4>1 DEF CreateReturns, CInv, CallsOK
      <4>2. CASE ~CreateReturns(d)
        BY <1>6, <2>2, <4>2, IdGiven
      <4> QED
        BY <4>1, <4>2
    <3>2. ~Connect(c)
      BY <3>1 DEF Connect, Goto, CInv, CallsOK, CallRecords
    <3> QED
      BY <1>4, <3>1, <3>2
  <2> QED
    BY <1>5, <2>1, <2>2
<1>7. CASE LineTyped \/ UNCHANGED vars \/ (Daemon /\ UNCHANGED <<call, late, prompt, readers>>)
  <2>1. call' = call
    BY <1>7 DEF LineTyped, vars
  <2>2. ~Connect(c)
    BY <2>1 DEF Connect, Goto, CInv, CallsOK, CallRecords
  <2> QED
    BY <1>4, <2>1, <2>2
<1> QED
  BY <1>6, <1>7 DEF ClientNext

-----------------------------------------------------------------------------
(* Deadlines, where client and daemon agree about the time.                *)

\* A wait that is out of time asks about a row that is overdue, and never gave
\* up over one that was not.
Punctual(c) ==
  /\ c \in late \/ call[c].pc = "last" => call[c].id \in Ids /\ expired[call[c].id]
  /\ call[c].end # "early"

EInv == expired \in [Ids -> BOOLEAN] /\ \A c \in Clients : Punctual(c)

\* Time does not go back.
LEMMA ExpiredKept ==
  ASSUME EInv, [ClientNext]_vars
  PROVE  expired' \in [Ids -> BOOLEAN] /\ \A i \in Ids : expired[i] => expired'[i]
<1>1. CASE expired' = expired
  BY <1>1 DEF EInv
<1>2. ASSUME NEW i \in Ids, ClockPasses(i)
      PROVE  expired' \in [Ids -> BOOLEAN] /\ \A j \in Ids : expired[j] => expired'[j]
  BY <1>2 DEF ClockPasses, EInv
<1>3. ASSUME NEW c \in Clients, ClientStep(c) PROVE expired' = expired
  BY <1>3 DEF ClientStep, Progress, Ask, Created, CreateReturns, CreateFails, Connect, SocketFails,
       SocketCloses, Recv, RecvLate, Poll, PollFails, Abort, BestEffortCancel, Joined, Deadline,
       PromptDecides, DaemonIdle, hubVars
<1>4. ASSUME NEW i \in Ids, DaemonStep(i), ~ClockPasses(i) PROVE expired' = expired
  BY <1>4 DEF DaemonStep, Deliver, Others, Announce
<1>5. ASSUME NEW s \in Subscribers, HandlerStep(s) PROVE expired' = expired
  BY <1>5 DEF HandlerStep, Subscribe, Snapshot, Take, Send, Unsubscribe
<1>6. CASE UNCHANGED vars \/ LineTyped \/ Restart
  BY <1>1, <1>6 DEF vars, LineTyped, Restart, hubVars
<1> QED
  BY <1>1, <1>2, <1>3, <1>4, <1>5, <1>6 DEF ClientNext, Daemon

\* A call that stays where it is, and is not late since this step, is punctual
\* still.
LEMMA QuietPunctual ==
  ASSUME EInv, [ClientNext]_vars, NEW c \in Clients,
         call'[c].id = call[c].id, call'[c].end # "early",
         c \in late' => c \in late, call'[c].pc = "last" => call[c].pc = "last" \/ c \in late
  PROVE  Punctual(c)'
BY ExpiredKept DEF EInv, Punctual

\* The last GET of a punctual call settles the row, if nobody else has.
LEMMA LastIsTerminal ==
  ASSUME CInv, EInv, NEW c \in Clients, call[c].pc = "last", Read(call[c].id)
  PROVE  IsTerminal(record'[call[c].id].status)
<1> DEFINE i == call[c].id
<1>1. i \in Ids /\ expired[i] /\ record[i].status \in Statuses
  BY InterventionAssumption DEF EInv, Punctual, CInv, CallsOK, CallOK, Waits, IInv, TypeOK
<1>2. CASE IsOpen(record[i].status)
  <2>1. Transition(i, "TIMEOUT", None)
    BY <1>1, <1>2 DEF Read, Overdue, Settle
  <2> QED
    BY <1>1, <2>1, TransitionFields DEF CInv, IInv, Statuses, TerminalStatuses, IsTerminal
<1>3. CASE ~IsOpen(record[i].status)
  <2>1. record' = record
    BY <1>3 DEF Read, Overdue
  <2> QED
    BY <1>1, <1>3, <2>1 DEF Statuses, IsOpen, IsTerminal
<1> QED
  BY <1>2, <1>3

\* A step of the call itself.
LEMMA OwnPunctual ==
  ASSUME CInv, EInv, "skew" \notin Faults, [ClientNext]_vars, NEW c \in Clients, ClientStep(c)
  PROVE  Punctual(c)'
<1>1. call \in [Clients -> CallRecords] /\ Punctual(c)
  BY DEF CInv, CallsOK, EInv
<1>2. ASSUME NEW end, end # "early", NEW label \in {"cancel", "joining", "done"},
             Leave(c, end, label), late' = late
      PROVE  Punctual(c)'
  <2>1. call'[c].id = call[c].id /\ call'[c].end = end /\ call'[c].pc = label
    BY <1>1, <1>2 DEF Leave, CallRecords
  <2> QED
    BY <1>2, <2>1, QuietPunctual
<1>3. ASSUME NEW label, Goto(c, label), late' \subseteq late,
             label = "last" => c \in late
      PROVE  Punctual(c)'
  <2>1. call'[c].id = call[c].id /\ call'[c].end = call[c].end /\ call'[c].pc = label
    BY <1>1, <1>3 DEF Goto, CallRecords
  <2> QED
    BY <1>1, <1>3, <2>1, QuietPunctual DEF Punctual
<1>4. ASSUME NEW status, NEW option, Learn(c, status, option), late' = late PROVE Punctual(c)'
  <2>1. Meaning(status, option) # "early"
    BY DEF Meaning
  <2> QED
    BY <1>2, <1>4, <2>1 DEF Learn, Over
<1>5. CASE Created(c) \/ Connect(c) \/ RecvLate(c) \/ Joined(c) \/ SocketFails(c) \/ SocketCloses(c)
  BY <1>3, <1>5 DEF Created, Connect, RecvLate, Joined, SocketFails, SocketCloses, FallBack
<1>6. CASE CreateFails(c) \/ PollFails(c) \/ Abort(c)
  BY <1>2, <1>6 DEF CreateFails, PollFails, Abort, GivesUp, Over
<1>7. CASE Recv(c)
  <2>1. CASE call' = call
    BY <1>1, <1>7, <2>1, QuietPunctual DEF Recv, Punctual
  <2> QED
    BY <1>4, <1>7, <2>1 DEF Recv
<1>8. CASE Poll(c)
  <2>1. CASE IsTerminal(record'[call[c].id].status)
    BY <1>4, <1>8, <2>1 DEF Poll, Get
  <2>2. CASE ~IsTerminal(record'[call[c].id].status)
    <3>1. call[c].pc # "last"
      BY <1>8, <2>2, LastIsTerminal DEF Poll, Get
    <3> QED
      BY <1>3, <1>8, <2>2, <3>1 DEF Poll, Get, FallBack
  <2> QED
    BY <2>1, <2>2
<1>9. CASE Ask(c)
  <2>1. call'[c].id = call[c].id /\ call'[c].end = call[c].end /\ call'[c].pc = "creating"
    BY <1>1, <1>9 DEF Ask, CallRecords
  <2> QED
    BY <1>1, <1>9, <2>1, QuietPunctual DEF Ask, Punctual
<1>10. CASE CreateReturns(c)
  <2>1. c \notin late
    BY <1>1, <1>10, InterventionAssumption DEF CreateReturns, CInv, CallsOK, CallOK, Asking, Punctual
  <2>2. call'[c].pc # "last" /\ call'[c].end = call[c].end /\ late' = late
    BY <1>1, <1>10 DEF CreateReturns, FirstWait, CallRecords
  <2> QED
    BY <1>1, <2>1, <2>2 DEF Punctual
<1>11. CASE BestEffortCancel(c)
  <2>1. /\ call'[c].id = call[c].id /\ call'[c].end = call[c].end
        /\ call'[c].pc \in {"again", "joining", "done"}
    BY <1>1, <1>11 DEF BestEffortCancel, AfterCancel, Over, CallRecords
  <2> QED
    BY <1>1, <1>11, <2>1, QuietPunctual DEF BestEffortCancel, Punctual
<1>12. CASE Deadline(c)
  <2>1. call[c].id \in Ids /\ expired[call[c].id] /\ call' = call
    BY <1>12 DEF Deadline, CInv, CallsOK, CallOK
  <2>2. expired'[call[c].id]
    BY <2>1, ExpiredKept
  <2> QED
    BY <1>1, <2>1, <2>2 DEF Punctual
<1>13. CASE PromptDecides(c)
  BY <1>1, <1>13, QuietPunctual DEF PromptDecides, Punctual
<1> QED
  BY <1>5, <1>6, <1>7, <1>8, <1>9, <1>10, <1>11, <1>12, <1>13 DEF ClientStep, Progress

\* Another call's step touches neither its record nor its clock.
LEMMA OtherPunctual ==
  ASSUME CInv, EInv, [ClientNext]_vars, NEW c \in Clients, NEW d \in Clients \ {c}, ClientStep(d)
  PROVE  Punctual(c)'
<1>1. call'[c] = call[c]
  <2>1. CASE CreateReturns(d)
    BY <2>1 DEF CreateReturns, CInv, CallsOK
  <2>2. CASE ~CreateReturns(d)
    BY <2>2, IdGiven
  <2> QED
    BY <2>1, <2>2
<1>2. late' \subseteq late \cup {d}
  BY DEF ClientStep, Progress, Ask, Created, CreateReturns, CreateFails, Connect, SocketFails,
       SocketCloses, Recv, RecvLate, Poll, Get, FallBack, PollFails, Abort, BestEffortCancel, Joined,
       Deadline, PromptDecides
<1> QED
  BY <1>1, <1>2, QuietPunctual DEF EInv, Punctual

\* Every step leaves every call punctual.
LEMMA NextPunctual ==
  ASSUME CInv, EInv, "skew" \notin Faults, [ClientNext]_vars
  PROVE  EInv'
<1>1. ASSUME NEW c \in Clients PROVE Punctual(c)'
  <2>1. ASSUME NEW d \in Clients, ClientStep(d) PROVE Punctual(c)'
    BY <2>1, OwnPunctual, OtherPunctual
  <2>2. CASE UNCHANGED <<call, late>>
    BY <2>2, QuietPunctual DEF EInv, Punctual
  <2>3. CASE LineTyped \/ UNCHANGED vars
    BY <2>2, <2>3 DEF LineTyped, vars
  <2> QED
    BY <2>1, <2>2, <2>3 DEF ClientNext
<1> QED
  BY <1>1, ExpiredKept DEF EInv


-----------------------------------------------------------------------------
(* The theorems.                                                           *)

\* The invariant holds throughout.
LEMMA ClientInvariance == ClientSpec => []CInv
<1>1. CInv /\ [ClientNext]_vars => CInv'
  BY RowsKept, NextSockets, NextCalls DEF CInv
<1> QED
  BY <1>1, InitCInv, PTL DEF ClientSpec

\* Agents, daemon, connections and prompts together are an Intervention: what
\* Intervention promises holds under any of the client's faults.
THEOREM AsksAnIntervention == ClientSpec => Spec
<1>1. ClientInit => Init
  BY DEF ClientInit, HubInit
<1> QED
  BY <1>1, ClientRows, ClientInvariance, PTL DEF ClientSpec, Spec

\* For any number of calls, queues of any size, and however requests, sockets,
\* clocks and restarts fall: the outcome a call has read and tells its agent is
\* what the row says.  NeverEarly says when that leaves out nothing but errors.
THEOREM OutcomeIsTold == ClientSpec => []ToldTheOutcome
<1>1. CInv => ToldTheOutcome
  BY DEF CInv, CallsOK, CallOK, Says, ToldTheOutcome
<1> QED
  BY <1>1, ClientInvariance, PTL

\* Where the client's clock does not run ahead of the daemon's, no call gives up
\* before the daemon has written the timeout it tells (protocol.md, section 10).
THEOREM NeverEarly ==
  ASSUME "skew" \notin Faults
  PROVE  ClientSpec => [](\A c \in Clients : call[c].end # "early")
<1>1. ClientInit => EInv
  BY ClientAssumption DEF ClientInit, HubInit, EInv, Punctual, Fresh, Ends
<1>2. CInv /\ EInv /\ [ClientNext]_vars => EInv'
  BY NextPunctual
<1>3. EInv => \A c \in Clients : call[c].end # "early"
  BY DEF EInv, Punctual
<1> QED
  BY <1>1, <1>2, <1>3, ClientInvariance, PTL DEF ClientSpec

\* And a call that gave up in its wait leaves nobody asked, unless its last
\* cancel was not heard.
THEOREM NoQuestionIsLeft == ClientSpec => []LeavesNoQuestion
<1>1. CInv => LeavesNoQuestion
  BY DEF CInv, CallsOK, CallOK, Says, LeavesNoQuestion
<1> QED
  BY <1>1, ClientInvariance, PTL

\* Both invariants, together.
LEMMA HearingInvariance == ClientSpec => []HInv
<1>1. CInv /\ HInv /\ [ClientNext]_vars => HInv'
  BY NextNews, NextHears, NextKnows DEF HInv
<1> QED
  BY <1>1, InitHInv, ClientInvariance, PTL DEF ClientSpec

\* No queue outgrows its bound, and a call never learns the id of a row that is
\* not its own.
THEOREM ClientTypes == ClientSpec => []ClientTypeOK
<1>1. CInv /\ HInv => ClientTypeOK
  <2> SUFFICES ASSUME CInv, HInv PROVE ClientTypeOK
    OBVIOUS
  <2>1. call \in [Clients -> CallRecords] /\ prompt \in [Clients -> PromptTypes]
    BY DEF CInv, CallsOK
  <2>2. CallRecords = [kind : Kinds \cup {None},
                       pc : {"idle", "creating", "created", "cancel", "again", "joining", "done"}
                            \cup Waits,
                       id : Ids \cup {None}, end : Ends \cup {None}, unheard : BOOLEAN]
    BY DEF CallRecords, Asking, Cancels
  <2> QED
    BY <2>1, <2>2 DEF HInv, HearsOK, KnowsOK, ClientTypeOK, PromptTypes
<1> QED
  BY <1>1, ClientInvariance, HearingInvariance, PTL

\* With room for two updates (the daemon's queues have room for 64), a handler in
\* queue.get whose outcome has been published has it in its queue, however many
\* updates the bound has dropped.
THEOREM NobodyIsDeaf ==
  ASSUME QueueSize >= 2
  PROVE  ClientSpec => []NoDeafHandler
<1>1. CInv /\ HInv => NoDeafHandler
  <2> SUFFICES ASSUME CInv, HInv, NEW s \in Subscribers,
                      handler[s].pc = "loop", IsTerminal(said[handler[s].topic])
               PROVE  \E n \in DOMAIN queue[s] : IsTerminal(queue[s][n].status)
    BY DEF NoDeafHandler
  <2>1. HasTerminal(queue[s])
    BY DEF HInv, HearsOK, Listening
  <2>2. DOMAIN queue[s] = 1..Len(queue[s])
    BY LenProperties DEF CInv, SocketsOK
  <2> QED
    BY <2>1, <2>2 DEF HasTerminal
<1> QED
  BY <1>1, ClientInvariance, HearingInvariance, PTL

=============================================================================
