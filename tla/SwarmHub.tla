------------------------------ MODULE SwarmHub ------------------------------
(***************************************************************************)
(* The swarm control plane: swarm/swarm_hub.py with its takeover broker    *)
(* and shadow observer, and the routes of daemon/swarm_api.py.  No lock of *)
(* theirs is held across an await, so a request is one step; only the      *)
(* INSERT of a takeover is waited for.                                     *)
(***************************************************************************)
EXTENDS ChannelRouter, FiniteSets, FiniteSetsExt

CONSTANTS
  None,
  Agents,
  Tenants,
  Consoles,     \* connections to /ws/swarm
  Scopes,       \* tenant_id of a connection; AnyTenant when it gives none
  Roles,        \* roles a request may claim
  Rules,        \* the rules of the router: nothing in the daemon adds one later
  MaxAgents,    \* max_agents
  SignalQueue,  \* queue_size of TakeoverBroker
  EventQueue,   \* subscriber_queue_size of ShadowObserver
  History,      \* per_agent_history
  Recent,       \* limit of _persist_takeover
  MaxEvents,    \* bound: events published
  MaxSignals    \* bound: signals requested

ASSUME SwarmAssumption ==
  /\ IsFiniteSet(Agents)
  /\ None \notin Tenants \cup {AnyTenant} /\ AnyTenant \notin Tenants
  /\ Scopes \subseteq Tenants \cup {AnyTenant}
  /\ \A n \in DOMAIN Rules : Rules[n].tenant \in Tenants \cup {AnyTenant}
  /\ {MaxAgents, SignalQueue, EventQueue, History, Recent} \subseteq Nat \ {0}
  /\ MaxEvents \in Nat /\ MaxSignals \in Nat

VARIABLES
  registry,  \* _agents: agent -> its AgentMeta, or None
  signals,   \* agent -> takeover signals queued for it
  pending,   \* agent -> the last signal requested, 0 before the first
  got,       \* agent -> the last signal it has taken
  issued,    \* signals requested so far
  sequence,  \* _seq of ShadowObserver
  history,   \* agent -> its recent events
  console,   \* console -> the scope it subscribes to, None when away
  stream,    \* console -> events queued for it
  seen,      \* console -> sequence of the last event sent to it
  due,       \* console -> sequence of the last event published in its scope
  saving     \* takeover rows whose INSERT is waited for

broker == <<signals, pending, got, issued>>
shadow == <<sequence, history, stream, due>>
audience == <<console, seen>>
vars == <<registry, broker, shadow, audience, saving>>

Registered == {a \in Agents : registry[a] # None}

\* Mutant of Kept: a full queue refuses the newest.
KeptOldest(q, size) == IF Len(q) <= size THEN q ELSE SubSeq(q, 1, size)

\* A full queue, or deque, drops its oldest for each that comes.
Kept(q, size) == IF Len(q) <= size THEN q ELSE SubSeq(q, Len(q) - size + 1, Len(q))

-----------------------------------------------------------------------------
(* ShadowObserver.                                                         *)

InScope(c, tenant) == console[c] \in {AnyTenant, tenant}

\* One publish after the other, with no await between them.  What a status event
\* says is the only payload kept.
PublishAll(a, tenant, kinds, status) ==
  LET events == [n \in DOMAIN kinds |->
        [sequence |-> sequence + n, tenant |-> tenant, type |-> kinds[n],
         status |-> IF kinds[n] = "status" THEN status ELSE None]]
  IN  /\ sequence + Len(kinds) <= MaxEvents
      /\ sequence' = sequence + Len(kinds)
      /\ history' = [history EXCEPT ![a] = Kept(@ \o events, History)]
      /\ stream' = [c \in Consoles |->
           IF InScope(c, tenant) THEN Kept(stream[c] \o events, EventQueue) ELSE stream[c]]
      /\ due' = [c \in Consoles |-> IF InScope(c, tenant) THEN sequence' ELSE due[c]]

\* recent(limit), of which only the thoughts matter.
RecentThoughts(events, limit) ==
  {n \in DOMAIN events : n > Len(events) - limit /\ events[n].type = "thought"}

\* The last of them, named by its sequence; 0 when there is none.
Latest(events, limit) ==
  LET thoughts == RecentThoughts(events, limit) IN
  IF thoughts = {} THEN 0 ELSE events[Max(thoughts)].sequence

\* Mutant of LastThought: one recent event too few is looked at.
LastThoughtMissed(events) == Latest(events, Recent - 1)

\* before_thought
LastThought(events) == Latest(events, Recent)

-----------------------------------------------------------------------------
(* The registry.                                                           *)

\* Mutant of MayRegister: only the number of new agents is looked at.
MayRegisterAny(a) == registry[a] # None \/ Cardinality(Registered) <= MaxAgents

MayRegister(a) == registry[a] # None \/ Cardinality(Registered) < MaxAgents

\* A new AgentMeta replaces the old; queue, pending and history stay.
Register(a, tenant) ==
  /\ MayRegister(a)
  /\ registry' = [registry EXCEPT ![a] = [tenant |-> tenant, status |-> "idle"]]
  /\ UNCHANGED <<broker, shadow, audience, saving>>

Unregister(a) ==
  /\ a \in Registered
  /\ registry' = [registry EXCEPT ![a] = None]
  /\ PublishAll(a, registry[a].tenant, <<"status">>, "offline")
  /\ UNCHANGED <<broker, audience, saving>>

\* Mutant of SetStatus: what is published is the status it had.
SetStatusLate(a, status, kinds) ==
  /\ registry' = [registry EXCEPT ![a].status = status]
  /\ PublishAll(a, registry[a].tenant, <<"status">> \o kinds, registry[a].status)

\* set_status, and what is published in the same breath.
SetStatus(a, status, kinds) ==
  /\ registry' = [registry EXCEPT ![a].status = status]
  /\ PublishAll(a, registry[a].tenant, <<"status">> \o kinds, status)

\* What an agent may have to say: a thought or nothing.  (An action and a
\* screenshot are published, and later looked for, in the same way.)
Observations == {<<>>, <<"thought">>}

\* POST .../observe: RUNNING, whatever the agent was, then what it says; the
\* heartbeat says RUNNING again.
Observe(a) ==
  /\ a \in Registered
  /\ \E kinds \in Observations : SetStatus(a, "running", kinds)
  /\ UNCHANGED <<broker, audience, saving>>

-----------------------------------------------------------------------------
(* Takeovers.                                                              *)

\* request_takeover
Request(a) ==
  /\ issued < MaxSignals
  /\ issued' = issued + 1
  /\ pending' = [pending EXCEPT ![a] = issued']
  /\ signals' = [signals EXCEPT ![a] = Kept(Append(@, issued'), SignalQueue)]
  /\ UNCHANGED got

\* What _persist_takeover reads before its await: the agent's last status event
\* is the one of this takeover.
Row(a) ==
  [signal |-> issued', agent |-> a, tenant |-> registry[a].tenant,
   thought |-> LastThought(history'[a]), at |-> sequence']

ForceTakeover(a, role) ==
  /\ a \in Registered
  /\ Authorized(Rules, registry[a], role)
  /\ Request(a)
  /\ SetStatus(a, "takeover", <<>>)
  /\ saving' = saving \cup {Row(a)}
  /\ UNCHANGED <<audience>>

\* The INSERT (TakeoverInsert of InterventionStore) or its exception, which is
\* logged: the operator is answered either way.
Saved(row) ==
  /\ saving' = saving \ {row}
  /\ UNCHANGED <<registry, broker, shadow, audience>>

\* TakeoverBroker.resume: a signal like the others, whoever is registered.
Resume(a) == Request(a) /\ UNCHANGED <<registry, shadow, audience, saving>>

\* poll_takeover and wait_takeover, registered or not.
TakeSignal(a) ==
  /\ signals[a] # <<>>
  /\ got' = [got EXCEPT ![a] = Head(signals[a])]
  /\ signals' = [signals EXCEPT ![a] = Tail(@)]
  /\ UNCHANGED <<registry, pending, issued, shadow, audience, saving>>

-----------------------------------------------------------------------------
(* Consoles.                                                               *)

Subscribe(c, scope) ==
  /\ console[c] = None
  /\ console' = [console EXCEPT ![c] = scope]
  /\ UNCHANGED <<registry, broker, shadow, seen, saving>>

PumpShadow(c) ==
  /\ stream[c] # <<>>
  /\ seen' = [seen EXCEPT ![c] = Head(stream[c]).sequence]
  /\ stream' = [stream EXCEPT ![c] = Tail(@)]
  /\ UNCHANGED <<registry, broker, sequence, history, due, console, saving>>

\* A new connection will have a new queue.
Unsubscribe(c) ==
  /\ console[c] # None
  /\ console' = [console EXCEPT ![c] = None]
  /\ stream' = [stream EXCEPT ![c] = <<>>]
  /\ seen' = [seen EXCEPT ![c] = 0] /\ due' = [due EXCEPT ![c] = 0]
  /\ UNCHANGED <<registry, broker, sequence, history, saving>>

-----------------------------------------------------------------------------

Init ==
  /\ registry = [a \in Agents |-> None]
  /\ signals = [a \in Agents |-> <<>>] /\ pending = [a \in Agents |-> 0]
  /\ got = [a \in Agents |-> 0] /\ issued = 0
  /\ sequence = 0 /\ history = [a \in Agents |-> <<>>]
  /\ console = [c \in Consoles |-> None] /\ stream = [c \in Consoles |-> <<>>]
  /\ seen = [c \in Consoles |-> 0] /\ due = [c \in Consoles |-> 0]
  /\ saving = {}

Next ==
  \/ \E a \in Agents :
       \/ Unregister(a) \/ Observe(a) \/ Resume(a) \/ TakeSignal(a)
       \/ \E tenant \in Tenants : Register(a, tenant)
       \/ \E role \in Roles : ForceTakeover(a, role)
  \/ \E row \in saving : Saved(row)
  \/ \E c \in Consoles :
       PumpShadow(c) \/ Unsubscribe(c) \/ \E scope \in Scopes : Subscribe(c, scope)

Spec == Init /\ [][Next]_vars

-----------------------------------------------------------------------------

\* The hub stays within its bounds: re-registration never counts twice, and no
\* queue or history outgrows its size.
TypeOK ==
  /\ registry \in [Agents -> {None} \cup
       [tenant : Tenants, status : {"idle", "running", "takeover"}]]
  /\ Cardinality(Registered) <= MaxAgents
  /\ \A a \in Agents : Len(signals[a]) <= SignalQueue /\ Len(history[a]) <= History
  /\ \A c \in Consoles : Len(stream[c]) <= EventQueue

Increasing(s) == \A m, n \in DOMAIN s : m < n => s[m] < s[n]

\* What an agent has got and what it will get are signals in the order they were
\* requested, up to the newest: "Drop oldest, keep newest high-priority interrupt"
\* (request_takeover), though the agent re-registers in between.
SignalsInOrder ==
  \A a \in Agents :
    LET line == <<got[a]>> \o signals[a] IN
    Increasing(line) /\ line[Len(line)] = pending[a]

\* A console is sent the events of its scope in the order they were published; a
\* slow one misses old events, never the newest.
ObserversInOrder ==
  \A c \in Consoles : console[c] # None =>
    LET line == <<seen[c]>> \o [n \in DOMAIN stream[c] |-> stream[c][n].sequence] IN
    Increasing(line) /\ line[Len(line)] = due[c]

OnlyOldestIsLost == SignalsInOrder /\ ObserversInOrder

\* The row that is saved tells the moment of the takeover, whatever the agent
\* publishes or whoever registers under its name while the INSERT is waited for:
\* the tenant of then, and the last of its recent thoughts before it.
LedgerIsTrue ==
  \A row \in saving :
    LET events == history[row.agent]
        before == {n \in DOMAIN events : events[n].sequence <= row.at}
    IN
    /\ row.thought < row.at
    /\ \A n \in before :
         /\ events[n].sequence = row.at => events[n].tenant = row.tenant
         /\ events[n].type = "thought" /\ events[n].sequence > row.thought => n + Recent \in before

\* The status an agent has is the one last published of it, so consoles that keep
\* up show it and the history ends with it; a new registration alone starts from
\* "idle" without a word.
StatusIsShown ==
  \A a \in Registered :
    LET shown == {n \in DOMAIN history[a] : history[a][n].type = "status"} IN
    registry[a].status # "idle" =>
      shown # {} /\ history[a][Max(shown)].status = registry[a].status

=============================================================================
