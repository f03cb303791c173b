-------------------------- MODULE InterventionStore --------------------------
(***************************************************************************)
(* daemon/store.py, with TakeoverStore.insert of daemon/takeover_store.py, *)
(* at the grain of its awaits: every SQL statement on an aiosqlite         *)
(* connection is one step, and between two steps any other task may run.   *)
(*                                                                         *)
(* One InterventionStore per connection: its asyncio.Lock is lock[c].      *)
(* Several connections on one file are what a second daemon, or two        *)
(* concurrent first requests through app.py's _bootstrap_state, produce.   *)
(* SQLite (external): at most one connection holds the write transaction   *)
(* (tx); its uncommitted image is work, which every statement of the SAME  *)
(* connection sees, of whatever task; other connections see db.            *)
(*                                                                         *)
(* A task takes the lock together with its first statement under it: what  *)
(* it could do in between, no other step can tell apart.                   *)
(***************************************************************************)
EXTENDS CompareAndSet

CONSTANTS
  Ids, Clients,
  Choices,   \* option ids a caller may name, the offered ones included
  Channels,  \* names of channels
  Tokens,    \* callback tokens secrets.token_urlsafe may return
  Signals,   \* takeover signal ids
  Tasks,     \* coroutines that call the store
  Conns,     \* SQLite connections to the one database file
  ConnOf,    \* the connection of the store each task uses
  Ops,       \* operations the tasks call, among AllOps
  Faults     \* subset of {"crash", "error"}

\* Operations that end in a compare-and-set, with the status each aims at.
CasTarget == [decide |-> "RESOLVED", cancel |-> "CANCELLED", fail |-> "FAILED",
              timeout |-> "TIMEOUT", await |-> "NOTIFIED",
              await_direct |-> "AWAITING_HUMAN"]

CasOps == DOMAIN CasTarget

AllOps == CasOps \cup {"create", "allocate", "update_request", "takeover", "get"}

ASSUME StoreAssumption ==
  /\ None \notin Ids \cup Clients \cup Choices \cup Channels \cup Tasks \cup Conns
  /\ Options \subseteq Choices
  /\ ConnOf \in [Tasks -> Conns]
  /\ Ops \subseteq AllOps
  /\ Faults \subseteq {"crash", "error"}

VARIABLES
  db,     \* the committed database
  work,   \* the database as the open write transaction has left it
  tx,     \* the connection with an open write transaction, or None
  lock,   \* connection -> task that holds InterventionStore._lock, or None
  pc,     \* task -> the statement it is about to execute
  call,   \* task -> arguments of the call it is in
  seen,   \* task -> the row its SELECT returned
  told,   \* id -> terminal outcomes reported to some caller
  wins,   \* id -> calls that were told THEY made it terminal, at most 2
  named,  \* client_request_id -> intervention ids create has returned
  logged  \* signals whose TakeoverStore.insert has returned

tables == <<db, work, tx>>
task == <<pc, call, seen>>
history == <<told, wins, named, logged>>
vars == <<tables, lock, task, history>>

Rows == [client : Clients \cup {None}, status : Statuses \cup {Absent},
         decision : Choices \cup {None}, version : Nat, channel : Channels \cup {None}]

NoToken == [id |-> None, revoked |-> FALSE]

NoCall == [op |-> "none", id |-> None, client |-> None, target |-> Absent,
           option |-> None, channel |-> None, signal |-> None]

EmptyDb == [row |-> [i \in Ids |-> NoRow], token |-> [k \in Tokens |-> NoToken],
            event |-> {}]

-----------------------------------------------------------------------------
(* Statements.                                                             *)

Conn(t) == ConnOf[t]

\* What a statement on connection c reads.
View(c) == IF tx = c THEN work ELSE db

\* A writing statement on c: inside c's transaction, or by itself when c has
\* none open.  It waits while another connection holds the write lock.
Write(c, image) ==
  /\ tx \in {c, None}
  /\ work' = image
  /\ db' = IF tx = c THEN db ELSE image
  /\ UNCHANGED tx

\* Mutant of Begin: no BEGIN IMMEDIATE, each statement commits by itself.
BeginNothing(c) == UNCHANGED tables

\* BEGIN IMMEDIATE waits for the write lock of the file.
Begin(c) ==
  /\ tx = None
  /\ tx' = c
  /\ UNCHANGED <<db, work>>

\* Mutant of Commit: the call returns and nothing is committed.
CommitNothing(c) == UNCHANGED tables

\* commit() and rollback() act on whatever transaction c has open, if any.
Commit(c) ==
  /\ db' = IF tx = c THEN work ELSE db
  /\ tx' = IF tx = c THEN None ELSE tx
  /\ UNCHANGED work

Rollback(c) ==
  /\ work' = IF tx = c THEN db ELSE work
  /\ tx' = IF tx = c THEN None ELSE tx
  /\ UNCHANGED db

TakeLock(t) ==
  /\ lock[Conn(t)] \in {None, t}
  /\ lock' = [lock EXCEPT ![Conn(t)] = t]

\* Mutant of ReleaseLock: the lock is kept.
ReleaseNoLock(t) == lock' = lock

ReleaseLock(t) ==
  lock' = IF lock[Conn(t)] = t THEN [lock EXCEPT ![Conn(t)] = None] ELSE lock

Goto(t, label) == pc' = [pc EXCEPT ![t] = label]

\* Go on to the next statement of the same call.
Proceed(t, label) == Goto(t, label) /\ UNCHANGED <<lock, call, seen, history>>

\* Return from the call, or raise out of it.
Leave(t) ==
  /\ ReleaseLock(t)
  /\ Goto(t, "idle")
  /\ call' = [call EXCEPT ![t] = NoCall]
  /\ seen' = [seen EXCEPT ![t] = NoRow]

Outcome(row) == [status |-> row.status, decision |-> row.decision]

\* A caller learns the status of a row.
Tell(i, row) ==
  told' = IF IsTerminal(row.status) THEN [told EXCEPT ![i] = @ \cup {Outcome(row)}]
                                    ELSE told

-----------------------------------------------------------------------------
(* Calls.                                                                  *)

\* get(), and every other unlocked read a caller's reply is built from.
Get(c, i) ==
  /\ "get" \in Ops
  /\ Tell(i, View(c).row[i])
  /\ UNCHANGED <<tables, lock, task, wins, named, logged>>

Call(t, args, label) ==
  /\ pc[t] = "idle"
  /\ args.op \in Ops
  /\ call' = [call EXCEPT ![t] = args]
  /\ Goto(t, label)
  /\ UNCHANGED <<tables, lock, seen, history>>

CallCreate(t) ==
  \E q \in Clients : Call(t, [NoCall EXCEPT !.op = "create", !.client = q], "check")

\* decide, cancel and the FAILED of a delivery: cas_update with their target.
CallCas(t) ==
  \E op \in {"decide", "cancel", "fail"}, i \in Ids, o \in Choices \cup {None} :
    /\ op # "decide" => o = None
    /\ Call(t, [NoCall EXCEPT !.op = op, !.id = i, !.option = o, !.target = CasTarget[op]],
            "begin")

CallTimeout(t) ==
  \E i \in Ids :
    Call(t, [NoCall EXCEPT !.op = "timeout", !.id = i, !.target = "TIMEOUT"], "expiry")

CallMarkAwaiting(t) ==
  \E op \in {"await", "await_direct"}, i \in Ids, ch \in Channels :
    Call(t, [NoCall EXCEPT !.op = op, !.id = i, !.channel = ch, !.target = CasTarget[op]],
         "load")

CallWrite(t) ==
  \E op \in {"allocate", "update_request"}, i \in Ids :
    Call(t, [NoCall EXCEPT !.op = op, !.id = i], "begin")

CallTakeover(t) ==
  \E s \in Signals :
    /\ s \notin work.event \cup db.event
    /\ \A u \in Tasks : call[u].signal # s
    /\ Call(t, [NoCall EXCEPT !.op = "takeover", !.signal = s], "log")

-----------------------------------------------------------------------------
(* create                                                                  *)

OwnerOf(image, q) == {i \in Ids : image.row[i].client = q}

\* Return the intervention that already answers to this client_request_id.
Reuse(t, i) ==
  /\ named' = [named EXCEPT ![call[t].client] = @ \cup {i}]
  /\ Tell(i, View(Conn(t)).row[i])
  /\ Leave(t)
  /\ UNCHANGED <<tables, wins, logged>>

CreateCheck(t) ==
  /\ pc[t] = "check"
  /\ TakeLock(t)
  /\ OwnerOf(View(Conn(t)), call[t].client) = {}
  /\ Goto(t, "begin")
  /\ UNCHANGED <<tables, call, seen, history>>

CreateExisting(t) ==
  /\ pc[t] = "check"
  /\ lock[Conn(t)] = None
  /\ \E i \in OwnerOf(View(Conn(t)), call[t].client) : Reuse(t, i)

CreateInsert(t) ==
  LET image == View(Conn(t)) IN
  /\ pc[t] = "insert"
  /\ OwnerOf(image, call[t].client) = {}
  /\ \E i \in Ids :
       /\ image.row[i].status = Absent
       /\ Write(Conn(t), [image EXCEPT !.row[i] = NewRow(call[t].client)])
       /\ call' = [call EXCEPT ![t].id = i]
  /\ Goto(t, "commit")
  /\ UNCHANGED <<lock, seen, history>>

\* UNIQUE(client_request_id) refuses the INSERT.
CreateClash(t) ==
  /\ pc[t] = "insert"
  /\ OwnerOf(View(Conn(t)), call[t].client) # {}
  /\ Proceed(t, "clash")
  /\ UNCHANGED tables

CreateClashRollback(t) ==
  /\ pc[t] = "clash"
  /\ Rollback(Conn(t))
  /\ Proceed(t, "reread")

\* The row is there to be read: without it the AG_PERSISTENCE_ERROR of store.py:147
\* would be raised, and the call would stop here (CallsReturn).
CreateReread(t) ==
  /\ pc[t] = "reread"
  /\ \E i \in OwnerOf(View(Conn(t)), call[t].client) : Reuse(t, i)

-----------------------------------------------------------------------------
(* _cas_update_unlocked, shared by cas_update, mark_awaiting and the       *)
(* timeout check.                                                          *)

BeginTransaction(t) ==
  /\ pc[t] = "begin"
  /\ TakeLock(t)
  /\ Begin(Conn(t))
  /\ Goto(t, CASE call[t].op = "create" -> "insert"
               [] call[t].op \in CasOps -> "select"
               [] OTHER -> "write")
  /\ UNCHANGED <<call, seen, history>>

\* The SELECT, and the checks made on its row before the next await.
CasSelect(t) ==
  LET row == View(Conn(t)).row[call[t].id] IN
  /\ pc[t] = "select"
  /\ seen' = [seen EXCEPT ![t] = row]
  /\ Goto(t, Verdict(row, call[t].target, call[t].option))
  /\ UNCHANGED <<tables, lock, call, history>>

\* mark_awaiting: PENDING -> NOTIFIED is followed by NOTIFIED -> AWAITING_HUMAN
\* under the same hold of the lock, whatever the first update returned.
IsFirstHop(args) == args.op = "await" /\ args.target = "NOTIFIED"

SecondHop(t) ==
  /\ call' = [call EXCEPT ![t].target = "AWAITING_HUMAN"]
  /\ seen' = [seen EXCEPT ![t] = NoRow]
  /\ Goto(t, "begin")
  /\ UNCHANGED <<lock, history>>

\* commit, then return the row as it was read (idempotent=True).
CasEcho(t) ==
  /\ pc[t] = "echo"
  /\ Commit(Conn(t))
  /\ IF IsFirstHop(call[t])
       THEN SecondHop(t)
       ELSE /\ Tell(call[t].id, seen[t])
            /\ Leave(t)
            /\ UNCHANGED <<wins, named, logged>>

\* apply_timeout_if_expired reads the row again where others raise.
RaiseAlreadyTerminal(t, row) ==
  IF call[t].op = "timeout"
    THEN /\ ReleaseLock(t)
         /\ Goto(t, "expired_get")
         /\ UNCHANGED <<call, seen, history>>
    ELSE /\ Tell(call[t].id, row)
         /\ Leave(t)
         /\ UNCHANGED <<wins, named, logged>>

\* commit, then raise AG_ALREADY_TERMINAL with the status that was read.
CasAlreadyTerminal(t) ==
  /\ pc[t] = "terminal"
  /\ Commit(Conn(t))
  /\ RaiseAlreadyTerminal(t, seen[t])

\* Mutant of RollbackAndRaise: a raise without the rollback.
RaiseOnly(t) ==
  /\ pc[t] = "reject"
  /\ Leave(t)
  /\ UNCHANGED <<tables, history>>

\* rollback, then raise: AG_NOT_FOUND, AG_STATE_CONFLICT, AG_INVALID_REQUEST,
\* or the exception of a statement.
RollbackAndRaise(t) ==
  /\ pc[t] = "reject"
  /\ Rollback(Conn(t))
  /\ Leave(t)
  /\ UNCHANGED history

CasUpdate(t) ==
  LET image == View(Conn(t))
      i == call[t].id
  IN
  /\ pc[t] = "update"
  /\ StillCurrent(image.row[i], seen[t])
  /\ Write(Conn(t), [image EXCEPT !.row[i] =
       Updated(@, seen[t], call[t].target, call[t].option, call[t].channel)])
  /\ Proceed(t, IF IsTerminal(call[t].target) THEN "revoke" ELSE "commit")

\* rowcount is 0: somebody else wrote the row.
CasLost(t) ==
  /\ pc[t] = "update"
  /\ tx \in {Conn(t), None}
  /\ ~StillCurrent(View(Conn(t)).row[call[t].id], seen[t])
  /\ Proceed(t, "lost")
  /\ UNCHANGED tables

CasLostRollback(t) ==
  /\ pc[t] = "lost"
  /\ Rollback(Conn(t))
  /\ Proceed(t, "latest")

CasLostRead(t) ==
  LET row == View(Conn(t)).row[call[t].id] IN
  /\ pc[t] = "latest"
  /\ IF IsTerminal(row.status)
       THEN RaiseAlreadyTerminal(t, row)
       ELSE Leave(t) /\ UNCHANGED history
  /\ UNCHANGED tables

\* Mutant of Revoked: no UPDATE of callback_tokens.
RevokedNone(image, i) == image.token

Revoked(image, i) ==
  [k \in Tokens |-> IF image.token[k].id = i THEN [image.token[k] EXCEPT !.revoked = TRUE]
                                             ELSE image.token[k]]

\* Mutant of CasRevokeTokens: the caller is answered before the commit.
CasRevokeTokensTold(t) ==
  LET image == View(Conn(t)) IN
  /\ pc[t] = "revoke"
  /\ Write(Conn(t), [image EXCEPT !.token = Revoked(image, call[t].id)])
  /\ Tell(call[t].id, image.row[call[t].id])
  /\ Goto(t, "commit")
  /\ UNCHANGED <<lock, call, seen, wins, named, logged>>

CasRevokeTokens(t) ==
  LET image == View(Conn(t)) IN
  /\ pc[t] = "revoke"
  /\ Write(Conn(t), [image EXCEPT !.token = Revoked(image, call[t].id)])
  /\ Proceed(t, "commit")

CommitTransaction(t) ==
  /\ pc[t] = "commit"
  /\ Commit(Conn(t))
  /\ IF call[t].op \in CasOps
       THEN /\ Proceed(t, "result")
       ELSE /\ Leave(t)
            /\ named' = IF call[t].op = "create"
                          THEN [named EXCEPT ![call[t].client] = @ \cup {call[t].id}]
                          ELSE named
            /\ UNCHANGED <<told, wins, logged>>

\* get() the row just written and return it (idempotent=False).
CasResult(t) ==
  LET i == call[t].id
      row == View(Conn(t)).row[i]
  IN
  /\ pc[t] = "result"
  /\ IF IsFirstHop(call[t])
       THEN SecondHop(t)
       ELSE /\ Tell(i, row)
            /\ wins' = IF IsTerminal(call[t].target) /\ wins[i] < 2
                         THEN [wins EXCEPT ![i] = @ + 1] ELSE wins
            /\ Leave(t)
            /\ UNCHANGED <<named, logged>>
  /\ UNCHANGED tables

-----------------------------------------------------------------------------
(* mark_awaiting and apply_timeout_if_expired, up to their updates.        *)

\* Not found: raise.  Terminal: return the row, idempotent.
MarkAwaitingReturns(t) ==
  LET row == View(Conn(t)).row[call[t].id] IN
  /\ pc[t] = "load"
  /\ lock[Conn(t)] = None
  /\ ~IsOpen(row.status)
  /\ Tell(call[t].id, row)
  /\ Leave(t)
  /\ UNCHANGED <<tables, wins, named, logged>>

MarkAwaitingLoad(t) ==
  LET row == View(Conn(t)).row[call[t].id] IN
  /\ pc[t] = "load"
  /\ TakeLock(t)
  /\ IsOpen(row.status)
  /\ call' = [call EXCEPT ![t].target =
       IF row.status = "PENDING" /\ call[t].op = "await" THEN "NOTIFIED"
                                                        ELSE "AWAITING_HUMAN"]
  /\ Goto(t, "begin")
  /\ UNCHANGED <<tables, seen, history>>

\* The clock is free: an open row may or may not have expired when it is read.
TimeoutDue(t) ==
  /\ pc[t] = "expiry"
  /\ IsOpen(View(Conn(t)).row[call[t].id].status)
  /\ Proceed(t, "begin")
  /\ UNCHANGED tables

TimeoutNotDue(t) ==
  /\ pc[t] = "expiry"
  /\ Leave(t)
  /\ UNCHANGED <<tables, history>>

TimeoutAlreadyTerminal(t) ==
  /\ pc[t] = "expired_get"
  /\ Tell(call[t].id, View(Conn(t)).row[call[t].id])
  /\ Leave(t)
  /\ UNCHANGED <<tables, wins, named, logged>>

-----------------------------------------------------------------------------
(* allocate_callback_token, update_request, TakeoverStore.insert           *)

\* A fresh token for an existing row: nothing looks at the row's status.
AllocateToken(t) ==
  LET image == View(Conn(t)) IN
  /\ pc[t] = "write"
  /\ call[t].op = "allocate"
  /\ image.row[call[t].id].status # Absent
  /\ \E k \in Tokens :
       /\ image.token[k] = NoToken
       /\ Write(Conn(t), [image EXCEPT !.token[k] = [id |-> call[t].id, revoked |-> FALSE]])
  /\ Proceed(t, "commit")

\* The foreign key refuses the INSERT; or the model has no token left.
AllocateRefused(t) ==
  LET image == View(Conn(t)) IN
  /\ pc[t] = "write"
  /\ call[t].op = "allocate"
  /\ image.row[call[t].id].status = Absent \/ \A k \in Tokens : image.token[k] # NoToken
  /\ Proceed(t, "reject")
  /\ UNCHANGED tables

\* request_json is not modelled: the statement only occupies the transaction.
UpdateRequest(t) ==
  /\ pc[t] = "write"
  /\ call[t].op = "update_request"
  /\ Write(Conn(t), View(Conn(t)))
  /\ Proceed(t, "commit")

\* TakeoverStore takes no lock and opens no transaction: its INSERT joins the
\* transaction some other task has open on the connection, if there is one,
TakeoverInsert(t) ==
  LET image == View(Conn(t)) IN
  /\ pc[t] = "log"
  /\ Write(Conn(t), [image EXCEPT !.event = @ \cup {call[t].signal}])
  /\ Proceed(t, "log_commit")

\* and its commit() ends that transaction wherever its owner has got to.
TakeoverCommit(t) ==
  /\ pc[t] = "log_commit"
  /\ Commit(Conn(t))
  /\ logged' = logged \cup {call[t].signal}
  /\ Leave(t)
  /\ UNCHANGED <<told, wins, named>>

-----------------------------------------------------------------------------
(* Faults.                                                                 *)

\* A statement inside the try block raises: the handler rolls back.  (It catches
\* Exception: the CancelledError of a shutdown is not in the model.)
StatementFails(t) ==
  /\ "error" \in Faults
  /\ pc[t] \in {"insert", "select", "update", "revoke", "write", "commit", "echo", "terminal"}
  /\ Proceed(t, "reject")
  /\ UNCHANGED tables

\* The write lock stays with another connection past the busy timeout: BEGIN
\* IMMEDIATE, or the INSERT of a takeover, raises and nothing is rolled back.
GiveUp(t) ==
  /\ "error" \in Faults
  /\ pc[t] \in {"begin", "log"}
  /\ pc[t] = "begin" => lock[Conn(t)] \in {None, t}
  /\ tx \notin {Conn(t), None}
  /\ Leave(t)
  /\ UNCHANGED <<tables, history>>

\* The process that owns connection c dies; SQLite drops what is uncommitted.
Crash(c) ==
  /\ "crash" \in Faults
  /\ \E t \in Tasks : Conn(t) = c /\ pc[t] # "idle"
  /\ Rollback(c)
  /\ lock' = [lock EXCEPT ![c] = None]
  /\ pc' = [t \in Tasks |-> IF Conn(t) = c THEN "idle" ELSE pc[t]]
  /\ call' = [t \in Tasks |-> IF Conn(t) = c THEN NoCall ELSE call[t]]
  /\ seen' = [t \in Tasks |-> IF Conn(t) = c THEN NoRow ELSE seen[t]]
  /\ UNCHANGED history

-----------------------------------------------------------------------------

Init ==
  /\ db = EmptyDb
  /\ work = EmptyDb
  /\ tx = None
  /\ lock = [c \in Conns |-> None]
  /\ pc = [t \in Tasks |-> "idle"]
  /\ call = [t \in Tasks |-> NoCall]
  /\ seen = [t \in Tasks |-> NoRow]
  /\ told = [i \in Ids |-> {}]
  /\ wins = [i \in Ids |-> 0]
  /\ named = [q \in Clients |-> {}]
  /\ logged = {}

Invoke(t) ==
  \/ CallCreate(t) \/ CallCas(t) \/ CallTimeout(t)
  \/ CallMarkAwaiting(t) \/ CallWrite(t) \/ CallTakeover(t)

CreateStep(t) ==
  \/ CreateCheck(t) \/ CreateExisting(t) \/ CreateInsert(t) \/ CreateClash(t)
  \/ CreateClashRollback(t) \/ CreateReread(t)

CasStep(t) ==
  \/ BeginTransaction(t) \/ CasSelect(t) \/ CasEcho(t) \/ CasAlreadyTerminal(t)
  \/ RollbackAndRaise(t) \/ CasUpdate(t) \/ CasLost(t) \/ CasLostRollback(t)
  \/ CasLostRead(t) \/ CasRevokeTokens(t) \/ CommitTransaction(t) \/ CasResult(t)

OtherStep(t) ==
  \/ MarkAwaitingReturns(t) \/ MarkAwaitingLoad(t)
  \/ TimeoutDue(t) \/ TimeoutNotDue(t) \/ TimeoutAlreadyTerminal(t)
  \/ AllocateToken(t) \/ AllocateRefused(t) \/ UpdateRequest(t)
  \/ TakeoverInsert(t) \/ TakeoverCommit(t)

\* The coroutine t runs up to its next await.
Step(t) == CreateStep(t) \/ CasStep(t) \/ OtherStep(t)

Next ==
  \/ \E t \in Tasks : Invoke(t) \/ Step(t) \/ StatementFails(t) \/ GiveUp(t)
  \/ \E c \in Conns : Crash(c) \/ \E i \in Ids : Get(c, i)

Spec == Init /\ [][Next]_vars

\* The event loop runs every ready task; asyncio.Lock hands itself over in
\* FIFO order, so a waiter that could take it again and again does take it.
Fairness == \A t \in Tasks : SF_vars(Step(t))

FairSpec == Spec /\ Fairness

-----------------------------------------------------------------------------
(* What the store must guarantee.                                          *)

Labels == {"idle", "check", "begin", "insert", "clash", "reread", "select", "echo",
           "terminal", "reject", "update", "lost", "latest", "revoke", "commit", "result",
           "load", "expiry", "expired_get", "write", "log", "log_commit"}

Databases == [row : [Ids -> Rows], token : [Tokens -> [id : Ids \cup {None}, revoked : BOOLEAN]],
              event : SUBSET Signals]

Calls == [op : AllOps \cup {"none"}, id : Ids \cup {None}, client : Clients \cup {None},
          target : Statuses \cup {Absent}, option : Choices \cup {None},
          channel : Channels \cup {None}, signal : Signals \cup {None}]

Outcomes == [status : TerminalStatuses, decision : Options \cup {None}]

\* The tables hold rows, every task is at a statement of its call, and the
\* outcomes told to callers are terminal ones.
TypeOK ==
  /\ db \in Databases
  /\ work \in Databases
  /\ tx \in Conns \cup {None}
  /\ lock \in [Conns -> Tasks \cup {None}]
  /\ pc \in [Tasks -> Labels]
  /\ call \in [Tasks -> Calls]
  /\ seen \in [Tasks -> Rows]
  /\ told \in [Ids -> SUBSET Outcomes]
  /\ wins \in [Ids -> 0..2]
  /\ named \in [Clients -> SUBSET Ids]
  /\ logged \in SUBSET Signals

\* The labels at which a task is between its BEGIN and the end of what it began.
TransactionLabels ==
  {"insert", "clash", "select", "echo", "terminal", "reject", "update", "lost", "revoke",
   "write", "commit"}

InTransaction(t) == pc[t] \in TransactionLabels

\* BEGIN IMMEDIATE never meets a transaction of its own connection ("cannot
\* start a transaction within a transaction"): whoever left one open still
\* holds the connection's lock.  No statement of store.py that returns or raises
\* leads out of the lock with the transaction open.
TransactionUnderLock ==
  tx # None => \E t \in Tasks : lock[tx] = t /\ Conn(t) = tx /\ InTransaction(t)

\* No terminal outcome a caller was ever told is undone or replaced: it is what
\* the committed database says, after crashes, failed statements and races of
\* several connections too (protocol 4.4: settled once).
ToldIsCommitted ==
  \A i \in Ids : told[i] \subseteq {Outcome(db.row[i])}

\* protocol.md:16: an intervention is settled once.  Between transactions, a
\* terminal outcome some reader was given is the one in the database.
OutcomeSurvives == tx = None => ToldIsCommitted

\* At most one caller is told, with idempotent=False, that its own decide,
\* cancel, failure or timeout settled the intervention.
SingleWinner == \A i \in Ids : wins[i] <= 1

\* create answers a client_request_id with one id for ever, whatever raced or
\* crashed in between, and that id's row is committed.
CreateIsDurable ==
  \A q \in Clients : \A i \in named[q] : named[q] = {i} /\ db.row[i].client = q

\* active_channel is set on every row that waits for a human or has an answer:
\* without it service._revoke_remote would return and leave the card standing.
AskedSomewhere ==
  \A i \in Ids :
    db.row[i].status \in {"NOTIFIED", "AWAITING_HUMAN", "RESOLVED"} => db.row[i].channel # None

\* The step that commits a terminal status commits with it the revocation of
\* every callback token of the intervention (protocol 9.4).
SettlingRevokes ==
  [][\A i \in Ids :
       /\ IsOpen(db.row[i].status)
       /\ IsTerminal(db'.row[i].status)
       => \A k \in Tokens : db'.token[k].id = i => db'.token[k].revoked]_vars

\* store.py:176, "Compare-and-set status transition under an exclusive
\* transaction": from its SELECT to its commit the task's own transaction is open.
ExclusiveTransaction ==
  \A t \in Tasks : InTransaction(t) => tx = Conn(t)

\* takeover_store.py:1, "Persist Force Takeover ... events": a takeover whose
\* insert has returned is in the committed database.
TakeoversArePersisted == logged \subseteq db.event

\* Every call returns: no lock, transaction or commit is waited for for ever.
CallsReturn == \A t \in Tasks : pc[t] # "idle" ~> pc[t] = "idle"

-----------------------------------------------------------------------------
(* The committed database implements Intervention.                         *)

Record(row) == [client |-> row.client, status |-> row.status,
                decision |-> row.decision, version |-> row.version]

Promised == INSTANCE Intervention WITH record <- [i \in Ids |-> Record(db.row[i])]

\* Whatever tasks, connections, takeovers and crashes do between the awaits of
\* store.py, the committed rows only ever take the steps of Intervention.
ImplementsIntervention == Promised!Spec
=============================================================================
