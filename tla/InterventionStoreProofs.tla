----------------------- MODULE InterventionStoreProofs -----------------------
(***************************************************************************)
(* What holds of InterventionStore for any number of tasks, connections,   *)
(* rows and options, in two layers.  StateOK says that the tables and the  *)
(* tasks have the shape store.py gives them: which operation may be at     *)
(* which statement, with which arguments.  LockOK says who may have a      *)
(* transaction open: only a task that holds the asyncio.Lock of the        *)
(* connection.  InterventionStoreRefinement builds on both.                *)
(***************************************************************************)
EXTENDS InterventionStore, TLAPS

-----------------------------------------------------------------------------
(* Types.                                                                  *)

\* The operations a task may be in at each label.
OpsAt(label) ==
  CASE label \in {"check", "insert", "clash", "reread"} -> {"create"}
    [] label \in {"select", "echo", "terminal", "update", "lost", "latest", "revoke",
                  "result"} -> CasOps
    [] label = "load" -> {"await", "await_direct"}
    [] label \in {"expiry", "expired_get"} -> {"timeout"}
    [] label = "write" -> {"allocate", "update_request"}
    [] label \in {"begin", "commit", "reject"} -> AllOps \ {"takeover", "get"}
    [] label \in {"log", "log_commit"} -> {"takeover"}
    [] OTHER -> {"none"}

\* The arguments each operation carries; only decide aims at RESOLVED.
ArgsOK(args) ==
  /\ args.op = "create" => args.client \in Clients
  /\ args.op \in CasOps \cup {"allocate", "update_request"} => args.id \in Ids
  /\ args.op = "takeover" => args.signal \in Signals
  /\ args.op \in CasOps => /\ args.target \in Statuses \ {"PENDING"}
                           /\ args.target = "RESOLVED" <=> args.op = "decide"
  /\ args.op # "decide" => args.option = None

Fits(label, args) ==
  /\ args.op \in OpsAt(label)
  /\ ArgsOK(args)
  /\ label = "commit" => args.id \in Ids

TablesOK ==
  /\ db \in Databases
  /\ work \in Databases
  /\ tx \in Conns \cup {None}

ProcOK ==
  /\ lock \in [Conns -> Tasks \cup {None}]
  /\ pc \in [Tasks -> Labels]
  /\ call \in [Tasks -> Calls]
  /\ seen \in [Tasks -> Rows]
  /\ \A t \in Tasks : Fits(pc[t], call[t])

HistoryOK ==
  /\ wins \in [Ids -> 0..2]
  /\ named \in [Clients -> SUBSET Ids]
  /\ logged \in SUBSET Signals

StateOK == TablesOK /\ ProcOK /\ HistoryOK

\* The operations of store.py that end in a compare-and-set.
LEMMA CasOpsAre == CasOps = {"decide", "cancel", "fail", "timeout", "await", "await_direct"}
BY DEF CasOps, CasTarget

\* The status each of them asks for.
LEMMA CasTargets ==
  /\ CasTarget["decide"] = "RESOLVED"
  /\ CasTarget["cancel"] = "CANCELLED"
  /\ CasTarget["fail"] = "FAILED"
  /\ CasTarget["await"] = "NOTIFIED"
  /\ CasTarget["await_direct"] = "AWAITING_HUMAN"
BY DEF CasTarget

\* None is not a task, a connection or an id.
LEMMA NoneIsNone ==
  /\ None \notin Ids /\ None \notin Clients /\ None \notin Choices /\ None \notin Tasks
  /\ None \notin Conns
  /\ Options \subseteq Choices
  /\ \A t \in Tasks : Conn(t) \in Conns
<1>1. None \notin Ids /\ None \notin Clients /\ None \notin Choices
  BY StoreAssumption
<1>2. None \notin Tasks /\ None \notin Conns
  BY StoreAssumption
<1>3. Options \subseteq Choices
  BY StoreAssumption
<1>4. \A t \in Tasks : Conn(t) \in Conns
  BY StoreAssumption DEF Conn
<1> QED
  BY <1>1, <1>2, <1>3, <1>4

\* An id without a row has the shape of a row.
LEMMA NoRowIsRow == NoRow \in Rows
BY DEF NoRow, Rows

\* So has the row create() inserts.
LEMMA NewRowIsRow == ASSUME NEW q \in Clients PROVE NewRow(q) \in Rows
BY DEF NewRow, NoRow, Rows, Statuses, OpenStatuses

\* A task that is in no call has the shape of one.
LEMMA NoCallIsCall == NoCall \in Calls
BY DEF NoCall, Calls

\* The UPDATE of _cas_update_unlocked writes a row.
LEMMA UpdatedIsRow ==
  ASSUME NEW r \in Rows, NEW s \in Rows, NEW target \in Statuses,
         NEW option \in Choices \cup {None}, NEW ch \in Channels \cup {None}
  PROVE  Updated(r, s, target, option, ch) \in Rows
<1>1. s.version + 1 \in Nat
  BY DEF Rows
<1> QED
  BY <1>1 DEF Updated, Rows

\* What a statement reads is a database.
LEMMA ViewType ==
  ASSUME TablesOK, NEW c \in Conns PROVE View(c) \in Databases
BY DEF View, TablesOK

\* A writing statement keeps the shape of the tables.
LEMMA WriteTables ==
  ASSUME TablesOK, NEW c \in Conns, NEW image \in Databases, Write(c, image)
  PROVE  TablesOK'
BY DEF Write, TablesOK

\* So does BEGIN IMMEDIATE.
LEMMA BeginTables ==
  ASSUME TablesOK, NEW c \in Conns, Begin(c) PROVE TablesOK'
BY DEF Begin, TablesOK

\* So does COMMIT.
LEMMA CommitTables ==
  ASSUME TablesOK, NEW c \in Conns, Commit(c) PROVE TablesOK'
BY DEF Commit, TablesOK

\* So does ROLLBACK.
LEMMA RollbackTables ==
  ASSUME TablesOK, NEW c \in Conns, Rollback(c) PROVE TablesOK'
BY DEF Rollback, TablesOK

\* A database with one row replaced is a database.
LEMMA PutRow ==
  ASSUME NEW image \in Databases, NEW i \in Ids, NEW r \in Rows
  PROVE  [image EXCEPT !.row[i] = r] \in Databases
BY DEF Databases

\* A task that moves to a label its arguments fit keeps ProcOK.
LEMMA TaskMoves ==
  ASSUME ProcOK, NEW t \in Tasks, NEW label \in Labels, NEW args \in Calls, NEW r \in Rows,
         Fits(label, args),
         pc' = [pc EXCEPT ![t] = label],
         call' = [call EXCEPT ![t] = args], seen' = [seen EXCEPT ![t] = r],
         lock' \in [Conns -> Tasks \cup {None}]
  PROVE  ProcOK'
BY DEF ProcOK

\* The same for a task that goes on with its call.
LEMMA ProceedProc ==
  ASSUME ProcOK, NEW t \in Tasks, NEW label \in Labels, Fits(label, call[t]),
         Proceed(t, label)
  PROVE  ProcOK'
BY DEF ProcOK, Proceed, Goto

\* Releasing the asyncio.Lock leaves each lock with a task or with nobody.
LEMMA ReleaseLockType ==
  ASSUME ProcOK, NEW t \in Tasks, ReleaseLock(t)
  PROVE  lock' \in [Conns -> Tasks \cup {None}]
BY DEF ProcOK, ReleaseLock

\* So does acquiring it.
LEMMA TakeLockType ==
  ASSUME ProcOK, NEW t \in Tasks, TakeLock(t)
  PROVE  lock' \in [Conns -> Tasks \cup {None}]
BY DEF ProcOK, TakeLock

\* A task at rest is in no call.
LEMMA IdleFits == Fits("idle", NoCall)
BY CasOpsAre DEF Fits, NoCall, OpsAt, ArgsOK

\* Returning from a call, or raising out of it, keeps ProcOK.
LEMMA LeaveProc ==
  ASSUME ProcOK, NEW t \in Tasks, Leave(t)
  PROVE  ProcOK'
BY ReleaseLockType, IdleFits, NoRowIsRow, NoCallIsCall, TaskMoves DEF Leave, Goto, Labels

-----------------------------------------------------------------------------

\* Every call of the API starts well-formed.
LEMMA InvokeState ==
  ASSUME StateOK, NEW t \in Tasks, Invoke(t)
  PROVE  StateOK'
<1> USE DEF StateOK
<1>0. ASSUME NEW args \in Calls, NEW label \in Labels, Fits(label, args), Call(t, args, label)
      PROVE  StateOK'
  <2>1. ProcOK'
    BY <1>0, TaskMoves DEF Call, Goto, ProcOK
  <2>2. TablesOK' /\ HistoryOK'
    BY <1>0 DEF Call, tables, history, TablesOK, HistoryOK
  <2> QED
    BY <2>1, <2>2
<1>1. CASE CallCreate(t)
  <2>1. PICK q \in Clients : Call(t, [NoCall EXCEPT !.op = "create", !.client = q], "check")
    BY <1>1 DEF CallCreate
  <2> DEFINE args == [NoCall EXCEPT !.op = "create", !.client = q]
  <2>2. args \in Calls
    BY DEF NoCall, Calls, AllOps
  <2>3. Fits("check", args)
    BY CasOpsAre DEF Fits, OpsAt, ArgsOK, NoCall
  <2> QED
    BY <1>0, <2>1, <2>2, <2>3 DEF Labels
<1>2. CASE CallCas(t)
  <2>1. PICK op \in {"decide", "cancel", "fail"}, i \in Ids, o \in Choices \cup {None} :
          /\ op # "decide" => o = None
          /\ Call(t, [NoCall EXCEPT !.op = op, !.id = i, !.option = o,
                                    !.target = CasTarget[op]], "begin")
    BY <1>2 DEF CallCas
  <2> DEFINE args == [NoCall EXCEPT !.op = op, !.id = i, !.option = o,
                                    !.target = CasTarget[op]]
  <2>2. /\ CasTarget[op] \in Statuses \ {"PENDING"}
        /\ CasTarget[op] = "RESOLVED" <=> op = "decide"
    BY CasTargets DEF Statuses, TerminalStatuses
  <2>3. args \in Calls
    BY <2>2, CasOpsAre DEF NoCall, Calls, AllOps
  <2>4. Fits("begin", args)
    BY <2>1, <2>2, CasOpsAre DEF Fits, OpsAt, ArgsOK, NoCall, AllOps
  <2> QED
    BY <1>0, <2>1, <2>3, <2>4 DEF Labels
<1>3. CASE CallTimeout(t)
  <2>1. PICK i \in Ids :
          Call(t, [NoCall EXCEPT !.op = "timeout", !.id = i, !.target = "TIMEOUT"], "expiry")
    BY <1>3 DEF CallTimeout
  <2> DEFINE args == [NoCall EXCEPT !.op = "timeout", !.id = i, !.target = "TIMEOUT"]
  <2>2. args \in Calls
    BY CasOpsAre DEF NoCall, Calls, AllOps, Statuses, TerminalStatuses
  <2>3. Fits("expiry", args)
    BY CasOpsAre DEF Fits, OpsAt, ArgsOK, NoCall, Statuses, TerminalStatuses
  <2> QED
    BY <1>0, <2>1, <2>2, <2>3 DEF Labels
<1>4. CASE CallMarkAwaiting(t)
  <2>1. PICK op \in {"await", "await_direct"}, i \in Ids, ch \in Channels :
          Call(t, [NoCall EXCEPT !.op = op, !.id = i, !.channel = ch,
                                 !.target = CasTarget[op]], "load")
    BY <1>4 DEF CallMarkAwaiting
  <2> DEFINE args == [NoCall EXCEPT !.op = op, !.id = i, !.channel = ch,
                                    !.target = CasTarget[op]]
  <2>2. CasTarget[op] \in {"NOTIFIED", "AWAITING_HUMAN"}
    BY CasTargets
  <2>3. args \in Calls
    BY <2>2, CasOpsAre DEF NoCall, Calls, AllOps, Statuses, OpenStatuses
  <2>4. Fits("load", args)
    BY <2>2, CasOpsAre DEF Fits, OpsAt, ArgsOK, NoCall, Statuses, OpenStatuses
  <2> QED
    BY <1>0, <2>1, <2>3, <2>4 DEF Labels
<1>5. CASE CallWrite(t)
  <2>1. PICK op \in {"allocate", "update_request"}, i \in Ids :
          Call(t, [NoCall EXCEPT !.op = op, !.id = i], "begin")
    BY <1>5 DEF CallWrite
  <2> DEFINE args == [NoCall EXCEPT !.op = op, !.id = i]
  <2>2. args \in Calls
    BY DEF NoCall, Calls, AllOps
  <2>3. Fits("begin", args)
    BY CasOpsAre DEF Fits, OpsAt, ArgsOK, NoCall, AllOps
  <2> QED
    BY <1>0, <2>1, <2>2, <2>3 DEF Labels
<1>6. CASE CallTakeover(t)
  <2>1. PICK s \in Signals : Call(t, [NoCall EXCEPT !.op = "takeover", !.signal = s], "log")
    BY <1>6 DEF CallTakeover
  <2> DEFINE args == [NoCall EXCEPT !.op = "takeover", !.signal = s]
  <2>2. args \in Calls
    BY DEF NoCall, Calls, AllOps
  <2>3. Fits("log", args)
    BY CasOpsAre DEF Fits, OpsAt, ArgsOK, NoCall
  <2> QED
    BY <1>0, <2>1, <2>2, <2>3 DEF Labels
<1> QED
  BY <1>1, <1>2, <1>3, <1>4, <1>5, <1>6 DEF Invoke

\* What ProcOK says of one task.
LEMMA OpOf ==
  ASSUME ProcOK, NEW t \in Tasks
  PROVE  /\ call[t] \in Calls
         /\ seen[t] \in Rows
         /\ call[t].op \in OpsAt(pc[t])
         /\ ArgsOK(call[t])
         /\ pc[t] = "commit" => call[t].id \in Ids
BY DEF ProcOK, Fits

\* The steps of create() keep StateOK.
LEMMA CreateStepState ==
  ASSUME StateOK, NEW t \in Tasks, CreateStep(t)
  PROVE  StateOK'
<1> USE DEF StateOK
<1>1. Conn(t) \in Conns
  BY NoneIsNone
<1>2. View(Conn(t)) \in Databases
  BY <1>1, ViewType
<1>3. CASE CreateCheck(t)
  <2>1. Fits("begin", call[t])
    BY <1>3, OpOf DEF CreateCheck, OpsAt, Fits, AllOps
  <2>2. ProcOK'
    BY <1>3, <2>1, TakeLockType DEF CreateCheck, Goto, ProcOK, Labels
  <2>3. TablesOK' /\ HistoryOK'
    BY <1>3 DEF CreateCheck, tables, history, TablesOK, HistoryOK
  <2> QED
    BY <2>2, <2>3
<1>4. ASSUME NEW i \in Ids, pc[t] \in {"check", "reread"}, Reuse(t, i) PROVE StateOK'
  <2>1. ProcOK'
    BY <1>4, LeaveProc DEF Reuse
  <2>2. TablesOK' /\ HistoryOK'
    BY <1>4, OpOf DEF Reuse, tables, TablesOK, HistoryOK, OpsAt, ArgsOK
  <2> QED
    BY <2>1, <2>2
<1>5. CASE CreateExisting(t)
  BY <1>4, <1>5 DEF CreateExisting, OwnerOf
<1>6. CASE CreateInsert(t)
  <2> DEFINE image == View(Conn(t))
  <2>1. PICK i \in Ids :
          /\ image.row[i].status = Absent
          /\ Write(Conn(t), [image EXCEPT !.row[i] = NewRow(call[t].client)])
          /\ call' = [call EXCEPT ![t].id = i]
    BY <1>6 DEF CreateInsert
  <2>2. NewRow(call[t].client) \in Rows
    BY <1>6, OpOf, NewRowIsRow DEF CreateInsert, OpsAt, ArgsOK
  <2>3. TablesOK'
    BY <1>1, <1>2, <2>1, <2>2, PutRow, WriteTables
  <2>4. call'[t] \in Calls /\ Fits("commit", call'[t])
    BY <1>6, <2>1, OpOf, CasOpsAre DEF CreateInsert, OpsAt, ArgsOK, Fits, Calls, AllOps, ProcOK
  <2>5. ProcOK'
    BY <1>6, <2>1, <2>4 DEF CreateInsert, Goto, ProcOK, Labels
  <2>6. HistoryOK'
    BY <1>6 DEF CreateInsert, history, HistoryOK
  <2> QED
    BY <2>3, <2>5, <2>6
<1>7. CASE CreateClash(t)
  <2>1. ProcOK'
    BY <1>7, OpOf, ProceedProc DEF CreateClash, Fits, OpsAt, Labels
  <2>2. TablesOK' /\ HistoryOK'
    BY <1>7 DEF CreateClash, Proceed, tables, history, TablesOK, HistoryOK
  <2> QED
    BY <2>1, <2>2
<1>8. CASE CreateClashRollback(t)
  <2>1. ProcOK'
    BY <1>8, OpOf, ProceedProc DEF CreateClashRollback, Fits, OpsAt, Labels
  <2>2. TablesOK' /\ HistoryOK'
    BY <1>1, <1>8, RollbackTables DEF CreateClashRollback, Proceed, history, HistoryOK
  <2> QED
    BY <2>1, <2>2
<1>9. CASE CreateReread(t)
  BY <1>4, <1>9 DEF CreateReread, OwnerOf
<1> QED
  BY <1>3, <1>5, <1>6, <1>7, <1>8, <1>9 DEF CreateStep

\* The second hop of mark_awaiting begins again with the same arguments.
LEMMA SecondHopProc ==
  ASSUME ProcOK, NEW t \in Tasks, IsFirstHop(call[t]), SecondHop(t)
  PROVE  ProcOK'
<1>1. call[t] \in Calls /\ ArgsOK(call[t]) /\ call[t].op = "await"
  BY OpOf DEF IsFirstHop
<1>2. [call[t] EXCEPT !.target = "AWAITING_HUMAN"] \in Calls
  BY <1>1 DEF Calls, Statuses, OpenStatuses
<1>3. Fits("begin", [call[t] EXCEPT !.target = "AWAITING_HUMAN"])
  BY <1>1, CasOpsAre DEF Calls, ArgsOK, Fits, OpsAt, AllOps, Statuses, OpenStatuses
<1>4. call' = [call EXCEPT ![t] = [call[t] EXCEPT !.target = "AWAITING_HUMAN"]]
  BY DEF SecondHop, ProcOK
<1> QED
  BY <1>2, <1>3, <1>4, NoRowIsRow, TaskMoves DEF SecondHop, Goto, Labels, ProcOK

\* The steps of _cas_update_unlocked and its callers keep StateOK.
LEMMA CasStepState ==
  ASSUME StateOK, NEW t \in Tasks, CasStep(t)
  PROVE  StateOK'
<1> USE DEF StateOK
<1> DEFINE image == View(Conn(t))
<1>1. Conn(t) \in Conns
  BY NoneIsNone
<1>2. image \in Databases
  BY <1>1, ViewType
<1>3. CASE BeginTransaction(t)
  <2>1. /\ call[t].op = "create" => Fits("insert", call[t])
        /\ call[t].op \in CasOps => Fits("select", call[t])
        /\ call[t].op \notin CasOps \cup {"create"} => Fits("write", call[t])
    BY <1>3, OpOf, CasOpsAre DEF BeginTransaction, OpsAt, Fits, AllOps
  <2>2. ProcOK'
    BY <1>3, <2>1, TakeLockType, CasOpsAre DEF BeginTransaction, Goto, ProcOK, Labels
  <2>3. TablesOK' /\ HistoryOK'
    BY <1>1, <1>3, BeginTables DEF BeginTransaction, history, HistoryOK
  <2> QED
    BY <2>2, <2>3
<1>4. CASE CasSelect(t)
  <2> DEFINE r == image.row[call[t].id]
             l == Verdict(r, call[t].target, call[t].option)
  <2>1. call[t].op \in CasOps /\ call[t].id \in Ids
    BY <1>4, OpOf DEF CasSelect, OpsAt, ArgsOK
  <2>2. r \in Rows
    BY <1>2, <2>1 DEF Databases
  <2>3. l \in {"echo", "terminal", "update", "reject"}
    BY DEF Verdict
  <2>4. Fits(l, call[t])
    BY <2>1, <2>3, OpOf, CasOpsAre DEF Fits, OpsAt, AllOps
  <2>5. ProcOK'
    BY <1>4, <2>2, <2>3, <2>4 DEF CasSelect, Goto, ProcOK, Labels
  <2>6. TablesOK' /\ HistoryOK'
    BY <1>4 DEF CasSelect, tables, history, TablesOK, HistoryOK
  <2> QED
    BY <2>5, <2>6
<1>5. CASE CasEcho(t)
  <2>1. TablesOK'
    BY <1>1, <1>5, CommitTables DEF CasEcho
  <2>2. ProcOK'
    BY <1>5, SecondHopProc, LeaveProc DEF CasEcho
  <2>3. HistoryOK'
    BY <1>5 DEF CasEcho, SecondHop, history, HistoryOK
  <2> QED
    BY <2>1, <2>2, <2>3
<1>6. ASSUME NEW r, pc[t] \in {"terminal", "latest"}, RaiseAlreadyTerminal(t, r)
      PROVE  ProcOK' /\ HistoryOK'
  <2>1. CASE call[t].op = "timeout"
    <3>1. Fits("expired_get", call[t])
      BY <2>1, OpOf DEF Fits, OpsAt
    <3> QED
      BY <1>6, <2>1, <3>1, ReleaseLockType
         DEF RaiseAlreadyTerminal, Goto, ProcOK, Labels, history, HistoryOK
  <2>2. CASE call[t].op # "timeout"
    BY <1>6, <2>2, LeaveProc DEF RaiseAlreadyTerminal, HistoryOK
  <2> QED
    BY <2>1, <2>2
<1>7. CASE CasAlreadyTerminal(t)
  BY <1>1, <1>6, <1>7, CommitTables DEF CasAlreadyTerminal
<1>8. CASE RollbackAndRaise(t)
  BY <1>1, <1>8, RollbackTables, LeaveProc DEF RollbackAndRaise, history, HistoryOK
<1>9. CASE CasUpdate(t)
  <2>1. call[t] \in Calls /\ call[t].op \in CasOps /\ call[t].id \in Ids
    BY <1>9, OpOf DEF CasUpdate, OpsAt, ArgsOK
  <2>2. call[t].target \in Statuses
    BY <2>1, OpOf DEF ArgsOK
  <2> DEFINE new == Updated(image.row[call[t].id], seen[t], call[t].target, call[t].option,
                            call[t].channel)
  <2>3. new \in Rows
    <3>1. image.row[call[t].id] \in Rows /\ seen[t] \in Rows
      BY <1>2, <2>1, OpOf DEF Databases
    <3> QED
      BY <2>1, <2>2, <3>1, UpdatedIsRow DEF Calls
  <2>4. Write(Conn(t), [image EXCEPT !.row[call[t].id] = new])
    BY <1>9 DEF CasUpdate
  <2>5. TablesOK'
    BY <1>1, <1>2, <2>1, <2>3, <2>4, PutRow, WriteTables
  <2>6. Fits("revoke", call[t]) /\ Fits("commit", call[t])
    BY <2>1, OpOf, CasOpsAre DEF Fits, OpsAt, AllOps
  <2>7. ProcOK'
    BY <1>9, <2>6, ProceedProc DEF CasUpdate, Labels
  <2> QED
    BY <1>9, <2>5, <2>7 DEF CasUpdate, Proceed, history, HistoryOK
<1>10. CASE CasLost(t)
  <2>1. ProcOK'
    BY <1>10, OpOf, ProceedProc DEF CasLost, Fits, OpsAt, Labels
  <2> QED
    BY <1>10, <2>1 DEF CasLost, Proceed, tables, history, TablesOK, HistoryOK
<1>11. CASE CasLostRollback(t)
  <2>1. ProcOK'
    BY <1>11, OpOf, ProceedProc DEF CasLostRollback, Fits, OpsAt, Labels
  <2> QED
    BY <1>1, <1>11, <2>1, RollbackTables DEF CasLostRollback, Proceed, history, HistoryOK
<1>12. CASE CasLostRead(t)
  <2>1. TablesOK'
    BY <1>12 DEF CasLostRead, tables, TablesOK
  <2>2. ProcOK' /\ HistoryOK'
    BY <1>6, <1>12, LeaveProc DEF CasLostRead, history, HistoryOK
  <2> QED
    BY <2>1, <2>2
<1>13. CASE CasRevokeTokens(t)
  <2>1. call[t].op \in CasOps /\ call[t].id \in Ids
    BY <1>13, OpOf DEF CasRevokeTokens, OpsAt, ArgsOK
  <2>2. [image EXCEPT !.token = Revoked(image, call[t].id)] \in Databases
    BY <1>2 DEF Databases, Revoked
  <2>3. TablesOK'
    BY <1>1, <1>13, <2>2, WriteTables DEF CasRevokeTokens
  <2>4. Fits("commit", call[t])
    BY <2>1, OpOf, CasOpsAre DEF Fits, OpsAt, AllOps
  <2>5. ProcOK'
    BY <1>13, <2>4, ProceedProc DEF CasRevokeTokens, Labels
  <2> QED
    BY <1>13, <2>3, <2>5 DEF CasRevokeTokens, Proceed, history, HistoryOK
<1>14. CASE CommitTransaction(t)
  <2>1. TablesOK'
    BY <1>1, <1>14, CommitTables DEF CommitTransaction
  <2>2. CASE call[t].op \in CasOps
    <3>1. Fits("result", call[t])
      BY <2>2, OpOf DEF Fits, OpsAt
    <3> QED
      BY <1>14, <2>1, <2>2, <3>1, ProceedProc
         DEF CommitTransaction, Proceed, history, HistoryOK, Labels
  <2>3. CASE call[t].op \notin CasOps
    <3>1. ProcOK'
      BY <1>14, <2>3, LeaveProc DEF CommitTransaction
    <3>2. HistoryOK'
      BY <1>14, <2>3, OpOf DEF CommitTransaction, HistoryOK, ArgsOK
    <3> QED
      BY <2>1, <3>1, <3>2
  <2> QED
    BY <2>2, <2>3
<1>15. CASE CasResult(t)
  <2>1. TablesOK'
    BY <1>15 DEF CasResult, tables, TablesOK
  <2>2. ProcOK'
    BY <1>15, SecondHopProc, LeaveProc DEF CasResult
  <2>3. call[t].id \in Ids
    BY <1>15, OpOf DEF CasResult, OpsAt, ArgsOK
  <2>4. HistoryOK'
    BY <1>15, <2>3 DEF CasResult, SecondHop, history, HistoryOK
  <2> QED
    BY <2>1, <2>2, <2>4
<1> QED
  BY <1>3, <1>4, <1>5, <1>7, <1>8, <1>9, <1>10, <1>11, <1>12, <1>13, <1>14, <1>15
     DEF CasStep

\* The steps of mark_awaiting, apply_timeout_if_expired, allocate_callback_token,
\* update_request and TakeoverStore.insert keep StateOK.
LEMMA OtherStepState ==
  ASSUME StateOK, NEW t \in Tasks, OtherStep(t)
  PROVE  StateOK'
<1> USE DEF StateOK
<1> DEFINE image == View(Conn(t))
<1>1. Conn(t) \in Conns
  BY NoneIsNone
<1>2. image \in Databases
  BY <1>1, ViewType
<1>3. CASE MarkAwaitingReturns(t)
  BY <1>3, LeaveProc DEF MarkAwaitingReturns, tables, TablesOK, HistoryOK
<1>4. CASE MarkAwaitingLoad(t)
  <2> DEFINE target == IF image.row[call[t].id].status = "PENDING" /\ call[t].op = "await"
                         THEN "NOTIFIED" ELSE "AWAITING_HUMAN"
             args == [call[t] EXCEPT !.target = target]
  <2>1. call[t] \in Calls /\ ArgsOK(call[t]) /\ call[t].op \in {"await", "await_direct"}
    BY <1>4, OpOf DEF MarkAwaitingLoad, OpsAt
  <2>2. call' = [call EXCEPT ![t] = args]
    BY <1>4 DEF MarkAwaitingLoad, ProcOK
  <2>3. args \in Calls
    BY <2>1 DEF Calls, Statuses, OpenStatuses
  <2>4. Fits("begin", args)
    BY <2>1, CasOpsAre DEF Calls, ArgsOK, Fits, OpsAt, AllOps, Statuses, OpenStatuses
  <2>5. ProcOK'
    BY <1>4, <2>2, <2>3, <2>4, TakeLockType DEF MarkAwaitingLoad, Goto, ProcOK, Labels
  <2> QED
    BY <1>4, <2>5 DEF MarkAwaitingLoad, tables, history, TablesOK, HistoryOK
<1>5. CASE TimeoutDue(t)
  <2>1. Fits("begin", call[t])
    BY <1>5, OpOf, CasOpsAre DEF TimeoutDue, Fits, OpsAt, AllOps
  <2>2. ProcOK'
    BY <1>5, <2>1, ProceedProc DEF TimeoutDue, Labels
  <2> QED
    BY <1>5, <2>2 DEF TimeoutDue, Proceed, tables, history, TablesOK, HistoryOK
<1>6. CASE TimeoutNotDue(t)
  BY <1>6, LeaveProc DEF TimeoutNotDue, tables, history, TablesOK, HistoryOK
<1>7. CASE TimeoutAlreadyTerminal(t)
  BY <1>7, LeaveProc DEF TimeoutAlreadyTerminal, tables, TablesOK, HistoryOK
<1>8. CASE AllocateToken(t)
  <2>1. call[t].id \in Ids
    BY <1>8, OpOf DEF AllocateToken, OpsAt, ArgsOK
  <2>2. PICK k \in Tokens :
          Write(Conn(t), [image EXCEPT !.token[k] = [id |-> call[t].id, revoked |-> FALSE]])
    BY <1>8 DEF AllocateToken
  <2>3. [image EXCEPT !.token[k] = [id |-> call[t].id, revoked |-> FALSE]] \in Databases
    BY <1>2, <2>1 DEF Databases
  <2>4. TablesOK'
    BY <1>1, <2>2, <2>3, WriteTables
  <2>5. Fits("commit", call[t])
    BY <1>8, <2>1, OpOf DEF AllocateToken, Fits, OpsAt, AllOps
  <2>6. ProcOK'
    BY <1>8, <2>5, ProceedProc DEF AllocateToken, Labels
  <2> QED
    BY <1>8, <2>4, <2>6 DEF AllocateToken, Proceed, history, HistoryOK
<1>9. CASE AllocateRefused(t)
  <2>1. Fits("reject", call[t])
    BY <1>9, OpOf DEF AllocateRefused, Fits, OpsAt, AllOps
  <2>2. ProcOK'
    BY <1>9, <2>1, ProceedProc DEF AllocateRefused, Labels
  <2> QED
    BY <1>9, <2>2 DEF AllocateRefused, Proceed, tables, history, TablesOK, HistoryOK
<1>10. CASE UpdateRequest(t)
  <2>1. Fits("commit", call[t])
    BY <1>10, OpOf DEF UpdateRequest, Fits, OpsAt, ArgsOK, AllOps
  <2>2. ProcOK'
    BY <1>10, <2>1, ProceedProc DEF UpdateRequest, Labels
  <2> QED
    BY <1>1, <1>2, <1>10, <2>2, WriteTables DEF UpdateRequest, Proceed, history, HistoryOK
<1>11. CASE TakeoverInsert(t)
  <2>1. call[t].op = "takeover" /\ call[t].signal \in Signals
    BY <1>11, OpOf DEF TakeoverInsert, OpsAt, ArgsOK
  <2>2. [image EXCEPT !.event = @ \cup {call[t].signal}] \in Databases
    BY <1>2, <2>1 DEF Databases
  <2>3. TablesOK'
    BY <1>1, <1>11, <2>2, WriteTables DEF TakeoverInsert
  <2>4. Fits("log_commit", call[t])
    BY <2>1, OpOf DEF Fits, OpsAt
  <2>5. ProcOK'
    BY <1>11, <2>4, ProceedProc DEF TakeoverInsert, Labels
  <2> QED
    BY <1>11, <2>3, <2>5 DEF TakeoverInsert, Proceed, history, HistoryOK
<1>12. CASE TakeoverCommit(t)
  <2>1. call[t].signal \in Signals
    BY <1>12, OpOf DEF TakeoverCommit, OpsAt, ArgsOK
  <2> QED
    BY <1>1, <1>12, <2>1, CommitTables, LeaveProc DEF TakeoverCommit, HistoryOK
<1> QED
  BY <1>3, <1>4, <1>5, <1>6, <1>7, <1>8, <1>9, <1>10, <1>11, <1>12 DEF OtherStep

\* Failing statements, abandoned calls and crashes keep StateOK.
LEMMA FaultState ==
  ASSUME StateOK
  PROVE  /\ \A t \in Tasks : StatementFails(t) \/ GiveUp(t) => StateOK'
         /\ \A c \in Conns : Crash(c) => StateOK'
<1> USE DEF StateOK
<1>1. ASSUME NEW t \in Tasks, StatementFails(t) PROVE StateOK'
  <2>1. Fits("reject", call[t])
    BY <1>1, OpOf, CasOpsAre DEF StatementFails, Fits, OpsAt, AllOps
  <2>2. ProcOK'
    BY <1>1, <2>1, ProceedProc DEF StatementFails, Labels
  <2> QED
    BY <1>1, <2>2 DEF StatementFails, Proceed, tables, history, TablesOK, HistoryOK
<1>2. ASSUME NEW t \in Tasks, GiveUp(t) PROVE StateOK'
  BY <1>2, LeaveProc DEF GiveUp, tables, history, TablesOK, HistoryOK
<1>3. ASSUME NEW c \in Conns, Crash(c) PROVE StateOK'
  <2>1. TablesOK'
    BY <1>3, RollbackTables DEF Crash
  <2>2. ProcOK'
    BY <1>3, IdleFits, NoCallIsCall, NoRowIsRow DEF Crash, ProcOK, Labels
  <2> QED
    BY <1>3, <2>1, <2>2 DEF Crash, history, HistoryOK
<1> QED
  BY <1>1, <1>2, <1>3

\* An empty database and idle tasks satisfy StateOK.
LEMMA InitState == Init => StateOK
<1> SUFFICES ASSUME Init PROVE StateOK
  OBVIOUS
<1>1. EmptyDb \in Databases
  BY NoRowIsRow DEF EmptyDb, Databases, NoToken
<1>2. TablesOK
  BY <1>1 DEF Init, TablesOK
<1>3. ProcOK
  BY IdleFits, NoCallIsCall, NoRowIsRow DEF Init, ProcOK, Labels
<1>4. HistoryOK
  BY DEF Init, HistoryOK
<1> QED
  BY <1>2, <1>3, <1>4 DEF StateOK

\* Every step keeps StateOK.
LEMMA NextState == StateOK /\ [Next]_vars => StateOK'
<1> SUFFICES ASSUME StateOK, [Next]_vars PROVE StateOK'
  OBVIOUS
<1>1. CASE UNCHANGED vars
  BY <1>1 DEF vars, tables, task, history, StateOK, TablesOK, ProcOK, HistoryOK
<1>2. ASSUME NEW t \in Tasks, Invoke(t) \/ Step(t) PROVE StateOK'
  BY <1>2, InvokeState, CreateStepState, CasStepState, OtherStepState DEF Step
<1>3. ASSUME NEW c \in Conns, NEW i \in Ids, Get(c, i) PROVE StateOK'
  BY <1>3 DEF Get, tables, task, StateOK, TablesOK, ProcOK, HistoryOK
<1> QED
  BY <1>1, <1>2, <1>3, FaultState DEF Next

-----------------------------------------------------------------------------
(* The lock and the transaction.                                           *)

\* The labels at which a task holds its store's lock.
HoldLabels == TransactionLabels \cup {"reread", "latest", "result"}

LockOK ==
  /\ \A t \in Tasks : pc[t] \in HoldLabels => lock[Conn(t)] = t
  /\ TransactionUnderLock
  /\ tx = None => work = db

\* What a step of task t must do for LockOK to stay: hold the lock wherever its
\* new label says so, and not leave its transaction open behind it.
LEMMA LockStep ==
  ASSUME StateOK, LockOK, NEW t \in Tasks, NEW label \in Labels,
         pc' = [pc EXCEPT ![t] = label],
         UNCHANGED lock \/ TakeLock(t) \/ ReleaseLock(t),
         label \in HoldLabels => lock'[Conn(t)] = t,
         \/ tx' = None
         \/ tx' = tx /\ (tx = Conn(t) /\ InTransaction(t) => label \in TransactionLabels)
         \/ tx' = Conn(t) /\ label \in TransactionLabels,
         tx' = None => work' = db'
  PROVE  LockOK'
<1>1. /\ lock \in [Conns -> Tasks \cup {None}]
      /\ pc \in [Tasks -> Labels]
      /\ \A u \in Tasks : Conn(u) \in Conns
      /\ None \notin Tasks /\ None \notin Conns
  BY NoneIsNone DEF StateOK, ProcOK
<1>2. ASSUME NEW u \in Tasks, u # t, lock[Conn(u)] = u
      PROVE  lock'[Conn(u)] = u
  BY <1>1, <1>2 DEF TakeLock, ReleaseLock
<1>3. \A u \in Tasks : pc'[u] \in HoldLabels => lock'[Conn(u)] = u
  BY <1>1, <1>2 DEF LockOK
<1>4. ASSUME tx' # None
      PROVE  \E u \in Tasks : lock'[tx'] = u /\ Conn(u) = tx' /\ pc'[u] \in TransactionLabels
  <2>1. CASE tx' = Conn(t) /\ label \in TransactionLabels
    BY <1>1, <2>1 DEF HoldLabels
  <2>2. CASE tx' = tx /\ (tx = Conn(t) /\ InTransaction(t) => label \in TransactionLabels)
    <3>1. PICK u \in Tasks : lock[tx] = u /\ Conn(u) = tx /\ InTransaction(u)
      BY <1>4, <2>2 DEF LockOK, TransactionUnderLock
    <3>2. CASE u = t
      BY <1>1, <2>2, <3>1, <3>2 DEF HoldLabels
    <3>3. CASE u # t
      BY <1>1, <1>2, <2>2, <3>1, <3>3 DEF InTransaction
    <3> QED
      BY <3>2, <3>3
  <2> QED
    BY <1>4, <2>1, <2>2
<1> QED
  BY <1>3, <1>4 DEF LockOK, TransactionUnderLock, InTransaction, Conn

\* What each statement does to the open transaction; without one open, what is
\* read is what is committed.
LEMMA TxSteps ==
  ASSUME LockOK, NEW c \in Conns
  PROVE  /\ Commit(c) \/ Rollback(c) =>
              /\ tx' = None \/ (tx' = tx /\ tx # c)
              /\ tx' = None => work' = db'
         /\ UNCHANGED tables => tx' = tx /\ (tx' = None => work' = db')
         /\ \A image : Write(c, image) => tx' = tx /\ (tx' = None => work' = db')
         /\ Begin(c) => tx' = c /\ tx' # None
BY NoneIsNone DEF LockOK, Commit, Rollback, Write, Begin, tables

\* Calling the store touches neither lock nor transaction.
LEMMA InvokeLock ==
  ASSUME StateOK, LockOK, NEW t \in Tasks, Invoke(t)
  PROVE  LockOK'
<1>1. ASSUME NEW args, NEW label \in {"check", "begin", "expiry", "load", "log"},
             Call(t, args, label)
      PROVE  LockOK'
  <2>1. tx' = tx /\ (tx' = None => work' = db')
    BY <1>1 DEF Call, tables, LockOK
  <2>2. label \notin HoldLabels /\ label \in Labels
    BY DEF HoldLabels, TransactionLabels, Labels
  <2>3. ~InTransaction(t)
    BY <1>1 DEF Call, InTransaction, TransactionLabels
  <2> QED
    BY <1>1, <2>1, <2>2, <2>3, LockStep DEF Call, Goto
<1> QED
  BY <1>1 DEF Invoke, CallCreate, CallCas, CallTimeout, CallMarkAwaiting, CallWrite,
              CallTakeover

\* create() keeps LockOK: its IntegrityError path rolls back under the lock.
LEMMA CreateStepLock ==
  ASSUME StateOK, LockOK, NEW t \in Tasks, CreateStep(t)
  PROVE  LockOK'
<1>1. Conn(t) \in Conns /\ lock \in [Conns -> Tasks \cup {None}] /\ pc \in [Tasks -> Labels]
  BY NoneIsNone DEF StateOK, ProcOK
<1> USE DEF InTransaction, TransactionLabels, HoldLabels, Labels
<1>2. CASE CreateCheck(t)
  BY <1>1, <1>2, TxSteps, LockStep DEF CreateCheck, Goto
<1>3. ASSUME NEW i, pc[t] \in {"check", "reread"}, Reuse(t, i) PROVE LockOK'
  BY <1>1, <1>3, TxSteps, LockStep DEF Reuse, Leave, Goto
<1>4. CASE CreateExisting(t)
  BY <1>3, <1>4 DEF CreateExisting
<1>5. CASE CreateInsert(t)
  <2>1. tx' = tx /\ (tx' = None => work' = db')
    BY <1>1, <1>5, TxSteps DEF CreateInsert
  <2>2. lock[Conn(t)] = t
    BY <1>5 DEF CreateInsert, LockOK
  <2> QED
    BY <1>5, <2>1, <2>2, LockStep DEF CreateInsert, Goto
<1>6. CASE CreateClash(t)
  <2>1. lock[Conn(t)] = t
    BY <1>6 DEF CreateClash, LockOK
  <2> QED
    BY <1>1, <1>6, <2>1, TxSteps, LockStep DEF CreateClash, Proceed, Goto
<1>7. CASE CreateClashRollback(t)
  <2>1. lock[Conn(t)] = t
    BY <1>7 DEF CreateClashRollback, LockOK
  <2> QED
    BY <1>1, <1>7, <2>1, TxSteps, LockStep DEF CreateClashRollback, Proceed, Goto
<1>8. CASE CreateReread(t)
  BY <1>3, <1>8 DEF CreateReread
<1> QED
  BY <1>2, <1>4, <1>5, <1>6, <1>7, <1>8 DEF CreateStep

\* _cas_update_unlocked keeps LockOK: echo and AG_ALREADY_TERMINAL commit, every
\* other raise rolls back, before `async with self._lock` is left.
LEMMA CasStepLock ==
  ASSUME StateOK, LockOK, NEW t \in Tasks, CasStep(t)
  PROVE  LockOK'
<1>1. Conn(t) \in Conns /\ lock \in [Conns -> Tasks \cup {None}] /\ pc \in [Tasks -> Labels]
  BY NoneIsNone DEF StateOK, ProcOK
<1>2. pc[t] \in HoldLabels => lock[Conn(t)] = t
  BY DEF LockOK
<1> USE DEF InTransaction, TransactionLabels, HoldLabels, Labels
<1>3. CASE BeginTransaction(t)
  <2>1. PICK label \in {"insert", "select", "write"} : Goto(t, label)
    BY <1>3 DEF BeginTransaction
  <2>2. lock'[Conn(t)] = t
    BY <1>1, <1>3 DEF BeginTransaction, TakeLock
  <2> QED
    BY <1>1, <1>3, <2>1, <2>2, TxSteps, LockStep DEF BeginTransaction, Goto
<1>4. CASE CasSelect(t)
  <2>1. PICK label \in {"echo", "terminal", "update", "reject"} : Goto(t, label)
    BY <1>4 DEF CasSelect, Verdict
  <2> QED
    BY <1>1, <1>2, <1>4, <2>1, TxSteps, LockStep DEF CasSelect, Goto
<1>5. CASE CasEcho(t)
  BY <1>1, <1>2, <1>5, TxSteps, LockStep DEF CasEcho, SecondHop, Leave, Goto
<1>6. CASE CasAlreadyTerminal(t)
  BY <1>1, <1>2, <1>6, TxSteps, LockStep
     DEF CasAlreadyTerminal, RaiseAlreadyTerminal, Leave, Goto
<1>7. CASE RollbackAndRaise(t)
  BY <1>1, <1>2, <1>7, TxSteps, LockStep DEF RollbackAndRaise, Leave, Goto
<1>8. CASE CasUpdate(t)
  <2>1. tx' = tx /\ (tx' = None => work' = db')
    BY <1>1, <1>8, TxSteps DEF CasUpdate
  <2>2. PICK label \in {"revoke", "commit"} : Proceed(t, label)
    BY <1>8 DEF CasUpdate
  <2> QED
    BY <1>2, <1>8, <2>1, <2>2, LockStep DEF CasUpdate, Proceed, Goto
<1>9. CASE CasLost(t)
  BY <1>1, <1>2, <1>9, TxSteps, LockStep DEF CasLost, Proceed, Goto
<1>10. CASE CasLostRollback(t)
  BY <1>1, <1>2, <1>10, TxSteps, LockStep DEF CasLostRollback, Proceed, Goto
<1>11. CASE CasLostRead(t)
  BY <1>1, <1>2, <1>11, TxSteps, LockStep DEF CasLostRead, RaiseAlreadyTerminal, Leave, Goto
<1>12. CASE CasRevokeTokens(t)
  <2>1. tx' = tx /\ (tx' = None => work' = db')
    BY <1>1, <1>12, TxSteps DEF CasRevokeTokens
  <2> QED
    BY <1>2, <1>12, <2>1, LockStep DEF CasRevokeTokens, Proceed, Goto
<1>13. CASE CommitTransaction(t)
  BY <1>1, <1>2, <1>13, TxSteps, LockStep DEF CommitTransaction, Proceed, Leave, Goto
<1>14. CASE CasResult(t)
  BY <1>1, <1>2, <1>14, TxSteps, LockStep DEF CasResult, SecondHop, Leave, Goto
<1> QED
  BY <1>3, <1>4, <1>5, <1>6, <1>7, <1>8, <1>9, <1>10, <1>11, <1>12, <1>13, <1>14 DEF CasStep

\* The remaining operations keep LockOK; a takeover's commit may end a transaction
\* but never opens one.
LEMMA OtherStepLock ==
  ASSUME StateOK, LockOK, NEW t \in Tasks, OtherStep(t)
  PROVE  LockOK'
<1>1. Conn(t) \in Conns /\ lock \in [Conns -> Tasks \cup {None}] /\ pc \in [Tasks -> Labels]
  BY NoneIsNone DEF StateOK, ProcOK
<1>2. pc[t] \in HoldLabels => lock[Conn(t)] = t
  BY DEF LockOK
<1> USE DEF InTransaction, TransactionLabels, HoldLabels, Labels
<1>3. CASE MarkAwaitingReturns(t)
  BY <1>1, <1>3, TxSteps, LockStep DEF MarkAwaitingReturns, Leave, Goto
<1>4. CASE MarkAwaitingLoad(t)
  BY <1>1, <1>4, TxSteps, LockStep DEF MarkAwaitingLoad, Goto
<1>5. CASE TimeoutDue(t)
  BY <1>1, <1>5, TxSteps, LockStep DEF TimeoutDue, Proceed, Goto
<1>6. CASE TimeoutNotDue(t)
  BY <1>1, <1>6, TxSteps, LockStep DEF TimeoutNotDue, Leave, Goto
<1>7. CASE TimeoutAlreadyTerminal(t)
  BY <1>1, <1>7, TxSteps, LockStep DEF TimeoutAlreadyTerminal, Leave, Goto
<1>8. CASE AllocateToken(t)
  <2>1. tx' = tx /\ (tx' = None => work' = db')
    BY <1>1, <1>8, TxSteps DEF AllocateToken
  <2> QED
    BY <1>2, <1>8, <2>1, LockStep DEF AllocateToken, Proceed, Goto
<1>9. CASE AllocateRefused(t)
  BY <1>1, <1>2, <1>9, TxSteps, LockStep DEF AllocateRefused, Proceed, Goto
<1>10. CASE UpdateRequest(t)
  <2>1. tx' = tx /\ (tx' = None => work' = db')
    BY <1>1, <1>10, TxSteps DEF UpdateRequest
  <2> QED
    BY <1>2, <1>10, <2>1, LockStep DEF UpdateRequest, Proceed, Goto
<1>11. CASE TakeoverInsert(t)
  <2>1. tx' = tx /\ (tx' = None => work' = db')
    BY <1>1, <1>11, TxSteps DEF TakeoverInsert
  <2> QED
    BY <1>11, <2>1, LockStep DEF TakeoverInsert, Proceed, Goto
<1>12. CASE TakeoverCommit(t)
  BY <1>1, <1>12, TxSteps, LockStep DEF TakeoverCommit, Leave, Goto
<1> QED
  BY <1>3, <1>4, <1>5, <1>6, <1>7, <1>8, <1>9, <1>10, <1>11, <1>12 DEF OtherStep

\* A failing statement goes through the rollback of its except clause; a crash
\* rolls back and frees the lock with the process.
LEMMA FaultLock ==
  ASSUME StateOK, LockOK
  PROVE  /\ \A t \in Tasks : StatementFails(t) \/ GiveUp(t) => LockOK'
         /\ \A c \in Conns : Crash(c) => LockOK'
<1>1. ASSUME NEW t \in Tasks, StatementFails(t) PROVE LockOK'
  <2>1. Conn(t) \in Conns /\ lock[Conn(t)] = t
    BY <1>1, NoneIsNone DEF StatementFails, LockOK, HoldLabels, TransactionLabels
  <2> QED
    BY <1>1, <2>1, TxSteps, LockStep
       DEF StatementFails, Proceed, Goto, InTransaction, TransactionLabels, HoldLabels, Labels
<1>2. ASSUME NEW t \in Tasks, GiveUp(t) PROVE LockOK'
  <2>1. Conn(t) \in Conns
    BY NoneIsNone
  <2> QED
    BY <1>2, <2>1, TxSteps, LockStep
       DEF GiveUp, Leave, Goto, InTransaction, TransactionLabels, HoldLabels, Labels
<1>3. ASSUME NEW c \in Conns, Crash(c) PROVE LockOK'
  <2>1. /\ lock \in [Conns -> Tasks \cup {None}]
        /\ None \notin Tasks /\ None \notin Conns
        /\ \A u \in Tasks : Conn(u) \in Conns
    BY NoneIsNone DEF StateOK, ProcOK
  <2>2. \A u \in Tasks : pc'[u] \in HoldLabels => Conn(u) # c /\ pc'[u] = pc[u]
    BY <1>3 DEF Crash, HoldLabels, TransactionLabels
  <2>3. \A u \in Tasks : pc'[u] \in HoldLabels => lock'[Conn(u)] = u
    BY <1>3, <2>1, <2>2 DEF Crash, LockOK
  <2>4. /\ tx' = None \/ (tx' = tx /\ tx # c)
        /\ tx' = None => work' = db'
    BY <1>3, TxSteps DEF Crash
  <2>5. ASSUME tx' # None
        PROVE  \E u \in Tasks : lock'[tx'] = u /\ Conn(u) = tx' /\ pc'[u] \in TransactionLabels
    <3>1. PICK u \in Tasks : lock[tx] = u /\ Conn(u) = tx /\ pc[u] \in TransactionLabels
      BY <2>4, <2>5 DEF LockOK, TransactionUnderLock, InTransaction
    <3> QED
      BY <1>3, <2>1, <2>4, <2>5, <3>1 DEF Crash
  <2> QED
    BY <2>3, <2>4, <2>5 DEF LockOK, TransactionUnderLock, InTransaction, Conn
<1> QED
  BY <1>1, <1>2, <1>3

\* At the start no lock is held and no transaction open.
LEMMA InitLock == Init => LockOK
BY NoneIsNone DEF Init, LockOK, TransactionUnderLock, HoldLabels, TransactionLabels

\* Every step keeps LockOK.
LEMMA NextLock == StateOK /\ LockOK /\ [Next]_vars => LockOK'
<1> SUFFICES ASSUME StateOK, LockOK, [Next]_vars PROVE LockOK'
  OBVIOUS
<1>1. CASE UNCHANGED vars
  BY <1>1 DEF vars, tables, task, LockOK, TransactionUnderLock, InTransaction, Conn
<1>2. ASSUME NEW t \in Tasks, Invoke(t) \/ Step(t) PROVE LockOK'
  BY <1>2, InvokeLock, CreateStepLock, CasStepLock, OtherStepLock DEF Step
<1>3. ASSUME NEW c \in Conns, NEW i \in Ids, Get(c, i) PROVE LockOK'
  BY <1>3 DEF Get, tables, task, LockOK, TransactionUnderLock, InTransaction, Conn
<1> QED
  BY <1>1, <1>2, <1>3, FaultLock DEF Next

\* Type correctness of the tables, the tasks and the records of the calls.
THEOREM StateCorrect == Spec => [](StateOK /\ LockOK)
BY InitState, InitLock, NextState, NextLock, PTL DEF Spec

\* BEGIN IMMEDIATE never meets a transaction of its own connection: no statement
\* of store.py that returns or raises leads out of the lock with the transaction
\* open, for any number of tasks and connections, takeovers on the connection
\* included.
THEOREM TransactionCorrect == Spec => []TransactionUnderLock
BY StateCorrect, PTL DEF LockOK

=============================================================================
