--------------------- MODULE InterventionStoreRefinement ---------------------
(***************************************************************************)
(* The committed rows of InterventionStore take only steps of Intervention.*)
(*                                                                         *)
(* A transaction writes at most one row, and between its SELECT and its    *)
(* UPDATE another connection may have written that row (after a takeover's *)
(* commit has ended the transaction).  RowsInv therefore keeps, for every  *)
(* task, what the row it has read still says (SeenOK) and how far its open *)
(* transaction is ahead of the committed rows (WorkOK): one step of        *)
(* Intervention.  COMMIT then is that step, and every other statement none.*)
(***************************************************************************)
EXTENDS InterventionStoreProofs

-----------------------------------------------------------------------------
(* Rows.                                                                   *)

\* What the columns of one row say together.
RowOK(r) ==
  /\ r.status = Absent => r.client = None
  /\ IF r.status = "RESOLVED" THEN r.decision \in Options ELSE r.decision = None

RowsOK(rows) ==
  /\ \A i \in Ids : RowOK(rows[i])
  /\ \A i, j \in Ids : rows[i].client = rows[j].client /\ rows[i].client # None => i = j

\* Steps of Intervention, on whole rows.
Creates(old, new, i, q) ==
  /\ old[i].status = Absent
  /\ \A j \in Ids : old[j].client # q
  /\ new = [old EXCEPT ![i] = NewRow(q)]

Moves(old, new, i, target, option) ==
  /\ CanTransition(old[i].status, target)
  /\ option \in (IF target = "RESOLVED" THEN Options ELSE {None})
  /\ new = [old EXCEPT ![i] = new[i]]
  /\ new[i].client = old[i].client
  /\ new[i].status = target
  /\ new[i].decision = option
  /\ new[i].version = old[i].version + 1

RowsStep(old, new) ==
  \/ new = old
  \/ \E i \in Ids, q \in Clients : Creates(old, new, i, q)
  \/ \E i \in Ids, target \in Statuses, option \in Options \cup {None} :
       Moves(old, new, i, target, option)

\* What a task knows of the database from the row it has read.
SeenOK(t) ==
  /\ RowOK(seen[t])
  /\ pc[t] = "terminal" => IsTerminal(seen[t].status)
  /\ pc[t] \in {"echo", "terminal"} /\ IsTerminal(seen[t].status) =>
       Outcome(db.row[call[t].id]) = Outcome(seen[t])
  /\ pc[t] = "update" => MayUpdate(seen[t], call[t].target, call[t].option)
  /\ pc[t] = "expired_get" => IsTerminal(db.row[call[t].id].status)

\* What a task has done to the rows inside its transaction: one step at most, and
\* nothing when it is about to roll back, unless a statement of it has failed.
WorkOK(t) ==
  tx = Conn(t) /\ InTransaction(t) =>
    IF pc[t] \in {"revoke", "commit"} \/ (pc[t] = "reject" /\ "error" \in Faults)
      THEN RowsStep(db.row, work.row)
      ELSE work.row = db.row

RowsInv == RowsOK(db.row) /\ \A t \in Tasks : SeenOK(t) /\ WorkOK(t)


-----------------------------------------------------------------------------
(* Steps on rows.                                                          *)

\* Tables hold rows.
LEMMA RowsType ==
  /\ TablesOK => db.row \in [Ids -> Rows] /\ work.row \in [Ids -> Rows]
  /\ TablesOK' => db'.row \in [Ids -> Rows] /\ work'.row \in [Ids -> Rows]
BY DEF TablesOK, Databases

\* A step changes one row, which was not terminal.
LEMMA StepShape ==
  ASSUME NEW old \in [Ids -> Rows], NEW new \in [Ids -> Rows], RowsOK(old),
         RowsStep(old, new)
  PROVE  /\ \A i \in Ids : IsTerminal(old[i].status) => new[i] = old[i]
         /\ \A i \in Ids : old[i].client # None => new[i].client = old[i].client
<1>1. CASE new = old
  BY <1>1
<1>2. ASSUME NEW i \in Ids, NEW q \in Clients, Creates(old, new, i, q)
      PROVE  /\ \A j \in Ids : IsTerminal(old[j].status) => new[j] = old[j]
             /\ \A j \in Ids : old[j].client # None => new[j].client = old[j].client
  BY <1>2 DEF Creates, RowsOK, RowOK, IsTerminal, TerminalStatuses, Absent
<1>3. ASSUME NEW i \in Ids, NEW target \in Statuses, NEW option \in Options \cup {None},
             Moves(old, new, i, target, option)
      PROVE  /\ \A j \in Ids : IsTerminal(old[j].status) => new[j] = old[j]
             /\ \A j \in Ids : old[j].client # None => new[j].client = old[j].client
  BY <1>3 DEF Moves, CanTransition
<1> QED
  BY <1>1, <1>2, <1>3 DEF RowsStep

\* A step keeps the columns consistent.
LEMMA StepRowsOK ==
  ASSUME NEW old \in [Ids -> Rows], NEW new \in [Ids -> Rows], RowsOK(old),
         RowsStep(old, new)
  PROVE  RowsOK(new)
<1>1. CASE new = old
  BY <1>1
<1>2. ASSUME NEW i \in Ids, NEW q \in Clients, Creates(old, new, i, q) PROVE RowsOK(new)
  <2>1. RowOK(NewRow(q)) /\ NewRow(q).client = q
    BY DEF RowOK, NewRow, NoRow, Absent
  <2>2. new[i] = NewRow(q) /\ \A j \in Ids \ {i} : new[j] = old[j] /\ old[j].client # q
    BY <1>2 DEF Creates
  <2> QED
    BY <2>1, <2>2 DEF RowsOK
<1>3. ASSUME NEW i \in Ids, NEW target \in Statuses, NEW option \in Options \cup {None},
             Moves(old, new, i, target, option)
      PROVE  RowsOK(new)
  <2>1. \A j \in Ids \ {i} : new[j] = old[j]
    BY <1>3 DEF Moves
  <2>2. RowOK(new[i])
    BY <1>3 DEF Moves, RowOK, Statuses, OpenStatuses, TerminalStatuses, Absent
  <2>3. \A j \in Ids : new[j].client = old[j].client
    BY <1>3, <2>1 DEF Moves
  <2> QED
    BY <2>1, <2>2, <2>3 DEF RowsOK
<1> QED
  BY <1>1, <1>2, <1>3 DEF RowsStep

\* What is in the open transaction is at most one step ahead of the database.
LEMMA WorkStep ==
  ASSUME StateOK, LockOK, RowsInv
  PROVE  /\ RowsStep(db.row, work.row)
         /\ RowsOK(work.row)
         /\ \A c \in Conns : RowsOK(View(c).row) /\ View(c).row \in [Ids -> Rows]
         /\ \A c \in Conns, i \in Ids :
              IsTerminal(db.row[i].status) => View(c).row[i] = db.row[i]
         /\ \A c \in Conns, i \in Ids :
              db.row[i].client # None => View(c).row[i].client = db.row[i].client
<1>1. db.row \in [Ids -> Rows] /\ work.row \in [Ids -> Rows]
  BY RowsType DEF StateOK
<1>2. RowsStep(db.row, work.row)
  <2>1. CASE tx = None
    BY <2>1 DEF LockOK, RowsStep
  <2>2. CASE tx # None
    <3>1. PICK t \in Tasks : tx = Conn(t) /\ InTransaction(t)
      BY <2>2 DEF LockOK, TransactionUnderLock
    <3> QED
      BY <3>1 DEF RowsInv, WorkOK, RowsStep
  <2> QED
    BY <2>1, <2>2
<1>3. RowsOK(work.row)
  BY <1>1, <1>2, StepRowsOK DEF RowsInv
<1> QED
  BY <1>1, <1>2, <1>3, StepShape DEF View, RowsInv

\* Whoever is past its transaction, or before it with the lock free, reads the
\* committed database.
LEMMA ViewIsDb ==
  ASSUME StateOK, LockOK, NEW t \in Tasks,
         lock[Conn(t)] = None \/ pc[t] \in {"reread", "latest", "result"}
  PROVE  tx # Conn(t) /\ View(Conn(t)) = db
<1>1. tx # Conn(t)
  <2> SUFFICES ASSUME tx = Conn(t) PROVE FALSE
    OBVIOUS
  <2>1. PICK u \in Tasks : lock[Conn(t)] = u /\ InTransaction(u)
    BY NoneIsNone DEF LockOK, TransactionUnderLock
  <2>2. lock[Conn(t)] # None => u = t
    BY <2>1, NoneIsNone DEF LockOK, HoldLabels
  <2> QED
    BY <2>1, <2>2, NoneIsNone DEF InTransaction, TransactionLabels
<1> QED
  BY <1>1 DEF View

-----------------------------------------------------------------------------
(* What a step does to the tables, and what that leaves true.              *)

RowsUntouched == tx' = tx /\ db'.row = db.row /\ work'.row = work.row

RowWrite(t) ==
  /\ pc[t] \in {"insert", "update"}
  /\ \E image \in Databases :
       Write(Conn(t), image) /\ RowsStep(View(Conn(t)).row, image.row)

TablesMove(t) ==
  \/ RowsUntouched
  \/ Begin(Conn(t)) /\ pc'[t] \in HoldLabels
  \/ Commit(Conn(t))
  \/ /\ Rollback(Conn(t)) /\ pc[t] \in {"clash", "lost", "reject"}
     /\ pc'[t] \in HoldLabels => pc[t] \in {"clash", "lost"}
  \/ RowWrite(t)

\* Whoever holds a lock before and after a step goes on seeing the terminal rows
\* and the client_request_ids it saw.
ViewsKept ==
  \A u \in Tasks, i \in Ids : pc[u] \in HoldLabels /\ pc'[u] \in HoldLabels =>
    /\ IsTerminal(View(Conn(u)).row[i].status) =>
         View(Conn(u))'.row[i] = View(Conn(u)).row[i]
    /\ View(Conn(u)).row[i].client # None =>
         View(Conn(u))'.row[i].client = View(Conn(u)).row[i].client

\* The committed rows take a step of Intervention or none.
LEMMA DbStep ==
  ASSUME StateOK, LockOK, RowsInv, NEW t \in Tasks, TablesMove(t)
  PROVE  RowsStep(db.row, db'.row)
<1>1. CASE RowsUntouched \/ Begin(Conn(t)) \/ Rollback(Conn(t))
  BY <1>1 DEF RowsUntouched, Begin, Rollback, RowsStep
<1>2. CASE Commit(Conn(t))
  BY <1>2, WorkStep DEF Commit, RowsStep
<1>3. CASE RowWrite(t)
  BY <1>3 DEF RowWrite, Write, View, RowsStep
<1> QED
  BY <1>1, <1>2, <1>3 DEF TablesMove

\* A write that changes no row, inside a transaction or not.
LEMMA QuietWrite ==
  ASSUME LockOK, NEW c \in Conns, NEW image, Write(c, image), image.row = View(c).row
  PROVE  RowsUntouched
BY DEF LockOK, Write, View, RowsUntouched

\* A step of t leaves what the other tasks know and have done as it was.
LEMMA Others ==
  ASSUME StateOK, StateOK', LockOK, LockOK', RowsInv, NEW t \in Tasks, TablesMove(t),
         NEW u \in Tasks, u # t,
         pc'[u] = pc[u], call'[u] = call[u], seen'[u] = seen[u]
  PROVE  SeenOK(u)' /\ WorkOK(u)'
<1>1. RowsStep(db.row, db'.row)
  BY DbStep
<1>2. db.row \in [Ids -> Rows] /\ db'.row \in [Ids -> Rows] /\ RowsOK(db.row)
  BY RowsType DEF StateOK, RowsInv
<1>3. \A i \in Ids : IsTerminal(db.row[i].status) => db'.row[i] = db.row[i]
  BY <1>1, <1>2, StepShape
<1>4. SeenOK(u) /\ WorkOK(u)
  BY DEF RowsInv
<1>5. pc[u] \in {"echo", "terminal", "expired_get"} => call[u].id \in Ids
  BY OpOf, CasOpsAre DEF StateOK, OpsAt, ArgsOK
<1>6. SeenOK(u)'
  <2>1. ASSUME pc[u] \in {"echo", "terminal"}, IsTerminal(seen[u].status)
        PROVE  Outcome(db'.row[call[u].id]) = Outcome(seen[u])
    <3>1. Outcome(db.row[call[u].id]) = Outcome(seen[u])
      BY <1>4, <2>1 DEF SeenOK
    <3>2. IsTerminal(db.row[call[u].id].status)
      BY <2>1, <3>1 DEF Outcome
    <3> QED
      BY <1>3, <1>5, <2>1, <3>1, <3>2
  <2>2. pc[u] = "expired_get" => IsTerminal(db'.row[call[u].id].status)
    BY <1>3, <1>4, <1>5 DEF SeenOK
  <2> QED
    BY <1>4, <2>1, <2>2 DEF SeenOK
<1>7. WorkOK(u)'
  <2> SUFFICES ASSUME tx' = Conn(u), pc[u] \in TransactionLabels
               PROVE  tx = Conn(u) /\ db'.row = db.row /\ work'.row = work.row
    BY <1>4 DEF WorkOK, InTransaction, Conn
  <2>1. /\ lock[Conn(u)] = u /\ lock'[Conn(u)] = u
        /\ Conn(u) \in Conns /\ Conn(t) \in Conns /\ None \notin Conns
    BY NoneIsNone DEF LockOK, HoldLabels, Conn
  <2>2. Conn(t) = Conn(u) => pc[t] \notin HoldLabels /\ pc'[t] \notin HoldLabels
    BY <2>1 DEF LockOK, Conn
  <2>3. CASE RowsUntouched
    BY <2>3 DEF RowsUntouched
  <2>4. CASE Begin(Conn(t)) /\ pc'[t] \in HoldLabels
    BY <2>1, <2>2, <2>4 DEF Begin
  <2>5. CASE Commit(Conn(t)) \/ Rollback(Conn(t))
    BY <2>1, <2>5 DEF Commit, Rollback
  <2>6. CASE RowWrite(t)
    BY <2>1, <2>2, <2>6 DEF RowWrite, Write, HoldLabels, TransactionLabels
  <2> QED
    BY <2>3, <2>4, <2>5, <2>6 DEF TablesMove
<1> QED
  BY <1>6, <1>7

\* A step of t keeps the views of every lock holder.
LEMMA Views ==
  ASSUME StateOK, StateOK', LockOK, LockOK', RowsInv, NEW t \in Tasks, TablesMove(t),
         \A u \in Tasks \ {t} : pc'[u] = pc[u]
  PROVE  ViewsKept
<1> SUFFICES ASSUME NEW u \in Tasks, NEW i \in Ids,
                    pc[u] \in HoldLabels, pc'[u] \in HoldLabels
             PROVE  /\ IsTerminal(View(Conn(u)).row[i].status) =>
                         View(Conn(u))'.row[i] = View(Conn(u)).row[i]
                    /\ View(Conn(u)).row[i].client # None =>
                         View(Conn(u))'.row[i].client = View(Conn(u)).row[i].client
  BY DEF ViewsKept
<1> DEFINE old == View(Conn(u)).row
           new == View(Conn(u))'.row
<1>1. /\ lock[Conn(u)] = u /\ lock'[Conn(u)] = u
      /\ Conn(u) \in Conns /\ Conn(t) \in Conns /\ None \notin Conns
      /\ View(Conn(u))' = IF tx' = Conn(u) THEN work' ELSE db'
  BY NoneIsNone DEF LockOK, Conn, View
<1>2. u # t /\ Conn(t) = Conn(u) => pc[t] \notin HoldLabels /\ pc'[t] \notin HoldLabels
  BY <1>1 DEF LockOK, Conn
<1>3. old \in [Ids -> Rows] /\ new \in [Ids -> Rows] /\ RowsOK(old)
  BY <1>1, RowsType, WorkStep DEF StateOK
<1>4. RowsStep(old, new)
  <2>1. CASE RowsUntouched
    BY <1>1, <2>1 DEF RowsUntouched, View, RowsStep
  <2>2. CASE Begin(Conn(t)) /\ pc'[t] \in HoldLabels
    BY <1>1, <1>2, <2>2 DEF Begin, View, LockOK, RowsStep
  <2>3. CASE Commit(Conn(t))
    BY <1>1, <2>3, WorkStep DEF Commit, View, RowsStep
  <2>4. CASE /\ Rollback(Conn(t)) /\ pc[t] \in {"clash", "lost", "reject"}
             /\ pc'[t] \in HoldLabels => pc[t] \in {"clash", "lost"}
    <3>1. CASE tx # Conn(t)
      BY <1>1, <2>4, <3>1 DEF Rollback, View, RowsStep
    <3>2. CASE tx = Conn(t) /\ u # t
      BY <1>1, <1>2, <2>4, <3>2 DEF Rollback, View, RowsStep, HoldLabels, TransactionLabels
    <3>3. CASE tx = Conn(t) /\ u = t
      BY <1>1, <2>4, <3>3
         DEF Rollback, View, RowsStep, RowsInv, WorkOK, InTransaction, TransactionLabels
    <3> QED
      BY <3>1, <3>2, <3>3
  <2>5. CASE RowWrite(t)
    <3>1. PICK image \in Databases :
            Write(Conn(t), image) /\ RowsStep(View(Conn(t)).row, image.row)
      BY <2>5 DEF RowWrite
    <3>2. CASE tx = Conn(t)
      BY <1>1, <1>2, <2>5, <3>1, <3>2
         DEF RowWrite, Write, View, RowsStep, HoldLabels, TransactionLabels
    <3>3. CASE tx = None
      BY <1>1, <3>1, <3>3 DEF Write, View
    <3> QED
      BY <3>1, <3>2, <3>3 DEF Write
  <2> QED
    BY <2>1, <2>2, <2>3, <2>4, <2>5 DEF TablesMove
<1> HIDE DEF old, new
<1>5. /\ IsTerminal(old[i].status) => new[i] = old[i]
      /\ old[i].client # None => new[i].client = old[i].client
  BY <1>3, <1>4, StepShape
<1> QED
  BY <1>5 DEF old, new

\* Where nothing fails, no rollback takes a row back: the latest image of the rows,
\* committed or not, takes only steps of Intervention too.
WorkKept == Faults = {} => RowsStep(work.row, work'.row)

\* It does, whatever the step.
LEMMA WorkMoves ==
  ASSUME StateOK, LockOK, RowsInv, NEW t \in Tasks, TablesMove(t)
  PROVE  WorkKept
<1> SUFFICES ASSUME Faults = {} PROVE RowsStep(work.row, work'.row)
  BY DEF WorkKept
<1>1. CASE RowsUntouched \/ Begin(Conn(t)) \/ Commit(Conn(t))
  BY <1>1 DEF RowsUntouched, Begin, Commit, RowsStep
<1>2. CASE Rollback(Conn(t)) /\ pc[t] \in {"clash", "lost", "reject"}
  <2>1. tx = Conn(t) => work.row = db.row
    BY <1>2 DEF RowsInv, WorkOK, InTransaction, TransactionLabels
  <2> QED
    BY <1>2, <2>1 DEF Rollback, RowsStep
<1>3. CASE RowWrite(t)
  <2>1. PICK image \in Databases : Write(Conn(t), image) /\ RowsStep(View(Conn(t)).row, image.row)
    BY <1>3 DEF RowWrite
  <2>2. View(Conn(t)) = work
    BY <2>1 DEF Write, View, LockOK
  <2> QED
    BY <2>1, <2>2 DEF Write
<1> QED
  BY <1>1, <1>2, <1>3 DEF TablesMove

\* What every step of the store must come to.
StepOK == RowsInv' /\ RowsStep(db.row, db'.row) /\ ViewsKept /\ WorkKept

\* So a step keeps RowsInv if it keeps it for the task that takes it.
LEMMA Frame ==
  ASSUME StateOK, StateOK', LockOK, LockOK', RowsInv, NEW t \in Tasks, TablesMove(t),
         \A u \in Tasks \ {t} : pc'[u] = pc[u] /\ call'[u] = call[u] /\ seen'[u] = seen[u],
         SeenOK(t)', WorkOK(t)'
  PROVE  StepOK
<1>1. RowsOK(db'.row)
  BY DbStep, RowsType, StepRowsOK DEF StateOK, RowsInv
<1>2. \A u \in Tasks : SeenOK(u)' /\ WorkOK(u)'
  BY Others
<1> QED
  BY <1>1, <1>2, DbStep, Views, WorkMoves DEF RowsInv, StepOK

\* A task that returns knows and has done nothing.
LEMMA LeaveRows ==
  ASSUME StateOK, StateOK', LockOK, LockOK', RowsInv, NEW t \in Tasks, TablesMove(t), Leave(t)
  PROVE  StepOK
<1>1. /\ pc'[t] = "idle" /\ seen'[t] = NoRow
      /\ \A u \in Tasks \ {t} : pc'[u] = pc[u] /\ call'[u] = call[u] /\ seen'[u] = seen[u]
  BY DEF Leave, Goto, StateOK, ProcOK
<1>2. SeenOK(t)'
  BY <1>1 DEF SeenOK, RowOK, NoRow, Absent
<1>3. WorkOK(t)'
  BY <1>1 DEF WorkOK, InTransaction, TransactionLabels
<1> QED
  BY <1>1, <1>2, <1>3, Frame

\* A task that goes on with what it has read: RowsInv is kept if its new label
\* claims nothing of the row and nothing but equality or one step of the rows.
LEMMA ProceedRows ==
  ASSUME StateOK, StateOK', LockOK, LockOK', RowsInv, NEW t \in Tasks, NEW label \in Labels,
         TablesMove(t), Goto(t, label), UNCHANGED <<call, seen>>,
         label \notin {"echo", "terminal", "update", "expired_get"},
         WorkOK(t)'
  PROVE  StepOK
<1>1. /\ pc'[t] = label /\ seen'[t] = seen[t]
      /\ \A u \in Tasks \ {t} : pc'[u] = pc[u] /\ call'[u] = call[u] /\ seen'[u] = seen[u]
  BY DEF Goto, StateOK, ProcOK
<1>2. RowOK(seen'[t])
  BY <1>1 DEF RowsInv, SeenOK
<1>3. SeenOK(t)'
  BY <1>1, <1>2 DEF SeenOK
<1> QED
  BY <1>1, <1>3, Frame

\* Calling the store is no step of the rows.
LEMMA InvokeRows ==
  ASSUME StateOK, StateOK', LockOK, LockOK', RowsInv, NEW t \in Tasks, Invoke(t)
  PROVE  StepOK
<1>1. ASSUME NEW args, NEW label \in {"check", "begin", "expiry", "load", "log"},
             Call(t, args, label)
      PROVE  StepOK
  <2>1. TablesMove(t)
    BY <1>1 DEF Call, tables, TablesMove, RowsUntouched
  <2>2. /\ pc'[t] = label /\ seen'[t] = seen[t]
        /\ \A u \in Tasks \ {t} : pc'[u] = pc[u] /\ call'[u] = call[u] /\ seen'[u] = seen[u]
    BY <1>1 DEF Call, Goto, StateOK, ProcOK
  <2>3. RowOK(seen[t])
    BY DEF RowsInv, SeenOK
  <2>4. SeenOK(t)' /\ WorkOK(t)'
    BY <2>2, <2>3 DEF SeenOK, WorkOK, InTransaction, TransactionLabels
  <2> QED
    BY <2>1, <2>2, <2>4, Frame
<1> QED
  BY <1>1 DEF Invoke, CallCreate, CallCas, CallTimeout, CallMarkAwaiting, CallWrite,
              CallTakeover

\* create() inserts a row only for a client_request_id without one.
LEMMA CreateStepRows ==
  ASSUME StateOK, StateOK', LockOK, LockOK', RowsInv, NEW t \in Tasks, CreateStep(t)
  PROVE  StepOK
<1> DEFINE c == Conn(t)
<1>1. /\ c \in Conns /\ View(c) \in Databases
      /\ WorkOK(t)
  BY NoneIsNone, ViewType DEF StateOK, RowsInv
<1>2. CASE CreateCheck(t)
  <2>1. TablesMove(t) /\ WorkOK(t)'
    BY <1>2 DEF CreateCheck, tables, TablesMove, RowsUntouched, WorkOK, InTransaction,
                TransactionLabels, Goto, StateOK, ProcOK
  <2> QED
    BY <1>2, <2>1, ProceedRows DEF CreateCheck, Labels
<1>3. ASSUME NEW i, Reuse(t, i) PROVE StepOK
  BY <1>3, LeaveRows DEF Reuse, tables, TablesMove, RowsUntouched
<1>4. CASE CreateExisting(t)
  BY <1>3, <1>4 DEF CreateExisting
<1>5. CASE CreateInsert(t)
  <2>1. PICK i \in Ids :
          /\ View(c).row[i].status = Absent
          /\ Write(c, [View(c) EXCEPT !.row[i] = NewRow(call[t].client)])
          /\ call' = [call EXCEPT ![t].id = i]
    BY <1>5 DEF CreateInsert
  <2> DEFINE new == [View(c) EXCEPT !.row[i] = NewRow(call[t].client)]
  <2>2. call[t].client \in Clients
    BY <1>5, OpOf DEF CreateInsert, OpsAt, ArgsOK, StateOK
  <2>3. new \in Databases
    BY <1>1, <2>2, PutRow, NewRowIsRow
  <2>4. new.row = [View(c).row EXCEPT ![i] = NewRow(call[t].client)]
    BY <1>1 DEF Databases
  <2>5. \A j \in Ids : View(c).row[j].client # call[t].client
    BY <1>5 DEF CreateInsert, OwnerOf
  <2>6. RowsStep(View(c).row, new.row)
    BY <2>1, <2>2, <2>4, <2>5 DEF RowsStep, Creates
  <2> HIDE DEF new
  <2>7. RowWrite(t)
    BY <1>5, <2>1, <2>3, <2>6 DEF CreateInsert, RowWrite, new
  <2>8. /\ pc'[t] = "commit" /\ seen'[t] = seen[t]
        /\ \A u \in Tasks \ {t} : pc'[u] = pc[u] /\ call'[u] = call[u] /\ seen'[u] = seen[u]
    BY <1>5, <2>1 DEF CreateInsert, Goto, StateOK, ProcOK
  <2>9. SeenOK(t)'
    BY <2>8 DEF SeenOK, RowsInv
  <2>10. WorkOK(t)'
    BY <1>1, <1>5, <2>1, <2>6, <2>8
       DEF CreateInsert, WorkOK, Write, View, InTransaction, TransactionLabels, Conn, new
  <2> QED
    BY <2>7, <2>8, <2>9, <2>10, Frame DEF TablesMove
<1>6. CASE CreateClash(t)
  <2>1. TablesMove(t) /\ WorkOK(t)'
    BY <1>1, <1>6 DEF CreateClash, Proceed, tables, TablesMove, RowsUntouched, WorkOK,
                      InTransaction, TransactionLabels, Goto, StateOK, ProcOK, Conn
  <2> QED
    BY <1>6, <2>1, ProceedRows DEF CreateClash, Proceed, Labels
<1>7. CASE CreateClashRollback(t)
  <2>1. TablesMove(t) /\ WorkOK(t)'
    BY <1>7 DEF CreateClashRollback, Proceed, TablesMove, WorkOK, InTransaction,
                HoldLabels, TransactionLabels, Goto, StateOK, ProcOK
  <2> QED
    BY <1>7, <2>1, ProceedRows DEF CreateClashRollback, Proceed, Labels
<1>8. CASE CreateReread(t)
  BY <1>3, <1>8 DEF CreateReread
<1> QED
  BY <1>2, <1>4, <1>5, <1>6, <1>7, <1>8 DEF CreateStep

\* mark_awaiting begins its second update: nothing is read yet.
LEMMA SecondHopRows ==
  ASSUME StateOK, StateOK', LockOK, LockOK', RowsInv, NEW t \in Tasks, TablesMove(t),
         SecondHop(t)
  PROVE  StepOK
<1>1. /\ pc'[t] = "begin" /\ seen'[t] = NoRow
      /\ \A u \in Tasks \ {t} : pc'[u] = pc[u] /\ call'[u] = call[u] /\ seen'[u] = seen[u]
  BY DEF SecondHop, Goto, StateOK, ProcOK
<1>2. SeenOK(t)' /\ WorkOK(t)'
  BY <1>1 DEF SeenOK, RowOK, NoRow, Absent, WorkOK, InTransaction, TransactionLabels
<1> QED
  BY <1>1, <1>2, Frame

\* A timeout check that finds the row settled goes on to read it again.
LEMMA RaiseRows ==
  ASSUME StateOK, StateOK', LockOK, LockOK', RowsInv, NEW t \in Tasks, NEW r,
         pc[t] \in {"terminal", "latest"}, TablesMove(t), RaiseAlreadyTerminal(t, r),
         IsTerminal(db.row[call[t].id].status)
  PROVE  StepOK
<1>1. CASE call[t].op # "timeout"
  BY <1>1, LeaveRows DEF RaiseAlreadyTerminal
<1>2. CASE call[t].op = "timeout"
  <2>1. /\ pc'[t] = "expired_get" /\ seen' = seen /\ call' = call
        /\ \A u \in Tasks \ {t} : pc'[u] = pc[u]
    BY <1>2 DEF RaiseAlreadyTerminal, Goto, StateOK, ProcOK
  <2>2. call[t].id \in Ids
    BY OpOf, CasOpsAre DEF StateOK, OpsAt, ArgsOK
  <2>3. IsTerminal(db'.row[call[t].id].status)
    BY <2>2, DbStep, StepShape, RowsType DEF StateOK, RowsInv
  <2>4. SeenOK(t)'
    BY <2>1, <2>3 DEF SeenOK, RowsInv
  <2>5. WorkOK(t)'
    BY <2>1 DEF WorkOK, InTransaction, TransactionLabels
  <2> QED
    BY <2>1, <2>4, <2>5, Frame
<1> QED
  BY <1>1, <1>2

\* The row a compare-and-set writes is one step of Intervention: the row still
\* has the status and version that were checked.
LEMMA UpdateStep ==
  ASSUME StateOK, LockOK, RowsInv, NEW t \in Tasks, pc[t] = "update",
         StillCurrent(View(Conn(t)).row[call[t].id], seen[t])
  PROVE  LET i == call[t].id
             rows == View(Conn(t)).row
             r == Updated(rows[i], seen[t], call[t].target, call[t].option, call[t].channel)
         IN  /\ i \in Ids
             /\ r \in Rows
             /\ IsOpen(rows[i].status)
             /\ Moves(rows, [rows EXCEPT ![i] = r], i, call[t].target, r.decision)
             /\ RowsStep(rows, [rows EXCEPT ![i] = r])
<1> DEFINE i == call[t].id
           rows == View(Conn(t)).row
           target == call[t].target
           option == call[t].option
           r == Updated(rows[i], seen[t], target, option, call[t].channel)
           new == [rows EXCEPT ![i] = r]
<1>1. /\ i \in Ids /\ target \in Statuses
      /\ target = "RESOLVED" <=> call[t].op = "decide"
      /\ call[t].op # "decide" => option = None
      /\ call[t] \in Calls /\ seen[t] \in Rows
  BY OpOf, CasOpsAre DEF StateOK, OpsAt, ArgsOK
<1>2. rows \in [Ids -> Rows] /\ RowsOK(rows)
  BY NoneIsNone, WorkStep
<1>3. /\ MayUpdate(seen[t], target, option)
      /\ RowOK(seen[t])
      /\ rows[i].status = seen[t].status /\ rows[i].version = seen[t].version
  BY DEF RowsInv, SeenOK, StillCurrent
<1>4. r \in Rows
  BY <1>1, <1>2, UpdatedIsRow DEF Calls
<1>5. IsOpen(rows[i].status) /\ CanTransition(rows[i].status, target)
  BY <1>3 DEF MayUpdate, CanTransition, Allowed, IsOpen, OpenStatuses
<1>6. seen[t].decision = None
  BY <1>3, <1>5 DEF RowOK, IsOpen, OpenStatuses
<1>7. r.decision = option /\ option \in (IF target = "RESOLVED" THEN Options ELSE {None})
  BY <1>1, <1>3, <1>6 DEF Updated, MayUpdate
<1>8. /\ r.client = rows[i].client /\ r.status = target
      /\ r.version = rows[i].version + 1
  BY <1>3 DEF Updated
<1>9. new[i] = r /\ new = [rows EXCEPT ![i] = new[i]]
  BY <1>1, <1>2
<1> HIDE DEF r, rows, new
<1>10. Moves(rows, new, i, target, r.decision)
  BY <1>5, <1>7, <1>8, <1>9 DEF Moves
<1>11. RowsStep(rows, new)
  BY <1>1, <1>7, <1>10 DEF RowsStep
<1> QED
  BY <1>1, <1>4, <1>5, <1>10, <1>11 DEF r, rows, new

\* _cas_update_unlocked writes only the row it has read, one transition on.
LEMMA CasStepRows ==
  ASSUME StateOK, StateOK', LockOK, LockOK', RowsInv, NEW t \in Tasks, CasStep(t)
  PROVE  StepOK
<1> DEFINE c == Conn(t)
           i == call[t].id
<1>1. /\ c \in Conns /\ View(c) \in Databases
      /\ WorkOK(t) /\ SeenOK(t)
      /\ RowsOK(View(c).row) /\ View(c).row \in [Ids -> Rows]
  BY NoneIsNone, ViewType, WorkStep DEF StateOK, RowsInv
<1>2. pc[t] \in HoldLabels => lock[c] = t
  BY DEF LockOK
<1>3. ASSUME pc'[t] \notin TransactionLabels PROVE WorkOK(t)'
  BY <1>3 DEF WorkOK, InTransaction
<1>4. CASE BeginTransaction(t)
  <2>1. PICK label \in {"insert", "select", "write"} : Goto(t, label)
    BY <1>4 DEF BeginTransaction
  <2>2. TablesMove(t)
    BY <1>4, <2>1
       DEF BeginTransaction, TablesMove, Goto, HoldLabels, TransactionLabels, StateOK, ProcOK
  <2>3. WorkOK(t)'
    BY <1>4, <2>1 DEF BeginTransaction, Begin, WorkOK, Goto, StateOK, ProcOK, LockOK
  <2> QED
    BY <1>4, <2>1, <2>2, <2>3, ProceedRows DEF BeginTransaction, Labels
<1>5. CASE CasSelect(t)
  <2> DEFINE r == View(c).row[i]
             label == Verdict(r, call[t].target, call[t].option)
  <2>1. i \in Ids
    BY <1>5, OpOf DEF CasSelect, StateOK, OpsAt, ArgsOK
  <2>2. View(c).row = db.row
    BY <1>1, <1>5 DEF CasSelect, View, WorkOK, InTransaction, TransactionLabels
  <2>3. /\ label \in {"echo", "terminal", "update", "reject"}
        /\ label = "terminal" => IsTerminal(r.status)
        /\ label = "update" => MayUpdate(r, call[t].target, call[t].option)
    BY DEF Verdict
  <2>4. RowOK(r)
    BY <1>1, <2>1 DEF RowsOK
  <2>5. /\ pc'[t] = label /\ seen'[t] = r /\ call' = call /\ UNCHANGED tables
        /\ \A u \in Tasks \ {t} : pc'[u] = pc[u] /\ seen'[u] = seen[u]
    BY <1>5 DEF CasSelect, Goto, StateOK, ProcOK
  <2>6. TablesMove(t)
    BY <2>5 DEF tables, TablesMove, RowsUntouched
  <2> HIDE DEF label, r
  <2>7. db'.row[i] = r
    BY <2>2, <2>5 DEF tables, r
  <2>8. SeenOK(t)'
    BY <2>3, <2>4, <2>5, <2>7 DEF SeenOK
  <2>9. WorkOK(t)'
    BY <1>1, <1>5, <2>3, <2>5
       DEF CasSelect, tables, WorkOK, InTransaction, TransactionLabels, RowsStep, Conn
  <2> QED
    BY <2>5, <2>6, <2>8, <2>9, Frame
<1>6. CASE CasEcho(t)
  <2>1. TablesMove(t)
    BY <1>6 DEF CasEcho, TablesMove
  <2> QED
    BY <1>6, <2>1, SecondHopRows, LeaveRows DEF CasEcho
<1>7. CASE CasAlreadyTerminal(t)
  <2>1. TablesMove(t)
    BY <1>7 DEF CasAlreadyTerminal, TablesMove
  <2>2. IsTerminal(db.row[i].status)
    BY <1>1, <1>7 DEF CasAlreadyTerminal, SeenOK, Outcome
  <2> QED
    BY <1>7, <2>1, <2>2, RaiseRows DEF CasAlreadyTerminal
<1>8. CASE RollbackAndRaise(t)
  <2>1. TablesMove(t)
    BY <1>8 DEF RollbackAndRaise, Leave, Goto, TablesMove, HoldLabels, TransactionLabels,
                StateOK, ProcOK
  <2> QED
    BY <1>8, <2>1, LeaveRows DEF RollbackAndRaise
<1>9. CASE CasUpdate(t)
  <2> DEFINE r == Updated(View(c).row[i], seen[t], call[t].target, call[t].option,
                          call[t].channel)
             new == [View(c) EXCEPT !.row[i] = r]
  <2>1. /\ i \in Ids /\ r \in Rows
        /\ RowsStep(View(c).row, [View(c).row EXCEPT ![i] = r])
    BY <1>9, UpdateStep DEF CasUpdate
  <2>2. Write(c, new)
    BY <1>9 DEF CasUpdate
  <2> HIDE DEF r
  <2>3. new \in Databases /\ new.row = [View(c).row EXCEPT ![i] = r]
    BY <1>1, <2>1, PutRow DEF Databases
  <2> HIDE DEF new
  <2>4. RowWrite(t)
    BY <1>9, <2>1, <2>2, <2>3 DEF CasUpdate, RowWrite
  <2>5. PICK label \in {"revoke", "commit"} : Proceed(t, label)
    BY <1>9 DEF CasUpdate
  <2>6. WorkOK(t)'
    <3>1. pc[t] = "update" /\ pc'[t] = label
      BY <1>9, <2>5 DEF CasUpdate, Proceed, Goto, StateOK, ProcOK
    <3>2. tx' = tx /\ (tx = c => db' = db /\ work' = new)
      BY <2>2 DEF Write
    <3>3. tx = c => View(c) = work /\ work.row = db.row
      BY <1>1, <3>1 DEF View, WorkOK, InTransaction, TransactionLabels
    <3>4. tx' = c => RowsStep(db'.row, work'.row)
      BY <2>1, <2>3, <3>2, <3>3
    <3> QED
      BY <3>1, <3>4 DEF WorkOK, Conn
  <2> QED
    BY <2>4, <2>5, <2>6, ProceedRows DEF TablesMove, Proceed, Labels
<1>10. CASE CasLost(t)
  <2>1. TablesMove(t) /\ WorkOK(t)'
    BY <1>1, <1>10 DEF CasLost, Proceed, tables, TablesMove, RowsUntouched, WorkOK,
                       InTransaction, TransactionLabels, Goto, StateOK, ProcOK, Conn
  <2> QED
    BY <1>10, <2>1, ProceedRows DEF CasLost, Proceed, Labels
<1>11. CASE CasLostRollback(t)
  <2>1. TablesMove(t)
    BY <1>11 DEF CasLostRollback, TablesMove, HoldLabels, TransactionLabels
  <2>2. WorkOK(t)'
    BY <1>3, <1>11 DEF CasLostRollback, Proceed, Goto, StateOK, ProcOK, TransactionLabels
  <2> QED
    BY <1>11, <2>1, <2>2, ProceedRows DEF CasLostRollback, Proceed, Labels
<1>12. CASE CasLostRead(t)
  <2>1. TablesMove(t)
    BY <1>12 DEF CasLostRead, tables, TablesMove, RowsUntouched
  <2>2. View(c) = db
    BY <1>12, ViewIsDb DEF CasLostRead
  <2> QED
    BY <1>12, <2>1, <2>2, RaiseRows, LeaveRows DEF CasLostRead
<1>13. CASE CasRevokeTokens(t)
  <2> DEFINE new == [View(c) EXCEPT !.token = Revoked(View(c), i)]
  <2>1. Write(c, new) /\ Proceed(t, "commit")
    BY <1>13 DEF CasRevokeTokens
  <2>2. new.row = View(c).row
    BY <1>1 DEF Databases
  <2>3. RowsUntouched
    BY <1>1, <2>1, <2>2, QuietWrite
  <2>4. WorkOK(t)'
    BY <1>1, <1>13, <2>1, <2>3
       DEF CasRevokeTokens, Proceed, RowsUntouched, WorkOK, InTransaction, TransactionLabels,
           Goto, StateOK, ProcOK, Conn
  <2> QED
    BY <2>1, <2>3, <2>4, ProceedRows DEF TablesMove, Proceed, Labels
<1>14. CASE CommitTransaction(t)
  <2>1. TablesMove(t)
    BY <1>14 DEF CommitTransaction, TablesMove
  <2>2. CASE Proceed(t, "result")
    <3>1. WorkOK(t)'
      BY <1>3, <2>2 DEF Proceed, Goto, StateOK, ProcOK, TransactionLabels
    <3> QED
      BY <2>1, <2>2, <3>1, ProceedRows DEF Proceed, Labels
  <2>3. CASE Leave(t)
    BY <2>1, <2>3, LeaveRows
  <2> QED
    BY <1>14, <2>2, <2>3 DEF CommitTransaction
<1>15. CASE CasResult(t)
  <2>1. TablesMove(t)
    BY <1>15 DEF CasResult, tables, TablesMove, RowsUntouched
  <2> QED
    BY <1>15, <2>1, SecondHopRows, LeaveRows DEF CasResult
<1> QED
  BY <1>4, <1>5, <1>6, <1>7, <1>8, <1>9, <1>10, <1>11, <1>12, <1>13, <1>14, <1>15
     DEF CasStep

\* The remaining operations change no row of the interventions table.
LEMMA OtherStepRows ==
  ASSUME StateOK, StateOK', LockOK, LockOK', RowsInv, NEW t \in Tasks, OtherStep(t)
  PROVE  StepOK
<1> DEFINE c == Conn(t)
<1>1. /\ c \in Conns /\ View(c) \in Databases
      /\ WorkOK(t) /\ SeenOK(t)
  BY NoneIsNone, ViewType DEF StateOK, RowsInv
<1>2. ASSUME pc'[t] \notin TransactionLabels PROVE WorkOK(t)'
  BY <1>2 DEF WorkOK, InTransaction
<1>3. UNCHANGED tables => TablesMove(t)
  BY DEF tables, TablesMove, RowsUntouched
<1>4. CASE MarkAwaitingReturns(t) \/ TimeoutNotDue(t) \/ TimeoutAlreadyTerminal(t)
  BY <1>3, <1>4, LeaveRows DEF MarkAwaitingReturns, TimeoutNotDue, TimeoutAlreadyTerminal
<1>5. CASE MarkAwaitingLoad(t)
  <2>1. /\ pc'[t] = "begin" /\ seen' = seen
        /\ \A u \in Tasks \ {t} : pc'[u] = pc[u] /\ call'[u] = call[u]
    BY <1>5 DEF MarkAwaitingLoad, Goto, StateOK, ProcOK
  <2>2. SeenOK(t)' /\ WorkOK(t)'
    BY <1>1, <1>2, <2>1 DEF SeenOK, TransactionLabels
  <2> QED
    BY <1>3, <1>5, <2>1, <2>2, Frame DEF MarkAwaitingLoad
<1>6. CASE TimeoutDue(t)
  <2>1. WorkOK(t)'
    BY <1>2, <1>6 DEF TimeoutDue, Proceed, Goto, StateOK, ProcOK, TransactionLabels
  <2> QED
    BY <1>3, <1>6, <2>1, ProceedRows DEF TimeoutDue, Proceed, Labels
<1>7. ASSUME NEW label \in {"commit", "reject"}, pc[t] = "write", Proceed(t, label),
             RowsUntouched
      PROVE  StepOK
  <2>1. WorkOK(t)'
    BY <1>1, <1>7 DEF Proceed, RowsUntouched, WorkOK, RowsStep, InTransaction,
                      TransactionLabels, Goto, StateOK, ProcOK, Conn
  <2> QED
    BY <1>7, <2>1, ProceedRows DEF TablesMove, Proceed, Labels
<1>8. CASE AllocateToken(t)
  <2>1. PICK k \in Tokens :
          Write(c, [View(c) EXCEPT !.token[k] = [id |-> call[t].id, revoked |-> FALSE]])
    BY <1>8 DEF AllocateToken
  <2>2. [View(c) EXCEPT !.token[k] = [id |-> call[t].id, revoked |-> FALSE]].row = View(c).row
    BY <1>1 DEF Databases
  <2>3. RowsUntouched
    BY <1>1, <2>1, <2>2, QuietWrite
  <2> QED
    BY <1>7, <1>8, <2>3 DEF AllocateToken
<1>9. CASE AllocateRefused(t)
  BY <1>7, <1>9 DEF AllocateRefused, tables, RowsUntouched
<1>10. CASE UpdateRequest(t)
  <2>1. RowsUntouched
    BY <1>1, <1>10, QuietWrite DEF UpdateRequest
  <2> QED
    BY <1>7, <1>10, <2>1 DEF UpdateRequest
<1>11. CASE TakeoverInsert(t)
  <2>1. [View(c) EXCEPT !.event = @ \cup {call[t].signal}].row = View(c).row
    BY <1>1 DEF Databases
  <2>2. RowsUntouched
    BY <1>1, <1>11, <2>1, QuietWrite DEF TakeoverInsert
  <2>3. WorkOK(t)'
    BY <1>2, <1>11 DEF TakeoverInsert, Proceed, Goto, StateOK, ProcOK, TransactionLabels
  <2> QED
    BY <1>11, <2>2, <2>3, ProceedRows DEF TakeoverInsert, TablesMove, Proceed, Labels
<1>12. CASE TakeoverCommit(t)
  BY <1>12, LeaveRows DEF TakeoverCommit, TablesMove
<1> QED
  BY <1>4, <1>5, <1>6, <1>8, <1>9, <1>10, <1>11, <1>12 DEF OtherStep

\* Failing statements and crashes change no committed row.
LEMMA FaultRows ==
  ASSUME StateOK, StateOK', LockOK, LockOK', RowsInv
  PROVE  /\ \A t \in Tasks : StatementFails(t) \/ GiveUp(t) => StepOK
         /\ \A c \in Conns : Crash(c) => StepOK
<1>1. ASSUME NEW t \in Tasks, StatementFails(t) PROVE StepOK
  <2>1. TablesMove(t)
    BY <1>1 DEF StatementFails, tables, TablesMove, RowsUntouched
  <2>2. WorkOK(t)
    BY DEF RowsInv
  <2>3. WorkOK(t)'
    BY <1>1, <2>2 DEF StatementFails, Proceed, tables, WorkOK, RowsStep, InTransaction,
                      TransactionLabels, Goto, StateOK, ProcOK, Conn
  <2> QED
    BY <1>1, <2>1, <2>3, ProceedRows DEF StatementFails, Proceed, Labels
<1>2. ASSUME NEW t \in Tasks, GiveUp(t) PROVE StepOK
  BY <1>2, LeaveRows DEF GiveUp, tables, TablesMove, RowsUntouched
<1>3. ASSUME NEW c \in Conns, Crash(c) PROVE StepOK
  <2>1. db' = db
    BY <1>3 DEF Crash, Rollback
  <2>2. ASSUME NEW u \in Tasks, Conn(u) = c PROVE SeenOK(u)' /\ WorkOK(u)'
    <3>1. pc'[u] = "idle" /\ seen'[u] = NoRow
      BY <1>3, <2>2 DEF Crash
    <3> QED
      BY <3>1 DEF SeenOK, RowOK, NoRow, Absent, WorkOK, InTransaction, TransactionLabels
  <2>3. ASSUME NEW u \in Tasks, Conn(u) # c PROVE SeenOK(u)' /\ WorkOK(u)'
    <3>1. pc'[u] = pc[u] /\ seen'[u] = seen[u] /\ call'[u] = call[u]
      BY <1>3, <2>3 DEF Crash
    <3>2. tx' = Conn(u) => tx = Conn(u) /\ work' = work
      BY <1>3, <2>3, NoneIsNone DEF Crash, Rollback
    <3>3. SeenOK(u) /\ WorkOK(u)
      BY DEF RowsInv
    <3> QED
      BY <2>1, <3>1, <3>2, <3>3 DEF SeenOK, WorkOK, InTransaction, Conn
  <2>4. ViewsKept
    <3>1. \A u \in Tasks : pc'[u] \in HoldLabels => Conn(u) # c
      BY <1>3 DEF Crash, HoldLabels, TransactionLabels
    <3>2. \A u \in Tasks : Conn(u) # c => View(Conn(u))' = View(Conn(u))
      BY <1>3, NoneIsNone DEF Crash, Rollback, View, Conn
    <3> QED
      BY <3>1, <3>2 DEF ViewsKept
  <2> QED
    BY <1>3, <2>1, <2>2, <2>3, <2>4 DEF RowsInv, StepOK, RowsStep, WorkKept, Crash
<1> QED
  BY <1>1, <1>2, <1>3

\* At the start every row is absent.
LEMMA InitRows == Init => RowsInv
BY NoneIsNone DEF Init, RowsInv, RowsOK, RowOK, EmptyDb, NoRow, Absent, SeenOK, WorkOK,
                  InTransaction, TransactionLabels

\* Every step of the store keeps RowsInv and is a step of the committed rows.
LEMMA NextRows ==
  StateOK /\ StateOK' /\ LockOK /\ LockOK' /\ RowsInv /\ [Next]_vars => StepOK
<1> SUFFICES ASSUME StateOK, StateOK', LockOK, LockOK', RowsInv, [Next]_vars PROVE StepOK
  OBVIOUS
<1>1. ASSUME UNCHANGED <<tables, task>> PROVE StepOK
  <2>1. ViewsKept
    BY <1>1 DEF tables, task, ViewsKept, View, Conn
  <2> QED
    BY <1>1, <2>1 DEF tables, task, RowsInv, SeenOK, WorkOK, InTransaction, Conn, StepOK,
                      RowsStep, WorkKept
<1>2. ASSUME NEW t \in Tasks, Invoke(t) \/ Step(t) PROVE StepOK
  BY <1>2, InvokeRows, CreateStepRows, CasStepRows, OtherStepRows DEF Step
<1>3. ASSUME NEW c \in Conns, NEW i \in Ids, Get(c, i) PROVE StepOK
  BY <1>1, <1>3 DEF Get
<1> QED
  BY <1>1, <1>2, <1>3, FaultRows DEF Next, vars

\* The inductive invariant of the store, for any number of tasks and connections:
\* what each task believes of the row it has read, and what its transaction holds,
\* stays true under every interleaving, takeover, failed statement and crash.
THEOREM RowsCorrect == Spec => [](StateOK /\ LockOK /\ RowsInv)
BY InitState, InitLock, InitRows, NextState, NextLock, NextRows, PTL DEF Spec, StepOK

-----------------------------------------------------------------------------
(* The committed database implements Intervention.                         *)

\* The empty table is the initial state of Intervention.
LEMMA InitPromised == Init => Promised!Init
BY DEF Init, EmptyDb, NoRow, Record, Promised!Init, Promised!NoRecord, Absent, Promised!Absent

\* A step of the rows is a step of Intervention on the columns it speaks of.
LEMMA StepPromised ==
  ASSUME NEW old \in [Ids -> Rows], NEW new \in [Ids -> Rows],
         db.row = old, db'.row = new, RowsStep(old, new)
  PROVE  [Promised!Next]_([i \in Ids |-> Record(db.row[i])])
<1> DEFINE rec == [i \in Ids |-> Record(old[i])]
           rec2 == [i \in Ids |-> Record(new[i])]
<1>1. CASE new = old
  BY <1>1
<1>2. ASSUME NEW i \in Ids, NEW q \in Clients, Creates(old, new, i, q)
      PROVE  Promised!Create(i, q)
  <2>1. /\ rec[i].status = Absent
        /\ \A j \in Ids : rec[j].client # q
    BY <1>2 DEF Creates, Record
  <2>2. Record(NewRow(q)) = [client |-> q, status |-> "PENDING", decision |-> None,
                             version |-> 1]
    BY DEF NewRow, NoRow, Record
  <2>3. new[i] = NewRow(q) /\ \A j \in Ids \ {i} : new[j] = old[j]
    BY <1>2 DEF Creates
  <2>4. rec2 = [rec EXCEPT ![i] = [client |-> q, status |-> "PENDING", decision |-> None,
                                   version |-> 1]]
    BY <2>2, <2>3
  <2> QED
    BY <2>1, <2>4 DEF Promised!Create, Promised!Absent, Absent
<1>3. ASSUME NEW i \in Ids, NEW target \in Statuses, NEW option \in Options \cup {None},
             Moves(old, new, i, target, option)
      PROVE  Promised!Transition(i, target, option)
  <2>1. /\ CanTransition(rec[i].status, target)
        /\ option \in (IF target = "RESOLVED" THEN Options ELSE {None})
    BY <1>3 DEF Moves, Record
  <2>2. /\ Record(new[i]) = [client |-> rec[i].client, status |-> target,
                             decision |-> option, version |-> rec[i].version + 1]
        /\ \A j \in Ids \ {i} : new[j] = old[j]
    BY <1>3 DEF Moves, Record
  <2>3. rec2 = [rec EXCEPT ![i].status = target, ![i].decision = option,
                           ![i].version = @ + 1]
    BY <2>2 DEF Record
  <2> QED
    BY <2>1, <2>3 DEF Promised!Transition, Promised!CanTransition, CanTransition,
       Promised!IsTerminal, IsTerminal, Promised!TerminalStatuses, TerminalStatuses,
       Promised!Allowed, Allowed, Promised!Statuses, Statuses,
       Promised!OpenStatuses, OpenStatuses
<1> QED
  BY <1>1, <1>2, <1>3 DEF RowsStep, Promised!Next, Promised!Statuses, Statuses,
     Promised!TerminalStatuses, TerminalStatuses, Promised!OpenStatuses, OpenStatuses

\* Whatever tasks, connections, takeovers and crashes do between the awaits of
\* store.py, the committed rows only take the steps Intervention allows: this is
\* what the version in the WHERE clause and the checks before it are for.
THEOREM Implementation == Spec => ImplementsIntervention
<1>1. StateOK /\ StateOK' /\ LockOK /\ LockOK' /\ RowsInv /\ [Next]_vars
      => [Promised!Next]_([i \in Ids |-> Record(db.row[i])])
  <2> SUFFICES ASSUME StateOK, StateOK', LockOK, LockOK', RowsInv, [Next]_vars
               PROVE  [Promised!Next]_([i \in Ids |-> Record(db.row[i])])
    OBVIOUS
  <2>1. RowsStep(db.row, db'.row)
    BY NextRows DEF StepOK
  <2> QED
    BY <2>1, RowsType, StepPromised DEF StateOK
<1> QED
  BY <1>1, InitPromised, RowsCorrect, PTL DEF Spec, ImplementsIntervention, Promised!Spec

=============================================================================
