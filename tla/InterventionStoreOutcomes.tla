----------------------- MODULE InterventionStoreOutcomes -----------------------
(***************************************************************************)
(* What callers of InterventionStore are told, for any number of tasks and *)
(* connections: outcomes that are committed, one id per client_request_id, *)
(* one winner.  And what taking a card down relies on: a row that was      *)
(* asked or answered names its channel, and the commit that settles a row  *)
(* carries the revocation of its tokens; the last needs transactions that  *)
(* belong to one task from SELECT to COMMIT, which holds as long as no     *)
(* takeover is written on the store's connection.  Each property has a     *)
(* strengthening of its own over the invariant of                          *)
(* InterventionStoreRefinement.                                            *)
(***************************************************************************)
EXTENDS InterventionStoreRefinement

\* The invariant every step starts from and ends in.
Base == StateOK /\ LockOK /\ RowsInv

\* Every step keeps it, and moves the rows and the views as StepOK says.
LEMMA BaseStep == Base /\ [Next]_vars => Base' /\ StepOK
BY NextState, NextLock, NextRows DEF Base, StepOK

\* It holds at the start.
LEMMA BaseInit == Init => Base
BY InitState, InitLock, InitRows DEF Base

\* The committed rows only grow: what is terminal stays, and so do the clients.
LEMMA DbKept ==
  ASSUME Base, Base', StepOK
  PROVE  /\ RowsOK(db.row) /\ RowsOK(db'.row)
         /\ db.row \in [Ids -> Rows] /\ db'.row \in [Ids -> Rows]
         /\ \A i \in Ids : IsTerminal(db.row[i].status) => db'.row[i] = db.row[i]
         /\ \A i \in Ids : db.row[i].client # None => db'.row[i].client = db.row[i].client
BY RowsType, StepShape DEF Base, StepOK, StateOK, RowsInv

-----------------------------------------------------------------------------
(* Outcomes told.                                                          *)

\* An unlocked read on the connection of the open transaction tells what is not
\* committed yet.
ToldIsWritten == \A i \in Ids : told[i] \subseteq {Outcome(work.row[i])}

ToldOK ==
  /\ told \in [Ids -> SUBSET Outcomes]
  /\ "get" \notin Ops => ToldIsCommitted
  /\ Faults = {} => ToldIsWritten

\* A terminal row that was written is not taken back, and a committed one is
\* written.
LEMMA WorkIsKept ==
  ASSUME Base, Base', StepOK, NEW i \in Ids
  PROVE  /\ Faults = {} /\ IsTerminal(work.row[i].status) => work'.row[i] = work.row[i]
         /\ IsTerminal(db.row[i].status) => work.row[i] = db.row[i]
<1>1. /\ db.row \in [Ids -> Rows] /\ work.row \in [Ids -> Rows] /\ work'.row \in [Ids -> Rows]
      /\ RowsOK(db.row) /\ RowsOK(work.row) /\ RowsStep(db.row, work.row)
  BY RowsType, WorkStep DEF Base, StateOK, RowsInv
<1>2. Faults = {} => RowsStep(work.row, work'.row)
  BY DEF StepOK, WorkKept
<1> QED
  BY <1>1, <1>2, StepShape

\* What has been told stays true.
LEMMA ToldKept ==
  ASSUME Base, Base', StepOK, ToldOK, UNCHANGED told
  PROVE  ToldOK'
<1>1. ASSUME NEW i \in Ids, NEW o \in told[i] PROVE o.status \in TerminalStatuses
  BY <1>1 DEF ToldOK, Outcomes
<1>2. ASSUME ToldIsCommitted, NEW i \in Ids, NEW o \in told[i]
      PROVE  Outcome(db'.row[i]) = o
  <2>1. Outcome(db.row[i]) = o /\ IsTerminal(db.row[i].status)
    BY <1>1, <1>2 DEF ToldIsCommitted, Outcome, IsTerminal
  <2> QED
    BY <2>1, DbKept
<1>3. ASSUME Faults = {}, ToldIsWritten, NEW i \in Ids, NEW o \in told[i]
      PROVE  Outcome(work'.row[i]) = o
  <2>1. Outcome(work.row[i]) = o /\ IsTerminal(work.row[i].status)
    BY <1>1, <1>3 DEF ToldIsWritten, Outcome, IsTerminal
  <2> QED
    BY <1>3, <2>1, WorkIsKept
<1> QED
  BY <1>2, <1>3 DEF ToldOK, ToldIsCommitted, ToldIsWritten

\* What may be told of row i: a committed outcome or, by an unlocked read, one that
\* is written.
MayTell(i, r) ==
  IsTerminal(r.status) => \/ Outcome(db.row[i]) = Outcome(r)
                          \/ "get" \in Ops /\ Outcome(work.row[i]) = Outcome(r)

\* A caller is told one of the two.
LEMMA TellWritten ==
  ASSUME Base, Base', StepOK, ToldOK, NEW i \in Ids, NEW r \in Rows, RowOK(r), Tell(i, r),
         MayTell(i, r)
  PROVE  ToldOK'
<1>1. CASE ~IsTerminal(r.status)
  BY <1>1, ToldKept DEF Tell
<1>2. CASE IsTerminal(r.status)
  <2>1. Outcome(r) \in Outcomes
    BY <1>2 DEF Outcome, Outcomes, RowOK, IsTerminal
  <2>2. told' \in [Ids -> SUBSET Outcomes]
    BY <1>2, <2>1 DEF Tell, ToldOK
  <2>3. ASSUME "get" \notin Ops, NEW j \in Ids, NEW o \in told'[j]
        PROVE  Outcome(db'.row[j]) = o
    <3>1. o \in told[j] \/ (j = i /\ o = Outcome(r))
      BY <1>2, <2>3 DEF Tell, ToldOK
    <3>2. Outcome(db.row[j]) = o
      BY <1>2, <2>3, <3>1 DEF ToldOK, ToldIsCommitted, MayTell
    <3>3. o.status \in TerminalStatuses
      BY <2>2, <2>3 DEF Outcomes
    <3>4. IsTerminal(db.row[j].status)
      BY <3>2, <3>3 DEF Outcome, IsTerminal
    <3> QED
      BY <3>2, <3>4, <2>3, DbKept
  <2>4. Outcome(work.row[i]) = Outcome(r)
    <3>1. Outcome(db.row[i]) = Outcome(r) => IsTerminal(db.row[i].status)
      BY <1>2 DEF Outcome
    <3> QED
      BY <1>2, <3>1, WorkIsKept DEF MayTell
  <2>5. ASSUME Faults = {}, NEW j \in Ids, NEW o \in told'[j]
        PROVE  Outcome(work'.row[j]) = o
    <3>1. o \in told[j] \/ (j = i /\ o = Outcome(r))
      BY <1>2, <2>5 DEF Tell, ToldOK
    <3>2. Outcome(work.row[j]) = o
      BY <2>4, <2>5, <3>1 DEF ToldOK, ToldIsWritten
    <3>3. o.status \in TerminalStatuses
      BY <2>2, <2>5 DEF Outcomes
    <3>4. IsTerminal(work.row[j].status)
      BY <3>2, <3>3 DEF Outcome, IsTerminal
    <3> QED
      BY <2>5, <3>2, <3>4, WorkIsKept
  <2> QED
    BY <2>2, <2>3, <2>5 DEF ToldOK, ToldIsCommitted, ToldIsWritten
<1> QED
  BY <1>1, <1>2

\* A caller is told a row whose outcome is the committed one.
LEMMA TellTold ==
  ASSUME Base, Base', StepOK, ToldOK, NEW i \in Ids, NEW r \in Rows, RowOK(r), Tell(i, r),
         IsTerminal(r.status) => Outcome(db.row[i]) = Outcome(r)
  PROVE  ToldOK'
<1>1. MayTell(i, r)
  BY DEF MayTell
<1> QED
  BY <1>1, TellWritten

\* A row read through a connection is a consistent row.
LEMMA RowSeen ==
  ASSUME Base, NEW c \in Conns, NEW i \in Ids
  PROVE  View(c).row[i] \in Rows /\ RowOK(View(c).row[i])
BY WorkStep DEF Base, RowsOK

\* Reuse answers with the committed row of a client_request_id.
LEMMA ReuseTold ==
  ASSUME Base, Base', StepOK, ToldOK, NEW t \in Tasks, NEW i \in Ids, Reuse(t, i),
         View(Conn(t)) = db
  PROVE  ToldOK'
<1>1. View(Conn(t)).row[i] \in Rows /\ RowOK(View(Conn(t)).row[i])
  BY RowSeen, NoneIsNone
<1> QED
  BY <1>1, TellTold DEF Reuse

\* The steps of create() tell what is committed.
LEMMA CreateStepTold ==
  ASSUME Base, Base', StepOK, ToldOK, NEW t \in Tasks, CreateStep(t)
  PROVE  ToldOK'
<1>1. CASE CreateExisting(t)
  BY <1>1, ViewIsDb, ReuseTold DEF CreateExisting, OwnerOf, Base
<1>2. CASE CreateReread(t)
  BY <1>2, ViewIsDb, ReuseTold DEF CreateReread, OwnerOf, Base
<1>3. CASE CreateCheck(t) \/ CreateInsert(t) \/ CreateClash(t) \/ CreateClashRollback(t)
  BY <1>3, ToldKept DEF CreateCheck, CreateInsert, CreateClash, CreateClashRollback, Proceed,
                        history
<1> QED
  BY <1>1, <1>2, <1>3 DEF CreateStep

\* AG_ALREADY_TERMINAL carries the committed outcome, or nothing is told.
LEMMA RaiseTold ==
  ASSUME Base, Base', StepOK, ToldOK, NEW t \in Tasks, NEW r \in Rows, RowOK(r),
         call[t].id \in Ids, RaiseAlreadyTerminal(t, r),
         IsTerminal(r.status) => Outcome(db.row[call[t].id]) = Outcome(r)
  PROVE  ToldOK'
<1>1. CASE call[t].op = "timeout"
  BY <1>1, ToldKept DEF RaiseAlreadyTerminal, history
<1>2. CASE call[t].op # "timeout"
  BY <1>2, TellTold DEF RaiseAlreadyTerminal
<1> QED
  BY <1>1, <1>2

\* The steps of _cas_update_unlocked tell what is committed: the row as it was
\* read, if that is terminal, or the row read again after the commit.
LEMMA CasStepTold ==
  ASSUME Base, Base', StepOK, ToldOK, NEW t \in Tasks, CasStep(t)
  PROVE  ToldOK'
<1> DEFINE i == call[t].id
           r == View(Conn(t)).row[i]
<1>1. /\ Conn(t) \in Conns /\ SeenOK(t) /\ seen[t] \in Rows
      /\ pc[t] \in {"echo", "terminal", "latest", "result"} => i \in Ids
  BY NoneIsNone, OpOf, CasOpsAre DEF Base, RowsInv, StateOK, OpsAt, ArgsOK
<1>2. i \in Ids => r \in Rows /\ RowOK(r)
  BY <1>1, RowSeen
<1>3. pc[t] \in {"latest", "result"} => View(Conn(t)) = db
  BY ViewIsDb DEF Base
<1> HIDE DEF r
<1>4. CASE CasEcho(t)
  <2>1. CASE IsFirstHop(call[t])
    BY <1>4, <2>1, ToldKept DEF CasEcho, SecondHop, history
  <2>2. CASE ~IsFirstHop(call[t])
    <3>1. Tell(i, seen[t]) /\ pc[t] = "echo"
      BY <1>4, <2>2 DEF CasEcho
    <3> QED
      BY <1>1, <3>1, TellTold DEF SeenOK
  <2> QED
    BY <2>1, <2>2
<1>5. CASE CasAlreadyTerminal(t)
  <2>1. RaiseAlreadyTerminal(t, seen[t]) /\ pc[t] = "terminal"
    BY <1>5 DEF CasAlreadyTerminal
  <2> QED
    BY <1>1, <2>1, RaiseTold DEF SeenOK
<1>6. CASE CasLostRead(t)
  <2>1. pc[t] = "latest" /\ (RaiseAlreadyTerminal(t, r) \/ UNCHANGED history)
    BY <1>6 DEF CasLostRead, r
  <2>2. UNCHANGED history => ToldOK'
    BY ToldKept DEF history
  <2>3. r = db.row[i]
    BY <1>3, <2>1 DEF r
  <2> QED
    BY <1>1, <1>2, <2>1, <2>2, <2>3, RaiseTold
<1>7. CASE CasResult(t)
  <2>1. CASE IsFirstHop(call[t])
    BY <1>7, <2>1, ToldKept DEF CasResult, SecondHop, history
  <2>2. CASE ~IsFirstHop(call[t])
    <3>1. Tell(i, r) /\ pc[t] = "result" /\ r = db.row[i]
      BY <1>3, <1>7, <2>2 DEF CasResult, r
    <3> QED
      BY <1>1, <1>2, <3>1, TellTold
  <2> QED
    BY <2>1, <2>2
<1>8. CASE \/ BeginTransaction(t) \/ CasSelect(t) \/ RollbackAndRaise(t) \/ CasUpdate(t)
           \/ CasLost(t) \/ CasLostRollback(t) \/ CasRevokeTokens(t) \/ CommitTransaction(t)
  <2>1. UNCHANGED told
    BY <1>8 DEF BeginTransaction, CasSelect, RollbackAndRaise, CasUpdate, CasLost,
       CasLostRollback, CasRevokeTokens, CommitTransaction, Proceed, history
  <2> QED
    BY <2>1, ToldKept
<1> QED
  BY <1>4, <1>5, <1>6, <1>7, <1>8 DEF CasStep

\* mark_awaiting and the timeout check tell what is committed.
LEMMA OtherStepTold ==
  ASSUME Base, Base', StepOK, ToldOK, NEW t \in Tasks, OtherStep(t)
  PROVE  ToldOK'
<1> DEFINE i == call[t].id
           r == View(Conn(t)).row[i]
<1>1. /\ Conn(t) \in Conns
      /\ pc[t] \in {"load", "expired_get"} => i \in Ids
  BY NoneIsNone, OpOf, CasOpsAre DEF Base, StateOK, OpsAt, ArgsOK
<1>2. i \in Ids => r \in Rows /\ RowOK(r)
  BY <1>1, RowSeen
<1> HIDE DEF r
<1>3. CASE MarkAwaitingReturns(t)
  <2>1. Tell(i, r) /\ pc[t] = "load" /\ r = db.row[i]
    BY <1>3, ViewIsDb DEF MarkAwaitingReturns, r, Base
  <2> QED
    BY <1>1, <1>2, <2>1, TellTold
<1>4. CASE TimeoutAlreadyTerminal(t)
  <2>1. Tell(i, r) /\ pc[t] = "expired_get"
    BY <1>4 DEF TimeoutAlreadyTerminal, r
  <2>2. r = db.row[i]
    BY <1>1, <2>1, WorkStep DEF Base, RowsInv, SeenOK, r
  <2> QED
    BY <1>1, <1>2, <2>1, <2>2, TellTold
<1>5. CASE \/ MarkAwaitingLoad(t) \/ TimeoutDue(t) \/ TimeoutNotDue(t) \/ AllocateToken(t)
           \/ AllocateRefused(t) \/ UpdateRequest(t) \/ TakeoverInsert(t) \/ TakeoverCommit(t)
  <2>1. UNCHANGED told
    BY <1>5 DEF MarkAwaitingLoad, TimeoutDue, TimeoutNotDue, AllocateToken, AllocateRefused,
       UpdateRequest, TakeoverInsert, TakeoverCommit, Proceed, history
  <2> QED
    BY <2>1, ToldKept
<1> QED
  BY <1>3, <1>4, <1>5 DEF OtherStep

\* Every step keeps ToldOK.
LEMMA NextTold == Base /\ ToldOK /\ [Next]_vars => ToldOK'
<1> SUFFICES ASSUME Base, ToldOK, [Next]_vars PROVE ToldOK'
  OBVIOUS
<1>1. Base' /\ StepOK
  BY BaseStep
<1>2. ASSUME NEW t \in Tasks, Invoke(t) PROVE ToldOK'
  BY <1>1, <1>2, ToldKept DEF Invoke, CallCreate, CallCas, CallTimeout, CallMarkAwaiting,
                              CallWrite, CallTakeover, Call, history
<1>3. ASSUME NEW t \in Tasks, Step(t) PROVE ToldOK'
  BY <1>1, <1>3, CreateStepTold, CasStepTold, OtherStepTold DEF Step
<1>4. ASSUME NEW t \in Tasks, StatementFails(t) \/ GiveUp(t) PROVE ToldOK'
  BY <1>1, <1>4, ToldKept DEF StatementFails, GiveUp, Proceed, history
<1>5. ASSUME NEW c \in Conns, Crash(c) PROVE ToldOK'
  BY <1>1, <1>5, ToldKept DEF Crash, history
<1>6. ASSUME NEW c \in Conns, NEW i \in Ids, Get(c, i) PROVE ToldOK'
  <2>1. View(c).row[i] \in Rows /\ RowOK(View(c).row[i])
    BY RowSeen
  <2>2. MayTell(i, View(c).row[i]) /\ Tell(i, View(c).row[i])
    BY <1>6 DEF View, MayTell, Get
  <2> QED
    BY <1>1, <2>1, <2>2, TellWritten
<1>7. CASE UNCHANGED vars
  BY <1>1, <1>7, ToldKept DEF vars, history
<1> QED
  BY <1>2, <1>3, <1>4, <1>5, <1>6, <1>7 DEF Next

\* Tables, tasks and the records of what callers were told are well-formed.
THEOREM TypeCorrect == Spec => []TypeOK
<1>1. Init => ToldOK
  BY DEF Init, ToldOK, ToldIsCommitted, ToldIsWritten
<1>2. Base /\ ToldOK => TypeOK
  BY DEF Base, StateOK, TablesOK, ProcOK, HistoryOK, ToldOK, TypeOK
<1> QED
  BY <1>1, <1>2, BaseInit, BaseStep, NextTold, PTL DEF Spec

\* No terminal outcome that a decide, cancel, timeout check, create or
\* mark_awaiting has returned, or AG_ALREADY_TERMINAL has carried, is ever undone
\* or replaced, for any number of tasks and connections, takeovers, failing
\* statements and crashes included; only unlocked reads are left out.
THEOREM ToldCorrect == ASSUME "get" \notin Ops PROVE Spec => []ToldIsCommitted
<1>1. Init => ToldOK
  BY DEF Init, ToldOK, ToldIsCommitted, ToldIsWritten
<1>2. Base /\ ToldOK => ToldIsCommitted
  BY DEF ToldOK
<1> QED
  BY <1>1, <1>2, BaseInit, BaseStep, NextTold, PTL DEF Spec

\* Between transactions a terminal outcome that somebody was given, by an unlocked
\* read of an uncommitted row too, is the one in the database, whatever takeovers
\* and other connections do: where no statement fails and no process dies, the
\* transaction it was read from is never rolled back.  Without unlocked reads no
\* such hypothesis is needed.
THEOREM OutcomeCorrect ==
  ASSUME Faults = {} \/ "get" \notin Ops
  PROVE  Spec => []OutcomeSurvives
<1>1. Init => ToldOK
  BY DEF Init, ToldOK, ToldIsCommitted, ToldIsWritten
<1>2. Base /\ ToldOK => OutcomeSurvives
  <2> SUFFICES ASSUME Base, ToldOK, tx = None PROVE ToldIsCommitted
    BY DEF OutcomeSurvives
  <2>1. work = db
    BY DEF Base, LockOK
  <2> QED
    BY <2>1 DEF ToldOK, ToldIsWritten, ToldIsCommitted
<1> QED
  BY <1>1, <1>2, BaseInit, BaseStep, NextTold, PTL DEF Spec

-----------------------------------------------------------------------------
(* create.                                                                 *)

\* From its INSERT to its COMMIT a creator sees its row.
InsertedOK ==
  \A t \in Tasks : pc[t] = "commit" /\ call[t].op = "create" =>
    View(Conn(t)).row[call[t].id].client = call[t].client

NamedOK == InsertedOK /\ CreateIsDurable

\* A creator that was at its COMMIT and still is sees its row still.
LEMMA InsertedKept ==
  ASSUME Base, Base', StepOK, InsertedOK, NEW u \in Tasks,
         pc[u] = "commit", pc'[u] = "commit", call'[u] = call[u], call[u].op = "create"
  PROVE  View(Conn(u))'.row[call'[u].id].client = call'[u].client
<1>1. call[u].id \in Ids /\ call[u].client \in Clients
  BY OpOf DEF Base, StateOK, ArgsOK
<1>2. View(Conn(u)).row[call[u].id].client = call[u].client /\ call[u].client # None
  BY <1>1, NoneIsNone DEF InsertedOK
<1> QED
  BY <1>1, <1>2 DEF StepOK, ViewsKept, HoldLabels, TransactionLabels

\* Only an INSERT brings a task of create to its COMMIT.
LEMMA InsertedFrame ==
  ASSUME Base, Base', StepOK, InsertedOK,
         \A u \in Tasks : pc'[u] = "commit" /\ call'[u].op = "create" =>
                            pc[u] = "commit" /\ call'[u] = call[u]
  PROVE  InsertedOK'
<1> SUFFICES ASSUME NEW u \in Tasks, pc'[u] = "commit", call'[u].op = "create"
             PROVE  View(Conn(u))'.row[call'[u].id].client = call'[u].client
  BY DEF InsertedOK, Conn
<1> QED
  BY InsertedKept

\* Every step keeps InsertedOK.
LEMMA NextInserted == Base /\ InsertedOK /\ [Next]_vars => InsertedOK'
<1> SUFFICES ASSUME Base, InsertedOK, [Next]_vars PROVE InsertedOK'
  OBVIOUS
<1>1. Base' /\ StepOK /\ pc \in [Tasks -> Labels] /\ call \in [Tasks -> Calls]
  BY BaseStep DEF Base, StateOK, ProcOK
<1>2. CASE UNCHANGED <<pc, call>>
  BY <1>1, <1>2, InsertedFrame
<1>3. ASSUME NEW t \in Tasks, NEW label \in Labels \ {"commit"},
             pc' = [pc EXCEPT ![t] = label],
             \A u \in Tasks \ {t} : call'[u] = call[u]
      PROVE  InsertedOK'
  BY <1>1, <1>3, InsertedFrame
<1>4. ASSUME NEW t \in Tasks, Goto(t, "commit"), call' = call, call[t].op # "create"
      PROVE  InsertedOK'
  BY <1>1, <1>4, InsertedFrame DEF Goto
<1>5. ASSUME NEW t \in Tasks, Leave(t) PROVE InsertedOK'
  BY <1>1, <1>3, <1>5 DEF Leave, Goto, Labels
<1>6. ASSUME NEW t \in Tasks, NEW label \in Labels \ {"commit"}, Goto(t, label), call' = call
      PROVE  InsertedOK'
  BY <1>3, <1>6 DEF Goto
<1>7. ASSUME NEW t \in Tasks, Invoke(t) PROVE InsertedOK'
  <2>1. ASSUME NEW args, NEW label \in {"check", "begin", "expiry", "load", "log"},
               Call(t, args, label)
        PROVE  InsertedOK'
    BY <1>1, <1>3, <2>1 DEF Call, Goto, Labels
  <2> QED
    BY <1>7, <2>1 DEF Invoke, CallCreate, CallCas, CallTimeout, CallMarkAwaiting, CallWrite,
                      CallTakeover
<1>8. ASSUME NEW t \in Tasks, CreateStep(t) PROVE InsertedOK'
  <2>1. CASE CreateInsert(t)
    <3> DEFINE c == Conn(t)
    <3>1. PICK i \in Ids :
            /\ Write(c, [View(c) EXCEPT !.row[i] = NewRow(call[t].client)])
            /\ call' = [call EXCEPT ![t].id = i]
      BY <2>1 DEF CreateInsert
    <3> DEFINE new == [View(c) EXCEPT !.row[i] = NewRow(call[t].client)]
    <3>2. View(c) \in Databases /\ None \notin Conns /\ c \in Conns
      BY NoneIsNone, ViewType DEF Base, StateOK
    <3>3. new.row[i].client = call[t].client
      BY <3>2 DEF Databases, NewRow, NoRow
    <3>4. View(c)' = new
      BY <3>1, <3>2 DEF Write, View, Conn
    <3>5. call'[t].id = i /\ call'[t].client = call[t].client
      BY <1>1, <3>1 DEF Calls
    <3>6. /\ pc' = [pc EXCEPT ![t] = "commit"]
          /\ \A u \in Tasks \ {t} : call'[u] = call[u]
      BY <2>1, <3>1 DEF CreateInsert, Goto
    <3> SUFFICES ASSUME NEW u \in Tasks, pc'[u] = "commit", call'[u].op = "create"
                 PROVE  View(Conn(u))'.row[call'[u].id].client = call'[u].client
      BY DEF InsertedOK, Conn
    <3>7. CASE u = t
      BY <3>3, <3>4, <3>5, <3>7
    <3>8. CASE u # t
      BY <1>1, <3>6, <3>8, InsertedKept
    <3> QED
      BY <3>7, <3>8
  <2>2. CASE CreateExisting(t) \/ CreateReread(t)
    BY <1>5, <2>2 DEF CreateExisting, CreateReread, Reuse
  <2>3. CASE CreateCheck(t) \/ CreateClash(t) \/ CreateClashRollback(t)
    BY <1>6, <2>3 DEF CreateCheck, CreateClash, CreateClashRollback, Proceed, Labels
  <2> QED
    BY <1>8, <2>1, <2>2, <2>3 DEF CreateStep
<1>9. ASSUME NEW t \in Tasks, CasStep(t) PROVE InsertedOK'
  <2>1. pc[t] \in {"update", "revoke"} => call[t].op # "create"
    BY OpOf, CasOpsAre DEF Base, StateOK, OpsAt
  <2>2. ASSUME SecondHop(t) PROVE InsertedOK'
    BY <1>1, <1>3, <2>2 DEF SecondHop, Goto, Labels
  <2>3. ASSUME NEW r, RaiseAlreadyTerminal(t, r) PROVE InsertedOK'
    BY <1>5, <1>6, <2>3 DEF RaiseAlreadyTerminal, Labels
  <2>4. CASE CasEcho(t) \/ CasResult(t) \/ CasAlreadyTerminal(t) \/ CasLostRead(t)
             \/ RollbackAndRaise(t)
    BY <1>5, <2>2, <2>3, <2>4
       DEF CasEcho, CasResult, CasAlreadyTerminal, CasLostRead, RollbackAndRaise
  <2>5. CASE BeginTransaction(t)
    BY <1>6, <2>5 DEF BeginTransaction, Labels
  <2>6. CASE CasSelect(t)
    BY <1>6, <2>6 DEF CasSelect, Verdict, Labels
  <2>7. CASE CasUpdate(t)
    BY <1>4, <1>6, <2>1, <2>7 DEF CasUpdate, Proceed, Labels
  <2>8. CASE CasRevokeTokens(t)
    BY <1>4, <2>1, <2>8 DEF CasRevokeTokens, Proceed
  <2>9. CASE CasLost(t) \/ CasLostRollback(t)
    BY <1>6, <2>9 DEF CasLost, CasLostRollback, Proceed, Labels
  <2>10. CASE CommitTransaction(t)
    BY <1>5, <1>6, <2>10 DEF CommitTransaction, Proceed, Labels
  <2> QED
    BY <1>9, <2>4, <2>5, <2>6, <2>7, <2>8, <2>9, <2>10 DEF CasStep
<1>10. ASSUME NEW t \in Tasks, OtherStep(t) PROVE InsertedOK'
  <2>1. CASE MarkAwaitingReturns(t) \/ TimeoutNotDue(t) \/ TimeoutAlreadyTerminal(t)
             \/ TakeoverCommit(t)
    BY <1>5, <2>1 DEF MarkAwaitingReturns, TimeoutNotDue, TimeoutAlreadyTerminal,
                      TakeoverCommit
  <2>2. CASE MarkAwaitingLoad(t)
    BY <1>1, <1>3, <2>2 DEF MarkAwaitingLoad, Goto, Labels
  <2>3. CASE TimeoutDue(t) \/ AllocateRefused(t) \/ TakeoverInsert(t)
    BY <1>6, <2>3 DEF TimeoutDue, AllocateRefused, TakeoverInsert, Proceed, Labels
  <2>4. CASE AllocateToken(t) \/ UpdateRequest(t)
    BY <1>4, <2>4 DEF AllocateToken, UpdateRequest, Proceed
  <2> QED
    BY <1>10, <2>1, <2>2, <2>3, <2>4 DEF OtherStep
<1>11. ASSUME NEW t \in Tasks, StatementFails(t) \/ GiveUp(t) PROVE InsertedOK'
  BY <1>5, <1>6, <1>11 DEF StatementFails, GiveUp, Proceed, Labels
<1>12. ASSUME NEW c \in Conns, Crash(c) PROVE InsertedOK'
  BY <1>1, <1>12, InsertedFrame DEF Crash
<1>13. ASSUME NEW c \in Conns, NEW i \in Ids, Get(c, i) PROVE InsertedOK'
  BY <1>2, <1>13 DEF Get, task
<1>14. CASE UNCHANGED vars
  BY <1>2, <1>14 DEF vars, task
<1> QED
  BY <1>7, <1>8, <1>9, <1>10, <1>11, <1>12, <1>13, <1>14 DEF Next, Step

\* What create has answered stays true.
LEMMA NamedKept ==
  ASSUME Base, Base', StepOK, CreateIsDurable, UNCHANGED named
  PROVE  CreateIsDurable'
<1> SUFFICES ASSUME NEW q \in Clients, NEW i \in named[q]
             PROVE  named[q] = {i} /\ db'.row[i].client = q
  BY DEF CreateIsDurable
<1>1. i \in Ids
  BY DEF Base, StateOK, HistoryOK
<1> QED
  BY <1>1, DbKept, NoneIsNone DEF CreateIsDurable

\* An id that is committed for a client_request_id may be answered for it.
LEMMA NameIt ==
  ASSUME Base, Base', StepOK, CreateIsDurable, NEW q \in Clients, NEW i \in Ids,
         db'.row[i].client = q, named' = [named EXCEPT ![q] = @ \cup {i}]
  PROVE  CreateIsDurable'
<1> SUFFICES ASSUME NEW p \in Clients, NEW j \in named'[p]
             PROVE  named'[p] = {j} /\ db'.row[j].client = p
  BY DEF CreateIsDurable
<1>1. named \in [Clients -> SUBSET Ids] /\ None \notin Clients
  BY NoneIsNone DEF Base, StateOK, HistoryOK
<1>2. \A k \in named[p] : named[p] = {k} /\ k \in Ids /\ db'.row[k].client = p
  BY <1>1, DbKept DEF CreateIsDurable
<1>3. CASE p # q
  BY <1>1, <1>2, <1>3
<1>4. CASE p = q
  <2>1. \A k \in named[q] : k = i
    BY <1>1, <1>2, <1>4, DbKept DEF RowsOK
  <2> QED
    BY <1>1, <1>2, <1>4, <2>1
<1> QED
  BY <1>3, <1>4

\* Every step keeps what create has answered.
LEMMA NextNamed == Base /\ NamedOK /\ [Next]_vars => NamedOK'
<1> SUFFICES ASSUME Base, NamedOK, [Next]_vars PROVE CreateIsDurable'
  BY NextInserted DEF NamedOK
<1>1. Base' /\ StepOK /\ CreateIsDurable
  BY BaseStep DEF NamedOK
<1>2. CASE UNCHANGED named
  BY <1>1, <1>2, NamedKept
<1>3. ASSUME NEW t \in Tasks, NEW i \in Ids, Reuse(t, i), pc[t] \in {"check", "reread"},
             View(Conn(t)) = db, db.row[i].client = call[t].client
      PROVE  CreateIsDurable'
  <2>1. call[t].client \in Clients
    BY <1>3, OpOf DEF Base, StateOK, OpsAt, ArgsOK
  <2>2. db' = db
    BY <1>3 DEF Reuse, tables
  <2> QED
    BY <1>1, <1>3, <2>1, <2>2, NameIt DEF Reuse
<1>4. ASSUME NEW t \in Tasks, CreateStep(t) PROVE CreateIsDurable'
  <2>1. CASE CreateExisting(t)
    BY <1>3, <2>1, ViewIsDb DEF CreateExisting, OwnerOf, Base
  <2>2. CASE CreateReread(t)
    BY <1>3, <2>2, ViewIsDb DEF CreateReread, OwnerOf, Base
  <2>3. CASE CreateCheck(t) \/ CreateInsert(t) \/ CreateClash(t) \/ CreateClashRollback(t)
    BY <1>2, <2>3 DEF CreateCheck, CreateInsert, CreateClash, CreateClashRollback, Proceed,
                      history
  <2> QED
    BY <1>4, <2>1, <2>2, <2>3 DEF CreateStep
<1>5. ASSUME NEW t \in Tasks, CommitTransaction(t) PROVE CreateIsDurable'
  <2>1. CASE call[t].op \in CasOps
    BY <1>2, <1>5, <2>1 DEF CommitTransaction, Proceed, history
  <2>2. CASE call[t].op \notin CasOps /\ call[t].op # "create"
    BY <1>2, <1>5, <2>2 DEF CommitTransaction
  <2>3. CASE call[t].op = "create"
    <3>1. pc[t] = "commit" /\ Commit(Conn(t)) /\ call[t].op \notin CasOps
      BY <1>5, <2>3, CasOpsAre DEF CommitTransaction
    <3>2. call[t].id \in Ids /\ call[t].client \in Clients
      BY <2>3, <3>1, OpOf DEF Base, StateOK, ArgsOK
    <3>3. db'.row[call[t].id].client = call[t].client
      BY <2>3, <3>1 DEF NamedOK, InsertedOK, Commit, View
    <3>4. named' = [named EXCEPT ![call[t].client] = @ \cup {call[t].id}]
      BY <1>5, <2>3, <3>1 DEF CommitTransaction
    <3> QED
      BY <1>1, <3>2, <3>3, <3>4, NameIt
  <2> QED
    BY <2>1, <2>2, <2>3
<1>6. ASSUME NEW t \in Tasks, CasStep(t), ~CommitTransaction(t) PROVE UNCHANGED named
  BY <1>6 DEF CasStep, BeginTransaction, CasSelect, CasEcho, CasAlreadyTerminal,
     RaiseAlreadyTerminal, RollbackAndRaise, CasUpdate, CasLost, CasLostRollback, CasLostRead,
     CasRevokeTokens, CasResult, SecondHop, Proceed, history
<1>7. ASSUME NEW t \in Tasks, OtherStep(t) PROVE UNCHANGED named
  BY <1>7 DEF OtherStep, MarkAwaitingReturns, MarkAwaitingLoad, TimeoutDue, TimeoutNotDue,
     TimeoutAlreadyTerminal, AllocateToken, AllocateRefused, UpdateRequest, TakeoverInsert,
     TakeoverCommit, Proceed, history
<1>8. ASSUME NEW t \in Tasks, Invoke(t) PROVE UNCHANGED named
  BY <1>8 DEF Invoke, CallCreate, CallCas, CallTimeout, CallMarkAwaiting, CallWrite,
     CallTakeover, Call, history
<1>9. ASSUME NEW t \in Tasks, StatementFails(t) \/ GiveUp(t) PROVE UNCHANGED named
  BY <1>9 DEF StatementFails, GiveUp, Proceed, history
<1>10. ASSUME NEW c \in Conns, Crash(c) \/ \E i \in Ids : Get(c, i) PROVE UNCHANGED named
  BY <1>10 DEF Crash, Get, history
<1>11. UNCHANGED vars => UNCHANGED named
  BY DEF vars, history
<1> QED
  BY <1>2, <1>4, <1>5, <1>6, <1>7, <1>8, <1>9, <1>10, <1>11 DEF Next, Step

\* create answers a client_request_id with one id for ever, and that id's row is
\* committed, however many connections race to insert it and whatever crashes.
THEOREM CreateCorrect == Spec => []CreateIsDurable
<1>1. Init => NamedOK
  BY DEF Init, NamedOK, InsertedOK, CreateIsDurable
<1>2. NamedOK => CreateIsDurable
  BY DEF NamedOK
<1> QED
  BY <1>1, <1>2, BaseInit, BaseStep, NextNamed, PTL DEF Spec

-----------------------------------------------------------------------------
(* Winners.                                                                *)

\* Task t has written a terminal status to row i and has not returned yet.
Settler(t, i) ==
  /\ pc[t] \in {"revoke", "commit", "result"}
  /\ call[t].op \in CasOps
  /\ call[t].id = i
  /\ IsTerminal(call[t].target)

\* A settler sees its row settled, is the only one, and nobody has won before.
WinsOK ==
  \A i \in Ids :
    /\ \A t \in Tasks : Settler(t, i) =>
         /\ IsTerminal(View(Conn(t)).row[i].status)
         /\ wins[i] = 0
         /\ \A u \in Tasks : Settler(u, i) => u = t
    /\ wins[i] <= 1
    /\ wins[i] = 1 => IsTerminal(db.row[i].status)

\* Who settled a row before and after a step goes on seeing it settled.
LEMMA SettlerKept ==
  ASSUME StepOK, WinsOK, NEW i \in Ids, NEW t \in Tasks, Settler(t, i), Settler(t, i)'
  PROVE  IsTerminal(View(Conn(t))'.row[i].status)
<1>1. pc[t] \in HoldLabels /\ pc'[t] \in HoldLabels
  BY DEF Settler, HoldLabels, TransactionLabels
<1>2. IsTerminal(View(Conn(t)).row[i].status)
  BY DEF WinsOK
<1> QED
  BY <1>1, <1>2 DEF StepOK, ViewsKept

\* A step after which nobody new settles and nobody new has won keeps WinsOK.
LEMMA WinsFrame ==
  ASSUME Base, Base', StepOK, WinsOK, UNCHANGED wins,
         \A i \in Ids, t \in Tasks : Settler(t, i)' => Settler(t, i)
  PROVE  WinsOK'
<1> SUFFICES ASSUME NEW i \in Ids
             PROVE  /\ \A t \in Tasks : Settler(t, i)' =>
                         /\ IsTerminal(View(Conn(t))'.row[i].status)
                         /\ wins[i] = 0
                         /\ \A u \in Tasks : Settler(u, i)' => u = t
                    /\ wins[i] <= 1
                    /\ wins[i] = 1 => IsTerminal(db'.row[i].status)
  BY DEF WinsOK, Conn
<1>1. ASSUME NEW t \in Tasks, Settler(t, i)'
      PROVE  /\ IsTerminal(View(Conn(t))'.row[i].status)
             /\ wins[i] = 0
             /\ \A u \in Tasks : Settler(u, i)' => u = t
  <2>1. Settler(t, i) /\ \A u \in Tasks : Settler(u, i)' => Settler(u, i)
    BY <1>1
  <2>2. IsTerminal(View(Conn(t))'.row[i].status)
    BY <1>1, <2>1, SettlerKept
  <2> QED
    BY <2>1, <2>2 DEF WinsOK
<1>2. wins[i] <= 1 /\ (wins[i] = 1 => IsTerminal(db'.row[i].status))
  BY DbKept DEF WinsOK
<1> QED
  BY <1>1, <1>2

\* A settled row is seen as settled through every connection, so a task that can
\* write a row is the first to settle it.
LEMMA FirstSettler ==
  ASSUME Base, WinsOK, NEW t \in Tasks, NEW i \in Ids,
         tx \in {Conn(t), None}, IsOpen(View(Conn(t)).row[i].status)
  PROVE  wins[i] = 0 /\ \A u \in Tasks : ~Settler(u, i)
<1>1. /\ Conn(t) \in Conns /\ None \notin Conns /\ \A u \in Tasks : Conn(u) \in Conns
      /\ ~IsTerminal(View(Conn(t)).row[i].status)
  BY NoneIsNone DEF IsOpen, IsTerminal, OpenStatuses, TerminalStatuses
<1>2. IsTerminal(db.row[i].status) => View(Conn(t)).row[i] = db.row[i]
  BY <1>1, WorkStep DEF Base
<1>3. ~IsTerminal(db.row[i].status)
  BY <1>1, <1>2
<1>4. wins[i] = 0
  BY <1>3 DEF WinsOK, Base, StateOK, HistoryOK
<1>5. ASSUME NEW u \in Tasks, Settler(u, i) PROVE FALSE
  <2>1. IsTerminal(View(Conn(u)).row[i].status)
    BY <1>5 DEF WinsOK
  <2>2. View(Conn(u)) = View(Conn(t)) \/ View(Conn(u)) = db
    BY <1>1 DEF View
  <2> QED
    BY <1>1, <1>3, <2>1, <2>2
<1> QED
  BY <1>4, <1>5

\* The UPDATE that settles a row is the first to do so.
LEMMA UpdateWins ==
  ASSUME Base, Base', StepOK, WinsOK, NEW t \in Tasks, CasUpdate(t)
  PROVE  WinsOK'
<1> DEFINE c == Conn(t)
           j == call[t].id
           r == Updated(View(c).row[j], seen[t], call[t].target, call[t].option,
                        call[t].channel)
           new == [View(c) EXCEPT !.row[j] = r]
<1>1. /\ pc[t] = "update" /\ c \in Conns /\ View(c) \in Databases
      /\ call[t].op \in CasOps /\ j \in Ids
      /\ UNCHANGED wins /\ call' = call
      /\ \A u \in Tasks \ {t} : pc'[u] = pc[u]
  BY NoneIsNone, ViewType, OpOf
     DEF Base, StateOK, ProcOK, CasUpdate, Proceed, Goto, history, OpsAt, ArgsOK
<1>2. IsOpen(View(c).row[j].status)
  BY <1>1, UpdateStep DEF CasUpdate, Base
<1>3. Write(c, new)
  BY DEF CasUpdate
<1>4. tx \in {c, None}
  BY <1>3 DEF Write
<1>5. wins[j] = 0 /\ \A u \in Tasks : ~Settler(u, j)
  BY <1>1, <1>2, <1>4, FirstSettler
<1>6. View(c)' = new
  <2>1. tx' = tx /\ work' = new /\ (tx # c => db' = new)
    BY <1>3 DEF Write
  <2> HIDE DEF new
  <2> QED
    BY <2>1 DEF View, Conn
<1>7. new.row[j].status = call[t].target
  BY <1>1 DEF Databases, Updated
<1> HIDE DEF new
<1> SUFFICES ASSUME NEW i \in Ids
             PROVE  /\ \A u \in Tasks : Settler(u, i)' =>
                         /\ IsTerminal(View(Conn(u))'.row[i].status)
                         /\ wins[i] = 0
                         /\ \A v \in Tasks : Settler(v, i)' => v = u
                    /\ wins[i] <= 1
                    /\ wins[i] = 1 => IsTerminal(db'.row[i].status)
  BY <1>1 DEF WinsOK, Conn
<1>8. \A u \in Tasks : Settler(u, i)' => Settler(u, i) \/ (u = t /\ i = j)
  BY <1>1 DEF Settler
<1>9. ASSUME NEW u \in Tasks, Settler(u, i)'
      PROVE  /\ IsTerminal(View(Conn(u))'.row[i].status)
             /\ wins[i] = 0
             /\ \A v \in Tasks : Settler(v, i)' => v = u
  <2>1. CASE i = j
    <3>1. u = t /\ \A v \in Tasks : Settler(v, i)' => v = t
      BY <1>5, <1>8, <1>9, <2>1
    <3>2. IsTerminal(call[t].target)
      BY <1>1, <1>9, <3>1 DEF Settler
    <3> QED
      BY <1>5, <1>6, <1>7, <2>1, <3>1, <3>2
  <2>2. CASE i # j
    <3>1. Settler(u, i) /\ \A v \in Tasks : Settler(v, i)' => Settler(v, i)
      BY <1>8, <1>9, <2>2
    <3> QED
      BY <1>9, <3>1, SettlerKept DEF WinsOK
  <2> QED
    BY <2>1, <2>2
<1>10. wins[i] <= 1 /\ (wins[i] = 1 => IsTerminal(db'.row[i].status))
  BY DbKept DEF WinsOK
<1> QED
  BY <1>9, <1>10

\* Reading the row back makes the one settler the winner.
LEMMA ResultWins ==
  ASSUME Base, Base', StepOK, WinsOK, NEW t \in Tasks, CasResult(t)
  PROVE  WinsOK'
<1> DEFINE j == call[t].id
<1>1. /\ pc[t] = "result" /\ j \in Ids /\ call[t].op \in CasOps
      /\ wins \in [Ids -> 0..2]
      /\ pc'[t] \in {"begin", "idle"}
      /\ \A u \in Tasks \ {t} : pc'[u] = pc[u] /\ call'[u] = call[u]
  BY OpOf DEF Base, StateOK, ProcOK, HistoryOK, CasResult, SecondHop, Leave, Goto, OpsAt,
              ArgsOK
<1>2. \A i \in Ids, u \in Tasks : Settler(u, i)' => Settler(u, i) /\ u # t
  BY <1>1 DEF Settler
<1>3. CASE ~(~IsFirstHop(call[t]) /\ IsTerminal(call[t].target))
  <2>1. UNCHANGED wins
    BY <1>3 DEF CasResult, SecondHop, history
  <2> QED
    BY <1>2, <2>1, WinsFrame
<1>4. CASE ~IsFirstHop(call[t]) /\ IsTerminal(call[t].target)
  <2>1. Settler(t, j)
    BY <1>1, <1>4 DEF Settler
  <2>2. /\ wins[j] = 0 /\ IsTerminal(View(Conn(t)).row[j].status)
        /\ \A u \in Tasks : Settler(u, j) => u = t
    BY <1>1, <2>1 DEF WinsOK
  <2>3. db' = db /\ wins' = [wins EXCEPT ![j] = 1] /\ IsTerminal(db.row[j].status)
    BY <1>1, <1>4, <2>2, ViewIsDb DEF CasResult, tables, Base
  <2> SUFFICES ASSUME NEW i \in Ids
               PROVE  /\ \A u \in Tasks : Settler(u, i)' =>
                           /\ IsTerminal(View(Conn(u))'.row[i].status)
                           /\ wins'[i] = 0
                           /\ \A v \in Tasks : Settler(v, i)' => v = u
                      /\ wins'[i] <= 1
                      /\ wins'[i] = 1 => IsTerminal(db'.row[i].status)
    BY DEF WinsOK, Conn
  <2>4. CASE i = j
    BY <1>1, <1>2, <2>2, <2>3, <2>4
  <2>5. CASE i # j
    <3>1. wins'[i] = wins[i]
      BY <1>1, <2>3, <2>5
    <3>2. ASSUME NEW u \in Tasks, Settler(u, i)'
          PROVE  /\ IsTerminal(View(Conn(u))'.row[i].status)
                 /\ wins[i] = 0
                 /\ \A v \in Tasks : Settler(v, i)' => v = u
      BY <1>2, <3>2, SettlerKept DEF WinsOK
    <3> QED
      BY <2>3, <3>1, <3>2 DEF WinsOK
  <2> QED
    BY <2>4, <2>5
<1> QED
  BY <1>3, <1>4

\* Every step keeps WinsOK.
LEMMA NextWins == Base /\ WinsOK /\ [Next]_vars => WinsOK'
<1> SUFFICES ASSUME Base, WinsOK, [Next]_vars PROVE WinsOK'
  OBVIOUS
<1>1. Base' /\ StepOK /\ pc \in [Tasks -> Labels] /\ call \in [Tasks -> Calls]
  BY BaseStep DEF Base, StateOK, ProcOK
<1>2. ASSUME NEW t \in Tasks, NEW label \in Labels \ {"revoke", "commit", "result"},
             Goto(t, label), \A u \in Tasks \ {t} : call'[u] = call[u], UNCHANGED wins
      PROVE  WinsOK'
  <2>1. \A i \in Ids, u \in Tasks : Settler(u, i)' => Settler(u, i)
    BY <1>1, <1>2 DEF Settler, Goto
  <2> QED
    BY <1>1, <1>2, <2>1, WinsFrame
<1>3. ASSUME NEW t \in Tasks, NEW label, Goto(t, label), call' = call, UNCHANGED wins,
             pc[t] \in {"revoke", "commit"} \/ call[t].op \notin CasOps
      PROVE  WinsOK'
  <2>1. \A i \in Ids, u \in Tasks : Settler(u, i)' => Settler(u, i)
    BY <1>1, <1>3 DEF Settler, Goto
  <2> QED
    BY <1>1, <1>3, <2>1, WinsFrame
<1>4. ASSUME NEW t \in Tasks, Leave(t), UNCHANGED wins PROVE WinsOK'
  BY <1>1, <1>2, <1>4 DEF Leave, Labels
<1>5. CASE UNCHANGED <<pc, call, wins>>
  <2>1. \A i \in Ids, u \in Tasks : Settler(u, i)' => Settler(u, i)
    BY <1>5 DEF Settler
  <2> QED
    BY <1>1, <1>5, <2>1, WinsFrame
<1>6. ASSUME NEW t \in Tasks, Invoke(t) PROVE WinsOK'
  <2>1. ASSUME NEW args, NEW label \in {"check", "begin", "expiry", "load", "log"},
               Call(t, args, label)
        PROVE  WinsOK'
    BY <1>1, <1>2, <2>1 DEF Call, Labels, history
  <2> QED
    BY <1>6, <2>1 DEF Invoke, CallCreate, CallCas, CallTimeout, CallMarkAwaiting, CallWrite,
                      CallTakeover
<1>7. ASSUME NEW t \in Tasks, CreateStep(t) PROVE WinsOK'
  <2>1. pc[t] = "insert" => call[t].op \notin CasOps
    BY OpOf, CasOpsAre DEF Base, StateOK, OpsAt
  <2>2. CASE CreateInsert(t)
    <3>1. pc[t] = "insert" /\ call'[t].op = call[t].op /\ UNCHANGED wins
      BY <1>1, <2>2 DEF CreateInsert, Calls, history
    <3>2. /\ \A u \in Tasks \ {t} : call'[u] = call[u] /\ pc'[u] = pc[u]
      BY <1>1, <2>2 DEF CreateInsert, Goto
    <3>3. \A i \in Ids, u \in Tasks : Settler(u, i)' => Settler(u, i)
      BY <2>1, <3>1, <3>2 DEF Settler
    <3> QED
      BY <1>1, <3>1, <3>3, WinsFrame
  <2>3. CASE CreateExisting(t) \/ CreateReread(t)
    BY <1>4, <2>3 DEF CreateExisting, CreateReread, Reuse
  <2>4. CASE CreateCheck(t) \/ CreateClash(t) \/ CreateClashRollback(t)
    BY <1>2, <2>4 DEF CreateCheck, CreateClash, CreateClashRollback, Proceed, Labels, history
  <2> QED
    BY <1>7, <2>2, <2>3, <2>4 DEF CreateStep
<1>8. ASSUME NEW t \in Tasks, CasStep(t) PROVE WinsOK'
  <2>1. CASE CasUpdate(t)
    BY <1>1, <2>1, UpdateWins
  <2>2. CASE CasResult(t)
    BY <1>1, <2>2, ResultWins
  <2>3. ASSUME SecondHop(t) PROVE WinsOK'
    BY <1>1, <1>2, <2>3 DEF SecondHop, Labels, history
  <2>4. ASSUME NEW r, RaiseAlreadyTerminal(t, r) PROVE WinsOK'
    BY <1>2, <1>4, <2>4 DEF RaiseAlreadyTerminal, Labels, history
  <2>5. CASE CasEcho(t) \/ CasAlreadyTerminal(t) \/ CasLostRead(t) \/ RollbackAndRaise(t)
    BY <1>4, <2>3, <2>4, <2>5
       DEF CasEcho, CasAlreadyTerminal, CasLostRead, RollbackAndRaise, history
  <2>6. CASE BeginTransaction(t)
    BY <1>2, <2>6 DEF BeginTransaction, Labels, history
  <2>7. CASE CasSelect(t)
    BY <1>2, <2>7 DEF CasSelect, Verdict, Labels, history
  <2>8. CASE CasRevokeTokens(t)
    BY <1>3, <2>8 DEF CasRevokeTokens, Proceed, history
  <2>9. CASE CasLost(t) \/ CasLostRollback(t)
    BY <1>2, <2>9 DEF CasLost, CasLostRollback, Proceed, Labels, history
  <2>10. CASE CommitTransaction(t)
    BY <1>3, <1>4, <2>10 DEF CommitTransaction, Proceed, history
  <2> QED
    BY <1>8, <2>1, <2>2, <2>5, <2>6, <2>7, <2>8, <2>9, <2>10 DEF CasStep
<1>9. ASSUME NEW t \in Tasks, OtherStep(t) PROVE WinsOK'
  <2>1. CASE MarkAwaitingReturns(t) \/ TimeoutNotDue(t) \/ TimeoutAlreadyTerminal(t)
             \/ TakeoverCommit(t)
    BY <1>4, <2>1 DEF MarkAwaitingReturns, TimeoutNotDue, TimeoutAlreadyTerminal,
                      TakeoverCommit, history
  <2>2. CASE MarkAwaitingLoad(t)
    BY <1>1, <1>2, <2>2 DEF MarkAwaitingLoad, Labels, history
  <2>3. CASE TimeoutDue(t) \/ AllocateRefused(t) \/ TakeoverInsert(t)
    BY <1>2, <2>3 DEF TimeoutDue, AllocateRefused, TakeoverInsert, Proceed, Labels, history
  <2>4. CASE AllocateToken(t) \/ UpdateRequest(t)
    BY <1>3, <2>4, CasOpsAre DEF AllocateToken, UpdateRequest, Proceed, history
  <2> QED
    BY <1>9, <2>1, <2>2, <2>3, <2>4 DEF OtherStep
<1>10. ASSUME NEW t \in Tasks, StatementFails(t) \/ GiveUp(t) PROVE WinsOK'
  BY <1>2, <1>4, <1>10 DEF StatementFails, GiveUp, Proceed, Labels, history
<1>11. ASSUME NEW c \in Conns, Crash(c) PROVE WinsOK'
  <2>1. \A i \in Ids, u \in Tasks : Settler(u, i)' => Settler(u, i)
    BY <1>11 DEF Settler, Crash
  <2> QED
    BY <1>1, <1>11, <2>1, WinsFrame DEF Crash, history
<1>12. ASSUME NEW c \in Conns, NEW i \in Ids, Get(c, i) PROVE WinsOK'
  BY <1>5, <1>12 DEF Get, task
<1>13. CASE UNCHANGED vars
  BY <1>5, <1>13 DEF vars, task, history
<1> QED
  BY <1>6, <1>7, <1>8, <1>9, <1>10, <1>11, <1>12, <1>13 DEF Next, Step

\* At most one call is told, with idempotent=False, that it settled an
\* intervention, for any number of tasks and connections, transactions that a
\* takeover ends half way, failing statements and crashes included.
THEOREM WinnerCorrect == Spec => []SingleWinner
<1>1. Init => WinsOK
  BY DEF Init, WinsOK, Settler
<1>2. WinsOK => SingleWinner
  BY DEF WinsOK, SingleWinner
<1> QED
  BY <1>1, <1>2, BaseInit, BaseStep, NextWins, PTL DEF Spec

-----------------------------------------------------------------------------
(* active_channel.                                                         *)

ChannelOK(r) == r.status \in {"NOTIFIED", "AWAITING_HUMAN", "RESOLVED"} => r.channel # None

\* Whoever takes a row to NOTIFIED or AWAITING_HUMAN names a channel.
AsksOK(args) ==
  /\ args.op \in {"await", "await_direct"} => args.channel \in Channels
  /\ args.op \in CasOps /\ args.target \in {"NOTIFIED", "AWAITING_HUMAN"} =>
       args.op \in {"await", "await_direct"}

TablesAsk == \A i \in Ids : ChannelOK(db.row[i]) /\ ChannelOK(work.row[i])

TasksAsk == \A t \in Tasks : ChannelOK(seen[t]) /\ AsksOK(call[t])

AskedOK == TablesAsk /\ TasksAsk

\* Statements that write no row, and writes of good rows, keep the tables good.
LEMMA TablesAskKept ==
  ASSUME AskedOK, NEW c \in Conns,
         \/ UNCHANGED tables \/ Begin(c) \/ Commit(c) \/ Rollback(c)
         \/ \E image : Write(c, image) /\ \A i \in Ids : ChannelOK(image.row[i])
  PROVE  TablesAsk'
BY DEF AskedOK, TablesAsk, tables, Begin, Commit, Rollback, Write

\* A read through a connection returns a good row.
LEMMA ViewAsked ==
  ASSUME AskedOK, NEW c \in Conns
  PROVE  \A i \in Ids : ChannelOK(View(c).row[i])
BY DEF AskedOK, TablesAsk, View

\* NoRow and NoCall are good.
LEMMA NothingAsked == ChannelOK(NoRow) /\ AsksOK(NoCall)
BY CasOpsAre DEF ChannelOK, NoRow, Absent, AsksOK, NoCall

\* A task whose call and row are kept, dropped or replaced by good ones.
LEMMA TasksAskKept ==
  ASSUME StateOK, AskedOK, NEW t \in Tasks, NEW args, NEW r, AsksOK(args), ChannelOK(r),
         call' = [call EXCEPT ![t] = args], seen' = [seen EXCEPT ![t] = r]
  PROVE  TasksAsk'
BY DEF StateOK, ProcOK, AskedOK, TasksAsk

\* Leaving a call, going on with it, and the second hop of mark_awaiting.
LEMMA MovesAsk ==
  ASSUME StateOK, AskedOK, NEW t \in Tasks
  PROVE  /\ Leave(t) => TasksAsk'
         /\ \A label : Proceed(t, label) => TasksAsk'
         /\ UNCHANGED <<call, seen>> => TasksAsk'
         /\ SecondHop(t) /\ IsFirstHop(call[t]) => TasksAsk'
<1>1. Leave(t) => TasksAsk'
  BY NothingAsked, TasksAskKept DEF Leave
<1>2. UNCHANGED <<call, seen>> => TasksAsk'
  BY DEF AskedOK, TasksAsk
<1>3. \A label : Proceed(t, label) => TasksAsk'
  BY <1>2 DEF Proceed
<1>4. ASSUME SecondHop(t), IsFirstHop(call[t]) PROVE TasksAsk'
  <2>1. call[t] \in Calls /\ AsksOK(call[t]) /\ call[t].op = "await" /\ call[t] = call[t]
    BY <1>4 DEF StateOK, ProcOK, AskedOK, TasksAsk, IsFirstHop
  <2>2. AsksOK([call[t] EXCEPT !.target = "AWAITING_HUMAN"])
    BY <2>1 DEF AsksOK, Calls
  <2>3. call' = [call EXCEPT ![t] = [call[t] EXCEPT !.target = "AWAITING_HUMAN"]]
    BY <1>4 DEF SecondHop, StateOK, ProcOK
  <2> QED
    BY <1>4, <2>2, <2>3, NothingAsked, TasksAskKept DEF SecondHop
<1> QED
  BY <1>1, <1>2, <1>3, <1>4

\* The API passes a channel to mark_awaiting.
LEMMA InvokeAsked ==
  ASSUME StateOK, AskedOK, NEW t \in Tasks, Invoke(t)
  PROVE  AskedOK'
<1>1. ASSUME NEW args, NEW label, AsksOK(args), Call(t, args, label) PROVE AskedOK'
  <2>1. TasksAsk'
    BY <1>1 DEF Call, StateOK, ProcOK, AskedOK, TasksAsk
  <2>2. TablesAsk'
    BY <1>1, NoneIsNone, TablesAskKept DEF Call
  <2> QED
    BY <2>1, <2>2 DEF AskedOK
<1>2. CASE CallCreate(t) \/ CallTimeout(t) \/ CallWrite(t) \/ CallTakeover(t)
  <2>1. \A q, i, s :
          /\ AsksOK([NoCall EXCEPT !.op = "create", !.client = q])
          /\ AsksOK([NoCall EXCEPT !.op = "timeout", !.id = i, !.target = "TIMEOUT"])
          /\ AsksOK([NoCall EXCEPT !.op = "allocate", !.id = i])
          /\ AsksOK([NoCall EXCEPT !.op = "update_request", !.id = i])
          /\ AsksOK([NoCall EXCEPT !.op = "takeover", !.signal = s])
    BY CasOpsAre DEF AsksOK, NoCall
  <2> QED
    BY <1>1, <1>2, <2>1 DEF CallCreate, CallTimeout, CallWrite, CallTakeover
<1>3. CASE CallCas(t)
  <2>1. PICK op \in {"decide", "cancel", "fail"}, i \in Ids, o \in Choices \cup {None} :
          Call(t, [NoCall EXCEPT !.op = op, !.id = i, !.option = o, !.target = CasTarget[op]],
               "begin")
    BY <1>3 DEF CallCas
  <2>2. AsksOK([NoCall EXCEPT !.op = op, !.id = i, !.option = o, !.target = CasTarget[op]])
    BY CasTargets DEF AsksOK, NoCall
  <2> QED
    BY <1>1, <2>1, <2>2
<1>4. CASE CallMarkAwaiting(t)
  <2>1. PICK op \in {"await", "await_direct"}, i \in Ids, ch \in Channels :
          Call(t, [NoCall EXCEPT !.op = op, !.id = i, !.channel = ch,
                                 !.target = CasTarget[op]], "load")
    BY <1>4 DEF CallMarkAwaiting
  <2>2. AsksOK([NoCall EXCEPT !.op = op, !.id = i, !.channel = ch, !.target = CasTarget[op]])
    BY DEF AsksOK, NoCall
  <2> QED
    BY <1>1, <2>1, <2>2
<1> QED
  BY <1>2, <1>3, <1>4 DEF Invoke

\* create() inserts a row that nobody was asked about.
LEMMA CreateStepAsked ==
  ASSUME StateOK, AskedOK, NEW t \in Tasks, CreateStep(t)
  PROVE  AskedOK'
<1>1. Conn(t) \in Conns
  BY NoneIsNone
<1>2. CASE CreateInsert(t)
  <2> DEFINE image == View(Conn(t))
  <2>1. PICK i \in Ids :
          /\ Write(Conn(t), [image EXCEPT !.row[i] = NewRow(call[t].client)])
          /\ call' = [call EXCEPT ![t].id = i]
    BY <1>2 DEF CreateInsert
  <2>2. image \in Databases
    BY <1>1, ViewType DEF StateOK
  <2>3. \A j \in Ids :
          ChannelOK([image EXCEPT !.row[i] = NewRow(call[t].client)].row[j])
    BY <1>1, <2>2, ViewAsked DEF Databases, NewRow, NoRow, ChannelOK
  <2>4. TablesAsk'
    BY <1>1, <2>1, <2>3, TablesAskKept
  <2>5. /\ call[t] \in Calls /\ AsksOK(call[t])
        /\ call'[t] = [call[t] EXCEPT !.id = i]
        /\ \A u \in Tasks \ {t} : call'[u] = call[u]
        /\ seen' = seen
    BY <1>2, <2>1 DEF CreateInsert, StateOK, ProcOK, AskedOK, TasksAsk
  <2>6. AsksOK(call'[t])
    BY <2>5 DEF AsksOK, Calls
  <2> QED
    BY <2>4, <2>5, <2>6 DEF AskedOK, TasksAsk
<1>3. CASE CreateExisting(t) \/ CreateReread(t)
  BY <1>1, <1>3, TablesAskKept, MovesAsk DEF CreateExisting, CreateReread, Reuse, AskedOK
<1>4. CASE CreateCheck(t) \/ CreateClash(t)
  BY <1>1, <1>4, TablesAskKept, MovesAsk DEF CreateCheck, CreateClash, AskedOK
<1>5. CASE CreateClashRollback(t)
  BY <1>1, <1>5, TablesAskKept, MovesAsk DEF CreateClashRollback, AskedOK
<1> QED
  BY <1>2, <1>3, <1>4, <1>5 DEF CreateStep

\* The UPDATE keeps the column, or sets it where the row comes to be asked.
LEMMA UpdateAsked ==
  ASSUME StateOK, LockOK, RowsInv, AskedOK, NEW t \in Tasks, CasUpdate(t)
  PROVE  AskedOK'
<1> DEFINE image == View(Conn(t))
           j == call[t].id
           r == Updated(image.row[j], seen[t], call[t].target, call[t].option,
                        call[t].channel)
<1>1. /\ Conn(t) \in Conns /\ image \in Databases
      /\ call[t].op \in CasOps /\ j \in Ids /\ pc[t] = "update"
      /\ ChannelOK(seen[t]) /\ AsksOK(call[t]) /\ SeenOK(t)
  BY NoneIsNone, ViewType, OpOf
     DEF StateOK, RowsInv, CasUpdate, OpsAt, ArgsOK, AskedOK, TasksAsk
<1>2. MayUpdate(seen[t], call[t].target, call[t].option)
  BY <1>1 DEF SeenOK
<1>3. None \notin Channels
  BY StoreAssumption
<1>4. ChannelOK(r)
  <2>1. CASE call[t].target = "RESOLVED"
    <3>1. seen[t].status \in {"NOTIFIED", "AWAITING_HUMAN"}
      BY <1>2, <2>1 DEF MayUpdate, CanTransition, Allowed
    <3> QED
      BY <1>1, <2>1, <3>1 DEF Updated, ChannelOK
  <2>2. CASE call[t].target \in {"NOTIFIED", "AWAITING_HUMAN"}
    BY <1>1, <1>3, <2>2 DEF AsksOK, Updated, ChannelOK
  <2>3. CASE call[t].target \notin {"NOTIFIED", "AWAITING_HUMAN", "RESOLVED"}
    BY <2>3 DEF Updated, ChannelOK
  <2> QED
    BY <2>1, <2>2, <2>3
<1>5. Write(Conn(t), [image EXCEPT !.row[j] = r])
  BY DEF CasUpdate
<1> HIDE DEF r
<1>6. \A i \in Ids : ChannelOK([image EXCEPT !.row[j] = r].row[i])
  BY <1>1, <1>4, ViewAsked DEF Databases
<1>7. TablesAsk'
  BY <1>1, <1>5, <1>6, TablesAskKept
<1>8. TasksAsk'
  BY MovesAsk DEF CasUpdate
<1> QED
  BY <1>7, <1>8 DEF AskedOK

\* The other statements of _cas_update_unlocked write no row.
LEMMA CasStepAsked ==
  ASSUME StateOK, LockOK, RowsInv, AskedOK, NEW t \in Tasks, CasStep(t)
  PROVE  AskedOK'
<1>1. Conn(t) \in Conns
  BY NoneIsNone
<1>2. \A r : RaiseAlreadyTerminal(t, r) => TasksAsk'
  BY MovesAsk DEF RaiseAlreadyTerminal
<1>3. CASE BeginTransaction(t)
  BY <1>1, <1>3, TablesAskKept, MovesAsk DEF BeginTransaction, AskedOK
<1>4. CASE CasSelect(t)
  <2>1. call[t].id \in Ids
    BY <1>4, OpOf DEF CasSelect, StateOK, OpsAt, ArgsOK
  <2>2. ChannelOK(View(Conn(t)).row[call[t].id])
    BY <1>1, <2>1, ViewAsked
  <2>3. TasksAsk'
    BY <1>4, <2>2 DEF CasSelect, StateOK, ProcOK, AskedOK, TasksAsk
  <2> QED
    BY <1>1, <1>4, <2>3, TablesAskKept DEF CasSelect, AskedOK
<1>5. CASE CasEcho(t)
  BY <1>1, <1>5, TablesAskKept, MovesAsk DEF CasEcho, AskedOK
<1>6. CASE CasAlreadyTerminal(t)
  BY <1>1, <1>2, <1>6, TablesAskKept DEF CasAlreadyTerminal, AskedOK
<1>7. CASE RollbackAndRaise(t)
  BY <1>1, <1>7, TablesAskKept, MovesAsk DEF RollbackAndRaise, AskedOK
<1>8. CASE CasUpdate(t)
  BY <1>8, UpdateAsked
<1>9. CASE CasLost(t)
  BY <1>1, <1>9, TablesAskKept, MovesAsk DEF CasLost, AskedOK
<1>10. CASE CasLostRollback(t)
  BY <1>1, <1>10, TablesAskKept, MovesAsk DEF CasLostRollback, AskedOK
<1>11. CASE CasLostRead(t)
  BY <1>1, <1>2, <1>11, TablesAskKept, MovesAsk DEF CasLostRead, AskedOK
<1>12. CASE CasRevokeTokens(t)
  <2> DEFINE image == View(Conn(t))
             new == [image EXCEPT !.token = Revoked(image, call[t].id)]
  <2>1. image \in Databases
    BY <1>1, ViewType DEF StateOK
  <2>2. new.row = image.row
    BY <2>1 DEF Databases
  <2>3. Write(Conn(t), new)
    BY <1>12 DEF CasRevokeTokens
  <2> HIDE DEF new
  <2>4. \A i \in Ids : ChannelOK(new.row[i])
    BY <1>1, <2>2, ViewAsked
  <2>5. TasksAsk'
    BY <1>12, MovesAsk DEF CasRevokeTokens
  <2> QED
    BY <1>1, <2>3, <2>4, <2>5, TablesAskKept DEF AskedOK
<1>13. CASE CommitTransaction(t)
  BY <1>1, <1>13, TablesAskKept, MovesAsk DEF CommitTransaction, AskedOK
<1>14. CASE CasResult(t)
  BY <1>1, <1>14, TablesAskKept, MovesAsk DEF CasResult, AskedOK
<1> QED
  BY <1>3, <1>4, <1>5, <1>6, <1>7, <1>8, <1>9, <1>10, <1>11, <1>12, <1>13, <1>14 DEF CasStep

\* mark_awaiting aims at NOTIFIED or AWAITING_HUMAN with the channel it was given;
\* the other operations write no row.
LEMMA OtherStepAsked ==
  ASSUME StateOK, AskedOK, NEW t \in Tasks, OtherStep(t)
  PROVE  AskedOK'
<1> DEFINE image == View(Conn(t))
<1>1. Conn(t) \in Conns /\ image \in Databases
  BY NoneIsNone, ViewType DEF StateOK
<1>2. ASSUME NEW new, Write(Conn(t), new), new.row = image.row PROVE TablesAsk'
  BY <1>1, <1>2, ViewAsked, TablesAskKept
<1>3. CASE MarkAwaitingReturns(t) \/ TimeoutNotDue(t) \/ TimeoutAlreadyTerminal(t)
  BY <1>1, <1>3, TablesAskKept, MovesAsk
     DEF MarkAwaitingReturns, TimeoutNotDue, TimeoutAlreadyTerminal, AskedOK
<1>4. CASE MarkAwaitingLoad(t)
  <2>1. /\ call[t] \in Calls /\ AsksOK(call[t]) /\ call[t].op \in {"await", "await_direct"}
    BY <1>4, OpOf DEF MarkAwaitingLoad, StateOK, OpsAt, AskedOK, TasksAsk
  <2>2. AsksOK(call'[t]) /\ \A u \in Tasks \ {t} : call'[u] = call[u]
    BY <1>4, <2>1 DEF MarkAwaitingLoad, StateOK, ProcOK, AsksOK, Calls
  <2>3. TasksAsk'
    BY <1>4, <2>2 DEF MarkAwaitingLoad, AskedOK, TasksAsk
  <2> QED
    BY <1>1, <1>4, <2>3, TablesAskKept DEF MarkAwaitingLoad, AskedOK
<1>5. CASE TimeoutDue(t) \/ AllocateRefused(t)
  BY <1>1, <1>5, TablesAskKept, MovesAsk DEF TimeoutDue, AllocateRefused, AskedOK
<1>6. CASE AllocateToken(t)
  <2>1. PICK k \in Tokens :
          Write(Conn(t), [image EXCEPT !.token[k] = [id |-> call[t].id, revoked |-> FALSE]])
    BY <1>6 DEF AllocateToken
  <2>2. [image EXCEPT !.token[k] = [id |-> call[t].id, revoked |-> FALSE]].row = image.row
    BY <1>1 DEF Databases
  <2> QED
    BY <1>2, <1>6, <2>1, <2>2, MovesAsk DEF AllocateToken, AskedOK
<1>7. CASE UpdateRequest(t)
  BY <1>2, <1>7, MovesAsk DEF UpdateRequest, AskedOK
<1>8. CASE TakeoverInsert(t)
  <2>1. [image EXCEPT !.event = @ \cup {call[t].signal}].row = image.row
    BY <1>1 DEF Databases
  <2> QED
    BY <1>2, <1>8, <2>1, MovesAsk DEF TakeoverInsert, AskedOK
<1>9. CASE TakeoverCommit(t)
  BY <1>1, <1>9, TablesAskKept, MovesAsk DEF TakeoverCommit, AskedOK
<1> QED
  BY <1>3, <1>4, <1>5, <1>6, <1>7, <1>8, <1>9 DEF OtherStep

\* Every step keeps AskedOK.
LEMMA NextAsked == Base /\ AskedOK /\ [Next]_vars => AskedOK'
<1> SUFFICES ASSUME Base, AskedOK, [Next]_vars PROVE AskedOK'
  OBVIOUS
<1> USE DEF Base
<1>1. CASE UNCHANGED <<tables, call, seen>>
  BY <1>1 DEF tables, AskedOK, TablesAsk, TasksAsk
<1>2. ASSUME NEW t \in Tasks, Invoke(t) \/ Step(t) PROVE AskedOK'
  BY <1>2, InvokeAsked, CreateStepAsked, CasStepAsked, OtherStepAsked DEF Step
<1>3. ASSUME NEW t \in Tasks, StatementFails(t) \/ GiveUp(t) PROVE AskedOK'
  BY <1>3, NoneIsNone, TablesAskKept, MovesAsk DEF StatementFails, GiveUp, AskedOK
<1>4. ASSUME NEW c \in Conns, Crash(c) PROVE AskedOK'
  <2>1. TablesAsk'
    BY <1>4, TablesAskKept DEF Crash
  <2>2. TasksAsk'
    BY <1>4, NothingAsked DEF Crash, AskedOK, TasksAsk
  <2> QED
    BY <2>1, <2>2 DEF AskedOK
<1>5. ASSUME NEW c \in Conns, NEW i \in Ids, Get(c, i) PROVE AskedOK'
  BY <1>1, <1>5 DEF Get, task
<1>6. CASE UNCHANGED vars
  BY <1>1, <1>6 DEF vars, task
<1> QED
  BY <1>2, <1>3, <1>4, <1>5, <1>6 DEF Next

\* Every committed row that waits for a human or has an answer names the channel
\* it was asked through, so _revoke_remote does not return early for it.
THEOREM ChannelCorrect == Spec => []AskedSomewhere
<1>1. Init => AskedOK
  BY NothingAsked DEF Init, EmptyDb, AskedOK, TablesAsk, TasksAsk
<1>2. AskedOK => AskedSomewhere
  BY DEF AskedOK, TablesAsk, ChannelOK, AskedSomewhere
<1> QED
  BY <1>1, <1>2, BaseInit, BaseStep, NextAsked, PTL DEF Spec

-----------------------------------------------------------------------------
(* Exclusive transactions.                                                 *)

\* No takeover is being written, and a task inside its transaction has it open.
AloneOK ==
  /\ \A t \in Tasks : pc[t] \notin {"log", "log_commit"}
  /\ ExclusiveTransaction

ExclusiveOK == "takeover" \notin Ops => AloneOK

\* What a step of task t may do: move the tables inside its own transaction, or
\* open one; end it only by leaving the labels of a transaction.
OwnStep(t) ==
  /\ \A u \in Tasks \ {t} : pc'[u] = pc[u]
  /\ pc'[t] \notin {"log", "log_commit"}
  /\ \/ UNCHANGED tables /\ (pc'[t] \in TransactionLabels => InTransaction(t))
     \/ Begin(Conn(t)) /\ ~InTransaction(t)
     \/ /\ InTransaction(t)
        /\ \/ \E image : Write(Conn(t), image)
           \/ (Commit(Conn(t)) \/ Rollback(Conn(t))) /\ pc'[t] \notin TransactionLabels

\* So nobody else's transaction is touched.
LEMMA OthersAlone ==
  ASSUME StateOK, LockOK, AloneOK, NEW t \in Tasks, OwnStep(t),
         NEW u \in Tasks, u # t, InTransaction(u)
  PROVE  UNCHANGED tables
<1>1. tx = Conn(u) /\ Conn(u) \in Conns /\ Conn(t) \in Conns /\ None \notin Conns
  BY NoneIsNone DEF AloneOK, ExclusiveTransaction
<1>2. lock[Conn(u)] = u
  BY DEF LockOK, HoldLabels, InTransaction
<1>3. InTransaction(t) => tx = Conn(t) /\ lock[Conn(t)] = t
  BY DEF LockOK, HoldLabels, InTransaction, AloneOK, ExclusiveTransaction
<1>4. ~InTransaction(t)
  BY <1>1, <1>2, <1>3
<1>5. ~Begin(Conn(t))
  BY <1>1 DEF Begin
<1> QED
  BY <1>4, <1>5 DEF OwnStep

\* Such a step keeps transactions exclusive.
LEMMA OwnStepAlone ==
  ASSUME StateOK, LockOK, AloneOK, NEW t \in Tasks, OwnStep(t)
  PROVE  AloneOK'
<1>1. \A u \in Tasks : pc'[u] \notin {"log", "log_commit"}
  BY DEF OwnStep, AloneOK
<1>2. ASSUME NEW u \in Tasks, u # t, pc'[u] \in TransactionLabels PROVE tx' = Conn(u)
  <2>1. InTransaction(u)
    BY <1>2 DEF OwnStep, InTransaction
  <2>2. tx' = tx
    BY <1>2, <2>1, OthersAlone DEF tables
  <2> QED
    BY <2>1, <2>2 DEF AloneOK, ExclusiveTransaction
<1>3. ASSUME pc'[t] \in TransactionLabels PROVE tx' = Conn(t)
  <2>1. CASE UNCHANGED tables /\ InTransaction(t)
    BY <2>1 DEF tables, AloneOK, ExclusiveTransaction
  <2>2. CASE Begin(Conn(t))
    BY <2>2 DEF Begin
  <2>3. CASE InTransaction(t) /\ \E image : Write(Conn(t), image)
    BY <2>3 DEF Write, AloneOK, ExclusiveTransaction
  <2> QED
    BY <1>3, <2>1, <2>2, <2>3 DEF OwnStep
<1> QED
  BY <1>1, <1>2, <1>3 DEF AloneOK, ExclusiveTransaction, InTransaction, Conn

\* Without takeovers every step of a task is one.
LEMMA StepIsOwn ==
  ASSUME StateOK, AloneOK, "takeover" \notin Ops, NEW t \in Tasks,
         Invoke(t) \/ Step(t) \/ StatementFails(t) \/ GiveUp(t)
  PROVE  OwnStep(t)
<1> USE DEF InTransaction, TransactionLabels
<1>1. pc \in [Tasks -> Labels] /\ pc[t] \notin {"log", "log_commit"}
  BY DEF StateOK, ProcOK, AloneOK
<1>2. CASE Invoke(t)
  <2>1. ASSUME NEW args, NEW label \in {"check", "begin", "expiry", "load"},
               Call(t, args, label)
        PROVE  OwnStep(t)
    BY <1>1, <2>1 DEF Call, Goto, OwnStep
  <2>2. ~CallTakeover(t)
    BY DEF CallTakeover, Call, NoCall
  <2> QED
    BY <1>2, <2>1, <2>2 DEF Invoke, CallCreate, CallCas, CallTimeout, CallMarkAwaiting,
                            CallWrite
<1>3. CASE CreateStep(t)
  <2>1. CASE CreateCheck(t)
    BY <1>1, <2>1 DEF CreateCheck, Goto, OwnStep
  <2>2. CASE CreateExisting(t) \/ CreateReread(t)
    BY <1>1, <2>2 DEF CreateExisting, CreateReread, Reuse, Leave, Goto, OwnStep
  <2>3. CASE CreateInsert(t)
    BY <1>1, <2>3 DEF CreateInsert, Goto, OwnStep
  <2>4. CASE CreateClash(t)
    BY <1>1, <2>4 DEF CreateClash, Proceed, Goto, OwnStep
  <2>5. CASE CreateClashRollback(t)
    BY <1>1, <2>5 DEF CreateClashRollback, Proceed, Goto, OwnStep
  <2> QED
    BY <1>3, <2>1, <2>2, <2>3, <2>4, <2>5 DEF CreateStep
<1>4. CASE CasStep(t)
  <2>1. CASE BeginTransaction(t)
    BY <1>1, <2>1 DEF BeginTransaction, Goto, OwnStep
  <2>2. CASE CasSelect(t)
    BY <1>1, <2>2 DEF CasSelect, Goto, Verdict, OwnStep
  <2>3. CASE CasEcho(t)
    BY <1>1, <2>3 DEF CasEcho, SecondHop, Leave, Goto, OwnStep
  <2>4. CASE CasAlreadyTerminal(t)
    BY <1>1, <2>4 DEF CasAlreadyTerminal, RaiseAlreadyTerminal, Leave, Goto, OwnStep
  <2>5. CASE RollbackAndRaise(t)
    BY <1>1, <2>5 DEF RollbackAndRaise, Leave, Goto, OwnStep
  <2>6. CASE CasUpdate(t)
    BY <1>1, <2>6 DEF CasUpdate, Proceed, Goto, OwnStep
  <2>7. CASE CasLost(t)
    BY <1>1, <2>7 DEF CasLost, Proceed, Goto, OwnStep
  <2>8. CASE CasLostRollback(t)
    BY <1>1, <2>8 DEF CasLostRollback, Proceed, Goto, OwnStep
  <2>9. CASE CasLostRead(t)
    BY <1>1, <2>9 DEF CasLostRead, RaiseAlreadyTerminal, Leave, Goto, OwnStep
  <2>10. CASE CasRevokeTokens(t)
    BY <1>1, <2>10 DEF CasRevokeTokens, Proceed, Goto, OwnStep
  <2>11. CASE CommitTransaction(t)
    BY <1>1, <2>11 DEF CommitTransaction, Proceed, Leave, Goto, OwnStep
  <2>12. CASE CasResult(t)
    BY <1>1, <2>12 DEF CasResult, SecondHop, Leave, Goto, OwnStep
  <2> QED
    BY <1>4, <2>1, <2>2, <2>3, <2>4, <2>5, <2>6, <2>7, <2>8, <2>9, <2>10, <2>11, <2>12
       DEF CasStep
<1>5. CASE OtherStep(t)
  <2>1. CASE MarkAwaitingReturns(t) \/ TimeoutNotDue(t) \/ TimeoutAlreadyTerminal(t)
    BY <1>1, <2>1
       DEF MarkAwaitingReturns, TimeoutNotDue, TimeoutAlreadyTerminal, Leave, Goto, OwnStep
  <2>2. CASE MarkAwaitingLoad(t)
    BY <1>1, <2>2 DEF MarkAwaitingLoad, Goto, OwnStep
  <2>3. CASE TimeoutDue(t) \/ AllocateRefused(t)
    BY <1>1, <2>3 DEF TimeoutDue, AllocateRefused, Proceed, Goto, OwnStep
  <2>4. CASE AllocateToken(t)
    BY <1>1, <2>4 DEF AllocateToken, Proceed, Goto, OwnStep
  <2>5. CASE UpdateRequest(t)
    BY <1>1, <2>5 DEF UpdateRequest, Proceed, Goto, OwnStep
  <2>6. CASE TakeoverInsert(t) \/ TakeoverCommit(t)
    BY <1>1, <2>6 DEF TakeoverInsert, TakeoverCommit
  <2> QED
    BY <1>5, <2>1, <2>2, <2>3, <2>4, <2>5, <2>6 DEF OtherStep
<1>6. CASE StatementFails(t)
  BY <1>1, <1>6 DEF StatementFails, Proceed, Goto, OwnStep
<1>7. CASE GiveUp(t)
  BY <1>1, <1>7 DEF GiveUp, Leave, Goto, OwnStep
<1> QED
  BY <1>2, <1>3, <1>4, <1>5, <1>6, <1>7 DEF Step

\* Every step keeps ExclusiveOK.
LEMMA NextExclusive == Base /\ ExclusiveOK /\ [Next]_vars => ExclusiveOK'
<1> SUFFICES ASSUME Base, AloneOK, "takeover" \notin Ops, [Next]_vars PROVE AloneOK'
  BY DEF ExclusiveOK
<1>1. ASSUME NEW t \in Tasks, Invoke(t) \/ Step(t) \/ StatementFails(t) \/ GiveUp(t)
      PROVE  AloneOK'
  BY <1>1, StepIsOwn, OwnStepAlone DEF Base
<1>2. ASSUME NEW c \in Conns, Crash(c) PROVE AloneOK'
  <2>1. \A u \in Tasks : pc'[u] # "idle" => pc'[u] = pc[u] /\ Conn(u) # c
    BY <1>2 DEF Crash
  <2>2. tx # c => tx' = tx
    BY <1>2 DEF Crash, Rollback
  <2> QED
    BY <2>1, <2>2 DEF AloneOK, ExclusiveTransaction, InTransaction, TransactionLabels, Conn
<1>3. CASE UNCHANGED <<tx, pc>>
  BY <1>3 DEF AloneOK, ExclusiveTransaction, InTransaction, Conn
<1> QED
  BY <1>1, <1>2, <1>3 DEF Next, Get, vars, tables, task

\* "Compare-and-set status transition under an exclusive transaction": without
\* takeovers on the connection it is, from BEGIN IMMEDIATE to the end.
THEOREM ExclusiveCorrect ==
  ASSUME "takeover" \notin Ops PROVE Spec => []ExclusiveTransaction
<1>1. Init => ExclusiveOK
  BY DEF Init, ExclusiveOK, AloneOK, ExclusiveTransaction, InTransaction, TransactionLabels
<1>2. ExclusiveOK => ExclusiveTransaction
  BY DEF ExclusiveOK, AloneOK
<1> QED
  BY <1>1, <1>2, BaseInit, BaseStep, NextExclusive, PTL DEF Spec

-----------------------------------------------------------------------------
(* Revocation.                                                             *)

TokensRevoked(image, i) ==
  \A k \in Tokens : image.token[k].id = i => image.token[k].revoked

\* A task whose transaction settles a row is about to revoke its tokens, has
\* revoked them, or rolls back.
RevokeOK(t) ==
  InTransaction(t) =>
    \A i \in Ids : IsOpen(db.row[i].status) /\ IsTerminal(work.row[i].status) =>
      /\ pc[t] = "revoke" => call[t].id = i
      /\ pc[t] = "commit" => TokensRevoked(work, i)

TeardownOK == "takeover" \notin Ops => AloneOK /\ \A t \in Tasks : RevokeOK(t)

\* No status is open and terminal.
LEMMA OpenOrTerminal == \A status : ~(IsOpen(status) /\ IsTerminal(status))
BY DEF IsOpen, IsTerminal, OpenStatuses, TerminalStatuses

\* Inside its transaction, before its UPDATE, a task has changed no row.
LEMMA WorkIsDb ==
  ASSUME RowsInv, AloneOK, NEW t \in Tasks, InTransaction(t),
         pc[t] \notin {"revoke", "commit", "reject"}
  PROVE  work.row = db.row /\ View(Conn(t)) = work
BY DEF RowsInv, WorkOK, AloneOK, ExclusiveTransaction, View

\* A step of t keeps RevokeOK for the others.
LEMMA OthersRevoke ==
  ASSUME StateOK, LockOK, AloneOK, NEW t \in Tasks, OwnStep(t),
         NEW u \in Tasks, u # t, RevokeOK(u), call'[u] = call[u]
  PROVE  RevokeOK(u)'
<1> SUFFICES ASSUME InTransaction(u) PROVE RevokeOK(u)'
  BY DEF RevokeOK, OwnStep, InTransaction
<1>1. UNCHANGED tables /\ pc'[u] = pc[u]
  BY OthersAlone DEF OwnStep
<1> QED
  BY <1>1 DEF RevokeOK, InTransaction, tables, TokensRevoked

\* And for t, where only its UPDATE, its revocation and its INSERT matter.
LEMMA OwnRevoke ==
  ASSUME StateOK, StateOK', LockOK, RowsInv, RowsInv', AloneOK, AloneOK', NEW t \in Tasks,
         RevokeOK(t), Invoke(t) \/ Step(t) \/ StatementFails(t) \/ GiveUp(t)
  PROVE  RevokeOK(t)'
<1> USE DEF InTransaction, TransactionLabels
<1>1. /\ pc \in [Tasks -> Labels] /\ call \in [Tasks -> Calls]
      /\ Conn(t) \in Conns /\ View(Conn(t)) \in Databases
  BY NoneIsNone, ViewType DEF StateOK, ProcOK
<1>2. ASSUME pc'[t] \notin {"revoke", "commit"} PROVE RevokeOK(t)'
  BY <1>2 DEF RevokeOK
<1>3. ASSUME db'.row = db.row, work'.row = db.row PROVE RevokeOK(t)'
  BY <1>3, OpenOrTerminal DEF RevokeOK
<1>4. CASE CreateInsert(t)
  <2> DEFINE image == View(Conn(t))
  <2>1. PICK i \in Ids :
          Write(Conn(t), [image EXCEPT !.row[i] = NewRow(call[t].client)])
    BY <1>4 DEF CreateInsert
  <2> DEFINE new == [image EXCEPT !.row[i] = NewRow(call[t].client)]
  <2>2. pc[t] = "insert" /\ pc'[t] = "commit"
    BY <1>1, <1>4 DEF CreateInsert, Goto
  <2>3. image = work /\ work.row = db.row /\ tx = Conn(t)
    BY <2>2, WorkIsDb DEF AloneOK, ExclusiveTransaction
  <2>4. work' = new /\ db' = db
    BY <2>1, <2>3 DEF Write
  <2>5. \A j \in Ids : new.row[j] = db.row[j] \/ new.row[j].status = "PENDING"
    BY <1>1, <2>3 DEF Databases, NewRow, NoRow
  <2> HIDE DEF new
  <2>6. \A j \in Ids : ~(IsOpen(db'.row[j].status) /\ IsTerminal(work'.row[j].status))
    BY <2>4, <2>5, OpenOrTerminal DEF IsTerminal, TerminalStatuses
  <2> QED
    BY <2>6 DEF RevokeOK
<1>5. CASE CasUpdate(t)
  <2> DEFINE image == View(Conn(t))
             i == call[t].id
             r == Updated(image.row[i], seen[t], call[t].target, call[t].option,
                          call[t].channel)
             new == [image EXCEPT !.row[i] = r]
  <2>1. /\ pc[t] = "update" /\ Write(Conn(t), new) /\ call' = call
        /\ pc'[t] = IF IsTerminal(call[t].target) THEN "revoke" ELSE "commit"
    BY <1>1, <1>5 DEF CasUpdate, Proceed, Goto
  <2>2. image = work /\ work.row = db.row /\ tx = Conn(t)
    BY <2>1, WorkIsDb DEF AloneOK, ExclusiveTransaction
  <2>3. work' = new /\ db' = db
    BY <2>1, <2>2 DEF Write
  <2>4. r.status = call[t].target
    BY DEF Updated
  <2> HIDE DEF r
  <2>5. \A j \in Ids : new.row[j] = db.row[j] \/ (j = i /\ new.row[j] = r)
    BY <1>1, <2>2 DEF Databases
  <2> HIDE DEF new
  <2>6. ASSUME NEW j \in Ids, IsOpen(db'.row[j].status), IsTerminal(work'.row[j].status)
        PROVE  j = i /\ IsTerminal(call[t].target)
    BY <2>3, <2>4, <2>5, <2>6, OpenOrTerminal
  <2> QED
    BY <2>1, <2>6 DEF RevokeOK
<1>6. CASE CasRevokeTokens(t)
  <2> DEFINE image == View(Conn(t))
             i == call[t].id
             new == [image EXCEPT !.token = Revoked(image, i)]
  <2>1. pc[t] = "revoke" /\ Write(Conn(t), new) /\ pc'[t] = "commit"
    BY <1>1, <1>6 DEF CasRevokeTokens, Proceed, Goto
  <2>2. tx = Conn(t) /\ image = work
    BY <2>1 DEF AloneOK, ExclusiveTransaction, View
  <2>3. work' = new /\ db' = db
    BY <2>1, <2>2 DEF Write
  <2>4. new.row = work.row /\ new.token = Revoked(work, i)
    BY <1>1, <2>2 DEF Databases
  <2>5. TokensRevoked(new, i)
    BY <1>1, <2>2, <2>4 DEF TokensRevoked, Revoked, Databases
  <2> HIDE DEF new
  <2> QED
    BY <2>1, <2>3, <2>4, <2>5 DEF RevokeOK, TokensRevoked
<1>7. CASE AllocateToken(t) \/ UpdateRequest(t)
  <2>1. pc[t] = "write"
    BY <1>7 DEF AllocateToken, UpdateRequest
  <2>2. tx = Conn(t) /\ work.row = db.row /\ View(Conn(t)) = work
    BY <2>1, WorkIsDb DEF AloneOK, ExclusiveTransaction
  <2>3. PICK image : Write(Conn(t), image) /\ image.row = View(Conn(t)).row
    <3> DEFINE old == View(Conn(t))
    <3>1. CASE AllocateToken(t)
      <4>1. PICK k \in Tokens :
              Write(Conn(t), [old EXCEPT !.token[k] = [id |-> call[t].id, revoked |-> FALSE]])
        BY <3>1 DEF AllocateToken
      <4> DEFINE new == [old EXCEPT !.token[k] = [id |-> call[t].id, revoked |-> FALSE]]
      <4>2. new.row = old.row
        BY <1>1 DEF Databases
      <4> QED
        BY <4>1, <4>2
    <3>2. CASE UpdateRequest(t)
      BY <3>2 DEF UpdateRequest
    <3> QED
      BY <1>7, <3>1, <3>2
  <2>4. db' = db /\ work'.row = db.row
    BY <2>2, <2>3 DEF Write
  <2> QED
    BY <1>3, <2>4
<1>8. CASE Invoke(t) \/ StatementFails(t) \/ GiveUp(t)
  <2>1. pc'[t] \notin {"revoke", "commit"}
    BY <1>1, <1>8 DEF Invoke, CallCreate, CallCas, CallTimeout, CallMarkAwaiting, CallWrite,
       CallTakeover, Call, StatementFails, GiveUp, Proceed, Leave, Goto
  <2> QED
    BY <1>2, <2>1
<1>9. CASE CreateStep(t) /\ ~CreateInsert(t)
  <2>1. pc'[t] \notin {"revoke", "commit"}
    BY <1>1, <1>9 DEF CreateStep, CreateCheck, CreateExisting, CreateClash,
       CreateClashRollback, CreateReread, Reuse, Proceed, Leave, Goto
  <2> QED
    BY <1>2, <2>1
<1>10. CASE CasStep(t) /\ ~CasUpdate(t) /\ ~CasRevokeTokens(t)
  <2>1. CASE BeginTransaction(t) \/ CasSelect(t) \/ CasEcho(t) \/ CasAlreadyTerminal(t)
    <3>1. pc'[t] \notin {"revoke", "commit"}
      BY <1>1, <2>1 DEF BeginTransaction, CasSelect, Verdict, CasEcho, CasAlreadyTerminal,
         RaiseAlreadyTerminal, SecondHop, Leave, Goto
    <3> QED
      BY <1>2, <3>1
  <2>2. CASE \/ RollbackAndRaise(t) \/ CasLost(t) \/ CasLostRollback(t) \/ CasLostRead(t)
             \/ CommitTransaction(t) \/ CasResult(t)
    <3>1. pc'[t] \notin {"revoke", "commit"}
      BY <1>1, <2>2 DEF RollbackAndRaise, CasLost, CasLostRollback, CasLostRead,
         RaiseAlreadyTerminal, CommitTransaction, CasResult, SecondHop, Proceed, Leave, Goto
    <3> QED
      BY <1>2, <3>1
  <2> QED
    BY <1>10, <2>1, <2>2 DEF CasStep
<1>11. CASE OtherStep(t) /\ ~AllocateToken(t) /\ ~UpdateRequest(t)
  <2>1. pc'[t] \notin {"revoke", "commit"}
    BY <1>1, <1>11 DEF OtherStep, MarkAwaitingReturns, MarkAwaitingLoad, TimeoutDue,
       TimeoutNotDue, TimeoutAlreadyTerminal, AllocateRefused, TakeoverInsert, TakeoverCommit,
       Proceed, Leave, Goto
  <2> QED
    BY <1>2, <2>1
<1> QED
  BY <1>4, <1>5, <1>6, <1>7, <1>8, <1>9, <1>10, <1>11 DEF Step

\* A step that settles a row for the world is a COMMIT after the revocation.
Settles(i) == IsOpen(db.row[i].status) /\ IsTerminal(db'.row[i].status)

\* The step that commits a terminal status commits every revocation with it.
LEMMA SettlesRevoked ==
  ASSUME StateOK, RowsInv, AloneOK, NEW t \in Tasks, RevokeOK(t), "takeover" \notin Ops,
         Invoke(t) \/ Step(t) \/ StatementFails(t) \/ GiveUp(t),
         NEW i \in Ids, Settles(i)
  PROVE  TokensRevoked(db', i)
<1> USE DEF InTransaction, TransactionLabels
<1>1. OwnStep(t)
  BY StepIsOwn
<1>2. db' # db
  BY OpenOrTerminal DEF Settles
<1>3. InTransaction(t) /\ tx = Conn(t)
  BY <1>1, <1>2 DEF OwnStep, tables, Begin, AloneOK, ExclusiveTransaction
<1>4. Commit(Conn(t)) /\ pc'[t] \notin TransactionLabels /\ db' = work
  BY <1>1, <1>2, <1>3 DEF OwnStep, tables, Begin, Write, Commit, Rollback
<1>5. work.row # db.row
  BY <1>4, OpenOrTerminal DEF Settles
<1>6. pc[t] \in {"revoke", "commit", "reject"}
  BY <1>3, <1>5, WorkIsDb
<1>7. pc[t] = "commit"
  <2>1. pc \in [Tasks -> Labels]
    BY DEF StateOK, ProcOK
  <2>2. CASE pc[t] = "revoke"
    <3>1. CasRevokeTokens(t) \/ StatementFails(t)
      BY <2>2 DEF Invoke, CallCreate, CallCas, CallTimeout, CallMarkAwaiting, CallWrite,
         CallTakeover, Call, Step, CreateStep, CreateCheck, CreateExisting, CreateInsert,
         CreateClash, CreateClashRollback, CreateReread, CasStep, BeginTransaction, CasSelect,
         CasEcho, CasAlreadyTerminal, RollbackAndRaise, CasUpdate, CasLost, CasLostRollback,
         CasLostRead, CommitTransaction, CasResult, OtherStep, MarkAwaitingReturns,
         MarkAwaitingLoad, TimeoutDue, TimeoutNotDue, TimeoutAlreadyTerminal, AllocateToken,
         AllocateRefused, UpdateRequest, TakeoverInsert, TakeoverCommit, GiveUp
    <3>2. pc'[t] \in {"commit", "reject"}
      BY <2>1, <3>1 DEF CasRevokeTokens, StatementFails, Proceed, Goto
    <3> QED
      BY <1>4, <3>2
  <2>3. CASE pc[t] = "reject"
    <3>1. RollbackAndRaise(t)
      BY <2>3 DEF Invoke, CallCreate, CallCas, CallTimeout, CallMarkAwaiting, CallWrite,
         CallTakeover, Call, Step, CreateStep, CreateCheck, CreateExisting, CreateInsert,
         CreateClash, CreateClashRollback, CreateReread, CasStep, BeginTransaction, CasSelect,
         CasEcho, CasAlreadyTerminal, CasRevokeTokens, CasUpdate, CasLost, CasLostRollback,
         CasLostRead, CommitTransaction, CasResult, OtherStep, MarkAwaitingReturns,
         MarkAwaitingLoad, TimeoutDue, TimeoutNotDue, TimeoutAlreadyTerminal, AllocateToken,
         AllocateRefused, UpdateRequest, TakeoverInsert, TakeoverCommit, StatementFails, GiveUp
    <3> QED
      BY <1>2, <3>1 DEF RollbackAndRaise, Rollback
  <2> QED
    BY <1>6, <2>2, <2>3
<1> QED
  BY <1>3, <1>4, <1>7 DEF RevokeOK, Settles

\* What one step of the store does about revocation.
LEMMA NextTeardown ==
  Base /\ TeardownOK /\ [Next]_vars =>
    /\ TeardownOK'
    /\ "takeover" \notin Ops => \A i \in Ids : Settles(i) => TokensRevoked(db', i)
<1> SUFFICES ASSUME Base, AloneOK, \A t \in Tasks : RevokeOK(t), "takeover" \notin Ops,
                    [Next]_vars
             PROVE  /\ AloneOK' /\ \A t \in Tasks : RevokeOK(t)'
                    /\ \A i \in Ids : Settles(i) => TokensRevoked(db', i)
  BY DEF TeardownOK
<1>1. Base' /\ AloneOK'
  BY BaseStep, NextExclusive DEF ExclusiveOK
<1> USE DEF Base
<1>2. ASSUME NEW t \in Tasks, Invoke(t) \/ Step(t) \/ StatementFails(t) \/ GiveUp(t)
      PROVE  /\ \A u \in Tasks : RevokeOK(u)'
             /\ \A i \in Ids : Settles(i) => TokensRevoked(db', i)
  <2>1. OwnStep(t)
    BY <1>2, StepIsOwn
  <2>2. RevokeOK(t)'
    BY <1>1, <1>2, OwnRevoke
  <2>3. \A u \in Tasks \ {t} : call'[u] = call[u]
    <3>1. Invoke(t) => \A u \in Tasks \ {t} : call'[u] = call[u]
      BY DEF Invoke, CallCreate, CallCas, CallTimeout, CallMarkAwaiting, CallWrite,
             CallTakeover, Call, StateOK, ProcOK
    <3>2. CreateStep(t) => \A u \in Tasks \ {t} : call'[u] = call[u]
      BY DEF CreateStep, CreateCheck, CreateExisting, CreateInsert, CreateClash,
             CreateClashRollback, CreateReread, Reuse, Leave, Proceed, StateOK, ProcOK
    <3>3. CasStep(t) => \A u \in Tasks \ {t} : call'[u] = call[u]
      BY DEF CasStep, BeginTransaction, CasSelect, CasEcho, CasAlreadyTerminal,
             RaiseAlreadyTerminal, RollbackAndRaise, CasUpdate, CasLost, CasLostRollback,
             CasLostRead, CasRevokeTokens, CommitTransaction, CasResult, SecondHop, Leave,
             Proceed, StateOK, ProcOK
    <3>4. OtherStep(t) => \A u \in Tasks \ {t} : call'[u] = call[u]
      BY DEF OtherStep, MarkAwaitingReturns, MarkAwaitingLoad, TimeoutDue, TimeoutNotDue,
             TimeoutAlreadyTerminal, AllocateToken, AllocateRefused, UpdateRequest,
             TakeoverInsert, TakeoverCommit, Leave, Proceed, StateOK, ProcOK
    <3>5. StatementFails(t) \/ GiveUp(t) => \A u \in Tasks \ {t} : call'[u] = call[u]
      BY DEF StatementFails, GiveUp, Leave, Proceed, StateOK, ProcOK
    <3> QED
      BY <1>2, <3>1, <3>2, <3>3, <3>4, <3>5 DEF Step
  <2>4. \A u \in Tasks : RevokeOK(u)'
    BY <2>1, <2>2, <2>3, OthersRevoke
  <2> QED
    BY <1>2, <2>4, SettlesRevoked
<1>3. ASSUME NEW c \in Conns, Crash(c)
      PROVE  /\ \A u \in Tasks : RevokeOK(u)'
             /\ \A i \in Ids : Settles(i) => TokensRevoked(db', i)
  <2>1. db' = db
    BY <1>3 DEF Crash, Rollback
  <2>2. ASSUME NEW u \in Tasks, pc'[u] \in TransactionLabels
        PROVE  pc'[u] = pc[u] /\ call'[u] = call[u] /\ Conn(u) # c
    BY <1>3, <2>2 DEF Crash, TransactionLabels
  <2>3. ASSUME NEW u \in Tasks, pc'[u] \in TransactionLabels PROVE work' = work
    BY <1>3, <2>2, <2>3 DEF Crash, Rollback, AloneOK, ExclusiveTransaction, InTransaction
  <2>4. \A u \in Tasks : RevokeOK(u)'
    BY <2>1, <2>2, <2>3 DEF RevokeOK, InTransaction, TokensRevoked
  <2> QED
    BY <2>1, <2>4, OpenOrTerminal DEF Settles
<1>4. ASSUME UNCHANGED <<tables, task>>
      PROVE  /\ \A u \in Tasks : RevokeOK(u)'
             /\ \A i \in Ids : Settles(i) => TokensRevoked(db', i)
  BY <1>4, OpenOrTerminal DEF tables, task, RevokeOK, InTransaction, TokensRevoked, Settles
<1> QED
  BY <1>1, <1>2, <1>3, <1>4 DEF Next, Get, vars

\* The step that commits a terminal status commits with it the revocation of every
\* callback token of the intervention, whatever other tasks and connections do and
\* wherever a statement fails, as long as no takeover shares the connection.
THEOREM RevocationCorrect ==
  ASSUME "takeover" \notin Ops PROVE Spec => SettlingRevokes
<1>1. Init => TeardownOK
  BY DEF Init, TeardownOK, AloneOK, RevokeOK, ExclusiveTransaction, InTransaction,
         TransactionLabels
<1>2. Base /\ TeardownOK /\ [Next]_vars =>
        [\A i \in Ids :
           /\ IsOpen(db.row[i].status)
           /\ IsTerminal(db'.row[i].status)
           => \A k \in Tokens : db'.token[k].id = i => db'.token[k].revoked]_vars
  BY NextTeardown DEF Settles, TokensRevoked
<1> QED
  BY <1>1, <1>2, BaseInit, BaseStep, NextTeardown, PTL DEF Spec, SettlingRevokes

=============================================================================
