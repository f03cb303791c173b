---------------------- MODULE InterventionServiceProofs ----------------------
(***************************************************************************)
(* The service, for any number of interventions, callers, tokens, crashes  *)
(* and taps, and any list of channels: what every state looks like (Base), *)
(* who has charge of an intervention (Charge), what subscribers have heard *)
(* and which cards are shown.  A first lemma says how one step moves the   *)
(* tables (Moves); the frames of everything else follow from it.           *)
(***************************************************************************)
EXTENDS InterventionService, SequenceTheorems, TLAPS

-----------------------------------------------------------------------------
(* The tables.                                                             *)

Rows == [client : Ids \cup {None}, status : Statuses \cup {Absent},
         decision : Options \cup {None}, version : 0..4, channel : Configured \cup {None}]

\* A row of intervention i: its version tells how far it has come.
RowOK(i, r) ==
  /\ r \in Rows
  /\ r.status = Absent => r = NoRow
  /\ r.status # Absent => r.client = i
  /\ r.status = "PENDING" => r.version = 1
  /\ r.status = "NOTIFIED" => r.version = 2
  /\ r.status = "AWAITING_HUMAN" => r.version = 3
  /\ r.decision # None <=> r.status = "RESOLVED"

Exists(i) == i \in Ids /\ row[i].status # Absent

Settled(i) == i \in Ids /\ IsTerminal(row[i].status)

\* A token names an intervention, and is revoked and its card taken down only
\* once that is settled; a card is sent with its token.
TokenOK(k) ==
  /\ token[k].id = None => token[k] = NoToken /\ card[k] = "none"
  /\ token[k].id # None => Exists(token[k].id)
  /\ token[k].revoked \/ card[k] = "down" => Settled(token[k].id)

TablesOK ==
  /\ row \in [Ids -> Rows] /\ \A i \in Ids : RowOK(i, row[i])
  /\ token \in [Tokens -> [id : Ids \cup {None}, revoked : BOOLEAN]]
  /\ card \in [Tokens -> {"none", "up", "down"}]
  /\ \A k \in Tokens : TokenOK(k)
  /\ expired \in [Ids -> BOOLEAN]

\* What a step does to a row: nothing, its insertion, or one legal transition
\* of an open row.
RowMoves(i) ==
  \/ row'[i] = row[i]
  \/ row[i].status = Absent /\ row'[i] = NewRow(i)
  \/ /\ IsOpen(row[i].status)
     /\ \E target \in Statuses, option \in Options \cup {None}, channel \in Configured \cup {None} :
          /\ CanTransition(row[i].status, target)
          /\ option # None <=> target = "RESOLVED"
          /\ target = "AWAITING_HUMAN" => row[i].status = "NOTIFIED"
          /\ row'[i] = Updated(row[i], row[i], target, option, channel)

TokenMoves(k) ==
  \/ token'[k] = token[k]
  \/ token[k] = NoToken /\ \E i \in Ids : Exists(i) /\ token'[k] = [id |-> i, revoked |-> FALSE]
  \/ /\ token'[k] = [token[k] EXCEPT !.revoked = TRUE]
     /\ token[k].id \in Ids /\ Settled(token[k].id)'

\* A card is sent with a token that has been allocated, and taken down for one
\* whose intervention is settled.
CardMoves(k) ==
  \/ card'[k] = card[k]
  \/ card'[k] = "up" /\ token[k].id # None
  \/ card'[k] = "down" /\ token[k].id # None /\ Settled(token[k].id)

\* At most one row moves.
Moves ==
  /\ row' = row \/ \E i \in Ids : RowMoves(i) /\ row' = [row EXCEPT ![i] = row'[i]]
  /\ token' \in [Tokens -> [id : Ids \cup {None}, revoked : BOOLEAN]]
  /\ card' \in [Tokens -> {"none", "up", "down"}]
  /\ \A k \in Tokens : TokenMoves(k) /\ CardMoves(k)
  /\ expired' \in [Ids -> BOOLEAN] /\ \A i \in Ids : expired[i] => expired'[i]

-----------------------------------------------------------------------------
(* The tasks.                                                              *)

Flows == {"none", "create", "decide", "cancel", "get", "recover"}

Calls == [pc : Labels, flow : Flows, id : Ids \cup {None}, option : Options \cup {None},
          mid : MessageIds, update : Statuses \cup {Absent}, card : Tokens \cup {None},
          late : BOOLEAN]

\* A token names the intervention of a call or a delivery that refers to it.
Names(k, i) == k \in Tokens => token[k].id = i

\* Which flows pass where.
FlowOK(c, a) ==
  /\ c.pc = "create" => c.flow = "create"
  /\ c.pc = "spawn" => c.flow \in {"create", "recover"}
  /\ c.pc \in {"expire", "expire_cas"} => c.flow \in {"decide", "get", "recover"}
  /\ c.pc = "cas" => c.flow \in {"decide", "cancel"}
  /\ c.pc \in {"lookup", "revoke", "clear"} => c.flow \in {"decide", "cancel", "get", "recover"}
  /\ c.pc = "clear" => a = "poller"
  /\ c.flow = "decide" <=> c.option # None
  /\ a \in Callers => c.flow # "recover"
  /\ a \in {"poller", "stdin"} => c.flow = "decide"
  /\ a = "boot" => c.flow = "recover"
  /\ a = "poller" => c.mid \in Tokens

\* A call knows an intervention that exists; once it has an update to announce
\* that is what the row says for good; a late decide does not get to its update
\* unless the row is settled.
CallOK(c, a) ==
  IF c.pc = "idle" THEN c = Idle
  ELSE /\ c.id \in Ids
       /\ FlowOK(c, a)
       /\ c.pc # "create" => Exists(c.id)
       /\ Names(c.mid, c.id) /\ Names(c.card, c.id)
       /\ c.pc = "revoke" => c.card \in Tokens
       /\ c.pc \in {"lookup", "revoke", "clear"} => Settled(c.id) /\ row[c.id].status = c.update
       /\ c.late => expired[c.id]
       /\ c.late /\ c.flow = "decide" /\ c.pc = "cas" => Settled(c.id)

CallsOK == act \in [Actors -> Calls] /\ \A a \in Actors : CallOK(act[a], a)

DeliveryLabels == {"idle", "next", "token", "send", "sent", "mark", "hop"}

\* The terminal is appended to the strings a request names.
ChannelNames == STRING \cup {"terminal"}

Deliveries == [pc : DeliveryLabels, todo : Seq(ChannelNames), token : Tokens \cup {None}]

\* A delivery past its choice of a channel is at one that is configured, and on
\* Telegram it has a token of its own, whose card it has sent before it marks.
DeliveryOK(d, i) ==
  IF d.pc = "idle" THEN d = NotDelivering
  ELSE /\ Exists(i)
       /\ d.pc # "next" => d.todo # <<>> /\ Head(d.todo) \in Configured
       /\ d.pc \in {"token", "sent"} => Head(d.todo) = "telegram"
       /\ d.pc \in {"send", "sent", "mark", "hop"} /\ Head(d.todo) = "telegram" =>
            d.token \in Tokens /\ token[d.token].id = i
       /\ d.pc \in {"sent", "mark", "hop"} /\ Head(d.todo) = "telegram" => card[d.token] # "none"
       /\ d.pc = "hop" => row[i].status = "NOTIFIED"

DeliveriesOK == delivery \in [Ids -> Deliveries] /\ \A i \in Ids : DeliveryOK(delivery[i], i)

MemoryOK ==
  /\ messages \in [Ids -> Tokens \cup {None}] /\ messageIds \in [Ids -> MessageIds]
  /\ \A i \in Ids : Names(messages[i], i) /\ Names(messageIds[i], i)
  /\ reader \in [Ids -> BOOLEAN] /\ \A i \in Ids : reader[i] => Exists(i)
  /\ heard \in [Ids -> Statuses \cup {Absent}]

\* Requests are served when recover_open is done, and nothing runs in between.
PhaseOK ==
  /\ phase \in {"down", "recovering", "up"} /\ crashes \in 0..MaxCrashes
  /\ toRecover \subseteq Ids /\ \A i \in toRecover : Exists(i)
  /\ phase # "up" => \A a \in Callers : act[a] = Idle
  /\ phase = "up" => toRecover = {} /\ act["boot"] = Idle
  /\ phase = "down" => /\ toRecover = {} /\ act = [a \in Actors |-> Idle]
                       /\ delivery = [i \in Ids |-> NotDelivering]
                       /\ reader = [i \in Ids |-> FALSE]

\* The poller is at a tap that has been made, until its offset has moved on.
TapsOK ==
  /\ taps \in Seq([token : Tokens, option : Options])
  /\ confirmed \in Nat /\ offset \in Nat
  /\ confirmed <= offset /\ offset <= Len(taps)
  /\ act["poller"].pc # "idle" => offset < Len(taps)

Base == TablesOK /\ CallsOK /\ DeliveriesOK /\ MemoryOK /\ PhaseOK /\ TapsOK

-----------------------------------------------------------------------------
(* Who has charge of an intervention.                                      *)

\* A call that will start a delivery of i, or may.
Spawns(a, i) == act[a].id = i /\ (act[a].pc = "spawn" \/ act[a].flow = "recover")

\* One at a time: a list entry of recover_open, a call that will deliver it, its
\* delivery.
ChargeOK ==
  \A i \in Ids :
    /\ \A a, b \in Actors : Spawns(a, i) /\ Spawns(b, i) => a = b
    /\ \A a \in Actors : Spawns(a, i) => i \notin toRecover /\ delivery[i].pc = "idle"
    /\ i \in toRecover => delivery[i].pc = "idle"

\* Until a human is asked somebody has charge of the row, unless the daemon is
\* down and recover_open has yet to list it.
Chased(i) ==
  \/ phase = "down" \/ i \in toRecover \/ delivery[i].pc # "idle"
  \/ \E a \in Actors : Spawns(a, i)

\* And once a human is asked on Telegram there is a card.
AskedOK ==
  \A i \in Ids :
    /\ row[i].status \in {"PENDING", "NOTIFIED"} => Chased(i)
    /\ row[i].status = "AWAITING_HUMAN" /\ row[i].channel = "telegram" =>
         \E k \in Tokens : token[k].id = i /\ card[k] # "none"

-----------------------------------------------------------------------------
(* What subscribers have heard.                                            *)

\* Without a crash: an outcome has been announced, or a call is about to.
OutcomeOK ==
  \A i \in Ids :
    row[i].status \in {"RESOLVED", "CANCELLED", "FAILED"} =>
      \/ heard[i] = row[i].status
      \/ \E a \in Actors : act[a].id = i /\ act[a].pc \in {"lookup", "revoke"}

-----------------------------------------------------------------------------
(* Without faults.                                                         *)

\* A delivery that has not marked yet: nobody has been asked.
Early(i) == delivery[i].pc \in {"next", "token", "send", "sent", "mark"}

AskedStatuses == {"NOTIFIED", "AWAITING_HUMAN", "RESOLVED"}

\* The one card of an intervention is shown while its delivery is at it, or is
\* remembered for its revocation.
CardOK(k) ==
  LET i == token[k].id IN
  i # None =>
    /\ "telegram" \in Configured
    /\ delivery[i].pc \notin {"next", "token"} /\ \A a \in Actors : ~Spawns(a, i)
    /\ delivery[i].pc # "idle" => Channel(i) = "telegram" /\ delivery[i].token = k
    /\ row[i].status \in AskedStatuses => row[i].channel = "telegram"
    /\ card[k] = "up" => delivery[i].pc = "sent" \/ messages[i] = k

CardsOK ==
  /\ Faults \subseteq {"snapshot"} /\ phase = "up"
  /\ \A k \in Tokens : CardOK(k)
  /\ \A j, k \in Tokens : token[j].id = token[k].id /\ token[j].id # None => j = k
  /\ \A i \in Ids :
       Early(i) \/ (\E a \in Actors : Spawns(a, i)) => row[i].status \notin AskedStatuses

\* Of an answered intervention no token is alive, and a call is about to take
\* down a card that is still shown.
TornOK ==
  \A i \in Ids :
    row[i].status = "RESOLVED" =>
      /\ Dead(i)
      /\ messages[i] # None /\ card[messages[i]] = "up" =>
           \E a \in Actors : act[a].id = i /\ act[a].pc \in {"lookup", "revoke"}

-----------------------------------------------------------------------------
(* How a step moves the tables.                                            *)

\* A status is open, terminal or none.
LEMMA StatusKinds ==
  \A s \in Statuses \cup {Absent} :
    /\ IsOpen(s) \/ IsTerminal(s) \/ s = Absent
    /\ ~(IsOpen(s) /\ IsTerminal(s)) /\ ~IsOpen(Absent) /\ ~IsTerminal(Absent)
    /\ IsOpen(s) => CanTransition(s, "TIMEOUT")
    /\ \A target : CanTransition(s, target) => IsOpen(s) /\ target \in Statuses /\ target # "PENDING"
BY DEF Statuses, OpenStatuses, TerminalStatuses, IsOpen, IsTerminal, Absent, CanTransition, Allowed

\* What the verdicts of a compare-and-set say of the row.
LEMMA VerdictIs ==
  ASSUME NEW r, NEW target, NEW option
  PROVE  /\ Verdict(r, target, option) = "update" => MayUpdate(r, target, option)
         /\ Verdict(r, target, option) = "echo" => AlreadyThere(r, target, option)
         /\ Verdict(r, target, option) = "terminal" => IsTerminal(r.status)
         /\ MayUpdate(r, target, option) => Verdict(r, target, option) = "update"
<1>1. MayUpdate(r, target, option) => ~AlreadyThere(r, target, option) /\ ~IsTerminal(r.status)
  BY DEF MayUpdate, AlreadyThere, CanTransition
<1> QED
  BY <1>1 DEF Verdict

\* The tables are left alone.
LEMMA StillMoves ==
  ASSUME TablesOK, UNCHANGED <<row, token, card, expired>>
  PROVE  Moves
BY DEF TablesOK, Moves, TokenMoves, CardMoves

\* A row is written, and its tokens are revoked if it is settled by that.
LEMMA WriteMoves ==
  ASSUME TablesOK, NEW i \in Ids, NEW target \in Statuses, NEW option \in Options \cup {None},
         NEW channel \in Configured \cup {None},
         CanTransition(row[i].status, target), option # None <=> target = "RESOLVED",
         target = "AWAITING_HUMAN" => row[i].status = "NOTIFIED",
         WriteRow(i, target, option, channel), UNCHANGED <<card, expired>>
  PROVE  Moves /\ row'[i].status = target
<1>1. row[i] \in Rows /\ row \in [Ids -> Rows] /\ row[i].status \in Statuses \cup {Absent}
  BY DEF TablesOK, Rows
<1>2. row'[i] = Updated(row[i], row[i], target, option, channel) /\ row'[i].status = target
  BY <1>1 DEF WriteRow, Updated
<1>3. RowMoves(i) /\ row' = [row EXCEPT ![i] = row'[i]]
  BY <1>1, <1>2, StatusKinds DEF WriteRow, RowMoves
<1>4. ASSUME NEW k \in Tokens
      PROVE  TokenMoves(k) /\ token'[k] \in [id : Ids \cup {None}, revoked : BOOLEAN]
  <2>1. CASE IsTerminal(target) /\ token[k].id = i
    <3>1. token'[k] = [token[k] EXCEPT !.revoked = TRUE]
      BY <2>1 DEF WriteRow, RevokeAll
    <3>2. Settled(token[k].id)'
      BY <1>2, <2>1, <3>1 DEF Settled, TablesOK
    <3>3. token[k] \in [id : Ids \cup {None}, revoked : BOOLEAN]
      BY DEF TablesOK
    <3>4. token'[k] \in [id : Ids \cup {None}, revoked : BOOLEAN]
      BY <3>1, <3>3
    <3> QED
      BY <2>1, <3>1, <3>2, <3>4 DEF TokenMoves
  <2>2. CASE ~(IsTerminal(target) /\ token[k].id = i)
    BY <2>2 DEF WriteRow, RevokeAll, TokenMoves, TablesOK
  <2> QED
    BY <2>1, <2>2
<1>5. token' = [k \in Tokens |-> token'[k]]
  BY DEF WriteRow, RevokeAll, TablesOK
<1> QED
  BY <1>2, <1>3, <1>4, <1>5 DEF Moves, CardMoves, TablesOK

\* A token is allocated.
LEMMA AllocateMoves ==
  ASSUME TablesOK, NEW i \in Ids, Exists(i), AllocateToken(i)
  PROVE  Moves
<1> PICK k \in Tokens : /\ token[k] = NoToken
                        /\ token' = [token EXCEPT ![k] = [id |-> i, revoked |-> FALSE]]
  BY DEF AllocateToken
<1>1. token' \in [Tokens -> [id : Ids \cup {None}, revoked : BOOLEAN]]
  BY DEF TablesOK
<1>2. \A j \in Tokens : TokenMoves(j)
  BY DEF TablesOK, TokenMoves
<1> QED
  BY <1>1, <1>2 DEF AllocateToken, DeliveryElsewhere, Moves, TablesOK, CardMoves

\* A card is sent.
LEMMA SendMoves ==
  ASSUME TablesOK, NEW k \in Tokens, token[k].id # None, card' = [card EXCEPT ![k] = "up"],
         UNCHANGED <<row, token, expired>>
  PROVE  Moves
BY DEF TablesOK, Moves, TokenMoves, CardMoves

\* A card is taken down, or stays up as the request fails.
LEMMA TakeDownMoves ==
  ASSUME TablesOK, NEW k \in Tokens, token[k].id # None, Settled(token[k].id), TakeDown(k),
         UNCHANGED <<row, token, expired>>
  PROVE  Moves
BY DEF TablesOK, TakeDown, Moves, TokenMoves, CardMoves

-----------------------------------------------------------------------------
(* What the moves keep.                                                    *)

\* The row a move leaves is a row of its intervention.
LEMMA RowKept ==
  ASSUME TablesOK, NEW i \in Ids, RowMoves(i)
  PROVE  /\ RowOK(i, row'[i])
         /\ IsTerminal(row[i].status) => row'[i] = row[i]
         /\ row[i].status # Absent => row'[i].status # Absent
<1>1. RowOK(i, row[i]) /\ row[i] \in Rows
  BY DEF TablesOK, RowOK
<1>2. CASE row'[i] = row[i]
  BY <1>1, <1>2
<1>3. CASE row[i].status = Absent /\ row'[i] = NewRow(i)
  <2>1. row'[i] = [client |-> i, status |-> "PENDING", decision |-> None, version |-> 1,
                   channel |-> None]
    BY <1>3 DEF NewRow, NoRow
  <2> QED
    BY <1>3, <2>1, StatusKinds DEF RowOK, Rows, Statuses, OpenStatuses, TerminalStatuses, Absent,
       IsTerminal
<1>4. ASSUME IsOpen(row[i].status), NEW target \in Statuses, NEW option \in Options \cup {None},
             NEW channel \in Configured \cup {None}, CanTransition(row[i].status, target),
             option # None <=> target = "RESOLVED",
             target = "AWAITING_HUMAN" => row[i].status = "NOTIFIED",
             row'[i] = Updated(row[i], row[i], target, option, channel)
      PROVE  /\ RowOK(i, row'[i])
             /\ IsTerminal(row[i].status) => row'[i] = row[i]
             /\ row[i].status # Absent => row'[i].status # Absent
  <2>1. /\ row'[i].client = row[i].client /\ row'[i].status = target
        /\ row'[i].decision = IF option = None THEN row[i].decision ELSE option
        /\ row'[i].version = row[i].version + 1
        /\ row'[i].channel = IF channel = None THEN row[i].channel ELSE channel
        /\ row'[i] = [client |-> row'[i].client, status |-> row'[i].status,
                      decision |-> row'[i].decision, version |-> row'[i].version,
                      channel |-> row'[i].channel]
    BY <1>4 DEF Updated
  <2>2. row[i].status \in OpenStatuses /\ row[i].status # "RESOLVED" /\ row[i].status # Absent
    BY <1>4 DEF IsOpen, OpenStatuses, Absent
  <2>3. /\ row[i].version \in 0..3
        /\ row[i].client = i /\ row[i].decision = None
        /\ target = "NOTIFIED" => row[i].version = 1
        /\ target = "AWAITING_HUMAN" => row[i].version = 2
    BY <1>1, <1>4, <2>2 DEF RowOK, OpenStatuses, CanTransition, Allowed, TerminalStatuses
  <2>4. target # Absent /\ target # "PENDING" /\ ~IsTerminal(row[i].status)
    BY <1>1, <1>4, StatusKinds DEF Rows, Statuses, OpenStatuses, TerminalStatuses, Absent
  <2>5. row'[i].version \in 0..4
    BY <2>1, <2>3
  <2>6. row'[i] \in Rows
    BY <1>1, <1>4, <2>1, <2>3, <2>5 DEF Rows
  <2>7. /\ target = "NOTIFIED" => row'[i].version = 2
        /\ target = "AWAITING_HUMAN" => row'[i].version = 3
    BY <2>1, <2>3
  <2> QED
    BY <1>4, <2>1, <2>3, <2>4, <2>6, <2>7 DEF RowOK
<1> QED
  BY <1>2, <1>3, <1>4 DEF RowMoves

\* What the tasks rely on: nothing settled is unsettled, nothing disappears, a
\* token keeps its intervention and a card that was sent was sent.
Kept ==
  /\ \A i \in Ids : Settled(i) => row'[i] = row[i]
  /\ \A i \in Ids : (Exists(i) => Exists(i)') /\ (Settled(i) => Settled(i)')
  /\ \A k \in Tokens : token[k].id # None => token'[k].id = token[k].id
  /\ \A k \in Tokens : card[k] # "none" => card'[k] # "none"
  /\ \A i \in Ids : expired[i] => expired'[i]

\* A move keeps the tables good.
LEMMA MovesKeep ==
  ASSUME TablesOK, Moves
  PROVE  TablesOK' /\ Kept
<1>1. \A i \in Ids : row'[i] = row[i] \/ RowMoves(i)
  BY DEF Moves, TablesOK
<1>2. \A i \in Ids : /\ RowOK(i, row'[i])
                     /\ IsTerminal(row[i].status) => row'[i] = row[i]
                     /\ row[i].status # Absent => row'[i].status # Absent
  BY <1>1, RowKept DEF TablesOK
<1>3. row' \in [Ids -> Rows]
  <2>1. CASE row' = row
    BY <2>1 DEF TablesOK
  <2>2. ASSUME NEW i \in Ids, row' = [row EXCEPT ![i] = row'[i]] PROVE row' \in [Ids -> Rows]
    BY <1>2, <2>2 DEF TablesOK, RowOK
  <2> QED
    BY <2>1, <2>2 DEF Moves
<1>4. \A i \in Ids : /\ Settled(i) => row'[i] = row[i]
                     /\ (Exists(i) => Exists(i)') /\ (Settled(i) => Settled(i)')
  BY <1>2 DEF Exists, Settled
<1>5. ASSUME NEW k \in Tokens
      PROVE  /\ token[k].id # None => token'[k].id = token[k].id
             /\ card[k] # "none" => card'[k] # "none"
             /\ TokenOK(k)'
  <2>1. /\ TokenMoves(k) /\ CardMoves(k) /\ TokenOK(k)
        /\ token[k] \in [id : Ids \cup {None}, revoked : BOOLEAN]
        /\ token'[k] \in [id : Ids \cup {None}, revoked : BOOLEAN]
    BY DEF Moves, TablesOK
  <2>2. None \notin Ids
    BY ServiceAssumption
  <2>3. token[k].id # None => token'[k].id = token[k].id
    BY <2>1, <2>2 DEF TokenMoves, NoToken
  <2>4. card[k] # "none" => card'[k] # "none"
    BY <2>1 DEF CardMoves
  <2>5. token'[k].id = None => token'[k] = NoToken /\ card'[k] = "none"
    <3>1. SUFFICES ASSUME token'[k].id = None PROVE token'[k] = NoToken /\ card'[k] = "none"
      OBVIOUS
    <3>2. token[k].id = None /\ token[k] = NoToken /\ card[k] = "none"
      BY <2>1, <2>3, <3>1 DEF TokenOK
    <3>3. ASSUME NEW i \in Ids, token'[k] = [id |-> i, revoked |-> FALSE] PROVE FALSE
      BY <2>2, <3>1, <3>3
    <3>4. token[k].id \notin Ids
      BY <2>2, <3>2
    <3>5. token'[k] = token[k]
      BY <2>1, <3>3, <3>4 DEF TokenMoves
    <3> QED
      BY <2>1, <3>2, <3>5 DEF CardMoves
  <2>6. token'[k].id # None => token'[k].id \in Ids /\ row'[token'[k].id].status # Absent
    <3>1. CASE token'[k].id = token[k].id
      BY <1>2, <2>1, <3>1 DEF TokenOK, Exists
    <3>2. ASSUME NEW i \in Ids, Exists(i), token'[k] = [id |-> i, revoked |-> FALSE]
          PROVE  token'[k].id \in Ids /\ row'[token'[k].id].status # Absent
      <4>1. token'[k].id = i
        BY <3>2
      <4> QED
        BY <1>2, <3>2, <4>1 DEF Exists
    <3>3. token'[k] = [token[k] EXCEPT !.revoked = TRUE] => token'[k].id = token[k].id
      BY <2>1
    <3>4. token'[k] = token[k] => token'[k].id = token[k].id
      OBVIOUS
    <3> QED
      BY <2>1, <3>1, <3>2, <3>3, <3>4 DEF TokenMoves
  <2>7. token'[k].revoked => token'[k].id \in Ids /\ IsTerminal(row'[token'[k].id].status)
    <3>1. CASE token'[k] = token[k]
      BY <1>2, <2>1, <3>1 DEF TokenOK, Settled
    <3>2. CASE token'[k] = [token[k] EXCEPT !.revoked = TRUE] /\ Settled(token[k].id)'
      <4>1. token'[k].id = token[k].id
        BY <2>1, <3>2
      <4> QED
        BY <3>2, <4>1 DEF Settled
    <3>3. \A i : token'[k] = [id |-> i, revoked |-> FALSE] => ~token'[k].revoked
      OBVIOUS
    <3> QED
      BY <2>1, <3>1, <3>2, <3>3 DEF TokenMoves
  <2>8. card'[k] = "down" => token'[k].id \in Ids /\ IsTerminal(row'[token'[k].id].status)
    <3>1. SUFFICES ASSUME card'[k] = "down"
                   PROVE  token'[k].id \in Ids /\ IsTerminal(row'[token'[k].id].status)
      OBVIOUS
    <3>2. token[k].id \in Ids /\ IsTerminal(row[token[k].id].status) /\ token[k].id # None
      BY <2>1, <2>2, <3>1 DEF CardMoves, TokenOK, Settled
    <3>3. token'[k].id = token[k].id
      BY <2>3, <3>2
    <3> QED
      BY <1>2, <3>2, <3>3
  <2> QED
    BY <2>3, <2>4, <2>5, <2>6, <2>7, <2>8 DEF TokenOK, Exists, Settled
<1>6. TablesOK'
  BY <1>2, <1>3, <1>5 DEF Moves, TablesOK
<1>7. \A i \in Ids : expired[i] => expired'[i]
  BY DEF Moves
<1> QED
  BY <1>4, <1>5, <1>6, <1>7 DEF Kept

-----------------------------------------------------------------------------
(* What each step does to the tables.                                      *)

\* A delivery between the two updates of mark_awaiting holds the lock: nobody
\* else writes its row.
HopHolds ==
  \A i \in Ids : delivery[i].pc = "hop" /\ delivery'[i] = delivery[i] => row'[i] = row[i]

\* What a call knows of its intervention.
LEMMA CallFacts ==
  ASSUME Base, NEW a \in Actors, act[a].pc # "idle"
  PROVE  /\ act[a] \in Calls /\ act[a].id \in Ids /\ phase # "down"
         /\ FlowOK(act[a], a) /\ CallOK(act[a], a)
         /\ row[act[a].id] \in Rows /\ RowOK(act[a].id, row[act[a].id])
         /\ act[a].pc # "create" => Exists(act[a].id)
<1>1. act[a] \in Calls /\ CallOK(act[a], a)
  BY DEF Base, CallsOK
<1>2. act[a].id \in Ids /\ FlowOK(act[a], a) /\ (act[a].pc # "create" => Exists(act[a].id))
  BY <1>1 DEF CallOK
<1>3. phase # "down"
  BY DEF Base, PhaseOK, Idle
<1> QED
  BY <1>1, <1>2, <1>3 DEF Base, TablesOK

\* A step of a call moves the tables as it should.
LEMMA ActorMoves ==
  ASSUME Base, NEW a \in Actors, ActorStep(a)
  PROVE  Moves /\ HopHolds
<1> DEFINE i == act[a].id
<1>1. TablesOK /\ None \notin Ids /\ None \notin Options
  BY ServiceAssumption DEF Base
<1>2. act[a].pc # "idle"
  BY DEF ActorStep, CreateReused, CreateNew, SpawnDelivery, Expire, ExpireCas, Settle, Refused,
     Lookup, NothingToRevoke, Revoke
<1>3. /\ act[a] \in Calls /\ i \in Ids /\ FlowOK(act[a], a) /\ CallOK(act[a], a)
      /\ row[i] \in Rows
  BY <1>2, CallFacts
<1>4. ASSUME UNCHANGED <<row, token, card, expired>> PROVE Moves /\ HopHolds
  BY <1>1, <1>4, StillMoves DEF HopHolds
<1>5. ASSUME LockFree, Moves PROVE Moves /\ HopHolds
  BY <1>5 DEF LockFree, HopHolds
<1>6. CASE CreateReused(a) \/ Expire(a) \/ Lookup(a) \/ NothingToRevoke(a)
  BY <1>4, <1>6 DEF CreateReused, Expire, Lookup, NothingToRevoke, Elsewhere
<1>7. CASE SpawnDelivery(a) \/ Refused(a)
  BY <1>4, <1>7 DEF SpawnDelivery, Refused, durable
<1>8. CASE CreateNew(a)
  <2>1. row' = [row EXCEPT ![i] = NewRow(i)] /\ row[i].status = Absent /\ LockFree
    BY <1>8 DEF CreateNew
  <2>2. row'[i] = NewRow(i)
    BY <1>1, <1>3, <2>1 DEF TablesOK
  <2>3. RowMoves(i) /\ row' = [row EXCEPT ![i] = row'[i]]
    BY <2>1, <2>2 DEF RowMoves
  <2>4. token' = token /\ card' = card /\ expired' = expired
    BY <1>8 DEF CreateNew, Elsewhere
  <2>5. Moves
    BY <1>1, <1>3, <2>3, <2>4 DEF TablesOK, Moves, TokenMoves, CardMoves
  <2> QED
    BY <1>5, <2>1, <2>5
<1>9. CASE ExpireCas(a)
  <2>1. LockFree /\ card' = card /\ expired' = expired
    BY <1>9 DEF ExpireCas, Elsewhere
  <2>2. CASE Verdict(row[i], "TIMEOUT", None) = "update"
    <3>1. CanTransition(row[i].status, "TIMEOUT") /\ WriteRow(i, "TIMEOUT", None, None)
      BY <1>9, <2>2, VerdictIs DEF ExpireCas, MayUpdate
    <3>2. Moves
      BY <1>1, <1>3, <2>1, <3>1, WriteMoves DEF Statuses, TerminalStatuses
    <3> QED
      BY <1>5, <2>1, <3>2
  <2>3. CASE Verdict(row[i], "TIMEOUT", None) # "update"
    BY <1>4, <1>9, <2>1, <2>3 DEF ExpireCas
  <2> QED
    BY <2>2, <2>3
<1>10. CASE Settle(a)
  <2> DEFINE target == Target(act[a].flow)
             option == act[a].option
  <2>1. LockFree /\ card' = card /\ expired' = expired /\ act[a].pc = "cas"
    BY <1>10 DEF Settle, Elsewhere
  <2>2. target \in {"RESOLVED", "CANCELLED"} /\ option \in Options \cup {None}
        /\ (option # None <=> target = "RESOLVED")
    BY <1>2, <1>3, <2>1 DEF FlowOK, Target, Calls
  <2>3. CASE Verdict(row[i], target, option) = "update"
    <3>1. CanTransition(row[i].status, target) /\ WriteRow(i, target, option, None)
      BY <1>10, <2>3, VerdictIs DEF Settle, MayUpdate
    <3>2. Moves
      BY <1>1, <1>3, <2>1, <2>2, <3>1, WriteMoves DEF Statuses, TerminalStatuses
    <3> QED
      BY <1>5, <2>1, <3>2
  <2>4. CASE Verdict(row[i], target, option) # "update"
    BY <1>4, <1>10, <2>1, <2>4 DEF Settle
  <2> QED
    BY <2>3, <2>4
<1>11. CASE Revoke(a)
  <2>1. act[a].pc = "revoke" /\ TakeDown(act[a].card) /\ UNCHANGED <<row, token, expired, delivery>>
    BY <1>11 DEF Revoke
  <2>2. act[a].card \in Tokens /\ token[act[a].card].id = i /\ Settled(i)
    BY <1>2, <1>3, <2>1 DEF CallOK, Names, Idle
  <2>3. Moves
    BY <1>1, <1>3, <2>1, <2>2, TakeDownMoves
  <2> QED
    BY <2>1, <2>3 DEF HopHolds
<1> QED
  BY <1>6, <1>7, <1>8, <1>9, <1>10, <1>11 DEF ActorStep

\* What a delivery knows of its intervention.
LEMMA DeliveryFacts ==
  ASSUME Base, NEW i \in Ids, delivery[i].pc # "idle"
  PROVE  /\ delivery[i] \in Deliveries /\ DeliveryOK(delivery[i], i) /\ Exists(i)
         /\ row[i] \in Rows /\ RowOK(i, row[i]) /\ phase # "down"
<1>1. delivery[i] \in Deliveries /\ DeliveryOK(delivery[i], i)
  BY DEF Base, DeliveriesOK
<1>2. phase # "down"
  BY DEF Base, PhaseOK, NotDelivering
<1> QED
  BY <1>1, <1>2 DEF Base, TablesOK, DeliveryOK

\* A step of a delivery moves the tables as it should.
LEMMA DeliveryMoves ==
  ASSUME Base, NEW i \in Ids, DeliveryStep(i) \/ SendFails(i)
  PROVE  Moves /\ HopHolds
<1> DEFINE d == delivery[i]
<1>1. TablesOK /\ None \notin Ids /\ None \notin Options
  BY ServiceAssumption DEF Base
<1>2. d.pc # "idle"
  BY DEF DeliveryStep, SendFails, PickChannel, AllocateToken, SendCard, CardSent, PushCard,
     MarkNotified, MarkAwaiting, AllFailed
<1>3. /\ d \in Deliveries /\ DeliveryOK(d, i) /\ Exists(i) /\ row[i] \in Rows
      /\ RowOK(i, row[i])
  BY <1>2, DeliveryFacts
<1>4. ASSUME UNCHANGED <<row, token, card, expired>> PROVE Moves /\ HopHolds
  BY <1>1, <1>4, StillMoves DEF HopHolds
<1>5. ASSUME LockFree, Moves PROVE Moves /\ HopHolds
  BY <1>5 DEF LockFree, HopHolds
<1>6. CASE PickChannel(i) \/ CardSent(i) \/ PushCard(i) \/ SendFails(i)
  BY <1>4, <1>6 DEF PickChannel, CardSent, PushCard, SendFails, DeliveryElsewhere
<1>7. CASE AllocateToken(i)
  <2>1. Moves
    BY <1>1, <1>3, <1>7, AllocateMoves
  <2>2. LockFree
    BY <1>7 DEF AllocateToken
  <2> QED
    BY <1>5, <2>1, <2>2
<1>8. CASE SendCard(i)
  <2>1. /\ d.pc = "send" /\ Head(d.todo) = "telegram" /\ card' = [card EXCEPT ![d.token] = "up"]
        /\ UNCHANGED <<row, token, expired>>
    BY <1>8 DEF SendCard, Channel, DeliveryElsewhere
  <2>2. d.token \in Tokens /\ token[d.token].id = i
    BY <1>2, <1>3, <2>1 DEF DeliveryOK, NotDelivering
  <2>3. Moves
    BY <1>1, <2>1, <2>2, SendMoves
  <2> QED
    BY <2>1, <2>3 DEF HopHolds
<1>9. CASE MarkNotified(i)
  <2>1. /\ LockFree /\ d.pc = "mark" /\ row[i].status = "PENDING"
        /\ WriteRow(i, "NOTIFIED", None, Channel(i)) /\ UNCHANGED <<card, expired>>
    BY <1>9 DEF MarkNotified, DeliveryElsewhere
  <2>2. Channel(i) \in Configured
    BY <1>2, <1>3, <2>1 DEF DeliveryOK, NotDelivering, Channel
  <2>3. CanTransition("PENDING", "NOTIFIED")
    BY DEF CanTransition, Allowed, IsTerminal, TerminalStatuses
  <2>4. Moves
    BY <1>1, <2>1, <2>2, <2>3, WriteMoves DEF Statuses, OpenStatuses
  <2> QED
    BY <1>5, <2>1, <2>4
<1>10. CASE MarkAwaiting(i)
  <2>1. /\ d.pc \in {"hop", "mark"} /\ row' = [row EXCEPT ![i] = Awaited(row[i], Channel(i))]
        /\ UNCHANGED <<token, card, expired>>
        /\ d.pc = "hop" \/ LockFree
        /\ delivery' = [delivery EXCEPT ![i] = NotDelivering]
    BY <1>10 DEF MarkAwaiting, DeliveryElsewhere, Deliver
  <2>2. Channel(i) \in Configured
    BY <1>2, <1>3, <2>1 DEF DeliveryOK, NotDelivering, Channel
  <2>3. row'[i] = Awaited(row[i], Channel(i)) /\ row' = [row EXCEPT ![i] = row'[i]]
        /\ \A j \in Ids \ {i} : row'[j] = row[j]
    BY <1>1, <2>1 DEF TablesOK
  <2>4. RowMoves(i)
    <3>1. CASE row[i].status = "NOTIFIED"
      <4>1. CanTransition("NOTIFIED", "AWAITING_HUMAN") /\ IsOpen("NOTIFIED")
        BY DEF CanTransition, Allowed, IsTerminal, TerminalStatuses, IsOpen, OpenStatuses
      <4>2. row'[i] = Updated(row[i], row[i], "AWAITING_HUMAN", None, Channel(i))
        BY <2>3, <3>1 DEF Awaited
      <4> QED
        BY <1>1, <2>2, <3>1, <4>1, <4>2 DEF RowMoves, Statuses, OpenStatuses
    <3>2. CASE row[i].status # "NOTIFIED"
      BY <2>3, <3>2 DEF Awaited, RowMoves
    <3> QED
      BY <3>1, <3>2
  <2>5. Moves
    BY <1>1, <2>1, <2>3, <2>4 DEF TablesOK, Moves, TokenMoves, CardMoves
  <2>6. delivery'[i].pc = "idle"
    BY <2>1 DEF NotDelivering, Base, DeliveriesOK
  <2>7. HopHolds
    BY <2>1, <2>3, <2>6 DEF HopHolds
  <2> QED
    BY <2>5, <2>7
<1>11. CASE AllFailed(i)
  <2>1. LockFree /\ UNCHANGED <<card, expired>>
    BY <1>11 DEF AllFailed, DeliveryElsewhere
  <2>2. CASE Verdict(row[i], "FAILED", None) = "update"
    <3>1. CanTransition(row[i].status, "FAILED") /\ WriteRow(i, "FAILED", None, None)
      BY <1>11, <2>2, VerdictIs DEF AllFailed, MayUpdate
    <3>2. Moves
      BY <1>1, <2>1, <3>1, WriteMoves DEF Statuses, TerminalStatuses
    <3> QED
      BY <1>5, <2>1, <3>2
  <2>3. CASE Verdict(row[i], "FAILED", None) # "update"
    BY <1>4, <1>11, <2>1, <2>3 DEF AllFailed
  <2> QED
    BY <2>2, <2>3
<1> QED
  BY <1>6, <1>7, <1>8, <1>9, <1>10, <1>11 DEF DeliveryStep

\* The card a call would edit is one of its intervention.
LEMMA CardOfIs ==
  ASSUME Base, NEW i \in Ids, NEW mid \in MessageIds, Names(mid, i)
  PROVE  /\ CardOf(i, mid) \in Tokens \cup {None}
         /\ Names(CardOf(i, mid), i)
         /\ mid \in Tokens => CardOf(i, mid) \in Tokens
BY DEF Base, MemoryOK, CardOf, Names

\* So does everything else that happens.
LEMMA OtherMoves ==
  ASSUME Base,
         \/ \E a \in Actors : HttpRequest(a)
         \/ \E i \in Ids : StdinLine(i) \/ ClockPasses(i) \/ Recover(i)
         \/ \E k \in Tokens, o \in Options : Tap(k, o)
         \/ Confirm \/ Poll \/ Crash \/ Restart \/ Recovered \/ UNCHANGED vars
  PROVE  Moves /\ HopHolds
<1>1. TablesOK /\ None \notin Ids
  BY ServiceAssumption DEF Base
<1>2. ASSUME UNCHANGED <<row, token, card, expired>> PROVE Moves /\ HopHolds
  BY <1>1, <1>2, StillMoves DEF HopHolds
<1>3. ASSUME NEW i \in Ids, ClockPasses(i) PROVE Moves /\ HopHolds
  <2>1. UNCHANGED <<row, token, card>> /\ expired' = [expired EXCEPT ![i] = TRUE]
    BY <1>3 DEF ClockPasses
  <2>2. expired' \in [Ids -> BOOLEAN] /\ \A j \in Ids : expired[j] => expired'[j]
    BY <1>1, <2>1 DEF TablesOK
  <2> QED
    BY <1>1, <2>1, <2>2 DEF TablesOK, Moves, TokenMoves, CardMoves, HopHolds
<1>4. CASE PollerClears
  <2> DEFINE c == act["poller"]
             k == CardOf(c.id, c.mid)
  <2>1. c.pc = "clear" /\ TakeDown(k) /\ UNCHANGED <<row, token, expired, delivery>>
    BY <1>4 DEF PollerClears
  <2>2. "poller" \in Actors /\ c.pc # "idle"
    BY <2>1 DEF Actors
  <2>3. c \in Calls /\ c.id \in Ids /\ c.mid \in Tokens /\ Names(c.mid, c.id) /\ Settled(c.id)
    BY <2>1, <2>2, CallFacts DEF CallOK, FlowOK
  <2>4. k \in Tokens /\ token[k].id = c.id
    BY <2>3, CardOfIs DEF Names, MessageIds
  <2>5. Moves
    BY <1>1, <2>1, <2>3, <2>4, TakeDownMoves
  <2> QED
    BY <2>1, <2>5 DEF HopHolds
<1>5. CASE \E a \in Actors : HttpRequest(a)
  BY <1>2, <1>5 DEF HttpRequest, durable
<1>6. CASE \E i \in Ids : StdinLine(i) \/ Recover(i)
  BY <1>2, <1>6 DEF StdinLine, Recover, durable
<1>7. CASE \E k \in Tokens, o \in Options : Tap(k, o)
  BY <1>2, <1>7 DEF Tap
<1>8. CASE Confirm \/ PollTap \/ PollDeadTap
  BY <1>2, <1>8 DEF Confirm, PollTap, PollDeadTap, durable
<1>9. CASE Crash \/ Restart \/ Recovered \/ UNCHANGED vars
  BY <1>2, <1>9 DEF Crash, Restart, Recovered, vars, durable
<1> QED
  BY <1>3, <1>4, <1>5, <1>6, <1>7, <1>8, <1>9 DEF Poll

\* Every step moves the tables as it should, and so keeps what tasks rely on.
LEMMA StepMoves ==
  ASSUME Base, [Next]_vars
  PROVE  Moves /\ HopHolds /\ TablesOK' /\ Kept
<1>1. Moves /\ HopHolds
  BY ActorMoves, DeliveryMoves, OtherMoves DEF Next
<1> QED
  BY <1>1, MovesKeep DEF Base

-----------------------------------------------------------------------------
(* What a step leaves alone stays good.                                    *)

\* A name stays one.
LEMMA NameStays ==
  ASSUME Kept, NEW k, NEW i \in Ids, Names(k, i)
  PROVE  k \in Tokens => token'[k].id = i
BY ServiceAssumption DEF Kept, Names

\* A call that does not move.
LEMMA CallStays ==
  ASSUME Base, Kept, NEW b \in Actors, act'[b] = act[b]
  PROVE  CallOK(act[b], b)'
<1>1. act[b] \in Calls /\ CallOK(act[b], b)
  BY DEF Base, CallsOK
<1>2. CASE act[b].pc = "idle"
  BY <1>1, <1>2 DEF CallOK
<1>3. CASE act[b].pc # "idle"
  <2> DEFINE c == act[b]
  <2>1. c.id \in Ids /\ FlowOK(c, b) /\ Names(c.mid, c.id) /\ Names(c.card, c.id)
    BY <1>1, <1>3 DEF CallOK
  <2>2. /\ c.mid \in Tokens => token'[c.mid].id = c.id
        /\ c.card \in Tokens => token'[c.card].id = c.id
    BY <2>1, NameStays DEF Names
  <2>3. /\ c.pc # "create" => Exists(c.id)'
        /\ c.pc = "revoke" => c.card \in Tokens
        /\ c.pc \in {"lookup", "revoke", "clear"} =>
             row'[c.id] = row[c.id] /\ Settled(c.id)' /\ row[c.id].status = c.update
        /\ c.late => expired'[c.id]
        /\ c.late /\ c.flow = "decide" /\ c.pc = "cas" => Settled(c.id)'
    BY <1>1, <1>3, <2>1 DEF CallOK, Kept, Exists, Settled
  <2> QED
    BY <1>3, <2>1, <2>2, <2>3 DEF CallOK, Names, Exists, Settled, FlowOK
<1> QED
  BY <1>2, <1>3

\* All calls but the one that has moved.
LEMMA CallsStay ==
  ASSUME Base, Kept, NEW a \in Actors, act' = [act EXCEPT ![a] = act'[a]],
         act'[a] \in Calls, CallOK(act[a], a)'
  PROVE  CallsOK'
<1>1. act' \in [Actors -> Calls]
  BY DEF Base, CallsOK
<1>2. ASSUME NEW b \in Actors PROVE CallOK(act[b], b)'
  <2>1. CASE b = a
    BY <2>1
  <2>2. CASE b # a
    BY <2>2, CallStays DEF Base, CallsOK
  <2> QED
    BY <2>1, <2>2
<1> QED
  BY <1>1, <1>2 DEF CallsOK

\* No call has moved.
LEMMA CallsRest ==
  ASSUME Base, Kept, act' = act
  PROVE  CallsOK'
BY CallStays DEF Base, CallsOK

\* A delivery that does not move.
LEMMA DeliveryStays ==
  ASSUME Base, Kept, HopHolds, NEW i \in Ids, delivery'[i] = delivery[i]
  PROVE  DeliveryOK(delivery[i], i)'
<1>1. delivery[i] \in Deliveries /\ DeliveryOK(delivery[i], i)
  BY DEF Base, DeliveriesOK
<1> DEFINE d == delivery[i]
<1>2. CASE d.pc = "idle"
  BY <1>1, <1>2 DEF DeliveryOK
<1>3. CASE d.pc # "idle"
  <2>1. Exists(i)' /\ (d.pc = "hop" => row'[i].status = "NOTIFIED")
    BY <1>1, <1>3 DEF DeliveryOK, Kept, HopHolds
  <2>2. d.pc \in {"send", "sent", "mark", "hop"} /\ Head(d.todo) = "telegram" =>
          d.token \in Tokens /\ token'[d.token].id = i
    BY <1>1, <1>3, ServiceAssumption DEF DeliveryOK, Kept
  <2>3. d.pc \in {"sent", "mark", "hop"} /\ Head(d.todo) = "telegram" => card'[d.token] # "none"
    BY <1>1, <1>3 DEF DeliveryOK, Kept
  <2> QED
    BY <1>1, <1>3, <2>1, <2>2, <2>3 DEF DeliveryOK
<1> QED
  BY <1>2, <1>3

\* All deliveries but the one that has moved.
LEMMA DeliveriesStay ==
  ASSUME Base, Kept, HopHolds, NEW i \in Ids, delivery' = [delivery EXCEPT ![i] = delivery'[i]],
         delivery'[i] \in Deliveries, DeliveryOK(delivery[i], i)'
  PROVE  DeliveriesOK'
<1>1. delivery' \in [Ids -> Deliveries]
  BY DEF Base, DeliveriesOK
<1>2. ASSUME NEW j \in Ids PROVE DeliveryOK(delivery[j], j)'
  <2>1. CASE j = i
    BY <2>1
  <2>2. CASE j # i
    BY <2>2, DeliveryStays DEF Base, DeliveriesOK
  <2> QED
    BY <2>1, <2>2
<1> QED
  BY <1>1, <1>2 DEF DeliveriesOK

\* No delivery has moved.
LEMMA DeliveriesRest ==
  ASSUME Base, Kept, HopHolds, delivery' = delivery
  PROVE  DeliveriesOK'
BY DeliveryStays DEF Base, DeliveriesOK

\* The memories have at most changed at one place, and readers went away.
LEMMA MemoryStays ==
  ASSUME Base, Kept,
         messages' = messages \/ \E i \in Ids, k \in Tokens \cup {None} :
           messages' = [messages EXCEPT ![i] = k] /\ Names(k, i),
         messageIds' = messageIds \/ \E i \in Ids, mid \in MessageIds :
           messageIds' = [messageIds EXCEPT ![i] = mid] /\ Names(mid, i),
         reader' = reader \/ \E i \in Ids, to \in BOOLEAN :
           reader' = [reader EXCEPT ![i] = to] /\ Exists(i),
         heard' = heard \/ \E i \in Ids, status \in Statuses \cup {Absent} : Publish(i, status)
  PROVE  MemoryOK'
<1>1. MemoryOK
  BY DEF Base
<1>2. messages' \in [Ids -> Tokens \cup {None}] /\ messageIds' \in [Ids -> MessageIds]
      /\ reader' \in [Ids -> BOOLEAN]
  BY <1>1 DEF MemoryOK
<1>3. heard' \in [Ids -> Statuses \cup {Absent}]
  BY <1>1 DEF MemoryOK, Publish
<1>4. ASSUME NEW j \in Ids PROVE messages'[j] \in Tokens => token'[messages'[j]].id = j
  <2>1. Names(messages[j], j)
    BY <1>1 DEF MemoryOK
  <2>2. messages[j] \in Tokens => token'[messages[j]].id = j
    BY <2>1, NameStays
  <2>3. ASSUME NEW i \in Ids, NEW k \in Tokens \cup {None},
               messages' = [messages EXCEPT ![i] = k], Names(k, i)
        PROVE  messages'[j] \in Tokens => token'[messages'[j]].id = j
    <3>1. k \in Tokens => token'[k].id = i
      BY <2>3, NameStays
    <3> QED
      BY <1>1, <2>2, <2>3, <3>1 DEF MemoryOK
  <2> QED
    BY <2>2, <2>3
<1>5. ASSUME NEW j \in Ids PROVE messageIds'[j] \in Tokens => token'[messageIds'[j]].id = j
  <2>1. Names(messageIds[j], j)
    BY <1>1 DEF MemoryOK
  <2>2. messageIds[j] \in Tokens => token'[messageIds[j]].id = j
    BY <2>1, NameStays
  <2>3. ASSUME NEW i \in Ids, NEW mid \in MessageIds,
               messageIds' = [messageIds EXCEPT ![i] = mid], Names(mid, i)
        PROVE  messageIds'[j] \in Tokens => token'[messageIds'[j]].id = j
    <3>1. mid \in Tokens => token'[mid].id = i
      BY <2>3, NameStays
    <3> QED
      BY <1>1, <2>2, <2>3, <3>1 DEF MemoryOK
  <2> QED
    BY <2>2, <2>3
<1>6. \A j \in Ids : reader'[j] => Exists(j)'
  BY <1>1 DEF MemoryOK, Kept
<1> QED
  BY <1>2, <1>3, <1>4, <1>5, <1>6 DEF MemoryOK, Names

\* A step of a daemon that is running, which leaves the phase alone.
LEMMA PhaseStays ==
  ASSUME Base, Kept, phase # "down", UNCHANGED process,
         \A a \in Callers : act'[a] = act[a] \/ phase = "up",
         phase = "up" => act'["boot"] = act["boot"]
  PROVE  PhaseOK'
BY DEF Base, PhaseOK, Kept, process

-----------------------------------------------------------------------------
(* What each step does to the tasks.                                       *)

\* The idle call is a call.
LEMMA IdleOK ==
  ASSUME NEW a \in Actors, act'[a] = Idle
  PROVE  act'[a] \in Calls /\ CallOK(act[a], a)'
BY DEF CallOK, Idle, Calls, Labels, Flows, MessageIds

\* A call that only moves on to a label keeps the rest of its record.
LEMMA GotoIs ==
  ASSUME Base, NEW a \in Actors, NEW label \in Labels, Goto(a, label)
  PROVE  /\ act' = [act EXCEPT ![a] = act'[a]]
         /\ act'[a] = [act[a] EXCEPT !.pc = label] /\ act'[a] \in Calls
         /\ act'[a].pc = label /\ act'[a].flow = act[a].flow /\ act'[a].id = act[a].id
         /\ act'[a].option = act[a].option /\ act'[a].mid = act[a].mid
         /\ act'[a].update = act[a].update /\ act'[a].card = act[a].card
         /\ act'[a].late = act[a].late
BY DEF Base, CallsOK, Goto, Calls

\* A call that returns is idle.
LEMMA ReturnIs ==
  ASSUME Base, NEW a \in Actors, Return(a)
  PROVE  act' = [act EXCEPT ![a] = act'[a]] /\ act'[a] = Idle
BY DEF Base, CallsOK, Return

\* What a call that moves keeps of what it knew.
LEMMA CallKeeps ==
  ASSUME Base, Kept, NEW a \in Actors, act[a].pc # "idle", act'[a].id = act[a].id,
         act'[a].mid = act[a].mid
  PROVE  /\ Names(act[a].mid, act[a].id)' /\ act'[a].id \in Ids
         /\ act[a].pc # "create" => Exists(act[a].id)'
         /\ act[a].late => expired'[act[a].id]
         /\ Names(act[a].card, act[a].id) /\ (act'[a].card = act[a].card => Names(act[a].card, act[a].id)')
<1>1. /\ act[a].id \in Ids /\ CallOK(act[a], a)
      /\ act[a].pc # "create" => Exists(act[a].id)
  BY CallFacts
<1>2. /\ Names(act[a].mid, act[a].id) /\ Names(act[a].card, act[a].id)
      /\ act[a].late => expired[act[a].id]
  BY <1>1 DEF CallOK, Idle, Names
<1>3. /\ act[a].mid \in Tokens => token'[act[a].mid].id = act[a].id
      /\ act[a].card \in Tokens => token'[act[a].card].id = act[a].id
  BY <1>1, <1>2, NameStays
<1> QED
  BY <1>1, <1>2, <1>3 DEF Kept, Names, Exists

\* Where a call goes on, it is good again.
LEMMA GoonKeeps ==
  ASSUME Base, Kept, NEW a \in Actors, act[a].pc \in {"expire", "expire_cas"}, Goon(a),
         act[a].flow = "decide" /\ act[a].late => IsTerminal(row'[act[a].id].status)
  PROVE  act' = [act EXCEPT ![a] = act'[a]] /\ act'[a] \in Calls /\ CallOK(act[a], a)'
<1>1. FlowOK(act[a], a) /\ act[a].pc # "idle"
  BY CallFacts
<1>2. CASE act[a].flow \in {"decide", "recover"}
  <2> DEFINE label == IF act[a].flow = "decide" THEN "cas" ELSE "spawn"
  <2>1. Goto(a, label) /\ label \in Labels
    BY <1>2 DEF Goon, Labels
  <2>2. /\ act' = [act EXCEPT ![a] = act'[a]] /\ act'[a] \in Calls
        /\ act'[a].pc = label /\ act'[a].flow = act[a].flow /\ act'[a].id = act[a].id
        /\ act'[a].option = act[a].option /\ act'[a].mid = act[a].mid
        /\ act'[a].update = act[a].update /\ act'[a].card = act[a].card
        /\ act'[a].late = act[a].late
    BY <2>1, GotoIs
  <2>3. /\ Names(act[a].mid, act[a].id)' /\ act'[a].id \in Ids /\ Exists(act[a].id)'
        /\ act[a].late => expired'[act[a].id]
        /\ Names(act[a].card, act[a].id)'
    BY <1>1, <2>2, CallKeeps
  <2>4. FlowOK(act[a], a)'
    BY <1>1, <1>2, <2>2 DEF FlowOK
  <2>5. act[a].late /\ act[a].flow = "decide" => Settled(act[a].id)'
    BY <2>2, <2>3 DEF Settled
  <2> QED
    BY <1>2, <2>2, <2>3, <2>4, <2>5 DEF CallOK, Names, Exists, Settled
<1>3. CASE act[a].flow \notin {"decide", "recover"}
  BY <1>3, IdleOK, ReturnIs DEF Goon
<1> QED
  BY <1>2, <1>3

\* A request that is let in is a call.
LEMMA RequestIs ==
  ASSUME Base, NEW a \in Actors, NEW flow \in Flows \ {"none"}, NEW i \in Ids,
         NEW option \in Options \cup {None}, NEW mid \in MessageIds, NEW label \in {"create", "expire", "cas"},
         Request(a, flow, i, option, mid, label),
         flow = "decide" <=> option # None,
         label = "create" <=> flow = "create", label = "cas" <=> flow = "cancel",
         label # "create" => Exists(i)', Names(mid, i)', expired' = expired,
         a \in Callers => flow # "recover", a \in {"poller", "stdin"} => flow = "decide",
         a = "boot" => flow = "recover", a = "poller" => mid \in Tokens
  PROVE  /\ act[a].pc = "idle" /\ act' = [act EXCEPT ![a] = act'[a]]
         /\ act'[a] \in Calls /\ CallOK(act[a], a)'
         /\ act'[a].id = i /\ act'[a].flow = flow /\ act'[a].pc = label
<1>1. /\ act[a].pc = "idle" /\ act' = [act EXCEPT ![a] = act'[a]]
      /\ act'[a] = [Idle EXCEPT !.pc = label, !.flow = flow, !.id = i, !.option = option,
                                !.mid = mid, !.late = expired[i]]
  BY DEF Request, Base, CallsOK
<1>2. /\ act'[a].pc = label /\ act'[a].flow = flow /\ act'[a].id = i /\ act'[a].option = option
      /\ act'[a].mid = mid /\ act'[a].late = expired[i] /\ act'[a].card = None
      /\ act'[a] = [pc |-> label, flow |-> flow, id |-> i, option |-> option, mid |-> mid,
                    update |-> Absent, card |-> None, late |-> expired[i]]
  BY <1>1 DEF Idle
<1>3. act'[a] \in Calls
  BY <1>2 DEF Calls, Labels, Base, TablesOK
<1>4. FlowOK(act[a], a)'
  BY <1>2 DEF FlowOK, Flows
<1>5. None \notin Tokens
  BY ServiceAssumption
<1>6. (mid \in Tokens => token'[mid].id = i) /\ (label # "create" => Exists(i)')
  BY DEF Names
<1>7. CallOK(act[a], a)'
  BY <1>2, <1>4, <1>5, <1>6 DEF CallOK, Names, Exists
<1> QED
  BY <1>1, <1>2, <1>3, <1>7

\* A call that is at its announcement.
LEMMA AnnounceKeeps ==
  ASSUME Base, Kept, NEW a \in Actors, act[a].pc \in {"lookup", "revoke"}, Announce(a)
  PROVE  /\ act' = [act EXCEPT ![a] = act'[a]] /\ act'[a] \in Calls /\ CallOK(act[a], a)'
         /\ Publish(act[a].id, act[a].update) /\ act[a].update \in Statuses
         /\ row[act[a].id].status = act[a].update /\ Settled(act[a].id)
<1>1. /\ FlowOK(act[a], a) /\ act[a].pc # "idle" /\ CallOK(act[a], a) /\ act[a] \in Calls
      /\ act[a].id \in Ids
  BY CallFacts
<1>2. /\ Settled(act[a].id) /\ row[act[a].id].status = act[a].update
      /\ Publish(act[a].id, act[a].update)
  BY <1>1 DEF CallOK, Announce
<1>3. act[a].update \in Statuses
  BY <1>2 DEF Settled, IsTerminal, Statuses
<1>4. CASE a = "poller"
  <2>1. Goto(a, "clear") /\ "clear" \in Labels
    BY <1>4 DEF Announce, Labels
  <2>2. /\ act' = [act EXCEPT ![a] = act'[a]] /\ act'[a] \in Calls
        /\ act'[a].pc = "clear" /\ act'[a].flow = act[a].flow /\ act'[a].id = act[a].id
        /\ act'[a].option = act[a].option /\ act'[a].mid = act[a].mid
        /\ act'[a].update = act[a].update /\ act'[a].card = act[a].card
        /\ act'[a].late = act[a].late
    BY <2>1, GotoIs
  <2>3. /\ Names(act[a].mid, act[a].id)' /\ act'[a].id \in Ids /\ Exists(act[a].id)'
        /\ act[a].late => expired'[act[a].id]
        /\ Names(act[a].card, act[a].id)'
    BY <1>1, <2>2, CallKeeps
  <2>4. FlowOK(act[a], a)'
    BY <1>1, <1>4, <2>2 DEF FlowOK
  <2>5. Settled(act[a].id)' /\ row'[act[a].id] = row[act[a].id]
    BY <1>1, <1>2, <2>2 DEF Kept, Settled
  <2> QED
    BY <1>2, <1>3, <2>2, <2>3, <2>4, <2>5 DEF CallOK, Names, Exists, Settled
<1>5. CASE a # "poller"
  BY <1>2, <1>3, <1>5, IdleOK, ReturnIs DEF Announce
<1> QED
  BY <1>4, <1>5

\* A step of a call leaves the call good.
LEMMA ActorCalls ==
  ASSUME Base, Kept, TablesOK', NEW a \in Actors, ActorStep(a)
  PROVE  act' = [act EXCEPT ![a] = act'[a]] /\ act'[a] \in Calls /\ CallOK(act[a], a)'
<1> DEFINE i == act[a].id
<1>1. TablesOK /\ None \notin Ids /\ None \notin Options /\ None \notin Tokens
  BY ServiceAssumption DEF Base
<1>2. act[a].pc # "idle"
  BY DEF ActorStep, CreateReused, CreateNew, SpawnDelivery, Expire, ExpireCas, Settle, Refused,
     Lookup, NothingToRevoke, Revoke
<1>3. /\ act[a] \in Calls /\ i \in Ids /\ FlowOK(act[a], a) /\ CallOK(act[a], a)
      /\ row[i] \in Rows /\ (act[a].pc # "create" => Exists(i))
  BY <1>2, CallFacts
<1>4. CASE CreateReused(a) \/ SpawnDelivery(a) \/ Refused(a)
  BY <1>4, IdleOK, ReturnIs DEF CreateReused, SpawnDelivery, Refused
<1>5. CASE CreateNew(a)
  <2>1. Goto(a, "spawn") /\ "spawn" \in Labels /\ act[a].pc = "create"
    BY <1>5 DEF CreateNew, Labels
  <2>2. /\ act' = [act EXCEPT ![a] = act'[a]] /\ act'[a] \in Calls
        /\ act'[a].pc = "spawn" /\ act'[a].flow = act[a].flow /\ act'[a].id = i
        /\ act'[a].option = act[a].option /\ act'[a].mid = act[a].mid
        /\ act'[a].card = act[a].card /\ act'[a].late = act[a].late
    BY <2>1, GotoIs
  <2>3. /\ Names(act[a].mid, act[a].id)' /\ act'[a].id \in Ids
        /\ act[a].late => expired'[act[a].id]
        /\ Names(act[a].card, act[a].id)'
    BY <1>2, <2>2, CallKeeps
  <2>4. FlowOK(act[a], a)'
    BY <1>3, <2>1, <2>2 DEF FlowOK
  <2>5. row' = [row EXCEPT ![i] = NewRow(i)]
    BY <1>5 DEF CreateNew
  <2>6. row'[i].status = "PENDING"
    BY <1>1, <1>3, <2>5 DEF TablesOK, NewRow, NoRow
  <2> QED
    BY <2>2, <2>3, <2>4, <2>6 DEF CallOK, Names, Exists, Settled, Absent
<1>6. CASE Expire(a)
  <2>1. act[a].pc = "expire" /\ UNCHANGED <<row, token, expired>>
    BY <1>6 DEF Expire, Elsewhere
  <2>2. CASE IsOpen(row[i].status) /\ expired[i]
    <3>1. Goto(a, "expire_cas") /\ "expire_cas" \in Labels
      BY <1>6, <2>2 DEF Expire, Labels
    <3>2. /\ act' = [act EXCEPT ![a] = act'[a]] /\ act'[a] \in Calls
          /\ act'[a].pc = "expire_cas" /\ act'[a].flow = act[a].flow /\ act'[a].id = i
          /\ act'[a].option = act[a].option /\ act'[a].mid = act[a].mid
          /\ act'[a].card = act[a].card /\ act'[a].late = act[a].late
      BY <3>1, GotoIs
    <3>3. /\ Names(act[a].mid, act[a].id)' /\ act'[a].id \in Ids /\ Exists(act[a].id)'
          /\ act[a].late => expired'[act[a].id]
          /\ Names(act[a].card, act[a].id)'
      BY <1>2, <2>1, <3>2, CallKeeps
    <3>4. FlowOK(act[a], a)'
      BY <1>3, <2>1, <3>2 DEF FlowOK
    <3> QED
      BY <3>2, <3>3, <3>4 DEF CallOK, Names, Exists, Settled
  <2>3. CASE ~(IsOpen(row[i].status) /\ expired[i])
    <3>1. Goon(a)
      BY <1>6, <2>3 DEF Expire
    <3>2. act[a].late => expired[i]
      BY <1>3, <1>2 DEF CallOK
    <3>3. row[i].status \in Statuses \cup {Absent} /\ row[i].status # Absent
      BY <1>3, <2>1 DEF Rows, Exists
    <3>4. act[a].late => Settled(i)
      BY <1>3, <2>3, <3>2, <3>3, StatusKinds DEF Settled
    <3>5. act[a].flow = "decide" /\ act[a].late => IsTerminal(row'[i].status)
      BY <1>3, <2>1, <3>4 DEF Settled
    <3> QED
      BY <2>1, <3>1, <3>5, GoonKeeps
  <2> QED
    BY <2>2, <2>3
<1>7. CASE ExpireCas(a)
  <2>1. act[a].pc = "expire_cas"
    BY <1>7 DEF ExpireCas
  <2>2. Exists(i) /\ i \in Ids /\ row[i].status \in Statuses
    BY <1>3, <2>1 DEF Rows, Exists
  <2>3. IsTerminal(row'[i].status)
    <3>1. CASE Verdict(row[i], "TIMEOUT", None) = "update"
      <4>1. WriteRow(i, "TIMEOUT", None, None)
        BY <1>7, <3>1 DEF ExpireCas
      <4>2. row'[i].status = "TIMEOUT"
        BY <1>1, <1>3, <4>1 DEF WriteRow, Updated, TablesOK
      <4> QED
        BY <4>2 DEF IsTerminal, TerminalStatuses
    <3>2. CASE Verdict(row[i], "TIMEOUT", None) # "update"
      <4>1. ~MayUpdate(row[i], "TIMEOUT", None) /\ row' = row
        BY <1>7, <3>2, VerdictIs DEF ExpireCas
      <4>2. ~IsOpen(row[i].status)
        BY <2>2, <4>1, StatusKinds DEF MayUpdate
      <4> QED
        BY <2>2, <4>1, <4>2, StatusKinds DEF Exists
    <3> QED
      BY <3>1, <3>2
  <2>4. CASE act[a].flow = "decide"
    <3>1. Goon(a)
      BY <1>7, <2>4 DEF ExpireCas
    <3> QED
      BY <2>1, <2>3, <3>1, GoonKeeps
  <2>5. CASE act[a].flow # "decide"
    <3>1. act' = [act EXCEPT ![a].pc = "lookup", ![a].update = row'[i].status]
      BY <1>7, <2>5 DEF ExpireCas
    <3>2. row'[i].status \in Statuses \cup {Absent}
      BY <1>3 DEF TablesOK, Rows
    <3>3. act'[a] = [act[a] EXCEPT !.pc = "lookup", !.update = row'[i].status]
          /\ act' = [act EXCEPT ![a] = act'[a]]
      BY <3>1 DEF Base, CallsOK
    <3>4. /\ act'[a] \in Calls
          /\ act'[a].pc = "lookup" /\ act'[a].flow = act[a].flow /\ act'[a].id = i
          /\ act'[a].option = act[a].option /\ act'[a].mid = act[a].mid
          /\ act'[a].update = row'[i].status /\ act'[a].card = act[a].card
          /\ act'[a].late = act[a].late
      BY <1>3, <3>2, <3>3 DEF Calls, Labels
    <3>5. /\ Names(act[a].mid, act[a].id)' /\ act'[a].id \in Ids /\ Exists(act[a].id)'
          /\ act[a].late => expired'[act[a].id]
          /\ Names(act[a].card, act[a].id)'
      BY <1>2, <2>1, <3>4, CallKeeps
    <3>6. FlowOK(act[a], a)'
      BY <1>3, <2>1, <2>5, <3>4 DEF FlowOK
    <3> QED
      BY <2>3, <3>3, <3>4, <3>5, <3>6 DEF CallOK, Names, Exists, Settled
  <2> QED
    BY <2>4, <2>5
<1>8. CASE Settle(a)
  <2> DEFINE target == Target(act[a].flow)
             option == act[a].option
  <2>1. act[a].pc = "cas" /\ act' = [act EXCEPT ![a].pc = "lookup", ![a].update = target]
    BY <1>8 DEF Settle
  <2>2. target \in Statuses /\ IsTerminal(target)
    BY DEF Target, Statuses, TerminalStatuses, IsTerminal
  <2>3. row'[i].status = target
    <3>1. CASE Verdict(row[i], target, option) = "update"
      <4>1. WriteRow(i, target, option, None)
        BY <1>8, <3>1 DEF Settle
      <4> QED
        BY <1>1, <1>3, <4>1 DEF WriteRow, Updated, TablesOK
    <3>2. CASE Verdict(row[i], target, option) # "update"
      <4>1. Verdict(row[i], target, option) = "echo" /\ row' = row
        BY <1>8, <3>2 DEF Settle
      <4> QED
        BY <4>1, VerdictIs DEF AlreadyThere
    <3> QED
      BY <3>1, <3>2
  <2>4. act'[a] = [act[a] EXCEPT !.pc = "lookup", !.update = target]
        /\ act' = [act EXCEPT ![a] = act'[a]]
    BY <2>1 DEF Base, CallsOK
  <2>5. /\ act'[a] \in Calls
        /\ act'[a].pc = "lookup" /\ act'[a].flow = act[a].flow /\ act'[a].id = i
        /\ act'[a].option = act[a].option /\ act'[a].mid = act[a].mid
        /\ act'[a].update = target /\ act'[a].card = act[a].card
        /\ act'[a].late = act[a].late
    BY <1>3, <2>2, <2>4 DEF Calls, Labels
  <2>6. /\ Names(act[a].mid, act[a].id)' /\ act'[a].id \in Ids /\ Exists(act[a].id)'
        /\ act[a].late => expired'[act[a].id]
        /\ Names(act[a].card, act[a].id)'
    BY <1>2, <2>1, <2>5, CallKeeps
  <2>7. FlowOK(act[a], a)'
    BY <1>3, <2>1, <2>5 DEF FlowOK
  <2> HIDE DEF target
  <2> QED
    BY <2>2, <2>3, <2>4, <2>5, <2>6, <2>7 DEF CallOK, Names, Exists, Settled
<1>9. CASE Lookup(a)
  <2> DEFINE mid == IF act[a].mid # None THEN act[a].mid ELSE messageIds[i]
             k == CardOf(i, mid)
  <2>1. /\ act[a].pc = "lookup" /\ k # None
        /\ act' = [act EXCEPT ![a].pc = "revoke", ![a].card = k]
        /\ UNCHANGED <<row, token, expired>>
    BY <1>9 DEF Lookup, Elsewhere
  <2>2. mid \in MessageIds /\ Names(mid, i)
    BY <1>3, <2>1 DEF Base, MemoryOK, CallOK, Calls
  <2>3. k \in Tokens /\ token[k].id = i
    BY <1>3, <2>1, <2>2, CardOfIs DEF Names
  <2> HIDE DEF k, mid
  <2>4. act'[a] = [act[a] EXCEPT !.pc = "revoke", !.card = k]
        /\ act' = [act EXCEPT ![a] = act'[a]]
    BY <2>1 DEF Base, CallsOK
  <2>5. /\ act'[a] \in Calls
        /\ act'[a].pc = "revoke" /\ act'[a].flow = act[a].flow /\ act'[a].id = i
        /\ act'[a].option = act[a].option /\ act'[a].mid = act[a].mid
        /\ act'[a].update = act[a].update /\ act'[a].card = k
        /\ act'[a].late = act[a].late
    BY <1>3, <2>3, <2>4 DEF Calls, Labels
  <2>6. /\ Names(act[a].mid, act[a].id)' /\ act'[a].id \in Ids /\ Exists(act[a].id)'
        /\ act[a].late => expired'[act[a].id]
    BY <1>2, <2>1, <2>5, CallKeeps
  <2>7. FlowOK(act[a], a)'
    BY <1>3, <2>1, <2>5 DEF FlowOK
  <2>8. Settled(i) /\ row[i].status = act[a].update
    BY <1>3, <2>1 DEF CallOK
  <2> QED
    BY <1>3, <2>1, <2>3, <2>4, <2>5, <2>6, <2>7, <2>8 DEF CallOK, Names, Exists, Settled
<1>10. CASE NothingToRevoke(a) \/ Revoke(a)
  BY <1>10, AnnounceKeeps DEF NothingToRevoke, Revoke
<1> QED
  BY <1>4, <1>5, <1>6, <1>7, <1>8, <1>9, <1>10 DEF ActorStep

\* The channels a delivery starts with.
LEMMA PreferredIs == Preferred \in Seq(ChannelNames) /\ Preferred # <<>>
<1>1. Requested \in Seq(ChannelNames)
  <2>1. Requested \in Seq(STRING)
    BY ServiceAssumption
  <2>2. /\ Requested \in [1..Len(Requested) -> STRING] /\ Len(Requested) \in Nat
    BY <2>1, LenProperties
  <2>3. Requested \in [1..Len(Requested) -> ChannelNames]
    BY <2>2 DEF ChannelNames
  <2> QED
    BY <2>2, <2>3, SeqDef
<1>2. CASE \E n \in DOMAIN Requested : Requested[n] = "terminal"
  <2>1. Preferred = Requested
    BY <1>2 DEF Preferred
  <2>2. Requested # <<>>
    BY <1>1, <1>2, EmptySeq
  <2> QED
    BY <1>1, <2>1, <2>2
<1>3. CASE ~ \E n \in DOMAIN Requested : Requested[n] = "terminal"
  <2>1. Preferred = Append(Requested, "terminal")
    BY <1>3 DEF Preferred
  <2>2. Append(Requested, "terminal") \in Seq(ChannelNames) /\ Append(Requested, "terminal") # <<>>
    BY <1>1, AppendProperties DEF ChannelNames
  <2> QED
    BY <2>1, <2>2
<1> QED
  BY <1>2, <1>3

\* A step of a call leaves everything good.
LEMMA ActorBase ==
  ASSUME Base, Moves, HopHolds, TablesOK', Kept, NEW a \in Actors, ActorStep(a)
  PROVE  Base'
<1> DEFINE i == act[a].id
<1>1. act[a].pc # "idle"
  BY DEF ActorStep, CreateReused, CreateNew, SpawnDelivery, Expire, ExpireCas, Settle, Refused,
     Lookup, NothingToRevoke, Revoke
<1>2. /\ act[a] \in Calls /\ i \in Ids /\ FlowOK(act[a], a) /\ CallOK(act[a], a)
      /\ phase # "down" /\ (act[a].pc # "create" => Exists(i))
  BY <1>1, CallFacts
<1>3. act' = [act EXCEPT ![a] = act'[a]] /\ act'[a] \in Calls /\ CallOK(act[a], a)'
  BY ActorCalls
<1>4. CallsOK'
  BY <1>3, CallsStay
<1>5. DeliveriesOK'
  <2>1. CASE SpawnDelivery(a) /\ delivery' # delivery
    <3>1. delivery' = [delivery EXCEPT ![i] = [NotDelivering EXCEPT !.pc = "next", !.todo = Preferred]]
          /\ act[a].pc = "spawn"
      BY <2>1 DEF SpawnDelivery
    <3>2. delivery'[i] = [pc |-> "next", todo |-> Preferred, token |-> None]
      BY <1>2, <3>1 DEF NotDelivering, Base, DeliveriesOK
    <3>3. delivery'[i] \in Deliveries /\ delivery'[i].pc = "next"
      BY <3>2, PreferredIs DEF Deliveries, DeliveryLabels
    <3>4. Exists(i) /\ (Exists(i) => i \in Ids /\ row'[i].status # Absent)
      BY <1>2, <3>1 DEF Kept, Exists
    <3>5. ASSUME NEW j \in Ids, j = i PROVE DeliveryOK(delivery[j], j)'
      BY <3>3, <3>4, <3>5 DEF DeliveryOK, Exists
    <3> HIDE DEF i
    <3>6. PICK j \in Ids : j = i
      BY <1>2
    <3>7. delivery' = [delivery EXCEPT ![j] = delivery'[j]] /\ delivery'[j] \in Deliveries
      BY <3>1, <3>2, <3>3, <3>6
    <3> QED
      BY <3>5, <3>6, <3>7, DeliveriesStay
  <2>2. CASE ~SpawnDelivery(a) \/ delivery' = delivery
    <3>1. delivery' = delivery
      BY <2>2 DEF ActorStep, CreateReused, CreateNew, Expire, ExpireCas, Settle, Refused,
         Lookup, NothingToRevoke, Revoke, Elsewhere
    <3> QED
      BY <3>1, DeliveriesRest
  <2> QED
    BY <2>1, <2>2
<1>6. PhaseOK'
  <2>1. UNCHANGED process
    BY DEF ActorStep, CreateReused, CreateNew, SpawnDelivery, Expire, ExpireCas, Settle, Refused,
       Lookup, NothingToRevoke, Revoke, Elsewhere
  <2>2. \A b \in Callers : act'[b] = act[b] \/ phase = "up"
    BY <1>1, <1>3 DEF Base, PhaseOK, CallsOK, Actors, Idle
  <2>3. phase = "up" => act'["boot"] = act["boot"]
    BY <1>1, <1>3 DEF Base, PhaseOK, CallsOK, Actors, Idle
  <2> QED
    BY <1>2, <2>1, <2>2, <2>3, PhaseStays
<1>7. TapsOK'
  <2>1. UNCHANGED <<taps, confirmed>>
    BY DEF ActorStep, CreateReused, CreateNew, SpawnDelivery, Expire, ExpireCas, Settle, Refused,
       Lookup, NothingToRevoke, Revoke, Elsewhere, durable
  <2>2. offset' = offset \/ (a = "poller" /\ Refused(a))
    BY DEF ActorStep, CreateReused, CreateNew, SpawnDelivery, Expire, ExpireCas, Settle, Refused,
       Lookup, NothingToRevoke, Revoke, Elsewhere, PollerMovesOn
  <2>3. /\ taps \in Seq([token : Tokens, option : Options])
        /\ confirmed \in Nat /\ offset \in Nat /\ Len(taps) \in Nat
        /\ confirmed <= offset /\ offset <= Len(taps)
        /\ act["poller"].pc # "idle" => offset < Len(taps)
    BY LenProperties DEF Base, TapsOK
  <2>4. CASE offset' = offset
    <3>1. act'["poller"].pc # "idle" => offset < Len(taps)
      BY <1>1, <1>3, <2>3 DEF Base, CallsOK, Actors
    <3> QED
      BY <2>1, <2>3, <2>4, <3>1 DEF TapsOK
  <2>5. CASE a = "poller" /\ Refused(a)
    <3>1. offset' = offset + 1 /\ act'["poller"] = Idle /\ offset < Len(taps)
      BY <1>1, <2>3, <2>5, ReturnIs DEF Refused, PollerMovesOn
    <3> QED
      BY <2>1, <2>3, <3>1 DEF TapsOK, Idle
  <2> QED
    BY <2>2, <2>4, <2>5
<1>8. MemoryOK'
  <2>1. reader' = reader
    BY DEF ActorStep, CreateReused, CreateNew, SpawnDelivery, Expire, ExpireCas, Settle, Refused,
       Lookup, NothingToRevoke, Revoke, Elsewhere
  <2>2. CASE Settle(a)
    <3>1. UNCHANGED <<messages, heard>> /\
          messageIds' = IF act[a].mid = None THEN messageIds ELSE [messageIds EXCEPT ![i] = act[a].mid]
      BY <2>2 DEF Settle
    <3>2. act[a].mid \in MessageIds /\ Names(act[a].mid, i)
      BY <1>1, <1>2 DEF CallOK, Calls, Idle
    <3> QED
      BY <1>2, <2>1, <3>1, <3>2, MemoryStays
  <2>3. CASE NothingToRevoke(a)
    <3>1. Publish(i, act[a].update) /\ act[a].update \in Statuses /\ UNCHANGED <<messages, messageIds>>
      BY <2>3, AnnounceKeeps DEF NothingToRevoke, memory
    <3> QED
      BY <1>2, <2>1, <3>1, MemoryStays
  <2>4. CASE Revoke(a)
    <3>1. Publish(i, act[a].update) /\ act[a].update \in Statuses /\ UNCHANGED messageIds
          /\ messages' = [messages EXCEPT ![i] = None]
      BY <2>4, AnnounceKeeps DEF Revoke
    <3>2. Names(None, i)
      BY ServiceAssumption DEF Names
    <3> QED
      BY <1>2, <2>1, <3>1, <3>2, MemoryStays
  <2>5. CASE ~Settle(a) /\ ~NothingToRevoke(a) /\ ~Revoke(a)
    <3>1. UNCHANGED <<messages, messageIds, heard>>
      BY <2>5 DEF ActorStep, CreateReused, CreateNew, SpawnDelivery, Expire, ExpireCas, Refused,
       Lookup, memory
    <3> QED
      BY <2>1, <3>1, MemoryStays
  <2> QED
    BY <2>2, <2>3, <2>4, <2>5
<1> QED
  BY <1>4, <1>5, <1>6, <1>7, <1>8 DEF Base

\* A delivery that is done, or starts on a list of channels.
LEMMA DeliveryRestarts ==
  ASSUME NEW i \in Ids, NEW todo \in Seq(ChannelNames), Exists(i)'
  PROVE  /\ delivery'[i] = NotDelivering => delivery'[i] \in Deliveries /\ DeliveryOK(delivery[i], i)'
         /\ delivery'[i] = [NotDelivering EXCEPT !.pc = "next", !.todo = todo] =>
              delivery'[i] \in Deliveries /\ DeliveryOK(delivery[i], i)'
<1>1. ASSUME delivery'[i] = NotDelivering
      PROVE  delivery'[i] \in Deliveries /\ DeliveryOK(delivery[i], i)'
  <2>1. <<>> \in Seq(ChannelNames)
    BY EmptySeq
  <2> QED
    BY <1>1, <2>1 DEF DeliveryOK, NotDelivering, Deliveries, DeliveryLabels
<1>2. ASSUME delivery'[i] = [NotDelivering EXCEPT !.pc = "next", !.todo = todo]
      PROVE  delivery'[i] \in Deliveries /\ DeliveryOK(delivery[i], i)'
  <2>1. delivery'[i] = [pc |-> "next", todo |-> todo, token |-> None]
    BY <1>2 DEF NotDelivering
  <2>2. delivery'[i] \in Deliveries /\ delivery'[i].pc = "next"
    BY <2>1 DEF Deliveries, DeliveryLabels
  <2> QED
    BY <2>2 DEF DeliveryOK, Exists
<1> QED
  BY <1>1, <1>2

\* A step of a delivery leaves the delivery good.
LEMMA DeliveryKeeps ==
  ASSUME Base, Kept, TablesOK', NEW i \in Ids, DeliveryStep(i) \/ SendFails(i)
  PROVE  /\ delivery' = [delivery EXCEPT ![i] = delivery'[i]]
         /\ delivery'[i] \in Deliveries /\ DeliveryOK(delivery[i], i)'
<1> DEFINE d == delivery[i]
<1>1. TablesOK /\ None \notin Ids /\ None \notin Tokens
  BY ServiceAssumption DEF Base
<1>2. d.pc # "idle"
  BY DEF DeliveryStep, SendFails, PickChannel, AllocateToken, SendCard, CardSent, PushCard,
     MarkNotified, MarkAwaiting, AllFailed
<1>3. /\ d \in Deliveries /\ DeliveryOK(d, i) /\ Exists(i) /\ Exists(i)'
      /\ d.todo \in Seq(ChannelNames)
  BY <1>2, DeliveryFacts DEF Kept, Deliveries
<1>4. ASSUME NEW new \in Deliveries, Deliver(i, new)
      PROVE  delivery' = [delivery EXCEPT ![i] = delivery'[i]] /\ delivery'[i] = new
  BY <1>4 DEF Deliver, Base, DeliveriesOK
<1>5. ASSUME NextChannel(i), d.todo # <<>>
      PROVE  /\ delivery' = [delivery EXCEPT ![i] = delivery'[i]]
             /\ delivery'[i] \in Deliveries /\ DeliveryOK(delivery[i], i)'
  <2>1. Tail(d.todo) \in Seq(ChannelNames)
    BY <1>3, <1>5, HeadTailProperties
  <2>2. delivery' = [delivery EXCEPT ![i] =
          [NotDelivering EXCEPT !.pc = "next", !.todo = Tail(d.todo)]]
    BY <1>5 DEF NextChannel, Deliver
  <2>3. delivery'[i] = [NotDelivering EXCEPT !.pc = "next", !.todo = Tail(d.todo)]
        /\ delivery' = [delivery EXCEPT ![i] = delivery'[i]]
    BY <2>2 DEF Base, DeliveriesOK
  <2> QED
    BY <1>3, <2>1, <2>3, DeliveryRestarts
<1>6. ASSUME Deliver(i, NotDelivering)
      PROVE  /\ delivery' = [delivery EXCEPT ![i] = delivery'[i]]
             /\ delivery'[i] \in Deliveries /\ DeliveryOK(delivery[i], i)'
  <2>1. delivery'[i] = NotDelivering /\ delivery' = [delivery EXCEPT ![i] = delivery'[i]]
    BY <1>6 DEF Deliver, Base, DeliveriesOK
  <2> QED
    BY <1>3, <2>1, DeliveryRestarts
<1>7. ASSUME NEW label \in DeliveryLabels, NEW k \in Tokens \cup {None},
             Deliver(i, [d EXCEPT !.pc = label, !.token = k])
      PROVE  /\ delivery' = [delivery EXCEPT ![i] = delivery'[i]] /\ delivery'[i] \in Deliveries
             /\ delivery'[i].pc = label /\ delivery'[i].todo = d.todo /\ delivery'[i].token = k
  <2>1. [d EXCEPT !.pc = label, !.token = k] \in Deliveries
    BY <1>3 DEF Deliveries
  <2>2. delivery' = [delivery EXCEPT ![i] = delivery'[i]]
        /\ delivery'[i] = [d EXCEPT !.pc = label, !.token = k]
    BY <1>4, <1>7, <2>1
  <2> QED
    BY <1>3, <2>1, <2>2 DEF Deliveries
<1>8. ASSUME NEW label \in DeliveryLabels, Deliver(i, [d EXCEPT !.pc = label])
      PROVE  /\ delivery' = [delivery EXCEPT ![i] = delivery'[i]] /\ delivery'[i] \in Deliveries
             /\ delivery'[i].pc = label /\ delivery'[i].todo = d.todo
             /\ delivery'[i].token = d.token
  <2>1. [d EXCEPT !.pc = label] \in Deliveries
    BY <1>3 DEF Deliveries
  <2>2. delivery' = [delivery EXCEPT ![i] = delivery'[i]]
        /\ delivery'[i] = [d EXCEPT !.pc = label]
    BY <1>4, <1>8, <2>1
  <2> QED
    BY <1>3, <2>1, <2>2 DEF Deliveries
<1>9. CASE PickChannel(i)
  <2>1. d.todo # <<>> /\ d.pc = "next"
    BY <1>9 DEF PickChannel
  <2>2. CASE Head(d.todo) \notin Configured
    BY <1>5, <1>9, <2>1, <2>2 DEF PickChannel, Channel
  <2>3. CASE Head(d.todo) \in Configured
    <3>1. /\ Head(d.todo) = "telegram" => Deliver(i, [d EXCEPT !.pc = "token"])
          /\ Head(d.todo) # "telegram" => Deliver(i, [d EXCEPT !.pc = "send"])
      BY <1>9, <2>3 DEF PickChannel, Channel
    <3>2. {"token", "send"} \subseteq DeliveryLabels
      BY DEF DeliveryLabels
    <3>3. CASE Head(d.todo) = "telegram"
      <4>1. /\ delivery' = [delivery EXCEPT ![i] = delivery'[i]] /\ delivery'[i] \in Deliveries
            /\ delivery'[i].pc = "token" /\ delivery'[i].todo = d.todo
        BY <1>8, <3>1, <3>2, <3>3
      <4> QED
        BY <1>3, <2>1, <2>3, <3>3, <4>1 DEF DeliveryOK, Exists
    <3>4. CASE Head(d.todo) # "telegram"
      <4>1. /\ delivery' = [delivery EXCEPT ![i] = delivery'[i]] /\ delivery'[i] \in Deliveries
            /\ delivery'[i].pc = "send" /\ delivery'[i].todo = d.todo
        BY <1>8, <3>1, <3>2, <3>4
      <4> QED
        BY <1>3, <2>1, <2>3, <3>4, <4>1 DEF DeliveryOK, Exists
    <3> QED
      BY <3>3, <3>4
  <2> QED
    BY <2>2, <2>3
<1>10. CASE AllocateToken(i)
  <2>1. PICK k \in Tokens : /\ token' = [token EXCEPT ![k] = [id |-> i, revoked |-> FALSE]]
                            /\ Deliver(i, [d EXCEPT !.pc = "send", !.token = k])
    BY <1>10 DEF AllocateToken
  <2>2. d.pc = "token" /\ d.todo # <<>> /\ Head(d.todo) \in Configured
    BY <1>2, <1>3, <1>10 DEF AllocateToken, DeliveryOK
  <2>3. "send" \in DeliveryLabels /\ token'[k].id = i
    BY <1>1, <2>1 DEF DeliveryLabels, TablesOK
  <2>4. /\ delivery' = [delivery EXCEPT ![i] = delivery'[i]] /\ delivery'[i] \in Deliveries
        /\ delivery'[i].pc = "send" /\ delivery'[i].todo = d.todo /\ delivery'[i].token = k
    BY <1>7, <2>1, <2>3
  <2> QED
    BY <1>3, <2>2, <2>3, <2>4 DEF DeliveryOK, Exists
<1>11. CASE SendCard(i)
  <2>1. /\ d.pc = "send" /\ Head(d.todo) = "telegram" /\ card' = [card EXCEPT ![d.token] = "up"]
        /\ Deliver(i, [d EXCEPT !.pc = "sent"]) /\ token' = token
    BY <1>11 DEF SendCard, Channel
  <2>2. /\ d.token \in Tokens /\ token[d.token].id = i /\ d.todo # <<>>
        /\ Head(d.todo) \in Configured
    BY <1>2, <1>3, <2>1 DEF DeliveryOK
  <2>3. "sent" \in DeliveryLabels /\ card'[d.token] = "up"
    BY <1>1, <2>1, <2>2 DEF DeliveryLabels, TablesOK
  <2>4. /\ delivery' = [delivery EXCEPT ![i] = delivery'[i]] /\ delivery'[i] \in Deliveries
        /\ delivery'[i].pc = "sent" /\ delivery'[i].todo = d.todo /\ delivery'[i].token = d.token
    BY <1>8, <2>1, <2>3
  <2> QED
    BY <1>3, <2>1, <2>2, <2>3, <2>4 DEF DeliveryOK, Exists
<1>12. CASE CardSent(i) \/ PushCard(i)
  <2>1. /\ d.pc \in {"send", "sent"} /\ Deliver(i, [d EXCEPT !.pc = "mark"])
        /\ Head(d.todo) = "telegram" => d.pc = "sent"
        /\ UNCHANGED <<token, card>>
    BY <1>12 DEF CardSent, PushCard, Channel
  <2>2. /\ d.todo # <<>> /\ Head(d.todo) \in Configured
        /\ Head(d.todo) = "telegram" => d.token \in Tokens /\ token[d.token].id = i
                                        /\ card[d.token] # "none"
    BY <1>2, <1>3, <2>1 DEF DeliveryOK
  <2>3. "mark" \in DeliveryLabels
    BY DEF DeliveryLabels
  <2>4. /\ delivery' = [delivery EXCEPT ![i] = delivery'[i]] /\ delivery'[i] \in Deliveries
        /\ delivery'[i].pc = "mark" /\ delivery'[i].todo = d.todo /\ delivery'[i].token = d.token
    BY <1>8, <2>1, <2>3
  <2> QED
    BY <1>3, <2>1, <2>2, <2>4 DEF DeliveryOK, Exists
<1>13. CASE MarkNotified(i)
  <2>1. /\ d.pc = "mark" /\ WriteRow(i, "NOTIFIED", None, Channel(i))
        /\ Deliver(i, [d EXCEPT !.pc = "hop"]) /\ card' = card
    BY <1>13 DEF MarkNotified
  <2>2. /\ d.todo # <<>> /\ Head(d.todo) \in Configured
        /\ Head(d.todo) = "telegram" => d.token \in Tokens /\ token[d.token].id = i
                                        /\ card[d.token] # "none"
    BY <1>2, <1>3, <2>1 DEF DeliveryOK
  <2>3. "hop" \in DeliveryLabels
    BY DEF DeliveryLabels
  <2>4. /\ delivery' = [delivery EXCEPT ![i] = delivery'[i]] /\ delivery'[i] \in Deliveries
        /\ delivery'[i].pc = "hop" /\ delivery'[i].todo = d.todo /\ delivery'[i].token = d.token
    BY <1>8, <2>1, <2>3
  <2>5. row'[i].status = "NOTIFIED"
    BY <1>1, <2>1 DEF WriteRow, Updated, TablesOK
  <2>6. token' = token
    BY <2>1 DEF WriteRow, IsTerminal, TerminalStatuses
  <2> QED
    BY <1>3, <2>1, <2>2, <2>4, <2>5, <2>6 DEF DeliveryOK, Exists
<1>14. CASE MarkAwaiting(i) \/ AllFailed(i)
  BY <1>6, <1>14 DEF MarkAwaiting, AllFailed
<1>15. CASE SendFails(i)
  <2>1. d.pc \in {"send", "sent"} /\ NextChannel(i)
    BY <1>15 DEF SendFails
  <2>2. d.todo # <<>>
    BY <1>3, <2>1 DEF DeliveryOK
  <2> QED
    BY <1>5, <2>1, <2>2
<1> QED
  BY <1>9, <1>10, <1>11, <1>12, <1>13, <1>14, <1>15 DEF DeliveryStep

\* A step of a delivery leaves everything good.
LEMMA DeliveryBase ==
  ASSUME Base, Moves, HopHolds, TablesOK', Kept, NEW i \in Ids, DeliveryStep(i) \/ SendFails(i)
  PROVE  Base'
<1>1. delivery[i].pc # "idle"
  BY DEF DeliveryStep, SendFails, PickChannel, AllocateToken, SendCard, CardSent, PushCard,
     MarkNotified, MarkAwaiting, AllFailed
<1>2. /\ delivery[i] \in Deliveries /\ DeliveryOK(delivery[i], i) /\ Exists(i)
      /\ phase # "down"
  BY <1>1, DeliveryFacts
<1>3. UNCHANGED <<taps, confirmed, process, act, offset>>
  BY DEF DeliveryStep, SendFails, PickChannel, AllocateToken, SendCard, CardSent, PushCard,
     MarkNotified, MarkAwaiting, AllFailed, DeliveryElsewhere
<1>4. CallsOK'
  BY <1>3, CallsRest
<1>5. DeliveriesOK'
  BY DeliveryKeeps, DeliveriesStay
<1>6. PhaseOK'
  BY <1>2, <1>3, PhaseStays
<1>7. TapsOK'
  BY <1>3 DEF Base, TapsOK
<1>8. MemoryOK'
  <2>1. CASE CardSent(i)
    <3>1. /\ messages' = [messages EXCEPT ![i] = delivery[i].token]
          /\ messageIds' = [messageIds EXCEPT ![i] = delivery[i].token]
          /\ UNCHANGED <<reader, heard>> /\ delivery[i].pc = "sent"
      BY <2>1 DEF CardSent
    <3>2. delivery[i].token \in Tokens /\ token[delivery[i].token].id = i
      BY <1>2, <3>1 DEF DeliveryOK
    <3> QED
      BY <3>1, <3>2, MemoryStays DEF Names, MessageIds
  <2>2. CASE PushCard(i)
    <3>1. /\ messageIds' = messageIds \/ messageIds' = [messageIds EXCEPT ![i] = "stderr"]
          /\ UNCHANGED <<messages, reader, heard>>
      BY <2>2 DEF PushCard
    <3>2. "stderr" \in MessageIds /\ Names("stderr", i)
      BY ServiceAssumption DEF MessageIds, Names
    <3> QED
      BY <3>1, <3>2, MemoryStays
  <2>3. CASE MarkAwaiting(i)
    <3>1. /\ reader' = reader \/ reader' = [reader EXCEPT ![i] = TRUE]
          /\ Publish(i, row'[i].status) /\ UNCHANGED <<messages, messageIds>>
      BY <2>3 DEF MarkAwaiting, memory
    <3>2. row'[i].status \in Statuses \cup {Absent}
      BY DEF TablesOK, Rows
    <3> QED
      BY <1>2, <3>1, <3>2, MemoryStays
  <2>4. CASE AllFailed(i)
    <3>1. heard' = heard \/ Publish(i, "FAILED")
      BY <2>4 DEF AllFailed
    <3>2. UNCHANGED <<messages, messageIds, reader>>
      BY <2>4 DEF AllFailed, memory
    <3> QED
      BY <3>1, <3>2, MemoryStays DEF Statuses, TerminalStatuses
  <2>5. CASE ~CardSent(i) /\ ~PushCard(i) /\ ~MarkAwaiting(i) /\ ~AllFailed(i)
    <3>1. UNCHANGED <<messages, messageIds, reader, heard>>
      BY <2>5 DEF DeliveryStep, SendFails, PickChannel, AllocateToken, SendCard, MarkNotified, memory
    <3> QED
      BY <3>1, MemoryStays
  <2> QED
    BY <2>1, <2>2, <2>3, <2>4, <2>5
<1> QED
  BY <1>4, <1>5, <1>6, <1>7, <1>8 DEF Base

\* A step that changes nothing of the daemon but a call, which was idle.
LEMMA CalledBase ==
  ASSUME Base, HopHolds, TablesOK', Kept, NEW a \in Actors,
         act' = [act EXCEPT ![a] = act'[a]], act'[a] \in Calls, CallOK(act[a], a)',
         UNCHANGED <<taps, confirmed, delivery, messages, messageIds, heard, offset>>,
         reader' = reader \/ \E i \in Ids, to \in BOOLEAN :
           reader' = [reader EXCEPT ![i] = to] /\ Exists(i),
         a = "poller" => offset < Len(taps), PhaseOK'
  PROVE  Base'
<1>1. CallsOK'
  BY CallsStay
<1>2. DeliveriesOK'
  BY DeliveriesRest
<1>3. MemoryOK'
  BY MemoryStays
<1>4. TapsOK'
  <2>1. act'["poller"].pc # "idle" => offset < Len(taps)
    BY DEF Base, CallsOK, TapsOK, Actors
  <2> QED
    BY <2>1 DEF Base, TapsOK
<1> QED
  BY <1>1, <1>2, <1>3, <1>4 DEF Base

\* A request, a tap that is handled, a line of stdin, a row that is recovered.
LEMMA RequestBase ==
  ASSUME Base, Moves, HopHolds, TablesOK', Kept,
         \/ \E a \in Actors : HttpRequest(a)
         \/ \E i \in Ids : StdinLine(i) \/ Recover(i)
         \/ PollTap
  PROVE  Base'
<1>1. /\ None \notin Ids /\ None \notin Options /\ None \notin Tokens
      /\ Callers \cap {"poller", "stdin", "boot"} = {}
      /\ Tokens \cap {"stdin", "stderr"} = {}
  BY ServiceAssumption
<1>2. ASSUME NEW a \in Actors, HttpRequest(a) PROVE Base'
  <2>1. /\ a \in Callers /\ phase = "up"
        /\ UNCHANGED <<row, token, expired, taps, confirmed, process, delivery, reader, messages,
                       messageIds, heard, offset>>
    BY <1>2 DEF HttpRequest, durable, memory
  <2>2. PICK i \in Ids :
          \/ Request(a, "create", i, None, None, "create")
          \/ /\ row[i].status # Absent
             /\ \/ \E o \in Options : Request(a, "decide", i, o, None, "expire")
                \/ Request(a, "cancel", i, None, None, "cas")
                \/ Request(a, "get", i, None, None, "expire")
    BY <1>2 DEF HttpRequest
  <2>3. /\ {"create", "decide", "cancel", "get"} \subseteq Flows \ {"none"}
        /\ None \in MessageIds /\ Names(None, i)' /\ (row[i].status # Absent => Exists(i)')
        /\ a \notin {"poller", "stdin", "boot"}
    BY <1>1, <2>1 DEF Flows, MessageIds, Names, Exists
  <2>4. act' = [act EXCEPT ![a] = act'[a]] /\ act'[a] \in Calls /\ CallOK(act[a], a)'
    <3>1. CASE Request(a, "create", i, None, None, "create")
      BY <2>1, <2>3, <3>1, RequestIs
    <3>2. ASSUME row[i].status # Absent, NEW o \in Options, Request(a, "decide", i, o, None, "expire")
          PROVE  act' = [act EXCEPT ![a] = act'[a]] /\ act'[a] \in Calls /\ CallOK(act[a], a)'
      BY <1>1, <2>1, <2>3, <3>2, RequestIs
    <3>3. CASE row[i].status # Absent /\ Request(a, "cancel", i, None, None, "cas")
      BY <2>1, <2>3, <3>3, RequestIs
    <3>4. CASE row[i].status # Absent /\ Request(a, "get", i, None, None, "expire")
      BY <2>1, <2>3, <3>4, RequestIs
    <3> QED
      BY <2>2, <3>1, <3>2, <3>3, <3>4
  <2>5. act'["boot"] = act["boot"] /\ \A b \in Callers : act'[b] = act[b] \/ phase = "up"
    BY <2>1, <2>3, <2>4 DEF Base, CallsOK, Actors
  <2>6. PhaseOK'
    BY <2>1, <2>5, PhaseStays
  <2> QED
    BY <2>1, <2>3, <2>4, <2>6, CalledBase
<1>3. ASSUME NEW i \in Ids, StdinLine(i) PROVE Base'
  <2>1. /\ reader[i] /\ reader' = [reader EXCEPT ![i] = FALSE]
        /\ UNCHANGED <<row, token, expired, taps, confirmed, process, delivery, messages,
                       messageIds, heard, offset>>
        /\ (\E o \in Options : Request("stdin", "decide", i, o, "stdin", "expire")) \/ UNCHANGED act
    BY <1>3 DEF StdinLine, durable, memory
  <2>2. Exists(i) /\ Exists(i)' /\ phase # "down"
    BY <2>1 DEF Base, MemoryOK, PhaseOK, Kept
  <2>3. "stdin" \in Actors /\ "decide" \in Flows \ {"none"} /\ "stdin" \in MessageIds
        /\ Names("stdin", i)' /\ "stdin" \notin Callers
    BY <1>1 DEF Actors, Flows, MessageIds, Names
  <2>4. /\ act' = [act EXCEPT !["stdin"] = act'["stdin"]] /\ act'["stdin"] \in Calls
        /\ CallOK(act["stdin"], "stdin")'
    <3>1. ASSUME NEW o \in Options, Request("stdin", "decide", i, o, "stdin", "expire")
          PROVE  /\ act' = [act EXCEPT !["stdin"] = act'["stdin"]] /\ act'["stdin"] \in Calls
                 /\ CallOK(act["stdin"], "stdin")'
      BY <1>1, <2>1, <2>2, <2>3, <3>1, RequestIs
    <3>2. CASE UNCHANGED act
      BY <2>3, <3>2, CallStays DEF Base, CallsOK
    <3> QED
      BY <2>1, <3>1, <3>2
  <2>5. act'["boot"] = act["boot"] /\ \A b \in Callers : act'[b] = act[b]
    BY <2>3, <2>4 DEF Base, CallsOK, Actors
  <2>6. PhaseOK'
    BY <2>1, <2>2, <2>5, PhaseStays
  <2>7. \E j \in Ids, to \in BOOLEAN : reader' = [reader EXCEPT ![j] = to] /\ Exists(j)
    BY <2>1, <2>2
  <2> QED
    BY <2>1, <2>3, <2>4, <2>6, <2>7, CalledBase
<1>4. ASSUME NEW i \in Ids, Recover(i) PROVE Base'
  <2>1. /\ i \in toRecover /\ toRecover' = toRecover \ {i}
        /\ Request("boot", "recover", i, None, None, "expire")
        /\ UNCHANGED <<row, token, expired, taps, confirmed, crashes, phase, delivery, reader,
                       messages, messageIds, heard, offset>>
    BY <1>4 DEF Recover, durable, memory
  <2>2. Exists(i) /\ Exists(i)' /\ phase = "recovering"
    BY <2>1 DEF Base, PhaseOK, Kept
  <2>3. "boot" \in Actors /\ "recover" \in Flows \ {"none"} /\ None \in MessageIds
        /\ Names(None, i)' /\ "boot" \notin Callers
    BY <1>1 DEF Actors, Flows, MessageIds, Names
  <2>4. /\ act' = [act EXCEPT !["boot"] = act'["boot"]] /\ act'["boot"] \in Calls
        /\ CallOK(act["boot"], "boot")'
    BY <2>1, <2>2, <2>3, RequestIs
  <2>5. \A b \in Callers : act'[b] = act[b]
    BY <2>3, <2>4 DEF Base, CallsOK, Actors
  <2>6. PhaseOK'
    BY <2>1, <2>2, <2>5 DEF Base, PhaseOK, Kept
  <2> QED
    BY <2>1, <2>3, <2>4, <2>6, CalledBase
<1>5. ASSUME PollTap PROVE Base'
  <2> DEFINE tap == taps[offset + 1]
  <2>1. /\ phase # "down" /\ offset < Len(taps) /\ Resolves(tap.token)
        /\ Request("poller", "decide", token[tap.token].id, tap.option, tap.token, "expire")
        /\ UNCHANGED <<row, token, expired, taps, confirmed, process, delivery, reader, messages,
                       messageIds, heard, offset>>
    BY <1>5 DEF PollTap, durable, memory
  <2>2. tap \in [token : Tokens, option : Options]
    <3>1. taps \in Seq([token : Tokens, option : Options]) /\ offset \in Nat /\ Len(taps) \in Nat
      BY LenProperties DEF Base, TapsOK
    <3>2. offset + 1 \in 1..Len(taps)
      BY <2>1, <3>1
    <3> QED
      BY <3>1, <3>2, ElementOfSeq
  <2> HIDE DEF tap
  <2>3. PICK i \in Ids : i = token[tap.token].id /\ Exists(i)
    BY <2>1, <2>2 DEF Resolves, Base, TablesOK, TokenOK, Exists
  <2>4. "poller" \in Actors /\ "decide" \in Flows \ {"none"} /\ tap.token \in MessageIds
        /\ "poller" \notin Callers
    BY <1>1, <2>2 DEF Actors, Flows, MessageIds
  <2>5. Exists(i)' /\ (tap.token \in Tokens => token'[tap.token].id = i)
    BY <2>1, <2>3 DEF Kept
  <2>6. PICK k \in Tokens, o \in Options :
          /\ Request("poller", "decide", i, o, k, "expire") /\ token'[k].id = i /\ k \in MessageIds
    BY <2>1, <2>2, <2>3, <2>4, <2>5
  <2>7. Names(k, i)'
    BY <2>6 DEF Names
  <2>8. /\ act' = [act EXCEPT !["poller"] = act'["poller"]] /\ act'["poller"] \in Calls
        /\ CallOK(act["poller"], "poller")'
    BY <1>1, <2>1, <2>4, <2>5, <2>6, <2>7, RequestIs
  <2>9. act'["boot"] = act["boot"] /\ \A b \in Callers : act'[b] = act[b]
    BY <2>4, <2>8 DEF Base, CallsOK, Actors
  <2>10. PhaseOK'
    BY <2>1, <2>9, PhaseStays
  <2> QED
    BY <2>1, <2>4, <2>8, <2>10, CalledBase
<1> QED
  BY <1>2, <1>3, <1>4, <1>5

\* The poller is done with a tap, or passes one by.
LEMMA PollerBase ==
  ASSUME Base, Moves, HopHolds, TablesOK', Kept, PollDeadTap \/ PollerClears
  PROVE  Base'
<1>1. /\ "poller" \in Actors /\ "poller" \notin Callers
  BY ServiceAssumption DEF Actors
<1>2. /\ offset' = offset + 1 /\ offset < Len(taps) /\ phase # "down"
      /\ UNCHANGED <<taps, confirmed, process, delivery, reader, messageIds, heard>>
      /\ act'["poller"] = Idle
      /\ act' = act \/ act' = [act EXCEPT !["poller"] = act'["poller"]]
  <2>1. CASE PollDeadTap
    BY <1>1, <2>1 DEF PollDeadTap, durable, memory, Base, CallsOK, CallOK
  <2>2. CASE PollerClears
    <3>1. act["poller"].pc # "idle"
      BY <2>2 DEF PollerClears
    <3> QED
      BY <1>1, <2>2, <3>1, CallFacts, ReturnIs DEF PollerClears, PollerMovesOn, Base, TapsOK
  <2> QED
    BY <2>1, <2>2
<1>3. CallsOK'
  <2>1. CASE act' = act
    BY <2>1, CallsRest
  <2>2. CASE act' = [act EXCEPT !["poller"] = act'["poller"]]
    BY <1>1, <1>2, <2>2, IdleOK, CallsStay
  <2> QED
    BY <1>2, <2>1, <2>2
<1>4. DeliveriesOK'
  BY <1>2, DeliveriesRest
<1>5. MemoryOK'
  <2>1. \/ messages' = messages
        \/ \E i \in Ids : messages' = [messages EXCEPT ![i] = None] /\ Names(None, i)
    <3>1. CASE PollDeadTap
      BY <3>1 DEF PollDeadTap, memory
    <3>2. CASE PollerClears
      <4>1. act["poller"].id \in Ids
        BY <1>1, <3>2, CallFacts DEF PollerClears
      <4> QED
        BY <3>2, <4>1, ServiceAssumption DEF PollerClears, Names
    <3> QED
      BY <3>1, <3>2
  <2> QED
    BY <1>2, <2>1, MemoryStays
<1>6. PhaseOK'
  <2>1. act'["boot"] = act["boot"] /\ \A b \in Callers : act'[b] = act[b]
    BY <1>1, <1>2 DEF Base, CallsOK, Actors
  <2> QED
    BY <1>2, <2>1, PhaseStays
<1>7. TapsOK'
  <2>1. taps \in Seq([token : Tokens, option : Options]) /\ Len(taps) \in Nat
        /\ confirmed \in Nat /\ offset \in Nat /\ confirmed <= offset
    BY LenProperties DEF Base, TapsOK
  <2>2. act'["poller"].pc = "idle"
    BY <1>2 DEF Idle
  <2> QED
    BY <1>2, <2>1, <2>2 DEF TapsOK
<1> QED
  BY <1>3, <1>4, <1>5, <1>6, <1>7 DEF Base

\* The human, Telegram, the clock, and nothing at all.
LEMMA WorldBase ==
  ASSUME Base, Moves, HopHolds, TablesOK', Kept,
         \/ \E i \in Ids : ClockPasses(i)
         \/ \E k \in Tokens, o \in Options : Tap(k, o)
         \/ Confirm \/ UNCHANGED vars
  PROVE  Base'
<1>1. UNCHANGED <<process, delivery, reader, messages, messageIds, act, offset, heard>>
  BY DEF ClockPasses, Tap, Confirm, vars, memory
<1>2. CallsOK' /\ DeliveriesOK' /\ MemoryOK'
  BY <1>1, CallsRest, DeliveriesRest, MemoryStays
<1>3. PhaseOK'
  BY <1>1 DEF Base, PhaseOK, Kept, process
<1>4. TapsOK'
  <2>1. /\ taps \in Seq([token : Tokens, option : Options])
        /\ confirmed \in Nat /\ offset \in Nat /\ Len(taps) \in Nat
        /\ confirmed <= offset /\ offset <= Len(taps)
        /\ act["poller"].pc # "idle" => offset < Len(taps)
    BY LenProperties DEF Base, TapsOK
  <2>2. CASE UNCHANGED <<taps, confirmed>>
    BY <1>1, <2>1, <2>2 DEF TapsOK
  <2>3. ASSUME NEW k \in Tokens, NEW o \in Options, Tap(k, o) PROVE TapsOK'
    <3>1. taps' = Append(taps, [token |-> k, option |-> o]) /\ confirmed' = confirmed
      BY <2>3 DEF Tap
    <3>2. taps' \in Seq([token : Tokens, option : Options]) /\ Len(taps') = Len(taps) + 1
      BY <2>1, <3>1, AppendProperties
    <3> QED
      BY <1>1, <2>1, <3>1, <3>2 DEF TapsOK
  <2>4. CASE Confirm
    <3>1. confirmed' = offset /\ taps' = taps
      BY <2>4 DEF Confirm
    <3> QED
      BY <1>1, <2>1, <3>1 DEF TapsOK
  <2> QED
    BY <2>2, <2>3, <2>4 DEF ClockPasses, vars, durable
<1> QED
  BY <1>2, <1>3, <1>4 DEF Base

\* The daemon goes down, comes up again, and serves.
LEMMA CrashBase ==
  ASSUME Base, Moves, HopHolds, TablesOK', Kept, Crash \/ Restart \/ Recovered
  PROVE  Base'
<1>1. UNCHANGED <<row, token, expired, card, taps, confirmed>>
  BY DEF Crash, Restart, Recovered, durable
<1>2. CASE Crash
  <2>1. /\ crashes < MaxCrashes /\ crashes' = crashes + 1 /\ phase' = "down" /\ toRecover' = {}
        /\ delivery' = [i \in Ids |-> NotDelivering] /\ reader' = [i \in Ids |-> FALSE]
        /\ messages' = [i \in Ids |-> None] /\ messageIds' = [i \in Ids |-> None]
        /\ act' = [a \in Actors |-> Idle] /\ offset' = confirmed
        /\ heard' = [i \in Ids |-> Absent]
    BY <1>2 DEF Crash
  <2>2. CallsOK'
    BY <2>1, IdleOK DEF CallsOK
  <2>3. DeliveriesOK'
    <3>1. NotDelivering \in Deliveries
      BY EmptySeq DEF NotDelivering, Deliveries, DeliveryLabels
    <3> QED
      BY <2>1, <3>1 DEF DeliveriesOK, DeliveryOK, NotDelivering
  <2>4. MemoryOK'
    BY <2>1, ServiceAssumption DEF MemoryOK, MessageIds, Names
  <2>5. PhaseOK'
    <3>1. crashes \in Nat /\ MaxCrashes \in Nat /\ crashes \in 0..MaxCrashes
      BY ServiceAssumption DEF Base, PhaseOK
    <3>2. crashes' \in 0..MaxCrashes
      BY <2>1, <3>1
    <3> QED
      BY <2>1, <3>2 DEF PhaseOK, Actors
  <2>6. TapsOK'
    <3>1. /\ taps \in Seq([token : Tokens, option : Options])
          /\ confirmed \in Nat /\ offset \in Nat /\ Len(taps) \in Nat
          /\ confirmed <= offset /\ offset <= Len(taps)
      BY LenProperties DEF Base, TapsOK
    <3>2. act'["poller"].pc = "idle"
      BY <2>1 DEF Actors, Idle
    <3> QED
      BY <1>1, <2>1, <3>1, <3>2 DEF TapsOK
  <2> QED
    BY <2>2, <2>3, <2>4, <2>5, <2>6 DEF Base
<1>3. CASE Restart \/ Recovered
  <2>1. UNCHANGED <<crashes, delivery, reader, messages, messageIds, act, offset, heard>>
    BY <1>3 DEF Restart, Recovered, memory
  <2>2. CallsOK' /\ DeliveriesOK' /\ MemoryOK'
    BY <2>1, CallsRest, DeliveriesRest, MemoryStays
  <2>3. TapsOK'
    BY <1>1, <2>1 DEF Base, TapsOK
  <2>4. ASSUME Restart PROVE PhaseOK'
    <3>1. phase = "down" /\ phase' = "recovering" /\ toRecover' = OpenIds
      BY <2>4 DEF Restart
    <3>2. \A i \in OpenIds : Exists(i)
      BY StatusKinds DEF OpenIds, Exists, IsOpen, OpenStatuses, Absent
    <3>3. OpenIds \subseteq Ids /\ \A a \in Callers : act[a] = Idle
      BY <3>1 DEF OpenIds, Base, PhaseOK
    <3>4. crashes \in 0..MaxCrashes
      BY DEF Base, PhaseOK
    <3>5. \A i \in OpenIds : Exists(i)'
      BY <1>1, <3>2 DEF Exists
    <3>6. /\ crashes' \in 0..MaxCrashes /\ phase' # "up" /\ phase' # "down"
          /\ phase' \in {"down", "recovering", "up"} /\ toRecover' \subseteq Ids
      BY <2>1, <3>1, <3>3, <3>4
    <3>7. /\ \A i \in toRecover' : Exists(i)'
          /\ \A a \in Callers : act'[a] = Idle
      BY <2>1, <3>1, <3>3, <3>5
    <3> QED
      BY <3>6, <3>7 DEF PhaseOK
  <2>5. ASSUME Recovered PROVE PhaseOK'
    <3>1. /\ phase = "recovering" /\ phase' = "up" /\ toRecover = {} /\ toRecover' = {}
          /\ act["boot"].pc = "idle"
      BY <2>5 DEF Recovered
    <3>2. act["boot"] = Idle
      BY <3>1 DEF Base, CallsOK, CallOK, Actors
    <3>3. crashes \in 0..MaxCrashes
      BY DEF Base, PhaseOK
    <3>4. /\ crashes' \in 0..MaxCrashes /\ act'["boot"] = Idle
          /\ phase' \in {"down", "recovering", "up"} /\ phase' = "up"
      BY <2>1, <3>1, <3>2, <3>3
    <3> QED
      BY <2>1, <3>1, <3>2, <3>4 DEF PhaseOK
  <2> QED
    BY <1>3, <2>2, <2>3, <2>4, <2>5 DEF Base
<1> QED
  BY <1>2, <1>3

\* Base is inductive.
LEMMA StepBase ==
  ASSUME Base, [Next]_vars
  PROVE  Base'
<1>1. Moves /\ HopHolds /\ TablesOK' /\ Kept
  BY StepMoves
<1> QED
  BY <1>1, ActorBase, DeliveryBase, RequestBase, PollerBase, WorldBase, CrashBase DEF Next, Poll

-----------------------------------------------------------------------------
(* Every state is good.                                                    *)

\* The first state is good.
LEMMA InitBase == Init => Base
<1> SUFFICES ASSUME Init PROVE Base
  OBVIOUS
<1>1. TablesOK
  <2>1. NoRow \in Rows /\ \A i \in Ids : RowOK(i, NoRow)
    BY DEF NoRow, Rows, RowOK, Absent
  <2> QED
    BY <2>1 DEF Init, TablesOK, TokenOK, NoToken
<1>2. CallsOK
  BY DEF Init, CallsOK, CallOK, Idle, Calls, Labels, Flows, MessageIds
<1>3. DeliveriesOK
  <2>1. NotDelivering \in Deliveries
    BY EmptySeq DEF NotDelivering, Deliveries, DeliveryLabels
  <2> QED
    BY <2>1 DEF Init, DeliveriesOK, DeliveryOK, NotDelivering
<1>4. MemoryOK
  BY ServiceAssumption DEF Init, MemoryOK, MessageIds, Names
<1>5. PhaseOK
  BY ServiceAssumption DEF Init, PhaseOK, Actors
<1>6. TapsOK
  <2>1. <<>> \in Seq([token : Tokens, option : Options]) /\ Len(<<>>) = 0
    BY EmptySeq
  <2> QED
    BY <2>1 DEF Init, TapsOK, Actors, Idle
<1> QED
  BY <1>1, <1>2, <1>3, <1>4, <1>5, <1>6 DEF Base

\* Every reachable state is good.
THEOREM BaseHolds == Spec => []Base
BY InitBase, StepBase, PTL DEF Spec

\* Tables, memories and tasks have their types whatever the interleaving.
THEOREM ServiceTypes == Spec => []TypeOK
<1>1. Base => TypeOK
  <2> SUFFICES ASSUME Base PROVE TypeOK
    OBVIOUS
  <2>1. /\ row \in [Ids -> Rows] /\ token \in [Tokens -> [id : Ids \cup {None}, revoked : BOOLEAN]]
        /\ expired \in [Ids -> BOOLEAN] /\ card \in [Tokens -> {"none", "up", "down"}]
    BY DEF Base, TablesOK
  <2>2. /\ taps \in Seq([token : Tokens, option : Options])
        /\ confirmed <= offset /\ offset <= Len(taps)
    BY DEF Base, TapsOK
  <2>3. crashes <= MaxCrashes /\ phase \in {"down", "recovering", "up"} /\ toRecover \subseteq Ids
    BY ServiceAssumption DEF Base, PhaseOK
  <2>4. \A i \in Ids : delivery[i].pc \in {"idle", "next", "token", "send", "sent", "mark", "hop"}
    BY DEF Base, DeliveriesOK, Deliveries, DeliveryLabels
  <2>5. /\ messages \in [Ids -> Tokens \cup {None}] /\ messageIds \in [Ids -> MessageIds]
        /\ heard \in [Ids -> Statuses \cup {Absent}] /\ reader \in [Ids -> BOOLEAN]
    BY DEF Base, MemoryOK
  <2>6. \A a \in Actors : act[a].pc \in Labels /\ act[a].mid \in MessageIds
    BY DEF Base, CallsOK, Calls
  <2> QED
    BY <2>1, <2>2, <2>3, <2>4, <2>5, <2>6 DEF TypeOK, Rows
<1> QED
  BY <1>1, BaseHolds, PTL

-----------------------------------------------------------------------------
(* The service implements Intervention.                                    *)

\* What is promised of a row that moves.
LEMMA MovePromised ==
  ASSUME TablesOK, Moves
  PROVE  [Promised!Next]_([i \in Ids |-> Record(row[i])])
<1> DEFINE rec == [i \in Ids |-> Record(row[i])]
           rec2 == [i \in Ids |-> Record(row'[i])]
<1>1. row \in [Ids -> Rows] /\ \A i \in Ids : RowOK(i, row[i])
  BY DEF TablesOK
<1>2. CASE row' = row
  BY <1>2
<1>3. ASSUME NEW i \in Ids, RowMoves(i), row' = [row EXCEPT ![i] = row'[i]]
      PROVE  [Promised!Next]_([j \in Ids |-> Record(row[j])])
  <2>1. \A j \in Ids \ {i} : row'[j] = row[j]
    BY <1>1, <1>3
  <2>2. CASE row'[i] = row[i]
    BY <2>1, <2>2
  <2>3. CASE row[i].status = Absent /\ row'[i] = NewRow(i)
    <3>1. rec[i].status = Absent
      BY <2>3 DEF Record
    <3>2. \A j \in Ids : rec[j].client # i
      <4>1. NoRow.client = None /\ None # i
        BY ServiceAssumption DEF NoRow
      <4> QED
        BY <1>1, <2>3, <4>1 DEF Record, RowOK
    <3>3. Record(NewRow(i)) = [client |-> i, status |-> "PENDING", decision |-> None, version |-> 1]
      BY DEF NewRow, NoRow, Record
    <3>4. rec2 = [rec EXCEPT ![i] = [client |-> i, status |-> "PENDING", decision |-> None,
                                     version |-> 1]]
      BY <2>1, <2>3, <3>3
    <3>5. Promised!Create(i, i)
      BY <3>1, <3>2, <3>4 DEF Promised!Create, Promised!Absent, Absent
    <3> QED
      BY <3>5 DEF Promised!Next
  <2>4. ASSUME NEW target \in Statuses, NEW option \in Options \cup {None},
               NEW channel \in Configured \cup {None},
               CanTransition(row[i].status, target), option # None <=> target = "RESOLVED",
               row'[i] = Updated(row[i], row[i], target, option, channel)
        PROVE  [Promised!Next]_([j \in Ids |-> Record(row[j])])
    <3>1. /\ CanTransition(rec[i].status, target)
          /\ option \in (IF target = "RESOLVED" THEN Options ELSE {None})
      BY <2>4 DEF Record
    <3>2. row[i].status # "RESOLVED"
      BY <2>4 DEF CanTransition, IsTerminal, TerminalStatuses
    <3>3. row[i].decision = None
      BY <1>1, <3>2 DEF RowOK
    <3>4. Record(row'[i]) = [client |-> rec[i].client, status |-> target,
                             decision |-> option, version |-> rec[i].version + 1]
      BY <2>4, <3>3 DEF Updated, Record
    <3>5. rec2 = [rec EXCEPT ![i].status = target, ![i].decision = option,
                             ![i].version = @ + 1]
      BY <2>1, <3>4 DEF Record
    <3>6. Promised!Transition(i, target, option)
      BY <3>1, <3>5 DEF Promised!Transition, Promised!CanTransition, CanTransition,
         Promised!IsTerminal, IsTerminal, Promised!TerminalStatuses, TerminalStatuses,
         Promised!Allowed, Allowed, Promised!Statuses, Statuses,
         Promised!OpenStatuses, OpenStatuses
    <3>7. target \in Promised!Statuses
      BY DEF Promised!Statuses, Statuses, Promised!TerminalStatuses, TerminalStatuses,
         Promised!OpenStatuses, OpenStatuses
    <3> QED
      BY <3>6, <3>7 DEF Promised!Next
  <2> QED
    BY <1>3, <2>2, <2>3, <2>4 DEF RowMoves
<1> QED
  BY <1>2, <1>3 DEF Moves

\* Through deliveries, decisions, timeouts, taps, crashes and recoveries the rows
\* take only the steps Intervention allows.
THEOREM Implementation == Spec => ImplementsIntervention
<1>1. Init => Promised!Init
  BY DEF Init, NoRow, Record, Promised!Init, Promised!NoRecord, Absent, Promised!Absent
<1>2. Base /\ [Next]_vars => [Promised!Next]_([i \in Ids |-> Record(row[i])])
  BY StepMoves, MovePromised DEF Base
<1> QED
  BY <1>1, <1>2, BaseHolds, PTL DEF Spec, ImplementsIntervention, Promised!Spec

-----------------------------------------------------------------------------
(* What subscribers hear is true.                                          *)

\* What is heard is what was heard, or what the row says; a crash ends it.
LEMMA HeardStep ==
  ASSUME Base, [Next]_vars
  PROVE  \/ \A i \in Ids : heard'[i] \in {heard[i], row'[i].status}
         \/ "crash" \in Faults /\ phase' = "down" /\ \A i \in Ids : heard'[i] = Absent
<1>1. Moves /\ Kept /\ TablesOK'
  BY StepMoves
<1>2. heard \in [Ids -> Statuses \cup {Absent}]
  BY DEF Base, MemoryOK
<1>3. ASSUME NEW j \in Ids, NEW status, Publish(j, status), status = row'[j].status
      PROVE  \A i \in Ids : heard'[i] \in {heard[i], row'[i].status}
  BY <1>2, <1>3 DEF Publish
<1>4. ASSUME NEW a \in Actors, NothingToRevoke(a) \/ Revoke(a)
      PROVE  \A i \in Ids : heard'[i] \in {heard[i], row'[i].status}
  <2>1. act[a].pc \in {"lookup", "revoke"} /\ Announce(a) /\ row' = row
    BY <1>4 DEF NothingToRevoke, Revoke
  <2>2. /\ Publish(act[a].id, act[a].update) /\ row'[act[a].id].status = act[a].update
        /\ act[a].id \in Ids
    BY <1>1, <2>1, AnnounceKeeps, CallFacts
  <2> QED
    BY <1>3, <2>2
<1>5. ASSUME NEW i \in Ids, MarkAwaiting(i)
      PROVE  \A j \in Ids : heard'[j] \in {heard[j], row'[j].status}
  BY <1>3, <1>5 DEF MarkAwaiting
<1>6. ASSUME NEW i \in Ids, AllFailed(i)
      PROVE  \A j \in Ids : heard'[j] \in {heard[j], row'[j].status}
  <2>1. CASE Verdict(row[i], "FAILED", None) = "update"
    <3>1. WriteRow(i, "FAILED", None, None) /\ Publish(i, "FAILED")
      BY <1>6, <2>1 DEF AllFailed
    <3>2. row'[i].status = "FAILED"
      BY <3>1 DEF WriteRow, Updated, Base, TablesOK
    <3> QED
      BY <1>3, <3>1, <3>2
  <2>2. CASE Verdict(row[i], "FAILED", None) # "update"
    BY <1>6, <2>2 DEF AllFailed
  <2> QED
    BY <2>1, <2>2
<1>7. CASE Crash
  BY <1>7 DEF Crash
<1>8. CASE heard' = heard
  BY <1>8
<1>9. ASSUME NEW a \in Actors, ActorStep(a)
      PROVE  \/ heard' = heard \/ NothingToRevoke(a) \/ Revoke(a)
  BY <1>9 DEF ActorStep, CreateReused, CreateNew, SpawnDelivery, Expire, ExpireCas, Settle, Refused,
     Lookup
<1>10. ASSUME NEW i \in Ids, DeliveryStep(i)
       PROVE  \/ heard' = heard \/ MarkAwaiting(i) \/ AllFailed(i)
  BY <1>10 DEF DeliveryStep, PickChannel, AllocateToken, SendCard, CardSent, PushCard,
     MarkNotified
<1>11. ASSUME \/ \E a \in Actors : HttpRequest(a)
              \/ \E i \in Ids : SendFails(i) \/ StdinLine(i) \/ ClockPasses(i) \/ Recover(i)
              \/ \E k \in Tokens, o \in Options : Tap(k, o)
              \/ Confirm \/ Poll \/ Restart \/ Recovered \/ UNCHANGED vars
       PROVE  heard' = heard
  BY <1>11 DEF HttpRequest, SendFails, StdinLine, ClockPasses, Recover, Tap, Confirm, Poll, PollTap,
     PollDeadTap, PollerClears, Restart, Recovered, vars
<1> QED
  BY <1>4, <1>5, <1>6, <1>7, <1>8, <1>9, <1>10, <1>11 DEF Next

\* A terminal broadcast is the truth.
LEMMA HeardTrue ==
  ASSUME Base, [Next]_vars, BroadcastIsTrue
  PROVE  /\ BroadcastIsTrue'
         /\ \A i \in Ids : IsTerminal(heard[i]) => heard'[i] = heard[i] \/ phase' = "down"
<1>1. \A i \in Ids : Settled(i) => row'[i] = row[i]
  BY StepMoves DEF Kept
<1>2. \A i \in Ids : IsTerminal(heard[i]) => row'[i].status = heard[i]
  BY <1>1 DEF BroadcastIsTrue, Settled
<1>3. ~IsTerminal(Absent)
  BY StatusKinds DEF IsTerminal, TerminalStatuses, Absent
<1> QED
  BY <1>2, <1>3, HeardStep DEF BroadcastIsTrue

\* A broadcast is the truth when a subscriber gets it, or a terminal one that
\* stays true, whatever delivers, decides, expires or crashes meanwhile.
THEOREM BroadcastsTrue == Spec => []BroadcastIsTrue
<1>1. Init => BroadcastIsTrue
  BY DEF Init, BroadcastIsTrue, IsTerminal, TerminalStatuses, Absent
<1>2. Base /\ [Next]_vars /\ BroadcastIsTrue => BroadcastIsTrue'
  BY HeardTrue
<1> QED
  BY <1>1, <1>2, BaseHolds, PTL DEF Spec

\* After a terminal broadcast every later one says the same, until a crash.
THEOREM BroadcastsFinal == Spec => BroadcastIsFinal
<1>1. Base /\ BroadcastIsTrue /\ [Next]_vars =>
        [\A i \in Ids : IsTerminal(heard[i]) => heard'[i] = heard[i] \/ phase' = "down"]_vars
  BY HeardTrue
<1> QED
  BY <1>1, BaseHolds, BroadcastsTrue, PTL DEF Spec, BroadcastIsFinal

-----------------------------------------------------------------------------
(* Who writes what.                                                        *)

\* What a row that changes is written by, and with.
LEMMA RowStep ==
  ASSUME Base, [Next]_vars, NEW i \in Ids, row'[i] # row[i]
  PROVE  \/ \E a \in Actors : CreateNew(a) /\ act[a].id = i /\ row'[i].status = "PENDING"
         \/ \E a \in Actors : ExpireCas(a) /\ act[a].id = i /\ row'[i].status = "TIMEOUT"
         \/ \E a \in Actors :
              /\ Settle(a) /\ act[a].id = i
              /\ Verdict(row[i], Target(act[a].flow), act[a].option) = "update"
              /\ WriteRow(i, Target(act[a].flow), act[a].option, None)
              /\ row'[i].status = Target(act[a].flow) /\ row'[i].channel = row[i].channel
         \/ MarkNotified(i) /\ row'[i].status = "NOTIFIED" /\ row'[i].channel = Channel(i)
         \/ /\ MarkAwaiting(i) /\ row[i].status = "NOTIFIED"
            /\ row'[i].status = "AWAITING_HUMAN" /\ row'[i].channel = Channel(i)
         \/ AllFailed(i) /\ row'[i].status = "FAILED" /\ heard'[i] = "FAILED"
<1>1. row \in [Ids -> Rows] /\ heard \in [Ids -> Statuses \cup {Absent}]
  BY DEF Base, TablesOK, MemoryOK
<1>2. ASSUME NEW j \in Ids, NEW target, NEW option, NEW channel, WriteRow(j, target, option, channel)
      PROVE  /\ j = i /\ row'[i].status = target
             /\ row'[i].channel = IF channel = None THEN row[i].channel ELSE channel
  BY <1>1, <1>2 DEF WriteRow, Updated
<1>3. ASSUME NEW j \in Ids, MarkNotified(j) \/ MarkAwaiting(j) PROVE Channel(j) # None
  <2>1. delivery[j].pc \in {"mark", "hop"}
    BY <1>3 DEF MarkNotified, MarkAwaiting
  <2> QED
    BY <2>1, DeliveryFacts, ServiceAssumption DEF DeliveryOK, Channel
<1>4. ASSUME NEW a \in Actors, CreateNew(a) PROVE act[a].id = i /\ row'[i].status = "PENDING"
  <2>1. row' = [row EXCEPT ![act[a].id] = NewRow(act[a].id)]
    BY <1>4 DEF CreateNew
  <2> QED
    BY <1>1, <2>1 DEF NewRow, NoRow
<1>5. ASSUME NEW a \in Actors, ExpireCas(a) PROVE act[a].id = i /\ row'[i].status = "TIMEOUT"
  <2>1. act[a].id \in Ids
    BY <1>5, CallFacts DEF ExpireCas
  <2>2. WriteRow(act[a].id, "TIMEOUT", None, None)
    BY <1>5 DEF ExpireCas
  <2> QED
    BY <1>2, <2>1, <2>2
<1>6. ASSUME NEW a \in Actors, Settle(a)
      PROVE  /\ act[a].id = i
             /\ Verdict(row[i], Target(act[a].flow), act[a].option) = "update"
             /\ WriteRow(i, Target(act[a].flow), act[a].option, None)
             /\ row'[i].status = Target(act[a].flow) /\ row'[i].channel = row[i].channel
  <2>1. act[a].id \in Ids
    BY <1>6, CallFacts DEF Settle
  <2>2. /\ Verdict(row[act[a].id], Target(act[a].flow), act[a].option) = "update"
        /\ WriteRow(act[a].id, Target(act[a].flow), act[a].option, None)
    BY <1>6 DEF Settle
  <2>3. /\ act[a].id = i /\ row'[i].status = Target(act[a].flow)
        /\ row'[i].channel = row[i].channel
    BY <1>2, <2>1, <2>2
  <2> QED
    BY <2>2, <2>3
<1>7. ASSUME NEW a \in Actors, ActorStep(a) PROVE CreateNew(a) \/ ExpireCas(a) \/ Settle(a)
  BY <1>7 DEF ActorStep, CreateReused, SpawnDelivery, Expire, Refused,
     Lookup, NothingToRevoke, Revoke, durable
<1>8. ASSUME NEW j \in Ids, MarkNotified(j)
      PROVE  j = i /\ row'[i].status = "NOTIFIED" /\ row'[i].channel = Channel(i)
  BY <1>2, <1>3, <1>8 DEF MarkNotified
<1>9. ASSUME NEW j \in Ids, MarkAwaiting(j)
      PROVE  /\ j = i /\ row[i].status = "NOTIFIED"
             /\ row'[i].status = "AWAITING_HUMAN" /\ row'[i].channel = Channel(i)
  <2>1. row' = [row EXCEPT ![j] = Awaited(row[j], Channel(j))]
    BY <1>9 DEF MarkAwaiting
  <2>2. j = i /\ row'[i] = Awaited(row[i], Channel(i))
    BY <1>1, <2>1
  <2> QED
    BY <1>3, <1>9, <2>2 DEF Awaited, Updated
<1>10. ASSUME NEW j \in Ids, AllFailed(j)
       PROVE  j = i /\ row'[i].status = "FAILED" /\ heard'[i] = "FAILED"
  <2>1. WriteRow(j, "FAILED", None, None) /\ Publish(j, "FAILED")
    BY <1>10 DEF AllFailed
  <2> QED
    BY <1>1, <1>2, <2>1 DEF Publish
<1>11. ASSUME NEW j \in Ids, DeliveryStep(j) PROVE MarkNotified(j) \/ MarkAwaiting(j) \/ AllFailed(j)
  BY <1>11 DEF DeliveryStep, PickChannel, AllocateToken, SendCard, CardSent, PushCard
<1>12. ~(\/ \E a \in Actors : HttpRequest(a)
         \/ \E j \in Ids : SendFails(j) \/ StdinLine(j) \/ ClockPasses(j) \/ Recover(j)
         \/ \E k \in Tokens, o \in Options : Tap(k, o)
         \/ Confirm \/ Poll \/ Crash \/ Restart \/ Recovered \/ UNCHANGED vars)
  BY DEF HttpRequest, SendFails, StdinLine, ClockPasses, Recover, Tap, Confirm, Poll, PollTap,
     PollDeadTap, PollerClears, Crash, Restart, Recovered, vars, durable
<1>13. (\E a \in Actors : ActorStep(a)) \/ (\E j \in Ids : DeliveryStep(j))
  BY <1>12 DEF Next
<1>14. CASE \E a \in Actors : ActorStep(a)
  BY <1>4, <1>5, <1>6, <1>7, <1>14
<1>15. CASE \E j \in Ids : DeliveryStep(j)
  BY <1>8, <1>9, <1>10, <1>11, <1>15
<1> QED
  BY <1>13, <1>14, <1>15

\* A call that is neither idle nor the poller's last is moved by its own steps.
LEMMA CallWaits ==
  ASSUME Base, [Next]_vars, NEW a \in Actors, act[a].pc \notin {"idle", "clear"},
         ~ActorStep(a), ~Crash
  PROVE  act'[a] = act[a]
<1>1. act \in [Actors -> Calls] /\ Kept /\ TablesOK'
  BY StepMoves DEF Base, CallsOK
<1>2. ASSUME NEW b \in Actors, ActorStep(b) PROVE act'[a] = act[a]
  <2>1. act' = [act EXCEPT ![b] = act'[b]]
    BY <1>1, <1>2, ActorCalls
  <2> QED
    BY <1>1, <1>2, <2>1
<1>3. ASSUME NEW b \in Actors, NEW flow, NEW j, NEW option, NEW mid, NEW label,
             Request(b, flow, j, option, mid, label)
      PROVE  act'[a] = act[a]
  BY <1>1, <1>3 DEF Request
<1>4. ASSUME NEW b \in Actors, HttpRequest(b) PROVE act'[a] = act[a]
  BY <1>3, <1>4 DEF HttpRequest
<1>5. ASSUME NEW j \in Ids, StdinLine(j) PROVE act'[a] = act[a]
  BY <1>3, <1>5 DEF StdinLine, Actors
<1>6. ASSUME NEW j \in Ids, Recover(j) PROVE act'[a] = act[a]
  BY <1>3, <1>6 DEF Recover, Actors
<1>7. CASE PollTap
  BY <1>3, <1>7 DEF PollTap, Actors
<1>8. CASE PollerClears
  BY <1>1, <1>8 DEF PollerClears, Return
<1>9. ASSUME NEW j \in Ids, DeliveryStep(j) \/ SendFails(j) \/ ClockPasses(j) PROVE act' = act
  BY <1>9 DEF DeliveryStep, SendFails, PickChannel, AllocateToken, SendCard, CardSent, PushCard,
     MarkNotified, MarkAwaiting, AllFailed, DeliveryElsewhere, ClockPasses
<1>10. ASSUME \/ \E k \in Tokens, o \in Options : Tap(k, o)
              \/ Confirm \/ PollDeadTap \/ Restart \/ Recovered \/ UNCHANGED vars
       PROVE  act' = act
  BY <1>10 DEF Tap, Confirm, PollDeadTap, Restart, Recovered, vars
<1> QED
  BY <1>2, <1>4, <1>5, <1>6, <1>7, <1>8, <1>9, <1>10 DEF Next, Poll

-----------------------------------------------------------------------------
(* A late decision never wins.                                             *)

\* Only the update of a decide that began before the deadline resolves a row.
LEMMA ResolvedByDecide ==
  ASSUME Base, [Next]_vars, NEW i \in Ids, row[i].status # "RESOLVED", row'[i].status = "RESOLVED"
  PROVE  \E a \in Actors : act[a].id = i /\ act[a].pc = "cas" /\ act'[a].pc = "lookup"
                          /\ ~act[a].late
<1>1. PICK a \in Actors :
        /\ Settle(a) /\ act[a].id = i /\ Target(act[a].flow) = "RESOLVED"
        /\ Verdict(row[i], Target(act[a].flow), act[a].option) = "update"
  BY RowStep
<1>2. act[a].pc = "cas" /\ act' = [act EXCEPT ![a].pc = "lookup", ![a].update = Target(act[a].flow)]
  BY <1>1 DEF Settle
<1>3. act'[a].pc = "lookup"
  BY <1>2 DEF Base, CallsOK, Calls
<1>4. CallOK(act[a], a) /\ act[a] \in Calls
  BY <1>2, CallFacts
<1>5. act[a].flow = "decide"
  BY <1>1 DEF Target
<1>6. ~IsTerminal(row[i].status)
  BY <1>1, VerdictIs DEF MayUpdate, CanTransition
<1>7. ~act[a].late
  BY <1>1, <1>2, <1>4, <1>5, <1>6 DEF CallOK, Settled, Calls
<1> QED
  BY <1>1, <1>2, <1>3, <1>7

\* However the clock, the timeout check and other callers interleave with it, a
\* decide that began after the deadline resolves nothing.
THEOREM LateLoses == Spec => LateDecisionNeverWins
<1>1. Base /\ [Next]_vars =>
        [\A i \in Ids :
           row[i].status # "RESOLVED" /\ row'[i].status = "RESOLVED" =>
             \E a \in Actors : act[a].id = i /\ act[a].pc = "cas" /\ act'[a].pc = "lookup"
                              /\ ~act[a].late]_vars
  BY ResolvedByDecide
<1> QED
  BY <1>1, BaseHolds, PTL DEF Spec, LateDecisionNeverWins

-----------------------------------------------------------------------------
(* One task at a time delivers an intervention.                            *)

\* Nobody newly takes charge.
LEMMA ChargeStays ==
  ASSUME ChargeOK, toRecover' \subseteq toRecover,
         \A i \in Ids : delivery'[i].pc # "idle" => delivery[i].pc # "idle",
         \A i \in Ids : \A a \in Actors : Spawns(a, i)' => Spawns(a, i)
  PROVE  ChargeOK'
BY DEF ChargeOK

\* Who has charge of an intervention knows it exists.
LEMMA SpawnsExists ==
  ASSUME Base, NEW a \in Actors, NEW i \in Ids, Spawns(a, i)
  PROVE  Exists(i) /\ act[a].pc # "idle" /\ act[a].pc \notin {"create", "cas"}
<1>1. act[a].pc # "idle"
  BY DEF Spawns, Base, CallsOK, CallOK, Idle
<1> QED
  BY <1>1, CallFacts DEF Spawns, FlowOK

\* A call that moves on takes charge of nothing new, unless it creates.
LEMMA ActorSpawns ==
  ASSUME Base, NEW a \in Actors, ActorStep(a), ~CreateNew(a)
  PROVE  /\ \A b \in Actors \ {a} : act'[b] = act[b]
         /\ \A i \in Ids : Spawns(a, i)' => Spawns(a, i)
<1>1. act[a].pc # "idle"
  BY DEF ActorStep, CreateReused, CreateNew, SpawnDelivery, Expire, ExpireCas, Settle, Refused,
     Lookup, NothingToRevoke, Revoke
<1>2. act[a] \in Calls /\ FlowOK(act[a], a) /\ act \in [Actors -> Calls]
  BY <1>1, CallFacts DEF Base, CallsOK
<1>3. ASSUME Return(a)
      PROVE  (\A b \in Actors \ {a} : act'[b] = act[b]) /\ \A i \in Ids : Spawns(a, i)' => Spawns(a, i)
  BY <1>2, <1>3, ServiceAssumption DEF Return, Idle, Spawns
<1>4. ASSUME NEW label, Goto(a, label), label # "spawn"
      PROVE  (\A b \in Actors \ {a} : act'[b] = act[b]) /\ \A i \in Ids : Spawns(a, i)' => Spawns(a, i)
  BY <1>2, <1>4 DEF Goto, Spawns, Calls
<1>5. ASSUME Goon(a)
      PROVE  (\A b \in Actors \ {a} : act'[b] = act[b]) /\ \A i \in Ids : Spawns(a, i)' => Spawns(a, i)
  <2>1. CASE act[a].flow = "decide"
    BY <1>4, <1>5, <2>1 DEF Goon
  <2>2. CASE act[a].flow = "recover"
    BY <1>2, <1>5, <2>2 DEF Goon, Goto, Spawns, Calls
  <2>3. CASE act[a].flow \notin {"decide", "recover"}
    BY <1>3, <1>5, <2>3 DEF Goon
  <2> QED
    BY <2>1, <2>2, <2>3
<1>6. CASE CreateReused(a) \/ SpawnDelivery(a) \/ Refused(a)
  BY <1>3, <1>6 DEF CreateReused, SpawnDelivery, Refused
<1>7. CASE Expire(a)
  BY <1>4, <1>5, <1>7 DEF Expire
<1>8. CASE ExpireCas(a)
  <2>1. CASE act[a].flow = "decide"
    BY <1>5, <1>8, <2>1 DEF ExpireCas
  <2>2. CASE act[a].flow # "decide"
    <3>1. act' = [act EXCEPT ![a].pc = "lookup", ![a].update = row'[act[a].id].status]
      BY <1>8, <2>2 DEF ExpireCas
    <3> QED
      BY <1>2, <3>1 DEF Spawns, Calls
  <2> QED
    BY <2>1, <2>2
<1>9. CASE Settle(a)
  <2>1. act' = [act EXCEPT ![a].pc = "lookup", ![a].update = Target(act[a].flow)]
    BY <1>9 DEF Settle
  <2> QED
    BY <1>2, <2>1 DEF Spawns, Calls
<1>10. CASE Lookup(a)
  <2>1. PICK k : act' = [act EXCEPT ![a].pc = "revoke", ![a].card = k]
    BY <1>10 DEF Lookup
  <2> QED
    BY <1>2, <2>1 DEF Spawns, Calls
<1>11. CASE NothingToRevoke(a) \/ Revoke(a)
  BY <1>3, <1>4, <1>11 DEF NothingToRevoke, Revoke, Announce
<1> QED
  BY <1>6, <1>7, <1>8, <1>9, <1>10, <1>11 DEF ActorStep

\* A request of a kind that recovers nothing takes charge of nothing.
LEMMA RequestSpawns ==
  ASSUME Base, NEW a \in Actors, NEW flow, NEW j, NEW option, NEW mid, NEW label,
         Request(a, flow, j, option, mid, label), flow # "recover", label # "spawn"
  PROVE  /\ \A b \in Actors \ {a} : act'[b] = act[b]
         /\ \A i \in Ids : ~Spawns(a, i)'
BY DEF Request, Idle, Spawns, Base, CallsOK

\* What does not create, deliver, recover or restart takes charge of nothing.
LEMMA OtherSpawns ==
  ASSUME Base,
         \/ \E a \in Actors : HttpRequest(a) \/ (ActorStep(a) /\ ~CreateNew(a))
         \/ \E i \in Ids : StdinLine(i) \/ ClockPasses(i) \/ DeliveryStep(i) \/ SendFails(i)
         \/ \E k \in Tokens, o \in Options : Tap(k, o)
         \/ Confirm \/ Poll \/ Recovered \/ UNCHANGED vars
  PROVE  \A i \in Ids : \A a \in Actors : Spawns(a, i)' => Spawns(a, i)
<1>1. ASSUME act' = act PROVE \A i \in Ids : \A a \in Actors : Spawns(a, i)' => Spawns(a, i)
  BY <1>1 DEF Spawns
<1>2. ASSUME NEW b \in Actors, \A c \in Actors \ {b} : act'[c] = act[c],
             \A i \in Ids : Spawns(b, i)' => Spawns(b, i)
      PROVE  \A i \in Ids : \A a \in Actors : Spawns(a, i)' => Spawns(a, i)
  BY <1>2 DEF Spawns
<1>3. ASSUME NEW a \in Actors, ActorStep(a), ~CreateNew(a)
      PROVE  \A i \in Ids : \A b \in Actors : Spawns(b, i)' => Spawns(b, i)
  BY <1>2, <1>3, ActorSpawns
<1>4. ASSUME NEW a \in Actors, HttpRequest(a)
      PROVE  \A i \in Ids : \A b \in Actors : Spawns(b, i)' => Spawns(b, i)
  BY <1>2, <1>4, RequestSpawns DEF HttpRequest
<1>5. ASSUME NEW j \in Ids, StdinLine(j)
      PROVE  \A i \in Ids : \A b \in Actors : Spawns(b, i)' => Spawns(b, i)
  BY <1>1, <1>2, <1>5, RequestSpawns DEF StdinLine, Actors
<1>6. CASE PollTap
  BY <1>2, <1>6, RequestSpawns DEF PollTap, Actors
<1>7. CASE PollDeadTap
  BY <1>1, <1>7 DEF PollDeadTap
<1>8. CASE PollerClears
  <2>1. "poller" \in Actors /\ Return("poller") /\ act["poller"].pc = "clear"
    BY <1>8 DEF PollerClears, Actors
  <2>2. act' = [act EXCEPT !["poller"] = Idle] /\ act \in [Actors -> Calls]
    BY <2>1 DEF Return, Base, CallsOK
  <2>3. \A i \in Ids : ~Spawns("poller", i)'
    BY <2>1, <2>2, ServiceAssumption DEF Spawns, Idle
  <2> QED
    BY <1>2, <2>1, <2>2, <2>3
<1>9. ASSUME NEW j \in Ids, DeliveryStep(j) \/ SendFails(j) \/ ClockPasses(j) PROVE act' = act
  BY <1>9 DEF DeliveryStep, SendFails, PickChannel, AllocateToken, SendCard, CardSent, PushCard,
     MarkNotified, MarkAwaiting, AllFailed, DeliveryElsewhere, ClockPasses
<1>10. ASSUME \/ \E k \in Tokens, o \in Options : Tap(k, o)
              \/ Confirm \/ Recovered \/ UNCHANGED vars
       PROVE  act' = act
  BY <1>10 DEF Tap, Confirm, Recovered, vars
<1> QED
  BY <1>1, <1>3, <1>4, <1>5, <1>6, <1>7, <1>8, <1>9, <1>10 DEF Poll

\* Every step keeps one task at a time in charge.
LEMMA StepCharge ==
  ASSUME Base, ChargeOK, [Next]_vars
  PROVE  ChargeOK'
<1>1. CASE Crash
  <2>1. \A i \in Ids, a \in Actors : ~Spawns(a, i)'
    BY <1>1, ServiceAssumption DEF Crash, Spawns, Idle
  <2>2. toRecover' = {}
    BY <1>1 DEF Crash
  <2> QED
    BY <2>1, <2>2 DEF ChargeOK
<1>2. CASE Restart
  <2>1. phase = "down" /\ act' = act /\ delivery' = delivery
    BY <1>2 DEF Restart
  <2>2. act = [a \in Actors |-> Idle] /\ delivery = [i \in Ids |-> NotDelivering]
    BY <2>1 DEF Base, PhaseOK
  <2>3. \A i \in Ids, a \in Actors : ~Spawns(a, i)'
    BY <2>1, <2>2, ServiceAssumption DEF Spawns, Idle
  <2>4. \A i \in Ids : delivery'[i].pc = "idle"
    BY <2>1, <2>2 DEF NotDelivering
  <2> QED
    BY <2>3, <2>4 DEF ChargeOK
<1>3. ASSUME NEW j \in Ids, Recover(j) PROVE ChargeOK'
  <2>1. /\ j \in toRecover /\ toRecover' = toRecover \ {j} /\ delivery' = delivery
        /\ Request("boot", "recover", j, None, None, "expire") /\ "boot" \in Actors
    BY <1>3 DEF Recover, Actors
  <2>2. \A b \in Actors \ {"boot"} : act'[b] = act[b]
    BY <2>1 DEF Request, Base, CallsOK
  <2>3. act'["boot"].id = j
    BY <2>1 DEF Request, Idle, Base, CallsOK
  <2>4. \A i \in Ids, b \in Actors : Spawns(b, i)' => IF b = "boot" THEN i = j ELSE Spawns(b, i)
    BY <2>2, <2>3 DEF Spawns
  <2>5. /\ \A b \in Actors : ~Spawns(b, j)
        /\ delivery[j].pc = "idle"
    BY <2>1 DEF ChargeOK
  <2> QED
    BY <2>1, <2>4, <2>5 DEF ChargeOK
<1>4. ASSUME NEW a \in Actors, CreateNew(a) PROVE ChargeOK'
  <2> DEFINE j == act[a].id
  <2>1. /\ act[a].pc = "create" /\ row[j].status = Absent /\ Goto(a, "spawn")
        /\ toRecover' = toRecover /\ delivery' = delivery
    BY <1>4 DEF CreateNew, Elsewhere, process
  <2>2. j \in Ids
    BY <2>1, CallFacts
  <2>3. ~Exists(j)
    BY <2>1 DEF Exists
  <2>4. /\ \A b \in Actors : ~Spawns(b, j)
        /\ delivery[j].pc = "idle" /\ j \notin toRecover
    BY <2>2, <2>3, SpawnsExists, DeliveryFacts DEF Base, PhaseOK
  <2>5. act'[a].id = j /\ \A b \in Actors \ {a} : act'[b] = act[b]
    BY <2>1 DEF Goto, Base, CallsOK, Calls
  <2>6. \A i \in Ids, b \in Actors : Spawns(b, i)' => IF b = a THEN i = j ELSE Spawns(b, i)
    BY <2>5 DEF Spawns
  <2> QED
    BY <2>1, <2>2, <2>4, <2>6 DEF ChargeOK
<1>5. ASSUME NEW a \in Actors, SpawnDelivery(a) PROVE ChargeOK'
  <2> DEFINE j == act[a].id
  <2>1. /\ act[a].pc = "spawn" /\ toRecover' = toRecover /\ Return(a)
        /\ \A i \in Ids : delivery'[i].pc # "idle" => i = j \/ delivery[i].pc # "idle"
    BY <1>5 DEF SpawnDelivery, process, Base, DeliveriesOK
  <2>2. j \in Ids /\ Spawns(a, j)
    BY <2>1, CallFacts DEF Spawns
  <2>3. act'[a] = Idle /\ \A b \in Actors \ {a} : act'[b] = act[b]
    BY <2>1 DEF Return, Base, CallsOK
  <2>4. \A i \in Ids, b \in Actors : Spawns(b, i)' => b # a /\ Spawns(b, i)
    BY <2>3, ServiceAssumption DEF Spawns, Idle
  <2> QED
    BY <2>1, <2>2, <2>4 DEF ChargeOK
<1>6. ASSUME \A i \in Ids : \A a \in Actors : Spawns(a, i)' => Spawns(a, i),
             toRecover' = toRecover,
             \A i \in Ids : delivery'[i].pc # "idle" => delivery[i].pc # "idle"
      PROVE  ChargeOK'
  BY <1>6, ChargeStays
<1>7. ASSUME NEW a \in Actors, ActorStep(a), ~CreateNew(a), ~SpawnDelivery(a) PROVE ChargeOK'
  <2>1. toRecover' = toRecover /\ delivery' = delivery
    BY <1>7 DEF ActorStep, CreateReused, Expire, ExpireCas, Settle, Refused,
       Lookup, NothingToRevoke, Revoke, Elsewhere, process
  <2> QED
    BY <1>6, <1>7, <2>1, OtherSpawns
<1>8. ASSUME NEW j \in Ids, DeliveryStep(j) \/ SendFails(j) PROVE ChargeOK'
  <2>1. toRecover' = toRecover
    BY <1>8 DEF DeliveryStep, SendFails, PickChannel, AllocateToken, SendCard, CardSent, PushCard,
     MarkNotified, MarkAwaiting, AllFailed, DeliveryElsewhere, process
  <2>2. delivery[j].pc # "idle"
    BY <1>8 DEF DeliveryStep, SendFails, PickChannel, AllocateToken, SendCard, CardSent, PushCard,
     MarkNotified, MarkAwaiting, AllFailed
  <2>3. delivery' = [delivery EXCEPT ![j] = delivery'[j]]
    BY <1>8, StepMoves, DeliveryKeeps DEF Next
  <2>4. \A i \in Ids : delivery'[i].pc # "idle" => delivery[i].pc # "idle"
    BY <2>2, <2>3 DEF Base, DeliveriesOK
  <2> QED
    BY <1>6, <1>8, <2>1, <2>4, OtherSpawns
<1>9. ASSUME \/ \E a \in Actors : HttpRequest(a)
             \/ \E i \in Ids : StdinLine(i) \/ ClockPasses(i)
             \/ \E k \in Tokens, o \in Options : Tap(k, o)
             \/ Confirm \/ Poll \/ Recovered \/ UNCHANGED vars
      PROVE  ChargeOK'
  <2>1. toRecover' = toRecover /\ delivery' = delivery
    BY <1>9 DEF HttpRequest, StdinLine, ClockPasses, Tap, Confirm, Poll, PollTap,
       PollDeadTap, PollerClears, Recovered, vars, process
  <2>2. \A i \in Ids : \A a \in Actors : Spawns(a, i)' => Spawns(a, i)
    BY <1>9, OtherSpawns
  <2> QED
    BY <1>6, <2>1, <2>2
<1> QED
  BY <1>1, <1>2, <1>3, <1>4, <1>5, <1>7, <1>8, <1>9 DEF Next

\* One at a time has charge of an intervention.
THEOREM ChargeHolds == Spec => []ChargeOK
<1>1. Init => ChargeOK
  BY ServiceAssumption DEF Init, ChargeOK, Spawns, Idle
<1> QED
  BY <1>1, StepCharge, BaseHolds, PTL DEF Spec

\* One task at a time delivers an intervention: create does not deliver a reused
\* one, and recover_open runs before any request is served.
THEOREM DeliversOnce == Spec => []OneDelivery
<1>1. Base /\ ChargeOK => OneDelivery
  BY CallFacts DEF OneDelivery, ChargeOK, Spawns
<1> QED
  BY <1>1, BaseHolds, ChargeHolds, PTL

-----------------------------------------------------------------------------
(* A human is asked.                                                       *)

Unasked == {"PENDING", "NOTIFIED"}

\* How a step that changes a row of an intervention leaves it unasked, or asks.
LEMMA AskedStep ==
  ASSUME Base, [Next]_vars, NEW i \in Ids, row'[i] # row[i]
  PROVE  /\ row'[i].status \in Unasked =>
              \/ \E a \in Actors : CreateNew(a) /\ act[a].id = i
              \/ MarkNotified(i)
         /\ row'[i].status = "AWAITING_HUMAN" => MarkAwaiting(i) /\ row[i].status = "NOTIFIED"
BY RowStep DEF Unasked, Target

\* A call in charge stays in charge, hands over to a delivery, or leaves a
\* settled row.
LEMMA ActorChases ==
  ASSUME Base, "snapshot" \notin Faults, NEW a \in Actors, NEW i \in Ids, Spawns(a, i), ActorStep(a)
  PROVE  Spawns(a, i)' \/ delivery'[i].pc # "idle" \/ Settled(i)
<1>1. act[a].pc # "idle" /\ act[a].pc \notin {"create", "cas"} /\ Exists(i)
  BY SpawnsExists
<1>2. /\ act[a] \in Calls /\ act \in [Actors -> Calls] /\ act[a].id = i
      /\ FlowOK(act[a], a) /\ CallOK(act[a], a)
  BY <1>1, CallFacts DEF Base, CallsOK, Spawns
<1>3. CASE SpawnDelivery(a)
  <2>1. delivery'[i] = [NotDelivering EXCEPT !.pc = "next", !.todo = Preferred]
    BY <1>2, <1>3 DEF SpawnDelivery, Base, DeliveriesOK
  <2> QED
    BY <2>1 DEF NotDelivering
<1>4. CASE act[a].pc = "spawn" /\ ~SpawnDelivery(a)
  BY <1>4 DEF ActorStep, CreateReused, CreateNew, Expire, ExpireCas, Settle, Refused, Lookup,
     NothingToRevoke, Revoke
<1>5. CASE act[a].pc # "spawn"
  <2>1. act[a].flow = "recover"
    BY <1>5 DEF Spawns
  <2>2. ASSUME NEW label, Goto(a, label) PROVE Spawns(a, i)'
    BY <1>2, <2>1, <2>2 DEF Goto, Spawns, Calls
  <2>3. CASE Expire(a)
    BY <2>1, <2>2, <2>3 DEF Expire, Goon
  <2>4. CASE ExpireCas(a)
    <3>1. act' = [act EXCEPT ![a].pc = "lookup", ![a].update = row'[i].status]
      BY <1>2, <2>1, <2>4 DEF ExpireCas
    <3> QED
      BY <1>2, <2>1, <3>1 DEF Spawns, Calls
  <2>5. CASE act[a].pc \in {"lookup", "revoke"}
    BY <1>2, <2>5 DEF CallOK
  <2> QED
    BY <1>1, <1>5, <2>3, <2>4, <2>5 DEF ActorStep, CreateReused, CreateNew, SpawnDelivery, Settle, Refused, Lookup,
       NothingToRevoke, Revoke
<1> QED
  BY <1>3, <1>4, <1>5

\* A delivery goes on, or has asked or settled.
LEMMA DeliveryChases ==
  ASSUME Base, NEW i \in Ids, delivery[i].pc # "idle", DeliveryStep(i) \/ SendFails(i)
  PROVE  delivery'[i].pc # "idle" \/ row'[i].status \notin Unasked
<1>1. delivery \in [Ids -> Deliveries] /\ row \in [Ids -> Rows] /\ Exists(i) /\ DeliveryOK(delivery[i], i)
      /\ delivery[i] \in Deliveries
  BY DeliveryFacts DEF Base, DeliveriesOK, TablesOK
<1>2. CASE MarkAwaiting(i)
  <2>1. /\ row' = [row EXCEPT ![i] = Awaited(row[i], Channel(i))]
        /\ delivery[i].pc = "hop" \/ row[i].status # "PENDING"
    BY <1>2 DEF MarkAwaiting
  <2>2. row[i].status # "PENDING"
    BY <1>1, <2>1 DEF DeliveryOK
  <2>3. row'[i] = Awaited(row[i], Channel(i))
    BY <1>1, <2>1
  <2> QED
    BY <2>2, <2>3 DEF Awaited, Updated, Unasked
<1>3. CASE AllFailed(i)
  <2>1. CASE Verdict(row[i], "FAILED", None) = "update"
    <3>1. WriteRow(i, "FAILED", None, None)
      BY <1>3, <2>1 DEF AllFailed
    <3> QED
      BY <1>1, <3>1 DEF WriteRow, Updated, Unasked
  <2>2. CASE Verdict(row[i], "FAILED", None) # "update"
    <3>1. ~MayUpdate(row[i], "FAILED", None) /\ row' = row
      BY <1>3, <2>2, VerdictIs DEF AllFailed
    <3> QED
      BY <3>1 DEF MayUpdate, CanTransition, Allowed, IsTerminal, TerminalStatuses, Unasked
  <2> QED
    BY <2>1, <2>2
<1>4. ASSUME Deliver(i, [NotDelivering EXCEPT !.pc = "next", !.todo = Tail(delivery[i].todo)])
      PROVE  delivery'[i].pc # "idle"
  BY <1>1, <1>4 DEF Deliver, NotDelivering
<1>5. ASSUME NEW label, label # "idle",
             \/ Deliver(i, [delivery[i] EXCEPT !.pc = label])
             \/ \E k \in Tokens : Deliver(i, [delivery[i] EXCEPT !.pc = label, !.token = k])
      PROVE  delivery'[i].pc # "idle"
  BY <1>1, <1>5 DEF Deliver, Deliveries
<1>6. CASE PickChannel(i)
  BY <1>4, <1>5, <1>6 DEF PickChannel, NextChannel
<1>7. CASE AllocateToken(i)
  BY <1>5, <1>7 DEF AllocateToken
<1>8. CASE SendCard(i) \/ CardSent(i) \/ PushCard(i) \/ MarkNotified(i)
  BY <1>5, <1>8 DEF SendCard, CardSent, PushCard, MarkNotified
<1>9. CASE SendFails(i)
  BY <1>4, <1>9 DEF SendFails, NextChannel
<1> QED
  BY <1>2, <1>3, <1>6, <1>7, <1>8, <1>9 DEF DeliveryStep

\* Somebody has charge until a human is asked or the row is settled.
LEMMA StepChased ==
  ASSUME Base, "snapshot" \notin Faults, [Next]_vars, NEW i \in Ids, row[i].status \in Unasked => Chased(i),
         row'[i].status \in Unasked
  PROVE  Chased(i)'
<1>1. Kept /\ TablesOK'
  BY StepMoves
<1>2. act \in [Actors -> Calls] /\ delivery \in [Ids -> Deliveries] /\ row \in [Ids -> Rows]
  BY DEF Base, CallsOK, DeliveriesOK, TablesOK
<1>3. ~Settled(i)
  BY <1>1 DEF Kept, Settled, IsTerminal, TerminalStatuses, Unasked
<1>4. CASE Crash
  BY <1>4 DEF Crash, Chased
<1>5. CASE Restart
  <2>1. row' = row /\ toRecover' = OpenIds
    BY <1>5 DEF Restart, durable
  <2> QED
    BY <2>1 DEF OpenIds, Chased, Unasked, IsOpen, OpenStatuses
<1>6. ASSUME NEW a \in Actors, CreateNew(a), act[a].id = i PROVE Chased(i)'
  BY <1>2, <1>6 DEF CreateNew, Goto, Chased, Spawns, Calls
<1>7. ASSUME MarkNotified(i) PROVE Chased(i)'
  BY <1>7, DeliveryChases DEF MarkNotified, DeliveryStep, Chased
<1>8. CASE Chased(i) /\ ~Crash /\ ~Restart
  <2>1. CASE phase = "down"
    <3>1. phase' = "down"
      <4>1. \A a \in Actors : act[a].pc = "idle"
        BY <2>1 DEF Base, PhaseOK, Idle
      <4>2. \A j \in Ids : delivery[j].pc = "idle" /\ ~reader[j] /\ j \notin toRecover
        BY <2>1 DEF Base, PhaseOK, NotDelivering
      <4>3. \A a \in Actors : ~ActorStep(a) /\ ~HttpRequest(a)
        BY <2>1, <4>1 DEF ActorStep, CreateReused, CreateNew, SpawnDelivery, Expire, ExpireCas, Settle,
           Refused, Lookup, NothingToRevoke, Revoke, HttpRequest
      <4>4. \A j \in Ids : ~DeliveryStep(j) /\ ~SendFails(j) /\ ~StdinLine(j) /\ ~Recover(j)
        BY <4>2 DEF DeliveryStep, SendFails, PickChannel, AllocateToken, SendCard, CardSent, PushCard,
           MarkNotified, MarkAwaiting, AllFailed, StdinLine, Recover
      <4>5. ~Poll /\ ~Confirm /\ ~Recovered
        BY <2>1, <4>1 DEF Poll, PollTap, PollDeadTap, PollerClears, Confirm, Recovered, Actors
      <4> QED
        BY <1>8, <2>1, <4>3, <4>4, <4>5 DEF Next, ClockPasses, Tap, vars, process
    <3> QED
      BY <3>1 DEF Chased
  <2>2. CASE i \in toRecover
    <3>1. CASE Recover(i)
      <4>1. "boot" \in Actors /\ act'["boot"].id = i /\ act'["boot"].flow = "recover"
        BY <1>2, <3>1 DEF Recover, Request, Idle, Actors
      <4> QED
        BY <4>1 DEF Chased, Spawns
    <3>2. CASE ~Recover(i)
      <4>1. ASSUME NEW j \in Ids, j # i, Recover(j) PROVE i \in toRecover'
        BY <2>2, <4>1 DEF Recover
      <4>2. ASSUME NEW a \in Actors, ActorStep(a) \/ HttpRequest(a) PROVE toRecover' = toRecover
        BY <4>2 DEF ActorStep, CreateReused, CreateNew, SpawnDelivery, Expire, ExpireCas, Settle, Refused,
           Lookup, NothingToRevoke, Revoke, Elsewhere, process, HttpRequest
      <4>3. ASSUME NEW j \in Ids, DeliveryStep(j) \/ SendFails(j) \/ StdinLine(j) \/ ClockPasses(j)
            PROVE  toRecover' = toRecover
        BY <4>3 DEF DeliveryStep, SendFails, PickChannel, AllocateToken, SendCard, CardSent, PushCard,
           MarkNotified, MarkAwaiting, AllFailed, DeliveryElsewhere, process, StdinLine, ClockPasses
      <4>4. ASSUME \/ \E k \in Tokens, o \in Options : Tap(k, o)
                   \/ Confirm \/ Poll \/ Recovered \/ UNCHANGED vars
            PROVE  toRecover' = toRecover
        BY <4>4 DEF Tap, Confirm, Poll, PollTap, PollDeadTap, PollerClears, Recovered, vars, process
      <4>5. i \in toRecover'
        BY <1>8, <2>2, <3>2, <4>1, <4>2, <4>3, <4>4 DEF Next
      <4> QED
        BY <4>5 DEF Chased
    <3> QED
      BY <3>1, <3>2
  <2>3. CASE delivery[i].pc # "idle"
    <3>1. CASE DeliveryStep(i) \/ SendFails(i)
      BY <2>3, <3>1, DeliveryChases DEF Chased
    <3>2. CASE ~DeliveryStep(i) /\ ~SendFails(i)
      <4>1. ASSUME NEW j \in Ids, j # i, DeliveryStep(j) \/ SendFails(j)
            PROVE  delivery'[i] = delivery[i]
        <5>1. delivery' = [delivery EXCEPT ![j] = delivery'[j]]
          BY <1>1, <4>1, DeliveryKeeps
        <5> QED
          BY <1>2, <4>1, <5>1
      <4>2. ASSUME NEW a \in Actors, ActorStep(a)
            PROVE  delivery'[i].pc # "idle"
        <5>1. CASE SpawnDelivery(a)
          <6>1. delivery'[act[a].id].pc = "next" \/ act[a].id # i
            BY <1>2, <5>1 DEF SpawnDelivery, NotDelivering
          <6>2. act[a].id # i => delivery'[i] = delivery[i]
            BY <1>2, <5>1 DEF SpawnDelivery
          <6> QED
            BY <2>3, <6>1, <6>2
        <5>2. CASE ~SpawnDelivery(a)
          BY <2>3, <4>2, <5>2 DEF ActorStep, CreateReused, CreateNew, Expire, ExpireCas, Settle, Refused,
             Lookup, NothingToRevoke, Revoke, Elsewhere
        <5> QED
          BY <5>1, <5>2
      <4>3. ASSUME \/ \E a \in Actors : HttpRequest(a)
                   \/ \E j \in Ids : StdinLine(j) \/ ClockPasses(j) \/ Recover(j)
                   \/ \E k \in Tokens, o \in Options : Tap(k, o)
                   \/ Confirm \/ Poll \/ Recovered \/ UNCHANGED vars
            PROVE  delivery' = delivery
        BY <4>3 DEF HttpRequest, StdinLine, ClockPasses, Recover, Tap, Confirm, Poll, PollTap,
           PollDeadTap, PollerClears, Recovered, vars
      <4>4. delivery'[i].pc # "idle"
        BY <1>8, <2>3, <3>2, <4>1, <4>2, <4>3 DEF Next
      <4> QED
        BY <4>4 DEF Chased
    <3> QED
      BY <3>1, <3>2
  <2>4. ASSUME NEW a \in Actors, Spawns(a, i) PROVE Chased(i)'
    <3>1. CASE ActorStep(a)
      BY <1>3, <2>4, <3>1, ActorChases DEF Chased
    <3>2. CASE ~ActorStep(a)
      <4>1. act[a].pc # "idle" /\ act[a].pc \notin {"create", "cas"}
        BY <2>4, SpawnsExists
      <4>2. CASE act[a].pc = "clear"
        <5>1. Settled(i)
          BY <2>4, <4>1, <4>2, CallFacts DEF CallOK, Spawns
        <5> QED
          BY <1>3, <5>1
      <4>3. CASE act[a].pc # "clear"
        <5>1. act'[a] = act[a]
          BY <1>8, <3>2, <4>1, <4>3, CallWaits
        <5> QED
          BY <2>4, <5>1 DEF Chased, Spawns
      <4> QED
        BY <4>2, <4>3
    <3> QED
      BY <3>1, <3>2
  <2> QED
    BY <1>8, <2>1, <2>2, <2>3, <2>4 DEF Chased
<1>9. CASE row'[i] = row[i]
  BY <1>4, <1>5, <1>8, <1>9
<1>10. CASE row'[i] # row[i]
  BY <1>6, <1>7, <1>10, AskedStep
<1> QED
  BY <1>9, <1>10

\* Once a human is asked on Telegram there is a card.
LEMMA StepAsked ==
  ASSUME Base, AskedOK, "snapshot" \notin Faults, [Next]_vars
  PROVE  AskedOK'
<1>1. Kept /\ TablesOK /\ TablesOK'
  BY StepMoves DEF Base
<1>2. ASSUME NEW i \in Ids, row'[i].status = "AWAITING_HUMAN", row'[i].channel = "telegram"
      PROVE  \E k \in Tokens : token'[k].id = i /\ card'[k] # "none"
  <2>1. CASE row'[i] = row[i]
    BY <1>1, <1>2, <2>1, ServiceAssumption DEF AskedOK, Kept
  <2>2. CASE row'[i] # row[i]
    <3>1. MarkAwaiting(i) /\ row[i].status = "NOTIFIED"
      BY <1>2, <2>2, AskedStep
    <3>2. row'[i] = Updated(row[i], row[i], "AWAITING_HUMAN", None, Channel(i))
      BY <1>1, <3>1 DEF MarkAwaiting, Awaited, TablesOK
    <3>3. delivery[i].pc \in {"mark", "hop"} /\ token' = token /\ card' = card
      BY <3>1 DEF MarkAwaiting
    <3>4. DeliveryOK(delivery[i], i)
      BY DEF Base, DeliveriesOK
    <3>5. Channel(i) \in Configured
      BY <3>3, <3>4 DEF DeliveryOK, Channel
    <3>6. Channel(i) = "telegram"
      BY <1>2, <3>2, <3>5, ServiceAssumption DEF Updated
    <3> QED
      BY <3>3, <3>4, <3>6 DEF DeliveryOK, Channel
  <2> QED
    BY <2>1, <2>2
<1>3. \A i \in Ids : row'[i].status \in Unasked => Chased(i)'
  BY StepChased DEF AskedOK, Unasked
<1> QED
  BY <1>2, <1>3 DEF AskedOK, Unasked

\* Somebody has charge of what nobody has been asked about, if no snapshot fails
\* to be stored.
THEOREM AskedHolds ==
  ASSUME "snapshot" \notin Faults
  PROVE  Spec => []AskedOK
<1>1. Init => AskedOK
  BY DEF Init, AskedOK, NoRow, Absent
<1> QED
  BY <1>1, StepAsked, BaseHolds, PTL DEF Spec

\* While the daemon serves and has nothing running for an open intervention, a
\* human has been asked, and on Telegram there is a card whose buttons the store
\* still accepts: no crash in create, _deliver or recover_open strands it.  (create
\* strands it when the snapshot cannot be stored: hence the assumption.)
THEOREM Answerable ==
  ASSUME "snapshot" \notin Faults
  PROVE  Spec => []StillAnswerable
<1>1. Base /\ AskedOK => StillAnswerable
  <2> SUFFICES ASSUME Base, AskedOK, NEW i \in Ids, Quiet(i), IsOpen(row[i].status)
               PROVE  /\ row[i].status = "AWAITING_HUMAN"
                      /\ row[i].channel = "telegram" =>
                           \E k \in Tokens : token[k] = [id |-> i, revoked |-> FALSE] /\ card[k] = "up"
    BY DEF StillAnswerable
  <2>1. ~Chased(i)
    BY DEF Quiet, Chased, Spawns, Base, PhaseOK
  <2>2. row[i].status = "AWAITING_HUMAN"
    BY <2>1 DEF AskedOK, IsOpen, OpenStatuses
  <2>3. ~Settled(i)
    BY <2>2 DEF Settled, IsTerminal, TerminalStatuses
  <2>4. ASSUME row[i].channel = "telegram"
        PROVE  \E k \in Tokens : token[k] = [id |-> i, revoked |-> FALSE] /\ card[k] = "up"
    <3>1. PICK k \in Tokens : token[k].id = i /\ card[k] # "none"
      BY <2>2, <2>4 DEF AskedOK
    <3>2. /\ token[k] \in [id : Ids \cup {None}, revoked : BOOLEAN]
          /\ card[k] \in {"none", "up", "down"} /\ TokenOK(k)
      BY DEF Base, TablesOK
    <3>3. token[k].revoked = FALSE /\ card[k] = "up"
      BY <2>3, <3>1, <3>2 DEF TokenOK
    <3>4. token[k] = [id |-> i, revoked |-> FALSE]
      BY <3>1, <3>2, <3>3
    <3> QED
      BY <3>3, <3>4
  <2> QED
    BY <2>2, <2>4
<1> QED
  BY <1>1, BaseHolds, AskedHolds, PTL

-----------------------------------------------------------------------------
(* Without a crash every outcome reaches the subscribers.                  *)

\* A call about to announce does so, or is still about to.
LEMMA AboutToAnnounce ==
  ASSUME Base, [Next]_vars, "crash" \notin Faults, NEW i \in Ids, NEW a \in Actors,
         act[a].id = i, act[a].pc \in {"lookup", "revoke"}
  PROVE  \/ act'[a].id = i /\ act'[a].pc \in {"lookup", "revoke"}
         \/ (NothingToRevoke(a) \/ Revoke(a)) /\ heard'[i] = row'[i].status
<1>1. ~Crash
  BY DEF Crash
<1>2. act \in [Actors -> Calls] /\ Kept /\ heard \in [Ids -> Statuses \cup {Absent}]
  BY StepMoves DEF Base, CallsOK, MemoryOK
<1>3. CASE ~ActorStep(a)
  BY <1>1, <1>3, CallWaits
<1>4. CASE Lookup(a)
  <2>1. PICK k : act' = [act EXCEPT ![a].pc = "revoke", ![a].card = k]
    BY <1>4 DEF Lookup
  <2> QED
    BY <1>2, <2>1 DEF Calls
<1>5. CASE NothingToRevoke(a) \/ Revoke(a)
  <2>1. Announce(a) /\ row' = row
    BY <1>5 DEF NothingToRevoke, Revoke
  <2>2. Publish(i, act[a].update) /\ row[i].status = act[a].update
    BY <1>2, <2>1, AnnounceKeeps
  <2> QED
    BY <1>2, <1>5, <2>1, <2>2 DEF Publish
<1>6. CASE ActorStep(a) /\ ~Lookup(a) /\ ~NothingToRevoke(a) /\ ~Revoke(a)
  BY <1>6 DEF ActorStep, CreateReused, CreateNew, SpawnDelivery, Expire, ExpireCas, Settle, Refused
<1> QED
  BY <1>3, <1>4, <1>5, <1>6

\* An outcome has been announced, or a call is about to.
LEMMA StepOutcome ==
  ASSUME Base, OutcomeOK, [Next]_vars, "crash" \notin Faults
  PROVE  OutcomeOK'
<1> DEFINE Outcomes == {"RESOLVED", "CANCELLED", "FAILED"}
<1>1. ASSUME NEW i \in Ids, row'[i].status \in Outcomes
      PROVE  \/ heard'[i] = row'[i].status
             \/ \E a \in Actors : act'[a].id = i /\ act'[a].pc \in {"lookup", "revoke"}
  <2>1. CASE row'[i] # row[i]
    <3>1. CASE heard'[i] = "FAILED" /\ row'[i].status = "FAILED"
      BY <3>1
    <3>2. ASSUME NEW a \in Actors, Settle(a), act[a].id = i
          PROVE  act'[a].id = i /\ act'[a].pc \in {"lookup", "revoke"}
      <4>1. act' = [act EXCEPT ![a].pc = "lookup", ![a].update = Target(act[a].flow)]
        BY <3>2 DEF Settle
      <4> QED
        BY <3>2, <4>1 DEF Base, CallsOK, Calls
    <3> QED
      BY <1>1, <2>1, <3>1, <3>2, RowStep
  <2>2. CASE row'[i] = row[i]
    <3>1. CASE heard[i] = row[i].status
      BY <2>2, <3>1, HeardStep
    <3>2. ASSUME NEW a \in Actors, act[a].id = i, act[a].pc \in {"lookup", "revoke"}
          PROVE  \/ heard'[i] = row'[i].status
                 \/ \E b \in Actors : act'[b].id = i /\ act'[b].pc \in {"lookup", "revoke"}
      BY <3>2, AboutToAnnounce
    <3> QED
      BY <1>1, <2>2, <3>1, <3>2 DEF OutcomeOK
  <2> QED
    BY <2>1, <2>2
<1> QED
  BY <1>1 DEF OutcomeOK

\* While the daemon does not crash, every outcome a person or a client brought
\* about has been broadcast once the tasks of its intervention are done, whatever
\* fails to be sent or revoked.
THEOREM OutcomesBroadcast ==
  ASSUME "crash" \notin Faults
  PROVE  Spec => []OutcomeIsBroadcast
<1>1. Init => OutcomeOK
  BY DEF Init, OutcomeOK, NoRow, Absent
<1>2. Base /\ OutcomeOK /\ [Next]_vars => OutcomeOK'
  BY StepOutcome
<1>3. Base /\ OutcomeOK => OutcomeIsBroadcast
  BY DEF OutcomeOK, OutcomeIsBroadcast, Quiet
<1> QED
  BY <1>1, <1>2, <1>3, BaseHolds, PTL DEF Spec

-----------------------------------------------------------------------------
(* Without faults an answered intervention is torn down.                   *)

\* Where the intervention of a token comes from.
LEMMA TokenStep ==
  ASSUME Base, [Next]_vars, NEW k \in Tokens
  PROVE  \/ token'[k].id = token[k].id
         \/ \E i \in Ids :
              /\ AllocateToken(i) /\ token[k] = NoToken /\ token'[k].id = i
              /\ Deliver(i, [delivery[i] EXCEPT !.pc = "send", !.token = k])
              /\ \A j \in Tokens \ {k} : token'[j] = token[j]
<1>1. token \in [Tokens -> [id : Ids \cup {None}, revoked : BOOLEAN]]
  BY DEF Base, TablesOK
<1>2. ASSUME NEW i, NEW target, NEW option, NEW channel, WriteRow(i, target, option, channel)
      PROVE  token'[k].id = token[k].id
  BY <1>1, <1>2 DEF WriteRow, RevokeAll
<1>3. ASSUME NEW i \in Ids, AllocateToken(i)
      PROVE  \/ token'[k].id = token[k].id
             \/ /\ AllocateToken(i) /\ token[k] = NoToken /\ token'[k].id = i
                /\ Deliver(i, [delivery[i] EXCEPT !.pc = "send", !.token = k])
                /\ \A j \in Tokens \ {k} : token'[j] = token[j]
  <2>1. PICK m \in Tokens : /\ token[m] = NoToken
                            /\ token' = [token EXCEPT ![m] = [id |-> i, revoked |-> FALSE]]
                            /\ Deliver(i, [delivery[i] EXCEPT !.pc = "send", !.token = m])
    BY <1>3 DEF AllocateToken
  <2>2. CASE m = k
    BY <1>1, <1>3, <2>1, <2>2
  <2>3. CASE m # k
    BY <1>1, <2>1, <2>3
  <2> QED
    BY <2>2, <2>3
<1>4. ASSUME NEW a \in Actors, ActorStep(a) PROVE token'[k].id = token[k].id
  <2>1. CASE ExpireCas(a) \/ Settle(a)
    BY <1>2, <2>1 DEF ExpireCas, Settle
  <2>2. CASE ~ExpireCas(a) /\ ~Settle(a)
    BY <1>4, <2>2 DEF ActorStep, CreateReused, CreateNew, SpawnDelivery, Expire, Refused,
       Lookup, NothingToRevoke, Revoke, durable
  <2> QED
    BY <2>1, <2>2
<1>5. ASSUME NEW i \in Ids, DeliveryStep(i), ~AllocateToken(i) PROVE token'[k].id = token[k].id
  <2>1. CASE MarkNotified(i) \/ AllFailed(i)
    BY <1>2, <2>1 DEF MarkNotified, AllFailed
  <2>2. CASE ~MarkNotified(i) /\ ~AllFailed(i)
    BY <1>5, <2>2 DEF DeliveryStep, PickChannel, SendCard, CardSent, PushCard, MarkAwaiting
  <2> QED
    BY <2>1, <2>2
<1>6. ASSUME \/ \E a \in Actors : HttpRequest(a)
             \/ \E j \in Ids : SendFails(j) \/ StdinLine(j) \/ ClockPasses(j) \/ Recover(j)
             \/ \E j \in Tokens, o \in Options : Tap(j, o)
             \/ Confirm \/ Poll \/ Crash \/ Restart \/ Recovered \/ UNCHANGED vars
      PROVE  token' = token
  BY <1>6 DEF HttpRequest, SendFails, StdinLine, ClockPasses, Recover, Tap, Confirm, Poll, PollTap,
     PollDeadTap, PollerClears, Crash, Restart, Recovered, vars, durable
<1> QED
  BY <1>3, <1>4, <1>5, <1>6 DEF Next

\* Without faults the daemon serves for good.
LEMMA StaysUp ==
  ASSUME Base, Faults \subseteq {"snapshot"}, phase = "up", [Next]_vars
  PROVE  /\ phase' = "up" /\ ~Crash /\ ~Restart /\ ~Recovered
         /\ \A i \in Ids : ~Recover(i) /\ ~SendFails(i)
         /\ \A k : TakeDown(k) => card' = [card EXCEPT ![k] = "down"]
<1>1. ~Crash /\ ~Restart /\ ~Recovered
  BY DEF Crash, Restart, Recovered
<1>2. \A i \in Ids : ~Recover(i) /\ ~SendFails(i)
  BY DEF Recover, SendFails, Base, PhaseOK
<1>3. \A k : TakeDown(k) => card' = [card EXCEPT ![k] = "down"]
  BY DEF TakeDown
<1>4. ASSUME NEW a \in Actors, ActorStep(a) \/ HttpRequest(a) PROVE phase' = phase
  BY <1>4 DEF ActorStep, CreateReused, CreateNew, SpawnDelivery, Expire, ExpireCas, Settle, Refused,
     Lookup, NothingToRevoke, Revoke, Elsewhere, process, HttpRequest
<1>5. ASSUME NEW j \in Ids, DeliveryStep(j) \/ StdinLine(j) \/ ClockPasses(j)
      PROVE  phase' = phase
  BY <1>5 DEF DeliveryStep, PickChannel, AllocateToken, SendCard, CardSent, PushCard,
     MarkNotified, MarkAwaiting, AllFailed, DeliveryElsewhere, process, StdinLine, ClockPasses
<1>6. ASSUME \/ \E k \in Tokens, o \in Options : Tap(k, o)
             \/ Confirm \/ Poll \/ UNCHANGED vars
      PROVE  phase' = phase
  BY <1>6 DEF Tap, Confirm, Poll, PollTap, PollDeadTap, PollerClears, vars, process
<1> QED
  BY <1>1, <1>2, <1>3, <1>4, <1>5, <1>6 DEF Next

\* A delivery that is at a channel stays at it till it is done.
LEMMA DeliveryAhead ==
  ASSUME Base, [Next]_vars, Faults \subseteq {"snapshot"}, phase = "up", NEW i \in Ids,
         delivery[i].pc \notin {"next", "token"}, \A a \in Actors : ~Spawns(a, i)
  PROVE  /\ delivery'[i].pc \notin {"next", "token"}
         /\ delivery'[i].pc # "idle" => /\ delivery'[i].todo = delivery[i].todo
                                        /\ delivery'[i].token = delivery[i].token
                                        /\ delivery[i].pc # "idle"
         /\ Early(i)' => Early(i)
<1>1. delivery \in [Ids -> Deliveries] /\ Kept /\ TablesOK'
  BY StepMoves DEF Base, DeliveriesOK
<1> DEFINE Goal == /\ delivery'[i].pc \notin {"next", "token"}
                   /\ delivery'[i].pc # "idle" => /\ delivery'[i].todo = delivery[i].todo
                                                  /\ delivery'[i].token = delivery[i].token
                                                  /\ delivery[i].pc # "idle"
                   /\ Early(i)' => Early(i)
<1>2. CASE delivery'[i] = delivery[i]
  BY <1>2 DEF Early
<1>3. ASSUME NEW label \in {"sent", "mark", "hop"}, Deliver(i, [delivery[i] EXCEPT !.pc = label]),
             delivery[i].pc \in {"send", "sent", "mark"}
      PROVE  Goal
  BY <1>1, <1>3 DEF Deliver, Deliveries, Early
<1>4. ASSUME Deliver(i, NotDelivering) PROVE Goal
  BY <1>1, <1>4 DEF Deliver, NotDelivering, Early
<1>5. ASSUME NEW j \in Ids, j # i, DeliveryStep(j) PROVE delivery'[i] = delivery[i]
  <2>1. delivery' = [delivery EXCEPT ![j] = delivery'[j]]
    BY <1>1, <1>5, DeliveryKeeps
  <2> QED
    BY <1>1, <1>5, <2>1
<1>6. CASE DeliveryStep(i)
  <2>1. ~PickChannel(i) /\ ~AllocateToken(i) /\ ~AllFailed(i)
    BY DEF PickChannel, AllocateToken, AllFailed
  <2>2. CASE SendCard(i) \/ CardSent(i) \/ PushCard(i) \/ MarkNotified(i)
    BY <1>3, <2>2 DEF SendCard, CardSent, PushCard, MarkNotified
  <2>3. CASE MarkAwaiting(i)
    BY <1>4, <2>3 DEF MarkAwaiting
  <2> QED
    BY <1>6, <2>1, <2>2, <2>3 DEF DeliveryStep
<1>7. ASSUME NEW a \in Actors, ActorStep(a) PROVE delivery'[i] = delivery[i]
  <2>1. CASE SpawnDelivery(a)
    <3>1. act[a].id # i
      BY <2>1 DEF SpawnDelivery, Spawns
    <3> QED
      BY <1>1, <2>1, <3>1 DEF SpawnDelivery
  <2>2. CASE ~SpawnDelivery(a)
    BY <1>7, <2>2 DEF ActorStep, CreateReused, CreateNew, Expire, ExpireCas, Settle, Refused,
       Lookup, NothingToRevoke, Revoke, Elsewhere
  <2> QED
    BY <2>1, <2>2
<1>8. ASSUME \/ \E a \in Actors : HttpRequest(a)
             \/ \E j \in Ids : StdinLine(j) \/ ClockPasses(j)
             \/ \E k \in Tokens, o \in Options : Tap(k, o)
             \/ Confirm \/ Poll \/ UNCHANGED vars
      PROVE  delivery' = delivery
  BY <1>8 DEF HttpRequest, StdinLine, ClockPasses, Tap, Confirm, Poll, PollTap,
     PollDeadTap, PollerClears, vars
<1> QED
  BY <1>2, <1>5, <1>6, <1>7, <1>8, StaysUp DEF Next

\* Who sends a card, and who takes it down.
LEMMA CardStep ==
  ASSUME Base, [Next]_vars, Faults \subseteq {"snapshot"}, phase = "up", NEW k \in Tokens, card'[k] = "up"
  PROVE  \/ /\ card[k] = "up"
            /\ \A a \in Actors : Revoke(a) => act[a].card # k
            /\ PollerClears => CardOf(act["poller"].id, act["poller"].mid) # k
         \/ \E i \in Ids : SendCard(i) /\ delivery[i].token = k
<1>1. card \in [Tokens -> {"none", "up", "down"}]
  BY DEF Base, TablesOK
<1>2. ASSUME NEW j, card' = [card EXCEPT ![j] = "down"] PROVE j # k
  BY <1>1, <1>2
<1>3. ASSUME NEW a \in Actors, Revoke(a) PROVE act[a].card # k
  BY <1>2, <1>3, StaysUp DEF Revoke
<1>4. PollerClears => CardOf(act["poller"].id, act["poller"].mid) # k
  BY <1>2, StaysUp DEF PollerClears
<1>5. ASSUME card[k] # "up" PROVE \E i \in Ids : SendCard(i) /\ delivery[i].token = k
  <2>1. ASSUME NEW i \in Ids, SendCard(i) PROVE delivery[i].token = k
    BY <1>1, <1>5, <2>1 DEF SendCard
  <2>2. ASSUME NEW j, TakeDown(j) PROVE FALSE
    BY <1>1, <1>5, <2>2 DEF TakeDown
  <2>3. ~PollerClears /\ \A a \in Actors : ~Revoke(a)
    BY <2>2 DEF PollerClears, Revoke
  <2>4. \A a \in Actors : ~ActorStep(a)
    BY <1>5, <2>3 DEF ActorStep, CreateReused, CreateNew, SpawnDelivery, Expire, ExpireCas, Settle,
       Refused, Lookup, NothingToRevoke, Elsewhere, durable
  <2>5. \A i \in Ids : DeliveryStep(i) => SendCard(i)
    BY <1>5 DEF DeliveryStep, PickChannel, AllocateToken, CardSent, PushCard,
       MarkNotified, MarkAwaiting, AllFailed
  <2>6. ~(\/ \E a \in Actors : HttpRequest(a)
          \/ \E j \in Ids : SendFails(j) \/ StdinLine(j) \/ ClockPasses(j) \/ Recover(j)
          \/ \E j \in Tokens, o \in Options : Tap(j, o)
          \/ Confirm \/ PollTap \/ PollDeadTap \/ Crash \/ Restart \/ Recovered \/ UNCHANGED vars)
    BY <1>5 DEF HttpRequest, SendFails, StdinLine, ClockPasses, Recover, Tap, Confirm, PollTap,
       PollDeadTap, Crash, Restart, Recovered, vars, durable
  <2> QED
    BY <2>1, <2>3, <2>4, <2>5, <2>6 DEF Next, Poll
<1> QED
  BY <1>3, <1>4, <1>5

\* Who remembers a card, and who forgets it.
LEMMA MessageStep ==
  ASSUME Base, [Next]_vars, Faults \subseteq {"snapshot"}, phase = "up", NEW i \in Ids
  PROVE  \/ /\ messages'[i] = messages[i] /\ ~CardSent(i)
         \/ CardSent(i) /\ messages'[i] = delivery[i].token
         \/ /\ messages'[i] = None
            /\ \/ \E a \in Actors : Revoke(a) /\ act[a].id = i
               \/ PollerClears /\ act["poller"].id = i
<1>1. messages \in [Ids -> Tokens \cup {None}]
  BY DEF Base, MemoryOK
<1>2. ASSUME NEW j \in Ids, CardSent(j)
      PROVE  IF j = i THEN messages'[i] = delivery[i].token ELSE messages'[i] = messages[i] /\ ~CardSent(i)
  <2>1. messages' = [messages EXCEPT ![j] = delivery[j].token]
    BY <1>2 DEF CardSent
  <2>2. ASSUME j # i, CardSent(i) PROVE FALSE
    <3>1. delivery' = [delivery EXCEPT ![i] = [delivery[i] EXCEPT !.pc = "mark"]]
          /\ delivery' = [delivery EXCEPT ![j] = [delivery[j] EXCEPT !.pc = "mark"]]
          /\ delivery[i].pc = "sent"
      BY <1>2, <2>2 DEF CardSent, Deliver
    <3>2. delivery'[i].pc = "mark" /\ delivery'[i] = delivery[i]
      BY <2>2, <3>1 DEF Base, DeliveriesOK, Deliveries
    <3> QED
      BY <3>1, <3>2
  <2> QED
    BY <1>1, <2>1, <2>2
<1>3. ASSUME NEW a \in Actors, Revoke(a) PROVE IF act[a].id = i THEN messages'[i] = None ELSE messages'[i] = messages[i]
  BY <1>1, <1>3 DEF Revoke
<1>4. ASSUME PollerClears
      PROVE  IF act["poller"].id = i THEN messages'[i] = None ELSE messages'[i] = messages[i]
  BY <1>1, <1>4 DEF PollerClears
<1>5. ASSUME NEW a \in Actors, ActorStep(a), ~Revoke(a) PROVE messages' = messages
  BY <1>5 DEF ActorStep, CreateReused, CreateNew, SpawnDelivery, Expire, ExpireCas, Settle,
     Refused, Lookup, NothingToRevoke, memory
<1>6. ASSUME NEW j \in Ids, DeliveryStep(j), ~CardSent(j) PROVE messages' = messages
  BY <1>6 DEF DeliveryStep, PickChannel, AllocateToken, SendCard, PushCard,
     MarkNotified, MarkAwaiting, AllFailed, memory
<1>7. ASSUME \/ \E a \in Actors : HttpRequest(a)
             \/ \E j \in Ids : StdinLine(j) \/ ClockPasses(j)
             \/ \E j \in Tokens, o \in Options : Tap(j, o)
             \/ Confirm \/ PollTap \/ PollDeadTap \/ UNCHANGED vars
      PROVE  messages' = messages
  BY <1>7 DEF HttpRequest, StdinLine, ClockPasses, Tap, Confirm, PollTap, PollDeadTap, vars, memory
<1>8. CardSent(i) => messages'[i] = delivery[i].token
  BY <1>1 DEF CardSent
<1> QED
  BY <1>2, <1>3, <1>4, <1>5, <1>6, <1>7, <1>8, StaysUp DEF Next, Poll

\* Without a crash only create takes charge of anything.
LEMMA SpawnStep ==
  ASSUME Base, [Next]_vars, Faults \subseteq {"snapshot"}, phase = "up", NEW i \in Ids, NEW a \in Actors,
         Spawns(a, i)', ~Spawns(a, i)
  PROVE  ~Exists(i) /\ row'[i].status = "PENDING"
<1>1. ASSUME NEW b \in Actors, CreateNew(b) PROVE ~Exists(i) /\ row'[i].status = "PENDING"
  <2>1. /\ act' = [act EXCEPT ![b].pc = "spawn"] /\ row[act[b].id].status = Absent
        /\ row' = [row EXCEPT ![act[b].id] = NewRow(act[b].id)]
    BY <1>1 DEF CreateNew, Goto
  <2>2. a = b /\ act[b].id = i
    BY <2>1 DEF Spawns, Base, CallsOK, Calls
  <2>3. row'[i] = NewRow(i)
    BY <2>1, <2>2 DEF Base, TablesOK
  <2> QED
    BY <2>1, <2>2, <2>3 DEF Exists, NewRow, NoRow
<1>2. ~(\A j \in Ids : \A b \in Actors : Spawns(b, j)' => Spawns(b, j))
  OBVIOUS
<1> QED
  BY <1>1, <1>2, OtherSpawns, StaysUp DEF Next

\* The one card of an intervention is shown while its delivery is at it, or is
\* remembered for its revocation.
LEMMA StepCards ==
  ASSUME Base, ChargeOK, CardsOK, [Next]_vars
  PROVE  CardsOK'
<1>1. /\ Kept /\ TablesOK /\ TablesOK' /\ Base' /\ None \notin Ids
      /\ Faults \subseteq {"snapshot"} /\ phase = "up" /\ phase' = "up"
  BY StepMoves, StepBase, StaysUp, ServiceAssumption DEF Base, CardsOK
<1>2. /\ \A k \in Tokens : CardOK(k)
      /\ \A j, k \in Tokens : token[j].id = token[k].id /\ token[j].id # None => j = k
      /\ \A i \in Ids :
           Early(i) \/ (\E a \in Actors : Spawns(a, i)) => row[i].status \notin AskedStatuses
  BY DEF CardsOK
<1>3. ASSUME NEW k \in Tokens, NEW i \in Ids, token[k].id = i PROVE CardOK(k)'
  <2>1. /\ "telegram" \in Configured
        /\ delivery[i].pc \notin {"next", "token"} /\ \A a \in Actors : ~Spawns(a, i)
        /\ delivery[i].pc # "idle" => Head(delivery[i].todo) = "telegram" /\ delivery[i].token = k
        /\ row[i].status \in AskedStatuses => row[i].channel = "telegram"
        /\ card[k] = "up" => delivery[i].pc = "sent" \/ messages[i] = k
    BY <1>1, <1>2, <1>3 DEF CardOK, Channel
  <2>2. token'[k].id = i /\ Exists(i)
    BY <1>1, <1>3 DEF Kept, TablesOK, TokenOK
  <2>3. /\ delivery'[i].pc \notin {"next", "token"}
        /\ delivery'[i].pc # "idle" => Head(delivery'[i].todo) = "telegram" /\ delivery'[i].token = k
    BY <1>1, <2>1, DeliveryAhead
  <2>4. \A a \in Actors : ~Spawns(a, i)'
    BY <1>1, <2>1, <2>2, SpawnStep
  <2>5. row'[i].status \in AskedStatuses => row'[i].channel = "telegram"
    <3>1. CASE row'[i] = row[i]
      BY <2>1, <3>1
    <3>2. CASE row'[i] # row[i]
      <4>1. MarkNotified(i) \/ MarkAwaiting(i) => Channel(i) = "telegram"
        BY <2>1 DEF MarkNotified, MarkAwaiting, Channel
      <4>2. ASSUME NEW a \in Actors, row'[i].status = "RESOLVED", row'[i].status = Target(act[a].flow),
                   Verdict(row[i], Target(act[a].flow), act[a].option) = "update"
            PROVE  row[i].status \in AskedStatuses
        <5>1. CanTransition(row[i].status, "RESOLVED")
          BY <4>2, VerdictIs DEF MayUpdate
        <5> QED
          BY <5>1 DEF CanTransition, Allowed, AskedStatuses, TerminalStatuses
      <4> QED
        BY <2>1, <3>2, <4>1, <4>2, RowStep DEF AskedStatuses, Target
    <3> QED
      BY <3>1, <3>2
  <2>6. ASSUME card'[k] = "up" PROVE delivery'[i].pc = "sent" \/ messages'[i] = k
    <3>1. ASSUME NEW j \in Ids, SendCard(j), delivery[j].token = k
          PROVE  delivery'[i].pc = "sent"
      <4>1. delivery[j].pc = "send" /\ Head(delivery[j].todo) = "telegram"
        BY <3>1 DEF SendCard, Channel
      <4>2. token[k].id = j
        BY <3>1, <4>1, DeliveryFacts DEF DeliveryOK
      <4>3. delivery' = [delivery EXCEPT ![i] = [delivery[i] EXCEPT !.pc = "sent"]]
        BY <1>3, <3>1, <4>2 DEF SendCard, Deliver
      <4> QED
        BY <4>3 DEF Base, DeliveriesOK, Deliveries
    <3>2. ASSUME card[k] = "up", \A a \in Actors : Revoke(a) => act[a].card # k,
                 PollerClears => CardOf(act["poller"].id, act["poller"].mid) # k
          PROVE  delivery'[i].pc = "sent" \/ messages'[i] = k
      <4>1. CASE CardSent(i)
        <5>1. delivery[i].token = k /\ messages'[i] = delivery[i].token
          BY <2>1, <4>1 DEF CardSent, Base, MemoryOK
        <5> QED
          BY <5>1
      <4>2. ASSUME NEW a \in Actors, Revoke(a), act[a].id = i PROVE FALSE
        <5>1. act[a].pc = "revoke"
          BY <4>2 DEF Revoke
        <5>2. act[a].card \in Tokens /\ token[act[a].card].id = i
          BY <4>2, <5>1, CallFacts DEF CallOK, Names
        <5>3. act[a].card = k
          BY <1>1, <1>2, <1>3, <5>2
        <5> QED
          BY <3>2, <4>2, <5>3
      <4>3. ASSUME PollerClears, act["poller"].id = i PROVE FALSE
        <5>1. act["poller"].pc = "clear" /\ "poller" \in Actors
          BY <4>3 DEF PollerClears, Actors
        <5>2. act["poller"].mid \in Tokens /\ Names(act["poller"].mid, i)
          BY <4>3, <5>1, CallFacts DEF CallOK, FlowOK
        <5> DEFINE m == CardOf(act["poller"].id, act["poller"].mid)
        <5>3. m \in Tokens /\ token[m].id = i
          BY <4>3, <5>2, CardOfIs DEF Names, MessageIds
        <5>4. m = k
          BY <1>1, <1>2, <1>3, <5>3
        <5> QED
          BY <3>2, <4>3, <5>4
      <4>4. CASE ~CardSent(i) /\ messages'[i] = messages[i]
        <5>1. CASE messages[i] = k
          BY <4>4, <5>1
        <5>2. CASE delivery[i].pc = "sent"
          <6>1. ~DeliveryStep(i)
            BY <4>4, <5>2 DEF DeliveryStep, PickChannel, AllocateToken, SendCard, PushCard,
               MarkNotified, MarkAwaiting, AllFailed
          <6>2. ASSUME NEW j \in Ids, j # i, DeliveryStep(j) PROVE delivery'[i] = delivery[i]
            <7>1. delivery' = [delivery EXCEPT ![j] = delivery'[j]]
              BY <1>1, <6>2, DeliveryKeeps
            <7> QED
              BY <6>2, <7>1 DEF Base, DeliveriesOK
          <6>3. ASSUME NEW a \in Actors, ActorStep(a) PROVE delivery'[i] = delivery[i]
            <7>1. CASE SpawnDelivery(a)
              <8>1. act[a].id # i
                BY <2>1, <7>1 DEF SpawnDelivery, Spawns
              <8> QED
                BY <7>1, <8>1 DEF SpawnDelivery, Base, DeliveriesOK
            <7>2. CASE ~SpawnDelivery(a)
              BY <6>3, <7>2 DEF ActorStep, CreateReused, CreateNew, Expire, ExpireCas, Settle, Refused,
                 Lookup, NothingToRevoke, Revoke, Elsewhere
            <7> QED
              BY <7>1, <7>2
          <6>4. ASSUME \/ \E a \in Actors : HttpRequest(a)
                       \/ \E j \in Ids : StdinLine(j) \/ ClockPasses(j)
                       \/ \E j \in Tokens, o \in Options : Tap(j, o)
                       \/ Confirm \/ Poll \/ UNCHANGED vars
                PROVE  delivery' = delivery
            BY <6>4 DEF HttpRequest, StdinLine, ClockPasses, Tap, Confirm, Poll, PollTap,
               PollDeadTap, PollerClears, vars
          <6>5. delivery'[i] = delivery[i]
            BY <1>1, <6>1, <6>2, <6>3, <6>4, StaysUp DEF Next
          <6> QED
            BY <5>2, <6>5
        <5> QED
          BY <2>1, <3>2, <5>1, <5>2
      <4> QED
        BY <1>1, <4>1, <4>2, <4>3, <4>4, MessageStep
    <3> QED
      BY <1>1, <2>6, <3>1, <3>2, CardStep
  <2> QED
    BY <2>1, <2>2, <2>3, <2>4, <2>5, <2>6 DEF CardOK, Channel
<1>4. ASSUME NEW k \in Tokens, NEW i \in Ids, AllocateToken(i), token[k] = NoToken, token'[k].id = i,
             Deliver(i, [delivery[i] EXCEPT !.pc = "send", !.token = k])
      PROVE  CardOK(k)'
  <2>1. delivery[i].pc = "token" /\ UNCHANGED <<row, card, act>>
    BY <1>4 DEF AllocateToken, DeliveryElsewhere
  <2>2. Head(delivery[i].todo) = "telegram" /\ "telegram" \in Configured
    BY <2>1, DeliveryFacts DEF DeliveryOK
  <2>3. delivery'[i].pc = "send" /\ delivery'[i].todo = delivery[i].todo /\ delivery'[i].token = k
    BY <1>4 DEF Deliver, Base, DeliveriesOK, Deliveries
  <2>4. \A a \in Actors : ~Spawns(a, i)'
    BY <2>1 DEF ChargeOK, Spawns
  <2>5. row'[i].status \notin AskedStatuses
    BY <1>2, <2>1 DEF Early
  <2>6. card'[k] # "up"
    BY <1>1, <1>4, <2>1 DEF TablesOK, TokenOK, NoToken
  <2> QED
    BY <1>4, <2>2, <2>3, <2>4, <2>5, <2>6 DEF CardOK, Channel
<1>5. ASSUME NEW k \in Tokens PROVE CardOK(k)'
  <2>1. CASE token[k].id = None
    <3>1. CASE token'[k].id = token[k].id
      BY <2>1, <3>1 DEF CardOK
    <3>2. CASE token'[k].id # token[k].id
      BY <1>4, <3>2, TokenStep
    <3> QED
      BY <3>1, <3>2
  <2>2. CASE token[k].id # None
    BY <1>1, <1>3, <2>2 DEF TablesOK
  <2> QED
    BY <2>1, <2>2
<1>6. ASSUME NEW j \in Tokens, NEW k \in Tokens, token'[j].id = token'[k].id, token'[j].id # None
      PROVE  j = k
  <2>1. ASSUME NEW m \in Tokens, NEW n \in Tokens, m # n, NEW i \in Ids, AllocateToken(i),
               token'[m].id = i, \A o \in Tokens \ {m} : token'[o] = token[o], token'[n].id = i
        PROVE  FALSE
    <3>1. token[n].id = i
      BY <2>1
    <3>2. delivery[i].pc # "token"
      BY <1>1, <1>2, <3>1 DEF CardOK
    <3> QED
      BY <2>1, <3>2 DEF AllocateToken
  <2>2. CASE token'[j].id = token[j].id /\ token'[k].id = token[k].id
    BY <1>2, <1>6, <2>2
  <2>3. CASE token'[j].id # token[j].id
    BY <1>6, <2>1, <2>3, TokenStep
  <2>4. CASE token'[k].id # token[k].id
    BY <1>6, <2>1, <2>4, TokenStep
  <2> QED
    BY <2>2, <2>3, <2>4
<1>7. ASSUME NEW i \in Ids, Early(i)' \/ \E a \in Actors : Spawns(a, i)'
      PROVE  row'[i].status \notin AskedStatuses
  <2>1. CASE Early(i) \/ \E a \in Actors : Spawns(a, i)
    <3>1. row[i].status \notin AskedStatuses
      BY <1>2, <2>1
    <3>2. CASE row'[i] = row[i]
      BY <3>1, <3>2
    <3>3. CASE row'[i] # row[i]
      <4>1. ~MarkNotified(i) /\ ~MarkAwaiting(i)
        <5>1. SUFFICES ASSUME MarkNotified(i) \/ MarkAwaiting(i) PROVE FALSE
          OBVIOUS
        <5>2. delivery[i].pc \in {"mark", "hop"} /\ act' = act
              /\ (Deliver(i, [delivery[i] EXCEPT !.pc = "hop"]) \/ Deliver(i, NotDelivering))
          BY <5>1 DEF MarkNotified, MarkAwaiting, DeliveryElsewhere
        <5>3. ~Early(i)'
          BY <5>2 DEF Deliver, NotDelivering, Early, Base, DeliveriesOK, Deliveries
        <5>4. \A a \in Actors : ~Spawns(a, i)'
          BY <5>2 DEF ChargeOK, Spawns
        <5> QED
          BY <1>7, <5>3, <5>4
      <4>2. ASSUME NEW a \in Actors, row'[i].status = "RESOLVED", row'[i].status = Target(act[a].flow),
                   Verdict(row[i], Target(act[a].flow), act[a].option) = "update"
            PROVE  FALSE
        <5>1. CanTransition(row[i].status, "RESOLVED")
          BY <4>2, VerdictIs DEF MayUpdate
        <5> QED
          BY <3>1, <5>1 DEF CanTransition, Allowed, AskedStatuses, TerminalStatuses
      <4> QED
        BY <3>3, <4>1, <4>2, RowStep DEF AskedStatuses, Target
    <3> QED
      BY <3>2, <3>3
  <2>2. CASE ~Early(i) /\ \A a \in Actors : ~Spawns(a, i)
    <3>1. CASE \E a \in Actors : Spawns(a, i)'
      BY <1>1, <2>2, <3>1, SpawnStep DEF AskedStatuses
    <3>2. CASE \A a \in Actors : ~Spawns(a, i)'
      <4>1. delivery[i].pc \notin {"next", "token"}
        BY <2>2 DEF Early
      <4>2. ~Early(i)'
        BY <1>1, <2>2, <4>1, DeliveryAhead
      <4> QED
        BY <1>7, <3>2, <4>2
    <3> QED
      BY <3>1, <3>2
  <2> QED
    BY <2>1, <2>2
<1> QED
  BY <1>1, <1>5, <1>6, <1>7 DEF CardsOK

\* Of an answered intervention no token is alive, and a call is about to take
\* down a card that is still shown.
LEMMA StepTorn ==
  ASSUME Base, CardsOK, TornOK, [Next]_vars
  PROVE  TornOK'
<1>1. /\ Kept /\ TablesOK /\ TablesOK' /\ Moves /\ None \notin Ids
      /\ Faults \subseteq {"snapshot"} /\ phase = "up" /\ "crash" \notin Faults
  BY StepMoves, ServiceAssumption DEF Base, CardsOK
<1>2. ASSUME NEW i \in Ids, row'[i].status = "RESOLVED", row'[i] # row[i]
      PROVE  /\ Dead(i)'
             /\ \E a \in Actors : act'[a].id = i /\ act'[a].pc \in {"lookup", "revoke"}
  <2>1. PICK a \in Actors : /\ Settle(a) /\ act[a].id = i /\ Target(act[a].flow) = "RESOLVED"
                            /\ WriteRow(i, Target(act[a].flow), act[a].option, None)
    BY <1>2, RowStep
  <2>2. token' = RevokeAll(i)
    BY <2>1 DEF WriteRow, IsTerminal, TerminalStatuses
  <2>3. ASSUME NEW k \in Tokens, token'[k].id = i PROVE token'[k].revoked
    BY <1>1, <2>2, <2>3 DEF RevokeAll, TablesOK
  <2>4. act' = [act EXCEPT ![a].pc = "lookup", ![a].update = Target(act[a].flow)]
    BY <2>1 DEF Settle
  <2>5. act'[a].id = i /\ act'[a].pc = "lookup"
    BY <2>1, <2>4 DEF Base, CallsOK, Calls
  <2> QED
    BY <2>3, <2>5 DEF Dead
<1>3. ASSUME NEW i \in Ids, row'[i].status = "RESOLVED", row'[i] = row[i]
      PROVE  /\ Dead(i)'
             /\ messages'[i] # None /\ card'[messages'[i]] = "up" =>
                  \E a \in Actors : act'[a].id = i /\ act'[a].pc \in {"lookup", "revoke"}
  <2>1. /\ Dead(i)
        /\ messages[i] # None /\ card[messages[i]] = "up" =>
             \E a \in Actors : act[a].id = i /\ act[a].pc \in {"lookup", "revoke"}
    BY <1>3 DEF TornOK
  <2>2. ~Early(i)
    BY <1>3 DEF CardsOK, AskedStatuses
  <2>3. ASSUME NEW k \in Tokens, token'[k].id = i PROVE token'[k].revoked
    <3>1. token'[k].id = token[k].id
      <4>1. ASSUME NEW j \in Ids, AllocateToken(j), token'[k].id = j PROVE FALSE
        BY <2>2, <2>3, <4>1 DEF AllocateToken, Early
      <4> QED
        BY <4>1, TokenStep
    <3>2. token[k].revoked
      BY <2>1, <2>3, <3>1 DEF Dead
    <3>3. token[k] # NoToken
      BY <1>1, <2>3, <3>1 DEF NoToken
    <3> QED
      BY <1>1, <3>2, <3>3 DEF Moves, TokenMoves, TablesOK
  <2>4. ASSUME messages'[i] # None, card'[messages'[i]] = "up"
        PROVE  \E a \in Actors : act'[a].id = i /\ act'[a].pc \in {"lookup", "revoke"}
    <3>1. messages'[i] = messages[i]
      <4>1. ~CardSent(i)
        BY <2>2 DEF CardSent, Early
      <4> QED
        BY <1>1, <2>4, <4>1, MessageStep
    <3>2. PICK k \in Tokens : k = messages[i] /\ token[k].id = i
      BY <2>4, <3>1 DEF Base, MemoryOK, Names
    <3>3. card[k] = "up"
      <4>1. ASSUME NEW j \in Ids, SendCard(j), delivery[j].token = k PROVE FALSE
        <5>1. delivery[j].pc = "send" /\ Head(delivery[j].todo) = "telegram"
          BY <4>1 DEF SendCard, Channel
        <5>2. token[k].id = j
          BY <4>1, <5>1, DeliveryFacts DEF DeliveryOK
        <5> QED
          BY <2>2, <3>2, <5>1, <5>2 DEF Early
      <4> QED
        BY <1>1, <2>4, <3>1, <3>2, <4>1, CardStep
    <3>4. PICK a \in Actors : act[a].id = i /\ act[a].pc \in {"lookup", "revoke"}
      BY <2>1, <2>4, <3>1, <3>2, <3>3
    <3>5. ~NothingToRevoke(a)
      <4>1. CardOK(k) /\ row[i].status \in AskedStatuses
        BY <1>3 DEF CardsOK, AskedStatuses
      <4>2. "telegram" \in Configured /\ row[i].channel = "telegram"
        BY <1>1, <3>2, <4>1 DEF CardOK
      <4>3. messages[i] # None
        BY <2>4, <3>1
      <4> QED
        BY <3>4, <4>2, <4>3 DEF NothingToRevoke, CardOf
    <3>6. ~Revoke(a)
      <4>1. Revoke(a) => messages'[i] = None
        BY <3>4 DEF Revoke, Base, MemoryOK
      <4> QED
        BY <2>4, <4>1
    <3> QED
      BY <1>1, <3>4, <3>5, <3>6, AboutToAnnounce
  <2> QED
    BY <2>3, <2>4 DEF Dead
<1> QED
  BY <1>2, <1>3 DEF TornOK

\* Without crashes and failed requests to Telegram, an intervention a human has answered is
\* torn down everywhere once its tasks are done: no card, no live token.
THEOREM TornDown ==
  ASSUME Faults \subseteq {"snapshot"}
  PROVE  Spec => []AnsweredIsTornDown
<1>1. Init => CardsOK /\ TornOK
  <2> SUFFICES ASSUME Init PROVE CardsOK /\ TornOK
    OBVIOUS
  <2>1. CardsOK
    BY DEF Init, CardsOK, CardOK, NoToken, AskedStatuses, NoRow, Absent
  <2>2. TornOK
    BY DEF Init, TornOK, NoRow, Absent
  <2> QED
    BY <2>1, <2>2
<1>2. Base /\ ChargeOK /\ CardsOK /\ TornOK /\ [Next]_vars => CardsOK' /\ TornOK'
  BY StepCards, StepTorn
<1>3. Base /\ CardsOK /\ TornOK => AnsweredIsTornDown
  <2> SUFFICES ASSUME Base, CardsOK, TornOK, NEW i \in Ids, Quiet(i), row[i].status = "RESOLVED"
               PROVE  Down(i) /\ Dead(i)
    BY DEF AnsweredIsTornDown
  <2>1. Dead(i)
    BY DEF TornOK
  <2>2. ASSUME NEW k \in Tokens, token[k].id = i, card[k] = "up" PROVE FALSE
    <3>1. CardOK(k) /\ i # None /\ k # None
      BY ServiceAssumption DEF CardsOK
    <3>2. messages[i] = k
      BY <2>2, <3>1 DEF CardOK, Quiet
    <3>3. \E a \in Actors : act[a].id = i
      BY <2>2, <3>1, <3>2 DEF TornOK
    <3> QED
      BY <3>3 DEF Quiet
  <2> QED
    BY <2>1, <2>2 DEF Down
<1> QED
  BY <1>1, <1>2, <1>3, BaseHolds, ChargeHolds, PTL DEF Spec

=============================================================================
