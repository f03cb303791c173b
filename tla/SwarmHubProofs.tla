--------------------------- MODULE SwarmHubProofs ---------------------------
(***************************************************************************)
(* SwarmHub for any number of agents, tenants and consoles and any sizes:  *)
(* the hub keeps within its bounds, of signals and events that do not fit  *)
(* only the oldest are lost, and rows and histories tell what happened.    *)
(***************************************************************************)
EXTENDS SwarmHub, SequenceTheorems, FiniteSetTheorems, WellFoundedInduction, TLAPS

-----------------------------------------------------------------------------
(* Queues that drop their oldest.                                          *)

\* The numbers f[1..len] come after g, in order, and the last of all is l.
Ordered(g, len, f, l) ==
  /\ \A n \in 1..len : f[n] \in Nat /\ g < f[n] /\ f[n] <= l
  /\ \A m, n \in 1..len : m < n => f[m] < f[n]
  /\ IF len = 0 THEN g = l ELSE f[len] = l

\* f2[1..rest] are the last of f[1..len] and of k numbers more, from above top.
Grown(len, f, top, k, rest, f2) ==
  \A n \in 1..rest, m \in Nat :
    m = n + (len + k - rest) => f2[n] = IF m <= len THEN f[m] ELSE top + (m - len)

\* They stay so when k more are added, next to each other and above all that was,
\* and as many of the oldest dropped as the size asks for.
LEMMA GrowOrdered ==
  ASSUME NEW g \in Nat, NEW len \in Nat, NEW f, NEW l \in Nat, Ordered(g, len, f, l),
         NEW top \in Nat, l <= top, NEW k \in Nat \ {0}, NEW rest \in Nat, rest > 0,
         rest <= len + k, NEW f2,
         Grown(len, f, top, k, rest, f2)
  PROVE  Ordered(g, rest, f2, top + k)
<1> DEFINE d == len + k - rest
<1>1. d \in Nat /\ g <= l
  <2>1. g <= l
    <3>1. CASE len = 0
      BY <3>1 DEF Ordered
    <3>2. CASE len # 0
      <4>1. len \in 1..len
        BY <3>2
      <4> QED
        BY <4>1 DEF Ordered
    <3> QED
      BY <3>1, <3>2
  <2> QED
    BY <2>1
<1>2. \A n \in 1..rest : f2[n] = IF n + d <= len THEN f[n + d] ELSE top + (n + d - len)
  <2>1. \A n \in 1..rest : n + d \in Nat
    BY <1>1
  <2> QED
    BY <2>1 DEF Grown
<1>3. /\ \A n \in 1..len : f[n] \in Nat /\ g < f[n] /\ f[n] <= l
      /\ \A m, n \in 1..len : m < n => f[m] < f[n]
  BY DEF Ordered
<1>4. rest + d = len + k
  BY <1>1
<1> HIDE DEF d
<1>5. ASSUME NEW n \in 1..rest
      PROVE  f2[n] \in Nat /\ g < f2[n] /\ f2[n] <= top + k
  <2>1. CASE n + d <= len
    <3>1. n + d \in 1..len
      BY <1>1, <2>1
    <3>2. f2[n] = f[n + d]
      BY <1>2, <2>1
    <3> QED
      BY <1>3, <3>1, <3>2
  <2>2. CASE ~(n + d <= len)
    <3>1. f2[n] = top + (n + d - len) /\ n + d - len \in 1..k
      BY <1>1, <1>2, <1>4, <2>2
    <3> QED
      BY <1>1, <3>1
  <2> QED
    BY <2>1, <2>2
<1>6. ASSUME NEW m \in 1..rest, NEW n \in 1..rest, m < n PROVE f2[m] < f2[n]
  <2>1. CASE n + d <= len
    <3>1. m + d \in 1..len /\ n + d \in 1..len /\ m + d < n + d
      BY <1>1, <1>6, <2>1
    <3>2. f2[m] = f[m + d] /\ f2[n] = f[n + d]
      BY <1>2, <3>1
    <3> QED
      BY <1>3, <3>1, <3>2
  <2>2. CASE ~(n + d <= len) /\ m + d <= len
    <3>1. m + d \in 1..len /\ n + d - len \in Nat \ {0}
      BY <1>1, <2>2
    <3>2. f2[m] = f[m + d] /\ f2[n] = top + (n + d - len)
      BY <1>2, <2>2
    <3> QED
      BY <1>3, <3>1, <3>2
  <2>3. CASE ~(n + d <= len) /\ ~(m + d <= len)
    <3>1. f2[m] = top + (m + d - len) /\ f2[n] = top + (n + d - len)
      BY <1>2, <2>3
    <3> QED
      BY <1>1, <1>6, <3>1
  <2> QED
    BY <2>1, <2>2, <2>3
<1>7. f2[rest] = top + k
  <2>1. rest \in 1..rest /\ ~(rest + d <= len) /\ rest + d - len = k
    BY <1>1, <1>4
  <2> QED
    BY <1>2, <2>1
<1> QED
  BY <1>5, <1>6, <1>7 DEF Ordered

\* What Kept leaves: the last of a sequence, as many as fit.
LEMMA KeptIs ==
  ASSUME NEW S, NEW q \in Seq(S), NEW size \in Nat \ {0}
  PROVE  /\ Kept(q, size) \in Seq(S)
         /\ Len(Kept(q, size)) = (IF Len(q) <= size THEN Len(q) ELSE size)
         /\ \A n \in 1..Len(Kept(q, size)) :
              Kept(q, size)[n] = q[n + (Len(q) - Len(Kept(q, size)))]
<1>1. Len(q) \in Nat
  BY LenProperties
<1>2. CASE Len(q) <= size
  <2>1. Kept(q, size) = q
    BY <1>2 DEF Kept
  <2> QED
    BY <1>1, <1>2, <2>1
<1>3. CASE ~(Len(q) <= size)
  <2> DEFINE m == Len(q) - size + 1
             kept == SubSeq(q, m, Len(q))
  <2>1. m \in Int /\ m >= 1 /\ m <= Len(q) /\ Len(q) - m + 1 = size
    BY <1>1, <1>3
  <2>2. \A i \in m..Len(q) : q[i] \in S
    <3>1. \A i \in m..Len(q) : i \in 1..Len(q)
      BY <1>1, <2>1
    <3> QED
      BY <3>1, ElementOfSeq
  <2> HIDE DEF m
  <2>3. /\ kept \in Seq(S)
        /\ Len(kept) = IF m <= Len(q) THEN Len(q) - m + 1 ELSE 0
        /\ \A i \in 1..(Len(q) - m + 1) : kept[i] = q[m + i - 1]
    BY <1>1, <2>1, <2>2, SubSeqProperties
  <2>4. Kept(q, size) = kept
    BY <1>3 DEF Kept, m
  <2> HIDE DEF kept
  <2>5. Len(kept) = size
    BY <2>1, <2>3
  <2>6. ASSUME NEW n \in 1..size PROVE kept[n] = q[n + (Len(q) - size)]
    <3>1. m + n - 1 = n + (Len(q) - size) /\ n \in 1..(Len(q) - m + 1)
      BY <1>1, <2>1 DEF m
    <3> QED
      BY <2>3, <3>1
  <2> QED
    BY <1>3, <2>3, <2>4, <2>5, <2>6
<1> QED
  BY <1>2, <1>3

\* The oldest is taken.
LEMMA TakeOrdered ==
  ASSUME NEW g \in Nat, NEW len \in Nat \ {0}, NEW f, NEW l \in Nat, Ordered(g, len, f, l),
         NEW f2, \A n \in 1..(len - 1) : f2[n] = f[n + 1]
  PROVE  f[1] \in Nat /\ Ordered(f[1], len - 1, f2, l)
<1>1. 1 \in 1..len /\ \A n \in 1..(len - 1) : n + 1 \in 1..len /\ 1 < n + 1
  OBVIOUS
<1>2. /\ \A n \in 1..len : f[n] \in Nat /\ g < f[n] /\ f[n] <= l
      /\ \A m, n \in 1..len : m < n => f[m] < f[n]
      /\ f[len] = l
  BY DEF Ordered
<1>3. \A n \in 1..(len - 1) : f2[n] \in Nat /\ f[1] < f2[n] /\ f2[n] <= l
  BY <1>1, <1>2
<1>4. ASSUME NEW m \in 1..(len - 1), NEW n \in 1..(len - 1), m < n PROVE f2[m] < f2[n]
  <2>1. m + 1 \in 1..len /\ n + 1 \in 1..len /\ m + 1 < n + 1
    BY <1>4
  <2> QED
    BY <1>2, <2>1
<1>5. IF len - 1 = 0 THEN f[1] = l ELSE f2[len - 1] = l
  <2>1. CASE len = 1
    BY <1>2, <2>1
  <2>2. CASE len # 1
    <3>1. len - 1 \in 1..(len - 1) /\ (len - 1) + 1 = len
      BY <2>2
    <3> QED
      BY <1>2, <2>2, <3>1
  <2> QED
    BY <2>1, <2>2
<1> QED
  BY <1>1, <1>2, <1>3, <1>4, <1>5 DEF Ordered

-----------------------------------------------------------------------------
(* Signals.                                                                *)

SignalOK(a) ==
  /\ Len(signals[a]) <= SignalQueue
  /\ pending[a] <= issued
  /\ Ordered(got[a], Len(signals[a]), signals[a], pending[a])

SignalsOK ==
  /\ issued \in Nat
  /\ signals \in [Agents -> Seq(Nat)]
  /\ pending \in [Agents -> Nat] /\ got \in [Agents -> Nat]
  /\ \A a \in Agents : SignalOK(a)

\* An empty queue, and nothing requested.
LEMMA InitSignals == Init => SignalsOK
<1> SUFFICES ASSUME Init PROVE SignalsOK
  OBVIOUS
<1>1. <<>> \in Seq(Nat) /\ Len(<<>>) = 0
  BY EmptySeq
<1> QED
  BY <1>1, SwarmAssumption DEF Init, SignalsOK, SignalOK, Ordered

\* A signal of an agent that another agent's step does not touch stays as it was.
LEMMA QuietSignals ==
  ASSUME SignalsOK, NEW a \in Agents, signals'[a] = signals[a], pending'[a] = pending[a],
         got'[a] = got[a], issued' \in Nat, issued <= issued'
  PROVE  SignalOK(a)'
<1>1. pending[a] \in Nat /\ issued \in Nat /\ SignalOK(a)
  BY DEF SignalsOK
<1> QED
  BY <1>1 DEF SignalOK

\* request_takeover: a new signal, above all that were requested of anyone.
LEMMA RequestSignals ==
  ASSUME SignalsOK, NEW a \in Agents, Request(a)
  PROVE  SignalsOK'
<1>1. /\ issued \in Nat /\ issued' = issued + 1 /\ issued' \in Nat
      /\ pending' = [pending EXCEPT ![a] = issued'] /\ got' = got
      /\ signals' = [signals EXCEPT ![a] = Kept(Append(@, issued'), SignalQueue)]
      /\ signals[a] \in Seq(Nat) /\ SignalQueue \in Nat \ {0}
      /\ got[a] \in Nat /\ pending[a] \in Nat /\ pending[a] <= issued
      /\ Ordered(got[a], Len(signals[a]), signals[a], pending[a])
  BY SwarmAssumption DEF SignalsOK, SignalOK, Request
<1> DEFINE q == Append(signals[a], issued')
           kept == Kept(q, SignalQueue)
           len == Len(signals[a])
<1>2. /\ q \in Seq(Nat) /\ Len(q) = len + 1 /\ q[len + 1] = issued'
      /\ \A n \in 1..len : q[n] = signals[a][n]
      /\ len \in Nat
  BY <1>1, AppendProperties, LenProperties
<1> HIDE DEF q, len
<1>3. /\ kept \in Seq(Nat)
      /\ Len(kept) = IF Len(q) <= SignalQueue THEN Len(q) ELSE SignalQueue
      /\ \A n \in 1..Len(kept) : kept[n] = q[n + (Len(q) - Len(kept))]
  BY <1>1, <1>2, KeptIs
<1>4. signals'[a] = kept
  BY <1>1 DEF SignalsOK, q
<1> HIDE DEF kept
<1> DEFINE rest == Len(kept)
<1>5. rest \in Nat /\ rest > 0 /\ rest <= len + 1 /\ rest <= SignalQueue
  BY <1>1, <1>2, <1>3
<1>6. \A n \in 1..rest : kept[n] = q[n + (Len(q) - rest)]
  BY <1>3
<1> HIDE DEF rest
<1>7. Ordered(got[a], rest, kept, issued + 1)
  <2>1. ASSUME NEW n \in 1..rest, NEW m \in Nat, m = n + (len + 1 - rest)
        PROVE  kept[n] = IF m <= len THEN signals[a][m] ELSE issued + (m - len)
    <3>1. m \in 1..(len + 1)
      BY <1>2, <1>5, <2>1
    <3>2. kept[n] = q[m]
      <4>1. n + (Len(q) - rest) = m
        BY <1>2, <1>5, <2>1
      <4> QED
        BY <1>6, <4>1
    <3>3. CASE m <= len
      <4>1. m \in 1..len
        BY <1>2, <3>1, <3>3
      <4> QED
        BY <1>2, <3>2, <3>3, <4>1
    <3>4. CASE ~(m <= len)
      <4>1. m = len + 1 /\ issued + (m - len) = issued'
        BY <1>1, <1>2, <3>1, <3>4
      <4> QED
        BY <1>2, <3>2, <3>4, <4>1
    <3> QED
      BY <3>3, <3>4
  <2>2. Ordered(got[a], len, signals[a], pending[a]) /\ 1 \in Nat \ {0}
    BY <1>1 DEF len
  <2>3. Grown(len, signals[a], issued, 1, rest, kept)
    BY <2>1 DEF Grown
  <2> QED
    BY <1>1, <1>2, <1>5, <2>2, <2>3, GrowOrdered
<1>8. SignalOK(a)'
  BY <1>1, <1>4, <1>5, <1>7 DEF SignalOK, SignalsOK, rest
<1>9. \A b \in Agents \ {a} : SignalOK(b)'
  BY <1>1, QuietSignals DEF SignalsOK
<1> QED
  BY <1>1, <1>3, <1>4, <1>8, <1>9 DEF SignalsOK

\* poll_takeover, wait_takeover.
LEMMA TakeSignals ==
  ASSUME SignalsOK, NEW a \in Agents, TakeSignal(a)
  PROVE  SignalsOK'
<1> DEFINE q == signals[a]
           rest == Tail(q)
<1>1. /\ q \in Seq(Nat) /\ q # <<>> /\ issued \in Nat
      /\ got' = [got EXCEPT ![a] = Head(q)] /\ signals' = [signals EXCEPT ![a] = rest]
      /\ pending' = pending /\ issued' = issued
      /\ got[a] \in Nat /\ pending[a] \in Nat /\ pending[a] <= issued
      /\ Len(q) <= SignalQueue /\ Ordered(got[a], Len(q), q, pending[a])
  BY DEF SignalsOK, SignalOK, TakeSignal
<1>2. /\ Head(q) = q[1] /\ rest \in Seq(Nat) /\ Len(rest) = Len(q) - 1
      /\ \A n \in 1..Len(rest) : rest[n] = q[n + 1]
      /\ Len(q) \in Nat \ {0}
  BY <1>1, HeadTailProperties, EmptySeq
<1>3. got'[a] = q[1] /\ signals'[a] = rest
  BY <1>1, <1>2 DEF SignalsOK
<1> HIDE DEF q, rest
<1>4. q[1] \in Nat /\ Ordered(q[1], Len(rest), rest, pending[a])
  <2>1. \A n \in 1..(Len(q) - 1) : rest[n] = q[n + 1]
    BY <1>2
  <2>2. q[1] \in Nat /\ Ordered(q[1], Len(q) - 1, rest, pending[a])
    BY <1>1, <1>2, <2>1, TakeOrdered
  <2> QED
    BY <1>2, <2>2
<1>5. SignalOK(a)'
  <2>1. Len(rest) <= SignalQueue
    <3>1. SignalQueue \in Nat
      BY SwarmAssumption
    <3> QED
      BY <1>1, <1>2, <3>1
  <2>2. /\ signals'[a] = rest /\ got'[a] = q[1]
        /\ pending'[a] = pending[a] /\ issued' = issued
    BY <1>1, <1>3
  <2> QED
    BY <1>1, <1>4, <2>1, <2>2 DEF SignalOK
<1>6. \A b \in Agents \ {a} : SignalOK(b)'
  BY <1>1, QuietSignals DEF SignalsOK
<1> QED
  BY <1>1, <1>2, <1>3, <1>4, <1>5, <1>6 DEF SignalsOK

\* Nothing else touches a signal: not a new registration, not its end.
LEMMA NextSignals == SignalsOK /\ [Next]_vars => SignalsOK'
<1> SUFFICES ASSUME SignalsOK, [Next]_vars PROVE SignalsOK'
  OBVIOUS
<1>1. CASE UNCHANGED broker
  BY <1>1 DEF broker, SignalsOK, SignalOK
<1>2. ASSUME NEW a \in Agents, Request(a) PROVE SignalsOK'
  BY <1>2, RequestSignals
<1>3. ASSUME NEW a \in Agents, TakeSignal(a) PROVE SignalsOK'
  BY <1>3, TakeSignals
<1> QED
  BY <1>1, <1>2, <1>3
     DEF Next, vars, Unregister, Observe, Resume, Register, ForceTakeover, Saved, PumpShadow,
         Unsubscribe, Subscribe

\* In the words of the property.
LEMMA OrderedLine ==
  ASSUME NEW g \in Nat, NEW q \in Seq(Nat), NEW l \in Nat, Ordered(g, Len(q), q, l)
  PROVE  LET line == <<g>> \o q IN Increasing(line) /\ line[Len(line)] = l
<1> DEFINE line == <<g>> \o q
<1>1. Len(q) \in Nat /\ <<g>> \in Seq(Nat) /\ Len(<<g>>) = 1 /\ <<g>>[1] = g
  BY LenProperties
<1>2. /\ line \in Seq(Nat) /\ Len(line) = 1 + Len(q)
      /\ \A i \in 1..(1 + Len(q)) : line[i] = IF i <= 1 THEN <<g>>[i] ELSE q[i - 1]
  BY <1>1, ConcatProperties
<1>3. DOMAIN line = 1..(1 + Len(q))
  BY <1>2, LenProperties
<1> HIDE DEF line
<1>4. /\ line[1] = g
      /\ \A i \in 2..(1 + Len(q)) : line[i] = q[i - 1] /\ i - 1 \in 1..Len(q)
  BY <1>1, <1>2
<1>5. ASSUME NEW m \in DOMAIN line, NEW n \in DOMAIN line, m < n PROVE line[m] < line[n]
  <2>1. m \in 1..(1 + Len(q)) /\ n \in 2..(1 + Len(q))
    BY <1>1, <1>3, <1>5
  <2>2. CASE m = 1
    BY <1>4, <2>1, <2>2 DEF Ordered
  <2>3. CASE m # 1
    <3>1. m \in 2..(1 + Len(q)) /\ m - 1 < n - 1
      BY <1>1, <1>5, <2>1, <2>3
    <3> QED
      BY <1>4, <2>1, <3>1 DEF Ordered
  <2> QED
    BY <2>2, <2>3
<1>6. line[Len(line)] = l
  <2>1. CASE Len(q) = 0
    BY <1>1, <1>2, <1>4, <2>1 DEF Ordered
  <2>2. CASE Len(q) # 0
    <3>1. Len(line) \in 2..(1 + Len(q)) /\ Len(line) - 1 = Len(q)
      BY <1>1, <1>2, <2>2
    <3> QED
      BY <1>4, <2>2, <3>1 DEF Ordered
  <2> QED
    BY <2>1, <2>2
<1> QED
  BY <1>5, <1>6 DEF line, Increasing

-----------------------------------------------------------------------------
(* Events.                                                                 *)

Types == {"status", "thought"}
Shown == {None, "running", "takeover", "offline"}
Events == [sequence : Nat, tenant : Tenants, type : Types, status : Shown]

Numbers(events) == [n \in DOMAIN events |-> events[n].sequence]

ConsoleOK(c) ==
  /\ Len(stream[c]) <= EventQueue
  /\ due[c] <= sequence
  /\ Ordered(seen[c], Len(stream[c]), Numbers(stream[c]), due[c])

ShadowOK ==
  /\ sequence \in Nat
  /\ history \in [Agents -> Seq(Events)] /\ \A a \in Agents : Len(history[a]) <= History
  /\ stream \in [Consoles -> Seq(Events)]
  /\ seen \in [Consoles -> Nat] /\ due \in [Consoles -> Nat]
  /\ \A c \in Consoles : ConsoleOK(c)

\* Nobody listens, and nothing was published.
LEMMA InitShadow == Init => ShadowOK
<1> SUFFICES ASSUME Init PROVE ShadowOK
  OBVIOUS
<1>1. <<>> \in Seq(Events) /\ Len(<<>>) = 0
  BY EmptySeq
<1> QED
  BY <1>1, SwarmAssumption DEF Init, ShadowOK, ConsoleOK, Ordered

\* One console's queue after a publication.
LEMMA PublishConsole ==
  ASSUME ShadowOK, NEW c \in Consoles, NEW events \in Seq(Events), NEW k \in Nat \ {0},
         Len(events) = k, \A n \in 1..k : events[n].sequence = sequence + n,
         sequence' = sequence + k, stream'[c] = Kept(stream[c] \o events, EventQueue),
         due'[c] = sequence', seen'[c] = seen[c]
  PROVE  stream'[c] \in Seq(Events) /\ ConsoleOK(c)'
<1> DEFINE s == stream[c]
           len == Len(s)
           q == s \o events
           kept == Kept(q, EventQueue)
           rest == Len(kept)
<1>1. /\ s \in Seq(Events) /\ len \in Nat /\ sequence \in Nat /\ seen[c] \in Nat /\ due[c] \in Nat
      /\ due[c] <= sequence /\ Ordered(seen[c], len, Numbers(s), due[c])
      /\ EventQueue \in Nat \ {0} /\ DOMAIN s = 1..len
  BY SwarmAssumption, LenProperties DEF ShadowOK, ConsoleOK
<1>2. /\ q \in Seq(Events) /\ Len(q) = len + k
      /\ \A i \in 1..(len + k) : q[i] = IF i <= len THEN s[i] ELSE events[i - len]
  BY <1>1, ConcatProperties
<1> HIDE DEF q
<1>3. /\ kept \in Seq(Events)
      /\ rest = IF Len(q) <= EventQueue THEN Len(q) ELSE EventQueue
      /\ \A n \in 1..rest : kept[n] = q[n + (Len(q) - rest)]
      /\ DOMAIN kept = 1..rest
  BY <1>1, <1>2, KeptIs, LenProperties
<1> HIDE DEF len, kept
<1>4. rest \in Nat /\ rest > 0 /\ rest <= len + k /\ rest <= EventQueue
  <2>1. Len(q) = len + k /\ rest = IF Len(q) <= EventQueue THEN Len(q) ELSE EventQueue
    BY <1>2, <1>3
  <2> HIDE DEF rest
  <2> QED
    BY <1>1, <2>1
<1> HIDE DEF rest
<1>5. ASSUME NEW n \in 1..rest, NEW m \in Nat, m = n + (len + k - rest)
      PROVE  Numbers(kept)[n] = IF m <= len THEN Numbers(s)[m] ELSE sequence + (m - len)
  <2>1. n \in Nat /\ m \in 1..(len + k)
    BY <1>1, <1>4, <1>5
  <2>2. n + (Len(q) - rest) = m
    <3>1. Len(q) = len + k
      BY <1>2
    <3> QED
      BY <1>1, <1>4, <1>5, <2>1, <3>1
  <2>3. Numbers(kept)[n] = q[m].sequence
    BY <1>3, <2>2 DEF Numbers
  <2>4. q[m] = IF m <= len THEN s[m] ELSE events[m - len]
    BY <1>2, <2>1
  <2>5. CASE m <= len
    <3>1. m \in 1..len
      BY <1>1, <2>1, <2>5
    <3>2. Numbers(s)[m] = s[m].sequence
      BY <1>1, <3>1 DEF Numbers
    <3> QED
      BY <2>3, <2>4, <2>5, <3>2
  <2>6. CASE ~(m <= len)
    <3>1. m - len \in 1..k
      BY <1>1, <2>1, <2>6
    <3>2. events[m - len].sequence = sequence + (m - len)
      BY <3>1
    <3> QED
      BY <2>3, <2>4, <2>6, <3>2
  <2> QED
    BY <2>5, <2>6
<1>6. Ordered(seen[c], rest, Numbers(kept), sequence + k)
  <2> DEFINE f == Numbers(s)
             f2 == Numbers(kept)
  <2>1. Ordered(seen[c], len, f, due[c])
    BY <1>1
  <2>2. Grown(len, f, sequence, k, rest, f2)
    BY <1>5 DEF Grown
  <2> HIDE DEF f, f2
  <2>3. Ordered(seen[c], rest, f2, sequence + k)
    BY <1>1, <1>4, <2>1, <2>2, GrowOrdered
  <2> QED
    BY <2>3 DEF f2
<1>7. stream'[c] = kept
  BY DEF kept, q
<1> QED
  BY <1>1, <1>3, <1>4, <1>6, <1>7 DEF ConsoleOK, rest

\* A console nothing is published to keeps what it has.
LEMMA QuietConsole ==
  ASSUME ShadowOK, NEW c \in Consoles, stream'[c] = stream[c], due'[c] = due[c],
         seen'[c] = seen[c], sequence' \in Nat, sequence <= sequence'
  PROVE  ConsoleOK(c)'
<1>1. due[c] \in Nat /\ sequence \in Nat /\ ConsoleOK(c)
  BY DEF ShadowOK
<1> QED
  BY <1>1 DEF ConsoleOK

\* publish, once or twice.
LEMMA PublishShadow ==
  ASSUME ShadowOK, NEW a \in Agents, NEW tenant \in Tenants, NEW kinds \in Seq(Types),
         kinds # <<>>, NEW status \in Shown, PublishAll(a, tenant, kinds, status), UNCHANGED seen
  PROVE  ShadowOK'
<1> DEFINE k == Len(kinds)
           Event(n) == [sequence |-> sequence + n, tenant |-> tenant, type |-> kinds[n],
                        status |-> IF kinds[n] = "status" THEN status ELSE None]
           events == [n \in DOMAIN kinds |-> Event(n)]
<1>1. /\ k \in Nat \ {0} /\ DOMAIN kinds = 1..k /\ sequence \in Nat
      /\ \A n \in 1..k : kinds[n] \in Types
  BY LenProperties, EmptySeq, ElementOfSeq DEF ShadowOK
<1>2. /\ sequence' = sequence + k
      /\ history' = [history EXCEPT ![a] = Kept(@ \o events, History)]
      /\ stream' = [c \in Consoles |->
           IF InScope(c, tenant) THEN Kept(stream[c] \o events, EventQueue) ELSE stream[c]]
      /\ due' = [c \in Consoles |-> IF InScope(c, tenant) THEN sequence' ELSE due[c]]
      /\ seen' = seen
  BY DEF PublishAll
<1>3. events \in [1..k -> Events] /\ \A n \in 1..k : events[n].sequence = sequence + n
  BY <1>1 DEF Events, Shown
<1> HIDE DEF k, events
<1>4. events \in Seq(Events) /\ Len(events) = k
  BY <1>1, <1>3, SeqDef, LenProperties
<1>5. sequence' \in Nat /\ sequence <= sequence'
  BY <1>1, <1>2
<1>6. \A c \in Consoles : stream'[c] \in Seq(Events) /\ ConsoleOK(c)'
  <2> SUFFICES ASSUME NEW c \in Consoles PROVE stream'[c] \in Seq(Events) /\ ConsoleOK(c)'
    OBVIOUS
  <2>1. CASE InScope(c, tenant)
    <3>1. stream'[c] = Kept(stream[c] \o events, EventQueue) /\ due'[c] = sequence' /\ seen'[c] = seen[c]
      BY <1>2, <2>1
    <3> QED
      BY <1>1, <1>2, <1>3, <1>4, <3>1, PublishConsole
  <2>2. CASE ~InScope(c, tenant)
    BY <1>2, <1>5, <2>2, QuietConsole DEF ShadowOK
  <2> QED
    BY <2>1, <2>2
<1>7. /\ history' \in [Agents -> Seq(Events)]
      /\ \A b \in Agents : Len(history'[b]) <= History
  <2>1. history[a] \in Seq(Events) /\ History \in Nat \ {0}
    BY SwarmAssumption DEF ShadowOK
  <2> DEFINE q == history[a] \o events
  <2>2. q \in Seq(Events)
    BY <1>4, <2>1, ConcatProperties
  <2> HIDE DEF q
  <2>3. Kept(q, History) \in Seq(Events) /\ Len(Kept(q, History)) <= History
    <3>1. Len(q) \in Nat
      BY <2>2, LenProperties
    <3> QED
      BY <2>1, <2>2, <3>1, KeptIs
  <2>4. history' = [history EXCEPT ![a] = Kept(q, History)]
    BY <1>2 DEF q
  <2> QED
    BY <2>3, <2>4 DEF ShadowOK
<1>8. /\ stream' \in [Consoles -> Seq(Events)] /\ seen' \in [Consoles -> Nat]
      /\ due' \in [Consoles -> Nat]
  BY <1>2, <1>5, <1>6 DEF ShadowOK
<1> QED
  BY <1>5, <1>6, <1>7, <1>8 DEF ShadowOK

\* The pump of /ws/swarm.
LEMMA PumpsShadow ==
  ASSUME ShadowOK, NEW c \in Consoles, PumpShadow(c)
  PROVE  ShadowOK'
<1> DEFINE q == stream[c]
           rest == Tail(q)
<1>1. /\ q \in Seq(Events) /\ q # <<>> /\ sequence \in Nat
      /\ seen' = [seen EXCEPT ![c] = Head(q).sequence] /\ stream' = [stream EXCEPT ![c] = rest]
      /\ due' = due /\ sequence' = sequence /\ history' = history
      /\ seen[c] \in Nat /\ due[c] \in Nat /\ due[c] <= sequence
      /\ Len(q) <= EventQueue /\ Ordered(seen[c], Len(q), Numbers(q), due[c])
  BY DEF ShadowOK, ConsoleOK, PumpShadow
<1>2. /\ Head(q) = q[1] /\ rest \in Seq(Events) /\ Len(rest) = Len(q) - 1
      /\ \A n \in 1..Len(rest) : rest[n] = q[n + 1]
      /\ Len(q) \in Nat \ {0} /\ DOMAIN q = 1..Len(q) /\ DOMAIN rest = 1..Len(rest)
  BY <1>1, HeadTailProperties, EmptySeq, LenProperties
<1>3. seen'[c] = Head(q).sequence /\ stream'[c] = rest
  BY <1>1 DEF ShadowOK
<1> HIDE DEF q, rest
<1>4. \A n \in 1..(Len(q) - 1) : Numbers(rest)[n] = Numbers(q)[n + 1]
  BY <1>2 DEF Numbers
<1>5. Numbers(q)[1] \in Nat /\ Ordered(Numbers(q)[1], Len(q) - 1, Numbers(rest), due[c])
  BY <1>1, <1>2, <1>4, TakeOrdered
<1>6. Numbers(q)[1] = seen'[c]
  BY <1>2, <1>3 DEF Numbers
<1>7. ConsoleOK(c)'
  <2>1. Len(rest) <= EventQueue
    BY <1>1, <1>2, SwarmAssumption
  <2> QED
    BY <1>1, <1>2, <1>3, <1>5, <1>6, <2>1 DEF ConsoleOK
<1>8. \A d \in Consoles \ {c} : ConsoleOK(d)'
  BY <1>1, QuietConsole DEF ShadowOK
<1> QED
  BY <1>1, <1>2, <1>3, <1>5, <1>6, <1>7, <1>8 DEF ShadowOK

\* A connection ends.
LEMMA UnsubscribeShadow ==
  ASSUME ShadowOK, NEW c \in Consoles, Unsubscribe(c)
  PROVE  ShadowOK'
<1>1. <<>> \in Seq(Events) /\ Len(<<>>) = 0
  BY EmptySeq
<1>2. /\ stream' = [stream EXCEPT ![c] = <<>>] /\ seen' = [seen EXCEPT ![c] = 0]
      /\ due' = [due EXCEPT ![c] = 0] /\ sequence' = sequence /\ history' = history
  BY DEF Unsubscribe
<1>3. ConsoleOK(c)'
  <2>1. /\ stream'[c] = <<>> /\ seen'[c] = 0 /\ due'[c] = 0 /\ sequence \in Nat
        /\ EventQueue \in Nat
    BY <1>2, SwarmAssumption DEF ShadowOK
  <2> QED
    BY <1>1, <1>2, <2>1 DEF ConsoleOK, Ordered
<1>4. \A d \in Consoles \ {c} : ConsoleOK(d)'
  BY <1>2, QuietConsole DEF ShadowOK
<1> QED
  BY <1>1, <1>2, <1>3, <1>4 DEF ShadowOK

-----------------------------------------------------------------------------
(* The registry.                                                           *)

Metas == [tenant : Tenants, status : {"idle", "running", "takeover"}]

RegistryOK ==
  /\ registry \in [Agents -> {None} \cup Metas]
  /\ Cardinality(Registered) <= MaxAgents

\* As many agents or fewer, of those there were.
LEMMA FewerRegistered ==
  ASSUME RegistryOK, registry' \in [Agents -> {None} \cup Metas],
         Registered' \subseteq Registered
  PROVE  RegistryOK'
<1>1. IsFiniteSet(Registered)
  <2>1. Registered \subseteq Agents
    BY DEF Registered
  <2> QED
    BY <2>1, FS_Subset, SwarmAssumption
<1>2. /\ IsFiniteSet(Registered') /\ Cardinality(Registered') <= Cardinality(Registered)
      /\ Cardinality(Registered') \in Nat /\ Cardinality(Registered) \in Nat
  BY <1>1, FS_Subset, FS_CardinalityType
<1>3. MaxAgents \in Nat
  BY SwarmAssumption
<1> QED
  BY <1>2, <1>3 DEF RegistryOK

\* register: one more only if there is room for it.
LEMMA RegisterRegistry ==
  ASSUME RegistryOK, NEW a \in Agents, NEW tenant \in Tenants, Register(a, tenant)
  PROVE  RegistryOK'
<1>1. /\ registry' = [registry EXCEPT ![a] = [tenant |-> tenant, status |-> "idle"]]
      /\ registry \in [Agents -> {None} \cup Metas] /\ Cardinality(Registered) <= MaxAgents
      /\ registry[a] # None \/ Cardinality(Registered) < MaxAgents
  BY DEF Register, MayRegister, RegistryOK
<1>2. registry' \in [Agents -> {None} \cup Metas]
  BY <1>1 DEF Metas
<1>3. \A b \in Agents \ {a} : registry'[b] = registry[b]
  BY <1>1
<1>4. CASE registry[a] # None
  <2>1. Registered' \subseteq Registered
    BY <1>3, <1>4 DEF Registered
  <2> QED
    BY <1>2, <2>1, FewerRegistered
<1>5. CASE Cardinality(Registered) < MaxAgents
  <2> DEFINE more == Registered \cup {a}
  <2>1. IsFiniteSet(Registered) /\ Cardinality(Registered) \in Nat /\ MaxAgents \in Nat
    <3>1. Registered \subseteq Agents
      BY DEF Registered
    <3> QED
      BY <3>1, FS_Subset, FS_CardinalityType, SwarmAssumption
  <2>2. /\ IsFiniteSet(more)
        /\ Cardinality(more) = IF a \in Registered THEN Cardinality(Registered)
                                                   ELSE Cardinality(Registered) + 1
    BY <2>1, FS_AddElement
  <2>3. Registered' \subseteq more
    BY <1>3 DEF Registered
  <2> HIDE DEF more
  <2>4. /\ Cardinality(Registered') <= Cardinality(more) /\ Cardinality(Registered') \in Nat
        /\ Cardinality(more) \in Nat
    BY <2>2, <2>3, FS_Subset, FS_CardinalityType
  <2>5. Cardinality(more) <= MaxAgents
    BY <1>5, <2>1, <2>2
  <2> QED
    BY <1>2, <2>1, <2>4, <2>5 DEF RegistryOK
<1> QED
  BY <1>1, <1>4, <1>5

\* set_status, and the end of a registration.
LEMMA StatusRegistry ==
  ASSUME RegistryOK, NEW a \in Registered,
         \/ \E status \in {"running", "takeover"} : registry' = [registry EXCEPT ![a].status = status]
         \/ registry' = [registry EXCEPT ![a] = None]
  PROVE  RegistryOK'
<1>1. /\ a \in Agents /\ registry[a] \in Metas /\ registry \in [Agents -> {None} \cup Metas]
  BY DEF RegistryOK, Registered
<1>2. registry' \in [Agents -> {None} \cup Metas] /\ \A b \in Agents \ {a} : registry'[b] = registry[b]
  BY <1>1 DEF Metas
<1>3. Registered' \subseteq Registered
  BY <1>1, <1>2 DEF Registered
<1> QED
  BY <1>2, <1>3, FewerRegistered

SInv == RegistryOK /\ SignalsOK /\ ShadowOK

\* An observation is an event or two.
LEMMA KindsAre ==
  ASSUME NEW kinds \in Observations \cup {<<>>}
  PROVE  <<"status">> \o kinds \in Seq(Types) /\ <<"status">> \o kinds # <<>>
<1>1. <<"status">> \in Seq(Types) /\ Len(<<"status">>) = 1 /\ kinds \in Seq(Types)
  <2>1. "status" \in Types /\ "thought" \in Types
    BY DEF Types
  <2>3. <<"status">> \in Seq(Types) /\ <<"thought">> \in Seq(Types)
    BY <2>1
  <2>4. Len(<<"status">>) = 1
    OBVIOUS
  <2>5. kinds = <<>> \/ kinds = <<"thought">>
    BY DEF Observations
  <2>6. <<>> \in Seq(Types)
    BY EmptySeq
  <2> QED
    BY <2>3, <2>4, <2>5, <2>6
<1>2. Len(kinds) \in Nat
  BY <1>1, LenProperties
<1>3. <<"status">> \o kinds \in Seq(Types) /\ Len(<<"status">> \o kinds) = 1 + Len(kinds)
  BY <1>1, ConcatProperties
<1> DEFINE all == <<"status">> \o kinds
<1> HIDE DEF all
<1>4. all # <<>>
  <2>1. Len(<<>>) = 0
    BY EmptySeq
  <2> QED
    BY <1>2, <1>3, <2>1 DEF all
<1> QED
  BY <1>3, <1>4 DEF all

\* Registry and events, together: what is published names the tenant of the
\* agent as it is registered.
LEMMA NextHub ==
  ASSUME RegistryOK, ShadowOK, [Next]_vars
  PROVE  RegistryOK' /\ ShadowOK'
<1>1. CASE UNCHANGED <<registry, shadow, audience>>
  BY <1>1 DEF shadow, audience, RegistryOK, Registered, ShadowOK, ConsoleOK
<1>2. \A a \in Registered : a \in Agents /\ registry[a].tenant \in Tenants
  BY DEF RegistryOK, Registered, Metas
<1>3. ASSUME NEW a \in Registered, NEW status \in {"running", "takeover"},
             NEW kinds \in Observations \cup {<<>>}, SetStatus(a, status, kinds), UNCHANGED audience
      PROVE  RegistryOK' /\ ShadowOK'
  <2>1. RegistryOK'
    BY <1>3, StatusRegistry DEF SetStatus
  <2>2. status \in Shown
    BY DEF Shown
  <2>3. PublishAll(a, registry[a].tenant, <<"status">> \o kinds, status) /\ UNCHANGED seen
    BY <1>3 DEF SetStatus, audience
  <2> QED
    BY <1>2, <2>1, <2>2, <2>3, KindsAre, PublishShadow
<1>4. ASSUME NEW a \in Agents, Observe(a) PROVE RegistryOK' /\ ShadowOK'
  BY <1>3, <1>4 DEF Observe
<1>5. ASSUME NEW a \in Agents, NEW role \in Roles, ForceTakeover(a, role)
      PROVE  RegistryOK' /\ ShadowOK'
  BY <1>3, <1>5 DEF ForceTakeover
<1>6. ASSUME NEW a \in Agents, Unregister(a) PROVE RegistryOK' /\ ShadowOK'
  <2>1. a \in Registered /\ registry' = [registry EXCEPT ![a] = None]
    BY <1>6 DEF Unregister
  <2>2. RegistryOK'
    BY <2>1, StatusRegistry
  <2>3. /\ PublishAll(a, registry[a].tenant, <<"status">>, "offline") /\ UNCHANGED seen
        /\ "offline" \in Shown
    BY <1>6 DEF Unregister, audience, Shown
  <2>4. <<"status">> \in Seq(Types) /\ <<"status">> # <<>>
    BY DEF Types
  <2> QED
    BY <1>2, <2>1, <2>2, <2>3, <2>4, PublishShadow
<1>7. ASSUME NEW a \in Agents, NEW tenant \in Tenants, Register(a, tenant)
      PROVE  RegistryOK' /\ ShadowOK'
  <2>1. RegistryOK'
    BY <1>7, RegisterRegistry
  <2>2. ShadowOK'
    BY <1>7 DEF Register, shadow, audience, ShadowOK, ConsoleOK
  <2> QED
    BY <2>1, <2>2
<1>8. ASSUME NEW c \in Consoles,
             PumpShadow(c) \/ Unsubscribe(c) \/ \E scope \in Scopes : Subscribe(c, scope)
      PROVE  RegistryOK' /\ ShadowOK'
  <2>1. RegistryOK'
    BY <1>8 DEF PumpShadow, Unsubscribe, Subscribe, RegistryOK, Registered
  <2>2. ASSUME NEW scope \in Scopes, Subscribe(c, scope) PROVE ShadowOK'
    BY <2>2 DEF Subscribe, shadow, ShadowOK, ConsoleOK
  <2> QED
    BY <1>8, <2>1, <2>2, PumpsShadow, UnsubscribeShadow
<1>9. CASE \/ UNCHANGED vars
           \/ \E a \in Agents : Resume(a) \/ TakeSignal(a)
           \/ \E row \in saving : Saved(row)
  BY <1>1, <1>9 DEF vars, Resume, TakeSignal, Saved
<1> QED
  BY <1>4, <1>5, <1>6, <1>7, <1>8, <1>9 DEF Next

-----------------------------------------------------------------------------
(* The greatest of a set of indexes.                                       *)

\* Induction on the naturals, as the least element of a set.
LEMMA LeastNat ==
  ASSUME NEW T \in SUBSET Nat, T # {}
  PROVE  \E x \in T : \A y \in T : x <= y
<1> DEFINE R == {ss \in Nat \X Nat : ss[1] < ss[2]}
<1>1. IsWellFoundedOn(R, Nat)
  BY NatLessThanWellFounded DEF OpToRel
<1>2. PICK x \in T : \A y \in T : ~ (<<y, x>> \in R)
  <2> HIDE DEF R
  <2> QED
    BY <1>1, WFMin
<1>3. ASSUME NEW y \in T PROVE x <= y
  <2>1. x \in Nat /\ y \in Nat
    OBVIOUS
  <2>2. <<y, x>> \in Nat \X Nat /\ <<y, x>>[1] = y /\ <<y, x>>[2] = x
    BY <2>1
  <2>3. y < x => <<y, x>> \in R
    BY <2>2
  <2> QED
    BY <1>2, <2>1, <2>3
<1> QED
  BY <1>3

\* Max is what it says on indexes of a sequence.
LEMMA MaxIndex ==
  ASSUME NEW k \in Nat, NEW T \in SUBSET (1..k), T # {}
  PROVE  Max(T) \in T /\ \A y \in T : y <= Max(T)
<1> DEFINE D == {k - n : n \in T}
<1>1. \A n \in T : k - n \in Nat
  OBVIOUS
<1>2. D \in SUBSET Nat /\ D # {}
  BY <1>1
<1>3. PICK d \in D : \A e \in D : d <= e
  <2> HIDE DEF D
  <2> QED
    BY <1>2, LeastNat
<1>4. PICK x \in T : d = k - x
  OBVIOUS
<1>5. \A y \in T : k - x <= k - y
  BY <1>3, <1>4
<1>6. \A y \in T : x >= y
  BY <1>5
<1>7. \E z \in T : \A y \in T : z >= y
  BY <1>6
<1>8. Max(T) \in T /\ \A y \in T : Max(T) >= y
  BY <1>7 DEF Max
<1> QED
  BY <1>8

-----------------------------------------------------------------------------
(* What history tells.                                                     *)

\* An agent's history is in the order of publication, up to now.
HistoryOK(a) ==
  LET h == history[a] IN
  /\ \A n \in 1..Len(h) : h[n].sequence <= sequence
  /\ \A m, n \in 1..Len(h) : m < n => h[m].sequence < h[n].sequence

\* Its last status is the registry's, if there was room for the thought behind it.
ShownOK(a) ==
  LET h == history[a] IN
  History >= 2 /\ registry[a] # None =>
    (registry[a].status # "idle" =>
      \E n \in 1..Len(h) : /\ h[n].type = "status" /\ h[n].status = registry[a].status
                           /\ \A m \in 1..Len(h) : h[m].type = "status" => m <= n)

\* A thought that is later than the one in the row is not among the Recent events
\* up to the takeover, and the event of the takeover has the row's tenant.
RowOK(row) ==
  LET h == history[row.agent] IN
  /\ row.agent \in Agents /\ row.at \in Nat /\ row.thought \in Nat
  /\ row.at <= sequence /\ row.thought < row.at
  /\ \A n \in 1..Len(h) :
       /\ h[n].sequence = row.at => h[n].tenant = row.tenant
       /\ h[n].type = "thought" /\ row.thought < h[n].sequence /\ h[n].sequence <= row.at =>
            n + Recent <= Len(h) /\ h[n + Recent].sequence <= row.at

LInv ==
  /\ \A a \in Agents : HistoryOK(a) /\ ShownOK(a)
  /\ \A row \in saving : RowOK(row)

\* Nothing registered, published or waited for.
LEMMA InitHistory == Init => LInv
<1> SUFFICES ASSUME Init PROVE LInv
  OBVIOUS
<1>1. Len(<<>>) = 0
  BY EmptySeq
<1> QED
  BY <1>1 DEF Init, LInv, HistoryOK, ShownOK

\* The n-th of the events published together.
EventOf(n, tenant, kinds, status) ==
  [sequence |-> sequence + n, tenant |-> tenant, type |-> kinds[n],
   status |-> IF kinds[n] = "status" THEN status ELSE None]

\* They come after what there is, of which d are dropped.
Pushed(h, h2, d, tenant, kinds, status) ==
  /\ Len(h2) \in Nat \ {0} /\ Len(h2) + d = Len(h) + Len(kinds)
  /\ d = 0 \/ Len(h2) = History
  /\ \A n \in 1..Len(h2), m \in 1..(Len(h) + Len(kinds)) :
       m = n + d => h2[n] = IF m <= Len(h) THEN h[m] ELSE EventOf(m - Len(h), tenant, kinds, status)

\* publish, as an agent's history sees it.
LEMMA PublishPushes ==
  ASSUME ShadowOK, NEW a \in Agents, NEW tenant \in Tenants, NEW kinds \in Seq(Types),
         kinds # <<>>, NEW status \in Shown, PublishAll(a, tenant, kinds, status)
  PROVE  /\ \A b \in Agents \ {a} : history'[b] = history[b]
         /\ sequence' = sequence + Len(kinds)
         /\ \E d \in Nat : Pushed(history[a], history'[a], d, tenant, kinds, status)
<1> DEFINE k == Len(kinds)
           h == history[a]
           events == [n \in DOMAIN kinds |-> EventOf(n, tenant, kinds, status)]
           q == h \o events
           kept == Kept(q, History)
<1>1. /\ k \in Nat \ {0} /\ DOMAIN kinds = 1..k /\ sequence \in Nat
      /\ \A n \in 1..k : kinds[n] \in Types
      /\ h \in Seq(Events) /\ Len(h) \in Nat /\ History \in Nat \ {0}
  BY LenProperties, EmptySeq, ElementOfSeq, SwarmAssumption DEF ShadowOK
<1>2. sequence' = sequence + k /\ history' = [history EXCEPT ![a] = kept]
  BY DEF PublishAll, EventOf
<1>3. events \in [1..k -> Events]
  BY <1>1 DEF Events, Shown, EventOf
<1>4. \A n \in 1..k : events[n] = EventOf(n, tenant, kinds, status)
  BY <1>1
<1> HIDE DEF k, h, events
<1>5. events \in Seq(Events) /\ Len(events) = k
  BY <1>1, <1>3, SeqDef, LenProperties
<1>6. /\ q \in Seq(Events) /\ Len(q) = Len(h) + k
      /\ \A i \in 1..(Len(h) + k) : q[i] = IF i <= Len(h) THEN h[i] ELSE events[i - Len(h)]
  BY <1>1, <1>5, ConcatProperties
<1> HIDE DEF q
<1>7. /\ Len(kept) = (IF Len(q) <= History THEN Len(q) ELSE History)
      /\ \A n \in 1..Len(kept) : kept[n] = q[n + (Len(q) - Len(kept))]
  BY <1>1, <1>6, KeptIs
<1>8. history'[a] = kept
  BY <1>2 DEF ShadowOK
<1> HIDE DEF kept
<1> DEFINE d == Len(q) - Len(kept)
<1>9. /\ d \in Nat /\ Len(kept) \in Nat \ {0} /\ Len(kept) + d = Len(h) + k
      /\ d = 0 \/ Len(kept) = History
  BY <1>1, <1>6, <1>7
<1>10. ASSUME NEW n \in 1..Len(kept), NEW m \in 1..(Len(h) + k), m = n + d
       PROVE  kept[n] = IF m <= Len(h) THEN h[m] ELSE EventOf(m - Len(h), tenant, kinds, status)
  <2>1. kept[n] = q[m] /\ q[m] = IF m <= Len(h) THEN h[m] ELSE events[m - Len(h)]
    BY <1>6, <1>7, <1>10
  <2>2. ~(m <= Len(h)) => m - Len(h) \in 1..k
    BY <1>1
  <2> QED
    BY <1>4, <2>1, <2>2
<1> HIDE DEF d
<1>11. Pushed(h, kept, d, tenant, kinds, status)
  BY <1>9, <1>10 DEF Pushed, k
<1> QED
  BY <1>2, <1>8, <1>9, <1>11 DEF h, k

IsOld(h, h2, n, d) == \E m \in 1..Len(h) : n + d = m /\ h2[n] = h[m]

IsNew(h, h2, n, d, j, tenant, kinds, status) ==
  n + d = Len(h) + j /\ h2[n] = EventOf(j, tenant, kinds, status)

\* An event of the new history is an old one, or one of those published.
LEMMA PushedFrom ==
  ASSUME ShadowOK, NEW a \in Agents, NEW tenant, NEW kinds \in Seq(Types), NEW status,
         NEW h2, NEW d \in Nat, Pushed(history[a], h2, d, tenant, kinds, status), NEW n \in 1..Len(h2)
  PROVE  \/ IsOld(history[a], h2, n, d)
         \/ \E j \in 1..Len(kinds) : IsNew(history[a], h2, n, d, j, tenant, kinds, status)
<1> DEFINE h == history[a]
           len == Len(h)
           m == n + d
<1>1. len \in Nat /\ Len(kinds) \in Nat /\ Len(h2) \in Nat /\ Len(h2) + d = len + Len(kinds)
  BY LenProperties DEF ShadowOK, Pushed
<1>2. m \in 1..(len + Len(kinds))
  BY <1>1
<1>3. h2[n] = IF m <= len THEN h[m] ELSE EventOf(m - len, tenant, kinds, status)
  BY <1>2 DEF Pushed
<1> HIDE DEF len, m
<1>4. CASE m <= len
  <2>1. h2[n] = h[m] /\ m \in 1..len
    BY <1>1, <1>2, <1>3, <1>4
  <2> QED
    BY <2>1 DEF len, m, IsOld
<1>5. CASE ~(m <= len)
  <2>1. h2[n] = EventOf(m - len, tenant, kinds, status) /\ m - len \in 1..Len(kinds)
        /\ m = len + (m - len)
    BY <1>1, <1>2, <1>3, <1>5
  <2> QED
    BY <2>1 DEF len, m, IsNew
<1> QED
  BY <1>4, <1>5

\* The order of publication goes on.
LEMMA PushOrder ==
  ASSUME ShadowOK, NEW a \in Agents, HistoryOK(a), NEW tenant, NEW kinds \in Seq(Types),
         NEW status, NEW d \in Nat, Pushed(history[a], history'[a], d, tenant, kinds, status),
         sequence' = sequence + Len(kinds)
  PROVE  HistoryOK(a)'
<1> DEFINE h == history[a]
           len == Len(h)
           h2 == history'[a]
           k == Len(kinds)
<1>1. /\ len \in Nat /\ k \in Nat /\ sequence \in Nat /\ h \in Seq(Events)
      /\ \A n \in 1..len : h[n].sequence <= sequence
      /\ \A m, n \in 1..len : m < n => h[m].sequence < h[n].sequence
  BY LenProperties DEF ShadowOK, HistoryOK
<1>2. \A n \in 1..len : h[n].sequence \in Nat
  <2>1. \A n \in 1..len : h[n] \in Events
    BY <1>1, ElementOfSeq
  <2> QED
    BY <2>1 DEF Events
<1>3. ASSUME NEW n \in 1..Len(h2)
      PROVE  \/ \E m \in 1..len : n + d = m /\ h2[n] = h[m]
             \/ \E j \in 1..k : n + d = len + j /\ h2[n].sequence = sequence + j
  <2>1. \/ IsOld(h, h2, n, d)
        \/ \E j \in 1..k : IsNew(h, h2, n, d, j, tenant, kinds, status)
    BY PushedFrom
  <2> HIDE DEF h, h2, k
  <2>2. IsOld(h, h2, n, d) => \E m \in 1..len : n + d = m /\ h2[n] = h[m]
    BY DEF IsOld
  <2>3. ASSUME NEW j \in 1..k, IsNew(h, h2, n, d, j, tenant, kinds, status)
        PROVE  n + d = len + j /\ h2[n].sequence = sequence + j
    BY <2>3 DEF IsNew, EventOf
  <2> QED
    BY <2>1, <2>2, <2>3
<1>4. Len(h2) \in Nat
  BY DEF Pushed
<1> HIDE DEF len, h, h2, k
<1>5. ASSUME NEW n \in 1..Len(h2) PROVE h2[n].sequence <= sequence + k
  <2>1. ASSUME NEW m \in 1..len, h2[n] = h[m] PROVE h2[n].sequence <= sequence + k
    <3>1. h[m].sequence \in Nat /\ h[m].sequence <= sequence
      BY <1>1, <1>2
    <3> QED
      BY <1>1, <2>1, <3>1
  <2>2. ASSUME NEW j \in 1..k, h2[n].sequence = sequence + j PROVE h2[n].sequence <= sequence + k
    BY <1>1, <2>2
  <2> QED
    BY <1>3, <2>1, <2>2
<1>6. ASSUME NEW m \in 1..Len(h2), NEW n \in 1..Len(h2), m < n
      PROVE  h2[m].sequence < h2[n].sequence
  <2>1. ASSUME NEW m1 \in 1..len, m + d = m1, h2[m] = h[m1],
               NEW n1 \in 1..len, n + d = n1, h2[n] = h[n1]
        PROVE  h2[m].sequence < h2[n].sequence
    <3>1. m1 < n1
      BY <1>4, <1>6, <2>1
    <3> QED
      BY <1>1, <2>1, <3>1
  <2>2. ASSUME NEW m1 \in 1..len, h2[m] = h[m1],
               NEW j \in 1..k, h2[n].sequence = sequence + j
        PROVE  h2[m].sequence < h2[n].sequence
    <3>1. h[m1].sequence \in Nat /\ h[m1].sequence <= sequence
      BY <1>1, <1>2
    <3> QED
      BY <1>1, <2>2, <3>1
  <2>3. ASSUME NEW i \in 1..k, m + d = len + i, h2[m].sequence = sequence + i,
               NEW j \in 1..k, n + d = len + j, h2[n].sequence = sequence + j
        PROVE  h2[m].sequence < h2[n].sequence
    BY <1>1, <1>4, <1>6, <2>3
  <2>4. ASSUME NEW i \in 1..k, m + d = len + i, NEW n1 \in 1..len, n + d = n1 PROVE FALSE
    BY <1>1, <1>4, <1>6, <2>4
  <2> QED
    BY <1>3, <2>1, <2>2, <2>3, <2>4
<1> QED
  BY <1>5, <1>6 DEF HistoryOK, h2, k

\* What a row tells of an agent that goes on publishing stays true: the events up
\* to the takeover are as far from each other as they were, and older ones go
\* first.
LEMMA PushRow ==
  ASSUME ShadowOK, NEW row, RowOK(row), NEW tenant,
         NEW kinds \in Seq(Types), NEW status, NEW d \in Nat,
         Pushed(history[row.agent], history'[row.agent], d, tenant, kinds, status),
         sequence' = sequence + Len(kinds)
  PROVE  RowOK(row)'
<1> DEFINE a == row.agent
           h == history[a]
           len == Len(h)
           h2 == history'[a]
           k == Len(kinds)
<1>1. /\ a \in Agents /\ row.at \in Nat /\ row.thought \in Nat /\ row.at <= sequence
      /\ row.thought < row.at /\ Recent \in Nat \ {0}
  BY SwarmAssumption DEF RowOK
<1>2. /\ len \in Nat /\ k \in Nat /\ Len(h2) \in Nat /\ sequence \in Nat /\ Len(h2) + d = len + k
  BY <1>1, LenProperties DEF ShadowOK, Pushed
<1>3. \A n \in 1..len :
        /\ h[n].sequence = row.at => h[n].tenant = row.tenant
        /\ h[n].type = "thought" /\ row.thought < h[n].sequence /\ h[n].sequence <= row.at =>
             n + Recent <= len /\ h[n + Recent].sequence <= row.at
  BY DEF RowOK
<1>4. ASSUME NEW n \in 1..Len(h2)
      PROVE  \/ \E m \in 1..len : n + d = m /\ h2[n] = h[m]
             \/ \E j \in 1..k : n + d = len + j /\ h2[n].sequence = sequence + j
  <2>1. \/ IsOld(h, h2, n, d)
        \/ \E j \in 1..k : IsNew(h, h2, n, d, j, tenant, kinds, status)
    BY <1>1, PushedFrom
  <2> HIDE DEF h, h2, k
  <2>2. IsOld(h, h2, n, d) => \E m \in 1..len : n + d = m /\ h2[n] = h[m]
    BY DEF IsOld
  <2>3. ASSUME NEW j \in 1..k, IsNew(h, h2, n, d, j, tenant, kinds, status)
        PROVE  n + d = len + j /\ h2[n].sequence = sequence + j
    BY <2>3 DEF IsNew, EventOf
  <2> QED
    BY <2>1, <2>2, <2>3
<1> HIDE DEF len, h, h2, k, a
<1>5. ASSUME NEW n \in 1..Len(h2), h2[n].sequence <= row.at
      PROVE  \E m \in 1..len : n + d = m /\ h2[n] = h[m]
  <2>1. ASSUME NEW j \in 1..k, h2[n].sequence = sequence + j PROVE FALSE
    BY <1>1, <1>2, <1>5, <2>1
  <2> QED
    BY <1>4, <2>1
<1>6. ASSUME NEW n \in 1..Len(h2), h2[n].sequence = row.at PROVE h2[n].tenant = row.tenant
  <2>1. h2[n].sequence <= row.at
    BY <1>1, <1>6
  <2>2. PICK m \in 1..len : h2[n] = h[m]
    BY <1>5, <2>1
  <2> QED
    BY <1>3, <1>6, <2>2
<1>7. ASSUME NEW n \in 1..Len(h2), h2[n].type = "thought", row.thought < h2[n].sequence,
             h2[n].sequence <= row.at
      PROVE  n + Recent <= Len(h2) /\ h2[n + Recent].sequence <= row.at
  <2>1. PICK m \in 1..len : n + d = m /\ h2[n] = h[m]
    BY <1>5, <1>7
  <2>2. m + Recent <= len /\ h[m + Recent].sequence <= row.at
    BY <1>3, <1>7, <2>1
  <2>3. n + Recent \in 1..Len(h2) /\ (n + Recent) + d = m + Recent
    <3>1. n + d = m /\ m + Recent <= len
      BY <2>1, <2>2
    <3> QED
      BY <1>1, <1>2, <3>1
  <2>4. ASSUME NEW j \in 1..k, (n + Recent) + d = len + j PROVE FALSE
    BY <1>1, <1>2, <2>2, <2>3, <2>4
  <2>5. PICK m2 \in 1..len : (n + Recent) + d = m2 /\ h2[n + Recent] = h[m2]
    BY <1>4, <2>3, <2>4
  <2> QED
    BY <2>2, <2>3, <2>5
<1>8. row.at <= sequence + k
  BY <1>1, <1>2
<1> QED
  BY <1>1, <1>6, <1>7, <1>8 DEF RowOK, h2, k, a

\* The latest thought of the recent events: none that is later is among them.
LEMMA LatestIs ==
  ASSUME NEW h \in Seq(Events), \A m, n \in 1..Len(h) : m < n => h[m].sequence < h[n].sequence
  PROVE  LET t == Latest(h, Recent) IN
         /\ t = 0 \/ \E n \in 1..Len(h) : h[n].type = "thought" /\ h[n].sequence = t
         /\ t \in Nat
         /\ \A n \in 1..Len(h) : h[n].type = "thought" /\ t < h[n].sequence => n + Recent <= Len(h)
<1> DEFINE T == RecentThoughts(h, Recent)
           t == Latest(h, Recent)
<1>1. /\ Len(h) \in Nat /\ Recent \in Nat /\ DOMAIN h = 1..Len(h)
      /\ \A n \in 1..Len(h) : h[n].sequence \in Nat
  <2>1. Len(h) \in Nat /\ Recent \in Nat /\ DOMAIN h = 1..Len(h)
    BY LenProperties, SwarmAssumption
  <2>2. \A n \in 1..Len(h) : h[n] \in Events
    BY ElementOfSeq
  <2> QED
    BY <2>1, <2>2 DEF Events
<1>2. /\ T \in SUBSET (1..Len(h)) /\ \A n \in T : h[n].type = "thought"
      /\ \A n \in 1..Len(h) : h[n].type = "thought" /\ ~(n + Recent <= Len(h)) => n \in T
  BY <1>1 DEF RecentThoughts
<1>3. t = IF T = {} THEN 0 ELSE h[Max(T)].sequence
  BY DEF Latest
<1> HIDE DEF T, t
<1>4. CASE T = {}
  BY <1>2, <1>3, <1>4 DEF t
<1>5. CASE T # {}
  <2>1. Max(T) \in T /\ \A y \in T : y <= Max(T)
    BY <1>1, <1>2, <1>5, MaxIndex
  <2>2. Max(T) \in 1..Len(h) /\ h[Max(T)].type = "thought" /\ t = h[Max(T)].sequence
    BY <1>2, <1>3, <1>5, <2>1
  <2>3. ASSUME NEW n \in 1..Len(h), h[n].type = "thought", t < h[n].sequence
        PROVE  n + Recent <= Len(h)
    <3>1. CASE n \in T
      <4>1. n = Max(T) \/ n < Max(T)
        BY <2>1, <2>2, <3>1
      <4>2. h[n].sequence <= t
        BY <1>1, <2>2, <4>1
      <4> QED
        BY <1>1, <2>2, <2>3, <4>2
    <3>2. CASE n \notin T
      BY <1>2, <2>3, <3>2
    <3> QED
      BY <3>1, <3>2
  <2> QED
    BY <1>1, <2>2, <2>3 DEF t
<1> QED
  BY <1>4, <1>5

\* set_status, and what is said with it: the status is in the history, and behind
\* it at most a thought.
LEMMA StatusShown ==
  ASSUME ShadowOK, RegistryOK, NEW a \in Registered, NEW status \in {"running", "takeover"},
         NEW kinds \in Observations \cup {<<>>}, SetStatus(a, status, kinds)
  PROVE  ShownOK(a)'
<1> DEFINE all == <<"status">> \o kinds
           tenant == registry[a].tenant
           h == history[a]
           h2 == history'[a]
           len == Len(h)
<1>1. /\ a \in Agents /\ tenant \in Tenants /\ all \in Seq(Types) /\ all # <<>> /\ status \in Shown
      /\ PublishAll(a, tenant, all, status) /\ registry'[a].status = status
  BY KindsAre DEF SetStatus, RegistryOK, Registered, Metas, Shown
<1>2. /\ Len(all) \in {1, 2} /\ all[1] = "status"
      /\ \A j \in 1..Len(all) : all[j] = "status" => j = 1
  <2>1. CASE kinds = <<>>
    <3>1. all = <<"status">>
      BY <2>1
    <3> HIDE DEF all
    <3> QED
      BY <3>1
  <2>2. CASE kinds = <<"thought">>
    <3>1. <<"status">> \in Seq(Types) /\ <<"thought">> \in Seq(Types)
      BY DEF Types
    <3>2. /\ Len(<<"status">>) = 1 /\ <<"status">>[1] = "status"
          /\ Len(<<"thought">>) = 1 /\ <<"thought">>[1] = "thought"
      OBVIOUS
    <3> DEFINE one == <<"status">>
               other == <<"thought">>
    <3> HIDE DEF one, other
    <3>3. /\ Len(one \o other) = Len(one) + Len(other)
          /\ \A i \in 1..(Len(one) + Len(other)) :
               (one \o other)[i] = IF i <= Len(one) THEN one[i] ELSE other[i - Len(one)]
      BY <3>1, ConcatProperties DEF one, other
    <3>4. all = one \o other
      BY <2>2 DEF one, other
    <3>5. Len(one) = 1 /\ one[1] = "status" /\ Len(other) = 1 /\ other[1] = "thought"
      BY <3>2 DEF one, other
    <3> HIDE DEF all
    <3>6. Len(all) = 2 /\ all[1] = "status" /\ all[2] = "thought"
      BY <3>3, <3>4, <3>5
    <3> QED
      BY <3>6
  <2> QED
    BY <2>1, <2>2 DEF Observations
<1> HIDE DEF all
<1>3. PICK d \in Nat : Pushed(h, h2, d, tenant, all, status)
  BY <1>1, PublishPushes
<1>4. /\ len \in Nat /\ Len(h2) \in Nat \ {0} /\ Len(h2) + d = len + Len(all)
      /\ d = 0 \/ Len(h2) = History
  BY <1>1, <1>3, LenProperties DEF ShadowOK, Pushed
<1>5. ASSUME NEW n \in 1..Len(h2)
      PROVE  IsOld(h, h2, n, d) \/ \E j \in 1..Len(all) : IsNew(h, h2, n, d, j, tenant, all, status)
  BY <1>1, <1>3, PushedFrom
<1> HIDE DEF h, h2, tenant, len
<1>6. SUFFICES ASSUME History >= 2
               PROVE  \E n \in 1..Len(h2) :
                        /\ h2[n].type = "status" /\ h2[n].status = status
                        /\ \A m \in 1..Len(h2) : h2[m].type = "status" => m <= n
  BY <1>1, <1>4 DEF ShownOK, h2
<1> DEFINE n == len + 1 - d
<1>7. n \in 1..Len(h2) /\ n + d = len + 1
  BY <1>2, <1>4, <1>6, SwarmAssumption
<1> HIDE DEF n
<1>8. ~IsOld(h, h2, n, d)
  BY <1>4, <1>7 DEF IsOld, len
<1>9. PICK j \in 1..Len(all) : IsNew(h, h2, n, d, j, tenant, all, status)
  BY <1>5, <1>7, <1>8
<1>10. j = 1
  BY <1>2, <1>4, <1>7, <1>9 DEF IsNew, len
<1>11. h2[n].type = "status" /\ h2[n].status = status
  BY <1>2, <1>9, <1>10 DEF IsNew, EventOf
<1>12. ASSUME NEW m \in 1..Len(h2), h2[m].type = "status" PROVE m <= n
  <2>1. CASE IsOld(h, h2, m, d)
    <3>1. m + d <= len
      BY <1>4, <2>1 DEF IsOld, len
    <3> QED
      BY <1>4, <1>7, <3>1
  <2>2. ASSUME NEW i \in 1..Len(all), IsNew(h, h2, m, d, i, tenant, all, status) PROVE m <= n
    <3>1. m + d = len + i /\ all[i] = "status"
      BY <1>12, <2>2 DEF IsNew, EventOf, len
    <3>2. i = 1
      BY <1>2, <3>1
    <3> QED
      BY <1>4, <1>7, <3>1, <3>2
  <2> QED
    BY <1>5, <2>1, <2>2
<1> QED
  BY <1>7, <1>11, <1>12

\* A takeover's row tells what its own status event and what came before it tell.
LEMMA NewRow ==
  ASSUME ShadowOK, RegistryOK, NEW a \in Registered, HistoryOK(a)', ShadowOK',
         SetStatus(a, "takeover", <<>>), NEW row, row = Row(a)
  PROVE  RowOK(row)'
<1> DEFINE tenant == registry[a].tenant
           all == <<"status">> \o <<>>
           h == history[a]
           h2 == history'[a]
           thought == LastThought(h2)
<1>1. /\ a \in Agents /\ tenant \in Tenants /\ all \in Seq(Types) /\ all # <<>>
      /\ PublishAll(a, tenant, all, "takeover") /\ "takeover" \in Shown /\ sequence \in Nat
  BY KindsAre DEF SetStatus, RegistryOK, Registered, Metas, Shown, ShadowOK
<1>2. all = <<"status">> /\ Len(all) = 1 /\ all[1] = "status"
  OBVIOUS
<1> HIDE DEF all
<1>3. PICK d \in Nat : Pushed(h, h2, d, tenant, all, "takeover")
  BY <1>1, PublishPushes
<1>4. sequence' = sequence + 1
  BY <1>1, <1>2, PublishPushes
<1>5. /\ h2 \in Seq(Events) /\ Len(h2) \in Nat \ {0} /\ Len(h) \in Nat
      /\ Len(h2) + d = Len(h) + 1
      /\ \A n \in 1..Len(h2) : h2[n].sequence <= sequence + 1
      /\ \A m, n \in 1..Len(h2) : m < n => h2[m].sequence < h2[n].sequence
  BY <1>1, <1>2, <1>3, <1>4, LenProperties DEF ShadowOK, Pushed, HistoryOK
<1>6. \A n \in 1..Len(h2) : h2[n] \in Events /\ h2[n].sequence \in Nat
  <2>1. \A n \in 1..Len(h2) : h2[n] \in Events
    BY <1>5, ElementOfSeq
  <2> QED
    BY <2>1 DEF Events
<1>7. ASSUME NEW n \in 1..Len(h2)
      PROVE  IsOld(h, h2, n, d) \/ \E j \in 1..Len(all) : IsNew(h, h2, n, d, j, tenant, all, "takeover")
  BY <1>1, <1>3, PushedFrom
<1>8. row.agent = a /\ row.tenant = tenant /\ row.at = sequence' /\ row.thought = thought
  BY DEF Row, thought, tenant, h2
<1>9. /\ thought = 0 \/ \E n \in 1..Len(h2) : h2[n].type = "thought" /\ h2[n].sequence = thought
      /\ thought \in Nat
      /\ \A n \in 1..Len(h2) :
           h2[n].type = "thought" /\ thought < h2[n].sequence => n + Recent <= Len(h2)
  BY <1>5, LatestIs DEF LastThought
<1> HIDE DEF h, h2, tenant, thought
<1> DEFINE last == Len(h2)
<1>10. last \in 1..last /\ last + d = Len(h) + 1
  BY <1>5
<1>11. /\ h2[last].type = "status" /\ h2[last].tenant = tenant
       /\ h2[last].sequence = sequence + 1
  <2>1. ~IsOld(h, h2, last, d)
    BY <1>5, <1>10 DEF IsOld
  <2>2. PICK j \in 1..Len(all) : IsNew(h, h2, last, d, j, tenant, all, "takeover")
    BY <1>7, <1>10, <2>1
  <2>3. j = 1
    BY <1>2, <2>2
  <2> QED
    BY <1>2, <2>2, <2>3 DEF IsNew, EventOf
<1>12. \A n \in 1..last : h2[n].sequence = sequence + 1 => n = last
  <2>1. ASSUME NEW n \in 1..last, n # last PROVE h2[n].sequence < sequence + 1
    <3>1. n < last
      BY <1>5, <2>1
    <3> QED
      BY <1>5, <1>10, <1>11, <3>1
  <2>2. \A n \in 1..last : h2[n].sequence \in Nat
    BY <1>6
  <2> QED
    BY <1>1, <2>1, <2>2
<1>13. thought < sequence + 1
  <2>1. CASE thought = 0
    BY <1>1, <2>1
  <2>2. ASSUME NEW n \in 1..last, h2[n].type = "thought", h2[n].sequence = thought
        PROVE  thought < sequence + 1
    <3>1. n # last
      BY <1>11, <2>2
    <3>2. h2[n].sequence # sequence + 1 /\ h2[n].sequence <= sequence + 1 /\ h2[n].sequence \in Nat
      BY <1>5, <1>6, <1>12, <3>1
    <3> QED
      BY <1>1, <2>2, <3>2
  <2> QED
    BY <1>9, <2>1, <2>2
<1>14. ASSUME NEW n \in 1..last, h2[n].type = "thought", thought < h2[n].sequence
       PROVE  n + Recent <= last /\ h2[n + Recent].sequence <= sequence + 1
  <2>1. n + Recent <= last
    BY <1>9, <1>14
  <2>2. n + Recent \in 1..last
    BY <1>5, <2>1, SwarmAssumption
  <2> QED
    BY <1>5, <2>1, <2>2
<1>15. \A n \in 1..last : h2[n].sequence = sequence + 1 => h2[n].tenant = tenant
  BY <1>11, <1>12
<1> QED
  BY <1>1, <1>4, <1>5, <1>8, <1>9, <1>13, <1>14, <1>15 DEF RowOK, h2

\* publish, as all histories and rows see it: the order goes on, and what the rows
\* tell stays true.
LEMMA PublishHistory ==
  ASSUME ShadowOK, LInv, NEW a \in Agents, NEW tenant \in Tenants, NEW kinds \in Seq(Types),
         kinds # <<>>, NEW status \in Shown, PublishAll(a, tenant, kinds, status)
  PROVE  /\ \A b \in Agents : HistoryOK(b)'
         /\ \A row \in saving : RowOK(row)'
<1>1. /\ \A b \in Agents \ {a} : history'[b] = history[b]
      /\ sequence' = sequence + Len(kinds)
      /\ \E d \in Nat : Pushed(history[a], history'[a], d, tenant, kinds, status)
  BY PublishPushes
<1>2. PICK d \in Nat : Pushed(history[a], history'[a], d, tenant, kinds, status)
  BY <1>1
<1>3. sequence \in Nat /\ sequence' \in Nat /\ sequence <= sequence'
  <2>1. sequence \in Nat /\ Len(kinds) \in Nat
    BY LenProperties DEF ShadowOK
  <2> QED
    BY <1>1, <2>1
<1>4. ASSUME NEW b \in Agents PROVE HistoryOK(b)'
  <2>1. HistoryOK(b)
    BY DEF LInv
  <2>2. CASE b = a
    BY <1>1, <1>2, <2>1, <2>2, PushOrder
  <2>3. CASE b # a
    <3>1. history'[b] = history[b]
      BY <1>1, <2>3
    <3>2. \A n \in 1..Len(history[b]) : history[b][n].sequence \in Nat
      <4>1. history[b] \in Seq(Events)
        BY DEF ShadowOK
      <4>2. \A n \in 1..Len(history[b]) : history[b][n] \in Events
        BY <4>1, ElementOfSeq
      <4> QED
        BY <4>2 DEF Events
    <3> QED
      BY <1>3, <2>1, <3>1, <3>2 DEF HistoryOK
  <2> QED
    BY <2>2, <2>3
<1>5. ASSUME NEW row \in saving PROVE RowOK(row)'
  <2>1. RowOK(row)
    BY DEF LInv
  <2>2. CASE row.agent = a
    <3>1. Pushed(history[row.agent], history'[row.agent], d, tenant, kinds, status)
      BY <1>2, <2>2
    <3> QED
      BY <1>1, <2>1, <3>1, PushRow
  <2>3. CASE row.agent # a
    <3>1. history'[row.agent] = history[row.agent]
      BY <1>1, <2>1, <2>3 DEF RowOK
    <3>2. row.at \in Nat
      BY <2>1 DEF RowOK
    <3> QED
      BY <1>3, <2>1, <3>1, <3>2 DEF RowOK
  <2> QED
    BY <2>2, <2>3
<1> QED
  BY <1>4, <1>5

\* Who does not publish keeps its history and its status.
LEMMA QuietShown ==
  ASSUME LInv, NEW b \in Agents, history'[b] = history[b], registry'[b] = registry[b]
  PROVE  ShownOK(b)'
BY DEF LInv, ShownOK

\* The end of a registration, a new one, a status and a takeover: what the rows and
\* the histories tell stays true, and a new row tells what it should.
LEMMA NextHistory ==
  ASSUME RegistryOK, ShadowOK, ShadowOK', LInv, [Next]_vars
  PROVE  LInv'
<1>1. CASE UNCHANGED <<registry, sequence, history>> /\ saving' \subseteq saving
  BY <1>1 DEF LInv, HistoryOK, ShownOK, RowOK
<1>2. \A a \in Registered : a \in Agents /\ registry[a].tenant \in Tenants
  BY DEF RegistryOK, Registered, Metas
<1>3. ASSUME NEW a \in Registered, NEW status \in {"running", "takeover"},
             NEW kinds \in Observations \cup {<<>>}, SetStatus(a, status, kinds)
      PROVE  /\ \A b \in Agents : HistoryOK(b)' /\ ShownOK(b)'
             /\ \A row \in saving : RowOK(row)'
  <2>1. PublishAll(a, registry[a].tenant, <<"status">> \o kinds, status) /\ status \in Shown
    BY <1>3 DEF SetStatus, Shown
  <2>2. /\ \A b \in Agents : HistoryOK(b)'
        /\ \A row \in saving : RowOK(row)'
    BY <1>2, <2>1, KindsAre, PublishHistory
  <2>3. ShownOK(a)'
    BY <1>3, StatusShown
  <2>4. ASSUME NEW b \in Agents \ {a} PROVE ShownOK(b)'
    <3>1. history'[b] = history[b]
      BY <1>2, <2>1, KindsAre, PublishPushes
    <3>2. registry'[b] = registry[b]
      BY <1>3 DEF SetStatus, RegistryOK
    <3> QED
      BY <3>1, <3>2, QuietShown
  <2> QED
    BY <2>2, <2>3, <2>4
<1>4. ASSUME NEW a \in Agents, Observe(a) PROVE LInv'
  <2>1. a \in Registered /\ saving' = saving
    BY <1>4 DEF Observe
  <2>2. PICK kinds \in Observations : SetStatus(a, "running", kinds)
    BY <1>4 DEF Observe
  <2>3. /\ \A b \in Agents : HistoryOK(b)' /\ ShownOK(b)'
        /\ \A row \in saving : RowOK(row)'
    BY <1>3, <2>1, <2>2
  <2> QED
    BY <2>1, <2>3 DEF LInv
<1>5. ASSUME NEW a \in Agents, NEW role \in Roles, ForceTakeover(a, role) PROVE LInv'
  <2> DEFINE new == Row(a)
  <2>1. a \in Registered /\ SetStatus(a, "takeover", <<>>) /\ saving' = saving \cup {new}
    BY <1>5 DEF ForceTakeover
  <2>2. /\ \A b \in Agents : HistoryOK(b)' /\ ShownOK(b)'
        /\ \A row \in saving : RowOK(row)'
    BY <1>3, <2>1
  <2>3. HistoryOK(a)'
    BY <1>2, <2>1, <2>2
  <2>4. ASSUME NEW row, row = new PROVE RowOK(row)'
    BY <2>1, <2>3, <2>4, NewRow
  <2> HIDE DEF new
  <2>5. \A row \in saving' : RowOK(row)'
    BY <2>1, <2>2, <2>4
  <2> QED
    BY <2>2, <2>5 DEF LInv
<1>6. ASSUME NEW a \in Agents, Unregister(a) PROVE LInv'
  <2>1. /\ a \in Registered /\ registry' = [registry EXCEPT ![a] = None] /\ saving' = saving
        /\ PublishAll(a, registry[a].tenant, <<"status">>, "offline") /\ "offline" \in Shown
    BY <1>6 DEF Unregister, Shown
  <2>2. <<"status">> \in Seq(Types) /\ <<"status">> # <<>>
    BY DEF Types
  <2>3. /\ \A b \in Agents : HistoryOK(b)'
        /\ \A row \in saving : RowOK(row)'
    BY <1>2, <2>1, <2>2, PublishHistory
  <2>4. ASSUME NEW b \in Agents PROVE ShownOK(b)'
    <3>1. CASE b = a
      <4>1. registry'[b] = None
        BY <2>1, <3>1 DEF RegistryOK
      <4> QED
        BY <4>1 DEF ShownOK
    <3>2. CASE b # a
      <4>1. history'[b] = history[b]
        BY <1>2, <2>1, <2>2, <3>2, PublishPushes
      <4>2. registry'[b] = registry[b]
        BY <2>1, <3>2 DEF RegistryOK
      <4> QED
        BY <4>1, <4>2, QuietShown
    <3> QED
      BY <3>1, <3>2
  <2> QED
    BY <2>1, <2>3, <2>4 DEF LInv
<1>7. ASSUME NEW a \in Agents, NEW tenant \in Tenants, Register(a, tenant) PROVE LInv'
  <2>1. /\ registry' = [registry EXCEPT ![a] = [tenant |-> tenant, status |-> "idle"]]
        /\ history' = history /\ sequence' = sequence /\ saving' = saving
    BY <1>7 DEF Register, shadow
  <2>2. ASSUME NEW b \in Agents PROVE ShownOK(b)'
    <3>1. CASE b = a
      <4>1. registry'[b].status = "idle"
        BY <2>1, <3>1 DEF RegistryOK
      <4> QED
        BY <4>1 DEF ShownOK
    <3>2. CASE b # a
      <4>1. registry'[b] = registry[b] /\ history'[b] = history[b]
        BY <2>1, <3>2 DEF RegistryOK
      <4> QED
        BY <4>1, QuietShown
    <3> QED
      BY <3>1, <3>2
  <2> QED
    BY <2>1, <2>2 DEF LInv, HistoryOK, RowOK
<1>8. ASSUME \/ UNCHANGED vars
             \/ \E a \in Agents : Resume(a) \/ TakeSignal(a)
             \/ \E row \in saving : Saved(row)
             \/ \E c \in Consoles :
                  PumpShadow(c) \/ Unsubscribe(c) \/ \E scope \in Scopes : Subscribe(c, scope)
      PROVE  LInv'
  <2>1. UNCHANGED <<registry, sequence, history>> /\ saving' \subseteq saving
    BY <1>8 DEF vars, shadow, Resume, TakeSignal, Saved, PumpShadow, Unsubscribe, Subscribe
  <2> QED
    BY <1>1, <2>1
<1> QED
  BY <1>4, <1>5, <1>6, <1>7, <1>8 DEF Next

\* All of it holds throughout.
LEMMA SwarmInvariance == Spec => []SInv
<1>1. Init => SInv
  <2> SUFFICES ASSUME Init PROVE RegistryOK
    BY InitSignals, InitShadow DEF SInv
  <2>1. Registered = {}
    BY DEF Init, Registered
  <2>2. Cardinality(Registered) = 0 /\ MaxAgents \in Nat
    BY <2>1, FS_EmptySet, SwarmAssumption
  <2> QED
    BY <2>2 DEF Init, RegistryOK
<1>2. SInv /\ [Next]_vars => SInv'
  BY NextSignals, NextHub DEF SInv
<1> QED
  BY <1>1, <1>2, PTL DEF Spec

\* Whatever sizes are chosen and however often agents come back: max_agents is
\* kept, and so is every queue's and history's size.
THEOREM SwarmTypeCorrect == Spec => []TypeOK
<1>1. SInv => TypeOK
  BY DEF SInv, RegistryOK, Metas, SignalsOK, SignalOK, ShadowOK, ConsoleOK, TypeOK
<1> QED
  BY <1>1, SwarmInvariance, PTL

\* An agent gets the signals requested of it in their order, and a console the
\* events of its scope; what does not fit is lost from the oldest, so the newest
\* always arrives: a full queue never hides a takeover.
THEOREM NewestArrives == Spec => []OnlyOldestIsLost
<1>1. ASSUME SInv PROVE SignalsInOrder
  <2> SUFFICES ASSUME NEW a \in Agents
               PROVE  LET line == <<got[a]>> \o signals[a] IN
                      Increasing(line) /\ line[Len(line)] = pending[a]
    BY DEF SignalsInOrder
  <2>1. /\ got[a] \in Nat /\ signals[a] \in Seq(Nat) /\ pending[a] \in Nat
        /\ Ordered(got[a], Len(signals[a]), signals[a], pending[a])
    BY <1>1 DEF SInv, SignalsOK, SignalOK
  <2> QED
    BY <2>1, OrderedLine
<1>2. ASSUME SInv PROVE ObserversInOrder
  <2> SUFFICES ASSUME NEW c \in Consoles
               PROVE  LET line == <<seen[c]>> \o [n \in DOMAIN stream[c] |-> stream[c][n].sequence] IN
                      Increasing(line) /\ line[Len(line)] = due[c]
    BY DEF ObserversInOrder
  <2>1. /\ seen[c] \in Nat /\ stream[c] \in Seq(Events) /\ due[c] \in Nat
        /\ Ordered(seen[c], Len(stream[c]), Numbers(stream[c]), due[c])
    BY <1>2 DEF SInv, ShadowOK, ConsoleOK
  <2>2. /\ Len(stream[c]) \in Nat /\ DOMAIN stream[c] = 1..Len(stream[c])
        /\ \A n \in 1..Len(stream[c]) : stream[c][n] \in Events
    BY <2>1, LenProperties, ElementOfSeq
  <2>3. Numbers(stream[c]) \in [1..Len(stream[c]) -> Nat]
    BY <2>2 DEF Numbers, Events
  <2> DEFINE numbers == Numbers(stream[c])
  <2> HIDE DEF numbers
  <2>4. numbers \in Seq(Nat) /\ Len(numbers) = Len(stream[c])
    <3>1. numbers \in [1..Len(stream[c]) -> Nat]
      BY <2>3 DEF numbers
    <3> QED
      BY <2>2, <3>1, SeqDef, LenProperties
  <2>5. LET line == <<seen[c]>> \o numbers IN Increasing(line) /\ line[Len(line)] = due[c]
    BY <2>1, <2>4, OrderedLine DEF numbers
  <2> QED
    BY <2>5 DEF numbers, Numbers
<1> QED
  BY <1>1, <1>2, SwarmInvariance, PTL DEF OnlyOldestIsLost

-----------------------------------------------------------------------------

\* What history tells is true throughout.
LEMMA HistoryInvariance == Spec => [](SInv /\ LInv)
<1>1. SInv /\ LInv /\ [Next]_vars /\ SInv' => LInv'
  BY NextHistory DEF SInv
<1> QED
  BY <1>1, InitHistory, SwarmInvariance, PTL DEF Spec

\* A takeover's row is what _persist_takeover read before its await, and no event
\* or registration of its agent, while the INSERT is waited for, makes it untrue:
\* it has the tenant the takeover was published under, and no later thought was
\* among the Recent events up to it.
THEOREM LedgerTrue == Spec => []LedgerIsTrue
<1>1. ASSUME SInv, LInv PROVE LedgerIsTrue
  <2> SUFFICES ASSUME NEW row \in saving
               PROVE  LET events == history[row.agent]
                          before == {n \in DOMAIN events : events[n].sequence <= row.at}
                      IN
                      /\ row.thought < row.at
                      /\ \A n \in before :
                           /\ events[n].sequence = row.at => events[n].tenant = row.tenant
                           /\ events[n].type = "thought" /\ events[n].sequence > row.thought =>
                                n + Recent \in before
    BY DEF LedgerIsTrue
  <2> DEFINE events == history[row.agent]
             before == {n \in DOMAIN events : events[n].sequence <= row.at}
  <2>1. /\ row.agent \in Agents /\ row.thought < row.at /\ row.thought \in Nat
        /\ \A n \in 1..Len(events) :
             /\ events[n].sequence = row.at => events[n].tenant = row.tenant
             /\ events[n].type = "thought" /\ row.thought < events[n].sequence
                  /\ events[n].sequence <= row.at =>
                  n + Recent <= Len(events) /\ events[n + Recent].sequence <= row.at
    BY <1>1 DEF LInv, RowOK
  <2>2. /\ events \in Seq(Events) /\ Len(events) \in Nat /\ DOMAIN events = 1..Len(events)
        /\ Recent \in Nat
    BY <1>1, <2>1, LenProperties, SwarmAssumption DEF SInv, ShadowOK
  <2>3. \A n \in 1..Len(events) : events[n].sequence \in Nat
    <3>1. \A n \in 1..Len(events) : events[n] \in Events
      BY <2>2, ElementOfSeq
    <3> QED
      BY <3>1 DEF Events
  <2> HIDE DEF events
  <2>4. ASSUME NEW n \in before, events[n].type = "thought", events[n].sequence > row.thought
        PROVE  n + Recent \in before
    <3>1. n \in 1..Len(events) /\ events[n].sequence <= row.at
      BY <2>2
    <3>2. row.thought < events[n].sequence
      BY <2>1, <2>3, <2>4, <3>1
    <3>3. n + Recent <= Len(events) /\ events[n + Recent].sequence <= row.at
      BY <2>1, <2>4, <3>1, <3>2
    <3>4. n + Recent \in 1..Len(events)
      BY <2>2, <3>1, <3>3
    <3> QED
      BY <2>2, <3>3, <3>4
  <2>5. \A n \in before : events[n].sequence = row.at => events[n].tenant = row.tenant
    BY <2>1, <2>2
  <2> QED
    BY <2>1, <2>4, <2>5 DEF events
<1> QED
  BY <1>1, HistoryInvariance, PTL

\* The registry and the events agree on the status of every agent, as long as the
\* history holds a status and the thought published with it; with room for one
\* event alone the thought would push the status out.
THEOREM StatusShownTrue ==
  ASSUME History >= 2
  PROVE  Spec => []StatusIsShown
<1>1. ASSUME SInv, LInv PROVE StatusIsShown
  <2> SUFFICES ASSUME NEW a \in Registered, registry[a].status # "idle"
               PROVE  LET shown == {n \in DOMAIN history[a] : history[a][n].type = "status"} IN
                      shown # {} /\ history[a][Max(shown)].status = registry[a].status
    BY DEF StatusIsShown
  <2> DEFINE h == history[a]
             shown == {n \in DOMAIN h : h[n].type = "status"}
  <2>1. a \in Agents /\ registry[a] # None
    BY DEF Registered
  <2>2. PICK n \in 1..Len(h) : /\ h[n].type = "status" /\ h[n].status = registry[a].status
                               /\ \A m \in 1..Len(h) : h[m].type = "status" => m <= n
    BY <1>1, <2>1 DEF LInv, ShownOK
  <2>3. h \in Seq(Events) /\ Len(h) \in Nat /\ DOMAIN h = 1..Len(h)
    BY <1>1, <2>1, LenProperties DEF SInv, ShadowOK
  <2>4. n \in shown /\ shown \in SUBSET (1..Len(h)) /\ \A m \in shown : m <= n
    BY <2>2, <2>3
  <2> HIDE DEF shown, h
  <2>5. Max(shown) \in shown /\ \A m \in shown : m <= Max(shown)
    BY <2>3, <2>4, MaxIndex
  <2>6. Max(shown) = n
    <3>1. Max(shown) <= n /\ n <= Max(shown) /\ Max(shown) \in 1..Len(h)
      BY <2>4, <2>5
    <3> QED
      BY <2>3, <3>1
  <2> QED
    BY <2>2, <2>4, <2>6 DEF h, shown
<1> QED
  BY <1>1, HistoryInvariance, PTL

=============================================================================
