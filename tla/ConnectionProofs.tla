-------------------------- MODULE ConnectionProofs --------------------------
(***************************************************************************)
(* Proofs about the connection to the compositor: the event queue that      *)
(* hands its events to a reader (EventQueue), for any events, any number of *)
(* pushes, with and without a pump; and the globals of its registry         *)
(* (WaylandRegistry), for any outputs, seats and places and any number of   *)
(* changes of the compositor.                                               *)
(***************************************************************************)
EXTENDS EventQueue, WaylandRegistry, FiniteSetTheorems, TLAPS

-----------------------------------------------------------------------------
(* The event queue. *)

\* Moving the first event from the queue to the reader keeps their sequence.
LEMMA HeadMoves ==
  ASSUME NEW a \in Seq(Event), NEW q \in Seq(Event), q # <<>>
  PROVE  /\ Head(q) \in Event /\ Tail(q) \in Seq(Event)
         /\ Append(a, Head(q)) \in Seq(Event)
         /\ Append(a, Head(q)) \o Tail(q) = a \o q
         /\ Len(a) < Len(a \o q) /\ (a \o q)[Len(a) + 1] = Head(q)
  OBVIOUS

\* An event added to the queue is added to the sequence.
LEMMA PushMoves ==
  ASSUME NEW a \in Seq(Event), NEW q \in Seq(Event), NEW e \in Event
  PROVE  a \o Append(q, e) = Append(a \o q, e) /\ Append(q, e) \in Seq(Event)
  OBVIOUS

\* With an empty queue the reader has everything.
LEMMA NothingToAdd ==
  ASSUME NEW a \in Seq(Event)
  PROVE  a \o <<>> = a
  OBVIOUS

\* The inductive invariant holds in every reachable state.
THEOREM QueueInvariant == Spec => []QueueInv
<1> USE DEF QueueInv
<1>1. Init => QueueInv
  <2>1. <<>> \in Seq(Event) /\ <<>> \o <<>> = <<>>
    BY NothingToAdd
  <2> QED BY <2>1 DEF Init, TypeOK, NoMissedWakeup, InOrder, ReaderPlace
<1>2. QueueInv /\ [Next]_vars => QueueInv'
  <2> SUFFICES ASSUME QueueInv, [Next]_vars PROVE QueueInv'
    OBVIOUS
  <2>0. pumped' = pumped
    BY DEF Next, vars
  <2> USE <2>0 DEF TypeOK, NoMissedWakeup, InOrder, ReaderPlace, NothingLeft, queueVars, readerVars
  <2>1. ASSUME NEW e \in Event, Push(e) PROVE QueueInv'
    <3>1. TypeOK'
      BY <2>1, PushMoves DEF Push, WakeLocked
    <3>2. InOrder'
      BY <2>1, PushMoves DEF Push
    <3>3. NoMissedWakeup' /\ ReaderPlace'
      BY <2>1 DEF Push, WakeLocked
    <3> QED BY <3>1, <3>2, <3>3
  <2>2. CASE Fatal
    BY <2>2 DEF Fatal, WakeLocked
  <2>3. CASE Close
    BY <2>3 DEF Close, WakeLocked
  <2>4. CASE Cancel
    BY <2>4 DEF Cancel
  <2>5. CASE Call
    BY <2>5 DEF Call
  <2>6. CASE CheckContext
    BY <2>6 DEF CheckContext, Return
  <2>7. CASE Take
    <3>1. TypeOK' /\ InOrder'
      BY <2>7, HeadMoves DEF Take
    <3>2. NoMissedWakeup' /\ ReaderPlace'
      BY <2>7 DEF Take
    <3> QED BY <3>1, <3>2
  <2>8. CASE TakeEnd
    BY <2>8 DEF TakeEnd, Return
  <2>9. CASE TakeNothing
    BY <2>9 DEF TakeNothing
  <2>10. CASE PumpReturns
    BY <2>10 DEF PumpReturns, Return
  <2>11. CASE Select
    BY <2>11 DEF Select, Return
  <2>12. CASE UNCHANGED vars
    BY <2>12 DEF vars
  <2> QED
    BY <2>1, <2>2, <2>3, <2>4, <2>5, <2>6, <2>7, <2>8, <2>9, <2>10, <2>11, <2>12 DEF Next, ReaderStep
<1> QED BY <1>1, <1>2, PTL DEF Spec

\* A reader asleep on a channel that nobody has closed has nothing to wake for:
\* between pop's unlock and its select no push, fatal or close is missed.
THEOREM NoMissedWakeupAlways == Spec => []NoMissedWakeup
<1>1. QueueInv => NoMissedWakeup
  BY DEF QueueInv
<1> QED BY <1>1, QueueInvariant, PTL

\* The queue implements EventStream: all accepted events, once and in order,
\* and the error only when they are read.
THEOREM StreamRefinement == Spec => KeepsStream
<1>1. Init => Stream!Init
  BY DEF Init, Stream!Init
<1>2. QueueInv /\ [Next]_vars => [Stream!Next]_Stream!vars
  <2> SUFFICES ASSUME QueueInv, [Next]_vars PROVE [Stream!Next]_Stream!vars
    OBVIOUS
  <2> USE DEF QueueInv, TypeOK, ReaderPlace, queueVars, readerVars, Stream!vars
  <2>1. ASSUME NEW e \in Event, Push(e) PROVE [Stream!Next]_Stream!vars
    <3>1. Stream!Send(e)
      BY <2>1 DEF Push, Accepts, Stream!Send
    <3> QED BY <3>1 DEF Stream!Next
  <2>2. CASE Fatal \/ Close
    <3>1. Stream!Shut
      BY <2>2 DEF Fatal, Close, Stream!Shut
    <3> QED BY <3>1 DEF Stream!Next
  <2>3. CASE Cancel \/ Call \/ TakeNothing
    BY <2>3 DEF Cancel, Call, TakeNothing
  <2>4. CASE CheckContext \/ PumpReturns \/ Select
    <3>1. Stream!Interrupt \/ UNCHANGED Stream!vars
      BY <2>4 DEF CheckContext, PumpReturns, Select, Return, Stream!Interrupt
    <3> QED BY <3>1 DEF Stream!Next
  <2>5. CASE Take
    <3>1. Stream!Receive(Head(events)) /\ Head(events) \in Event
      BY <2>5, HeadMoves DEF Take, Stream!Receive, InOrder
    <3> QED BY <3>1 DEF Stream!Next
  <2>6. CASE TakeEnd
    <3>1. got = pushed
      BY <2>6, NothingToAdd DEF TakeEnd, NothingLeft, InOrder
    <3>2. Stream!Drain
      BY <2>6, <3>1 DEF TakeEnd, Return, Stream!Drain
    <3> QED BY <3>2 DEF Stream!Next
  <2>7. CASE UNCHANGED vars
    BY <2>7 DEF vars
  <2> QED
    BY <2>1, <2>2, <2>3, <2>4, <2>5, <2>6, <2>7 DEF Next, ReaderStep
<1> QED BY <1>1, <1>2, QueueInvariant, PTL DEF Spec, KeepsStream, Stream!Spec

-----------------------------------------------------------------------------
(* What is on a queue of requests or messages, and in which order. *)

\* A request or message is of this kind, and of this global.
Is(m, k, g) == m.kind = k /\ m.of = g
\* One such is on the queue,
On(s, k, g) == \E i \in DOMAIN s : Is(s[i], k, g)
\* at most one,
Once(s, k, g) == \A i, j \in DOMAIN s : Is(s[i], k, g) /\ Is(s[j], k, g) => i = j
\* each before any of the other kind,
Ordered(s, k, g, k2, g2) == \A i, j \in DOMAIN s : Is(s[i], k, g) /\ Is(s[j], k2, g2) => i < j
\* one before all of the other kind;
Ahead(s, k, g, k2, g2) ==
  \E i \in DOMAIN s : Is(s[i], k, g) /\ \A j \in DOMAIN s : Is(s[j], k2, g2) => i < j
\* and the last of them says p.
LastSays(s, k, g, p) ==
  \A i \in DOMAIN s : Is(s[i], k, g) /\ (\A j \in DOMAIN s : Is(s[j], k, g) => j <= i) => s[i].at = p

\* Where the elements of a queue are after its head was taken.
LEMMA TailPlaces ==
  ASSUME NEW M, NEW s \in Seq(M), s # <<>>
  PROVE  /\ Head(s) \in M /\ Head(s) = s[1] /\ Tail(s) \in Seq(M)
         /\ DOMAIN s = 1..Len(s) /\ DOMAIN Tail(s) = 1..(Len(s) - 1) /\ Len(s) \in Nat /\ Len(s) >= 1
         /\ \A i \in 1..(Len(s) - 1) : Tail(s)[i] = s[i + 1]
  OBVIOUS

\* And where they are in two queues, one after the other.
LEMMA CatPlaces ==
  ASSUME NEW M, NEW s \in Seq(M), NEW t \in Seq(M)
  PROVE  /\ s \o t \in Seq(M) /\ Len(s) \in Nat /\ Len(t) \in Nat
         /\ DOMAIN s = 1..Len(s) /\ DOMAIN t = 1..Len(t) /\ DOMAIN (s \o t) = 1..(Len(s) + Len(t))
         /\ \A i \in 1..Len(s) : (s \o t)[i] = s[i]
         /\ \A i \in 1..Len(t) : (s \o t)[Len(s) + i] = t[i]
  OBVIOUS

\* The head of a queue is what is on it first.
LEMMA TakeHead ==
  ASSUME NEW M, NEW s \in Seq(M), s # <<>>, NEW k, NEW g, NEW k2, NEW g2, NEW p
  PROVE  /\ Is(Head(s), k, g) => On(s, k, g)
         /\ On(Tail(s), k, g) => On(s, k, g)
         /\ On(s, k, g) => Is(Head(s), k, g) \/ On(Tail(s), k, g)
         /\ Once(s, k, g) => Once(Tail(s), k, g) /\ ~(Is(Head(s), k, g) /\ On(Tail(s), k, g))
         /\ Ordered(s, k, g, k2, g2) => /\ Ordered(Tail(s), k, g, k2, g2)
                                        /\ ~(Is(Head(s), k2, g2) /\ On(s, k, g))
         /\ Ahead(s, k, g, k2, g2) => /\ ~Is(Head(s), k2, g2)
                                      /\ Is(Head(s), k, g) \/ Ahead(Tail(s), k, g, k2, g2)
         /\ LastSays(s, k, g, p) => /\ LastSays(Tail(s), k, g, p)
                                    /\ Is(Head(s), k, g) /\ ~On(Tail(s), k, g) => Head(s).at = p
<1> DEFINE n == Len(s)
           t == Tail(s)
<1>1. /\ n \in Nat /\ n >= 1 /\ DOMAIN s = 1..n /\ DOMAIN t = 1..(n - 1) /\ Head(s) = s[1]
      /\ \A i \in 1..(n - 1) : t[i] = s[i + 1]
  BY TailPlaces
<1>2. \A i \in 1..n : i = 1 \/ (i - 1 \in 1..(n - 1) /\ t[i - 1] = s[i])
  <2>1. \A i \in 1..n : i # 1 => i - 1 \in 1..(n - 1) /\ (i - 1) + 1 = i
    BY <1>1
  <2> QED BY <2>1, <1>1
<1>3. \A i \in 1..(n - 1) : i + 1 \in 1..n
  BY <1>1
<1> HIDE DEF n, t
<1>4. /\ On(s, k, g) <=> Is(s[1], k, g) \/ On(t, k, g)
  BY <1>1, <1>2, <1>3 DEF On
<1>5. Once(s, k, g) => Once(t, k, g) /\ ~(Is(s[1], k, g) /\ On(t, k, g))
  <2> SUFFICES ASSUME Once(s, k, g) PROVE Once(t, k, g) /\ ~(Is(s[1], k, g) /\ On(t, k, g))
    OBVIOUS
  <2>1. ASSUME NEW i \in 1..(n - 1), NEW j \in 1..(n - 1), Is(t[i], k, g), Is(t[j], k, g) PROVE i = j
    <3>1. i + 1 = j + 1
      BY <2>1, <1>1, <1>3 DEF Once
    <3> QED BY <3>1
  <2>2. ASSUME NEW i \in 1..(n - 1), Is(t[i], k, g), Is(s[1], k, g) PROVE FALSE
    <3>1. i + 1 = 1
      BY <2>2, <1>1, <1>3 DEF Once
    <3> QED BY <3>1
  <2> QED BY <2>1, <2>2, <1>1 DEF Once, On
<1>6. Ordered(s, k, g, k2, g2) => Ordered(t, k, g, k2, g2) /\ ~(Is(s[1], k2, g2) /\ On(s, k, g))
  <2> SUFFICES ASSUME Ordered(s, k, g, k2, g2)
               PROVE  Ordered(t, k, g, k2, g2) /\ ~(Is(s[1], k2, g2) /\ On(s, k, g))
    OBVIOUS
  <2>1. ASSUME NEW i \in 1..(n - 1), NEW j \in 1..(n - 1), Is(t[i], k, g), Is(t[j], k2, g2) PROVE i < j
    <3>1. i + 1 < j + 1
      BY <2>1, <1>1, <1>3 DEF Ordered
    <3> QED BY <3>1
  <2>2. ASSUME NEW i \in 1..n, Is(s[i], k, g), Is(s[1], k2, g2) PROVE FALSE
    <3>1. i < 1
      BY <2>2, <1>1 DEF Ordered
    <3> QED BY <3>1
  <2> QED BY <2>1, <2>2, <1>1 DEF Ordered, On
<1>7. Ahead(s, k, g, k2, g2) => ~Is(s[1], k2, g2) /\ (Is(s[1], k, g) \/ Ahead(t, k, g, k2, g2))
  <2> SUFFICES ASSUME NEW i \in 1..n, Is(s[i], k, g), \A j \in 1..n : Is(s[j], k2, g2) => i < j
               PROVE  ~Is(s[1], k2, g2) /\ (Is(s[1], k, g) \/ Ahead(t, k, g, k2, g2))
    BY <1>1 DEF Ahead
  <2>1. ~Is(s[1], k2, g2)
    BY <1>1
  <2>2. CASE i = 1
    BY <2>1, <2>2
  <2>3. CASE i # 1
    <3>1. i - 1 \in 1..(n - 1) /\ Is(t[i - 1], k, g)
      BY <2>3, <1>2
    <3>2. ASSUME NEW j \in 1..(n - 1), Is(t[j], k2, g2) PROVE i - 1 < j
      <4>1. i < j + 1
        BY <3>2, <1>1, <1>3
      <4> QED BY <4>1
    <3> QED BY <2>1, <3>1, <3>2, <1>1 DEF Ahead
  <2> QED BY <2>2, <2>3
<1>8. LastSays(s, k, g, p) => LastSays(t, k, g, p) /\ (Is(s[1], k, g) /\ ~On(t, k, g) => s[1].at = p)
  <2> SUFFICES ASSUME LastSays(s, k, g, p)
               PROVE  LastSays(t, k, g, p) /\ (Is(s[1], k, g) /\ ~On(t, k, g) => s[1].at = p)
    OBVIOUS
  <2>1. ASSUME NEW i \in 1..(n - 1), Is(t[i], k, g), \A j \in 1..(n - 1) : Is(t[j], k, g) => j <= i
        PROVE  t[i].at = p
    <3>1. ASSUME NEW j \in 1..n, Is(s[j], k, g) PROVE j <= i + 1
      <4>1. CASE j = 1
        BY <4>1
      <4>2. CASE j # 1
        <5>1. j - 1 <= i
          BY <4>2, <3>1, <2>1, <1>2
        <5> QED BY <5>1
      <4> QED BY <4>1, <4>2
    <3> QED BY <3>1, <2>1, <1>1, <1>3 DEF LastSays
  <2>2. ASSUME Is(s[1], k, g), ~On(t, k, g) PROVE s[1].at = p
    <3>1. \A j \in 1..n : Is(s[j], k, g) => j = 1
      BY <2>2, <1>1, <1>2 DEF On
    <3>2. \A j \in 1..n : Is(s[j], k, g) => j <= 1
      BY <3>1
    <3> QED BY <3>2, <2>2, <1>1 DEF LastSays
  <2> QED BY <2>1, <2>2, <1>1 DEF LastSays
<1> QED BY <1>1, <1>4, <1>5, <1>6, <1>7, <1>8 DEF t

\* Two queues, one after the other.
LEMMA Joined ==
  ASSUME NEW M, NEW s \in Seq(M), NEW t \in Seq(M), NEW k, NEW g, NEW k2, NEW g2, NEW p
  PROVE  /\ On(s \o t, k, g) <=> On(s, k, g) \/ On(t, k, g)
         /\ Once(s, k, g) /\ Once(t, k, g) /\ ~(On(s, k, g) /\ On(t, k, g)) => Once(s \o t, k, g)
         /\ Ordered(s, k, g, k2, g2) /\ Ordered(t, k, g, k2, g2) /\ ~(On(t, k, g) /\ On(s, k2, g2))
              => Ordered(s \o t, k, g, k2, g2)
         /\ Ahead(s, k, g, k2, g2) => Ahead(s \o t, k, g, k2, g2)
         /\ Ahead(t, k, g, k2, g2) /\ ~On(s, k2, g2) => Ahead(s \o t, k, g, k2, g2)
         /\ LastSays(s, k, g, p) /\ ~On(t, k, g) => LastSays(s \o t, k, g, p)
         /\ On(t, k, g) /\ LastSays(t, k, g, p) => LastSays(s \o t, k, g, p)
<1> DEFINE a == Len(s)
           b == Len(t)
           u == s \o t
<1>1. /\ a \in Nat /\ b \in Nat /\ DOMAIN s = 1..a /\ DOMAIN t = 1..b /\ DOMAIN u = 1..(a + b)
      /\ \A i \in 1..a : u[i] = s[i]
      /\ \A i \in 1..b : u[a + i] = t[i]
  BY CatPlaces
<1>2. \A i \in 1..(a + b) : i \in 1..a \/ (i > a /\ i - a \in 1..b /\ u[i] = t[i - a])
  <2>1. \A i \in 1..(a + b) : i \in 1..a \/ (i > a /\ i - a \in 1..b /\ a + (i - a) = i)
    BY <1>1
  <2> QED BY <2>1, <1>1
<1>3. (\A i \in 1..a : i \in 1..(a + b)) /\ (\A i \in 1..b : a + i \in 1..(a + b))
  BY <1>1
<1> HIDE DEF a, b, u
<1>4. On(u, k, g) <=> On(s, k, g) \/ On(t, k, g)
  BY <1>1, <1>2, <1>3 DEF On
<1>5. Once(s, k, g) /\ Once(t, k, g) /\ ~(On(s, k, g) /\ On(t, k, g)) => Once(u, k, g)
  <2> SUFFICES ASSUME Once(s, k, g), Once(t, k, g), ~(On(s, k, g) /\ On(t, k, g)),
                      NEW i \in 1..(a + b), NEW j \in 1..(a + b), Is(u[i], k, g), Is(u[j], k, g)
               PROVE  i = j
    BY <1>1 DEF Once
  <2>1. CASE i \in 1..a /\ j \in 1..a
    BY <2>1, <1>1 DEF Once
  <2>2. CASE i \notin 1..a /\ j \notin 1..a
    <3>1. i - a = j - a
      BY <2>2, <1>1, <1>2 DEF Once
    <3> QED BY <3>1, <1>1
  <2>3. CASE ~(i \in 1..a <=> j \in 1..a)
    BY <2>3, <1>1, <1>2 DEF On
  <2> QED BY <2>1, <2>2, <2>3
<1>6. Ordered(s, k, g, k2, g2) /\ Ordered(t, k, g, k2, g2) /\ ~(On(t, k, g) /\ On(s, k2, g2))
        => Ordered(u, k, g, k2, g2)
  <2> SUFFICES ASSUME Ordered(s, k, g, k2, g2), Ordered(t, k, g, k2, g2), ~(On(t, k, g) /\ On(s, k2, g2)),
                      NEW i \in 1..(a + b), NEW j \in 1..(a + b), Is(u[i], k, g), Is(u[j], k2, g2)
               PROVE  i < j
    BY <1>1 DEF Ordered
  <2>1. CASE i \in 1..a /\ j \in 1..a
    BY <2>1, <1>1 DEF Ordered
  <2>2. CASE i \notin 1..a /\ j \notin 1..a
    <3>1. i - a < j - a
      BY <2>2, <1>1, <1>2 DEF Ordered
    <3> QED BY <3>1, <1>1
  <2>3. CASE i \in 1..a /\ j \notin 1..a
    BY <2>3, <1>1
  <2>4. CASE i \notin 1..a /\ j \in 1..a
    BY <2>4, <1>1, <1>2 DEF On
  <2> QED BY <2>1, <2>2, <2>3, <2>4
<1>7. Ahead(s, k, g, k2, g2) => Ahead(u, k, g, k2, g2)
  <2> SUFFICES ASSUME NEW i \in 1..a, Is(s[i], k, g), \A j \in 1..a : Is(s[j], k2, g2) => i < j
               PROVE  Ahead(u, k, g, k2, g2)
    BY <1>1 DEF Ahead
  <2>1. ASSUME NEW j \in 1..(a + b), Is(u[j], k2, g2) PROVE i < j
    BY <2>1, <1>1
  <2> QED BY <2>1, <1>1, <1>3 DEF Ahead
<1>8. Ahead(t, k, g, k2, g2) /\ ~On(s, k2, g2) => Ahead(u, k, g, k2, g2)
  <2> SUFFICES ASSUME NEW i \in 1..b, Is(t[i], k, g), \A j \in 1..b : Is(t[j], k2, g2) => i < j,
                      ~On(s, k2, g2)
               PROVE  Ahead(u, k, g, k2, g2)
    BY <1>1 DEF Ahead
  <2>1. ASSUME NEW j \in 1..(a + b), Is(u[j], k2, g2) PROVE a + i < j
    <3>1. j \notin 1..a
      BY <2>1, <1>1 DEF On
    <3>2. i < j - a
      BY <3>1, <2>1, <1>2
    <3> QED BY <3>2, <1>1
  <2> QED BY <2>1, <1>1, <1>3 DEF Ahead
<1>9. LastSays(s, k, g, p) /\ ~On(t, k, g) => LastSays(u, k, g, p)
  <2> SUFFICES ASSUME LastSays(s, k, g, p), ~On(t, k, g), NEW i \in 1..(a + b), Is(u[i], k, g),
                      \A j \in 1..(a + b) : Is(u[j], k, g) => j <= i
               PROVE  u[i].at = p
    BY <1>1 DEF LastSays
  <2>1. i \in 1..a
    BY <1>1, <1>2 DEF On
  <2>2. \A j \in 1..a : Is(s[j], k, g) => j <= i
    BY <1>1, <1>3
  <2> QED BY <2>1, <2>2, <1>1 DEF LastSays
<1>10. On(t, k, g) /\ LastSays(t, k, g, p) => LastSays(u, k, g, p)
  <2> SUFFICES ASSUME LastSays(t, k, g, p), NEW l \in 1..b, Is(t[l], k, g), NEW i \in 1..(a + b), Is(u[i], k, g),
                      \A j \in 1..(a + b) : Is(u[j], k, g) => j <= i
               PROVE  u[i].at = p
    BY <1>1 DEF LastSays, On
  <2>1. a + l <= i
    BY <1>1, <1>3
  <2>2. i - a \in 1..b /\ u[i] = t[i - a]
    BY <2>1, <1>1, <1>2
  <2>3. ASSUME NEW j \in 1..b, Is(t[j], k, g) PROVE j <= i - a
    <3>1. a + j <= i
      BY <2>3, <1>1, <1>3
    <3> QED BY <3>1, <1>1
  <2> QED BY <2>2, <2>3, <1>1 DEF LastSays
<1> QED BY <1>4, <1>5, <1>6, <1>7, <1>8, <1>9, <1>10 DEF u

\* One more on a queue.
LEMMA Appended ==
  ASSUME NEW M, NEW s \in Seq(M), NEW e \in M, NEW k, NEW g, NEW k2, NEW g2, NEW p
  PROVE  /\ Append(s, e) \in Seq(M)
         /\ On(Append(s, e), k, g) <=> On(s, k, g) \/ Is(e, k, g)
         /\ Once(s, k, g) /\ ~(On(s, k, g) /\ Is(e, k, g)) => Once(Append(s, e), k, g)
         /\ Ordered(s, k, g, k2, g2) /\ ~(Is(e, k, g) /\ (On(s, k2, g2) \/ Is(e, k2, g2)))
              => Ordered(Append(s, e), k, g, k2, g2)
         /\ Ahead(s, k, g, k2, g2) => Ahead(Append(s, e), k, g, k2, g2)
         /\ Is(e, k, g) /\ ~Is(e, k2, g2) /\ ~On(s, k2, g2) => Ahead(Append(s, e), k, g, k2, g2)
         /\ LastSays(s, k, g, p) /\ ~Is(e, k, g) => LastSays(Append(s, e), k, g, p)
         /\ Is(e, k, g) /\ e.at = p => LastSays(Append(s, e), k, g, p)
<1> DEFINE t == <<e>>
<1>1. t \in Seq(M) /\ DOMAIN t = {1} /\ t[1] = e /\ Append(s, e) = s \o t /\ Append(s, e) \in Seq(M)
  OBVIOUS
<1> HIDE DEF t
<1>2. On(t, k, g) <=> Is(e, k, g)
  BY <1>1 DEF On
<1>3. ~(Is(e, k, g) /\ Is(e, k2, g2)) => Ordered(t, k, g, k2, g2)
  BY <1>1 DEF Ordered
<1>4. Is(e, k, g) /\ ~Is(e, k2, g2) => Ahead(t, k, g, k2, g2)
  BY <1>1 DEF Ahead
<1>5. e.at = p => LastSays(t, k, g, p)
  BY <1>1 DEF LastSays
<1>6. Once(t, k, g)
  BY <1>1 DEF Once
<1>7. On(t, k2, g2) <=> Is(e, k2, g2)
  BY <1>1 DEF On
<1> QED BY <1>1, <1>2, <1>3, <1>4, <1>5, <1>6, <1>7, Joined

\* An empty queue.
LEMMA Empty ==
  ASSUME NEW M, NEW k, NEW g, NEW k2, NEW g2, NEW p
  PROVE  /\ <<>> \in Seq(M) /\ ~On(<<>>, k, g) /\ Once(<<>>, k, g) /\ Ordered(<<>>, k, g, k2, g2)
         /\ LastSays(<<>>, k, g, p)
<1> DEFINE t == <<>>
<1>1. t \in Seq(M) /\ DOMAIN t = {}
  OBVIOUS
<1> HIDE DEF t
<1>2. ~On(t, k, g) /\ Once(t, k, g) /\ Ordered(t, k, g, k2, g2) /\ LastSays(t, k, g, p)
  BY <1>1 DEF On, Once, Ordered, LastSays
<1> QED BY <1>1, <1>2 DEF t

\* The elements of a set in some order.
LEMMA Listed ==
  ASSUME NEW M, NEW S \in SUBSET M, IsFiniteSet(S), NEW k, NEW g, NEW k2, NEW g2, NEW p
  PROVE  /\ SetToSeq(S) \in Seq(M)
         /\ On(SetToSeq(S), k, g) <=> \E m \in S : Is(m, k, g)
         /\ (\A m, n \in S : Is(m, k, g) /\ Is(n, k, g) => m = n) => Once(SetToSeq(S), k, g)
         /\ (\A m, n \in S : ~(Is(m, k, g) /\ Is(n, k2, g2))) => Ordered(SetToSeq(S), k, g, k2, g2)
         /\ (\A m \in S : Is(m, k, g) => m.at = p) => LastSays(SetToSeq(S), k, g, p)
<1> DEFINE f == SetToSeq(S)
           c == Cardinality(S)
<1>1. c \in Nat /\ ExistsBijection(1..c, S)
  BY FS_CardinalityType
<1>2. \E h \in [1..c -> S] : IsInjective(h)
  BY <1>1 DEF ExistsBijection, Bijection, Injection
<1>3. f \in [1..c -> S] /\ IsInjective(f)
  BY <1>2 DEF SetToSeq
<1>4. f \in Surjection(1..c, S)
  <2>1. f \in Injection(1..c, S)
    BY <1>3 DEF Injection
  <2>2. IsFiniteSet(1..c) /\ Cardinality(1..c) = c
    BY <1>1, FS_Interval
  <2> HIDE DEF f, c
  <2> QED BY <2>1, <2>2, FS_Injection DEF c
<1>5. \A m \in S : \E i \in 1..c : f[i] = m
  BY <1>4 DEF Surjection
<1> HIDE DEF f, c
<1>6. f \in Seq(M) /\ DOMAIN f = 1..c
  BY <1>1, <1>3
<1>7. \A i, j \in 1..c : f[i] = f[j] => i = j
  BY <1>3 DEF IsInjective
<1>8. \A i \in 1..c : f[i] \in S
  BY <1>3
<1>9. On(f, k, g) <=> \E m \in S : Is(m, k, g)
  BY <1>5, <1>6, <1>8 DEF On
<1>10. (\A m, n \in S : Is(m, k, g) /\ Is(n, k, g) => m = n) => Once(f, k, g)
  BY <1>6, <1>7, <1>8 DEF Once
<1>11. (\A m, n \in S : ~(Is(m, k, g) /\ Is(n, k2, g2))) => Ordered(f, k, g, k2, g2)
  BY <1>6, <1>8 DEF Ordered
<1>12. (\A m \in S : Is(m, k, g) => m.at = p) => LastSays(f, k, g, p)
  BY <1>6, <1>8 DEF LastSays
<1> QED BY <1>6, <1>9, <1>10, <1>11, <1>12 DEF f

\* What is true of a queue t that is s and, after it, e.
Adds(t, s, e) ==
  /\ \A k, g : On(t, k, g) <=> On(s, k, g) \/ Is(e, k, g)
  /\ \A k, g : Once(s, k, g) /\ ~(On(s, k, g) /\ Is(e, k, g)) => Once(t, k, g)
  /\ \A k, g, k2, g2 : Ordered(s, k, g, k2, g2) /\ ~(Is(e, k, g) /\ (On(s, k2, g2) \/ Is(e, k2, g2)))
       => Ordered(t, k, g, k2, g2)
  /\ \A k, g, k2, g2 : Ahead(s, k, g, k2, g2) => Ahead(t, k, g, k2, g2)
  /\ \A k, g, k2, g2 : Is(e, k, g) /\ ~Is(e, k2, g2) /\ ~On(s, k2, g2) => Ahead(t, k, g, k2, g2)
  /\ \A k, g, p : LastSays(s, k, g, p) /\ ~Is(e, k, g) => LastSays(t, k, g, p)
  /\ \A k, g : Is(e, k, g) => LastSays(t, k, g, e.at)

\* A queue that gets one more has just that after what it had.
LEMMA Gets ==
  ASSUME NEW M, NEW s \in Seq(M), NEW e \in M
  PROVE  Append(s, e) \in Seq(M) /\ Adds(Append(s, e), s, e)
<1> DEFINE t == Append(s, e)
<1>0. t \in Seq(M)
  BY Appended
<1>1. \A k, g : On(t, k, g) <=> On(s, k, g) \/ Is(e, k, g)
  BY Appended
<1>2. \A k, g : Once(s, k, g) /\ ~(On(s, k, g) /\ Is(e, k, g)) => Once(t, k, g)
  BY Appended
<1>3. \A k, g, k2, g2 : Ordered(s, k, g, k2, g2) /\ ~(Is(e, k, g) /\ (On(s, k2, g2) \/ Is(e, k2, g2)))
          => Ordered(t, k, g, k2, g2)
  BY Appended
<1>4. \A k, g, k2, g2 : Ahead(s, k, g, k2, g2) => Ahead(t, k, g, k2, g2)
  BY Appended
<1>5. \A k, g, k2, g2 : Is(e, k, g) /\ ~Is(e, k2, g2) /\ ~On(s, k2, g2) => Ahead(t, k, g, k2, g2)
  BY Appended
<1>6. \A k, g, p : LastSays(s, k, g, p) /\ ~Is(e, k, g) => LastSays(t, k, g, p)
  BY Appended
<1>7. \A k, g : Is(e, k, g) => LastSays(t, k, g, e.at)
  BY Appended
<1> HIDE DEF t
<1>8. Adds(t, s, e)
  BY <1>1, <1>2, <1>3, <1>4, <1>5, <1>6, <1>7 DEF Adds
<1> QED BY <1>0, <1>8 DEF t

\* What is on a queue is ahead of what is not.
LEMMA AheadOfNothing ==
  ASSUME NEW s, NEW k, NEW g, NEW k2, NEW g2, On(s, k, g), ~On(s, k2, g2)
  PROVE  Ahead(s, k, g, k2, g2)
  BY DEF On, Ahead

\* One more at the end is the queue followed by it alone.
LEMMA OneMore ==
  ASSUME NEW M, NEW s \in Seq(M), NEW e \in M
  PROVE  s \o <<e>> = Append(s, e)
  OBVIOUS

\* What is true of a queue t that is what s has after its head e.
Drops(t, s, e) ==
  /\ \A k, g : On(s, k, g) <=> Is(e, k, g) \/ On(t, k, g)
  /\ \A k, g : Once(s, k, g) => Once(t, k, g) /\ ~(Is(e, k, g) /\ On(t, k, g))
  /\ \A k, g, k2, g2 : Ordered(s, k, g, k2, g2) => /\ Ordered(t, k, g, k2, g2)
                                                   /\ ~(Is(e, k2, g2) /\ On(s, k, g))
  /\ \A k, g, k2, g2 : Ahead(s, k, g, k2, g2) => /\ ~Is(e, k2, g2)
                                                 /\ Is(e, k, g) \/ Ahead(t, k, g, k2, g2)
  /\ \A k, g, p : LastSays(s, k, g, p) => /\ LastSays(t, k, g, p)
                                          /\ Is(e, k, g) /\ ~On(t, k, g) => e.at = p

\* A queue that loses its head keeps the rest.
LEMMA Takes ==
  ASSUME NEW M, NEW s \in Seq(M), s # <<>>
  PROVE  Head(s) \in M /\ Tail(s) \in Seq(M) /\ Drops(Tail(s), s, Head(s))
<1> DEFINE t == Tail(s)
           e == Head(s)
<1>0. e \in M /\ t \in Seq(M)
  BY TailPlaces
<1>1. \A k, g : On(s, k, g) <=> Is(e, k, g) \/ On(t, k, g)
  BY TakeHead
<1>2. \A k, g : Once(s, k, g) => Once(t, k, g) /\ ~(Is(e, k, g) /\ On(t, k, g))
  BY TakeHead
<1>3. \A k, g, k2, g2 : Ordered(s, k, g, k2, g2) => /\ Ordered(t, k, g, k2, g2)
                                                    /\ ~(Is(e, k2, g2) /\ On(s, k, g))
  BY TakeHead
<1>4. \A k, g, k2, g2 : Ahead(s, k, g, k2, g2) => /\ ~Is(e, k2, g2)
                                                  /\ Is(e, k, g) \/ Ahead(t, k, g, k2, g2)
  BY TakeHead
<1>5. \A k, g, p : LastSays(s, k, g, p) => /\ LastSays(t, k, g, p)
                                           /\ Is(e, k, g) /\ ~On(t, k, g) => e.at = p
  BY TakeHead
<1> HIDE DEF t, e
<1>6. Drops(t, s, e)
  BY <1>1, <1>2, <1>3, <1>4, <1>5 DEF Drops
<1> QED BY <1>0, <1>6 DEF t, e

\* A queue with nothing on it is empty.
LEMMA NothingOn ==
  ASSUME NEW M, NEW s \in Seq(M), \A k, g : ~On(s, k, g)
  PROVE  s = <<>>
<1> SUFFICES ASSUME s # <<>> PROVE FALSE
  OBVIOUS
<1>1. 1 \in DOMAIN s
  OBVIOUS
<1>2. On(s, s[1].kind, s[1].of)
  BY <1>1 DEF On, Is
<1> QED BY <1>2

-----------------------------------------------------------------------------
(* The registry: the inductive invariant. *)


\* The requests and messages there are, and what is told of an output.
RequestKinds == {"registry", "sync", "bind", "xdg"}
MessageKinds == {"global", "remove", "wl", "xdg", "caps", "uncaps", "done"}
Requests == {r \in [kind : RequestKinds, of : Globals \cup {None}] :
             /\ r.kind \in {"registry", "sync"} <=> r.of = None
             /\ r.kind = "xdg" => r.of \in Outputs}
Messages == {m \in [kind : MessageKinds,
                    of : Globals \cup {None}, at : Places \cup {None}] :
             /\ m.kind = "done" <=> m.of = None
             /\ m.kind = "remove" => m.of \in Outputs \cup Seats
             /\ m.kind \in {"wl", "xdg"} => m.of \in Outputs /\ m.at \in Places
             /\ m.kind \in {"caps", "uncaps"} => m.of \in Seats}
Info == [wl : Places \cup {None}, xdg : Places \cup {None}]
ToldBy(o, k) == IF k = "wl" THEN outputs[o].wl ELSE outputs[o].xdg

\* The types, with those of the two queues.
Typed ==
  /\ RegistryTypeOK /\ requests \in Seq(Requests) /\ wire \in Seq(Messages)
  /\ \A o \in Known : outputs[o] \in Info

\* What the compositor took away is gone, and nobody has a proxy of it.
Dealt ==
  /\ present \cap gone = {} /\ Apart(place)
  /\ \A q \in proxies : q[1] \in present
  /\ \A g \in Globals : On(wire, "remove", g) => g \in gone
  /\ \A g \in Globals : (\E k \in RequestKinds : On(requests, k, g)) \/ (\E k \in MessageKinds : On(wire, k, g))
                       => g \in present \cup gone

\* Nothing is said before the registry is asked for, and that is asked once.
Started ==
  /\ ~served => /\ wire = <<>> /\ Known = {} /\ proxies = {} /\ has = {} /\ early = {}
                /\ seat = None /\ capable = None
                /\ \/ opening = "connect" /\ requests = <<>>
                   \/ /\ opening \in {"first", "failed"}
                      /\ requests = <<Request("registry", None), Request("sync", None)>>
  /\ served => opening # "connect" /\ ~On(requests, "registry", None)

\* Of the two syncs one is on its way at a time, there or back.
OneSync ==
  /\ Once(requests, "sync", None) /\ Once(wire, "done", None)
  /\ ~(On(requests, "sync", None) /\ On(wire, "done", None))

\* An output is announced once, before it is removed; and what is known, or not
\* known, beyond what there is will be put right by what is on the wire.
Announced ==
  /\ Known \cup early \subseteq present \cup gone
  /\ \A o \in Outputs :
       /\ On(wire, "global", o) => /\ o \notin Known \cup early
                                   /\ o \in present \/ On(wire, "remove", o)
       /\ Once(wire, "global", o) /\ Ordered(wire, "global", o, "remove", o)
       /\ o \in Known => o \in present \/ On(wire, "remove", o)
       /\ served /\ o \in present => o \in Known \/ On(wire, "global", o)

\* Only known outputs are asked about, and every known output is.
Asked ==
  \A o \in Outputs :
    /\ o \in present /\ \/ On(requests, "bind", o) \/ On(requests, "xdg", o)
                        \/ On(wire, "wl", o) \/ On(wire, "xdg", o)
                        \/ <<o, "wl">> \in proxies \/ <<o, "xdg">> \in proxies
       => o \in Known
    /\ o \in Known => \/ bindErr \/ outputs[o].wl # None
                      \/ On(requests, "bind", o) \/ On(wire, "wl", o) \/ On(wire, "remove", o)

\* A proxy tells the place: what it says last is the place now.
Placed ==
  \A o \in Outputs, k \in {"wl", "xdg"} :
    /\ o \in Known \cap present /\ (ToldBy(o, k) # None \/ On(wire, k, o)) => <<o, k>> \in proxies
    /\ <<o, k>> \in proxies => /\ LastSays(wire, k, o, place[o])
                               /\ ~On(wire, k, o) => ToldBy(o, k) = place[o]

\* zxdg_outputs are of the first roundtrip's outputs only, and their manager is
\* announced in it.
OfFirst ==
  /\ opening \in {"connect", "first"} => early = {}
  /\ \A o \in Outputs : \/ On(requests, "xdg", o) \/ On(wire, "xdg", o) \/ <<o, "xdg">> \in proxies
                        \/ o \in Known /\ outputs[o].xdg # None
                        => o \in early
  /\ On(wire, "global", XDG) => opening \in {"first", "failed"}
  /\ Ordered(wire, "global", XDG, "done", None)

\* What an output has to tell before the sync comes back: it told, it does on
\* the wire, or it is asked; or it is gone, which the wire says as well.
Due(o, k, ask) ==
  \/ ToldBy(o, k) # None
  \/ Ahead(wire, k, o, "done", None) \/ Ahead(wire, "remove", o, "done", None)
  \/ ~On(wire, "done", None) /\ Ahead(requests, ask, o, "sync", None)

AllDue ==
  /\ opening = "second" /\ ~bindErr =>
       \A o \in Known \cap early : Due(o, "wl", "bind") /\ (XDG \in has => Due(o, "xdg", "xdg"))
  /\ opening = "open" =>
       \A o \in Known \cap early : ToldBy(o, "wl") # None /\ (XDG \in has => ToldBy(o, "xdg") # None)

\* The seat that tells, and the one that is asked while it is there, is the one
\* that is bound; when it goes it told before.
OneSeat ==
  /\ capable \in {seat, None}
  /\ \A s \in Seats : /\ On(wire, "caps", s) => seat = s
                      /\ Ordered(wire, "caps", s, "remove", s)
                      /\ On(requests, "bind", s) /\ s \in present => seat = s

\* The inductive invariant.
RegistryInv == /\ Typed /\ Dealt /\ Started /\ OneSync /\ Announced
               /\ Asked /\ Placed /\ OfFirst /\ AllDue /\ OneSeat

\* What the compositor sends of a global is a message.
LEMMA MessageMade ==
  ASSUME Typed, NEW kind \in MessageKinds,
         NEW g \in Globals \cup {None}, kind = "done" <=> g = None,
         kind = "remove" => g \in Outputs \cup Seats,
         kind \in {"wl", "xdg"} => g \in Outputs, kind \in {"caps", "uncaps"} => g \in Seats
  PROVE  /\ Message(kind, g) \in Messages
         /\ g \in Outputs => Message(kind, g).at = place[g]
         /\ \A k, h : Is(Message(kind, g), k, h) <=> k = kind /\ h = g
<1> DEFINE at == IF g \in Outputs THEN place[g] ELSE None
<1>1. at \in Places \cup {None} /\ (g \in Outputs => at \in Places)
  BY DEF Typed, RegistryTypeOK
<1>2. Message(kind, g) = [kind |-> kind, of |-> g, at |-> at]
  BY DEF Message
<1> HIDE DEF at
<1>3. Message(kind, g) \in Messages
  BY <1>1, <1>2 DEF Messages, MessageKinds
<1>4. Message(kind, g).kind = kind /\ Message(kind, g).of = g /\ Message(kind, g).at = at
  BY <1>2
<1> QED BY <1>3, <1>4 DEF Is, at

\* And what the client asks of one is a request.
LEMMA RequestMade ==
  ASSUME NEW kind \in RequestKinds, NEW g \in Globals \cup {None},
         kind \in {"registry", "sync"} <=> g = None, kind = "xdg" => g \in Outputs
  PROVE  /\ Request(kind, g) \in Requests
         /\ \A k, h : Is(Request(kind, g), k, h) <=> k = kind /\ h = g
<1>1. Request(kind, g) \in Requests
  BY DEF Request, Requests, RequestKinds
<1>2. Request(kind, g).kind = kind /\ Request(kind, g).of = g
  BY DEF Request
<1> QED BY <1>1, <1>2 DEF Is

\* Before the connection nothing is known or on its way.
LEMMA InitInv == RegistryInit => RegistryInv
<1> SUFFICES ASSUME RegistryInit PROVE RegistryInv
  OBVIOUS
<1> USE DEF RegistryInit
<1>1. Known = {}
  <2>1. DOMAIN outputs = {} 
    OBVIOUS
  <2> QED BY <2>1 DEF Known
<1>2. \A k, g : ~On(wire, k, g) /\ ~On(requests, k, g) /\ Once(wire, k, g) /\ Once(requests, k, g)
  BY Empty
<1>3. \A k, g, k2, g2 : Ordered(wire, k, g, k2, g2)
  BY Empty
<1>4. wire \in Seq(Messages) /\ requests \in Seq(Requests)
  BY Empty
<1>5. Typed
  <2>1. present \subseteq Globals
    BY DEF Globals
  <2> QED BY <1>1, <1>4, <2>1 DEF Typed, RegistryTypeOK
<1>6. Dealt /\ Started /\ OneSync
  BY <1>1, <1>2, <1>3 DEF Dealt, Started, OneSync
<1>7. Announced /\ Asked /\ Placed
  BY <1>1, <1>2, <1>3 DEF Announced, Asked, Placed
<1>8. OfFirst /\ AllDue /\ OneSeat
  BY <1>1, <1>2, <1>3 DEF OfFirst, AllDue, OneSeat
<1> QED BY <1>5, <1>6, <1>7, <1>8 DEF RegistryInv

-----------------------------------------------------------------------------
(* The compositor's steps. *)

\* Once the registry is sent, the compositor tells of a change.
LEMMA Tells ==
  ASSUME Typed, NEW kind \in {"global", "remove"}, NEW g \in Outputs \cup Seats,
         wire' = IF served THEN Append(wire, Message(kind, g)) ELSE wire
  PROVE  LET New(k, h) == served /\ k = kind /\ h = g
         IN /\ wire' \in Seq(Messages)
            /\ \A k, h : On(wire', k, h) <=> On(wire, k, h) \/ New(k, h)
            /\ \A k, h : Once(wire, k, h) /\ ~(On(wire, k, h) /\ New(k, h)) => Once(wire', k, h)
            /\ \A k, h, k2, h2 : Ordered(wire, k, h, k2, h2) /\ ~(New(k, h) /\ (On(wire, k2, h2) \/ New(k2, h2)))
                                   => Ordered(wire', k, h, k2, h2)
            /\ \A k, h, k2, h2 : Ahead(wire, k, h, k2, h2) => Ahead(wire', k, h, k2, h2)
            /\ \A k, h, p : LastSays(wire, k, h, p) /\ ~New(k, h) => LastSays(wire', k, h, p)
<1>0. wire \in Seq(Messages)
  BY DEF Typed
<1>1. CASE served
  <2> DEFINE m == Message(kind, g)
  <2>1. m \in Messages /\ \A k, h : Is(m, k, h) <=> k = kind /\ h = g
    BY RegistryAssumption, MessageMade DEF MessageKinds, Globals
  <2>2. wire' = Append(wire, m)
    BY <1>1
  <2> HIDE DEF m
  <2>3. wire' \in Seq(Messages) /\ Adds(wire', wire, m)
    BY <1>0, <2>1, <2>2, Gets
  <2> QED BY <1>1, <2>1, <2>3 DEF Adds
<1>2. CASE ~served
  BY <1>0, <1>2
<1> QED BY <1>1, <1>2

\* A new global is announced behind all that is on the wire (Plug).
LEMMA PlugInv ==
  ASSUME RegistryInv, NEW g \in Outputs \cup Seats, Plug(g)
  PROVE  RegistryInv'
<1> DEFINE Said(k, h) == served /\ k = "global" /\ h = g
<1>1. g \in Globals /\ g # None /\ g \notin present /\ g \notin gone /\ (g \in Outputs <=> g \notin Seats) /\ g # XDG
  BY RegistryAssumption DEF Plug, Globals
<1>2. Typed /\ wire \in Seq(Messages)
  BY DEF RegistryInv, Typed
<1>3. /\ wire' \in Seq(Messages)
      /\ \A k, h : On(wire', k, h) <=> On(wire, k, h) \/ Said(k, h)
      /\ \A k, h : Once(wire, k, h) /\ ~(On(wire, k, h) /\ Said(k, h)) => Once(wire', k, h)
      /\ \A k, h, k2, h2 : Ordered(wire, k, h, k2, h2) /\ ~(Said(k, h) /\ (On(wire, k2, h2) \/ Said(k2, h2)))
                             => Ordered(wire', k, h, k2, h2)
      /\ \A k, h, k2, h2 : Ahead(wire, k, h, k2, h2) => Ahead(wire', k, h, k2, h2)
      /\ \A k, h, p : LastSays(wire, k, h, p) /\ ~Said(k, h) => LastSays(wire', k, h, p)
  <2>1. wire' = IF served THEN Append(wire, Message("global", g)) ELSE wire
    BY DEF Plug
  <2> QED BY <1>2, <2>1, Tells
<1> HIDE DEF Said
<1>4. \A k, h : k # "global" \/ h # g => ~Said(k, h)
  BY DEF Said
<1>5. /\ present' = present \cup {g}
      /\ UNCHANGED <<gone, place, namers, proxies, served, requests>> /\ UNCHANGED clientVars
  BY DEF Plug, Changes
<1> USE DEF clientVars
<1>6. /\ \A k \in RequestKinds : ~On(requests, k, g)
      /\ \A k \in MessageKinds : ~On(wire, k, g)
      /\ g \notin Known \cup early /\ <<g, "wl">> \notin proxies /\ <<g, "xdg">> \notin proxies
  <2>1. \A k : <<g, k>>[1] = g
    OBVIOUS
  <2> QED BY <1>1, <2>1 DEF RegistryInv, Dealt, Announced
<1>7. Typed'
  BY <1>1, <1>3, <1>5 DEF RegistryInv, Typed, RegistryTypeOK, Known
<1>8. Dealt'
  <2>1. Apart(place)'
    BY <1>5 DEF RegistryInv, Dealt, Apart, Plug
  <2> QED BY <2>1, <1>1, <1>3, <1>4, <1>5 DEF RegistryInv, Dealt, Said
<1>9. Started'
  <2>1. ~served => wire' = wire
    BY DEF Plug
  <2> QED BY <2>1, <1>5 DEF RegistryInv, Started, Known, Request
<1>10. OneSync'
  BY <1>1, <1>3, <1>4, <1>5 DEF RegistryInv, OneSync
<1>11. Announced'
  <2>1. served => Said("global", g)
    BY DEF Said
  <2> QED BY <1>1, <1>3, <1>4, <1>5, <1>6, <2>1 DEF RegistryInv, Announced, Known, MessageKinds
<1>12. Asked'
  BY <1>1, <1>3, <1>4, <1>5, <1>6 DEF RegistryInv, Asked, Known, MessageKinds, RequestKinds
<1>13. Placed'
  BY <1>1, <1>3, <1>4, <1>5, <1>6 DEF RegistryInv, Placed, Known, ToldBy
<1>14. OfFirst'
  BY <1>1, <1>3, <1>4, <1>5 DEF RegistryInv, OfFirst, Known
<1>15. AllDue'
  BY <1>1, <1>3, <1>4, <1>5 DEF RegistryInv, AllDue, Due, ToldBy, Known
<1>16. OneSeat'
  BY <1>1, <1>3, <1>4, <1>5, <1>6 DEF RegistryInv, OneSeat, RequestKinds
<1> QED BY <1>7, <1>8, <1>9, <1>10, <1>11, <1>12, <1>13, <1>14, <1>15, <1>16 DEF RegistryInv

\* A removed one is told behind whatever was said of it (Unplug).
LEMMA UnplugInv ==
  ASSUME RegistryInv, NEW g \in Outputs \cup Seats, Unplug(g)
  PROVE  RegistryInv'
<1> DEFINE Said(k, h) == served /\ k = "remove" /\ h = g
<1>1. g \in Globals /\ g # None /\ g \in present /\ (g \in Outputs <=> g \notin Seats) /\ g # XDG
  BY RegistryAssumption DEF Unplug, Globals
<1>2. Typed /\ wire \in Seq(Messages)
  BY DEF RegistryInv, Typed
<1>3. /\ wire' \in Seq(Messages)
      /\ \A k, h : On(wire', k, h) <=> On(wire, k, h) \/ Said(k, h)
      /\ \A k, h : Once(wire, k, h) /\ ~(On(wire, k, h) /\ Said(k, h)) => Once(wire', k, h)
      /\ \A k, h, k2, h2 : Ordered(wire, k, h, k2, h2) /\ ~(Said(k, h) /\ (On(wire, k2, h2) \/ Said(k2, h2)))
                             => Ordered(wire', k, h, k2, h2)
      /\ \A k, h, k2, h2 : Ahead(wire, k, h, k2, h2) => Ahead(wire', k, h, k2, h2)
      /\ \A k, h, p : LastSays(wire, k, h, p) /\ ~Said(k, h) => LastSays(wire', k, h, p)
  <2>1. wire' = IF served THEN Append(wire, Message("remove", g)) ELSE wire
    BY DEF Unplug
  <2> QED BY <1>2, <2>1, Tells
<1> HIDE DEF Said
<1>4. /\ \A k, h : k # "remove" \/ h # g => ~Said(k, h)
      /\ served => Said("remove", g)
  BY DEF Said
<1>5. /\ present' = present \ {g} /\ gone' = gone \cup {g} /\ proxies' = proxies \ {<<g, "wl">>, <<g, "xdg">>}
      /\ UNCHANGED <<place, namers, served, requests>> /\ UNCHANGED clientVars
  BY DEF Unplug, Changes
<1>6. ~served => /\ wire' = wire /\ Known = {}
                 /\ \A k, h : ~On(wire, k, h)
  <2>1. \A k, h : ~On(<<>>, k, h)
    BY Empty
  <2> QED BY <2>1 DEF Unplug, RegistryInv, Started
<1> USE DEF clientVars
<1>7. Typed'
  BY <1>1, <1>3, <1>5 DEF RegistryInv, Typed, RegistryTypeOK, Known
<1>8. Dealt'
  <2>1. Apart(place)'
    BY <1>5 DEF RegistryInv, Dealt, Apart
  <2>2. \A q \in proxies' : q[1] \in present'
    <3>1. \A q \in proxies : q = <<q[1], q[2]>> /\ q[2] \in {"wl", "xdg"}
      BY <1>2 DEF Typed, RegistryTypeOK
    <3> QED BY <3>1, <1>5 DEF RegistryInv, Dealt
  <2> QED BY <2>1, <2>2, <1>1, <1>3, <1>4, <1>5 DEF RegistryInv, Dealt
<1>9. Started'
  BY <1>5, <1>6 DEF RegistryInv, Started, Known, Request
<1>10. OneSync'
  BY <1>1, <1>3, <1>4, <1>5 DEF RegistryInv, OneSync
<1>11. Announced'
  BY <1>1, <1>3, <1>4, <1>5, <1>6 DEF RegistryInv, Announced, Known
<1>12. Asked'
  BY <1>1, <1>3, <1>4, <1>5 DEF RegistryInv, Asked, Known
<1>13. Placed'
  BY <1>1, <1>3, <1>4, <1>5 DEF RegistryInv, Placed, Known, ToldBy
<1>14. OfFirst'
  BY <1>1, <1>3, <1>4, <1>5 DEF RegistryInv, OfFirst, Known
<1>15. AllDue'
  BY <1>1, <1>3, <1>4, <1>5 DEF RegistryInv, AllDue, Due, ToldBy, Known
<1>16. OneSeat'
  BY <1>1, <1>3, <1>4, <1>5 DEF RegistryInv, OneSeat
<1> QED BY <1>7, <1>8, <1>9, <1>10, <1>11, <1>12, <1>13, <1>14, <1>15, <1>16 DEF RegistryInv

\* An output that moves says so on its proxies, behind its old place (Move).
LEMMA MoveInv ==
  ASSUME RegistryInv, NEW o \in Outputs, NEW p \in Places, Move(o, p)
  PROVE  RegistryInv'
<1> DEFINE New(k, h) == k \in {"wl", "xdg"} /\ h = o /\ <<o, k>> \in proxies
           S == {[kind |-> kind, of |-> o, at |-> p] : kind \in {k \in {"wl", "xdg"} : <<o, k>> \in proxies}}
           t == SetToSeq(S)
<1>1. o \in Globals /\ o # None /\ o \notin Seats /\ o # XDG /\ o \in present
  BY RegistryAssumption DEF Move, Globals
<1>2. Typed /\ wire \in Seq(Messages)
  BY DEF RegistryInv, Typed
<1>3. \A m : m \in S <=> \E kind \in {"wl", "xdg"} : /\ <<o, kind>> \in proxies
                                                     /\ m = [kind |-> kind, of |-> o, at |-> p]
  OBVIOUS
<1> HIDE DEF S
<1>4. S \in SUBSET Messages
  <2> SUFFICES ASSUME NEW m \in S PROVE m \in Messages
    OBVIOUS
  <2>1. PICK kind \in {"wl", "xdg"} : m = [kind |-> kind, of |-> o, at |-> p]
    BY <1>3
  <2> QED BY <1>1, <2>1 DEF Messages, MessageKinds
<1>5. IsFiniteSet(S)
  <2> DEFINE a == [kind |-> "wl", of |-> o, at |-> p]
             b == [kind |-> "xdg", of |-> o, at |-> p]
  <2>1. S \subseteq {a, b}
    BY <1>3
  <2> HIDE DEF a, b
  <2>2. {a, b} = {a} \cup {b} /\ IsFiniteSet({a}) /\ IsFiniteSet({b})
    BY FS_Singleton
  <2>3. IsFiniteSet({a, b})
    BY <2>2, FS_Union
  <2> QED BY <2>1, <2>3, FS_Subset
<1>6. /\ \A k, h : (\E m \in S : Is(m, k, h)) <=> New(k, h)
      /\ \A m \in S : m.at = p
  <2>1. ASSUME NEW k, NEW h, NEW m \in S, Is(m, k, h) PROVE New(k, h)
    BY <1>3, <2>1 DEF Is
  <2>2. ASSUME NEW k, NEW h, New(k, h) PROVE \E m \in S : Is(m, k, h)
    <3>1. [kind |-> k, of |-> o, at |-> p] \in S
      BY <1>3, <2>2
    <3>2. Is([kind |-> k, of |-> o, at |-> p], k, h)
      BY <2>2 DEF Is
    <3> QED BY <3>1, <3>2
  <2>3. \A m \in S : m.at = p
    BY <1>3
  <2> QED BY <2>1, <2>2, <2>3
<1> HIDE DEF New
<1>7. /\ t \in Seq(Messages)
      /\ \A k, h : On(t, k, h) <=> New(k, h)
      /\ \A k, h : ~New(k, h) => Once(t, k, h)
      /\ \A k, h, k2, h2 : ~New(k, h) => Ordered(t, k, h, k2, h2)
      /\ \A k, h : LastSays(t, k, h, p)
  <2>1. t \in Seq(Messages) /\ \A k, h : On(t, k, h) <=> \E m \in S : Is(m, k, h)
    BY <1>4, <1>5, Listed
  <2>2. \A k, h : ~New(k, h) => Once(t, k, h)
    BY <1>4, <1>5, <1>6, Listed
  <2>3. \A k, h, k2, h2 : ~New(k, h) => Ordered(t, k, h, k2, h2)
    BY <1>4, <1>5, <1>6, Listed
  <2>4. \A k, h : LastSays(t, k, h, p)
    BY <1>4, <1>5, <1>6, Listed
  <2> QED BY <2>1, <2>2, <2>3, <2>4, <1>6
<1>8. wire' = wire \o t
  BY DEF Move, S
<1> HIDE DEF t
<1>9. /\ wire' \in Seq(Messages)
      /\ \A k, h : On(wire', k, h) <=> On(wire, k, h) \/ New(k, h)
      /\ \A k, h : Once(wire, k, h) /\ ~New(k, h) => Once(wire', k, h)
      /\ \A k, h, k2, h2 : Ordered(wire, k, h, k2, h2) /\ ~New(k, h) => Ordered(wire', k, h, k2, h2)
      /\ \A k, h, k2, h2 : Ahead(wire, k, h, k2, h2) => Ahead(wire', k, h, k2, h2)
      /\ \A k, h, q : LastSays(wire, k, h, q) /\ ~New(k, h) => LastSays(wire', k, h, q)
      /\ \A k, h : New(k, h) => LastSays(wire', k, h, p)
  <2>1. wire' \in Seq(Messages)
    BY <1>2, <1>7, <1>8, Joined
  <2>2. \A k, h : On(wire', k, h) <=> On(wire, k, h) \/ New(k, h)
    BY <1>2, <1>7, <1>8, Joined
  <2>3. \A k, h : Once(wire, k, h) /\ ~New(k, h) => Once(wire', k, h)
    BY <1>2, <1>7, <1>8, Joined
  <2>4. \A k, h, k2, h2 : Ordered(wire, k, h, k2, h2) /\ ~New(k, h) => Ordered(wire', k, h, k2, h2)
    BY <1>2, <1>7, <1>8, Joined
  <2>5. \A k, h, k2, h2 : Ahead(wire, k, h, k2, h2) => Ahead(wire', k, h, k2, h2)
    BY <1>2, <1>7, <1>8, Joined
  <2>6. \A k, h, q : LastSays(wire, k, h, q) /\ ~New(k, h) => LastSays(wire', k, h, q)
    BY <1>2, <1>7, <1>8, Joined
  <2>7. \A k, h : New(k, h) => LastSays(wire', k, h, p)
    BY <1>2, <1>7, <1>8, Joined
  <2> QED BY <2>1, <2>2, <2>3, <2>4, <2>5, <2>6, <2>7
<1>10. /\ \A k, h : New(k, h) => k \in {"wl", "xdg"} /\ h = o /\ <<o, k>> \in proxies
       /\ \A k \in {"wl", "xdg"} : <<o, k>> \in proxies => New(k, o)
       /\ \A k, h : k \notin {"wl", "xdg"} => ~New(k, h)
  BY DEF New
<1>11. /\ place' = [place EXCEPT ![o] = p] /\ Apart(place')
       /\ UNCHANGED <<present, gone, proxies, namers, served, requests>> /\ UNCHANGED clientVars
  BY DEF Move, Changes
<1>12. ~served => wire' = wire
  <2> SUFFICES ASSUME ~served PROVE wire' = wire
    OBVIOUS
  <2>1. wire = <<>> /\ proxies = {}
    BY DEF RegistryInv, Started
  <2>2. \A k, h : ~On(t, k, h)
    BY <1>7, <1>10, <2>1
  <2>3. t = <<>>
    BY <1>7, <2>2, NothingOn
  <2> QED BY <1>8, <2>1, <2>3
<1> USE DEF clientVars
<1>13. Typed'
  BY <1>1, <1>9, <1>11 DEF RegistryInv, Typed, RegistryTypeOK, Known
<1>14. Dealt'
  <2>1. Apart(place)'
    BY <1>11 DEF Apart
  <2> QED BY <1>1, <1>9, <1>10, <1>11, <2>1 DEF RegistryInv, Dealt
<1>15. Started'
  BY <1>11, <1>12 DEF RegistryInv, Started, Known, Request
<1>16. OneSync'
  BY <1>1, <1>9, <1>10, <1>11 DEF RegistryInv, OneSync
<1>17. Announced'
  BY <1>1, <1>9, <1>10, <1>11 DEF RegistryInv, Announced, Known
<1>18. Asked'
  BY <1>1, <1>9, <1>10, <1>11 DEF RegistryInv, Asked, Known
<1>19. Placed'
  <2>1. place \in [Outputs -> Places]
    BY <1>2 DEF Typed, RegistryTypeOK
  <2>2. place'[o] = p /\ \A h \in Outputs : h # o => place'[h] = place[h]
    BY <2>1, <1>11
  <2> QED BY <1>1, <1>9, <1>10, <1>11, <2>2 DEF RegistryInv, Placed, Known, ToldBy
<1>20. OfFirst'
  BY <1>1, <1>9, <1>10, <1>11 DEF RegistryInv, OfFirst, Known
<1>21. AllDue'
  BY <1>1, <1>9, <1>10, <1>11 DEF RegistryInv, AllDue, Due, ToldBy, Known
<1>22. OneSeat'
  BY <1>1, <1>9, <1>10, <1>11 DEF RegistryInv, OneSeat
<1> QED BY <1>13, <1>14, <1>15, <1>16, <1>17, <1>18, <1>19, <1>20, <1>21, <1>22 DEF RegistryInv

\* The globals there are, each announced once.
LEMMA Announcement ==
  ASSUME Typed
  PROVE  /\ Announce \in Seq(Messages)
         /\ \A k, h : On(Announce, k, h) <=> k = "global" /\ h \in present
         /\ \A k, h : Once(Announce, k, h)
         /\ \A k, h, k2, h2 : k # "global" \/ k2 # "global" => Ordered(Announce, k, h, k2, h2)
         /\ \A k, h, p : k # "global" => LastSays(Announce, k, h, p)
<1> DEFINE S == {Message("global", g) : g \in present}
           f == [g \in present |-> Message("global", g)]
<1>1. present \subseteq Globals /\ IsFiniteSet(present)
  BY RegistryAssumption, FS_Subset DEF Typed, RegistryTypeOK
<1>2. \A g \in present : /\ Message("global", g) \in Messages
                         /\ \A k, h : Is(Message("global", g), k, h) <=> k = "global" /\ h = g
  <2> SUFFICES ASSUME NEW g \in present
               PROVE  /\ Message("global", g) \in Messages
                      /\ \A k, h : Is(Message("global", g), k, h) <=> k = "global" /\ h = g
    OBVIOUS
  <2>1. g \in Globals \cup {None} /\ g # None
    BY <1>1, RegistryAssumption
  <2> QED BY <2>1, MessageMade DEF MessageKinds
<1>3. IsFiniteSet(S)
  <2>1. f \in Surjection(present, S)
    BY DEF Surjection
  <2> QED BY <1>1, <2>1, FS_Surjection
<1>4. S \in SUBSET Messages
  BY <1>2
<1>5. \A m \in S : \E g \in present : m = Message("global", g) /\ \A k, h : Is(m, k, h) <=> k = "global" /\ h = g
  BY <1>2
<1>6. \A k, h : (\E m \in S : Is(m, k, h)) <=> k = "global" /\ h \in present
  BY <1>2, <1>5
<1>7. Announce = SetToSeq(S)
  BY DEF Announce
<1> HIDE DEF S
<1>8. Announce \in Seq(Messages) /\ \A k, h : On(Announce, k, h) <=> k = "global" /\ h \in present
  BY <1>3, <1>4, <1>6, <1>7, Listed
<1>9. \A k, h : Once(Announce, k, h)
  <2> SUFFICES ASSUME NEW k, NEW h PROVE Once(Announce, k, h)
    OBVIOUS
  <2>1. \A m, n \in S : Is(m, k, h) /\ Is(n, k, h) => m = n
    BY <1>5
  <2> QED BY <1>3, <1>4, <1>7, <2>1, Listed
<1>10. \A k, h, k2, h2 : k # "global" \/ k2 # "global" => Ordered(Announce, k, h, k2, h2)
  <2> SUFFICES ASSUME NEW k, NEW h, NEW k2, NEW h2, k # "global" \/ k2 # "global"
               PROVE  Ordered(Announce, k, h, k2, h2)
    OBVIOUS
  <2>1. \A m, n \in S : ~(Is(m, k, h) /\ Is(n, k2, h2))
    BY <1>5
  <2> QED BY <1>3, <1>4, <1>7, <2>1, Listed
<1>11. \A k, h, p : k # "global" => LastSays(Announce, k, h, p)
  <2> SUFFICES ASSUME NEW k, NEW h, NEW p, k # "global" PROVE LastSays(Announce, k, h, p)
    OBVIOUS
  <2>1. \A m \in S : Is(m, k, h) => m.at = p
    BY <1>5
  <2> QED BY <1>3, <1>4, <1>7, <2>1, Listed
<1> QED BY <1>8, <1>9, <1>10, <1>11

\* The registry is asked for first, and answered with what there is.
LEMMA ServeRegistryInv ==
  ASSUME RegistryInv, ServeRequest, Head(requests).kind = "registry"
  PROVE  RegistryInv'
<1> DEFINE r == Head(requests)
<1>1. Typed /\ requests \in Seq(Requests) /\ requests # <<>> /\ present \subseteq Globals
  BY DEF RegistryInv, Typed, RegistryTypeOK, ServeRequest
<1>2. r \in Requests /\ Drops(Tail(requests), requests, r)
  BY <1>1, Takes
<1>3. ~served
  <2>1. On(requests, "registry", None)
    BY <1>1, <1>2 DEF Drops, Is, Requests
  <2> QED BY <2>1 DEF RegistryInv, Started
<1>4. /\ opening \in {"first", "failed"}
      /\ requests = <<Request("registry", None), Request("sync", None)>>
      /\ wire = <<>> /\ Known = {} /\ proxies = {} /\ has = {} /\ early = {} /\ seat = None /\ capable = None
  BY <1>1, <1>3 DEF RegistryInv, Started
<1>5. /\ wire' = Announce /\ requests' = <<Request("sync", None)>> /\ served' = TRUE /\ proxies' = {}
      /\ UNCHANGED <<present, gone, place, namers>> /\ UNCHANGED clientVars
  <2>1. Answers(r) = {Announce}
    BY Zenon DEF Answers
  <2>2. wire' = <<>> \o Announce
    BY <1>4, <2>1 DEF ServeRequest
  <2>3. <<>> \o Announce = Announce
    BY <1>1, Announcement
  <2>4. proxies' = {}
    <3>1. r.kind # "bind" /\ r.kind # "xdg"
      OBVIOUS
    <3> QED BY <1>4, <3>1, Zenon DEF ServeRequest
  <2>5. requests' = <<Request("sync", None)>>
    BY <1>4 DEF ServeRequest
  <2>6. served' = TRUE
    <3>1. served' = (served \/ r.kind = "registry")
      BY Zenon DEF ServeRequest
    <3>2. r.kind = "registry"
      OBVIOUS
    <3> QED BY <3>1, <3>2, Zenon
  <2> QED BY <2>2, <2>3, <2>4, <2>5, <2>6 DEF ServeRequest
<1>6. /\ requests' \in Seq(Requests)
      /\ \A k, h : On(requests', k, h) <=> k = "sync" /\ h = None
      /\ Once(requests', "sync", None)
  <2> DEFINE m == Request("sync", None)
  <2>1. m \in Requests /\ \A k, h : Is(m, k, h) <=> k = "sync" /\ h = None
    BY RequestMade DEF RequestKinds
  <2>2. requests' = Append(<<>>, m)
    BY <1>5
  <2>3. <<>> \in Seq(Requests) /\ \A k, h : ~On(<<>>, k, h) /\ Once(<<>>, k, h)
    BY Empty
  <2> HIDE DEF m
  <2>4. requests' \in Seq(Requests) /\ Adds(requests', <<>>, m)
    BY <2>1, <2>2, <2>3, Gets
  <2> QED BY <2>1, <2>3, <2>4 DEF Adds
<1>7. /\ wire' \in Seq(Messages)
      /\ \A k, h : On(wire', k, h) <=> k = "global" /\ h \in present
      /\ \A k, h : Once(wire', k, h)
      /\ \A k, h, k2, h2 : k # "global" \/ k2 # "global" => Ordered(wire', k, h, k2, h2)
  BY <1>1, <1>5, Announcement
<1>8. Known' = {} /\ early' = {} /\ seat' = None /\ capable' = None /\ outputs' = outputs /\ opening' = opening
  BY <1>4, <1>5 DEF clientVars, Known
<1> HIDE DEF r
<1>9. Typed'
  BY <1>1, <1>5, <1>6, <1>7, <1>8 DEF Typed, RegistryTypeOK, clientVars
<1>10. Dealt'
  BY RegistryAssumption, <1>1, <1>5, <1>6, <1>7 DEF RegistryInv, Dealt, Apart, Globals
<1>11. Started' /\ OneSync'
  BY <1>4, <1>5, <1>6, <1>7, <1>8 DEF Started, OneSync
<1>12. Announced'
  BY <1>5, <1>7, <1>8 DEF Announced
<1>13. Asked' /\ Placed'
  BY <1>5, <1>6, <1>7, <1>8 DEF Asked, Placed
<1>14. OfFirst'
  BY <1>4, <1>5, <1>6, <1>7, <1>8 DEF OfFirst
<1>15. AllDue' /\ OneSeat'
  BY <1>4, <1>5, <1>6, <1>7, <1>8 DEF AllDue, OneSeat
<1> QED BY <1>9, <1>10, <1>11, <1>12, <1>13, <1>14, <1>15 DEF RegistryInv

\* Any other request is served after it.
LEMMA Serving ==
  ASSUME RegistryInv, ServeRequest, NEW r, r = Head(requests), r.kind # "registry"
  PROVE  /\ served = TRUE /\ served' = TRUE /\ r \in Requests
         /\ r.of # None <=> r.kind # "sync"
         /\ requests' \in Seq(Requests) /\ Drops(requests', requests, r) /\ wire \in Seq(Messages)
         /\ \E answer \in Answers(r) : wire' = wire \o answer
         /\ UNCHANGED <<present, gone, place, namers>> /\ UNCHANGED clientVars
         /\ requests # <<>> /\ On(requests, r.kind, r.of)
         /\ r.of # None => r.of \in present \cup gone
<1>1. Typed /\ requests \in Seq(Requests) /\ requests # <<>> /\ wire \in Seq(Messages)
  BY DEF RegistryInv, Typed, ServeRequest
<1>2. r \in Requests /\ Tail(requests) \in Seq(Requests) /\ Drops(Tail(requests), requests, r)
  BY <1>1, Takes
<1>3. served = TRUE
  <2>1. CASE requests = <<Request("registry", None), Request("sync", None)>>
    BY <2>1 DEF Request
  <2>2. CASE served
    BY <1>1, <2>2 DEF Typed, RegistryTypeOK
  <2> QED BY <1>1, <2>1, <2>2 DEF RegistryInv, Started
<1>4. served' = TRUE
  <2>1. served' = (served \/ r.kind = "registry")
    BY Zenon DEF ServeRequest
  <2> QED BY <1>3, <2>1, Zenon
<1>5. On(requests, r.kind, r.of)
  BY <1>2 DEF Drops, Is
<1>6. r.of # None => r.of \in present \cup gone
  BY <1>2, <1>5 DEF RegistryInv, Dealt, Requests
<1>7. requests' = Tail(requests) /\ \E answer \in Answers(r) : wire' = wire \o answer
  BY DEF ServeRequest
<1>8. UNCHANGED <<present, gone, place, namers>> /\ UNCHANGED clientVars
  BY DEF ServeRequest
<1>9. r.of # None <=> r.kind # "sync"
  BY <1>2 DEF Requests
<1> QED BY <1>1, <1>2, <1>3, <1>4, <1>5, <1>6, <1>7, <1>8, <1>9

\* The answer to a sync is the last word on all that was asked before.
LEMMA ServeSyncInv ==
  ASSUME RegistryInv, ServeRequest, Head(requests).kind = "sync"
  PROVE  RegistryInv'
<1> DEFINE r == Head(requests)
           m == Message("done", None)
<1>1. /\ served = TRUE /\ served' = TRUE /\ r \in Requests
      /\ r.of # None <=> r.kind # "sync"
      /\ requests' \in Seq(Requests) /\ Drops(requests', requests, r) /\ wire \in Seq(Messages)
      /\ \E answer \in Answers(r) : wire' = wire \o answer
      /\ UNCHANGED <<present, gone, place, namers>> /\ UNCHANGED clientVars
      /\ On(requests, r.kind, r.of)
  BY Serving
<1>2. \A k, h : Is(r, k, h) <=> k = "sync" /\ h = None
  BY <1>1 DEF Is
<1>3. Typed
  BY DEF RegistryInv
<1>4. m \in Messages /\ \A k, h : Is(m, k, h) <=> k = "done" /\ h = None
  BY <1>3, MessageMade DEF MessageKinds
<1>5. wire' = Append(wire, m) /\ proxies' = proxies
  <2>1. Answers(r) = {<<m>>}
    BY Zenon DEF Answers
  <2>2. r.kind # "bind" /\ r.kind # "xdg"
    OBVIOUS
  <2>3. proxies' = proxies
    BY <2>2, Zenon DEF ServeRequest
  <2>4. wire' = wire \o <<m>>
    BY <1>1, <2>1
  <2> HIDE DEF m
  <2> QED BY <1>1, <1>4, <2>3, <2>4, OneMore
<1> HIDE DEF r, m
<1>6. wire' \in Seq(Messages) /\ Adds(wire', wire, m)
  BY <1>1, <1>4, <1>5, Gets
<1>7. /\ None \notin Globals
      /\ \A k, h : k # "sync" => (On(requests', k, h) <=> On(requests, k, h))
      /\ \A k, h : k # "done" => (On(wire', k, h) <=> On(wire, k, h))
  BY RegistryAssumption, <1>1, <1>2, <1>4, <1>6 DEF Drops, Adds
<1> USE DEF clientVars
<1>8. Typed'
  BY <1>1, <1>3, <1>5, <1>6 DEF Typed, RegistryTypeOK, Known
<1>9. Dealt'
  BY <1>1, <1>2, <1>4, <1>5, <1>6, <1>7 DEF RegistryInv, Dealt, Apart, Drops, Adds
<1>10. Started'
  BY <1>1 DEF RegistryInv, Started, Drops
<1>11. OneSync'
  BY <1>1, <1>2, <1>4, <1>6 DEF RegistryInv, OneSync, Drops, Adds
<1>12. Announced'
  BY <1>1, <1>4, <1>6, <1>7 DEF RegistryInv, Announced, Known, Adds, Globals
<1>13. Asked'
  BY <1>1, <1>5, <1>7 DEF RegistryInv, Asked, Known
<1>14. Placed'
  BY <1>1, <1>4, <1>5, <1>6 DEF RegistryInv, Placed, Known, ToldBy, Adds
<1>15. OfFirst'
  BY <1>1, <1>2, <1>4, <1>5, <1>6 DEF RegistryInv, OfFirst, Known, Drops, Adds
<1>16. AllDue'
  <2>1. ASSUME NEW o, NEW k, NEW ask, Due(o, k, ask) PROVE Due(o, k, ask)'
    <3>1. ~Ahead(requests, ask, o, "sync", None)
      BY <1>1, <1>2 DEF Drops
    <3>2. \A kind : Ahead(wire, kind, o, "done", None) => Ahead(wire', kind, o, "done", None)
      BY <1>6 DEF Adds
    <3> QED BY <1>1, <2>1, <3>1, <3>2 DEF Due, ToldBy
  <2> QED BY <1>1, <2>1 DEF RegistryInv, AllDue, ToldBy, Known
<1>17. OneSeat'
  BY <1>1, <1>2, <1>4, <1>6 DEF RegistryInv, OneSeat, Drops, Adds
<1> QED BY <1>8, <1>9, <1>10, <1>11, <1>12, <1>13, <1>14, <1>15, <1>16, <1>17 DEF RegistryInv

\* An output that is bound, or asked for its zxdg_output, says where it is.
LEMMA ServeOutputInv ==
  ASSUME RegistryInv, ServeRequest, NEW k, NEW ask, (k = "wl" /\ ask = "bind") \/ (k = "xdg" /\ ask = "xdg"),
         Head(requests).kind = ask, NEW o \in present \cap Outputs, Head(requests).of = o
  PROVE  RegistryInv'
<1> DEFINE r == Head(requests)
<1>1. /\ served = TRUE /\ served' = TRUE /\ r \in Requests
      /\ r.of # None <=> r.kind # "sync"
      /\ requests' \in Seq(Requests) /\ Drops(requests', requests, r) /\ wire \in Seq(Messages)
      /\ \E answer \in Answers(r) : wire' = wire \o answer
      /\ UNCHANGED <<present, gone, place, namers>> /\ UNCHANGED clientVars
      /\ On(requests, r.kind, r.of)
  BY Serving
<1>2. Typed
  BY DEF RegistryInv
<1> DEFINE m == Message(k, o)
<1>3. o \in Globals /\ o # None /\ o \notin Seats /\ o # XDG /\ o \in Outputs /\ o \in present
  BY RegistryAssumption DEF Globals
<1>4. /\ m \in Messages /\ m.at = place[o]
      /\ \A j, h : Is(m, j, h) <=> j = k /\ h = o
  BY <1>2, <1>3, MessageMade DEF MessageKinds
<1>5. \A j, h : Is(r, j, h) <=> j = ask /\ h = o
  BY DEF Is
<1>6. wire' = Append(wire, m) /\ proxies' = proxies \cup {<<o, k>>}
  <2>1. CASE k = "wl"
    <3>1. /\ r.kind = "bind" /\ r.of \in present \cap Outputs /\ r.of \notin present \cap Seats
          /\ m = Message("wl", r.of)
      BY <1>3, <2>1
    <3>2. Answers(r) = {<<Message("wl", r.of)>>}
      BY <3>1, Zenon DEF Answers
    <3>3. wire' = wire \o <<m>>
      BY <1>1, <3>1, <3>2
    <3>4. proxies' = proxies \cup {<<r.of, "wl">>}
      BY <3>1, Zenon DEF ServeRequest
    <3> HIDE DEF m
    <3> QED BY <1>1, <1>4, <2>1, <3>3, <3>4, OneMore
  <2>2. CASE k = "xdg"
    <3>1. r.kind = "xdg" /\ r.of \in present /\ r.kind # "bind" /\ m = Message("xdg", r.of)
      BY <2>2
    <3>2. Answers(r) = {<<Message("xdg", r.of)>>}
      BY <3>1, Zenon DEF Answers
    <3>3. wire' = wire \o <<m>>
      BY <1>1, <3>1, <3>2
    <3>4. proxies' = proxies \cup {<<r.of, "xdg">>}
      BY <3>1, Zenon DEF ServeRequest
    <3> HIDE DEF m
    <3> QED BY <1>1, <1>4, <2>2, <3>3, <3>4, OneMore
  <2> QED BY <2>1, <2>2
<1>7. r.kind = ask /\ r.of = o
  OBVIOUS
<1> HIDE DEF r, m
<1>8. wire' \in Seq(Messages) /\ Adds(wire', wire, m)
  BY <1>1, <1>4, <1>6, Gets
<1>9. /\ \A j, h : On(requests, j, h) <=> (j = ask /\ h = o) \/ On(requests', j, h)
      /\ \A j, h : On(wire', j, h) <=> On(wire, j, h) \/ (j = k /\ h = o)
      /\ \A j, h : j # k => (Once(wire, j, h) => Once(wire', j, h))
      /\ \A j, h, j2, h2 : j # k => (Ordered(wire, j, h, j2, h2) => Ordered(wire', j, h, j2, h2))
      /\ \A j, h, p : j # k \/ h # o => (LastSays(wire, j, h, p) => LastSays(wire', j, h, p))
      /\ LastSays(wire', k, o, place[o])
      /\ \A j, h : Once(requests, j, h) => Once(requests', j, h)
  BY <1>1, <1>4, <1>5, <1>8 DEF Drops, Adds
<1> USE DEF clientVars
<1>10. Typed'
  BY <1>1, <1>2, <1>3, <1>6, <1>8 DEF Typed, RegistryTypeOK, Known
<1>11. Dealt'
  BY <1>1, <1>3, <1>6, <1>9 DEF RegistryInv, Dealt, Apart
<1>12. Started'
  BY <1>1, <1>9 DEF RegistryInv, Started
<1>13. OneSync'
  BY <1>1, <1>3, <1>9 DEF RegistryInv, OneSync
<1>14. Announced'
  BY <1>1, <1>3, <1>9 DEF RegistryInv, Announced, Known
<1>15. Asked'
  BY <1>1, <1>3, <1>6, <1>9 DEF RegistryInv, Asked, Known
<1>16. Placed'
  BY <1>1, <1>3, <1>6, <1>9 DEF RegistryInv, Placed, Known, ToldBy
<1>17. OfFirst'
  BY <1>1, <1>3, <1>6, <1>9 DEF RegistryInv, OfFirst, Known
<1>18. AllDue'
  <2>1. ASSUME NEW h, NEW j, NEW a, Due(h, j, a), (j = "wl" /\ a = "bind") \/ (j = "xdg" /\ a = "xdg")
        PROVE  Due(h, j, a)'
    <3>1. \A kind : Ahead(wire, kind, h, "done", None) => Ahead(wire', kind, h, "done", None)
      BY <1>8 DEF Adds
    <3>2. CASE ~On(wire, "done", None) /\ Ahead(requests, a, h, "sync", None)
      <4>1. Is(r, a, h) \/ Ahead(requests', a, h, "sync", None)
        BY <1>1, <3>2 DEF Drops
      <4>2. CASE a = ask /\ h = o
        <5>1. Ahead(wire', k, o, "done", None)
          BY <1>4, <1>8, <3>2 DEF Adds
        <5> QED BY <2>1, <4>2, <5>1 DEF Due
      <4>3. CASE Ahead(requests', a, h, "sync", None)
        BY <1>9, <3>2, <4>3 DEF Due
      <4> QED BY <1>5, <4>1, <4>2, <4>3
    <3> QED BY <1>1, <2>1, <3>1, <3>2 DEF Due, ToldBy
  <2>2. \A h : (Due(h, "wl", "bind") => Due(h, "wl", "bind")') /\ (Due(h, "xdg", "xdg") => Due(h, "xdg", "xdg")')
    BY <2>1
  <2> QED BY <1>1, <2>2 DEF RegistryInv, AllDue, ToldBy, Known
<1>19. OneSeat'
  BY <1>1, <1>3, <1>9 DEF RegistryInv, OneSeat
<1> QED BY <1>10, <1>11, <1>12, <1>13, <1>14, <1>15, <1>16, <1>17, <1>18, <1>19 DEF RegistryInv

\* A seat that is bound says what it has.
LEMMA ServeSeatInv ==
  ASSUME RegistryInv, ServeRequest, Head(requests).kind = "bind",
         NEW s \in present \cap Seats, Head(requests).of = s
  PROVE  RegistryInv'
<1> DEFINE r == Head(requests)
<1>1. /\ served = TRUE /\ served' = TRUE /\ r \in Requests
      /\ r.of # None <=> r.kind # "sync"
      /\ requests' \in Seq(Requests) /\ Drops(requests', requests, r) /\ wire \in Seq(Messages)
      /\ \E answer \in Answers(r) : wire' = wire \o answer
      /\ UNCHANGED <<present, gone, place, namers>> /\ UNCHANGED clientVars
      /\ On(requests, r.kind, r.of)
  BY Serving
<1>2. Typed
  BY DEF RegistryInv
<1>3. s \in Globals /\ s # None /\ s \notin Outputs /\ s # XDG /\ s \in Seats /\ s \in present
  BY RegistryAssumption DEF Globals
<1>4. \A j, h : Is(r, j, h) <=> j = "bind" /\ h = s
  BY DEF Is
<1>5. PICK k \in {"caps", "uncaps"} : wire' = wire \o <<Message(k, s)>>
  <2>1. r.kind = "bind" /\ r.of = s /\ r.of \in present \cap Seats /\ r.of \notin present \cap Outputs
    BY <1>3
  <2>2. Answers(r) = {<<Message("caps", r.of)>>, <<Message("uncaps", r.of)>>}
    BY <2>1, Zenon DEF Answers
  <2> QED BY <1>1, <2>1, <2>2
<1> DEFINE m == Message(k, s)
<1>6. m \in Messages /\ \A j, h : Is(m, j, h) <=> j = k /\ h = s
  BY <1>2, <1>3, MessageMade DEF MessageKinds
<1>7. proxies' = proxies
  <2>1. r.kind = "bind" /\ r.kind # "xdg" /\ r.of \notin present \cap Outputs
    BY <1>3
  <2> QED BY <2>1, Zenon DEF ServeRequest
<1>8. r.kind = "bind" /\ r.of = s
  OBVIOUS
<1>9. wire' = wire \o <<m>>
  BY <1>5
<1> HIDE DEF r, m
<1>10. wire' \in Seq(Messages) /\ Adds(wire', wire, m)
  BY <1>1, <1>6, <1>9, OneMore, Gets
<1>11. /\ \A j, h : On(requests, j, h) <=> (j = "bind" /\ h = s) \/ On(requests', j, h)
       /\ \A j, h : On(wire', j, h) <=> On(wire, j, h) \/ (j = k /\ h = s)
       /\ \A j, h : j # k => (Once(wire, j, h) => Once(wire', j, h))
       /\ \A j, h, j2, h2 : j # k \/ h # s => (Ordered(wire, j, h, j2, h2) => Ordered(wire', j, h, j2, h2))
       /\ \A j, h, p : h # s => (LastSays(wire, j, h, p) => LastSays(wire', j, h, p))
       /\ \A j, h : Once(requests, j, h) => Once(requests', j, h)
  BY <1>1, <1>4, <1>6, <1>10 DEF Drops, Adds
<1> USE DEF clientVars
<1>12. Typed'
  BY <1>1, <1>2, <1>7, <1>10 DEF Typed, RegistryTypeOK, Known
<1>13. Dealt'
  BY <1>1, <1>3, <1>7, <1>11 DEF RegistryInv, Dealt, Apart
<1>14. Started'
  BY <1>1, <1>11 DEF RegistryInv, Started
<1>15. OneSync'
  BY <1>1, <1>3, <1>11 DEF RegistryInv, OneSync
<1>16. Announced'
  BY <1>1, <1>3, <1>11 DEF RegistryInv, Announced, Known
<1>17. Asked'
  BY <1>1, <1>3, <1>7, <1>11 DEF RegistryInv, Asked, Known
<1>18. Placed'
  BY <1>1, <1>3, <1>7, <1>11 DEF RegistryInv, Placed, Known, ToldBy
<1>19. OfFirst'
  BY <1>1, <1>3, <1>7, <1>11 DEF RegistryInv, OfFirst, Known
<1>20. AllDue'
  <2>1. ASSUME NEW o \in Outputs, NEW j, NEW a, Due(o, j, a) PROVE Due(o, j, a)'
    <3>1. \A kind : Ahead(wire, kind, o, "done", None) => Ahead(wire', kind, o, "done", None)
      BY <1>10 DEF Adds
    <3>2. Ahead(requests, a, o, "sync", None) => Ahead(requests', a, o, "sync", None)
      BY <1>1, <1>3, <1>4 DEF Drops
    <3> QED BY <1>1, <1>3, <1>11, <2>1, <3>1, <3>2 DEF Due, ToldBy
  <2>2. Known \subseteq Outputs
    BY <1>2 DEF Typed, RegistryTypeOK
  <2> QED BY <1>1, <2>1, <2>2 DEF RegistryInv, AllDue, ToldBy, Known
<1>21. OneSeat'
  <2>1. seat = s /\ ~On(wire, "remove", s)
    BY <1>1, <1>3, <1>8 DEF RegistryInv, OneSeat, Dealt
  <2>2. \A h \in Seats : Ordered(wire', "caps", h, "remove", h)
    <3>1. Ordered(wire, "caps", s, "remove", s) => Ordered(wire', "caps", s, "remove", s)
      BY <1>6, <1>10, <2>1 DEF Adds
    <3> QED BY <1>3, <1>11, <3>1 DEF RegistryInv, OneSeat
  <2> QED BY <1>1, <1>3, <1>11, <2>1, <2>2 DEF RegistryInv, OneSeat
<1> QED BY <1>12, <1>13, <1>14, <1>15, <1>16, <1>17, <1>18, <1>19, <1>20, <1>21 DEF RegistryInv

\* A global that is gone is asked for nothing, and the rest have nothing to say.
LEMMA ServeNothingInv ==
  ASSUME RegistryInv, ServeRequest,
         \/ Head(requests).kind = "bind" /\ Head(requests).of \notin present \cap (Outputs \cup Seats)
         \/ Head(requests).kind = "xdg" /\ Head(requests).of \notin present
  PROVE  RegistryInv'
<1> DEFINE r == Head(requests)
<1>1. /\ served = TRUE /\ served' = TRUE /\ r \in Requests
      /\ r.of # None <=> r.kind # "sync"
      /\ requests' \in Seq(Requests) /\ Drops(requests', requests, r) /\ wire \in Seq(Messages)
      /\ \E answer \in Answers(r) : wire' = wire \o answer
      /\ UNCHANGED <<present, gone, place, namers>> /\ UNCHANGED clientVars
      /\ On(requests, r.kind, r.of)
  BY Serving
<1>2. Typed
  BY DEF RegistryInv
<1>3. wire' = wire /\ proxies' = proxies
  <2>1. CASE r.kind = "bind"
    <3>1. r.of \notin present \cap Outputs /\ r.of \notin present \cap Seats
      BY <2>1
    <3>2. Answers(r) = {<<>>}
      BY <2>1, <3>1, Zenon DEF Answers
    <3>3. proxies' = proxies
      BY <2>1, <3>1, Zenon DEF ServeRequest
    <3> QED BY <1>1, <3>2, <3>3
  <2>2. CASE r.kind = "xdg"
    <3>1. r.of \notin present
      BY <2>2
    <3>2. Answers(r) = {<<>>}
      BY <2>2, <3>1, Zenon DEF Answers
    <3>3. proxies' = proxies
      BY <2>2, <3>1, Zenon DEF ServeRequest
    <3> QED BY <1>1, <3>2, <3>3
  <2> QED BY <2>1, <2>2
<1>4. r.of # None /\ r.kind \in {"bind", "xdg"} /\ r.of \notin present \cap Outputs
  <2>1. r.kind = "xdg" => r.of \in Outputs
    BY <1>1 DEF Requests
  <2> QED BY <1>1, <2>1
<1>5. \A j, h : Is(r, j, h) <=> j = r.kind /\ h = r.of
  BY DEF Is
<1> HIDE DEF r
<1>6. /\ \A j, h : On(requests, j, h) <=> (j = r.kind /\ h = r.of) \/ On(requests', j, h)
      /\ \A j, h : Once(requests, j, h) => Once(requests', j, h)
  BY <1>1, <1>5 DEF Drops
<1>7. \A o \in Known : r.of = o => On(wire, "remove", o)
  <2>1. Known \subseteq Outputs
    BY <1>2 DEF Typed, RegistryTypeOK
  <2> QED BY <1>4, <2>1 DEF RegistryInv, Announced
<1> USE DEF clientVars
<1>8. Typed'
  BY <1>1, <1>2, <1>3 DEF Typed, RegistryTypeOK, Known
<1>9. Dealt'
  BY <1>1, <1>3, <1>6 DEF RegistryInv, Dealt, Apart
<1>10. Started'
  BY <1>1, <1>6 DEF RegistryInv, Started
<1>11. OneSync'
  BY <1>1, <1>3, <1>6 DEF RegistryInv, OneSync
<1>12. Announced'
  BY <1>1, <1>3 DEF RegistryInv, Announced, Known
<1>13. Asked'
  BY <1>1, <1>3, <1>6, <1>7 DEF RegistryInv, Asked, Known
<1>14. Placed'
  BY <1>1, <1>3 DEF RegistryInv, Placed, Known, ToldBy
<1>15. OfFirst'
  BY <1>1, <1>3, <1>6 DEF RegistryInv, OfFirst, Known
<1>16. AllDue'
  <2>1. ASSUME NEW o \in Known, NEW j, NEW a, Due(o, j, a) PROVE Due(o, j, a)'
    <3>1. CASE ~On(wire, "done", None) /\ Ahead(requests, a, o, "sync", None)
      <4>1. Is(r, a, o) \/ Ahead(requests', a, o, "sync", None)
        BY <1>1, <3>1 DEF Drops
      <4>2. CASE r.of = o
        BY <1>3, <1>7, <3>1, <4>2, AheadOfNothing DEF Due
      <4>3. CASE Ahead(requests', a, o, "sync", None)
        BY <1>3, <3>1, <4>3 DEF Due
      <4> QED BY <1>5, <4>1, <4>2, <4>3
    <3> QED BY <1>1, <1>3, <2>1, <3>1 DEF Due, ToldBy
  <2> QED BY <1>1, <2>1 DEF RegistryInv, AllDue, ToldBy, Known
<1>17. OneSeat'
  BY <1>1, <1>3, <1>6 DEF RegistryInv, OneSeat
<1> QED BY <1>8, <1>9, <1>10, <1>11, <1>12, <1>13, <1>14, <1>15, <1>16, <1>17 DEF RegistryInv

\* Whatever the request, the compositor keeps the invariant.
LEMMA ServeRequestInv == ASSUME RegistryInv, ServeRequest PROVE RegistryInv'
<1> DEFINE r == Head(requests)
<1>1. r \in Requests
  <2>1. requests \in Seq(Requests) /\ requests # <<>>
    BY DEF RegistryInv, Typed, ServeRequest
  <2> QED BY <2>1, Takes
<1>2. r.kind \in RequestKinds
  BY <1>1 DEF Requests
<1>3. CASE r.kind = "registry"
  BY <1>3, ServeRegistryInv
<1>4. CASE r.kind = "sync"
  BY <1>4, ServeSyncInv
<1>5. CASE r.kind = "bind"
  <2>1. CASE r.of \in present \cap Outputs
    <3>1. \E o \in present \cap Outputs : r.of = o
      BY <2>1
    <3> QED BY <1>5, <3>1, ServeOutputInv
  <2>2. CASE r.of \in present \cap Seats
    BY <1>5, <2>2, ServeSeatInv
  <2>3. CASE r.of \notin present \cap (Outputs \cup Seats)
    BY <1>5, <2>3, ServeNothingInv
  <2> QED BY <2>1, <2>2, <2>3
<1>6. CASE r.kind = "xdg"
  <2>1. r.of \in Outputs
    BY <1>1, <1>6 DEF Requests
  <2>2. CASE r.of \in present
    <3>1. \E o \in present \cap Outputs : r.of = o
      BY <2>1, <2>2
    <3> QED BY <1>6, <3>1, ServeOutputInv
  <2>3. CASE r.of \notin present
    BY <1>6, <2>3, ServeNothingInv
  <2> QED BY <2>2, <2>3
<1> QED BY <1>2, <1>3, <1>4, <1>5, <1>6 DEF RequestKinds

-----------------------------------------------------------------------------
(* The client's steps. *)

\* What every handler finds: the registry was sent, the head of the wire is
\* handled and nothing else of the compositor changes (dispatchOnce).
LEMMA Dispatching ==
  ASSUME RegistryInv, DispatchOnce, NEW e, e = Head(wire)
  PROVE  /\ served = TRUE /\ e \in Messages /\ opening \in {"first", "second", "open"}
         /\ wire \in Seq(Messages) /\ wire' \in Seq(Messages) /\ Drops(wire', wire, e)
         /\ requests \in Seq(Requests)
         /\ \A j, h : Is(e, j, h) <=> j = e.kind /\ h = e.of
         /\ On(wire, e.kind, e.of) /\ e.of \in Globals \cup {None}
         /\ e.of # None => e.of \in present \cup gone
         /\ UNCHANGED compositorVars /\ proxies' = proxies
<1>1. Typed /\ wire \in Seq(Messages) /\ wire # <<>> /\ requests \in Seq(Requests)
  BY DEF RegistryInv, Typed, DispatchOnce
<1>2. e \in Messages /\ Tail(wire) \in Seq(Messages) /\ Drops(Tail(wire), wire, e)
  BY <1>1, Takes
<1>3. served = TRUE
  BY <1>1 DEF RegistryInv, Started, Typed, RegistryTypeOK
<1>4. \A j, h : Is(e, j, h) <=> j = e.kind /\ h = e.of
  BY DEF Is
<1>5. On(wire, e.kind, e.of)
  BY <1>2, <1>4 DEF Drops
<1>6. e.of \in Globals \cup {None} /\ e.kind \in MessageKinds
  BY <1>2 DEF Messages
<1>7. e.of # None => e.of \in present \cup gone
  BY <1>5, <1>6 DEF RegistryInv, Dealt
<1>8. /\ wire' = Tail(wire) /\ opening \in {"first", "second", "open"}
      /\ UNCHANGED compositorVars /\ proxies' = proxies
  BY DEF DispatchOnce
<1> QED BY <1>1, <1>2, <1>3, <1>4, <1>5, <1>6, <1>7, <1>8

\* The first of a kind is bound, and every output (handleRegistryGlobal).
LEMMA GlobalInv ==
  ASSUME RegistryInv, DispatchOnce, NEW g, Head(wire).kind = "global", Head(wire).of = g, HandleGlobal(g)
  PROVE  RegistryInv'
<1> DEFINE e == Head(wire)
<1>1. /\ served = TRUE /\ e \in Messages /\ opening \in {"first", "second", "open"}
      /\ wire \in Seq(Messages) /\ wire' \in Seq(Messages) /\ Drops(wire', wire, e)
      /\ requests \in Seq(Requests)
      /\ \A j, h : Is(e, j, h) <=> j = e.kind /\ h = e.of
      /\ On(wire, e.kind, e.of) /\ e.of \in Globals \cup {None}
      /\ e.of # None => e.of \in present \cup gone
      /\ UNCHANGED compositorVars /\ proxies' = proxies
  BY Dispatching
<1>2. e.kind = "global" /\ e.of = g
  OBVIOUS
<1> HIDE DEF e
<1>3. g \in Globals /\ g # None
  BY <1>1, <1>2 DEF Messages
<1>4. (g \in Outputs => g \notin Seats) /\ g \in present \cup gone
  BY RegistryAssumption, <1>1, <1>2, <1>3
<1>5. /\ \A j, h : On(wire, j, h) <=> (j = "global" /\ h = g) \/ On(wire', j, h)
      /\ \A j, h : Once(wire, j, h) => Once(wire', j, h)
      /\ \A j, h, j2, h2 : Ordered(wire, j, h, j2, h2) => Ordered(wire', j, h, j2, h2)
      /\ \A j, h, p : LastSays(wire, j, h, p) => LastSays(wire', j, h, p)
      /\ \A j, h, j2, h2 : Ahead(wire, j, h, j2, h2) /\ j # "global" => Ahead(wire', j, h, j2, h2)
      /\ Once(wire, "global", g) => ~On(wire', "global", g)
  BY <1>1, <1>2 DEF Drops
<1>6. /\ requests' \in Seq(Requests) /\ bindErr' \in BOOLEAN /\ (bindErr => bindErr')
      /\ \A j, h : j # "bind" \/ h # g => (On(requests', j, h) <=> On(requests, j, h))
      /\ On(requests, "bind", g) => On(requests', "bind", g)
      /\ \A j, h : j # "bind" /\ Once(requests, j, h) => Once(requests', j, h)
      /\ \A j, h, j2, h2 : Ahead(requests, j, h, j2, h2) => Ahead(requests', j, h, j2, h2)
      /\ On(requests', "bind", g) \/ bindErr' \/ (g \in Seats /\ seat # None)
      /\ On(requests', "bind", g) => On(requests, "bind", g) \/ ~(g \in Seats /\ seat # None)
  <2> DEFINE m == Request("bind", g)
  <2>1. m \in Requests /\ \A j, h : Is(m, j, h) <=> j = "bind" /\ h = g
    BY <1>3, RequestMade DEF RequestKinds
  <2>2. bindErr \in BOOLEAN
    BY DEF RegistryInv, Typed, RegistryTypeOK
  <2>3. CASE g \in Seats /\ seat # None
    BY <1>1, <2>2, <2>3 DEF HandleGlobal
  <2>4. CASE ~(g \in Seats /\ seat # None) /\ requests' = Append(requests, m) /\ UNCHANGED bindErr
    <3> HIDE DEF m
    <3>1. requests' \in Seq(Requests) /\ Adds(requests', requests, m)
      BY <1>1, <2>1, <2>4, Gets
    <3> QED BY <2>1, <2>2, <2>4, <3>1 DEF Adds
  <2>5. CASE ~(g \in Seats /\ seat # None) /\ bindErr' = TRUE /\ UNCHANGED requests
    BY <1>1, <2>5
  <2> QED BY <2>3, <2>4, <2>5 DEF HandleGlobal, Bind
<1>7. /\ has' = has \cup Noted(g) /\ opening' = opening /\ capable' = capable /\ early' = early
      /\ seat' = IF g \in Seats /\ seat = None THEN g ELSE seat
      /\ Known' = Known \cup ({g} \cap Outputs)
      /\ \A o \in Known' : outputs'[o] = IF o = g THEN Untold ELSE outputs[o]
  BY DEF HandleGlobal, Known
<1>8. g \in Outputs => /\ g \notin Known /\ g \notin early /\ ~On(wire', "global", g)
                       /\ g \in present \/ On(wire', "remove", g)
  BY <1>1, <1>2, <1>5 DEF RegistryInv, Announced
<1>9. Known \subseteq Outputs /\ (On(wire, "done", None) <=> On(wire', "done", None))
  BY <1>5 DEF RegistryInv, Typed, RegistryTypeOK
<1>10. \A o \in Known : ToldBy(o, "wl")' = ToldBy(o, "wl") /\ ToldBy(o, "xdg")' = ToldBy(o, "xdg") /\ o # g
  BY <1>7, <1>8, <1>9 DEF ToldBy
<1> USE DEF compositorVars
<1>11. Typed'
  <2>1. \A o \in Known' : outputs'[o] \in Info
    BY <1>7 DEF RegistryInv, Typed, Untold, Info
  <2>2. \A o \in Known' : outputs'[o].wl \in Places \cup {None} /\ outputs'[o].xdg \in Places \cup {None}
    BY <2>1 DEF Info
  <2> QED BY <1>1, <1>6, <1>7, <1>9, <2>1, <2>2 DEF RegistryInv, Typed, RegistryTypeOK, Noted
<1>12. Dealt'
  BY <1>1, <1>4, <1>5, <1>6 DEF RegistryInv, Dealt, Apart
<1>13. Started'
  BY <1>1, <1>6, <1>7 DEF RegistryInv, Started
<1>14. OneSync'
  BY <1>5, <1>6 DEF RegistryInv, OneSync
<1>15. Announced'
  BY <1>1, <1>4, <1>5, <1>7, <1>8 DEF RegistryInv, Announced
<1>16. Asked'
  BY <1>1, <1>4, <1>5, <1>6, <1>7, <1>8 DEF RegistryInv, Asked
<1>17. Placed'
  <2>1. g \in Outputs /\ g \in present => /\ ~On(wire', "wl", g) /\ ~On(wire', "xdg", g)
                                          /\ <<g, "wl">> \notin proxies /\ <<g, "xdg">> \notin proxies
    BY <1>5, <1>8 DEF RegistryInv, Asked
  <2>2. <<g, "wl">> \in proxies \/ <<g, "xdg">> \in proxies => g \in present
    <3>1. <<g, "wl">>[1] = g /\ <<g, "xdg">>[1] = g
      OBVIOUS
    <3> QED BY <3>1 DEF RegistryInv, Dealt
  <2>3. g \in Known' => ToldBy(g, "wl")' = None /\ ToldBy(g, "xdg")' = None
    BY <1>7 DEF ToldBy, Untold
  <2>4. \A o \in Outputs : o # g => (o \in Known' <=> o \in Known)
    BY <1>7
  <2>5. \A o \in Outputs : <<o, "wl">> \in proxies \/ <<o, "xdg">> \in proxies => o \in Known /\ o # g
    <3>1. \A o \in Outputs : <<o, "wl">>[1] = o /\ <<o, "xdg">>[1] = o
      OBVIOUS
    <3> QED BY <3>1, <1>8 DEF RegistryInv, Dealt, Asked
  <2> QED BY <1>1, <1>5, <1>7, <1>8, <1>10, <2>1, <2>3, <2>4, <2>5 DEF RegistryInv, Placed
<1>18. OfFirst'
  BY <1>1, <1>5, <1>6, <1>7, <1>8 DEF RegistryInv, OfFirst, Untold
<1>19. AllDue'
  <2>1. opening \in {"second", "open"} => g # XDG
    BY <1>1, <1>2 DEF RegistryInv, OfFirst
  <2>2. XDG \in has' => XDG \in has \/ g = XDG
    BY <1>7 DEF Noted
  <2>3. \A o \in Known' \cap early' : o \in Known \cap early
    BY <1>7, <1>8
  <2>4. ASSUME NEW o \in Known, NEW j \in {"wl", "xdg"}, NEW a, Due(o, j, a) PROVE Due(o, j, a)'
    BY <1>5, <1>6, <1>9, <1>10, <2>4 DEF Due
  <2> QED BY <1>6, <1>7, <1>10, <2>1, <2>2, <2>3, <2>4 DEF RegistryInv, AllDue
<1>20. OneSeat'
  <2>1. None \notin Seats
    BY RegistryAssumption DEF Globals
  <2>2. capable' \in {seat', None}
    BY <1>7 DEF RegistryInv, OneSeat
  <2>3. ASSUME NEW s \in Seats, On(requests', "bind", s), s \in present' PROVE seat' = s
    BY <1>1, <1>6, <1>7, <2>1, <2>3 DEF RegistryInv, OneSeat
  <2> QED BY <1>5, <1>7, <2>1, <2>2, <2>3 DEF RegistryInv, OneSeat
<1> QED BY <1>11, <1>12, <1>13, <1>14, <1>15, <1>16, <1>17, <1>18, <1>19, <1>20 DEF RegistryInv

\* What is removed told all it had to say (handleRegistryGlobalRemove).
LEMMA RemoveInv ==
  ASSUME RegistryInv, DispatchOnce, NEW g, Head(wire).kind = "remove", Head(wire).of = g, HandleGlobalRemove(g)
  PROVE  RegistryInv'
<1> DEFINE e == Head(wire)
<1>1. /\ served = TRUE /\ e \in Messages /\ opening \in {"first", "second", "open"}
      /\ wire \in Seq(Messages) /\ wire' \in Seq(Messages) /\ Drops(wire', wire, e)
      /\ requests \in Seq(Requests)
      /\ \A j, h : Is(e, j, h) <=> j = e.kind /\ h = e.of
      /\ On(wire, e.kind, e.of) /\ e.of \in Globals \cup {None}
      /\ e.of # None => e.of \in present \cup gone
      /\ UNCHANGED compositorVars /\ proxies' = proxies
  BY Dispatching
<1>2. e.kind = "remove" /\ e.of = g
  OBVIOUS
<1> HIDE DEF e
<1>3. g \in Globals /\ g # None /\ g \in Outputs \cup Seats
  BY <1>1, <1>2, RegistryAssumption DEF Messages, Globals
<1>4. g \in gone /\ g \notin present /\ ~(g \in Outputs /\ On(wire, "global", g))
      /\ ~(g \in Seats /\ On(wire, "caps", g))
  <2>1. g \in gone /\ g \notin present
    BY <1>1, <1>2, <1>3 DEF RegistryInv, Dealt
  <2>2. Is(e, "remove", g)
    BY <1>1, <1>2
  <2>3. \A j : Ordered(wire, j, g, "remove", g) => ~On(wire, j, g)
    BY <1>1, <2>2 DEF Drops
  <2> QED BY <2>1, <2>3 DEF RegistryInv, Announced, OneSeat
<1>5. /\ \A j, h : On(wire, j, h) <=> (j = "remove" /\ h = g) \/ On(wire', j, h)
      /\ \A j, h : Once(wire, j, h) => Once(wire', j, h)
      /\ \A j, h, j2, h2 : Ordered(wire, j, h, j2, h2) => Ordered(wire', j, h, j2, h2)
      /\ \A j, h, p : LastSays(wire, j, h, p) => LastSays(wire', j, h, p)
      /\ \A j, h, j2, h2 : Ahead(wire, j, h, j2, h2) /\ (j # "remove" \/ h # g) => Ahead(wire', j, h, j2, h2)
  BY <1>1, <1>2 DEF Drops
<1>6. /\ UNCHANGED <<requests, opening, has, bindErr, early>>
      /\ capable' = (IF g = seat THEN None ELSE capable)
      /\ seat' = (IF g = seat THEN None ELSE seat)
      /\ Known' = Known \ {g}
      /\ \A o \in Known' : outputs'[o] = outputs[o]
  BY DEF HandleGlobalRemove, WithoutOutput, WithoutCapable, Known
<1>7. Known \subseteq Outputs /\ (On(wire, "done", None) <=> On(wire', "done", None))
  BY <1>3, <1>5 DEF RegistryInv, Typed, RegistryTypeOK
<1>8. \A o \in Known' : ToldBy(o, "wl")' = ToldBy(o, "wl") /\ ToldBy(o, "xdg")' = ToldBy(o, "xdg") /\ o # g
  BY <1>6 DEF ToldBy
<1> USE DEF compositorVars
<1>9. Typed'
  BY <1>1, <1>6, <1>7 DEF RegistryInv, Typed, RegistryTypeOK
<1>10. Dealt'
  BY <1>1, <1>5, <1>6 DEF RegistryInv, Dealt, Apart
<1>11. Started'
  BY <1>1, <1>6 DEF RegistryInv, Started
<1>12. OneSync'
  BY <1>5, <1>6 DEF RegistryInv, OneSync
<1>13. Announced'
  <2>1. \A o \in Outputs : On(wire', "global", o) => o # g
    BY <1>4, <1>5
  <2>2. \A o \in Outputs : o # g => (On(wire, "remove", o) <=> On(wire', "remove", o))
    BY <1>5
  <2>3. \A o \in Outputs : On(wire, "global", o) <=> On(wire', "global", o)
    BY <1>5
  <2> QED BY <1>1, <1>4, <1>5, <1>6, <2>1, <2>2, <2>3 DEF RegistryInv, Announced
<1>14. Asked'
  BY <1>1, <1>4, <1>5, <1>6 DEF RegistryInv, Asked
<1>15. Placed'
  <2>1. \A o \in Outputs : o \in present => (o \in Known' <=> o \in Known)
    BY <1>4, <1>6
  <2>2. \A o \in Outputs : <<o, "wl">> \in proxies \/ <<o, "xdg">> \in proxies => o \in Known'
    <3>1. \A o \in Outputs : <<o, "wl">>[1] = o /\ <<o, "xdg">>[1] = o
      OBVIOUS
    <3>2. \A o \in Outputs : <<o, "wl">> \in proxies \/ <<o, "xdg">> \in proxies => o \in present
      BY <3>1 DEF RegistryInv, Dealt
    <3> QED BY <2>1, <3>2 DEF RegistryInv, Asked
  <2>3. \A k \in {"wl", "xdg"} : \A o : On(wire', k, o) <=> On(wire, k, o)
    BY <1>5
  <2> QED BY <1>1, <1>5, <1>8, <2>1, <2>2, <2>3 DEF RegistryInv, Placed
<1>16. OfFirst'
  BY <1>1, <1>5, <1>6 DEF RegistryInv, OfFirst
<1>17. AllDue'
  <2>1. ASSUME NEW o \in Known', NEW j \in {"wl", "xdg"}, NEW a, Due(o, j, a) PROVE Due(o, j, a)'
    BY <1>5, <1>6, <1>7, <1>8, <2>1 DEF Due
  <2> QED BY <1>6, <1>8, <2>1 DEF RegistryInv, AllDue
<1>18. OneSeat'
  <2>1. None \notin Seats
    BY RegistryAssumption DEF Globals
  <2> QED BY <1>1, <1>4, <1>5, <1>6, <2>1 DEF RegistryInv, OneSeat
<1> QED BY <1>9, <1>10, <1>11, <1>12, <1>13, <1>14, <1>15, <1>16, <1>17, <1>18 DEF RegistryInv

\* What an output or the seat tells is its state unless more of it is coming
\* (handleOutputGeometry and the rest, handleSeatCapabilities).
LEMMA InfoInv ==
  ASSUME RegistryInv, DispatchOnce, NEW e, e = Head(wire), e.kind \in {"wl", "xdg", "caps", "uncaps"}, HandleInfo(e)
  PROVE  RegistryInv'
<1>1. /\ served = TRUE /\ e \in Messages /\ opening \in {"first", "second", "open"}
      /\ wire \in Seq(Messages) /\ wire' \in Seq(Messages) /\ Drops(wire', wire, e)
      /\ requests \in Seq(Requests)
      /\ \A j, h : Is(e, j, h) <=> j = e.kind /\ h = e.of
      /\ On(wire, e.kind, e.of) /\ e.of \in Globals \cup {None}
      /\ e.of # None => e.of \in present \cup gone
      /\ UNCHANGED compositorVars /\ proxies' = proxies
  BY Dispatching
<1>2. /\ e.of \in Globals /\ e.of # None
      /\ e.kind \in {"wl", "xdg"} => e.of \in Outputs /\ e.at \in Places
      /\ e.kind \in {"caps", "uncaps"} => e.of \in Seats /\ e.of \notin Outputs
  BY <1>1, RegistryAssumption DEF Messages
<1>3. Known \subseteq Outputs /\ \A o \in Known : outputs[o] \in Info
  BY DEF RegistryInv, Typed, RegistryTypeOK
<1>4. /\ UNCHANGED <<requests, opening, has, seat, bindErr, early>>
      /\ Known' = Known
      /\ capable' = IF e.kind = "caps" THEN e.of ELSE IF e.kind = "uncaps" THEN None ELSE capable
      /\ \A o \in Known : outputs'[o] =
            IF o # e.of \/ e.kind \in {"caps", "uncaps"} THEN outputs[o]
            ELSE IF e.kind = "wl" THEN [outputs[o] EXCEPT !.wl = e.at] ELSE [outputs[o] EXCEPT !.xdg = e.at]
  <2>1. /\ UNCHANGED <<requests, opening, has, seat, bindErr, early>>
        /\ Known' = Known
    BY DEF HandleInfo, Known
  <2>2. outputs' = [o \in Known |-> IF o # e.of THEN outputs[o]
                                   ELSE CASE e.kind = "wl" -> [outputs[o] EXCEPT !.wl = Told(@, e.at)]
                                          [] e.kind = "xdg" -> [outputs[o] EXCEPT !.xdg = Told(@, e.at)]
                                          [] OTHER -> outputs[o]]
    BY DEF HandleInfo
  <2>3. CASE e.kind = "wl"
    <3>1. capable' = capable
      BY <2>3, Zenon DEF HandleInfo
    <3>2. \A o \in Known : o = e.of => outputs'[o] = [outputs[o] EXCEPT !.wl = e.at]
      BY <2>2, <2>3 DEF Told
    <3> QED BY <2>1, <2>2, <2>3, <3>1, <3>2
  <2>4. CASE e.kind = "xdg"
    <3>1. capable' = capable
      BY <2>4, Zenon DEF HandleInfo
    <3>2. \A o \in Known : o = e.of => outputs'[o] = [outputs[o] EXCEPT !.xdg = e.at]
      BY <2>2, <2>4 DEF Told
    <3> QED BY <2>1, <2>2, <2>4, <3>1, <3>2
  <2>5. CASE e.kind = "caps"
    <3>1. capable' = e.of
      BY <2>5, Zenon DEF HandleInfo
    <3> QED BY <1>2, <1>3, <2>1, <2>2, <2>5, <3>1
  <2>6. CASE e.kind = "uncaps"
    <3>1. capable' = None
      BY <2>6, Zenon DEF HandleInfo
    <3> QED BY <1>2, <1>3, <2>1, <2>2, <2>6, <3>1
  <2> QED BY <2>3, <2>4, <2>5, <2>6
<1>5. /\ \A j, h : On(wire, j, h) <=> (j = e.kind /\ h = e.of) \/ On(wire', j, h)
      /\ \A j, h : Once(wire, j, h) => Once(wire', j, h)
      /\ \A j, h, j2, h2 : Ordered(wire, j, h, j2, h2) => Ordered(wire', j, h, j2, h2)
      /\ \A j, h, p : LastSays(wire, j, h, p) => LastSays(wire', j, h, p)
      /\ \A p : LastSays(wire, e.kind, e.of, p) /\ ~On(wire', e.kind, e.of) => e.at = p
      /\ \A j, h, j2, h2 : Ahead(wire, j, h, j2, h2) => (j = e.kind /\ h = e.of) \/ Ahead(wire', j, h, j2, h2)
  BY <1>1 DEF Drops
<1>6. \A o \in Known, k \in {"wl", "xdg"} :
        ToldBy(o, k)' = IF k = e.kind /\ o = e.of THEN e.at ELSE ToldBy(o, k)
  BY <1>3, <1>4 DEF ToldBy, Info
<1>7. None \notin Places
  BY RegistryAssumption
<1> USE DEF compositorVars
<1>8. Typed'
  <2>1. \A o \in Known' : outputs'[o] \in Info
    BY <1>2, <1>3, <1>4 DEF Info
  <2>2. \A o \in Known' : outputs'[o].wl \in Places \cup {None} /\ outputs'[o].xdg \in Places \cup {None}
    BY <2>1 DEF Info
  <2>3. capable' \in Seats \cup {None}
    BY <1>2, <1>4 DEF RegistryInv, Typed, RegistryTypeOK
  <2> QED BY <1>1, <1>4, <2>1, <2>2, <2>3 DEF RegistryInv, Typed, RegistryTypeOK
<1>9. Dealt'
  BY <1>1, <1>4, <1>5 DEF RegistryInv, Dealt, Apart
<1>10. Started'
  BY <1>1, <1>4 DEF RegistryInv, Started
<1>11. OneSync'
  BY <1>4, <1>5 DEF RegistryInv, OneSync
<1>12. Announced'
  <2>1. \A o : (On(wire, "global", o) <=> On(wire', "global", o)) /\ (On(wire, "remove", o) <=> On(wire', "remove", o))
    BY <1>5
  <2> QED BY <1>1, <1>4, <1>5, <2>1 DEF RegistryInv, Announced
<1>13. Asked'
  <2>1. \A o \in Outputs, k \in {"wl", "xdg", "remove"} : On(wire', k, o) => On(wire, k, o)
    BY <1>5
  <2>2. ASSUME NEW o \in Known, On(wire, "wl", o) PROVE On(wire', "wl", o) \/ ToldBy(o, "wl")' # None
    BY <1>2, <1>5, <1>6, <1>7, <2>2
  <2>3. \A o \in Known : ToldBy(o, "wl") # None => ToldBy(o, "wl")' # None
    BY <1>2, <1>6, <1>7
  <2>4. \A o \in Known : On(wire, "remove", o) => On(wire', "remove", o)
    BY <1>5
  <2>5. \A o \in Known : (ToldBy(o, "wl") = outputs[o].wl) /\ (ToldBy(o, "wl")' = outputs'[o].wl)
    BY DEF ToldBy
  <2> QED BY <1>1, <1>4, <2>1, <2>2, <2>3, <2>4, <2>5 DEF RegistryInv, Asked
<1>14. Placed'
  <2> SUFFICES ASSUME NEW o \in Outputs, NEW k \in {"wl", "xdg"}
               PROVE  /\ o \in Known /\ o \in present /\ (ToldBy(o, k)' # None \/ On(wire', k, o)) => <<o, k>> \in proxies
                      /\ <<o, k>> \in proxies => /\ LastSays(wire', k, o, place[o])
                                                 /\ ~On(wire', k, o) => ToldBy(o, k)' = place[o]
    BY <1>1, <1>4 DEF Placed
  <2>1. /\ o \in Known /\ o \in present /\ (ToldBy(o, k) # None \/ On(wire, k, o)) => <<o, k>> \in proxies
        /\ <<o, k>> \in proxies => /\ LastSays(wire, k, o, place[o])
                                   /\ ~On(wire, k, o) => ToldBy(o, k) = place[o]
    BY DEF RegistryInv, Placed
  <2>2. <<o, k>> \in proxies => o \in Known
    <3>1. <<o, k>>[1] = o
      OBVIOUS
    <3> QED BY <3>1 DEF RegistryInv, Dealt, Asked
  <2> QED BY <1>5, <1>6, <2>1, <2>2
<1>15. OfFirst'
  <2>1. \A o \in Known : (ToldBy(o, "xdg") = outputs[o].xdg) /\ (ToldBy(o, "xdg")' = outputs'[o].xdg)
    BY DEF ToldBy
  <2> QED BY <1>1, <1>3, <1>4, <1>5, <1>6, <2>1 DEF RegistryInv, OfFirst
<1>16. AllDue'
  <2>1. \A o \in Known, j \in {"wl", "xdg"} : ToldBy(o, j) # None => ToldBy(o, j)' # None
    BY <1>2, <1>6, <1>7
  <2>2. ASSUME NEW o \in Known, NEW j \in {"wl", "xdg"}, NEW a, Due(o, j, a) PROVE Due(o, j, a)'
    <3>1. CASE Ahead(wire, j, o, "done", None)
      BY <1>2, <1>5, <1>6, <1>7, <3>1 DEF Due
    <3>2. CASE Ahead(wire, "remove", o, "done", None)
      BY <1>5, <3>2 DEF Due
    <3> QED BY <1>4, <1>5, <2>1, <2>2, <3>1, <3>2 DEF Due
  <2> QED BY <1>4, <2>1, <2>2 DEF RegistryInv, AllDue
<1>17. OneSeat'
  BY <1>1, <1>2, <1>4, <1>5 DEF RegistryInv, OneSeat
<1> QED BY <1>8, <1>9, <1>10, <1>11, <1>12, <1>13, <1>14, <1>15, <1>16, <1>17 DEF RegistryInv

\* At the end of the first roundtrip the client asks for some zxdg_outputs.
AsksFor(pending) ==
  requests' = requests \o SetToSeq({Request("xdg", o) : o \in pending}) \o <<Request("sync", None)>>

\* What is asked for at the end of the first roundtrip: these zxdg_outputs,
\* then the second sync.
LEMMA Asking ==
  ASSUME Typed, IsFiniteSet(Outputs), ~On(requests, "sync", None), NEW pending \in SUBSET PendingXDG,
         AsksFor(pending)
  PROVE  /\ requests' \in Seq(Requests) /\ Once(requests', "sync", None)
         /\ \A k, h : On(requests', k, h) <=> \/ On(requests, k, h)
                                              \/ k = "xdg" /\ h \in pending
                                              \/ k = "sync" /\ h = None
         /\ \A k, h : /\ On(requests, k, h) \/ (k = "xdg" /\ h \in pending)
                      /\ k # "sync"
                      => Ahead(requests', k, h, "sync", None)
<1> DEFINE S == {Request("xdg", o) : o \in pending}
           t == SetToSeq(S)
           m == Request("sync", None)
           asked == requests \o t
<1>1. requests \in Seq(Requests) /\ Known \subseteq Outputs /\ pending \subseteq Outputs
  BY DEF Typed, RegistryTypeOK, PendingXDG
<1>2. \A o \in Outputs : /\ Request("xdg", o) \in Requests
                         /\ \A k, h : Is(Request("xdg", o), k, h) <=> k = "xdg" /\ h = o
  <2> TAKE o \in Outputs
  <2>1. o \in Globals \cup {None} /\ o # None
    BY RegistryAssumption DEF Globals
  <2> QED BY <2>1, RequestMade DEF RequestKinds
<1>3. m \in Requests /\ \A k, h : Is(m, k, h) <=> k = "sync" /\ h = None
  BY RequestMade DEF RequestKinds
<1>4. \A r : r \in S <=> \E o \in pending : r = Request("xdg", o)
  OBVIOUS
<1>5. S \in SUBSET Requests
  BY <1>1, <1>2, <1>4
<1>6. IsFiniteSet(S)
  <2> DEFINE f == [o \in pending |-> Request("xdg", o)]
  <2>1. IsFiniteSet(pending)
    BY <1>1, FS_Subset
  <2>2. f \in Surjection(pending, S)
    BY DEF Surjection
  <2> HIDE DEF f, S
  <2> QED BY <2>1, <2>2, FS_Surjection
<1> HIDE DEF S, m
<1>7. \A k, h : (\E r \in S : Is(r, k, h)) <=> (k = "xdg" /\ h \in pending)
  <2>1. \A o \in pending : \A k, h : Is(Request("xdg", o), k, h) <=> k = "xdg" /\ h = o
    BY <1>1, <1>2
  <2> QED BY <1>4, <2>1
<1>8. t \in Seq(Requests) /\ \A k, h : On(t, k, h) <=> (k = "xdg" /\ h \in pending)
  <2>1. t \in Seq(Requests) /\ \A k, h : On(t, k, h) <=> \E r \in S : Is(r, k, h)
    BY <1>5, <1>6, Listed
  <2> QED BY <1>7, <2>1
<1>9. requests' = asked \o <<m>>
  BY DEF AsksFor, S, m
<1> HIDE DEF t
<1>10. asked \in Seq(Requests) /\ \A k, h : On(asked, k, h) <=> On(requests, k, h) \/ (k = "xdg" /\ h \in pending)
  <2>1. asked \in Seq(Requests)
    BY <1>1, <1>8
  <2>2. \A k, h : On(asked, k, h) <=> On(requests, k, h) \/ On(t, k, h)
    BY <1>1, <1>8, Joined
  <2> QED BY <1>8, <2>1, <2>2
<1> HIDE DEF asked
<1>11. requests' = Append(asked, m)
  BY <1>3, <1>9, <1>10, OneMore
<1>12. requests' \in Seq(Requests) /\ Adds(requests', asked, m)
  BY <1>3, <1>10, <1>11, Gets
<1>13. ~On(asked, "sync", None)
  BY <1>10
<1>14. \A k, h : On(asked, k, h) => Ahead(asked, k, h, "sync", None)
  BY <1>13, AheadOfNothing
<1>15. Once(requests', "sync", None)
  <2>1. Once(asked, "sync", None)
    BY <1>13 DEF On, Once
  <2> QED BY <1>12, <1>13, <2>1 DEF Adds
<1> QED BY <1>3, <1>10, <1>12, <1>14, <1>15 DEF Adds

\* After the first roundtrip every known output has told, was asked or is gone,
\* and whatever it still has to say comes before the second sync is answered.
LEMMA FirstDoneInv ==
  ASSUME RegistryInv, DispatchOnce, Head(wire).kind = "done", FirstDone
  PROVE  RegistryInv'
<1> DEFINE e == Head(wire)
<1>1. /\ served = TRUE /\ e \in Messages /\ opening \in {"first", "second", "open"}
      /\ wire \in Seq(Messages) /\ wire' \in Seq(Messages) /\ Drops(wire', wire, e)
      /\ requests \in Seq(Requests)
      /\ \A j, h : Is(e, j, h) <=> j = e.kind /\ h = e.of
      /\ On(wire, e.kind, e.of) /\ e.of \in Globals \cup {None}
      /\ e.of # None => e.of \in present \cup gone
      /\ UNCHANGED compositorVars /\ proxies' = proxies
  BY Dispatching
<1>2. e.kind = "done" /\ e.of = None
  BY <1>1 DEF Messages
<1> HIDE DEF e
<1>3. /\ \A j, h : On(wire, j, h) <=> (j = "done" /\ h = None) \/ On(wire', j, h)
      /\ \A j, h : Once(wire, j, h) => Once(wire', j, h)
      /\ \A j, h, j2, h2 : Ordered(wire, j, h, j2, h2) => Ordered(wire', j, h, j2, h2)
      /\ \A j, h, p : LastSays(wire, j, h, p) => LastSays(wire', j, h, p)
      /\ Once(wire, "done", None) => ~On(wire', "done", None)
      /\ \A j, h : Ordered(wire, j, h, "done", None) => ~On(wire, j, h)
  BY <1>1, <1>2 DEF Drops
<1>4. /\ ~On(wire', "done", None) /\ ~On(requests, "sync", None)
      /\ ~On(wire', "global", XDG)
  BY <1>1, <1>2, <1>3 DEF RegistryInv, OneSync, OfFirst
<1>5. /\ opening = "first" /\ opening' = "second" /\ early' = Known
      /\ UNCHANGED <<has, seat, capable, outputs>>
  BY DEF FirstDone
<1>0. PICK pending \in SUBSET PendingXDG : AsksFor(pending) /\ bindErr' = (bindErr \/ pending # PendingXDG)
  BY DEF FirstDone, AsksFor
<1>6. early = {} /\ Known \subseteq Outputs /\ Known \subseteq present \cup gone
  BY <1>5 DEF RegistryInv, OfFirst, Typed, RegistryTypeOK, Announced
<1>7. /\ requests' \in Seq(Requests) /\ Once(requests', "sync", None)
      /\ \A k, h : On(requests', k, h) <=> \/ On(requests, k, h)
                                           \/ k = "xdg" /\ h \in pending
                                           \/ k = "sync" /\ h = None
      /\ \A k, h : /\ On(requests, k, h) \/ (k = "xdg" /\ h \in pending)
                   /\ k # "sync"
                   => Ahead(requests', k, h, "sync", None)
  <2>1. IsFiniteSet(Outputs)
    <3>1. Outputs \subseteq Globals
      BY DEF Globals
    <3> QED BY <3>1, RegistryAssumption, FS_Subset
  <2>2. Typed
    BY DEF RegistryInv
  <2> QED BY <1>0, <1>4, <2>1, <2>2, Asking
<1>8. /\ pending \subseteq Known /\ bindErr \in BOOLEAN /\ bindErr' \in BOOLEAN
      /\ bindErr => bindErr'
      /\ ~bindErr' => ~bindErr /\ (XDG \in has => pending = Known)
  BY <1>0 DEF PendingXDG, RegistryInv, Typed, RegistryTypeOK
<1>9. Known' = Known /\ \A o, k : ToldBy(o, k)' = ToldBy(o, k)
  BY <1>5 DEF Known, ToldBy
<1>10. None \notin Globals
  BY RegistryAssumption
<1> USE DEF compositorVars
<1>11. Typed'
  BY <1>1, <1>5, <1>6, <1>7, <1>8, <1>9 DEF RegistryInv, Typed, RegistryTypeOK
<1>12. Dealt'
  BY <1>1, <1>3, <1>6, <1>7, <1>8, <1>10 DEF RegistryInv, Dealt, Apart, RequestKinds
<1>13. Started'
  BY <1>1, <1>5, <1>7 DEF RegistryInv, Started
<1>14. OneSync'
  BY <1>4, <1>7 DEF OneSync, RegistryInv, Once, On
<1>15. Announced'
  <2>1. \A j, o : j # "done" => (On(wire', j, o) <=> On(wire, j, o))
    BY <1>3
  <2> QED BY <1>1, <1>3, <1>5, <1>6, <1>9, <2>1 DEF RegistryInv, Announced
<1>16. Asked'
  <2> SUFFICES ASSUME NEW o \in Outputs
               PROVE  /\ o \in present /\ \/ On(requests', "bind", o) \/ On(requests', "xdg", o)
                                          \/ On(wire', "wl", o) \/ On(wire', "xdg", o)
                                          \/ <<o, "wl">> \in proxies \/ <<o, "xdg">> \in proxies
                         => o \in Known
                      /\ o \in Known => \/ bindErr' \/ outputs[o].wl # None
                                        \/ On(requests', "bind", o) \/ On(wire', "wl", o) \/ On(wire', "remove", o)
    <3>1. outputs' = outputs /\ present' = present /\ proxies' = proxies
      BY <1>1, <1>5
    <3> QED BY <1>9, <3>1, Zenon DEF Asked
  <2>1. \A j \in {"wl", "xdg", "remove"} : On(wire', j, o) <=> On(wire, j, o)
    BY <1>3
  <2>2. /\ On(requests', "bind", o) <=> On(requests, "bind", o)
        /\ On(requests', "xdg", o) => On(requests, "xdg", o) \/ o \in Known
    BY <1>7, <1>8
  <2> QED BY <1>8, <2>1, <2>2 DEF RegistryInv, Asked
<1>17. Placed'
  BY <1>1, <1>3, <1>9 DEF RegistryInv, Placed
<1>18. OfFirst'
  BY <1>1, <1>3, <1>4, <1>5, <1>6, <1>7, <1>8, <1>9 DEF RegistryInv, OfFirst
<1>19. AllDue'
  <2> SUFFICES ASSUME ~bindErr', NEW o \in Known
               PROVE  Due(o, "wl", "bind")' /\ (XDG \in has => Due(o, "xdg", "xdg")')
    BY <1>5, <1>9 DEF AllDue
  <2>1. \/ ToldBy(o, "wl") # None
        \/ On(requests, "bind", o) \/ On(wire', "wl", o) \/ On(wire', "remove", o)
    BY <1>3, <1>6, <1>8 DEF RegistryInv, Asked, ToldBy
  <2>2. Due(o, "wl", "bind")'
    <3>1. \A j : On(wire', j, o) => Ahead(wire', j, o, "done", None)
      BY <1>4, AheadOfNothing
    <3> QED BY <1>4, <1>7, <1>9, <2>1, <3>1 DEF Due
  <2>3. XDG \in has => Due(o, "xdg", "xdg")'
    BY <1>4, <1>7, <1>8 DEF Due
  <2> QED BY <2>2, <2>3
<1>20. OneSeat'
  BY <1>1, <1>3, <1>5, <1>7 DEF RegistryInv, OneSeat
<1> QED BY <1>11, <1>12, <1>13, <1>14, <1>15, <1>16, <1>17, <1>18, <1>19, <1>20 DEF RegistryInv

\* When that answer is handled nothing is ahead of it, so what is due was told.
LEMMA SecondDoneInv ==
  ASSUME RegistryInv, DispatchOnce, Head(wire).kind = "done", SecondDone
  PROVE  RegistryInv'
<1> DEFINE e == Head(wire)
<1>1. /\ served = TRUE /\ e \in Messages /\ opening \in {"first", "second", "open"}
      /\ wire \in Seq(Messages) /\ wire' \in Seq(Messages) /\ Drops(wire', wire, e)
      /\ requests \in Seq(Requests)
      /\ \A j, h : Is(e, j, h) <=> j = e.kind /\ h = e.of
      /\ On(wire, e.kind, e.of) /\ e.of \in Globals \cup {None}
      /\ e.of # None => e.of \in present \cup gone
      /\ UNCHANGED compositorVars /\ proxies' = proxies
  BY Dispatching
<1>2. e.kind = "done" /\ e.of = None
  BY <1>1 DEF Messages
<1> HIDE DEF e
<1>3. /\ \A j, h : On(wire, j, h) <=> (j = "done" /\ h = None) \/ On(wire', j, h)
      /\ \A j, h : Once(wire, j, h) => Once(wire', j, h)
      /\ \A j, h, j2, h2 : Ordered(wire, j, h, j2, h2) => Ordered(wire', j, h, j2, h2)
      /\ \A j, h, p : LastSays(wire, j, h, p) => LastSays(wire', j, h, p)
      /\ \A j, h : Ordered(wire, j, h, "done", None) => ~On(wire, j, h)
      /\ \A j, h : ~Ahead(wire, j, h, "done", None)
  BY <1>1, <1>2 DEF Drops
<1>4. ~On(wire', "global", XDG) /\ On(wire, "done", None)
  BY <1>1, <1>2, <1>3 DEF RegistryInv, OfFirst
<1>5. /\ opening = "second" /\ opening' = IF Valid THEN "open" ELSE "failed"
      /\ UNCHANGED <<requests, has, seat, capable, outputs, bindErr, early>>
  BY DEF SecondDone
<1>6. Known' = Known /\ \A o, k : ToldBy(o, k)' = ToldBy(o, k)
  BY <1>5 DEF Known, ToldBy
<1> USE DEF compositorVars
<1>7. Typed'
  BY <1>1, <1>5, <1>6 DEF RegistryInv, Typed, RegistryTypeOK
<1>8. Dealt'
  BY <1>1, <1>3, <1>5 DEF RegistryInv, Dealt, Apart
<1>9. Started'
  BY <1>1, <1>5 DEF RegistryInv, Started
<1>10. OneSync'
  BY <1>3, <1>5 DEF RegistryInv, OneSync
<1>11. Announced'
  <2>1. \A j, o : j # "done" => (On(wire', j, o) <=> On(wire, j, o))
    BY <1>3
  <2> QED BY <1>1, <1>3, <1>5, <1>6, <2>1 DEF RegistryInv, Announced
<1>12. Asked'
  <2> SUFFICES ASSUME NEW o \in Outputs
               PROVE  /\ o \in present /\ \/ On(requests, "bind", o) \/ On(requests, "xdg", o)
                                          \/ On(wire', "wl", o) \/ On(wire', "xdg", o)
                                          \/ <<o, "wl">> \in proxies \/ <<o, "xdg">> \in proxies
                         => o \in Known
                      /\ o \in Known => \/ bindErr \/ outputs[o].wl # None
                                        \/ On(requests, "bind", o) \/ On(wire', "wl", o) \/ On(wire', "remove", o)
    <3>1. /\ (bindErr' <=> bindErr) /\ outputs' = outputs /\ requests' = requests
          /\ present' = present /\ proxies' = proxies
      BY <1>1, <1>5
    <3> QED BY <1>6, <3>1, Zenon DEF Asked
  <2>1. \A j \in {"wl", "xdg", "remove"} : On(wire', j, o) <=> On(wire, j, o)
    BY <1>3
  <2> QED BY <2>1 DEF RegistryInv, Asked
<1>13. Placed'
  BY <1>1, <1>3, <1>6 DEF RegistryInv, Placed
<1>14. OfFirst'
  BY <1>1, <1>3, <1>4, <1>5, <1>6 DEF RegistryInv, OfFirst
<1>15. AllDue'
  <2>1. \A o, j, a : Due(o, j, a) => ToldBy(o, j) # None
    BY <1>3, <1>4 DEF Due
  <2>2. Valid => \A o \in Known \cap early : ToldBy(o, "wl") # None /\ (XDG \in has => ToldBy(o, "xdg") # None)
    BY <1>5, <2>1 DEF RegistryInv, AllDue, Valid
  <2>3. opening' = "open" => Valid
    BY <1>5
  <2>4. opening' # "second"
    BY <1>5
  <2> HIDE DEF Due
  <2> QED BY <1>5, <1>6, <2>2, <2>3, <2>4 DEF AllDue
<1>16. OneSeat'
  BY <1>1, <1>3, <1>5 DEF RegistryInv, OneSeat
<1> QED BY <1>7, <1>8, <1>9, <1>10, <1>11, <1>12, <1>13, <1>14, <1>15, <1>16 DEF RegistryInv

\* Whatever the message, the client keeps the invariant.
LEMMA DispatchOnceInv == ASSUME RegistryInv, DispatchOnce PROVE RegistryInv'
<1> DEFINE e == Head(wire)
<1>1. \/ e.kind = "global" /\ HandleGlobal(e.of)
      \/ e.kind = "remove" /\ HandleGlobalRemove(e.of)
      \/ e.kind \in {"wl", "xdg", "caps", "uncaps"} /\ HandleInfo(e)
      \/ e.kind = "done" /\ (FirstDone \/ SecondDone)
  BY DEF DispatchOnce
<1>2. CASE e.kind = "global" /\ HandleGlobal(e.of)
  BY <1>2, GlobalInv
<1>3. CASE e.kind = "remove" /\ HandleGlobalRemove(e.of)
  BY <1>3, RemoveInv
<1>4. CASE e.kind \in {"wl", "xdg", "caps", "uncaps"} /\ HandleInfo(e)
  BY <1>4, InfoInv
<1>5. CASE e.kind = "done" /\ FirstDone
  BY <1>5, FirstDoneInv
<1>6. CASE e.kind = "done" /\ SecondDone
  BY <1>6, SecondDoneInv
<1> QED BY <1>1, <1>2, <1>3, <1>4, <1>5, <1>6

\* The registry is asked for, and the first sync.
LEMMA ConnectInv == ASSUME RegistryInv, Connect PROVE RegistryInv'
<1> DEFINE r == Request("registry", None)
           m == Request("sync", None)
<1>1. /\ r \in Requests /\ \A k, h : Is(r, k, h) <=> k = "registry" /\ h = None
      /\ m \in Requests /\ \A k, h : Is(m, k, h) <=> k = "sync" /\ h = None
  BY RequestMade DEF RequestKinds
<1>2. /\ opening = "connect" /\ opening' = "first" /\ requests' = <<r, m>>
      /\ UNCHANGED <<compositorVars, proxies, wire, has, seat, capable, outputs, bindErr, early>>
  BY DEF Connect
<1>3. /\ served = FALSE /\ wire = <<>> /\ Known = {} /\ proxies = {} /\ has = {} /\ early = {}
      /\ seat = None /\ capable = None
  BY <1>2 DEF RegistryInv, Started, Typed, RegistryTypeOK
<1>4. /\ requests' \in Seq(Requests) /\ Once(requests', "sync", None)
      /\ \A k, h : On(requests', k, h) <=> k \in {"registry", "sync"} /\ h = None
  <2> HIDE DEF r, m
  <2>1. /\ requests' \in Seq(Requests) /\ DOMAIN requests' = {1, 2}
        /\ requests'[1] = r /\ requests'[2] = m
    BY <1>1, <1>2
  <2> QED BY <1>1, <2>1 DEF On, Once
<1>5. \A k, h : ~On(wire, k, h)
  <2>1. \A k, h : ~On(<<>>, k, h)
    BY Empty
  <2> QED BY <1>3, <2>1
<1>6. Known' = {} /\ None \notin Globals
  BY <1>2, <1>3, RegistryAssumption DEF Known
<1>7. None \notin Outputs \cup Seats
  BY <1>6 DEF Globals
<1> USE DEF compositorVars
<1>8. Typed'
  BY <1>2, <1>4, <1>6 DEF RegistryInv, Typed, RegistryTypeOK
<1>9. Dealt'
  BY <1>2, <1>4, <1>5, <1>6 DEF RegistryInv, Dealt, Apart
<1>10. Started'
  BY <1>2, <1>3, <1>6 DEF Started
<1>11. OneSync'
  BY <1>2, <1>4, <1>5 DEF RegistryInv, OneSync
<1>12. Announced'
  BY <1>2, <1>3, <1>5, <1>6 DEF RegistryInv, Announced
<1>13. Asked' /\ Placed'
  BY <1>2, <1>3, <1>4, <1>5, <1>6, <1>7 DEF Asked, Placed
<1>14. OfFirst' /\ AllDue'
  BY <1>2, <1>3, <1>4, <1>5, <1>6, <1>7 DEF RegistryInv, OfFirst, AllDue
<1>15. OneSeat'
  BY <1>2, <1>3, <1>4, <1>5, <1>7 DEF RegistryInv, OneSeat
<1> QED BY <1>8, <1>9, <1>10, <1>11, <1>12, <1>13, <1>14, <1>15 DEF RegistryInv

\* Giving up changes nothing but that.
LEMMA GiveUpInv == ASSUME RegistryInv, GiveUp PROVE RegistryInv'
<1>1. /\ opening \in {"first", "second"} /\ opening' = "failed"
      /\ UNCHANGED <<compositorVars, proxies, requests, wire, has, seat, capable, outputs, bindErr, early>>
  BY DEF GiveUp
<1>2. Known' = Known /\ \A o, k : ToldBy(o, k)' = ToldBy(o, k)
  BY <1>1 DEF Known, ToldBy
<1> USE DEF compositorVars
<1>3. Typed' /\ Dealt'
  BY <1>1, <1>2 DEF RegistryInv, Typed, RegistryTypeOK, Dealt, Apart
<1>4. Started' /\ OneSync'
  BY <1>1, <1>2 DEF RegistryInv, Started, OneSync, Request
<1>5. Announced' /\ Asked' /\ Placed'
  BY <1>1, <1>2 DEF RegistryInv, Announced, Asked, Placed
<1>6. OfFirst' /\ AllDue' /\ OneSeat'
  BY <1>1, <1>2 DEF RegistryInv, OfFirst, AllDue, OneSeat
<1> QED BY <1>3, <1>4, <1>5, <1>6 DEF RegistryInv

\* The inductive invariant holds in every reachable state.
THEOREM RegistryInvariant == RegistrySpec => []RegistryInv
<1>1. RegistryInit => RegistryInv
  BY InitInv
<1>2. RegistryInv /\ [RegistryNext]_registryVars => RegistryInv'
  <2> SUFFICES ASSUME RegistryInv, [RegistryNext]_registryVars PROVE RegistryInv'
    OBVIOUS
  <2>1. CASE Connect
    BY <2>1, ConnectInv
  <2>2. CASE DispatchOnce
    BY <2>2, DispatchOnceInv
  <2>3. CASE GiveUp
    BY <2>3, GiveUpInv
  <2>4. CASE ServeRequest
    BY <2>4, ServeRequestInv
  <2>5. ASSUME NEW g \in Outputs \cup Seats, Plug(g) PROVE RegistryInv'
    BY <2>5, PlugInv
  <2>6. ASSUME NEW g \in Outputs \cup Seats, Unplug(g) PROVE RegistryInv'
    BY <2>6, UnplugInv
  <2>7. ASSUME NEW o \in Outputs, NEW p \in Places, Move(o, p) PROVE RegistryInv'
    BY <2>7, MoveInv
  <2>8. CASE UNCHANGED registryVars
    <3>1. Known' = Known /\ \A o, k : ToldBy(o, k)' = ToldBy(o, k)
      BY <2>8 DEF Known, ToldBy, registryVars, clientVars
    <3> USE DEF registryVars, clientVars, compositorVars
    <3>2. Typed' /\ Dealt'
      BY <2>8, <3>1 DEF RegistryInv, Typed, RegistryTypeOK, Dealt, Apart
    <3>3. Started' /\ OneSync'
      BY <2>8, <3>1 DEF RegistryInv, Started, OneSync, Request
    <3>4. Announced' /\ Asked' /\ Placed'
      BY <2>8, <3>1 DEF RegistryInv, Announced, Asked, Placed
    <3>5. OfFirst' /\ AllDue' /\ OneSeat'
      BY <2>8, <3>1 DEF RegistryInv, OfFirst, AllDue, Due, OneSeat
    <3> QED BY <3>2, <3>3, <3>4, <3>5 DEF RegistryInv
  <2> QED BY <2>1, <2>2, <2>3, <2>4, <2>5, <2>6, <2>7, <2>8 DEF RegistryNext, Compositor
<1> QED BY <1>1, <1>2, PTL DEF RegistrySpec

\* When Open succeeds the outputs of the first roundtrip have told all there is
\* to tell, and the seat that has a keyboard and a pointer is the bound one.
THEOREM InformedAlways == RegistrySpec => []Informed
<1>1. RegistryInv => Informed
  BY DEF RegistryInv, AllDue, OneSeat, Informed, ToldBy
<1> QED BY <1>1, RegistryInvariant, PTL

\* Where wl_output tells names, OutputForMonitor never gives a monitor the
\* output of another one: an output without a name was not asked for its place.
THEOREM RightOutputAlways == RegistrySpec => []RightOutput
<1>1. RegistryInv => RightOutput
  <2> SUFFICES ASSUME RegistryInv, opening = "open", "wl" \in namers, NEW m \in present \cap Outputs
               PROVE  OutputForMonitor(m) \subseteq {m}
    BY DEF RightOutput
  <2>1. ASSUME NEW p \in Known, MatchesPlace(p, m) PROVE FALSE
    <3>1. outputs[p].wl = None /\ outputs[p].xdg # None
      BY <2>1 DEF MatchesPlace, Named, ExactSize
    <3>2. p \in early
      BY <3>1 DEF RegistryInv, OfFirst, Typed, RegistryTypeOK
    <3> QED BY <3>1, <3>2 DEF RegistryInv, AllDue, ToldBy
  <2> QED BY <2>1 DEF OutputForMonitor
<1> QED BY <1>1, RegistryInvariant, PTL

\* With nothing on its way the client knows the outputs there are, at their
\* places, and finds each for its monitor.
THEOREM MirrorsOutputsAlways == RegistrySpec => []MirrorsOutputs
<1>1. RegistryInv => MirrorsOutputs
  <2> SUFFICES ASSUME RegistryInv, Quiet PROVE MirrorsOutputs
    BY DEF MirrorsOutputs
  <2>1. \A k, g : ~On(wire, k, g) /\ ~On(requests, k, g)
    BY Empty DEF Quiet
  <2>2. served
    BY DEF RegistryInv, Started, Quiet
  <2>3. Known = present \cap Outputs
    BY <2>1, <2>2 DEF RegistryInv, Announced, Typed, RegistryTypeOK
  <2>4. None \notin Places /\ \A o \in Outputs : place[o] \in Places
    BY RegistryAssumption DEF RegistryInv, Typed, RegistryTypeOK
  <2>5. \A o \in Known : outputs[o].wl # None
    BY <2>1, <2>3 DEF RegistryInv, Asked, Quiet
  <2>6. \A o \in Known, k \in {"wl", "xdg"} : ToldBy(o, k) # None => ToldBy(o, k) = place[o]
    BY <2>1, <2>3 DEF RegistryInv, Placed
  <2>7. \A o \in Known : /\ outputs[o].wl = place[o]
                         /\ outputs[o].xdg \in {None, place[o]}
    BY <2>5, <2>6 DEF ToldBy
  <2>8. \A o \in Known : PlaceOf(o) = place[o]
    BY <2>7 DEF PlaceOf
  <2>9. \A o, p \in Known : place[o] = place[p] => o = p
    BY <2>3 DEF RegistryInv, Dealt, Apart
  <2>10. ASSUME NEW o \in Known, Named(o) \/ ExactSize(o) PROVE OutputForMonitor(o) = {o}
    <3>1. CASE Named(o)
      BY <3>1 DEF OutputForMonitor
    <3>2. CASE ~Named(o)
      <4>1. MatchesPlace(o, o)
        BY <2>8, <2>10, <3>2 DEF MatchesPlace
      <4>2. \A p \in Known : MatchesPlace(p, o) => p = o
        BY <2>8, <2>9 DEF MatchesPlace
      <4> QED BY <3>2, <4>1, <4>2 DEF OutputForMonitor
    <3> QED BY <3>1, <3>2
  <2> QED BY <2>3, <2>8, <2>10 DEF MirrorsOutputs
<1> QED BY <1>1, RegistryInvariant, PTL

\* The type invariant, in every reachable state.
THEOREM RegistryTyped == RegistrySpec => []RegistryTypeOK
<1>1. RegistryInv => RegistryTypeOK
  BY DEF RegistryInv, Typed
<1> QED BY <1>1, RegistryInvariant, PTL
=============================================================================
