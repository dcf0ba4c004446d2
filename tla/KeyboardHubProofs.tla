-------------------------- MODULE KeyboardHubProofs --------------------------
(***************************************************************************)
(* Proofs about KeyboardHub: for any number of subscriptions and events.   *)
(***************************************************************************)
EXTENDS KeyboardHub, SequenceTheorems, TLAPS

-----------------------------------------------------------------------------
(* The inductive invariant. *)

\* A keymap has a number, and nothing is numbered beyond what was sent.
Numbered ==
  /\ handler.event.kind = "keymap" => handler.event.of # None
  /\ \A i \in 1..Len(log) : log[i].kind = "keymap" => log[i].of # None

\* Whoever waits is subscribed, unless its queue has ended.
Registered ==
  /\ (freed => closed) /\ (closed => subscribers = {})
  /\ \A s \in Subscriptions :
       /\ s \in subscribers => pc[s] \in {"replay", "ready"}
       /\ pc[s] \in {"replay", "ready"} => s \in subscribers \cup ended
       /\ pc[s] = "none" => queue[s] = <<>>

\* Keymap k is in force after the first n events of q.
InForce(q, k, n) ==
  /\ k = None => \A i \in 1..n : q[i].kind # "keymap"
  /\ k # None => \E j \in 1..n : /\ q[j].kind = "keymap" /\ q[j].of = k
                                 /\ \A i \in (j + 1)..n : q[i].kind # "keymap"

\* What xkb has loaded is what the hub told last, up to the handler that is
\* about to tell it; and a key is named by it.
Loaded ==
  ~closed => /\ handler.at = "enqueue" /\ handler.event.kind = "keymap" => loaded = handler.event.of
             /\ ~(handler.at = "enqueue" /\ handler.event.kind = "keymap") => loaded = lastKeymap
             /\ handler.at = "enqueue" /\ handler.event.kind # "keymap"
                  => handler.event.of \in {None, lastKeymap}

\* The hub's memory, and what each key of the hub was named by.
Remembered ==
  /\ InForce(log, lastKeymap, Len(log))
  /\ \A i \in 1..Len(log) : log[i].kind = "key" /\ log[i].of # None => InForce(log, log[i].of, i - 1)
  /\ \A s \in Subscriptions : /\ since[s] <= Len(log)
                              /\ s \in subscribers \/ queue[s] # <<>> => InForce(log, replay[s], since[s])

\* What a queue holds, as SeesAll says, and when it holds a replay.
Straight(s, n) == queue[s] = Stretch(since[s], n)
Broken(s, m, n) == queue[s] = Stretch(since[s], m) \o <<Event("replay", replay[s])>> \o Stretch(m, n)
Holds ==
  \A s \in Subscriptions : \E n \in since[s]..Len(log) :
    /\ s \in subscribers \ ended => n = Len(log)
    /\ \/ Straight(s, n)
       \/ /\ pc[s] # "replay" /\ replay[s] # None
          /\ \E m \in since[s]..n : Broken(s, m, n)

HubInv == TypeOK /\ Numbered /\ Registered /\ Loaded /\ Remembered /\ Holds

-----------------------------------------------------------------------------
(* Sequences. *)

Logged == [kind : Kinds, of : 0..MaxEvent]
Queued == [kind : Kinds \cup {"replay"}, of : 0..MaxEvent]

\* A stretch of a sequence that gets another element.
LEMMA StretchKeeps ==
  ASSUME NEW X, NEW q \in Seq(X), NEW e \in X, NEW m \in Nat, NEW n \in 0..Len(q)
  PROVE  SubSeq(Append(q, e), m + 1, n) = SubSeq(q, m + 1, n)
  OBVIOUS

LEMMA StretchGrows ==
  ASSUME NEW X, NEW q \in Seq(X), NEW e \in X, NEW m \in 0..Len(q)
  PROVE  SubSeq(Append(q, e), m + 1, Len(q) + 1) = Append(SubSeq(q, m + 1, Len(q)), e)
<1> DEFINE r == Append(q, e)
<1>1. r \in Seq(X) /\ Len(q) \in Nat /\ Len(r) = Len(q) + 1 /\ r[Len(q) + 1] = e
  OBVIOUS
<1>2. SubSeq(r, m + 1, Len(q)) = SubSeq(q, m + 1, Len(q)) /\ SubSeq(q, m + 1, Len(q)) \in Seq(X)
  BY StretchKeeps
<1> HIDE DEF r
<1>3. m + 1 \in 1..Len(r) /\ Len(r) \in (m + 1)..Len(r) /\ Len(r) - 1 = Len(q)
  BY <1>1
<1>4. SubSeq(r, m + 1, Len(r)) = SubSeq(r, m + 1, Len(r) - 1) \o <<r[Len(r)]>>
  BY <1>1, <1>3, SubSeqRecursiveSecond
<1>5. Append(SubSeq(q, m + 1, Len(q)), e) = SubSeq(q, m + 1, Len(q)) \o <<e>>
  BY <1>2, AppendIsConcat
<1> QED BY <1>1, <1>2, <1>3, <1>4, <1>5 DEF r

LEMMA StretchIsSeq ==
  ASSUME NEW X, NEW q \in Seq(X), NEW m \in 0..Len(q), NEW n \in m..Len(q)
  PROVE  /\ SubSeq(q, m + 1, n) \in Seq(X)
         /\ Len(SubSeq(q, m + 1, n)) = n - m
         /\ \A i \in 1..(n - m) : SubSeq(q, m + 1, n)[i] = q[m + i]
         /\ SubSeq(q, n + 1, n) = <<>>
  OBVIOUS

LEMMA AppendAfter ==
  ASSUME NEW X, NEW a \in Seq(X), NEW b \in Seq(X), NEW x \in X, NEW e \in X
  PROVE  /\ a \o <<x>> \o Append(b, e) = Append(a \o <<x>> \o b, e)
         /\ a \o <<x>> \o <<>> = Append(a, x)
  OBVIOUS

LEMMA Elements ==
  ASSUME NEW X, NEW a \in Seq(X), NEW b \in Seq(X), NEW x \in X
  PROVE  /\ Len(a \o <<x>> \o b) = Len(a) + 1 + Len(b)
         /\ \A i \in 1..Len(a) : (a \o <<x>> \o b)[i] = a[i]
         /\ (a \o <<x>> \o b)[Len(a) + 1] = x
         /\ \A i \in 1..Len(b) : (a \o <<x>> \o b)[Len(a) + 1 + i] = b[i]
  OBVIOUS

\* What is in force after n events does not change with the events to come.
LEMMA InForceKeeps ==
  ASSUME NEW q \in Seq(Logged), NEW e \in Logged, NEW k, NEW n \in 0..Len(q), InForce(q, k, n)
  PROVE  InForce(Append(q, e), k, n)
<1>1. \A i \in 1..n : Append(q, e)[i] = q[i]
  OBVIOUS
<1>2. CASE k = None
  BY <1>1, <1>2 DEF InForce
<1>3. CASE k # None
  <2>1. PICK j \in 1..n : q[j].kind = "keymap" /\ q[j].of = k
                          /\ \A i \in (j + 1)..n : q[i].kind # "keymap"
    BY <1>3 DEF InForce
  <2>2. \A i \in (j + 1)..n : i \in 1..n
    OBVIOUS
  <2> QED BY <1>1, <1>3, <2>1, <2>2 DEF InForce
<1> QED BY <1>2, <1>3

\* A keymap takes force with its event, and stays in force until the next one.
LEMMA InForceGrows ==
  ASSUME NEW q \in Seq(Logged), NEW e \in Logged, NEW k, InForce(q, k, Len(q)),
         e.kind = "keymap" => e.of # None
  PROVE  InForce(Append(q, e), IF e.kind = "keymap" THEN e.of ELSE k, Len(q) + 1)
<1> DEFINE r == Append(q, e)
<1>1. r[Len(q) + 1] = e /\ Len(q) \in Nat /\ \A i \in 1..Len(q) : r[i] = q[i]
  OBVIOUS
<1> HIDE DEF r
<1>2. CASE e.kind = "keymap"
  <2>1. \A i \in (Len(q) + 1 + 1)..(Len(q) + 1) : r[i].kind # "keymap"
    BY <1>1
  <2> QED BY <1>1, <1>2, <2>1 DEF InForce, r
<1>3. CASE e.kind # "keymap" /\ k = None
  <2>1. \A i \in 1..(Len(q) + 1) : i \in 1..Len(q) \/ i = Len(q) + 1
    BY <1>1
  <2> QED BY <1>1, <1>3, <2>1 DEF InForce, r
<1>4. CASE e.kind # "keymap" /\ k # None
  <2>1. PICK j \in 1..Len(q) : q[j].kind = "keymap" /\ q[j].of = k
                          /\ \A i \in (j + 1)..Len(q) : q[i].kind # "keymap"
    BY <1>4 DEF InForce
  <2>2. j \in 1..(Len(q) + 1) /\ r[j] = q[j]
    BY <1>1
  <2>3. ASSUME NEW i \in (j + 1)..(Len(q) + 1) PROVE r[i].kind # "keymap"
    <3>1. (i \in 1..Len(q) /\ i \in (j + 1)..Len(q)) \/ i = Len(q) + 1
      BY <1>1
    <3> QED BY <1>1, <1>4, <2>1, <3>1
  <2> QED BY <1>4, <2>1, <2>2, <2>3 DEF InForce, r
<1> QED BY <1>2, <1>3, <1>4

-----------------------------------------------------------------------------
(* The invariant is kept. *)

\* What the sequences of HubInv need to know of the types.
LEMMA Typed ==
  ASSUME TypeOK, NEW s \in Subscriptions
  PROVE  /\ log \in Seq(Logged) /\ queue[s] \in Seq(Queued) /\ since[s] \in Nat
         /\ replay[s] \in 0..MaxEvent /\ Event("replay", replay[s]) \in Queued
         /\ Logged \subseteq Queued
  BY DEF TypeOK, Logged, Queued, Event, Kinds

\* The types, when only the handler changed.
Handler == [at : {"idle", "take", "use", "enqueue", "fatal", "tell"},
            event : [kind : Kinds, of : 0..MaxEvent], has : BOOLEAN]
LEMMA HandlerMade ==
  ASSUME NEW at \in {"idle", "take", "use", "enqueue", "fatal", "tell"},
         NEW kind \in Kinds, NEW of \in 0..MaxEvent, NEW has \in BOOLEAN
  PROVE  [at |-> at, event |-> Event(kind, of), has |-> has] \in Handler
<1>1. Event(kind, of) \in [kind : Kinds, of : 0..MaxEvent]
  BY DEF Event
<1> QED BY <1>1 DEF Handler

LEMMA OtherTypes ==
  ASSUME TypeOK, handler' \in Handler, UNCHANGED <<sent, xkbVars, failed, hubVars, subVars, log>>
  PROVE  TypeOK'
  BY DEF TypeOK, Handler, xkbVars, hubVars, subVars

\* A handler that touches neither the hub nor a queue.
LEMMA OnlyHandler ==
  ASSUME HubInv, UNCHANGED <<hubVars, subVars, log>>, TypeOK', Numbered', Loaded', freed' = freed
  PROVE  HubInv'
<1>1. Registered'
  BY DEF HubInv, Registered, hubVars, subVars
<1>2. Remembered'
  BY DEF HubInv, Remembered, hubVars, subVars, InForce
<1>3. Holds'
  BY DEF HubInv, Holds, hubVars, subVars, Straight, Broken, Stretch, Event
<1> QED BY <1>1, <1>2, <1>3 DEF HubInv

\* The hub tells its event: it is logged, remembered and pushed.
LEMMA EnqueueKeeps ==
  ASSUME HubInv, Enqueue
  PROVE  HubInv'
<1> USE HubAssumption
<1> DEFINE e == handler.event
<1>0. log \in Seq(Logged) /\ Len(log) \in Nat /\ e \in Logged /\ Idle.event.kind = "other" /\ Idle.at = "idle"
  BY DEF HubInv, TypeOK, Logged, Idle, Event
<1>1. CASE closed /\ UNCHANGED <<lastKeymap, queue, log>>
  <2>1. UNCHANGED <<hubVars, subVars, log>> /\ freed' = freed /\ closed' = closed
    BY <1>1 DEF Enqueue, hubVars, subVars, xkbVars
  <2>2. TypeOK'
    <3>1. handler' \in Handler
      BY DEF Enqueue, Idle, Event, Kinds, None, Handler
    <3>2. UNCHANGED <<sent, xkbVars, failed, hubVars, subVars, log>>
      BY <1>1, <2>1 DEF Enqueue, xkbVars
    <3> QED BY <3>1, <3>2, OtherTypes DEF HubInv
  <2>3. Numbered' /\ Loaded'
    BY <1>1 DEF HubInv, Numbered, Loaded, Enqueue, Idle, Event
  <2> QED BY <2>1, <2>2, <2>3, OnlyHandler
<1>2. CASE ~closed /\ log' = Append(log, e)
           /\ lastKeymap' = (IF e.kind = "keymap" THEN Remembers(e) ELSE lastKeymap)
           /\ queue' = [s \in Subscriptions |-> IF s \in Receivers THEN Pushed(s, e) ELSE queue[s]]
  <2> USE <1>2
  <2>0. /\ UNCHANGED <<sent, xkb, freed, loaded, failed, closed, subscribers, pc, replay, ended, since>>
        /\ handler' = Idle
    BY DEF Enqueue, xkbVars
  <2>1. TypeOK'
    <3>1. log' \in Seq(Logged)
      BY <1>0
    <3>2. ASSUME NEW s \in Subscriptions PROVE queue'[s] \in Seq(Queued)
      <4>1. e \in Queued /\ queue[s] \in Seq(Queued)
        BY <1>0, Typed DEF HubInv
      <4> QED BY <4>1 DEF Pushed
    <3>3. queue' \in [Subscriptions -> Seq(Queued)]
      BY <3>2
    <3>4. lastKeymap' \in 0..MaxEvent
      BY <1>0 DEF HubInv, TypeOK, Remembers, Logged
    <3>5. handler' \in Handler
      BY <2>0 DEF Idle, Event, Kinds, None, Handler
    <3>6. /\ sent' \in 0..MaxEvent /\ loaded' \in 0..MaxEvent
          /\ xkb' \in BOOLEAN /\ freed' \in BOOLEAN /\ failed' \in BOOLEAN /\ closed' \in BOOLEAN
          /\ subscribers' \subseteq Subscriptions
          /\ pc' \in [Subscriptions -> {"none", "replay", "ready", "closing", "gone"}]
          /\ replay' \in [Subscriptions -> 0..MaxEvent]
          /\ ended' \subseteq Subscriptions /\ since' \in [Subscriptions -> Nat]
      BY <2>0 DEF HubInv, TypeOK
    <3> QED BY <3>1, <3>3, <3>4, <3>5, <3>6 DEF TypeOK, Logged, Queued, Handler
  <2>2. Numbered'
    <3>1. ASSUME NEW i \in 1..Len(log'), log'[i].kind = "keymap" PROVE log'[i].of # None
      <4>1. CASE i \in 1..Len(log)
        BY <1>0, <3>1, <4>1 DEF HubInv, Numbered
      <4>2. CASE i = Len(log) + 1
        BY <1>0, <3>1, <4>2 DEF HubInv, Numbered
      <4> QED BY <1>0, <4>1, <4>2
    <3> QED BY <1>0, <2>0, <3>1 DEF Numbered
  <2>3. Registered'
    <3>1. ASSUME NEW s \in Subscriptions, pc[s] = "none" PROVE queue'[s] = <<>>
      BY <3>1 DEF HubInv, Registered, Receivers
    <3> QED BY <2>0, <3>1 DEF HubInv, Registered
  <2>4. Loaded'
    <3>1. loaded = lastKeymap'
      BY DEF HubInv, Loaded, Remembers, Enqueue
    <3> QED BY <1>0, <2>0, <3>1 DEF Loaded
  <2>5. Remembered'
    <3>1. InForce(log', lastKeymap', Len(log'))
      <4>1. InForce(log', IF e.kind = "keymap" THEN e.of ELSE lastKeymap, Len(log) + 1)
        BY <1>0, InForceGrows DEF HubInv, Numbered, Remembered
      <4> QED BY <1>0, <4>1 DEF Remembers
    <3>2. ASSUME NEW i \in 1..Len(log'), log'[i].kind = "key", log'[i].of # None
          PROVE  InForce(log', log'[i].of, i - 1)
      <4>1. CASE i \in 1..Len(log)
        <5>1. log'[i] = log[i] /\ i - 1 \in 0..Len(log)
          BY <1>0, <4>1
        <5>2. InForce(log, log[i].of, i - 1)
          BY <3>2, <4>1, <5>1 DEF HubInv, Remembered
        <5> QED BY <1>0, <5>1, <5>2, InForceKeeps
      <4>2. CASE i = Len(log) + 1
        <5>1. log'[i] = e /\ i - 1 = Len(log)
          BY <1>0, <4>2
        <5>2. e.of = lastKeymap
          BY <3>2, <5>1 DEF HubInv, Loaded, Enqueue
        <5>3. InForce(log, lastKeymap, Len(log))
          BY DEF HubInv, Remembered
        <5> QED BY <1>0, <5>1, <5>2, <5>3, InForceKeeps
      <4> QED BY <1>0, <4>1, <4>2
    <3>3. ASSUME NEW s \in Subscriptions
          PROVE  /\ since[s] <= Len(log')
                 /\ s \in subscribers \/ queue'[s] # <<>> => InForce(log', replay[s], since[s])
      <4>1. since[s] \in 0..Len(log)
        BY <1>0, Typed DEF HubInv, Remembered
      <4>2. s \in subscribers \/ queue'[s] # <<>> => s \in subscribers \/ queue[s] # <<>>
        BY DEF Receivers
      <4>3. s \in subscribers \/ queue[s] # <<>> => InForce(log, replay[s], since[s])
        BY DEF HubInv, Remembered
      <4> QED BY <1>0, <4>1, <4>2, <4>3, InForceKeeps
    <3> QED BY <2>0, <3>1, <3>2, <3>3 DEF Remembered
  <2>6. Holds'
    <3> SUFFICES ASSUME NEW s \in Subscriptions
                 PROVE  \E n \in since[s]..Len(log') :
                          /\ s \in subscribers \ ended => n = Len(log')
                          /\ \/ Straight(s, n)'
                             \/ /\ pc[s] # "replay" /\ replay[s] # None
                                /\ \E m \in since[s]..n : Broken(s, m, n)'
      BY <2>0 DEF Holds
    <3>1. since[s] \in 0..Len(log) /\ Len(log') = Len(log) + 1
      BY <1>0, Typed DEF HubInv, Remembered
    <3>2. PICK n \in since[s]..Len(log) :
            /\ s \in subscribers \ ended => n = Len(log)
            /\ \/ Straight(s, n)
               \/ /\ pc[s] # "replay" /\ replay[s] # None
                  /\ \E m \in since[s]..n : Broken(s, m, n)
      BY DEF HubInv, Holds
    <3>3. CASE s \notin subscribers \/ s \in ended
      <4>1. queue'[s] = queue[s]
        BY <3>3 DEF Receivers, Pushed
      <4>2. \A a \in Nat, b \in 0..Len(log) : SubSeq(log', a + 1, b) = SubSeq(log, a + 1, b)
        BY <1>0, StretchKeeps
      <4>3. Straight(s, n) => Straight(s, n)'
        BY <2>0, <3>1, <4>1, <4>2 DEF Straight, Stretch
      <4>4. ASSUME NEW m \in since[s]..n, Broken(s, m, n) PROVE Broken(s, m, n)'
        <5>1. since[s] \in Nat /\ m \in Nat /\ m \in 0..Len(log) /\ n \in 0..Len(log)
          BY <1>0, <3>1
        <5>2. /\ SubSeq(log', since[s] + 1, m) = SubSeq(log, since[s] + 1, m)
              /\ SubSeq(log', m + 1, n) = SubSeq(log, m + 1, n)
          BY <4>2, <5>1
        <5> QED BY <2>0, <4>1, <4>4, <5>2 DEF Broken, Stretch, Event
      <4>5. n \in since[s]..Len(log')
        BY <3>1
      <4> QED BY <3>2, <3>3, <4>3, <4>4, <4>5
    <3>4. CASE s \in subscribers \ ended
      <4>1. n = Len(log) /\ queue'[s] = Append(queue[s], e)
        BY <3>2, <3>4 DEF Receivers, Pushed
      <4>2. \A a \in 0..Len(log) : SubSeq(log', a + 1, Len(log) + 1) = Append(SubSeq(log, a + 1, Len(log)), e)
        BY <1>0, StretchGrows
      <4>3. Straight(s, n) => Straight(s, n + 1)'
        BY <2>0, <3>1, <4>1, <4>2 DEF Straight, Stretch
      <4>4. ASSUME NEW m \in since[s]..n, Broken(s, m, n) PROVE Broken(s, m, n + 1)'
        <5>1. m \in 0..Len(log) /\ since[s] \in 0..m
          BY <3>1
        <5> DEFINE a == SubSeq(log, since[s] + 1, m)
                   b == SubSeq(log, m + 1, Len(log))
        <5>2. a \in Seq(Queued) /\ b \in Seq(Queued) /\ e \in Queued
          <6>1. log \in Seq(Queued) /\ e \in Queued
            BY <1>0, Typed DEF HubInv
          <6> QED BY <3>1, <5>1, <6>1, StretchIsSeq
        <5>3. SubSeq(log', since[s] + 1, m) = a /\ SubSeq(log', m + 1, Len(log) + 1) = Append(b, e)
          <6>1. since[s] \in Nat
            BY <5>1
          <6>2. SubSeq(Append(log, e), since[s] + 1, m) = SubSeq(log, since[s] + 1, m)
            BY <1>0, <5>1, <6>1, StretchKeeps
          <6> QED BY <4>2, <5>1, <6>2
        <5>4. queue[s] = a \o <<Event("replay", replay[s])>> \o b
          BY <4>1, <4>4 DEF Broken, Stretch
        <5>5. Event("replay", replay[s]) \in Queued
          BY Typed DEF HubInv
        <5> HIDE DEF a, b
        <5>6. queue'[s] = a \o <<Event("replay", replay[s])>> \o Append(b, e)
          <6> DEFINE x == Event("replay", replay[s])
          <6> HIDE DEF x
          <6>1. a \o <<x>> \o Append(b, e) = Append(a \o <<x>> \o b, e)
            BY <5>2, <5>5, AppendAfter DEF x
          <6> QED BY <4>1, <5>4, <6>1 DEF x
        <5> QED BY <2>0, <4>1, <5>3, <5>6 DEF Broken, Stretch, Event
      <4>5. n + 1 \in since[s]..Len(log') /\ n + 1 = Len(log') /\ since[s]..n \subseteq since[s]..(n + 1)
        BY <3>1, <4>1
      <4> QED BY <3>2, <4>3, <4>4, <4>5
    <3> QED BY <3>3, <3>4
  <2> QED BY <2>1, <2>2, <2>3, <2>4, <2>5, <2>6 DEF HubInv
<1> QED BY <1>1, <1>2 DEF Enqueue

\* The other steps of a handler.
LEMMA HandlerKeeps ==
  ASSUME HubInv,
         ReceiveKeymap \/ (\E kind \in Kinds \ {"keymap"} : Receive(kind))
           \/ TakeXKB \/ SetKeymap \/ NameKey \/ SetFatal
  PROVE  HubInv'
<1> USE HubAssumption
<1>0. /\ UNCHANGED <<hubVars, subVars, log>> /\ freed' = freed /\ lastKeymap' = lastKeymap /\ closed' = closed
      /\ handler \in Handler /\ sent \in 0..MaxEvent /\ loaded \in 0..MaxEvent
  BY DEF HubInv, TypeOK, Handler, ReceiveKeymap, Receive, Arrives, TakeXKB, SetKeymap, NameKey,
         SetFatal, xkbVars, hubVars
<1>1. CASE ReceiveKeymap
  <2>1. sent' \in 0..MaxEvent /\ sent' # None /\ UNCHANGED <<xkbVars, failed>> /\ handler.at = "idle"
    BY <1>0, <1>1 DEF ReceiveKeymap, Arrives, None
  <2>2. \/ handler' = [at |-> "take", event |-> Event("keymap", sent'), has |-> FALSE]
        \/ handler' = [at |-> "fatal", event |-> Event("other", None), has |-> FALSE]
    BY <1>1 DEF ReceiveKeymap, Idle
  <2>3. handler' \in Handler
    <3>1. "keymap" \in Kinds /\ "other" \in Kinds /\ None \in 0..MaxEvent
      BY DEF Kinds, None
    <3> QED BY <2>1, <2>2, <3>1, HandlerMade
  <2>4. TypeOK'
    BY <1>0, <2>1, <2>3 DEF HubInv, TypeOK, Handler, xkbVars, hubVars, subVars
  <2>5. Numbered' /\ Loaded'
    BY <1>0, <2>1, <2>2 DEF HubInv, Numbered, Loaded, Event, xkbVars
  <2> QED BY <1>0, <2>4, <2>5, OnlyHandler
<1>2. ASSUME NEW kind \in Kinds \ {"keymap"}, Receive(kind) PROVE HubInv'
  <2>1. sent' \in 0..MaxEvent /\ UNCHANGED <<xkbVars, failed>> /\ handler.at = "idle"
    <3>1. Arrives
      BY <1>2 DEF Receive
    <3> QED BY <1>0, <3>1 DEF Arrives
  <2>2. \/ handler' = [at |-> "take", event |-> Event(kind, None), has |-> FALSE]
        \/ handler' = [at |-> "enqueue", event |-> Event(kind, None), has |-> FALSE]
    BY <1>2 DEF Receive, Idle
  <2>3. handler' \in Handler
    <3>1. None \in 0..MaxEvent
      BY DEF None
    <3> QED BY <1>2, <2>2, <3>1, HandlerMade
  <2>4. TypeOK'
    BY <1>0, <2>1, <2>3 DEF HubInv, TypeOK, Handler, xkbVars, hubVars, subVars
  <2>5. Numbered' /\ Loaded'
    BY <1>0, <1>2, <2>1, <2>2 DEF HubInv, Numbered, Loaded, Event, xkbVars
  <2> QED BY <1>0, <2>4, <2>5, OnlyHandler
<1>3. CASE TakeXKB
  <2>1. /\ handler.at = "take" /\ handler' = [handler EXCEPT !.at = "use", !.has = xkb]
        /\ UNCHANGED <<sent, xkbVars, failed>> /\ xkb \in BOOLEAN
    BY <1>3 DEF TakeXKB, HubInv, TypeOK
  <2>2. handler'.at = "use" /\ handler'.event = handler.event /\ handler' \in Handler
    BY <1>0, <2>1 DEF Handler
  <2>3. TypeOK'
    BY <1>0, <2>1, <2>2, OtherTypes DEF HubInv
  <2>4. Numbered' /\ Loaded'
    BY <1>0, <2>1, <2>2 DEF HubInv, Numbered, Loaded, xkbVars
  <2> QED BY <1>0, <2>3, <2>4, OnlyHandler
<1>4. CASE SetKeymap
  <2>1. /\ handler.at = "use" /\ handler.event.kind = "keymap" /\ UNCHANGED <<sent, xkb, failed>>
        /\ \/ loaded' = handler.event.of /\ handler' = [handler EXCEPT !.at = "enqueue"]
           \/ loaded' = loaded /\ handler' = [handler EXCEPT !.at = "fatal"]
    BY <1>4 DEF SetKeymap
  <2>2. /\ handler'.event = handler.event /\ handler' \in Handler /\ loaded' \in 0..MaxEvent
        /\ \/ loaded' = handler.event.of /\ handler'.at = "enqueue"
           \/ loaded' = loaded /\ handler'.at = "fatal"
    BY <1>0, <2>1 DEF Handler
  <2>3. TypeOK'
    BY <1>0, <2>1, <2>2 DEF HubInv, TypeOK, Handler, hubVars, subVars
  <2>4. Numbered' /\ Loaded'
    BY <1>0, <2>1, <2>2 DEF HubInv, Numbered, Loaded
  <2> QED BY <1>0, <2>3, <2>4, OnlyHandler
<1>5. CASE NameKey
  <2>1. /\ handler.at = "use" /\ handler.event.kind \in {"key", "modifiers"}
        /\ UNCHANGED <<sent, xkbVars, failed>>
        /\ \E of \in {loaded, None} : handler' = [handler EXCEPT !.at = "enqueue", !.event.of = of]
    BY <1>5 DEF NameKey
  <2>2. PICK of \in {loaded, None} : handler' = [handler EXCEPT !.at = "enqueue", !.event.of = of]
    BY <2>1
  <2>3. /\ handler'.at = "enqueue" /\ handler'.event.kind = handler.event.kind
        /\ handler'.event.of = of /\ handler' \in Handler
    <3> DEFINE e == [handler.event EXCEPT !.of = of]
    <3>1. handler.event \in [kind : Kinds, of : 0..MaxEvent] /\ of \in 0..MaxEvent
      BY <1>0 DEF Handler, None
    <3>2. e \in [kind : Kinds, of : 0..MaxEvent] /\ e.kind = handler.event.kind /\ e.of = of
      BY <3>1
    <3>3. handler' = [handler EXCEPT !.at = "enqueue", !.event = e]
      BY <1>0, <2>2 DEF Handler
    <3> HIDE DEF e
    <3> QED BY <1>0, <3>2, <3>3 DEF Handler
  <2>4. TypeOK'
    BY <1>0, <2>1, <2>3, OtherTypes DEF HubInv
  <2>5. Numbered' /\ Loaded'
    BY <1>0, <2>1, <2>3 DEF HubInv, Numbered, Loaded, xkbVars
  <2> QED BY <1>0, <2>4, <2>5, OnlyHandler
<1>6. CASE SetFatal
  <2>1. /\ handler.at = "fatal" /\ handler' = [handler EXCEPT !.at = "tell"] /\ failed' = TRUE
        /\ UNCHANGED <<sent, xkbVars>>
    BY <1>6 DEF SetFatal
  <2>2. handler'.event = handler.event /\ handler'.at = "tell" /\ handler' \in Handler
    BY <1>0, <2>1 DEF Handler
  <2>3. TypeOK'
    BY <1>0, <2>1, <2>2 DEF HubInv, TypeOK, Handler, xkbVars, hubVars, subVars
  <2>4. Numbered' /\ Loaded'
    BY <1>0, <2>1, <2>2 DEF HubInv, Numbered, Loaded, xkbVars
  <2> QED BY <1>0, <2>3, <2>4, OnlyHandler
<1> QED BY <1>1, <1>2, <1>3, <1>4, <1>5, <1>6

\* A step that leaves the queues and the log alone, and only ends subscriptions.
LEMMA QueuesStay ==
  ASSUME HubInv, UNCHANGED <<log, queue, since, replay, lastKeymap>>,
         subscribers' \subseteq subscribers, ended \subseteq ended',
         \A s \in Subscriptions : pc[s] # "replay" => pc'[s] # "replay"
  PROVE  Remembered' /\ Holds'
<1>1. Remembered'
  BY DEF HubInv, Remembered, InForce
<1>2. Holds'
  <2> SUFFICES ASSUME NEW s \in Subscriptions
               PROVE  \E n \in since[s]..Len(log) :
                        /\ s \in subscribers' \ ended' => n = Len(log)
                        /\ \/ Straight(s, n)'
                           \/ /\ pc'[s] # "replay" /\ replay[s] # None
                              /\ \E m \in since[s]..n : Broken(s, m, n)'
    BY DEF Holds
  <2>1. PICK n \in since[s]..Len(log) :
          /\ s \in subscribers \ ended => n = Len(log)
          /\ \/ Straight(s, n)
             \/ /\ pc[s] # "replay" /\ replay[s] # None
                /\ \E m \in since[s]..n : Broken(s, m, n)
    BY DEF HubInv, Holds
  <2>2. Straight(s, n) => Straight(s, n)'
    BY DEF Straight, Stretch
  <2>3. \A m : Broken(s, m, n) => Broken(s, m, n)'
    BY DEF Broken, Stretch, Event
  <2>4. (s \in subscribers' \ ended' => n = Len(log)) /\ (pc[s] # "replay" => pc'[s] # "replay")
    BY <2>1
  <2> QED BY <2>1, <2>2, <2>3, <2>4
<1> QED BY <1>1, <1>2

LEMMA TellFatalKeeps ==
  ASSUME HubInv, TellFatal
  PROVE  HubInv'
<1> USE HubAssumption
<1>1. /\ handler' = Idle /\ ended' = ended \cup subscribers
      /\ UNCHANGED <<sent, xkb, freed, loaded, failed, closed, lastKeymap, subscribers, pc, replay, queue,
                     since, log>>
  BY DEF TellFatal, xkbVars, hubVars
<1>2. handler' \in Handler
  <2>1. "other" \in Kinds /\ None \in 0..MaxEvent
    BY DEF Kinds, None
  <2> QED BY <1>1, <2>1, HandlerMade DEF Idle
<1>3. TypeOK'
  BY <1>1, <1>2 DEF HubInv, TypeOK, Handler
<1>4. Numbered' /\ Loaded' /\ Registered'
  BY <1>1 DEF HubInv, Numbered, Loaded, Registered, TellFatal, Idle, Event
<1>5. Remembered' /\ Holds'
  BY <1>1, QueuesStay
<1> QED BY <1>3, <1>4, <1>5 DEF HubInv

\* A step of the hub's end.
LEMMA CloseKeeps ==
  ASSUME HubInv, CloseHub \/ FreeXKB
  PROVE  HubInv'
<1> USE HubAssumption
<1>1. CASE CloseHub
  <2>1. /\ closed' = TRUE /\ ended' = ended \cup subscribers /\ subscribers' = {} /\ xkb' = FALSE
        /\ UNCHANGED <<handler, sent, freed, loaded, failed, lastKeymap, pc, replay, queue, since, log>>
    BY <1>1 DEF CloseHub
  <2>2. TypeOK'
    BY <2>1 DEF HubInv, TypeOK
  <2>3. Numbered' /\ Loaded' /\ Registered'
    BY <2>1 DEF HubInv, Numbered, Loaded, Registered
  <2>4. Remembered' /\ Holds'
    BY <2>1, QueuesStay
  <2> QED BY <2>2, <2>3, <2>4 DEF HubInv
<1>2. CASE FreeXKB
  <2>0. closed
    BY <1>2 DEF FreeXKB
  <2>1. /\ freed' = TRUE /\ loaded' = None
        /\ UNCHANGED <<handler, sent, xkb, failed, closed, lastKeymap, subscribers, pc, replay, queue, ended,
                       since, log>>
    BY <1>2 DEF FreeXKB, hubVars, subVars
  <2>2. TypeOK'
    <3>1. loaded' \in 0..MaxEvent /\ freed' \in BOOLEAN
      BY <2>1 DEF None
    <3> QED BY <2>1, <3>1, Zenon DEF HubInv, TypeOK
  <2>3. Numbered' /\ Loaded' /\ Registered'
    BY <2>0, <2>1 DEF HubInv, Numbered, Loaded, Registered
  <2>4. Remembered' /\ Holds'
    BY <2>1, QueuesStay
  <2> QED BY <2>2, <2>3, <2>4 DEF HubInv
<1> QED BY <1>1, <1>2

\* A subscription comes to an end.
LEMMA LeaveKeeps ==
  ASSUME HubInv, NEW s \in Subscriptions, Unsubscribe(s) \/ CloseQueue(s)
  PROVE  HubInv'
<1> USE HubAssumption
<1>1. /\ UNCHANGED <<handler, sent, xkb, freed, loaded, failed, closed, lastKeymap, replay, queue, since, log>>
      /\ \/ /\ pc[s] = "ready" /\ pc' = [pc EXCEPT ![s] = "closing"]
            /\ subscribers' = subscribers \ {s} /\ ended' = ended
         \/ /\ pc[s] = "closing" /\ pc' = [pc EXCEPT ![s] = "gone"]
            /\ subscribers' = subscribers /\ ended' = ended \cup {s}
  BY DEF Unsubscribe, CloseQueue, xkbVars, hubVars
<1>2. /\ pc \in [Subscriptions -> {"none", "replay", "ready", "closing", "gone"}]
      /\ pc' \in [Subscriptions -> {"none", "replay", "ready", "closing", "gone"}]
      /\ ended' \subseteq Subscriptions /\ subscribers' \subseteq Subscriptions
  BY <1>1 DEF HubInv, TypeOK
<1>3. TypeOK'
  BY <1>1, <1>2 DEF HubInv, TypeOK
<1>4. Numbered' /\ Loaded'
  BY <1>1 DEF HubInv, Numbered, Loaded
<1>5. Registered'
  BY <1>1, <1>2 DEF HubInv, Registered
<1>6. Remembered' /\ Holds'
  <2>1. \A t \in Subscriptions : pc[t] # "replay" => pc'[t] # "replay"
    BY <1>1, <1>2
  <2>2. subscribers' \subseteq subscribers /\ ended \subseteq ended'
    BY <1>1
  <2> QED BY <1>1, <2>1, <2>2, QueuesStay
<1> QED BY <1>3, <1>4, <1>5, <1>6 DEF HubInv

\* A subscription begins with an empty queue and the keymap in force.
LEMMA SubscribeKeeps ==
  ASSUME HubInv, NEW s \in Subscriptions, Subscribe(s)
  PROVE  HubInv'
<1> USE HubAssumption
<1>0. Len(log) \in Nat /\ log \in Seq(Logged)
  BY Typed DEF HubInv
<1>1. /\ UNCHANGED <<handler, sent, xkb, freed, loaded, failed, closed, lastKeymap, queue, log>>
      /\ pc[s] = "none" /\ since' = [since EXCEPT ![s] = Len(log)]
      /\ \/ /\ closed /\ ended' = ended \cup {s} /\ pc' = [pc EXCEPT ![s] = "ready"]
            /\ subscribers' = subscribers /\ replay' = replay
         \/ /\ ~closed /\ ended' = ended /\ pc' = [pc EXCEPT ![s] = "replay"]
            /\ subscribers' = subscribers \cup {s} /\ replay' = [replay EXCEPT ![s] = lastKeymap]
  BY DEF Subscribe, Refuses, xkbVars
<1>2. /\ pc \in [Subscriptions -> {"none", "replay", "ready", "closing", "gone"}]
      /\ pc' \in [Subscriptions -> {"none", "replay", "ready", "closing", "gone"}]
      /\ since \in [Subscriptions -> Nat] /\ since' \in [Subscriptions -> Nat]
      /\ replay \in [Subscriptions -> 0..MaxEvent] /\ replay' \in [Subscriptions -> 0..MaxEvent]
      /\ ended' \subseteq Subscriptions /\ subscribers' \subseteq Subscriptions
  <2>1. /\ pc \in [Subscriptions -> {"none", "replay", "ready", "closing", "gone"}]
        /\ since \in [Subscriptions -> Nat] /\ replay \in [Subscriptions -> 0..MaxEvent]
        /\ lastKeymap \in 0..MaxEvent /\ ended \subseteq Subscriptions /\ subscribers \subseteq Subscriptions
    BY DEF HubInv, TypeOK
  <2>2. since' \in [Subscriptions -> Nat]
    BY <1>0, <1>1, <2>1
  <2>3. pc' \in [Subscriptions -> {"none", "replay", "ready", "closing", "gone"}]
    BY <1>1, <2>1
  <2>4. replay' \in [Subscriptions -> 0..MaxEvent]
    BY <1>1, <2>1
  <2> QED BY <1>1, <2>1, <2>2, <2>3, <2>4
<1>3. TypeOK'
  BY <1>1, <1>2 DEF HubInv, TypeOK
<1>4. Numbered' /\ Loaded'
  BY <1>1 DEF HubInv, Numbered, Loaded
<1>5. Registered'
  BY <1>1, <1>2 DEF HubInv, Registered
<1>6. queue[s] = <<>>
  BY <1>1 DEF HubInv, Registered
<1>7. Remembered'
  <2>1. ASSUME NEW t \in Subscriptions
        PROVE  /\ since'[t] <= Len(log)
               /\ t \in subscribers' \/ queue[t] # <<>> => InForce(log, replay'[t], since'[t])
    <3>1. CASE t = s
      <4>1. since'[t] = Len(log) /\ (t \in subscribers' => replay'[t] = lastKeymap)
        BY <1>1, <1>2, <3>1 DEF HubInv, Registered
      <4> QED BY <1>0, <1>6, <3>1, <4>1 DEF HubInv, Remembered
    <3>2. CASE t # s
      BY <1>1, <1>2, <3>2 DEF HubInv, Remembered
    <3> QED BY <3>1, <3>2
  <2>2. InForce(log, lastKeymap, Len(log))
        /\ \A i \in 1..Len(log) : log[i].kind = "key" /\ log[i].of # None => InForce(log, log[i].of, i - 1)
    BY DEF HubInv, Remembered
  <2> QED BY <1>1, <2>1, <2>2 DEF Remembered
<1>8. Holds'
  <2> SUFFICES ASSUME NEW t \in Subscriptions
               PROVE  \E n \in since'[t]..Len(log) :
                        /\ t \in subscribers' \ ended' => n = Len(log)
                        /\ \/ Straight(t, n)'
                           \/ /\ pc'[t] # "replay" /\ replay'[t] # None
                              /\ \E m \in since'[t]..n : Broken(t, m, n)'
    BY <1>1 DEF Holds
  <2>1. CASE t = s
    <3>1. since'[t] = Len(log) /\ queue'[t] = <<>>
      BY <1>1, <1>2, <1>6, <2>1
    <3>2. SubSeq(log, Len(log) + 1, Len(log)) = <<>>
      BY <1>0, StretchIsSeq
    <3>3. Straight(t, Len(log))'
      BY <1>1, <3>1, <3>2 DEF Straight, Stretch
    <3>4. Len(log) \in since'[t]..Len(log)
      BY <1>0, <3>1
    <3> DEFINE Good(n) == /\ t \in subscribers' \ ended' => n = Len(log)
                          /\ \/ Straight(t, n)'
                             \/ /\ pc'[t] # "replay" /\ replay'[t] # None
                                /\ \E m \in since'[t]..n : Broken(t, m, n)'
    <3>5. Good(Len(log))
      BY <3>3
    <3> HIDE DEF Good
    <3>6. \E n \in since'[t]..Len(log) : Good(n)
      BY <3>4, <3>5
    <3> QED BY <3>6 DEF Good
  <2>2. CASE t # s
    <3>1. /\ since'[t] = since[t] /\ replay'[t] = replay[t] /\ pc'[t] = pc[t]
          /\ (t \in subscribers' \ ended' => t \in subscribers \ ended)
      BY <1>1, <1>2, <2>2
    <3>2. PICK n \in since[t]..Len(log) :
            /\ t \in subscribers \ ended => n = Len(log)
            /\ \/ Straight(t, n)
               \/ /\ pc[t] # "replay" /\ replay[t] # None
                  /\ \E m \in since[t]..n : Broken(t, m, n)
      BY DEF HubInv, Holds
    <3>3. Straight(t, n) => Straight(t, n)'
      BY <1>1, <3>1 DEF Straight, Stretch
    <3>4. \A m : Broken(t, m, n) => Broken(t, m, n)'
      BY <1>1, <3>1 DEF Broken, Stretch, Event
    <3>5. n \in since'[t]..Len(log) /\ since'[t]..n = since[t]..n
          /\ (t \in subscribers' \ ended' => n = Len(log))
      BY <3>1, <3>2
    <3>6. CASE Straight(t, n)
      BY <3>3, <3>5, <3>6
    <3>7. ASSUME NEW m \in since[t]..n, pc[t] # "replay", replay[t] # None, Broken(t, m, n)
          PROVE  /\ pc'[t] # "replay" /\ replay'[t] # None
                 /\ \E k \in since'[t]..n : Broken(t, k, n)'
      BY <3>1, <3>4, <3>5, <3>7
    <3> QED BY <3>2, <3>5, <3>6, <3>7
  <2> QED BY <2>1, <2>2
<1> QED BY <1>3, <1>4, <1>5, <1>7, <1>8 DEF HubInv

\* The replay comes after what the hub has pushed so far.
LEMMA ReplayKeeps ==
  ASSUME HubInv, NEW s \in Subscriptions, Replay(s)
  PROVE  HubInv'
<1> USE HubAssumption
<1> DEFINE x == Event("replay", replay[s])
<1>0. /\ log \in Seq(Logged) /\ queue[s] \in Seq(Queued) /\ x \in Queued /\ since[s] \in 0..Len(log)
      /\ Len(log) \in Nat
  BY Typed DEF HubInv, Remembered
<1>1. /\ UNCHANGED <<handler, sent, xkb, freed, loaded, failed, closed, lastKeymap, subscribers, replay, ended,
                     since, log>>
      /\ pc[s] = "replay" /\ pc' = [pc EXCEPT ![s] = "ready"]
      /\ \/ queue' = queue
         \/ /\ replay[s] # None /\ s \notin ended
            /\ queue' = [queue EXCEPT ![s] = Append(queue[s], x)]
  <2>1. queue' = queue \/ (replay[s] # None /\ queue' = [queue EXCEPT ![s] = Pushed(s, x)])
    BY DEF Replay
  <2>2. s \in ended => [queue EXCEPT ![s] = Pushed(s, x)] = queue
    BY DEF Pushed, HubInv, TypeOK
  <2> QED BY <2>1, <2>2 DEF Replay, Pushed, xkbVars, hubVars
<1> HIDE DEF x
<1>2. /\ pc \in [Subscriptions -> {"none", "replay", "ready", "closing", "gone"}]
      /\ pc' \in [Subscriptions -> {"none", "replay", "ready", "closing", "gone"}]
      /\ queue \in [Subscriptions -> Seq(Queued)] /\ queue' \in [Subscriptions -> Seq(Queued)]
  <2>1. /\ pc \in [Subscriptions -> {"none", "replay", "ready", "closing", "gone"}]
        /\ queue \in [Subscriptions -> Seq(Queued)]
    BY DEF HubInv, TypeOK, Queued
  <2>2. Append(queue[s], x) \in Seq(Queued)
    BY <1>0
  <2> QED BY <1>1, <2>1, <2>2
<1>3. TypeOK'
  BY <1>1, <1>2 DEF HubInv, TypeOK, Queued
<1>4. Numbered' /\ Loaded'
  BY <1>1 DEF HubInv, Numbered, Loaded
<1>5. Registered'
  BY <1>1, <1>2 DEF HubInv, Registered
<1>6. s \in subscribers \/ queue' = queue
  BY <1>1 DEF HubInv, Registered
<1>7. Remembered'
  <2>1. \A t \in Subscriptions : t \in subscribers \/ queue'[t] # <<>> => t \in subscribers \/ queue[t] # <<>>
    BY <1>1, <1>2, <1>6
  <2> QED BY <1>1, <2>1 DEF HubInv, Remembered
<1>8. Holds'
  <2> SUFFICES ASSUME NEW t \in Subscriptions
               PROVE  \E n \in since[t]..Len(log) :
                        /\ t \in subscribers \ ended => n = Len(log)
                        /\ \/ Straight(t, n)'
                           \/ /\ pc'[t] # "replay" /\ replay[t] # None
                              /\ \E m \in since[t]..n : Broken(t, m, n)'
    BY <1>1 DEF Holds
  <2>1. PICK n \in since[t]..Len(log) :
          /\ t \in subscribers \ ended => n = Len(log)
          /\ \/ Straight(t, n)
             \/ /\ pc[t] # "replay" /\ replay[t] # None
                /\ \E m \in since[t]..n : Broken(t, m, n)
    BY DEF HubInv, Holds
  <2>2. CASE queue'[t] = queue[t]
    <3>1. Straight(t, n) => Straight(t, n)'
      BY <1>1, <2>2 DEF Straight, Stretch
    <3>2. \A m : Broken(t, m, n) => Broken(t, m, n)'
      BY <1>1, <2>2 DEF Broken, Stretch, Event
    <3>3. pc[t] # "replay" => pc'[t] # "replay"
      BY <1>1, <1>2
    <3> QED BY <2>1, <3>1, <3>2, <3>3
  <2>3. CASE t = s /\ replay[s] # None /\ queue'[s] = Append(queue[s], x)
    <3>1. Straight(s, n) /\ n \in since[s]..n /\ pc'[s] # "replay"
      BY <1>0, <1>1, <1>2, <2>1, <2>3
    <3> DEFINE a == SubSeq(log, since[s] + 1, n)
    <3>2. a \in Seq(Queued) /\ SubSeq(log, n + 1, n) = <<>>
      <4>1. log \in Seq(Queued)
        BY <1>0, Typed DEF HubInv
      <4>2. n \in since[s]..Len(log) /\ n \in 0..Len(log)
        BY <1>0, <2>1, <2>3
      <4>3. n \in n..Len(log)
        BY <4>2
      <4> QED BY <1>0, <4>1, <4>2, <4>3, StretchIsSeq
    <3>3. queue[s] = a
      BY <3>1 DEF Straight, Stretch
    <3> HIDE DEF a
    <3>4. queue'[s] = a \o <<x>> \o <<>>
      BY <1>0, <2>3, <3>2, <3>3, AppendAfter
    <3>5. Broken(s, n, n)'
      BY <1>1, <3>2, <3>4 DEF Broken, Stretch, a, x, Event
    <3> QED BY <2>1, <2>3, <3>1, <3>5
  <2> QED BY <1>1, <1>2, <2>2, <2>3
<1> QED BY <1>3, <1>4, <1>5, <1>7, <1>8 DEF HubInv

LEMMA InitHolds == Init => HubInv
<1> USE HubAssumption
<1> SUFFICES ASSUME Init PROVE HubInv
  OBVIOUS
<1>1. TypeOK
  <2>1. handler \in Handler
    <3>1. "other" \in Kinds /\ None \in 0..MaxEvent
      BY DEF Kinds, None
    <3> QED BY <3>1, HandlerMade DEF Init, Idle
  <2>2. <<>> \in Seq([kind : Kinds \cup {"replay"}, of : 0..MaxEvent])
        /\ <<>> \in Seq([kind : Kinds, of : 0..MaxEvent])
    OBVIOUS
  <2>3. /\ queue \in [Subscriptions -> Seq([kind : Kinds \cup {"replay"}, of : 0..MaxEvent])]
        /\ log \in Seq([kind : Kinds, of : 0..MaxEvent])
    BY <2>2 DEF Init
  <2>4. failed \in BOOLEAN /\ xkb \in BOOLEAN /\ freed \in BOOLEAN /\ closed \in BOOLEAN
    BY DEF Init
  <2> QED BY <2>1, <2>3, <2>4 DEF Init, TypeOK, Handler, None
<1>2. Numbered /\ Registered /\ Loaded
  BY DEF Init, Numbered, Registered, Loaded, Idle, Event
<1>3. Remembered /\ Holds
  <2>1. Len(log) = 0 /\ log = <<>> /\ SubSeq(<<>>, 0 + 1, 0) = <<>>
    BY DEF Init
  <2>2. Remembered
    BY <2>1 DEF Init, Remembered, InForce
  <2>3. \A s \in Subscriptions : Straight(s, 0) /\ since[s] = 0
    BY <2>1 DEF Init, Straight, Stretch
  <2> QED BY <2>1, <2>2, <2>3 DEF Holds
<1> QED BY <1>1, <1>2, <1>3 DEF HubInv

\* Whatever the handlers, the sessions and the hub's end do, and in whatever
\* order: the queues hold what the log says, and the keymaps are remembered.
THEOREM HubInvariant == Spec => []HubInv
<1>1. HubInv /\ [Next]_vars => HubInv'
  <2> SUFFICES ASSUME HubInv, [Next]_vars PROVE HubInv'
    OBVIOUS
  <2>1. CASE UNCHANGED vars
    <3>1. UNCHANGED <<handler, sent, xkb, freed, loaded, failed, closed, lastKeymap, subscribers, pc, replay,
                      queue, ended, since, log>>
      BY <2>1 DEF vars, xkbVars, hubVars, subVars
    <3>2. TypeOK'
      BY <3>1, Zenon DEF HubInv, TypeOK
    <3>3. Numbered' /\ Loaded'
      BY <3>1 DEF HubInv, Numbered, Loaded
    <3> QED BY <3>1, <3>2, <3>3, OnlyHandler DEF hubVars, subVars
  <2>2. CASE ReceiveKeymap \/ (\E kind \in Kinds \ {"keymap"} : Receive(kind))
               \/ TakeXKB \/ SetKeymap \/ NameKey \/ SetFatal
    BY <2>2, HandlerKeeps
  <2>3. CASE Enqueue
    BY <2>3, EnqueueKeeps
  <2>4. CASE TellFatal
    BY <2>4, TellFatalKeeps
  <2>5. ASSUME NEW s \in Subscriptions, SubscriptionStep(s) PROVE HubInv'
    BY <2>5, SubscribeKeeps, ReplayKeeps, LeaveKeeps DEF SubscriptionStep
  <2>6. CASE CloseHub \/ FreeXKB
    BY <2>6, CloseKeeps
  <2> QED BY <2>1, <2>2, <2>3, <2>4, <2>5, <2>6 DEF Next, HandlerStep
<1> QED BY <1>1, InitHolds, PTL DEF Spec

-----------------------------------------------------------------------------
(* What follows from it. *)

\* Every subscription gets what the hub tells from its registration on, in
\* order and once (hub.Subscribe, enqueue, Unsubscribe).
THEOREM SeesAllAlways == Spec => []SeesAll
<1>1. HubInv => SeesAll
  BY DEF HubInv, Holds, SeesAll, Straight, Broken
<1> QED BY <1>1, HubInvariant, PTL

\* A session that subscribes to a closed hub does not wait for events.
THEOREM ClosedHubEndsAlways == Spec => []ClosedHubEnds
<1>1. HubInv => ClosedHubEnds
  BY DEF HubInv, Registered, ClosedHubEnds
<1> QED BY <1>1, HubInvariant, PTL

\* Where the events of a queue stand in the log: before place r as the hub told
\* them, at place r the replay, one further behind it.
LEMMA Layout ==
  ASSUME HubInv, NEW s \in Subscriptions
  PROVE  \E r \in Nat \ {0} : \A j \in 1..Len(queue[s]) :
           /\ j < r => since[s] + j \in 1..Len(log) /\ queue[s][j] = log[since[s] + j]
           /\ j > r => since[s] + j - 1 \in 1..Len(log) /\ queue[s][j] = log[since[s] + j - 1]
           /\ j = r => replay[s] # None /\ queue[s][j] = Event("replay", replay[s])
<1> DEFINE b == since[s]
           q == queue[s]
           x == Event("replay", replay[s])
<1>1. log \in Seq(Queued) /\ x \in Queued /\ b \in 0..Len(log) /\ Len(log) \in Nat
  BY Typed DEF HubInv, Remembered
<1>2. PICK n \in b..Len(log) : \/ Straight(s, n)
                               \/ replay[s] # None /\ \E m \in b..n : Broken(s, m, n)
  BY DEF HubInv, Holds
<1>3. n \in 0..Len(log) /\ b <= n /\ n \in Nat /\ b \in Nat
  BY <1>1, <1>2
<1>4. CASE Straight(s, n)
  <2>1. q = SubSeq(log, b + 1, n)
    BY <1>4 DEF Straight, Stretch
  <2> HIDE DEF b, q, x
  <2>2. Len(q) = n - b /\ \A i \in 1..(n - b) : q[i] = log[b + i]
    BY <1>1, <1>2, <2>1, StretchIsSeq
  <2>3. n + 1 \in Nat \ {0}
    BY <1>3
  <2>4. ASSUME NEW j \in 1..Len(q)
        PROVE  j < n + 1 /\ j # n + 1 /\ ~(j > n + 1) /\ b + j \in 1..Len(log) /\ q[j] = log[b + j]
    BY <1>1, <1>3, <2>2
  <2> QED BY <2>3, <2>4 DEF b, q, x
<1>5. ASSUME NEW m \in b..n, Broken(s, m, n), replay[s] # None
      PROVE  \E r \in Nat \ {0} : \A j \in 1..Len(q) :
               /\ j < r => b + j \in 1..Len(log) /\ q[j] = log[b + j]
               /\ j > r => b + j - 1 \in 1..Len(log) /\ q[j] = log[b + j - 1]
               /\ j = r => replay[s] # None /\ q[j] = x
  <2> DEFINE front == SubSeq(log, b + 1, m)
             back == SubSeq(log, m + 1, n)
  <2>1. q = front \o <<x>> \o back
    BY <1>5 DEF Broken, Stretch
  <2> HIDE DEF b, q, x
  <2>2. m \in Nat /\ m \in 0..Len(log) /\ n \in m..Len(log) /\ m \in b..Len(log) /\ b <= m /\ m <= n
    BY <1>1, <1>2, <1>3
  <2>3. front \in Seq(Queued) /\ back \in Seq(Queued)
    BY <1>1, <2>2, StretchIsSeq
  <2>4. Len(front) = m - b /\ \A i \in 1..(m - b) : front[i] = log[b + i]
    BY <1>1, <2>2, StretchIsSeq
  <2>5. Len(back) = n - m /\ \A i \in 1..(n - m) : back[i] = log[m + i]
    BY <1>1, <2>2, StretchIsSeq
  <2> HIDE DEF front, back
  <2>6. /\ Len(q) = Len(front) + 1 + Len(back)
        /\ \A i \in 1..Len(front) : q[i] = front[i]
        /\ q[Len(front) + 1] = x
        /\ \A i \in 1..Len(back) : q[Len(front) + 1 + i] = back[i]
    BY <1>1, <2>1, <2>3, Elements
  <2>7. ASSUME NEW j \in 1..Len(q), j < m - b + 1
        PROVE  b + j \in 1..Len(log) /\ q[j] = log[b + j]
    <3>1. j \in 1..(m - b) /\ b + j \in 1..Len(log)
      BY <1>3, <2>2, <2>7
    <3> QED BY <2>4, <2>6, <3>1
  <2>8. ASSUME NEW j \in 1..Len(q), j > m - b + 1
        PROVE  b + j - 1 \in 1..Len(log) /\ q[j] = log[b + j - 1]
    <3> DEFINE i == j - (m - b + 1)
    <3>1. i \in 1..(n - m) /\ j = Len(front) + 1 + i /\ m + i = b + j - 1 /\ b + j - 1 \in 1..Len(log)
      BY <1>1, <1>3, <2>2, <2>4, <2>5, <2>6, <2>8
    <3> HIDE DEF i
    <3>2. q[j] = back[i] /\ back[i] = log[m + i]
      BY <2>5, <2>6, <3>1
    <3> QED BY <3>1, <3>2
  <2>9. q[m - b + 1] = x /\ m - b + 1 \in Nat \ {0}
    BY <1>3, <2>2, <2>4, <2>6
  <2>10. ASSUME NEW j \in 1..Len(q)
         PROVE  /\ j < m - b + 1 => b + j \in 1..Len(log) /\ q[j] = log[b + j]
                /\ j > m - b + 1 => b + j - 1 \in 1..Len(log) /\ q[j] = log[b + j - 1]
                /\ j = m - b + 1 => replay[s] # None /\ q[j] = x
    BY <1>5, <2>7, <2>8, <2>9
  <2> QED BY <2>9, <2>10
<1> QED BY <1>2, <1>4, <1>5

\* A session that reads a named key has read its keymap, unless the key overtook
\* the replay (hub.Subscribe replays the last keymap after the unlock).
THEOREM NamedByItsKeymapAlways == Spec => []NamedByItsKeymap
<1>1. HubInv => NamedByItsKeymap
  <2> SUFFICES ASSUME HubInv, NEW s \in Subscriptions, NEW i \in 1..Len(queue[s]),
                      queue[s][i].kind = "key", queue[s][i].of # None
               PROVE  \/ \E j \in 1..(i - 1) : ReadLast(queue[s], j, i)
                                                  /\ queue[s][j].of = queue[s][i].of
                      \/ Overtook(s, queue[s], i)
    BY DEF NamedByItsKeymap
  <2> DEFINE b == since[s]
             q == queue[s]
             k == q[i].of
  <2>1. PICK r \in Nat \ {0} : \A j \in 1..Len(q) :
          /\ j < r => b + j \in 1..Len(log) /\ q[j] = log[b + j]
          /\ j > r => b + j - 1 \in 1..Len(log) /\ q[j] = log[b + j - 1]
          /\ j = r => replay[s] # None /\ q[j] = Event("replay", replay[s])
    BY Layout
  <2>2. /\ Len(q) \in Nat /\ b \in 0..Len(log) /\ Len(log) \in Nat /\ log \in Seq(Logged)
        /\ \A j \in 1..Len(log) : log[j].kind \in Kinds
    <3>1. log \in Seq(Logged) /\ q \in Seq(Queued) /\ b \in Nat /\ b <= Len(log)
      BY Typed DEF HubInv, Remembered
    <3> HIDE DEF b, q
    <3>2. Len(q) \in Nat /\ Len(log) \in Nat /\ \A j \in 1..Len(log) : log[j] \in Logged
      BY <3>1
    <3> QED BY <3>1, <3>2 DEF Logged
  <2>3. InForce(log, replay[s], b)
    BY DEF HubInv, Remembered
  <2>4. \A j \in 1..Len(log) : log[j].kind # "replay"
    BY <2>2 DEF Kinds
  <2>5. Event("replay", replay[s]).kind = "replay" /\ Event("replay", replay[s]).of = replay[s]
    BY DEF Event
  <2>6. ASSUME NEW p \in 1..b, log[p].kind = "keymap"
        PROVE  /\ replay[s] # None
               /\ (\A l \in (p + 1)..b : log[l].kind # "keymap") => log[p].of = replay[s]
    <3>1. replay[s] # None
      BY <2>3, <2>6 DEF InForce
    <3>2. PICK o \in 1..b : /\ log[o].kind = "keymap" /\ log[o].of = replay[s]
                            /\ \A l \in (o + 1)..b : log[l].kind # "keymap"
      BY <2>3, <3>1 DEF InForce
    <3>3. p < o => o \in (p + 1)..b
      BY <2>2
    <3>4. o < p => p \in (o + 1)..b
      BY <2>2
    <3> QED BY <2>2, <2>6, <3>1, <3>2, <3>3, <3>4
  <2>7. CASE i < r
    <3>1. b + i \in 1..Len(log) /\ q[i] = log[b + i]
      BY <2>1, <2>7
    <3>2. InForce(log, k, b + i - 1)
      <4>1. \A l \in 1..Len(log) : log[l].kind = "key" /\ log[l].of # None => InForce(log, log[l].of, l - 1)
        BY DEF HubInv, Remembered
      <4>2. k = log[b + i].of /\ log[b + i].kind = "key" /\ k # None
        BY <3>1
      <4>3. (b + i) - 1 = b + i - 1
        <5>1. i \in Int /\ b \in Int
          BY <2>2
        <5> HIDE DEF b
        <5> QED BY <5>1
      <4> HIDE DEF k, b, q
      <4>4. InForce(log, log[b + i].of, (b + i) - 1)
        <5> DEFINE l == b + i
        <5>1. l \in 1..Len(log) /\ log[l].kind = "key" /\ log[l].of # None
          BY <3>1, <4>2
        <5> HIDE DEF l
        <5>2. InForce(log, log[l].of, l - 1)
          BY <4>1, <5>1
        <5> QED BY <5>2 DEF l
      <4> QED BY <4>2, <4>3, <4>4, Zenon
    <3>3. PICK p \in 1..(b + i - 1) : /\ log[p].kind = "keymap" /\ log[p].of = k
                                      /\ \A l \in (p + 1)..(b + i - 1) : log[l].kind # "keymap"
      BY <3>2 DEF InForce
    <3>4. CASE p > b
      <4>1. p - b \in 1..(i - 1) /\ p - b \in 1..Len(q) /\ p - b < r /\ b + (p - b) = p
        BY <2>2, <2>7, <3>4
      <4>2. q[p - b] = log[p]
        BY <2>1, <4>1
      <4>3. ASSUME NEW l \in (p - b + 1)..(i - 1) PROVE ~TellsKeymap(q[l])
        <5>1. l \in 1..Len(q) /\ l < r /\ b + l \in (p + 1)..(b + i - 1)
          BY <2>2, <2>7, <3>4
        <5>2. q[l] = log[b + l] /\ b + l \in 1..Len(log)
          BY <2>1, <5>1
        <5> QED BY <2>4, <3>3, <5>1, <5>2 DEF TellsKeymap
      <4> QED BY <3>3, <4>1, <4>2, <4>3 DEF ReadLast, TellsKeymap
    <3>5. CASE p <= b
      <4>1. replay[s] # None
        BY <2>2, <2>6, <3>3, <3>5
      <4>2. ASSUME NEW j \in 1..(i - 1) PROVE q[j].kind # "replay"
        <5>1. j \in 1..Len(q) /\ j < r
          BY <2>2, <2>7
        <5> QED BY <2>1, <2>4, <5>1
      <4> QED BY <4>1, <4>2 DEF Overtook
    <3> QED BY <2>2, <3>4, <3>5
  <2>8. CASE i > r
    <3>1. b + i - 1 \in 1..Len(log) /\ q[i] = log[b + i - 1]
      BY <2>1, <2>8
    <3>2. InForce(log, k, b + i - 2)
      <4>1. \A l \in 1..Len(log) : log[l].kind = "key" /\ log[l].of # None => InForce(log, log[l].of, l - 1)
        BY DEF HubInv, Remembered
      <4>2. (b + i - 1) - 1 = b + i - 2
        <5>1. i \in Int /\ b \in Int
          BY <2>2
        <5> HIDE DEF b
        <5> QED BY <5>1
      <4>3. k = log[b + i - 1].of /\ log[b + i - 1].kind = "key" /\ k # None
        BY <3>1
      <4> HIDE DEF k, b, q
      <4> QED BY <3>1, <4>1, <4>2, <4>3
    <3>3. PICK p \in 1..(b + i - 2) : /\ log[p].kind = "keymap" /\ log[p].of = k
                                      /\ \A l \in (p + 1)..(b + i - 2) : log[l].kind # "keymap"
      BY <3>2 DEF InForce
    <3>4. r \in 1..Len(q) /\ r \in 1..(i - 1) /\ q[r].kind = "replay" /\ q[r].of = replay[s]
      <4>1. r \in 1..Len(q) /\ r \in 1..(i - 1)
        BY <2>2, <2>8
      <4> QED BY <2>1, <2>5, <4>1
    <3>5. ASSUME NEW l \in (r + 1)..(i - 1), b + l - 1 \in (p + 1)..(b + i - 2)
          PROVE  ~TellsKeymap(q[l])
      <4>1. l \in 1..Len(q) /\ l > r
        BY <2>2, <3>4
      <4>2. q[l] = log[b + l - 1] /\ b + l - 1 \in 1..Len(log)
        BY <2>1, <4>1
      <4> QED BY <2>4, <3>3, <3>5, <4>2 DEF TellsKeymap
    <3>6. CASE p > b + r - 1
      <4> DEFINE j == p - b + 1
      <4>1. j \in 1..(i - 1) /\ j \in 1..Len(q) /\ j > r /\ b + j - 1 = p
        BY <2>2, <2>8, <3>6
      <4>2. q[j] = log[p]
        BY <2>1, <4>1
      <4>3. ASSUME NEW l \in (j + 1)..(i - 1) PROVE ~TellsKeymap(q[l])
        <5>1. l \in Int /\ j + 1 <= l /\ l <= i - 1 /\ j = p - b + 1 /\ r < j
          BY <2>2, <4>1
        <5> HIDE DEF j
        <5>2. l \in (r + 1)..(i - 1) /\ b + l - 1 \in (p + 1)..(b + i - 2)
          BY <2>2, <5>1
        <5> QED BY <3>5, <5>2
      <4> QED BY <3>3, <4>1, <4>2, <4>3 DEF ReadLast, TellsKeymap
    <3>7. CASE b < p /\ p <= b + r - 1
      <4> DEFINE j == p - b
      <4>1. j \in 1..(i - 1) /\ j \in 1..Len(q) /\ j < r /\ b + j = p
        BY <2>2, <2>8, <3>7
      <4>2. q[j] = log[p]
        BY <2>1, <4>1
      <4> QED BY <3>3, <3>4, <4>1, <4>2 DEF Overtook
    <3>8. CASE p <= b
      <4>1. p \in 1..b /\ \A l \in (p + 1)..b : l \in (p + 1)..(b + i - 2)
        BY <2>2, <2>8, <3>8
      <4>2. k = replay[s]
        BY <2>6, <3>3, <4>1
      <4>3. ASSUME NEW l \in (r + 1)..(i - 1) PROVE ~TellsKeymap(q[l])
        <5>1. b + l - 1 \in (p + 1)..(b + i - 2)
          BY <2>2, <3>8
        <5> QED BY <3>5, <5>1
      <4> QED BY <3>4, <4>2, <4>3 DEF ReadLast, TellsKeymap
    <3> QED BY <2>2, <3>6, <3>7, <3>8
  <2>9. i # r
    BY <2>1, <2>5
  <2> QED BY <2>2, <2>7, <2>8, <2>9
<1> QED BY <1>1, HubInvariant, PTL
=============================================================================
