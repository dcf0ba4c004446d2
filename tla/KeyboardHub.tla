----------------------------- MODULE KeyboardHub -----------------------------
(***************************************************************************)
(* realWaylandKeyboardEventHub (wayland_overlay.go) with its xkb state        *)
(* (xkb_state_cgo.go): the handlers of one wl_keyboard, the subscriptions of   *)
(* the sessions, and Close.  A handler runs in whatever goroutine dispatches   *)
(* the connection, one at a time; it lets go of queueMu between its steps.    *)
(* dispatchOnce does not wait for the handler that runs when its context ends, *)
(* so that subscriptions and Close may come between any two steps.            *)
(*                                                                         *)
(* A keymap is its number, in the order of their events; a key is told by the *)
(* keymap that named it, or 0 if it has a fallback name.  Here a queue keeps   *)
(* what was pushed: EventQueue has the reader.                               *)
(***************************************************************************)
EXTENDS Integers, Sequences

CONSTANTS Subscriptions,
          MaxEvent        \* events of the keyboard; unbounded in reality

ASSUME HubAssumption == MaxEvent \in Nat

None == 0
Kinds == {"keymap", "key", "modifiers", "other"}   \* other: enter, leave, repeat

VARIABLES
  handler,      \* the handler that runs: where it is, its event, did it get h.xkb
  sent,         \* keyboard events so far
  xkb,          \* h.xkb is not nil
  freed,        \* xkbKeyboardState.Close was called
  loaded,       \* the keymap of the xkb state, or None
  failed,       \* backend.fatalErr
  closed,       \* h.closed
  lastKeymap,   \* h.lastKeymap, or None
  subscribers,  \* h.subscribers
  pc,           \* per subscription: "none", "replay", "ready", "closing", "gone"
  replay,       \* per subscription: the keymap that Subscribe took
  queue,        \* per subscription: what was pushed
  ended,        \* per subscription: its queue is closed or has an error
  log, since    \* history: what the hub enqueued, and how much of it before

xkbVars == <<xkb, freed, loaded>>
hubVars == <<closed, lastKeymap, subscribers>>
subVars == <<pc, replay, queue, ended, since>>
vars == <<handler, sent, xkbVars, failed, hubVars, subVars, log>>

Event(kind, of) == [kind |-> kind, of |-> of]
Idle == [at |-> "idle", event |-> Event("other", None), has |-> FALSE]

TypeOK ==
  /\ handler \in [at : {"idle", "take", "use", "enqueue", "fatal", "tell"},
                  event : [kind : Kinds, of : 0..MaxEvent], has : BOOLEAN]
  /\ sent \in 0..MaxEvent /\ loaded \in 0..MaxEvent /\ lastKeymap \in 0..MaxEvent
  /\ xkb \in BOOLEAN /\ freed \in BOOLEAN /\ failed \in BOOLEAN /\ closed \in BOOLEAN
  /\ subscribers \subseteq Subscriptions
  /\ pc \in [Subscriptions -> {"none", "replay", "ready", "closing", "gone"}]
  /\ replay \in [Subscriptions -> 0..MaxEvent]
  /\ queue \in [Subscriptions -> Seq([kind : Kinds \cup {"replay"}, of : 0..MaxEvent])]
  /\ ended \subseteq Subscriptions /\ since \in [Subscriptions -> Nat]
  /\ log \in Seq([kind : Kinds, of : 0..MaxEvent])

\* newRealWaylandKeyboardEventHub: without an xkb context the backend is fatal.
Init ==
  /\ handler = Idle /\ sent = 0
  /\ xkb \in BOOLEAN /\ freed = FALSE /\ loaded = None
  /\ failed = ~xkb /\ closed = FALSE /\ lastKeymap = None /\ subscribers = {}
  /\ pc = [s \in Subscriptions |-> "none"] /\ replay = [s \in Subscriptions |-> None]
  /\ queue = [s \in Subscriptions |-> <<>>] /\ ended = {}
  /\ log = <<>> /\ since = [s \in Subscriptions |-> 0]

-----------------------------------------------------------------------------
(* The handlers. *)

\* An event is read from the wire; dispatchOnce refuses after a fatal error.
Arrives == /\ handler.at = "idle" /\ ~failed /\ sent < MaxEvent
           /\ sent' = sent + 1
           /\ UNCHANGED <<xkbVars, failed, hubVars, subVars, log>>

\* readWaylandKeymapFD: the bytes it reads of a file of that length, or Short.
\* The size 0 stands for all there is.
Short == -1
ReadKeymap(size, length) == IF size = 0 THEN length ELSE IF length < size THEN Short ELSE size

\* handleKeymap up to SetKeymap, which refuses a keymap without a byte; the
\* event may also come without a file or in another format.
ReceiveKeymap ==
  /\ Arrives
  /\ \E size \in 0..2, length \in 0..2, format \in BOOLEAN :
       handler' = IF format /\ ReadKeymap(size, length) > 0
                    THEN [Idle EXCEPT !.at = "take", !.event = Event("keymap", sent')]
                    ELSE [Idle EXCEPT !.at = "fatal"]

\* The other handlers of Attach: keyName, modifiers and updateModifiers need xkb.
Receive(kind) ==
  /\ Arrives
  /\ handler' = [Idle EXCEPT !.at = IF kind = "other" THEN "enqueue" ELSE "take",
                             !.event = Event(kind, None)]

TakeXKB ==
  /\ handler.at = "take"
  /\ handler' = [handler EXCEPT !.at = "use", !.has = xkb]
  /\ UNCHANGED <<sent, xkbVars, failed, hubVars, subVars, log>>

Usable == handler.has /\ ~freed

\* xkbKeyboardState.SetKeymap: what does not compile leaves the old keymap.
SetKeymap ==
  /\ handler.at = "use" /\ handler.event.kind = "keymap"
  /\ \/ /\ Usable
        /\ loaded' = handler.event.of
        /\ handler' = [handler EXCEPT !.at = "enqueue"]
     \/ handler' = [handler EXCEPT !.at = "fatal"] /\ UNCHANGED loaded
  /\ UNCHANGED <<sent, xkb, freed, failed, hubVars, subVars, log>>

\* KeyName, Modifiers, UpdateMask; without a state of xkb the fallback.
NameKey ==
  /\ handler.at = "use" /\ handler.event.kind \in {"key", "modifiers"}
  /\ handler' = [handler EXCEPT !.at = "enqueue", !.event.of = IF Usable THEN loaded ELSE None]
  /\ UNCHANGED <<sent, xkbVars, failed, hubVars, subVars, log>>

\* overlayEventQueue.push
Pushed(s, event) == IF s \in ended THEN queue[s] ELSE Append(queue[s], event)

\* Faulty variants: one subscription gets the event; the first keymap stays.
OneReceiver == {s \in subscribers : s = CHOOSE t \in subscribers : TRUE}
Receivers == subscribers
RemembersFirst(event) == IF lastKeymap = None THEN event.of ELSE lastKeymap
Remembers(event) == event.of

Enqueue ==
  /\ handler.at = "enqueue" /\ handler' = Idle
  /\ \/ closed /\ UNCHANGED <<lastKeymap, queue, log>>
     \/ /\ ~closed
        /\ log' = Append(log, handler.event)
        /\ lastKeymap' = IF handler.event.kind = "keymap" THEN Remembers(handler.event) ELSE lastKeymap
        /\ queue' = [s \in Subscriptions |->
                       IF s \in Receivers THEN Pushed(s, handler.event) ELSE queue[s]]
  /\ UNCHANGED <<sent, xkbVars, failed, closed, subscribers, pc, replay, ended, since>>

SetFatal ==
  /\ handler.at = "fatal" /\ handler' = [handler EXCEPT !.at = "tell"]
  /\ failed' = TRUE
  /\ UNCHANGED <<sent, xkbVars, hubVars, subVars, log>>

TellFatal ==
  /\ handler.at = "tell" /\ handler' = Idle
  /\ ended' = ended \cup subscribers
  /\ UNCHANGED <<sent, xkbVars, failed, hubVars, pc, replay, queue, since, log>>

-----------------------------------------------------------------------------
(* The subscriptions. *)

\* Faulty variant: a closed hub still takes subscriptions.
NeverRefuses == FALSE
Refuses == closed

Subscribe(s) ==
  /\ pc[s] = "none"
  /\ \/ /\ Refuses
        /\ ended' = ended \cup {s}
        /\ pc' = [pc EXCEPT ![s] = "ready"]
        /\ UNCHANGED <<subscribers, replay>>
     \/ /\ ~Refuses
        /\ subscribers' = subscribers \cup {s}
        /\ replay' = [replay EXCEPT ![s] = lastKeymap]
        /\ pc' = [pc EXCEPT ![s] = "replay"]
        /\ UNCHANGED ended
  /\ since' = [since EXCEPT ![s] = Len(log)]
  /\ UNCHANGED <<handler, sent, xkbVars, failed, closed, lastKeymap, queue, log>>

\* The keymap is pushed after the unlock.
Replay(s) ==
  /\ pc[s] = "replay" /\ pc' = [pc EXCEPT ![s] = "ready"]
  /\ queue' = IF replay[s] = None THEN queue
              ELSE [queue EXCEPT ![s] = Pushed(s, Event("replay", replay[s]))]
  /\ UNCHANGED <<handler, sent, xkbVars, failed, hubVars, replay, ended, since, log>>

Unsubscribe(s) ==
  /\ pc[s] = "ready" /\ pc' = [pc EXCEPT ![s] = "closing"]
  /\ subscribers' = subscribers \ {s}
  /\ UNCHANGED <<handler, sent, xkbVars, failed, closed, lastKeymap, replay, queue, ended, since, log>>

CloseQueue(s) ==
  /\ pc[s] = "closing" /\ pc' = [pc EXCEPT ![s] = "gone"]
  /\ ended' = ended \cup {s}
  /\ UNCHANGED <<handler, sent, xkbVars, failed, hubVars, replay, queue, since, log>>

-----------------------------------------------------------------------------
(* realWaylandKeyboardEventHub.Close *)

CloseHub ==
  /\ ~closed /\ closed' = TRUE
  /\ ended' = ended \cup subscribers
  /\ subscribers' = {} /\ xkb' = FALSE
  /\ UNCHANGED <<handler, sent, freed, loaded, failed, lastKeymap, pc, replay, queue, since, log>>

FreeXKB ==
  /\ closed /\ ~freed /\ freed' = TRUE
  /\ loaded' = None
  /\ UNCHANGED <<handler, sent, xkb, failed, hubVars, subVars, log>>

-----------------------------------------------------------------------------
HandlerStep == TakeXKB \/ SetKeymap \/ NameKey \/ Enqueue \/ SetFatal \/ TellFatal
SubscriptionStep(s) == Subscribe(s) \/ Replay(s) \/ Unsubscribe(s) \/ CloseQueue(s)

Next == \/ ReceiveKeymap \/ (\E kind \in Kinds \ {"keymap"} : Receive(kind)) \/ HandlerStep
        \/ (\E s \in Subscriptions : SubscriptionStep(s)) \/ CloseHub \/ FreeXKB

Spec == Init /\ [][Next]_vars

-----------------------------------------------------------------------------
\* The events from place m + 1 to place n of what the hub enqueued.
Stretch(m, n) == SubSeq(log, m + 1, n)

\* A subscription gets every event that the hub enqueues after it registered, in
\* order and once, until its queue ends, and among them at most one replay, of the
\* keymap it registered with: keyboard events are not silently dropped
\* (vibedrive-plan.yaml), however many sessions are subscribed.
SeesAll ==
  \A s \in Subscriptions : \E n \in since[s]..Len(log) :
    /\ s \in subscribers \ ended => n = Len(log)
    /\ \/ queue[s] = Stretch(since[s], n)
       \/ \E m \in since[s]..n :
            queue[s] = Stretch(since[s], m) \o <<Event("replay", replay[s])>> \o Stretch(m, n)

TellsKeymap(event) == event.kind \in {"keymap", "replay"}
\* The reader of place i of a queue has read the keymap of place j last.
ReadLast(q, j, i) == /\ TellsKeymap(q[j])
                     /\ \A k \in (j + 1)..(i - 1) : ~TellsKeymap(q[k])
\* An event that came between the registration and the replay may be named by a
\* keymap that the queue does not have yet, or has in the wrong order.
Overtook(s, q, i) == \/ replay[s] # None /\ \A j \in 1..(i - 1) : q[j].kind # "replay"
                     \/ \E j, k \in 1..(i - 1) : j < k /\ q[j].kind = "keymap" /\ q[k].kind = "replay"

\* A session that reads a key has read the keymap that named it, also one that
\* subscribed long after that keymap (Subscribe, and the tests of its replay).
NamedByItsKeymap ==
  \A s \in Subscriptions : \A i \in 1..Len(queue[s]) :
    LET key == queue[s][i]
    IN key.kind = "key" /\ key.of # None
         => \/ \E j \in 1..(i - 1) : ReadLast(queue[s], j, i) /\ queue[s][j].of = key.of
            \/ Overtook(s, queue[s], i)

\* Nobody waits for the events of a closed hub: a session that subscribes while
\* the backend is closed gets a queue that has ended.
ClosedHubEnds == closed => {s \in Subscriptions : pc[s] \in {"replay", "ready"}} \subseteq ended
=============================================================================
