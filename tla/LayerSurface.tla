---------------------------- MODULE LayerSurface ----------------------------
(***************************************************************************)
(* realLayerShellSurface on its Wayland connection (wayland_overlay.go,      *)
(* wayland_client.go): the goroutines of one session share one socket under  *)
(* realWaylandOverlayBackend.wlMu, which whoever dispatches keeps while it   *)
(* is blocked in the read.  A cancelled context gets it out by closing the   *)
(* connection.                                                             *)
(*                                                                         *)
(* "show" is ShowOverlay's goroutine, "kbd" and "life" the loops it starts,  *)
(* and "down" whoever took the session away from the driver; OverlayDriver   *)
(* says who that is.  The compositor is external.  The monitor's size and   *)
(* the letters typed stand for all that a frame shows.                       *)
(*                                                                         *)
(* Another session, the guest, may be shown before this one is installed or   *)
(* after it is given up.  The lazy backend (overlay_production.go) gives it   *)
(* this session's connection or opens the next one; of the guest there is    *)
(* only what it does to the connections.                                    *)
(***************************************************************************)
EXTENDS Integers, Sequences, FiniteSets

CONSTANTS Inputs,    \* what may happen: a subset of AllInputs
          MaxEvents, \* events the compositor sends; unbounded in reality
          MaxShared  \* and when another session shares the connection

AllInputs == {"configure", "key", "closed",
              "error",   \* a protocol error, or a keymap that cannot be used
              "lost",    \* the compositor hangs up
              "cancel",  \* hide, the toggle or a click
              "stop",    \* the daemon's context ends while it shows
              "show"}    \* another session is shown

ASSUME SurfaceAssumption == Inputs \subseteq AllInputs /\ MaxEvents \in Nat /\ MaxShared \in Nat

Painters == {"show", "kbd", "life"}
Buffers == 1 .. MaxEvents + 1     \* every event makes one frame at the most
Frame == [size : 1 .. MaxEvents + 1, input : 0..MaxEvents]
Blank == [size |-> 0, input |-> 0]

VARIABLES
  conn,       \* "open", "closed" by the daemon, "lost"
  held,       \* lazyWaylandOverlayBackend.backend: "this", "next" or "none"
  next,       \* the connection of a later show: "none", "open", "closed", "lost"
  fatal,      \* backend.fatalErr: "no", "network" (wraps net.ErrClosed), "eof"
              \* (wraps io.EOF), "other"
  wlMu,       \* who dispatches on this connection, or "free"
  straggler,  \* the goroutine a cancelled dispatchOnce left behind still reads
  wire,       \* events the compositor has sent and nobody has read
  sent,       \* how many it has sent
  proxy,      \* the wl_surface: "none", "live", "destroyed"
  frame,      \* what it shows, or Blank
  configured, closed,   \* of realLayerShellSurface
  buffers,    \* realLayerShellSurface.buffers
  mapped,     \* the shm buffers that are in memory
  made,       \* shm buffers made so far
  owned,      \* d.session is this session
  ctxDone,    \* session.ctx
  stopping,   \* the context of the IPC handlers has ended
  size, input,   \* session.monitor and session.coordinate
  keys,       \* the subscription's queue; "destroy" is KeyboardEventDestroy, "eof"
              \* its end, where pop returns io.ErrClosedPipe
  news,       \* the lifecycle queue: sizes, 0 for CompositorClose
  shut,       \* both sources are closed
  pc,         \* per painter
  snap, mine, \* per painter: the frame it draws and the buffer it draws it in
  down,       \* the teardown: "no", "cancel", "close", "unmap", "mark", "objects",
              \* "buffers", "reset", "done"
  how,        \* what it is: "unmap" first, the same for a "request", "raw", or a
              \* "show" that gave up
  taken,      \* the buffers it took over
  failure,    \* its error so far: "none", "network", "other"
  guest,      \* the other session: "none", "create", "making", "owned", "leaving",
              \* "reset"
  uses,       \* its connection: "this" or "next"
  shared      \* history: it got this one before this session was over

wlVars == <<conn, held, next, fatal, wlMu, straggler>>
eventVars == <<wire, sent>>
surfaceVars == <<proxy, frame, configured, closed>>
bufferVars == <<buffers, mapped, made>>
sessionVars == <<owned, ctxDone, stopping, size, input>>
queueVars == <<keys, news, shut>>
paintVars == <<pc, snap, mine>>
downVars == <<down, how, taken, failure>>
guestVars == <<guest, uses, shared>>
vars == <<wlVars, eventVars, surfaceVars, bufferVars, sessionVars, queueVars, paintVars, downVars,
          guestVars>>

Places == {"off", "create", "wait", "pump", "dispatch", "alloc", "commit", "append", "grab",
           "install", "pop", "done"}
TypeOK ==
  /\ conn \in {"open", "closed", "lost"} /\ held \in {"this", "next", "none"}
  /\ next \in {"none", "open", "closed", "lost"} /\ fatal \in {"no", "network", "eof", "other"} /\ straggler \in BOOLEAN
  /\ wlMu \in Painters \cup {"guest", "free"} /\ sent \in 0..MaxEvents
  /\ proxy \in {"none", "live", "destroyed"} /\ frame \in Frame \cup {Blank}
  /\ buffers \subseteq mapped /\ mapped \subseteq 1..made /\ made \in 0..(MaxEvents + 1)
  /\ size \in 1 .. MaxEvents + 1 /\ input \in 0..MaxEvents
  /\ pc \in [Painters -> Places] /\ mine \in [Painters -> Buffers \cup {0}]
  /\ down \in {"no", "cancel", "close", "unmap", "mark", "objects", "buffers", "reset", "done"}
  /\ taken \subseteq Buffers /\ failure \in {"none", "network", "other"}
  /\ guest \in {"none", "create", "making", "owned", "leaving", "reset"}
  /\ uses \in {"this", "next"} /\ shared \in BOOLEAN

\* lazyWaylandOverlayBackend.ensure: the connection that the session uses.
Ensured == held = "this" /\ conn = "open" /\ next = "none" /\ fatal = "no"

Init ==
  /\ Ensured /\ wlMu = "free" /\ straggler = FALSE
  /\ wire = <<>> /\ sent = 0
  /\ proxy = "none" /\ frame = Blank /\ configured = FALSE /\ closed = FALSE
  /\ buffers = {} /\ mapped = {} /\ made = 0
  /\ owned = FALSE /\ ctxDone = FALSE /\ stopping = FALSE /\ size = 1 /\ input = 0
  /\ keys = <<>> /\ news = <<>> /\ shut = FALSE
  /\ pc = [p \in Painters |-> IF p = "show" THEN "create" ELSE "off"]
  /\ snap = [p \in Painters |-> Blank] /\ mine = [p \in Painters |-> 0]
  /\ down = "no" /\ how = "none" /\ taken = {} /\ failure = "none"
  /\ guest = "none" /\ uses = "this" /\ shared = FALSE

-----------------------------------------------------------------------------
(* withWayland: the context and fatalErr are asked before the lock and again  *)
(* under it; then the call writes to the socket.                            *)

Over(p) == IF p = "show" THEN stopping ELSE ctxDone

\* Faulty variant: only fatalErr is asked again.
EntersLate(p) == fatal = "no"
Enters(p) == ~Over(p) /\ fatal = "no"
Refused(p) == Over(p) \/ fatal # "no"

\* The call is made, or fails.
Sends(p) == wlMu = "free" /\ Enters(p) /\ conn = "open"
SendFails(p) == Refused(p) \/ (wlMu = "free" /\ conn # "open")

At(p, place) == pc[p] = place
To(p, place) == pc' = [pc EXCEPT ![p] = place]

\* Faulty variant: a loop that cannot read just returns.
ReturnsOnly(p, kind) == To(p, "done") /\ UNCHANGED <<owned, ctxDone, downVars>>

\* finishSession by a loop that returns: a teardown starts if it is the first.
LeavesFor(p, kind) ==
  /\ To(p, "done")
  /\ IF owned
       THEN owned' = FALSE /\ down' = "cancel" /\ how' = kind
       ELSE UNCHANGED <<owned, down, how>>
  /\ UNCHANGED <<ctxDone, taken, failure>>

\* ShowOverlay gives up: cancel(), then destroyOverlaySurface without an unmap.
Abandon ==
  /\ To("show", "done")
  /\ ctxDone' = TRUE /\ down' = "mark" /\ how' = "show"
  /\ UNCHANGED <<owned, taken, failure>>

\* It lost the race: cancel(), then destroyOverlaySession, which unmaps.
LosesRace ==
  /\ To("show", "done")
  /\ ctxDone' = TRUE /\ down' = "close" /\ how' = "show"
  /\ UNCHANGED <<owned, taken, failure>>

GivesUp(p) == CASE p = "show" -> Abandon
                [] p = "kbd" -> LeavesFor(p, "unmap")
                [] p = "life" -> LeavesFor(p, "raw")

-----------------------------------------------------------------------------
(* realWaylandOverlayBackend.dispatchOnce over realWaylandBaseDriver's.        *)

\* setFatal keeps the first.
FirstFatal(err) == IF fatal = "no" THEN err ELSE fatal

\* The session is subscribed to the keyboard hub, which ends with its backend: from
\* GrabKeyboard on.  What a session that was given up there hears nobody reads.
Heard == ~shut /\ (At("show", "install") \/ ~At("kbd", "off")) /\ held = "this"

\* The handlers of the surface, the keyboard hub and the display.
Handle(e) ==
  /\ configured' = (configured \/ e.kind = "configure")
  /\ closed' = (closed \/ e.kind = "closed")
  /\ fatal' = IF e.kind = "error" THEN FirstFatal("other") ELSE fatal
  /\ news' = CASE shut -> news
               [] ~shut /\ e.kind = "configure" /\ configured -> Append(news, e.size)
               [] ~shut /\ e.kind = "closed" -> Append(news, 0)
               [] OTHER -> news
  /\ keys' = CASE Heard /\ e.kind = "key" -> Append(keys, "key")
               [] Heard /\ e.kind = "closed" -> Append(keys, "destroy")
               [] OTHER -> keys
  /\ wire' = Tail(wire)
  /\ UNCHANGED <<sent, proxy, frame, shut>>

\* Who wants to dispatch: waitForConfigure, and pop with nothing to take.
Wants(p) == \/ p = "show" /\ At(p, "wait") /\ ~configured /\ ~closed
            \/ p = "kbd" /\ At(p, "pop") /\ keys = <<>> /\ ~shut

\* They ask under locks of their own: what another reader of the connection
\* handles in between does not keep them from the read.
Pump(p) ==
  /\ Wants(p)
  /\ To(p, "pump")
  /\ UNCHANGED <<wlVars, eventVars, surfaceVars, bufferVars, sessionVars, queueVars, snap, mine, downVars>>

BeginDispatch(p) ==
  /\ At(p, "pump") /\ wlMu = "free" /\ Enters(p)
  /\ wlMu' = p
  /\ To(p, "dispatch")
  /\ UNCHANGED <<held, next, conn, fatal, straggler, eventVars, surfaceVars, bufferVars, sessionVars,
                 queueVars, snap, mine, downVars>>

\* At context.Canceled and io.EOF the keyboard loop returns and leaves the session
\* as it is.
Leaves(p, err) ==
  IF p = "kbd" /\ (ctxDone \/ err = "eof")
    THEN To(p, "done") /\ UNCHANGED <<owned, ctxDone, downVars>>
    ELSE GivesUp(p)

RefuseDispatch(p) ==
  /\ At(p, "pump") /\ Refused(p)
  /\ Leaves(p, fatal)
  /\ UNCHANGED <<wlVars, eventVars, surfaceVars, bufferVars, stopping, size, input,
                 queueVars, snap, mine>>

DispatchEvent(p) ==
  /\ At(p, "dispatch") /\ conn = "open" /\ wire # <<>>
  /\ Handle(Head(wire))
  /\ wlMu' = "free"
  /\ IF fatal' # "no"
       THEN GivesUp(p)
       ELSE To(p, IF p = "show" THEN "wait" ELSE "pop") /\ UNCHANGED <<owned, ctxDone, downVars>>
  /\ UNCHANGED <<held, next, conn, straggler, bufferVars, stopping, size, input, snap, mine>>

\* Faulty variant: nothing gets the read out of the socket.
DeafDispatch(p) == FALSE
\* The context ends first: the connection is closed under the reader.
Interrupts(p) == Over(p)

CancelDispatch(p) ==
  /\ At(p, "dispatch") /\ Interrupts(p)
  /\ conn' = "closed" /\ straggler' = TRUE /\ wlMu' = "free"
  /\ IF p = "kbd"
       THEN To(p, "done") /\ UNCHANGED <<owned, ctxDone, downVars>>
       ELSE GivesUp(p)
  /\ UNCHANGED <<held, next, fatal, eventVars, surfaceVars, bufferVars, stopping, size, input,
                 queueVars, snap, mine>>

\* What a read gets from a connection that is gone: io.EOF when the compositor
\* closed it, or ECONNRESET if it left requests unread.
ReadErrors == IF conn = "closed" THEN {"network"} ELSE {"eof", "other"}

\* The read fails for another reason, which is fatal unless the context ended.
FailDispatch(p) ==
  /\ At(p, "dispatch") /\ conn # "open"
  /\ wlMu' = "free"
  /\ \E err \in ReadErrors :
       /\ fatal' = IF Over(p) THEN fatal ELSE FirstFatal(err)
       /\ Leaves(p, err)
  /\ UNCHANGED <<held, next, conn, straggler, eventVars, surfaceVars, bufferVars, stopping, size, input,
                 queueVars, snap, mine>>

\* The goroutine of a cancelled dispatchOnce reads nothing, or is in a handler,
\* without wlMu: its ack of a configure may find the connection closed.
Straggle ==
  /\ straggler
  /\ straggler' = FALSE
  /\ \/ UNCHANGED <<fatal, eventVars, surfaceVars, queueVars>>
     \/ wire # <<>> /\ Handle(Head(wire))
     \/ /\ wire # <<>> /\ Head(wire).kind = "configure"
        /\ fatal' = FirstFatal("network")
        /\ wire' = Tail(wire)
        /\ UNCHANGED <<sent, surfaceVars, queueVars>>
  /\ UNCHANGED <<held, next, conn, wlMu, bufferVars, sessionVars, paintVars, downVars>>

-----------------------------------------------------------------------------
(* Configure and Render: newSHMBuffer, the commit, and the list of buffers.    *)

\* What configureAndRender is given, read under the driver's lock.
Draws(p, s, i) ==
  /\ To(p, "alloc")
  /\ snap' = [snap EXCEPT ![p] = [size |-> s, input |-> i]]

AllocBuffer(p) ==
  /\ At(p, "alloc")
  /\ \/ /\ Sends(p)
        /\ made' = made + 1
        /\ mapped' = mapped \cup {made'}
        /\ mine' = [mine EXCEPT ![p] = made']
        /\ To(p, "commit")
        /\ UNCHANGED <<owned, ctxDone, downVars>>
     \/ /\ SendFails(p)
        /\ GivesUp(p)
        /\ UNCHANGED <<made, mapped, mine>>
  /\ UNCHANGED <<wlVars, eventVars, surfaceVars, buffers, stopping, size, input, queueVars, snap>>

CommitFrame(p) ==
  /\ At(p, "commit")
  /\ \/ /\ Sends(p)
        /\ frame' = snap[p]
        /\ To(p, "append")
        /\ UNCHANGED <<mapped, owned, ctxDone, downVars>>
     \/ /\ SendFails(p)
        /\ mapped' = mapped \ {mine[p]}
        /\ GivesUp(p)
        /\ UNCHANGED frame
  /\ UNCHANGED <<wlVars, eventVars, proxy, configured, closed, buffers, made, stopping, size, input,
                 queueVars, snap, mine>>

\* s.buffers gets the buffer in a lock region of its own, after the commit.
KeepBuffer(p) ==
  /\ At(p, "append")
  /\ buffers' = buffers \cup {mine[p]}
  /\ To(p, CASE p = "show" -> "grab" [] p = "kbd" -> "pop" [] p = "life" -> "wait")
  /\ UNCHANGED <<wlVars, eventVars, surfaceVars, mapped, made, sessionVars, queueVars, snap, mine, downVars>>

-----------------------------------------------------------------------------
(* ShowOverlay. *)

CreateSurface ==
  /\ At("show", "create")
  /\ \/ /\ Sends("show")
        /\ proxy' = "live"
        /\ To("show", "wait")
     \/ /\ SendFails("show")
        /\ To("show", "done")
        /\ UNCHANGED proxy
  /\ UNCHANGED <<wlVars, eventVars, frame, configured, closed, bufferVars, sessionVars, queueVars,
                 snap, mine, downVars>>

Waited == configured

\* waitForConfigure is over.
Configured ==
  /\ At("show", "wait")
  /\ \/ Waited /\ Draws("show", size, input) /\ UNCHANGED <<owned, ctxDone, downVars>>
     \/ ~Waited /\ closed /\ Abandon /\ UNCHANGED snap
  /\ UNCHANGED <<wlVars, eventVars, surfaceVars, bufferVars, stopping, size, input, queueVars, mine>>

\* GrabKeyboard asks its context only, and subscribes.  A hub that was closed ends a
\* new subscription at once.
GrabKeyboard ==
  /\ At("show", "grab")
  /\ \/ /\ ~stopping /\ To("show", "install")
        /\ keys' = IF held = "this" THEN keys ELSE <<"eof">>
        /\ UNCHANGED <<owned, ctxDone, downVars>>
     \/ stopping /\ Abandon /\ UNCHANGED keys
  /\ UNCHANGED <<wlVars, eventVars, surfaceVars, bufferVars, stopping, size, input, news, shut, snap, mine>>

\* A session that is there already makes it give up.
Install ==
  /\ At("show", "install")
  /\ \/ /\ guest # "owned"
        /\ owned' = TRUE
        /\ pc' = [show |-> "done", kbd |-> "pop", life |-> "wait"]
        /\ UNCHANGED <<ctxDone, downVars>>
     \/ guest = "owned" /\ LosesRace
  /\ UNCHANGED <<wlVars, eventVars, surfaceVars, bufferVars, stopping, size, input, queueVars, snap, mine>>

-----------------------------------------------------------------------------
(* The loops. *)

\* A letter: handleCoordinateLetter.  At io.ErrClosedPipe the loop returns and
\* leaves the session as it is.
KbdKey ==
  /\ At("kbd", "pop") /\ ~ctxDone /\ keys # <<>>
  /\ keys' = Tail(keys)
  /\ \/ /\ Head(keys) = "key" /\ owned
        /\ input' = input + 1
        /\ Draws("kbd", size, input')
        /\ UNCHANGED <<owned, ctxDone, downVars>>
     \/ /\ Head(keys) = "key" /\ ~owned
        /\ UNCHANGED <<pc, snap, input, owned, ctxDone, downVars>>
     \/ /\ Head(keys) = "destroy"
        /\ LeavesFor("kbd", "unmap")
        /\ UNCHANGED <<input, snap>>
     \/ /\ Head(keys) = "eof"
        /\ To("kbd", "done")
        /\ UNCHANGED <<input, snap, owned, ctxDone, downVars>>
  /\ UNCHANGED <<wlVars, eventVars, surfaceVars, bufferVars, stopping, size, news, shut, mine>>

KbdStop ==
  /\ At("kbd", "pop") /\ (ctxDone \/ (shut /\ keys = <<>>))
  /\ To("kbd", "done")
  /\ UNCHANGED <<wlVars, eventVars, surfaceVars, bufferVars, sessionVars, queueVars, snap, mine, downVars>>

\* reconfigureActiveSession, or the end of the session.
LifeNews ==
  /\ At("life", "wait") /\ ~ctxDone /\ news # <<>>
  /\ news' = Tail(news)
  /\ \/ /\ Head(news) # 0 /\ owned
        /\ size' = Head(news)
        /\ Draws("life", size', input)
        /\ UNCHANGED <<owned, ctxDone, downVars>>
     \/ /\ Head(news) # 0 /\ ~owned
        /\ UNCHANGED <<pc, snap, size, owned, ctxDone, downVars>>
     \/ /\ Head(news) = 0
        /\ LeavesFor("life", "raw")
        /\ UNCHANGED <<size, snap>>
  /\ UNCHANGED <<wlVars, eventVars, surfaceVars, bufferVars, stopping, input, keys, shut, mine>>

LifeStop ==
  /\ At("life", "wait") /\ (ctxDone \/ (shut /\ news = <<>>))
  /\ To("life", "done")
  /\ UNCHANGED <<wlVars, eventVars, surfaceVars, bufferVars, sessionVars, queueVars, snap, mine, downVars>>

-----------------------------------------------------------------------------
(* The teardown: destroyOverlaySession, Unmap, Destroy and the reset of the    *)
(* backend.  The loops and the clicks give it a context that never ends.  Hide, *)
(* the toggle and a show that gives up have the handler's, which ends with the  *)
(* daemon's; the shutdown's, which is one more request here, has a second.      *)

Claim ==
  /\ "cancel" \in Inputs /\ owned
  /\ owned' = FALSE /\ down' = "cancel" /\ how' \in {"unmap", "request"}
  /\ UNCHANGED <<wlVars, eventVars, surfaceVars, bufferVars, ctxDone, stopping, size, input,
                 queueVars, paintVars, taken, failure>>

Cancel ==
  /\ down = "cancel"
  /\ ctxDone' = TRUE /\ down' = "close"
  /\ UNCHANGED <<wlVars, eventVars, surfaceVars, bufferVars, owned, stopping, size, input,
                 queueVars, paintVars, how, taken, failure>>

CloseSources ==
  /\ down = "close"
  /\ shut' = TRUE
  /\ down' = IF how = "raw" THEN "mark" ELSE "unmap"
  /\ UNCHANGED <<wlVars, eventVars, surfaceVars, bufferVars, sessionVars, keys, news, paintVars,
                 how, taken, failure>>

\* The error of a call of the teardown, joined to those before: a closed
\* connection among them is what resetWaylandAfterClosedNetwork looks for.
Joins(err) == failure' = IF failure = "network" THEN failure ELSE err

Goes == fatal = "no" /\ wlMu = "free" /\ conn = "open" /\ ~(how = "show" /\ stopping)
Stuck == \/ fatal # "no" /\ Joins(IF fatal = "network" THEN "network" ELSE "other")
         \/ /\ fatal = "no" /\ wlMu = "free" /\ conn # "open"
            /\ Joins(IF conn = "closed" THEN "network" ELSE "other")

\* The context has ended, or may have, and the call returns its error.
MayEnd == how \in {"show", "request"} /\ stopping
Expired == MayEnd /\ Joins("other")

\* Faulty variant: the teardown runs on the context it has just cancelled.
FailsCancelled == Stuck \/ Expired \/ (ctxDone /\ Joins("other"))
Fails == Stuck \/ Expired

Unmap ==
  /\ down = "unmap"
  /\ down' = "mark"
  /\ \/ Goes /\ frame' = Blank /\ UNCHANGED failure
     \/ Fails /\ UNCHANGED frame
  /\ UNCHANGED <<wlVars, eventVars, proxy, configured, closed, bufferVars, sessionVars, queueVars,
                 paintVars, how, taken>>

\* Destroy closes the sources too, which ShowOverlay's failure did not.
MarkDestroyed ==
  /\ down = "mark"
  /\ down' = "objects"
  /\ taken' = buffers /\ buffers' = {}
  /\ shut' = TRUE
  /\ UNCHANGED <<wlVars, eventVars, surfaceVars, mapped, made, sessionVars, keys, news, paintVars,
                 how, failure>>

DestroyObjects ==
  /\ down = "objects"
  /\ down' = "buffers"
  /\ \/ Goes /\ proxy' = "destroyed" /\ frame' = Blank /\ UNCHANGED failure
     \/ Fails /\ UNCHANGED <<proxy, frame>>
  /\ UNCHANGED <<wlVars, eventVars, configured, closed, bufferVars, sessionVars, queueVars,
                 paintVars, how, taken>>

\* Faulty variant: the memory is kept if the request cannot go.
FreesIfOpen(b) == IF conn = "open" THEN mapped \ {b} ELSE mapped
Frees(b) == mapped \ {b}

\* The memory goes even if the request does not.
DestroyBuffer ==
  /\ down = "buffers"
  /\ \/ /\ taken = {}
        /\ down' = "reset"
        /\ UNCHANGED <<mapped, taken, failure>>
     \/ \E b \in taken : /\ taken' = taken \ {b}
                         /\ mapped' = Frees(b)
                         /\ (Goes /\ UNCHANGED failure) \/ Fails
                         /\ UNCHANGED down
  /\ UNCHANGED <<wlVars, eventVars, surfaceVars, buffers, made, sessionVars, queueVars, paintVars, how>>

\* Faulty variant: only the error of the last call counts.
ResetsOther == failure = "other" /\ how # "show"
Resets == failure = "network" /\ how # "show"

\* lazyWaylandOverlayBackend.Close: whatever backend it holds, with its hub and
\* its connection.
LazyClose ==
  /\ held' = "none"
  /\ conn' = IF held = "this" /\ conn = "open" THEN "closed" ELSE conn
  /\ next' = IF held = "next" /\ next = "open" THEN "closed" ELSE next
  /\ keys' = IF Heard THEN Append(keys, "eof") ELSE keys

\* resetWaylandAfterClosedNetwork: the lazy backend forgets the connection, so
\* that the next show opens another one.  Nothing is done for ShowOverlay.
Reset ==
  /\ down = "reset"
  /\ down' = "done"
  /\ IF Resets THEN LazyClose ELSE UNCHANGED <<held, conn, next, keys>>
  /\ UNCHANGED <<fatal, wlMu, straggler, eventVars, surfaceVars, bufferVars, sessionVars, news, shut,
                 paintVars, how, taken, failure>>

-----------------------------------------------------------------------------
(* The guest: ShowOverlay, its loops' reads, its end and its reset.            *)

GuestHas(state) == IF uses = "this" THEN conn = state ELSE next = state
GuestRefused == ~GuestHas("open") \/ (uses = "this" /\ fatal # "no")

\* Its call of the connection is not kept waiting by another reader.
GuestCalls == uses = "this" => wlMu = "free"

GuestGoes(stage) == guest' = stage /\ UNCHANGED <<uses, shared>>

\* lazyWaylandOverlayBackend.ensure, under its own lock.
Ensure ==
  IF held # "none"
    THEN uses' = held /\ UNCHANGED <<held, next>>
    ELSE uses' = "next" /\ held' = "next" /\ next' = "open"

\* ShowOverlay finds no session.
GuestShow ==
  /\ "show" \in Inputs /\ guest = "none" /\ ~owned /\ ~stopping
  /\ sent <= MaxShared \/ down = "done"
  /\ guest' = "create"
  /\ Ensure
  /\ shared' = (shared \/ (uses' = "this" /\ down # "done"))
  /\ UNCHANGED <<conn, fatal, wlMu, straggler, queueVars>>

\* CreateSurface, and all up to the keyboard; or one of them fails, and
\* ShowOverlay resets nothing.
GuestCreates ==
  /\ guest = "create" /\ GuestCalls
  /\ GuestGoes(IF GuestRefused THEN "none" ELSE "making")
  /\ UNCHANGED <<wlVars, queueVars>>

GuestGivesUp ==
  /\ guest = "making" /\ wlMu # "guest"
  /\ GuestGoes("none")
  /\ UNCHANGED <<wlVars, queueVars>>

GuestInstalls ==
  /\ guest = "making" /\ wlMu # "guest"
  /\ GuestGoes(IF owned THEN "none" ELSE "owned")
  /\ UNCHANGED <<wlVars, queueVars>>

\* dispatchOnce of this connection by the guest, in ShowOverlay or in its
\* keyboard loop.
GuestReads ==
  /\ guest \in {"making", "owned"} /\ uses = "this" /\ wlMu = "free" /\ fatal = "no"
  /\ wlMu' = "guest"
  /\ UNCHANGED <<conn, held, next, fatal, straggler, queueVars, guestVars>>

\* A failed read ends ShowOverlay, or the session unless it is io.EOF.
Fallen(err) == GuestGoes(CASE guest = "making" -> "none"
                           [] guest = "owned" /\ err = "eof" -> "owned"
                           [] OTHER -> "leaving")

GuestReadFails ==
  /\ wlMu = "guest" /\ conn # "open"
  /\ wlMu' = "free"
  /\ \E err \in ReadErrors : fatal' = FirstFatal(err) /\ Fallen(err)
  /\ UNCHANGED <<conn, held, next, straggler, queueVars>>

\* A loop, the user or a request takes it from the driver and cancels it.
GuestLeaves ==
  /\ guest = "owned"
  /\ GuestGoes("leaving")
  /\ UNCHANGED <<wlVars, queueVars>>

\* The read that its end interrupts costs the connection.
GuestCancelled ==
  /\ guest = "leaving" \/ (guest = "making" /\ stopping)
  /\ \/ wlMu = "guest" /\ wlMu' = "free" /\ conn' = "closed" /\ straggler' = TRUE /\ UNCHANGED next
     \/ uses = "next" /\ next = "open" /\ next' = "closed" /\ UNCHANGED <<wlMu, conn, straggler>>
  /\ IF guest = "making" THEN GuestGoes("none") ELSE UNCHANGED guestVars
  /\ UNCHANGED <<held, fatal, queueVars>>

\* Unmap and Destroy: of their errors only a closed connection is looked for.
GuestTearsDown ==
  /\ guest = "leaving" /\ wlMu # "guest"
  /\ (uses = "this" /\ fatal = "no") => wlMu = "free"
  /\ GuestGoes(IF \/ uses = "next" /\ next = "closed"
                  \/ uses = "this" /\ (fatal = "network" \/ (fatal = "no" /\ conn = "closed"))
                THEN "reset" ELSE "none")
  /\ UNCHANGED <<wlVars, queueVars>>

GuestResets ==
  /\ guest = "reset"
  /\ LazyClose
  /\ GuestGoes("none")
  /\ UNCHANGED <<fatal, wlMu, straggler, news, shut>>

GuestReadsEvent ==
  /\ wlMu = "guest" /\ conn = "open" /\ wire # <<>>
  /\ Handle(Head(wire))
  /\ wlMu' = "free"
  /\ IF fatal' # "no" THEN Fallen(fatal') ELSE UNCHANGED guestVars
  /\ UNCHANGED <<conn, held, next, straggler>>

-----------------------------------------------------------------------------
(* The compositor (external), and the end of the daemon. *)

Send(kind) ==
  /\ sent < (IF shared THEN MaxShared ELSE MaxEvents) /\ conn = "open" /\ proxy = "live" /\ kind \in Inputs
  /\ kind = "key" => frame # Blank
  /\ sent' = sent + 1
  /\ wire' = Append(wire, [kind |-> kind, size |-> sent + 1])
  /\ UNCHANGED <<wlVars, surfaceVars, bufferVars, sessionVars, queueVars, paintVars, downVars>>

HangUp ==
  /\ "lost" \in Inputs /\ conn = "open"
  /\ conn' = "lost"
  /\ next' = IF next = "open" THEN "lost" ELSE next
  /\ UNCHANGED <<held, fatal, wlMu, straggler, eventVars, surfaceVars, bufferVars, sessionVars,
                 queueVars, paintVars, downVars>>

Stop ==
  /\ "stop" \in Inputs /\ ~stopping
  /\ stopping' = TRUE
  /\ UNCHANGED <<wlVars, eventVars, surfaceVars, bufferVars, owned, ctxDone, size, input,
                 queueVars, paintVars, downVars>>

-----------------------------------------------------------------------------
GuestStep ==
  \/ /\ \/ GuestShow \/ GuestCreates \/ GuestGivesUp \/ GuestInstalls \/ GuestReads \/ GuestReadFails
        \/ GuestLeaves \/ GuestCancelled \/ GuestTearsDown \/ GuestResets
     /\ UNCHANGED <<eventVars, surfaceVars, bufferVars, sessionVars, paintVars, downVars>>
  \/ GuestReadsEvent /\ UNCHANGED <<bufferVars, sessionVars, paintVars, downVars>>

DispatchStep(p) == /\ Pump(p) \/ RefuseDispatch(p) \/ BeginDispatch(p) \/ DispatchEvent(p)
                      \/ CancelDispatch(p) \/ FailDispatch(p)
                   /\ UNCHANGED guestVars
PaintStep(p) == (AllocBuffer(p) \/ CommitFrame(p) \/ KeepBuffer(p)) /\ UNCHANGED guestVars
ShowStep == (CreateSurface \/ Configured \/ GrabKeyboard \/ Install) /\ UNCHANGED guestVars
KbdStep == (KbdKey \/ KbdStop) /\ UNCHANGED guestVars
LifeStep == (LifeNews \/ LifeStop) /\ UNCHANGED guestVars
DownStep == /\ Cancel \/ CloseSources \/ Unmap \/ MarkDestroyed \/ DestroyObjects \/ DestroyBuffer
               \/ Reset
            /\ UNCHANGED guestVars
World == /\ Straggle \/ Claim \/ Stop \/ HangUp
            \/ \E kind \in {"configure", "key", "closed", "error"} : Send(kind)
         /\ UNCHANGED guestVars

Next ==
  \/ ShowStep \/ KbdStep \/ LifeStep \/ DownStep \/ World \/ GuestStep
  \/ \E p \in Painters : DispatchStep(p) \/ PaintStep(p)

Spec == Init /\ [][Next]_vars

\* The goroutines are scheduled.  The compositor and the user owe nothing, and
\* the mutex is not assumed to be fair.
FairSpec == /\ Spec /\ WF_vars(ShowStep) /\ WF_vars(KbdStep) /\ WF_vars(LifeStep) /\ WF_vars(DownStep)
            /\ \A p \in Painters : WF_vars(DispatchStep(p)) /\ WF_vars(PaintStep(p))

-----------------------------------------------------------------------------
\* No frame is committed before the first configure, which wlr-layer-shell makes
\* a protocol error (waitForConfigure comes first), nor on a wl_surface that was
\* destroyed: the loops' context ends before, and withWayland asks it under the
\* lock.
FramesInLife == [][frame' # frame /\ frame' # Blank => configured /\ proxy = "live"]_vars

\* When the teardown is over, nothing is left on the screen unless the backend
\* refused, or the daemon is stopping and the teardown had a handler's context:
\* then the surface goes with the connection, which the shutdown closes.
\* OverlayDriver's NoOrphan and LostIsGone rest on this.
GoneWhenDown ==
  down = "done" => \/ proxy = "destroyed" \/ conn # "open" \/ fatal # "no"
                   \/ stopping /\ how \in {"show", "request"}

\* After the teardowns the next show finds a connection that works, or opens
\* one: a cancelled read closes the connection under both sessions, and the
\* reset of one may close what a show has opened since, but the lazy backend
\* never keeps a connection that was closed.
Reusable ==
  down = "done" /\ guest = "none" /\ ~stopping /\ fatal \notin {"eof", "other"}
    => (held = "this" => conn # "closed") /\ (held = "next" => next # "closed")

\* While a session is the driver's its keyboard loop runs, so that a key can end
\* it: every error of its reads but io.ErrClosedPipe and io.EOF finishes the session.
\* The one comes of the reset of another session on the same backend, whose hub
\* closes the subscription, and the other of a compositor that hangs up.
KeyboardAlive == owned /\ pc["kbd"] = "done" => shared \/ conn = "lost"

\* When everything of a session is over its shm buffers are out of the memory,
\* but for the last one of a loop: Destroy may have taken the list between that
\* loop's commit and the append that puts its buffer on the list.
BuffersFreed ==
  down = "done" /\ (\A p \in Painters : pc[p] \in {"off", "done"})
    => mapped \subseteq {mine["kbd"], mine["life"]}

\* A teardown comes to its end: the one that dispatches gives wlMu back.
\* A guest on the same connection may keep it in a read of its own.
TeardownEnds == down # "no" ~> down = "done" \/ (guest # "none" /\ uses = "this")
=============================================================================
