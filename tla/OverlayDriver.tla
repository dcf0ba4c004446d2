---------------------------- MODULE OverlayDriver ----------------------------
(***************************************************************************)
(* layerShellOverlayDriver (overlay.go) under the daemon's IPC controller   *)
(* (ipc.go): who owns the one overlay session, how a session is built,      *)
(* selected in, clicked and torn down by the goroutines that share it.      *)
(*                                                                         *)
(* The goroutines are the IPC handlers (serialised by daemonController.mu,  *)
(* so one process here), and for every session its keyboard loop, its       *)
(* lifecycle loop, the goroutine of every pending left click and that of    *)
(* the held-direction repeat.  A step is what one of them does while it     *)
(* holds layerShellOverlayDriver.mu, or one call it makes outside the lock  *)
(* (compositor, pointer, monitor lookup), which may fail as Faults says.    *)
(* A call on a surface writes requests and waits for no answer: a surface   *)
(* is here as the requests written so far leave it.  The compositor takes   *)
(* them later, in their order, but button events come on a connection of    *)
(* their own, and it may read those first.                                  *)
(***************************************************************************)
EXTENDS Integers, FiniteSets

CONSTANTS MaxSession,  \* ids ShowOverlay may hand out; nextID is unbounded in the code
          MaxPending,  \* first-click keys a session may see; unbounded in the code
          StayActive,  \* config.Behavior.StayActive
          Commands,    \* IPC commands that may arrive: a subset of IpcCommands
          Inputs,      \* what may reach the session's loops: a subset of AllInputs
          Faults       \* the calls that may fail: a subset of AllFaults

IpcCommands == {"show", "hide", "status", "shutdown"}
AllInputs == {"letter", "backspace", "left", "double", "right", "exit", "leave",
              "keymap", "direction", "configure", "closed"}
AllFaults == {"show",     \* monitor lookup, surface creation, first frame or grab
              "draw",     \* MoveAbsolute, Configure or Render, or the geometry
              "network",  \* the Wayland connection is found closed
              "reset",    \* closing the backend after that
              "fatal",    \* the backend refuses the call: fatalErr or a dead ctx
              "click",    \* the virtual pointer
              "events"}   \* an event source fails or reports its end

ASSUME BoundsAssumption == MaxSession \in Nat \ {0} /\ MaxPending \in Nat \ {0}
ASSUME ConfigAssumption == /\ StayActive \in BOOLEAN
                           /\ Commands \subseteq IpcCommands
                           /\ Inputs \subseteq AllInputs
                           /\ Faults \subseteq AllFaults

None == 0                        \* the nil *overlaySession / *pendingLeftClick
Ids == 1..MaxSession
Clicks == {"left", "right", "double"}

Building == {"lookup", "create", "configure", "render", "grab", "install"}
TearingDown == {"close", "unmap", "destroy", "reset", "click", "reshow"}
Stages == {"free", "live", "dead"} \cup Building \cup TearingDown

VARIABLES
  session,      \* d.session: the session that owns the overlay, or None
  nextID,       \* d.nextID
  stage,        \* per id: how far ShowOverlay or the teardown of it has come
  ending,       \* per id: why it is torn down; "raw" omits the unmap
  failed,       \* per id: the teardown error so far
  surface,      \* per id: the layer surface as the requests written leave it
  ctxDone,      \* per id: session.ctx is cancelled
  input,        \* per id: letters in session.coordinate
  hasSelected,  \* per id
  repeat,       \* per id: session.repeat # nil
  pending,      \* per id: session.pendingLeft, named by the key that made it
  pendings,     \* per id: pendingLeftClick objects made so far
  due,          \* <<id, n>>: goroutine of click n has received its timer tick
  kbd,          \* per id: runKeyboardLoop
  life,         \* per id: runLifecycleLoop
  ipc,          \* what the IPC handler that holds daemonController.mu does
  ipcCmd,       \* its command; "exit" in CloseOverlay, after a shutdown
  ipcTarget,    \* the session it shows or cancels
  reply,        \* the last ipcResponse: its action, the status, or an error
  emitted       \* per id: the button events the pointer sent for it

sessionVars == <<input, hasSelected, repeat, pending, pendings>>
loopVars == <<kbd, life>>
ipcVars == <<ipc, ipcCmd, ipcTarget, reply>>
objectVars == <<stage, ending, failed, surface, ctxDone>>
vars == <<session, nextID, objectVars, sessionVars, due, loopVars, ipcVars, emitted>>

Endings == Clicks \cup {"none", "cancel", "raw"}
Failures == {"none", "network", "fatal"}
Surfaces == {"none", "bare", "mapped", "gone"}
KbdStates == {"none", "run", "aim", "paint", "nudge", "finish", "done"}
LifeStates == {"none", "run", "paint", "finish", "done"}
IpcStates == {"idle", "show", "showing", "cancel", "finish", "closing",
              "pointer", "wayland", "exited"}
IpcCmds == IpcCommands \cup {"none", "exit"}
Replies == {"none", "shown", "hidden", "noop", "active", "inactive",
            "error", "errorActive"}   \* an error reply carries c.active too
Emissions == Endings \cup {"no"}

OwnerTypeOK == session \in Ids \cup {None} /\ nextID \in 0..MaxSession
ObjectTypeOK ==
  /\ stage \in [Ids -> Stages] /\ ending \in [Ids -> Endings]
  /\ failed \in [Ids -> Failures] /\ surface \in [Ids -> Surfaces]
  /\ ctxDone \in [Ids -> BOOLEAN] /\ emitted \in [Ids -> Emissions]
SessionTypeOK ==
  /\ input \in [Ids -> 0..2]
  /\ hasSelected \in [Ids -> BOOLEAN] /\ repeat \in [Ids -> BOOLEAN]
  /\ pending \in [Ids -> 0..MaxPending] /\ pendings \in [Ids -> 0..MaxPending]
  /\ due \subseteq Ids \X (1..MaxPending)
LoopTypeOK == kbd \in [Ids -> KbdStates] /\ life \in [Ids -> LifeStates]
IpcTypeOK ==
  /\ ipc \in IpcStates /\ ipcCmd \in IpcCmds
  /\ ipcTarget \in Ids \cup {None} /\ reply \in Replies

TypeOK == OwnerTypeOK /\ ObjectTypeOK /\ SessionTypeOK /\ LoopTypeOK /\ IpcTypeOK

Init ==
  /\ session = None /\ nextID = 0
  /\ stage = [s \in Ids |-> "free"]
  /\ ending = [s \in Ids |-> "none"]
  /\ failed = [s \in Ids |-> "none"]
  /\ surface = [s \in Ids |-> "none"]
  /\ ctxDone = [s \in Ids |-> FALSE]
  /\ input = [s \in Ids |-> 0]
  /\ hasSelected = [s \in Ids |-> FALSE]
  /\ repeat = [s \in Ids |-> FALSE]
  /\ pending = [s \in Ids |-> None]
  /\ pendings = [s \in Ids |-> 0]
  /\ due = {}
  /\ kbd = [s \in Ids |-> "none"]
  /\ life = [s \in Ids |-> "none"]
  /\ ipc = "idle" /\ ipcCmd = "none" /\ ipcTarget = None /\ reply = "none"
  /\ emitted = [s \in Ids |-> "no"]

-----------------------------------------------------------------------------
(* The IPC handler's answer, given when c.mu is released. *)

\* Shutdown goes on to CloseOverlay, which finishes the session that is there
\* by then and closes the pointer and the backend, whatever came before.
Answer(r) ==
  /\ ipc' = CASE ipcCmd = "shutdown" -> "cancel"
              [] ipcCmd = "exit" -> "pointer"
              [] OTHER -> "idle"
  /\ ipcCmd' = IF ipcCmd = "shutdown" THEN "exit" ELSE ipcCmd
  /\ ipcTarget' = None
  /\ reply' = IF ipcCmd = "exit" THEN reply ELSE r

\* Faulty variant: the handler of a cancel is never told.
AnswerShowsOnly(s, r) ==
  IF ipc = "showing" /\ ipcTarget = s THEN Answer(r) ELSE UNCHANGED ipcVars

\* What a call on session s that has just come to its end means for the
\* handler: nothing unless it is the handler's own call.
AnswerIfWaiting(s, r) ==
  IF ipc \in {"showing", "closing"} /\ ipcTarget = s
    THEN Answer(r)
    ELSE UNCHANGED ipcVars

-----------------------------------------------------------------------------
(* ShowOverlay, on behalf of the IPC handler or of a stay-active click. *)

\* ShowOverlay goes on under the lock if there is no session.  At the bound it
\* ends there, as it does in the code when the monitor lookup fails.
CanShow == session = None /\ nextID < MaxSession

\* FocusedMonitor answers.
LookupMonitor(s) ==
  /\ stage[s] = "lookup"
  /\ \/ /\ stage' = [stage EXCEPT ![s] = "create"]
        /\ UNCHANGED ipcVars
     \/ /\ "show" \in Faults
        /\ stage' = [stage EXCEPT ![s] = "dead"]
        /\ AnswerIfWaiting(s, "error")
  /\ UNCHANGED <<session, nextID, ending, failed, surface, ctxDone, sessionVars, due, loopVars, emitted>>

CreateSurface(s) ==
  /\ stage[s] = "create"
  /\ \/ /\ stage' = [stage EXCEPT ![s] = "configure"]
        /\ surface' = [surface EXCEPT ![s] = "bare"]
        /\ UNCHANGED ipcVars
     \/ /\ "show" \in Faults
        /\ stage' = [stage EXCEPT ![s] = "dead"]
        /\ AnswerIfWaiting(s, "error")
        /\ UNCHANGED surface
  /\ UNCHANGED <<session, nextID, ending, failed, ctxDone, sessionVars, due, loopVars, emitted>>

\* Faulty variant: a failed first frame leaves the surface alone.
ForgetSurface(s) ==
  /\ stage' = [stage EXCEPT ![s] = "dead"]
  /\ ending' = [ending EXCEPT ![s] = "raw"]
  /\ ctxDone' = [ctxDone EXCEPT ![s] = TRUE]

\* A failed first frame or grab cancels the context and destroys the surface
\* without unmapping it.
Abandon(s) ==
  /\ stage' = [stage EXCEPT ![s] = "destroy"]
  /\ ending' = [ending EXCEPT ![s] = "raw"]
  /\ ctxDone' = [ctxDone EXCEPT ![s] = TRUE]

\* waitForConfigure has no deadline: it ends when the compositor configures
\* the surface, which nothing obliges it to do, when a read fails,
AwaitConfigure(s) ==
  /\ stage[s] = "configure" /\ surface[s] = "bare"
  /\ \/ /\ stage' = [stage EXCEPT ![s] = "render"]
        /\ UNCHANGED <<ending, ctxDone>>
     \/ "show" \in Faults /\ Abandon(s)
  /\ UNCHANGED <<session, nextID, failed, surface, sessionVars, due, loopVars, ipcVars, emitted>>

\* or when the surface is closed or lost.
ConfigureFails(s) ==
  /\ stage[s] = "configure" /\ surface[s] = "gone"
  /\ Abandon(s)
  /\ UNCHANGED <<session, nextID, failed, surface, sessionVars, due, loopVars, ipcVars, emitted>>

\* configureAndRender: the first buffer maps the surface.
FirstRender(s) ==
  /\ stage[s] = "render"
  /\ \/ /\ surface[s] = "bare"
        /\ surface' = [surface EXCEPT ![s] = "mapped"]
        /\ stage' = [stage EXCEPT ![s] = "grab"]
        /\ UNCHANGED <<ending, ctxDone>>
     \/ /\ surface[s] = "gone" \/ "show" \in Faults
        /\ Abandon(s)
        /\ UNCHANGED surface
  /\ UNCHANGED <<session, nextID, failed, sessionVars, due, loopVars, ipcVars, emitted>>

GrabKeyboard(s) ==
  /\ stage[s] = "grab"
  /\ \/ /\ stage' = [stage EXCEPT ![s] = "install"]
        /\ UNCHANGED <<ending, ctxDone>>
     \/ "show" \in Faults /\ Abandon(s)
  /\ UNCHANGED <<session, nextID, failed, surface, sessionVars, due, loopVars, ipcVars, emitted>>

\* The second lock region of ShowOverlay: install the session and start its
\* loops, or give way to the session a concurrent ShowOverlay installed.
InstallSession(s) ==
  /\ stage[s] = "install"
  /\ \/ /\ session = None
        /\ session' = s
        /\ stage' = [stage EXCEPT ![s] = "live"]
        /\ kbd' = [kbd EXCEPT ![s] = "run"]
        /\ life' = [life EXCEPT ![s] = "run"]
        /\ AnswerIfWaiting(s, "shown")
        /\ UNCHANGED <<ending, ctxDone>>
     \/ /\ session # None
        /\ stage' = [stage EXCEPT ![s] = "close"]
        /\ ending' = [ending EXCEPT ![s] = "cancel"]
        /\ ctxDone' = [ctxDone EXCEPT ![s] = TRUE]
        /\ UNCHANGED <<session, loopVars, ipcVars>>
  /\ UNCHANGED <<nextID, failed, surface, sessionVars, due, emitted>>

-----------------------------------------------------------------------------
(* Taking the session away from the driver: one lock region. *)

\* The body finishSession and claimSessionForClick share: stop the timers of
\* session s, forget it, and leave its teardown to the caller.
Release(s, why) ==
  /\ session' = None
  /\ repeat' = [repeat EXCEPT ![s] = FALSE]
  /\ pending' = [pending EXCEPT ![s] = None]
  /\ ending' = [ending EXCEPT ![s] = why]
  /\ stage' = [stage EXCEPT ![s] = "close"]

\* finishSession cancels the context after the unlock, as the first step of
\* the teardown.
FinishSession(s, why) ==
  /\ Release(s, why)
  /\ UNCHANGED ctxDone

\* claimSessionForClick cancels it under the lock.
ClaimSession(s, kind) ==
  /\ Release(s, kind)
  /\ ctxDone' = [ctxDone EXCEPT ![s] = TRUE]

\* Faulty variant: a click is committed without looking at d.session.
ClaimSelected(s) == hasSelected[s]

CanClaim(s) == session = s /\ hasSelected[s]
Owns(s) == session = s

-----------------------------------------------------------------------------
(* destroyOverlaySession, by whoever took the session, and what follows it. *)

\* Faulty variant: the context of a finished session is not cancelled.
CloseWithoutCancel(s) ==
  /\ stage[s] = "close"
  /\ stage' = [stage EXCEPT ![s] = IF ending[s] = "raw" THEN "destroy" ELSE "unmap"]
  /\ UNCHANGED <<session, nextID, ending, failed, surface, ctxDone, sessionVars, due, loopVars, ipcVars, emitted>>

\* session.cancel(), keyboard.Close() and lifecycle.Close(), which cannot fail.
CloseSources(s) ==
  /\ stage[s] = "close"
  /\ ctxDone' = [ctxDone EXCEPT ![s] = TRUE]
  /\ stage' = [stage EXCEPT ![s] = IF ending[s] = "raw" THEN "destroy" ELSE "unmap"]
  /\ UNCHANGED <<session, nextID, ending, failed, surface, sessionVars, due, loopVars, ipcVars, emitted>>

\* A call on the surface that leaves it as `done` says.  It finds the
\* connection closed, the surface gone with it, or is refused and does nothing.
\* errors.Join keeps every error and the text of a closed connection decides.
SurfaceCall(s, done) ==
  \/ /\ surface' = [surface EXCEPT ![s] = IF @ = "gone" THEN @ ELSE done]
     /\ UNCHANGED failed
  \/ /\ "network" \in Faults
     /\ surface' = [surface EXCEPT ![s] = "gone"]
     /\ failed' = [failed EXCEPT ![s] = "network"]
  \/ /\ "fatal" \in Faults
     /\ failed' = [failed EXCEPT ![s] = IF @ = "network" THEN @ ELSE "fatal"]
     /\ UNCHANGED surface

UnmapSurface(s) ==
  /\ stage[s] = "unmap"
  /\ SurfaceCall(s, "bare")
  /\ stage' = [stage EXCEPT ![s] = "destroy"]
  /\ UNCHANGED <<session, nextID, ending, ctxDone, sessionVars, due, loopVars, ipcVars, emitted>>

\* Faulty variant: the click is sent whatever the teardown met.
ClicksAnyway(s) == ending[s] \in Clicks

\* commitClick goes on to the pointer.
GoesOnToClick(s) == ending[s] \in Clicks /\ failed'[s] # "fatal"

\* A show that had to destroy its surface failed; a cancel failed if the
\* teardown did, and then answers with the c.active it had read before.
TeardownReply(s) ==
  IF ipc = "showing" THEN "error" ELSE IF failed'[s] = "fatal" THEN "errorActive" ELSE "hidden"

\* What follows the teardown: the click, or the end of the session.
TornDown(s) ==
  IF GoesOnToClick(s)
    THEN /\ stage' = [stage EXCEPT ![s] = "click"]
         /\ UNCHANGED ipcVars
    ELSE /\ stage' = [stage EXCEPT ![s] = "dead"]
         /\ AnswerIfWaiting(s, TeardownReply(s))

\* finishSession and commitClick look into the error of a session they took
\* from the driver; a show that gives up does not.
LooksInto(s) == failed'[s] = "network" /\ kbd[s] # "none"

DestroySurface(s) ==
  /\ stage[s] = "destroy"
  /\ SurfaceCall(s, "gone")
  /\ IF LooksInto(s)
       THEN stage' = [stage EXCEPT ![s] = "reset"] /\ UNCHANGED ipcVars
       ELSE TornDown(s)
  /\ UNCHANGED <<session, nextID, ending, ctxDone, sessionVars, due, loopVars, emitted>>

\* resetWaylandAfterClosedNetwork turns a closed connection into success, if
\* the backend can be closed; any other error ends the commit before the click.
ResetBackend(s) ==
  /\ stage[s] = "reset"
  /\ \/ UNCHANGED failed
     \/ "reset" \in Faults /\ failed' = [failed EXCEPT ![s] = "fatal"]
  /\ TornDown(s)
  /\ UNCHANGED <<session, nextID, ending, surface, ctxDone, sessionVars, due, loopVars, emitted>>

\* Only a move opens the pointer again once CloseOverlay has closed it.
PointerClosed == ipc \in {"wayland", "exited"}

\* pointer.LeftClick, RightClick or DoubleClick.
EmitClick(s) ==
  /\ stage[s] = "click"
  /\ \/ /\ emitted' = [emitted EXCEPT ![s] = ending[s]]
        /\ stage' = [stage EXCEPT ![s] = IF StayActive THEN "reshow" ELSE "dead"]
     \/ /\ "click" \in Faults \/ PointerClosed
        /\ stage' = [stage EXCEPT ![s] = "dead"]
        /\ UNCHANGED emitted
  /\ UNCHANGED <<session, nextID, ending, failed, surface, ctxDone, sessionVars, due, loopVars, ipcVars>>

\* ShowOverlay again after a click; it returns at once if a session is there.
Reshow(s) ==
  /\ stage[s] = "reshow"
  /\ IF CanShow
       THEN /\ nextID' = nextID + 1
            /\ stage' = [stage EXCEPT ![s] = "dead", ![nextID + 1] = "lookup"]
       ELSE /\ stage' = [stage EXCEPT ![s] = "dead"]
            /\ UNCHANGED nextID
  /\ UNCHANGED <<session, ending, failed, surface, ctxDone, sessionVars, due, loopVars, ipcVars, emitted>>

\* The connection, or the compositor, takes the surface away.
LoseSurface(s) ==
  /\ "network" \in Faults
  /\ surface[s] \in {"bare", "mapped"}
  /\ surface' = [surface EXCEPT ![s] = "gone"]
  /\ UNCHANGED <<session, nextID, stage, ending, failed, ctxDone, sessionVars, due, loopVars, ipcVars, emitted>>

-----------------------------------------------------------------------------
(* runKeyboardLoop: one event, already translated to a token, at a time.   *)
(* A handler whose condition fails changes nothing and is left out.         *)

KbdTo(s, pc) == kbd' = [kbd EXCEPT ![s] = pc]

\* Faulty variant: a pending click does not protect the selection.
EditsOwned(s) == session = s

\* A pending click swallows letters and backspaces.
Edits(s) == session = s /\ pending[s] = None
\* coordinateEntryState.AddLetter
TakesLetter(s) == input[s] < 2

\* handleCoordinateLetter.  The second letter selects, unless the cell has no
\* geometry on this monitor.
KbdLetter(s) ==
  /\ kbd[s] = "run" /\ "letter" \in Inputs
  /\ Edits(s) /\ TakesLetter(s)
  /\ input' = [input EXCEPT ![s] = @ + 1]
  /\ \/ /\ input'[s] # 2 /\ KbdTo(s, "paint")
        /\ UNCHANGED hasSelected
     \/ /\ input'[s] = 2 /\ KbdTo(s, "aim")
        /\ hasSelected' = [hasSelected EXCEPT ![s] = TRUE]
     \/ /\ input'[s] = 2 /\ "draw" \in Faults /\ KbdTo(s, "finish")
        /\ UNCHANGED hasSelected
  /\ UNCHANGED <<session, nextID, objectVars, repeat, pending, pendings, due, life, ipcVars, emitted>>

KbdBackspace(s) ==
  /\ kbd[s] = "run" /\ "backspace" \in Inputs
  /\ Edits(s) /\ input[s] > 0
  /\ input' = [input EXCEPT ![s] = @ - 1]
  /\ hasSelected' = [hasSelected EXCEPT ![s] = FALSE]
  /\ repeat' = [repeat EXCEPT ![s] = FALSE]
  /\ KbdTo(s, "paint")
  /\ UNCHANGED <<session, nextID, objectVars, pending, pendings, due, life, ipcVars, emitted>>

\* startPendingLeftClick: arms a new pendingLeftClick, at most one at a time.
KbdLeftClick(s) ==
  /\ kbd[s] = "run" /\ "left" \in Inputs
  /\ CanClaim(s) /\ pending[s] = None
  /\ pendings[s] < MaxPending
  /\ repeat' = [repeat EXCEPT ![s] = FALSE]
  /\ pendings' = [pendings EXCEPT ![s] = @ + 1]
  /\ pending' = [pending EXCEPT ![s] = pendings[s] + 1]
  /\ UNCHANGED <<session, nextID, objectVars, input, hasSelected, due, loopVars, ipcVars, emitted>>

\* commitClick with requirePending and any pending click.  The loop ends after
\* a commit: its next read finds the context cancelled.
KbdDoubleClick(s) ==
  /\ kbd[s] = "run" /\ "double" \in Inputs
  /\ CanClaim(s) /\ pending[s] # None
  /\ ClaimSession(s, "double")
  /\ KbdTo(s, "done")
  /\ UNCHANGED <<nextID, failed, surface, input, hasSelected, pendings, due, life, ipcVars, emitted>>

KbdRightClick(s) ==
  /\ kbd[s] = "run" /\ "right" \in Inputs
  /\ CanClaim(s)
  /\ ClaimSession(s, "right")
  /\ KbdTo(s, "done")
  /\ UNCHANGED <<nextID, failed, surface, input, hasSelected, pendings, due, life, ipcVars, emitted>>

\* Leave drops the repeat and the pending click; a keymap only the repeat.
KbdLeave(s) ==
  /\ kbd[s] = "run" /\ "leave" \in Inputs
  /\ session = s
  /\ repeat' = [repeat EXCEPT ![s] = FALSE]
  /\ pending' = [pending EXCEPT ![s] = None]
  /\ UNCHANGED <<session, nextID, objectVars, input, hasSelected, pendings, due, loopVars, ipcVars, emitted>>

KbdKeymap(s) ==
  /\ kbd[s] = "run" /\ "keymap" \in Inputs
  /\ session = s
  /\ repeat' = [repeat EXCEPT ![s] = FALSE]
  /\ UNCHANGED <<session, nextID, objectVars, input, hasSelected, pending, pendings, due, loopVars, ipcVars, emitted>>

\* A fresh press of a direction key: startHeldDirectionRepeat replaces the
\* repeat, then moveHiddenSubcell moves once (the "nudge").
KbdDirection(s) ==
  /\ kbd[s] = "run" /\ "direction" \in Inputs
  /\ CanClaim(s) /\ pending[s] = None
  /\ repeat' = [repeat EXCEPT ![s] = TRUE]
  /\ KbdTo(s, "nudge")
  /\ UNCHANGED <<session, nextID, objectVars, input, hasSelected, pending, pendings, due, life, ipcVars, emitted>>

\* The release of the key that repeats.
KbdRelease(s) ==
  /\ kbd[s] = "run" /\ "direction" \in Inputs
  /\ CanClaim(s) /\ pending[s] = None /\ repeat[s]
  /\ repeat' = [repeat EXCEPT ![s] = FALSE]
  /\ UNCHANGED <<session, nextID, objectVars, input, hasSelected, pending, pendings, due, loopVars, ipcVars, emitted>>

\* Exit, the Destroy event, and any error of the source or the translator.
KbdExit(s) ==
  /\ kbd[s] = "run"
  /\ "exit" \in Inputs \/ "closed" \in Inputs \/ "events" \in Faults
  /\ KbdTo(s, "finish")
  /\ UNCHANGED <<session, nextID, objectVars, sessionVars, due, life, ipcVars, emitted>>

\* MoveAbsolute to the selected cell, under session.ctx.
KbdAim(s) ==
  /\ kbd[s] = "aim"
  /\ \/ ~ctxDone[s] /\ KbdTo(s, "paint")
     \/ (ctxDone[s] \/ "draw" \in Faults) /\ KbdTo(s, "finish")
  /\ UNCHANGED <<session, nextID, objectVars, sessionVars, due, life, ipcVars, emitted>>

\* Configure and Render, under session.ctx: the buffer is attached unless the
\* context is cancelled or the surface is gone.
PaintsAlways(s) == surface[s] # "gone"   \* faulty variant: the context is not asked
CanPaint(s) == ~ctxDone[s] /\ surface[s] # "gone"
PaintFails(s) == ~CanPaint(s) \/ "draw" \in Faults

KbdPaint(s) ==
  /\ kbd[s] = "paint"
  /\ \/ /\ CanPaint(s)
        /\ surface' = [surface EXCEPT ![s] = "mapped"]
        /\ KbdTo(s, "run")
     \/ PaintFails(s) /\ KbdTo(s, "finish") /\ UNCHANGED surface
  /\ UNCHANGED <<session, nextID, stage, ending, failed, ctxDone, sessionVars, due, life, ipcVars, emitted>>

\* moveHiddenSubcell does nothing for a session that is over; a failed move
\* stops the repeat of this key and ends the session.
KbdNudge(s) ==
  /\ kbd[s] = "nudge"
  /\ \/ /\ ~CanClaim(s) \/ ~ctxDone[s]
        /\ KbdTo(s, "run")
        /\ UNCHANGED repeat
     \/ /\ ctxDone[s] \/ (CanClaim(s) /\ "draw" \in Faults)
        /\ repeat' = IF session = s THEN [repeat EXCEPT ![s] = FALSE] ELSE repeat
        /\ KbdTo(s, "finish")
  /\ UNCHANGED <<session, nextID, objectVars, input, hasSelected, pending, pendings, due, life, ipcVars, emitted>>

\* finishSession from the keyboard loop, which then returns.
KbdFinish(s) ==
  /\ kbd[s] = "finish"
  /\ KbdTo(s, "done")
  /\ IF Owns(s)
       THEN FinishSession(s, "cancel")
       ELSE UNCHANGED <<session, repeat, pending, ending, stage, ctxDone>>
  /\ UNCHANGED <<nextID, failed, surface, input, hasSelected, pendings, due, life, ipcVars, emitted>>

\* The source of a session that goes on is at its end (io.EOF, io.ErrClosedPipe):
\* the loop returns without finishing the session.
KbdEOF(s) ==
  /\ kbd[s] = "run" /\ "events" \in Faults
  /\ KbdTo(s, "done")
  /\ UNCHANGED <<session, nextID, objectVars, sessionVars, due, life, ipcVars, emitted>>

\* The next read finds the context cancelled.
KbdStop(s) ==
  /\ kbd[s] = "run" /\ ctxDone[s]
  /\ KbdTo(s, "done")
  /\ UNCHANGED <<session, nextID, objectVars, sessionVars, due, life, ipcVars, emitted>>

-----------------------------------------------------------------------------
(* runLifecycleLoop. *)

LifeTo(s, pc) == life' = [life EXCEPT ![s] = pc]

\* Configure or OutputChange of the owned session: reconfigureActiveSession
\* stops the repeat of a selection and redraws, unless the geometry fails.
LifeConfigure(s) ==
  /\ life[s] = "run" /\ "configure" \in Inputs
  /\ session = s
  /\ \/ /\ LifeTo(s, "paint")
        /\ repeat' = IF hasSelected[s] THEN [repeat EXCEPT ![s] = FALSE] ELSE repeat
     \/ "draw" \in Faults /\ LifeTo(s, "finish") /\ UNCHANGED repeat
  /\ UNCHANGED <<session, nextID, objectVars, input, hasSelected, pending, pendings, due, kbd, ipcVars, emitted>>

LifePaint(s) ==
  /\ life[s] = "paint"
  /\ \/ /\ CanPaint(s)
        /\ surface' = [surface EXCEPT ![s] = "mapped"]
        /\ LifeTo(s, "run")
     \/ PaintFails(s) /\ LifeTo(s, "finish") /\ UNCHANGED surface
  /\ UNCHANGED <<session, nextID, stage, ending, failed, ctxDone, sessionVars, due, kbd, ipcVars, emitted>>

\* The compositor closed the surface, or the source reported an error.
LifeClosed(s) ==
  /\ life[s] = "run"
  /\ "closed" \in Inputs \/ "events" \in Faults
  /\ LifeTo(s, "finish")
  /\ UNCHANGED <<session, nextID, objectVars, sessionVars, due, kbd, ipcVars, emitted>>

\* finishSession without an unmap.
LifeFinish(s) ==
  /\ life[s] = "finish"
  /\ LifeTo(s, "done")
  /\ IF Owns(s)
       THEN FinishSession(s, "raw")
       ELSE UNCHANGED <<session, repeat, pending, ending, stage, ctxDone>>
  /\ UNCHANGED <<nextID, failed, surface, input, hasSelected, pendings, due, kbd, ipcVars, emitted>>

LifeStop(s) ==
  /\ life[s] = "run" /\ ctxDone[s]
  /\ LifeTo(s, "done")
  /\ UNCHANGED <<session, nextID, objectVars, sessionVars, due, kbd, ipcVars, emitted>>

-----------------------------------------------------------------------------
(* The goroutines of the pending clicks and of the repeat. *)

\* runPendingLeftClickTimer receives its tick.  A stop that comes later does
\* not take the tick back.
TimerFire(s) ==
  /\ pending[s] # None
  /\ <<s, pending[s]>> \notin due
  /\ due' = due \cup {<<s, pending[s]>>}
  /\ UNCHANGED <<session, nextID, objectVars, sessionVars, loopVars, ipcVars, emitted>>

\* Faulty variants: the timer takes any pending click for its own; none.
TimerClaimsAny(s, n) == CanClaim(s) /\ pending[s] # None
TimerClaimsNone(s, n) == CanClaim(s) /\ pending[s] = None

\* claimSessionForClick recognises the pending click it was started for.
TimerClaims(s, n) == CanClaim(s) /\ pending[s] # None /\ pending[s] = n

TimerCommit(s, n) ==
  /\ <<s, n>> \in due
  /\ due' = due \ {<<s, n>>}
  /\ IF TimerClaims(s, n)
       THEN ClaimSession(s, "left")
       ELSE UNCHANGED <<session, repeat, pending, ending, stage, ctxDone>>
  /\ UNCHANGED <<nextID, failed, surface, input, hasSelected, pendings, loopVars, ipcVars, emitted>>

\* A repeated move fails: the goroutine stops its own repeat.
RepeatFail(s) ==
  /\ "draw" \in Faults
  /\ session = s /\ repeat[s]
  /\ repeat' = [repeat EXCEPT ![s] = FALSE]
  /\ UNCHANGED <<session, nextID, objectVars, input, hasSelected, pending, pendings, due, loopVars, ipcVars, emitted>>

-----------------------------------------------------------------------------
(* daemonController: Dispatch and Shutdown, with c.mu held to the answer. *)

IpcTo(pc, target) == ipc' = pc /\ ipcTarget' = target

\* c.mu is taken and refreshActiveLocked asks the driver.
IpcRequest(c) ==
  /\ ipc = "idle" /\ c \in Commands
  /\ LET active == session # None
     IN \/ /\ c = "status" /\ IpcTo("idle", None)
           /\ reply' = IF active THEN "active" ELSE "inactive"
        \/ /\ c = "hide" /\ ~active /\ IpcTo("idle", None)
           /\ reply' = "noop"
        \/ c = "show" /\ ~active /\ IpcTo("show", None) /\ UNCHANGED reply
        \/ c # "status" /\ active /\ IpcTo("cancel", None) /\ UNCHANGED reply
        \/ c = "shutdown" /\ ~active /\ IpcTo("cancel", None) /\ UNCHANGED reply
  /\ ipcCmd' = IF c = "shutdown" /\ session = None THEN "exit" ELSE c
  /\ UNCHANGED <<session, nextID, objectVars, sessionVars, due, loopVars, emitted>>

\* The first lock region of ShowOverlay.
IpcShow ==
  /\ ipc = "show"
  /\ IF CanShow
       THEN /\ nextID' = nextID + 1
            /\ stage' = [stage EXCEPT ![nextID + 1] = "lookup"]
            /\ IpcTo("showing", nextID + 1)
            /\ UNCHANGED <<ipcCmd, reply>>
       ELSE /\ Answer(IF session # None THEN "shown" ELSE "error")
            /\ UNCHANGED <<nextID, stage>>
  /\ UNCHANGED <<session, ending, failed, surface, ctxDone, sessionVars, due, loopVars, emitted>>

\* finishActiveSession reads d.session in one lock region and finishes that
\* session in the next.
IpcCancel ==
  /\ ipc = "cancel"
  /\ IF session = None
       THEN Answer("hidden")
       ELSE IpcTo("finish", session) /\ UNCHANGED <<ipcCmd, reply>>
  /\ UNCHANGED <<session, nextID, objectVars, sessionVars, due, loopVars, emitted>>

IpcFinish ==
  /\ ipc = "finish"
  /\ IF Owns(ipcTarget)
       THEN /\ FinishSession(ipcTarget, "cancel")
            /\ IpcTo("closing", ipcTarget)
            /\ UNCHANGED <<ipcCmd, reply>>
       ELSE /\ Answer("hidden")
            /\ UNCHANGED <<session, repeat, pending, ending, stage, ctxDone>>
  /\ UNCHANGED <<nextID, failed, surface, input, hasSelected, pendings, due, loopVars, emitted>>

\* The rest of CloseOverlay: pointer.Close,
IpcClosePointer ==
  /\ ipc = "pointer" /\ IpcTo("wayland", None)
  /\ UNCHANGED <<session, nextID, objectVars, sessionVars, due, loopVars, ipcCmd, reply, emitted>>

\* and wayland.Close: the connection takes every surface with it, that of a
\* session which a click has shown since too, and the process is about to end.
IpcCloseWayland ==
  /\ ipc = "wayland" /\ IpcTo("exited", None)
  /\ surface' = [s \in Ids |-> IF surface[s] = "none" THEN "none" ELSE "gone"]
  /\ UNCHANGED <<session, nextID, stage, ending, failed, ctxDone, sessionVars, due, loopVars, ipcCmd, reply, emitted>>

-----------------------------------------------------------------------------
ShowStep(s) == LookupMonitor(s) \/ CreateSurface(s) \/ ConfigureFails(s)
               \/ FirstRender(s) \/ GrabKeyboard(s) \/ InstallSession(s)
TeardownStep(s) == CloseSources(s) \/ UnmapSurface(s) \/ DestroySurface(s)
                   \/ ResetBackend(s) \/ EmitClick(s) \/ Reshow(s)
KbdEvent(s) == KbdLetter(s) \/ KbdBackspace(s) \/ KbdLeftClick(s) \/ KbdDoubleClick(s)
               \/ KbdRightClick(s) \/ KbdLeave(s) \/ KbdKeymap(s) \/ KbdDirection(s)
               \/ KbdRelease(s) \/ KbdExit(s) \/ KbdEOF(s)
KbdStep(s) == KbdAim(s) \/ KbdPaint(s) \/ KbdNudge(s) \/ KbdFinish(s) \/ KbdStop(s)
LifeEvent(s) == LifeConfigure(s) \/ LifeClosed(s)
LifeStep(s) == LifePaint(s) \/ LifeFinish(s) \/ LifeStop(s)
IpcStep == IpcShow \/ IpcCancel \/ IpcFinish \/ IpcClosePointer \/ IpcCloseWayland

SessionStep(s) ==
  \/ ShowStep(s) \/ AwaitConfigure(s) \/ TeardownStep(s) \/ LoseSurface(s)
  \/ KbdEvent(s) \/ KbdStep(s) \/ LifeEvent(s) \/ LifeStep(s)
  \/ TimerFire(s) \/ (\E n \in 1..MaxPending : TimerCommit(s, n)) \/ RepeatFail(s)

\* Goroutines may still take steps between the shutdown and the exit of the
\* process, so nothing is stopped here.
Next ==
  \/ \E s \in Ids : SessionStep(s)
  \/ \E c \in Commands : IpcRequest(c)
  \/ IpcStep

Spec == Init /\ [][Next]_vars

\* Every goroutine is scheduled, a timer that is not stopped fires, and the
\* calls out of the process return, but for the wait for the first configure.
\* Nothing obliges the user or the compositor to act, so events, requests,
\* losses and that configure are not fair.
Fairness ==
  /\ \A s \in Ids : /\ WF_vars(ShowStep(s)) /\ WF_vars(TeardownStep(s))
                     /\ WF_vars(KbdStep(s)) /\ WF_vars(LifeStep(s))
                     /\ WF_vars(TimerFire(s))
                     /\ \A n \in 1..MaxPending : WF_vars(TimerCommit(s, n))
  /\ WF_vars(IpcStep)

FairSpec == Spec /\ Fairness

-----------------------------------------------------------------------------
(* Safety. *)

\* A session that is not the driver's is never left running: whoever wins a
\* race of shows, clicks and cancels, exactly the session in d.session has
\* loops, and every other one that was built is on its way to destruction.
OneOwner ==
  \A s \in Ids : /\ (stage[s] = "live") <=> (session = s)
                 /\ session = s => ending[s] = "none" /\ kbd[s] # "none" /\ life[s] # "none"

\* The click that is pending belongs to the session the user is in, with a
\* complete selection, and nothing moves the pointer meanwhile: no repeat runs.
\* A session that is over has neither (stopPendingLeftClickLocked,
\* stopHeldDirectionRepeatLocked, and the handlers that ignore keys).
ArmedMeansAimed ==
  \A s \in Ids : /\ pending[s] # None => /\ session = s /\ hasSelected[s] /\ ~repeat[s]
                                         /\ input[s] = 2
                 /\ repeat[s] => session = s /\ hasSelected[s]

\* commitClick sends button events only after the requests that destroy the
\* session's own surface are written, or the surface is lost, however the unmap,
\* the destroy and the reset went.  That the compositor has taken them by then
\* the code does not wait for, and the property does not say.
SentAwayBeforeClick ==
  \A s \in Ids : stage[s] \in {"click", "reshow"} => surface[s] = "gone"

\* A surface that was unmapped for a click or a cancel is not mapped again by
\* a frame that a keyboard or lifecycle loop still had to draw.
LateFrameStep ==
  \A s \in Ids : stage[s] \in {"destroy", "reset", "click", "reshow", "dead"} /\ surface[s] # "mapped"
                  => surface'[s] # "mapped"
NoLateFrame == [][LateFrameStep]_vars

\* A left click is committed by the timer of the newest first key alone: not
\* by one that Leave stopped after it had fired.
NewestTimerStep ==
  \A s \in Ids : ending[s] # "left" /\ ending'[s] = "left"
                  => pending[s] = pendings[s] /\ <<s, pendings[s]>> \in due
NewestTimerCommits == [][NewestTimerStep]_vars

\* A teardown that ends leaves no surface behind unless the backend refused it.
NoOrphan ==
  \A s \in Ids : stage[s] = "dead" => surface[s] \in {"none", "gone"} \/ failed[s] = "fatal"

(* What these rest on: the rest of the inductive invariant. *)

Fresh == \A s \in Ids : s > nextID => stage[s] = "free"
Pristine ==
  \A s \in Ids : /\ stage[s] \in Building \cup {"free"} =>
                       /\ ending[s] = "none" /\ failed[s] = "none" /\ emitted[s] = "no"
                       /\ kbd[s] = "none" /\ life[s] = "none"
                 /\ stage[s] \in {"free", "lookup", "create"} => surface[s] = "none"
Cancelled ==
  \A s \in Ids : /\ stage[s] \in {"unmap", "destroy", "reset", "click", "reshow"} => ctxDone[s]
                 /\ stage[s] = "dead" => ctxDone[s] \/ (kbd[s] = "none" /\ life[s] = "none")
LostIsGone == \A s \in Ids : /\ failed[s] = "network" => surface[s] = "gone"
                             /\ stage[s] = "reset" => failed[s] = "network"
Complete == \A s \in Ids : hasSelected[s] => input[s] = 2
Newest == \A s \in Ids : pending[s] # None => pending[s] = pendings[s]
Committed ==
  \A s \in Ids : /\ stage[s] \in {"click", "reshow"} => ending[s] \in Clicks
                 /\ ending[s] \in Clicks => kbd[s] # "none"
                 /\ emitted[s] # "no" => stage[s] \in {"reshow", "dead"}

Targeted == ipc \in {"showing", "finish", "closing"} => ipcTarget \in Ids

\* Everything the goroutines keep true together, whatever they interleave.
SafetyInv ==
  /\ OneOwner /\ ArmedMeansAimed /\ SentAwayBeforeClick /\ NoOrphan
  /\ Fresh /\ Pristine /\ Cancelled /\ LostIsGone /\ Complete /\ Newest /\ Committed
  /\ Targeted

\* What became of a session; one that never got its loops was never used.
outcome == [s \in Ids |-> IF kbd[s] = "none" THEN "unused"
                          ELSE IF ending[s] = "none" THEN "open"
                          ELSE IF ending[s] \in Clicks THEN ending[s] ELSE "over"]

\* The promise of the sessions' life, with a show that lost the race and its
\* teardown invisible.
Promise == INSTANCE OverlayPromise WITH owner <- session, clicked <- emitted
KeepsPromise == Promise!Spec

(* Liveness. *)

\* A pending click does not stay pending: its timer commits it, or a second
\* key, a focus change or the end of the session takes it away.
PendingResolves ==
  \A s \in Ids : \A n \in 1..MaxPending : pending[s] = n ~> pending[s] # n

\* A session that was taken from the driver is torn down to the end, whatever
\* fails, and its loops return: no goroutine is leaked.
SessionEnds ==
  \A s \in Ids : ending[s] # "none" ~> /\ stage[s] = "dead"
                                       /\ kbd[s] \in {"none", "done"} /\ life[s] \in {"none", "done"}

\* The compositor does not keep the show in hand waiting for its configure for
\* ever.
ShowIsConfigured ==
  \A s \in Ids : []<>~(ipc = "showing" /\ ipcTarget = s /\ stage[s] = "configure")

\* Every IPC request is answered, so that the next one gets c.mu, unless the
\* show in hand waits for its configure for ever.
IpcAnswers == ShowIsConfigured => (ipc # "idle" ~> ipc \in {"idle", "exited"})

(* What the documents say, checked where the code disagrees. *)

\* No overlay catches a click: PRD.md says the overlay is unmapped or
\* destroyed before any pointer button event.  A show in between maps another.
NoOverlayAtClick ==
  [][\A s \in Ids : emitted'[s] # emitted[s] => \A t \in Ids : surface[t] # "mapped"]_vars
=============================================================================
