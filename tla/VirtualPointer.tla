--------------------------- MODULE VirtualPointer ---------------------------
(***************************************************************************)
(* virtualPointerSynthesizer and its factories (pointer.go) under the calls   *)
(* that overlay.go makes: MoveAbsolute by the keyboard loop and by the        *)
(* goroutine of a held direction, a click by whoever committed the session,   *)
(* Close by the shutdown.  The calls of one session may still be running when *)
(* the next session makes its own; s.mu orders them.                        *)
(*                                                                         *)
(* A target is the number of the navigator's move that made it.  What the     *)
(* numbers of a motion_absolute request are is in SubcellNavigator.           *)
(***************************************************************************)
EXTENDS Integers, FiniteSets

CONSTANTS Monitors,    \* the outputs that may have the focus
          Stale,       \* those of another size than the pointer's connection knows
          Faults,      \* "lost": the connection ends; "open": it cannot be opened;
                       \* "create": a device cannot be made
          MaxSession,  \* sessions shown; unbounded in the code
          MaxTarget    \* targets; unbounded in the code

ASSUME PointerAssumption ==
  /\ Stale \subseteq Monitors /\ Faults \subseteq {"lost", "open", "create"}
  /\ MaxSession \in Nat /\ MaxTarget \in Nat

None == 0
Ids == 1..MaxSession
Targets == 1..MaxTarget
Keyboard == 0      \* the caller that is not the goroutine of a repeat

VARIABLES
  session,   \* driver.session, or None
  shows,     \* sessions shown so far
  monitor,   \* session.monitor
  ctxDone,   \* the sessions whose context is cancelled
  selected,  \* the sessions with a cell
  repeat,    \* session.repeat: the target of the press that started it, or None
  ticked,    \* the repeats whose tick has got past the look at repeat.cancel
  targets,   \* targets so far; the last is where the navigator is
  of, by,    \* per target: its session; its caller, Keyboard or a repeat
  call,      \* per target: where MoveAbsolute is
  click,     \* per session: where its click is
  left,      \* per session: the presses its click has still to make
  binding,   \* s.binding: [device, on], device None if hasBinding is false
  last,      \* s.lastPosition as a target, None if hasPosition is false
  closing,   \* where Close is, or the device it has still to destroy
  conn,      \* the connection of the lazy factory: "none", "open" or "lost"
  devices,   \* the compositor's virtual pointers of this client
  made,      \* devices made so far
  cursor,    \* the compositor's cursor: the last target it was sent to
  button     \* the sessions whose click holds the button down

driverVars == <<session, shows, monitor, ctxDone, selected, repeat, ticked>>
callVars == <<targets, of, by, call>>
clickVars == <<click, left, button>>
deviceVars == <<conn, devices, made>>
vars == <<driverVars, callVars, clickVars, binding, last, closing, deviceVars, cursor>>

NoBinding == [device |-> None, on |-> None]
TypeOK ==
  /\ session \in Ids \cup {None} /\ shows \in 0..MaxSession
  /\ monitor \in [Ids -> Monitors \cup {None}]
  /\ ctxDone \subseteq Ids /\ selected \subseteq Ids
  /\ repeat \in Targets \cup {None} /\ ticked \subseteq Targets
  /\ targets \in 0..MaxTarget
  /\ of \in [Targets -> Ids \cup {None}] /\ by \in [Targets -> Targets \cup {Keyboard}]
  /\ call \in [Targets -> {"none", "check", "lock", "open", "create", "motion", "failed", "done"}]
  /\ click \in [Ids -> {"none", "lock", "down", "up", "failed", "done"}]
  /\ left \in [Ids -> 0..2] /\ button \subseteq Ids
  /\ binding \in [device : 0..MaxTarget, on : Monitors \cup {None}]
  /\ last \in Targets \cup {None} /\ cursor \in Targets \cup {None}
  /\ closing \in [at : {"no", "device", "factory", "done"}, device : 0..MaxTarget]
  /\ conn \in {"none", "open", "lost"} /\ made \in 0..MaxTarget /\ devices \subseteq 1..made

Init ==
  /\ session = None /\ shows = 0 /\ monitor = [s \in Ids |-> None]
  /\ ctxDone = {} /\ selected = {} /\ repeat = None /\ ticked = {}
  /\ targets = 0 /\ of = [t \in Targets |-> None] /\ by = [t \in Targets |-> Keyboard]
  /\ call = [t \in Targets |-> "none"]
  /\ click = [s \in Ids |-> "none"] /\ left = [s \in Ids |-> 0] /\ button = {}
  /\ binding = NoBinding /\ last = None /\ closing = [at |-> "no", device |-> None]
  /\ conn = "none" /\ devices = {} /\ made = 0 /\ cursor = None

-----------------------------------------------------------------------------
(* The driver, as far as it makes the calls (see OverlayDriver). *)

ShowOverlay(m) ==
  /\ session = None /\ shows < MaxSession
  /\ session' = shows + 1 /\ shows' = shows + 1
  /\ monitor' = [monitor EXCEPT ![shows + 1] = m]
  /\ UNCHANGED <<ctxDone, selected, repeat, ticked, callVars, clickVars, binding, last, closing, deviceVars, cursor>>

\* What finishSession and claimSessionForClick do to session s.
EndSession(s) ==
  /\ session' = None /\ repeat' = None
  /\ ctxDone' = ctxDone \cup {s}
  /\ UNCHANGED <<shows, monitor, selected, ticked>>

CancelOverlay ==
  /\ session # None
  /\ EndSession(session)
  /\ UNCHANGED <<callVars, clickVars, binding, last, closing, deviceVars, cursor>>

\* A target for the owned session: the caller is about to call MoveAbsolute.
Aim(caller) ==
  /\ targets < MaxTarget
  /\ targets' = targets + 1
  /\ of' = [of EXCEPT ![targets + 1] = session]
  /\ by' = [by EXCEPT ![targets + 1] = caller]
  /\ call' = [call EXCEPT ![targets + 1] = "check"]
  /\ UNCHANGED <<session, shows, monitor, ctxDone, clickVars, binding, last, closing, deviceVars, cursor>>

InCall(t) == call[t] \notin {"none", "done"}
\* The keyboard loop of the owned session waits for an event.
Reading == session # None /\ \A t \in Targets : of[t] = session /\ by[t] = Keyboard => ~InCall(t)

\* handleCoordinateLetter: the second letter.
KbdSelect ==
  /\ Reading /\ session \notin selected
  /\ selected' = selected \cup {session}
  /\ Aim(Keyboard)
  /\ UNCHANGED <<repeat, ticked>>

KbdBackspace ==
  /\ Reading /\ session \in selected
  /\ selected' = selected \ {session} /\ repeat' = None
  /\ UNCHANGED <<session, shows, monitor, ctxDone, ticked, callVars, clickVars, binding, last, closing, deviceVars, cursor>>

\* startHeldDirectionRepeat and the first move.
KbdDirection ==
  /\ Reading /\ session \in selected
  /\ repeat' = targets + 1
  /\ Aim(Keyboard)
  /\ UNCHANGED <<selected, ticked>>

KbdRelease ==
  /\ Reading /\ repeat # None
  /\ repeat' = None
  /\ UNCHANGED <<session, shows, monitor, ctxDone, selected, ticked, callVars, clickVars, binding, last, closing, deviceVars, cursor>>

\* runHeldDirectionRepeat: a tick, then moveHiddenSubcell.
HoldTick ==
  /\ repeat # None /\ repeat \notin ticked
  /\ \A t \in Targets : by[t] = repeat => ~InCall(t)
  /\ ticked' = ticked \cup {repeat}
  /\ UNCHANGED <<session, shows, monitor, ctxDone, selected, repeat, callVars, clickVars, binding, last, closing, deviceVars, cursor>>

HoldMove(r) ==
  /\ r \in ticked
  /\ ticked' = ticked \ {r}
  /\ IF of[r] = session /\ session \in selected
       THEN Aim(r)
       ELSE UNCHANGED <<session, shows, monitor, ctxDone, callVars, clickVars, binding, last, closing, deviceVars, cursor>>
  /\ UNCHANGED <<selected, repeat>>

\* commitClick claims the session; the teardown of the surface comes before
\* the call of LeftClick, RightClick or DoubleClick.
CommitClick(presses) ==
  /\ Reading /\ session \in selected
  /\ EndSession(session)
  /\ click' = [click EXCEPT ![session] = "lock"]
  /\ left' = [left EXCEPT ![session] = presses]
  /\ UNCHANGED <<callVars, button, binding, last, closing, deviceVars, cursor>>

-----------------------------------------------------------------------------
(* MoveAbsolute.  From its lock to its return s.mu is held. *)

Goes(t, place) == call' = [call EXCEPT ![t] = place]
Over(t) == of[t] \in ctxDone

MoveCheck(t) ==
  /\ call[t] = "check"
  /\ Goes(t, IF Over(t) THEN "failed" ELSE "lock")
  /\ UNCHANGED <<driverVars, targets, of, by, clickVars, binding, last, closing, deviceVars, cursor>>

\* Faulty variant: clicks do not lock.
FreeOfMoves == \A t \in Targets : call[t] \notin {"open", "create", "motion"}
\* s.mu is free.
Free == /\ \A t \in Targets : call[t] \notin {"open", "create", "motion"}
        /\ \A s \in Ids : click[s] \notin {"down", "up"}

\* Faulty variant: any device will do.
MatchesAny(m) == binding.device # None
\* bindingMatchesMonitor: the name, the place and the size.
Matches(m) == binding.on = m /\ m \notin Stale

\* Faulty variant: the device of another output is forgotten, not destroyed.
Forget(t) ==
  /\ binding' = NoBinding /\ Goes(t, "open")
  /\ UNCHANGED devices
\* A device for another output is destroyed.  If that fails it stays.
DestroyOld(t) ==
  \/ /\ conn = "open"
     /\ devices' = devices \ {binding.device} /\ binding' = NoBinding
     /\ Goes(t, "open")
  \/ /\ conn # "open"
     /\ Goes(t, "failed")
     /\ UNCHANGED <<devices, binding>>

\* ensureBindingLocked
MoveLock(t) ==
  /\ call[t] = "lock" /\ Free
  /\ LET m == monitor[of[t]]
     IN \/ Matches(m) /\ Goes(t, "motion") /\ UNCHANGED <<binding, devices>>
        \/ ~Matches(m) /\ binding.device # None /\ DestroyOld(t)
        \/ ~Matches(m) /\ binding.device = None /\ Goes(t, "open") /\ UNCHANGED <<binding, devices>>
  /\ UNCHANGED <<driverVars, targets, of, by, clickVars, last, closing, conn, made, cursor>>

\* lazyWaylandVirtualPointerFactory.ensure: the connection is opened once.
MoveOpen(t) ==
  /\ call[t] = "open"
  /\ \/ conn # "none" /\ Goes(t, "create") /\ UNCHANGED conn
     \/ conn = "none" /\ ~Over(t) /\ conn' = "open" /\ Goes(t, "create")
     \/ /\ conn = "none" /\ (Over(t) \/ "open" \in Faults)
        /\ Goes(t, "failed") /\ UNCHANGED conn
  /\ UNCHANGED <<driverVars, targets, of, by, clickVars, binding, last, closing, devices, made, cursor>>

\* realVirtualPointerFactory.CreateVirtualPointer: the context is asked again.  It
\* fails too if the connection knows no output of the monitor, or one without a
\* size, or has lost the manager, the seat or the output's proxy.
MoveCreate(t) ==
  /\ call[t] = "create"
  /\ \/ /\ ~Over(t) /\ conn = "open"
        /\ made' = made + 1 /\ devices' = devices \cup {made'}
        /\ binding' = [device |-> made', on |-> monitor[of[t]]]
        /\ Goes(t, "motion")
     \/ /\ Over(t) \/ conn # "open" \/ "create" \in Faults
        /\ Goes(t, "failed")
        /\ UNCHANGED <<made, devices, binding>>
  /\ UNCHANGED <<driverVars, targets, of, by, clickVars, last, closing, conn, cursor>>

\* The request, its frame, and lastPosition.  A target may be outside of what
\* the connection knows of a stale output.
MoveMotion(t) ==
  /\ call[t] = "motion"
  /\ \/ /\ conn = "open"
        /\ cursor' = t /\ last' = t
        /\ Goes(t, "done")
     \/ /\ conn # "open" \/ monitor[of[t]] \in Stale
        /\ Goes(t, "failed")
        /\ UNCHANGED <<cursor, last>>
  /\ UNCHANGED <<driverVars, targets, of, by, clickVars, binding, closing, deviceVars>>

\* The caller of a failed move: the keyboard loop finishes the session, the
\* goroutine of a repeat stops it.
MoveFailed(t) ==
  /\ call[t] = "failed"
  /\ Goes(t, "done")
  /\ \/ by[t] = Keyboard /\ of[t] = session /\ EndSession(session)
     \/ by[t] = Keyboard /\ of[t] # session /\ UNCHANGED driverVars
     \/ /\ by[t] # Keyboard
        /\ repeat' = IF repeat = by[t] THEN None ELSE repeat
        /\ UNCHANGED <<session, shows, monitor, ctxDone, selected, ticked>>
  /\ UNCHANGED <<targets, of, by, clickVars, binding, last, closing, deviceVars, cursor>>

-----------------------------------------------------------------------------
(* click: its context does not end. *)

ClickTo(s, place) == click' = [click EXCEPT ![s] = place]

ClickLock(s) ==
  /\ click[s] = "lock" /\ Free
  /\ ClickTo(s, IF binding.device = None \/ last = None THEN "failed" ELSE "down")
  /\ UNCHANGED <<driverVars, callVars, left, button, binding, last, closing, deviceVars, cursor>>

ClickDown(s) ==
  /\ click[s] = "down"
  /\ \/ conn = "open" /\ button' = button \cup {s} /\ ClickTo(s, "up")
     \/ conn # "open" /\ ClickTo(s, "failed") /\ UNCHANGED button
  /\ UNCHANGED <<driverVars, callVars, left, binding, last, closing, deviceVars, cursor>>

LastPress(s) == left[s] = 1

\* After the release and its frame: another press, or the end.
ClickUp(s) ==
  /\ click[s] = "up"
  /\ \/ /\ conn = "open"
        /\ button' = button \ {s}
        /\ left' = [left EXCEPT ![s] = @ - 1]
        /\ ClickTo(s, IF LastPress(s) THEN "done" ELSE "down")
     \/ conn # "open" /\ ClickTo(s, "failed") /\ UNCHANGED <<left, button>>
  /\ UNCHANGED <<driverVars, callVars, binding, last, closing, deviceVars, cursor>>

-----------------------------------------------------------------------------
(* Close, at the shutdown: the device and the connection outside of s.mu. *)

CloseLock ==
  /\ closing.at = "no" /\ Free
  /\ closing' = [at |-> IF binding.device = None THEN "factory" ELSE "device", device |-> binding.device]
  /\ binding' = NoBinding
  /\ UNCHANGED <<driverVars, callVars, clickVars, last, deviceVars, cursor>>

CloseDevice ==
  /\ closing.at = "device"
  /\ closing' = [closing EXCEPT !.at = "factory"]
  /\ devices' = devices \ {closing.device}
  /\ UNCHANGED <<driverVars, callVars, clickVars, binding, last, conn, made, cursor>>

CloseFactory ==
  /\ closing.at = "factory"
  /\ closing' = [closing EXCEPT !.at = "done"]
  /\ conn' = "none" /\ devices' = {} /\ button' = {}
  /\ UNCHANGED <<driverVars, callVars, click, left, binding, last, made, cursor>>

\* The compositor drops the client (external), and with it what it holds.
LoseConnection ==
  /\ "lost" \in Faults /\ conn = "open"
  /\ conn' = "lost" /\ devices' = {} /\ button' = {}
  /\ UNCHANGED <<driverVars, callVars, click, left, binding, last, closing, made, cursor>>

-----------------------------------------------------------------------------
MoveStep(t) == MoveCheck(t) \/ MoveLock(t) \/ MoveOpen(t) \/ MoveCreate(t) \/ MoveMotion(t) \/ MoveFailed(t)
ClickStep(s) == ClickLock(s) \/ ClickDown(s) \/ ClickUp(s)
KbdStep == KbdSelect \/ KbdBackspace \/ KbdDirection \/ KbdRelease
CloseStep == CloseLock \/ CloseDevice \/ CloseFactory

Next ==
  \/ (\E m \in Monitors : ShowOverlay(m)) \/ CancelOverlay \/ KbdStep
  \/ HoldTick \/ (\E r \in Targets : HoldMove(r))
  \/ (\E presses \in 1..2 : CommitClick(presses))
  \/ (\E t \in Targets : MoveStep(t)) \/ (\E s \in Ids : ClickStep(s))
  \/ CloseStep \/ LoseConnection

Spec == Init /\ [][Next]_vars

-----------------------------------------------------------------------------
\* While a click is between its first press and its last release the cursor
\* does not move and the device stays: both presses of a double click are at
\* one place, whatever moves are still on their way.
ClickIsOne ==
  [][\A s \in Ids : click[s] \in {"down", "up"} /\ click'[s] \in {"down", "up"}
                       => cursor' = cursor /\ binding' = binding]_vars

\* A target is sent through a device made for the output it is meant for.
AimedAtItsOutput == [][cursor' # cursor => binding'.on = monitor[of[cursor']]]_vars

\* Devices are not left behind: the compositor has the one of the binding, and
\* for a moment of the shutdown the one that Close is about to destroy.
OneDevice == devices \subseteq {binding.device, closing.device}
=============================================================================
