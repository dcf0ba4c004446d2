# Verification of mousekeys

`mousekeysd` is a daemon for Hyprland that moves the mouse with the keyboard. A client asks it
over a Unix socket to `show` an overlay with a lettered grid; two letters select a cell, H/J/K/L
or the arrows move the pointer from there, Space clicks (twice for a double click, with Shift for
a right click), and the overlay may stay active for the next click. This directory holds TLA+
models of that program, TLC configurations that check them on small instances, and proofs that
TLAPS checks for every value of the constants. `PROJECT.json` maps each definition to the lines of
`src/` that it models.

Contents: [the system](#the-system), [modules](#modules-and-what-they-stand-for),
[runs](#runs), [proofs](#proofs), [disagreements](#where-code-and-documents-disagree),
[limits](#what-is-abstracted-and-what-is-left-out), [plan](#plan).

## The system

| component | source | state | operations |
|---|---|---|---|
| daemon process | `daemon.go`, `main.go` | the context of the signals, the serve loop's result | start, select on the stop or the end of serving, ordered shutdown |
| control socket | `ipc.go` | the socket's name and inode | probe, removal of a stale socket, listen, close |
| IPC server, client | `ipc.go` | the listener, a wait group of handlers | accept, handle, reply; dial, request, time out |
| daemon controller | `ipc.go` | `c.active`, `c.mu` | `show` (toggles), `hide`, `status`, `Shutdown` |
| overlay driver | `overlay.go` | `d.session` and what it owns: the letters, the selected cell, the navigator, the pending click, the repeat | `ShowOverlay`, `CancelOverlay`, `CloseOverlay`, `commitClick`, two loops per session, timers, repeats |
| event queues | `overlay.go` | events, closed, error, wait channel | `push`, `fatal`, `close`, `pop` with or without a pump |
| keyboard input | `keyboard_input.go`, `keyboard_state.go` | held keys, modifiers, the double-click matcher | translate an event to a token |
| geometry, navigation | `geometry.go`, `coordinate_entry.go`, `subcell_navigation.go` | cell, sub-cells, position | partition, select, move |
| layer surface, backend | `wayland_overlay.go`, `overlay_production.go` | `wlMu`, `fatalErr`, the surface, its shm buffers, the lazy backend | create, configure, render, unmap, destroy, dispatch |
| keyboard hub, xkb | `wayland_overlay.go`, `xkb_state_cgo.go` | the keymap, subscribers | handlers, `Subscribe`, `Close` |
| Wayland registry | `wayland_client.go` | globals, outputs, seat capabilities | `Open` with two roundtrips, handlers, `OutputForMonitor` |
| virtual pointer | `pointer.go` | the device, its output, the last position | move, click, bind again, close |
| Hyprland lookup | `hyprland.go` | none | one query per show |
| configuration | `config.go` | its file; key bindings and chord sequences | make the file when there is none, load and validate it, match chords |
| environment | `session.go` | read once | validate |
| renderer | `renderer.go`, `renderer_software.go` | none | draw a frame of lines, labels, tints, HUD and outline; blend and premultiply pixels |
| generated protocols; command line, logging, clock, trace | `internal/wayland/wlr`, `cli.go`, ... | - | - |

How they interact. An IPC handler holds `c.mu` while it calls the driver. The driver holds `d.mu`
only for short regions, and everything slow (the compositor, the pointer, Hyprland) is called
outside of it, so that what was read under the lock may be stale when it is used. A session has a
keyboard loop and a lifecycle loop, one goroutine for each pending click and one for each held
direction; any of them, or an IPC handler, may end the session, and a click commit may open the
next one. All of them share one Wayland connection under `wlMu`, which the loop that dispatches
holds *while it blocks in a read*; ending a session therefore cancels its context, which closes
the connection under the reader, and the teardown that sees the closed connection makes the lazy
backend open another one for the next show. Keyboard events go from the connection through the hub
to one queue per session. The pointer has a connection and a lock of its own.

What is hard, and what each part owes (`PROJECT.json` lists each hazard at its line):

* *driver*: one owner of the overlay whoever races; a click is sent once, after the session's own
  overlay was asked away; no frame maps a surface after the teardown; no armed click is forgotten or
  committed by a stale timer; no goroutine is leaked; each request is answered.
* *queue*: the unlock before the select; order; the events that precede a close.
* *selection*: keys are known by names that depend on Shift; a repeat must end with its key; the
  translator's half-typed double click and the pending click are two states that must agree.
* *process*: several daemons and stale sockets; a configuration file that is made but not yet
  written; a stop while requests are handled; crashes.
* *surface*: frames only between the first configure and the destroy; the teardown against a
  reader that holds the lock; errors that are never reset; memory; a backend of two sessions that
  one of them resets.
* *hub*: events between the registration of a session and the replay of the keymap; the end.
* *pointer*: moves of an old session and clicks of a new one; a stale device.
* *registry*: what is known of outputs that come and go during the roundtrips.
* *geometry, renderer*: divisions, far edges, sub-cells below a pixel; lines and halos that fill or
  cover what has to be seen; the integer arithmetic of colours.

## Modules and what they stand for

A step is what one goroutine does in one region of a lock, or one call it makes outside of it.
Model names keep the source's names. An operator that is introduced as a *faulty variant* is not
used by any specification: it is a plausible bug, with which the neighbouring definition is replaced
to see that a property notices.

**OverlayPromise** - the driver's promise: `Open`, `End`, `Click` of one session at a time; each
ends once, and is clicked at most once, after its end and in the way that ended it.

**OverlayDriver** - `layerShellOverlayDriver` under `daemonController`. `session` is `d.session`;
`stage[s]` says how far `ShowOverlay` (lookup, create, configure, render, grab, install) or the
teardown (close, unmap, destroy, reset, click, reshow) of session `s` has come; `kbd`, `life` and
`due` are its goroutines, `ipc` the one handler that `c.mu` lets in. `CloseOverlay` at the end is
three steps of it: finish the session, close the pointer, close the backend. Calls that leave the
process may fail as `Faults` allows: every stage of a show, a draw, the network (a closed
connection), the closing of the backend after that, a fatal error of the backend, the click, an event
source. `LookupMonitor` is all there is of Hyprland. `surface[s]` is the layer surface *as the requests
written so far leave it*: Unmap and Destroy wait for no answer. The compositor takes these requests
in their order, but it may read the pointer's connection first.
`KeepsPromise` instantiates OverlayPromise with what became of each session.

**EventStream**, **EventQueue** - the promise of a queue (what is received is a prefix of what was
sent; after the end nothing more), and `overlayEventQueue[T]`: the slice, the flags, the wait
channel that is made under the lock and closed by a writer, and `pop` in its steps: take, pump or
select, and the end of the context.

**SelectionSession** - one session from the keyboard's side: `KeyboardInputTranslator` with the
bindings of a configuration that Validate accepts (chosen from `Bindings`), `KeySequenceMatcher`,
`KeyboardSessionState` (which keys are down *by name*), coordinate entry, the pending click, and up to `MaxHold` goroutines of the held repeat, each at its tick, its
check of the cancel, and its move. Two modifiers are in it: Shift, which renames letters, and Ctrl,
which stands for Ctrl, Alt and Super, with any of which a key is neither a chord nor a direction.
`xmods` are those of the hub's xkb state, `mods` the session's. Direction keys are arrows and letters
(h, l). Two histories say what the code may miss: `renamed`, the letters that Shift renamed while they
were held and whose old name may be in `Pressed`, and `missed`, that the key of the repeat was
released with Ctrl.

**DaemonProcess** - `runDaemon` from `LoadConfig` to the exit for several daemons over one file and
one name: the configuration file is created, written and read in separate steps (`CreateConfig`,
`WriteConfig`, `LoadConfig`);
`listenIPCSocket` with the probe, the removal and the second bind as separate steps; `Serve` and its
handlers; the `select` and its two cases; `Close` of the owner, which removes the name only if it
is the file it made; clients that dial, wait and time out; kills. External: the kernel's sockets,
and the service manager's signal.

**LayerSurface** - one session's surface on `realWaylandOverlayBackend`: `wlMu`, `fatalErr`,
`dispatchOnce` with the read that the end of the context interrupts by closing the connection (and
the goroutine it leaves behind, `straggler`), `withWayland`'s two questions about the context,
Configure and Render with the buffer that is committed and *then* put on the list, Unmap, Destroy,
and `resetWaylandAfterClosedNetwork` with the lazy backend (`held`). The calls of a teardown have the
context of who ends the session: a loop's or a click's never ends; that of a `hide`, a toggle or a
show that gives up ends with the daemon's (`stopping`), after which `withWayland` returns its error
(`Expired`) and the surface stays until the connection is closed. A read from a lost connection gets
`io.EOF` or another error (`ReadErrors`), and at `io.EOF` the keyboard loop leaves the session as it is
(`Leaves`). A second session, the *guest*,
is shown before this one is installed or after it was given up: `Ensure` gives it the connection the
lazy backend holds, which may be this session's, and its end may `LazyClose` that one. Of the guest
there is only what it does to the connections. `Pump` is the gap of a pumped `pop` between its look
at the queue and its dispatch.

**CellGeometry**, **SubcellNavigator** - the arithmetic in integers (a position is a number of
units of 1/(2*count) pixel, so that centres and steps are exact), and a session that selects, moves,
goes back and sees its monitor resized, with the request that `absoluteMotionRequest` makes of each
target: relative to the output, or in the layout of all outputs for an old pointer manager. The
layout is asked for in both modes, and an output without a size (`LayoutKnown`), such as one that was
plugged while the connection was opened, makes it fail.

**GridRenderer**, **OverlayFrame**, **PixelBlending** - `RenderGridWithState` and
`RenderSelectedCellOutline` as the list of rectangles they draw, in their order, each with its colour
(a glyph is its box), so that a pixel's colour is that of the last box over it whose alpha, scaled by
`GridOpacity`, is not 0; the frames of the
session of SubcellNavigator, whose typed letters are the state that is drawn; and the blending and
premultiplication of one pixel in the integers of the code.

**VirtualPointer** - `virtualPointerSynthesizer` called by keyboard loops, repeats and commits of
several sessions: the check of the context, `s.mu`, the binding of a device to an output (destroyed
and made again when the output changes), the lazy factory's connection, a device that cannot be made
(the fault `create`: the connection knows no output of the monitor, or one without a size, or lost the
manager, the seat or a proxy), presses and releases, Close.

**WaylandRegistry** - `WaylandClientBase.Open`: requests and events in order on the wire, binds,
the two syncs, zxdg outputs asked for in between (a request that cannot be made is recorded, and Open
goes on), removals, `validateRequired`, and
`OutputForMonitor` by name and then by place. (Its `Init`, `Next` and the like are called
`RegistryInit`, `RegistryNext`, ..., because ConnectionProofs extends EventQueue as well.)

**KeyboardHub** - the handlers of `wl_keyboard` in their steps (the hub's lock is released between
them), the reading of a keymap's file, subscriptions with the replay of the last keymap after the
unlock, fatal errors, `Close` and the freeing of the xkb state.

`MC*` modules instantiate these for TLC; `*Proofs` modules hold theorems.

## Runs

Every run finishes within two and a half minutes, most within one. The passing runs together take every action.

| run | what it asks | bounds, and why they are enough |
|---|---|---|
| DriverClicks | `KeepsPromise`, `SentAwayBeforeClick`, `NoOrphan`, `NoLateFrame` | two sessions: the old one and the one that a stay-active click or a request opens; letters, left and right clicks; faults of shows, teardowns and clicks; one pending click each |
| DriverSession | `NewestTimerCommits`; liveness: `PendingResolves`, `SessionEnds`, `IpcAnswers` | one session with *every* input, request and fault, and two pending clicks: a stale timer needs one newer than itself. Shows beyond the first end as a failed lookup does |
| DriverShowDuringClick | finds `NoOverlayAtClick` violated | two sessions, no faults |
| QueueReader | `QueueInv`, `KeepsStream`, `Delivered` | three events of two kinds: enough for one taken, one queued and one in the race; both kinds of reader |
| Selection | `AtMostOneMoreMove`, `HeldUnlessMissed`, `LeftArms`, `FreshPressMoves`, `HoldsEnd` | the default bindings, and a double click of three chords with another key between two of the left click; seven keys, among them a direction that is a letter and one that is an arrow, two held at once besides Shift and Ctrl, two repeats (an old one that is still on its way beside the new one), focus, keymap, configure, repeated presses and failing moves |
| SelectionShiftHold | finds `HeldOnly` violated | two keys, one repeat |
| Daemon | `Reachable`, `StaleOnlyByCrash`, `RefusedForCause`, `EndsAfterHandlers`, `ShutDownForGood` | two daemons, two clients, three sockets, one kill or failed write; more sockets than daemons, so that a name changes hands twice |
| Surface | `GoneWhenDown`, `Reusable`, `KeyboardAlive`, `BuffersFreed`, `FramesInLife`; liveness: `TeardownEnds` | three events of the compositor, a configure and two more that race the teardown; two when a guest shares the connection; the daemon's stop and a lost connection at any time |
| Navigator | `PixelsPartitioned`, `NeverRefused`, `EveryMoveShows`, `FrameLegible` | a grid of 3 on monitors of 2 and 22 pixels (one smaller than the grid, one with room for lines, labels, the HUD and clear pixels; neither is divided by it), a second output to either side or one without a size, both manager versions, two moves of 1 to 4 sub-cells, lines of 1 pixel with halos and labels of 2, the default opacity |
| Pointer | `OneDevice`, `ClickIsOne`, `AimedAtItsOutput` | two outputs, one of them changed since the connection opened, two sessions, four targets: a move of each session, one of a repeat, and the next; every fault of the connection and the factory |
| Registry | `Informed`, `RightOutput`, `MirrorsOutputs` | two outputs (one of them of fractional size), one seat, two changes during or after Open |
| Keyboard | `SeesAll`, `NamedByItsKeymap`, `ClosedHubEnds` | two subscriptions, four events: two keymaps with a key after each |

What they show, in more words:

* A driver run has all the races of shows, cancels, clicks, timers and lost surfaces.
  `SentAwayBeforeClick` says that the requests that destroy a session's surface are written before its
  click is, or the surface is lost, however the unmap, the destroy and the reset went. That the
  compositor has taken them by then is more than the code waits for. `IpcAnswers`
  says that every request ends and gives `c.mu` back, unless the show in hand waits for its first
  configure for ever (`ShowIsConfigured`), `SessionEnds` that a session that was taken from
  the driver is torn down to the end, whatever fails, and that its loops return.
* `AtMostOneMoreMove` is the most that the code gives: a tick that has passed its check of the
  cancel moves after the release, which `PRD.md` excludes.
* `HeldUnlessMissed` says that the repeat is that of a key that is down, but for the two releases that
  the code does not take for one: with Ctrl, Alt or Super held (`missed`), and of a letter under another
  name (`renamed`). `FreshPressMoves` says that every other press of a direction key on a cell moves:
  a letter that was renamed may be in `Pressed` under its old name, and is taken for a repeated press.
* `LeftArms` relates two components: with a cell selected and no click pending, the next left-click
  chord arms a click, whatever was typed before, because the translator's matcher was reset. It is
  claimed of bindings that the translator serves (`Plain`): the left click is no letter or direction
  key, the double click begins with it, no other command has that chord, and no letter follows
  within the sequence.
* `Reachable` and `RefusedForCause` except daemons that *started at the same time* (`raced`): after
  the probe, `os.Remove` takes the name of whichever socket has it by then, and two daemons may both
  come up over a stale socket. A sequential start is safe. `RefusedForCause` also covers the
  configuration file: one that another daemon has created and not written yet is empty, which is
  a valid configuration, so that a killed first start refuses no later one. A write that *fails* half
  way leaves a file (`config = "part"`) for which it is not claimed.
* `EndsAfterHandlers` covers both cases of the final `select`: when serving and the context end
  together it may skip `controller.Shutdown`; the handlers have been waited for all the same.
* OverlayDriver assumes that a call of the backend returns, but for the wait for the first configure.
  `TeardownEnds` of LayerSurface shows it for the teardown, although the reader holds `wlMu`: the teardown cancels the context, which closes
  the connection under the reader.
* `GoneWhenDown` is what OverlayDriver takes of its backend: a failed unmap means that the
  connection is gone (and the surface with it), that the backend is fatal, or that the daemon is
  stopping and the teardown had a handler's context; then the surface goes with the connection, which
  the shutdown closes.
* `Reusable` says that whatever two sessions did to the backend they shared, the lazy backend does not
  keep a connection that was closed. It excepts a daemon that is stopping and a backend with a fatal
  error, which is never reset and refuses the next show as well. `KeyboardAlive` says that the
  driver's session has a keyboard loop, so that a key can end it. The exceptions are a session whose
  backend another session's reset has closed (`shared`), and a connection that the compositor has
  closed: the loop returns on `io.ErrClosedPipe` or `io.EOF` and leaves its session in `d.session`.
* `NeverRefused` says what makes a target fail: a cell without a pixel, a monitor that was resized since
  the pointer's connection was opened, or an output, be it another one, without a size.
* `FrameLegible` says of every frame of a session that the cells to choose from, or the chosen one,
  have a line on each side, also along the edges of the monitor and whatever is drawn afterwards, that
  cells without a label or a tint can be seen through, and that the HUD hides no label of the bottom
  row. It is claimed of cells with room for two halos, rows with room for the HUD and monitors with
  room for three of it (`Roomy`): Validate accepts line widths that fill a cell, and where rows are
  lower the HUD covers a line. The default configuration needs rows of 30 pixels, and has rows of 41
  on a monitor of 1080. It is claimed of opacities above 0: 0 is valid and draws no line.
* The Navigator run evaluates `BlendingAssumption` too: `Premultiplied` for every pixel, `Covers`
  and `Fits` for colours and alphas at the ends and in the middle of a channel.
* `BuffersFreed` excepts the last buffer of each loop: if Destroy takes the list between a loop's
  commit and its append, that buffer stays mapped.
* `SeesAll` says that a queue is a stretch of what the hub told from the registration on, with the
  replay at one place in it or none: nothing lost, doubled or out of order.
* `NamedByItsKeymap` excepts keys that come between the registration of a session and its replay:
  they overtake the keymap.
* `Delivered` is claimed of readers that wait on the channel only. A pumped `pop` sleeps in the read
  of the connection even if another goroutine has queued its event meanwhile.

`CHECK_DEADLOCK FALSE` stands in the runs whose bounded system really stops: the events, requests
or moves of the instance are used up. DriverClicks and DriverShowDuringClick check for deadlock.

**Fairness.** OverlayDriver, EventQueue, SelectionSession and LayerSurface have a `FairSpec`.
Weak fairness is assumed of what the Go scheduler and the runtime owe: a goroutine that can go on
goes on, a timer that is not stopped fires, a call out of the process returns. Users, clients and
the compositor owe nothing; in LayerSurface nobody is promised the mutex before others; in
EventQueue a pump is only promised to return once its context ends. That calls of the backend
return is an assumption of OverlayDriver which `TeardownEnds` of LayerSurface supports for the
teardown. `waitForConfigure` has no deadline of its own, and a compositor that never configures
keeps the request: `AwaitConfigure` is therefore not fair, and `IpcAnswers` has the condition
`ShowIsConfigured`.

## Proofs

Proved by TLAPS for every value of the constants that satisfies the named assumptions
(`BoundsAssumption`, `ConfigAssumption`, `QueueAssumption`, `SelectionAssumption`,
`ProcessAssumption`, `SurfaceAssumption`, `NavigatorAssumption`, `PointerAssumption`,
`RegistryAssumption`, `HubAssumption`, all evaluated by TLC too). They ask for bounds that are numbers, sets of the right
members and, of bindings, what Validate asks. No proof uses fairness. Each inductive invariant was
checked by TLC on the instance of its module's run before it was proved.

**OverlayDriverProofs.** `TypeInvariant`, then `SafetyInvariant == Spec => []SafetyInv`, which was a
property of DriverSession until it was proved. The
properties a reader cares for (`OneOwner`, `ArmedMeansAimed`, `SentAwayBeforeClick`, `NoOrphan`) are not
inductive: that a click finds its surface destroyed or lost needs to know that a session torn down was the owner
(`OneOwner`), that a connection found closed means a lost surface and is what is reset (`LostIsGone`), that its context
has ended (`Cancelled`); that a pending click is aimed needs `Complete` and `Newest`; and an id not
handed out yet has to be untouched (`Fresh`, `Pristine`). Their conjunction is inductive, with one
step per action. From it follow `OneOwnerAlways`, `SentAwayBeforeClickAlways`, `ArmedMeansAimedAlways`,
`NoOrphanAlways`, the action properties `NoLateFrameAlways` and `NewestTimerCommitsAlways`, and
`Refinement == Spec => KeepsPromise`: install maps to `Open`, the claim of a click and the finish of
a session to `End`, the button event to `Click`, and everything else stutters.

**ConnectionProofs**, of the queue: `QueueInvariant == Spec => []QueueInv` (what was received followed by what is
queued is what was pushed; a reader that sleeps on an open channel has nothing to take; and what the
reader's place tells of the channel), `NoMissedWakeupAlways`, and `StreamRefinement`.

**ConnectionProofs**, of the registry: `RegistryInvariant` for any outputs, seats, places and changes.
The proof is about two queues, the requests and the wire, and what each has in which order: `On`,
`Once`, `Ordered`, `Ahead` and `LastSays`, with a lemma on what becomes of them when a queue gets one
more (`Gets`), loses its head (`Takes`), is followed by another (`Joined`) or lists a set (`Listed`).
What Open relies on is that the compositor answers in order, so that the answer to the second sync
comes after what was asked before it. As an invariant: until then whatever an output of the first
roundtrip has to tell is told, or stands on the wire ahead of that answer, or is asked for ahead of
the sync; or the output is gone, and its removal is ahead (`Due`). That nobody asks about an output
that the client does not know (`Asked`) needs that a global is announced once and before it is
removed (`Announced`), and that what was taken away has no proxy (`Dealt`). `InformedAlways` follows,
with `OneSeat` for the seat; `RightOutputAlways` needs besides that a zxdg_output tells of outputs
of the first roundtrip only (`OfFirst`), which have told their names; and `MirrorsOutputsAlways` that
the last event of a proxy on the wire, or what was told when there is none, is the place
(`Placed`). `RegistryAssumption` says which globals are distinct and that they are finitely many,
because they are sent as a list.

**SubcellNavigatorProofs.** `TypeInvariant`; `InsideMonitorAlways`; `PixelsPartitionedAlways`, from a
lemma that the cell of pixel p is `((p + 1) * parts - 1) \div total` and that spans are disjoint, an
argument about integer division for every size and grid; `NeverRefusedAlways`: as long as the
pointer's connection knows the monitor's size, and some size of every output, the request of any position of the navigator is
within its limit in both modes and for every layout; and `EveryMoveShowsAlways`: a cell never has
more sub-cells than pixels (`WholeSteps`), so that a step is a pixel or more, and two points a pixel
apart are rounded to two requests. Of the renderer, for every pixel: `PremultipliedAlways` (no colour
exceeds its alpha in the shm buffer), `CoversAlways` (what is drawn over a pixel makes it no more
transparent and gives it a colour between the two, a weighted mean rounded) and `FitsAlways` (the
sums stay within a uint32).

Of the frames, `FrameLegibleAlways`, for every roomy size of the monitor, grid, line width and label
size, and every opacity but 0 (in hundredths: no line then loses its alpha by rounding, `LinesDrawn`).
A frame is a sequence of boxes of which the last at a pixel is seen. So the lemmas say where a
sequence has its colour on top (`Tops`) and where it draws nothing (`Misses`), and what becomes of
this when sequences are put one after the other (`ConcatTops`, `ConcatStays`, `ConcatMisses`); from
`TopShows` the pixel has that colour. The rest is geometry: a line covers the edge it is drawn at, also
along the monitor's edges (`StrokeCovers`), different edges are further apart than two halos
(`EdgesApart`, `StrokesApart`), between them is a pixel that no line reaches (`StrokesClear`), and a
letter with its halo stays inside its cell, the HUD inside the bottom row (`LabelInside`,
`HUDInside`). A line is seen at the corners of its cell, where no letter is. The attempt to prove
this showed that `Roomy` used to claim too much: with rows too low for the HUD, its halo covers the
line above the bottom row, which the sizes of the run had not shown.

**SelectionSessionProofs.** `SessionInvariant` for every configuration that Validate accepts and any
keys, fingers and repeats. `AtMostOneMoreMoveAlways` rests on `LateOnce`: after its cancel a repeat
makes the move whose tick was before it, and from then on waits, finds the cancel and goes.
`LeftArmsAlways` rests on `SequenceFresh`: on a cell without a pending click the matcher of a plain
configuration is at its start. `HeldUnlessMissedAlways` and `FreshPressMovesAlways` rest on
`PressedAreDown`: a key that is known as pressed is held, or is a letter that Shift renamed. Neither has
a hypothesis about the keys. SelectionShiftHold shows that a repeat of a renamed letter does go on.

**DaemonProcessProofs.** `ProcessInvariant` says who has which socket file at which place of
`runDaemon`, for any number of daemons, clients and crashes. What holds of a daemon only while no
other one claims the name is a conjunct of its own (`Alone`, under `~raced`): no listener but the
named one, and `remove` and `relisten` find what the probe saw. From it `ReachableAlways`,
`StaleOnlyByCrashAlways`, `RefusedForCauseAlways`, and from the parts about `Serve` and `Close`
(`Served`, `Waited`, `Opened`, `Closed`) `EndsAfterHandlersAlways` and `ShutDownForGoodAlways`.

**VirtualPointerProofs.** `PointerInvariant`: under `s.mu` one goroutine at a time is in a move or a
click (`OneHolder`), and the move about to be sent has a device of its own output (`Bound`). From it
`OneDeviceAlways`, `ClickIsOneAlways`, `AimedAtItsOutputAlways`. That no more devices are made than
the type allows needs to count the moves that got past the creation (`OneEach`).

**LayerSurfaceProofs.** `SurfaceInvariant` for any events and whatever the guest does. The hard part
is `ReusableAlways`. It needs that a connection that was closed and is still held by the lazy
backend has somebody on the way to reset it (`ThisClosed`, `NextClosed`): the guest, or the teardown,
which has met the network error or will, because a loop that still reads when Destroy's requests are
over has let none of them through (`StillReading`). `KeyboardAliveAlways` needs that only a guest on
the same connection takes the session's hub away (`Shared`), or an `io.EOF`, of which the compositor alone is the cause, `BuffersFreedAlways` that every mapped
buffer is on the list, taken from it or on its way there (`Kept`); `GoneWhenDownAlways` and
`FramesInLifeAlways` follow from `Gone`, `Alive` and `Drawing`. The invariant has the types but for the
bounds in `TypeOK` that count buffers and events.

**KeyboardHubProofs.** `HubInvariant`: each queue is a stretch of the hub's log with at most one
replay in it (`Holds`), what xkb has loaded is what the hub told last, up to the handler that is about
to tell it (`Loaded`), and the hub and every subscription remember the keymap that was in force at
their place of the log (`Remembered`). `SeesAllAlways` and `ClosedHubEndsAlways` follow at once;
`NamedByItsKeymapAlways` by where the keymap of a key stands: before the registration, between it and
the replay, or after the replay.

**Model-checked only.** Liveness (`PendingResolves`, `SessionEnds`, `IpcAnswers`, `Delivered`,
`HoldsEnd`, `TeardownEnds`) rests on fairness and ENABLED, which is out of the prover's reach; so is
induction over data. Every invariant and every action property of a passing run is stated by a
theorem.
Where a module's type invariant is no property of a run, it is a part of the module's inductive
invariant, except for the counts in LayerSurface's.

## Where code and documents disagree

* `DriverShowDuringClick`: `PRD.md:100` wants the overlay unmapped before any button event.
  `commitClick` gives the session up first, and a `show` request that comes then maps a new overlay,
  under which the button event is sent.
* `DriverClicks`, of the same line: the requests that destroy the session's *own* surface are written
  before the button event (`SentAwayBeforeClick`), but on another connection, and nothing waits for the
  compositor to have taken them.
* `SelectionShiftHold`: `PRD.md:85` wants the release of a held key to stop the repeat at once.
  A key is known by the name xkb gives it under the Shift of the moment, so that the release of a
  hold whose Shift changed carries another name and stops nothing.
* `Selection`, of the same line: a release with Ctrl, Alt or Super held is no direction event and stops
  nothing either (`HeldUnlessMissed` names both ways, and shows that there is no third); and after any
  release a tick that has passed its check moves once more (`AtMostOneMoreMove`).
* `Selection`, of `PRD.md:78`: a letter that was pressed as `h` and released as `H` stays in `Pressed`, and
  the next press of `h` is taken for a repeated one and moves nothing (`FreshPressMoves` excepts it).
* `DriverSession`, of `vibedrive-plan.yaml:227`: event waits need deadlines. `waitForConfigure` has none
  (`IpcAnswers` has the condition that it ends).
* `Daemon`, of `vibedrive-plan.yaml:167`: two live daemons cannot run on the same path. Two that start at
  the same time over a stale socket may (`Reachable` excepts them).

Where the run passes, it checks the most that the code gives, and the property says what it leaves out.

Behaviour that was met while modelling, of which no document says otherwise:

* a `hide` during the commit of a stay-active click answers that nothing is active, and the overlay
  appears afterwards;
* a session that is given up resets the lazy backend, and if the next one got the same connection its
  keyboard loop ends with `io.ErrClosedPipe` and leaves a session that keys cannot end any more; one
  whose compositor hangs up does so with `io.EOF`. The next `show` takes the session for active and
  toggles it off;
* a `hide`, a toggle or a show that gives up while the daemon is stopping may leave its surface to the
  end of the connection;
* an output without a size, be it another one than the monitor's, makes every pointer target fail;
* a write of the configuration file that fails half way leaves a file that refuses every later start;
* with a double click such as `space a space`, which Validate accepts, the letter `a` may leave the
  matcher in the middle of a double click whose first click was never made;
* the buffers that the compositor has released stay in memory until the session's `Destroy`;
* of two frames that a letter and a reconfiguration draw at the same time, the older may be committed
  last; of two targets that a repeat and a key press compute, the older may be sent last;
* a late move of a cancelled session may replace the device of the next, whose click then fails;
* where the rows are too low for the HUD (less than 30 pixels with the defaults) it is drawn over the
  lines of the column in which the second letter chooses a cell;
* a redraw may have to wait for `wlMu` until the next event arrives;
* an output that is plugged between the two syncs of Open has no size until it is told;
* a target at the far edge is rounded to the pixel after the last one, which is accepted;
* `OwnerRemoves` finds the name gone in practice: Go's listener unlinks it when it closes.

## What is abstracted, and what is left out

Abstracted in the models: the text of letters and labels, and the shape of a glyph (it is its box);
Ctrl, Alt and Super are one modifier; Caps Lock, which renames letters without a modifier that the code
looks at, and opacities between 0 and 0.01 are left out; when the compositor reads the requests of one
connection against those of another; the times of the speed stages of a held repeat (1 to 4 sub-cells are a
choice); the rounding of float64; arguments and versions of protocol requests; file names other than
the control socket, and a name that is not a socket. The events that describe an output come as one,
a registry name is not used again, and one seat comes and goes in the Registry run. The first
configure has the size that Hyprland told. The context of the shutdown does not end during `Close`.
The xkb state is a C object without a lock: a handler that comes after its end is taken to find
nothing. A held Space with a keymap event in between may be taken for a double click; this is not
checked. Fingers are bounded by `MaxDown`.

Chosen by the instance: `Bindings`, `LineWidth`, `LabelSize`, `Sizes`, `Places`. Bounds:
`MaxSession`, `MaxPending`, `MaxPush`, `MaxHold`, `MaxDown`, `MaxInode`, `MaxCrash`, `MaxEvents`,
`MaxShared`, `MaxMoves`, `MaxTarget`, `MaxChange`, `MaxEvent` stand in guards; each is named where
its constant is declared. At `MaxSession`, `ShowOverlay` ends as a failed lookup does. The theorems
hold for every value of theirs.

Not modelled: the text of the configuration file and its parser, the environment and the Hyprland
reply (pure translation of text), the shapes of the glyphs, the generated protocol code, the table of
key symbols, command line, logging, clock, trace and version.

## Plan

Done, in this order: OverlayPromise and OverlayDriver with their proofs; EventStream and EventQueue
with theirs; SelectionSession; DaemonProcess; LayerSurface; CellGeometry and SubcellNavigator with
theirs; VirtualPointer; WaylandRegistry; KeyboardHub; the lazy backend of two sessions
(LayerSurface), the bindings (SelectionSession), the configuration file (DaemonProcess);
GridRenderer, OverlayFrame and PixelBlending with its proofs.

Then the proofs of SelectionSession, DaemonProcess, VirtualPointer, LayerSurface, KeyboardHub and
WaylandRegistry, of `EveryMoveShows`, and of `FrameLegible` for every size of the monitor and width
of the lines.

Next, in this order:

1. Models: the matching of Hyprland's logical sizes, with scale and transform, to those of the
   registry; the time stages of the held repeat.
2. Proofs: that a line is seen on the whole of its side where no letter is drawn over it, not only at
   a pixel of it.
