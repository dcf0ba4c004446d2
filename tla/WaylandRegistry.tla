-------------------------- MODULE WaylandRegistry ---------------------------
(***************************************************************************)
(* One connection of WaylandClientBase (wayland_client.go): Open with its  *)
(* two roundtrips, the globals it binds, what it knows of the outputs and  *)
(* of the seat, and OutputForMonitor.  Requests and events travel in order *)
(* and are handled one at a time; the compositor changes its outputs and   *)
(* seats meanwhile.                                                        *)
(*                                                                         *)
(* The events that describe a wl_output are one event here, and so are     *)
(* those of its zxdg_output: the compositor sends them together.  A place  *)
(* stands for the logical position and size of an output.                  *)
(***************************************************************************)
EXTENDS Naturals, FiniteSets, SequencesExt

CONSTANTS Outputs, Seats,   \* the globals that come and go
          Required,         \* the required globals of which there is one each
          Places,
          Fractional,       \* outputs whose size is not mode/scale in integers
          MaxChange         \* changes of the compositor; unbounded in reality

XDG == "xdg_output_manager"
None == "none"

Globals == Outputs \cup Seats \cup Required \cup {XDG}

ASSUME RegistryAssumption ==
  /\ Fractional \subseteq Outputs /\ MaxChange \in Nat
  /\ None \notin Globals \cup Places
  /\ IsFiniteSet(Globals) /\ Outputs \cap Seats = {}
  /\ Required \cap (Outputs \cup Seats) = {} /\ XDG \notin Outputs \cup Seats \cup Required

VARIABLES
  (* the compositor *)
  present,    \* the globals there are
  gone,       \* those that were removed: their registry names are not used again
  place,      \* per output: where it is
  namers,     \* which events carry an output's name: "wl", "xdg"
  proxies,    \* <<output, "wl" or "xdg">>: what the client has bound
  served,     \* the registry was sent
  changes,
  requests, wire,
  (* WaylandClientBase *)
  opening,    \* of openWaylandClientBase: "connect", "first", "second", "open", "failed"
  has,        \* hasCompositor, hasShm, ... hasXDGOutputManager
  seat,       \* seatGlobal, if hasSeat
  capable,    \* the seat that told of its keyboard and pointer last
  outputs,    \* per known output: what the wl_output and the zxdg_output told
  bindErr,
  early       \* the outputs that were known at the end of the first roundtrip

compositorVars == <<present, gone, place, namers, served, changes>>
clientVars == <<opening, has, seat, capable, outputs, bindErr, early>>
registryVars == <<compositorVars, proxies, requests, wire, clientVars>>

Known == DOMAIN outputs
Untold == [wl |-> None, xdg |-> None]

RegistryTypeOK ==
  /\ present \subseteq Globals /\ gone \subseteq Globals /\ place \in [Outputs -> Places]
  /\ proxies \subseteq Outputs \X {"wl", "xdg"} /\ served \in BOOLEAN
  /\ opening \in {"connect", "first", "second", "open", "failed"}
  /\ has \subseteq Required \cup {XDG} /\ seat \in Seats \cup {None}
  /\ capable \in Seats \cup {None} /\ bindErr \in BOOLEAN
  /\ Known \subseteq Outputs /\ early \subseteq Outputs
  /\ \A o \in Known : outputs[o].wl \in Places \cup {None} /\ outputs[o].xdg \in Places \cup {None}

Apart(at) == \A o, p \in present \cap Outputs : o # p => at[o] # at[p]

RegistryInit ==
  /\ present \in {g \cup Required : g \in SUBSET (Outputs \cup Seats \cup {XDG})}
  /\ gone = {} /\ place \in [Outputs -> Places] /\ Apart(place)
  /\ namers \in SUBSET {"wl", "xdg"}
  /\ proxies = {} /\ served = FALSE /\ changes = 0
  /\ requests = <<>> /\ wire = <<>>
  /\ opening = "connect" /\ has = {} /\ seat = None /\ capable = None
  /\ outputs = <<>> /\ bindErr = FALSE /\ early = {}

Request(kind, g) == [kind |-> kind, of |-> g]
Message(kind, g) == [kind |-> kind, of |-> g, at |-> IF g \in Outputs THEN place[g] ELSE None]

-----------------------------------------------------------------------------
(* The compositor (external). *)

Announce == SetToSeq({Message("global", g) : g \in present})

\* What a request is answered with.  A global that is gone is bound for nothing.
Answers(r) ==
  CASE r.kind = "registry" -> {Announce}
    [] r.kind = "sync" -> {<<Message("done", None)>>}
    [] r.kind = "bind" /\ r.of \in present \cap Outputs -> {<<Message("wl", r.of)>>}
    [] r.kind = "bind" /\ r.of \in present \cap Seats -> {<<Message("caps", r.of)>>, <<Message("uncaps", r.of)>>}
    [] r.kind = "xdg" /\ r.of \in present -> {<<Message("xdg", r.of)>>}
    [] OTHER -> {<<>>}

ServeRequest ==
  /\ requests # <<>> /\ requests' = Tail(requests)
  /\ LET r == Head(requests)
     IN /\ \E answer \in Answers(r) : wire' = wire \o answer
        /\ served' = (served \/ r.kind = "registry")
        /\ proxies' = CASE r.kind = "bind" /\ r.of \in present \cap Outputs -> proxies \cup {<<r.of, "wl">>}
                        [] r.kind = "xdg" /\ r.of \in present -> proxies \cup {<<r.of, "xdg">>}
                        [] OTHER -> proxies
  /\ UNCHANGED <<present, gone, place, namers, changes, clientVars>>

Changes == changes < MaxChange /\ changes' = changes + 1 /\ UNCHANGED <<namers, served, requests, clientVars>>

Plug(g) ==
  /\ Changes /\ g \in (Outputs \cup Seats) \ (present \cup gone)
  /\ present' = present \cup {g}
  /\ \A o \in present \cap Outputs : g \in Outputs => place[o] # place[g]
  /\ wire' = IF served THEN Append(wire, Message("global", g)) ELSE wire
  /\ UNCHANGED <<gone, place, proxies>>

Unplug(g) ==
  /\ Changes /\ g \in (Outputs \cup Seats) \cap present
  /\ present' = present \ {g} /\ gone' = gone \cup {g}
  /\ proxies' = proxies \ {<<g, "wl">>, <<g, "xdg">>}
  /\ wire' = IF served THEN Append(wire, Message("remove", g)) ELSE wire
  /\ UNCHANGED place

\* An output that moves or changes its size says so on what is bound of it.
Move(o, p) ==
  /\ Changes /\ o \in present /\ p # place[o]
  /\ place' = [place EXCEPT ![o] = p]
  /\ Apart(place')
  /\ wire' = wire \o SetToSeq({[kind |-> kind, of |-> o, at |-> p] :
                               kind \in {k \in {"wl", "xdg"} : <<o, k>> \in proxies}})
  /\ UNCHANGED <<present, gone, proxies>>

-----------------------------------------------------------------------------
(* The handlers. *)

\* bindGlobal: the request is sent, or fails and is recorded.
Bind(g) ==
  \/ requests' = Append(requests, Request("bind", g)) /\ UNCHANGED bindErr
  \/ bindErr' = TRUE /\ UNCHANGED requests

Noted(g) == {g} \cap (Required \cup {XDG})

\* handleRegistryGlobal: the first of its kind is bound, and every output.
HandleGlobal(g) ==
  /\ IF g \in Seats /\ seat # None THEN UNCHANGED <<requests, bindErr>> ELSE Bind(g)
  /\ has' = has \cup Noted(g)
  /\ seat' = IF g \in Seats /\ seat = None THEN g ELSE seat
  /\ outputs' = [o \in Known \cup ({g} \cap Outputs) |-> IF o = g THEN Untold ELSE outputs[o]]
  /\ UNCHANGED <<opening, capable, early>>

WithoutOutput(g) == [o \in Known \ {g} |-> outputs[o]]
WithoutCapable(g) == IF g = seat THEN None ELSE capable

HandleGlobalRemove(g) ==
  /\ outputs' = WithoutOutput(g)
  /\ capable' = WithoutCapable(g)
  /\ seat' = IF g = seat THEN None ELSE seat
  /\ UNCHANGED <<requests, opening, has, bindErr, early>>

\* Faulty variant: what was told of an output first stays.
FirstTold(old, at) == IF old = None THEN at ELSE old
Told(old, at) == at

\* handleOutputGeometry, Mode, Scale and Name; handleXDGOutputLogicalPosition,
\* LogicalSize and Name; handleSeatCapabilities.
HandleInfo(e) ==
  /\ outputs' = [o \in Known |-> IF o # e.of THEN outputs[o]
                                 ELSE CASE e.kind = "wl" -> [outputs[o] EXCEPT !.wl = Told(@, e.at)]
                                        [] e.kind = "xdg" -> [outputs[o] EXCEPT !.xdg = Told(@, e.at)]
                                        [] OTHER -> outputs[o]]
  /\ capable' = CASE e.kind = "caps" -> e.of [] e.kind = "uncaps" -> None [] OTHER -> capable
  /\ UNCHANGED <<requests, opening, has, seat, bindErr, early>>

\* Faulty variant: no zxdg_output is asked for.
AsksNothing == {}
\* pendingXDGOutputBindings
PendingXDG == IF XDG \in has THEN Known ELSE {}

\* The end of the first roundtrip: bindPendingXDGOutputs, which records a
\* zxdg_output that it could not ask for and goes on, and another sync.
FirstDone ==
  /\ opening = "first" /\ opening' = "second"
  /\ early' = Known
  /\ \E asked \in SUBSET PendingXDG :
       /\ requests' = requests \o SetToSeq({Request("xdg", o) : o \in asked}) \o <<Request("sync", None)>>
       /\ bindErr' = (bindErr \/ asked # PendingXDG)
  /\ UNCHANGED <<has, seat, capable, outputs>>

\* validateRequired
Valid == ~bindErr /\ Required \subseteq has /\ seat # None /\ Known # {} /\ capable # None

SecondDone ==
  /\ opening = "second" /\ opening' = IF Valid THEN "open" ELSE "failed"
  /\ UNCHANGED <<requests, has, seat, capable, outputs, bindErr, early>>

-----------------------------------------------------------------------------
(* openWaylandClientBase. *)

Connect ==
  /\ opening = "connect" /\ opening' = "first"
  /\ requests' = <<Request("registry", None), Request("sync", None)>>
  /\ UNCHANGED <<compositorVars, proxies, wire, has, seat, capable, outputs, bindErr, early>>

\* dispatchOnce: by a roundtrip, and later by the surface and its keyboard; the
\* pointer's connection is not dispatched any more once it is open.
DispatchOnce ==
  /\ opening \in {"first", "second", "open"}
  /\ wire # <<>> /\ wire' = Tail(wire)
  /\ LET e == Head(wire)
     IN \/ e.kind = "global" /\ HandleGlobal(e.of)
        \/ e.kind = "remove" /\ HandleGlobalRemove(e.of)
        \/ e.kind \in {"wl", "xdg", "caps", "uncaps"} /\ HandleInfo(e)
        \/ e.kind = "done" /\ (FirstDone \/ SecondDone)
  /\ UNCHANGED <<compositorVars, proxies>>

\* The deadline of the context passes, or the read fails; Open closes the
\* connection.
GiveUp ==
  /\ opening \in {"first", "second"} /\ opening' = "failed"
  /\ UNCHANGED <<compositorVars, proxies, requests, wire, has, seat, capable, outputs, bindErr, early>>

-----------------------------------------------------------------------------
(* OutputForMonitor, for the monitor that Hyprland reports of output o. *)

\* waylandOutputState.snapshot
PlaceOf(o) == IF outputs[o].xdg # None THEN outputs[o].xdg ELSE outputs[o].wl
Named(o) == (outputs[o].wl # None /\ "wl" \in namers) \/ (outputs[o].xdg # None /\ "xdg" \in namers)
ExactSize(o) == outputs[o].xdg # None \/ (outputs[o].wl # None /\ o \notin Fractional)

\* Faulty variant: the outputs that have another name count as well.
MatchesAnyName(p, m) == ExactSize(p) /\ PlaceOf(p) = place[m]
MatchesPlace(p, m) == ~Named(p) /\ ExactSize(p) /\ PlaceOf(p) = place[m]

\* The output whose name it is, or else one without a name at its place.
OutputForMonitor(m) ==
  IF m \in Known /\ Named(m) THEN {m} ELSE {p \in Known : MatchesPlace(p, m)}

-----------------------------------------------------------------------------
Compositor == \/ ServeRequest
              \/ \E g \in Outputs \cup Seats : Plug(g) \/ Unplug(g)
              \/ \E o \in Outputs, p \in Places : Move(o, p)

RegistryNext == Connect \/ DispatchOnce \/ GiveUp \/ Compositor

RegistrySpec == RegistryInit /\ [][RegistryNext]_registryVars

-----------------------------------------------------------------------------
Quiet == opening = "open" /\ wire = <<>> /\ requests = <<>> /\ ~bindErr

\* When Open succeeds, whatever was plugged and unplugged meanwhile, the
\* outputs of the first roundtrip have told all there is: the binds and the
\* zxdg_outputs are answered before the second sync (realWaylandBaseDriver.Open).
\* The keyboard and pointer that it found are those of the seat that is bound,
\* never those of one that was removed.
Informed ==
  opening = "open" =>
    /\ \A o \in Known \cap early : outputs[o].wl # None /\ (XDG \in has => outputs[o].xdg # None)
    /\ capable \in {seat, None}

\* A monitor never gets the output of another one, however stale places are,
\* where wl_output tells names (OutputForMonitor).
RightOutput ==
  opening = "open" /\ "wl" \in namers =>
    \A m \in present \cap Outputs : OutputForMonitor(m) \subseteq {m}

\* With nothing on its way, the outputs known are those there are, at their
\* places, and each is found for its monitor if its size is exact or its name
\* was told.
MirrorsOutputs ==
  Quiet => /\ Known = present \cap Outputs
           /\ \A o \in Known : /\ PlaceOf(o) = place[o]
                               /\ Named(o) \/ ExactSize(o) => OutputForMonitor(o) = {o}
=============================================================================
