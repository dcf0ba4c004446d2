-------------------------- MODULE SelectionSession --------------------------
(***************************************************************************)
(* One overlay session from the keyboard's side: the key names that the     *)
(* hub gives to Wayland key events (wayland_overlay.go), the translator      *)
(* (keyboard_state.go, keyboard_input.go, config.go), and what overlay.go    *)
(* makes of the tokens: coordinate, pending click, hidden-subcell moves and  *)
(* the goroutine that repeats a held direction.  OverlayDriver says how such  *)
(* a session begins and is torn down; here it just becomes "over".           *)
(*                                                                         *)
(* The keyboard loop takes one event at a time; a key and what the loop does *)
(* under the driver's lock is one step, the MoveAbsolute that follows is     *)
(* another.  Where the pointer goes is in SubcellNavigator.                   *)
(***************************************************************************)
EXTENDS Integers, FiniteSets, Sequences

CONSTANTS Keys,       \* the keys in use: a subset of AllKeys
          Inputs,     \* other events that may come: a subset of AllInputs
          Bindings,   \* the key bindings that the configuration may have
          MoveFails,  \* MoveAbsolute may return an error
          MaxDown,    \* keys but Shift and Ctrl that are held at once: fingers
          MaxHold     \* repeats started in the session; unbounded in the code

Letters == {"a", "h", "l"}               \* their keysym follows Shift: a, A
Directions == {"h", "l", "Left", "Right"}
Modifiers == {"Shift", "Ctrl"}           \* "Ctrl" is one of Ctrl, Alt and Super
AllKeys == Letters \cup Directions \cup Modifiers \cup {"space", "BackSpace", "Escape"}

\* A key name, <<"a", TRUE>> being A, and Shift.
KeyNames == {n \in (AllKeys \ Modifiers) \X BOOLEAN : n[2] => n[1] \in Letters}
KeyChords == KeyNames \X BOOLEAN
AllInputs == {"repeat",   \* the compositor sends the press of a held key again
              "keymap", "leave", "configure"}

\* Config.Validate: one chord each, and two at least for a double click.
Valid(b) ==
  /\ {b.left_click, b.right_click, b.exit, b.backspace} \subseteq KeyChords
  /\ b.double_click \in Seq(KeyChords) /\ Len(b.double_click) >= 2

ASSUME SelectionAssumption ==
  /\ \A b \in Bindings : Valid(b)
  /\ Keys \subseteq AllKeys /\ Inputs \subseteq AllInputs /\ MoveFails \in BOOLEAN
  /\ MaxDown \in Nat /\ MaxHold \in Nat

Holds == 1..MaxHold
NoHold == 0
NoKey == <<"none", FALSE>>

VARIABLES
  keybinds,   \* the bindings that Config.Validate accepted
  down,       \* the keys that are physically held
  focused,    \* the overlay has the keyboard focus
  xmods,      \* the modifiers in the hub's xkb state
  pressed,    \* KeyboardSessionState.Pressed: key names
  mods,       \* KeyboardSessionState.Modifiers
  matched,    \* KeySequenceMatcher.matched: chords of a double click so far
  input,      \* letters in session.coordinate
  selected,   \* session.hasSelected
  pending,    \* session.pendingLeft # nil
  over,       \* "open", or what ended the session
  moving,     \* the keyboard loop is in MoveAbsolute
  repeat,     \* session.repeat, or NoHold
  holds,      \* heldDirectionRepeats made so far
  holdKey,    \* session.repeat.key: the key name that started it, or NoKey
  cancelled,  \* the repeats whose cancel channel is closed
  hpc,        \* per repeat: "none", "wait", "tick", "move", "gone"
  late,       \* history, per repeat till it is gone: moves made after its cancel
  renamed,    \* history: letters that Shift renamed while they were held, and
              \* that have been known under another name as pressed since then
  missed      \* history: the key of this repeat was released with Ctrl held

keyVars == <<keybinds, down, focused, xmods, pressed, mods, matched, renamed>>
cellVars == <<input, selected, pending, over>>
repeatVars == <<repeat, holdKey, missed, cancelled>>
holdVars == <<repeatVars, holds>>
runVars == <<hpc, late>>
vars == <<keyVars, cellVars, moving, holdVars, runVars>>

Names == Keys \X BOOLEAN
Outcomes == {"open", "left", "right", "double", "exit", "failed"}

TypeOK ==
  /\ down \subseteq Keys /\ focused \in BOOLEAN /\ xmods \subseteq Modifiers
  /\ pressed \subseteq Names /\ mods \subseteq Modifiers
  /\ keybinds \in Bindings /\ matched \in 0 .. Len(keybinds.double_click) - 1
  /\ input \in 0..2 /\ selected \in BOOLEAN /\ pending \in BOOLEAN
  /\ over \in Outcomes /\ moving \in BOOLEAN
  /\ repeat \in Holds \cup {NoHold} /\ holds \in 0..MaxHold
  /\ holdKey \in Names \cup {NoKey} /\ missed \in BOOLEAN
  /\ cancelled \subseteq Holds
  /\ hpc \in [Holds -> {"none", "wait", "tick", "move", "gone"}]
  /\ late \in [Holds -> Nat] /\ renamed \subseteq Keys \cap Letters

Init ==
  /\ keybinds \in Bindings
  /\ down = {} /\ focused = TRUE /\ xmods = {}
  /\ pressed = {} /\ mods = {} /\ matched = 0 /\ renamed = {}
  /\ input = 0 /\ selected = FALSE /\ pending = FALSE /\ over = "open"
  /\ moving = FALSE
  /\ repeat = NoHold /\ holds = 0 /\ cancelled = {}
  /\ holdKey = NoKey /\ missed = FALSE
  /\ hpc = [i \in Holds |-> "none"]
  /\ late = [i \in Holds |-> 0]

-----------------------------------------------------------------------------
(* Names and tokens. *)

\* xkb_state_key_get_one_sym under the modifiers in force.
Name(k) == <<k, k \in Letters /\ "Shift" \in xmods>>

\* KeyboardSessionState.ApplyEvent: an event without modifiers gets the last.
Held == IF xmods # {} THEN xmods ELSE mods

\* Faulty variant: any held key counts.
FreshAlone(k) == pressed = {}
Fresh(k) == Name(k) \notin pressed

\* KeyChordFromEvent and directionFromKeyEvent know no key with Ctrl.
Chorded == "Ctrl" \notin Held
Chord(k) == <<Name(k), "Shift" \in Held>>

\* singleCommandToken: what comes before the double click.
Commands == {"right_click", "exit", "backspace"}
Single(k) == \E c \in Commands : Chord(k) = keybinds[c]

\* KeySequenceMatcher.Push: it starts again with the chord that does not fit.
Continues(k) == Chord(k) = keybinds.double_click[matched + 1]
Completes(k) == Continues(k) /\ matched + 1 = Len(keybinds.double_click)
Push(k) == CASE Completes(k) -> 0
             [] Continues(k) /\ ~Completes(k) -> matched + 1
             [] OTHER -> IF Chord(k) = keybinds.double_click[1] THEN 1 ELSE 0

\* KeyboardInputTranslator.Apply of a fresh press.
Token(k) ==
  CASE ~Chorded -> "none"
    [] Chorded /\ Chord(k) = keybinds.right_click -> "right_click"
    [] Chorded /\ Chord(k) = keybinds.exit /\ Chord(k) # keybinds.right_click -> "exit"
    [] Chorded /\ Single(k) /\ Chord(k) \notin {keybinds.right_click, keybinds.exit} -> "backspace"
    [] Chorded /\ ~Single(k) /\ Completes(k) -> "double_click"
    [] Chorded /\ ~Single(k) /\ ~Completes(k) /\ Chord(k) = keybinds.left_click -> "left_click"
    [] OTHER -> IF k \in Letters THEN "letter" ELSE "none"

Matched(k) == IF Chorded /\ ~Single(k) THEN Push(k) ELSE 0

\* What every key press does to the translator.
Typed(k) ==
  /\ pressed' = pressed \cup {Name(k)}
  /\ mods' = Held
  /\ matched' = IF Fresh(k) THEN Matched(k) ELSE matched

-----------------------------------------------------------------------------
(* The held-direction repeat. *)

\* Faulty variant: the goroutine is not told.
StopForgotten == repeat' = NoHold /\ holdKey' = NoKey /\ missed' = FALSE /\ UNCHANGED cancelled

\* stopHeldDirectionRepeatLocked
Stop ==
  /\ repeat' = NoHold /\ holdKey' = NoKey /\ missed' = FALSE
  /\ cancelled' = cancelled \cup ({repeat} \ {NoHold})

\* startHeldDirectionRepeat and the first move of moveHiddenSubcell.
StartHold(k) ==
  /\ holds < MaxHold
  /\ holds' = holds + 1
  /\ holdKey' = Name(k) /\ missed' = FALSE
  /\ hpc' = [hpc EXCEPT ![holds + 1] = "wait"]
  /\ repeat' = holds + 1
  /\ cancelled' = cancelled \cup ({repeat} \ {NoHold})
  /\ moving' = TRUE
  /\ UNCHANGED <<cellVars, late>>

\* Faulty variant: the tick is taken without a look at repeat.cancel.
NotCancelledAlways(i) == TRUE
NotCancelled(i) == i \notin cancelled

\* runHeldDirectionRepeat: its timer fires and cancel is not closed yet.
HoldTick(i) ==
  /\ hpc[i] = "wait" /\ NotCancelled(i)
  /\ hpc' = [hpc EXCEPT ![i] = "tick"]
  /\ UNCHANGED <<keyVars, cellVars, moving, holdVars, late>>

HoldExit(i) ==
  /\ hpc[i] = "wait" /\ i \in cancelled
  /\ hpc' = [hpc EXCEPT ![i] = "gone"] /\ late' = [late EXCEPT ![i] = 0]
  /\ UNCHANGED <<keyVars, cellVars, moving, holdVars>>

\* The lock region of moveHiddenSubcell, which does not ask for the cancel
\* again: it moves whatever cell is selected now.
HoldMove(i) ==
  /\ hpc[i] = "tick"
  /\ hpc' = [hpc EXCEPT ![i] = IF over = "open" /\ selected THEN "move" ELSE "wait"]
  /\ UNCHANGED <<keyVars, cellVars, moving, holdVars, late>>

\* Its MoveAbsolute: the context was asked before, so that the move may still
\* come when the session is over.
HoldMoved(i) ==
  /\ hpc[i] = "move"
  /\ \/ /\ hpc' = [hpc EXCEPT ![i] = "wait"]
        /\ late' = IF i \in cancelled THEN [late EXCEPT ![i] = @ + 1] ELSE late
        /\ UNCHANGED repeatVars
     \/ /\ MoveFails \/ over # "open"
        /\ hpc' = [hpc EXCEPT ![i] = "gone"]
        /\ IF over = "open" /\ repeat = i THEN Stop ELSE UNCHANGED repeatVars
        /\ late' = [late EXCEPT ![i] = 0]
  /\ UNCHANGED <<keyVars, cellVars, moving, holds>>

-----------------------------------------------------------------------------
(* handleKeyboardEvent and handleKeyboardToken for a fresh press. *)

Ignored == UNCHANGED <<cellVars, moving, holdVars, runVars>>

\* finishSession and claimSessionForClick stop both timers.
EndSession(how) ==
  /\ over' = how /\ pending' = FALSE /\ Stop
  /\ UNCHANGED <<input, selected, moving, holds, runVars>>

Letter ==
  /\ ~pending /\ input < 2
  /\ input' = input + 1
  /\ selected' = (input' = 2)
  /\ moving' = selected'
  /\ UNCHANGED <<pending, over, holdVars, runVars>>

Backspace ==
  /\ ~pending /\ input > 0
  /\ input' = input - 1 /\ selected' = FALSE
  /\ Stop
  /\ UNCHANGED <<pending, over, moving, holds, runVars>>

LeftClick ==
  /\ selected /\ ~pending
  /\ pending' = TRUE /\ Stop
  /\ UNCHANGED <<input, selected, over, moving, holds, runVars>>

Steers(k) == selected /\ k \in Directions /\ Chorded

\* The tokens whose handler returns without doing anything.
Useless(t) == \/ t = "none"
              \/ t = "letter" /\ (pending \/ input = 2)
              \/ t = "backspace" /\ (pending \/ input = 0)
              \/ t = "left_click" /\ (~selected \/ pending)
              \/ t = "double_click" /\ ~(selected /\ pending)
              \/ t = "right_click" /\ ~selected

HandleToken(k) ==
  LET t == Token(k)
  IN \/ t = "letter" /\ Letter
     \/ t = "backspace" /\ Backspace
     \/ t = "left_click" /\ LeftClick
     \/ t = "double_click" /\ selected /\ pending /\ EndSession("double")
     \/ t = "right_click" /\ selected /\ EndSession("right")
     \/ t = "exit" /\ EndSession("exit")
     \/ Useless(t) /\ Ignored

\* The loop is at its read and the session goes on.
Reading == over = "open" /\ ~moving

HandlePress(k) ==
  /\ Typed(k)
  /\ \/ ~Fresh(k) /\ Ignored
     \/ Fresh(k) /\ Steers(k) /\ pending /\ Ignored
     \/ Fresh(k) /\ Steers(k) /\ ~pending /\ StartHold(k)
     \/ Fresh(k) /\ ~Steers(k) /\ HandleToken(k)

\* MoveAbsolute of the keyboard loop.  A failed first move of a hold stops the
\* hold; every failure ends the session.
KeyMoved ==
  /\ moving
  /\ moving' = FALSE
  /\ \/ UNCHANGED <<cellVars, repeatVars>>
     \/ /\ MoveFails \/ over # "open"
        /\ IF over = "open"
             THEN over' = "failed" /\ pending' = FALSE /\ Stop
             ELSE UNCHANGED <<over, pending, repeatVars>>
        /\ UNCHANGED <<input, selected>>
  /\ UNCHANGED <<keyVars, holds, runVars>>

-----------------------------------------------------------------------------
(* What the user and the compositor do. *)

Press(k) ==
  /\ Reading /\ k \notin down \cup Modifiers
  /\ Cardinality(down \ Modifiers) < MaxDown
  /\ down' = down \cup {k}
  /\ IF focused
       THEN HandlePress(k)
       ELSE Ignored /\ UNCHANGED <<pressed, mods, matched>>
  /\ UNCHANGED <<keybinds, focused, xmods, renamed>>

\* Faulty variant: the comparison is the wrong way round.
ReleasesOther(k) == repeat # NoHold /\ holdKey # Name(k)

\* The release stops the repeat that was started under the same name.
Releases(k) == repeat # NoHold /\ holdKey = Name(k)

Release(k) ==
  /\ Reading /\ k \in down \ Modifiers
  /\ down' = down \ {k}
  /\ IF focused
       THEN /\ pressed' = pressed \ {Name(k)}
            /\ mods' = Held
            /\ renamed' = {j \in renamed : j = k => k \in {n[1] : n \in pressed'}}
            /\ IF Steers(k) /\ ~pending /\ Releases(k)
                 THEN Stop
                 ELSE /\ missed' = (missed \/ (holdKey[1] = k /\ ~Chorded))
                      /\ UNCHANGED <<repeat, holdKey, cancelled>>
       ELSE UNCHANGED <<pressed, mods, renamed, repeatVars>>
  /\ UNCHANGED <<keybinds, focused, xmods, matched, cellVars, moving, holds, runVars>>

\* Shift or Ctrl goes down or up: a key event, which resets the matcher when it
\* is a press, and the modifiers event that follows it.
ModifierKey(m) ==
  /\ Reading /\ m \in Keys
  /\ LET on == m \notin down
     IN /\ down' = IF on THEN down \cup {m} ELSE down \ {m}
        /\ IF focused
             THEN /\ xmods' = down' \cap Modifiers /\ mods' = down' \cap Modifiers
                  /\ matched' = IF on THEN 0 ELSE matched
                  /\ renamed' = IF "Shift" \in xmods <=> "Shift" \in xmods'
                                  THEN renamed ELSE renamed \cup (down \cap Letters)
             ELSE UNCHANGED <<xmods, mods, matched, renamed>>
  /\ UNCHANGED <<keybinds, focused, pressed, cellVars, moving, holdVars, runVars>>

RepeatPress(k) ==
  /\ Reading /\ "repeat" \in Inputs /\ focused /\ k \in down \ Modifiers
  /\ HandlePress(k)
  /\ UNCHANGED <<keybinds, down, focused, xmods, renamed>>

\* A keymap event: a new xkb state, a cleared KeyboardSessionState, no repeat.
Keymap ==
  /\ Reading /\ "keymap" \in Inputs
  /\ xmods' = {} /\ mods' = {} /\ pressed' = {} /\ renamed' = {}
  /\ Stop
  /\ UNCHANGED <<keybinds, down, focused, matched, cellVars, moving, holds, runVars>>

\* Faulty variant: a lost focus leaves the matcher where it is.
SequenceKept == matched
SequenceReset == 0

Leave ==
  /\ Reading /\ "leave" \in Inputs /\ focused
  /\ focused' = FALSE
  /\ mods' = {} /\ pressed' = {} /\ renamed' = {} /\ matched' = SequenceReset
  /\ pending' = FALSE /\ Stop
  /\ UNCHANGED <<keybinds, down, xmods, input, selected, over, moving, holds, runVars>>

\* The compositor follows the enter event with the modifiers in force.
Enter ==
  /\ Reading /\ ~focused
  /\ focused' = TRUE
  /\ xmods' = down \cap Modifiers /\ mods' = down \cap Modifiers
  /\ UNCHANGED <<keybinds, down, pressed, matched, renamed, cellVars, moving, holdVars, runVars>>

\* reconfigureActiveSession, from the lifecycle loop, in a session with a cell.
Reconfigure ==
  /\ "configure" \in Inputs /\ over = "open" /\ selected
  /\ Stop
  /\ UNCHANGED <<keyVars, cellVars, moving, holds, runVars>>

\* runPendingLeftClickTimer
DoubleClickTimeout ==
  /\ pending
  /\ EndSession("left")
  /\ UNCHANGED keyVars

-----------------------------------------------------------------------------
HoldStep(i) == HoldTick(i) \/ HoldExit(i) \/ HoldMove(i) \/ HoldMoved(i)

Next ==
  \/ \E k \in Keys : Press(k) \/ Release(k) \/ RepeatPress(k)
  \/ \E m \in Modifiers : ModifierKey(m)
  \/ Keymap \/ Leave \/ Enter \/ Reconfigure \/ DoubleClickTimeout \/ KeyMoved
  \/ \E i \in Holds : HoldStep(i)

Spec == Init /\ [][Next]_vars

\* The goroutines are scheduled, MoveAbsolute returns, timers fire.
FairSpec == Spec /\ WF_vars(KeyMoved) /\ \A i \in Holds : WF_vars(HoldStep(i))

-----------------------------------------------------------------------------
\* A repeat that was stopped moves the pointer once more at the most: the tick
\* that was on its way (runHeldDirectionRepeat asks for the cancel once a tick).
\* PRD.md promises none; the code does not keep that.
AtMostOneMoreMove == \A i \in Holds : late[i] <= 1

\* Bindings whose left click has a chord of its own, begins the double click, and
\* is followed there by no letter.  Config.Validate accepts others, which the
\* translator does not serve: with "space a space" a letter may leave the matcher
\* in the middle of a double click that has no first click, and a letter that was
\* pressed without Shift and released with it never is a fresh press again.
Plain ==
  /\ keybinds.double_click[1] = keybinds.left_click
  /\ keybinds.left_click[1][1] \notin Letters \cup Directions
  /\ \A c \in Commands : keybinds[c] # keybinds.left_click
  /\ \A i \in 2 .. Len(keybinds.double_click) : keybinds.double_click[i][1][1] \notin Letters

\* The next press of the left-click chord on a selected cell arms a click: it is
\* never taken for the rest of a double click whose first half is gone, with a
\* lost focus, or was typed before the letters.
LeftArms ==
  [][\A k \in Keys :
       /\ k \in down' \ down /\ focused /\ selected /\ ~pending
       /\ Plain /\ Chorded /\ Chord(k) = keybinds.left_click
       => pending']_vars

\* A repeat is running only while the key that started it is held, but for a
\* release that the code does not take for that of the key: with Ctrl held, or
\* of a letter that Shift has renamed since.
HeldUnlessMissed ==
  repeat # NoHold /\ over = "open" /\ ~missed => holdKey[1] \in down \cup renamed

\* A fresh press of a direction key, an arrow or H, J, K, L, moves, but with Ctrl
\* held, and but for a letter that Shift has renamed while it was held: its old
\* name may have stayed in Pressed, and the press is taken for a repeated one.
FreshPressMoves ==
  [][\A k \in Directions \cap Keys :
       /\ k \in down' \ down /\ focused /\ selected /\ ~pending
       /\ Chorded /\ k \notin renamed
       => moving']_vars

\* The goroutine of every repeat that is not the session's any more ends.
HoldsEnd == \A i \in Holds : i <= holds /\ repeat # i ~> hpc[i] = "gone"

(* What the documents say, checked where the code disagrees. *)

\* PRD.md: releasing the held key stops the repeat immediately.
HeldOnly == repeat # NoHold /\ over = "open" => holdKey[1] \in down
=============================================================================
