------------------------ MODULE SelectionSessionProofs ------------------------
(***************************************************************************)
(* Proofs about SelectionSession, for any bindings that Config.Validate       *)
(* accepts, any keys in use, any number of fingers and of repeats: the        *)
(* repeat of a held direction and what is left of it after its stop, the      *)
(* double click that is half typed, and what a press is taken for.           *)
(***************************************************************************)
EXTENDS SelectionSession, TLAPS

\* A cell is two letters, and a click is pending on a cell only.
CellTyped == over = "open" => (selected <=> input = 2) /\ (pending => selected)

\* Without the focus nothing is pressed, and nothing is left of a double click.
FocusLost == ~focused => pressed = {} /\ ~pending

\* A repeat is for a selected cell with no click pending, and of an arrow or H,
\* J, K, L.
HoldFits ==
  repeat # NoHold /\ over = "open"
    => focused /\ selected /\ ~pending /\ holdKey[1] \in Directions

\* What a repeat does after its cancel: the move whose tick was before it, and
\* after that move it waits, finds the cancel and goes.
LateOnce ==
  \A i \in Holds : /\ late[i] <= 1
                   /\ i \notin cancelled => late[i] = 0
                   /\ late[i] = 1 => hpc[i] \in {"wait", "gone"}

\* While no click is pending on a cell, the translator is not in the middle of
\* a double click.
SequenceFresh == Plain /\ over = "open" /\ selected /\ ~pending => matched = 0

\* What is known as pressed is held, under the name it has now, but for a letter
\* that Shift has renamed.
PressedAreDown ==
  \A k \in Keys \ Modifiers, u \in BOOLEAN :
    <<k, u>> \in pressed /\ k \notin renamed => k \in down /\ Name(k) = <<k, u>>

\* The key of a running repeat is known as pressed, unless its release was missed.
HeldIsPressed == repeat # NoHold /\ over = "open" /\ ~missed => holdKey \in pressed

SessionInv ==
  /\ TypeOK /\ CellTyped /\ FocusLost /\ HoldFits /\ LateOnce
  /\ SequenceFresh /\ PressedAreDown /\ HeldIsPressed

-----------------------------------------------------------------------------
(* Names, tokens and the matcher. *)

LEMMA Sequences2 ==
  ASSUME TypeOK
  PROVE  /\ keybinds.double_click \in Seq(KeyChords) /\ Len(keybinds.double_click) \in Nat
         /\ Len(keybinds.double_click) >= 2
<1>1. Valid(keybinds)
  BY SelectionAssumption DEF TypeOK
<1> QED BY <1>1 DEF Valid

LEMMA NameTypes ==
  ASSUME NEW k \in Keys
  PROVE  /\ Name(k) \in Names /\ Name(k)[1] = k
         /\ k \notin Letters => Name(k) = <<k, FALSE>>
         /\ \E u \in BOOLEAN : Name(k) = <<k, u>>
<1>1. (k \in Letters /\ "Shift" \in xmods) \in BOOLEAN
  BY Zenon
<1>2. Name(k) \in Names
  BY <1>1, SelectionAssumption DEF Name, Names
<1> QED BY <1>1, <1>2 DEF Name

LEMMA PushCases ==
  ASSUME NEW k
  PROVE  \/ Completes(k) /\ Push(k) = 0
         \/ Continues(k) /\ ~Completes(k) /\ Push(k) = matched + 1
         \/ ~Continues(k) /\ Chord(k) = keybinds.double_click[1] /\ Push(k) = 1
         \/ ~Continues(k) /\ Chord(k) # keybinds.double_click[1] /\ Push(k) = 0
<1>1. CASE Completes(k)
  BY <1>1, Zenon DEF Push
<1>2. CASE Continues(k) /\ ~Completes(k)
  BY <1>2, Zenon DEF Push
<1>3. CASE ~Continues(k) /\ ~Completes(k) /\ Chord(k) = keybinds.double_click[1]
  BY <1>3, Zenon DEF Push
<1>4. CASE ~Continues(k) /\ ~Completes(k) /\ Chord(k) # keybinds.double_click[1]
  BY <1>4, Zenon DEF Push
<1> QED BY <1>1, <1>2, <1>3, <1>4, Zenon DEF Completes

LEMMA MatchedTypes ==
  ASSUME TypeOK, NEW k \in Keys
  PROVE  Matched(k) \in 0 .. Len(keybinds.double_click) - 1
<1>1. Push(k) \in 0 .. Len(keybinds.double_click) - 1
  BY PushCases, Sequences2 DEF TypeOK, Completes
<1> QED BY <1>1, Sequences2 DEF Matched

\* A token is what its chord is bound to.
LEMMA TokenCases ==
  ASSUME NEW k
  PROVE  /\ Chorded /\ ~Single(k) /\ ~Completes(k) /\ Chord(k) = keybinds.left_click => Token(k) = "left_click"
         /\ Token(k) = "letter" => Chorded /\ ~Single(k) /\ ~Completes(k) /\ Chord(k) # keybinds.left_click /\ k \in Letters
<1> DEFINE R == Chord(k) = keybinds.right_click
           E == Chord(k) = keybinds.exit
           L == Chord(k) = keybinds.left_click
<1>1. Single(k) <=> R \/ E \/ Chord(k) = keybinds.backspace
  BY DEF Single, Commands
<1>2. CASE Chorded /\ R
  BY <1>1, <1>2, Zenon DEF Token
<1>3. CASE Chorded /\ E /\ ~R
  BY <1>1, <1>3, Zenon DEF Token
<1>4. CASE Chorded /\ Single(k) /\ ~R /\ ~E
  BY <1>4, Zenon DEF Token
<1>5. CASE Chorded /\ ~Single(k) /\ Completes(k)
  BY <1>1, <1>5, Zenon DEF Token
<1>6. CASE Chorded /\ ~Single(k) /\ ~Completes(k) /\ L
  BY <1>1, <1>6, Zenon DEF Token
<1>7. CASE Chorded /\ ~Single(k) /\ ~Completes(k) /\ ~L
  BY <1>1, <1>7, Zenon DEF Token
<1>8. CASE ~Chorded
  BY <1>8, Zenon DEF Token
<1> QED BY <1>2, <1>3, <1>4, <1>5, <1>6, <1>7, <1>8

-----------------------------------------------------------------------------
(* Types, action by action. *)

LEMMA HeldTypes == TypeOK => Held \subseteq Modifiers
  BY DEF TypeOK, Held

LEMMA TypedTypes ==
  ASSUME TypeOK, NEW k \in Keys, Typed(k)
  PROVE  pressed' \subseteq Names /\ mods' \subseteq Modifiers /\ matched' \in 0 .. Len(keybinds.double_click) - 1
<1>1. pressed' \subseteq Names
  BY NameTypes DEF TypeOK, Typed
<1>2. mods' \subseteq Modifiers
  BY HeldTypes DEF Typed
<1>3. matched' \in 0 .. Len(keybinds.double_click) - 1
  BY MatchedTypes DEF TypeOK, Typed
<1> QED BY <1>1, <1>2, <1>3

LEMMA StopTypes ==
  ASSUME TypeOK, Stop
  PROVE  repeat' = NoHold /\ holdKey' = NoKey /\ missed' = FALSE /\ cancelled' \subseteq Holds /\ cancelled \subseteq cancelled'
         /\ (repeat # NoHold => repeat \in cancelled')
  BY DEF TypeOK, Stop

\* What an event of the keyboard leaves of the session besides the translator.
SessionTypeOK ==
  /\ input \in 0..2 /\ selected \in BOOLEAN /\ pending \in BOOLEAN
  /\ over \in Outcomes /\ moving \in BOOLEAN
  /\ repeat \in Holds \cup {NoHold} /\ holds \in 0..MaxHold
  /\ holdKey \in Names \cup {NoKey} /\ missed \in BOOLEAN
  /\ cancelled \subseteq Holds
  /\ hpc \in [Holds -> {"none", "wait", "tick", "move", "gone"}]
  /\ late \in [Holds -> Nat]

LEMMA IgnoredTypes == ASSUME TypeOK, Ignored PROVE SessionTypeOK'
  BY DEF TypeOK, SessionTypeOK, Ignored, cellVars, holdVars, repeatVars, runVars

LEMMA EndTypes == ASSUME TypeOK, NEW how \in Outcomes, EndSession(how) PROVE SessionTypeOK'
  BY StopTypes DEF TypeOK, SessionTypeOK, EndSession, runVars

LEMMA StartTypes == ASSUME TypeOK, NEW k \in Keys, StartHold(k) PROVE SessionTypeOK' /\ repeat' = holds + 1 /\ repeat' \in Holds
<1>1. holds + 1 \in Holds /\ holds + 1 \in 0..MaxHold
  BY SelectionAssumption DEF TypeOK, StartHold, Holds
<1> QED BY <1>1, NameTypes DEF TypeOK, SessionTypeOK, StartHold, cellVars

LEMMA TokenTypes == ASSUME TypeOK, NEW k \in Keys, HandleToken(k) PROVE SessionTypeOK'
<1>1. CASE Letter
  <2>1. selected' \in BOOLEAN /\ input' \in 0..2
    BY <1>1 DEF TypeOK, Letter
  <2> QED BY <1>1, <2>1 DEF TypeOK, SessionTypeOK, Letter, holdVars, repeatVars, runVars
<1>2. CASE Backspace
  <2>1. input' \in 0..2
    BY <1>2 DEF TypeOK, Backspace
  <2>2. Stop
    BY <1>2 DEF Backspace
  <2> QED BY <1>2, <2>1, <2>2, StopTypes DEF TypeOK, SessionTypeOK, Backspace, runVars
<1>3. CASE LeftClick
  BY <1>3, StopTypes DEF TypeOK, SessionTypeOK, LeftClick, runVars
<1> QED BY <1>1, <1>2, <1>3, EndTypes, IgnoredTypes DEF HandleToken, Outcomes

LEMMA PressTypes ==
  ASSUME TypeOK, NEW k \in Keys, HandlePress(k), UNCHANGED <<keybinds, focused, xmods, renamed>>, down' \subseteq Keys
  PROVE  TypeOK'
<1>1. SessionTypeOK'
  BY IgnoredTypes, StartTypes, TokenTypes DEF HandlePress
<1>2. pressed' \subseteq Names /\ mods' \subseteq Modifiers /\ matched' \in 0 .. Len(keybinds.double_click) - 1
  BY TypedTypes DEF HandlePress
<1> QED BY <1>1, <1>2 DEF TypeOK, SessionTypeOK

LEMMA KeyTypes ==
  ASSUME TypeOK, NEW k \in Keys, Press(k) \/ Release(k) \/ RepeatPress(k)
  PROVE  TypeOK'
<1>1. CASE Press(k) /\ focused
  BY <1>1, PressTypes DEF TypeOK, Press
<1>2. CASE Press(k) /\ ~focused
  BY <1>2 DEF TypeOK, Press, Ignored, cellVars, holdVars, repeatVars, runVars
<1>3. CASE Release(k)
  <2>1. pressed' \subseteq Names /\ mods' \subseteq Modifiers /\ renamed' \subseteq Keys \cap Letters
    BY <1>3, HeldTypes DEF TypeOK, Release
  <2>2. repeat' \in Holds \cup {NoHold} /\ cancelled' \subseteq Holds
        /\ holdKey' \in Names \cup {NoKey} /\ missed' \in BOOLEAN
    <3>1. CASE Stop
      BY <3>1, StopTypes
    <3>2. CASE UNCHANGED repeatVars
      BY <3>2 DEF TypeOK, repeatVars
    <3>3. CASE UNCHANGED <<repeat, holdKey, cancelled>> /\ missed' = (missed \/ (holdKey[1] = k /\ ~Chorded))
      <4>1. missed' \in BOOLEAN
        BY <3>3, Zenon
      <4> QED BY <3>3, <4>1 DEF TypeOK
    <3> QED BY <1>3, <3>1, <3>2, <3>3 DEF Release
  <2> QED BY <1>3, <2>1, <2>2 DEF TypeOK, Release, cellVars, runVars
<1>4. CASE RepeatPress(k)
  BY <1>4, PressTypes DEF TypeOK, RepeatPress
<1> QED BY <1>1, <1>2, <1>3, <1>4

LEMMA ModifierTypes == ASSUME TypeOK, NEW m \in Modifiers, ModifierKey(m) PROVE TypeOK'
<1>1. 0 \in 0 .. Len(keybinds.double_click) - 1
  BY Sequences2
<1>2. down' \subseteq Keys
  BY DEF TypeOK, ModifierKey
<1>3. xmods' \subseteq Modifiers /\ mods' \subseteq Modifiers /\ matched' \in 0 .. Len(keybinds.double_click) - 1
  BY <1>1 DEF TypeOK, ModifierKey
<1>4. renamed' \subseteq Keys \cap Letters
  BY DEF TypeOK, ModifierKey
<1> QED BY <1>2, <1>3, <1>4 DEF TypeOK, ModifierKey, cellVars, holdVars, repeatVars, runVars

LEMMA FocusTypes == ASSUME TypeOK, Leave \/ Enter \/ Keymap PROVE TypeOK'
<1>1. CASE Leave
  <2>1. matched' \in 0 .. Len(keybinds.double_click) - 1
    BY <1>1, Sequences2 DEF Leave, SequenceReset
  <2>2. Stop
    BY <1>1 DEF Leave
  <2> QED BY <1>1, <2>1, <2>2, StopTypes DEF TypeOK, Leave, runVars
<1>2. CASE Enter
  BY <1>2 DEF TypeOK, Enter, cellVars, holdVars, repeatVars, runVars
<1>3. CASE Keymap
  BY <1>3, StopTypes DEF TypeOK, Keymap, cellVars, runVars
<1> QED BY <1>1, <1>2, <1>3

LEMMA OtherTypes == ASSUME TypeOK, Reconfigure \/ DoubleClickTimeout \/ KeyMoved PROVE TypeOK'
<1>1. CASE Reconfigure
  BY <1>1, StopTypes DEF TypeOK, Reconfigure, keyVars, cellVars, runVars
<1>2. CASE DoubleClickTimeout
  <2>1. SessionTypeOK'
    BY <1>2, EndTypes DEF DoubleClickTimeout, Outcomes
  <2> QED BY <1>2, <2>1 DEF TypeOK, SessionTypeOK, DoubleClickTimeout, keyVars
<1>3. CASE KeyMoved
  <2>1. over' \in Outcomes /\ pending' \in BOOLEAN /\ UNCHANGED <<input, selected>>
        /\ repeat' \in Holds \cup {NoHold} /\ cancelled' \subseteq Holds
        /\ holdKey' \in Names \cup {NoKey} /\ missed' \in BOOLEAN
    BY <1>3, StopTypes DEF TypeOK, KeyMoved, Outcomes, cellVars, repeatVars
  <2> QED BY <1>3, <2>1 DEF TypeOK, KeyMoved, keyVars, runVars
<1> QED BY <1>1, <1>2, <1>3

LEMMA RepeatTypes == ASSUME TypeOK, NEW j \in Holds, HoldStep(j) PROVE TypeOK'
<1>1. CASE HoldTick(j) \/ HoldExit(j) \/ HoldMove(j)
  BY <1>1 DEF TypeOK, HoldTick, HoldExit, HoldMove, keyVars, cellVars, holdVars, repeatVars
<1>2. CASE HoldMoved(j)
  <2>1. repeat' \in Holds \cup {NoHold} /\ cancelled' \subseteq Holds /\ late' \in [Holds -> Nat]
        /\ holdKey' \in Names \cup {NoKey} /\ missed' \in BOOLEAN
        /\ hpc' \in [Holds -> {"none", "wait", "tick", "move", "gone"}]
    <3>1. late' \in [Holds -> Nat] /\ hpc' \in [Holds -> {"none", "wait", "tick", "move", "gone"}]
      BY <1>2 DEF TypeOK, HoldMoved
    <3>2. CASE Stop
      BY <3>1, <3>2, StopTypes
    <3>3. CASE UNCHANGED repeatVars
      BY <3>1, <3>3 DEF TypeOK, repeatVars
    <3> QED BY <1>2, <3>2, <3>3 DEF HoldMoved
  <2> QED BY <1>2, <2>1 DEF TypeOK, HoldMoved, keyVars, cellVars
<1> QED BY <1>1, <1>2 DEF HoldStep

LEMMA TypesKept == ASSUME TypeOK, [Next]_vars PROVE TypeOK'
<1>1. CASE UNCHANGED vars
  BY <1>1 DEF TypeOK, vars, keyVars, cellVars, holdVars, repeatVars, runVars
<1> QED BY <1>1, KeyTypes, ModifierTypes, FocusTypes, OtherTypes, RepeatTypes DEF Next

-----------------------------------------------------------------------------
(* The cell and its repeat. *)

\* The parts of the invariant that say which states a session may be in.
CellInv == CellTyped /\ HoldFits

LEMMA TokenCell ==
  ASSUME SessionInv, Reading, focused, UNCHANGED focused, NEW k \in Keys, HandleToken(k)
  PROVE  CellInv'
<1> USE DEF SessionInv, Reading
<1>1. CASE Letter
  <2>1. repeat = NoHold /\ repeat' = repeat /\ ~pending'
    BY <1>1 DEF TypeOK, Letter, CellTyped, HoldFits, holdVars, repeatVars
  <2> QED BY <1>1, <2>1 DEF TypeOK, CellInv, CellTyped, HoldFits, Letter
<1>2. CASE Backspace
  <2>1. input \in 0..2 /\ ~pending' /\ repeat' = NoHold /\ input' # 2 /\ ~selected'
    BY <1>2 DEF TypeOK, Backspace, Stop
  <2> QED BY <2>1 DEF CellInv, CellTyped, HoldFits
<1>3. CASE LeftClick
  BY <1>3 DEF CellInv, CellTyped, HoldFits, LeftClick, Stop
<1>4. ASSUME NEW how, how # "open", EndSession(how) PROVE CellInv'
  BY <1>4 DEF CellInv, CellTyped, HoldFits, EndSession
<1>5. CASE Ignored
  BY <1>5 DEF CellInv, CellTyped, HoldFits, Ignored, cellVars, holdVars, repeatVars
<1> QED BY <1>1, <1>2, <1>3, <1>4, <1>5 DEF HandleToken

LEMMA PressCell ==
  ASSUME SessionInv, Reading, focused, UNCHANGED focused, NEW k \in Keys, HandlePress(k)
  PROVE  CellInv'
<1> USE DEF SessionInv, Reading
<1>1. CASE Ignored
  BY <1>1 DEF CellInv, CellTyped, HoldFits, Ignored, cellVars, holdVars, repeatVars
<1>2. CASE Steers(k) /\ ~pending /\ StartHold(k)
  <2>1. holds + 1 \in Holds /\ holdKey' = Name(k) /\ Name(k)[1] = k /\ k \in Directions
    BY <1>2, StartTypes, NameTypes DEF TypeOK, StartHold, Steers
  <2> QED BY <1>2, <2>1 DEF CellInv, CellTyped, HoldFits, StartHold, Steers, cellVars
<1> QED BY <1>1, <1>2, TokenCell DEF HandlePress

LEMMA CellKept == ASSUME SessionInv, [Next]_vars PROVE CellInv' /\ FocusLost'
<1> USE DEF SessionInv
<1>1. CASE UNCHANGED <<cellVars, holdVars, focused, pressed>>
  BY <1>1 DEF CellInv, CellTyped, HoldFits, FocusLost, cellVars, holdVars, repeatVars
<1>2. CASE repeat' = NoHold /\ UNCHANGED <<cellVars, focused, pressed>>
  BY <1>2 DEF CellInv, CellTyped, HoldFits, FocusLost, cellVars
<1>3. CASE over' # "open" /\ ~pending' /\ UNCHANGED <<focused, pressed>>
  BY <1>3 DEF CellInv, CellTyped, HoldFits, FocusLost
<1>4. ASSUME NEW k \in Keys, Press(k) PROVE CellInv' /\ FocusLost'
  <2>1. CASE focused
    BY <1>4, <2>1, PressCell DEF Press, FocusLost
  <2>2. CASE ~focused
    BY <1>1, <1>4, <2>2 DEF Press, Ignored
  <2> QED BY <2>1, <2>2
<1>5. ASSUME NEW k \in Keys, RepeatPress(k) PROVE CellInv' /\ FocusLost'
  BY <1>5, PressCell DEF RepeatPress, FocusLost
<1>6. ASSUME NEW k \in Keys, Release(k) PROVE CellInv' /\ FocusLost'
  <2>1. /\ UNCHANGED <<cellVars, focused>> /\ pressed' \subseteq pressed
        /\ UNCHANGED <<repeat, holdKey>> \/ repeat' = NoHold
    BY <1>6 DEF Release, Stop, repeatVars
  <2> QED BY <2>1 DEF CellInv, CellTyped, HoldFits, FocusLost, cellVars
<1>7. CASE Leave \/ Keymap
  BY <1>7 DEF CellInv, CellTyped, HoldFits, FocusLost, Leave, Keymap, Stop, cellVars
<1>8. CASE Enter
  BY <1>8 DEF CellInv, CellTyped, HoldFits, FocusLost, Enter, cellVars, holdVars, repeatVars
<1>9. CASE KeyMoved
  BY <1>1, <1>3, <1>9 DEF KeyMoved, cellVars, holdVars, repeatVars, keyVars
<1>10. CASE DoubleClickTimeout \/ Reconfigure
  BY <1>2, <1>3, <1>10 DEF DoubleClickTimeout, EndSession, Reconfigure, Stop, keyVars
<1>11. ASSUME NEW j \in Holds, HoldStep(j) PROVE CellInv' /\ FocusLost'
  BY <1>1, <1>2, <1>11 DEF HoldStep, HoldTick, HoldExit, HoldMove, HoldMoved, Stop, keyVars, cellVars, holdVars, repeatVars
<1>12. CASE UNCHANGED vars \/ \E m \in Modifiers : ModifierKey(m)
  BY <1>1, <1>12 DEF vars, ModifierKey, keyVars
<1> QED BY <1>4, <1>5, <1>6, <1>7, <1>8, <1>9, <1>10, <1>11, <1>12 DEF Next

\* A repeat that is told to stop has made no move after its cancel yet.
LEMMA LateKept == ASSUME SessionInv, [Next]_vars PROVE LateOnce'
<1> USE DEF SessionInv
<1>1. CASE UNCHANGED runVars /\ cancelled \subseteq cancelled'
  BY <1>1 DEF LateOnce, runVars
<1>2. ASSUME NEW k \in Keys, StartHold(k) PROVE LateOnce'
  <2>1. late' = late /\ cancelled \subseteq cancelled' /\ hpc' = [hpc EXCEPT ![holds + 1] = "wait"]
    BY <1>2 DEF StartHold
  <2> QED BY <2>1 DEF TypeOK, LateOnce
<1>3. ASSUME NEW k \in Keys, HandlePress(k) PROVE LateOnce'
  BY <1>1, <1>2, <1>3 DEF HandlePress, HandleToken, Letter, Backspace, LeftClick, EndSession, Ignored, Stop, holdVars, repeatVars
<1>4. ASSUME NEW j \in Holds, HoldStep(j) PROVE LateOnce'
  <2>1. CASE HoldTick(j) \/ HoldExit(j) \/ HoldMove(j)
    BY <2>1 DEF TypeOK, LateOnce, HoldTick, NotCancelled, HoldExit, HoldMove, holdVars, repeatVars
  <2>2. CASE HoldMoved(j)
    <3>1. late[j] = 0 /\ cancelled \subseteq cancelled'
      BY <2>2 DEF TypeOK, LateOnce, HoldMoved, Stop, repeatVars
    <3> QED BY <2>2, <3>1 DEF TypeOK, LateOnce, HoldMoved
  <2> QED BY <1>4, <2>1, <2>2 DEF HoldStep
<1>5. ASSUME NEW k \in Keys, Press(k) \/ Release(k) \/ RepeatPress(k) PROVE LateOnce'
  BY <1>1, <1>3, <1>5 DEF Press, Release, RepeatPress, Ignored, Stop, holdVars, repeatVars
<1> QED BY <1>1, <1>4, <1>5
        DEF Next, vars, ModifierKey, Keymap, Leave, Enter, Reconfigure, DoubleClickTimeout, EndSession, KeyMoved, Stop,
            holdVars, repeatVars, runVars

-----------------------------------------------------------------------------
(* The double click that is half typed. *)

LEMMA NotCompleteAtFirst == ASSUME TypeOK, matched = 0, NEW k PROVE ~Completes(k)
<1>1. ASSUME NEW n \in Nat, n >= 2, NEW m \in Int, m = 0 PROVE m + 1 # n
  BY <1>1
<1>2. Len(keybinds.double_click) \in Nat /\ Len(keybinds.double_click) >= 2
  BY Sequences2
<1>3. matched \in Int
  OBVIOUS
<1>4. matched + 1 # Len(keybinds.double_click)
  BY <1>1, <1>2, <1>3, Zenon
<1> QED BY <1>4, Zenon DEF Completes

\* On a cell without a pending click the first chord of the double click arms it.
LEMMA FirstChordArms ==
  ASSUME SessionInv, Reading, Plain, selected, ~pending, NEW k \in Keys,
         Chorded, Chord(k) = keybinds.left_click, ~Single(k), Fresh(k), HandlePress(k)
  PROVE  pending'
<1> USE DEF SessionInv, Reading
<1>1. matched = 0 /\ ~Completes(k)
  <2>1. matched = 0
    BY DEF SequenceFresh
  <2> QED BY <2>1, NotCompleteAtFirst
<1>2. ~Steers(k)
  <2>1. keybinds.left_click[1][1] = k
    <3>1. Chord(k)[1] = Name(k) /\ Name(k)[1] = k
      BY NameTypes DEF Chord
    <3> QED BY <3>1, Zenon
  <2> QED BY <2>1 DEF Plain, Steers
<1>3. Token(k) = "left_click"
  BY <1>1, TokenCases
<1>4. HandleToken(k)
  BY <1>2 DEF HandlePress
<1> QED BY <1>3, <1>4 DEF HandleToken, LeftClick, Useless

\* The bindings of a session stay, and so does what is claimed of them.
LEMMA PlainStays == UNCHANGED keybinds => (Plain' <=> Plain)
  BY DEF Plain, Commands

LEMMA SequencePress ==
  ASSUME SessionInv, Reading, focused, NEW k \in Keys, HandlePress(k), UNCHANGED keybinds
  PROVE  SequenceFresh'
<1> USE DEF SessionInv, Reading
<1> SUFFICES ASSUME Plain, over' = "open", selected', ~pending' PROVE matched' = 0
  BY PlainStays DEF SequenceFresh
<1>1. CASE ~Fresh(k)
  BY <1>1 DEF HandlePress, Typed, Ignored, cellVars, SequenceFresh
<1>2. CASE Fresh(k) /\ ~(Chorded /\ ~Single(k))
  BY <1>2 DEF HandlePress, Typed, Matched
<1>3. CASE Fresh(k) /\ Chorded /\ ~Single(k)
  <2>1. matched' = Push(k)
    BY <1>3 DEF HandlePress, Typed, Matched
  <2>2. CASE selected /\ ~pending
    <3>1. matched = 0 /\ Chord(k) # keybinds.left_click
      BY <1>3, <2>2, FirstChordArms DEF SequenceFresh
    <3>2. Chord(k) # keybinds.double_click[1] /\ ~Continues(k)
      BY <3>1 DEF Plain, Continues
    <3> QED BY <2>1, <3>2, PushCases DEF Completes
  <2>3. CASE selected /\ pending
    <3>1. Ignored \/ HandleToken(k)
      BY <2>3 DEF HandlePress
    <3> QED BY <2>3, <3>1 DEF HandleToken, Letter, Backspace, LeftClick, EndSession, Ignored, cellVars
  <2>4. CASE ~selected
    <3>1. HandleToken(k)
      BY <1>3, <2>4 DEF HandlePress, Steers
    <3>2. Token(k) = "letter"
      BY <2>4, <3>1 DEF HandleToken, Letter, Backspace, LeftClick, EndSession, Ignored, cellVars
    <3>3. ~Completes(k) /\ Chord(k) # keybinds.double_click[1] /\ k \in Letters
      BY <3>2, TokenCases DEF Plain
    <3>4. ~Continues(k)
      <4>1. CASE matched = 0
        BY <3>3, <4>1 DEF Continues
      <4>2. CASE matched # 0
        <5>1. matched + 1 \in 2 .. Len(keybinds.double_click)
          BY <4>2, Sequences2 DEF TypeOK
        <5>2. keybinds.double_click[matched + 1][1][1] # k
          BY <3>3, <5>1 DEF Plain
        <5>3. Chord(k)[1][1] = k
          BY NameTypes DEF Chord
        <5> QED BY <5>2, <5>3, Zenon DEF Continues
      <4> QED BY <4>1, <4>2
    <3> QED BY <2>1, <3>3, <3>4, PushCases
  <2> QED BY <2>2, <2>3, <2>4 DEF TypeOK
<1> QED BY <1>1, <1>2, <1>3

LEMMA SequenceStays == ASSUME SessionInv, [Next]_vars PROVE SequenceFresh'
<1> USE DEF SessionInv
<1>1. keybinds' = keybinds
  BY DEF Next, vars, keyVars, Press, Release, RepeatPress, ModifierKey, Keymap, Leave, Enter, Reconfigure,
         DoubleClickTimeout, KeyMoved, HoldStep, HoldTick, HoldExit, HoldMove, HoldMoved
<1>2. CASE UNCHANGED <<selected, pending, over>> /\ matched' \in {matched, 0}
  BY <1>1, <1>2 DEF SequenceFresh, Plain, Commands
<1>3. CASE matched' = 0 \/ over' # "open"
  BY <1>3 DEF SequenceFresh
<1>4. ASSUME NEW k \in Keys, Press(k) \/ Release(k) \/ RepeatPress(k) PROVE SequenceFresh'
  <2>1. CASE focused /\ (Press(k) \/ RepeatPress(k))
    BY <1>1, <2>1, SequencePress DEF Press, RepeatPress
  <2>2. CASE ~focused \/ Release(k)
    BY <1>2, <1>4, <2>2 DEF Press, Release, RepeatPress, Ignored, cellVars
  <2> QED BY <1>4, <2>1, <2>2
<1>5. ASSUME NEW j \in Holds, HoldStep(j) PROVE SequenceFresh'
  BY <1>2, <1>5 DEF HoldStep, HoldTick, HoldExit, HoldMove, HoldMoved, keyVars, cellVars
<1>6. CASE KeyMoved
  BY <1>2, <1>3, <1>6 DEF KeyMoved, keyVars, cellVars
<1>7. CASE (\E m \in Modifiers : ModifierKey(m)) \/ Keymap \/ Leave \/ Enter \/ Reconfigure \/ DoubleClickTimeout \/ UNCHANGED vars
  BY <1>2, <1>3, <1>7 DEF ModifierKey, Keymap, Leave, SequenceReset, Enter, Reconfigure, DoubleClickTimeout, EndSession,
                          vars, keyVars, cellVars
<1> QED BY <1>4, <1>5, <1>6, <1>7 DEF Next

\* The one name that a key has, and what a step does to it.
LEMMA NameStays == ASSUME UNCHANGED xmods, NEW k PROVE Name(k)' = Name(k)
  BY DEF Name

LEMMA NamesDiffer == ASSUME NEW j, NEW k, NEW u, j # k PROVE <<j, u>> # Name(k)
  BY DEF Name

LEMMA PressedKept == ASSUME SessionInv, [Next]_vars PROVE PressedAreDown'
<1> USE DEF SessionInv
<1>1. CASE pressed' \subseteq pressed /\ down \subseteq down' /\ UNCHANGED <<xmods, renamed>>
  BY <1>1, NameStays DEF PressedAreDown
<1>2. CASE pressed' = {}
  BY <1>2 DEF PressedAreDown
<1>3. ASSUME NEW k \in Keys, pressed' = pressed \cup {Name(k)}, k \in down', down \subseteq down', UNCHANGED <<xmods, renamed>>
      PROVE  PressedAreDown'
  <2> SUFFICES ASSUME NEW j \in Keys \ Modifiers, NEW u \in BOOLEAN, <<j, u>> \in pressed', j \notin renamed'
               PROVE  j \in down' /\ Name(j)' = <<j, u>>
    BY DEF PressedAreDown
  <2>1. CASE <<j, u>> \in pressed
    BY <1>3, <2>1, NameStays DEF PressedAreDown
  <2>2. CASE <<j, u>> = Name(k)
    BY <1>3, <2>2, NameStays, NamesDiffer
  <2> QED BY <1>3, <2>1, <2>2
<1>4. ASSUME NEW k \in Keys, Press(k) \/ RepeatPress(k) PROVE PressedAreDown'
  BY <1>1, <1>3, <1>4 DEF Press, RepeatPress, HandlePress, Typed
<1>5. ASSUME NEW k \in Keys, Release(k) PROVE PressedAreDown'
  <2>1. CASE focused
    <3> SUFFICES ASSUME NEW j \in Keys \ Modifiers, NEW u \in BOOLEAN, <<j, u>> \in pressed', j \notin renamed'
                 PROVE  j \in down' /\ Name(j)' = <<j, u>>
      BY DEF PressedAreDown
    <3>1. pressed' = pressed \ {Name(k)} /\ down' = down \ {k} /\ UNCHANGED xmods
          /\ renamed' = {i \in renamed : i = k => k \in {n[1] : n \in pressed'}}
      BY <1>5, <2>1 DEF Release
    <3>2. j \notin renamed
      <4>1. j \in {n[1] : n \in pressed'}
        OBVIOUS
      <4> QED BY <3>1, <4>1
    <3>3. j \in down /\ Name(j) = <<j, u>>
      BY <3>1, <3>2 DEF PressedAreDown
    <3> QED BY <3>1, <3>3, NameStays
  <2>2. CASE ~focused
    BY <1>2, <1>5, <2>2 DEF Release, FocusLost
  <2> QED BY <2>1, <2>2
<1>6. ASSUME NEW m \in Modifiers, ModifierKey(m) PROVE PressedAreDown'
  <2> SUFFICES ASSUME NEW j \in Keys \ Modifiers, NEW u \in BOOLEAN, <<j, u>> \in pressed', j \notin renamed'
               PROVE  j \in down' /\ Name(j)' = <<j, u>>
    BY DEF PressedAreDown
  <2>1. focused /\ pressed' = pressed /\ down \ Modifiers = down' \ Modifiers
    BY <1>6 DEF ModifierKey, FocusLost
  <2>2. renamed \subseteq renamed'
    BY <1>6 DEF ModifierKey
  <2>3. j \in down /\ Name(j) = <<j, u>>
    BY <2>1, <2>2 DEF PressedAreDown
  <2>4. CASE "Shift" \in xmods <=> "Shift" \in xmods'
    BY <2>1, <2>3, <2>4 DEF Name
  <2>5. CASE ~("Shift" \in xmods <=> "Shift" \in xmods')
    <3>1. renamed' = renamed \cup (down \cap Letters)
      BY <1>6, <2>1, <2>5 DEF ModifierKey
    <3>2. j \notin Letters
      BY <2>3, <3>1
    <3> QED BY <2>1, <2>3, <3>2 DEF Name
  <2> QED BY <2>4, <2>5
<1>7. CASE Leave \/ Keymap
  BY <1>2, <1>7 DEF Leave, Keymap
<1>8. CASE Enter
  BY <1>2, <1>8 DEF Enter, FocusLost
<1>9. CASE Reconfigure \/ DoubleClickTimeout \/ KeyMoved \/ UNCHANGED vars
  BY <1>1, <1>9 DEF Reconfigure, DoubleClickTimeout, KeyMoved, vars, keyVars
<1>10. ASSUME NEW j \in Holds, HoldStep(j) PROVE PressedAreDown'
  BY <1>1, <1>10 DEF HoldStep, HoldTick, HoldExit, HoldMove, HoldMoved, keyVars
<1> QED BY <1>4, <1>5, <1>6, <1>7, <1>8, <1>9, <1>10 DEF Next

-----------------------------------------------------------------------------
(* What a release stops and what a press is taken for. *)

LEMMA HeldPress == ASSUME SessionInv, NEW k \in Keys, HandlePress(k) PROVE HeldIsPressed'
<1>1. pressed' = pressed \cup {Name(k)}
  BY DEF HandlePress, Typed
<1>2. CASE StartHold(k)
  BY <1>1, <1>2 DEF HeldIsPressed, StartHold
<1>3. CASE UNCHANGED <<repeatVars, over>>
  BY <1>1, <1>3 DEF SessionInv, HeldIsPressed, repeatVars
<1>4. CASE repeat' = NoHold
  BY <1>4 DEF HeldIsPressed
<1> QED BY <1>2, <1>3, <1>4
        DEF HandlePress, HandleToken, Letter, Backspace, LeftClick, EndSession, Stop, Ignored, cellVars, holdVars

\* A release that leaves the repeat is missed, or that of another key, or of
\* this key under another name.
LEMMA HeldRelease == ASSUME SessionInv, NEW k \in Keys, Release(k) PROVE HeldIsPressed'
<1> SUFFICES ASSUME repeat' # NoHold, over' = "open", ~missed' PROVE holdKey' \in pressed'
  BY DEF HeldIsPressed
<1>1. over = "open" /\ repeat # NoHold /\ UNCHANGED <<repeat, holdKey>> /\ ~missed
  BY DEF Release, Stop, cellVars, repeatVars
<1>2. holdKey \in pressed /\ focused /\ selected /\ ~pending /\ holdKey[1] \in Directions
  BY <1>1 DEF SessionInv, HeldIsPressed, HoldFits
<1>3. pressed' = pressed \ {Name(k)}
  BY <1>2 DEF Release
<1>4. holdKey # Name(k)
  <2> SUFFICES ASSUME holdKey = Name(k) PROVE FALSE
    OBVIOUS
  <2>1. holdKey[1] = k
    BY NameTypes
  <2>2. ~(Steers(k) /\ ~pending /\ Releases(k))
    BY <1>2 DEF Release, Stop
  <2>3. ~Chorded
    BY <1>1, <1>2, <2>1, <2>2 DEF Steers, Releases
  <2> QED BY <1>2, <2>1, <2>2, <2>3 DEF Release
<1> QED BY <1>1, <1>2, <1>3, <1>4

LEMMA HeldStays == ASSUME SessionInv, [Next]_vars PROVE HeldIsPressed'
<1>1. CASE UNCHANGED <<repeatVars, over>> /\ pressed \subseteq pressed'
  BY <1>1 DEF SessionInv, HeldIsPressed, repeatVars
<1>2. CASE repeat' = NoHold
  BY <1>2 DEF HeldIsPressed
<1>3. ASSUME NEW k \in Keys, Press(k) \/ RepeatPress(k) PROVE HeldIsPressed'
  BY <1>1, <1>3, HeldPress DEF Press, RepeatPress, Ignored, cellVars, holdVars
<1>4. CASE \E m \in Modifiers : ModifierKey(m)
  BY <1>1, <1>4 DEF ModifierKey, cellVars, holdVars
<1>5. CASE Keymap \/ Leave \/ Reconfigure \/ DoubleClickTimeout
  BY <1>2, <1>5 DEF Keymap, Leave, Reconfigure, DoubleClickTimeout, EndSession, Stop
<1>6. CASE Enter \/ KeyMoved \/ UNCHANGED vars
  BY <1>1, <1>2, <1>6 DEF Enter, KeyMoved, Stop, vars, keyVars, cellVars, holdVars
<1>7. ASSUME NEW j \in Holds, HoldStep(j) PROVE HeldIsPressed'
  BY <1>1, <1>2, <1>7 DEF HoldStep, HoldTick, HoldExit, HoldMove, HoldMoved, Stop, keyVars, cellVars, holdVars
<1> QED BY <1>3, <1>4, <1>5, <1>6, <1>7, HeldRelease DEF Next

\* A key that is pressed is not known as pressed yet, unless it is renamed.
LEMMA PressIsFresh ==
  ASSUME SessionInv, NEW k \in Keys \ Modifiers, k \notin down, k \notin renamed
  PROVE  Fresh(k)
<1>1. PICK u \in BOOLEAN : Name(k) = <<k, u>>
  BY NameTypes
<1> QED BY <1>1 DEF Fresh, SessionInv, PressedAreDown

\* The only steps that press a key are Press and ModifierKey.
LEMMA OnlyPresses ==
  ASSUME [Next]_vars, NEW k \in down' \ down
  PROVE  k \in Modifiers \/ Press(k)
  BY DEF Next, vars, keyVars, Press, Release, RepeatPress, ModifierKey, Keymap, Leave, Enter, Reconfigure,
         DoubleClickTimeout, KeyMoved, HoldStep, HoldTick, HoldExit, HoldMove, HoldMoved

LEMMA PressArms ==
  ASSUME SessionInv, [Next]_vars, NEW k \in Keys, k \in down' \ down, focused, selected, ~pending,
         Plain, Chorded, Chord(k) = keybinds.left_click
  PROVE  pending'
<1>1. k \notin Modifiers /\ k \notin Letters
  <2>1. keybinds.left_click \in KeyChords /\ keybinds.left_click[1] = Name(k)
    BY SelectionAssumption DEF SessionInv, TypeOK, Valid, Chord
  <2>2. k \notin Modifiers
    BY <2>1, NameTypes DEF KeyChords, KeyNames
  <2> QED BY <2>1, <2>2, NameTypes DEF Plain
<1>2. Press(k)
  BY <1>1, OnlyPresses
<1>3. Fresh(k)
  BY <1>1, <1>2, PressIsFresh DEF Press, SessionInv, TypeOK
<1>4. ~Single(k)
  BY DEF Single, Plain
<1> QED BY <1>2, <1>3, <1>4, FirstChordArms DEF Press

LEMMA PressMoves ==
  ASSUME SessionInv, [Next]_vars, NEW k \in Directions \cap Keys, k \in down' \ down,
         focused, selected, ~pending, Chorded, k \notin renamed
  PROVE  moving'
<1>1. Press(k)
  BY OnlyPresses DEF Directions, Modifiers
<1>2. Fresh(k)
  BY <1>1, PressIsFresh DEF Press
<1> QED BY <1>1, <1>2 DEF Press, HandlePress, Steers, StartHold

-----------------------------------------------------------------------------
LEMMA StartsRight == Init => SessionInv
<1> SUFFICES ASSUME Init PROVE SessionInv
  OBVIOUS
<1>1. matched \in 0 .. Len(keybinds.double_click) - 1
  <2>1. Valid(keybinds)
    BY SelectionAssumption DEF Init
  <2> QED BY <2>1 DEF Valid, Init
<1>3. TypeOK
  <2>1. keybinds \in Bindings /\ down \subseteq Keys /\ pressed \subseteq Names /\ cancelled \subseteq Holds
    BY DEF Init
  <2>2. focused \in BOOLEAN /\ xmods \subseteq Modifiers /\ mods \subseteq Modifiers /\ selected \in BOOLEAN
        /\ pending \in BOOLEAN /\ moving \in BOOLEAN /\ over \in Outcomes
    BY DEF Init, Outcomes
  <2>3. input \in 0..2 /\ repeat \in Holds \cup {NoHold} /\ holds \in 0..MaxHold
    BY SelectionAssumption DEF Init
  <2>4. /\ holdKey \in Names \cup {NoKey} /\ missed \in BOOLEAN /\ late \in [Holds -> Nat]
        /\ hpc \in [Holds -> {"none", "wait", "tick", "move", "gone"}] /\ renamed \subseteq Keys \cap Letters
    BY DEF Init
  <2> QED BY <1>1, <2>1, <2>2, <2>3, <2>4 DEF TypeOK
<1>2. CellTyped /\ FocusLost /\ HoldFits /\ LateOnce /\ SequenceFresh /\ PressedAreDown /\ HeldIsPressed
  BY DEF Init, CellTyped, FocusLost, HoldFits, LateOnce, SequenceFresh, PressedAreDown, HeldIsPressed
<1> QED BY <1>2, <1>3 DEF SessionInv

\* The keyboard's side of a session, for every configuration that is accepted:
\* what is selected, pending and held fits together, the matcher is at its start
\* on a cell without a pending click, and a stopped repeat is on its way out.
THEOREM SessionInvariant == Spec => []SessionInv
<1>1. Init => SessionInv
  BY StartsRight
<1>2. SessionInv /\ [Next]_vars => SessionInv'
  BY TypesKept, CellKept, LateKept, SequenceStays, PressedKept, HeldStays DEF SessionInv, CellInv
<1> QED BY <1>1, <1>2, PTL DEF Spec

\* A repeat that was stopped moves the pointer once more at the most, however
\* many repeats the session starts (runHeldDirectionRepeat).
THEOREM AtMostOneMoreMoveAlways == Spec => []AtMostOneMoreMove
<1>1. SessionInv => AtMostOneMoreMove
  BY DEF SessionInv, LateOnce, AtMostOneMoreMove
<1> QED BY <1>1, SessionInvariant, PTL

\* The press of the left-click chord on a cell without a pending click arms one,
\* for every plain configuration and whatever was typed before.
THEOREM LeftArmsAlways == Spec => LeftArms
<1>1. SessionInv /\ [Next]_vars =>
        [\A k \in Keys :
           /\ k \in down' \ down /\ focused /\ selected /\ ~pending
           /\ Plain /\ Chorded /\ Chord(k) = keybinds.left_click
           => pending']_vars
  BY PressArms
<1> QED BY <1>1, SessionInvariant, PTL DEF Spec, LeftArms

\* A repeat runs only while its key is held, for every set of keys and bindings,
\* but for a release that is missed: with Ctrl, Alt or Super held, or under
\* another name than Shift has given the letter (stopHeldDirectionRepeatForKey).
THEOREM HeldUnlessMissedAlways == Spec => []HeldUnlessMissed
<1>1. SessionInv => HeldUnlessMissed
  <2> SUFFICES ASSUME SessionInv, repeat # NoHold, over = "open", ~missed PROVE holdKey[1] \in down \cup renamed
    BY DEF HeldUnlessMissed
  <2>1. holdKey \in pressed /\ holdKey[1] \in Directions
    BY DEF SessionInv, HeldIsPressed, HoldFits
  <2>2. holdKey \in Names
    BY <2>1 DEF SessionInv, TypeOK
  <2>3. PICK k \in Keys, u \in BOOLEAN : holdKey = <<k, u>>
    BY <2>2 DEF Names
  <2>4. k \in Keys \ Modifiers
    BY <2>1, <2>3 DEF SessionInv, Directions, Modifiers
  <2> QED BY <2>1, <2>3, <2>4 DEF SessionInv, PressedAreDown
<1> QED BY <1>1, SessionInvariant, PTL

\* Every press of a direction key on a cell without a pending click moves the
\* pointer, but with Ctrl, Alt or Super held, and but for a letter that is still
\* known as pressed under the name it had before Shift (ApplyEvent).
THEOREM FreshPressMovesAlways == Spec => FreshPressMoves
<1>1. SessionInv /\ [Next]_vars =>
        [\A k \in Directions \cap Keys :
           /\ k \in down' \ down /\ focused /\ selected /\ ~pending
           /\ Chorded /\ k \notin renamed
           => moving']_vars
  BY PressMoves
<1> QED BY <1>1, SessionInvariant, PTL DEF Spec, FreshPressMoves

=============================================================================
