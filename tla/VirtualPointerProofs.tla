------------------------- MODULE VirtualPointerProofs -------------------------
(***************************************************************************)
(* Proofs about VirtualPointer, for any outputs, faults, number of sessions   *)
(* and targets: s.mu, what the goroutine that has it may rely on, and the     *)
(* three properties that follow.                                            *)
(***************************************************************************)
EXTENDS VirtualPointer, FiniteSetTheorems, TLAPS

Moving(t) == call[t] \in {"open", "create", "motion"}
Clicking(s) == click[s] \in {"down", "up"}

\* s.mu: one goroutine at a time is in a move or in a click.
OneHolder ==
  /\ \A t, u \in Targets : Moving(t) /\ Moving(u) => t = u
  /\ \A r, s \in Ids : Clicking(r) /\ Clicking(s) => r = s
  /\ \A t \in Targets, s \in Ids : ~(Moving(t) /\ Clicking(s))

\* A target that exists is of a session that was shown, and the others are
\* untouched, so that no call sees the monitor of its session change.
Known ==
  /\ session <= shows
  /\ \A t \in Targets : IF t <= targets THEN of[t] \in 1..shows ELSE call[t] = "none"

\* The move that is about to be sent has a device of its own output, the one
\* that is about to make a device has none.
Bound ==
  /\ binding.device = None => binding = NoBinding
  /\ \A t \in Targets : /\ call[t] \in {"open", "create"} => binding = NoBinding
                        /\ call[t] = "motion" => binding.on = monitor[of[t]]

\* Close has not taken a device before it took the lock.
NotClosed == closing.at = "no" => closing.device = None

\* A click that runs has a press to make.
PressLeft == \A s \in Ids : click[s] \in {"lock", "down", "up"} => left[s] > 0

\* Every device is of a move that got past CreateVirtualPointer, which is why no
\* more devices are made than there are targets.
Past == {t \in Targets : call[t] \in {"motion", "failed", "done"}}
OneEach == made <= Cardinality(Past)

PointerInv == TypeOK /\ OneHolder /\ Known /\ Bound /\ NotClosed /\ PressLeft /\ OneEach /\ OneDevice

-----------------------------------------------------------------------------
\* Types, action by action.

LEMMA ShowTypes == ASSUME TypeOK, NEW m \in Monitors, ShowOverlay(m) PROVE TypeOK'
  BY PointerAssumption DEF TypeOK, ShowOverlay, Ids, Targets, None, callVars, clickVars, deviceVars

LEMMA EndTypes ==
  ASSUME TypeOK, session # None, EndSession(session)
  PROVE  /\ session' \in Ids \cup {None} /\ shows' \in 0..MaxSession
         /\ monitor' \in [Ids -> Monitors \cup {None}]
         /\ ctxDone' \subseteq Ids /\ selected' \subseteq Ids
         /\ repeat' \in Targets \cup {None} /\ ticked' \subseteq Targets
  BY DEF TypeOK, EndSession

LEMMA AimTypes ==
  ASSUME TypeOK, NEW caller \in Targets \cup {Keyboard}, Aim(caller),
         selected' \subseteq Ids, repeat' \in Targets \cup {None}, ticked' \subseteq Targets
  PROVE  TypeOK' /\ targets + 1 \in Targets
  BY PointerAssumption DEF TypeOK, Aim, Targets, clickVars, deviceVars

LEMMA KbdTypes == ASSUME TypeOK, KbdStep PROVE TypeOK'
<1>1. CASE KbdSelect
  BY <1>1, AimTypes DEF TypeOK, KbdSelect, Reading, Keyboard, Ids
<1>2. CASE KbdBackspace
  BY <1>2 DEF TypeOK, KbdBackspace, callVars, clickVars, deviceVars
<1>3. CASE KbdDirection
  <2>1. repeat' \in Targets \cup {None} /\ UNCHANGED <<selected, ticked>> /\ Aim(Keyboard)
    BY <1>3, PointerAssumption DEF TypeOK, KbdDirection, Aim, Targets
  <2> QED BY <2>1, AimTypes DEF TypeOK
<1>4. CASE KbdRelease
  BY <1>4 DEF TypeOK, KbdRelease, callVars, clickVars, deviceVars
<1> QED BY <1>1, <1>2, <1>3, <1>4 DEF KbdStep

LEMMA HoldTypes == ASSUME TypeOK, HoldTick \/ \E r \in Targets : HoldMove(r) PROVE TypeOK'
<1>1. CASE HoldTick
  BY <1>1 DEF TypeOK, HoldTick, callVars, clickVars, deviceVars
<1>2. ASSUME NEW r \in Targets, HoldMove(r) PROVE TypeOK'
  <2>1. CASE Aim(r)
    BY <1>2, <2>1, AimTypes DEF TypeOK, HoldMove
  <2>2. CASE ~Aim(r)
    BY <1>2, <2>2 DEF TypeOK, HoldMove, callVars, clickVars, deviceVars
  <2> QED BY <2>1, <2>2
<1> QED BY <1>1, <1>2

LEMMA CommitTypes ==
  ASSUME TypeOK, CancelOverlay \/ \E presses \in 1..2 : CommitClick(presses)
  PROVE  TypeOK'
<1>1. CASE CancelOverlay
  BY <1>1, EndTypes DEF TypeOK, CancelOverlay, callVars, clickVars, deviceVars
<1>2. ASSUME NEW presses \in 1..2, CommitClick(presses) PROVE TypeOK'
  <2>1. session # None /\ EndSession(session)
    BY <1>2 DEF CommitClick, Reading
  <2> QED BY <1>2, <2>1, EndTypes DEF TypeOK, CommitClick, callVars, deviceVars
<1> QED BY <1>1, <1>2

\* A target is past the making of a device or is not: with one that is not, there
\* is a number left for a device.
LEMMA OneIsLeft ==
  ASSUME TypeOK, OneEach, NEW t \in Targets, call[t] = "create"
  PROVE  made < MaxTarget
<1>1. IsFiniteSet(Targets) /\ Cardinality(Targets) = MaxTarget
  BY FS_Interval, PointerAssumption DEF Targets
<1>2. Past \in SUBSET Targets /\ Past \cup {t} \in SUBSET Targets /\ t \notin Past
  BY DEF Past
<1>3. IsFiniteSet(Past) /\ Cardinality(Past) \in Nat
  BY <1>1, <1>2, FS_Subset, FS_CardinalityType
<1>4. Cardinality(Past \cup {t}) = Cardinality(Past) + 1
  BY <1>2, <1>3, FS_AddElement
<1>5. Cardinality(Past \cup {t}) <= MaxTarget
  BY <1>1, <1>2, FS_Subset
<1> QED BY <1>3, <1>4, <1>5, PointerAssumption DEF OneEach, TypeOK

LEMMA MoveTypes ==
  ASSUME TypeOK, OneEach, Known, NEW t \in Targets, MoveStep(t)
  PROVE  TypeOK'
<1>1. CASE MoveCheck(t)
  BY <1>1 DEF TypeOK, MoveCheck, Goes, driverVars, clickVars, deviceVars
<1>2. CASE MoveLock(t)
  <2>1. binding' \in [device : 0..MaxTarget, on : Monitors \cup {None}]
    BY <1>2, PointerAssumption DEF TypeOK, MoveLock, DestroyOld, NoBinding, None
  <2> QED BY <1>2, <2>1 DEF TypeOK, MoveLock, DestroyOld, Goes, driverVars, clickVars
<1>3. CASE MoveOpen(t)
  BY <1>3 DEF TypeOK, MoveOpen, Goes, driverVars, clickVars
<1>4. CASE MoveCreate(t)
  <2>1. made < MaxTarget /\ of[t] \in Ids /\ monitor[of[t]] \in Monitors \cup {None}
    BY <1>4, OneIsLeft, PointerAssumption DEF MoveCreate, Known, TypeOK, Ids, Targets
  <2>2. made' \in 0..MaxTarget /\ devices' \subseteq 1..made'
    <3>1. made \in Nat /\ devices \subseteq 1..made
      BY PointerAssumption DEF TypeOK
    <3>2. CASE made' = made + 1 /\ devices' = devices \cup {made'}
      BY <2>1, <3>1, <3>2, PointerAssumption
    <3>3. CASE UNCHANGED <<made, devices>>
      BY <3>3 DEF TypeOK
    <3> QED BY <1>4, <3>2, <3>3 DEF MoveCreate
  <2>3. binding' \in [device : 0..MaxTarget, on : Monitors \cup {None}]
    BY <1>4, <2>1, PointerAssumption DEF TypeOK, MoveCreate
  <2> QED BY <1>4, <2>2, <2>3 DEF TypeOK, MoveCreate, Goes, driverVars, clickVars
<1>5. CASE MoveMotion(t)
  BY <1>5 DEF TypeOK, MoveMotion, Goes, driverVars, clickVars, deviceVars
<1>6. CASE MoveFailed(t)
  <2>1. call' \in [Targets -> {"none", "check", "lock", "open", "create", "motion", "failed", "done"}]
    BY <1>6 DEF TypeOK, MoveFailed, Goes
  <2>2. CASE EndSession(session) /\ session # None
    BY <1>6, <2>1, <2>2, EndTypes DEF TypeOK, MoveFailed, clickVars, deviceVars
  <2>3. CASE UNCHANGED driverVars
    BY <1>6, <2>1, <2>3 DEF TypeOK, MoveFailed, driverVars, clickVars, deviceVars
  <2>4. CASE by[t] # Keyboard
    BY <1>6, <2>1, <2>4 DEF TypeOK, MoveFailed, clickVars, deviceVars
  <2>5. of[t] # None
    BY <1>6, PointerAssumption DEF MoveFailed, Known, TypeOK, None, Targets
  <2> QED BY <1>6, <2>2, <2>3, <2>4, <2>5 DEF MoveFailed
<1> QED BY <1>1, <1>2, <1>3, <1>4, <1>5, <1>6 DEF MoveStep

LEMMA ClickTypes == ASSUME TypeOK, PressLeft, NEW s \in Ids, ClickStep(s) PROVE TypeOK'
<1>1. CASE ClickLock(s)
  BY <1>1 DEF TypeOK, ClickLock, ClickTo, driverVars, callVars, deviceVars
<1>2. CASE ClickDown(s)
  BY <1>2 DEF TypeOK, ClickDown, ClickTo, driverVars, callVars, deviceVars
<1>3. CASE ClickUp(s)
  <2>1. left' \in [Ids -> 0..2]
    BY <1>3 DEF TypeOK, PressLeft, ClickUp
  <2> QED BY <1>3, <2>1 DEF TypeOK, ClickUp, ClickTo, driverVars, callVars, deviceVars
<1> QED BY <1>1, <1>2, <1>3 DEF ClickStep

LEMMA CloseTypes == ASSUME TypeOK, CloseStep \/ LoseConnection PROVE TypeOK'
<1>1. CASE CloseLock
  BY <1>1, PointerAssumption DEF TypeOK, CloseLock, NoBinding, None, driverVars, callVars, clickVars, deviceVars
<1>2. CASE CloseDevice
  BY <1>2 DEF TypeOK, CloseDevice, driverVars, callVars, clickVars
<1>3. CASE CloseFactory
  BY <1>3 DEF TypeOK, CloseFactory, driverVars, callVars
<1>4. CASE LoseConnection
  BY <1>4 DEF TypeOK, LoseConnection, driverVars, callVars
<1> QED BY <1>1, <1>2, <1>3, <1>4 DEF CloseStep

LEMMA TypesKept == ASSUME PointerInv, [Next]_vars PROVE TypeOK'
<1>1. CASE UNCHANGED vars
  BY <1>1 DEF PointerInv, TypeOK, vars, driverVars, callVars, clickVars, deviceVars
<1> QED BY <1>1, ShowTypes, CommitTypes, KbdTypes, HoldTypes, MoveTypes, ClickTypes, CloseTypes DEF Next, PointerInv

-----------------------------------------------------------------------------
(* s.mu: what moves and clicks do to it, one at a time. *)

\* A goroutine that is in a move goes on, or one takes the lock that is free.
LEMMA MoveHolds ==
  ASSUME TypeOK, OneHolder, NEW t \in Targets, NEW place, Goes(t, place), UNCHANGED click,
         place \in {"open", "create", "motion"} => Moving(t) \/ Free
  PROVE  OneHolder'
  BY DEF TypeOK, OneHolder, Goes, Moving, Clicking, Free

LEMMA ClickHolds ==
  ASSUME TypeOK, OneHolder, NEW s \in Ids, NEW place, ClickTo(s, place), UNCHANGED call,
         place \in {"down", "up"} => Clicking(s) \/ Free
  PROVE  OneHolder'
  BY DEF TypeOK, OneHolder, ClickTo, Moving, Clicking, Free

\* A call that is being made takes no lock.
LEMMA AimHolds ==
  ASSUME TypeOK, OneHolder, NEW caller, Aim(caller)
  PROVE  OneHolder'
  BY DEF TypeOK, OneHolder, Aim, Moving, Clicking, clickVars

LEMMA HolderKept == ASSUME PointerInv, [Next]_vars PROVE OneHolder'
<1> USE DEF PointerInv
<1>1. CASE UNCHANGED <<call, click>>
  BY <1>1 DEF OneHolder, Moving, Clicking
<1>2. ASSUME NEW presses \in 1..2, CommitClick(presses) PROVE OneHolder'
  <2>1. ClickTo(session, "lock") /\ session \in Ids /\ UNCHANGED call
    BY <1>2 DEF CommitClick, ClickTo, Reading, callVars, TypeOK
  <2> QED BY <2>1, ClickHolds
<1>3. CASE KbdStep
  BY <1>1, <1>3, AimHolds DEF KbdStep, KbdSelect, KbdBackspace, KbdDirection, KbdRelease, callVars, clickVars
<1>4. ASSUME NEW r \in Targets, HoldMove(r) PROVE OneHolder'
  BY <1>1, <1>4, AimHolds DEF HoldMove, callVars, clickVars
<1>5. ASSUME NEW t \in Targets, MoveStep(t) PROVE OneHolder'
  <2>1. CASE MoveCheck(t)
    BY <2>1, MoveHolds DEF MoveCheck, clickVars
  <2>2. CASE MoveLock(t)
    BY <2>2, MoveHolds DEF MoveLock, DestroyOld, clickVars
  <2>3. CASE MoveOpen(t)
    BY <2>3, MoveHolds DEF MoveOpen, Moving, clickVars
  <2>4. CASE MoveCreate(t)
    BY <2>4, MoveHolds DEF MoveCreate, Moving, clickVars
  <2>5. CASE MoveMotion(t)
    BY <2>5, MoveHolds DEF MoveMotion, clickVars
  <2>6. CASE MoveFailed(t)
    BY <2>6, MoveHolds DEF MoveFailed, clickVars
  <2> QED BY <1>5, <2>1, <2>2, <2>3, <2>4, <2>5, <2>6 DEF MoveStep
<1>6. ASSUME NEW s \in Ids, ClickStep(s) PROVE OneHolder'
  <2>1. CASE ClickLock(s)
    BY <2>1, ClickHolds DEF ClickLock, callVars
  <2>2. CASE ClickDown(s)
    BY <2>2, ClickHolds DEF ClickDown, Clicking, callVars
  <2>3. CASE ClickUp(s)
    BY <2>3, ClickHolds DEF ClickUp, Clicking, callVars
  <2> QED BY <1>6, <2>1, <2>2, <2>3 DEF ClickStep
<1>7. CASE \/ UNCHANGED vars \/ (\E m \in Monitors : ShowOverlay(m)) \/ CancelOverlay
           \/ HoldTick \/ CloseStep \/ LoseConnection
  BY <1>1, <1>7 DEF vars, ShowOverlay, CancelOverlay, HoldTick, CloseStep, CloseLock, CloseDevice,
                    CloseFactory, LoseConnection, callVars, clickVars
<1> QED BY <1>2, <1>3, <1>4, <1>5, <1>6, <1>7 DEF Next

-----------------------------------------------------------------------------
(* The sessions of the targets, and the output of the device. *)

LEMMA AimKnown ==
  ASSUME TypeOK, Known, session # None, NEW caller, Aim(caller)
  PROVE  Known'
  BY PointerAssumption DEF TypeOK, Known, Aim, Targets, Ids, None

LEMMA MoveKnown ==
  ASSUME TypeOK, Known, NEW t \in Targets, call[t] # "none", NEW place, Goes(t, place),
         UNCHANGED <<shows, targets, of>>, session' \in {session, None}
  PROVE  Known'
  BY PointerAssumption DEF TypeOK, Known, Goes, Ids, None

LEMMA KnownKept == ASSUME PointerInv, [Next]_vars PROVE Known'
<1> USE DEF PointerInv
<1>1. CASE session' \in {session, None} /\ UNCHANGED <<shows, targets, of, call>>
  BY <1>1, PointerAssumption DEF TypeOK, Known, None
<1>2. ASSUME NEW m \in Monitors, ShowOverlay(m) PROVE Known'
  BY <1>2, PointerAssumption DEF TypeOK, Known, ShowOverlay, Targets, callVars
<1>3. CASE KbdStep
  BY <1>1, <1>3, AimKnown
     DEF KbdStep, KbdSelect, KbdBackspace, KbdDirection, KbdRelease, Reading, callVars
<1>4. ASSUME NEW r \in Targets, HoldMove(r) PROVE Known'
  <2>1. CASE Aim(r) /\ session \in selected
    BY <2>1, AimKnown, PointerAssumption DEF TypeOK, Ids, None
  <2> QED BY <1>1, <1>4, <2>1 DEF HoldMove, callVars
<1>5. ASSUME NEW t \in Targets, MoveStep(t) PROVE Known'
  <2>1. UNCHANGED <<shows, targets, of>> /\ session' \in {session, None} /\ call[t] # "none"
    BY <1>5 DEF MoveStep, MoveCheck, MoveLock, MoveOpen, MoveCreate, MoveMotion, MoveFailed, EndSession, driverVars
  <2>2. \E place : Goes(t, place)
    BY <1>5 DEF MoveStep, MoveCheck, MoveLock, DestroyOld, MoveOpen, MoveCreate, MoveMotion, MoveFailed
  <2> QED BY <2>1, <2>2, MoveKnown
<1>6. CASE \/ UNCHANGED vars \/ CancelOverlay \/ HoldTick \/ (\E presses \in 1..2 : CommitClick(presses))
           \/ (\E s \in Ids : ClickStep(s)) \/ CloseStep \/ LoseConnection
  BY <1>1, <1>6 DEF vars, CancelOverlay, EndSession, HoldTick, CommitClick, ClickStep, ClickLock, ClickDown, ClickUp,
                    CloseStep, CloseLock, CloseDevice, CloseFactory, LoseConnection, driverVars, callVars
<1> QED BY <1>2, <1>3, <1>4, <1>5, <1>6 DEF Next

\* A step that changes neither the device nor the sessions of the targets, and
\* sends nobody further in a move.
LEMMA QuietBound ==
  ASSUME TypeOK, Known, Bound, UNCHANGED binding,
         \A s \in 1..shows : monitor'[s] = monitor[s],
         \A t \in Targets : call'[t] \in {"open", "create", "motion"}
                              => /\ call'[t] = call[t] \/ (call[t] = "open" /\ call'[t] = "create")
                                 /\ of'[t] = of[t]
  PROVE  Bound'
<1>1. binding'.device = None => binding' = NoBinding
  BY DEF Bound
<1>2. ASSUME NEW t \in Targets, call'[t] \in {"open", "create", "motion"}
      PROVE  /\ call'[t] \in {"open", "create"} => binding' = NoBinding
             /\ call'[t] = "motion" => binding'.on = monitor'[of'[t]]
  <2>1. of[t] \in 1..shows
    BY <1>2 DEF Known
  <2> QED BY <1>2, <2>1 DEF Bound
<1> QED BY <1>1, <1>2 DEF Bound

LEMMA BoundKept == ASSUME PointerInv, [Next]_vars PROVE Bound'
<1> USE DEF PointerInv
<1>1. CASE UNCHANGED <<binding, monitor, of, call>>
  BY <1>1, QuietBound
<1>2. ASSUME NEW m \in Monitors, ShowOverlay(m) PROVE Bound'
  <2>1. \A s \in 1..shows : monitor'[s] = monitor[s]
    BY <1>2, PointerAssumption DEF TypeOK, ShowOverlay, Ids
  <2> QED BY <1>2, <2>1, QuietBound DEF ShowOverlay, callVars
<1>3. ASSUME NEW caller, Aim(caller) PROVE Bound'
  <2>1. targets + 1 \in Targets /\ \A t \in Targets : t # targets + 1 => call'[t] = call[t] /\ of'[t] = of[t]
    BY <1>3, PointerAssumption DEF TypeOK, Aim, Targets
  <2>2. call'[targets + 1] = "check"
    BY <1>3, <2>1 DEF TypeOK, Aim
  <2> QED BY <1>3, <2>1, <2>2, QuietBound DEF Aim
<1>4. CASE KbdStep \/ \E r \in Targets : HoldMove(r)
  BY <1>1, <1>3, <1>4 DEF KbdStep, KbdSelect, KbdBackspace, KbdDirection, KbdRelease, HoldMove, callVars
<1>5. ASSUME NEW t \in Targets, MoveStep(t) PROVE Bound'
  <2>1. CASE MoveLock(t)
    <3>1. \A u \in Targets \ {t} : ~Moving(u) /\ call'[u] = call[u]
      BY <2>1 DEF TypeOK, MoveLock, DestroyOld, Goes, Free, Moving
    <3>2. UNCHANGED <<monitor, of>> /\ call' = [call EXCEPT ![t] = call'[t]]
      BY <2>1 DEF TypeOK, MoveLock, DestroyOld, Goes, driverVars
    <3>3. \/ call'[t] = "motion" /\ binding' = binding /\ binding.on = monitor[of[t]]
          \/ call'[t] = "open" /\ binding' = NoBinding
          \/ call'[t] = "failed" /\ binding' = binding
      BY <2>1 DEF TypeOK, Bound, MoveLock, DestroyOld, Matches, Goes
    <3> QED BY <3>1, <3>2, <3>3 DEF Bound, Moving
  <2>2. CASE MoveCreate(t)
    <3>1. \A u \in Targets \ {t} : ~Moving(u) /\ call'[u] = call[u]
      BY <2>2 DEF TypeOK, OneHolder, MoveCreate, Goes, Moving
    <3>2. \/ call'[t] = "motion" /\ binding'.on = monitor[of[t]] /\ binding'.device # None
          \/ call'[t] = "failed" /\ binding' = binding
      BY <2>2, PointerAssumption DEF TypeOK, MoveCreate, Goes, None
    <3> QED BY <2>2, <3>1, <3>2 DEF Bound, MoveCreate, Moving, driverVars
  <2>3. CASE MoveOpen(t)
    <3>1. call[t] = "open" /\ call'[t] \in {"create", "failed"} /\ \A u \in Targets \ {t} : call'[u] = call[u]
      BY <2>3 DEF TypeOK, MoveOpen, Goes
    <3> QED BY <2>3, <3>1, QuietBound DEF MoveOpen, driverVars
  <2>4. CASE MoveCheck(t) \/ MoveMotion(t) \/ MoveFailed(t)
    <3>1. call'[t] \in {"lock", "failed", "done"} /\ \A u \in Targets \ {t} : call'[u] = call[u]
      BY <2>4 DEF TypeOK, MoveCheck, MoveMotion, MoveFailed, Goes
    <3>2. UNCHANGED <<binding, monitor, of>>
      BY <2>4 DEF MoveCheck, MoveMotion, MoveFailed, EndSession, driverVars
    <3> QED BY <3>1, <3>2, QuietBound
  <2> QED BY <1>5, <2>1, <2>2, <2>3, <2>4 DEF MoveStep
<1>6. CASE CloseLock
  BY <1>6 DEF Bound, CloseLock, Free, driverVars, callVars
<1>7. CASE \/ UNCHANGED vars \/ CancelOverlay \/ HoldTick \/ (\E presses \in 1..2 : CommitClick(presses))
           \/ (\E s \in Ids : ClickStep(s)) \/ CloseDevice \/ CloseFactory \/ LoseConnection
  BY <1>1, <1>7 DEF vars, CancelOverlay, EndSession, HoldTick, CommitClick, ClickStep, ClickLock, ClickDown, ClickUp,
                    CloseDevice, CloseFactory, LoseConnection, driverVars, callVars
<1> QED BY <1>2, <1>4, <1>5, <1>6, <1>7 DEF Next, CloseStep

-----------------------------------------------------------------------------
(* The devices. *)

LEMMA DeviceKept == ASSUME PointerInv, [Next]_vars PROVE OneDevice' /\ NotClosed'
<1> USE DEF PointerInv
<1>1. CASE UNCHANGED <<binding, closing, devices>>
  BY <1>1 DEF OneDevice, NotClosed
<1>2. ASSUME NEW t \in Targets, MoveStep(t) PROVE OneDevice' /\ NotClosed'
  <2>1. CASE MoveLock(t)
    BY <2>1 DEF OneDevice, NotClosed, MoveLock, DestroyOld
  <2>2. CASE MoveCreate(t)
    <3>1. binding.device \notin devices
      BY <2>2, PointerAssumption DEF TypeOK, Bound, MoveCreate, NoBinding, None
    <3> QED BY <2>2, <3>1 DEF OneDevice, NotClosed, MoveCreate
  <2> QED BY <1>1, <1>2, <2>1, <2>2 DEF MoveStep, MoveCheck, MoveOpen, MoveMotion, MoveFailed, deviceVars
<1>3. CASE CloseLock
  <2>1. None \notin devices /\ devices \subseteq {binding.device}
    BY <1>3, PointerAssumption DEF TypeOK, OneDevice, NotClosed, CloseLock, None
  <2> QED BY <1>3, <2>1 DEF OneDevice, NotClosed, CloseLock, deviceVars
<1>4. CASE CloseDevice \/ CloseFactory \/ LoseConnection
  BY <1>4 DEF TypeOK, OneDevice, NotClosed, CloseDevice, CloseFactory, LoseConnection
<1>5. ASSUME NEW r \in Targets, HoldMove(r) PROVE UNCHANGED <<binding, closing, devices>>
  BY <1>5 DEF HoldMove, Aim, deviceVars
<1>6. CASE \/ UNCHANGED vars \/ (\E m \in Monitors : ShowOverlay(m)) \/ CancelOverlay \/ KbdStep \/ HoldTick
           \/ (\E presses \in 1..2 : CommitClick(presses)) \/ (\E s \in Ids : ClickStep(s))
  BY <1>1, <1>6 DEF vars, ShowOverlay, CancelOverlay, KbdStep, KbdSelect, KbdBackspace, KbdDirection, KbdRelease,
                    Aim, HoldTick, CommitClick, ClickStep, ClickLock, ClickDown, ClickUp, deviceVars
<1> QED BY <1>1, <1>2, <1>3, <1>4, <1>5, <1>6 DEF Next, CloseStep

LEMMA PressKept == ASSUME PointerInv, [Next]_vars PROVE PressLeft'
<1> USE DEF PointerInv
<1>1. CASE UNCHANGED <<click, left>>
  BY <1>1 DEF PressLeft
<1>2. ASSUME NEW presses \in 1..2, CommitClick(presses) PROVE PressLeft'
  BY <1>2 DEF TypeOK, PressLeft, CommitClick
<1>3. ASSUME NEW s \in Ids, ClickStep(s) PROVE PressLeft'
  <2>1. CASE ClickLock(s)
    BY <2>1 DEF TypeOK, PressLeft, ClickLock, ClickTo
  <2>2. CASE ClickDown(s)
    BY <2>2 DEF TypeOK, PressLeft, ClickDown, ClickTo
  <2>3. CASE ClickUp(s)
    BY <2>3 DEF TypeOK, PressLeft, ClickUp, ClickTo, LastPress
  <2> QED BY <1>3, <2>1, <2>2, <2>3 DEF ClickStep
<1>4. ASSUME NEW t \in Targets, MoveStep(t) PROVE PressLeft'
  BY <1>1, <1>4 DEF MoveStep, MoveCheck, MoveLock, MoveOpen, MoveCreate, MoveMotion, MoveFailed, clickVars
<1>5. ASSUME NEW r \in Targets, HoldMove(r) PROVE PressLeft'
  BY <1>1, <1>5 DEF HoldMove, Aim, clickVars
<1>6. CASE \/ UNCHANGED vars \/ (\E m \in Monitors : ShowOverlay(m)) \/ CancelOverlay \/ KbdStep \/ HoldTick
           \/ CloseStep \/ LoseConnection
  BY <1>1, <1>6 DEF vars, ShowOverlay, CancelOverlay, KbdStep, KbdSelect, KbdBackspace, KbdDirection, KbdRelease,
                    Aim, HoldTick, CloseStep, CloseLock, CloseDevice, CloseFactory, LoseConnection, clickVars
<1> QED BY <1>2, <1>3, <1>4, <1>5, <1>6 DEF Next

LEMMA PastFinite == IsFiniteSet(Past) /\ IsFiniteSet(Past')
<1>1. IsFiniteSet(Targets) /\ Past \in SUBSET Targets /\ Past' \in SUBSET Targets
  BY FS_Interval, PointerAssumption DEF Targets, Past
<1> QED BY <1>1, FS_Subset

\* Nobody who is past CreateVirtualPointer comes back.
LEMMA PastStays ==
  ASSUME TypeOK, TypeOK', UNCHANGED made, OneEach, Past \subseteq Past'
  PROVE  OneEach'
<1>1. IsFiniteSet(Past') /\ IsFiniteSet(Past)
  BY PastFinite
<1>2. Cardinality(Past) <= Cardinality(Past') /\ Cardinality(Past) \in Nat /\ Cardinality(Past') \in Nat
  BY <1>1, FS_Subset, FS_CardinalityType
<1> QED BY <1>2, PointerAssumption DEF OneEach, TypeOK

LEMMA EachKept == ASSUME PointerInv, [Next]_vars, TypeOK' PROVE OneEach'
<1> USE DEF PointerInv
<1>1. CASE UNCHANGED <<made, call>>
  BY <1>1, PastStays DEF Past
<1>2. ASSUME NEW caller, Aim(caller) PROVE OneEach'
  <2>1. call[targets + 1] = "none" /\ targets + 1 \in Targets
    BY <1>2, PointerAssumption DEF TypeOK, Known, Aim, Targets
  <2>2. Past \subseteq Past'
    BY <1>2, <2>1 DEF TypeOK, Past, Aim
  <2> QED BY <1>2, <2>2, PastStays DEF Aim, deviceVars
<1>3. CASE KbdStep \/ \E r \in Targets : HoldMove(r)
  BY <1>1, <1>2, <1>3 DEF KbdStep, KbdSelect, KbdBackspace, KbdDirection, KbdRelease, HoldMove, callVars, deviceVars
<1>4. ASSUME NEW t \in Targets, MoveStep(t) PROVE OneEach'
  <2>1. CASE MoveCreate(t)
    <3>1. t \notin Past /\ Past' = Past \cup {t}
      BY <2>1 DEF TypeOK, Past, MoveCreate, Goes
    <3>2. IsFiniteSet(Past)
      BY PastFinite
    <3>3. Cardinality(Past') = Cardinality(Past) + 1 /\ Cardinality(Past) \in Nat
      BY <3>1, <3>2, FS_AddElement, FS_CardinalityType
    <3>4. made' <= made + 1 /\ made \in Nat
      BY <2>1, PointerAssumption DEF TypeOK, MoveCreate
    <3>5. made' \in Nat
      BY PointerAssumption DEF TypeOK
    <3> QED BY <3>3, <3>4, <3>5 DEF OneEach
  <2>2. CASE MoveCheck(t) \/ MoveLock(t) \/ MoveOpen(t)
    <3>1. Past \subseteq Past' /\ UNCHANGED made
      BY <2>2 DEF TypeOK, Past, MoveCheck, MoveLock, DestroyOld, MoveOpen, Goes, deviceVars
    <3> QED BY <3>1, PastStays
  <2>3. CASE MoveMotion(t) \/ MoveFailed(t)
    <3>1. Past \subseteq Past' /\ UNCHANGED made
      BY <2>3 DEF TypeOK, Past, MoveMotion, MoveFailed, Goes, deviceVars
    <3> QED BY <3>1, PastStays
  <2> QED BY <1>4, <2>1, <2>2, <2>3 DEF MoveStep
<1>5. CASE \/ UNCHANGED vars \/ (\E m \in Monitors : ShowOverlay(m)) \/ CancelOverlay \/ HoldTick
           \/ (\E presses \in 1..2 : CommitClick(presses)) \/ (\E s \in Ids : ClickStep(s))
           \/ CloseStep \/ LoseConnection
  BY <1>1, <1>5 DEF vars, ShowOverlay, CancelOverlay, HoldTick, CommitClick, ClickStep, ClickLock, ClickDown, ClickUp,
                    CloseStep, CloseLock, CloseDevice, CloseFactory, LoseConnection, callVars, deviceVars
<1> QED BY <1>3, <1>4, <1>5 DEF Next

-----------------------------------------------------------------------------
(* The results. *)

\* Every reachable state has its type and satisfies the invariant: s.mu has one
\* holder, and what the holder has read stays true until it lets go.
THEOREM PointerInvariant == Spec => []PointerInv
<1>1. ASSUME Init PROVE PointerInv
  <2>1. TypeOK
    BY <1>1, PointerAssumption DEF Init, TypeOK, NoBinding, None
  <2>2. OneHolder /\ Known /\ Bound /\ NotClosed /\ PressLeft /\ OneDevice
    BY <1>1, PointerAssumption
       DEF Init, OneHolder, Known, Bound, NotClosed, PressLeft, OneDevice, Moving, Clicking, Targets, None
  <2>3. Past = {}
    BY <1>1 DEF Init, Past
  <2>4. OneEach
    BY <1>1, <2>3, FS_EmptySet DEF Init, OneEach
  <2> QED BY <2>1, <2>2, <2>4 DEF PointerInv
<1>2. PointerInv /\ [Next]_vars => PointerInv'
  BY TypesKept, HolderKept, KnownKept, BoundKept, DeviceKept, PressKept, EachKept DEF PointerInv
<1> QED BY <1>1, <1>2, PTL DEF Spec

\* Devices are not left behind, whatever fails and wherever Close comes in: the
\* compositor has the one of the binding, and the one that Close is about to
\* destroy.
THEOREM OneDeviceAlways == Spec => []OneDevice
<1>1. PointerInv => OneDevice
  BY DEF PointerInv
<1> QED BY <1>1, PointerInvariant, PTL

\* Both presses of a double click are at one place and of one device, whatever
\* moves and shutdowns are on their way (s.mu held over the whole of a click).
THEOREM ClickIsOneAlways == Spec => ClickIsOne
<1>1. ASSUME PointerInv, [Next]_vars, NEW s \in Ids,
             click[s] \in {"down", "up"}, click'[s] \in {"down", "up"}
      PROVE  cursor' = cursor /\ binding' = binding
  <2>1. ~Free /\ \A t \in Targets : ~Moving(t)
    BY <1>1 DEF PointerInv, OneHolder, Free, Clicking
  <2>2. ASSUME NEW t \in Targets, MoveStep(t) PROVE UNCHANGED <<cursor, binding>>
    BY <2>1, <2>2 DEF MoveStep, MoveCheck, MoveLock, MoveOpen, MoveCreate, MoveMotion, MoveFailed, Moving
  <2>3. ASSUME NEW r \in Targets, HoldMove(r) PROVE UNCHANGED <<cursor, binding>>
    BY <2>3 DEF HoldMove, Aim
  <2>4. CASE \/ UNCHANGED vars \/ (\E m \in Monitors : ShowOverlay(m)) \/ CancelOverlay \/ KbdStep \/ HoldTick
             \/ (\E presses \in 1..2 : CommitClick(presses)) \/ (\E r \in Ids : ClickStep(r))
             \/ CloseStep \/ LoseConnection
    BY <2>1, <2>4
       DEF vars, ShowOverlay, CancelOverlay, KbdStep, KbdSelect, KbdBackspace, KbdDirection, KbdRelease, Aim,
           HoldTick, CommitClick, ClickStep, ClickLock, ClickDown, ClickUp, CloseStep, CloseLock, CloseDevice,
           CloseFactory, LoseConnection
  <2> QED BY <1>1, <2>2, <2>3, <2>4 DEF Next
<1>2. PointerInv /\ [Next]_vars
        => [\A s \in Ids : click[s] \in {"down", "up"} /\ click'[s] \in {"down", "up"}
                             => cursor' = cursor /\ binding' = binding]_vars
  BY <1>1
<1> QED BY <1>2, PointerInvariant, PTL DEF Spec, ClickIsOne

\* A target is sent through a device that was made for the output it is meant
\* for: between bindingMatchesMonitor and the request nobody rebinds.
THEOREM AimedAtItsOutputAlways == Spec => AimedAtItsOutput
<1>1. ASSUME PointerInv, [Next]_vars, cursor' # cursor
      PROVE  binding'.on = monitor[of[cursor']]
  <2>1. PICK t \in Targets : MoveMotion(t) /\ cursor' = t
    BY <1>1
       DEF Next, vars, ShowOverlay, CancelOverlay, KbdStep, KbdSelect, KbdBackspace, KbdDirection, KbdRelease, Aim,
           HoldTick, HoldMove, CommitClick, MoveStep, MoveCheck, MoveLock, MoveOpen, MoveCreate, MoveMotion,
           MoveFailed, ClickStep, ClickLock, ClickDown, ClickUp, CloseStep, CloseLock, CloseDevice,
           CloseFactory, LoseConnection
  <2> QED BY <1>1, <2>1 DEF PointerInv, Bound, MoveMotion
<1>2. PointerInv /\ [Next]_vars => [cursor' # cursor => binding'.on = monitor[of[cursor']]]_vars
  BY <1>1
<1> QED BY <1>2, PointerInvariant, PTL DEF Spec, AimedAtItsOutput

=============================================================================
