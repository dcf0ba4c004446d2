------------------------- MODULE OverlayDriverProofs -------------------------
(***************************************************************************)
(* Proofs about OverlayDriver.  Types first, action by action; then the     *)
(* inductive invariant SafetyInv; then what one step does to frames, timers *)
(* and the promise; the results for a reader are the theorems at the end.   *)
(***************************************************************************)
EXTENDS OverlayDriver, TLAPS

\* The names of the states belong to their types, so that the types need not be
\* unfolded below.
LEMMA Names ==
  /\ "free" \in Stages /\ "live" \in Stages /\ "dead" \in Stages /\ "lookup" \in Stages
  /\ "create" \in Stages /\ "configure" \in Stages /\ "reset" \in Stages /\ "render" \in Stages /\ "grab" \in Stages /\ "install" \in Stages
  /\ "close" \in Stages /\ "unmap" \in Stages /\ "destroy" \in Stages /\ "click" \in Stages
  /\ "reshow" \in Stages
  /\ "none" \in Endings /\ "cancel" \in Endings /\ "raw" \in Endings /\ "left" \in Endings
  /\ "right" \in Endings /\ "double" \in Endings
  /\ "none" \in Failures /\ "network" \in Failures /\ "fatal" \in Failures
  /\ "none" \in Surfaces /\ "bare" \in Surfaces /\ "mapped" \in Surfaces /\ "gone" \in Surfaces
  /\ "none" \in KbdStates /\ "run" \in KbdStates /\ "aim" \in KbdStates /\ "paint" \in KbdStates
  /\ "nudge" \in KbdStates /\ "finish" \in KbdStates /\ "done" \in KbdStates
  /\ "none" \in LifeStates /\ "run" \in LifeStates /\ "paint" \in LifeStates /\ "finish" \in LifeStates
  /\ "done" \in LifeStates
  /\ "idle" \in IpcStates /\ "show" \in IpcStates /\ "showing" \in IpcStates /\ "cancel" \in IpcStates
  /\ "finish" \in IpcStates /\ "closing" \in IpcStates /\ "pointer" \in IpcStates /\ "wayland" \in IpcStates
  /\ "exited" \in IpcStates /\ "none" \in IpcCmds /\ "exit" \in IpcCmds /\ \A c \in IpcCommands : c \in IpcCmds
  /\ "none" \in Replies /\ "shown" \in Replies /\ "hidden" \in Replies /\ "noop" \in Replies
  /\ "active" \in Replies /\ "inactive" \in Replies /\ "error" \in Replies /\ "errorActive" \in Replies
  /\ "no" \in Emissions /\ \A e \in Endings : e \in Emissions
  BY DEF Stages, Building, TearingDown, Endings, Clicks, Failures, Surfaces,
         KbdStates, LifeStates, IpcStates, IpcCmds, Replies, Emissions

\* No session and no click is named None.
LEMMA NoneFacts == None \in 0..MaxPending /\ None \notin Ids
  BY BoundsAssumption DEF None, Ids

\* The id a show takes is a new one.
LEMMA NextIdFacts == ASSUME OwnerTypeOK, CanShow PROVE nextID + 1 \in Ids /\ nextID + 1 \in 0..MaxSession
  BY BoundsAssumption DEF OwnerTypeOK, CanShow, Ids

\* What the shared steps do to the types.
LEMMA AnswerTypes ==
  ASSUME IpcTypeOK, NEW r \in Replies, Answer(r)
  PROVE  IpcTypeOK'
  BY Names DEF IpcTypeOK, Answer

\* The same when the handler may not be waiting.
LEMMA WaitingTypes ==
  ASSUME IpcTypeOK, NEW s, NEW r \in Replies, AnswerIfWaiting(s, r)
  PROVE  IpcTypeOK'
  BY AnswerTypes DEF IpcTypeOK, AnswerIfWaiting, ipcVars

\* A show that is abandoned.
LEMMA AbandonTypes ==
  ASSUME ObjectTypeOK, NEW s \in Ids, Abandon(s), UNCHANGED <<failed, surface, emitted>>
  PROVE  ObjectTypeOK'
  BY Names DEF ObjectTypeOK, Abandon

\* What follows a teardown.
LEMMA TornDownTypes ==
  ASSUME IpcTypeOK, NEW s, TornDown(s)
  PROVE  IpcTypeOK'
<1>1. TeardownReply(s) \in Replies
  BY Names DEF TeardownReply
<1> QED BY <1>1, WaitingTypes DEF TornDown, IpcTypeOK, ipcVars

\* A call on a surface, whatever it meets.
LEMMA SurfaceCallTypes ==
  ASSUME ObjectTypeOK, NEW s \in Ids, NEW x \in Surfaces, SurfaceCall(s, x)
  PROVE  surface' \in [Ids -> Surfaces] /\ failed' \in [Ids -> Failures]
  BY Names DEF ObjectTypeOK, SurfaceCall

\* A lock region that takes the session away.
LEMMA ReleaseTypes ==
  ASSUME TypeOK, NEW s, NEW why \in Endings, Release(s, why),
         ctxDone' \in [Ids -> BOOLEAN], surface' \in [Ids -> Surfaces],
         UNCHANGED <<nextID, failed, input, hasSelected, pendings, emitted>>,
         due' \subseteq due
  PROVE  OwnerTypeOK' /\ ObjectTypeOK' /\ SessionTypeOK'
<1>1. OwnerTypeOK'
  BY DEF TypeOK, OwnerTypeOK, Release
<1>2. ObjectTypeOK'
  BY Names DEF TypeOK, ObjectTypeOK, Release
<1>3. SessionTypeOK'
  BY NoneFacts DEF TypeOK, SessionTypeOK, Release
<1> QED BY <1>1, <1>2, <1>3

\* Every reachable state has its type, for any number of sessions and pending
\* clicks, any configuration, any inputs and any faults.
THEOREM TypeInvariant == Spec => []TypeOK
<1> USE DEF TypeOK
<1>1. Init => TypeOK
  BY BoundsAssumption, Names DEF Init, OwnerTypeOK, ObjectTypeOK, SessionTypeOK, LoopTypeOK, IpcTypeOK, None
<1>2. TypeOK /\ [Next]_vars => TypeOK'
  <2> SUFFICES ASSUME TypeOK, [Next]_vars PROVE TypeOK'
    OBVIOUS
  <2> USE DEF sessionVars, loopVars, ipcVars, objectVars
  <2>1. ASSUME NEW s \in Ids, LookupMonitor(s) PROVE TypeOK'
    BY <2>1, Names, WaitingTypes DEF LookupMonitor, OwnerTypeOK, ObjectTypeOK, SessionTypeOK, LoopTypeOK, IpcTypeOK
  <2>2. ASSUME NEW s \in Ids, CreateSurface(s) PROVE TypeOK'
    <3>1. OwnerTypeOK'
      BY <2>2 DEF CreateSurface, OwnerTypeOK
    <3>2. ObjectTypeOK'
      BY <2>2, Names DEF CreateSurface, ObjectTypeOK
    <3>3. SessionTypeOK'
      BY <2>2 DEF CreateSurface, SessionTypeOK
    <3>4. LoopTypeOK'
      BY <2>2 DEF CreateSurface, LoopTypeOK
    <3>5. IpcTypeOK'
      BY <2>2, Names, WaitingTypes DEF CreateSurface, IpcTypeOK
    <3> QED BY <3>1, <3>2, <3>3, <3>4, <3>5
  <2>3. ASSUME NEW s \in Ids, FirstRender(s) PROVE TypeOK'
    <3>1. OwnerTypeOK'
      BY <2>3 DEF FirstRender, OwnerTypeOK
    <3>2. ObjectTypeOK'
      BY <2>3, Names, AbandonTypes DEF FirstRender, ObjectTypeOK, Abandon
    <3>3. SessionTypeOK'
      BY <2>3 DEF FirstRender, SessionTypeOK
    <3>4. LoopTypeOK'
      BY <2>3 DEF FirstRender, LoopTypeOK
    <3>5. IpcTypeOK'
      BY <2>3 DEF FirstRender, IpcTypeOK
    <3> QED BY <3>1, <3>2, <3>3, <3>4, <3>5
  <2>4. ASSUME NEW s \in Ids, GrabKeyboard(s) PROVE TypeOK'
    <3>1. OwnerTypeOK'
      BY <2>4 DEF GrabKeyboard, OwnerTypeOK
    <3>2. ObjectTypeOK'
      BY <2>4, Names, AbandonTypes DEF GrabKeyboard, ObjectTypeOK
    <3>3. SessionTypeOK'
      BY <2>4 DEF GrabKeyboard, SessionTypeOK
    <3>4. LoopTypeOK'
      BY <2>4 DEF GrabKeyboard, LoopTypeOK
    <3>5. IpcTypeOK'
      BY <2>4 DEF GrabKeyboard, IpcTypeOK
    <3> QED BY <3>1, <3>2, <3>3, <3>4, <3>5
  <2>5. ASSUME NEW s \in Ids, InstallSession(s) PROVE TypeOK'
    <3>1. OwnerTypeOK'
      BY <2>5 DEF InstallSession, OwnerTypeOK
    <3>2. ObjectTypeOK'
      BY <2>5, Names DEF InstallSession, ObjectTypeOK
    <3>3. SessionTypeOK'
      BY <2>5 DEF InstallSession, SessionTypeOK
    <3>4. LoopTypeOK'
      BY <2>5, Names DEF InstallSession, LoopTypeOK
    <3>5. IpcTypeOK'
      BY <2>5, Names, WaitingTypes DEF InstallSession, IpcTypeOK
    <3> QED BY <3>1, <3>2, <3>3, <3>4, <3>5
  <2>6. ASSUME NEW s \in Ids, CloseSources(s) PROVE TypeOK'
    BY <2>6, Names DEF CloseSources, OwnerTypeOK, ObjectTypeOK, SessionTypeOK, LoopTypeOK, IpcTypeOK
  <2>7. ASSUME NEW s \in Ids, UnmapSurface(s) PROVE TypeOK'
    BY <2>7, Names DEF UnmapSurface, SurfaceCall, OwnerTypeOK, ObjectTypeOK, SessionTypeOK, LoopTypeOK, IpcTypeOK
  <2>8. ASSUME NEW s \in Ids, DestroySurface(s) PROVE TypeOK'
    <3>1. OwnerTypeOK'
      BY <2>8 DEF DestroySurface, OwnerTypeOK
    <3>2. ObjectTypeOK'
      BY <2>8, Names, SurfaceCallTypes DEF DestroySurface, TornDown, ObjectTypeOK
    <3>3. SessionTypeOK'
      BY <2>8 DEF DestroySurface, SessionTypeOK
    <3>4. LoopTypeOK'
      BY <2>8 DEF DestroySurface, LoopTypeOK
    <3>5. IpcTypeOK'
      BY <2>8, TornDownTypes DEF DestroySurface, IpcTypeOK
    <3> QED BY <3>1, <3>2, <3>3, <3>4, <3>5
  <2>9. ASSUME NEW s \in Ids, EmitClick(s) PROVE TypeOK'
    <3>1. OwnerTypeOK'
      BY <2>9 DEF EmitClick, OwnerTypeOK
    <3>2. ObjectTypeOK'
      BY <2>9, Names DEF EmitClick, ObjectTypeOK, GoesOnToClick
    <3>3. SessionTypeOK'
      BY <2>9 DEF EmitClick, SessionTypeOK
    <3>4. LoopTypeOK'
      BY <2>9 DEF EmitClick, LoopTypeOK
    <3>5. IpcTypeOK'
      BY <2>9 DEF EmitClick, IpcTypeOK
    <3> QED BY <3>1, <3>2, <3>3, <3>4, <3>5
  <2>10. ASSUME NEW s \in Ids, Reshow(s) PROVE TypeOK'
    <3>1. OwnerTypeOK'
      BY <2>10, NextIdFacts DEF Reshow, OwnerTypeOK
    <3>2. ObjectTypeOK'
      BY <2>10, Names, NextIdFacts DEF Reshow, ObjectTypeOK
    <3>3. SessionTypeOK'
      BY <2>10 DEF Reshow, SessionTypeOK
    <3>4. LoopTypeOK'
      BY <2>10 DEF Reshow, LoopTypeOK
    <3>5. IpcTypeOK'
      BY <2>10 DEF Reshow, IpcTypeOK
    <3> QED BY <3>1, <3>2, <3>3, <3>4, <3>5
  <2>11. ASSUME NEW s \in Ids, LoseSurface(s) PROVE TypeOK'
    BY <2>11, Names DEF LoseSurface, OwnerTypeOK, ObjectTypeOK, SessionTypeOK, LoopTypeOK, IpcTypeOK
  <2>12. ASSUME NEW s \in Ids, KbdLetter(s) PROVE TypeOK'
    <3>1. input[s] + 1 \in 0..2
      BY <2>12 DEF KbdLetter, TakesLetter, SessionTypeOK
    <3>2. input' \in [Ids -> 0..2]
      BY <2>12, <3>1 DEF KbdLetter, SessionTypeOK
    <3>3. hasSelected' \in [Ids -> BOOLEAN]
      BY <2>12 DEF KbdLetter, SessionTypeOK
    <3>4. LoopTypeOK'
      BY <2>12, Names DEF KbdLetter, KbdTo, LoopTypeOK
    <3> QED
      BY <2>12, <3>2, <3>3, <3>4 DEF KbdLetter, OwnerTypeOK, ObjectTypeOK, SessionTypeOK, IpcTypeOK
  <2>13. ASSUME NEW s \in Ids, KbdBackspace(s) PROVE TypeOK'
    BY <2>13, Names DEF KbdBackspace, KbdTo, OwnerTypeOK, ObjectTypeOK, SessionTypeOK, LoopTypeOK, IpcTypeOK
  <2>14. ASSUME NEW s \in Ids, KbdLeftClick(s) PROVE TypeOK'
    <3>1. pendings[s] + 1 \in 0..MaxPending
      BY <2>14, BoundsAssumption DEF KbdLeftClick, SessionTypeOK
    <3>2. SessionTypeOK'
      BY <2>14, <3>1 DEF KbdLeftClick, SessionTypeOK
    <3> QED
      BY <2>14, <3>2 DEF KbdLeftClick, OwnerTypeOK, ObjectTypeOK, LoopTypeOK, IpcTypeOK
  <2>15. ASSUME NEW s \in Ids, KbdDoubleClick(s) PROVE TypeOK'
    <3>1. Release(s, "double") /\ ctxDone' \in [Ids -> BOOLEAN] /\ surface' \in [Ids -> Surfaces]
      BY <2>15 DEF KbdDoubleClick, ClaimSession, ObjectTypeOK
    <3>2. OwnerTypeOK' /\ ObjectTypeOK' /\ SessionTypeOK'
      BY <2>15, <3>1, Names, ReleaseTypes DEF KbdDoubleClick
    <3>3. LoopTypeOK' /\ IpcTypeOK'
      BY <2>15, Names DEF KbdDoubleClick, KbdTo, LoopTypeOK, IpcTypeOK
    <3> QED BY <3>2, <3>3
  <2>16. ASSUME NEW s \in Ids, KbdRightClick(s) PROVE TypeOK'
    <3>1. Release(s, "right") /\ ctxDone' \in [Ids -> BOOLEAN] /\ surface' \in [Ids -> Surfaces]
      BY <2>16 DEF KbdRightClick, ClaimSession, ObjectTypeOK
    <3>2. OwnerTypeOK' /\ ObjectTypeOK' /\ SessionTypeOK'
      BY <2>16, <3>1, Names, ReleaseTypes DEF KbdRightClick
    <3>3. LoopTypeOK' /\ IpcTypeOK'
      BY <2>16, Names DEF KbdRightClick, KbdTo, LoopTypeOK, IpcTypeOK
    <3> QED BY <3>2, <3>3
  <2>17. ASSUME NEW s \in Ids, KbdLeave(s) PROVE TypeOK'
    BY <2>17, Names, NoneFacts DEF KbdLeave, OwnerTypeOK, ObjectTypeOK, SessionTypeOK, LoopTypeOK, IpcTypeOK
  <2>18. ASSUME NEW s \in Ids, KbdKeymap(s) PROVE TypeOK'
    BY <2>18, Names DEF KbdKeymap, OwnerTypeOK, ObjectTypeOK, SessionTypeOK, LoopTypeOK, IpcTypeOK
  <2>19. ASSUME NEW s \in Ids, KbdDirection(s) PROVE TypeOK'
    BY <2>19, Names DEF KbdDirection, KbdTo, OwnerTypeOK, ObjectTypeOK, SessionTypeOK, LoopTypeOK, IpcTypeOK
  <2>20. ASSUME NEW s \in Ids, KbdRelease(s) PROVE TypeOK'
    BY <2>20, Names DEF KbdRelease, OwnerTypeOK, ObjectTypeOK, SessionTypeOK, LoopTypeOK, IpcTypeOK
  <2>21. ASSUME NEW s \in Ids, KbdExit(s) PROVE TypeOK'
    BY <2>21, Names DEF KbdExit, KbdTo, OwnerTypeOK, ObjectTypeOK, SessionTypeOK, LoopTypeOK, IpcTypeOK
  <2>22. ASSUME NEW s \in Ids, KbdEOF(s) PROVE TypeOK'
    BY <2>22, Names DEF KbdEOF, KbdTo, OwnerTypeOK, ObjectTypeOK, SessionTypeOK, LoopTypeOK, IpcTypeOK
  <2>23. ASSUME NEW s \in Ids, KbdAim(s) PROVE TypeOK'
    BY <2>23, Names DEF KbdAim, KbdTo, OwnerTypeOK, ObjectTypeOK, SessionTypeOK, LoopTypeOK, IpcTypeOK
  <2>24. ASSUME NEW s \in Ids, KbdPaint(s) PROVE TypeOK'
    BY <2>24, Names DEF KbdPaint, KbdTo, OwnerTypeOK, ObjectTypeOK, SessionTypeOK, LoopTypeOK, IpcTypeOK
  <2>25. ASSUME NEW s \in Ids, KbdNudge(s) PROVE TypeOK'
    BY <2>25, Names DEF KbdNudge, KbdTo, OwnerTypeOK, ObjectTypeOK, SessionTypeOK, LoopTypeOK, IpcTypeOK
  <2>26. ASSUME NEW s \in Ids, KbdFinish(s) PROVE TypeOK'
    <3>1. LoopTypeOK' /\ IpcTypeOK'
      BY <2>26, Names DEF KbdFinish, LoopTypeOK, IpcTypeOK, KbdTo
    <3>2. CASE Owns(s)
      <4>1. Release(s, "cancel") /\ ctxDone' \in [Ids -> BOOLEAN] /\ surface' \in [Ids -> Surfaces]
        BY <2>26, <3>2 DEF KbdFinish, FinishSession, ObjectTypeOK
      <4>2. due' \subseteq due /\ UNCHANGED <<nextID, failed, input, hasSelected, pendings, emitted>>
        BY <2>26 DEF KbdFinish
      <4> QED
        BY <3>1, <4>1, <4>2, Names, ReleaseTypes
    <3>3. CASE ~Owns(s)
      BY <2>26, <3>1, <3>3 DEF KbdFinish, OwnerTypeOK, ObjectTypeOK, SessionTypeOK
    <3> QED BY <3>2, <3>3
  <2>27. ASSUME NEW s \in Ids, KbdStop(s) PROVE TypeOK'
    BY <2>27, Names DEF KbdStop, KbdTo, OwnerTypeOK, ObjectTypeOK, SessionTypeOK, LoopTypeOK, IpcTypeOK
  <2>28. ASSUME NEW s \in Ids, LifeConfigure(s) PROVE TypeOK'
    BY <2>28, Names DEF LifeConfigure, LifeTo, OwnerTypeOK, ObjectTypeOK, SessionTypeOK, LoopTypeOK, IpcTypeOK
  <2>29. ASSUME NEW s \in Ids, LifeClosed(s) PROVE TypeOK'
    BY <2>29, Names DEF LifeClosed, LifeTo, OwnerTypeOK, ObjectTypeOK, SessionTypeOK, LoopTypeOK, IpcTypeOK
  <2>30. ASSUME NEW s \in Ids, LifePaint(s) PROVE TypeOK'
    BY <2>30, Names DEF LifePaint, LifeTo, OwnerTypeOK, ObjectTypeOK, SessionTypeOK, LoopTypeOK, IpcTypeOK
  <2>31. ASSUME NEW s \in Ids, LifeFinish(s) PROVE TypeOK'
    <3>1. LoopTypeOK' /\ IpcTypeOK'
      BY <2>31, Names DEF LifeFinish, LoopTypeOK, IpcTypeOK, LifeTo
    <3>2. CASE Owns(s)
      <4>1. Release(s, "raw") /\ ctxDone' \in [Ids -> BOOLEAN] /\ surface' \in [Ids -> Surfaces]
        BY <2>31, <3>2 DEF LifeFinish, FinishSession, ObjectTypeOK
      <4>2. due' \subseteq due /\ UNCHANGED <<nextID, failed, input, hasSelected, pendings, emitted>>
        BY <2>31 DEF LifeFinish
      <4> QED
        BY <3>1, <4>1, <4>2, Names, ReleaseTypes
    <3>3. CASE ~Owns(s)
      BY <2>31, <3>1, <3>3 DEF LifeFinish, OwnerTypeOK, ObjectTypeOK, SessionTypeOK
    <3> QED BY <3>2, <3>3
  <2>32. ASSUME NEW s \in Ids, LifeStop(s) PROVE TypeOK'
    BY <2>32, Names DEF LifeStop, LifeTo, OwnerTypeOK, ObjectTypeOK, SessionTypeOK, LoopTypeOK, IpcTypeOK
  <2>33. ASSUME NEW s \in Ids, TimerFire(s) PROVE TypeOK'
    <3>1. pending[s] \in 1..MaxPending
      BY <2>33 DEF TimerFire, SessionTypeOK, None
    <3>2. SessionTypeOK'
      BY <2>33, <3>1 DEF TimerFire, SessionTypeOK
    <3> QED
      BY <2>33, <3>2 DEF TimerFire, OwnerTypeOK, ObjectTypeOK, LoopTypeOK, IpcTypeOK
  <2>34. ASSUME NEW s \in Ids, RepeatFail(s) PROVE TypeOK'
    BY <2>34, Names DEF RepeatFail, OwnerTypeOK, ObjectTypeOK, SessionTypeOK, LoopTypeOK, IpcTypeOK
  <2>35. ASSUME NEW s \in Ids, NEW n \in 1..MaxPending, TimerCommit(s, n) PROVE TypeOK'
    <3>1. LoopTypeOK' /\ IpcTypeOK'
      BY <2>35, Names DEF TimerCommit, LoopTypeOK, IpcTypeOK
    <3>2. CASE TimerClaims(s, n)
      <4>1. Release(s, "left") /\ ctxDone' \in [Ids -> BOOLEAN] /\ surface' \in [Ids -> Surfaces]
        BY <2>35, <3>2 DEF TimerCommit, ClaimSession, ObjectTypeOK
      <4>2. due' \subseteq due /\ UNCHANGED <<nextID, failed, input, hasSelected, pendings, emitted>>
        BY <2>35 DEF TimerCommit
      <4> QED
        BY <3>1, <4>1, <4>2, Names, ReleaseTypes
    <3>3. CASE ~TimerClaims(s, n)
      BY <2>35, <3>1, <3>3 DEF TimerCommit, OwnerTypeOK, ObjectTypeOK, SessionTypeOK
    <3> QED BY <3>2, <3>3
  <2>36. ASSUME NEW c \in Commands, IpcRequest(c) PROVE TypeOK'
    <3>1. OwnerTypeOK'
      BY <2>36 DEF IpcRequest, OwnerTypeOK
    <3>2. ObjectTypeOK'
      BY <2>36 DEF IpcRequest, ObjectTypeOK
    <3>3. SessionTypeOK'
      BY <2>36 DEF IpcRequest, SessionTypeOK
    <3>4. LoopTypeOK'
      BY <2>36 DEF IpcRequest, LoopTypeOK
    <3>5. IpcTypeOK'
      BY <2>36, Names, ConfigAssumption DEF IpcRequest, IpcTypeOK, IpcTo
    <3> QED BY <3>1, <3>2, <3>3, <3>4, <3>5
  <2>37. ASSUME IpcShow PROVE TypeOK'
    <3>1. OwnerTypeOK'
      BY <2>37, NextIdFacts DEF IpcShow, OwnerTypeOK
    <3>2. ObjectTypeOK'
      BY <2>37, Names, NextIdFacts DEF IpcShow, ObjectTypeOK
    <3>3. SessionTypeOK'
      BY <2>37 DEF IpcShow, SessionTypeOK
    <3>4. LoopTypeOK'
      BY <2>37 DEF IpcShow, LoopTypeOK
    <3>5. IpcTypeOK'
      BY <2>37, Names, NextIdFacts, AnswerTypes DEF IpcShow, IpcTypeOK, IpcTo
    <3> QED BY <3>1, <3>2, <3>3, <3>4, <3>5
  <2>38. ASSUME IpcCancel PROVE TypeOK'
    <3>1. OwnerTypeOK'
      BY <2>38 DEF IpcCancel, OwnerTypeOK
    <3>2. ObjectTypeOK'
      BY <2>38 DEF IpcCancel, ObjectTypeOK
    <3>3. SessionTypeOK'
      BY <2>38 DEF IpcCancel, SessionTypeOK
    <3>4. LoopTypeOK'
      BY <2>38 DEF IpcCancel, LoopTypeOK
    <3>5. IpcTypeOK'
      BY <2>38, Names, AnswerTypes DEF IpcCancel, IpcTypeOK, IpcTo, OwnerTypeOK
    <3> QED BY <3>1, <3>2, <3>3, <3>4, <3>5
  <2>39. ASSUME IpcFinish PROVE TypeOK'
    <3>1. CASE Owns(ipcTarget)
      <4>1. Release(ipcTarget, "cancel") /\ ctxDone' \in [Ids -> BOOLEAN] /\ surface' \in [Ids -> Surfaces]
        BY <2>39, <3>1 DEF IpcFinish, FinishSession, ObjectTypeOK
      <4>2. LoopTypeOK' /\ IpcTypeOK'
        BY <2>39, <3>1, Names DEF IpcFinish, IpcTo, LoopTypeOK, IpcTypeOK
      <4> QED
        BY <2>39, <4>1, <4>2, Names, ReleaseTypes DEF IpcFinish
    <3>2. CASE ~Owns(ipcTarget)
      <4>1. IpcTypeOK'
        BY <2>39, <3>2, Names, AnswerTypes DEF IpcFinish
      <4> QED
        BY <2>39, <3>2, <4>1 DEF IpcFinish, OwnerTypeOK, ObjectTypeOK, SessionTypeOK, LoopTypeOK
    <3> QED BY <3>1, <3>2
  <2>40. ASSUME IpcClosePointer PROVE TypeOK'
    BY <2>40, Names, NoneFacts DEF IpcClosePointer, IpcTo, OwnerTypeOK, ObjectTypeOK, SessionTypeOK, LoopTypeOK, IpcTypeOK
  <2>42. ASSUME IpcCloseWayland PROVE TypeOK'
    <3>1. ObjectTypeOK'
      BY <2>42, Names DEF IpcCloseWayland, ObjectTypeOK
    <3> QED
      BY <2>42, <3>1, Names, NoneFacts DEF IpcCloseWayland, IpcTo, OwnerTypeOK, SessionTypeOK, LoopTypeOK, IpcTypeOK
  <2>43. ASSUME NEW s \in Ids, AwaitConfigure(s) PROVE TypeOK'
    <3>1. ObjectTypeOK'
      BY <2>43, Names, AbandonTypes DEF AwaitConfigure, ObjectTypeOK
    <3> QED
      BY <2>43, <3>1 DEF AwaitConfigure, OwnerTypeOK, SessionTypeOK, LoopTypeOK, IpcTypeOK
  <2>44. ASSUME NEW s \in Ids, ConfigureFails(s) PROVE TypeOK'
    <3>1. ObjectTypeOK'
      BY <2>44, AbandonTypes DEF ConfigureFails
    <3> QED
      BY <2>44, <3>1 DEF ConfigureFails, OwnerTypeOK, SessionTypeOK, LoopTypeOK, IpcTypeOK
  <2>45. ASSUME NEW s \in Ids, ResetBackend(s) PROVE TypeOK'
    <3>1. ObjectTypeOK'
      BY <2>45, Names DEF ResetBackend, TornDown, ObjectTypeOK
    <3>2. IpcTypeOK'
      BY <2>45, TornDownTypes DEF ResetBackend
    <3> QED
      BY <2>45, <3>1, <3>2 DEF ResetBackend, OwnerTypeOK, SessionTypeOK, LoopTypeOK
  <2>41. CASE UNCHANGED vars
    BY <2>41 DEF vars, OwnerTypeOK, ObjectTypeOK, SessionTypeOK, LoopTypeOK, IpcTypeOK
  <2> QED
    BY <2>1, <2>2, <2>3, <2>4, <2>5, <2>6, <2>7, <2>8, <2>9, <2>10, <2>11, <2>12, <2>13, <2>14, <2>15, <2>16, <2>17, <2>18, <2>19, <2>20, <2>21, <2>22, <2>23, <2>24, <2>25, <2>26, <2>27, <2>28, <2>29, <2>30, <2>31, <2>32, <2>33, <2>34, <2>35, <2>36, <2>37, <2>38, <2>39, <2>40, <2>41, <2>42, <2>43, <2>44, <2>45
    DEF Next, SessionStep, ShowStep, TeardownStep, KbdEvent, KbdStep, LifeEvent, LifeStep, IpcStep
<1> QED BY <1>1, <1>2, PTL DEF Spec

\* SafetyInv, the conjunction of what the goroutines keep true together, is
\* inductive relative to the types.
THEOREM SafetyInvariant == Spec => []SafetyInv
<1> USE DEF SafetyInv
<1>1. Init => SafetyInv
  BY NoneFacts DEF Init, OneOwner, ArmedMeansAimed, SentAwayBeforeClick, NoOrphan, Fresh, Pristine, Cancelled, LostIsGone, Complete, Newest, Committed, Targeted, Clicks, Building
<1>2. TypeOK /\ SafetyInv /\ [Next]_vars => SafetyInv'
  <2> SUFFICES ASSUME TypeOK, SafetyInv, [Next]_vars PROVE SafetyInv'
    OBVIOUS
  <2> USE NoneFacts DEF sessionVars, loopVars, ipcVars, objectVars, TypeOK, OwnerTypeOK, ObjectTypeOK, SessionTypeOK, LoopTypeOK,
           OneOwner, ArmedMeansAimed, SentAwayBeforeClick, NoOrphan, Fresh, Pristine, Cancelled, LostIsGone, Complete, Newest,
           Committed, Targeted, Building, Clicks
  <2>1. ASSUME NEW s \in Ids, LookupMonitor(s) PROVE SafetyInv'
    BY <2>1 DEF LookupMonitor, Answer, AnswerIfWaiting
  <2>2. ASSUME NEW s \in Ids, CreateSurface(s) PROVE SafetyInv'
    BY <2>2 DEF CreateSurface, Answer, AnswerIfWaiting
  <2>3. ASSUME NEW s \in Ids, FirstRender(s) PROVE SafetyInv'
    BY <2>3 DEF FirstRender, Abandon
  <2>4. ASSUME NEW s \in Ids, GrabKeyboard(s) PROVE SafetyInv'
    BY <2>4 DEF GrabKeyboard, Abandon
  <2>5. ASSUME NEW s \in Ids, InstallSession(s) PROVE SafetyInv'
    BY <2>5 DEF InstallSession, Answer, AnswerIfWaiting
  <2>6. ASSUME NEW s \in Ids, CloseSources(s) PROVE SafetyInv'
    BY <2>6 DEF CloseSources
  <2>7. ASSUME NEW s \in Ids, UnmapSurface(s) PROVE SafetyInv'
    BY <2>7 DEF UnmapSurface, SurfaceCall
  <2>8. ASSUME NEW s \in Ids, DestroySurface(s) PROVE SafetyInv'
    BY <2>8 DEF DestroySurface, LooksInto, TornDown, Answer, AnswerIfWaiting, SurfaceCall, GoesOnToClick
  <2>9. ASSUME NEW s \in Ids, EmitClick(s) PROVE SafetyInv'
    BY <2>9 DEF EmitClick
  <2>10. ASSUME NEW s \in Ids, Reshow(s) PROVE SafetyInv'
    <3>1. CASE CanShow
      <4>1. nextID + 1 \in Ids /\ stage[nextID + 1] = "free"
        BY <3>1, NextIdFacts DEF Fresh
      <4>2. nextID' = nextID + 1 /\ stage' = [stage EXCEPT ![s] = "dead", ![nextID + 1] = "lookup"]
        BY <2>10, <3>1 DEF Reshow, CanShow
      <4>3. UNCHANGED <<session, ending, failed, surface, ctxDone, sessionVars, due, loopVars, emitted>>
        BY <2>10 DEF Reshow, CanShow
      <4>4. Fresh'
        BY <2>10, <4>1, <4>2 DEF Reshow, CanShow, Ids
      <4> QED
        BY <2>10, <4>1, <4>2, <4>3, <4>4 DEF Reshow, CanShow
    <3>2. CASE ~CanShow
      BY <2>10, <3>2 DEF Reshow
    <3> QED BY <3>1, <3>2
  <2>11. ASSUME NEW s \in Ids, LoseSurface(s) PROVE SafetyInv'
    BY <2>11 DEF LoseSurface
  <2>12. ASSUME NEW s \in Ids, KbdLetter(s) PROVE SafetyInv'
    BY <2>12 DEF KbdLetter, KbdTo, Edits, TakesLetter
  <2>13. ASSUME NEW s \in Ids, KbdBackspace(s) PROVE SafetyInv'
    BY <2>13 DEF KbdBackspace, KbdTo, Edits
  <2>14. ASSUME NEW s \in Ids, KbdLeftClick(s) PROVE SafetyInv'
    BY <2>14 DEF KbdLeftClick, CanClaim
  <2>15. ASSUME NEW s \in Ids, KbdDoubleClick(s) PROVE SafetyInv'
    BY <2>15 DEF KbdDoubleClick, KbdTo, CanClaim, ClaimSession, Release
  <2>16. ASSUME NEW s \in Ids, KbdRightClick(s) PROVE SafetyInv'
    BY <2>16 DEF KbdRightClick, KbdTo, CanClaim, ClaimSession, Release
  <2>17. ASSUME NEW s \in Ids, KbdLeave(s) PROVE SafetyInv'
    BY <2>17 DEF KbdLeave
  <2>18. ASSUME NEW s \in Ids, KbdKeymap(s) PROVE SafetyInv'
    BY <2>18 DEF KbdKeymap
  <2>19. ASSUME NEW s \in Ids, KbdDirection(s) PROVE SafetyInv'
    BY <2>19 DEF KbdDirection, KbdTo, CanClaim
  <2>20. ASSUME NEW s \in Ids, KbdRelease(s) PROVE SafetyInv'
    BY <2>20 DEF KbdRelease, CanClaim
  <2>21. ASSUME NEW s \in Ids, KbdExit(s) PROVE SafetyInv'
    BY <2>21 DEF KbdExit, KbdTo
  <2>22. ASSUME NEW s \in Ids, KbdEOF(s) PROVE SafetyInv'
    BY <2>22 DEF KbdEOF, KbdTo
  <2>23. ASSUME NEW s \in Ids, KbdAim(s) PROVE SafetyInv'
    BY <2>23 DEF KbdAim, KbdTo
  <2>24. ASSUME NEW s \in Ids, KbdPaint(s) PROVE SafetyInv'
    BY <2>24 DEF KbdPaint, KbdTo, CanPaint
  <2>25. ASSUME NEW s \in Ids, KbdNudge(s) PROVE SafetyInv'
    BY <2>25 DEF KbdNudge, KbdTo, CanClaim
  <2>26. ASSUME NEW s \in Ids, KbdFinish(s) PROVE SafetyInv'
    BY <2>26 DEF KbdFinish, KbdTo, Owns, FinishSession, Release
  <2>27. ASSUME NEW s \in Ids, KbdStop(s) PROVE SafetyInv'
    BY <2>27 DEF KbdStop, KbdTo
  <2>28. ASSUME NEW s \in Ids, LifeConfigure(s) PROVE SafetyInv'
    BY <2>28 DEF LifeConfigure, LifeTo
  <2>29. ASSUME NEW s \in Ids, LifeClosed(s) PROVE SafetyInv'
    BY <2>29 DEF LifeClosed, LifeTo
  <2>30. ASSUME NEW s \in Ids, LifePaint(s) PROVE SafetyInv'
    BY <2>30 DEF LifePaint, LifeTo, CanPaint
  <2>31. ASSUME NEW s \in Ids, LifeFinish(s) PROVE SafetyInv'
    BY <2>31 DEF LifeFinish, LifeTo, Owns, FinishSession, Release
  <2>32. ASSUME NEW s \in Ids, LifeStop(s) PROVE SafetyInv'
    BY <2>32 DEF LifeStop, LifeTo
  <2>33. ASSUME NEW s \in Ids, TimerFire(s) PROVE SafetyInv'
    BY <2>33 DEF TimerFire
  <2>34. ASSUME NEW s \in Ids, RepeatFail(s) PROVE SafetyInv'
    BY <2>34 DEF RepeatFail
  <2>35. ASSUME NEW s \in Ids, NEW n \in 1..MaxPending, TimerCommit(s, n) PROVE SafetyInv'
    BY <2>35 DEF TimerCommit, TimerClaims, CanClaim, ClaimSession, Release
  <2>36. ASSUME NEW c \in Commands, IpcRequest(c) PROVE SafetyInv'
    BY <2>36 DEF IpcRequest, IpcTo
  <2>37. ASSUME IpcShow PROVE SafetyInv'
    <3>1. CASE CanShow
      <4>1. nextID + 1 \in Ids /\ stage[nextID + 1] = "free"
        BY <3>1, NextIdFacts
      <4>2. nextID' = nextID + 1 /\ stage' = [stage EXCEPT ![nextID + 1] = "lookup"]
        BY <2>37, <3>1 DEF IpcShow, CanShow, IpcTo
      <4>3. UNCHANGED <<session, ending, failed, surface, ctxDone, sessionVars, due, loopVars, emitted>>
        BY <2>37 DEF IpcShow, CanShow, IpcTo
      <4>4. Fresh'
        BY <2>37, <4>1, <4>2 DEF IpcShow, CanShow, Ids
      <4> QED
        BY <2>37, <4>1, <4>2, <4>3, <4>4 DEF IpcShow, CanShow, IpcTo
    <3>2. CASE ~CanShow
      BY <2>37, <3>2 DEF IpcShow, Answer
    <3> QED BY <3>1, <3>2
  <2>38. ASSUME IpcCancel PROVE SafetyInv'
    BY <2>38 DEF IpcCancel, Answer, IpcTo
  <2>39. ASSUME IpcFinish PROVE SafetyInv'
    BY <2>39 DEF IpcFinish, Answer, IpcTo, Owns, FinishSession, Release
  <2>40. ASSUME IpcClosePointer PROVE SafetyInv'
    BY <2>40 DEF IpcClosePointer, IpcTo
  <2>42. ASSUME IpcCloseWayland PROVE SafetyInv'
    BY <2>42 DEF IpcCloseWayland, IpcTo
  <2>43. ASSUME NEW s \in Ids, AwaitConfigure(s) PROVE SafetyInv'
    BY <2>43 DEF AwaitConfigure, Abandon
  <2>44. ASSUME NEW s \in Ids, ConfigureFails(s) PROVE SafetyInv'
    BY <2>44 DEF ConfigureFails, Abandon
  <2>45. ASSUME NEW s \in Ids, ResetBackend(s) PROVE SafetyInv'
    <3>1. surface[s] = "gone" /\ ctxDone[s] /\ stage[s] = "reset"
      BY <2>45 DEF ResetBackend
    <3>2. Targeted'
      BY <2>45 DEF ResetBackend, TornDown, Answer, AnswerIfWaiting
    <3>3. CASE stage' = [stage EXCEPT ![s] = "click"]
      BY <2>45, <3>1, <3>2, <3>3 DEF ResetBackend, TornDown, GoesOnToClick
    <3>4. CASE stage' = [stage EXCEPT ![s] = "dead"]
      BY <2>45, <3>1, <3>2, <3>4 DEF ResetBackend
    <3> QED
      BY <2>45, <3>3, <3>4 DEF ResetBackend, TornDown
  <2>41. CASE UNCHANGED vars
    BY <2>41 DEF vars
  <2> QED
    BY <2>1, <2>2, <2>3, <2>4, <2>5, <2>6, <2>7, <2>8, <2>9, <2>10, <2>11, <2>12, <2>13, <2>14, <2>15, <2>16, <2>17, <2>18, <2>19, <2>20, <2>21, <2>22, <2>23, <2>24, <2>25, <2>26, <2>27, <2>28, <2>29, <2>30, <2>31, <2>32, <2>33, <2>34, <2>35, <2>36, <2>37, <2>38, <2>39, <2>40, <2>41, <2>42, <2>43, <2>44, <2>45
    DEF Next, SessionStep, ShowStep, TeardownStep, KbdEvent, KbdStep, LifeEvent, LifeStep, IpcStep
<1> QED BY <1>1, <1>2, TypeInvariant, PTL DEF Spec

\* What a step leaves of the surfaces and the pending clicks.
LEMMA StepKeepsFramesAndTimers ==
  ASSUME TypeOK, SafetyInv, [Next]_vars
  PROVE  LateFrameStep /\ NewestTimerStep
<1> USE DEF sessionVars, loopVars, ipcVars, objectVars, TypeOK, OwnerTypeOK, ObjectTypeOK, SessionTypeOK, LoopTypeOK,
         SafetyInv, OneOwner, Pristine, Cancelled, Newest, Building, LateFrameStep, NewestTimerStep
<1>1. ASSUME NEW s \in Ids, LookupMonitor(s) PROVE LateFrameStep /\ NewestTimerStep
    BY <1>1 DEF LookupMonitor
<1>2. ASSUME NEW s \in Ids, CreateSurface(s) PROVE LateFrameStep /\ NewestTimerStep
    BY <1>2 DEF CreateSurface
<1>3. ASSUME NEW s \in Ids, FirstRender(s) PROVE LateFrameStep /\ NewestTimerStep
    BY <1>3 DEF FirstRender, Abandon
<1>4. ASSUME NEW s \in Ids, GrabKeyboard(s) PROVE LateFrameStep /\ NewestTimerStep
    BY <1>4 DEF GrabKeyboard, Abandon
<1>5. ASSUME NEW s \in Ids, InstallSession(s) PROVE LateFrameStep /\ NewestTimerStep
    BY <1>5 DEF InstallSession
<1>6. ASSUME NEW s \in Ids, CloseSources(s) PROVE LateFrameStep /\ NewestTimerStep
    BY <1>6 DEF CloseSources
<1>7. ASSUME NEW s \in Ids, UnmapSurface(s) PROVE LateFrameStep /\ NewestTimerStep
    BY <1>7 DEF UnmapSurface, SurfaceCall
<1>8. ASSUME NEW s \in Ids, DestroySurface(s) PROVE LateFrameStep /\ NewestTimerStep
    BY <1>8 DEF DestroySurface, TornDown, SurfaceCall
<1>9. ASSUME NEW s \in Ids, EmitClick(s) PROVE LateFrameStep /\ NewestTimerStep
    BY <1>9 DEF EmitClick
<1>10. ASSUME NEW s \in Ids, Reshow(s) PROVE LateFrameStep /\ NewestTimerStep
    BY <1>10 DEF Reshow
<1>11. ASSUME NEW s \in Ids, LoseSurface(s) PROVE LateFrameStep /\ NewestTimerStep
    BY <1>11 DEF LoseSurface
<1>12. ASSUME NEW s \in Ids, KbdLetter(s) PROVE LateFrameStep /\ NewestTimerStep
    BY <1>12 DEF KbdLetter, KbdTo, Edits
<1>13. ASSUME NEW s \in Ids, KbdBackspace(s) PROVE LateFrameStep /\ NewestTimerStep
    BY <1>13 DEF KbdBackspace, KbdTo, Edits
<1>14. ASSUME NEW s \in Ids, KbdLeftClick(s) PROVE LateFrameStep /\ NewestTimerStep
    BY <1>14 DEF KbdLeftClick, CanClaim
<1>15. ASSUME NEW s \in Ids, KbdDoubleClick(s) PROVE LateFrameStep /\ NewestTimerStep
    BY <1>15 DEF KbdDoubleClick, KbdTo, CanClaim, ClaimSession, Release
<1>16. ASSUME NEW s \in Ids, KbdRightClick(s) PROVE LateFrameStep /\ NewestTimerStep
    BY <1>16 DEF KbdRightClick, KbdTo, CanClaim, ClaimSession, Release
<1>17. ASSUME NEW s \in Ids, KbdLeave(s) PROVE LateFrameStep /\ NewestTimerStep
    BY <1>17 DEF KbdLeave
<1>18. ASSUME NEW s \in Ids, KbdKeymap(s) PROVE LateFrameStep /\ NewestTimerStep
    BY <1>18 DEF KbdKeymap
<1>19. ASSUME NEW s \in Ids, KbdDirection(s) PROVE LateFrameStep /\ NewestTimerStep
    BY <1>19 DEF KbdDirection, KbdTo, CanClaim
<1>20. ASSUME NEW s \in Ids, KbdRelease(s) PROVE LateFrameStep /\ NewestTimerStep
    BY <1>20 DEF KbdRelease, CanClaim
<1>21. ASSUME NEW s \in Ids, KbdExit(s) PROVE LateFrameStep /\ NewestTimerStep
    BY <1>21 DEF KbdExit, KbdTo
<1>22. ASSUME NEW s \in Ids, KbdEOF(s) PROVE LateFrameStep /\ NewestTimerStep
    BY <1>22 DEF KbdEOF, KbdTo
<1>23. ASSUME NEW s \in Ids, KbdAim(s) PROVE LateFrameStep /\ NewestTimerStep
    BY <1>23 DEF KbdAim, KbdTo
<1>24. ASSUME NEW s \in Ids, KbdPaint(s) PROVE LateFrameStep /\ NewestTimerStep
    BY <1>24 DEF KbdPaint, KbdTo, CanPaint
<1>25. ASSUME NEW s \in Ids, KbdNudge(s) PROVE LateFrameStep /\ NewestTimerStep
    BY <1>25 DEF KbdNudge, KbdTo, CanClaim
<1>26. ASSUME NEW s \in Ids, KbdFinish(s) PROVE LateFrameStep /\ NewestTimerStep
    BY <1>26 DEF KbdFinish, KbdTo, Owns, FinishSession, Release
<1>27. ASSUME NEW s \in Ids, KbdStop(s) PROVE LateFrameStep /\ NewestTimerStep
    BY <1>27 DEF KbdStop, KbdTo
<1>28. ASSUME NEW s \in Ids, LifeConfigure(s) PROVE LateFrameStep /\ NewestTimerStep
    BY <1>28 DEF LifeConfigure, LifeTo
<1>29. ASSUME NEW s \in Ids, LifeClosed(s) PROVE LateFrameStep /\ NewestTimerStep
    BY <1>29 DEF LifeClosed, LifeTo
<1>30. ASSUME NEW s \in Ids, LifePaint(s) PROVE LateFrameStep /\ NewestTimerStep
    BY <1>30 DEF LifePaint, LifeTo, CanPaint
<1>31. ASSUME NEW s \in Ids, LifeFinish(s) PROVE LateFrameStep /\ NewestTimerStep
    BY <1>31 DEF LifeFinish, LifeTo, Owns, FinishSession, Release
<1>32. ASSUME NEW s \in Ids, LifeStop(s) PROVE LateFrameStep /\ NewestTimerStep
    BY <1>32 DEF LifeStop, LifeTo
<1>33. ASSUME NEW s \in Ids, TimerFire(s) PROVE LateFrameStep /\ NewestTimerStep
    BY <1>33 DEF TimerFire
<1>34. ASSUME NEW s \in Ids, RepeatFail(s) PROVE LateFrameStep /\ NewestTimerStep
    BY <1>34 DEF RepeatFail
<1>35. ASSUME NEW s \in Ids, NEW n \in 1..MaxPending, TimerCommit(s, n) PROVE LateFrameStep /\ NewestTimerStep
    BY <1>35 DEF TimerCommit, TimerClaims, CanClaim, ClaimSession, Release
<1>36. ASSUME NEW c \in Commands, IpcRequest(c) PROVE LateFrameStep /\ NewestTimerStep
    BY <1>36 DEF IpcRequest
<1>37. ASSUME IpcShow PROVE LateFrameStep /\ NewestTimerStep
    BY <1>37 DEF IpcShow, CanShow
<1>38. ASSUME IpcCancel PROVE LateFrameStep /\ NewestTimerStep
    BY <1>38 DEF IpcCancel
<1>39. ASSUME IpcFinish PROVE LateFrameStep /\ NewestTimerStep
    BY <1>39 DEF IpcFinish, Owns, FinishSession, Release
<1>40. ASSUME IpcClosePointer PROVE LateFrameStep /\ NewestTimerStep
    BY <1>40 DEF IpcClosePointer
<1>42. ASSUME IpcCloseWayland PROVE LateFrameStep /\ NewestTimerStep
    BY <1>42 DEF IpcCloseWayland
<1>43. ASSUME NEW s \in Ids, AwaitConfigure(s) PROVE LateFrameStep /\ NewestTimerStep
    BY <1>43 DEF AwaitConfigure, Abandon
<1>44. ASSUME NEW s \in Ids, ConfigureFails(s) PROVE LateFrameStep /\ NewestTimerStep
    BY <1>44 DEF ConfigureFails, Abandon
<1>45. ASSUME NEW s \in Ids, ResetBackend(s) PROVE LateFrameStep /\ NewestTimerStep
    BY <1>45 DEF ResetBackend, TornDown
<1>41. CASE UNCHANGED vars
    BY <1>41 DEF vars
<1> QED
    BY <1>1, <1>2, <1>3, <1>4, <1>5, <1>6, <1>7, <1>8, <1>9, <1>10, <1>11, <1>12, <1>13, <1>14, <1>15, <1>16, <1>17, <1>18, <1>19, <1>20, <1>21, <1>22, <1>23, <1>24, <1>25, <1>26, <1>27, <1>28, <1>29, <1>30, <1>31, <1>32, <1>33, <1>34, <1>35, <1>36, <1>37, <1>38, <1>39, <1>40, <1>41, <1>42, <1>43, <1>44, <1>45
    DEF Next, SessionStep, ShowStep, TeardownStep, KbdEvent, KbdStep, LifeEvent, LifeStep, IpcStep

\* A lock region that takes the session away is the promise's End.
LEMMA ReleaseEnds ==
  ASSUME TypeOK, SafetyInv, NEW s \in Ids, session = s, NEW why \in Clicks \cup {"cancel", "raw"},
         Release(s, why), UNCHANGED emitted,
         kbd' = kbd \/ kbd' = [kbd EXCEPT ![s] = "done"]
  PROVE  Promise!Next
<1> DEFINE how == IF why \in Clicks THEN why ELSE "over"
<1>1. how \in Clicks \cup {"over"}
  OBVIOUS
<1>2. session' = None /\ ending' = [ending EXCEPT ![s] = why]
  BY DEF Release
<1>3. kbd[s] # "none" /\ kbd'[s] # "none" /\ \A t \in Ids \ {s} : kbd'[t] = kbd[t]
  BY DEF TypeOK, LoopTypeOK, SafetyInv, OneOwner
<1>4. ending'[s] = why /\ \A t \in Ids \ {s} : ending'[t] = ending[t]
  BY <1>2 DEF TypeOK, ObjectTypeOK
<1>5. outcome'[s] = how
  BY <1>3, <1>4 DEF outcome, Clicks
<1>6. \A t \in Ids \ {s} : outcome'[t] = outcome[t]
  BY <1>3, <1>4 DEF outcome
<1>7. outcome' = [outcome EXCEPT ![s] = how]
  BY <1>5, <1>6 DEF outcome
<1>8. Promise!End(s, how)
  BY <1>2, <1>7 DEF Promise!End
<1> QED BY <1>1, <1>8 DEF Promise!Next

\* A step is a step of the promise, or leaves what the promise speaks of alone.
LEMMA StepKeepsPromise ==
  ASSUME TypeOK, SafetyInv, [Next]_vars
  PROVE  [Promise!Next]_Promise!vars
<1> USE NoneFacts DEF sessionVars, loopVars, ipcVars, objectVars, TypeOK, OwnerTypeOK, ObjectTypeOK, LoopTypeOK,
         SafetyInv, OneOwner, Pristine, Committed, Targeted, Building, Clicks, Promise!vars, Promise!Next, Promise!Open, Promise!End, Promise!Click
<1>1. ASSUME NEW s \in Ids, LookupMonitor(s) PROVE [Promise!Next]_Promise!vars
    BY <1>1 DEF LookupMonitor, outcome
<1>2. ASSUME NEW s \in Ids, CreateSurface(s) PROVE [Promise!Next]_Promise!vars
    BY <1>2 DEF CreateSurface, outcome
<1>3. ASSUME NEW s \in Ids, FirstRender(s) PROVE [Promise!Next]_Promise!vars
    BY <1>3 DEF FirstRender, Abandon, outcome
<1>4. ASSUME NEW s \in Ids, GrabKeyboard(s) PROVE [Promise!Next]_Promise!vars
    BY <1>4 DEF GrabKeyboard, Abandon, outcome
<1>5. ASSUME NEW s \in Ids, InstallSession(s) PROVE [Promise!Next]_Promise!vars
  <2>1. CASE session = None
    <3>1. kbd[s] = "none" /\ ending[s] = "none" /\ stage[s] = "install"
      BY <1>5 DEF InstallSession
    <3>2. session' = s /\ kbd' = [kbd EXCEPT ![s] = "run"] /\ ending' = ending /\ emitted' = emitted
      BY <1>5, <2>1 DEF InstallSession
    <3>3. outcome[s] = "unused" /\ outcome' = [outcome EXCEPT ![s] = "open"]
      BY <3>1, <3>2 DEF outcome
    <3> QED BY <2>1, <3>2, <3>3
  <2>2. CASE session # None
    BY <1>5, <2>2 DEF InstallSession, outcome
  <2> QED BY <2>1, <2>2
<1>6. ASSUME NEW s \in Ids, CloseSources(s) PROVE [Promise!Next]_Promise!vars
    BY <1>6 DEF CloseSources, outcome
<1>7. ASSUME NEW s \in Ids, UnmapSurface(s) PROVE [Promise!Next]_Promise!vars
    BY <1>7 DEF UnmapSurface, SurfaceCall, outcome
<1>8. ASSUME NEW s \in Ids, DestroySurface(s) PROVE [Promise!Next]_Promise!vars
    BY <1>8 DEF DestroySurface, SurfaceCall, outcome
<1>9. ASSUME NEW s \in Ids, EmitClick(s) PROVE [Promise!Next]_Promise!vars
    BY <1>9 DEF EmitClick, outcome
<1>10. ASSUME NEW s \in Ids, Reshow(s) PROVE [Promise!Next]_Promise!vars
    BY <1>10 DEF Reshow, outcome
<1>11. ASSUME NEW s \in Ids, LoseSurface(s) PROVE [Promise!Next]_Promise!vars
    BY <1>11 DEF LoseSurface, outcome
<1>12. ASSUME NEW s \in Ids, KbdLetter(s) PROVE [Promise!Next]_Promise!vars
    BY <1>12 DEF KbdLetter, KbdTo, Edits, outcome
<1>13. ASSUME NEW s \in Ids, KbdBackspace(s) PROVE [Promise!Next]_Promise!vars
    BY <1>13 DEF KbdBackspace, KbdTo, Edits, outcome
<1>14. ASSUME NEW s \in Ids, KbdLeftClick(s) PROVE [Promise!Next]_Promise!vars
    BY <1>14 DEF KbdLeftClick, CanClaim, outcome
<1>15. ASSUME NEW s \in Ids, KbdDoubleClick(s) PROVE [Promise!Next]_Promise!vars
    BY <1>15, ReleaseEnds DEF KbdDoubleClick, KbdTo, CanClaim, ClaimSession
<1>16. ASSUME NEW s \in Ids, KbdRightClick(s) PROVE [Promise!Next]_Promise!vars
    BY <1>16, ReleaseEnds DEF KbdRightClick, KbdTo, CanClaim, ClaimSession
<1>17. ASSUME NEW s \in Ids, KbdLeave(s) PROVE [Promise!Next]_Promise!vars
    BY <1>17 DEF KbdLeave, outcome
<1>18. ASSUME NEW s \in Ids, KbdKeymap(s) PROVE [Promise!Next]_Promise!vars
    BY <1>18 DEF KbdKeymap, outcome
<1>19. ASSUME NEW s \in Ids, KbdDirection(s) PROVE [Promise!Next]_Promise!vars
    BY <1>19 DEF KbdDirection, KbdTo, CanClaim, outcome
<1>20. ASSUME NEW s \in Ids, KbdRelease(s) PROVE [Promise!Next]_Promise!vars
    BY <1>20 DEF KbdRelease, CanClaim, outcome
<1>21. ASSUME NEW s \in Ids, KbdExit(s) PROVE [Promise!Next]_Promise!vars
    BY <1>21 DEF KbdExit, KbdTo, outcome
<1>22. ASSUME NEW s \in Ids, KbdEOF(s) PROVE [Promise!Next]_Promise!vars
    BY <1>22 DEF KbdEOF, KbdTo, outcome
<1>23. ASSUME NEW s \in Ids, KbdAim(s) PROVE [Promise!Next]_Promise!vars
    BY <1>23 DEF KbdAim, KbdTo, outcome
<1>24. ASSUME NEW s \in Ids, KbdPaint(s) PROVE [Promise!Next]_Promise!vars
    BY <1>24 DEF KbdPaint, KbdTo, CanPaint, outcome
<1>25. ASSUME NEW s \in Ids, KbdNudge(s) PROVE [Promise!Next]_Promise!vars
    BY <1>25 DEF KbdNudge, KbdTo, CanClaim, outcome
<1>26. ASSUME NEW s \in Ids, KbdFinish(s) PROVE [Promise!Next]_Promise!vars
  <2>1. CASE Owns(s)
    <3>1. Promise!Next
      BY <1>26, <2>1, ReleaseEnds DEF KbdFinish, KbdTo, Owns, FinishSession
    <3> QED BY <3>1
  <2>2. CASE ~(Owns(s))
    BY <1>26, <2>2 DEF KbdFinish, KbdTo, outcome
  <2> QED BY <2>1, <2>2
<1>27. ASSUME NEW s \in Ids, KbdStop(s) PROVE [Promise!Next]_Promise!vars
    BY <1>27 DEF KbdStop, KbdTo, outcome
<1>28. ASSUME NEW s \in Ids, LifeConfigure(s) PROVE [Promise!Next]_Promise!vars
    BY <1>28 DEF LifeConfigure, LifeTo, outcome
<1>29. ASSUME NEW s \in Ids, LifeClosed(s) PROVE [Promise!Next]_Promise!vars
    BY <1>29 DEF LifeClosed, LifeTo, outcome
<1>30. ASSUME NEW s \in Ids, LifePaint(s) PROVE [Promise!Next]_Promise!vars
    BY <1>30 DEF LifePaint, LifeTo, CanPaint, outcome
<1>31. ASSUME NEW s \in Ids, LifeFinish(s) PROVE [Promise!Next]_Promise!vars
  <2>1. CASE Owns(s)
    <3>1. Promise!Next
      BY <1>31, <2>1, ReleaseEnds DEF LifeFinish, Owns, FinishSession
    <3> QED BY <3>1
  <2>2. CASE ~(Owns(s))
    BY <1>31, <2>2 DEF LifeFinish, LifeTo, outcome
  <2> QED BY <2>1, <2>2
<1>32. ASSUME NEW s \in Ids, LifeStop(s) PROVE [Promise!Next]_Promise!vars
    BY <1>32 DEF LifeStop, LifeTo, outcome
<1>33. ASSUME NEW s \in Ids, TimerFire(s) PROVE [Promise!Next]_Promise!vars
    BY <1>33 DEF TimerFire, outcome
<1>34. ASSUME NEW s \in Ids, RepeatFail(s) PROVE [Promise!Next]_Promise!vars
    BY <1>34 DEF RepeatFail, outcome
<1>35. ASSUME NEW s \in Ids, NEW n \in 1..MaxPending, TimerCommit(s, n) PROVE [Promise!Next]_Promise!vars
  <2>1. CASE TimerClaims(s, n)
    <3>1. Promise!Next
      BY <1>35, <2>1, ReleaseEnds DEF TimerCommit, TimerClaims, CanClaim, ClaimSession
    <3> QED BY <3>1
  <2>2. CASE ~(TimerClaims(s, n))
    BY <1>35, <2>2 DEF TimerCommit, CanClaim, outcome
  <2> QED BY <2>1, <2>2
<1>36. ASSUME NEW c \in Commands, IpcRequest(c) PROVE [Promise!Next]_Promise!vars
    BY <1>36 DEF IpcRequest, outcome
<1>37. ASSUME IpcShow PROVE [Promise!Next]_Promise!vars
    BY <1>37 DEF IpcShow, CanShow, outcome
<1>38. ASSUME IpcCancel PROVE [Promise!Next]_Promise!vars
    BY <1>38 DEF IpcCancel, outcome
<1>39. ASSUME IpcFinish PROVE [Promise!Next]_Promise!vars
  <2>1. CASE Owns(ipcTarget)
    <3>1. Promise!Next
      BY <1>39, <2>1, ReleaseEnds DEF IpcFinish, Owns, FinishSession
    <3> QED BY <3>1
  <2>2. CASE ~(Owns(ipcTarget))
    BY <1>39, <2>2 DEF IpcFinish, Owns, outcome
  <2> QED BY <2>1, <2>2
<1>40. ASSUME IpcClosePointer PROVE [Promise!Next]_Promise!vars
    BY <1>40 DEF IpcClosePointer, outcome
<1>42. ASSUME IpcCloseWayland PROVE [Promise!Next]_Promise!vars
    BY <1>42 DEF IpcCloseWayland, outcome
<1>43. ASSUME NEW s \in Ids, AwaitConfigure(s) PROVE [Promise!Next]_Promise!vars
    BY <1>43 DEF AwaitConfigure, Abandon, outcome
<1>44. ASSUME NEW s \in Ids, ConfigureFails(s) PROVE [Promise!Next]_Promise!vars
    BY <1>44 DEF ConfigureFails, Abandon, outcome
<1>45. ASSUME NEW s \in Ids, ResetBackend(s) PROVE [Promise!Next]_Promise!vars
    BY <1>45 DEF ResetBackend, outcome
<1>41. CASE UNCHANGED vars
    BY <1>41 DEF vars, outcome
<1> QED
    BY <1>1, <1>2, <1>3, <1>4, <1>5, <1>6, <1>7, <1>8, <1>9, <1>10, <1>11, <1>12, <1>13, <1>14, <1>15, <1>16, <1>17, <1>18, <1>19, <1>20, <1>21, <1>22, <1>23, <1>24, <1>25, <1>26, <1>27, <1>28, <1>29, <1>30, <1>31, <1>32, <1>33, <1>34, <1>35, <1>36, <1>37, <1>38, <1>39, <1>40, <1>41, <1>42, <1>43, <1>44, <1>45
    DEF Next, SessionStep, ShowStep, TeardownStep, KbdEvent, KbdStep, LifeEvent, LifeStep, IpcStep

-----------------------------------------------------------------------------
(* The results. *)

\* Exactly the session in d.session has running loops, however shows, clicks,
\* cancels and closed surfaces interleave (installSession, finishSession,
\* claimSessionForClick).
THEOREM OneOwnerAlways == Spec => []OneOwner
<1>1. SafetyInv => OneOwner
  BY DEF SafetyInv
<1> QED BY <1>1, SafetyInvariant, PTL

\* A pending click belongs to the owned session with its complete, unmoving
\* selection; a session that is over has neither pending click nor repeat.
THEOREM ArmedMeansAimedAlways == Spec => []ArmedMeansAimed
<1>1. SafetyInv => ArmedMeansAimed
  BY DEF SafetyInv
<1> QED BY <1>1, SafetyInvariant, PTL

\* commitClick reaches the virtual pointer only after the requests that destroy
\* the session's own surface are written or the surface is lost, whichever
\* errors the unmap, the destroy and the reset of the backend met.
THEOREM SentAwayBeforeClickAlways == Spec => []SentAwayBeforeClick
<1>1. SafetyInv => SentAwayBeforeClick
  BY DEF SafetyInv
<1> QED BY <1>1, SafetyInvariant, PTL

\* A teardown that ended left no surface, unless the backend refused the call.
THEOREM NoOrphanAlways == Spec => []NoOrphan
<1>1. SafetyInv => NoOrphan
  BY DEF SafetyInv
<1> QED BY <1>1, SafetyInvariant, PTL

\* No loop that still had a frame to draw maps a surface that was unmapped.
THEOREM NoLateFrameAlways == Spec => NoLateFrame
<1>1. TypeOK /\ SafetyInv /\ [Next]_vars => [LateFrameStep]_vars
  BY StepKeepsFramesAndTimers
<1> QED BY <1>1, TypeInvariant, SafetyInvariant, PTL DEF Spec, NoLateFrame

\* A left click is committed only by the timer of the first key pressed last.
THEOREM NewestTimerCommitsAlways == Spec => NewestTimerCommits
<1>1. TypeOK /\ SafetyInv /\ [Next]_vars => [NewestTimerStep]_vars
  BY StepKeepsFramesAndTimers
<1> QED BY <1>1, TypeInvariant, SafetyInvariant, PTL DEF Spec, NewestTimerCommits

\* The driver implements OverlayPromise: one session at a time, each ended
\* once, and clicks only for the session that a click ended, of that kind.
THEOREM Refinement == Spec => KeepsPromise
<1>1. Init => Promise!Init
  BY DEF Init, Promise!Init, outcome
<1>2. TypeOK /\ SafetyInv /\ [Next]_vars => [Promise!Next]_Promise!vars
  BY StepKeepsPromise
<1> QED BY <1>1, <1>2, TypeInvariant, SafetyInvariant, PTL DEF Spec, KeepsPromise, Promise!Spec

=============================================================================
