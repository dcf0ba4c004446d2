--------------------------- MODULE LayerSurfaceProofs ---------------------------
(***************************************************************************)
(* Proofs about LayerSurface, for any events that the compositor may send,    *)
(* any number of them, and a guest session on the same or on the next         *)
(* connection: who is where when a teardown begins, which connection can      *)
(* still be used, and which buffers are still in the memory.                 *)
(***************************************************************************)
EXTENDS LayerSurface, TLAPS

Phases == {"no", "cancel", "close", "unmap", "mark", "objects", "buffers", "reset", "done"}

\* The types that do not count events: what TypeOK says besides is that every
\* event makes one frame at the most.
Types ==
  /\ conn \in {"open", "closed", "lost"} /\ held \in {"this", "next", "none"}
  /\ next \in {"none", "open", "closed", "lost"} /\ fatal \in {"no", "network", "eof", "other"}
  /\ wlMu \in Painters \cup {"guest", "free"} /\ proxy \in {"none", "live", "destroyed"}
  /\ made \in Nat /\ pc \in [Painters -> Places] /\ mine \in [Painters -> Nat]
  /\ keys \in Seq({"key", "destroy", "eof"})
  /\ down \in Phases /\ failure \in {"none", "network", "other"}
  /\ guest \in {"none", "create", "making", "owned", "leaving", "reset"} /\ uses \in {"this", "next"}

\* While ShowOverlay is at work nothing else of the session has begun.
Showing ==
  ~At("show", "done") => /\ down = "no" /\ ~owned /\ ~ctxDone /\ how # "show"
                         /\ At("kbd", "off") /\ At("life", "off")

\* The driver's session is not being torn down, and a loop that has begun is of
\* the driver's session or of one that is being torn down.
Owned ==
  /\ owned => down = "no"
  /\ ~At("kbd", "off") \/ ~At("life", "off") => owned \/ down # "no"
  /\ how = "show" => ~owned /\ At("kbd", "off") /\ At("life", "off")

\* What the teardown has done when it is at its phases.
Ordered ==
  /\ ctxDone <=> down \notin {"no", "cancel"}
  /\ shut => down \notin {"no", "cancel", "close"}

\* Who draws, or runs a loop, has seen the first configure.
Drawing ==
  /\ pc["show"] \in {"alloc", "commit", "append", "grab", "install"} => configured
  /\ ~At("kbd", "off") \/ ~At("life", "off") => configured

\* The wl_surface is there until the teardown destroys it.
Alive ==
  \/ pc["show"] \notin {"create", "done"}
  \/ owned
  \/ down \in {"cancel", "close", "unmap", "mark", "objects"}
  => proxy = "live"

\* After Destroy's requests the wl_surface is gone, or they could not be made.
Gone ==
  down \in {"buffers", "reset", "done"}
    => \/ proxy = "destroyed" \/ conn # "open" \/ fatal # "no"
       \/ stopping /\ how \in {"show", "request"}

\* One reads at a time, ShowOverlay or the keyboard loop of this session, or a
\* guest on the same connection.
Reader ==
  /\ \A p \in Painters : At(p, "dispatch") => wlMu = p
  /\ pc["life"] \notin {"pump", "dispatch"}
  /\ wlMu = "guest" => uses = "this" /\ guest \in {"making", "owned", "leaving"}

\* io.EOF is what a read got when the compositor had hung up, and nobody reads after it.
EofLost == fatal = "eof" => conn = "lost" /\ wlMu = "free"

\* A connection that was closed and is still held has somebody who is going to
\* reset it: the guest, or the teardown, which has met the error or will.
ThisClosed ==
  held = "this" /\ conn = "closed" /\ fatal \notin {"eof", "other"} /\ ~stopping
    => \/ guest \in {"leaving", "reset"} /\ uses = "this"
       \/ down \in {"close", "unmap", "mark", "objects"} /\ how # "show"
       \/ down \in {"buffers", "reset"} /\ how # "show" /\ failure = "network"

NextClosed ==
  held = "next" /\ next = "closed" /\ ~stopping => guest \in {"leaving", "reset"} /\ uses = "next"

\* A keyboard loop that is still in its read when Destroy's requests are over has
\* let none of them through.
StillReading ==
  At("kbd", "dispatch") /\ down \in {"buffers", "reset", "done"} /\ fatal \notin {"eof", "other"} /\ ~stopping
    => failure = "network" /\ (down = "done" => held # "this")

\* Only a guest on its connection takes this session's hub away; and the keyboard
\* loop returns from a session it leaves to the driver when its hub or the
\* compositor is gone.
Ended == \E i \in 1..Len(keys) : keys[i] = "eof"
Shared ==
  /\ down # "done" /\ (guest # "none" \/ held # "this") => shared
  /\ (owned \/ At("show", "install")) /\ Ended => shared
  /\ owned /\ At("kbd", "done") => shared \/ conn = "lost"
  /\ At("kbd", "off") /\ pc["show"] \notin {"install", "done"} => keys = <<>>

\* Every buffer that is in memory is on the list, was taken from it, or is on
\* its way there; a loop puts one more there at the most after Destroy took it.
Kept ==
  /\ mapped \subseteq buffers \cup taken \cup {mine[p] : p \in {q \in Painters : pc[q] \in {"commit", "append"}}}
  /\ down \in {"objects", "buffers", "reset", "done"} => buffers \subseteq {mine["kbd"], mine["life"]}
  /\ down \notin {"objects", "buffers"} => taken = {}

SurfaceInv ==
  /\ Types /\ Showing /\ Owned /\ Ordered /\ Drawing /\ Alive /\ Gone /\ Reader
  /\ EofLost /\ ThisClosed /\ NextClosed /\ StillReading /\ Shared /\ Kept

-----------------------------------------------------------------------------
(* What the steps do to the threads and to the teardown. *)

Busy(p) == pc[p] \notin {"off", "done"}

\* A painter is at another place, and the session is as it was.
Moves(p) == (\E x \in Places \ {"off", "done"} : To(p, x)) /\ UNCHANGED <<owned, ctxDone, downVars>>

\* It returns, and the session is as it was.
Quits(p) == To(p, "done") /\ UNCHANGED <<owned, ctxDone, downVars>>

\* It returns and gives the session up, or another has taken it.
Ends(p) ==
  /\ To(p, "done") /\ UNCHANGED <<taken, failure>>
  /\ \/ p = "show" /\ ctxDone' = TRUE /\ down' \in {"mark", "close"} /\ how' = "show" /\ owned' = owned
     \/ p # "show" /\ ctxDone' = ctxDone /\ owned /\ owned' = FALSE /\ down' = "cancel" /\ how' \in {"unmap", "raw"}
     \/ p # "show" /\ ctxDone' = ctxDone /\ ~owned /\ UNCHANGED <<owned, down, how>>

\* ShowOverlay installs the session and starts its loops.
Begins ==
  /\ At("show", "install") /\ owned' = TRUE /\ UNCHANGED <<ctxDone, downVars>>
  /\ pc' = [show |-> "done", kbd |-> "pop", life |-> "wait"]

LEMMA LeavesEnds ==
  ASSUME NEW p \in {"kbd", "life"}, NEW kind \in {"unmap", "raw"}, LeavesFor(p, kind)
  PROVE  Ends(p)
  BY DEF LeavesFor, Ends

LEMMA AbandonEnds == Abandon \/ LosesRace => Ends("show")
  BY DEF Abandon, LosesRace, Ends

LEMMA GivesUpEnds == ASSUME NEW p \in Painters, GivesUp(p) PROVE Ends(p)
<1>1. CASE p = "show"
  <2>1. Abandon
    BY <1>1, Zenon DEF GivesUp
  <2> QED BY <1>1, <2>1, AbandonEnds
<1>2. CASE p = "kbd"
  <2>1. LeavesFor(p, "unmap")
    BY <1>2, Zenon DEF GivesUp
  <2> QED BY <1>2, <2>1, LeavesEnds
<1>3. CASE p = "life"
  <2>1. LeavesFor(p, "raw")
    BY <1>3, Zenon DEF GivesUp
  <2> QED BY <1>3, <2>1, LeavesEnds
<1> QED BY <1>1, <1>2, <1>3 DEF Painters

\* The append of a buffer takes the painter on to its next place.
LEMMA KeepMoves ==
  ASSUME NEW p \in Painters, KeepBuffer(p)
  PROVE  Busy(p) /\ Moves(p) /\ \E x \in {"grab", "pop", "wait"} : To(p, x)
<1> DEFINE x == CASE p = "show" -> "grab" [] p = "kbd" -> "pop" [] p = "life" -> "wait"
<1>1. x \in {"grab", "pop", "wait"}
  <2>1. CASE p = "show"
    BY <2>1, Zenon
  <2>2. CASE p = "kbd"
    BY <2>2, Zenon
  <2>3. CASE p = "life"
    BY <2>3, Zenon
  <2> QED BY <2>1, <2>2, <2>3 DEF Painters
<1>2. To(p, x) /\ UNCHANGED <<owned, ctxDone, downVars>> /\ pc[p] = "append"
  BY DEF KeepBuffer, sessionVars, At
<1> HIDE DEF x
<1> QED BY <1>1, <1>2 DEF Busy, Moves, Places

\* What the keyboard loop returns from without a finishSession.
Alone == ctxDone \/ fatal = "eof" \/ conn \notin {"open", "closed"}

LEMMA PainterMoves ==
  ASSUME NEW p \in Painters, DispatchStep(p) \/ PaintStep(p)
  PROVE  Busy(p) /\ (Moves(p) \/ (p = "kbd" /\ Alone /\ Quits(p)) \/ Ends(p))
<1>1. CASE Pump(p)
  BY <1>1 DEF Pump, Wants, At, Busy, Moves, Places, sessionVars
<1>2. CASE RefuseDispatch(p)
  BY <1>2, GivesUpEnds DEF RefuseDispatch, Leaves, Alone, At, Busy, Quits
<1>3. CASE BeginDispatch(p)
  BY <1>3 DEF BeginDispatch, At, Busy, Moves, Places, sessionVars
<1>4. CASE DispatchEvent(p)
  <2>1. To(p, "wait") \/ To(p, "pop") \/ GivesUp(p)
    BY <1>4 DEF DispatchEvent
  <2> QED BY <1>4, <2>1, GivesUpEnds DEF DispatchEvent, At, Busy, Moves, Places
<1>5. CASE CancelDispatch(p)
  BY <1>5, GivesUpEnds DEF CancelDispatch, Interrupts, Over, Alone, At, Busy, Quits
<1>6. CASE FailDispatch(p)
  BY <1>6, GivesUpEnds DEF FailDispatch, Leaves, ReadErrors, Alone, At, Busy, Quits
<1>7. CASE AllocBuffer(p)
  BY <1>7, GivesUpEnds DEF AllocBuffer, At, Busy, Moves, Places
<1>8. CASE CommitFrame(p)
  BY <1>8, GivesUpEnds DEF CommitFrame, At, Busy, Moves, Places
<1> QED BY <1>1, <1>2, <1>3, <1>4, <1>5, <1>6, <1>7, <1>8, KeepMoves DEF DispatchStep, PaintStep

LEMMA ShowMoves ==
  ASSUME ShowStep
  PROVE  Busy("show") /\ (Moves("show") \/ (At("show", "create") /\ Quits("show")) \/ Ends("show")
                          \/ (Install /\ Begins))
<1>1. CASE CreateSurface
  BY <1>1 DEF CreateSurface, At, Busy, Moves, Quits, Places, sessionVars
<1>2. CASE Configured
  BY <1>2, AbandonEnds DEF Configured, Draws, At, Busy, Moves, Places
<1>3. CASE GrabKeyboard
  BY <1>3, AbandonEnds DEF GrabKeyboard, At, Busy, Moves, Places
<1>4. CASE Install
  BY <1>4, AbandonEnds DEF Install, At, Busy, Begins
<1> QED BY <1>1, <1>2, <1>3, <1>4 DEF ShowStep

LEMMA KbdMoves ==
  ASSUME KbdStep
  PROVE  /\ Busy("kbd")
         /\ Moves("kbd") \/ Quits("kbd") \/ Ends("kbd") \/ UNCHANGED <<pc, owned, ctxDone, downVars>>
<1>1. CASE KbdKey
  BY <1>1, LeavesEnds DEF KbdKey, Draws, At, Busy, Moves, Quits, Places
<1>2. CASE KbdStop
  BY <1>2 DEF KbdStop, At, Busy, Quits, sessionVars
<1> QED BY <1>1, <1>2 DEF KbdStep

LEMMA LifeMoves ==
  ASSUME LifeStep
  PROVE  /\ Busy("life")
         /\ Moves("life") \/ Quits("life") \/ Ends("life") \/ UNCHANGED <<pc, owned, ctxDone, downVars>>
<1>1. CASE LifeNews
  BY <1>1, LeavesEnds DEF LifeNews, Draws, At, Busy, Moves, Places
<1>2. CASE LifeStop
  BY <1>2 DEF LifeStop, At, Busy, Quits, sessionVars
<1> QED BY <1>1, <1>2 DEF LifeStep

\* The phases of the teardown.
Phase == Cancel \/ CloseSources \/ Unmap \/ MarkDestroyed \/ DestroyObjects \/ DestroyBuffer \/ Reset

LEMMA Steps ==
  ASSUME [Next]_vars
  PROVE  \/ UNCHANGED <<pc, owned, ctxDone, downVars>>
         \/ \E p \in Painters : Busy(p) /\ (Moves(p) \/ (Quits(p) /\ (p = "show" => At("show", "create"))) \/ Ends(p))
         \/ (Install /\ Begins) \/ Claim \/ Phase
<1>1. CASE ShowStep \/ KbdStep \/ LifeStep
  BY <1>1, ShowMoves, KbdMoves, LifeMoves DEF Painters
<1>2. CASE DownStep
  BY <1>2 DEF DownStep, Phase
<1>3. CASE World
  BY <1>3 DEF World, Straggle, Stop, HangUp, Send, sessionVars, paintVars
<1>4. CASE GuestStep
  BY <1>4 DEF GuestStep, sessionVars, paintVars
<1>5. CASE UNCHANGED vars
  BY <1>5 DEF vars, sessionVars, paintVars
<1> QED BY <1>1, <1>2, <1>3, <1>4, <1>5, PainterMoves DEF Next

-----------------------------------------------------------------------------
(* Where the threads are. *)

LEMMA ThreadTypes == ASSUME SurfaceInv, [Next]_vars PROVE pc' \in [Painters -> Places] /\ down' \in Phases
<1> USE DEF SurfaceInv
<1>1. CASE UNCHANGED <<pc, owned, ctxDone, downVars>>
  BY <1>1 DEF Types, downVars
<1>2. ASSUME NEW p \in Painters, Moves(p) \/ Quits(p) \/ Ends(p)
      PROVE  pc' \in [Painters -> Places] /\ down' \in Phases
  BY <1>2 DEF Types, Moves, Quits, Ends, To, downVars, Places, Phases
<1>3. CASE Begins
  BY <1>3 DEF Types, Begins, Painters, Places, downVars
<1>4. CASE Claim \/ Phase
  BY <1>4 DEF Types, Phase, Claim, Cancel, CloseSources, Unmap, MarkDestroyed, DestroyObjects, DestroyBuffer, Reset,
              paintVars, Phases
<1> QED BY <1>1, <1>2, <1>3, <1>4, Steps

LEMMA ShowingKept == ASSUME SurfaceInv, [Next]_vars PROVE Showing'
<1> USE DEF SurfaceInv, At
<1>1. CASE UNCHANGED <<pc, owned, ctxDone, downVars>>
  BY <1>1 DEF Showing, downVars
<1>2. ASSUME NEW p \in Painters, Busy(p), Moves(p) \/ Quits(p) \/ Ends(p) PROVE Showing'
  <2>1. CASE p = "show"
    BY <1>2, <2>1 DEF Types, Showing, Busy, Moves, Quits, Ends, To, downVars, Painters
  <2>2. CASE p # "show"
    BY <1>2, <2>2 DEF Types, Showing, Busy, Moves, Quits, Ends, To, Painters
  <2> QED BY <2>1, <2>2
<1>3. CASE Begins
  BY <1>3 DEF Showing, Begins
<1>4. CASE Claim \/ Phase
  BY <1>4 DEF Showing, Owned, Phase, Claim, Cancel, CloseSources, Unmap, MarkDestroyed, DestroyObjects, DestroyBuffer,
              Reset, paintVars
<1> QED BY <1>1, <1>2, <1>3, <1>4, Steps

LEMMA OwnedKept == ASSUME SurfaceInv, [Next]_vars PROVE Owned'
<1> USE DEF SurfaceInv, At
<1>1. CASE UNCHANGED <<pc, owned, ctxDone, downVars>>
  BY <1>1 DEF Owned, downVars
<1>2. ASSUME NEW p \in Painters, Busy(p), Moves(p) \/ Quits(p) \/ Ends(p) PROVE Owned'
  <2>1. CASE p = "show"
    BY <1>2, <2>1 DEF Types, Showing, Owned, Busy, Moves, Quits, Ends, To, downVars, Painters
  <2>2. CASE p # "show"
    BY <1>2, <2>2 DEF Types, Owned, Busy, Moves, Quits, Ends, To, downVars, Painters
  <2> QED BY <2>1, <2>2
<1>3. CASE Begins
  BY <1>3 DEF Showing, Owned, Begins, downVars
<1>4. CASE Claim
  BY <1>4 DEF Owned, Claim, paintVars
<1>5. CASE Phase
  BY <1>5 DEF Owned, Phase, Cancel, CloseSources, Unmap, MarkDestroyed, DestroyObjects, DestroyBuffer, Reset, paintVars,
              sessionVars
<1> QED BY <1>1, <1>2, <1>3, <1>4, <1>5, Steps

\* What no step takes back.
LEMMA Lasting ==
  ASSUME [Next]_vars
  PROVE  /\ configured => configured'
         /\ conn # "open" => conn' # "open"
         /\ fatal # "no" => fatal' = fatal
         /\ stopping => stopping'
         /\ shut' = shut \/ CloseSources \/ MarkDestroyed
<1>1. ASSUME NEW e, Handle(e) PROVE (configured => configured') /\ (fatal # "no" => fatal' = fatal) /\ shut' = shut
  <2>1. configured => configured'
    BY <1>1, Zenon DEF Handle
  <2> QED BY <1>1, <2>1 DEF Handle, FirstFatal
<1> USE DEF eventVars, surfaceVars, sessionVars, queueVars, wlVars
<1>2. CASE ShowStep
  BY <1>2 DEF ShowStep, CreateSurface, Configured, GrabKeyboard, Install
<1>3. CASE KbdStep \/ LifeStep
  BY <1>3 DEF KbdStep, KbdKey, KbdStop, LifeStep, LifeNews, LifeStop
<1>4. CASE DownStep
  BY <1>4 DEF DownStep, Cancel, CloseSources, Unmap, MarkDestroyed, DestroyObjects, DestroyBuffer, Reset, LazyClose
<1>5. CASE World
  BY <1>1, <1>5 DEF World, Straggle, Claim, Stop, HangUp, Send, FirstFatal
<1>6. CASE GuestStep
  <2>1. CASE GuestReadsEvent
    BY <1>1, <1>6, <2>1 DEF GuestStep, GuestReadsEvent
  <2>2. CASE GuestStep /\ ~GuestReadsEvent
    BY <2>2 DEF GuestStep, GuestShow, GuestCreates, GuestGivesUp, GuestInstalls, GuestReads, GuestReadFails, GuestLeaves,
                GuestCancelled, GuestTearsDown, GuestResets, LazyClose, ReadErrors, FirstFatal
  <2> QED BY <1>6, <2>1, <2>2
<1>7. ASSUME NEW p \in Painters, DispatchStep(p) \/ PaintStep(p)
      PROVE  /\ (configured => configured') /\ (conn # "open" => conn' # "open") /\ (fatal # "no" => fatal' = fatal)
             /\ (stopping => stopping') /\ shut' = shut
  <2>1. CASE DispatchEvent(p)
    BY <1>1, <2>1 DEF DispatchEvent
  <2>2. CASE Pump(p) \/ RefuseDispatch(p) \/ BeginDispatch(p) \/ CancelDispatch(p) \/ FailDispatch(p)
    BY <2>2 DEF Pump, RefuseDispatch, BeginDispatch, CancelDispatch, FailDispatch, ReadErrors, FirstFatal
  <2>3. CASE PaintStep(p)
    BY <2>3 DEF PaintStep, AllocBuffer, CommitFrame, KeepBuffer
  <2> QED BY <1>7, <2>1, <2>2, <2>3 DEF DispatchStep
<1>8. CASE UNCHANGED vars
  BY <1>8 DEF vars
<1> QED BY <1>2, <1>3, <1>4, <1>5, <1>6, <1>7, <1>8 DEF Next

LEMMA OrderedKept == ASSUME SurfaceInv, [Next]_vars PROVE Ordered'
<1> USE DEF SurfaceInv, At
<1>1. CASE UNCHANGED <<pc, owned, ctxDone, downVars>> /\ shut' = shut
  BY <1>1 DEF Ordered, downVars
<1>2. ASSUME NEW p \in Painters, Busy(p), Moves(p) \/ Quits(p) \/ Ends(p), shut' = shut PROVE Ordered'
  BY <1>2 DEF Ordered, Owned, Showing, Busy, Moves, Quits, Ends, downVars
<1>3. CASE Begins /\ shut' = shut
  BY <1>3 DEF Ordered, Begins, downVars
<1>4. CASE Claim
  BY <1>4 DEF Ordered, Owned, Claim, queueVars
<1>5. CASE Phase
  BY <1>5 DEF Ordered, Phase, Cancel, CloseSources, Unmap, MarkDestroyed, DestroyObjects, DestroyBuffer, Reset,
              sessionVars, queueVars
<1> QED BY <1>1, <1>2, <1>3, <1>4, <1>5, Steps, Lasting DEF Phase

-----------------------------------------------------------------------------
(* The wl_surface and what is drawn on it. *)

Painting == {"alloc", "commit", "append", "grab", "install"}

\* Nobody draws before waitForConfigure is over.
LEMMA EntersPainting ==
  ASSUME SurfaceInv, [Next]_vars, pc'["show"] \in Painting
  PROVE  pc["show"] \in Painting \/ configured
<1> USE DEF SurfaceInv, Types, At, To, Painting
<1>1. CASE ShowStep
  BY <1>1 DEF ShowStep, CreateSurface, Configured, Waited, Draws, Abandon, LosesRace, GrabKeyboard, Install, Painters
<1>2. CASE KbdStep \/ LifeStep
  BY <1>2, KbdMoves, LifeMoves DEF Moves, Quits, Ends, Painters
<1>3. CASE DownStep \/ World \/ GuestStep \/ UNCHANGED vars
  BY <1>3 DEF DownStep, Cancel, CloseSources, Unmap, MarkDestroyed, DestroyObjects, DestroyBuffer, Reset, World, Straggle,
              Claim, Stop, HangUp, Send, GuestStep, vars, paintVars
<1>4. ASSUME NEW p \in Painters \ {"show"}, DispatchStep(p) \/ PaintStep(p) PROVE pc'["show"] = pc["show"]
  BY <1>4, PainterMoves DEF Moves, Quits, Ends, Painters
<1>5. CASE DispatchStep("show")
  <2>1. "show" \in Painters
    BY DEF Painters
  <2>2. ASSUME GivesUp("show") PROVE pc'["show"] = "done"
    BY <2>1, <2>2, GivesUpEnds DEF Ends
  <2> QED BY <1>5, <2>1, <2>2 DEF DispatchStep, Pump, RefuseDispatch, BeginDispatch, DispatchEvent, CancelDispatch,
                                       FailDispatch, Leaves
<1>6. CASE PaintStep("show")
  BY <1>6 DEF PaintStep, AllocBuffer, CommitFrame, KeepBuffer
<1> QED BY <1>1, <1>2, <1>3, <1>4, <1>5, <1>6 DEF Next, Painters

LEMMA DrawingKept == ASSUME SurfaceInv, [Next]_vars PROVE Drawing'
<1> USE DEF SurfaceInv, At
<1>1. pc'["show"] \in Painting => configured'
  BY EntersPainting, Lasting DEF Drawing, Painting
<1>2. pc'["kbd"] # "off" \/ pc'["life"] # "off" => configured
  <2>1. CASE UNCHANGED pc
    BY <2>1 DEF Drawing
  <2>2. ASSUME NEW p \in Painters, Busy(p), Moves(p) \/ Quits(p) \/ Ends(p)
        PROVE  pc'["kbd"] # "off" \/ pc'["life"] # "off" => configured
    BY <2>2 DEF Types, Drawing, Busy, Moves, Quits, Ends, To, Painters
  <2>3. CASE Begins
    BY <2>3 DEF Drawing, Begins
  <2> QED BY <2>1, <2>2, <2>3, Steps
          DEF Phase, Claim, Cancel, CloseSources, Unmap, MarkDestroyed, DestroyObjects, DestroyBuffer, Reset, paintVars
<1> QED BY <1>1, <1>2, Lasting DEF Drawing, Painting

LEMMA Created ==
  ASSUME SurfaceInv, [Next]_vars, At("show", "create"), pc'["show"] # "create"
  PROVE  CreateSurface
<1> USE DEF SurfaceInv, Types, At, To
<1>1. CASE ShowStep
  BY <1>1 DEF ShowStep, Configured, GrabKeyboard, Install
<1>2. CASE KbdStep \/ LifeStep
  BY <1>2, KbdMoves, LifeMoves DEF Moves, Quits, Ends, Painters
<1>3. CASE DownStep \/ World \/ GuestStep \/ UNCHANGED vars
  BY <1>3 DEF DownStep, Cancel, CloseSources, Unmap, MarkDestroyed, DestroyObjects, DestroyBuffer, Reset, World, Straggle,
              Claim, Stop, HangUp, Send, GuestStep, vars, paintVars
<1>4. ASSUME NEW p \in Painters \ {"show"}, DispatchStep(p) \/ PaintStep(p) PROVE pc'["show"] = pc["show"]
  BY <1>4, PainterMoves DEF Moves, Quits, Ends, Painters
<1>5. ~DispatchStep("show") /\ ~PaintStep("show")
  BY DEF DispatchStep, Pump, Wants, RefuseDispatch, BeginDispatch, DispatchEvent, CancelDispatch, FailDispatch, PaintStep,
         AllocBuffer, CommitFrame, KeepBuffer
<1> QED BY <1>1, <1>2, <1>3, <1>4, <1>5 DEF Next, Painters

LEMMA ProxyStays == ASSUME [Next]_vars PROVE proxy' = proxy \/ CreateSurface \/ DestroyObjects
<1>1. ASSUME NEW e, Handle(e) PROVE proxy' = proxy
  BY <1>1 DEF Handle
<1>2. ASSUME NEW p \in Painters, DispatchStep(p) \/ PaintStep(p) PROVE proxy' = proxy
  BY <1>1, <1>2 DEF DispatchStep, Pump, RefuseDispatch, BeginDispatch, DispatchEvent, CancelDispatch, FailDispatch, PaintStep,
         AllocBuffer, CommitFrame, KeepBuffer, surfaceVars
<1> QED BY <1>1, <1>2
        DEF Next, ShowStep, Configured, GrabKeyboard, Install, KbdStep, KbdKey, KbdStop, LifeStep, LifeNews, LifeStop, DownStep,
            Cancel, CloseSources, Unmap, MarkDestroyed, DestroyBuffer, Reset, World, Straggle, Claim, Stop, HangUp, Send,
            GuestStep, GuestReadsEvent, vars, surfaceVars

LEMMA AliveKept == ASSUME SurfaceInv, [Next]_vars PROVE Alive'
<1> USE DEF SurfaceInv, At
<1>1. CASE CreateSurface
  BY <1>1 DEF Alive, Showing, CreateSurface, To, Types, Painters, sessionVars, downVars
<1>2. CASE DestroyObjects
  BY <1>2 DEF Alive, Showing, Owned, DestroyObjects, sessionVars, paintVars
<1>3. CASE proxy' = proxy /\ ~CreateSurface /\ ~DestroyObjects
  <2>1. pc'["show"] \notin {"create", "done"} => pc["show"] # "create"
    BY <1>3, Created
  <2>2. CASE UNCHANGED <<pc, owned, ctxDone, downVars>>
    BY <1>3, <2>2 DEF Alive, downVars
  <2>3. ASSUME NEW p \in Painters, Busy(p), Moves(p) \/ Quits(p) \/ Ends(p) PROVE Alive'
    <3>1. CASE p = "show"
      <4>1. pc["show"] \notin {"create", "done"} \/ pc'["show"] = "create"
        BY <1>3, <2>3, <3>1, Created DEF Busy
      <4>2. CASE pc'["show"] = "create"
        BY <1>3, <2>3, <3>1, <4>2 DEF Alive, Showing, Types, Moves, Quits, Ends, To, Busy, Painters, downVars
      <4> QED BY <1>3, <4>1, <4>2 DEF Alive
    <3>2. CASE p # "show"
      BY <1>3, <2>3, <3>2 DEF Alive, Types, Moves, Quits, Ends, To, Painters, downVars
    <3> QED BY <3>1, <3>2
  <2>4. CASE Begins
    BY <1>3, <2>4 DEF Alive, Begins
  <2>5. CASE Claim
    BY <1>3, <2>5 DEF Alive, Claim, paintVars
  <2>6. CASE Phase
    BY <1>3, <2>6 DEF Alive, Phase, Cancel, CloseSources, Unmap, MarkDestroyed, DestroyBuffer, Reset, paintVars, sessionVars
  <2> QED BY <2>2, <2>3, <2>4, <2>5, <2>6, Steps
<1> QED BY <1>1, <1>2, <1>3, ProxyStays

\* From the moment its context has ended only the steps of the teardown matter
\* to the teardown.
LEMMA DownSteps ==
  ASSUME SurfaceInv, [Next]_vars, down \notin {"no", "cancel"}
  PROVE  UNCHANGED <<down, how, taken, failure>> \/ Phase
<1> USE DEF SurfaceInv, At
<1>1. ASSUME NEW p \in Painters, Busy(p), Moves(p) \/ Quits(p) \/ Ends(p) PROVE UNCHANGED <<down, how, taken, failure>>
  BY <1>1 DEF Showing, Owned, Busy, Moves, Quits, Ends, downVars
<1>2. ~Begins /\ ~Claim
  BY DEF Showing, Owned, Begins, Claim
<1> QED BY <1>1, <1>2, Steps DEF downVars

LEMMA HowStays == ASSUME SurfaceInv, [Next]_vars, down \notin {"no", "cancel"} PROVE how' = how
  BY DownSteps DEF Phase, Cancel, CloseSources, Unmap, MarkDestroyed, DestroyObjects, DestroyBuffer, Reset

LEMMA GoneKept == ASSUME SurfaceInv, [Next]_vars PROVE Gone'
<1> USE DEF SurfaceInv, At
<1>1. CASE DestroyObjects
  BY <1>1 DEF Gone, DestroyObjects, Goes, Fails, Stuck, Expired, MayEnd, wlVars, sessionVars
<1>2. CASE CreateSurface
  BY <1>2 DEF Gone, Showing, CreateSurface, downVars
<1>3. CASE proxy' = proxy /\ (down' \in {"buffers", "reset", "done"} => down \in {"buffers", "reset", "done"})
  BY <1>3, Lasting, HowStays DEF Gone
<1>4. ASSUME NEW p \in Painters, Moves(p) \/ Quits(p) \/ Ends(p)
      PROVE  down' \in {"buffers", "reset", "done"} => down \in {"buffers", "reset", "done"}
  BY <1>4 DEF Moves, Quits, Ends, downVars
<1>5. CASE Phase /\ ~DestroyObjects
  BY <1>5, <1>3, ProxyStays, <1>2 DEF Phase, Cancel, CloseSources, Unmap, MarkDestroyed, DestroyBuffer, Reset
<1> QED BY <1>1, <1>2, <1>3, <1>4, <1>5, Steps, ProxyStays DEF Begins, Claim, downVars

-----------------------------------------------------------------------------
(* Who reads the connection. *)

\* Only a dispatch goes to the read of the connection, and to the wait for it.
LEMMA ReadsAfter ==
  ASSUME SurfaceInv, [Next]_vars, ~\E p \in Painters : DispatchStep(p), NEW q \in Painters
  PROVE  pc'[q] = "dispatch" => pc[q] = "dispatch"
<1> USE DEF SurfaceInv, Types, At, To
<1>1. CASE ShowStep \/ KbdStep \/ LifeStep
  BY <1>1 DEF ShowStep, CreateSurface, Configured, Draws, Abandon, LosesRace, LeavesFor, GrabKeyboard, Install, KbdStep, KbdKey, KbdStop,
              LifeStep, LifeNews, LifeStop, Painters
<1>2. CASE DownStep \/ World \/ GuestStep \/ UNCHANGED vars
  BY <1>2 DEF DownStep, Cancel, CloseSources, Unmap, MarkDestroyed, DestroyObjects, DestroyBuffer, Reset, World, Straggle,
              Claim, Stop, HangUp, Send, GuestStep, vars, paintVars
<1>3. ASSUME NEW p \in Painters, PaintStep(p) PROVE pc'[q] = "dispatch" => pc[q] = "dispatch"
  <2>1. To(p, "commit") \/ To(p, "append") \/ To(p, "grab") \/ To(p, "pop") \/ To(p, "wait") \/ Ends(p)
    BY <1>3, KeepMoves, GivesUpEnds DEF PaintStep, AllocBuffer, CommitFrame
  <2> QED BY <2>1 DEF Ends
<1> QED BY <1>1, <1>2, <1>3 DEF Next

LEMMA LifeReadsNot == ASSUME SurfaceInv, [Next]_vars PROVE pc'["life"] \notin {"pump", "dispatch"}
<1> USE DEF SurfaceInv, Types, Reader, At, To
<1>1. CASE ShowStep \/ KbdStep \/ LifeStep
  BY <1>1 DEF ShowStep, CreateSurface, Configured, Draws, Abandon, LosesRace, LeavesFor, GrabKeyboard, Install, KbdStep, KbdKey, KbdStop,
              LifeStep, LifeNews, LifeStop, Painters
<1>2. CASE DownStep \/ World \/ GuestStep \/ UNCHANGED vars
  BY <1>2 DEF DownStep, Cancel, CloseSources, Unmap, MarkDestroyed, DestroyObjects, DestroyBuffer, Reset, World, Straggle,
              Claim, Stop, HangUp, Send, GuestStep, vars, paintVars
<1>3. ASSUME NEW p \in Painters, PaintStep(p) PROVE pc'["life"] \notin {"pump", "dispatch"}
  <2>1. To(p, "commit") \/ To(p, "append") \/ To(p, "grab") \/ To(p, "pop") \/ To(p, "wait") \/ Ends(p)
    BY <1>3, KeepMoves, GivesUpEnds DEF PaintStep, AllocBuffer, CommitFrame
  <2> QED BY <2>1 DEF Ends, Painters
<1>4. ASSUME NEW p \in Painters, DispatchStep(p) PROVE p # "life" /\ pc'["life"] = pc["life"]
  <2>1. p # "life"
    BY <1>4 DEF DispatchStep, Pump, Wants, RefuseDispatch, BeginDispatch, DispatchEvent, CancelDispatch, FailDispatch
  <2> QED BY <1>4, <2>1, PainterMoves DEF Moves, Quits, Ends, Painters
<1> QED BY <1>1, <1>2, <1>3, <1>4 DEF Next

LEMMA GuestStays == ASSUME [Next]_vars PROVE UNCHANGED guestVars \/ GuestStep
  BY DEF Next, ShowStep, KbdStep, LifeStep, DownStep, World, DispatchStep, PaintStep, vars, guestVars

LEMMA GuestReader ==
  ASSUME SurfaceInv, GuestStep
  PROVE  /\ wlMu' = "guest" => uses' = "this" /\ guest' \in {"making", "owned", "leaving"}
         /\ wlMu' # wlMu => wlMu \in {"free", "guest"}
         /\ UNCHANGED <<pc, ctxDone>>
<1> USE DEF SurfaceInv, Reader, wlVars, guestVars
<1>1. CASE GuestReadsEvent
  BY <1>1 DEF GuestReadsEvent, GuestStep, paintVars, sessionVars
<1>2. CASE GuestShow
  BY <1>2 DEF GuestShow, GuestStep, Ensure, paintVars, sessionVars
<1>3. CASE GuestCreates \/ GuestGivesUp \/ GuestInstalls \/ GuestReads
  BY <1>3 DEF GuestCreates, GuestGivesUp, GuestInstalls, GuestReads, GuestGoes, GuestStep, paintVars, sessionVars
<1>4. CASE GuestReadFails \/ GuestLeaves \/ GuestCancelled \/ GuestTearsDown \/ GuestResets
  BY <1>4 DEF GuestReadFails, GuestLeaves, GuestCancelled, GuestTearsDown, GuestResets, GuestGoes, GuestStep,
              paintVars, sessionVars
<1> QED BY <1>1, <1>2, <1>3, <1>4 DEF GuestStep

LEMMA DispatchReader ==
  ASSUME SurfaceInv, NEW p \in Painters, DispatchStep(p), NEW q \in Painters, pc'[q] = "dispatch"
  PROVE  wlMu' = q
<1> USE DEF SurfaceInv, Types, Reader, At, To
<1>1. CASE q # p
  <2>1. pc'[q] = pc[q]
    BY <1>1, PainterMoves DEF Moves, Quits, Ends
  <2>2. wlMu = q
    BY <2>1
  <2>3. pc[p] # "dispatch" /\ wlMu # "free"
    BY <1>1, <2>2 DEF Painters
  <2> QED BY <2>2, <2>3 DEF DispatchStep, Pump, RefuseDispatch, BeginDispatch, DispatchEvent, CancelDispatch, FailDispatch, wlVars
<1>2. CASE q = p /\ ~BeginDispatch(p)
  <2>1. GivesUp(p) => pc'[p] = "done"
    BY GivesUpEnds DEF Ends
  <2> QED BY <1>2, <2>1 DEF DispatchStep, Pump, RefuseDispatch, DispatchEvent, CancelDispatch, FailDispatch, Leaves
<1>3. CASE q = p /\ BeginDispatch(p)
  BY <1>3 DEF BeginDispatch
<1> QED BY <1>1, <1>2, <1>3

\* Without a dispatch the session's own steps leave wlMu alone.
LEMMA WlMuStays ==
  ASSUME [Next]_vars, ~\E p \in Painters : DispatchStep(p), ~GuestStep
  PROVE  wlMu' = wlMu
  BY DEF Next, ShowStep, CreateSurface, Configured, GrabKeyboard, Install, KbdStep, KbdKey, KbdStop, LifeStep, LifeNews,
         LifeStop, DownStep, Cancel, CloseSources, Unmap, MarkDestroyed, DestroyObjects, DestroyBuffer, Reset, World,
         Straggle, Claim, Stop, HangUp, Send, PaintStep, AllocBuffer, CommitFrame, KeepBuffer, vars, wlVars

LEMMA ReaderKept == ASSUME SurfaceInv, [Next]_vars PROVE Reader'
<1> USE DEF SurfaceInv, Reader, At
<1>1. ASSUME NEW p \in Painters, DispatchStep(p) PROVE wlMu' # "guest" \/ (wlMu = "guest" /\ UNCHANGED guestVars)
  BY <1>1 DEF DispatchStep, Pump, RefuseDispatch, BeginDispatch, DispatchEvent, CancelDispatch, FailDispatch, wlVars, Painters
<1>2. wlMu' = "guest" => uses' = "this" /\ guest' \in {"making", "owned", "leaving"}
  BY <1>1, GuestReader, GuestStays, WlMuStays DEF guestVars
<1>3. ASSUME NEW q \in Painters, pc'[q] = "dispatch" PROVE wlMu' = q
  <2>1. CASE \E p \in Painters : DispatchStep(p)
    BY <1>3, <2>1, DispatchReader
  <2>2. CASE ~\E p \in Painters : DispatchStep(p)
    <3>1. wlMu = q
      BY <1>3, <2>2, ReadsAfter
    <3> QED BY <2>2, <3>1, GuestReader, WlMuStays DEF Painters
  <2> QED BY <2>1, <2>2
<1> QED BY <1>2, <1>3, LifeReadsNot

-----------------------------------------------------------------------------
(* Which connection can still be used. *)

LEMMA FallenGoes ==
  ASSUME NEW err, Fallen(err)
  PROVE  /\ UNCHANGED <<uses, shared>>
         /\ guest' \in {"none", "owned", "leaving"} /\ (guest \in {"leaving", "reset"} => guest' = "leaving")
<1>1. guest' = CASE guest = "making" -> "none" [] guest = "owned" /\ err = "eof" -> "owned" [] OTHER -> "leaving"
  BY Zenon DEF Fallen, GuestGoes
<1>2. guest = "making" => guest' = "none"
  BY <1>1, Zenon
<1>3. guest # "making" /\ guest = "owned" /\ err = "eof" => guest' = "owned"
  BY <1>1, Zenon
<1>4. guest # "making" /\ ~(guest = "owned" /\ err = "eof") => guest' = "leaving"
  BY <1>1, Zenon
<1> QED BY <1>2, <1>3, <1>4 DEF Fallen, GuestGoes

\* The steps of the session and of the compositor that touch the connections.
LEMMA OwnConnections ==
  ASSUME [Next]_vars, ~GuestStep, ~Reset
  PROVE  /\ held' = held
         /\ conn' # conn => conn' = "lost" \/ \E p \in Painters : CancelDispatch(p)
         /\ next' # next => next' = "lost"
<1> USE DEF wlVars
<1>1. ASSUME NEW p \in Painters, DispatchStep(p), ~CancelDispatch(p) PROVE UNCHANGED <<conn, held, next>>
  BY <1>1 DEF DispatchStep, Pump, RefuseDispatch, BeginDispatch, DispatchEvent, FailDispatch
<1>2. ASSUME NEW p \in Painters, CancelDispatch(p) PROVE UNCHANGED <<held, next>>
  BY <1>2 DEF CancelDispatch
<1>3. ASSUME NEW p \in Painters, PaintStep(p) PROVE UNCHANGED <<conn, held, next>>
  BY <1>3 DEF PaintStep, AllocBuffer, CommitFrame, KeepBuffer
<1>4. CASE ShowStep \/ KbdStep \/ LifeStep \/ DownStep \/ UNCHANGED vars
  BY <1>4 DEF ShowStep, CreateSurface, Configured, GrabKeyboard, Install, KbdStep, KbdKey, KbdStop, LifeStep, LifeNews,
              LifeStop, DownStep, Cancel, CloseSources, Unmap, MarkDestroyed, DestroyObjects, DestroyBuffer, vars
<1>5. CASE World
  BY <1>5 DEF World, Straggle, Claim, Stop, HangUp, Send
<1> QED BY <1>1, <1>2, <1>3, <1>4, <1>5 DEF Next

\* Those of the guest.
LEMMA GuestConnections ==
  ASSUME SurfaceInv, GuestStep
  PROVE  /\ held' = "this" => held = "this"
         /\ conn' = "closed" => conn = "closed" \/ held' = "none" \/ (GuestCancelled /\ uses = "this")
         /\ held' = "next" /\ next' = "closed" => held = "next" /\ (next = "closed" \/ (GuestCancelled /\ uses = "next"))
<1> USE DEF SurfaceInv, Types, Reader, wlVars
<1>1. CASE GuestShow
  BY <1>1 DEF GuestShow, Ensure
<1>2. CASE GuestCancelled
  BY <1>2 DEF GuestCancelled
<1>3. CASE GuestResets
  BY <1>3 DEF GuestResets, LazyClose
<1>4. CASE GuestCreates \/ GuestGivesUp \/ GuestInstalls \/ GuestReads \/ GuestReadFails \/ GuestLeaves \/ GuestTearsDown
           \/ GuestReadsEvent
  BY <1>4 DEF GuestCreates, GuestGivesUp, GuestInstalls, GuestReads, GuestReadFails, GuestLeaves, GuestTearsDown,
              GuestReadsEvent
<1> QED BY <1>1, <1>2, <1>3, <1>4 DEF GuestStep

LEMMA HeldThis == ASSUME SurfaceInv, [Next]_vars, held' = "this" PROVE held = "this"
  BY OwnConnections, GuestConnections DEF Reset, LazyClose

\* A guest that has to reset the connection it held does.
LEMMA GuestStillResets ==
  ASSUME SurfaceInv, GuestStep, guest \in {"leaving", "reset"},
         (uses = "this" /\ conn = "closed" /\ fatal \notin {"eof", "other"}) \/ (uses = "next" /\ next = "closed"),
         held' # "none"
  PROVE  guest' \in {"leaving", "reset"} /\ uses' = uses
<1> USE DEF SurfaceInv, Types, Reader
<1>1. CASE GuestTearsDown
  BY <1>1 DEF GuestTearsDown, GuestGoes
<1>2. CASE GuestReadFails \/ GuestReadsEvent
  BY <1>2, FallenGoes DEF GuestReadFails, GuestReadsEvent, guestVars
<1>3. CASE GuestCancelled
  BY <1>3 DEF GuestCancelled, guestVars
<1> QED BY <1>1, <1>2, <1>3
        DEF GuestStep, GuestShow, GuestCreates, GuestGivesUp, GuestInstalls, GuestReads, GuestLeaves, GuestResets, LazyClose

\* The teardown of a closed connection comes to know it.
LEMMA TeardownMeets ==
  ASSUME SurfaceInv, [Next]_vars, conn = "closed" \/ At("kbd", "dispatch"), fatal \notin {"eof", "other"}, ~stopping, how # "show",
         \/ down \in {"close", "unmap", "mark", "objects"}
         \/ down \in {"buffers", "reset"} /\ failure = "network"
  PROVE  \/ down' \in {"close", "unmap", "mark", "objects"} /\ how' # "show"
         \/ down' \in {"buffers", "reset"} /\ how' # "show" /\ failure' = "network"
         \/ down' = "done" /\ failure' = "network" /\ held' = "none"
<1> USE DEF SurfaceInv, Types
<1>1. wlMu = "free" => conn = "closed"
  BY DEF Reader, At, Painters
<1>2. CASE Cancel \/ CloseSources \/ Unmap \/ MarkDestroyed
  BY <1>2 DEF Cancel, CloseSources, Unmap, MarkDestroyed
<1>3. CASE DestroyObjects
  <2>1. ~Goes /\ (Stuck => failure' = "network")
    BY <1>1 DEF Goes, Stuck, Joins
  <2> QED BY <1>3, <2>1 DEF DestroyObjects, Fails, Expired, MayEnd
<1>4. CASE DestroyBuffer
  <2>1. ~Goes /\ (Stuck => failure' = "network")
    BY <1>1 DEF Goes, Stuck, Joins
  <2> QED BY <1>4, <2>1 DEF DestroyBuffer, Fails, Expired, MayEnd
<1>5. CASE Reset
  BY <1>5 DEF Reset, Resets, LazyClose
<1>6. CASE UNCHANGED <<down, how, taken, failure>>
  BY <1>6
<1> QED BY <1>2, <1>3, <1>4, <1>5, <1>6, DownSteps DEF Phase

\* Who finds that the compositor has hung up.
LEMMA EofComes ==
  ASSUME SurfaceInv, [Next]_vars, fatal' = "eof", fatal # "eof"
  PROVE  conn' = "lost" /\ wlMu' = "free"
<1> USE DEF SurfaceInv, Types, wlVars
<1>1. ASSUME NEW e, Handle(e) PROVE FALSE
  BY <1>1 DEF Handle, FirstFatal
<1>2. ASSUME NEW p \in Painters, DispatchStep(p) \/ PaintStep(p) PROVE conn' = "lost" /\ wlMu' = "free"
  <2>1. FailDispatch(p)
    BY <1>1, <1>2 DEF DispatchStep, Pump, RefuseDispatch, BeginDispatch, DispatchEvent, CancelDispatch, PaintStep, AllocBuffer,
                      CommitFrame, KeepBuffer
  <2> QED BY <2>1 DEF FailDispatch, ReadErrors, FirstFatal
<1>3. CASE ShowStep \/ KbdStep \/ LifeStep \/ DownStep \/ UNCHANGED vars
  BY <1>3 DEF ShowStep, CreateSurface, Configured, GrabKeyboard, Install, KbdStep, KbdKey, KbdStop, LifeStep, LifeNews,
              LifeStop, DownStep, Cancel, CloseSources, Unmap, MarkDestroyed, DestroyObjects, DestroyBuffer, Reset, vars
<1>4. CASE World
  BY <1>1, <1>4 DEF World, Straggle, FirstFatal, Claim, Stop, HangUp, Send
<1>5. CASE GuestStep
  <2>1. GuestReadFails
    BY <1>1, <1>5 DEF GuestStep, GuestShow, GuestCreates, GuestGivesUp, GuestInstalls, GuestReads, GuestLeaves, GuestCancelled,
                      GuestTearsDown, GuestResets, GuestReadsEvent
  <2> QED BY <2>1 DEF GuestReadFails, ReadErrors, FirstFatal
<1> QED BY <1>2, <1>3, <1>4, <1>5 DEF Next

LEMMA EofLostKept == ASSUME SurfaceInv, [Next]_vars PROVE EofLost'
<1> USE DEF SurfaceInv, EofLost
<1> SUFFICES ASSUME fatal = "eof" PROVE conn' = "lost" /\ wlMu' = "free"
  BY EofComes, Lasting
<1>1. CASE GuestStep
  BY <1>1 DEF GuestStep, GuestShow, GuestCreates, GuestGivesUp, GuestInstalls, GuestReads, GuestReadFails, GuestLeaves,
              GuestCancelled, GuestTearsDown, GuestResets, GuestReadsEvent, LazyClose, wlVars
<1>2. ASSUME NEW p \in Painters, DispatchStep(p) PROVE UNCHANGED <<conn, wlMu>>
  BY <1>2 DEF DispatchStep, Pump, RefuseDispatch, BeginDispatch, Enters, DispatchEvent, CancelDispatch, FailDispatch, Reader,
              Painters, At, wlVars
<1>3. CASE ~GuestStep /\ ~\E p \in Painters : DispatchStep(p)
  <2>1. wlMu' = wlMu
    BY <1>3, WlMuStays
  <2>2. CASE Reset
    BY <2>1, <2>2 DEF Reset, LazyClose
  <2>3. CASE ~Reset
    BY <1>3, <2>1, <2>3, OwnConnections DEF CancelDispatch, Reader, Painters, At
  <2> QED BY <2>2, <2>3
<1> QED BY <1>1, <1>2, <1>3

LEMMA ThisClosedKept == ASSUME SurfaceInv, [Next]_vars PROVE ThisClosed'
<1> USE DEF SurfaceInv
<1> SUFFICES ASSUME held' = "this", conn' = "closed", fatal' \notin {"eof", "other"}, ~stopping'
             PROVE  \/ guest' \in {"leaving", "reset"} /\ uses' = "this"
                    \/ down' \in {"close", "unmap", "mark", "objects"} /\ how' # "show"
                    \/ down' \in {"buffers", "reset"} /\ how' # "show" /\ failure' = "network"
  BY DEF ThisClosed
<1>1. held = "this" /\ fatal \notin {"eof", "other"} /\ ~stopping
  BY HeldThis, Lasting
<1>2. CASE conn = "closed"
  <2>1. CASE guest \in {"leaving", "reset"} /\ uses = "this"
    BY <1>1, <1>2, <2>1, GuestStays, GuestStillResets DEF guestVars
  <2>2. CASE ~(guest \in {"leaving", "reset"} /\ uses = "this")
    BY <1>1, <1>2, <2>2, TeardownMeets DEF ThisClosed
  <2> QED BY <2>1, <2>2
<1>3. ASSUME NEW p \in Painters, CancelDispatch(p), conn # "closed"
      PROVE  \/ down' \in {"close", "unmap", "mark", "objects"} /\ how' # "show"
             \/ down' \in {"buffers", "reset"} /\ how' # "show" /\ failure' = "network"
  <2>1. p = "kbd" /\ ctxDone /\ At("kbd", "dispatch")
    BY <1>1, <1>3 DEF CancelDispatch, Interrupts, Over, Reader, At, Painters
  <2>2. UNCHANGED <<down, how, failure>>
    BY <1>3, <2>1 DEF CancelDispatch, downVars
  <2>3. down \in Phases \ {"no", "cancel"} /\ how # "show"
    BY <2>1 DEF Types, Ordered, Owned, At
  <2> QED BY <1>1, <2>1, <2>2, <2>3 DEF StillReading, Phases
<1>4. CASE GuestStep /\ GuestCancelled /\ uses = "this"
  BY <1>1, <1>4 DEF GuestCancelled, guestVars
<1> QED BY <1>1, <1>2, <1>3, <1>4, OwnConnections, GuestConnections DEF Reset, LazyClose, Types

LEMMA NextClosedKept == ASSUME SurfaceInv, [Next]_vars PROVE NextClosed'
<1> USE DEF SurfaceInv
<1> SUFFICES ASSUME held' = "next", next' = "closed", ~stopping' PROVE guest' \in {"leaving", "reset"} /\ uses' = "next"
  BY DEF NextClosed
<1>1. ~stopping
  BY Lasting
<1>2. CASE GuestStep
  <2>1. CASE GuestCancelled /\ uses = "next"
    BY <1>1, <2>1 DEF GuestCancelled, guestVars
  <2>2. CASE held = "next" /\ next = "closed"
    BY <1>1, <1>2, <2>2, GuestStillResets DEF NextClosed
  <2> QED BY <1>2, <2>1, <2>2, GuestConnections
<1>3. CASE ~GuestStep
  <2>1. ~Reset \/ UNCHANGED <<held, next>>
    BY DEF Reset, LazyClose
  <2>2. held = "next" /\ next = "closed"
    BY <1>3, <2>1, OwnConnections
  <2> QED BY <1>1, <1>3, <2>2, GuestStays DEF NextClosed, guestVars
<1> QED BY <1>2, <1>3

LEMMA StillReadingKept == ASSUME SurfaceInv, [Next]_vars PROVE StillReading'
<1> USE DEF SurfaceInv, At
<1> SUFFICES ASSUME pc'["kbd"] = "dispatch", down' \in {"buffers", "reset", "done"}, fatal' \notin {"eof", "other"}, ~stopping'
             PROVE  failure' = "network" /\ (down' = "done" => held' # "this")
  BY DEF StillReading
<1>1. fatal \notin {"eof", "other"} /\ ~stopping
  BY Lasting
<1>2. down \notin {"no", "cancel"} /\ ctxDone
  <2>1. down \notin {"no", "cancel"}
    <3>1. ASSUME NEW p \in Painters, Moves(p) \/ Quits(p) \/ Ends(p) PROVE down' = down \/ down' \in {"cancel", "mark", "close"}
      BY <3>1 DEF Moves, Quits, Ends, downVars
    <3> QED BY <3>1, Steps DEF Begins, Claim, Phase, Cancel, CloseSources, Unmap, MarkDestroyed, DestroyObjects, DestroyBuffer,
                              Reset, downVars
  <2> QED BY <2>1 DEF Ordered
<1>3. pc["kbd"] = "dispatch"
  <2>1. "kbd" \in Painters
    BY DEF Painters
  <2>2. ASSUME NEW p \in Painters, DispatchStep(p) PROVE pc["kbd"] = "dispatch"
    <3>1. CASE p # "kbd"
      BY <2>1, <2>2, <3>1, PainterMoves DEF Types, Moves, Quits, Ends, To
    <3>2. CASE p = "kbd"
      <4>1. GivesUp("kbd") => pc'["kbd"] = "done"
        BY <2>1, GivesUpEnds DEF Types, Ends, To
      <4> QED BY <1>2, <2>1, <2>2, <3>2, <4>1
              DEF Types, DispatchStep, Pump, RefuseDispatch, BeginDispatch, Enters, Over, DispatchEvent, CancelDispatch,
                  FailDispatch, Leaves, To
    <3> QED BY <3>1, <3>2
  <2> QED BY <2>1, <2>2, ReadsAfter
<1>4. how # "show"
  BY <1>3 DEF Owned
<1>5. CASE down = "done"
  <2>1. UNCHANGED <<down, failure>>
    BY <1>5, DownSteps DEF Phase, Cancel, CloseSources, Unmap, MarkDestroyed, DestroyObjects, DestroyBuffer, Reset
  <2> QED BY <1>1, <1>3, <1>5, <2>1, HeldThis DEF StillReading
<1>6. CASE down # "done"
  <2>1. \/ down \in {"close", "unmap", "mark", "objects"}
        \/ down \in {"buffers", "reset"} /\ failure = "network"
    BY <1>1, <1>2, <1>3, <1>6 DEF Types, Phases, StillReading
  <2> QED BY <1>1, <1>3, <1>4, <2>1, TeardownMeets
<1> QED BY <1>5, <1>6

-----------------------------------------------------------------------------
(* The keyboard loop and its queue. *)

Subscribed == pc["show"] = "install" \/ pc["kbd"] # "off"

\* What may happen to the queue of the keyboard loop.
LEMMA KeysMove ==
  ASSUME SurfaceInv, [Next]_vars
  PROVE  \/ keys' = keys
         \/ Subscribed /\ (keys' = Append(keys, "key") \/ keys' = Append(keys, "destroy"))
         \/ pc["kbd"] = "pop" /\ keys # <<>> /\ keys' = Tail(keys)
         \/ held # "this" /\ pc'["show"] = "install" /\ keys' = <<"eof">>
         \/ Subscribed /\ (down = "reset" \/ guest = "reset") /\ keys' = Append(keys, "eof")
<1> USE DEF queueVars, At, Heard, Subscribed
<1>1. ASSUME NEW e, Handle(e)
      PROVE  keys' = keys \/ (Subscribed /\ (keys' = Append(keys, "key") \/ keys' = Append(keys, "destroy")))
  <2>1. CASE Heard /\ e.kind = "key"
    <3>1. keys' = Append(keys, "key")
      <4>1. e.kind # "closed"
        BY <2>1
      <4> QED BY <1>1, <2>1, <4>1, Zenon DEF Handle
    <3> QED BY <2>1, <3>1
  <2>2. CASE Heard /\ e.kind = "closed"
    <3>1. keys' = Append(keys, "destroy")
      <4>1. e.kind # "key"
        BY <2>2
      <4> QED BY <1>1, <2>2, <4>1, Zenon DEF Handle
    <3> QED BY <2>2, <3>1
  <2>3. CASE ~(Heard /\ e.kind = "key") /\ ~(Heard /\ e.kind = "closed")
    <3>1. keys' = keys
      BY <1>1, <2>3, Zenon DEF Handle
    <3> QED BY <3>1
  <2> QED BY <2>1, <2>2, <2>3
<1>2. ASSUME NEW p \in Painters, DispatchStep(p) \/ PaintStep(p)
      PROVE  keys' = keys \/ (Subscribed /\ (keys' = Append(keys, "key") \/ keys' = Append(keys, "destroy")))
  <2>1. CASE DispatchEvent(p)
    BY <1>1, <2>1 DEF DispatchEvent
  <2>2. CASE ~DispatchEvent(p)
    BY <1>2, <2>2 DEF DispatchStep, Pump, RefuseDispatch, BeginDispatch, CancelDispatch, FailDispatch, PaintStep,
                      AllocBuffer, CommitFrame, KeepBuffer
  <2> QED BY <2>1, <2>2
<1>3. CASE ShowStep \/ KbdStep \/ LifeStep
  BY <1>3 DEF ShowStep, CreateSurface, Configured, GrabKeyboard, Install, To, SurfaceInv, Types, Painters, KbdStep,
              KbdKey, KbdStop, LifeStep, LifeNews, LifeStop
<1>4. CASE DownStep
  BY <1>4 DEF DownStep, Cancel, CloseSources, Unmap, MarkDestroyed, DestroyObjects, DestroyBuffer, Reset, LazyClose
<1>5. CASE World
  BY <1>1, <1>5 DEF World, Straggle, Claim, Stop, HangUp, Send
<1>6. CASE GuestStep
  <2>1. CASE GuestReadsEvent
    BY <1>1, <2>1 DEF GuestReadsEvent
  <2>2. CASE ~GuestReadsEvent
    BY <1>6, <2>2 DEF GuestStep, GuestShow, GuestCreates, GuestGivesUp, GuestInstalls, GuestReads, GuestReadFails, GuestLeaves,
                      GuestCancelled, GuestTearsDown, GuestResets, LazyClose
  <2> QED BY <2>1, <2>2
<1>7. CASE UNCHANGED vars
  BY <1>7 DEF vars
<1> QED BY <1>2, <1>3, <1>4, <1>5, <1>6, <1>7 DEF Next

LEMMA SharedGrows ==
  ASSUME SurfaceInv, [Next]_vars, down' # "done"
  PROVE  /\ shared => shared'
         /\ guest' # "none" \/ held' # "this" => shared'
<1> USE DEF SurfaceInv, Reader
<1>1. down # "done"
  <2>1. CASE down = "done"
    BY <2>1, DownSteps DEF Phase, Cancel, CloseSources, Unmap, MarkDestroyed, DestroyObjects, DestroyBuffer, Reset
  <2> QED BY <2>1
<1>2. CASE GuestStep
  <2>1. CASE GuestShow
    <3>1. shared' = (shared \/ (uses' = "this" /\ down # "done"))
      BY <2>1 DEF GuestShow
    <3>2. (shared \/ uses' = "this") => shared'
      BY <1>1, <3>1, Zenon
    <3>3. shared \/ uses' = "this"
      BY <1>1, <2>1 DEF Shared, GuestShow, Ensure
    <3> QED BY <3>2, <3>3
  <2>2. CASE GuestStep /\ ~GuestShow
    <3>1. guest # "none" /\ shared' = shared
      BY <2>2, FallenGoes
         DEF GuestStep, GuestCreates, GuestGivesUp, GuestInstalls, GuestReads, GuestReadFails, GuestLeaves, GuestCancelled,
             GuestTearsDown, GuestResets, GuestReadsEvent, GuestGoes, guestVars
    <3> QED BY <1>1, <3>1 DEF Shared
  <2> QED BY <1>2, <2>1, <2>2
<1>3. CASE ~GuestStep
  BY <1>1, <1>3, GuestStays, OwnConnections DEF Shared, guestVars, Reset
<1> QED BY <1>2, <1>3

\* The keyboard loop of an owned session returns at io.EOF and io.ErrClosedPipe only.
LEMMA KbdReturns ==
  ASSUME SurfaceInv, [Next]_vars, owned, owned', pc'["kbd"] = "done", pc["kbd"] # "done"
  PROVE  Ended \/ conn = "lost"
<1> USE DEF SurfaceInv, Types, At, To
<1> SUFFICES ASSUME conn # "lost" PROVE Ended
  OBVIOUS
<1>1. down = "no" /\ ~ctxDone /\ ~shut /\ ~Alone
  BY DEF Owned, Ordered, EofLost, Alone
<1>2. ASSUME NEW p \in Painters, Busy(p), Moves(p) \/ Ends(p) \/ (p # "kbd" /\ Quits(p)) PROVE FALSE
  BY <1>2 DEF Busy, Moves, Ends, Quits, Painters, Owned, Showing
<1>3. ~\E p \in Painters : DispatchStep(p) \/ PaintStep(p)
  BY <1>1, <1>2, PainterMoves
<1>4. ~ShowStep /\ ~LifeStep
  <2>1. pc["show"] = "done"
    BY DEF Showing
  <2>2. UNCHANGED pc => FALSE
    OBVIOUS
  <2> QED BY <1>2, <2>1, <2>2, ShowMoves, LifeMoves DEF Busy, Painters
<1>5. CASE KbdStep
  <2>1. CASE KbdStop
    BY <1>1, <2>1 DEF KbdStop
  <2>2. CASE KbdKey
    <3>1. keys # <<>> /\ Head(keys) = "eof"
      BY <2>2, <1>2, LeavesEnds DEF KbdKey, Draws, Ends, Painters
    <3>2. Len(keys) \in Nat /\ Len(keys) # 0 /\ Head(keys) = keys[1]
      BY <3>1
    <3> QED BY <3>1, <3>2 DEF Ended
  <2> QED BY <1>5, <2>1, <2>2 DEF KbdStep
<1>6. CASE UNCHANGED pc
  BY <1>6
<1> QED BY <1>3, <1>4, <1>5, <1>6
        DEF Next, DownStep, Cancel, CloseSources, Unmap, MarkDestroyed, DestroyObjects, DestroyBuffer, Reset, World, Straggle,
            Claim, Stop, HangUp, Send, GuestStep, vars, paintVars

\* A session becomes the driver's by Install only, and its queue is empty until
\* GrabKeyboard.
LEMMA OwnedBefore ==
  ASSUME SurfaceInv, [Next]_vars, owned' \/ pc'["show"] = "install"
  PROVE  /\ owned \/ pc["show"] = "install" \/ (keys = <<>> /\ ~Subscribed)
         /\ owned' => owned \/ Install
<1> USE DEF SurfaceInv, Types, At
<1>1. owned' => owned \/ Install
  BY Steps DEF Moves, Quits, Ends, Claim, Phase, Cancel, CloseSources, Unmap, MarkDestroyed, DestroyObjects, DestroyBuffer,
               Reset, sessionVars
<1>2. pc'["show"] = "install" => pc["show"] # "done"
  <2>1. ASSUME NEW p \in Painters, Busy(p), Moves(p) \/ Quits(p) \/ Ends(p)
        PROVE  pc'["show"] = "install" => pc["show"] # "done"
    BY <2>1 DEF Busy, Moves, Quits, Ends, To, Painters
  <2> QED BY <2>1, Steps DEF Begins, Claim, Phase, Cancel, CloseSources, Unmap, MarkDestroyed, DestroyObjects, DestroyBuffer,
                             Reset, paintVars
<1> QED BY <1>1, <1>2 DEF Showing, Shared, Subscribed, Install

LEMMA EofAppears ==
  ASSUME SurfaceInv, [Next]_vars, owned' \/ pc'["show"] = "install", Ended'
  PROVE  shared \/ held # "this" \/ guest # "none"
<1> USE DEF SurfaceInv, Types
<1>1. PICK i \in 1..Len(keys') : keys'[i] = "eof"
  BY DEF Ended
<1>2. CASE owned \/ pc["show"] = "install"
  <2>1. down = "no" /\ (Ended => shared)
    BY <1>2 DEF Owned, Showing, Shared, At
  <2>2. ASSUME NEW x \in {"key", "destroy"}, keys' = Append(keys, x) PROVE Ended
    <3>1. i \in 1..Len(keys) /\ keys[i] = "eof"
      BY <1>1, <2>2
    <3> QED BY <3>1 DEF Ended
  <2>3. ASSUME keys # <<>>, keys' = Tail(keys) PROVE Ended
    <3>1. i + 1 \in 1..Len(keys) /\ keys[i + 1] = "eof"
      BY <1>1, <2>3
    <3> QED BY <3>1 DEF Ended
  <2>4. keys' = keys => Ended
    BY <1>1 DEF Ended
  <2> QED BY <2>1, <2>2, <2>3, <2>4, KeysMove
<1>3. CASE keys = <<>> /\ ~Subscribed
  <2>1. keys' # keys
    BY <1>1, <1>3
  <2> QED BY <1>3, <2>1, KeysMove
<1> QED BY <1>2, <1>3, OwnedBefore

\* Of a lost connection only a guest makes one that the daemon closed.
LEMMA LostStays == ASSUME SurfaceInv, [Next]_vars, owned, conn = "lost" PROVE shared \/ conn' = "lost"
<1> USE DEF SurfaceInv, At
<1>1. down = "no" /\ ~ctxDone /\ pc["show"] = "done"
  BY DEF Owned, Ordered, Showing
<1>2. CASE GuestStep
  <2>1. guest = "none" => GuestShow
    BY <1>2 DEF GuestStep, GuestCreates, GuestGivesUp, GuestInstalls, GuestReads, GuestReadFails, GuestLeaves, GuestCancelled,
                GuestTearsDown, GuestResets, GuestReadsEvent, Reader
  <2> QED BY <1>1, <2>1 DEF Shared, GuestShow
<1>3. CASE ~GuestStep
  <2>1. ~Reset /\ ~\E p \in Painters : CancelDispatch(p)
    BY <1>1 DEF Reset, CancelDispatch, Interrupts, Over, Reader, Painters
  <2> QED BY <1>3, <2>1, OwnConnections
<1> QED BY <1>2, <1>3

\* From its place before Install the show goes to its end only.
LEMMA InstallNext ==
  ASSUME SurfaceInv, [Next]_vars, pc["show"] = "install"
  PROVE  pc'["show"] \in {"install", "done"}
<1> USE DEF SurfaceInv, Types, At, To
<1>1. CASE ShowStep
  BY <1>1 DEF ShowStep, CreateSurface, Configured, GrabKeyboard, Install, LosesRace, Painters
<1>2. ~KbdStep /\ ~LifeStep
  BY KbdMoves, LifeMoves DEF Busy, Showing
<1>3. CASE DownStep \/ World \/ GuestStep \/ UNCHANGED vars
  BY <1>3 DEF DownStep, Cancel, CloseSources, Unmap, MarkDestroyed, DestroyObjects, DestroyBuffer, Reset, World, Straggle,
              Claim, Stop, HangUp, Send, GuestStep, vars, paintVars
<1>4. ~\E p \in Painters : DispatchStep(p) \/ PaintStep(p)
  <2>1. ~DispatchStep("show") /\ ~PaintStep("show")
    BY DEF DispatchStep, Pump, Wants, RefuseDispatch, BeginDispatch, DispatchEvent, CancelDispatch, FailDispatch, PaintStep,
           AllocBuffer, CommitFrame, KeepBuffer
  <2> QED BY <2>1, PainterMoves DEF Busy, Showing, Painters
<1> QED BY <1>1, <1>2, <1>3, <1>4 DEF Next

LEMMA SharedKept == ASSUME SurfaceInv, [Next]_vars PROVE Shared'
<1> USE DEF SurfaceInv, At
<1>1. owned' \/ pc'["show"] = "install" => down' # "done" /\ down # "done"
  <2>1. owned' \/ pc'["show"] = "install" => down' = "no"
    BY OwnedKept, ShowingKept DEF Owned, Showing
  <2> QED BY <2>1, DownSteps
          DEF Phase, Cancel, CloseSources, Unmap, MarkDestroyed, DestroyObjects, DestroyBuffer, Reset
<1>2. owned' /\ pc'["kbd"] = "done" => shared' \/ conn' = "lost"
  <2>1. SUFFICES ASSUME owned', pc'["kbd"] = "done" PROVE shared' \/ conn' = "lost"
    OBVIOUS
  <2>2. owned
    <3>1. ~Install
      <4>1. Install => owned' = owned \/ pc'["kbd"] = "pop"
        BY DEF Install, LosesRace
      <4>2. Install => ~owned
        BY DEF Install, Showing
      <4> QED BY <2>1, <4>1, <4>2
    <3> QED BY <2>1, <3>1, OwnedBefore
  <2>3. shared \/ conn = "lost" \/ Ended
    BY <2>1, <2>2, KbdReturns DEF Shared
  <2>4. shared \/ conn = "lost"
    BY <2>2, <2>3 DEF Shared
  <2> QED BY <1>1, <2>1, <2>2, <2>4, LostStays, SharedGrows
<1>3. (owned' \/ pc'["show"] = "install") /\ Ended' => shared'
  BY <1>1, EofAppears, SharedGrows DEF Shared
<1>4. pc'["kbd"] = "off" /\ pc'["show"] \notin {"install", "done"} => keys' = <<>>
  <2>1. SUFFICES ASSUME pc'["kbd"] = "off", pc'["show"] \notin {"install", "done"} PROVE keys' = <<>>
    OBVIOUS
  <2>2. pc["kbd"] = "off" /\ pc["show"] \notin {"install", "done"}
    <3>1. ASSUME NEW p \in Painters, Busy(p), Moves(p) \/ Quits(p) \/ Ends(p)
          PROVE  pc["kbd"] = "off" /\ pc["show"] # "done"
      BY <2>1, <3>1 DEF Types, Busy, Moves, Quits, Ends, To, Painters
    <3>2. ~Begins
      BY <2>1 DEF Begins
    <3>3. pc["show"] # "install"
      BY <2>1, InstallNext
    <3> QED BY <2>1, <3>1, <3>2, <3>3, Steps DEF Claim, Phase, Cancel, CloseSources, Unmap, MarkDestroyed, DestroyObjects,
                                                DestroyBuffer, Reset, paintVars
  <2> QED BY <2>1, <2>2, KeysMove DEF Shared, Subscribed
<1> QED BY <1>2, <1>3, <1>4, SharedGrows DEF Shared

-----------------------------------------------------------------------------
(* The buffers. *)

\* Who makes a buffer and has not put it on the list yet does so next, or lets
\* it go.
LEMMA PaintersStay ==
  ASSUME SurfaceInv, [Next]_vars, NEW p \in Painters, pc[p] \in {"commit", "append"}, ~PaintStep(p)
  PROVE  pc'[p] = pc[p]
<1> USE DEF SurfaceInv, Types, At, To
<1>1. ASSUME NEW q \in Painters \ {p}, Moves(q) \/ Quits(q) \/ Ends(q) PROVE pc'[p] = pc[p]
  BY <1>1 DEF Moves, Quits, Ends
<1>2. ~DispatchStep(p)
  BY DEF DispatchStep, Pump, Wants, RefuseDispatch, BeginDispatch, DispatchEvent, CancelDispatch, FailDispatch
<1>3. CASE ShowStep
  <2>1. p # "show"
    BY <1>3 DEF ShowStep, CreateSurface, Configured, GrabKeyboard, Install
  <2>2. ~Begins
    BY <2>1 DEF Begins, Showing, Painters
  <2> QED BY <1>1, <1>3, <2>1, <2>2, ShowMoves DEF Painters
<1>4. CASE KbdStep
  <2>1. p # "kbd"
    BY <1>4 DEF KbdStep, KbdKey, KbdStop
  <2> QED BY <1>1, <1>4, <2>1, KbdMoves DEF Painters
<1>5. CASE LifeStep
  <2>1. p # "life"
    BY <1>5 DEF LifeStep, LifeNews, LifeStop
  <2> QED BY <1>1, <1>5, <2>1, LifeMoves DEF Painters
<1>6. CASE UNCHANGED pc
  BY <1>6
<1> QED BY <1>1, <1>2, <1>3, <1>4, <1>5, <1>6, PainterMoves
        DEF Next, DownStep, Cancel, CloseSources, Unmap, MarkDestroyed, DestroyObjects, DestroyBuffer, Reset, World, Straggle,
            Claim, Stop, HangUp, Send, GuestStep, vars, paintVars

LEMMA BuffersStay ==
  ASSUME [Next]_vars, ~\E p \in Painters : PaintStep(p), ~MarkDestroyed, ~DestroyBuffer
  PROVE  UNCHANGED <<buffers, mapped, made, mine>>
<1> USE DEF bufferVars, paintVars
<1>1. ASSUME NEW p \in Painters, DispatchStep(p) PROVE UNCHANGED <<buffers, mapped, made, mine>>
  BY <1>1 DEF DispatchStep, Pump, RefuseDispatch, BeginDispatch, DispatchEvent, CancelDispatch, FailDispatch
<1>2. CASE ShowStep \/ KbdStep \/ LifeStep \/ DownStep \/ UNCHANGED vars
  BY <1>2 DEF ShowStep, CreateSurface, Configured, GrabKeyboard, Install, KbdStep, KbdKey, KbdStop, LifeStep, LifeNews,
              LifeStop, DownStep, Cancel, CloseSources, Unmap, DestroyObjects, Reset, vars
<1>3. CASE World \/ GuestStep
  BY <1>3 DEF World, Straggle, Claim, Stop, HangUp, Send, GuestStep
<1> QED BY <1>1, <1>2, <1>3 DEF Next

OnTheWay == {mine[p] : p \in {q \in Painters : pc[q] \in {"commit", "append"}}}

LEMMA PaintKept ==
  ASSUME SurfaceInv, [Next]_vars, NEW p \in Painters, PaintStep(p)
  PROVE  /\ mapped' \subseteq buffers' \cup taken' \cup OnTheWay'
         /\ down' \in {"objects", "buffers", "reset", "done"} => buffers' \subseteq {mine'["kbd"], mine'["life"]}
         /\ taken' = taken /\ (down' # down => down = "no" /\ down' \in {"cancel", "mark", "close"})
<1> USE DEF SurfaceInv, Types, At, To, bufferVars, surfaceVars
<1>1. taken' = taken /\ (down' # down => down = "no" /\ down' \in {"cancel", "mark", "close"})
  BY PainterMoves DEF Busy, Moves, Quits, Ends, downVars, Owned, Showing
<1>2. \A q \in Painters \ {p} : pc'[q] = pc[q]
  BY PainterMoves DEF Moves, Quits, Ends
<1>3. mapped \subseteq buffers \cup taken \cup OnTheWay
  BY DEF Kept, OnTheWay
<1>4. CASE AllocBuffer(p)
  <2>1. pc[p] = "alloc" /\ buffers' = buffers /\ \A q \in Painters \ {p} : mine'[q] = mine[q]
    BY <1>4 DEF AllocBuffer
  <2>2. OnTheWay \subseteq OnTheWay'
    BY <1>2, <2>1 DEF OnTheWay
  <2>3. CASE mapped' = mapped /\ mine' = mine
    BY <1>1, <1>3, <2>1, <2>2, <2>3 DEF Kept
  <2>4. CASE Sends(p) /\ mapped' = mapped \cup {mine'[p]} /\ pc'[p] = "commit" /\ UNCHANGED down
    <3>1. down \notin {"objects", "buffers", "reset", "done"}
      BY <2>1, <2>4 DEF Sends, Enters, Over, Showing, Ordered, Painters
    <3> QED BY <1>1, <1>3, <2>1, <2>2, <2>4, <3>1 DEF OnTheWay
  <2> QED BY <1>4, <2>3, <2>4 DEF AllocBuffer, downVars
<1>5. CASE CommitFrame(p)
  <2>1. pc[p] = "commit" /\ UNCHANGED <<buffers, mine>>
        /\ ((mapped' = mapped /\ pc'[p] = "append") \/ mapped' = mapped \ {mine[p]})
    BY <1>5 DEF CommitFrame
  <2>2. OnTheWay \ {mine[p]} \subseteq OnTheWay' /\ (pc'[p] = "append" => mine[p] \in OnTheWay')
    BY <1>2, <2>1 DEF OnTheWay
  <2> QED BY <1>1, <1>3, <2>1, <2>2 DEF Kept
<1>6. CASE KeepBuffer(p)
  <2>1. buffers' = buffers \cup {mine[p]} /\ UNCHANGED <<mapped, mine, down>> /\ pc[p] = "append"
    BY <1>6 DEF KeepBuffer, downVars
  <2>2. OnTheWay \ {mine[p]} \subseteq OnTheWay'
    BY <1>2, <2>1 DEF OnTheWay
  <2>3. down # "no" => p # "show"
    BY <2>1 DEF Showing
  <2> QED BY <1>1, <1>3, <2>1, <2>2, <2>3 DEF Kept, Painters
<1> QED BY <1>1, <1>4, <1>5, <1>6 DEF PaintStep

LEMMA KeptKept == ASSUME SurfaceInv, [Next]_vars PROVE Kept'
<1> USE DEF SurfaceInv
<1>1. CASE \E p \in Painters : PaintStep(p)
  BY <1>1, PaintKept DEF Kept, OnTheWay
<1>2. CASE ~\E p \in Painters : PaintStep(p)
  <2>1. ASSUME UNCHANGED mine PROVE OnTheWay \subseteq OnTheWay'
    BY <1>2, <2>1, PaintersStay DEF OnTheWay
  <2>2. CASE MarkDestroyed
    BY <2>1, <2>2 DEF MarkDestroyed, Kept, OnTheWay, paintVars
  <2>3. CASE DestroyBuffer
    BY <2>1, <2>3 DEF DestroyBuffer, Frees, Kept, OnTheWay, paintVars
  <2>4. CASE ~MarkDestroyed /\ ~DestroyBuffer
    <3>1. UNCHANGED <<buffers, mapped, mine>>
      BY <1>2, <2>4, BuffersStay
    <3>2. taken' = taken
      BY <2>4, Steps DEF Moves, Quits, Ends, Begins, Claim, Phase, Cancel, CloseSources, Unmap, DestroyObjects, Reset, downVars
    <3>3. /\ down' \in {"objects", "buffers", "reset", "done"} => down \in {"objects", "buffers", "reset", "done"}
          /\ down' \notin {"objects", "buffers"} => down \notin {"objects", "buffers"}
      BY <2>4, Steps DEF Moves, Quits, Ends, Begins, Claim, Phase, Cancel, CloseSources, Unmap, DestroyObjects, Reset, downVars,
                         Busy, Showing, Owned, At
    <3> QED BY <2>1, <3>1, <3>2, <3>3 DEF Kept, OnTheWay
  <2> QED BY <2>2, <2>3, <2>4
<1> QED BY <1>1, <1>2

-----------------------------------------------------------------------------
(* The other types, and the invariant. *)

Errors == {"no", "network", "eof", "other"}
Stages == {"none", "create", "making", "owned", "leaving", "reset"}

LEMMA GuestTypes ==
  ASSUME SurfaceInv, GuestStep
  PROVE  /\ conn' \in {"open", "closed", "lost"} /\ held' \in {"this", "next", "none"}
         /\ next' \in {"none", "open", "closed", "lost"} /\ fatal' \in Errors
         /\ wlMu' \in Painters \cup {"guest", "free"} /\ guest' \in Stages /\ uses' \in {"this", "next"}
<1> USE DEF SurfaceInv, Types, wlVars, guestVars, Stages, Errors
<1>1. CASE GuestShow
  BY <1>1 DEF GuestShow, Ensure
<1>2. CASE GuestCreates \/ GuestGivesUp \/ GuestInstalls \/ GuestReads \/ GuestLeaves \/ GuestTearsDown
  BY <1>2 DEF GuestCreates, GuestGivesUp, GuestInstalls, GuestReads, GuestLeaves, GuestTearsDown, GuestGoes
<1>3. CASE GuestReadFails
  BY <1>3, FallenGoes DEF GuestReadFails, ReadErrors, FirstFatal
<1>4. CASE GuestReadsEvent
  BY <1>4, FallenGoes DEF GuestReadsEvent, Handle, FirstFatal
<1>5. CASE GuestCancelled \/ GuestResets
  BY <1>5 DEF GuestCancelled, GuestResets, GuestGoes, LazyClose
<1> QED BY <1>1, <1>2, <1>3, <1>4, <1>5 DEF GuestStep

LEMMA FatalTypes == ASSUME SurfaceInv, [Next]_vars PROVE fatal' \in Errors
<1> USE DEF SurfaceInv, Types, Errors, wlVars
<1>1. ASSUME NEW p \in Painters, DispatchStep(p) \/ PaintStep(p) PROVE fatal' \in Errors
  BY <1>1 DEF DispatchStep, Pump, RefuseDispatch, BeginDispatch, DispatchEvent, Handle, CancelDispatch, FailDispatch, ReadErrors, FirstFatal,
              PaintStep, AllocBuffer, CommitFrame, KeepBuffer
<1>2. CASE ShowStep \/ KbdStep \/ LifeStep \/ DownStep \/ UNCHANGED vars
  BY <1>2 DEF ShowStep, CreateSurface, Configured, GrabKeyboard, Install, KbdStep, KbdKey, KbdStop, LifeStep, LifeNews,
              LifeStop, DownStep, Cancel, CloseSources, Unmap, MarkDestroyed, DestroyObjects, DestroyBuffer, Reset, vars
<1>3. CASE World
  BY <1>3 DEF World, Straggle, Handle, FirstFatal, Claim, Stop, HangUp, Send
<1> QED BY <1>1, <1>2, <1>3, GuestTypes DEF Next

LEMMA SessionTypes ==
  ASSUME SurfaceInv, [Next]_vars
  PROVE  /\ proxy' \in {"none", "live", "destroyed"} /\ made' \in Nat /\ mine' \in [Painters -> Nat]
         /\ keys' \in Seq({"key", "destroy", "eof"}) /\ failure' \in {"none", "network", "other"}
<1> USE DEF SurfaceInv, Types
<1>1. proxy' \in {"none", "live", "destroyed"}
  BY ProxyStays DEF CreateSurface, DestroyObjects
<1>2. made' \in Nat /\ mine' \in [Painters -> Nat]
  <2>1. ASSUME NEW p \in Painters, PaintStep(p) PROVE made' \in Nat /\ mine' \in [Painters -> Nat]
    BY <2>1 DEF PaintStep, AllocBuffer, CommitFrame, KeepBuffer, bufferVars
  <2>2. MarkDestroyed \/ DestroyBuffer => UNCHANGED <<made, mine>>
    BY DEF MarkDestroyed, DestroyBuffer, paintVars
  <2> QED BY <2>1, <2>2, BuffersStay
<1>3. keys' \in Seq({"key", "destroy", "eof"})
  <2>1. ASSUME NEW x \in {"key", "destroy", "eof"} PROVE Append(keys, x) \in Seq({"key", "destroy", "eof"})
    OBVIOUS
  <2>2. keys # <<>> => Tail(keys) \in Seq({"key", "destroy", "eof"})
    OBVIOUS
  <2>3. <<"eof">> \in Seq({"key", "destroy", "eof"})
    OBVIOUS
  <2> QED BY <2>1, <2>2, <2>3, KeysMove
<1>4. failure' \in {"none", "network", "other"}
  <2>1. ASSUME Stuck PROVE failure' \in {"none", "network", "other"}
    BY <2>1 DEF Stuck, Joins
  <2>2. ASSUME Expired PROVE failure' \in {"none", "network", "other"}
    BY <2>2 DEF Expired, Joins
  <2> QED BY <2>1, <2>2, Steps DEF Moves, Quits, Ends, Begins, Claim, Phase, Cancel, CloseSources, Unmap, MarkDestroyed,
                                   DestroyObjects, DestroyBuffer, Reset, Fails, downVars
<1> QED BY <1>1, <1>2, <1>3, <1>4

LEMMA TypesKept == ASSUME SurfaceInv, [Next]_vars PROVE Types'
<1> USE DEF SurfaceInv, Stages, Errors
<1>1. conn' \in {"open", "closed", "lost"} /\ held' \in {"this", "next", "none"} /\ next' \in {"none", "open", "closed", "lost"}
  BY OwnConnections, GuestTypes DEF Types, Reset, LazyClose, CancelDispatch
<1>2. wlMu' \in Painters \cup {"guest", "free"}
  <2>1. ASSUME NEW p \in Painters, DispatchStep(p) PROVE wlMu' \in Painters \cup {"guest", "free"}
    BY <2>1 DEF Types, DispatchStep, Pump, RefuseDispatch, BeginDispatch, DispatchEvent, CancelDispatch, FailDispatch, wlVars
  <2> QED BY <2>1, GuestTypes, WlMuStays DEF Types
<1>3. guest' \in Stages /\ uses' \in {"this", "next"}
  BY GuestTypes, GuestStays DEF Types, guestVars
<1> QED BY <1>1, <1>2, <1>3, ThreadTypes, FatalTypes, SessionTypes DEF Types

LEMMA StartsRight == Init => SurfaceInv
<1> SUFFICES ASSUME Init PROVE SurfaceInv
  OBVIOUS
<1> USE DEF Init, Ensured, At
<1>1. pc \in [Painters -> Places] /\ pc["show"] = "create" /\ pc["kbd"] = "off" /\ pc["life"] = "off"
  BY DEF Painters, Places
<1>2. Types
  BY <1>1 DEF Types, Phases
<1>3. Showing /\ Owned /\ Ordered /\ Drawing /\ Alive /\ Gone
  BY <1>1 DEF Showing, Owned, Ordered, Drawing, Alive, Gone
<1>4. Reader /\ EofLost /\ ThisClosed /\ NextClosed /\ StillReading /\ Shared /\ Kept
  BY <1>1 DEF Reader, EofLost, ThisClosed, NextClosed, StillReading, Shared, Ended, Kept, Painters
<1> QED BY <1>2, <1>3, <1>4 DEF SurfaceInv

\* A session on its connection, whatever the compositor sends and whatever another
\* session does to the connection: who may read and draw in each phase of the
\* session, who resets a connection that was closed, and where the buffers are.
THEOREM SurfaceInvariant == Spec => []SurfaceInv
<1>1. Init => SurfaceInv
  BY StartsRight
<1>2. SurfaceInv /\ [Next]_vars => SurfaceInv'
  BY TypesKept, ShowingKept, OwnedKept, OrderedKept, DrawingKept, AliveKept, GoneKept, ReaderKept, EofLostKept,
     ThisClosedKept, NextClosedKept, StillReadingKept, SharedKept, KeptKept DEF SurfaceInv
<1> QED BY <1>1, <1>2, PTL DEF Spec

\* When destroyOverlaySession is over the wl_surface is destroyed, unless the
\* connection or the backend refused its requests, or their context, a handler's,
\* ended with the daemon's.
THEOREM GoneWhenDownAlways == Spec => []GoneWhenDown
<1>1. SurfaceInv => GoneWhenDown
  BY DEF SurfaceInv, Gone, GoneWhenDown
<1> QED BY <1>1, SurfaceInvariant, PTL

\* When the teardowns are over the lazy backend holds no connection that was
\* closed, however the reads of two sessions and their resets interleave.
THEOREM ReusableAlways == Spec => []Reusable
<1>1. SurfaceInv => Reusable
  BY DEF SurfaceInv, ThisClosed, NextClosed, Reusable
<1> QED BY <1>1, SurfaceInvariant, PTL

\* The keyboard loop of the driver's session runs, unless another session has
\* used the same connection or the compositor has hung up.
THEOREM KeyboardAliveAlways == Spec => []KeyboardAlive
<1>1. SurfaceInv => KeyboardAlive
  BY DEF SurfaceInv, Shared, KeyboardAlive, At
<1> QED BY <1>1, SurfaceInvariant, PTL

\* When everything of a session is over, no buffer is in the memory but the last
\* ones of the two loops, however many frames were drawn.
THEOREM BuffersFreedAlways == Spec => []BuffersFreed
<1>1. ASSUME SurfaceInv, down = "done", \A p \in Painters : pc[p] \in {"off", "done"}
      PROVE  mapped \subseteq {mine["kbd"], mine["life"]}
  <2>1. taken = {} /\ buffers \subseteq {mine["kbd"], mine["life"]}
    BY <1>1 DEF SurfaceInv, Kept
  <2>2. {mine[p] : p \in {q \in Painters : pc[q] \in {"commit", "append"}}} = {}
    BY <1>1
  <2> QED BY <1>1, <2>1, <2>2 DEF SurfaceInv, Kept
<1>2. SurfaceInv => BuffersFreed
  BY <1>1 DEF BuffersFreed
<1> QED BY <1>2, SurfaceInvariant, PTL

\* A frame is committed by the first configure at the earliest and on a wl_surface
\* that was not destroyed, whoever draws it.
THEOREM FramesInLifeAlways == Spec => FramesInLife
<1>1. ASSUME SurfaceInv, NEW p \in Painters, At(p, "commit"), Sends(p) PROVE configured /\ proxy = "live"
  <2>1. CASE p = "show"
    BY <1>1, <2>1 DEF SurfaceInv, Drawing, Alive, At
  <2>2. CASE p # "show"
    <3>1. (owned \/ down = "cancel") /\ configured
      BY <1>1, <2>2 DEF SurfaceInv, Types, Owned, Ordered, Drawing, Sends, Enters, Over, At, Painters
    <3> QED BY <1>1, <3>1 DEF SurfaceInv, Alive
  <2> QED BY <2>1, <2>2
<1>2. SurfaceInv /\ [Next]_vars => [frame' # frame /\ frame' # Blank => configured /\ proxy = "live"]_vars
  <2>1. ASSUME NEW e, Handle(e) PROVE frame' = frame
    BY <2>1 DEF Handle
  <2>2. ASSUME SurfaceInv, NEW p \in Painters, CommitFrame(p), frame' # frame PROVE configured /\ proxy = "live"
    BY <1>1, <2>2 DEF CommitFrame
  <2>3. ASSUME NEW p \in Painters, DispatchStep(p) \/ PaintStep(p), ~CommitFrame(p) PROVE frame' = frame
    BY <2>1, <2>3 DEF DispatchStep, Pump, RefuseDispatch, BeginDispatch, DispatchEvent, CancelDispatch, FailDispatch, PaintStep,
                      AllocBuffer, KeepBuffer, surfaceVars
  <2>4. CASE ShowStep \/ KbdStep \/ LifeStep \/ DownStep
    BY <2>4 DEF ShowStep, CreateSurface, Configured, GrabKeyboard, Install, KbdStep, KbdKey, KbdStop, LifeStep, LifeNews,
                LifeStop, DownStep, Cancel, CloseSources, Unmap, MarkDestroyed, DestroyObjects, DestroyBuffer, Reset, surfaceVars
  <2>5. CASE World \/ GuestStep \/ UNCHANGED vars
    BY <2>1, <2>5 DEF World, Straggle, Claim, Stop, HangUp, Send, GuestStep, GuestReadsEvent, vars, surfaceVars
  <2> QED BY <2>2, <2>3, <2>4, <2>5 DEF Next
<1> QED BY <1>2, SurfaceInvariant, PTL DEF Spec, FramesInLife

=============================================================================
