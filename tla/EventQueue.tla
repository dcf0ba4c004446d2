----------------------------- MODULE EventQueue -----------------------------
(***************************************************************************)
(* overlayEventQueue (overlay.go): the queue between the Wayland handlers,  *)
(* which push under the lock, and the one loop that pops.  An empty pop      *)
(* takes a copy of q.wait under the lock and, after the unlock, waits for    *)
(* that channel or the context; every change closes the channel and replaces *)
(* it.  The keyboard's pop pumps the connection instead of waiting.          *)
(***************************************************************************)
EXTENDS Integers, Sequences

CONSTANTS Event,     \* the events that may be pushed
          MaxPush    \* events pushed; unbounded in the code

ASSUME QueueAssumption == MaxPush \in Nat

VARIABLES
  pumped,   \* pop is given a pump: by NextKeyboardEvent, not by NextOverlayEvent
  events,   \* q.events
  closed,   \* q.closed
  err,      \* q.err # nil
  ctxDone,  \* the reader's context is cancelled
  pc,       \* the reader: "out" of pop, at the check of its "ctx", at the "lock",
            \* in the "pump", in the "select", or "done" after an error
  channel,  \* the copy of q.wait the reader holds: "none", "open" or "closed"
  got,      \* the events pop returned
  result,   \* the error pop returned: "none", "ctx", "pump", "err", "closed"
  pushed    \* history: the events push accepted

queueVars == <<events, closed, err, pushed>>
readerVars == <<pc, channel, got, result>>
vars == <<pumped, queueVars, ctxDone, readerVars>>

TypeOK ==
  /\ pumped \in BOOLEAN /\ events \in Seq(Event) /\ pushed \in Seq(Event) /\ got \in Seq(Event)
  /\ closed \in BOOLEAN /\ err \in BOOLEAN /\ ctxDone \in BOOLEAN
  /\ pc \in {"out", "ctx", "lock", "pump", "select", "done"}
  /\ channel \in {"none", "open", "closed"}
  /\ result \in {"none", "ctx", "pump", "err", "closed"}

Init ==
  /\ pumped \in BOOLEAN /\ events = <<>> /\ pushed = <<>> /\ got = <<>>
  /\ closed = FALSE /\ err = FALSE /\ ctxDone = FALSE
  /\ pc = "out" /\ channel = "none" /\ result = "none"

-----------------------------------------------------------------------------
(* The writers: each is one lock region. *)

\* Faulty variant: the new channel is made without closing the old one.
WakeForgotten == UNCHANGED channel

\* wakeLocked: whoever holds the channel finds it closed.
WakeLocked == channel' = IF channel = "open" THEN "closed" ELSE channel

Accepts == ~closed /\ ~err

Push(e) ==
  /\ Accepts /\ Len(pushed) < MaxPush
  /\ events' = Append(events, e)
  /\ pushed' = Append(pushed, e)
  /\ WakeLocked
  /\ UNCHANGED <<closed, err, ctxDone, pc, got, result>>

Fatal ==
  /\ err' = TRUE
  /\ WakeLocked
  /\ UNCHANGED <<events, closed, pushed, ctxDone, pc, got, result>>

Close ==
  /\ closed' = TRUE
  /\ WakeLocked
  /\ UNCHANGED <<events, err, pushed, ctxDone, pc, got, result>>

-----------------------------------------------------------------------------
(* The reader. *)

Return(why) == pc' = "done" /\ result' = why /\ channel' = "none"

\* The loop calls pop again after every event.
Call ==
  /\ pc = "out" /\ pc' = "ctx"
  /\ UNCHANGED <<queueVars, ctxDone, channel, got, result>>

CheckContext ==
  /\ pc = "ctx"
  /\ \/ ctxDone /\ Return("ctx")
     \/ ~ctxDone /\ pc' = "lock" /\ UNCHANGED <<channel, result>>
  /\ UNCHANGED <<queueVars, ctxDone, got>>

\* Faulty variants: the newest event is taken; an error goes before the events.
TakeNewest ==
  /\ pc = "lock" /\ events # <<>>
  /\ got' = Append(got, events[Len(events)])
  /\ events' = SubSeq(events, 1, Len(events) - 1)
  /\ pc' = "out"
  /\ UNCHANGED <<closed, err, pushed, ctxDone, channel, result>>
NothingLeftOrErr == events = <<>> \/ err

Take ==
  /\ pc = "lock" /\ events # <<>>
  /\ got' = Append(got, Head(events))
  /\ events' = Tail(events)
  /\ pc' = "out"
  /\ UNCHANGED <<closed, err, pushed, ctxDone, channel, result>>

NothingLeft == events = <<>>

TakeEnd ==
  /\ pc = "lock" /\ NothingLeft
  /\ \/ err /\ Return("err")
     \/ ~err /\ closed /\ Return("closed")
  /\ UNCHANGED <<queueVars, ctxDone, got>>

\* Nothing to read: the channel is copied before the unlock.
TakeNothing ==
  /\ pc = "lock" /\ NothingLeft /\ ~err /\ ~closed
  /\ channel' = "open"
  /\ pc' = IF pumped THEN "pump" ELSE "select"
  /\ UNCHANGED <<queueVars, ctxDone, got, result>>

\* The pump is dispatchOnce: it returns when it has dispatched something, or
\* with the error of the context, the backend or the connection.
PumpReturns ==
  /\ pc = "pump"
  /\ \/ Return("pump")
     \/ pc' = "ctx" /\ channel' = "none" /\ UNCHANGED result
  /\ UNCHANGED <<queueVars, ctxDone, got>>

\* When both are ready, select may choose either.
Select ==
  /\ pc = "select"
  /\ \/ ctxDone /\ Return("ctx")
     \/ channel = "closed" /\ pc' = "ctx" /\ channel' = "none" /\ UNCHANGED result
  /\ UNCHANGED <<queueVars, ctxDone, got>>

\* session.cancel().
Cancel ==
  /\ ctxDone' = TRUE
  /\ UNCHANGED <<queueVars, readerVars>>

-----------------------------------------------------------------------------
ReaderStep == Call \/ CheckContext \/ Take \/ TakeEnd \/ TakeNothing \/ Select

Next ==
  /\ (\E e \in Event : Push(e)) \/ Fatal \/ Close \/ Cancel \/ ReaderStep \/ PumpReturns
  /\ UNCHANGED pumped

Spec == Init /\ [][Next]_vars

\* The loop's goroutine is scheduled, and a pump gives up when its context ends.
\* Writers owe nothing, and neither does a connection that is read.
FairSpec == /\ Spec
            /\ WF_vars(ReaderStep /\ UNCHANGED pumped)
            /\ WF_vars(ctxDone /\ PumpReturns /\ UNCHANGED pumped)

-----------------------------------------------------------------------------
\* No wakeup is lost between the unlock and the select: a reader that sleeps
\* on a channel nobody has closed has nothing to wake up for.
NoMissedWakeup ==
  pc = "select" /\ channel # "closed" => NothingLeft /\ ~closed /\ ~err

\* Nothing is lost, duplicated or reordered.
InOrder == got \o events = pushed

\* The inductive invariant: with these, what the reader's place tells of it.
ReaderPlace == /\ pc \in {"pump", "select"} <=> channel # "none"
               /\ pc = "done" <=> result # "none"
QueueInv == TypeOK /\ NoMissedWakeup /\ InOrder /\ ReaderPlace

\* The queue implements the promise of its reader.
Stream == INSTANCE EventStream WITH
  sent <- pushed, shut <- closed \/ err,
  over <- IF result = "none" THEN "no"
          ELSE IF result \in {"err", "closed"} THEN "drained" ELSE "interrupted"
KeepsStream == Stream!Spec

\* A waiting reader gets every event that was accepted, unless its context ends
\* first.  (Not so with a pump, which sleeps on the connection.)
Delivered == \A n \in 1..MaxPush : ~pumped /\ Len(pushed) >= n ~> Len(got) >= n \/ result = "ctx"
=============================================================================
