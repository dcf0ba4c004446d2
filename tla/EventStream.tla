----------------------------- MODULE EventStream -----------------------------
(***************************************************************************)
(* What an overlayEventQueue promises its one reader: every event that was  *)
(* accepted before the queue was shut, once, in order; the news that it was *)
(* shut only when nothing is left to read.  The reader may be interrupted   *)
(* at any time, by its context or by what it pumps.                         *)
(***************************************************************************)
EXTENDS Integers, Sequences

CONSTANT Event

VARIABLES sent,   \* the events accepted
          got,    \* the events read
          shut,   \* no more events are accepted
          over    \* "no", or how the reading ended: "drained", "interrupted"

vars == <<sent, got, shut, over>>

Init == sent = <<>> /\ got = <<>> /\ shut = FALSE /\ over = "no"

Send(e) == ~shut /\ sent' = Append(sent, e) /\ UNCHANGED <<got, shut, over>>
Shut == shut' = TRUE /\ UNCHANGED <<sent, got, over>>
Receive(e) == /\ over = "no" /\ Len(got) < Len(sent) /\ e = sent[Len(got) + 1]
              /\ got' = Append(got, e)
              /\ UNCHANGED <<sent, shut, over>>
Drain == /\ over = "no" /\ shut /\ got = sent
         /\ over' = "drained" /\ UNCHANGED <<sent, got, shut>>
Interrupt == over = "no" /\ over' = "interrupted" /\ UNCHANGED <<sent, got, shut>>

Next == Shut \/ Drain \/ Interrupt \/ \E e \in Event : Send(e) \/ Receive(e)

Spec == Init /\ [][Next]_vars
=============================================================================
