--------------------------- MODULE OverlayPromise ---------------------------
(***************************************************************************)
(* What layerShellOverlayDriver promises of its sessions, whatever the     *)
(* goroutines do: one session at a time owns the overlay, each ends once,  *)
(* by a cancel or by the commit of one click, and button events are sent   *)
(* only for a session a click ended, once, and of the kind committed.      *)
(***************************************************************************)
CONSTANTS Ids, None, Clicks

VARIABLES owner,    \* the session that owns the overlay, or None
          outcome,  \* per id: "unused", "open", "over" or the click that ended it
          clicked   \* per id: the button events sent, or "no"

vars == <<owner, outcome, clicked>>

Init == /\ owner = None
        /\ outcome = [s \in Ids |-> "unused"]
        /\ clicked = [s \in Ids |-> "no"]

Open(s) == /\ owner = None /\ outcome[s] = "unused"
           /\ owner' = s
           /\ outcome' = [outcome EXCEPT ![s] = "open"]
           /\ UNCHANGED clicked

End(s, how) == /\ owner = s
               /\ owner' = None
               /\ outcome' = [outcome EXCEPT ![s] = how]
               /\ UNCHANGED clicked

Click(s) == /\ outcome[s] \in Clicks /\ clicked[s] = "no"
            /\ clicked' = [clicked EXCEPT ![s] = outcome[s]]
            /\ UNCHANGED <<owner, outcome>>

Next == \E s \in Ids : \/ Open(s) \/ Click(s)
                       \/ \E how \in Clicks \cup {"over"} : End(s, how)

Spec == Init /\ [][Next]_vars
=============================================================================
