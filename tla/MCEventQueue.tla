---------------------------- MODULE MCEventQueue ----------------------------
(* Instances of EventQueue: the lifecycle source waits, the keyboard pumps. *)
EXTENDS EventQueue
=============================================================================
