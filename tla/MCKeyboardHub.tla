---------------------------- MODULE MCKeyboardHub ----------------------------
(* Instances of KeyboardHub.  Subscriptions are alike. *)
EXTENDS KeyboardHub, TLC
Symmetry == Permutations(Subscriptions)
=============================================================================
