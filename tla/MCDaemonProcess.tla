--------------------------- MODULE MCDaemonProcess ---------------------------
(* Instances of DaemonProcess.  Daemons are alike, and so are clients. *)
EXTENDS DaemonProcess, TLC
Symmetry == Permutations(Daemons) \cup Permutations(Clients)
=============================================================================
