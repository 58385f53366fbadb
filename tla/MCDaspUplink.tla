---------------------------- MODULE MCDaspUplink ----------------------------
(* The uplink for TLC: the sending threads are interchangeable. *)
EXTENDS DaspUplink, TLC

ThreadSymmetry == Permutations(Threads)
=============================================================================
