----------------------------- MODULE MCMonitor -----------------------------
(***************************************************************************)
(* Small rings: one producer and one consumer (tb with -n 1), or two       *)
(* producers and up to two consumers (a node with two benchmark threads).  *)
(***************************************************************************)
EXTENDS Monitor, TLC

Symmetry == Permutations(Producers) \cup Permutations(Consumers)
=============================================================================
