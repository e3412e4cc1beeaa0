---------------------------- MODULE MCNodeServer ----------------------------
(***************************************************************************)
(* A node of two threads that send 4 requests a second each.  A shape is   *)
(* the links, the speed and the endpoints that are asked for: one thread;  *)
(* both, with a remainder and two endpoints.                               *)
(***************************************************************************)
EXTENDS NodeServer

MCShapes == {<<2, 4, 1>>, <<3, 3, 2>>}

MCRequests == {[key |-> k, links |-> s[1], speed |-> s[2], eps |-> s[3]] :
                    k \in Keys, s \in MCShapes}
=============================================================================
