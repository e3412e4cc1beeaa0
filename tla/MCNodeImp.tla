----------------------------- MODULE MCNodeImp -----------------------------
(***************************************************************************)
(* A pool of threads that send 4 requests a second each, at most 2 on one  *)
(* connection.  Three endpoints (26 in a real node) are more than such a   *)
(* thread can serve at the full ratio.                                     *)
(***************************************************************************)
EXTENDS NodeImp

CONSTANTS MaxLinks, MaxEps      \* bounds of the requests

MCRequests == [key : Keys, links : 1 .. MaxLinks,
               speed : 1 .. TotalThreads * MaxSpeed, eps : 1 .. MaxEps]
=============================================================================
