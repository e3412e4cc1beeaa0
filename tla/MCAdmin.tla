------------------------------ MODULE MCAdmin ------------------------------
(***************************************************************************)
(* Values for TLC: nodes of two threads with a speed of 2 each.  A task    *)
(* that needs one node and a half; and one that needs half a thread.       *)
(***************************************************************************)
EXTENDS Admin

Wide == {[links |-> 6, speed |-> 6]}

WideOrNarrow == Wide \cup {[links |-> 1, speed |-> 1]}
============================================================================
