--------------------------- MODULE MCCoordinator ---------------------------
(* Coordinator for TLC: two threads, two folders with one message each.    *)
EXTENDS Coordinator, TLC

CONSTANTS letter, note, t1, t2

OneEach == (letter :> 1) @@ (note :> 2)
=============================================================================
