----------------------------- MODULE MCLiveGraph -----------------------------
(* TLC instances of LiveGraph.  Planner patches come from Plan, so the       *)
(* store's own Patches are empty here.                                       *)
EXTENDS LiveGraph, TLC

CONSTANTS a, b, z           \* two tasks and an answer

MCHandles == {"job", "key"} \X Tasks
ExecutorSymmetry == Permutations(Executors)
=============================================================================
