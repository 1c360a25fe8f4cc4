---------------------------- MODULE MCEventEngine ----------------------------
(* TLC instances of EventEngine.                                             *)
EXTENDS EventEngine, TLC

EventSymmetry == Permutations(Events) \cup Permutations(Subs)
=============================================================================
