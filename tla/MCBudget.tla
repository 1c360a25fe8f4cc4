------------------------------ MODULE MCBudget ------------------------------
(* TLC instances of Budget: a ladder of three rungs.                         *)
EXTENDS Budget, TLC

CONSTANTS n1, n2, plan

MCPrice == [t \in 1..3 |-> t]
MCRequested == [s \in Nodes \cup {Planner} |-> Rungs]
NodeSymmetry == Permutations(Nodes)
=============================================================================
