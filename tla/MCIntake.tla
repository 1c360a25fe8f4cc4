------------------------------ MODULE MCIntake ------------------------------
(* TLC instance of Intake: two messages of one conversation, two runs.       *)
EXTENDS Intake, TLC

Interchangeable == Permutations(Calls) \cup Permutations(Runs) \cup Permutations(Messages)
=============================================================================
