----------------------------- MODULE RunLedger -----------------------------
(* What a run promises to whoever reads it: every task the planner ever      *)
(* added gets at most one verdict, a verdict is never revised, and a sealed  *)
(* run has no task without a verdict.  How tasks are scheduled, parked,      *)
(* resumed after a crash or journalled is not visible here.                  *)
EXTENDS Naturals

CONSTANT Tasks              \* the task ids a run may ever use

VARIABLES
    verdict,                \* task -> "none" (not added), "open" or a verdict
    sealed                  \* the run accepts no further task or verdict

vars == <<verdict, sealed>>

Verdicts == {"won", "lost", "dropped"}

TypeOK == /\ verdict \in [Tasks -> {"none", "open"} \cup Verdicts]
          /\ sealed \in BOOLEAN

Init == /\ verdict = [t \in Tasks |-> "none"]
        /\ sealed = FALSE

(* The executor or a callback reports how one open task ended. *)
Settle(t, v) == /\ ~sealed
                /\ verdict[t] = "open"
                /\ v \in {"won", "lost"}
                /\ verdict' = [verdict EXCEPT ![t] = v]
                /\ UNCHANGED sealed

(* One planner patch: open the tasks of A, drop the open tasks of D and,     *)
(* when it also seals the run, drop every task that would stay open.         *)
Revise(A, D, seal) ==
    /\ ~sealed
    /\ \A t \in A : verdict[t] = "none"
    /\ \A t \in D : verdict[t] = "open" \/ t \in A
    /\ verdict' = [t \in Tasks |->
                     IF t \in D \/ (seal /\ (t \in A \/ verdict[t] = "open"))
                     THEN "dropped"
                     ELSE IF t \in A THEN "open" ELSE verdict[t]]
    /\ sealed' = seal

Next == \/ \E t \in Tasks, v \in Verdicts : Settle(t, v)
        \/ \E A, D \in SUBSET Tasks, seal \in BOOLEAN : Revise(A, D, seal)

Spec == Init /\ [][Next]_vars
=============================================================================
