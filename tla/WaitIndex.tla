----------------------------- MODULE WaitIndex -----------------------------
(* Parked graph nodes of all runs and the index that finds them by handle    *)
(* (s17code/core/live_graph/store.py).  A run is seen here as far as it      *)
(* waits: "working" while there is something for an executor to do, "parked" *)
(* on one wait, "over".  The checkpoint and the index are two files, saved   *)
(* one after the other under one lock.                                       *)
EXTENDS Naturals, FiniteSets, Sequences

CONSTANTS
    Runs,
    JobHandles,     \* handles that remote jobs choose for themselves
    MaxGates,       \* bound: approvals one run asks for
    NoRun, NoHandle

ASSUME WaitConstants == NoRun \notin Runs /\ MaxGates \in Nat

VARIABLES
    phase,          \* run -> "absent", "working", "parked" or "over"
    wait,           \* run -> the handle its parked node waits for
    gate,           \* run -> approvals it has asked for so far
    index           \* waiting-handles.json: handle -> run

waitVars == <<phase, wait, gate, index>>

Gates == Runs \X (1..MaxGates)      \* an approval's handle: a hash of run and node
Handles == JobHandles \cup Gates

WaitInit == /\ phase = [r \in Runs |-> "absent"]
            /\ wait = [r \in Runs |-> NoHandle]
            /\ gate = [r \in Runs |-> 0]
            /\ index = [h \in Handles |-> NoRun]

Parked(h) == {r \in Runs : phase[r] = "parked" /\ wait[r] = h}
Indexed(h) == {index[h]} \cap Parked(h)

(* Mutant of Found: the index is taken at its word.                          *)
FoundByIndex(h) == Indexed(h)

(* _find_waiting: a hit of the index settles it, a stale or missing entry    *)
(* falls back to reading every checkpoint.                                   *)
Found(h) == IF Indexed(h) # {} THEN Indexed(h) ELSE Parked(h)

(* ... which leaves the index naming the last owner the scan came to.        *)
Repaired(h, r) == IF Found(h) = {} THEN NoRun ELSE r

(* The next wait of a run, of the two kinds there are.                       *)
NextWaits(r) == JobHandles \cup (IF gate[r] < MaxGates THEN {<<r, gate[r] + 1>>} ELSE {})

(* record_waiting saves the node first and indexes its handle after; the     *)
(* process may die in between.                                               *)
SaveWaiting(r, h) == /\ phase[r] = "working"
                     /\ phase' = [phase EXCEPT ![r] = "parked"]
                     /\ wait' = [wait EXCEPT ![r] = h]
                     /\ gate' = [gate EXCEPT ![r] = @ + (IF h \in Gates THEN 1 ELSE 0)]

RecordWaiting(r, h) == SaveWaiting(r, h) /\ index' = [index EXCEPT ![h] = r]

(* complete_waiting saves the outcome first and forgets the handle after.    *)
SaveCompletion(r) == /\ phase' = [phase EXCEPT ![r] = "working"]
                     /\ wait' = [wait EXCEPT ![r] = NoHandle]
                     /\ UNCHANGED gate

CompleteWaiting(h, r) == /\ Found(h) = {r}
                         /\ SaveCompletion(r)
                         /\ index' = [index EXCEPT ![h] = NoRun]

(* Nothing waits, or it raises because more than one node does: only the     *)
(* index changes.                                                            *)
NotCompleted(h) == /\ Cardinality(Found(h)) # 1
                   /\ \E r \in Runs : /\ Found(h) # {} => r \in Found(h)
                                      /\ index' = [index EXCEPT ![h] = Repaired(h, r)]
                   /\ UNCHANGED <<phase, wait, gate>>

(* A patch finishes the run; a node it cancels leaves its handle indexed.    *)
FinishRun(r) == /\ phase[r] \in {"working", "parked"}
                /\ phase' = [phase EXCEPT ![r] = "over"]
                /\ wait' = [wait EXCEPT ![r] = NoHandle]
                /\ UNCHANGED <<gate, index>>
=============================================================================
