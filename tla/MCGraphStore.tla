---------------------------- MODULE MCGraphStore ----------------------------
(* TLC instances of GraphStore: small patches of every shape.                *)
EXTENDS GraphStore, TLC

CONSTANTS
    MaxEdges,       \* bound: edges of one patch
    PatchSize       \* bound: ids and edges one patch names

Small(S, k) == {x \in SUBSET S : Cardinality(x) <= k}

Size(p) == Cardinality(p.add) + Cardinality(p.connect) + Cardinality(p.cancel)
             + Cardinality(p.wait) + Cardinality(p.resume)

MCPatches == {p \in [add : SUBSET Tasks, connect : Small(Tasks \X Tasks, MaxEdges),
                     cancel : Small(Tasks, 1), wait : Small(Tasks, 1),
                     resume : Small(Tasks, 1), finish : BOOLEAN] :
                 /\ Size(p) <= PatchSize
                 /\ \A e \in p.connect : e[1] # e[2]}

TaskSymmetry == Permutations(Tasks)
=============================================================================
