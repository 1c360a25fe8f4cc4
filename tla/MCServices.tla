----------------------------- MODULE MCServices -----------------------------
(* TLC instance of the four services beside the graph: RunStream, Memory,    *)
(* Coding and Lease.  They share no state, so a behaviour runs one of them   *)
(* and leaves the others at their first state.                               *)
EXTENDS RunStream, Memory, Coding, Lease, TLC

CONSTANTS source, sourceDotted, judge, judgeDotted    \* names: each file has two

VARIABLE focus

TwoNames == [n \in {source, sourceDotted, judge, judgeDotted} |->
               IF n \in {judge, judgeDotted} THEN judge ELSE source]
OneProcess == [t \in Ticks |-> "server"]
WholeBodies == {<<"x", "x">>}

servicesVars == <<focus, streamVars, memoryVars, codingVars, leaseVars>>

ServicesInit ==
    /\ focus \in {"stream", "memory", "coding", "lease"}
    /\ StreamInit /\ MemoryInit /\ CodingInit /\ LeaseInit
    /\ focus # "memory" => reliable /\ fingerprint = "nomic"
    /\ focus # "coding" => head = [f \in Files |-> <<"x", "x">>]

OnStream == focus = "stream" /\ UNCHANGED <<focus, memoryVars, codingVars, leaseVars>>
OnMemory == focus = "memory" /\ UNCHANGED <<focus, streamVars, codingVars, leaseVars>>
OnCoding == focus = "coding" /\ UNCHANGED <<focus, streamVars, memoryVars, leaseVars>>
OnLease  == focus = "lease" /\ UNCHANGED <<focus, streamVars, memoryVars, codingVars>>

ServicesNext == \/ OnStream /\ StreamNext
                \/ OnMemory /\ MemoryNext
                \/ OnCoding /\ CodingNext
                \/ OnLease /\ LeaseNext

ServicesSpec == /\ ServicesInit /\ [][ServicesNext]_servicesVars
                /\ \A r \in Readers : WF_servicesVars(OnStream /\ Stream(r))
=============================================================================
