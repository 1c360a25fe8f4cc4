------------------------------ MODULE A2ABridge ------------------------------
(* A graph node that waits for a remote A2A task: A2AGraphBridge and the     *)
(* subscription it follows (s17code/core/a2a/official.py), composed with the *)
(* task server of A2ATask.  The bridge starts the remote task, watches it    *)
(* until it ended, journals the end and sends the node on; what it knows of  *)
(* the remote task it keeps in memory only.                                  *)
EXTENDS A2ATask

CONSTANTS
    Nodes,          \* tasks that a graph node starts, under the node's own id
    MaxDeaths       \* bound: deaths of the process that runs the graph

ASSUME BridgeConstants == Nodes \subseteq TaskIds /\ Nodes \cap Called = {} /\ MaxDeaths \in Nat

VARIABLES
    node,           \* node -> its NodeState in the graph
    watch,          \* node -> where dispatch_waiting stands
    remote,         \* nodes in remote_ids
    result,         \* node -> the end kept in results, or "none"
    told,           \* nodes with an a2a_task_completed entry
    deaths

bridgeVars == <<node, watch, remote, result, told, deaths>>
a2aVars == <<taskVars, bridgeVars>>

BridgeInit == /\ Init
              /\ node = [n \in Nodes |-> "waiting"]
              /\ watch = [n \in Nodes |-> "idle"]
              /\ remote = {}
              /\ result = [n \in Nodes |-> "none"]
              /\ told = {}
              /\ deaths = 0

(* dispatch_waiting up to the answer of SendMessage. *)
Dispatch(n) == /\ watch[n] = "idle"
               /\ node[n] = "waiting"
               /\ SendSync(n) \/ SendAsync(n)
               /\ watch' = [watch EXCEPT ![n] = "starting"]
               /\ UNCHANGED <<node, remote, result, told, deaths>>

(* The answer: a task worked on at once is answered when it is over.         *)
Started(n) == /\ watch[n] = "starting"
              /\ up /\ n \notin dropped
              /\ mode[n] = "async" \/ driver[n] = "over"
              /\ watch' = [watch EXCEPT ![n] = "watching"]
              /\ remote' = remote \cup {n}
              /\ UNCHANGED <<taskVars, node, result, told, deaths>>

(* Mutant of Resumed: only a remote task that completed sends the node on.   *)
ResumedIfCompleted(n) == IF node[n] = "waiting" /\ state[n] = "completed"
                         THEN "pending" ELSE node[n]

(* The resume patch, if the node still waits. *)
Resumed(n) == IF node[n] = "waiting" THEN "pending" ELSE node[n]

(* Mutant of SubscriptionOver: any snapshot after the first will do.         *)
SubscriptionOverEarly(n) == state[n] # "absent"

(* SubscribeToTask polls until the state is terminal; that one is the last.  *)
SubscriptionOver(n) == Ended(n)

(* The subscription is over: keep the end, journal it, resume the node.      *)
Watched(n) == /\ watch[n] = "watching"
              /\ up /\ SubscriptionOver(n)
              /\ result' = [result EXCEPT ![n] = state[n]]
              /\ told' = told \cup {n}
              /\ node' = [node EXCEPT ![n] = Resumed(n)]
              /\ watch' = [watch EXCEPT ![n] = "over"]
              /\ UNCHANGED <<taskVars, remote, deaths>>

(* The executor runs the resumed node: result_skill looks the end up.        *)
RunNode(n) == /\ node[n] = "pending"
              /\ node' = [node EXCEPT ![n] = IF result[n] # "none" THEN "succeeded" ELSE "failed"]
              /\ UNCHANGED <<taskVars, watch, remote, result, told, deaths>>

(* A patch of the planner cancels the node... *)
CancelPatch(n) == /\ node[n] \in {"waiting", "pending"}
                  /\ node' = [node EXCEPT ![n] = "cancelled"]
                  /\ UNCHANGED <<taskVars, watch, remote, result, told, deaths>>

(* ... and cancel_node passes it on, if the remote task is known.  It does   *)
(* not look at the node, which may still wait.                               *)
CancelNode(n) == /\ n \in remote
                 /\ Cancel(n)
                 /\ UNCHANGED bridgeVars

Lost(S) == [n \in Nodes |-> IF watch[n] \in S THEN "over" ELSE watch[n]]

(* The graph's process dies: the node is as saved, remote_ids and results    *)
(* are gone.  It may die between the journal entry and the resume patch.     *)
Dies(n) == /\ deaths < MaxDeaths
           /\ deaths' = deaths + 1
           /\ watch' = Lost({"idle", "starting", "watching"})
           /\ remote' = {} /\ result' = [m \in Nodes |-> "none"]
           /\ told' = IF watch[n] = "watching" /\ up /\ SubscriptionOver(n)
                      THEN told \cup {n} ELSE told
           /\ UNCHANGED <<taskVars, node>>

(* The server's death breaks the calls and subscriptions that are open.      *)
ServerCrash == /\ Crash
               /\ watch' = Lost({"starting", "watching"})
               /\ UNCHANGED <<node, remote, result, told, deaths>>

ServerStep == /\ \/ \E t \in TaskIds \ Nodes : SendSync(t) \/ SendAsync(t) \/ Stream(t) \/ Cancel(t)
                 \/ \E t \in TaskIds : Drive(t) \/ Post(t, "cancel") \/ Drop(t)
                 \/ Restart
              /\ UNCHANGED bridgeVars

BridgeStep(n) == Started(n) \/ Watched(n)

BridgeNext == \/ ServerStep
              \/ ServerCrash
              \/ \E n \in Nodes : \/ Dispatch(n) \/ BridgeStep(n) \/ RunNode(n) \/ CancelPatch(n)
                                  \/ CancelNode(n) \/ Dies(n)

BridgeSpec == BridgeInit /\ [][BridgeNext]_a2aVars

(* dispatch_waiting goes on to its resume patch.  Nothing under src/ but its *)
(* caller runs the executor again, so RunNode is no part of it.              *)
BridgeFairness == /\ \A t \in TaskIds : /\ WF_a2aVars(Drive(t) /\ UNCHANGED bridgeVars)
                                        /\ WF_a2aVars(Post(t, "cancel") /\ UNCHANGED bridgeVars)
                  /\ WF_a2aVars(Restart /\ UNCHANGED bridgeVars)
                  /\ \A n \in Nodes : WF_a2aVars(BridgeStep(n))

FairBridgeSpec == BridgeSpec /\ BridgeFairness
-----------------------------------------------------------------------------
(* What the graph was told of its remote task is what the remote task is for *)
(* good, a node is sent on only after that was kept and journalled, and it   *)
(* fails to find it only when the process died in between.                   *)
ResultIsFinal ==
    \A n \in Nodes : /\ result[n] # "none" => result[n] = state[n] /\ Ended(n) /\ n \in told
                     /\ node[n] \in {"pending", "succeeded"} => n \in told
                     /\ node[n] \in {"pending", "failed"} /\ deaths = 0 => result[n] # "none"

(* A dispatched node does not wait for ever, however its remote task ended,  *)
(* while both processes live and the call is not abandoned: it is sent on,   *)
(* with the end to be looked up, or it has been cancelled.                   *)
NodeIsReleased ==
    \A n \in Nodes : watch[n] = "starting" ~>
        \/ node[n] # "waiting" /\ (result[n] # "none" \/ node[n] = "cancelled")
        \/ deaths > 0 \/ crashes > 0 \/ n \in dropped
=============================================================================
