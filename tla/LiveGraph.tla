------------------------------ MODULE LiveGraph ------------------------------
(* LiveGraphExecutor.run (s17code/core/live_graph/core.py) over the durable  *)
(* store, with the planner it awaits (s17code/planner.py), the workers it    *)
(* launches behind the side-effect outbox (s17code/events/outbox.py), the    *)
(* /resume and /completions handlers that start further executors on the     *)
(* same run (s17code/routes.py), and the death of the process.               *)
(*                                                                           *)
(* One asyncio loop runs everything: a coroutine keeps it until it awaits.   *)
(* `loop` names the executor inside such a segment; nobody else moves until  *)
(* it is free again, but the process may die between two saves of a segment. *)
EXTENDS GraphStore

CONSTANTS
    Executors,      \* executor coroutines this run may see, over all restarts
    Terminals,      \* tasks whose capability answers the run
    SideEffects,    \* tasks wrapped by the outbox
    JobTasks,       \* tasks whose worker may hand back a job handle
    MaxWorkers,     \* max_workers
    MaxNew,         \* max_new_tasks
    MaxNodes,       \* max_nodes
    MaxCrashes,     \* bound: deaths of the process
    Overlap,        \* may a run be resumed while an executor is live on it?
    ReviewFails     \* may the evidence-review call of the planner raise?

ASSUME HandleNames == {"job", "key"} \X Tasks \subseteq Handles
ASSUME LiveConstants ==
    /\ IsFiniteSet(Executors)
    /\ Terminals \subseteq Tasks /\ SideEffects \subseteq Tasks /\ JobTasks \subseteq SideEffects
    /\ MaxWorkers \in Nat \ {0} /\ MaxNew \in Nat /\ MaxNodes \in Nat /\ MaxCrashes \in Nat
    /\ Overlap \in BOOLEAN /\ ReviewFails \in BOOLEAN

VARIABLES
    pc,             \* executor -> where its coroutine is
    todo,           \* executor -> events still to replay
    trg,            \* executor -> the event being planned
    snap,           \* executor -> the snapshot handed to the planner
    batch,          \* executor -> finished workers of this wake-up, not drained
    worker,         \* executor -> job -> its asyncio task
    loop,           \* the executor holding the event loop, or "free"
    outbox,         \* task -> its outbox record
    attempts,       \* task -> times the wrapped operation was entered
    crashes

execVars == <<pc, todo, trg, snap, batch, worker, loop>>
effectVars == <<outbox, attempts>>
liveVars == <<storeVars, execVars, effectVars, crashes>>

InProgress == {"queued", "running"}
Results == {"ok", "fail", "job", "key", "cancelled"}
Live(e) == pc[e] \notin {"idle", "returned", "raised", "dead"}
Quiet == \A e \in Executors : ~Live(e)

(* A job is a task and the number of executors started when it was launched: *)
(* in_flight is keyed by the future, and an executor may hold two of a task  *)
(* that another executor's resume returned to pending in between.            *)
Jobs == Tasks \X (1..Cardinality(Executors))
Started == {e \in Executors : pc[e] # "idle"}
InFlight(e) == {j \in Jobs : worker[e][j] # "none"}
Free == loop = "free"
Snapshot == [state |-> state, deps |-> deps]
NoSnapshot == [state |-> [n \in Tasks |-> "absent"], deps |-> {}]
-----------------------------------------------------------------------------
(* What the planner may answer, given its snapshot s and the event's node.   *)

ActiveIn(s) == {n \in Tasks : s.state[n] \in Active}
KnownIn(s) == {n \in Tasks : s.state[n] # "absent"}

Patch(add, connect, cancel, finish) ==
    [add |-> add, connect |-> connect, cancel |-> cancel,
     wait |-> {}, resume |-> {}, finish |-> finish]
FinishPatch == Patch({}, {}, {}, TRUE)

(* A terminal task that ended, or the node limit, finishes the run unasked.  *)
MustFinish(s, nodes) ==
    \/ \E n \in nodes \cap Terminals : s.state[n] \in Terminal
    \/ Cardinality(KnownIn(s)) >= MaxNodes

(* The same verification failed too often; how often is abstracted.          *)
MayGiveUp(s) == \E n \in Tasks \ Terminals : s.state[n] = "SUCCEEDED"

(* The call failed, or no reply passed validation.                           *)
Fallback(s) == Patch({}, {}, {}, ActiveIn(s) = {})

Leaves(s) == {n \in Tasks : /\ s.state[n] = "SUCCEEDED"
                            /\ \A c \in Tasks : <<n, c>> \notin s.deps}

(* An answer with no stated dependency gets the succeeded leaves.            *)
DepsOf(s, n, chosen) == IF chosen = {} /\ n \in Terminals THEN Leaves(s) ELSE chosen

AddableSets(s) ==
    {A \in SUBSET (Tasks \ KnownIn(s)) :
        /\ Cardinality(A) <= MaxNew
        /\ Cardinality(A) + Cardinality(KnownIn(s)) <= MaxNodes
        /\ ActiveIn(s) \cap Terminals # {} => A \cap Terminals = {}}

Edges(s, A, parents) == UNION {DepsOf(s, n, parents[n]) \X {n} : n \in A}

(* _parse: new nodes hang from existing ones that have not lost; only parked *)
(* or pending work is cancelled; an idle graph must be given something.      *)
Proposals(s) ==
    UNION {UNION {{Patch(A, Edges(s, A, parents), C, FALSE) :
                      parents \in [A -> SUBSET {n \in KnownIn(s) \ C :
                                       s.state[n] \notin {"FAILED", "CANCELLED"}}]} :
                  A \in {B \in AddableSets(s) : B # {} \/ C # {} \/ ActiveIn(s) # {}}} :
           C \in SUBSET {n \in Tasks : s.state[n] \in {"PENDING", "WAITING"}}}

(* finish=true is taken from the model once an answer has succeeded.         *)
FinishProposals(s) ==
    IF \E n \in Terminals : s.state[n] = "SUCCEEDED" THEN {FinishPatch} ELSE {}

Plan(s, nodes) ==
    IF MustFinish(s, nodes) THEN {FinishPatch}
    ELSE {Fallback(s)} \cup Proposals(s) \cup FinishProposals(s)
           \cup (IF MayGiveUp(s) THEN {FinishPatch} ELSE {})
-----------------------------------------------------------------------------
LiveInit ==
    /\ Init
    /\ pc = [e \in Executors |-> "idle"]
    /\ todo = [e \in Executors |-> {}]
    /\ trg = [e \in Executors |-> 0]
    /\ snap = [e \in Executors |-> NoSnapshot]
    /\ batch = [e \in Executors |-> {}]
    /\ worker = [e \in Executors |-> [j \in Jobs |-> "none"]]
    /\ loop = "free"
    /\ outbox = [t \in Tasks |-> "none"]
    /\ attempts = [t \in Tasks |-> 0]
    /\ crashes = 0

(* run(): create the checkpoint, collect the events to replay.               *)
ExecStart(e) ==
    /\ Free /\ pc[e] = "idle"
    /\ Start
    /\ pc' = [pc EXCEPT ![e] = "replay"]
    /\ todo' = [todo EXCEPT ![e] = {1}]
    /\ loop' = e
    /\ UNCHANGED <<trg, snap, batch, worker, effectVars, crashes>>

(* Mutant of ExecResume: resume starts work without replaying outcomes.      *)
ExecResumeNoReplay(e) ==
    /\ \/ Free /\ pc[e] = "idle" /\ (Overlap \/ Quiet)
       \/ loop = e /\ pc[e] = "called"
    /\ Resume
    /\ pc' = [pc EXCEPT ![e] = "fill"]
    /\ loop' = e
    /\ UNCHANGED <<todo, trg, snap, batch, worker, effectVars, crashes>>

(* run(resume=True), from POST /resume or at the end of /completions.        *)
ExecResume(e) ==
    /\ \/ Free /\ pc[e] = "idle" /\ (Overlap \/ Quiet)
       \/ loop = e /\ pc[e] = "called"
    /\ Resume
    /\ pc' = [pc EXCEPT ![e] = "replay"]
    /\ todo' = [todo EXCEPT ![e] = PendingTriggers]
    /\ loop' = e
    /\ UNCHANGED <<trg, snap, batch, worker, effectVars, crashes>>

(* /completions: the outcome is saved, then a new executor runs the graph.   *)
Callback(e, h, ok) ==
    /\ Free /\ pc[e] = "idle" /\ (Overlap \/ Quiet)
    /\ CompleteWaiting(h, ok)
    /\ pc' = [pc EXCEPT ![e] = "called"]
    /\ loop' = e
    /\ UNCHANGED <<todo, trg, snap, batch, worker, effectVars, crashes>>

(* Mutant of ReplayNext: only the oldest unanswered event is replayed.       *)
ReplayFirstOnly(e) ==
    /\ loop = e /\ pc[e] = "replay"
    /\ todo[e] # {} /\ ~finished
    /\ trg' = [trg EXCEPT ![e] = CHOOSE i \in todo[e] : \A j \in todo[e] : i <= j]
    /\ todo' = [todo EXCEPT ![e] = {}]
    /\ snap' = [snap EXCEPT ![e] = Snapshot]
    /\ pc' = [pc EXCEPT ![e] = "replanning"]
    /\ loop' = "free"
    /\ UNCHANGED <<storeVars, batch, worker, effectVars, crashes>>

(* _replay_pending_planner_events: the next unanswered event, oldest first.  *)
ReplayNext(e) ==
    /\ loop = e /\ pc[e] = "replay"
    /\ todo[e] # {} /\ ~finished
    /\ \E i \in todo[e] :
          /\ \A j \in todo[e] : i <= j
          /\ trg' = [trg EXCEPT ![e] = i]
          /\ todo' = [todo EXCEPT ![e] = @ \ {i}]
    /\ snap' = [snap EXCEPT ![e] = Snapshot]
    /\ pc' = [pc EXCEPT ![e] = "replanning"]
    /\ loop' = "free"
    /\ UNCHANGED <<storeVars, batch, worker, effectVars, crashes>>

ReplayDone(e) ==
    /\ loop = e /\ pc[e] = "replay"
    /\ todo[e] = {} \/ finished
    /\ pc' = [pc EXCEPT ![e] = "fill"]
    /\ todo' = [todo EXCEPT ![e] = {}]
    /\ UNCHANGED <<storeVars, trg, snap, batch, worker, loop, effectVars, crashes>>

(* The planner's coroutine ended: its snapshot is forgotten.                 *)
Planned(e) == /\ Free /\ pc[e] \in {"planning", "replanning"}
              /\ snap' = [snap EXCEPT ![e] = NoSnapshot]
              /\ trg' = [trg EXCEPT ![e] = 0]

(* _cancel_graph_cancelled_tasks: cancel() does nothing to a finished task.  *)
CancelWorkers(e, S) ==
    worker' = [worker EXCEPT ![e] =
                 [j \in Jobs |-> IF j[1] \in S /\ @[j] \in InProgress THEN "cancelled" ELSE @[j]]]

Raised(e) == /\ pc' = [pc EXCEPT ![e] = "raised"]
             /\ todo' = [todo EXCEPT ![e] = {}]
             /\ batch' = [batch EXCEPT ![e] = {}]
             /\ loop' = "free"

Continue(e) == /\ pc' = [pc EXCEPT ![e] = IF pc[e] = "planning" THEN "drain" ELSE "replay"]
               /\ loop' = e
               /\ UNCHANGED <<todo, batch>>

(* The reply arrives: apply_patch on the graph as it is by now, then stop    *)
(* the workers of tasks that are cancelled in it.                            *)
EndPlan(e) ==
    /\ Planned(e)
    /\ trg[e] \notin applied
    /\ \E p \in Plan(snap[e], journal[trg[e]].nodes) : ApplyPatch(p, trg[e])
    /\ IF pc[e] = "planning"
       THEN CancelWorkers(e, {t \in Tasks : state'[t] = "CANCELLED"})
       ELSE UNCHANGED worker
    /\ Continue(e)
    /\ UNCHANGED <<effectVars, crashes>>

(* Another executor answered the event meanwhile: apply_patch returns False. *)
EndPlanDuplicate(e) ==
    /\ Planned(e)
    /\ trg[e] \in applied
    /\ IF pc[e] = "planning" THEN CancelWorkers(e, InState({"CANCELLED"})) ELSE UNCHANGED worker
    /\ Continue(e)
    /\ UNCHANGED <<storeVars, effectVars, crashes>>

(* The graph moved on under the planner, and its patch is rejected.          *)
EndPlanRejected(e) ==
    /\ Planned(e)
    /\ trg[e] \notin applied
    /\ \E p \in Plan(snap[e], journal[trg[e]].nodes) : ~CanPatch(p)
    /\ Raised(e)
    /\ UNCHANGED <<storeVars, worker, effectVars, crashes>>

(* The review of a proposed answer is a second call, whose exceptions        *)
(* plan() does not catch.                                                    *)
PlannerRaises(e) ==
    /\ ReviewFails
    /\ Planned(e)
    /\ \E p \in Proposals(snap[e]) : p.add \cap Terminals # {}
    /\ Raised(e)
    /\ UNCHANGED <<storeVars, worker, effectVars, crashes>>

(* Launch as many ready tasks as there are free slots, then wait for any.    *)
(* ready() takes them in id order; any choice of that many is allowed here.  *)
Capacity(e) == MaxWorkers - Cardinality(InFlight(e))

Fill(e) ==
    /\ loop = e /\ pc[e] = "fill"
    /\ ~finished /\ Capacity(e) > 0 /\ Ready # {}
    /\ \E S \in SUBSET Ready :
          /\ Cardinality(S) = Capacity(e) \/ (S = Ready /\ Cardinality(S) < Capacity(e))
          /\ MarkRunning(S)
          /\ worker' = [worker EXCEPT ![e] =
                [j \in Jobs |-> IF j \in S \X {Cardinality(Started)} THEN "queued" ELSE @[j]]]
    /\ pc' = [pc EXCEPT ![e] = "waiting"]
    /\ loop' = "free"
    /\ UNCHANGED <<todo, trg, snap, batch, effectVars, crashes>>

(* Mutant of FillNothing: an executor with nothing to launch returns at once. *)
FillReturns(e) ==
    /\ loop = e /\ pc[e] = "fill"
    /\ finished \/ Capacity(e) <= 0 \/ Ready = {}
    /\ pc' = [pc EXCEPT ![e] = "returned"]
    /\ loop' = "free"
    /\ UNCHANGED <<storeVars, todo, trg, snap, batch, worker, effectVars, crashes>>

(* Nothing to launch: wait for what is in flight, or return the report.      *)
FillNothing(e) ==
    /\ loop = e /\ pc[e] = "fill"
    /\ finished \/ Capacity(e) <= 0 \/ Ready = {}
    /\ pc' = [pc EXCEPT ![e] = IF InFlight(e) = {} THEN "returned" ELSE "waiting"]
    /\ loop' = "free"
    /\ UNCHANGED <<storeVars, todo, trg, snap, batch, worker, effectVars, crashes>>

(* asyncio.wait(FIRST_COMPLETED) wakes with everything finished by then.     *)
Wake(e) ==
    /\ Free /\ pc[e] = "waiting"
    /\ \E j \in Jobs : worker[e][j] \in Results
    /\ batch' = [batch EXCEPT ![e] = {j \in Jobs : worker[e][j] \in Results}]
    /\ pc' = [pc EXCEPT ![e] = "drain"]
    /\ loop' = e
    /\ UNCHANGED <<storeVars, todo, trg, snap, worker, effectVars, crashes>>

(* Mutant of Pop: the drained future stays in in_flight.                     *)
PopNothing(e, j) == /\ loop = e /\ pc[e] = "drain"
                    /\ j \in batch[e]
                    /\ batch' = [batch EXCEPT ![e] = @ \ {j}]
                    /\ UNCHANGED worker

(* in_flight.pop(future): the done ones are drained in any order here.       *)
Pop(e, j) == /\ loop = e /\ pc[e] = "drain"
             /\ j \in batch[e]
             /\ batch' = [batch EXCEPT ![e] = @ \ {j}]
             /\ worker' = [worker EXCEPT ![e][j] = "none"]

(* Mutant of Dropped: only the worker's own fate is looked at.               *)
DroppedByWorker(e, j) == worker[e][j] = "cancelled"

(* A cancelled worker, or a late result of a task the graph has cancelled.   *)
Dropped(e, j) == worker[e][j] = "cancelled" \/ state[j[1]] = "CANCELLED"

DrainDropped(e, j) ==
    /\ Pop(e, j)
    /\ Dropped(e, j)
    /\ UNCHANGED <<storeVars, pc, todo, trg, snap, loop, effectVars, crashes>>

DrainDeferred(e, j) ==
    /\ Pop(e, j)
    /\ ~Dropped(e, j)
    /\ worker[e][j] \in {"job", "key"}
    /\ RecordWaiting(j[1], <<worker[e][j], j[1]>>)
    /\ UNCHANGED <<pc, todo, trg, snap, loop, effectVars, crashes>>

(* The outcome is saved first; its event and a fresh snapshot go to the      *)
(* planner in the same segment.  (Only a finished graph skips the planner,   *)
(* and a finished graph has no running node to record.)                      *)
DrainOutcome(e, j) ==
    /\ Pop(e, j)
    /\ ~Dropped(e, j)
    /\ worker[e][j] \in {"ok", "fail"}
    /\ RecordOutcome(j[1], worker[e][j] = "ok")
    /\ pc' = [pc EXCEPT ![e] = "planning"]
    /\ trg' = [trg EXCEPT ![e] = Len(journal')]
    /\ snap' = [snap EXCEPT ![e] = [state |-> state', deps |-> deps]]
    /\ loop' = "free"
    /\ UNCHANGED <<todo, effectVars, crashes>>

(* record_outcome and record_waiting refuse a node that is not running: the  *)
(* coroutine dies, its other workers run on and nobody collects them.        *)
DrainRefused(e, j) ==
    /\ loop = e /\ pc[e] = "drain" /\ j \in batch[e]
    /\ ~Dropped(e, j)
    /\ state[j[1]] # "RUNNING"
    /\ worker' = [worker EXCEPT ![e][j] = "none"]
    /\ Raised(e)
    /\ UNCHANGED <<storeVars, trg, snap, effectVars, crashes>>

(* The batch is drained; a finished graph cancels every worker left.         *)
BatchDone(e) ==
    /\ loop = e /\ pc[e] = "drain"
    /\ batch[e] = {}
    /\ IF finished THEN CancelWorkers(e, Tasks) ELSE UNCHANGED worker
    /\ pc' = [pc EXCEPT ![e] = "fill"]
    /\ UNCHANGED <<storeVars, todo, trg, snap, batch, loop, effectVars, crashes>>
-----------------------------------------------------------------------------
(* Workers.  A side effect goes through ActionOutbox.execute: a record found *)
(* there answers instead of the operation, and a new one is written before   *)
(* the operation is entered.                                                 *)
EnterOperation(e, j) ==
    /\ worker' = [worker EXCEPT ![e][j] = "running"]
    /\ attempts' = [attempts EXCEPT ![j[1]] = @ + 1]
    /\ outbox' = IF j[1] \in SideEffects THEN [outbox EXCEPT ![j[1]] = "started"] ELSE outbox

ReuseRecord(e, j) ==
    /\ worker' = [worker EXCEPT ![e][j] = IF outbox[j[1]] = "started" THEN "key" ELSE outbox[j[1]]]
    /\ UNCHANGED effectVars

(* Mutant of WorkerBegin: an operation left in flight is started again.      *)
WorkerRetries(e, j) ==
    /\ Free /\ worker[e][j] = "queued"
    /\ IF outbox[j[1]] \in {"none", "started"} THEN EnterOperation(e, j) ELSE ReuseRecord(e, j)
    /\ UNCHANGED <<storeVars, pc, todo, trg, snap, batch, loop, crashes>>

WorkerBegin(e, j) ==
    /\ Free /\ worker[e][j] = "queued"
    /\ IF outbox[j[1]] = "none" THEN EnterOperation(e, j) ELSE ReuseRecord(e, j)
    /\ UNCHANGED <<storeVars, pc, todo, trg, snap, batch, loop, crashes>>

(* The operation ends: its receipt or its error is written to the outbox.    *)
WorkerEnd(e, j) ==
    /\ Free /\ worker[e][j] = "running"
    /\ \E r \in {"ok", "fail"} \cup (IF j[1] \in JobTasks THEN {"job"} ELSE {}) :
          /\ worker' = [worker EXCEPT ![e][j] = r]
          /\ outbox' = IF j[1] \in SideEffects THEN [outbox EXCEPT ![j[1]] = r] ELSE outbox
    /\ UNCHANGED <<storeVars, pc, todo, trg, snap, batch, loop, attempts, crashes>>

(* The process dies, inside a segment too; the checkpoint and the outbox     *)
(* keep what was saved.                                                      *)
Crash ==
    /\ crashes < MaxCrashes
    /\ \E e \in Executors : Live(e)
    /\ crashes' = crashes + 1
    /\ pc' = [e \in Executors |-> IF Live(e) THEN "dead" ELSE pc[e]]
    /\ todo' = [e \in Executors |-> {}]
    /\ trg' = [e \in Executors |-> 0]
    /\ snap' = [e \in Executors |-> NoSnapshot]
    /\ batch' = [e \in Executors |-> {}]
    /\ worker' = [e \in Executors |-> [j \in Jobs |-> "none"]]
    /\ loop' = "free"
    /\ UNCHANGED <<storeVars, effectVars>>

Step(e) == \/ ReplayNext(e) \/ ReplayDone(e)
           \/ EndPlan(e) \/ EndPlanDuplicate(e) \/ EndPlanRejected(e)
           \/ Fill(e) \/ FillNothing(e) \/ Wake(e)
           \/ \E j \in Jobs : \/ DrainDropped(e, j) \/ DrainDeferred(e, j)
                              \/ DrainOutcome(e, j) \/ DrainRefused(e, j)
           \/ BatchDone(e)
           \/ loop = e /\ ExecResume(e)

Work(e, j) == WorkerBegin(e, j) \/ WorkerEnd(e, j)

LiveNext == \/ \E e \in Executors : \/ ExecStart(e) \/ ExecResume(e) \/ PlannerRaises(e)
                                    \/ Step(e)
                                    \/ \E h \in Handles, ok \in BOOLEAN : Callback(e, h, ok)
                                    \/ \E j \in Jobs : Work(e, j)
            \/ Crash

(* An asyncio loop runs every coroutine that can run; planner calls and      *)
(* workers end because their transports time out.  Nothing obliges anyone to *)
(* call back, to resume or to crash.                                         *)
Fairness == \A e \in Executors : /\ WF_liveVars(Step(e))
                                 /\ \A j \in Jobs : WF_liveVars(Work(e, j))

LiveSpec == LiveInit /\ [][LiveNext]_liveVars
FairSpec == LiveSpec /\ Fairness
-----------------------------------------------------------------------------
LiveTypeOK ==
    /\ TypeOK
    /\ pc \in [Executors -> {"idle", "called", "replay", "replanning", "fill", "waiting",
                             "drain", "planning", "returned", "raised", "dead"}]
    /\ todo \in [Executors -> SUBSET Nat]
    /\ trg \in [Executors -> Nat]
    /\ snap \in [Executors -> [state : [Tasks -> {"absent"} \cup Active \cup Terminal],
                               deps : SUBSET (Tasks \X Tasks)]]
    /\ batch \in [Executors -> SUBSET Jobs]
    /\ worker \in [Executors -> [Jobs -> {"none"} \cup InProgress \cup Results]]
    /\ loop \in Executors \cup {"free"}
    /\ outbox \in [Tasks -> {"none", "started", "ok", "fail", "job"}]
    /\ attempts \in [Tasks -> Nat]
    /\ crashes \in 0..MaxCrashes

(* A wrapped operation is entered once, whatever is resumed, launched twice, *)
(* cancelled or killed in the middle of it.                                  *)
AtMostOnceEffects == \A t \in SideEffects : attempts[t] <= 1

(* Evidence first: every parent of a task that was ever started succeeded,   *)
(* and still counts as succeeded.                                            *)
EvidenceFirst ==
    \A i \in 1..Len(journal) :
        journal[i].kind = "task_started" =>
            \A n \in journal[i].nodes : \A p \in Parents(n) : state[p] = "SUCCEEDED"

(* An executor returns only when each journalled outcome, those found after  *)
(* a restart included, was shown to the planner, or the run is finished.     *)
EveryOutcomePlanned ==
    [][\A e \in Executors :
          pc[e] # "returned" /\ pc'[e] = "returned" => finished \/ PendingTriggers = {}]_liveVars

(* A node is RUNNING only while a live executor has a worker for it, until   *)
(* an executor dies.                                                         *)
NoOrphans ==
    (\A e \in Executors : pc[e] \notin {"raised", "dead"}) =>
        \A n \in InState({"RUNNING"}) :
            \E e \in Executors : Live(e) /\ \E j \in InFlight(e) : j[1] = n

(* A live executor never dies of its own late results: a cancelled or parked *)
(* task is never reported to the store as if it were running.                *)
NobodyRaises == \A e \in Executors : pc[e] # "raised"

(* Each event an executor has found unanswered gets its patch in the end,    *)
(* from it or from another executor, unless the run is finished first or the *)
(* executor raises or is killed.  One that returns has no excuse.            *)
ReplayAnswers ==
    \A e \in Executors, i \in 1..MaxJournal :
        pc[e] = "replay" /\ i \in todo[e]
            ~> i \in applied \/ finished \/ pc[e] \in {"raised", "dead"}

(* Every executor comes to an end: the loop never spins or waits for ever.   *)
ExecutorsEnd == \A e \in Executors : Live(e) ~> ~Live(e)

AllReturned == Exists /\ \A e \in Executors : pc[e] \in {"idle", "returned"}

(* core.py: with no local work left the run is "either a genuinely finished  *)
(* run or a deliberately waiting graph".                                     *)
FinishedOrWaiting == AllReturned => finished \/ InState({"WAITING"}) # {}

=============================================================================
