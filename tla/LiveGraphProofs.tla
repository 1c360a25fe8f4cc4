--------------------------- MODULE LiveGraphProofs ---------------------------
(* What the executors of a run guarantee for any tasks, executors, workers   *)
(* and crashes: they only use the store's operations, and so keep everything *)
(* proved of the store; a side effect is entered once; no task starts before *)
(* its evidence; no task is left running; and an executor that is alone on   *)
(* its run neither raises nor returns with an outcome unanswered.            *)
EXTENDS LiveGraph, GraphStoreProofs, FiniteSetTheorems

Snapshots == [state : [Tasks -> NodeStates], deps : SUBSET (Tasks \X Tasks)]
Phases == {"idle", "called", "replay", "replanning", "fill", "waiting",
           "drain", "planning", "returned", "raised", "dead"}
WorkerStates == {"none"} \cup InProgress \cup Results

(* Every patch of the planner adds new tasks only, hangs them from tasks of  *)
(* the snapshot, and cancels what is pending or parked there.                *)
LEMMA PlanTyped ==
    ASSUME NEW s \in Snapshots, NEW nodes, NEW p \in Plan(s, nodes)
    PROVE  /\ p \in PatchType
           /\ p.wait = {} /\ p.resume = {}
           /\ p.add \cap KnownIn(s) = {}
           /\ p.cancel \subseteq {n \in Tasks : s.state[n] \in {"PENDING", "WAITING"}}
           /\ \A edge \in p.connect : edge[1] \in KnownIn(s) /\ edge[2] \in p.add
<1>. DEFINE Good(q) == /\ q \in PatchType
                      /\ q.wait = {} /\ q.resume = {}
                      /\ q.add \cap KnownIn(s) = {}
                      /\ q.cancel \subseteq {n \in Tasks : s.state[n] \in {"PENDING", "WAITING"}}
                      /\ \A edge \in q.connect : edge[1] \in KnownIn(s) /\ edge[2] \in q.add
<1>1. ASSUME NEW f \in BOOLEAN PROVE Good(Patch({}, {}, {}, f))
  BY DEF Patch, PatchType
<1>2. Good(FinishPatch) /\ Good(Fallback(s))
  <2>1. (ActiveIn(s) = {}) \in BOOLEAN
    OBVIOUS
  <2>. QED BY <1>1, <2>1 DEF FinishPatch, Fallback
<1>3. ASSUME NEW q \in Proposals(s) PROVE Good(q)
  <2>. DEFINE Choices(A, C) ==
                 [A -> SUBSET {n \in KnownIn(s) \ C : s.state[n] \notin {"FAILED", "CANCELLED"}}]
              For(A, C) == {Patch(A, Edges(s, A, parents), C, FALSE) : parents \in Choices(A, C)}
              Sets(C) == {B \in AddableSets(s) : B # {} \/ C # {} \/ ActiveIn(s) # {}}
  <2>0. PICK C \in SUBSET {n \in Tasks : s.state[n] \in {"PENDING", "WAITING"}} :
           q \in UNION {For(A, C) : A \in Sets(C)}
    BY <1>3 DEF Proposals
  <2>00. PICK A \in AddableSets(s) : q \in For(A, C)
    BY <2>0
  <2>1. PICK parents \in Choices(A, C) : q = Patch(A, Edges(s, A, parents), C, FALSE)
    BY <2>00
  <2>2. A \subseteq Tasks /\ A \cap KnownIn(s) = {}
    BY DEF AddableSets
  <2>3. ASSUME NEW n \in A PROVE DepsOf(s, n, parents[n]) \subseteq KnownIn(s)
    BY DEF DepsOf, Leaves, KnownIn
  <2>4. \A edge \in Edges(s, A, parents) : edge[1] \in KnownIn(s) /\ edge[2] \in A
    BY <2>3 DEF Edges
  <2>5. Edges(s, A, parents) \subseteq Tasks \X Tasks
    BY <2>2, <2>3 DEF Edges, KnownIn
  <2>. HIDE DEF Good
  <2>6. Good(Patch(A, Edges(s, A, parents), C, FALSE))
    <3>. DEFINE E == Edges(s, A, parents)
    <3>1. E \in SUBSET (Tasks \X Tasks) /\ \A edge \in E : edge[1] \in KnownIn(s) /\ edge[2] \in A
      BY <2>4, <2>5
    <3>. HIDE DEF E
    <3>. QED BY <2>2, <3>1 DEF Good, Patch, PatchType, E
  <2>. QED BY <2>1, <2>6
<1>. HIDE DEF Good
<1>4. Good(p)
  BY <1>2, <1>3 DEF Plan, FinishProposals
<1>. QED BY <1>4 DEF Good

(* A job is of a task.                                                       *)
LEMMA JobsOfTasks == \A j \in Jobs : j[1] \in Tasks
BY DEF Jobs

(* A worker that moves, and workers that are stopped.                        *)
LEMMA OneWorker ==
    ASSUME LiveTypeOK, NEW e \in Executors, NEW j \in Jobs, NEW w \in WorkerStates,
           worker' = [worker EXCEPT ![e][j] = w]
    PROVE  /\ worker' \in [Executors -> [Jobs -> WorkerStates]]
           /\ \A f \in Executors, i \in Jobs :
                 worker'[f][i] = IF f = e /\ i = j THEN w ELSE worker[f][i]
<1>1. worker \in [Executors -> [Jobs -> WorkerStates]]
  BY DEF LiveTypeOK, WorkerStates
<1>2. [worker[e] EXCEPT ![j] = w] \in [Jobs -> WorkerStates]
  BY <1>1
<1>. QED BY <1>1, <1>2

(* cancel() reaches those of the executor that are in progress.              *)
LEMMA StoppedWorkers ==
    ASSUME LiveTypeOK, NEW e \in Executors, NEW S, CancelWorkers(e, S)
    PROVE  /\ worker' \in [Executors -> [Jobs -> WorkerStates]]
           /\ \A f \in Executors, i \in Jobs :
                 worker'[f][i] = IF f = e /\ i[1] \in S /\ worker[f][i] \in InProgress
                                THEN "cancelled" ELSE worker[f][i]
<1>1. worker \in [Executors -> [Jobs -> WorkerStates]]
  BY DEF LiveTypeOK, WorkerStates
<1>. DEFINE row == [j \in Jobs |-> IF j[1] \in S /\ worker[e][j] \in InProgress THEN "cancelled"
                                    ELSE worker[e][j]]
<1>2. row \in [Jobs -> WorkerStates]
  BY <1>1 DEF WorkerStates, Results
<1>3. worker' = [worker EXCEPT ![e] = row]
  BY DEF CancelWorkers
<1>4. \A i \in Jobs : row[i] = IF i[1] \in S /\ worker[e][i] \in InProgress THEN "cancelled"
                                ELSE worker[e][i]
  OBVIOUS
<1>. HIDE DEF row
<1>. QED BY <1>1, <1>2, <1>3, <1>4

(* A reply of the planner is applied as an operation of the store.           *)
LEMMA ReplyIsStoreStep ==
    ASSUME LiveTypeOK, NEW e \in Executors, EndPlan(e)
    PROVE  \E p \in Plan(snap[e], journal[trg[e]].nodes) : p \in PatchType /\ ApplyPatch(p, trg[e])
<1>1. snap[e] \in Snapshots
  BY DEF LiveTypeOK, Snapshots, NodeStates
<1>2. PICK p \in Plan(snap[e], journal[trg[e]].nodes) : ApplyPatch(p, trg[e])
  BY DEF EndPlan
<1>3. p \in PatchType
  BY <1>1, PlanTyped
<1>. QED BY <1>2, <1>3

(* Whatever an executor does to the checkpoint is an operation of the store. *)
LEMMA LiveStoreStep ==
    ASSUME LiveTypeOK, [LiveNext]_liveVars
    PROVE  [StoreStep]_storeVars
<1>1. ASSUME NEW e \in Executors, ExecStart(e) \/ ExecResume(e) PROVE StoreStep
  BY <1>1 DEF ExecStart, ExecResume, StoreStep
<1>2. ASSUME NEW e \in Executors, NEW h \in Handles, NEW ok \in BOOLEAN, Callback(e, h, ok)
      PROVE  StoreStep
  BY <1>2 DEF Callback, StoreStep
<1>3. ASSUME NEW e \in Executors, EndPlan(e) PROVE StoreStep
  <2>1. trg[e] \in Nat
    BY DEF LiveTypeOK
  <2>. QED BY <1>3, <2>1, ReplyIsStoreStep DEF StoreStep
<1>4. ASSUME NEW e \in Executors, Fill(e) PROVE StoreStep
  BY <1>4 DEF Fill, StoreStep, Ready, InState
<1>5. ASSUME NEW e \in Executors, NEW j \in Jobs, DrainDeferred(e, j) PROVE StoreStep
  <2>1. j[1] \in Tasks /\ <<worker[e][j], j[1]>> \in Handles
    BY <1>5, HandleNames DEF DrainDeferred, Jobs
  <2>. QED BY <1>5, <2>1 DEF DrainDeferred, StoreStep
<1>6. ASSUME NEW e \in Executors, NEW j \in Jobs, DrainOutcome(e, j) PROVE StoreStep
  BY <1>6 DEF DrainOutcome, StoreStep, Jobs
<1>7. ASSUME NEW e \in Executors,
             \/ ReplayNext(e) \/ ReplayDone(e) \/ EndPlanDuplicate(e) \/ EndPlanRejected(e)
             \/ PlannerRaises(e) \/ FillNothing(e) \/ Wake(e) \/ BatchDone(e)
             \/ \E j \in Jobs : DrainDropped(e, j) \/ DrainRefused(e, j) \/ Work(e, j)
      PROVE  UNCHANGED storeVars
  BY <1>7 DEF ReplayNext, ReplayDone, EndPlanDuplicate, EndPlanRejected, PlannerRaises, FillNothing,
     Wake, BatchDone, DrainDropped, DrainRefused, Work, WorkerBegin, WorkerEnd
<1>8. CASE Crash \/ UNCHANGED liveVars
  BY <1>8 DEF Crash, liveVars
<1>. QED BY <1>1, <1>2, <1>3, <1>4, <1>5, <1>6, <1>7, <1>8 DEF LiveNext, Step

(* Only a worker changes the outbox or enters an operation.                  *)
LEMMA EffectsMove ==
    ASSUME [LiveNext]_liveVars
    PROVE  \/ \E e \in Executors, j \in Jobs : WorkerBegin(e, j) \/ WorkerEnd(e, j)
           \/ UNCHANGED effectVars
<1>1. ASSUME NEW e \in Executors, Step(e) PROVE UNCHANGED effectVars
  BY <1>1 DEF Step, ReplayNext, ReplayDone, EndPlan, EndPlanDuplicate, EndPlanRejected, Fill,
     FillNothing, Wake, DrainDropped, DrainDeferred, DrainOutcome, DrainRefused, BatchDone, ExecResume
<1>2. ASSUME NEW e \in Executors, ExecStart(e) \/ ExecResume(e) \/ PlannerRaises(e)
      PROVE UNCHANGED effectVars
  BY <1>2 DEF ExecStart, ExecResume, PlannerRaises
<1>. QED BY <1>1, <1>2 DEF LiveNext, Callback, Work, Crash, liveVars

(* Every step of the executors keeps the types.                              *)
LEMMA LiveTypeStep ==
    ASSUME LiveTypeOK, [LiveNext]_liveVars
    PROVE  LiveTypeOK'
<1>. DEFINE ExecOK == /\ pc \in [Executors -> Phases]
                     /\ todo \in [Executors -> SUBSET Nat]
                     /\ trg \in [Executors -> Nat]
                     /\ snap \in [Executors -> Snapshots]
                     /\ batch \in [Executors -> SUBSET Jobs]
                     /\ loop \in Executors \cup {"free"}
            EffectOK == /\ worker \in [Executors -> [Jobs -> WorkerStates]]
                        /\ outbox \in [Tasks -> {"none", "started", "ok", "fail", "job"}]
                        /\ attempts \in [Tasks -> Nat]
                        /\ crashes \in 0..MaxCrashes
<1>. USE LiveConstants
<1>0. LiveTypeOK <=> TypeOK /\ ExecOK /\ EffectOK
  BY DEF LiveTypeOK, Phases, Snapshots, NodeStates, WorkerStates
<1>00. LiveTypeOK' <=> TypeOK' /\ ExecOK' /\ EffectOK'
  BY DEF LiveTypeOK, Phases, Snapshots, NodeStates, WorkerStates
<1>1. TypeOK'
  BY LiveStoreStep, TypeStep DEF LiveTypeOK
<1>2. Snapshot \in Snapshots /\ NoSnapshot \in Snapshots
      /\ [state |-> state', deps |-> deps] \in Snapshots
  BY <1>0, <1>1 DEF Snapshot, NoSnapshot, Snapshots, TypeOK, NodeStates
<1>3. PendingTriggers \subseteq Nat /\ Len(journal') \in Nat
  BY <1>1 DEF PendingTriggers, TypeOK
<1>4. ASSUME NEW e \in Executors, Planned(e), Raised(e) \/ Continue(e) PROVE ExecOK'
  BY <1>0, <1>2, <1>4 DEF Planned, Raised, Continue, Phases
<1>5. ASSUME NEW e \in Executors, ExecStart(e) PROVE ExecOK' /\ EffectOK'
  BY <1>0, <1>5 DEF ExecStart, Phases, effectVars
<1>6. ASSUME NEW e \in Executors, ExecResume(e) PROVE ExecOK' /\ EffectOK'
  BY <1>0, <1>3, <1>6 DEF ExecResume, Phases, effectVars
<1>7. ASSUME NEW e \in Executors, NEW h \in Handles, NEW ok \in BOOLEAN, Callback(e, h, ok)
      PROVE  ExecOK' /\ EffectOK'
  BY <1>0, <1>7 DEF Callback, Phases, effectVars
<1>8. ASSUME NEW e \in Executors, ReplayNext(e) PROVE ExecOK' /\ EffectOK'
  BY <1>0, <1>2, <1>8 DEF ReplayNext, Phases, effectVars
<1>9. ASSUME NEW e \in Executors, ReplayDone(e) \/ FillNothing(e) \/ Wake(e)
      PROVE  ExecOK' /\ EffectOK'
  <2>1. CASE ReplayDone(e)
    BY <1>0, <2>1 DEF ReplayDone, Phases, effectVars
  <2>2. CASE FillNothing(e)
    BY <1>0, <2>2 DEF FillNothing, Phases, effectVars
  <2>3. CASE Wake(e)
    BY <1>0, <2>3 DEF Wake, Phases, effectVars
  <2>. QED BY <1>9, <2>1, <2>2, <2>3
<1>10. ASSUME NEW e \in Executors, EndPlan(e) \/ EndPlanDuplicate(e) PROVE ExecOK' /\ EffectOK'
  <2>1. ExecOK'
    BY <1>4, <1>10 DEF EndPlan, EndPlanDuplicate
  <2>2. worker' \in [Executors -> [Jobs -> WorkerStates]]
    BY <1>0, <1>10, StoppedWorkers DEF EndPlan, EndPlanDuplicate
  <2>. QED BY <1>0, <1>10, <2>1, <2>2 DEF EndPlan, EndPlanDuplicate, effectVars
<1>11. ASSUME NEW e \in Executors, EndPlanRejected(e) \/ PlannerRaises(e) PROVE ExecOK' /\ EffectOK'
  <2>1. ExecOK'
    BY <1>4, <1>11 DEF EndPlanRejected, PlannerRaises
  <2>. QED BY <1>0, <1>11, <2>1 DEF EndPlanRejected, PlannerRaises, effectVars
<1>12. ASSUME NEW e \in Executors, Fill(e) PROVE ExecOK' /\ EffectOK'
  <2>1. ExecOK'
    BY <1>0, <1>12 DEF Fill, Phases
  <2>2. PICK S \in SUBSET Ready :
           worker' = [worker EXCEPT ![e] =
              [j \in Jobs |-> IF j \in S \X {Cardinality(Started)} THEN "queued" ELSE @[j]]]
    BY <1>12 DEF Fill
  <2>3. worker' \in [Executors -> [Jobs -> WorkerStates]]
    BY <1>0, <2>2 DEF WorkerStates, InProgress
  <2>. QED BY <1>0, <1>12, <2>1, <2>3 DEF Fill, effectVars
<1>13. ASSUME NEW e \in Executors, NEW j \in Jobs, Pop(e, j)
       PROVE  batch' \in [Executors -> SUBSET Jobs] /\ worker' \in [Executors -> [Jobs -> WorkerStates]]
  <2>1. "none" \in WorkerStates
    BY DEF WorkerStates
  <2>. QED BY <1>0, <1>13, <2>1, OneWorker DEF Pop
<1>14. ASSUME NEW e \in Executors, NEW j \in Jobs, DrainDropped(e, j) \/ DrainDeferred(e, j)
       PROVE  ExecOK' /\ EffectOK'
  BY <1>0, <1>13, <1>14 DEF DrainDropped, DrainDeferred, effectVars
<1>15. ASSUME NEW e \in Executors, NEW j \in Jobs, DrainOutcome(e, j) PROVE ExecOK' /\ EffectOK'
  BY <1>0, <1>2, <1>3, <1>13, <1>15 DEF DrainOutcome, Phases, effectVars
<1>16. ASSUME NEW e \in Executors, NEW j \in Jobs, DrainRefused(e, j) PROVE ExecOK' /\ EffectOK'
  <2>1. worker' \in [Executors -> [Jobs -> WorkerStates]]
    BY <1>16, OneWorker DEF DrainRefused, WorkerStates
  <2>. QED BY <1>0, <1>16, <2>1 DEF DrainRefused, Raised, Phases, effectVars
<1>17. ASSUME NEW e \in Executors, BatchDone(e) PROVE ExecOK' /\ EffectOK'
  <2>1. worker' \in [Executors -> [Jobs -> WorkerStates]]
    BY <1>0, <1>17, StoppedWorkers DEF BatchDone
  <2>. QED BY <1>0, <1>17, <2>1 DEF BatchDone, Phases, effectVars
<1>18. ASSUME NEW e \in Executors, NEW j \in Jobs, WorkerBegin(e, j) PROVE ExecOK' /\ EffectOK'
  <2>1. \E w \in WorkerStates : worker' = [worker EXCEPT ![e][j] = w]
    BY <1>0, <1>18, JobsOfTasks
       DEF WorkerBegin, EnterOperation, ReuseRecord, WorkerStates, InProgress, Results
  <2>2. worker' \in [Executors -> [Jobs -> WorkerStates]]
    BY <2>1, OneWorker
  <2>3. /\ outbox' \in {outbox, [outbox EXCEPT ![j[1]] = "started"]}
        /\ attempts' \in {attempts, [attempts EXCEPT ![j[1]] = @ + 1]}
    BY <1>18 DEF WorkerBegin, EnterOperation, ReuseRecord, effectVars
  <2>4. /\ outbox' \in [Tasks -> {"none", "started", "ok", "fail", "job"}]
        /\ attempts' \in [Tasks -> Nat]
    <3>1. outbox' \in [Tasks -> {"none", "started", "ok", "fail", "job"}]
      BY <1>0, <2>3, JobsOfTasks
    <3>2. attempts[j[1]] + 1 \in Nat
      BY <1>0, JobsOfTasks
    <3>3. attempts' \in [Tasks -> Nat]
      BY <1>0, <2>3, <3>2, JobsOfTasks
    <3>. QED BY <3>1, <3>3
  <2>. QED BY <1>0, <1>18, <2>2, <2>4 DEF WorkerBegin
<1>19. ASSUME NEW e \in Executors, NEW j \in Jobs, WorkerEnd(e, j) PROVE ExecOK' /\ EffectOK'
  <2>1. PICK r \in {"ok", "fail", "job"} :
           /\ worker' = [worker EXCEPT ![e][j] = r]
           /\ outbox' = IF j[1] \in SideEffects THEN [outbox EXCEPT ![j[1]] = r] ELSE outbox
    BY <1>19 DEF WorkerEnd
  <2>2. worker' \in [Executors -> [Jobs -> WorkerStates]]
    BY <2>1, OneWorker DEF WorkerStates, Results
  <2>. QED BY <1>0, <1>19, <2>1, <2>2 DEF WorkerEnd
<1>20. ASSUME Crash PROVE ExecOK' /\ EffectOK'
  <2>1. worker' \in [Executors -> [Jobs -> WorkerStates]]
    BY <1>20 DEF Crash, WorkerStates
  <2>2. crashes' \in 0..MaxCrashes
    BY <1>0, <1>20 DEF Crash
  <2>3. pc' = [e \in Executors |-> IF Live(e) THEN "dead" ELSE pc[e]]
    BY <1>20 DEF Crash
  <2>4. pc' \in [Executors -> Phases]
    BY <1>0, <2>3 DEF Phases
  <2>5. /\ todo' \in [Executors -> SUBSET Nat] /\ trg' \in [Executors -> Nat]
        /\ snap' \in [Executors -> Snapshots] /\ batch' \in [Executors -> SUBSET Jobs]
        /\ loop' \in Executors \cup {"free"}
    BY <1>2, <1>20 DEF Crash
  <2>6. UNCHANGED effectVars
    BY <1>20 DEF Crash
  <2>. QED BY <1>0, <2>1, <2>2, <2>4, <2>5, <2>6 DEF effectVars
<1>21. ASSUME UNCHANGED liveVars PROVE ExecOK' /\ EffectOK'
  BY <1>0, <1>21 DEF liveVars, execVars, effectVars
<1>22. ExecOK' /\ EffectOK'
  <2>. DEFINE OK == ExecOK' /\ EffectOK'
  <2>1. ASSUME NEW e \in Executors, NEW j \in Jobs,
               \/ DrainDropped(e, j) \/ DrainDeferred(e, j) \/ DrainOutcome(e, j)
               \/ DrainRefused(e, j) \/ WorkerBegin(e, j) \/ WorkerEnd(e, j)
        PROVE  OK
    BY <1>14, <1>15, <1>16, <1>18, <1>19, <2>1
  <2>2. ASSUME NEW e \in Executors,
               \/ ReplayNext(e) \/ ReplayDone(e) \/ EndPlan(e) \/ EndPlanDuplicate(e)
               \/ EndPlanRejected(e) \/ Fill(e) \/ FillNothing(e) \/ Wake(e) \/ BatchDone(e)
               \/ ExecStart(e) \/ ExecResume(e) \/ PlannerRaises(e)
        PROVE  OK
    BY <1>5, <1>6, <1>8, <1>9, <1>10, <1>11, <1>12, <1>17, <2>2
  <2>. HIDE DEF OK
  <2>3. ASSUME NEW e \in Executors, NEW h \in Handles, NEW ok \in BOOLEAN, Callback(e, h, ok)
        PROVE  OK
    BY <1>7, <2>3 DEF OK
  <2>4. ASSUME Crash \/ UNCHANGED liveVars PROVE OK
    BY <1>20, <1>21, <2>4 DEF OK
  <2>5. ASSUME NEW e \in Executors, Step(e) PROVE OK
    BY <2>1, <2>2, <2>5 DEF Step
  <2>6. ASSUME NEW e \in Executors, NEW j \in Jobs, Work(e, j) PROVE OK
    BY <2>1, <2>6 DEF Work
  <2>7. OK
    BY <2>2, <2>3, <2>4, <2>5, <2>6 DEF LiveNext
  <2>. QED BY <2>7 DEF OK
<1>. QED BY <1>00, <1>1, <1>22

(* The executors, their workers and the outbox are well typed in every       *)
(* reachable state.                                                          *)
THEOREM ExecutorsTyped == LiveSpec => []LiveTypeOK
<1>1. LiveInit => LiveTypeOK
  <2>. SUFFICES ASSUME LiveInit PROVE LiveTypeOK
    OBVIOUS
  <2>1. TypeOK
    BY InitTyped DEF LiveInit
  <2>2. NoSnapshot \in [state : [Tasks -> {"absent"} \cup Active \cup Terminal], deps : SUBSET (Tasks \X Tasks)]
    BY DEF NoSnapshot
  <2>. QED BY <2>1, <2>2, LiveConstants DEF LiveInit, LiveTypeOK
<1>. QED BY <1>1, LiveTypeStep, PTL DEF LiveSpec
-----------------------------------------------------------------------------
(* The store under its executors: whatever they interleave, resume, cancel   *)
(* or lose, the graph is sound and has a ready task when it should, and a    *)
(* finished run is quiet.                                                    *)
THEOREM ExecutorsKeepGraph ==
    LiveSpec => [](GraphSound /\ NoStructuralDeadlock /\ FinishedIsQuiet)
<1>1. LiveInit => GraphSound /\ FinishedIsQuiet
  BY DEF LiveInit, Init, GraphSound, AcyclicEdges, FinishedIsQuiet
<1>2. LiveTypeOK => TypeOK
  BY DEF LiveTypeOK
<1>3. LiveTypeOK /\ GraphSound /\ FinishedIsQuiet /\ [LiveNext]_liveVars
         => GraphSound' /\ FinishedIsQuiet'
  BY <1>2, LiveStoreStep, SoundStep, QuietStep
<1>4. LiveTypeOK /\ GraphSound => NoStructuralDeadlock
  BY <1>2, SoundHasReady
<1>. QED BY <1>1, <1>3, <1>4, ExecutorsTyped, PTL DEF LiveSpec

(* ... no executor revises a decided node, a finished graph or the journal.  *)
THEOREM ExecutorsKeepDecisions == LiveSpec => DecisionsStand
<1>1. LiveTypeOK /\ FinishedIsQuiet /\ [LiveNext]_liveVars =>
        [/\ \A n \in Tasks : state[n] \in Terminal => state'[n] = state[n]
         /\ finished => finished' /\ UNCHANGED <<state, deps, applied>>
         /\ Len(journal) <= Len(journal')
         /\ \A i \in 1..Len(journal) : journal'[i] = journal[i]]_storeVars
  BY LiveStoreStep, StandStep DEF LiveTypeOK
<1>. QED BY <1>1, ExecutorsTyped, ExecutorsKeepGraph, PTL DEF LiveSpec, DecisionsStand

(* ... and a reader of verdicts sees a ledger of verdicts.                   *)
THEOREM ExecutorsImplementLedger == LiveSpec => ImplementsLedger
<1>1. LiveInit => Ledger!Init
  BY InitIsLedger DEF LiveInit
<1>2. LiveTypeOK /\ FinishedIsQuiet /\ [LiveNext]_liveVars => [Ledger!Next]_Ledger!vars
  BY LiveStoreStep, LedgerStep DEF LiveTypeOK
<1>. QED
  BY <1>1, <1>2, ExecutorsTyped, ExecutorsKeepGraph, PTL DEF LiveSpec, ImplementsLedger, Ledger!Spec
-----------------------------------------------------------------------------
(* The record is written before the operation is entered.                    *)
EnteredIsRecorded ==
    \A t \in SideEffects : attempts[t] <= 1 /\ (outbox[t] = "none" => attempts[t] = 0)

(* A side effect is entered once, whatever is resumed, launched twice,       *)
(* cancelled or killed in the middle of it.                                  *)
THEOREM EffectsAtMostOnce == LiveSpec => []AtMostOnceEffects
<1>. USE LiveConstants
<1>1. LiveInit => EnteredIsRecorded
  BY DEF LiveInit, EnteredIsRecorded
<1>2. LiveTypeOK /\ EnteredIsRecorded /\ [LiveNext]_liveVars => EnteredIsRecorded'
  <2>. SUFFICES ASSUME LiveTypeOK, EnteredIsRecorded, [LiveNext]_liveVars PROVE EnteredIsRecorded'
    OBVIOUS
  <2>0. outbox \in [Tasks -> {"none", "started", "ok", "fail", "job"}] /\ attempts \in [Tasks -> Nat]
    BY DEF LiveTypeOK
  <2>1. CASE UNCHANGED effectVars
    BY <2>1 DEF effectVars, EnteredIsRecorded
  <2>2. ASSUME NEW e \in Executors, NEW j \in Jobs, WorkerBegin(e, j) PROVE EnteredIsRecorded'
    <3>1. CASE outbox[j[1]] = "none"
      <4>1. /\ attempts' = [attempts EXCEPT ![j[1]] = @ + 1]
            /\ outbox' = IF j[1] \in SideEffects THEN [outbox EXCEPT ![j[1]] = "started"] ELSE outbox
        BY <2>2, <3>1 DEF WorkerBegin, EnterOperation
      <4>. QED BY <2>0, <3>1, <4>1 DEF EnteredIsRecorded
    <3>2. CASE outbox[j[1]] # "none"
      BY <2>1, <2>2, <3>2 DEF WorkerBegin, ReuseRecord
    <3>. QED BY <3>1, <3>2
  <2>3. ASSUME NEW e \in Executors, NEW j \in Jobs, WorkerEnd(e, j) PROVE EnteredIsRecorded'
    <3>1. PICK r \in {"ok", "fail", "job"} :
             outbox' = IF j[1] \in SideEffects THEN [outbox EXCEPT ![j[1]] = r] ELSE outbox
      BY <2>3 DEF WorkerEnd
    <3>2. UNCHANGED attempts
      BY <2>3 DEF WorkerEnd
    <3>. QED BY <2>0, <3>1, <3>2 DEF EnteredIsRecorded
  <2>4. \/ \E e \in Executors, j \in Jobs : WorkerBegin(e, j) \/ WorkerEnd(e, j)
        \/ UNCHANGED effectVars
    BY EffectsMove
  <2>. QED BY <2>1, <2>2, <2>3, <2>4
<1>3. EnteredIsRecorded => AtMostOnceEffects
  BY DEF EnteredIsRecorded, AtMostOnceEffects
<1>. QED BY <1>1, <1>2, <1>3, ExecutorsTyped, PTL DEF LiveSpec
-----------------------------------------------------------------------------
(* A started task is one the graph knows.                                    *)
StartedIsKnown ==
    \A i \in 1..Len(journal) :
        journal[i].kind = "task_started" => journal[i].nodes \subseteq Known

(* Only a start writes a task_started entry, and it names what it starts.    *)
LEMMA StartsAreMarked ==
    ASSUME TypeOK, [StoreStep]_storeVars, NEW i \in 1..Len(journal'), ~(i <= Len(journal)),
           journal'[i].kind = "task_started"
    PROVE  \E S \in SUBSET Tasks : MarkRunning(S) /\ journal'[i].nodes = S
<1>. USE DEF TypeOK
<1>1. ASSUME NEW x \in EntryType, journal' = Append(journal, x) PROVE journal'[i] = x
  BY <1>1
<1>2. ASSUME Start PROVE FALSE
  BY <1>2 DEF Start, Exists, Entry
<1>3. ASSUME Resume PROVE FALSE
  BY <1>3 DEF Resume, Entry
<1>4. ASSUME NEW S \in SUBSET Tasks, MarkRunning(S) PROVE journal'[i].nodes = S
  BY <1>4 DEF MarkRunning, Entry
<1>5. ASSUME NEW n \in Tasks, NEW ok \in BOOLEAN, RecordOutcome(n, ok) PROVE FALSE
  BY <1>5 DEF RecordOutcome, Entry, OutcomeKind
<1>6. ASSUME NEW n \in Tasks, NEW h \in Handles, RecordWaiting(n, h) PROVE FALSE
  BY <1>6 DEF RecordWaiting, Entry
<1>7. ASSUME NEW h \in Handles, NEW ok \in BOOLEAN, CompleteWaiting(h, ok) PROVE FALSE
  <2>1. PICK n \in Tasks : journal' = journal \o <<Entry("external_event_received", {n}),
                                                  Entry(OutcomeKind(ok), {n})>>
    BY <1>7 DEF CompleteWaiting
  <2>. DEFINE x == Entry("external_event_received", {n})
              y == Entry(OutcomeKind(ok), {n})
  <2>2. x.kind # "task_started" /\ y.kind # "task_started"
    BY DEF Entry, OutcomeKind
  <2>0. <<x, y>> \in Seq(EntryType)
    BY EntryTyped DEF Kinds, PlannerKinds, ExternalKinds, Outcomes, OutcomeKind
  <2>. HIDE DEF x, y
  <2>3. journal'[i] \in {x, y}
    <3>1. journal' = journal \o <<x, y>> /\ Len(<<x, y>>) = 2
      BY <2>1 DEF x, y
    <3>2. Len(journal') = Len(journal) + 2
      BY <2>0, <3>1
    <3>3. i = Len(journal) + 1 \/ i = Len(journal) + 2
      BY <3>2
    <3>. QED BY <2>0, <3>1, <3>3
  <2>. QED BY <2>2, <2>3
<1>8. ASSUME NEW j \in Nat, NEW p \in PatchType, ApplyPatch(p, j) PROVE FALSE
  BY <1>8 DEF ApplyPatch, PatchEntry
<1>9. ASSUME NEW n \in Tasks, RecordExternalEvent(n) PROVE FALSE
  BY <1>9 DEF RecordExternalEvent, Entry
<1>. QED BY <1>2, <1>3, <1>4, <1>5, <1>6, <1>7, <1>8, <1>9 DEF StoreStep, storeVars

(* An edge an executor adds leads to a task that is new.                     *)
LEMMA ParentsOfKnown ==
    ASSUME LiveTypeOK, [LiveNext]_liveVars, NEW n \in Known
    PROVE  Parents(n)' = Parents(n)
<1>1. CASE UNCHANGED deps
  BY <1>1 DEF Parents
<1>2. ASSUME NEW e \in Executors, EndPlan(e) PROVE Parents(n)' = Parents(n)
  <2>1. PICK p \in Plan(snap[e], journal[trg[e]].nodes) : ApplyPatch(p, trg[e])
    BY <1>2, ReplyIsStoreStep
  <2>2. snap[e] \in Snapshots
    BY DEF LiveTypeOK, Snapshots, NodeStates
  <2>3. \A edge \in p.connect : edge[2] \in p.add
    BY <2>2, PlanTyped
  <2>4. deps' = deps \cup p.connect /\ n \notin p.add
    BY <2>1 DEF ApplyPatch, CanPatch
  <2>5. \A q \in Tasks : <<q, n>> \in p.connect => n \in p.add
    BY <2>3
  <2>. QED BY <2>4, <2>5 DEF Parents
<1>3. (\E e \in Executors : EndPlan(e)) \/ UNCHANGED deps
  <2>1. ASSUME NEW e \in Executors, Step(e), ~EndPlan(e) PROVE UNCHANGED deps
    BY <2>1 DEF Step, ReplayNext, ReplayDone, EndPlanDuplicate, EndPlanRejected, Fill, MarkRunning,
       FillNothing, Wake, DrainDropped, DrainDeferred, RecordWaiting, DrainOutcome, RecordOutcome,
       DrainRefused, BatchDone, ExecResume, Resume, storeVars
  <2>. QED
    BY <2>1 DEF LiveNext, ExecStart, Start, ExecResume, Resume, PlannerRaises, Callback, CompleteWaiting,
       Work, WorkerBegin, WorkerEnd, Crash, liveVars, storeVars
<1>. QED BY <1>1, <1>2, <1>3

(* Every parent of a task that was ever started succeeded, and still counts  *)
(* as succeeded: no late patch hangs a started task from something else.     *)
THEOREM EvidenceAlwaysFirst == LiveSpec => []EvidenceFirst
<1>1. LiveInit => StartedIsKnown /\ EvidenceFirst
  BY DEF LiveInit, Init, StartedIsKnown, EvidenceFirst
<1>2. LiveTypeOK /\ StartedIsKnown /\ EvidenceFirst /\ [LiveNext]_liveVars
         => StartedIsKnown' /\ EvidenceFirst'
  <2>. SUFFICES ASSUME LiveTypeOK, StartedIsKnown, EvidenceFirst, [LiveNext]_liveVars,
                       NEW i \in 1..Len(journal'), journal'[i].kind = "task_started",
                       NEW n \in journal'[i].nodes
                PROVE  n \in Known' /\ \A q \in Parents(n)' : state'[q] = "SUCCEEDED"
    BY DEF StartedIsKnown, EvidenceFirst
  <2>0. TypeOK /\ [StoreStep]_storeVars
    BY LiveStoreStep DEF LiveTypeOK
  <2>1. n \in Known /\ \A q \in Parents(n) : state[q] = "SUCCEEDED"
    <3>1. CASE i <= Len(journal)
      <4>1. i \in 1..Len(journal) /\ journal'[i] = journal[i]
        BY <2>0, <3>1, JournalGrows DEF TypeOK
      <4>. QED BY <4>1 DEF StartedIsKnown, EvidenceFirst
    <3>2. CASE ~(i <= Len(journal))
      <4>1. PICK S \in SUBSET Tasks : MarkRunning(S) /\ journal'[i].nodes = S
        BY <2>0, <3>2, StartsAreMarked
      <4>. QED BY <4>1 DEF MarkRunning, Ready, InState, Known
    <3>. QED BY <3>1, <3>2
  <2>2. Parents(n)' = Parents(n)
    BY <2>1, ParentsOfKnown
  <2>3. n \in Known' /\ \A q \in Tasks : state[q] = "SUCCEEDED" => state'[q] = "SUCCEEDED"
    BY <2>0, <2>1, StatesOnlyAdvance DEF Known, Terminal
  <2>. QED BY <2>1, <2>2, <2>3 DEF Parents
<1>. QED BY <1>1, <1>2, ExecutorsTyped, PTL DEF LiveSpec
-----------------------------------------------------------------------------
(* What may become of the worker of a job:  it is forgotten, launched,       *)
(* stopped because its task was cancelled or the run is over, or moves on.   *)
Forgotten(e, j) == /\ worker'[e][j] = "none"
                   /\ \/ Crash \/ DrainDropped(e, j) \/ DrainDeferred(e, j)
                      \/ DrainOutcome(e, j) \/ DrainRefused(e, j)
Launched(e, j) == worker'[e][j] = "queued" /\ state'[j[1]] = "RUNNING" /\ pc'[e] = "waiting"
Stopped(e, j) == /\ worker'[e][j] = "cancelled" /\ worker[e][j] \in InProgress
                 /\ state'[j[1]] = "CANCELLED" \/ finished
MovesOn(e, j) == worker[e][j] \in InProgress /\ worker'[e][j] \in {"running", "ok", "fail", "job", "key"}

(* Nothing else becomes of it.                                               *)
LEMMA WorkerMoves ==
    ASSUME LiveTypeOK, [LiveNext]_liveVars, NEW e \in Executors, NEW j \in Jobs
    PROVE  \/ worker'[e][j] = worker[e][j] \/ Forgotten(e, j)
           \/ Launched(e, j) \/ Stopped(e, j) \/ MovesOn(e, j)
<1>. DEFINE Moved == \/ worker'[e][j] = worker[e][j] \/ Forgotten(e, j)
                     \/ Launched(e, j) \/ Stopped(e, j) \/ MovesOn(e, j)
<1>0. /\ worker \in [Executors -> [Jobs -> WorkerStates]]
      /\ state \in [Tasks -> NodeStates] /\ pc \in [Executors -> Phases]
      /\ outbox \in [Tasks -> {"none", "started", "ok", "fail", "job"}]
  BY DEF LiveTypeOK, TypeOK, NodeStates, WorkerStates, Phases
<1>1. ASSUME UNCHANGED worker PROVE Moved
  BY <1>1
<1>2. ASSUME NEW f \in Executors, NEW S, CancelWorkers(f, S),
             j[1] \in S => state'[j[1]] = "CANCELLED" \/ finished
      PROVE  Moved
  BY <1>2, StoppedWorkers DEF Stopped
<1>3. ASSUME NEW f \in Executors, EndPlan(f) PROVE Moved
  BY <1>1, <1>2, <1>3 DEF EndPlan
<1>4. ASSUME NEW f \in Executors, EndPlanDuplicate(f) PROVE Moved
  <2>1. j[1] \in InState({"CANCELLED"}) => state'[j[1]] = "CANCELLED"
    BY <1>4 DEF EndPlanDuplicate, InState, storeVars
  <2>. QED BY <1>1, <1>2, <1>4, <2>1 DEF EndPlanDuplicate
<1>5. ASSUME NEW f \in Executors, BatchDone(f) PROVE Moved
  BY <1>1, <1>2, <1>5 DEF BatchDone
<1>6. ASSUME NEW f \in Executors, Fill(f) PROVE Moved
  <2>1. PICK S \in SUBSET Ready :
           /\ MarkRunning(S)
           /\ worker' = [worker EXCEPT ![f] =
                 [i \in Jobs |-> IF i \in S \X {Cardinality(Started)} THEN "queued" ELSE @[i]]]
    BY <1>6 DEF Fill
  <2>2. worker'[e][j] = IF e = f /\ j \in S \X {Cardinality(Started)} THEN "queued" ELSE worker[e][j]
    BY <1>0, <2>1
  <2>3. j \in S \X {Cardinality(Started)} => state'[j[1]] = "RUNNING"
    BY <2>1 DEF MarkRunning, Jobs
  <2>4. pc'[f] = "waiting"
    BY <1>0, <1>6 DEF Fill
  <2>. QED BY <2>2, <2>3, <2>4 DEF Launched
<1>7. ASSUME NEW f \in Executors, NEW i \in Jobs,
             DrainDropped(f, i) \/ DrainDeferred(f, i) \/ DrainOutcome(f, i) \/ DrainRefused(f, i)
      PROVE  Moved
  <2>1. worker' = [worker EXCEPT ![f][i] = "none"]
    BY <1>7 DEF DrainDropped, DrainDeferred, DrainOutcome, DrainRefused, Pop
  <2>2. \/ worker'[e][j] = worker[e][j]
        \/ worker'[e][j] = "none" /\ e = f /\ j = i
    BY <2>1, OneWorker DEF WorkerStates
  <2>. QED BY <1>7, <2>2 DEF Forgotten
<1>9. ASSUME NEW f \in Executors, NEW i \in Jobs, NEW w \in {"running", "ok", "fail", "job", "key"},
             worker[f][i] \in InProgress, worker' = [worker EXCEPT ![f][i] = w]
      PROVE  Moved
  <2>1. w \in WorkerStates
    BY DEF WorkerStates, InProgress, Results
  <2>. QED BY <1>9, <2>1, OneWorker DEF MovesOn
<1>10. ASSUME NEW f \in Executors, NEW i \in Jobs, Work(f, i) PROVE Moved
  <2>1. \E w \in {"running", "ok", "fail", "job", "key"} : worker' = [worker EXCEPT ![f][i] = w]
    <3>1. CASE WorkerBegin(f, i)
      BY <1>0, <3>1, JobsOfTasks DEF WorkerBegin, EnterOperation, ReuseRecord
    <3>2. CASE WorkerEnd(f, i)
      BY <3>2 DEF WorkerEnd
    <3>. QED BY <1>10, <3>1, <3>2 DEF Work
  <2>2. worker[f][i] \in InProgress
    BY <1>10 DEF Work, WorkerBegin, WorkerEnd, InProgress
  <2>. QED BY <1>9, <2>1, <2>2
<1>11. ASSUME Crash PROVE Moved
  BY <1>11 DEF Crash, Forgotten
<1>12. ASSUME NEW f \in Executors,
              \/ ReplayNext(f) \/ ReplayDone(f) \/ EndPlanRejected(f) \/ FillNothing(f) \/ Wake(f)
              \/ ExecStart(f) \/ ExecResume(f) \/ PlannerRaises(f)
       PROVE  Moved
  <2>1. UNCHANGED worker
    BY <1>12 DEF ReplayNext, ReplayDone, EndPlanRejected, FillNothing, Wake, ExecStart, ExecResume,
       PlannerRaises
  <2>. QED BY <1>1, <2>1
<1>13. ASSUME NEW f \in Executors, NEW h \in Handles, NEW ok \in BOOLEAN, Callback(f, h, ok)
       PROVE  Moved
  BY <1>1, <1>13 DEF Callback
<1>14. ASSUME UNCHANGED liveVars PROVE Moved
  BY <1>1, <1>14 DEF liveVars, execVars
<1>. HIDE DEF Moved
<1>15. ASSUME NEW f \in Executors, Step(f) PROVE Moved
  BY <1>3, <1>4, <1>5, <1>6, <1>7, <1>12, <1>15 DEF Step
<1>16. Moved
  BY <1>10, <1>11, <1>12, <1>13, <1>14, <1>15 DEF LiveNext
<1>. QED BY <1>16 DEF Moved

(* A worker is of a task the graph knows, and a stopped one of a task that   *)
(* was decided.                                                              *)
WorkersKnown == \A e \in Executors, j \in Jobs : worker[e][j] # "none" => state[j[1]] # "absent"
StoppedIsDecided ==
    \A e \in Executors, j \in Jobs : worker[e][j] = "cancelled" => state[j[1]] \in Terminal

(* Every step keeps them so.                                                 *)
LEMMA WorkersStand ==
    ASSUME LiveTypeOK, FinishedIsQuiet, WorkersKnown, StoppedIsDecided, [LiveNext]_liveVars
    PROVE  WorkersKnown' /\ StoppedIsDecided'
<1>0. TypeOK /\ [StoreStep]_storeVars
  BY LiveStoreStep DEF LiveTypeOK
<1>. SUFFICES ASSUME NEW e \in Executors, NEW j \in Jobs
              PROVE  /\ worker'[e][j] # "none" => state'[j[1]] # "absent"
                     /\ worker'[e][j] = "cancelled" => state'[j[1]] \in Terminal
  BY DEF WorkersKnown, StoppedIsDecided
<1>1. /\ worker[e][j] # "none" => state[j[1]] # "absent"
      /\ worker[e][j] = "cancelled" => state[j[1]] \in Terminal
  BY DEF WorkersKnown, StoppedIsDecided
<1>. DEFINE t == j[1]
<1>2. t \in Tasks
  BY DEF Jobs
<1>5. /\ state[t] \in Terminal => state'[t] = state[t]
      /\ state[t] # "absent" => state'[t] # "absent"
  BY <1>0, <1>2, StatesOnlyAdvance
<1>3. CASE Stopped(e, j)
  <2>1. worker[e][j] # "none"
    BY <1>3 DEF Stopped, InProgress
  <2>2. finished => state[t] \in Terminal
    BY <1>0, <1>1, <1>2, <2>1 DEF FinishedIsQuiet, InState, TypeOK
  <2>. QED BY <1>1, <1>5, <1>3, <2>1, <2>2 DEF Stopped, Terminal
<1>4. CASE ~Stopped(e, j)
  BY <1>1, <1>5, <1>4, WorkerMoves DEF Forgotten, Launched, MovesOn, InProgress
<1>. QED BY <1>3, <1>4

(* An executor ends by raising, by dying, or with nothing in flight.         *)
LEMMA LiveStays ==
    ASSUME LiveTypeOK, [LiveNext]_liveVars, NEW e \in Executors, Live(e),
           pc'[e] \notin {"raised", "dead"}, InFlight(e) # {}
    PROVE  Live(e)'
<1>0. pc \in [Executors -> Phases]
  BY DEF LiveTypeOK, Phases
<1>1. ASSUME NEW f \in Executors, NEW w, pc' = [pc EXCEPT ![f] = w],
             w \notin {"idle", "returned"}
      PROVE  Live(e)'
  BY <1>0, <1>1 DEF Live
<1>2. ASSUME UNCHANGED pc PROVE Live(e)'
  BY <1>2 DEF Live
<1>3. ASSUME NEW f \in Executors, FillNothing(f) PROVE Live(e)'
  BY <1>0, <1>3 DEF FillNothing, Live
<1>4. ASSUME NEW f \in Executors, EndPlan(f) \/ EndPlanDuplicate(f) PROVE Live(e)'
  BY <1>0, <1>4 DEF EndPlan, EndPlanDuplicate, Continue, Live
<1>5. ASSUME NEW f \in Executors,
             \/ ReplayNext(f) \/ ReplayDone(f) \/ EndPlanRejected(f) \/ Fill(f) \/ Wake(f)
             \/ BatchDone(f) \/ ExecResume(f) \/ ExecStart(f) \/ PlannerRaises(f)
      PROVE  Live(e)'
  <2>1. \E w \in {"replanning", "fill", "raised", "waiting", "drain", "replay"} :
            pc' = [pc EXCEPT ![f] = w]
    BY <1>5 DEF ReplayNext, ReplayDone, EndPlanRejected, Fill, Wake, BatchDone, ExecResume, ExecStart,
       PlannerRaises, Raised
  <2>. QED BY <1>1, <2>1
<1>6. ASSUME NEW f \in Executors, NEW j \in Jobs,
             DrainDropped(f, j) \/ DrainDeferred(f, j) \/ DrainOutcome(f, j) \/ DrainRefused(f, j)
      PROVE  Live(e)'
  BY <1>1, <1>2, <1>6 DEF DrainDropped, DrainDeferred, DrainOutcome, DrainRefused, Raised
<1>7. ASSUME NEW f \in Executors, NEW j \in Jobs, Work(f, j) PROVE Live(e)'
  BY <1>2, <1>7 DEF Work, WorkerBegin, WorkerEnd
<1>8. ASSUME NEW f \in Executors, NEW h \in Handles, NEW ok \in BOOLEAN, Callback(f, h, ok)
      PROVE  Live(e)'
  <2>1. pc' = [pc EXCEPT ![f] = "called"]
    BY <1>8 DEF Callback
  <2>. QED BY <1>1, <2>1
<1>9. ASSUME Crash PROVE FALSE
  BY <1>9 DEF Crash
<1>10. ASSUME UNCHANGED liveVars PROVE Live(e)'
  BY <1>2, <1>10 DEF liveVars, execVars
<1>. QED BY <1>3, <1>4, <1>5, <1>6, <1>7, <1>8, <1>9, <1>10 DEF LiveNext, Step

(* An executor numbers what it launches by the executors started so far.     *)
LEMMA LaunchNumber ==
    ASSUME NEW e \in Executors, pc[e] # "idle"
    PROVE  Cardinality(Started) \in 1..Cardinality(Executors)
<1>1. IsFiniteSet(Executors) /\ Started \subseteq Executors /\ e \in Started
  BY LiveConstants DEF Started
<1>2. /\ IsFiniteSet(Started) /\ Cardinality(Started) <= Cardinality(Executors)
      /\ Cardinality(Started) \in Nat /\ Cardinality(Executors) \in Nat
  BY <1>1, FS_Subset, FS_CardinalityType
<1>3. Cardinality(Started) # 0
  BY <1>1, <1>2, FS_EmptySet
<1>. QED BY <1>2, <1>3

(* A task becomes RUNNING as an executor launches a job of it.               *)
LEMMA RunningIsLaunched ==
    ASSUME LiveTypeOK, [LiveNext]_liveVars, NEW t \in Tasks,
           state[t] # "RUNNING", state'[t] = "RUNNING"
    PROVE  \E e \in Executors, j \in Jobs : j[1] = t /\ Launched(e, j)
<1>0. state \in [Tasks -> NodeStates] /\ worker \in [Executors -> [Jobs -> WorkerStates]]
      /\ pc \in [Executors -> Phases]
  BY DEF LiveTypeOK, TypeOK, NodeStates, WorkerStates, Phases
<1>1. ASSUME UNCHANGED state PROVE FALSE
  BY <1>1
<1>2. ASSUME NEW e \in Executors, Fill(e)
      PROVE  \E j \in Jobs : j[1] = t /\ Launched(e, j)
  <2>. DEFINE number == Cardinality(Started)
              j == <<t, number>>
  <2>1. PICK S \in SUBSET Ready :
           /\ MarkRunning(S)
           /\ worker' = [worker EXCEPT ![e] = [i \in Jobs |-> IF i \in S \X {number} THEN "queued" ELSE @[i]]]
    BY <1>2 DEF Fill
  <2>2. t \in S
    BY <1>0, <2>1 DEF MarkRunning
  <2>5. number \in 1..Cardinality(Executors)
    BY <1>2, LaunchNumber DEF Fill
  <2>. HIDE DEF number
  <2>6. j \in Jobs /\ j[1] = t /\ j \in S \X {number}
    BY <2>2, <2>5 DEF Jobs
  <2>3. worker'[e][j] = "queued"
    BY <1>0, <2>1, <2>6
  <2>4. pc'[e] = "waiting"
    BY <1>0, <1>2 DEF Fill
  <2>. QED BY <2>3, <2>4, <2>6 DEF Launched
<1>3. ASSUME Resume PROVE FALSE
  BY <1>0, <1>3 DEF Resume
<1>4. ASSUME NEW n \in Tasks, NEW ok \in BOOLEAN, RecordOutcome(n, ok) PROVE FALSE
  BY <1>0, <1>4 DEF RecordOutcome, OutcomeState
<1>5. ASSUME NEW n \in Tasks, NEW h, RecordWaiting(n, h) PROVE FALSE
  BY <1>0, <1>5 DEF RecordWaiting
<1>6. ASSUME NEW h \in Handles, NEW ok \in BOOLEAN, CompleteWaiting(h, ok) PROVE FALSE
  BY <1>0, <1>6 DEF CompleteWaiting, OutcomeState
<1>7. ASSUME NEW p, NEW i, ApplyPatch(p, i) PROVE FALSE
  <2>1. state'[t] = IF t \in LeftOpen(p) THEN "CANCELLED" ELSE Revised(p)[t]
    BY <1>7 DEF ApplyPatch, StateAfter
  <2>2. Revised(p)[t] = "RUNNING" => state[t] = "RUNNING"
    BY DEF Revised
  <2>. QED BY <2>1, <2>2
<1>8. ASSUME NEW e \in Executors, NEW i \in Jobs,
             DrainDropped(e, i) \/ DrainDeferred(e, i) \/ DrainOutcome(e, i) \/ DrainRefused(e, i)
      PROVE  FALSE
  BY <1>1, <1>4, <1>5, <1>8, JobsOfTasks DEF DrainDropped, DrainDeferred, DrainOutcome, DrainRefused, storeVars
<1>9. ASSUME NEW e \in Executors, EndPlan(e) PROVE FALSE
  BY <1>7, <1>9 DEF EndPlan
<1>10. ASSUME NEW e \in Executors, ExecStart(e) \/ ExecResume(e) PROVE FALSE
  BY <1>1, <1>3, <1>10 DEF ExecStart, ExecResume, Start
<1>11. ASSUME NEW e \in Executors,
              \/ ReplayNext(e) \/ ReplayDone(e) \/ EndPlanDuplicate(e) \/ EndPlanRejected(e)
              \/ PlannerRaises(e) \/ FillNothing(e) \/ Wake(e) \/ BatchDone(e)
              \/ \E i \in Jobs : Work(e, i)
       PROVE  FALSE
  BY <1>1, <1>11 DEF ReplayNext, ReplayDone, EndPlanDuplicate, EndPlanRejected, PlannerRaises,
     FillNothing, Wake, BatchDone, Work, WorkerBegin, WorkerEnd, storeVars
<1>12. ASSUME NEW e \in Executors, NEW h \in Handles, NEW ok \in BOOLEAN, Callback(e, h, ok) PROVE FALSE
  BY <1>6, <1>12 DEF Callback
<1>13. ASSUME Crash \/ UNCHANGED liveVars PROVE FALSE
  BY <1>1, <1>13 DEF Crash, liveVars, storeVars
<1>14. ASSUME NEW e \in Executors, Step(e) PROVE Fill(e)
  BY <1>8, <1>9, <1>10, <1>11, <1>14 DEF Step
<1>. QED BY <1>2, <1>10, <1>11, <1>12, <1>13, <1>14 DEF LiveNext

(* An executor that raised or died stays so.                                 *)
LEMMA EndedStands ==
    ASSUME LiveTypeOK, [LiveNext]_liveVars, NEW e \in Executors, pc[e] \in {"returned", "raised", "dead"}
    PROVE  pc'[e] = pc[e]
<1>0. pc \in [Executors -> Phases]
  BY DEF LiveTypeOK, Phases
<1>1. ASSUME NEW f \in Executors, f # e, NEW w, pc' = [pc EXCEPT ![f] = w] PROVE pc'[e] = pc[e]
  BY <1>0, <1>1
<1>2. ASSUME NEW f \in Executors, Step(f) PROVE pc'[e] = pc[e]
  <2>1. pc[f] \notin {"returned", "raised", "dead"}
    BY <1>2 DEF Step, ReplayNext, ReplayDone, EndPlan, EndPlanDuplicate, EndPlanRejected, Planned, Fill,
       FillNothing, Wake, DrainDropped, DrainDeferred, DrainOutcome, DrainRefused, Pop, BatchDone, ExecResume
  <2>2. UNCHANGED pc \/ \E w \in Phases : pc' = [pc EXCEPT ![f] = w]
    BY <1>2 DEF Step, ReplayNext, ReplayDone, EndPlan, EndPlanDuplicate, EndPlanRejected, Continue, Raised,
       Fill, FillNothing, Wake, DrainDropped, DrainDeferred, DrainOutcome, DrainRefused, BatchDone,
       ExecResume, Phases
  <2>. QED BY <1>1, <2>1, <2>2
<1>3. ASSUME NEW f \in Executors, ExecStart(f) \/ ExecResume(f) \/ PlannerRaises(f) PROVE pc'[e] = pc[e]
  <2>1. pc[f] \notin {"returned", "raised", "dead"}
    BY <1>3 DEF ExecStart, ExecResume, PlannerRaises, Planned
  <2>. QED BY <1>1, <1>3, <2>1 DEF ExecStart, ExecResume, PlannerRaises, Raised
<1>4. ASSUME NEW f \in Executors, NEW h \in Handles, NEW ok \in BOOLEAN, Callback(f, h, ok)
      PROVE  pc'[e] = pc[e]
  BY <1>1, <1>4 DEF Callback
<1>5. ASSUME Crash PROVE pc'[e] = pc[e]
  BY <1>0, <1>5 DEF Crash, Live
<1>6. ASSUME NEW f \in Executors, NEW j \in Jobs, Work(f, j) PROVE pc'[e] = pc[e]
  BY <1>6 DEF Work, WorkerBegin, WorkerEnd
<1>. QED BY <1>2, <1>3, <1>4, <1>5, <1>6 DEF LiveNext, liveVars, execVars

(* The worker of a task that stays RUNNING is not forgotten, unless its      *)
(* executor ends there.                                                      *)
LEMMA LastWorker ==
    ASSUME LiveTypeOK, StoppedIsDecided, NEW e \in Executors, NEW j \in Jobs, Live(e),
           state[j[1]] = "RUNNING", state'[j[1]] = "RUNNING", pc'[e] \notin {"raised", "dead"}
    PROVE  ~Forgotten(e, j)
<1>0. state \in [Tasks -> NodeStates] /\ pc \in [Executors -> Phases] /\ j[1] \in Tasks
  BY DEF LiveTypeOK, TypeOK, NodeStates, Phases, Jobs
<1>1. ~Crash
  BY <1>0 DEF Crash
<1>2. ~DrainDropped(e, j)
  BY DEF DrainDropped, Dropped, StoppedIsDecided, Terminal
<1>3. ~DrainDeferred(e, j)
  BY <1>0 DEF DrainDeferred, RecordWaiting
<1>4. ~DrainOutcome(e, j)
  BY <1>0 DEF DrainOutcome, RecordOutcome, OutcomeState
<1>5. ~DrainRefused(e, j)
  BY DEF DrainRefused
<1>. QED BY <1>1, <1>2, <1>3, <1>4, <1>5 DEF Forgotten

(* No task is left RUNNING without a worker of a live executor, as long as   *)
(* no executor died or raised: not by two executors, by a late answer, or by *)
(* a cancellation.                                                           *)
THEOREM NoTaskOrphaned == LiveSpec => []NoOrphans
<1>1. LiveInit => WorkersKnown /\ StoppedIsDecided /\ NoOrphans
  BY DEF LiveInit, Init, WorkersKnown, StoppedIsDecided, NoOrphans, InState
<1>2. LiveTypeOK /\ FinishedIsQuiet /\ WorkersKnown /\ StoppedIsDecided /\ NoOrphans
         /\ [LiveNext]_liveVars => WorkersKnown' /\ StoppedIsDecided' /\ NoOrphans'
  <2>. SUFFICES ASSUME LiveTypeOK, FinishedIsQuiet, WorkersKnown, StoppedIsDecided, NoOrphans,
                       [LiveNext]_liveVars
                PROVE  NoOrphans'
    BY WorkersStand
  <2>. SUFFICES ASSUME \A e \in Executors : pc'[e] \notin {"raised", "dead"},
                       NEW t \in Tasks, state'[t] = "RUNNING"
                PROVE  \E e \in Executors, j \in Jobs :
                          j[1] = t /\ Live(e)' /\ worker'[e][j] # "none"
    BY DEF NoOrphans, InState, InFlight, Jobs
  <2>1. CASE state[t] # "RUNNING"
    BY <2>1, RunningIsLaunched DEF Launched, Live
  <2>2. CASE state[t] = "RUNNING"
    <3>1. \A e \in Executors : pc[e] \notin {"raised", "dead"}
      BY EndedStands
    <3>2. PICK e \in Executors, j \in Jobs : j[1] = t /\ Live(e) /\ worker[e][j] # "none"
      BY <2>2, <3>1 DEF NoOrphans, InState, InFlight
    <3>3. Live(e)'
      BY <3>2, LiveStays DEF InFlight
    <3>4. ~Forgotten(e, j)
      BY <2>2, <3>2, LastWorker
    <3>5. worker'[e][j] # "none"
      BY <3>2, <3>4, WorkerMoves DEF Launched, Stopped, MovesOn
    <3>. QED BY <3>2, <3>3, <3>5
  <2>. QED BY <2>1, <2>2
<1>. QED BY <1>1, <1>2, ExecutorsTyped, ExecutorsKeepGraph, PTL DEF LiveSpec
-----------------------------------------------------------------------------
(* One executor at a time.  Planning is in progress:                         *)
Asking(e) == pc[e] \in {"planning", "replanning"}

(* The executor at work is alone.                                            *)
Alone == \A e, f \in Executors : Live(e) /\ Live(f) => e = f

(* It works on a run that exists; before it first launches, and after it     *)
(* has ended, it has no workers.                                             *)
Idles(e) == ~Live(e) \/ pc[e] \in {"called", "replay", "replanning"}
WorkersInPhase(e) == /\ Live(e) => Exists
                     /\ Idles(e) => \A j \in Jobs : worker[e][j] = "none"

(* The planner answers for the graph as it still is.                         *)
SnapshotStands(e) == Asking(e) => snap[e] = Snapshot /\ ~finished

(* A worker, drained or not, is of a task that runs or was cancelled, and a  *)
(* task has one.                                                             *)
WorkersOfRunning(e) ==
    /\ \A j \in Jobs : worker[e][j] # "none" => state[j[1]] \in {"RUNNING", "CANCELLED"}
    /\ \A i, j \in Jobs : worker[e][i] # "none" /\ worker[e][j] # "none" /\ i[1] = j[1] => i = j
    /\ \A j \in batch[e] : worker[e][j] # "none"

(* The events still unanswered are those the executor has in hand.           *)
InHand(e) == CASE pc[e] = "planning"   -> {trg[e]}
               [] pc[e] = "replay"     -> todo[e]
               [] pc[e] = "replanning" -> todo[e] \cup {trg[e]}
               [] OTHER                -> {}
PendingInHand(e) == Live(e) /\ pc[e] # "called" => finished \/ PendingTriggers \subseteq InHand(e)

Orderly(e) == /\ WorkersInPhase(e) /\ SnapshotStands(e) /\ WorkersOfRunning(e)
              /\ PendingInHand(e) /\ pc[e] # "raised"
SoloInv == Alone /\ \A e \in Executors : Orderly(e)

(* A patch planned on the graph as it is passes every check of apply_patch.  *)
LEMMA FreshPlanApplies ==
    ASSUME TypeOK, GraphSound, ~finished, NEW nodes, NEW p \in Plan(Snapshot, nodes)
    PROVE  CanPatch(p)
<1>1. Snapshot \in Snapshots
  BY DEF Snapshot, Snapshots, TypeOK, NodeStates
<1>2. KnownIn(Snapshot) = Known /\ \A n \in Tasks : Snapshot.state[n] = state[n]
  BY DEF KnownIn, Snapshot, Known
<1>3. /\ p \in PatchType /\ p.wait = {} /\ p.resume = {}
      /\ p.add \cap Known = {}
      /\ p.cancel \subseteq InState(Active)
      /\ \A edge \in p.connect : edge[1] \in Known /\ edge[2] \in p.add
  BY <1>1, <1>2, PlanTyped DEF InState, Active
<1>4. AcyclicEdges(deps \cup p.connect)
  <2>. SUFFICES ASSUME NEW S \in SUBSET Tasks, S # {}
                PROVE  \E n \in S : \A q \in S : <<q, n>> \notin deps \cup p.connect
    BY DEF AcyclicEdges
  <2>1. CASE S \cap Known # {}
    <3>1. PICK n \in S \cap Known : \A q \in S \cap Known : <<q, n>> \notin deps
      BY <2>1 DEF GraphSound, AcyclicEdges
    <3>2. \A q \in S : <<q, n>> \in deps => q \in Known
      BY DEF GraphSound
    <3>3. \A q \in S : <<q, n>> \notin p.connect
      BY <1>3, <3>1
    <3>. QED BY <3>1, <3>2, <3>3
  <2>2. CASE S \cap Known = {}
    <3>1. PICK n \in S : TRUE
      OBVIOUS
    <3>2. \A q \in S : <<q, n>> \notin deps
      BY <2>2, <3>1 DEF GraphSound
    <3>3. \A q \in S : <<q, n>> \notin p.connect
      BY <1>3, <2>2
    <3>. QED BY <3>1, <3>2, <3>3
  <2>. QED BY <2>1, <2>2
<1>. QED BY <1>3, <1>4 DEF CanPatch

(* An event joins the unanswered ones only as its entry is journalled.       *)
LEMMA PendingGrows ==
    ASSUME TypeOK, NEW x \in EntryType, journal' = Append(journal, x), applied \subseteq applied'
    PROVE  /\ PendingTriggers' \subseteq (PendingTriggers \cup {Len(journal')}) \ applied'
           /\ x.kind \notin PlannerKinds => PendingTriggers' \subseteq PendingTriggers \ applied'
<1>1. /\ Len(journal') = Len(journal) + 1 /\ journal'[Len(journal')] = x
      /\ \A i \in 1..Len(journal) : journal'[i] = journal[i]
  BY DEF TypeOK
<1>. QED BY <1>1 DEF PendingTriggers, TypeOK
(* The step of one executor, and of its workers.                             *)
Acts(e) == \/ ExecStart(e) \/ ExecResume(e) \/ Step(e)
           \/ \E h \in Handles, ok \in BOOLEAN : Callback(e, h, ok)
           \/ \E j \in Jobs : Work(e, j)

(* Nothing of another executor is touched.                                   *)
Untouched(f) == /\ pc'[f] = pc[f] /\ todo'[f] = todo[f] /\ trg'[f] = trg[f]
                /\ snap'[f] = snap[f] /\ batch'[f] = batch[f] /\ worker'[f] = worker[f]

(* A lone executor's steps leave the others untouched, and they are at rest. *)
LEMMA OneActs ==
    ASSUME LiveTypeOK, SoloInv, ~Overlap, NEW e \in Executors, Acts(e), NEW f \in Executors, f # e
    PROVE  ~Live(f) /\ Untouched(f)
<1>1. ~Live(f)
  <2>1. CASE Live(e)
    BY <2>1 DEF SoloInv, Alone
  <2>2. CASE ~Live(e)
    <3>1. Quiet \/ ~Exists
      <4>1. ~Step(e) \/ ExecResume(e)
        BY <2>2 DEF Step, ReplayNext, ReplayDone, EndPlan, EndPlanDuplicate, EndPlanRejected, Planned, Fill,
           FillNothing, Wake, DrainDropped, DrainDeferred, DrainOutcome, DrainRefused, Pop, BatchDone, Live
      <4>2. ASSUME ExecStart(e) PROVE ~Exists
        BY <4>2 DEF ExecStart, Start
      <4>3. ASSUME ExecResume(e) PROVE Quiet
        BY <2>2, <4>3 DEF ExecResume, Live
      <4>4. ASSUME NEW h \in Handles, NEW ok \in BOOLEAN, Callback(e, h, ok) PROVE Quiet
        BY <4>4 DEF Callback
      <4>5. ASSUME NEW j \in Jobs, Work(e, j) PROVE FALSE
        BY <2>2, <4>5 DEF Work, WorkerBegin, WorkerEnd, SoloInv, Orderly, WorkersInPhase, Idles
      <4>. QED BY <4>1, <4>2, <4>3, <4>4, <4>5 DEF Acts
    <3>. QED BY <3>1 DEF Quiet, SoloInv, Orderly, WorkersInPhase
  <2>. QED BY <2>1, <2>2
<1>0. /\ pc \in [Executors -> Phases] /\ todo \in [Executors -> SUBSET Nat] /\ trg \in [Executors -> Nat]
      /\ snap \in [Executors -> Snapshots] /\ batch \in [Executors -> SUBSET Jobs]
      /\ worker \in [Executors -> [Jobs -> WorkerStates]]
  BY DEF LiveTypeOK, Snapshots, NodeStates, WorkerStates, Phases
<1>2. ASSUME ExecStart(e) \/ ExecResume(e) PROVE Untouched(f)
  BY <1>0, <1>2 DEF ExecStart, ExecResume, Untouched
<1>3. ASSUME NEW h \in Handles, NEW ok \in BOOLEAN, Callback(e, h, ok) PROVE Untouched(f)
  BY <1>0, <1>3 DEF Callback, Untouched
<1>4. ASSUME NEW j \in Jobs, Work(e, j) PROVE Untouched(f)
  BY <1>0, <1>4 DEF Work, WorkerBegin, WorkerEnd, EnterOperation, ReuseRecord, Untouched
<1>5. ASSUME Planned(e), Raised(e) \/ Continue(e), UNCHANGED worker \/ \E S : CancelWorkers(e, S)
      PROVE  Untouched(f)
  BY <1>0, <1>5 DEF Planned, Raised, Continue, CancelWorkers, Untouched
<1>6. ASSUME EndPlan(e) \/ EndPlanDuplicate(e) \/ EndPlanRejected(e) PROVE Untouched(f)
  BY <1>5, <1>6 DEF EndPlan, EndPlanDuplicate, EndPlanRejected
<1>7. ASSUME ReplayNext(e) \/ ReplayDone(e) \/ Fill(e) \/ FillNothing(e) \/ Wake(e) PROVE Untouched(f)
  BY <1>0, <1>7 DEF ReplayNext, ReplayDone, Fill, FillNothing, Wake, Untouched
<1>8. ASSUME BatchDone(e) PROVE Untouched(f)
  BY <1>0, <1>8 DEF BatchDone, CancelWorkers, Untouched
<1>9. ASSUME NEW j \in Jobs,
             DrainDropped(e, j) \/ DrainDeferred(e, j) \/ DrainOutcome(e, j) \/ DrainRefused(e, j)
      PROVE  Untouched(f)
  BY <1>0, <1>9 DEF DrainDropped, DrainDeferred, DrainOutcome, DrainRefused, Pop, Raised, Untouched
<1>10. ASSUME Step(e) PROVE Untouched(f)
  BY <1>2, <1>6, <1>7, <1>8, <1>9, <1>10 DEF Step
<1>. QED BY <1>1, <1>2, <1>3, <1>4, <1>10 DEF Acts
(* Starting, resuming and calling back leave the executor orderly.           *)
LEMMA OrderlyStarts ==
    ASSUME LiveTypeOK, SoloInv, ~Overlap, NEW e \in Executors,
           \/ ExecStart(e) \/ ExecResume(e)
           \/ \E h \in Handles, ok \in BOOLEAN : Callback(e, h, ok)
    PROVE  Orderly(e)'
<1>0. /\ pc \in [Executors -> Phases] /\ todo \in [Executors -> SUBSET Nat]
      /\ batch \in [Executors -> SUBSET Jobs] /\ TypeOK
  BY DEF LiveTypeOK, Phases
<1>1. \A f \in Executors, j \in Jobs : worker[f][j] = "none"
  <2>1. Quiet \/ ~Exists \/ pc[e] = "called"
    BY DEF ExecStart, Start, ExecResume, Callback
  <2>2. ASSUME NEW f \in Executors PROVE Idles(f)
    <3>1. CASE Quiet
      BY <3>1 DEF Quiet, Idles
    <3>2. CASE ~Exists
      BY <3>2 DEF SoloInv, Orderly, WorkersInPhase, Idles
    <3>3. CASE pc[e] = "called"
      BY <3>3 DEF SoloInv, Alone, Idles, Live
    <3>. QED BY <2>1, <3>1, <3>2, <3>3
  <2>. QED BY <2>2 DEF SoloInv, Orderly, WorkersInPhase
<1>2. batch[e] = {}
  BY <1>0, <1>1 DEF SoloInv, Orderly, WorkersOfRunning
<1>3. CASE ExecStart(e)
  <2>1. pc'[e] = "replay" /\ todo'[e] = {1} /\ UNCHANGED <<worker, batch>> /\ Start
    BY <1>0, <1>3 DEF ExecStart
  <2>2. Exists' /\ PendingTriggers' \subseteq {1}
    <3>. DEFINE x == Entry("run_started", {})
    <3>1. journal' = <<x>>
      BY <2>1 DEF Start
    <3>. HIDE DEF x
    <3>2. Len(journal') = 1
      BY <3>1
    <3>. QED BY <3>1, <3>2 DEF Exists, PendingTriggers
  <2>. QED BY <1>1, <1>2, <2>1, <2>2
     DEF Orderly, WorkersInPhase, SnapshotStands, WorkersOfRunning, PendingInHand, InHand, Asking
<1>4. CASE ExecResume(e)
  <2>1. pc'[e] = "replay" /\ todo'[e] = PendingTriggers /\ UNCHANGED <<worker, batch>> /\ Resume
    BY <1>0, <1>4 DEF ExecResume
  <2>2. Exists' /\ PendingTriggers' \subseteq PendingTriggers
    <3>1. Entry("run_resumed", {}) \in EntryType /\ Entry("run_resumed", {}).kind \notin PlannerKinds
      BY EntryTyped DEF Kinds, Entry, PlannerKinds, Outcomes
    <3>2. journal' = Append(journal, Entry("run_resumed", {})) /\ UNCHANGED applied
      BY <2>1 DEF Resume
    <3>3. PendingTriggers' \subseteq PendingTriggers
      BY <1>0, <3>1, <3>2, PendingGrows
    <3>4. journal' # <<>>
      BY <1>0, <3>1, <3>2 DEF TypeOK
    <3>. QED BY <3>3, <3>4 DEF Exists
  <2>. QED BY <1>1, <1>2, <2>1, <2>2
     DEF Orderly, WorkersInPhase, SnapshotStands, WorkersOfRunning, PendingInHand, InHand, Asking
<1>5. ASSUME NEW h \in Handles, NEW ok \in BOOLEAN, Callback(e, h, ok) PROVE Orderly(e)'
  <2>1. pc'[e] = "called" /\ UNCHANGED <<worker, batch>> /\ CompleteWaiting(h, ok)
    BY <1>0, <1>5 DEF Callback
  <2>2. Exists'
    <3>1. [StoreStep]_storeVars
      BY <2>1 DEF StoreStep
    <3>2. \E n \in Tasks : journal' = journal \o <<Entry("external_event_received", {n}),
                                                  Entry(OutcomeKind(ok), {n})>>
      BY <2>1 DEF CompleteWaiting
    <3>3. \A n \in Tasks : <<Entry("external_event_received", {n}), Entry(OutcomeKind(ok), {n})>>
                              \in Seq(EntryType)
      BY EntryTyped DEF Kinds, PlannerKinds, ExternalKinds, Outcomes, OutcomeKind
    <3>. QED BY <1>0, <3>2, <3>3 DEF Exists, TypeOK
  <2>. QED BY <1>1, <1>2, <2>1, <2>2
     DEF Orderly, WorkersInPhase, SnapshotStands, WorkersOfRunning, PendingInHand, Asking
<1>. QED BY <1>3, <1>4, <1>5

(* So does an answer of the planner, whose patch always applies.             *)
LEMMA OrderlyReplies ==
    ASSUME LiveTypeOK, GraphSound, SoloInv, NEW e \in Executors,
           EndPlan(e) \/ EndPlanDuplicate(e) \/ EndPlanRejected(e)
    PROVE  Orderly(e)'
<1>0. /\ pc \in [Executors -> Phases] /\ todo \in [Executors -> SUBSET Nat] /\ trg \in [Executors -> Nat]
      /\ batch \in [Executors -> SUBSET Jobs] /\ TypeOK
      /\ worker \in [Executors -> [Jobs -> WorkerStates]]
  BY DEF LiveTypeOK, Phases, WorkerStates
<1>1. /\ Asking(e) /\ Live(e) /\ snap[e] = Snapshot /\ ~finished /\ Exists
      /\ WorkersOfRunning(e) /\ PendingInHand(e)
      /\ pc[e] = "replanning" => \A j \in Jobs : worker[e][j] = "none"
  BY DEF EndPlan, EndPlanDuplicate, EndPlanRejected, Planned, Asking, Live, SoloInv, Orderly,
     SnapshotStands, WorkersInPhase, Idles
<1>2. ~EndPlanRejected(e)
  BY <1>0, <1>1, FreshPlanApplies DEF EndPlanRejected
<1>3. Continue(e)
  BY <1>2 DEF EndPlan, EndPlanDuplicate
<1>4. /\ pc'[e] = IF pc[e] = "planning" THEN "drain" ELSE "replay"
      /\ todo'[e] = todo[e] /\ batch'[e] = batch[e]
  BY <1>0, <1>3 DEF Continue
<1>5. \A j \in Jobs : /\ worker'[e][j] = "none" <=> worker[e][j] = "none"
                      /\ pc[e] = "replanning" => worker'[e][j] = worker[e][j]
  <2>1. ASSUME NEW S, CancelWorkers(e, S) PROVE \A j \in Jobs : worker'[e][j] = "none" <=> worker[e][j] = "none"
    BY <2>1, StoppedWorkers DEF InProgress
  <2>. QED BY <1>1, <1>2, <2>1 DEF EndPlan, EndPlanDuplicate, Asking
<1>6. /\ [StoreStep]_storeVars /\ Exists'
      /\ \A t \in Tasks : state[t] \in {"RUNNING", "CANCELLED"} => state'[t] \in {"RUNNING", "CANCELLED"}
      /\ PendingTriggers' \subseteq PendingTriggers \ {trg[e]}
  <2>1. CASE EndPlanDuplicate(e)
    BY <1>1, <2>1 DEF EndPlanDuplicate, storeVars, Exists, PendingTriggers
  <2>2. CASE EndPlan(e)
    <3>1. PICK p \in Plan(snap[e], journal[trg[e]].nodes) : p \in PatchType /\ ApplyPatch(p, trg[e])
      BY <2>2, ReplyIsStoreStep
    <3>2. p.wait = {} /\ p.resume = {} /\ p.add \cap Known = {} /\ p.cancel \subseteq Tasks
      <4>1. snap[e] \in Snapshots
        BY DEF LiveTypeOK, Snapshots, NodeStates
      <4>. QED BY <3>1, <4>1, PlanTyped DEF ApplyPatch, CanPatch
    <3>3. ASSUME NEW t \in Tasks, state[t] \in {"RUNNING", "CANCELLED"}
          PROVE  state'[t] \in {"RUNNING", "CANCELLED"}
      <4>1. t \notin p.add
        BY <3>2, <3>3 DEF Known
      <4>2. Revised(p)[t] \in {"CANCELLED", state[t]}
        BY <3>2, <4>1 DEF Revised
      <4>3. state'[t] = IF t \in LeftOpen(p) THEN "CANCELLED" ELSE Revised(p)[t]
        BY <3>1 DEF ApplyPatch, StateAfter
      <4>. QED BY <3>3, <4>2, <4>3
    <3>. DEFINE x == PatchEntry(p, trg[e])
    <3>4. x \in EntryType /\ x.kind \notin PlannerKinds
      BY <1>0, <3>1 DEF PatchEntry, EntryType, Kinds, PlannerKinds, Outcomes, PatchType, LeftOpen
    <3>5. journal' = Append(journal, x) /\ applied' = applied \cup {trg[e]}
      BY <3>1 DEF ApplyPatch
    <3>. HIDE DEF x
    <3>6. PendingTriggers' \subseteq PendingTriggers \ {trg[e]}
      BY <1>0, <3>4, <3>5, PendingGrows
    <3>7. Exists'
      <4>1. Len(journal') = Len(journal) + 1 /\ Len(journal) \in Nat
        BY <1>0, <3>4, <3>5 DEF TypeOK
      <4>. QED BY <4>1 DEF Exists
    <3>8. StoreStep
      BY <1>0, <3>1 DEF StoreStep
    <3>. QED BY <3>3, <3>6, <3>7, <3>8
  <2>. QED BY <1>2, <2>1, <2>2
<1>7. WorkersInPhase(e)'
  BY <1>1, <1>4, <1>5, <1>6 DEF WorkersInPhase, Idles, Live, Asking
<1>8. SnapshotStands(e)'
  BY <1>4 DEF SnapshotStands, Asking
<1>9. WorkersOfRunning(e)'
  BY <1>0, <1>1, <1>4, <1>5, <1>6, JobsOfTasks DEF WorkersOfRunning
<1>10. PendingInHand(e)'
  <2>1. PendingTriggers \subseteq InHand(e)
    BY <1>1 DEF PendingInHand, Asking
  <2>2. CASE pc[e] = "planning"
    BY <1>4, <1>6, <2>1, <2>2 DEF PendingInHand, InHand
  <2>3. CASE pc[e] = "replanning"
    <3>1. InHand(e) = todo[e] \cup {trg[e]}
      BY <2>3 DEF InHand
    <3>2. InHand(e)' = todo[e]
      BY <1>4, <2>3 DEF InHand
    <3>. QED BY <1>6, <2>1, <3>1, <3>2 DEF PendingInHand
  <2>. QED BY <1>1, <2>2, <2>3 DEF Asking
<1>11. pc'[e] # "raised"
  BY <1>4
<1>. QED BY <1>7, <1>8, <1>9, <1>10, <1>11 DEF Orderly

(* So do replaying, launching and waiting.                                   *)
LEMMA OrderlyFills ==
    ASSUME LiveTypeOK, SoloInv, NEW e \in Executors,
           ReplayNext(e) \/ ReplayDone(e) \/ Fill(e) \/ FillNothing(e) \/ Wake(e) \/ BatchDone(e)
    PROVE  Orderly(e)'
<1>0. /\ pc \in [Executors -> Phases] /\ todo \in [Executors -> SUBSET Nat] /\ trg \in [Executors -> Nat]
      /\ snap \in [Executors -> Snapshots]
      /\ batch \in [Executors -> SUBSET Jobs] /\ TypeOK
      /\ worker \in [Executors -> [Jobs -> WorkerStates]]
  BY DEF LiveTypeOK, Phases, WorkerStates, Snapshots, NodeStates
<1>1. /\ Live(e) /\ Exists /\ WorkersOfRunning(e) /\ PendingInHand(e)
      /\ pc[e] = "replay" => \A j \in Jobs : worker[e][j] = "none"
  BY DEF ReplayNext, ReplayDone, Fill, FillNothing, Wake, BatchDone, Live, SoloInv, Orderly,
     WorkersInPhase, Idles
<1>2. CASE ReplayNext(e)
  <2>1. PICK i \in todo[e] : trg' = [trg EXCEPT ![e] = i] /\ todo' = [todo EXCEPT ![e] = @ \ {i}]
    BY <1>2 DEF ReplayNext
  <2>2. /\ pc'[e] = "replanning" /\ snap'[e] = Snapshot /\ trg'[e] = i /\ todo'[e] = todo[e] \ {i}
        /\ UNCHANGED <<storeVars, batch, worker>> /\ pc[e] = "replay" /\ ~finished
    BY <1>0, <1>2, <2>1 DEF ReplayNext
  <2>3. PendingTriggers \subseteq todo[e]
    BY <1>1, <2>2 DEF PendingInHand, InHand
  <2>4. PendingInHand(e)'
    BY <2>2, <2>3 DEF PendingInHand, InHand, PendingTriggers, storeVars
  <2>5. SnapshotStands(e)'
    BY <2>2 DEF SnapshotStands, Snapshot, storeVars
  <2>6. WorkersInPhase(e)' /\ WorkersOfRunning(e)'
    BY <1>1, <2>2 DEF WorkersInPhase, WorkersOfRunning, Exists, storeVars
  <2>. QED BY <2>2, <2>4, <2>5, <2>6 DEF Orderly
<1>3. CASE ReplayDone(e)
  <2>1. /\ pc'[e] = "fill" /\ pc[e] = "replay" /\ (todo[e] = {} \/ finished)
        /\ UNCHANGED <<storeVars, batch, worker>>
    BY <1>0, <1>3 DEF ReplayDone
  <2>2. finished \/ PendingTriggers = {}
    BY <1>1, <2>1 DEF PendingInHand, InHand
  <2>3. WorkersInPhase(e)' /\ WorkersOfRunning(e)'
    BY <1>1, <2>1 DEF WorkersInPhase, WorkersOfRunning, Exists, storeVars
  <2>. QED BY <2>1, <2>2, <2>3
     DEF Orderly, SnapshotStands, Asking, PendingInHand, InHand, PendingTriggers, storeVars
<1>4. CASE Fill(e)
  <2>. DEFINE number == Cardinality(Started)
  <2>1. PICK S \in SUBSET Ready :
           /\ MarkRunning(S)
           /\ worker' = [worker EXCEPT ![e] = [i \in Jobs |-> IF i \in S \X {number} THEN "queued" ELSE @[i]]]
    BY <1>4 DEF Fill
  <2>2. /\ pc'[e] = "waiting" /\ pc[e] = "fill" /\ ~finished /\ UNCHANGED batch
        /\ \A j \in Jobs : worker'[e][j] = IF j \in S \X {number} THEN "queued" ELSE worker[e][j]
    BY <1>0, <1>4, <2>1 DEF Fill
  <2>3. PendingTriggers = {}
    BY <1>1, <2>2 DEF PendingInHand, InHand
  <2>4. S \subseteq Tasks
    BY <2>1 DEF Ready, InState
  <2>5. Entry("task_started", S) \in EntryType /\ Entry("task_started", S).kind \notin PlannerKinds
    BY <2>4, EntryTyped DEF Kinds, Entry, PlannerKinds, Outcomes
  <2>6. journal' = Append(journal, Entry("task_started", S)) /\ UNCHANGED <<applied, finished>>
    BY <2>1 DEF MarkRunning
  <2>7. PendingTriggers' = {}
    BY <1>0, <2>3, <2>5, <2>6, PendingGrows
  <2>8. Exists'
    <3>1. Len(journal') = Len(journal) + 1 /\ Len(journal) \in Nat
      BY <1>0, <2>5, <2>6 DEF TypeOK
    <3>. QED BY <3>1 DEF Exists
  <2>9. \A t \in Tasks : state'[t] = IF t \in S THEN "RUNNING" ELSE state[t]
    BY <2>1 DEF MarkRunning
  <2>10. WorkersOfRunning(e)'
    <3>. HIDE DEF number
    <3>1. \A j \in Jobs : j[1] \in S => worker[e][j] = "none"
      BY <1>1, <2>1 DEF WorkersOfRunning, Ready, InState
    <3>2. \A j \in Jobs : j \in S \X {number} <=> j[1] \in S /\ j[2] = number
      BY DEF Jobs
    <3>3. \A j \in Jobs : worker'[e][j] # "none" => state'[j[1]] \in {"RUNNING", "CANCELLED"}
      BY <1>1, <2>2, <2>9, <3>2 DEF WorkersOfRunning, Jobs
    <3>4. ASSUME NEW i \in Jobs, NEW j \in Jobs, worker'[e][i] # "none", worker'[e][j] # "none", i[1] = j[1]
          PROVE  i = j
      <4>1. CASE i[1] \in S
        <5>1. i[2] = number /\ j[2] = number
          BY <2>2, <3>1, <3>2, <3>4, <4>1
        <5>. QED BY <3>4, <5>1 DEF Jobs
      <4>2. CASE i[1] \notin S
        BY <1>1, <2>2, <3>2, <3>4, <4>2 DEF WorkersOfRunning
      <4>. QED BY <4>1, <4>2
    <3>5. \A j \in batch'[e] : worker'[e][j] # "none"
      BY <1>0, <1>1, <2>2 DEF WorkersOfRunning
    <3>. QED BY <3>3, <3>4, <3>5 DEF WorkersOfRunning
  <2>. QED BY <2>2, <2>7, <2>8, <2>10
     DEF Orderly, WorkersInPhase, Idles, Live, SnapshotStands, Asking, PendingInHand
<1>5. CASE FillNothing(e) \/ Wake(e)
  <2>1. /\ pc[e] \in {"fill", "waiting"} /\ UNCHANGED <<storeVars, worker>>
        /\ \/ pc'[e] = "returned" /\ InFlight(e) = {} /\ UNCHANGED batch
           \/ pc'[e] = "waiting" /\ UNCHANGED batch
           \/ pc'[e] = "drain" /\ batch'[e] = {j \in Jobs : worker[e][j] \in Results}
    BY <1>0, <1>5 DEF FillNothing, Wake
  <2>2. finished \/ PendingTriggers = {}
    BY <1>1, <2>1 DEF PendingInHand, InHand
  <2>3. WorkersOfRunning(e)'
    BY <1>1, <2>1 DEF WorkersOfRunning, storeVars, Results
  <2>4. WorkersInPhase(e)'
    BY <1>1, <2>1 DEF WorkersInPhase, Idles, Live, InFlight, Exists, storeVars
  <2>5. PendingInHand(e)'
    BY <2>1, <2>2 DEF PendingInHand, PendingTriggers, storeVars
  <2>. QED BY <2>1, <2>3, <2>4, <2>5 DEF Orderly, SnapshotStands, Asking
<1>6. CASE BatchDone(e)
  <2>1. /\ pc[e] = "drain" /\ pc'[e] = "fill" /\ UNCHANGED <<storeVars, batch>>
    BY <1>0, <1>6 DEF BatchDone
  <2>2. \A j \in Jobs : worker'[e][j] = "none" <=> worker[e][j] = "none"
    BY <1>6, StoppedWorkers DEF BatchDone, InProgress
  <2>3. finished \/ PendingTriggers = {}
    BY <1>1, <2>1 DEF PendingInHand, InHand
  <2>4. WorkersOfRunning(e)'
    BY <1>0, <1>1, <2>1, <2>2 DEF WorkersOfRunning, storeVars
  <2>. QED BY <1>1, <2>1, <2>3, <2>4
     DEF Orderly, WorkersInPhase, Idles, Live, Exists, SnapshotStands, Asking, PendingInHand, InHand,
         PendingTriggers, storeVars
<1>. QED BY <1>2, <1>3, <1>4, <1>5, <1>6

(* So do a worker's own steps, and every way of collecting its result: what  *)
(* it reports is still running, or was cancelled meanwhile.                  *)
LEMMA OrderlyDrains ==
    ASSUME LiveTypeOK, FinishedIsQuiet, SoloInv, NEW e \in Executors, NEW j \in Jobs,
           \/ DrainDropped(e, j) \/ DrainDeferred(e, j) \/ DrainOutcome(e, j) \/ DrainRefused(e, j)
           \/ Work(e, j)
    PROVE  Orderly(e)'
<1>0. /\ pc \in [Executors -> Phases] /\ todo \in [Executors -> SUBSET Nat] /\ trg \in [Executors -> Nat]
      /\ snap \in [Executors -> Snapshots]
      /\ batch \in [Executors -> SUBSET Jobs] /\ TypeOK
      /\ worker \in [Executors -> [Jobs -> WorkerStates]]
      /\ outbox \in [Tasks -> {"none", "started", "ok", "fail", "job"}]
  BY DEF LiveTypeOK, Phases, WorkerStates, Snapshots, NodeStates
<1>1. Orderly(e)
  BY DEF SoloInv
<1>2. CASE Work(e, j)
  <2>1. /\ worker[e][j] \in InProgress
        /\ \E w \in WorkerStates \ {"none"} : worker' = [worker EXCEPT ![e][j] = w]
        /\ UNCHANGED <<storeVars, pc, todo, trg, snap, batch>>
    BY <1>0, <1>2, JobsOfTasks DEF Work, WorkerBegin, WorkerEnd, EnterOperation, ReuseRecord, WorkerStates,
       InProgress, Results
  <2>2. \A i \in Jobs : worker'[e][i] = "none" <=> worker[e][i] = "none"
    BY <2>1, OneWorker DEF InProgress
  <2>3. WorkersOfRunning(e)' /\ WorkersInPhase(e)'
    BY <1>0, <1>1, <2>1, <2>2 DEF Orderly, WorkersOfRunning, WorkersInPhase, Idles, Live, Exists, storeVars
  <2>. QED BY <1>1, <2>1, <2>3
     DEF Orderly, SnapshotStands, Asking, Snapshot, PendingInHand, InHand, Live, PendingTriggers, storeVars
<1>3. CASE ~Work(e, j)
  <2>. DEFINE t == j[1]
  <2>0. t \in Tasks /\ \A i \in Jobs : i[1] \in Tasks
    BY DEF Jobs
  <2>1. /\ pc[e] = "drain" /\ j \in batch[e] /\ worker[e][j] # "none"
        /\ state[t] \in {"RUNNING", "CANCELLED"}
    BY <1>0, <1>1, <1>3
       DEF DrainDropped, DrainDeferred, DrainOutcome, DrainRefused, Pop, Orderly, WorkersOfRunning
  <2>2. ~DrainRefused(e, j)
    BY <2>1 DEF DrainRefused, Dropped
  <2>3. /\ batch'[e] = batch[e] \ {j} /\ worker' = [worker EXCEPT ![e][j] = "none"]
    BY <1>0, <1>3, <2>2 DEF DrainDropped, DrainDeferred, DrainOutcome, Pop
  <2>4. \A i \in Jobs : worker'[e][i] = IF i = j THEN "none" ELSE worker[e][i]
    BY <2>3, OneWorker DEF WorkerStates
  <2>5. (finished \/ PendingTriggers = {}) /\ Exists
    BY <1>1, <2>1 DEF Orderly, WorkersInPhase, Live, PendingInHand, InHand
  <2>6. CASE DrainDropped(e, j)
    <3>1. UNCHANGED <<storeVars, pc>>
      BY <2>6 DEF DrainDropped
    <3>2. WorkersOfRunning(e)'
      BY <1>0, <1>1, <2>3, <2>4, <3>1 DEF Orderly, WorkersOfRunning, storeVars
    <3>. QED BY <2>1, <2>5, <3>1, <3>2
       DEF Orderly, WorkersInPhase, Idles, Live, Exists, SnapshotStands, Asking, PendingInHand, InHand,
           PendingTriggers, storeVars
  <2>7. CASE DrainDeferred(e, j)
    <3>1. UNCHANGED pc /\ \E h : RecordWaiting(t, h)
      BY <2>7 DEF DrainDeferred
    <3>. DEFINE x == Entry("task_waiting", {t})
    <3>2. x \in EntryType /\ x.kind \notin PlannerKinds
      BY <2>0, EntryTyped DEF Kinds, Entry, PlannerKinds, Outcomes
    <3>3. /\ journal' = Append(journal, x) /\ UNCHANGED <<applied, finished>>
          /\ state' = [state EXCEPT ![t] = "WAITING"]
      BY <3>1 DEF RecordWaiting
    <3>. HIDE DEF x
    <3>4. Exists'
      <4>1. Len(journal') = Len(journal) + 1 /\ Len(journal) \in Nat
        BY <1>0, <3>2, <3>3 DEF TypeOK
      <4>. QED BY <4>1 DEF Exists
    <3>5. PendingTriggers' \subseteq PendingTriggers
      BY <1>0, <3>2, <3>3, PendingGrows
    <3>6. WorkersOfRunning(e)'
      BY <1>0, <1>1, <2>0, <2>1, <2>3, <2>4, <3>3 DEF Orderly, WorkersOfRunning, TypeOK
    <3>. QED BY <2>1, <2>5, <3>1, <3>3, <3>4, <3>5, <3>6
       DEF Orderly, WorkersInPhase, Idles, Live, SnapshotStands, Asking, PendingInHand, InHand
  <2>8. CASE DrainOutcome(e, j)
    <3>1. PICK ok \in BOOLEAN : RecordOutcome(t, ok)
      BY <2>8 DEF DrainOutcome
    <3>2. /\ pc'[e] = "planning" /\ trg'[e] = Len(journal')
          /\ snap'[e] = [state |-> state', deps |-> deps]
      BY <1>0, <2>8 DEF DrainOutcome
    <3>. DEFINE x == Entry(OutcomeKind(ok), {t})
    <3>3. x \in EntryType
      BY <2>0, EntryTyped DEF Kinds, Entry, PlannerKinds, Outcomes, OutcomeKind
    <3>4. /\ journal' = Append(journal, x) /\ UNCHANGED <<applied, finished, deps>>
          /\ state[t] = "RUNNING" /\ state' = [state EXCEPT ![t] = OutcomeState(ok)]
      BY <3>1 DEF RecordOutcome
    <3>. HIDE DEF x
    <3>5. Exists'
      <4>1. Len(journal') = Len(journal) + 1 /\ Len(journal) \in Nat
        BY <1>0, <3>3, <3>4 DEF TypeOK
      <4>. QED BY <4>1 DEF Exists
    <3>6. PendingTriggers' \subseteq PendingTriggers \cup {Len(journal')}
      BY <1>0, <3>3, <3>4, PendingGrows
    <3>7. ~finished
      BY <2>0, <3>4 DEF FinishedIsQuiet, InState, Active
    <3>8. WorkersOfRunning(e)'
      BY <1>0, <1>1, <2>0, <2>1, <2>3, <2>4, <3>4 DEF Orderly, WorkersOfRunning, TypeOK
    <3>9. SnapshotStands(e)'
      BY <3>2, <3>4, <3>7 DEF SnapshotStands, Snapshot
    <3>10. PendingInHand(e)'
      BY <2>5, <3>2, <3>6, <3>7 DEF PendingInHand, InHand
    <3>. QED BY <3>2, <3>5, <3>8, <3>9, <3>10 DEF Orderly, WorkersInPhase, Idles, Live
  <2>. QED BY <1>3, <2>2, <2>6, <2>7, <2>8
<1>. QED BY <1>2, <1>3

(* An executor that is alone on its run, whatever crashed before it, stays   *)
(* orderly: SoloInv is an invariant when no run is resumed while it is being *)
(* executed and the planner's review does not raise.                         *)
LEMMA SoloStep ==
    ASSUME ~Overlap, ~ReviewFails, LiveTypeOK, GraphSound, FinishedIsQuiet, SoloInv, [LiveNext]_liveVars
    PROVE  SoloInv'
<1>0. pc \in [Executors -> Phases] /\ batch \in [Executors -> SUBSET Jobs]
  BY DEF LiveTypeOK, Phases
<1>1. ASSUME NEW e \in Executors, Acts(e) PROVE SoloInv'
  <2>1. Orderly(e)'
    <3>1. ASSUME NEW j \in Jobs,
                 \/ DrainDropped(e, j) \/ DrainDeferred(e, j) \/ DrainOutcome(e, j) \/ DrainRefused(e, j)
                 \/ Work(e, j)
          PROVE  Orderly(e)'
      BY <3>1, OrderlyDrains
    <3>2. ASSUME EndPlan(e) \/ EndPlanDuplicate(e) \/ EndPlanRejected(e) PROVE Orderly(e)'
      BY <3>2, OrderlyReplies
    <3>3. ASSUME ReplayNext(e) \/ ReplayDone(e) \/ Fill(e) \/ FillNothing(e) \/ Wake(e) \/ BatchDone(e)
          PROVE Orderly(e)'
      BY <3>3, OrderlyFills
    <3>4. ASSUME \/ ExecStart(e) \/ ExecResume(e)
                 \/ \E h \in Handles, ok \in BOOLEAN : Callback(e, h, ok)
          PROVE  Orderly(e)'
      BY <3>4, OrderlyStarts
    <3>5. ASSUME Step(e) PROVE Orderly(e)'
      BY <3>1, <3>2, <3>3, <3>4, <3>5 DEF Step
    <3>. QED BY <1>1, <3>1, <3>4, <3>5 DEF Acts
  <2>2. ASSUME NEW f \in Executors, f # e PROVE Orderly(f)' /\ ~Live(f)'
    <3>1. ~Live(f) /\ Untouched(f)
      BY <1>1, <2>2, OneActs
    <3>2. ~Live(f)'
      BY <3>1 DEF Live, Untouched
    <3>3. \A j \in Jobs : worker'[f][j] = "none"
      BY <3>1 DEF SoloInv, Orderly, WorkersInPhase, Idles, Untouched
    <3>4. \A j \in batch'[f] : worker'[f][j] # "none"
      BY <3>1 DEF SoloInv, Orderly, WorkersOfRunning, Untouched
    <3>5. pc'[f] # "raised"
      BY <3>1 DEF SoloInv, Orderly, Untouched
    <3>. QED BY <3>2, <3>3, <3>4, <3>5
       DEF Orderly, WorkersInPhase, SnapshotStands, Asking, Live, WorkersOfRunning, PendingInHand
  <2>3. Alone'
    BY <2>2 DEF Alone
  <2>. QED BY <2>1, <2>2, <2>3 DEF SoloInv
<1>2. CASE Crash
  <2>1. ASSUME NEW f \in Executors PROVE Orderly(f)' /\ ~Live(f)'
    <3>1. pc'[f] = IF Live(f) THEN "dead" ELSE pc[f]
      BY <1>2 DEF Crash
    <3>2. ~Live(f)' /\ pc'[f] # "raised"
      BY <3>1 DEF Live, SoloInv, Orderly
    <3>3. batch'[f] = {} /\ \A j \in Jobs : worker'[f][j] = "none"
      BY <1>2 DEF Crash
    <3>. QED BY <3>2, <3>3
       DEF Orderly, WorkersInPhase, SnapshotStands, Asking, Live, WorkersOfRunning, PendingInHand
  <2>. QED BY <2>1 DEF SoloInv, Alone
<1>3. CASE UNCHANGED liveVars
  BY <1>3 DEF liveVars, execVars, storeVars, SoloInv, Alone, Orderly, WorkersInPhase, Idles, Live, Exists,
     SnapshotStands, Asking, Snapshot, WorkersOfRunning, PendingInHand, InHand, PendingTriggers
<1>4. ASSUME NEW e \in Executors, PlannerRaises(e) PROVE FALSE
  BY <1>4 DEF PlannerRaises
<1>. QED BY <1>1, <1>2, <1>3, <1>4 DEF LiveNext, Acts

(* It holds from the start, so it always does.                               *)
LEMMA SoloInvHolds == ~Overlap /\ ~ReviewFails => (LiveSpec => []SoloInv)
<1>. SUFFICES ASSUME ~Overlap, ~ReviewFails PROVE LiveSpec => []SoloInv
  OBVIOUS
<1>1. LiveInit => SoloInv
  BY DEF LiveInit, SoloInv, Alone, Orderly, WorkersInPhase, Live, SnapshotStands, Asking,
     WorkersOfRunning, PendingInHand
<1>2. LiveTypeOK /\ GraphSound /\ FinishedIsQuiet /\ SoloInv /\ [LiveNext]_liveVars => SoloInv'
  BY SoloStep
<1>. QED BY <1>1, <1>2, ExecutorsTyped, ExecutorsKeepGraph, PTL DEF LiveSpec

(* The only way to return is to have nothing left to launch or to wait for.  *)
LEMMA ReturnsFromFill ==
    ASSUME LiveTypeOK, LiveNext, NEW e \in Executors, pc[e] # "returned", pc'[e] = "returned"
    PROVE  FillNothing(e)
<1>0. pc \in [Executors -> Phases]
  BY DEF LiveTypeOK, Phases
<1>1. ASSUME NEW f \in Executors, NEW w, pc' = [pc EXCEPT ![f] = w] PROVE f = e /\ w = "returned"
  BY <1>0, <1>1
<1>2. ASSUME NEW f \in Executors, Step(f) PROVE FillNothing(e)
  <2>1. ~(ReplayNext(f) \/ ReplayDone(f) \/ Fill(f) \/ Wake(f) \/ BatchDone(f) \/ ExecResume(f))
    BY <1>1 DEF ReplayNext, ReplayDone, Fill, Wake, BatchDone, ExecResume
  <2>2. ~(EndPlan(f) \/ EndPlanDuplicate(f) \/ EndPlanRejected(f))
    BY <1>1 DEF EndPlan, EndPlanDuplicate, EndPlanRejected, Continue, Raised
  <2>3. ~\E j \in Jobs : DrainDropped(f, j) \/ DrainDeferred(f, j) \/ DrainOutcome(f, j) \/ DrainRefused(f, j)
    BY <1>1 DEF DrainDropped, DrainDeferred, DrainOutcome, DrainRefused, Raised
  <2>4. FillNothing(f)
    BY <1>2, <2>1, <2>2, <2>3 DEF Step
  <2>. QED BY <1>1, <2>4 DEF FillNothing
<1>3. ASSUME NEW f \in Executors, ExecStart(f) \/ ExecResume(f) \/ PlannerRaises(f) PROVE FALSE
  BY <1>1, <1>3 DEF ExecStart, ExecResume, PlannerRaises, Raised
<1>4. ASSUME NEW f \in Executors, NEW h \in Handles, NEW ok \in BOOLEAN, Callback(f, h, ok) PROVE FALSE
  <2>1. pc' = [pc EXCEPT ![f] = "called"]
    BY <1>4 DEF Callback
  <2>. QED BY <1>1, <2>1
<1>5. ASSUME NEW f \in Executors, NEW j \in Jobs, Work(f, j) PROVE FALSE
  BY <1>5 DEF Work, WorkerBegin, WorkerEnd
<1>6. ASSUME Crash PROVE FALSE
  BY <1>0, <1>6 DEF Crash, Live
<1>. QED BY <1>2, <1>3, <1>4, <1>5, <1>6 DEF LiveNext

(* Then no executor dies of its own late results: a cancelled or parked task *)
(* is never reported to the store as if it were running, and no patch of the *)
(* planner is refused.                                                       *)
THEOREM NobodyEverRaises == ~Overlap /\ ~ReviewFails => (LiveSpec => []NobodyRaises)
<1>1. SoloInv => NobodyRaises
  BY DEF SoloInv, Orderly, NobodyRaises
<1>. QED BY <1>1, SoloInvHolds, PTL

(* And an executor returns only with every journalled outcome, those left by *)
(* an executor that was killed included, answered by the planner, unless the *)
(* run is finished.                                                          *)
THEOREM OutcomesAlwaysPlanned == ~Overlap /\ ~ReviewFails => (LiveSpec => EveryOutcomePlanned)
<1>1. LiveTypeOK /\ SoloInv /\ [LiveNext]_liveVars =>
        [\A e \in Executors :
            pc[e] # "returned" /\ pc'[e] = "returned" => finished \/ PendingTriggers = {}]_liveVars
  <2>. SUFFICES ASSUME LiveTypeOK, SoloInv, LiveNext, NEW e \in Executors,
                       pc[e] # "returned", pc'[e] = "returned"
                PROVE  finished \/ PendingTriggers = {}
    OBVIOUS
  <2>1. FillNothing(e)
    BY ReturnsFromFill
  <2>2. pc[e] = "fill"
    BY <2>1 DEF FillNothing
  <2>. QED BY <2>2 DEF SoloInv, Orderly, PendingInHand, InHand, Live
<1>. QED BY <1>1, SoloInvHolds, ExecutorsTyped, PTL DEF LiveSpec, EveryOutcomePlanned
-----------------------------------------------------------------------------
(* An event an executor plans for, or has still to replay, is in the journal. *)
TriggersKnown ==
    \A e \in Executors : /\ Asking(e) => trg[e] \in 1..Len(journal)
                         /\ todo[e] \subseteq 1..Len(journal)

(* It stays there, and new ones are taken from there.                        *)
LEMMA TriggersStand ==
    ASSUME LiveTypeOK, TriggersKnown, [LiveNext]_liveVars
    PROVE  TriggersKnown'
<1>0. /\ pc \in [Executors -> Phases] /\ todo \in [Executors -> SUBSET Nat] /\ trg \in [Executors -> Nat]
      /\ TypeOK
  BY DEF LiveTypeOK, Phases
<1>1. Len(journal) \in Nat /\ Len(journal') \in Nat /\ Len(journal) <= Len(journal')
  <2>1. TypeOK' /\ [StoreStep]_storeVars
    BY LiveStoreStep, TypeStep DEF LiveTypeOK
  <2>. QED BY <1>0, <2>1, JournalGrows DEF TypeOK
<1>. DEFINE Kept(f) == /\ todo'[f] \in {todo[f], {}}
                       /\ Asking(f)' => Asking(f) /\ trg'[f] = trg[f]
            OK(f) == /\ Asking(f)' => trg'[f] \in 1..Len(journal')
                     /\ todo'[f] \subseteq 1..Len(journal')
<1>2. ASSUME NEW f \in Executors, Kept(f) PROVE OK(f)
  BY <1>1, <1>2 DEF TriggersKnown
<1>3. ASSUME NEW e \in Executors, NEW f \in Executors, ExecStart(e) \/ ExecResume(e) PROVE OK(f)
  <2>1. /\ pc' = [pc EXCEPT ![e] = "replay"] /\ UNCHANGED trg
        /\ \/ todo' = [todo EXCEPT ![e] = {1}] /\ Start
           \/ todo' = [todo EXCEPT ![e] = PendingTriggers]
    BY <1>3 DEF ExecStart, ExecResume
  <2>2. Start => Len(journal') = 1
    BY DEF Start
  <2>3. PendingTriggers \subseteq 1..Len(journal')
    BY <1>1 DEF PendingTriggers
  <2>4. f # e => Kept(f)
    BY <1>0, <2>1 DEF Asking
  <2>5. ASSUME f = e PROVE todo'[f] \subseteq 1..Len(journal') /\ ~Asking(f)'
    <3>1. pc'[e] = "replay" /\ ((todo'[e] = {1} /\ Start) \/ todo'[e] = PendingTriggers)
      BY <1>0, <2>1
    <3>2. CASE todo'[e] = {1} /\ Start
      BY <2>2, <2>5, <3>1, <3>2 DEF Asking
    <3>3. CASE todo'[e] = PendingTriggers
      BY <2>3, <2>5, <3>1, <3>3 DEF Asking
    <3>. QED BY <3>1, <3>2, <3>3
  <2>. QED BY <1>2, <2>4, <2>5
<1>4. ASSUME NEW e \in Executors, NEW f \in Executors, ReplayNext(e) PROVE OK(f)
  <2>1. /\ pc' = [pc EXCEPT ![e] = "replanning"]
        /\ \E i \in todo[e] : trg' = [trg EXCEPT ![e] = i] /\ todo' = [todo EXCEPT ![e] = @ \ {i}]
    BY <1>4 DEF ReplayNext
  <2>2. f # e => Kept(f)
    BY <1>0, <2>1 DEF Asking
  <2>3. f = e => trg'[f] \in todo[f] /\ todo'[f] \subseteq todo[f]
    BY <1>0, <2>1
  <2>. QED BY <1>1, <1>2, <2>2, <2>3 DEF TriggersKnown
<1>5. ASSUME NEW e \in Executors, NEW f \in Executors, NEW j \in Jobs, DrainOutcome(e, j) PROVE OK(f)
  <2>1. /\ pc' = [pc EXCEPT ![e] = "planning"] /\ trg' = [trg EXCEPT ![e] = Len(journal')]
        /\ UNCHANGED todo
    BY <1>5 DEF DrainOutcome
  <2>2. Len(journal') >= 1
    <3>1. PICK ok \in BOOLEAN : journal' = Append(journal, Entry(OutcomeKind(ok), {j[1]}))
      BY <1>5 DEF DrainOutcome, RecordOutcome
    <3>. DEFINE x == Entry(OutcomeKind(ok), {j[1]})
    <3>2. x \in EntryType
      BY EntryTyped, JobsOfTasks DEF Kinds, PlannerKinds, Outcomes, OutcomeKind
    <3>. HIDE DEF x
    <3>3. Len(Append(journal, x)) = Len(journal) + 1
      BY <1>0, <3>2 DEF TypeOK
    <3>. QED BY <1>1, <3>1, <3>3 DEF x
  <2>3. f # e => Kept(f)
    BY <1>0, <2>1 DEF Asking
  <2>4. f = e => trg'[f] = Len(journal') /\ todo'[f] = todo[f]
    BY <1>0, <2>1
  <2>. QED BY <1>1, <1>2, <2>2, <2>3, <2>4 DEF TriggersKnown
<1>6. ASSUME NEW e \in Executors, NEW f \in Executors, Planned(e), Raised(e) \/ Continue(e) PROVE Kept(f)
  BY <1>0, <1>6 DEF Planned, Raised, Continue, Asking
<1>7. ASSUME NEW e \in Executors, NEW f \in Executors,
             EndPlan(e) \/ EndPlanDuplicate(e) \/ EndPlanRejected(e) \/ PlannerRaises(e)
      PROVE  Kept(f)
  BY <1>6, <1>7 DEF EndPlan, EndPlanDuplicate, EndPlanRejected, PlannerRaises
<1>8. ASSUME NEW e \in Executors, NEW f \in Executors,
             ReplayDone(e) \/ Fill(e) \/ FillNothing(e) \/ Wake(e) \/ BatchDone(e)
      PROVE  Kept(f)
  BY <1>0, <1>8 DEF ReplayDone, Fill, FillNothing, Wake, BatchDone, Asking
<1>9. ASSUME NEW e \in Executors, NEW f \in Executors, NEW j \in Jobs,
             DrainDropped(e, j) \/ DrainDeferred(e, j) \/ DrainRefused(e, j) \/ Work(e, j)
      PROVE  Kept(f)
  BY <1>0, <1>9 DEF DrainDropped, DrainDeferred, DrainRefused, Raised, Work, WorkerBegin, WorkerEnd, Asking
<1>10. ASSUME NEW e \in Executors, NEW f \in Executors, NEW h \in Handles, NEW ok \in BOOLEAN, Callback(e, h, ok)
       PROVE  Kept(f)
  <2>1. pc' = [pc EXCEPT ![e] = "called"] /\ UNCHANGED <<todo, trg>>
    BY <1>10 DEF Callback
  <2>. QED BY <1>0, <2>1 DEF Asking
<1>11. ASSUME NEW f \in Executors, Crash PROVE Kept(f)
  BY <1>0, <1>11 DEF Crash, Asking, Live
<1>12. ASSUME NEW f \in Executors, UNCHANGED liveVars PROVE Kept(f)
  BY <1>12 DEF liveVars, execVars, Asking
<1>. HIDE DEF Kept, OK
<1>13. ASSUME NEW f \in Executors PROVE OK(f)
  <2>1. ASSUME NEW e \in Executors, Step(e) PROVE OK(f)
    BY <1>2, <1>3, <1>4, <1>5, <1>7, <1>8, <1>9, <2>1 DEF Step
  <2>. QED BY <1>2, <1>3, <1>7, <1>9, <1>10, <1>11, <1>12, <2>1 DEF LiveNext
<1>. QED BY <1>13 DEF OK, TriggersKnown

(* Whatever the executors do, the journal alone tells every task's one       *)
(* outcome, every event's one answer and every node's state.                 *)
THEOREM ExecutorsKeepJournal == LiveSpec => []JournalSound
<1>1. LiveInit => TriggersKnown /\ Tells(journal, state, applied)
  BY InitTells DEF LiveInit, TriggersKnown, Asking
<1>2. LiveTypeOK /\ TriggersKnown /\ Tells(journal, state, applied) /\ [LiveNext]_liveVars
         => TriggersKnown' /\ Tells(journal, state, applied)'
  <2>. SUFFICES ASSUME LiveTypeOK, TriggersKnown, Tells(journal, state, applied), [LiveNext]_liveVars
                PROVE  Tells(journal, state, applied)'
    BY TriggersStand
  <2>1. TypeOK /\ [StoreStep]_storeVars
    BY LiveStoreStep DEF LiveTypeOK
  <2>2. applied' \subseteq applied \cup 1..Len(journal)
    <3>1. ASSUME NEW e \in Executors, EndPlan(e) PROVE applied' \subseteq applied \cup 1..Len(journal)
      <4>1. applied' = applied \cup {trg[e]}
        BY <3>1 DEF EndPlan, ApplyPatch
      <4>2. Asking(e)
        BY <3>1 DEF EndPlan, Planned, Asking
      <4>. QED BY <4>1, <4>2 DEF TriggersKnown
    <3>2. ASSUME NEW e \in Executors, Step(e), ~EndPlan(e) PROVE UNCHANGED applied
      BY <3>2 DEF Step, ReplayNext, ReplayDone, EndPlanDuplicate, EndPlanRejected, Fill, MarkRunning,
         FillNothing, Wake, DrainDropped, DrainDeferred, RecordWaiting, DrainOutcome, RecordOutcome,
         DrainRefused, BatchDone, ExecResume, Resume, storeVars
    <3>3. (\E e \in Executors : Step(e)) \/ UNCHANGED applied
      BY DEF LiveNext, ExecStart, Start, ExecResume, Resume, PlannerRaises, Callback, CompleteWaiting,
         Work, WorkerBegin, WorkerEnd, Crash, liveVars, storeVars
    <3>. QED BY <3>1, <3>2, <3>3
  <2>3. Tells(journal', state', applied')
    BY <2>1, <2>2, JournalStep
  <2>. QED BY <2>3 DEF Tells, OutcomesIn, PatchesIn, ReplayOf, FoldOf
<1>3. LiveTypeOK /\ Tells(journal, state, applied) => JournalSound
  BY TellsIsSound DEF LiveTypeOK
<1>. QED BY <1>1, <1>2, <1>3, ExecutorsTyped, PTL DEF LiveSpec
=============================================================================
