-------------------------- MODULE EventEngineProofs --------------------------
(* What unattended operation guarantees for any events, subscriptions,       *)
(* ceilings, retention limit and number of deaths: its types, the daily      *)
(* ceilings under parallel admission, one run per event and subscription,    *)
(* and a decision for every task.                                            *)
EXTENDS EventEngine, FiniteSetTheorems, SequenceTheorems, TLAPS

(* The window a list is cut to is made of its last entries.                  *)
LEMMA KeptWindow ==
    ASSUME NEW T, NEW h \in Seq(T)
    PROVE  /\ Kept(h) \in Seq(T)
           /\ Len(Kept(h)) <= HistoryLimit
           /\ KeptSet(h) \subseteq {h[i] : i \in 1..Len(h)}
<1>. USE EventConstants
<1>1. CASE Len(h) <= HistoryLimit
  BY <1>1 DEF Kept, KeptSet
<1>2. CASE Len(h) > HistoryLimit
  <2>. DEFINE m == Len(h) - HistoryLimit + 1
  <2>1. m \in 1..Len(h)+1 /\ Len(h) \in m-1..Len(h) /\ m \in Nat /\ Kept(h) = SubSeq(h, m, Len(h))
    BY <1>2 DEF Kept
  <2>2. /\ SubSeq(h, m, Len(h)) \in Seq(T)
        /\ Len(SubSeq(h, m, Len(h))) = Len(h) - m + 1
        /\ \A i \in 1..(Len(h) - m + 1) : SubSeq(h, m, Len(h))[i] = h[m + i - 1]
    <3>. HIDE DEF m
    <3>. QED BY <2>1, SubSeqProperties
  <2>3. \A i \in 1..HistoryLimit : Kept(h)[i] = h[m + i - 1] /\ m + i - 1 \in 1..Len(h)
    <3>1. Len(h) - m + 1 = HistoryLimit /\ m - 1 \in Nat /\ Len(h) \in Nat
      BY <1>2
    <3>2. \A i \in 1..HistoryLimit : m + i - 1 \in 1..Len(h)
      BY <1>2
    <3>. HIDE DEF m
    <3>. QED BY <2>1, <2>2, <3>1, <3>2
  <2>4. Len(Kept(h)) = HistoryLimit
    BY <2>1, <2>2
  <2>. QED BY <2>1, <2>2, <2>3, <2>4 DEF KeptSet
<1>. QED BY <1>1, <1>2

(* A table of two keys of which one entry is replaced.                       *)
LEMMA OneEntry ==
    ASSUME NEW A, NEW B, NEW V, NEW f \in [A -> [B -> V]],
           NEW a \in A, NEW b \in B, NEW v \in V
    PROVE  /\ [f EXCEPT ![a][b] = v] \in [A -> [B -> V]]
           /\ \A x \in A, y \in B : [f EXCEPT ![a][b] = v][x][y] =
                                       IF x = a /\ y = b THEN v ELSE f[x][y]
<1>1. [f[a] EXCEPT ![b] = v] \in [B -> V]
  OBVIOUS
<1>2. [f EXCEPT ![a] = [f[a] EXCEPT ![b] = v]] \in [A -> [B -> V]]
  BY <1>1
<1>. QED BY <1>1, <1>2

(* What a task leaves behind is well typed.                                  *)
LEMMA AddDecisionTyped ==
    ASSUME EventTypeOK, NEW e \in Events, NEW s \in Subs,
           NEW verdict \in {"ignored", "refused", "ran", "failed"},
           NEW noted \in Seq({Refusal} \cup Pairs),
           AddDecision(e, s, verdict, noted)
    PROVE  /\ decided' \in [Events -> [Subs -> {"none", "ignored", "refused", "ran", "failed"}]]
           /\ refusals' \in Seq({Refusal} \cup Pairs)
<1>1. <<e, s>> \in {Refusal} \cup Pairs
  BY DEF Pairs
<1>2. Append(noted, <<e, s>>) \in Seq({Refusal} \cup Pairs)
  BY <1>1, AppendProperties
<1>3. refusals' = noted \/ refusals' = Append(noted, <<e, s>>)
  BY DEF AddDecision
<1>4. decided' = decided \/ decided' = [decided EXCEPT ![e][s] = verdict]
  BY DEF AddDecision, Set
<1>5. decided' \in [Events -> [Subs -> {"none", "ignored", "refused", "ran", "failed"}]]
  <2>. DEFINE V == {"none", "ignored", "refused", "ran", "failed"}
  <2>1. decided \in [Events -> [Subs -> V]] /\ verdict \in V
    BY DEF EventTypeOK
  <2>. HIDE DEF V
  <2>2. [decided EXCEPT ![e][s] = verdict] \in [Events -> [Subs -> V]]
    BY <2>1, OneEntry
  <2>3. decided' \in [Events -> [Subs -> V]]
    BY <1>4, <2>1, <2>2
  <2>. QED BY <2>3 DEF V
<1>. QED BY <1>2, <1>3, <1>5

\* The refusal log with one refusal more, cut to its limit, is such a log.
LEMMA NotedTyped ==
    ASSUME EventTypeOK
    PROVE  Noted \in Seq({Refusal} \cup Pairs)
<1>1. Append(refusals, Refusal) \in Seq({Refusal} \cup Pairs)
  BY DEF EventTypeOK
<1>. QED BY <1>1, KeptWindow DEF Noted

(* The store and the tasks are well typed in every reachable state.          *)
THEOREM EventsTyped == Spec => []EventTypeOK
<1>. USE EventConstants
<1>1. Init => EventTypeOK
  BY DEF Init, EventTypeOK, Days
<1>2. EventTypeOK /\ [Next]_eventVars => EventTypeOK'
  <2>. SUFFICES ASSUME EventTypeOK, [Next]_eventVars PROVE EventTypeOK'
    OBVIOUS
  <2>. USE DEF EventTypeOK, storeVars, windowVars, taskVars, Set
  <2>1. ASSUME NEW e \in Events, Deliver(e) PROVE EventTypeOK'
    <3>1. history \in Seq(known') /\ Append(history, e) \in Seq(known')
      BY <2>1 DEF Deliver
    <3>2. history' \in Seq(known') /\ Len(history') <= HistoryLimit
      BY <2>1, <3>1, KeptWindow DEF Deliver
    <3>3. decided' \in [Events -> [Subs -> {"none", "ignored", "refused", "ran", "failed"}]]
      BY <2>1 DEF Deliver
    <3>. QED BY <2>1, <3>2, <3>3 DEF Deliver
  <2>2. ASSUME NEW e \in Events, NEW s \in Subs, TakeSlot(e, s) PROVE EventTypeOK'
    BY <2>2 DEF TakeSlot
  <2>3. ASSUME NEW e \in Events, NEW s \in Subs, RefuseTriage(e, s) PROVE EventTypeOK'
    BY <2>3, AddDecisionTyped, NotedTyped DEF RefuseTriage
  <2>4. ASSUME NEW e \in Events, NEW s \in Subs, Answered(e, s)
        PROVE  triageSpend' \in [Subs -> [Days -> Nat]]
    <3>. PICK usd \in 0..GateCost :
            triageSpend' = [triageSpend EXCEPT ![s][taskDay[e][s]] = @ + usd]
      BY <2>4 DEF Answered
    <3>1. taskDay[e][s] \in Days /\ triageSpend[s][taskDay[e][s]] + usd \in Nat
      OBVIOUS
    <3>. QED BY <3>1, OneEntry
  <2>5. ASSUME NEW e \in Events, NEW s \in Subs, Ignore(e, s) PROVE EventTypeOK'
    BY <2>4, <2>5, AddDecisionTyped DEF Ignore
  <2>6. ASSUME NEW e \in Events, NEW s \in Subs, RefuseRun(e, s) PROVE EventTypeOK'
    BY <2>4, <2>6, AddDecisionTyped, NotedTyped DEF RefuseRun
  <2>7. ASSUME NEW e \in Events, NEW s \in Subs, StartRun(e, s) PROVE EventTypeOK'
    <3>1. Lower(PerRun, Left(s, taskDay[e][s])) \in 0..PerRun
      BY DEF Lower, Left
    <3>2. started' \in Seq(Events \X Subs \X Days)
      BY <2>7 DEF StartRun
    <3>3. runCount' \in [Subs -> [Days -> Nat]]
      <4>1. runCount' = [runCount EXCEPT ![s][taskDay[e][s]] = runCount[s][taskDay[e][s]] + 1]
        BY <2>7 DEF StartRun, Reserve
      <4>2. taskDay[e][s] \in Days /\ runCount[s][taskDay[e][s]] + 1 \in Nat
        OBVIOUS
      <4>. QED BY <4>1, <4>2, OneEntry
    <3>4. grant' \in [Events -> [Subs -> 0..PerRun]]
      <4>1. grant' = [grant EXCEPT ![e][s] = Lower(PerRun, Left(s, taskDay[e][s]))]
        BY <2>7 DEF StartRun, Set
      <4>. QED BY <3>1, <4>1, OneEntry
    <3>. QED BY <2>4, <2>7, <3>2, <3>3, <3>4 DEF StartRun
  <2>8. ASSUME NEW e \in Events, NEW s \in Subs, RunEnds(e, s) PROVE EventTypeOK'
    <3>1. runSpend' \in [Subs -> [Days -> Nat]] /\ UNCHANGED runCount
      BY <2>8, OneEntry DEF RunEnds, Settle, Reported
    <3>. QED BY <2>8, <3>1, AddDecisionTyped DEF RunEnds
  <2>9. ASSUME NEW e \in Events, NEW s \in Subs, TaskFails(e, s) PROVE EventTypeOK'
    BY <2>4, <2>9 DEF TaskFails
  <2>10. ASSUME NEW e \in Events, NEW s \in Subs, RecordFailure(e, s) PROVE EventTypeOK'
    BY <2>10, AddDecisionTyped, NotedTyped DEF RecordFailure
  <2>11. CASE RefuseEvent
    BY <2>11, NotedTyped DEF RefuseEvent
  <2>12. CASE Midnight
    BY <2>12 DEF Midnight, Days
  <2>13. CASE Crash
    BY <2>13 DEF Crash
  <2>14. CASE UNCHANGED eventVars
    BY <2>14 DEF eventVars
  <2>. QED BY <2>1, <2>2, <2>3, <2>5, <2>6, <2>7, <2>8, <2>9, <2>10, <2>11, <2>12, <2>13, <2>14
           DEF Next, Advance
<1>. QED BY <1>1, <1>2, PTL DEF Spec
-----------------------------------------------------------------------------
(* The invariant behind the ceilings and the decisions.                      *)

Started == {"running", "done", "failed", "lost"}
Undecided == {"none", "queued", "gate", "running", "failed"}

(* Tasks exist for ingested events only.                                     *)
TasksOfKnown == \A e \in Events \ known, s \in Subs : task[e][s] = "none"

(* A run on record belongs to a task that is past its gate.                  *)
RunsAreStarted == \A i \in 1..Len(started) : task[started[i][1]][started[i][2]] \in Started

(* The count of a window is the number of runs on record for it.             *)
WindowsCount ==
    \A s \in Subs, d \in Days :
        runCount[s][d] = Cardinality(RunsOn(s, d)) /\ runCount[s][d] <= MaxRuns

(* The gate calls that will still be added to the triage window of s and d.  *)
Gates(s, d) == {p \in Holding : p[2] = s /\ task[p[1]][s] = "gate" /\ taskDay[p[1]][s] = d}

(* Each of them was admitted below the budget and holds a slot.              *)
TriageCovered ==
    \A s \in Subs, d \in Days :
        triageSpend[s][d] + Cardinality(Gates(s, d)) * GateCost < TriageBudget + Slots * GateCost

(* A task that is not over has decided nothing yet.                          *)
OpenUndecided ==
    \A e \in Events, s \in Subs : task[e][s] \in Undecided => decided[e][s] = "none"

EventInv == /\ TasksOfKnown /\ RunsAreStarted /\ OneRunPerEvent /\ WindowsCount
            /\ TriageCovered /\ OpenUndecided /\ DecisionStored
-----------------------------------------------------------------------------
(* What the steps have in common.                                            *)

(* A task is over: its decision is with the event, or among the refusals.    *)
Closes(e, s) ==
    /\ task[e][s] \in {"queued", "gate", "running", "failed"}
    /\ task' = Set(task, e, s, "done")
    /\ \/ /\ e \in Retained
          /\ \E verdict \in {"ignored", "refused", "ran", "failed"} :
                /\ verdict \in {"ignored", "refused"} => task[e][s] \in {"queued", "gate"}
                /\ decided' = IF decided[e][s] = "none" THEN Set(decided, e, s, verdict)
                              ELSE decided
       \/ /\ e \notin Retained /\ UNCHANGED decided
          /\ \E i \in 1..Len(refusals') : refusals'[i] = <<e, s>>
    /\ UNCHANGED triageSpend \/ Answered(e, s)
    /\ UNCHANGED <<known, history, runCount, taskDay, started>>

Settled == UNCHANGED <<known, history, decided, runCount, triageSpend, task, taskDay, started>>

\* Every step is one of the engine's actions, with the settled state, the
\* crash and the stutter told apart from the steps of one subscription.
LEMMA StepShape ==
    ASSUME EventTypeOK, [Next]_eventVars
    PROVE  \/ Settled \/ Crash \/ \E e \in Events : Deliver(e)
           \/ \E e \in Events, s \in Subs :
                 TakeSlot(e, s) \/ StartRun(e, s) \/ TaskFails(e, s) \/ Closes(e, s)
<1>. USE DEF storeVars, windowVars, taskVars
<1>1. ASSUME NEW e \in Events, NEW s \in Subs,
             NEW noted \in Seq({Refusal} \cup Pairs),
             NEW verdict \in {"ignored", "refused", "ran", "failed"},
             verdict \in {"ignored", "refused"} => task[e][s] \in {"queued", "gate"},
             task[e][s] \in {"queued", "gate", "running", "failed"},
             task' = Set(task, e, s, "done"),
             AddDecision(e, s, verdict, noted),
             UNCHANGED triageSpend \/ Answered(e, s),
             UNCHANGED <<known, history, runCount, taskDay, started>>
      PROVE  Closes(e, s)
  <2>1. CASE e \in Retained
    BY <1>1, <2>1 DEF Closes, AddDecision
  <2>2. CASE e \notin Retained
    <3>1. refusals' = Append(noted, <<e, s>>) /\ UNCHANGED decided
      BY <1>1, <2>2 DEF AddDecision
    <3>2. Len(noted) + 1 \in 1..Len(refusals') /\ refusals'[Len(noted) + 1] = <<e, s>>
      BY <3>1, LenProperties, AppendProperties
    <3>. QED BY <1>1, <2>2, <3>1, <3>2 DEF Closes
  <2>. QED BY <2>1, <2>2
<1>2. Noted \in Seq({Refusal} \cup Pairs) /\ refusals \in Seq({Refusal} \cup Pairs)
  BY NotedTyped DEF EventTypeOK
<1>3. ASSUME NEW e \in Events, NEW s \in Subs, RefuseTriage(e, s) PROVE Closes(e, s)
  BY <1>1, <1>2, <1>3 DEF RefuseTriage
<1>4. ASSUME NEW e \in Events, NEW s \in Subs, Ignore(e, s) PROVE Closes(e, s)
  <2>1. task[e][s] = "gate"
    BY <1>4 DEF Ignore, Answered
  <2>. QED BY <1>1, <1>2, <1>4, <2>1 DEF Ignore
<1>5. ASSUME NEW e \in Events, NEW s \in Subs, RefuseRun(e, s) PROVE Closes(e, s)
  <2>1. task[e][s] = "gate"
    BY <1>5 DEF RefuseRun, Answered
  <2>. QED BY <1>1, <1>2, <1>5, <2>1 DEF RefuseRun
<1>6. ASSUME NEW e \in Events, NEW s \in Subs, RunEnds(e, s) PROVE Closes(e, s)
  BY <1>1, <1>2, <1>6 DEF RunEnds, Settle
<1>7. ASSUME NEW e \in Events, NEW s \in Subs, RecordFailure(e, s) PROVE Closes(e, s)
  BY <1>1, <1>2, <1>7 DEF RecordFailure
<1>8. RefuseEvent \/ Midnight \/ UNCHANGED eventVars => Settled
  BY DEF RefuseEvent, Midnight, eventVars, Settled
<1>. QED BY <1>3, <1>4, <1>5, <1>6, <1>7, <1>8 DEF Next, Advance

(* How the tasks move, entry by entry.                                       *)
LEMMA TaskMoves ==
    ASSUME EventTypeOK, NEW e \in Events, NEW s \in Subs, NEW x \in Events, NEW y \in Subs
    PROVE  /\ \A v \in {"gate", "running", "failed", "done"} :
                 Set(task, e, s, v)[x][y] = IF x = e /\ y = s THEN v ELSE task[x][y]
           /\ Deliver(e) => task'[x][y] = IF x = e THEN "queued" ELSE task[x][y]
           /\ Crash => task'[x][y] = IF task[x][y] \in {"none", "done"} THEN task[x][y] ELSE "lost"
<1>1. ASSUME NEW v \in {"gate", "running", "failed", "done"}
      PROVE  Set(task, e, s, v)[x][y] = IF x = e /\ y = s THEN v ELSE task[x][y]
  BY <1>1 DEF EventTypeOK, Set
<1>2. Deliver(e) => task'[x][y] = IF x = e THEN "queued" ELSE task[x][y]
  BY DEF Deliver, EventTypeOK
<1>3. Crash => task'[x][y] = IF task[x][y] \in {"none", "done"} THEN task[x][y] ELSE "lost"
  BY DEF Crash
<1>. QED BY <1>1, <1>2, <1>3
-----------------------------------------------------------------------------
\* Every step keeps tasks to events the store knows: run_event records the
\* event before it makes a task, and the store forgets none.
LEMMA TasksOfKnownStands ==
    ASSUME EventTypeOK, [Next]_eventVars, TasksOfKnown
    PROVE  TasksOfKnown'
<1>. SUFFICES ASSUME NEW x \in Events, x \notin known', NEW y \in Subs PROVE task'[x][y] = "none"
  BY DEF TasksOfKnown
<1>1. CASE Settled
  BY <1>1 DEF Settled, TasksOfKnown
<1>2. CASE Crash
  BY <1>2, TaskMoves DEF Crash, storeVars, TasksOfKnown
<1>3. ASSUME NEW e \in Events, Deliver(e) PROVE task'[x][y] = "none"
  BY <1>3, TaskMoves DEF Deliver, TasksOfKnown
<1>4. ASSUME NEW e \in Events, NEW s \in Subs, NEW v \in {"gate", "running", "failed", "done"},
             task[e][s] # "none", task' = Set(task, e, s, v), UNCHANGED known
      PROVE  task'[x][y] = "none"
  BY <1>4, TaskMoves DEF TasksOfKnown
<1>. QED BY <1>1, <1>2, <1>3, <1>4, StepShape
         DEF TakeSlot, StartRun, TaskFails, Closes, Answered, storeVars

(* A task that is past its gate stays there, and only the gate starts a run. *)
LEMMA StartedForGood ==
    ASSUME EventTypeOK, [Next]_eventVars, TasksOfKnown, NEW x \in Events, NEW y \in Subs
    PROVE  task[x][y] \in Started => task'[x][y] \in Started
<1>. USE DEF Started
<1>1. CASE Settled
  BY <1>1 DEF Settled
<1>2. CASE Crash
  BY <1>2, TaskMoves
<1>3. ASSUME NEW e \in Events, Deliver(e)
      PROVE  task[x][y] \in Started => task'[x][y] \in Started
  BY <1>3, TaskMoves DEF Deliver, Fresh, TasksOfKnown
<1>4. ASSUME NEW e \in Events, NEW s \in Subs
      PROVE  TakeSlot(e, s) \/ StartRun(e, s) \/ TaskFails(e, s) \/ Closes(e, s) =>
                (task[x][y] \in Started => task'[x][y] \in Started)
  BY <1>4, TaskMoves DEF TakeSlot, StartRun, TaskFails, Closes
<1>. QED BY <1>1, <1>2, <1>3, <1>4, StepShape

\* Only start_run lengthens the list of started runs, and it appends one
\* run at the end: what every counting argument below rests on.
LEMMA OnlyStartRunStarts ==
    ASSUME EventTypeOK, [Next]_eventVars
    PROVE  \/ UNCHANGED <<started, runCount>>
           \/ \E e \in Events, s \in Subs :
                 /\ StartRun(e, s)
                 /\ started' = Append(started, <<e, s, taskDay[e][s]>>)
                 /\ Len(started') = Len(started) + 1
                 /\ started'[Len(started) + 1] = <<e, s, taskDay[e][s]>>
                 /\ \A i \in 1..Len(started) : started'[i] = started[i]
<1>1. ASSUME NEW e \in Events, NEW s \in Subs, StartRun(e, s)
      PROVE  /\ started' = Append(started, <<e, s, taskDay[e][s]>>)
             /\ Len(started') = Len(started) + 1
             /\ started'[Len(started) + 1] = <<e, s, taskDay[e][s]>>
             /\ \A i \in 1..Len(started) : started'[i] = started[i]
  BY <1>1, AppendProperties DEF StartRun, EventTypeOK
<1>. QED BY <1>1, StepShape
         DEF Settled, Crash, Deliver, TakeSlot, TaskFails, Closes, storeVars, windowVars

\* The list of started runs is a sequence of (event, subscription, day).
LEMMA RunsInOrder ==
    ASSUME EventTypeOK
    PROVE  /\ Len(started) \in Nat
           /\ \A i \in 1..Len(started) : started[i] \in Events \X Subs \X Days
<1>1. started \in Seq(Events \X Subs \X Days)
  BY DEF EventTypeOK
<1>. QED BY <1>1, LenProperties, ElementOfSeq

\* Every step keeps each started run the run of a task past its start.
LEMMA RunsAreStartedStands ==
    ASSUME EventTypeOK, [Next]_eventVars, TasksOfKnown, RunsAreStarted
    PROVE  RunsAreStarted'
<1>1. \A i \in 1..Len(started) : started[i] \in Events \X Subs \X Days
  BY RunsInOrder
<1>2. \A i \in 1..Len(started) : task'[started[i][1]][started[i][2]] \in Started
  BY <1>1, StartedForGood DEF RunsAreStarted
<1>3. CASE UNCHANGED started
  BY <1>2, <1>3 DEF RunsAreStarted
<1>4. ASSUME NEW e \in Events, NEW s \in Subs, StartRun(e, s),
             Len(started') = Len(started) + 1,
             started'[Len(started) + 1] = <<e, s, taskDay[e][s]>>,
             \A i \in 1..Len(started) : started'[i] = started[i]
      PROVE  RunsAreStarted'
  <2>1. task'[e][s] \in Started
    BY <1>4, TaskMoves DEF StartRun, Started
  <2>2. \A i \in 1..Len(started') : i \in 1..Len(started) \/ i = Len(started) + 1
    BY <1>4, RunsInOrder
  <2>. QED BY <1>2, <1>4, <2>1, <2>2 DEF RunsAreStarted
<1>. QED BY <1>3, <1>4, OnlyStartRunStarts

\* Every step keeps at most one run per event and subscription: the task
\* that starts one was still waiting, so the list held none for it.
LEMMA OneRunStands ==
    ASSUME EventTypeOK, [Next]_eventVars, RunsAreStarted, OneRunPerEvent
    PROVE  OneRunPerEvent'
<1>1. CASE UNCHANGED started
  BY <1>1 DEF OneRunPerEvent
<1>2. ASSUME NEW e \in Events, NEW s \in Subs, StartRun(e, s),
             Len(started') = Len(started) + 1,
             started'[Len(started) + 1] = <<e, s, taskDay[e][s]>>,
             \A i \in 1..Len(started) : started'[i] = started[i]
      PROVE  OneRunPerEvent'
  <2>1. \A i \in 1..Len(started) : ~(started[i][1] = e /\ started[i][2] = s)
    BY <1>2 DEF StartRun, Answered, RunsAreStarted, Started
  <2>2. \A i \in 1..Len(started') : i \in 1..Len(started) \/ i = Len(started) + 1
    BY <1>2, RunsInOrder
  <2>. QED BY <1>2, <2>1, <2>2 DEF OneRunPerEvent
<1>. QED BY <1>1, <1>2, OnlyStartRunStarts

\* Every step keeps the governor's counter of a window equal to the number of
\* runs the list holds for it: the two move together, or neither does.
LEMMA WindowsCountStands ==
    ASSUME EventTypeOK, [Next]_eventVars, WindowsCount
    PROVE  WindowsCount'
<1>. SUFFICES ASSUME NEW s \in Subs, NEW d \in Days
              PROVE  runCount'[s][d] = Cardinality(RunsOn(s, d)') /\ runCount'[s][d] <= MaxRuns
  BY DEF WindowsCount
<1>1. CASE UNCHANGED <<started, runCount>>
  BY <1>1 DEF WindowsCount, RunsOn
<1>2. ASSUME NEW e \in Events, NEW z \in Subs, StartRun(e, z),
             Len(started') = Len(started) + 1,
             started'[Len(started) + 1] = <<e, z, taskDay[e][z]>>,
             \A i \in 1..Len(started) : started'[i] = started[i]
      PROVE  runCount'[s][d] = Cardinality(RunsOn(s, d)') /\ runCount'[s][d] <= MaxRuns
  <2>0. Len(started) \in Nat /\ IsFiniteSet(RunsOn(s, d)) /\ Len(started) + 1 \notin RunsOn(s, d)
    <3>1. IsFiniteSet(1..Len(started))
      BY RunsInOrder, FS_Interval
    <3>2. RunsOn(s, d) \subseteq 1..Len(started)
      BY DEF RunsOn
    <3>3. IsFiniteSet(RunsOn(s, d))
      BY <3>1, <3>2, FS_Subset
    <3>. QED BY <3>2, <3>3, RunsInOrder
  <2>1. runCount'[s][d] = IF s = z /\ d = taskDay[e][z] THEN runCount[s][d] + 1 ELSE runCount[s][d]
    <3>. DEFINE t == taskDay[e][z]
    <3>1. runCount \in [Subs -> [Days -> Nat]] /\ t \in Days
      BY DEF EventTypeOK
    <3>2. runCount' = [runCount EXCEPT ![z][t] = runCount[z][t] + 1]
      BY <1>2 DEF StartRun, Reserve
    <3>. HIDE DEF t
    <3>3. runCount[z][t] + 1 \in Nat
      BY <3>1
    <3>4. runCount'[s][d] = IF s = z /\ d = t THEN runCount[z][t] + 1 ELSE runCount[s][d]
      BY <3>1, <3>2, <3>3, OneEntry
    <3>. QED BY <3>4 DEF t
  <2>2. CASE s = z /\ d = taskDay[e][z]
    <3>1. RunsOn(s, d)' = RunsOn(s, d) \cup {Len(started) + 1}
      BY <1>2, <2>0, <2>2 DEF RunsOn
    <3>2. Cardinality(RunsOn(s, d)') = Cardinality(RunsOn(s, d)) + 1
      BY <2>0, <3>1, FS_AddElement
    <3>3. runCount[s][d] < MaxRuns /\ runCount[s][d] \in Nat /\ MaxRuns \in Nat
      BY <1>2, <2>2, EventConstants DEF StartRun, EventTypeOK
    <3>. QED BY <2>1, <2>2, <3>2, <3>3 DEF WindowsCount
  <2>3. CASE ~(s = z /\ d = taskDay[e][z])
    <3>1. RunsOn(s, d)' = RunsOn(s, d)
      BY <1>2, <2>0, <2>3 DEF RunsOn
    <3>. QED BY <2>1, <2>3, <3>1 DEF WindowsCount
  <2>. QED BY <2>2, <2>3
<1>. QED BY <1>1, <1>2, OnlyStartRunStarts
-----------------------------------------------------------------------------
(* The triage window.                                                        *)

\* The slots are finitely many, being handed out below a ceiling.
LEMMA HoldingFinite == IsFiniteSet(Holding)
<1>1. IsFiniteSet(Pairs)
  BY EventConstants, FS_Product DEF Pairs
<1>. QED BY <1>1, FS_Subset DEF Holding

\* The gates of one subscription on one day are part of the slots held, hence
\* finite, and no more of them than of the slots.
LEMMA GatesFinite ==
    ASSUME NEW s, NEW d
    PROVE  /\ IsFiniteSet(Gates(s, d)) /\ Cardinality(Gates(s, d)) \in Nat
           /\ Cardinality(Gates(s, d)) <= Cardinality(Holding) /\ Cardinality(Holding) \in Nat
<1>1. Gates(s, d) \subseteq Holding
  BY DEF Gates
<1>. QED BY <1>1, HoldingFinite, FS_Subset, FS_CardinalityType

(* The worst the gates in flight may still cost.                             *)
LEMMA WorstTriage ==
    ASSUME NEW m \in Nat, NEW n \in Nat, m <= n
    PROVE  /\ m * GateCost \in Nat /\ m * GateCost <= n * GateCost
           /\ (m + 1) * GateCost = m * GateCost + GateCost
BY EventConstants

(* A task that gives up its slot, and what its gate has cost.                *)
LEMMA GateLeaves ==
    ASSUME EventTypeOK, TriageCovered, NEW e \in Events, NEW s \in Subs,
           Answered(e, s), NEW d \in Days, d = taskDay[e][s],
           Gates(s, d)' = Gates(s, d) \ {<<e, s>>}
    PROVE  triageSpend'[s][d] + Cardinality(Gates(s, d)') * GateCost < TriageBudget + Slots * GateCost
<1>. USE EventConstants
<1>1. <<e, s>> \in Gates(s, d)
  BY DEF Answered, Gates, Holding, Pairs
<1>2. PICK usd \in 0..GateCost : triageSpend' = [triageSpend EXCEPT ![s][d] = triageSpend[s][d] + usd]
  BY DEF Answered
<1>3. triageSpend[s][d] \in Nat /\ triageSpend'[s][d] = triageSpend[s][d] + usd
  BY <1>2 DEF EventTypeOK
<1>. DEFINE n == Cardinality(Gates(s, d)')
<1>4. n \in Nat /\ Cardinality(Gates(s, d)) = n + 1
  <2>1. IsFiniteSet(Gates(s, d)) /\ Cardinality(Gates(s, d)) \in Nat
    BY GatesFinite
  <2>2. /\ Cardinality(Gates(s, d) \ {<<e, s>>}) = Cardinality(Gates(s, d)) - 1
        /\ IsFiniteSet(Gates(s, d) \ {<<e, s>>})
    BY <1>1, <2>1, FS_RemoveElement
  <2>3. n = Cardinality(Gates(s, d)) - 1 /\ n \in Nat
    BY <2>2, FS_CardinalityType
  <2>. HIDE DEF n
  <2>. QED BY <2>1, <2>3
<1>5. triageSpend[s][d] + (n + 1) * GateCost < TriageBudget + Slots * GateCost
  BY <1>4 DEF TriageCovered
<1>6. n * GateCost \in Nat /\ (n + 1) * GateCost = n * GateCost + GateCost /\ Slots * GateCost \in Nat
  BY <1>4, WorstTriage
<1>. HIDE DEF n
<1>7. triageSpend'[s][d] + n * GateCost < TriageBudget + Slots * GateCost
  BY <1>3, <1>5, <1>6
<1>. QED BY <1>7 DEF n

\* Every step keeps a charged triage covered by the slot that paid for it.
LEMMA TriageCoveredStands ==
    ASSUME EventTypeOK, [Next]_eventVars, TasksOfKnown, TriageCovered
    PROVE  TriageCovered'
<1>. USE EventConstants
<1>. SUFFICES ASSUME NEW y \in Subs, NEW d \in Days
              PROVE  triageSpend'[y][d] + Cardinality(Gates(y, d)') * GateCost
                        < TriageBudget + Slots * GateCost
  BY DEF TriageCovered
<1>0. /\ IsFiniteSet(Gates(y, d)) /\ Cardinality(Gates(y, d)) \in Nat
      /\ triageSpend[y][d] \in Nat /\ Slots * GateCost \in Nat
  BY GatesFinite, WorstTriage DEF EventTypeOK
<1>1. ASSUME triageSpend'[y][d] = triageSpend[y][d], Gates(y, d)' \subseteq Gates(y, d)
      PROVE  triageSpend'[y][d] + Cardinality(Gates(y, d)') * GateCost
                < TriageBudget + Slots * GateCost
  <2>. DEFINE m == Cardinality(Gates(y, d)')
              n == Cardinality(Gates(y, d))
  <2>1. m \in Nat /\ n \in Nat /\ m <= n
    BY <1>0, <1>1, FS_Subset, FS_CardinalityType
  <2>2. triageSpend[y][d] + n * GateCost < TriageBudget + Slots * GateCost
    BY DEF TriageCovered
  <2>. HIDE DEF m, n
  <2>3. m * GateCost \in Nat /\ n * GateCost \in Nat /\ m * GateCost <= n * GateCost
    BY <2>1, WorstTriage
  <2>4. triageSpend'[y][d] + m * GateCost < TriageBudget + Slots * GateCost
    BY <1>0, <1>1, <2>2, <2>3
  <2>. QED BY <2>4 DEF m
<1>2. ASSUME \A p \in Pairs : task'[p[1]][p[2]] = "gate" =>
                 task[p[1]][p[2]] = "gate" /\ taskDay'[p[1]][p[2]] = taskDay[p[1]][p[2]]
      PROVE  Gates(y, d)' \subseteq Gates(y, d)
  BY <1>2 DEF Gates, Holding
<1>3. CASE Settled
  BY <1>1, <1>2, <1>3 DEF Settled
<1>4. CASE Crash
  <2>1. \A p \in Pairs : task'[p[1]][p[2]] # "gate"
    BY <1>4, TaskMoves DEF Pairs
  <2>. QED BY <1>1, <1>2, <1>4, <2>1 DEF Crash, storeVars, windowVars
<1>5. ASSUME NEW e \in Events, Deliver(e)
      PROVE  triageSpend'[y][d] + Cardinality(Gates(y, d)') * GateCost
                < TriageBudget + Slots * GateCost
  <2>1. \A p \in Pairs : task'[p[1]][p[2]] = "gate" => task[p[1]][p[2]] = "gate"
    BY <1>5, TaskMoves DEF Pairs
  <2>. QED BY <1>1, <1>2, <1>5, <2>1 DEF Deliver, windowVars
<1>6. ASSUME NEW e \in Events, NEW s \in Subs, TakeSlot(e, s)
      PROVE  triageSpend'[y][d] + Cardinality(Gates(y, d)') * GateCost
                < TriageBudget + Slots * GateCost
  <2>. DEFINE n == Cardinality(Gates(y, d))
  <2>1. \A p \in Pairs : p # <<e, s>> =>
           task'[p[1]][p[2]] = task[p[1]][p[2]] /\ taskDay'[p[1]][p[2]] = taskDay[p[1]][p[2]]
    <3>1. ASSUME NEW a \in Events, NEW b \in Subs, ~(a = e /\ b = s)
          PROVE  task'[a][b] = task[a][b] /\ taskDay'[a][b] = taskDay[a][b]
      <4>1. task'[a][b] = task[a][b]
        BY <1>6, <3>1, TaskMoves DEF TakeSlot
      <4>2. taskDay' = [taskDay EXCEPT ![e][s] = day]
        BY <1>6 DEF TakeSlot, Set
      <4>3. taskDay'[a][b] = taskDay[a][b]
        BY <3>1, <4>2 DEF EventTypeOK
      <4>. QED BY <4>1, <4>3
    <3>. QED BY <3>1 DEF Pairs
  <2>2. task'[e][s] = "gate" /\ taskDay'[e][s] = day /\ task[e][s] = "queued"
    BY <1>6, TaskMoves DEF TakeSlot, Set, EventTypeOK
  <2>3. UNCHANGED triageSpend
    BY <1>6 DEF TakeSlot, storeVars, windowVars
  <2>4. CASE y = s /\ d = day
    <3>1. Gates(y, d)' = Gates(y, d) \cup {<<e, s>>} /\ <<e, s>> \notin Gates(y, d)
      BY <2>1, <2>2, <2>4 DEF Gates, Holding, Pairs
    <3>2. Cardinality(Gates(y, d)') = n + 1 /\ n \in Nat
      BY <1>0, <3>1, FS_AddElement
    <3>3. n + 1 <= Slots /\ triageSpend[y][d] < TriageBudget
      BY <1>6, <2>4, GatesFinite DEF TakeSlot
    <3>. HIDE DEF n
    <3>4. (n + 1) * GateCost \in Nat /\ (n + 1) * GateCost <= Slots * GateCost
      BY <3>2, <3>3, WorstTriage
    <3>5. triageSpend'[y][d] + (n + 1) * GateCost < TriageBudget + Slots * GateCost
      BY <1>0, <2>3, <3>3, <3>4
    <3>. QED BY <3>2, <3>5
  <2>5. CASE ~(y = s /\ d = day)
    <3>1. Gates(y, d)' \subseteq Gates(y, d)
      BY <2>1, <2>2, <2>5 DEF Gates, Holding, Pairs
    <3>. QED BY <1>1, <2>3, <3>1
  <2>. QED BY <2>4, <2>5
<1>7. ASSUME NEW e \in Events, NEW s \in Subs, NEW v \in {"running", "failed", "done"},
             task' = Set(task, e, s, v), UNCHANGED taskDay,
             UNCHANGED triageSpend \/ Answered(e, s)
      PROVE  triageSpend'[y][d] + Cardinality(Gates(y, d)') * GateCost
                < TriageBudget + Slots * GateCost
  <2>1. \A p \in Pairs : task'[p[1]][p[2]] = IF p = <<e, s>> THEN v ELSE task[p[1]][p[2]]
    BY <1>7, TaskMoves DEF Pairs
  <2>2. Gates(y, d)' = Gates(y, d) \ {<<e, s>>}
    BY <1>7, <2>1 DEF Gates, Holding
  <2>3. CASE UNCHANGED triageSpend
    BY <1>1, <2>2, <2>3
  <2>4. CASE Answered(e, s) /\ y = s /\ d = taskDay[e][s]
    BY <2>2, <2>4, GateLeaves
  <2>5. CASE Answered(e, s) /\ ~(y = s /\ d = taskDay[e][s])
    <3>1. triageSpend'[y][d] = triageSpend[y][d]
      BY <2>5 DEF Answered, EventTypeOK
    <3>. QED BY <1>1, <2>2, <3>1
  <2>. QED BY <1>7, <2>3, <2>4, <2>5
<1>8. ASSUME NEW e \in Events, NEW s \in Subs, StartRun(e, s) \/ TaskFails(e, s) \/ Closes(e, s)
      PROVE  triageSpend'[y][d] + Cardinality(Gates(y, d)') * GateCost
                < TriageBudget + Slots * GateCost
  BY <1>7, <1>8 DEF StartRun, TaskFails, Closes
<1>. QED BY <1>3, <1>4, <1>5, <1>6, <1>8, StepShape
-----------------------------------------------------------------------------
(* The decisions.                                                            *)

(* Bodies are added by a delivery only.                                      *)
LEMMA BodiesOnlyGo ==
    ASSUME EventTypeOK, NEW e \in Events, Deliver(e)
    PROVE  Retained' \subseteq Retained \cup {e}
<1>1. Append(history, e) \in Seq(known \cup {e}) /\ history \in Seq(known)
  BY DEF EventTypeOK
<1>2. Retained' = KeptSet(Append(history, e))
  BY DEF Retained, Deliver, KeptSet
<1>3. Retained' \subseteq {Append(history, e)[i] : i \in 1..Len(Append(history, e))}
  BY <1>1, <1>2, KeptWindow
<1>4. /\ Len(Append(history, e)) = Len(history) + 1 /\ Len(history) \in Nat
      /\ Append(history, e)[Len(history) + 1] = e
      /\ \A i \in 1..Len(history) : Append(history, e)[i] = history[i]
  BY <1>1, AppendProperties, LenProperties
<1>. QED BY <1>3, <1>4 DEF Retained

(* A decision changes in two ways: it goes with its body, or is taken.       *)
LEMMA DecisionMoves ==
    ASSUME EventTypeOK, [Next]_eventVars, NEW x \in Events, NEW y \in Subs
    PROVE  \/ decided'[x][y] = decided[x][y]
           \/ decided'[x][y] = "none" /\ x \notin Retained'
           \/ /\ decided[x][y] = "none" /\ Closes(x, y) /\ decided'[x][y] # "none"
              /\ decided'[x][y] \in {"ignored", "refused"} => task[x][y] \in {"queued", "gate"}
<1>1. CASE Settled
  BY <1>1 DEF Settled
<1>2. CASE Crash
  BY <1>2 DEF Crash, storeVars
<1>3. ASSUME NEW e \in Events, Deliver(e)
      PROVE  \/ decided'[x][y] = decided[x][y]
             \/ decided'[x][y] = "none" /\ x \notin Retained'
  BY <1>3 DEF Deliver, Retained, KeptSet
<1>4. ASSUME NEW e \in Events, NEW s \in Subs, TakeSlot(e, s) \/ StartRun(e, s) \/ TaskFails(e, s)
      PROVE  decided'[x][y] = decided[x][y]
  BY <1>4 DEF TakeSlot, StartRun, TaskFails, storeVars
<1>5. ASSUME NEW e \in Events, NEW s \in Subs, Closes(e, s), decided'[x][y] # decided[x][y]
      PROVE  /\ decided[x][y] = "none" /\ Closes(x, y) /\ decided'[x][y] # "none"
             /\ decided'[x][y] \in {"ignored", "refused"} => task[x][y] \in {"queued", "gate"}
  <2>1. PICK verdict \in {"ignored", "refused", "ran", "failed"} :
           /\ verdict \in {"ignored", "refused"} => task[e][s] \in {"queued", "gate"}
           /\ decided[e][s] = "none"
           /\ decided' = [decided EXCEPT ![e][s] = verdict]
    BY <1>5 DEF Closes, Set
  <2>2. x = e /\ y = s /\ decided'[x][y] = verdict
    BY <1>5, <2>1 DEF EventTypeOK
  <2>. QED BY <1>5, <2>1, <2>2
<1>. QED BY <1>1, <1>2, <1>3, <1>4, <1>5, StepShape

\* Every step keeps a task that is still open without a stored decision.
LEMMA OpenUndecidedStands ==
    ASSUME EventTypeOK, [Next]_eventVars, TasksOfKnown, OpenUndecided
    PROVE  OpenUndecided'
<1>. SUFFICES ASSUME NEW x \in Events, NEW y \in Subs, task'[x][y] \in Undecided
              PROVE  decided'[x][y] = "none"
  BY DEF OpenUndecided
<1>1. task[x][y] \in Undecided
  <2>. USE DEF Undecided
  <2>1. CASE Settled
    BY <2>1 DEF Settled
  <2>2. CASE Crash
    BY <2>2, TaskMoves
  <2>3. ASSUME NEW e \in Events, Deliver(e) PROVE task[x][y] \in Undecided
    BY <2>3, TaskMoves DEF Deliver, Fresh, TasksOfKnown
  <2>4. ASSUME NEW e \in Events, NEW s \in Subs
        PROVE  TakeSlot(e, s) \/ StartRun(e, s) \/ TaskFails(e, s) \/ Closes(e, s) =>
                  task[x][y] \in Undecided
    BY <2>4, TaskMoves DEF TakeSlot, StartRun, TaskFails, Closes, Answered
  <2>. QED BY <2>1, <2>2, <2>3, <2>4, StepShape
<1>2. Closes(x, y) => task'[x][y] = "done"
  BY TaskMoves DEF Closes
<1>. QED BY <1>1, <1>2, DecisionMoves DEF OpenUndecided, Undecided

\* Every step keeps the decision of each finished task in the store: the
\* step that ends a task is the one that writes what was decided.
LEMMA DecisionStoredStands ==
    ASSUME EventTypeOK, [Next]_eventVars,
           TasksOfKnown, RunsAreStarted, OpenUndecided, DecisionStored
    PROVE  DecisionStored'
<1>. SUFFICES ASSUME NEW x \in Events, NEW y \in Subs
              PROVE  /\ task'[x][y] = "done" /\ x \in Retained' => decided'[x][y] # "none"
                     /\ decided'[x][y] \in {"ignored", "refused"} =>
                           \A i \in 1..Len(started') : <<started'[i][1], started'[i][2]>> # <<x, y>>
  BY DEF DecisionStored
<1>1. ASSUME task'[x][y] = "done", x \in Retained' PROVE decided'[x][y] # "none"
  <2>1. CASE task[x][y] = "done" /\ x \in Retained
    BY <1>1, <2>1, DecisionMoves DEF DecisionStored
  <2>2. CASE \E e \in Events : Deliver(e)
    <3>. PICK e \in Events : Deliver(e)
      BY <2>2
    <3>1. x # e /\ task[x][y] = "done"
      BY <1>1, TaskMoves
    <3>. QED BY <1>1, <2>1, <3>1, BodiesOnlyGo
  <2>3. ASSUME NEW e \in Events, NEW s \in Subs, Closes(e, s) PROVE decided'[x][y] # "none"
    <3>1. x \in Retained
      BY <1>1, <2>3 DEF Closes, Retained
    <3>2. CASE x = e /\ y = s
      <4>1. PICK verdict \in {"ignored", "refused", "ran", "failed"} :
               decided' = IF decided[e][s] = "none" THEN Set(decided, e, s, verdict) ELSE decided
        BY <2>3, <3>1, <3>2 DEF Closes
      <4>2. decided[e][s] = "none" => decided'[e][s] = verdict
        BY <4>1 DEF EventTypeOK, Set
      <4>. QED BY <3>2, <4>1, <4>2
    <3>3. CASE ~(x = e /\ y = s)
      BY <1>1, <2>1, <2>3, <3>1, <3>3, TaskMoves DEF Closes
    <3>. QED BY <3>2, <3>3
  <2>4. CASE Settled \/ Crash
    <3>1. Retained' = Retained
      BY <2>4 DEF Settled, Crash, storeVars, Retained
    <3>2. task[x][y] = "done"
      BY <1>1, <2>4, TaskMoves DEF Settled
    <3>. QED BY <1>1, <2>1, <3>1, <3>2
  <2>5. ASSUME NEW e \in Events, NEW s \in Subs, TakeSlot(e, s) \/ StartRun(e, s) \/ TaskFails(e, s)
        PROVE  decided'[x][y] # "none"
    <3>1. Retained' = Retained
      BY <2>5 DEF TakeSlot, StartRun, TaskFails, storeVars, Retained
    <3>2. task[x][y] = "done"
      BY <1>1, <2>5, TaskMoves DEF TakeSlot, StartRun, TaskFails
    <3>. QED BY <1>1, <2>1, <3>1, <3>2
  <2>. QED BY <2>2, <2>3, <2>4, <2>5, StepShape
<1>2. ASSUME decided'[x][y] \in {"ignored", "refused"}, NEW i \in 1..Len(started'),
             started'[i][1] = x, started'[i][2] = y
      PROVE  FALSE
  <2>1. CASE UNCHANGED started
    <3>1. task[x][y] \in Started
      BY <1>2, <2>1 DEF RunsAreStarted
    <3>2. decided'[x][y] = decided[x][y]
      BY <1>2, <3>1, DecisionMoves DEF Started
    <3>. QED BY <1>2, <2>1, <3>2 DEF DecisionStored
  <2>2. ASSUME NEW e \in Events, NEW s \in Subs, StartRun(e, s),
               Len(started') = Len(started) + 1,
               started'[Len(started) + 1] = <<e, s, taskDay[e][s]>>,
               \A j \in 1..Len(started) : started'[j] = started[j]
        PROVE  FALSE
    <3>1. UNCHANGED decided /\ task[e][s] = "gate"
      BY <2>2 DEF StartRun, Answered
    <3>2. i \in 1..Len(started) \/ i = Len(started) + 1
      BY <2>2, RunsInOrder
    <3>. QED BY <1>2, <2>2, <3>1, <3>2 DEF DecisionStored, OpenUndecided, Undecided
  <2>. QED BY <2>1, <2>2, OnlyStartRunStarts
<1>. QED BY <1>1, <1>2
-----------------------------------------------------------------------------
(* Together with the types, EventInv holds at first and is kept by every step.*)
THEOREM EventInvHolds == Spec => []EventInv
<1>1. Init => EventInv
  <2>. SUFFICES ASSUME Init PROVE EventInv
    OBVIOUS
  <2>1. /\ \A e \in Events, s \in Subs : task[e][s] = "none" /\ decided[e][s] = "none"
        /\ \A s \in Subs, d \in Days : runCount[s][d] = 0 /\ triageSpend[s][d] = 0
        /\ Len(started) = 0
    BY DEF Init
  <2>2. WindowsCount
    <3>1. \A s \in Subs, d \in Days : RunsOn(s, d) = {}
      BY <2>1 DEF RunsOn
    <3>2. \A s \in Subs, d \in Days : Cardinality(RunsOn(s, d)) = 0
      BY <3>1, FS_EmptySet
    <3>. QED BY <2>1, <3>2, EventConstants DEF WindowsCount
  <2>3. TriageCovered
    <3>1. \A s, d : Gates(s, d) = {}
      BY <2>1 DEF Gates, Holding, Pairs
    <3>2. \A s, d : Cardinality(Gates(s, d)) = 0
      BY <3>1, FS_EmptySet
    <3>3. 0 * GateCost = 0 /\ Slots * GateCost \in Nat
      BY WorstTriage, EventConstants
    <3>4. 0 + 0 * GateCost < TriageBudget + Slots * GateCost
      BY <3>3, EventConstants
    <3>. QED BY <2>1, <3>2, <3>4 DEF TriageCovered
  <2>4. TasksOfKnown /\ OpenUndecided
    BY <2>1 DEF TasksOfKnown, OpenUndecided
  <2>5. RunsAreStarted /\ OneRunPerEvent
    BY <2>1 DEF RunsAreStarted, OneRunPerEvent
  <2>6. DecisionStored
    BY <2>1 DEF DecisionStored
  <2>. QED BY <2>2, <2>3, <2>4, <2>5, <2>6 DEF EventInv
<1>2. EventTypeOK /\ EventInv /\ [Next]_eventVars => EventInv'
  BY TasksOfKnownStands, RunsAreStartedStands, OneRunStands, WindowsCountStands,
     TriageCoveredStands, OpenUndecidedStands, DecisionStoredStands
  DEF EventInv
<1>. QED BY <1>1, <1>2, EventsTyped, PTL DEF Spec

(* Runs decided together never pass the run ceiling of a day, the window     *)
(* counts exactly the runs of that day, and gates asked together pass the    *)
(* triage budget by at most what the slots hold (governor.py).               *)
THEOREM CeilingsAlwaysHold == Spec => []CeilingsHold
<1>1. EventTypeOK /\ EventInv => CeilingsHold
  <2>. SUFFICES ASSUME EventTypeOK, EventInv, NEW s \in Subs, NEW d \in Days
                PROVE  /\ Cardinality(RunsOn(s, d)) <= MaxRuns
                       /\ runCount[s][d] = Cardinality(RunsOn(s, d))
                       /\ triageSpend[s][d] < TriageBudget + Slots * GateCost
    BY DEF CeilingsHold
  <2>. DEFINE n == Cardinality(Gates(s, d))
  <2>1. triageSpend[s][d] + n * GateCost < TriageBudget + Slots * GateCost
    BY DEF EventInv, TriageCovered
  <2>2. n \in Nat /\ triageSpend[s][d] \in Nat
    BY GatesFinite DEF EventTypeOK
  <2>. HIDE DEF n
  <2>3. n * GateCost \in Nat /\ Slots * GateCost \in Nat
    BY <2>2, WorstTriage, EventConstants
  <2>4. triageSpend[s][d] < TriageBudget + Slots * GateCost
    BY <2>1, <2>2, <2>3, EventConstants
  <2>. QED BY <2>4 DEF EventInv, WindowsCount
<1>. QED BY <1>1, EventInvHolds, EventsTyped, PTL

(* A redelivery never starts a second run, through compaction and crashes.   *)
THEOREM NeverRunTwice == Spec => []OneRunPerEvent
<1>1. EventInv => OneRunPerEvent
  BY DEF EventInv
<1>. QED BY <1>1, EventInvHolds, PTL

(* Every task that is over left its decision: with the event or, when the    *)
(* body was compacted away meanwhile, among the refusals.                    *)
THEOREM DecisionsKept == Spec => DecisionKept
<1>. DEFINE Kept1 == \A e \in Events, s \in Subs :
               task[e][s] \notin {"done", "none"} /\ task'[e][s] = "done" /\ e \notin Retained
                   => \E i \in 1..Len(refusals') : refusals'[i] = <<e, s>>
<1>1. ASSUME EventTypeOK, TasksOfKnown, [Next]_eventVars PROVE Kept1
  <2>. SUFFICES ASSUME NEW x \in Events, NEW y \in Subs,
                       task[x][y] # "done", task'[x][y] = "done", x \notin Retained
                PROVE  \E i \in 1..Len(refusals') : refusals'[i] = <<x, y>>
    OBVIOUS
  <2>1. ASSUME NEW e \in Events, NEW s \in Subs, Closes(e, s)
        PROVE  \E i \in 1..Len(refusals') : refusals'[i] = <<x, y>>
    <3>1. x = e /\ y = s
      BY <1>1, <2>1, TaskMoves DEF Closes
    <3>. QED BY <2>1, <3>1 DEF Closes
  <2>2. ~(Settled \/ Crash)
    BY <1>1, TaskMoves DEF Settled
  <2>3. ASSUME NEW e \in Events PROVE ~Deliver(e)
    BY <1>1, <2>3, TaskMoves
  <2>4. ASSUME NEW e \in Events, NEW s \in Subs
        PROVE  ~(TakeSlot(e, s) \/ StartRun(e, s) \/ TaskFails(e, s))
    BY <1>1, <2>4, TaskMoves DEF TakeSlot, StartRun, TaskFails
  <2>. QED BY <1>1, <2>1, <2>2, <2>3, <2>4, StepShape
<1>2. EventTypeOK /\ EventInv /\ EventInv' /\ [Next]_eventVars => [DecisionStored' /\ Kept1]_eventVars
  BY <1>1 DEF EventInv
<1>. HIDE DEF Kept1
<1>3. Spec => [][DecisionStored' /\ Kept1]_eventVars
  BY <1>2, EventInvHolds, EventsTyped, PTL DEF Spec
<1>. QED BY <1>3, PTL DEF Kept1, DecisionKept
=============================================================================
