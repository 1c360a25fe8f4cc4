--------------------------- MODULE GraphStoreProofs ---------------------------
(* What the run checkpoint guarantees for any set of tasks, handles and      *)
(* patches: its types, a sound graph, no structural deadlock, finality of    *)
(* decisions, and the refinement of RunLedger.                               *)
EXTENDS GraphStore, FiniteSetTheorems, NaturalsInduction, TLAPS

(* An operation of the store, with any patch and any trigger: what is proved *)
(* of it holds of every component that writes the checkpoint.                *)
StoreStep ==
    \/ Start
    \/ Resume
    \/ \E S \in SUBSET Tasks : MarkRunning(S)
    \/ \E n \in Tasks, ok \in BOOLEAN : RecordOutcome(n, ok)
    \/ \E n \in Tasks, h \in Handles : RecordWaiting(n, h)
    \/ \E h \in Handles, ok \in BOOLEAN : CompleteWaiting(h, ok)
    \/ \E i \in Nat, p \in PatchType : ApplyPatch(p, i)
    \/ \E n \in Tasks : RecordExternalEvent(n)

(* The steps of the store's own specification are such operations.           *)
LEMMA NextIsStoreStep == [Next]_storeVars => [StoreStep]_storeVars
BY PatchesTyped DEF Next, StoreStep, Answerable

NodeStates == {"absent"} \cup Active \cup Terminal

(* Journal entries are well typed. *)
LEMMA EntryTyped ==
    /\ \A k \in Kinds, N \in SUBSET Tasks : Entry(k, N) \in EntryType
    /\ \A p \in PatchType, i \in Nat :
          state \in [Tasks -> NodeStates] => PatchEntry(p, i) \in EntryType
<1>1. \A k \in Kinds, N \in SUBSET Tasks : Entry(k, N) \in EntryType
  BY DEF Entry, EntryType
<1>2. \A p \in PatchType : LeftOpen(p) \in SUBSET Tasks
  BY DEF LeftOpen
<1>3. "graph_patched" \in Kinds
  BY DEF Kinds
<1>4. \A p \in PatchType, i \in Nat : PatchEntry(p, i) \in EntryType
  BY <1>2, <1>3 DEF PatchEntry, EntryType, PatchType
<1>. QED BY <1>1, <1>4

(* A patch leaves every node in a NodeState. *)
LEMMA RevisedTyped ==
    ASSUME state \in [Tasks -> NodeStates], NEW p \in PatchType
    PROVE  /\ Revised(p) \in [Tasks -> NodeStates]
           /\ StateAfter(p) \in [Tasks -> NodeStates]
<1>1. ASSUME NEW n \in Tasks PROVE Revised(p)[n] \in NodeStates
  BY <1>1 DEF Revised, NodeStates, Active, Terminal
<1>2. Revised(p) \in [Tasks -> NodeStates]
  BY <1>1 DEF Revised
<1>3. ASSUME NEW n \in Tasks PROVE StateAfter(p)[n] \in NodeStates
  BY <1>1, <1>3 DEF StateAfter, NodeStates, Terminal
<1>4. StateAfter(p) \in [Tasks -> NodeStates]
  BY <1>3 DEF StateAfter
<1>. QED BY <1>2, <1>4

(* Every operation keeps the types.                                          *)
LEMMA TypeStep ==
    ASSUME TypeOK, [StoreStep]_storeVars
    PROVE  TypeOK'
<1>. USE DEF TypeOK
<1>0. state \in [Tasks -> NodeStates]
  BY DEF NodeStates
<1>k. /\ "run_started" \in Kinds /\ "run_resumed" \in Kinds /\ "task_started" \in Kinds
      /\ "task_waiting" \in Kinds /\ "external_event_received" \in Kinds
      /\ "external_event" \in Kinds /\ \A ok \in BOOLEAN : OutcomeKind(ok) \in Kinds
  BY DEF Kinds, PlannerKinds, ExternalKinds, Outcomes, OutcomeKind
<1>1. CASE Start
  BY <1>1, <1>k, EntryTyped DEF Start
<1>2. CASE Resume
  <2>1. state' \in [Tasks -> {"absent"} \cup Active \cup Terminal]
    BY <1>2 DEF Resume, Active
  <2>2. journal' \in Seq(EntryType)
    BY <1>2, <1>k, EntryTyped DEF Resume
  <2>. QED BY <1>2, <2>1, <2>2 DEF Resume
<1>3. CASE \E S \in SUBSET Tasks : MarkRunning(S)
  <2>. PICK S \in SUBSET Tasks : MarkRunning(S)
    BY <1>3
  <2>1. state' \in [Tasks -> {"absent"} \cup Active \cup Terminal]
    BY DEF MarkRunning, Active
  <2>2. journal' \in Seq(EntryType)
    BY <1>k, EntryTyped DEF MarkRunning
  <2>. QED BY <2>1, <2>2 DEF MarkRunning
<1>4. CASE \E n \in Tasks, ok \in BOOLEAN : RecordOutcome(n, ok)
  <2>. PICK n \in Tasks, ok \in BOOLEAN : RecordOutcome(n, ok)
    BY <1>4
  <2>1. state' \in [Tasks -> {"absent"} \cup Active \cup Terminal]
    BY DEF RecordOutcome, OutcomeState, Terminal
  <2>2. journal' \in Seq(EntryType)
    BY <1>k, EntryTyped DEF RecordOutcome
  <2>. QED BY <2>1, <2>2 DEF RecordOutcome
<1>5. CASE \E n \in Tasks, h \in Handles : RecordWaiting(n, h)
  <2>. PICK n \in Tasks, h \in Handles : RecordWaiting(n, h)
    BY <1>5
  <2>1. state' \in [Tasks -> {"absent"} \cup Active \cup Terminal]
    BY DEF RecordWaiting, Active
  <2>2. journal' \in Seq(EntryType)
    BY <1>k, EntryTyped DEF RecordWaiting
  <2>. QED BY <2>1, <2>2 DEF RecordWaiting
<1>6. CASE \E h \in Handles, ok \in BOOLEAN : CompleteWaiting(h, ok)
  <2>. PICK h \in Handles, ok \in BOOLEAN : CompleteWaiting(h, ok)
    BY <1>6
  <2>. PICK n \in Tasks :
          /\ state' = [state EXCEPT ![n] = OutcomeState(ok)]
          /\ wait' = [wait EXCEPT ![n] = NoHandle]
          /\ journal' = journal \o <<Entry("external_event_received", {n}),
                                     Entry(OutcomeKind(ok), {n})>>
          /\ UNCHANGED <<deps, finished, applied>>
    BY DEF CompleteWaiting
  <2>1. state' \in [Tasks -> {"absent"} \cup Active \cup Terminal]
    BY DEF OutcomeState, Terminal
  <2>2. <<Entry("external_event_received", {n}), Entry(OutcomeKind(ok), {n})>> \in Seq(EntryType)
    BY <1>k, EntryTyped
  <2>. QED BY <2>1, <2>2
<1>7. CASE \E i \in Nat, p \in PatchType : ApplyPatch(p, i)
  <2>. PICK i \in Nat, p \in PatchType : ApplyPatch(p, i)
    BY <1>7
  <2>1. state' \in [Tasks -> {"absent"} \cup Active \cup Terminal]
    BY <1>0, RevisedTyped DEF ApplyPatch, NodeStates
  <2>2. journal' \in Seq(EntryType)
    BY <1>0, EntryTyped DEF ApplyPatch
  <2>. QED BY <2>1, <2>2 DEF ApplyPatch, PatchType
<1>8. CASE \E n \in Tasks : RecordExternalEvent(n)
  BY <1>8, <1>k, EntryTyped DEF RecordExternalEvent
<1>9. CASE UNCHANGED storeVars
  BY <1>9 DEF storeVars
<1>. QED BY <1>1, <1>2, <1>3, <1>4, <1>5, <1>6, <1>7, <1>8, <1>9 DEF StoreStep

(* A run without a checkpoint is well typed.                                 *)
LEMMA InitTyped == ASSUME Init PROVE TypeOK
<1>1. journal \in Seq(EntryType)
  BY DEF Init
<1>2. state \in [Tasks -> {"absent"} \cup Active \cup Terminal]
  BY DEF Init
<1>. QED BY <1>1, <1>2 DEF Init, TypeOK

(* The checkpoint is well typed in every reachable state. *)
THEOREM TypeCorrect == Spec => []TypeOK
<1>1. Init => TypeOK
  BY InitTyped
<1>2. TypeOK /\ [Next]_storeVars => TypeOK'
  BY NextIsStoreStep, TypeStep
<1>. QED BY <1>1, <1>2, PTL DEF Spec
-----------------------------------------------------------------------------
(* No operation moves a node out of a terminal state or out of the graph.    *)
LEMMA StatesOnlyAdvance ==
    ASSUME TypeOK, [StoreStep]_storeVars, NEW m \in Tasks
    PROVE  /\ state[m] \in Terminal => state'[m] = state[m]
           /\ state[m] # "absent" => state'[m] # "absent"
<1>. USE DEF TypeOK, Terminal
<1>1. CASE Start \/ UNCHANGED storeVars \/ \E n \in Tasks : RecordExternalEvent(n)
  BY <1>1 DEF Start, storeVars, RecordExternalEvent
<1>2. CASE Resume
  BY <1>2 DEF Resume
<1>3. CASE \E S \in SUBSET Tasks : MarkRunning(S)
  BY <1>3 DEF MarkRunning, Ready, InState
<1>4. CASE \E n \in Tasks, ok \in BOOLEAN : RecordOutcome(n, ok)
  BY <1>4 DEF RecordOutcome, OutcomeState
<1>5. CASE \E n \in Tasks, h \in Handles : RecordWaiting(n, h)
  BY <1>5 DEF RecordWaiting
<1>6. CASE \E h \in Handles, ok \in BOOLEAN : CompleteWaiting(h, ok)
  BY <1>6 DEF CompleteWaiting, WaitingFor, OutcomeState
<1>7. CASE \E i \in Nat, p \in PatchType : ApplyPatch(p, i)
  <2>. PICK i \in Nat, p \in PatchType : ApplyPatch(p, i)
    BY <1>7
  <2>1. state'[m] = IF m \in LeftOpen(p) THEN "CANCELLED" ELSE Revised(p)[m]
    BY DEF ApplyPatch, StateAfter
  <2>2. CASE state[m] \in Terminal
    <3>1. m \notin p.cancel \cup p.wait \cup p.resume \cup p.add
      BY <2>2 DEF ApplyPatch, CanPatch, InState, Known, Active
    <3>2. Revised(p)[m] = state[m]
      BY <3>1 DEF Revised
    <3>3. m \notin LeftOpen(p)
      BY <2>2, <3>2 DEF LeftOpen, Active
    <3>. QED BY <2>1, <2>2, <3>2, <3>3
  <2>3. state[m] # "absent" => Revised(p)[m] # "absent"
    BY DEF Revised
  <2>. QED BY <2>1, <2>2, <2>3
<1>. QED BY <1>1, <1>2, <1>3, <1>4, <1>5, <1>6, <1>7 DEF StoreStep

(* Every operation keeps the graph sound.                                    *)
LEMMA SoundStep ==
    ASSUME TypeOK, GraphSound, [StoreStep]_storeVars
    PROVE  GraphSound'
<1>1. CASE \E i \in Nat, p \in PatchType : ApplyPatch(p, i)
  <2>. PICK i \in Nat, p \in PatchType : ApplyPatch(p, i)
    BY <1>1
  <2>1. deps' = deps \cup p.connect /\ AcyclicEdges(deps \cup p.connect)
    BY DEF ApplyPatch, CanPatch
  <2>2. \A m \in p.add : state'[m] # "absent"
    <3>. SUFFICES ASSUME NEW m \in p.add, m \in Tasks PROVE state'[m] # "absent"
      BY DEF PatchType
    <3>1. Revised(p)[m] # "absent"
      BY DEF Revised
    <3>. QED BY <3>1 DEF ApplyPatch, StateAfter
  <2>3. \A m \in Known : m \in Known'
    BY StatesOnlyAdvance DEF Known
  <2>4. p.add \subseteq Known'
    BY <2>2 DEF Known, PatchType
  <2>5. \A e \in deps' : e[1] \in Known' /\ e[2] \in Known'
    BY <2>1, <2>3, <2>4 DEF GraphSound, ApplyPatch, CanPatch
  <2>. QED BY <2>1, <2>5 DEF GraphSound, AcyclicEdges
<1>2. CASE UNCHANGED deps
  <2>1. \A m \in Known : m \in Known'
    BY StatesOnlyAdvance DEF Known
  <2>. QED BY <1>2, <2>1 DEF GraphSound, AcyclicEdges
<1>3. (\E i \in Nat, p \in PatchType : ApplyPatch(p, i)) \/ UNCHANGED deps
  BY DEF StoreStep, storeVars, Start, Resume, MarkRunning, RecordOutcome, RecordWaiting,
         CompleteWaiting, RecordExternalEvent
<1>. QED BY <1>1, <1>2, <1>3

(* The graph is sound in every reachable state: only a patch adds edges, and *)
(* it was checked against the edges it would make.                           *)
THEOREM GraphAlwaysSound == Spec => []GraphSound
<1>1. Init => GraphSound
  BY DEF Init, GraphSound, AcyclicEdges
<1>2. TypeOK /\ GraphSound /\ [Next]_storeVars => GraphSound'
  BY NextIsStoreStep, SoundStep
<1>. QED BY <1>1, <1>2, TypeCorrect, PTL DEF Spec

(* A sound graph has a ready task among its pending ones: the sources of the *)
(* pending subgraph, when nothing runs, waits, failed or was cancelled.      *)
LEMMA SoundHasReady ==
    ASSUME TypeOK, GraphSound
    PROVE  NoStructuralDeadlock
<1>. SUFFICES ASSUME TypeOK, GraphSound,
                     InState({"PENDING"}) # {},
                     InState({"RUNNING", "WAITING", "FAILED", "CANCELLED"}) = {}
              PROVE  Ready # {}
  BY DEF NoStructuralDeadlock
<1>1. PICK n \in InState({"PENDING"}) : \A p \in InState({"PENDING"}) : <<p, n>> \notin deps
  BY DEF GraphSound, AcyclicEdges, InState
<1>2. ASSUME NEW p \in Parents(n) PROVE state[p] = "SUCCEEDED"
  <2>1. p \in Tasks /\ <<p, n>> \in deps
    BY <1>2 DEF Parents
  <2>2. p \in Known /\ p \notin InState({"PENDING"})
    BY <1>1, <2>1 DEF GraphSound
  <2>. QED BY <2>1, <2>2 DEF InState, Known, TypeOK, Active, Terminal
<1>. QED BY <1>1, <1>2 DEF Ready

(* A sound graph in which nothing runs, waits, failed or was cancelled has a *)
(* ready task among its pending ones: the sources of the pending subgraph.   *)
THEOREM NeverDeadlocked == Spec => []NoStructuralDeadlock
<1>1. TypeOK /\ GraphSound => NoStructuralDeadlock
  BY SoundHasReady
<1>. QED BY <1>1, TypeCorrect, GraphAlwaysSound, PTL
-----------------------------------------------------------------------------
(* The journal is only ever appended to.                                     *)
LEMMA JournalGrows ==
    ASSUME TypeOK, [StoreStep]_storeVars
    PROVE  /\ Len(journal) <= Len(journal')
           /\ \A i \in 1..Len(journal) : journal'[i] = journal[i]
<1>. USE DEF TypeOK
<1>1. CASE Start
  BY <1>1 DEF Start, Exists
<1>2. CASE UNCHANGED journal
  BY <1>2
<1>3. CASE \E x : journal' = Append(journal, x)
  BY <1>3
<1>4. CASE \E h \in Handles, ok \in BOOLEAN : CompleteWaiting(h, ok)
  <2>. PICK x, y : journal' = journal \o <<x, y>>
    BY <1>4 DEF CompleteWaiting
  <2>. QED OBVIOUS
<1>. QED BY <1>1, <1>2, <1>3, <1>4 DEF StoreStep, storeVars, Resume, MarkRunning, RecordOutcome,
                                      RecordWaiting, ApplyPatch, RecordExternalEvent

(* Every operation leaves a finished run without an active node.             *)
LEMMA QuietStep ==
    ASSUME TypeOK, FinishedIsQuiet, [StoreStep]_storeVars
    PROVE  FinishedIsQuiet'
<1>. SUFFICES ASSUME TypeOK, FinishedIsQuiet, [StoreStep]_storeVars,
                     finished', NEW m \in Tasks
              PROVE  state'[m] \notin Active
  BY DEF FinishedIsQuiet, InState
<1>1. CASE \E i \in Nat, p \in PatchType : ApplyPatch(p, i)
  <2>. PICK i \in Nat, p \in PatchType : ApplyPatch(p, i)
    BY <1>1
  <2>1. p.finish
    BY DEF ApplyPatch
  <2>2. state'[m] = IF Revised(p)[m] \in Active THEN "CANCELLED" ELSE Revised(p)[m]
    BY <2>1 DEF ApplyPatch, StateAfter, LeftOpen
  <2>. QED BY <2>2 DEF Active
<1>2. CASE ~(\E i \in Nat, p \in PatchType : ApplyPatch(p, i))
  <2>1. finished
    BY <1>2 DEF StoreStep, storeVars, Start, Resume, MarkRunning, RecordOutcome, RecordWaiting,
                CompleteWaiting, RecordExternalEvent
  <2>2. \A n \in Tasks : state[n] \notin Active
    BY <2>1 DEF FinishedIsQuiet, InState
  <2>3. CASE UNCHANGED state
    BY <2>2, <2>3
  <2>4. CASE Resume
    BY <2>2, <2>4 DEF Resume, Active
  <2>5. ~(\E S \in SUBSET Tasks : MarkRunning(S))
    BY <2>2 DEF MarkRunning, Ready, InState, Active
  <2>6. ~(\E n \in Tasks, ok \in BOOLEAN : RecordOutcome(n, ok))
    BY <2>2 DEF RecordOutcome, Active
  <2>7. ~(\E n \in Tasks, h \in Handles : RecordWaiting(n, h))
    BY <2>2 DEF RecordWaiting, Active
  <2>8. ~(\E h \in Handles, ok \in BOOLEAN : CompleteWaiting(h, ok))
    BY <2>2 DEF CompleteWaiting, WaitingFor, Active
  <2>. QED BY <1>2, <2>3, <2>4, <2>5, <2>6, <2>7, <2>8
           DEF StoreStep, storeVars, Start, RecordExternalEvent
<1>. QED BY <1>1, <1>2

(* A finished run never has an active node: finish cancels every one of      *)
(* them, and nothing but a patch makes a node active again.                  *)
THEOREM FinishedAlwaysQuiet == Spec => []FinishedIsQuiet
<1>1. Init => FinishedIsQuiet
  BY DEF Init, FinishedIsQuiet
<1>2. TypeOK /\ FinishedIsQuiet /\ [Next]_storeVars => FinishedIsQuiet'
  BY NextIsStoreStep, QuietStep
<1>. QED BY <1>1, <1>2, TypeCorrect, PTL DEF Spec

(* No operation revises what was decided.                                    *)
LEMMA StandStep ==
    ASSUME TypeOK, FinishedIsQuiet, [StoreStep]_storeVars
    PROVE  /\ \A n \in Tasks : state[n] \in Terminal => state'[n] = state[n]
           /\ finished => finished' /\ UNCHANGED <<state, deps, applied>>
           /\ Len(journal) <= Len(journal')
           /\ \A i \in 1..Len(journal) : journal'[i] = journal[i]
<1>1. ASSUME finished PROVE finished' /\ UNCHANGED <<state, deps, applied>>
  <2>1. \A n \in Tasks : state[n] \notin Active
    BY <1>1 DEF FinishedIsQuiet, InState
  <2>2. CASE Resume
    <3>1. state' = [n \in Tasks |-> state[n]]
      BY <2>1, <2>2 DEF Resume, Active
    <3>. QED BY <1>1, <2>2, <3>1 DEF Resume, TypeOK
  <2>3. ~(\E S \in SUBSET Tasks : MarkRunning(S))
    BY <2>1 DEF MarkRunning, Ready, InState, Active
  <2>4. ~(\E n \in Tasks, ok \in BOOLEAN : RecordOutcome(n, ok))
    BY <2>1 DEF RecordOutcome, Active
  <2>5. ~(\E n \in Tasks, h \in Handles : RecordWaiting(n, h))
    BY <2>1 DEF RecordWaiting, Active
  <2>6. ~(\E h \in Handles, ok \in BOOLEAN : CompleteWaiting(h, ok))
    BY <2>1 DEF CompleteWaiting, WaitingFor, Active
  <2>7. ~(\E i \in Nat, p \in PatchType : ApplyPatch(p, i))
    BY <1>1 DEF ApplyPatch, CanPatch
  <2>. QED BY <1>1, <2>2, <2>3, <2>4, <2>5, <2>6, <2>7
           DEF StoreStep, storeVars, Start, RecordExternalEvent
<1>. QED BY <1>1, StatesOnlyAdvance, JournalGrows

(* No operation revises a terminal node, a finished graph or the past of the *)
(* journal.                                                                  *)
THEOREM DecisionsAlwaysStand == Spec => DecisionsStand
<1>1. TypeOK /\ FinishedIsQuiet /\ [Next]_storeVars =>
        [/\ \A n \in Tasks : state[n] \in Terminal => state'[n] = state[n]
         /\ finished => finished' /\ UNCHANGED <<state, deps, applied>>
         /\ Len(journal) <= Len(journal')
         /\ \A i \in 1..Len(journal) : journal'[i] = journal[i]]_storeVars
  BY NextIsStoreStep, StandStep
<1>. QED BY <1>1, TypeCorrect, FinishedAlwaysQuiet, PTL DEF Spec, DecisionsStand
-----------------------------------------------------------------------------
(* Which verdict stands for which node state. *)
LEMMA VerdictTable ==
    ASSUME NEW s \in NodeStates
    PROVE  /\ VerdictOf(s) = "none" <=> s = "absent"
           /\ VerdictOf(s) = "open" <=> s \in Active
           /\ VerdictOf(s) = "won" <=> s = "SUCCEEDED"
           /\ VerdictOf(s) = "lost" <=> s = "FAILED"
           /\ VerdictOf(s) = "dropped" <=> s = "CANCELLED"
BY DEF VerdictOf, NodeStates, Active, Terminal

(* A step that leaves every node's verdict and the finished flag alone is    *)
(* invisible to a reader of the ledger.                                      *)
LEMMA VerdictStutter ==
    ASSUME TypeOK, UNCHANGED finished,
           \A m \in Tasks : \/ state'[m] = state[m]
                            \/ state[m] \in Active /\ state'[m] \in Active
    PROVE  UNCHANGED Ledger!vars
<1>1. ASSUME NEW m \in Tasks PROVE VerdictOf(state'[m]) = VerdictOf(state[m])
  <2>1. CASE state'[m] = state[m]
    BY <2>1
  <2>2. CASE state[m] \in Active /\ state'[m] \in Active
    <3>1. \A x \in Active : x \in NodeStates /\ VerdictOf(x) = VerdictOf("PENDING")
      BY VerdictTable DEF NodeStates, Active
    <3>. QED BY <2>2, <3>1
  <2>. QED BY <2>1, <2>2
<1>2. Verdict' = Verdict
  BY <1>1 DEF Verdict
<1>. QED BY <1>2 DEF Ledger!vars

(* An outcome, local or called back, settles one open task.                  *)
LEMMA OutcomeSettles ==
    ASSUME TypeOK, ~finished, UNCHANGED finished,
           NEW n \in Tasks, NEW ok \in BOOLEAN, state[n] \in Active,
           state' = [state EXCEPT ![n] = OutcomeState(ok)]
    PROVE  Ledger!Next
<1>. DEFINE v == VerdictOf(OutcomeState(ok))
<1>1. Verdict[n] = "open"
  BY VerdictTable DEF NodeStates, Verdict
<1>2. v \in {"won", "lost"}
  BY VerdictTable DEF OutcomeState, NodeStates, Terminal
<1>3. ASSUME NEW m \in Tasks
      PROVE  VerdictOf(state'[m]) = IF m = n THEN v ELSE VerdictOf(state[m])
  BY DEF TypeOK
<1>. HIDE DEF v
<1>4. Verdict' = [Verdict EXCEPT ![n] = v]
  BY <1>3 DEF Verdict
<1>5. Ledger!Settle(n, v)
  BY <1>1, <1>2, <1>4 DEF Ledger!Settle
<1>. QED BY <1>2, <1>5 DEF Ledger!Next, Ledger!Verdicts

(* A patch revises the ledger: what it adds, what ends cancelled because of  *)
(* it, and whether it seals.                                                 *)
LEMMA PatchRevises ==
    ASSUME TypeOK, NEW p \in PatchType, CanPatch(p),
           state' = StateAfter(p), finished' = p.finish
    PROVE  Ledger!Next
<1>. DEFINE D == {n \in Tasks : StateAfter(p)[n] = "CANCELLED" /\ state[n] # "CANCELLED"}
<1>1. p.add \in SUBSET Tasks /\ D \in SUBSET Tasks /\ p.finish \in BOOLEAN
  BY DEF PatchType
<1>2. \A t \in p.add : Verdict[t] = "none"
  BY <1>1, VerdictTable DEF CanPatch, Known, NodeStates, Verdict
<1>3. ASSUME NEW m \in Tasks
      PROVE  /\ m \in p.add \cup p.resume \cup p.wait \/ (m \in p.cancel) =>
                     state[m] \in Active \/ m \in p.add
             /\ m \in p.add => state[m] = "absent"
  BY <1>1 DEF CanPatch, InState, Known, Active
<1>4. \A t \in D : Verdict[t] = "open" \/ t \in p.add
  <2>. SUFFICES ASSUME NEW t \in D, t \notin p.add PROVE state[t] \in Active
    BY VerdictTable DEF NodeStates, Verdict
  <2>1. CASE t \in LeftOpen(p)
    <3>1. Revised(p)[t] \in Active
      BY <2>1 DEF LeftOpen
    <3>. QED BY <1>3, <3>1 DEF Revised
  <2>2. CASE t \notin LeftOpen(p)
    <3>1. Revised(p)[t] = "CANCELLED" /\ state[t] # "CANCELLED"
      BY <2>2 DEF StateAfter
    <3>. QED BY <1>3, <3>1 DEF Revised
  <2>. QED BY <2>1, <2>2
<1>. DEFINE New(t) == IF t \in D \/ (p.finish /\ (t \in p.add \/ Verdict[t] = "open"))
                      THEN "dropped"
                      ELSE IF t \in p.add THEN "open" ELSE Verdict[t]
<1>5. ASSUME NEW m \in Tasks PROVE VerdictOf(state'[m]) = New(m)
  <2>. DEFINE s == StateAfter(p)[m]
  <2>1. state[m] \in NodeStates /\ s \in NodeStates /\ state'[m] = s
    BY RevisedTyped DEF TypeOK, NodeStates
  <2>2. Verdict[m] = VerdictOf(state[m])
    BY DEF Verdict
  <2>3. m \in D <=> s = "CANCELLED" /\ state[m] # "CANCELLED"
    OBVIOUS
  <2>4. CASE m \in p.add \cup p.cancel \cup p.wait \cup p.resume
    <3>1. Revised(p)[m] \in Active \cup {"CANCELLED"}
      BY <2>4 DEF Revised, Active
    <3>2. s \in Active \cup {"CANCELLED"} /\ (p.finish => s = "CANCELLED")
      BY <3>1 DEF StateAfter, LeftOpen, Active
    <3>3. state[m] \in Active \/ m \in p.add
      BY <1>3, <2>4
    <3>4. state[m] # "CANCELLED"
      BY <1>3, <3>3 DEF Active
    <3>5. VerdictOf(s) = IF s = "CANCELLED" THEN "dropped" ELSE "open"
      BY <2>1, <3>2, VerdictTable DEF Active
    <3>6. Verdict[m] = "open" \/ m \in p.add
      BY <2>1, <2>2, <3>3, VerdictTable
    <3>. QED BY <2>1, <2>3, <3>2, <3>4, <3>5, <3>6
  <2>5. CASE m \notin p.add \cup p.cancel \cup p.wait \cup p.resume
    <3>1. Revised(p)[m] = state[m]
      BY <2>5 DEF Revised
    <3>2. s = IF p.finish /\ state[m] \in Active THEN "CANCELLED" ELSE state[m]
      BY <3>1 DEF StateAfter, LeftOpen
    <3>3. CASE p.finish /\ state[m] \in Active
      <4>1. Verdict[m] = "open" /\ VerdictOf(s) = "dropped"
        BY <2>1, <2>2, <3>2, <3>3, VerdictTable
      <4>. QED BY <2>1, <3>3, <4>1
    <3>4. CASE ~(p.finish /\ state[m] \in Active)
      <4>1. s = state[m] /\ m \notin D
        BY <3>2, <3>4
      <4>2. ~(p.finish /\ Verdict[m] = "open")
        BY <2>1, <2>2, <3>4, VerdictTable
      <4>. QED BY <2>1, <2>2, <2>5, <4>1, <4>2
    <3>. QED BY <3>3, <3>4
  <2>. QED BY <2>4, <2>5
<1>6. Verdict' = [t \in Tasks |-> New(t)]
  BY <1>5 DEF Verdict
<1>7. Ledger!Revise(p.add, D, p.finish)
  BY <1>2, <1>4, <1>6 DEF Ledger!Revise, CanPatch
<1>. QED BY <1>1, <1>7 DEF Ledger!Next

(* Every operation is a step of the ledger, or invisible to its reader.      *)
LEMMA LedgerStep ==
    ASSUME TypeOK, FinishedIsQuiet, [StoreStep]_storeVars
    PROVE  Ledger!Next \/ UNCHANGED Ledger!vars
<1>1. CASE Start \/ UNCHANGED storeVars \/ \E n \in Tasks : RecordExternalEvent(n)
  BY <1>1, VerdictStutter DEF Start, storeVars, RecordExternalEvent
<1>2. CASE Resume
  BY <1>2, VerdictStutter DEF Resume, Active
<1>3. CASE \E S \in SUBSET Tasks : MarkRunning(S)
  BY <1>3, VerdictStutter DEF MarkRunning, Ready, InState, Active
<1>4. CASE \E n \in Tasks, ok \in BOOLEAN : RecordOutcome(n, ok)
  <2>. PICK n \in Tasks, ok \in BOOLEAN : RecordOutcome(n, ok)
    BY <1>4
  <2>1. state[n] \in Active /\ ~finished
    BY DEF RecordOutcome, Active, FinishedIsQuiet, InState
  <2>. QED BY <2>1, OutcomeSettles DEF RecordOutcome
<1>5. CASE \E n \in Tasks, h \in Handles : RecordWaiting(n, h)
  <2>. PICK n \in Tasks, h \in Handles : RecordWaiting(n, h)
    BY <1>5
  <2>1. \A m \in Tasks : state'[m] = IF m = n THEN "WAITING" ELSE state[m]
    BY DEF RecordWaiting, TypeOK
  <2>. QED BY <2>1, VerdictStutter DEF RecordWaiting, Active
<1>6. CASE \E h \in Handles, ok \in BOOLEAN : CompleteWaiting(h, ok)
  <2>. PICK h \in Handles, ok \in BOOLEAN : CompleteWaiting(h, ok)
    BY <1>6
  <2>. PICK n \in Tasks : /\ WaitingFor(h) = {n}
                         /\ state' = [state EXCEPT ![n] = OutcomeState(ok)]
                         /\ UNCHANGED finished
    BY DEF CompleteWaiting
  <2>1. state[n] \in Active /\ ~finished
    BY DEF WaitingFor, Active, FinishedIsQuiet, InState
  <2>. QED BY <2>1, OutcomeSettles
<1>7. CASE \E i \in Nat, p \in PatchType : ApplyPatch(p, i)
  BY <1>7, PatchRevises DEF ApplyPatch
<1>. QED BY <1>1, <1>2, <1>3, <1>4, <1>5, <1>6, <1>7 DEF StoreStep

(* A run without a checkpoint is an empty ledger.                            *)
LEMMA InitIsLedger == ASSUME Init PROVE Ledger!Init
<1>1. \A n \in Tasks : VerdictOf(state[n]) = "none"
  BY VerdictTable DEF Init, NodeStates
<1>. QED BY <1>1 DEF Init, Ledger!Init, Verdict

(* Every behaviour of the checkpoint is a behaviour of the ledger: a task    *)
(* gets one verdict, verdicts stand, and a finished run has none open.       *)
THEOREM StoreImplementsLedger == Spec => ImplementsLedger
<1>1. Init => Ledger!Init
  BY InitIsLedger
<1>2. TypeOK /\ FinishedIsQuiet /\ [Next]_storeVars => [Ledger!Next]_Ledger!vars
  BY NextIsStoreStep, LedgerStep
<1>. QED BY <1>1, <1>2, TypeCorrect, FinishedAlwaysQuiet, PTL DEF Spec, ImplementsLedger, Ledger!Spec
-----------------------------------------------------------------------------
(* The journal, folded from its beginning: Replayed of any sequence.         *)
Base == [n \in Tasks |-> "absent"]
FoldOf(j, f) == f = [k \in Nat |-> IF k = 0 THEN Base ELSE AfterEntry(f[k - 1], j[k])]
ReplayOf(j) == CHOOSE f : FoldOf(j, f)

(* The fold of a prefix.                                                     *)
PrefixFold(j, m, f) == /\ f = [k \in 0..m |-> f[k]]
                       /\ f[0] = Base
                       /\ \A k \in 1..m : f[k] = AfterEntry(f[k - 1], j[k])

(* What holds of the least number without a property: the property is false  *)
(* there and true below.                                                     *)
LEMMA LeastExists ==
    ASSUME NEW S \in SUBSET Nat, S # {}
    PROVE  \E n \in S : \A m \in 0..(n - 1) : m \notin S
<1>. DEFINE R == OpToRel(<, Nat)
<1>1. IsWellFoundedOn(R, Nat)
  BY NatLessThanWellFounded
<1>2. PICK n \in S : \A y \in Nat : <<y, n>> \in R => y \notin S
  BY <1>1, WFMin
<1>3. \A y \in Nat : y < n => <<y, n>> \in R
  BY DEF OpToRel
<1>. HIDE DEF R
<1>4. ASSUME NEW m \in 0..(n - 1) PROVE m \notin S
  <2>1. m \in Nat /\ m < n
    OBVIOUS
  <2>. QED BY <1>2, <1>3, <2>1
<1>. QED BY <1>4

(* Every prefix has a fold, and longer folds extend shorter ones.            *)
LEMMA PrefixFolds ==
    ASSUME NEW j
    PROVE  /\ \A m \in Nat : \E f : PrefixFold(j, m, f)
           /\ \A m, n \in Nat : \A f, g : PrefixFold(j, m, f) /\ PrefixFold(j, n, g) =>
                 \A k \in Nat : k <= m /\ k <= n => f[k] = g[k]
<1>1. \A m \in Nat : \E f : PrefixFold(j, m, f)
  <2>. DEFINE S == {m \in Nat : ~\E f : PrefixFold(j, m, f)}
  <2>. SUFFICES ASSUME S # {} PROVE FALSE
    OBVIOUS
  <2>1. PICK n \in S : \A m \in 0..(n - 1) : m \notin S
    BY LeastExists
  <2>2. CASE n = 0
    <3>. DEFINE f == [k \in 0..0 |-> Base]
    <3>1. PrefixFold(j, 0, f)
      BY DEF PrefixFold
    <3>. HIDE DEF f
    <3>. QED BY <2>1, <2>2, <3>1
  <2>3. CASE n # 0
    <3>1. PICK f : PrefixFold(j, n - 1, f)
      BY <2>1, <2>3
    <3>. DEFINE g == [k \in 0..n |-> IF k = n THEN AfterEntry(f[n - 1], j[n]) ELSE f[k]]
    <3>2. \A k \in 0..n : g[k] = IF k = n THEN AfterEntry(f[n - 1], j[n]) ELSE f[k]
      OBVIOUS
    <3>3. g = [k \in 0..n |-> g[k]]
      OBVIOUS
    <3>. HIDE DEF g
    <3>4. g[0] = Base
      <4>1. 0 \in 0..n /\ 0 # n /\ f[0] = Base
        BY <2>1, <2>3, <3>1 DEF PrefixFold
      <4>. QED BY <3>2, <4>1
    <3>5. ASSUME NEW k \in 1..n PROVE g[k] = AfterEntry(g[k - 1], j[k])
      <4>1. k - 1 \in 0..n /\ k \in 0..n /\ k - 1 # n
        BY <2>1
      <4>2. g[k - 1] = f[k - 1]
        BY <3>2, <4>1
      <4>3. k # n => k \in 1..(n - 1)
        BY <2>1
      <4>. QED BY <3>1, <3>2, <4>1, <4>2, <4>3 DEF PrefixFold
    <3>6. PrefixFold(j, n, g)
      BY <3>3, <3>4, <3>5 DEF PrefixFold
    <3>. QED BY <2>1, <3>6
  <2>. QED BY <2>2, <2>3
<1>2. ASSUME NEW m \in Nat, NEW n \in Nat, NEW f, NEW g, PrefixFold(j, m, f), PrefixFold(j, n, g)
      PROVE  \A k \in Nat : k <= m /\ k <= n => f[k] = g[k]
  <2>. DEFINE S == {k \in Nat : k <= m /\ k <= n /\ f[k] # g[k]}
  <2>. SUFFICES ASSUME S # {} PROVE FALSE
    OBVIOUS
  <2>1. PICK k \in S : \A i \in 0..(k - 1) : i \notin S
    BY LeastExists
  <2>2. k # 0
    BY <1>2 DEF PrefixFold
  <2>3. k - 1 \in Nat /\ k - 1 <= m /\ k - 1 <= n /\ k - 1 \in 0..(k - 1)
    BY <2>1, <2>2
  <2>4. f[k - 1] = g[k - 1]
    BY <2>1, <2>3
  <2>5. k \in 1..m /\ k \in 1..n
    BY <2>1, <2>2
  <2>. QED BY <1>2, <2>1, <2>4, <2>5 DEF PrefixFold
<1>. QED BY <1>1, <1>2

(* So the recursive definition has a solution, and unfolds.                  *)
LEMMA ReplayUnfolds ==
    ASSUME NEW j
    PROVE  /\ ReplayOf(j)[0] = Base
           /\ \A k \in Nat \ {0} : ReplayOf(j)[k] = AfterEntry(ReplayOf(j)[k - 1], j[k])
<1>. DEFINE At(m) == CHOOSE f : PrefixFold(j, m, f)
            F == [k \in Nat |-> At(k)[k]]
<1>1. ASSUME NEW m \in Nat PROVE PrefixFold(j, m, At(m))
  BY PrefixFolds
<1>2. F[0] = Base
  BY <1>1 DEF PrefixFold
<1>3. ASSUME NEW k \in Nat \ {0} PROVE F[k] = AfterEntry(F[k - 1], j[k])
  <2>1. k - 1 \in Nat /\ k \in 1..k
    OBVIOUS
  <2>2. PrefixFold(j, k, At(k)) /\ PrefixFold(j, k - 1, At(k - 1))
    BY <1>1, <2>1
  <2>. HIDE DEF At
  <2>3. At(k)[k - 1] = At(k - 1)[k - 1]
    BY <2>1, <2>2, PrefixFolds
  <2>4. At(k)[k] = AfterEntry(At(k)[k - 1], j[k])
    BY <2>1, <2>2 DEF PrefixFold
  <2>. QED BY <2>1, <2>3, <2>4
<1>4. ASSUME NEW k \in Nat PROVE F[k] = IF k = 0 THEN Base ELSE AfterEntry(F[k - 1], j[k])
  <2>1. CASE k = 0
    BY <1>2, <2>1
  <2>2. CASE k # 0
    <3>1. k \in Nat \ {0}
      BY <2>2
    <3>2. F[k] = AfterEntry(F[k - 1], j[k])
      BY <1>3, <3>1
    <3>. HIDE DEF F
    <3>. QED BY <2>2, <3>2
  <2>. QED BY <2>1, <2>2
<1>5. F = [k \in Nat |-> F[k]]
  OBVIOUS
<1>. HIDE DEF F, At
<1>6. FoldOf(j, F)
  BY <1>4, <1>5 DEF FoldOf
<1>7. FoldOf(j, ReplayOf(j))
  BY <1>6 DEF ReplayOf
<1>. QED BY <1>7 DEF FoldOf

(* Appending an entry folds it onto what the journal told before.            *)
LEMMA ReplayAppends ==
    ASSUME NEW j \in Seq(EntryType), NEW x \in EntryType
    PROVE  ReplayOf(Append(j, x))[Len(j) + 1] = AfterEntry(ReplayOf(j)[Len(j)], x)
<1>. DEFINE jj == Append(j, x)
<1>1. /\ Len(j) \in Nat /\ jj[Len(j) + 1] = x
      /\ \A k \in 1..Len(j) : jj[k] = j[k]
  OBVIOUS
<1>. HIDE DEF jj
<1>2. \A k \in Nat : k <= Len(j) => ReplayOf(jj)[k] = ReplayOf(j)[k]
  <2>. DEFINE S == {k \in Nat : k <= Len(j) /\ ReplayOf(jj)[k] # ReplayOf(j)[k]}
  <2>. SUFFICES ASSUME S # {} PROVE FALSE
    OBVIOUS
  <2>1. PICK k \in S : \A i \in 0..(k - 1) : i \notin S
    BY LeastExists
  <2>2. k # 0
    BY ReplayUnfolds
  <2>3. k - 1 \in Nat /\ k - 1 <= Len(j) /\ k - 1 \in 0..(k - 1) /\ k \in 1..Len(j) /\ k \in Nat \ {0}
    BY <1>1, <2>1, <2>2
  <2>4. ReplayOf(jj)[k - 1] = ReplayOf(j)[k - 1]
    BY <2>1, <2>3
  <2>5. /\ ReplayOf(jj)[k] = AfterEntry(ReplayOf(jj)[k - 1], jj[k])
        /\ ReplayOf(j)[k] = AfterEntry(ReplayOf(j)[k - 1], j[k])
    BY <2>3, ReplayUnfolds
  <2>. QED BY <1>1, <2>1, <2>3, <2>4, <2>5
<1>3. ReplayOf(jj)[Len(j) + 1] = AfterEntry(ReplayOf(jj)[Len(j) + 1 - 1], jj[Len(j) + 1])
  BY <1>1, ReplayUnfolds
<1>4. Len(j) + 1 - 1 = Len(j)
  BY <1>1
<1>5. ReplayOf(jj)[Len(j) + 1] = AfterEntry(ReplayOf(j)[Len(j)], x)
  BY <1>1, <1>2, <1>3, <1>4
<1>. QED BY <1>5 DEF jj
-----------------------------------------------------------------------------
Ended == {"SUCCEEDED", "FAILED"}
OutcomesIn(j, n) == {i \in 1..Len(j) : j[i].kind \in Outcomes /\ n \in j[i].nodes}
PatchesIn(j, i) == {k \in 1..Len(j) : j[k].kind = "graph_patched" /\ j[k].trigger = i}

(* JournalSound of any journal, node states and applied triggers.            *)
Tells(j, st, ap) ==
    /\ ReplayOf(j)[Len(j)] = st
    /\ \A n \in Tasks : \/ st[n] \in Ended /\ \E i \in 1..Len(j) : OutcomesIn(j, n) = {i}
                        \/ st[n] \notin Ended /\ OutcomesIn(j, n) = {}
    /\ ap = {i \in 1..Len(j) : PatchesIn(j, i) # {}}
    /\ \A i \in 1..Len(j) : \A k, l \in PatchesIn(j, i) : k = l
    /\ \A k \in 1..Len(j) : j[k].kind = "graph_patched" => j[k].trigger \in 1..(k - 1)

(* What an entry must say of the step it journals.                           *)
Faithful(j, st, ap, x, st2, ap2) ==
    /\ st2 = AfterEntry(st, x)
    /\ IF x.kind = "graph_patched"
       THEN x.trigger \in 1..Len(j) /\ x.trigger \notin ap /\ ap2 = ap \cup {x.trigger}
       ELSE ap2 = ap
    /\ IF x.kind \in Outcomes
       THEN \E n \in Tasks : /\ x.nodes = {n} /\ st[n] \notin Ended /\ st2[n] \in Ended
                             /\ \A m \in Tasks \ {n} : st2[m] = st[m]
       ELSE \A m \in Tasks : st2[m] \in Ended <=> st[m] \in Ended

(* An entry that is faithful to its step keeps the journal telling all.      *)
LEMMA FaithfulEntry ==
    ASSUME NEW j \in Seq(EntryType), NEW x \in EntryType, NEW st, NEW ap, NEW st2, NEW ap2,
           Tells(j, st, ap), Faithful(j, st, ap, x, st2, ap2)
    PROVE  Tells(Append(j, x), st2, ap2)
<1>. DEFINE jj == Append(j, x)
            m == Len(j)
<1>1. /\ m \in Nat /\ Len(jj) = m + 1 /\ jj[m + 1] = x
      /\ \A k \in 1..m : jj[k] = j[k]
      /\ 1..(m + 1) = (1..m) \cup {m + 1} /\ m + 1 \notin 1..m
  OBVIOUS
<1>2. ReplayOf(jj)[Len(jj)] = st2
  BY <1>1, ReplayAppends DEF Tells, Faithful
<1>. HIDE DEF jj, m
<1>3. \A n \in Tasks : OutcomesIn(jj, n) = OutcomesIn(j, n)
                         \cup (IF x.kind \in Outcomes /\ n \in x.nodes THEN {m + 1} ELSE {})
  BY <1>1 DEF OutcomesIn, m
<1>4. \A i : PatchesIn(jj, i) = PatchesIn(j, i)
                         \cup (IF x.kind = "graph_patched" /\ x.trigger = i THEN {m + 1} ELSE {})
  BY <1>1 DEF PatchesIn, m
<1>5. ASSUME NEW n \in Tasks
      PROVE  \/ st2[n] \in Ended /\ \E i \in 1..(m + 1) : OutcomesIn(jj, n) = {i}
             \/ st2[n] \notin Ended /\ OutcomesIn(jj, n) = {}
  <2>1. \/ st[n] \in Ended /\ \E i \in 1..m : OutcomesIn(j, n) = {i}
        \/ st[n] \notin Ended /\ OutcomesIn(j, n) = {}
    BY DEF Tells, m
  <2>2. CASE x.kind \in Outcomes
    <3>1. PICK w \in Tasks : /\ x.nodes = {w} /\ st[w] \notin Ended /\ st2[w] \in Ended
                            /\ \A l \in Tasks \ {w} : st2[l] = st[l]
      BY <2>2 DEF Faithful
    <3>2. CASE n = w
      <4>1. OutcomesIn(jj, n) = {m + 1}
        BY <1>3, <2>1, <2>2, <3>1, <3>2
      <4>. QED BY <1>1, <3>1, <3>2, <4>1
    <3>3. CASE n # w
      BY <1>1, <1>3, <2>1, <3>1, <3>3
    <3>. QED BY <3>2, <3>3
  <2>3. CASE x.kind \notin Outcomes
    <3>1. st2[n] \in Ended <=> st[n] \in Ended
      BY <2>3 DEF Faithful
    <3>. QED BY <1>1, <1>3, <2>1, <2>3, <3>1
  <2>. QED BY <2>2, <2>3
<1>6. /\ ap = {i \in 1..m : PatchesIn(j, i) # {}}
      /\ \A i \in 1..m : \A k, l \in PatchesIn(j, i) : k = l
      /\ \A k \in 1..m : j[k].kind = "graph_patched" => j[k].trigger \in 1..(k - 1)
  BY DEF Tells, m
<1>7. PatchesIn(j, m + 1) = {}
  BY <1>1, <1>6 DEF PatchesIn, m
<1>8. x.kind = "graph_patched" => x.trigger \in 1..m /\ PatchesIn(j, x.trigger) = {}
  BY <1>6 DEF Faithful, m
<1>9. ap2 = {i \in 1..(m + 1) : PatchesIn(jj, i) # {}}
  <2>0. ap = {i \in 1..(m + 1) : PatchesIn(j, i) # {}}
    BY <1>1, <1>6, <1>7
  <2>1. CASE x.kind = "graph_patched"
    <3>1. ap2 = ap \cup {x.trigger} /\ x.trigger \in 1..(m + 1)
      BY <1>1, <1>8, <2>1 DEF Faithful
    <3>2. \A i : PatchesIn(jj, i) # {} <=> PatchesIn(j, i) # {} \/ x.trigger = i
      BY <1>4, <2>1
    <3>. QED BY <2>0, <3>1, <3>2
  <2>2. CASE x.kind # "graph_patched"
    <3>1. ap2 = ap
      BY <2>2 DEF Faithful
    <3>2. \A i : PatchesIn(jj, i) = PatchesIn(j, i)
      BY <1>4, <2>2
    <3>. QED BY <2>0, <3>1, <3>2
  <2>. QED BY <2>1, <2>2
<1>10. ASSUME NEW i \in 1..(m + 1), NEW k \in PatchesIn(jj, i), NEW l \in PatchesIn(jj, i) PROVE k = l
  <2>1. CASE x.kind = "graph_patched" /\ x.trigger = i
    BY <1>4, <1>8, <1>10, <2>1
  <2>2. CASE ~(x.kind = "graph_patched" /\ x.trigger = i)
    <3>1. k \in PatchesIn(j, i) /\ l \in PatchesIn(j, i)
      BY <1>4, <1>10, <2>2
    <3>. QED BY <1>1, <1>6, <1>7, <3>1
  <2>. QED BY <2>1, <2>2
<1>11. ASSUME NEW k \in 1..(m + 1), jj[k].kind = "graph_patched" PROVE jj[k].trigger \in 1..(k - 1)
  <2>1. CASE k = m + 1
    BY <1>1, <1>8, <1>11, <2>1
  <2>2. CASE k # m + 1
    BY <1>1, <1>6, <1>11, <2>2
  <2>. QED BY <2>1, <2>2
<1>12. Tells(jj, st2, ap2)
  BY <1>1, <1>2, <1>5, <1>9, <1>10, <1>11 DEF Tells
<1>. QED BY <1>12 DEF jj

(* What is told of a checkpoint is that its journal is sound.                *)
LEMMA TellsIsSound == ASSUME TypeOK, Tells(journal, state, applied) PROVE JournalSound
<1>0. Len(journal) \in Nat
  BY DEF TypeOK
<1>1. JournalTellsAll
  <2>1. Replayed = ReplayOf(journal)
    BY DEF Replayed, ReplayOf, FoldOf, Base
  <2>. QED BY <2>1 DEF JournalTellsAll, Tells
<1>2. OneOutcome
  <2>. SUFFICES ASSUME NEW n \in Tasks
                PROVE  Cardinality(OutcomesOf(n)) = IF state[n] \in {"SUCCEEDED", "FAILED"} THEN 1 ELSE 0
    BY DEF OneOutcome
  <2>1. OutcomesOf(n) = OutcomesIn(journal, n)
    BY DEF OutcomesOf, OutcomesIn
  <2>. QED BY <2>1, FS_EmptySet, FS_Singleton DEF Tells, Ended
<1>3. OnePatchPerTrigger
  <2>1. \A i : PatchesOf(i) = PatchesIn(journal, i)
    BY DEF PatchesOf, PatchesIn
  <2>2. ASSUME NEW i \in 1..Len(journal) PROVE Cardinality(PatchesOf(i)) <= 1
    <3>1. CASE PatchesOf(i) = {}
      BY <3>1, FS_EmptySet
    <3>2. CASE PatchesOf(i) # {}
      <4>1. PICK k \in PatchesOf(i) : TRUE
        BY <3>2
      <4>2. \A l \in PatchesOf(i) : l = k
        <5>1. \A u, v \in PatchesIn(journal, i) : u = v
          BY DEF Tells
        <5>. QED BY <2>1, <4>1, <5>1
      <4>3. PatchesOf(i) = {k}
        BY <4>1, <4>2
      <4>4. Cardinality({k}) = 1
        BY FS_Singleton
      <4>. QED BY <4>3, <4>4
    <3>. QED BY <3>1, <3>2
  <2>3. ASSUME NEW i \in 1..Len(journal), NEW k \in PatchesOf(i) PROVE i < k
    <3>1. k \in 1..Len(journal) /\ i \in 1..(k - 1)
      BY <2>1, <2>3 DEF Tells, PatchesIn
    <3>. QED BY <1>0, <3>1
  <2>4. applied = {i \in 1..Len(journal) : PatchesOf(i) # {}}
    BY <2>1 DEF Tells
  <2>. QED BY <2>2, <2>3, <2>4 DEF OnePatchPerTrigger
<1>. QED BY <1>1, <1>2, <1>3 DEF JournalSound

(* An entry without a patch's effects tells of the nodes it names.           *)
LEMMA PlainEntry ==
    ASSUME NEW k \in Kinds, NEW N \in SUBSET Tasks, NEW st
    PROVE  AfterEntry(st, Entry(k, N)) =
             [n \in Tasks |-> IF n \in N /\ k \in DOMAIN Marks THEN Marks[k]
                              ELSE IF k = "run_resumed" /\ st[n] = "RUNNING" THEN "PENDING"
                              ELSE st[n]]
BY DEF AfterEntry, Entry

(* Every operation journals what it does: answering an event that is in the  *)
(* journal is all that is asked of the one that applies a patch.             *)
LEMMA JournalStep ==
    ASSUME TypeOK, Tells(journal, state, applied), [StoreStep]_storeVars,
           applied' \subseteq applied \cup 1..Len(journal)
    PROVE  Tells(journal', state', applied')
<1>. USE DEF TypeOK
<1>k. /\ {"run_started", "run_resumed", "task_started", "task_waiting", "task_succeeded", "task_failed",
          "external_event_received", "external_event", "graph_patched"} \subseteq Kinds
      /\ \A k \in Kinds, N \in SUBSET Tasks : Entry(k, N) \in EntryType /\ Entry(k, N).kind = k
                                             /\ Entry(k, N).nodes = N
  BY EntryTyped DEF Kinds, PlannerKinds, ExternalKinds, Outcomes, Entry
<1>d. /\ DOMAIN Marks = {"task_started", "task_waiting", "task_succeeded", "task_failed", "graph_patched"}
      /\ Marks["task_started"] = "RUNNING" /\ Marks["task_waiting"] = "WAITING"
      /\ Marks["task_succeeded"] = "SUCCEEDED" /\ Marks["task_failed"] = "FAILED"
      /\ Marks["graph_patched"] = "PENDING"
  BY DEF Marks
<1>0. state \in [Tasks -> NodeStates]
  BY DEF NodeStates
<1>1. ASSUME NEW k \in Kinds, NEW N \in SUBSET Tasks, k \notin Outcomes \cup {"graph_patched"},
             \A n \in N : k \in DOMAIN Marks => state[n] \notin Ended /\ Marks[k] \notin Ended,
             NEW st2, st2 = AfterEntry(state, Entry(k, N))
      PROVE  Tells(Append(journal, Entry(k, N)), st2, applied)
  <2>1. \A n \in Tasks : st2[n] \in Ended <=> state[n] \in Ended
    BY <1>1, PlainEntry DEF Ended
  <2>. DEFINE x == Entry(k, N)
  <2>2. x \in EntryType /\ x.kind = k
    BY <1>k
  <2>. HIDE DEF x
  <2>3. Faithful(journal, state, applied, x, st2, applied)
    BY <1>1, <2>1, <2>2 DEF Faithful, x
  <2>4. Tells(Append(journal, x), st2, applied)
    BY <2>2, <2>3, FaithfulEntry
  <2>. QED BY <2>4 DEF x
<1>2. CASE Start
  <2>1. Entry("run_started", {}) \in EntryType /\ "run_started" \notin DOMAIN Marks
    BY <1>k, <1>d
  <2>2. journal' = Append(journal, Entry("run_started", {}))
    BY <1>2, <2>1 DEF Start, Exists
  <2>3. AfterEntry(state, Entry("run_started", {})) = state
    BY <1>k, PlainEntry
  <2>4. "run_started" \notin Outcomes \cup {"graph_patched"}
    BY DEF Outcomes
  <2>5. Tells(Append(journal, Entry("run_started", {})), state, applied)
    BY <1>1, <1>k, <2>3, <2>4
  <2>. QED BY <1>2, <2>2, <2>5 DEF Start
<1>3. CASE Resume
  <2>1. AfterEntry(state, Entry("run_resumed", {})) = state'
    BY <1>3, <1>k, PlainEntry DEF Resume
  <2>2. "run_resumed" \notin Outcomes \cup {"graph_patched"}
    BY DEF Outcomes
  <2>3. Tells(Append(journal, Entry("run_resumed", {})), state', applied)
    BY <1>1, <1>k, <2>1, <2>2
  <2>. QED BY <1>3, <2>3 DEF Resume
<1>4. ASSUME NEW S \in SUBSET Tasks, MarkRunning(S) PROVE Tells(journal', state', applied')
  <2>1. AfterEntry(state, Entry("task_started", S)) = state'
    BY <1>4, <1>k, <1>d, PlainEntry DEF MarkRunning
  <2>2. "task_started" \notin Outcomes \cup {"graph_patched"} /\ "RUNNING" \notin Ended
    BY DEF Outcomes, Ended
  <2>3. \A n \in S : state[n] \notin Ended
    BY <1>4 DEF MarkRunning, Ready, InState, Ended
  <2>4. Tells(Append(journal, Entry("task_started", S)), state', applied)
    BY <1>1, <1>k, <1>d, <2>1, <2>2, <2>3
  <2>. QED BY <1>4, <2>4 DEF MarkRunning
<1>5. ASSUME NEW j \in Seq(EntryType), Tells(j, state, applied), NEW n \in Tasks, NEW ok \in BOOLEAN,
             state[n] \notin Ended, NEW st2, st2 = [state EXCEPT ![n] = OutcomeState(ok)]
      PROVE  Tells(Append(j, Entry(OutcomeKind(ok), {n})), st2, applied)
  <2>. DEFINE x == Entry(OutcomeKind(ok), {n})
  <2>1. /\ OutcomeKind(ok) \in Kinds /\ OutcomeKind(ok) \in Outcomes /\ OutcomeKind(ok) # "graph_patched"
        /\ OutcomeKind(ok) # "run_resumed"
        /\ OutcomeKind(ok) \in DOMAIN Marks /\ Marks[OutcomeKind(ok)] = OutcomeState(ok)
        /\ OutcomeState(ok) \in Ended
    BY <1>d, <1>k DEF OutcomeKind, Outcomes, OutcomeState, Ended
  <2>0. st2 = [m \in Tasks |-> IF m = n THEN OutcomeState(ok) ELSE state[m]]
    BY <1>5
  <2>2. AfterEntry(state, x) = st2
    BY <2>0, <2>1, PlainEntry
  <2>3. x \in EntryType /\ x.kind = OutcomeKind(ok) /\ x.nodes = {n}
    BY <1>k, <2>1
  <2>. HIDE DEF x
  <2>4. Faithful(j, state, applied, x, st2, applied)
    BY <1>5, <2>1, <2>2, <2>3 DEF Faithful
  <2>5. Tells(Append(j, x), st2, applied)
    BY <1>5, <2>3, <2>4, FaithfulEntry
  <2>. QED BY <2>5 DEF x
<1>6. ASSUME NEW n \in Tasks, NEW ok \in BOOLEAN, RecordOutcome(n, ok) PROVE Tells(journal', state', applied')
  BY <1>5, <1>6 DEF RecordOutcome, Ended
<1>7. ASSUME NEW n \in Tasks, NEW h \in Handles, RecordWaiting(n, h) PROVE Tells(journal', state', applied')
  <2>0. state' = [m \in Tasks |-> IF m = n THEN "WAITING" ELSE state[m]]
    BY <1>7 DEF RecordWaiting
  <2>1. AfterEntry(state, Entry("task_waiting", {n})) = state'
    BY <2>0, <1>k, <1>d, PlainEntry
  <2>2. "task_waiting" \notin Outcomes \cup {"graph_patched"} /\ "WAITING" \notin Ended /\ state[n] \notin Ended
    BY <1>7 DEF Outcomes, Ended, RecordWaiting
  <2>3. Tells(Append(journal, Entry("task_waiting", {n})), state', applied)
    BY <1>1, <1>k, <1>d, <2>1, <2>2
  <2>. QED BY <1>7, <2>3 DEF RecordWaiting
<1>8. ASSUME NEW h \in Handles, NEW ok \in BOOLEAN, CompleteWaiting(h, ok)
      PROVE  Tells(journal', state', applied')
  <2>1. PICK n \in Tasks :
           /\ WaitingFor(h) = {n}
           /\ state' = [state EXCEPT ![n] = OutcomeState(ok)]
           /\ journal' = journal \o <<Entry("external_event_received", {n}), Entry(OutcomeKind(ok), {n})>>
           /\ applied' = applied
    BY <1>8 DEF CompleteWaiting
  <2>. DEFINE x == Entry("external_event_received", {n})
              y == Entry(OutcomeKind(ok), {n})
  <2>2. "external_event_received" \notin DOMAIN Marks
    BY <1>d
  <2>3. AfterEntry(state, x) = state
    BY <1>k, <2>2, PlainEntry
  <2>4. "external_event_received" \notin Outcomes \cup {"graph_patched"}
    BY DEF Outcomes
  <2>5. Tells(Append(journal, x), state, applied)
    BY <1>1, <1>k, <2>2, <2>3, <2>4
  <2>6. state[n] \notin Ended
    BY <2>1 DEF WaitingFor, Ended
  <2>7. x \in EntryType /\ y \in EntryType
    BY <1>k DEF OutcomeKind
  <2>8. Tells(Append(Append(journal, x), y), state', applied)
    <3>1. Append(journal, x) \in Seq(EntryType)
      <4>. HIDE DEF x
      <4>. QED BY <2>7
    <3>. HIDE DEF x
    <3>. QED BY <1>5, <2>1, <2>5, <2>6, <3>1
  <2>. HIDE DEF x, y
  <2>9. journal' = Append(Append(journal, x), y)
    <3>1. journal' = journal \o <<x, y>>
      BY <2>1 DEF x, y
    <3>. QED BY <2>7, <3>1
  <2>. QED BY <2>1, <2>8, <2>9
<1>9. ASSUME NEW i \in Nat, NEW p \in PatchType, ApplyPatch(p, i) PROVE Tells(journal', state', applied')
  <2>. DEFINE x == PatchEntry(p, i)
  <2>1. x \in EntryType
    BY <1>0, EntryTyped
  <2>2. /\ x.kind = "graph_patched" /\ x.trigger = i /\ x.nodes = p.add /\ x.closed = LeftOpen(p)
        /\ x.resumed = p.resume /\ x.parked = p.wait /\ x.dropped = p.cancel
    BY DEF PatchEntry
  <2>3. /\ journal' = Append(journal, x) /\ applied' = applied \cup {i} /\ i \notin applied
        /\ state' = StateAfter(p)
    BY <1>9 DEF ApplyPatch
  <2>. HIDE DEF x
  <2>4. AfterEntry(state, x) = state'
    <3>1. ASSUME NEW n \in Tasks PROVE AfterEntry(state, x)[n] = StateAfter(p)[n]
      <4>1. n \notin p.add \/ n \notin p.cancel
        BY <1>9 DEF ApplyPatch, CanPatch, Known, InState, Active
      <4>2. AfterEntry(state, x)[n] =
              IF n \in LeftOpen(p) THEN "CANCELLED"
              ELSE IF n \in p.resume THEN "PENDING"
              ELSE IF n \in p.wait THEN "WAITING"
              ELSE IF n \in p.cancel THEN "CANCELLED"
              ELSE IF n \in p.add THEN "PENDING"
              ELSE state[n]
        BY <1>d, <2>2 DEF AfterEntry
      <4>3. Revised(p)[n] = IF n \in p.resume THEN "PENDING"
                            ELSE IF n \in p.wait THEN "WAITING"
                            ELSE IF n \in p.cancel THEN "CANCELLED"
                            ELSE IF n \in p.add THEN "PENDING"
                            ELSE state[n]
        BY DEF Revised
      <4>. QED BY <4>2, <4>3 DEF StateAfter
    <3>2. AfterEntry(state, x) = [n \in Tasks |-> AfterEntry(state, x)[n]]
      BY DEF AfterEntry
    <3>3. StateAfter(p) = [n \in Tasks |-> StateAfter(p)[n]]
      BY DEF StateAfter
    <3>. QED BY <2>3, <3>1, <3>2, <3>3
  <2>5. i \in 1..Len(journal)
    BY <2>3
  <2>6. \A n \in Tasks : state'[n] \in Ended <=> state[n] \in Ended
    <3>1. ASSUME NEW n \in Tasks PROVE state'[n] \in Ended <=> state[n] \in Ended
      <4>1. state'[n] = IF n \in LeftOpen(p) THEN "CANCELLED" ELSE Revised(p)[n]
        BY <2>3 DEF StateAfter
      <4>2. Revised(p)[n] \in Ended => n \notin LeftOpen(p)
        BY DEF LeftOpen, Ended, Active
      <4>3. state[n] \in Ended => n \notin p.add \cup p.cancel \cup p.wait \cup p.resume
        BY <1>9 DEF ApplyPatch, CanPatch, Known, InState, Active, Ended
      <4>4. Revised(p)[n] \in Ended <=> state[n] \in Ended
        BY <4>3 DEF Revised, Ended
      <4>. QED BY <4>1, <4>2, <4>4 DEF Ended
    <3>. QED BY <3>1
  <2>7. "graph_patched" \notin Outcomes
    BY DEF Outcomes
  <2>8. Faithful(journal, state, applied, x, state', applied')
    BY <2>2, <2>3, <2>4, <2>5, <2>6, <2>7 DEF Faithful
  <2>. QED BY <2>1, <2>3, <2>8, FaithfulEntry
<1>10. ASSUME NEW n \in Tasks, RecordExternalEvent(n) PROVE Tells(journal', state', applied')
  <2>1. "external_event" \notin DOMAIN Marks
    BY <1>d
  <2>2. AfterEntry(state, Entry("external_event", {n})) = state
    BY <1>k, <2>1, PlainEntry
  <2>3. "external_event" \notin Outcomes \cup {"graph_patched"}
    BY DEF Outcomes
  <2>4. Tells(Append(journal, Entry("external_event", {n})), state, applied)
    BY <1>1, <1>k, <2>1, <2>2, <2>3
  <2>. QED BY <1>10, <2>4 DEF RecordExternalEvent
<1>11. CASE UNCHANGED storeVars
  BY <1>11 DEF storeVars
<1>. QED BY <1>2, <1>3, <1>4, <1>6, <1>7, <1>8, <1>9, <1>10, <1>11 DEF StoreStep

(* An empty journal tells of a run without a checkpoint.                     *)
LEMMA InitTells == ASSUME Init PROVE Tells(journal, state, applied)
<1>1. Len(journal) = 0 /\ 1..Len(journal) = {}
  BY DEF Init
<1>2. ReplayOf(journal)[0] = state
  BY ReplayUnfolds DEF Init, Base
<1>. QED BY <1>1, <1>2 DEF Init, Tells, OutcomesIn, PatchesIn, Ended

(* The journal alone tells every task's one outcome, every event's one       *)
(* answer and every node's state, through any restart, duplicate callback or *)
(* cancellation: the checkpoint and its event stream never disagree.         *)
THEOREM JournalAlwaysSound == Spec => []JournalSound
<1>1. Init => Tells(journal, state, applied)
  BY InitTells
<1>2. TypeOK /\ Tells(journal, state, applied) /\ [Next]_storeVars => Tells(journal, state, applied)'
  <2>1. [Next]_storeVars => applied' \subseteq applied \cup 1..Len(journal)
    BY DEF Next, storeVars, Start, Resume, MarkRunning, RecordOutcome, RecordWaiting, CompleteWaiting,
       ApplyPatch, Answerable, RecordExternalEvent
  <2>2. Tells(journal, state, applied)' <=> Tells(journal', state', applied')
    BY DEF Tells, OutcomesIn, PatchesIn, ReplayOf, FoldOf
  <2>. QED BY <2>1, <2>2, NextIsStoreStep, JournalStep
<1>3. TypeOK /\ Tells(journal, state, applied) => JournalSound
  BY TellsIsSound
<1>. QED BY <1>1, <1>2, <1>3, TypeCorrect, PTL DEF Spec
=============================================================================
