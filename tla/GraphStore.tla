----------------------------- MODULE GraphStore -----------------------------
(* The durable task graph of one run (s17code/core/live_graph/store.py).     *)
(*                                                                           *)
(* Every public method of GraphStore loads the checkpoint, changes it and    *)
(* replaces the file with os.replace, under one lock: an operation is one    *)
(* atomic step, and one that raises leaves the file as it was, so that it is *)
(* not a step at all.  A journal entry here stands for the events that one   *)
(* save appends for one purpose: a batch of task_started, or a graph_patched *)
(* together with the task_cancelled events written just before it, those of  *)
(* the patch (dropped) apart from those of finishing the run (closed).       *)
EXTENDS Naturals, Sequences, FiniteSets

CONSTANTS
    Tasks,          \* task ids the planner may ever use
    Handles,        \* (handle, event_type) pairs a parked task can wait for
    NoHandle,       \* "no wait payload"
    Patches,        \* the GraphPatch values a planner may submit
    MaxJournal      \* bound: journal entries of a run

ASSUME FiniteTasks == IsFiniteSet(Tasks)
ASSUME NoHandleIsNone == NoHandle \notin Handles
ASSUME JournalBound == MaxJournal \in Nat

(* A GraphPatch, its tuples read as sets. *)
PatchType == [add : SUBSET Tasks, connect : SUBSET (Tasks \X Tasks),
              cancel : SUBSET Tasks, wait : SUBSET Tasks,
              resume : SUBSET Tasks, finish : BOOLEAN]

ASSUME PatchesTyped == Patches \subseteq PatchType

VARIABLES
    state,          \* task -> "absent" or its NodeState
    deps,           \* edges <<parent, child>>
    wait,           \* task -> the handle of its wait payload
    finished,       \* graph.graph["finished"]
    journal,        \* the event journal; <<>> while no checkpoint exists
    applied         \* keys of applied_triggers: positions in the journal

storeVars == <<state, deps, wait, finished, journal, applied>>

Active   == {"PENDING", "RUNNING", "WAITING"}
Terminal == {"SUCCEEDED", "FAILED", "CANCELLED"}
Outcomes == {"task_succeeded", "task_failed"}
PlannerKinds  == {"run_started"} \cup Outcomes
ExternalKinds == {"external_event_received", "external_event"}
Kinds == PlannerKinds \cup ExternalKinds
           \cup {"run_resumed", "task_started", "task_waiting", "graph_patched"}

EntryType == [kind : Kinds, nodes : SUBSET Tasks, trigger : Nat,
              dropped : SUBSET Tasks, parked : SUBSET Tasks, resumed : SUBSET Tasks,
              closed : SUBSET Tasks]

Entry(kind, nodes) == [kind |-> kind, nodes |-> nodes, trigger |-> 0,
                       dropped |-> {}, parked |-> {}, resumed |-> {}, closed |-> {}]

Exists == journal # <<>>
Room(k) == Len(journal) + k <= MaxJournal
Known == {n \in Tasks : state[n] # "absent"}
InState(S) == {n \in Tasks : state[n] \in S}
Parents(n) == {p \in Tasks : <<p, n>> \in deps}

(* Mutant of Ready: a parent that ended, however it ended, is enough.        *)
ReadyAfterAnyEnd == {n \in InState({"PENDING"}) : \A p \in Parents(n) : state[p] \in Terminal}

(* store.ready without its limit *)
Ready == {n \in InState({"PENDING"}) : \A p \in Parents(n) : state[p] = "SUCCEEDED"}

(* Positions of the events the planner has still to answer. *)
PendingTriggers == {i \in 1..Len(journal) : journal[i].kind \in PlannerKinds} \ applied

(* nx.is_directed_acyclic_graph: every non-empty set of nodes has a source. *)
AcyclicEdges(E) == \A S \in SUBSET Tasks :
                      S # {} => \E n \in S : \A p \in S : <<p, n>> \notin E
-----------------------------------------------------------------------------
Init == /\ state = [n \in Tasks |-> "absent"]
        /\ deps = {}
        /\ wait = [n \in Tasks |-> NoHandle]
        /\ finished = FALSE
        /\ journal = <<>>
        /\ applied = {}

Start == /\ ~Exists
         /\ Room(1)
         /\ journal' = <<Entry("run_started", {})>>
         /\ UNCHANGED <<state, deps, wait, finished, applied>>

(* Mutant of Resume: failed nodes are retried too.                           *)
ResumeFailed == /\ Exists
                /\ Room(1)
                /\ state' = [n \in Tasks |-> IF state[n] \in {"RUNNING", "FAILED"}
                                            THEN "PENDING" ELSE state[n]]
                /\ journal' = Append(journal, Entry("run_resumed", {}))
                /\ UNCHANGED <<deps, wait, finished, applied>>

(* Interrupted nodes go back to PENDING; nothing else moves. *)
Resume == /\ Exists
          /\ Room(1)
          /\ state' = [n \in Tasks |-> IF state[n] = "RUNNING" THEN "PENDING" ELSE state[n]]
          /\ journal' = Append(journal, Entry("run_resumed", {}))
          /\ UNCHANGED <<deps, wait, finished, applied>>

(* mark_running on the tasks ready() returned; both run in one segment.      *)
MarkRunning(S) ==
    /\ Exists
    /\ Room(1)
    /\ S # {}
    /\ S \subseteq Ready
    /\ state' = [n \in Tasks |-> IF n \in S THEN "RUNNING" ELSE state[n]]
    /\ journal' = Append(journal, Entry("task_started", S))
    /\ UNCHANGED <<deps, wait, finished, applied>>

OutcomeState(ok) == IF ok THEN "SUCCEEDED" ELSE "FAILED"
OutcomeKind(ok) == IF ok THEN "task_succeeded" ELSE "task_failed"

RecordOutcome(n, ok) ==
    /\ state[n] = "RUNNING"
    /\ Room(1)
    /\ state' = [state EXCEPT ![n] = OutcomeState(ok)]
    /\ journal' = Append(journal, Entry(OutcomeKind(ok), {n}))
    /\ UNCHANGED <<deps, wait, finished, applied>>

RecordWaiting(n, h) ==
    /\ state[n] = "RUNNING"
    /\ Room(1)
    /\ state' = [state EXCEPT ![n] = "WAITING"]
    /\ wait' = [wait EXCEPT ![n] = h]
    /\ journal' = Append(journal, Entry("task_waiting", {n}))
    /\ UNCHANGED <<deps, finished, applied>>

(* _find_waiting within this run's checkpoint *)
WaitingFor(h) == {n \in Tasks : state[n] = "WAITING" /\ wait[n] = h}

(* No match is a no-op and several raise, so only a single match is a step.  *)
CompleteWaiting(h, ok) ==
    \E n \in Tasks :
        /\ WaitingFor(h) = {n}
        /\ Room(2)
        /\ state' = [state EXCEPT ![n] = OutcomeState(ok)]
        /\ wait' = [wait EXCEPT ![n] = NoHandle]
        /\ journal' = journal \o <<Entry("external_event_received", {n}),
                                   Entry(OutcomeKind(ok), {n})>>
        /\ UNCHANGED <<deps, finished, applied>>

(* Mutant of CanPatch: the cycle check runs before the edges are added.      *)
CanPatchCycleUnseen(p) ==
    /\ ~finished
    /\ p.add \cap Known = {}
    /\ \A e \in p.connect : /\ {e[1], e[2]} \subseteq Known \cup p.add
                            /\ e[1] # e[2]
    /\ p.cancel \subseteq InState(Active)
    /\ p.wait \subseteq InState({"PENDING"}) \cup p.add
    /\ p.resume \subseteq InState({"WAITING"}) \cup p.add
    /\ AcyclicEdges(deps)

(* Mutant of CanPatch: the ends of an edge are not looked up.                *)
CanPatchUnknownEnds(p) ==
    /\ ~finished
    /\ p.add \cap Known = {}
    /\ \A e \in p.connect : e[1] # e[2]
    /\ p.cancel \subseteq InState(Active)
    /\ p.wait \subseteq InState({"PENDING"}) \cup p.add
    /\ p.resume \subseteq InState({"WAITING"}) \cup p.add
    /\ AcyclicEdges(deps \cup p.connect)

(* The checks of apply_patch, in its order; a patch that fails one raises.   *)
(* A duplicate id inside add is read as one the graph already has.           *)
CanPatch(p) ==
    /\ ~finished
    /\ p.add \cap Known = {}
    /\ \A e \in p.connect : /\ e[1] \in Known \cup p.add
                            /\ e[2] \in Known \cup p.add
                            /\ e[1] # e[2]
    /\ p.cancel \subseteq InState(Active)
    /\ p.wait \subseteq InState({"PENDING"}) \cup p.add
    /\ p.resume \subseteq InState({"WAITING"}) \cup p.add
    /\ AcyclicEdges(deps \cup p.connect)

(* Node states after add, cancel, wait and resume were applied in that order. *)
Revised(p) == [n \in Tasks |->
                 CASE n \in p.resume                        -> "PENDING"
                   [] n \in p.wait \ p.resume               -> "WAITING"
                   [] n \in p.cancel \ (p.wait \cup p.resume) -> "CANCELLED"
                   [] n \in p.add \ (p.cancel \cup p.wait \cup p.resume) -> "PENDING"
                   [] OTHER                                 -> state[n]]

(* Mutant of LeftOpen: finish forgets the parked nodes.                      *)
LeftOpenButParked(p) ==
    IF p.finish THEN {n \in Tasks : Revised(p)[n] \in {"PENDING", "RUNNING"}} ELSE {}

(* finish cancels whatever the patch left active. *)
LeftOpen(p) == IF p.finish THEN {n \in Tasks : Revised(p)[n] \in Active} ELSE {}
StateAfter(p) == [n \in Tasks |-> IF n \in LeftOpen(p) THEN "CANCELLED" ELSE Revised(p)[n]]

PatchEntry(p, trigger) ==
    [kind |-> "graph_patched", nodes |-> p.add, trigger |-> trigger,
     dropped |-> p.cancel, parked |-> p.wait, resumed |-> p.resume, closed |-> LeftOpen(p)]

(* Mutant of ApplyPatch: applied_triggers is not consulted.                  *)
ApplyPatchAgain(p, trigger) ==
    /\ Room(1)
    /\ CanPatch(p)
    /\ state' = StateAfter(p)
    /\ deps' = deps \cup p.connect
    /\ finished' = p.finish
    /\ journal' = Append(journal, PatchEntry(p, trigger))
    /\ applied' = applied \cup {trigger}
    /\ UNCHANGED wait

(* Answers one event.  A trigger already answered returns False unchanged.   *)
ApplyPatch(p, trigger) ==
    /\ Room(1)
    /\ trigger \notin applied
    /\ CanPatch(p)
    /\ state' = StateAfter(p)
    /\ deps' = deps \cup p.connect
    /\ finished' = p.finish
    /\ journal' = Append(journal, PatchEntry(p, trigger))
    /\ applied' = applied \cup {trigger}
    /\ UNCHANGED wait

(* The A2A bridge journals a remote completion before it resumes the node.   *)
RecordExternalEvent(n) ==
    /\ n \in Known
    /\ Room(1)
    /\ journal' = Append(journal, Entry("external_event", {n}))
    /\ UNCHANGED <<state, deps, wait, finished, applied>>

(* Planner patches answer an outcome; the bridge's resume answers its event. *)
Answerable == {i \in 1..Len(journal) :
                 journal[i].kind \in PlannerKinds \cup {"external_event"}}

Next == \/ Start
        \/ Resume
        \/ \E S \in SUBSET Tasks : MarkRunning(S)
        \/ \E n \in Tasks, ok \in BOOLEAN : RecordOutcome(n, ok)
        \/ \E n \in Tasks, h \in Handles : RecordWaiting(n, h)
        \/ \E h \in Handles, ok \in BOOLEAN : CompleteWaiting(h, ok)
        \/ Room(1) /\ \E i \in Answerable, p \in Patches : ApplyPatch(p, i)
        \/ \E n \in Tasks : RecordExternalEvent(n)

Spec == Init /\ [][Next]_storeVars
-----------------------------------------------------------------------------
(* Type invariant of the checkpoint. *)
TypeOK == /\ state \in [Tasks -> {"absent"} \cup Active \cup Terminal]
          /\ deps \subseteq Tasks \X Tasks
          /\ wait \in [Tasks -> Handles \cup {NoHandle}]
          /\ finished \in BOOLEAN
          /\ journal \in Seq(EntryType)
          /\ applied \subseteq Nat

(* A finished run has nothing left to run, to wait for or to call back:      *)
(* neither a late callback nor a resume can bring a task of it back.         *)
FinishedIsQuiet == finished => InState(Active) = {}

(* Edges join known tasks and never form a cycle, whatever sequence of       *)
(* patches built the graph.                                                  *)
GraphSound == /\ \A e \in deps : e[1] \in Known /\ e[2] \in Known
              /\ AcyclicEdges(deps)

(* The executor's loop can always go on: when nothing runs, nothing waits    *)
(* and nothing failed or was cancelled, any pending task means a ready one.  *)
NoStructuralDeadlock ==
    /\ InState({"PENDING"}) # {}
    /\ InState({"RUNNING", "WAITING", "FAILED", "CANCELLED"}) = {}
    => Ready # {}

OutcomesOf(n) == {i \in 1..Len(journal) :
                    journal[i].kind \in Outcomes /\ n \in journal[i].nodes}

(* Restarts, duplicated callbacks and cancellations included, a task is      *)
(* journalled with an outcome exactly when it ended with one, and only once. *)
OneOutcome == \A n \in Tasks :
    Cardinality(OutcomesOf(n)) = IF state[n] \in {"SUCCEEDED", "FAILED"} THEN 1 ELSE 0

PatchesOf(i) == {j \in 1..Len(journal) :
                   journal[j].kind = "graph_patched" /\ journal[j].trigger = i}

(* Crash-safe replanning: an event is answered by at most one patch of the   *)
(* journal, which is later than the event, and applied_triggers says which.  *)
OnePatchPerTrigger ==
    /\ applied = {i \in 1..Len(journal) : PatchesOf(i) # {}}
    /\ \A i \in 1..Len(journal) :
          /\ Cardinality(PatchesOf(i)) <= 1
          /\ \A j \in PatchesOf(i) : i < j

Marks == [task_started |-> "RUNNING", task_waiting |-> "WAITING",
          task_succeeded |-> "SUCCEEDED", task_failed |-> "FAILED",
          graph_patched |-> "PENDING"]

AfterEntry(st, e) ==
    [n \in Tasks |->
        IF n \in e.closed THEN "CANCELLED"
        ELSE IF n \in e.resumed THEN "PENDING"
        ELSE IF n \in e.parked THEN "WAITING"
        ELSE IF n \in e.dropped THEN "CANCELLED"
        ELSE IF n \in e.nodes /\ e.kind \in DOMAIN Marks THEN Marks[e.kind]
        ELSE IF e.kind = "run_resumed" /\ st[n] = "RUNNING" THEN "PENDING"
        ELSE st[n]]

Replayed[k \in Nat] == IF k = 0 THEN [n \in Tasks |-> "absent"]
                       ELSE AfterEntry(Replayed[k - 1], journal[k])

(* The journal alone tells every node's state, as the event stream of a run  *)
(* and a reconnecting client assume: no operation moves a node unjournalled. *)
JournalTellsAll == Replayed[Len(journal)] = state

(* The three together: the journal tells every task's one outcome, every     *)
(* event's one answer and every node's state, through any restart, duplicate *)
(* callback or cancellation (store.py: _save and its event, applied_triggers).*)
JournalSound == OneOutcome /\ OnePatchPerTrigger /\ JournalTellsAll

(* A decided node stays decided and a finished graph stays as it is: no      *)
(* operation revises a terminal state, the shape or the journal's past.      *)
DecisionsStand ==
    [][/\ \A n \in Tasks : state[n] \in Terminal => state'[n] = state[n]
       /\ finished => finished' /\ UNCHANGED <<state, deps, applied>>
       /\ Len(journal) <= Len(journal')
       /\ \A i \in 1..Len(journal) : journal'[i] = journal[i]]_storeVars

(* The run seen from outside: RunLedger's state read off the checkpoint.     *)
VerdictOf(s) == CASE s = "absent"    -> "none"
                  [] s \in Active    -> "open"
                  [] s = "SUCCEEDED" -> "won"
                  [] s = "FAILED"    -> "lost"
                  [] s = "CANCELLED" -> "dropped"
Verdict == [n \in Tasks |-> VerdictOf(state[n])]

Ledger == INSTANCE RunLedger WITH verdict <- Verdict, sealed <- finished

(* Every schedule of starts, parks, callbacks, resumes and patches is one a  *)
(* reader of verdicts would accept.                                          *)
ImplementsLedger == Ledger!Spec
=============================================================================
