----------------------------- MODULE EventEngine -----------------------------
(* Unattended operation: AutonomousEventEngine.process                       *)
(* (s17code/events/engine.py) over the event store (store.py), with the      *)
(* governor's daily ceilings (governor.py).                                  *)
(*                                                                           *)
(* process() refuses or ingests an event and then runs one decision task per *)
(* matching subscription: they share a semaphore, ask the governor for a     *)
(* gate call, the gate for relevance and the governor for a run, await it,   *)
(* and store their decision.  The store is one JSON file replaced at each    *)
(* save, so what it holds survives the process; the tasks do not, and a      *)
(* provider redelivers what was lost.  A duplicate changes nothing here.     *)
EXTENDS Naturals, Sequences, FiniteSets

CONSTANTS
    Events,         \* (source, id) keys of the events that may arrive
    Subs,           \* subscriptions; each one here matches every event
    Slots,          \* max_concurrent
    HistoryLimit,   \* history_limit
    MaxRuns,        \* max_runs_per_day
    DailyBudget,    \* daily_budget
    PerRun,         \* a subscription's per-run budget
    TriageBudget,   \* daily_triage_budget
    GateCost,       \* the most a gate call is reported to cost
    MaxDay,         \* bound: midnights
    MaxCrashes      \* bound: deaths of the process

Days == 1..MaxDay

ASSUME EventConstants ==
    /\ IsFiniteSet(Events) /\ IsFiniteSet(Subs)
    /\ TriageBudget \in Nat \ {0} /\ GateCost \in Nat
    /\ Slots \in Nat \ {0} /\ HistoryLimit \in Nat \ {0} /\ MaxRuns \in Nat \ {0}
    /\ DailyBudget \in Nat \ {0} /\ PerRun \in Nat \ {0}
    /\ MaxDay \in Nat \ {0} /\ MaxCrashes \in Nat

VARIABLES
    known,          \* keys of the store's index
    history,        \* events whose bodies are retained, oldest first
    decided,        \* event -> sub -> the decision stored with its body
    refusals,       \* the store's list: refusals, and decisions <<event, sub>>
                    \* that were taken when the body was compacted away
    runCount,       \* sub -> day -> count of the "run" window
    runSpend,       \* sub -> day -> usd of the "run" window
    triageSpend,    \* sub -> day -> usd of the "triage" window
    task,           \* event -> sub -> its decision task
    taskDay,        \* event -> sub -> the day the task read when it got its slot
    grant,          \* event -> sub -> the budget its run was given
    day,
    crashes,
    started         \* ghost: <<event, sub, day>> of each run started, in order

windowVars == <<runCount, runSpend, triageSpend>>
storeVars == <<known, history, decided, refusals, windowVars>>
taskVars == <<task, taskDay, grant>>
eventVars == <<storeVars, taskVars, started, day, crashes>>

Pairs == Events \X Subs
Retained == {history[i] : i \in 1..Len(history)}

Holding == {p \in Pairs : task[p[1]][p[2]] \in {"gate", "running"}}
Lower(x, y) == IF x <= y THEN x ELSE y
Left(s, d) == IF runSpend[s][d] > DailyBudget THEN 0 ELSE DailyBudget - runSpend[s][d]
Set(f, e, s, v) == [f EXCEPT ![e][s] = v]
-----------------------------------------------------------------------------
Init == /\ known = {} /\ history = <<>> /\ refusals = <<>>
        /\ decided = [e \in Events |-> [s \in Subs |-> "none"]]
        /\ runCount = [s \in Subs |-> [d \in Days |-> 0]]
        /\ runSpend = [s \in Subs |-> [d \in Days |-> 0]]
        /\ triageSpend = [s \in Subs |-> [d \in Days |-> 0]]
        /\ task = [e \in Events |-> [s \in Subs |-> "none"]]
        /\ taskDay = [e \in Events |-> [s \in Subs |-> 1]]
        /\ grant = [e \in Events |-> [s \in Subs |-> 0]]
        /\ day = 1 /\ crashes = 0
        /\ started = <<>>

(* Mutant of Fresh: a duplicate is one whose body is still there. *)
FreshByBody(e) == e \notin Retained

(* The index outlives the body. *)
Fresh(e) == e \notin known

(* _compact: the oldest bodies go, with the decisions stored in them. *)
Kept(h) == IF Len(h) > HistoryLimit THEN SubSeq(h, Len(h) - HistoryLimit + 1, Len(h)) ELSE h
KeptSet(h) == {Kept(h)[i] : i \in 1..Len(Kept(h))}

(* record_refusal: the list keeps its last entries, of whatever kind; the    *)
(* refusals of the controls are not told apart here.                         *)
Refusal == <<"refusal">>
Noted == Kept(Append(refusals, Refusal))

(* admit_event refuses an event of the agent's own, or of a source that sent *)
(* too many in the last minute; it is not ingested and may come again.       *)
RefuseEvent == /\ refusals' = Noted
               /\ UNCHANGED <<known, history, decided, windowVars, taskVars, started, day, crashes>>

(* process(), up to gather: ingest and create the decision tasks. *)
Deliver(e) == /\ Fresh(e)
              /\ known' = known \cup {e}
              /\ history' = Kept(Append(history, e))
              /\ decided' = [x \in Events |-> IF x \in KeptSet(Append(history, e)) THEN decided[x]
                                              ELSE [s \in Subs |-> "none"]]
              /\ task' = [task EXCEPT ![e] = [s \in Subs |-> "queued"]]
              /\ UNCHANGED <<refusals, windowVars, taskDay, grant, started, day, crashes>>

(* Mutant of AddDecision: a decision whose event is not there is dropped. *)
AddIfThere(e, s, verdict, noted) ==
    /\ decided' = IF e \in Retained /\ decided[e][s] = "none"
                  THEN Set(decided, e, s, verdict) ELSE decided
    /\ refusals' = noted

(* add_decision: once per subscription; among the refusals, noted until now, *)
(* when the body is gone.                                                    *)
AddDecision(e, s, verdict, noted) ==
    IF e \in Retained
    THEN /\ decided' = IF decided[e][s] = "none" THEN Set(decided, e, s, verdict) ELSE decided
         /\ refusals' = noted
    ELSE /\ refusals' = Append(noted, <<e, s>>)
         /\ UNCHANGED decided

(* A task gets a slot, reads the clock, and admit_triage lets it call the    *)
(* relevance gate.                                                           *)
TakeSlot(e, s) == /\ task[e][s] = "queued"
                  /\ Cardinality(Holding) < Slots
                  /\ triageSpend[s][day] < TriageBudget
                  /\ task' = Set(task, e, s, "gate")
                  /\ taskDay' = Set(taskDay, e, s, day)
                  /\ UNCHANGED <<storeVars, grant, started, day, crashes>>

RefuseTriage(e, s) == /\ task[e][s] = "queued"
                      /\ Cardinality(Holding) < Slots
                      /\ triageSpend[s][day] >= TriageBudget
                      /\ AddDecision(e, s, "refused", Noted)
                      /\ task' = Set(task, e, s, "done")
                      /\ UNCHANGED <<known, history, windowVars, taskDay, grant, started, day, crashes>>

(* The gate has answered and its reply tells what it cost.                   *)
Answered(e, s) ==
    /\ task[e][s] = "gate"
    /\ \E usd \in 0..GateCost : triageSpend' = [triageSpend EXCEPT ![s][taskDay[e][s]] = @ + usd]

(* The gate finds the event irrelevant. *)
Ignore(e, s) == /\ Answered(e, s)
                /\ AddDecision(e, s, "ignored", refusals)
                /\ task' = Set(task, e, s, "done")
                /\ UNCHANGED <<known, history, runCount, runSpend, taskDay, grant, started, day, crashes>>

(* admit_run refuses: the day's money first, then its run slots. *)
RefuseRun(e, s) == /\ Answered(e, s)
                   /\ \/ runSpend[s][taskDay[e][s]] >= DailyBudget
                      \/ runCount[s][taskDay[e][s]] >= MaxRuns
                   /\ AddDecision(e, s, "refused", Noted)
                   /\ task' = Set(task, e, s, "done")
                   /\ UNCHANGED <<known, history, runCount, runSpend, taskDay, grant, started, day, crashes>>

(* Mutant of Reserve: the slot is counted once the run is over. *)
ReserveLater(s, d) == UNCHANGED runCount

(* window_reserve: the slot is claimed in the step that checks the ceiling. *)
Reserve(s, d) == runCount' = [runCount EXCEPT ![s][d] = @ + 1]

(* governor.record with count=0 after the run. *)
Settle(s, d, usd) == /\ runSpend' = [runSpend EXCEPT ![s][d] = @ + usd]
                     /\ UNCHANGED runCount

(* admit_run admits, and the run starts with what is left as its ceiling.    *)
StartRun(e, s) ==
    LET d == taskDay[e][s] IN
    /\ Answered(e, s)
    /\ runSpend[s][d] < DailyBudget
    /\ runCount[s][d] < MaxRuns
    /\ Reserve(s, d)
    /\ grant' = Set(grant, e, s, Lower(PerRun, Left(s, d)))
    /\ task' = Set(task, e, s, "running")
    /\ started' = Append(started, <<e, s, d>>)
    /\ UNCHANGED <<known, history, decided, refusals, runSpend, taskDay, day, crashes>>

(* What process() reads back of the run's cost: AgentRuntime.run reports its *)
(* ledger under "budget" and returns no "spend_usd", so this is zero.        *)
Reported(cost) == 0

(* The run ends within its ceiling and its decision is stored. *)
RunEnds(e, s) ==
    LET d == taskDay[e][s] IN
    /\ task[e][s] = "running"
    /\ \E cost \in 0..grant[e][s] : Settle(s, d, Reported(cost))
    /\ AddDecision(e, s, "ran", refusals)
    /\ task' = Set(task, e, s, "done")
    /\ UNCHANGED <<known, history, triageSpend, taskDay, grant, started, day, crashes>>

(* The gate raises, or gives an answer that is none and is paid for, or the  *)
(* run raises: the slot is free, the decision still open.                    *)
TaskFails(e, s) ==
    /\ \/ task[e][s] \in {"gate", "running"} /\ UNCHANGED triageSpend
       \/ Answered(e, s)
    /\ task' = Set(task, e, s, "failed")
    /\ UNCHANGED <<known, history, decided, refusals, runCount, runSpend, taskDay, grant, started,
                   day, crashes>>

(* gather returned: every task of the event has ended. *)
Gathered(e) == \A s \in Subs : task[e][s] \in {"done", "failed"}

RecordFailure(e, s) == /\ Gathered(e)
                       /\ task[e][s] = "failed"
                       /\ AddDecision(e, s, "failed", Noted)
                       /\ task' = Set(task, e, s, "done")
                       /\ UNCHANGED <<known, history, windowVars, taskDay, grant, started, day, crashes>>

Midnight == /\ day < MaxDay
            /\ day' = day + 1
            /\ UNCHANGED <<storeVars, taskVars, started, crashes>>

Crash == /\ crashes < MaxCrashes
         /\ crashes' = crashes + 1
         /\ task' = [e \in Events |-> [s \in Subs |-> IF task[e][s] \in {"none", "done"}
                                                      THEN task[e][s] ELSE "lost"]]
         /\ UNCHANGED <<storeVars, taskDay, grant, started, day>>

Advance(e, s) == \/ Ignore(e, s) \/ RefuseRun(e, s) \/ StartRun(e, s) \/ RunEnds(e, s)
                 \/ TaskFails(e, s) \/ RecordFailure(e, s)

Next == \/ \E e \in Events : Deliver(e)
        \/ \E e \in Events, s \in Subs : TakeSlot(e, s) \/ RefuseTriage(e, s) \/ Advance(e, s)
        \/ RefuseEvent
        \/ Midnight
        \/ Crash

Spec == Init /\ [][Next]_eventVars

-----------------------------------------------------------------------------
EventTypeOK ==
    /\ known \subseteq Events
    /\ history \in Seq(known) /\ Len(history) <= HistoryLimit
    /\ decided \in [Events -> [Subs -> {"none", "ignored", "refused", "ran", "failed"}]]
    /\ refusals \in Seq({Refusal} \cup Pairs)
    /\ runCount \in [Subs -> [Days -> Nat]] /\ runSpend \in [Subs -> [Days -> Nat]]
    /\ triageSpend \in [Subs -> [Days -> Nat]]
    /\ task \in [Events -> [Subs -> {"none", "queued", "gate", "running", "failed", "done", "lost"}]]
    /\ taskDay \in [Events -> [Subs -> Days]]
    /\ grant \in [Events -> [Subs -> 0..PerRun]]
    /\ day \in Days /\ crashes \in 0..MaxCrashes
    /\ started \in Seq(Events \X Subs \X Days)

RunsOn(s, d) == {i \in 1..Len(started) : started[i][2] = s /\ started[i][3] = d}

(* The daily ceiling holds for runs decided together, and the window's count *)
(* is the number of runs that started in it, none twice, none forgotten      *)
(* (window_reserve).  Gates that are asked together were each admitted to    *)
(* the same remainder: they pass the triage budget by at most what the       *)
(* slots hold (admit_triage).                                                *)
CeilingsHold ==
    \A s \in Subs, d \in Days :
        /\ Cardinality(RunsOn(s, d)) <= MaxRuns
        /\ runCount[s][d] = Cardinality(RunsOn(s, d))
        /\ triageSpend[s][d] < TriageBudget + Slots * GateCost

(* A redelivered event never starts a second run of a subscription, even     *)
(* when its body was compacted away or the process died in between.          *)
OneRunPerEvent ==
    \A i, j \in 1..Len(started) :
        started[i][1] = started[j][1] /\ started[i][2] = started[j][2] => i = j

(* A finished task left a decision with its event, and a started run is      *)
(* never shown as ignored or refused.                                        *)
DecisionStored ==
    \A e \in Events, s \in Subs :
        /\ task[e][s] = "done" /\ e \in Retained => decided[e][s] # "none"
        /\ decided[e][s] \in {"ignored", "refused"} =>
              \A i \in 1..Len(started) : <<started[i][1], started[i][2]>> # <<e, s>>

(* Every task leaves its decision (add_decision against _compact): with the  *)
(* event or, when its body was compacted away while the run went on, apart   *)
(* from it, among the refusals.                                              *)
DecisionKept ==
    [][/\ DecisionStored'
       /\ \A e \in Events, s \in Subs :
             task[e][s] \notin {"done", "none"} /\ task'[e][s] = "done" /\ e \notin Retained
                 => \E i \in 1..Len(refusals') : refusals'[i] = <<e, s>>]_eventVars
=============================================================================
