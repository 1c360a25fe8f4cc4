------------------------------- MODULE A2ATask -------------------------------
(* The A2A task server (s17code/core/a2a/server.py) with its push ledger.    *)
(*                                                                           *)
(* A task is driven by one coroutine: the request itself when it is sent or  *)
(* streamed, a job when the text asks for work in the background or when the *)
(* server restarted.  Cancelling is another request, with a push of its own. *)
(* A change of state and the save that follows it are in one segment, so one *)
(* variable stands for both; a process that dies loses the coroutines only.  *)
EXTENDS Naturals, Sequences, FiniteSets

CONSTANTS
    TaskIds,
    Called,         \* tasks whose request names a callback url
    PushAttempts,   \* push_attempts
    MaxCrashes,     \* bound: deaths of the server
    MaxDrops        \* bound: requests whose client goes away

ASSUME TaskConstants ==
    /\ IsFiniteSet(TaskIds) /\ Called \subseteq TaskIds
    /\ PushAttempts \in Nat \ {0} /\ MaxCrashes \in Nat /\ MaxDrops \in Nat

VARIABLES
    state,          \* task -> "absent" or its TaskState, as saved
    stamp,          \* task -> updated_at, counted in changes
    mode,           \* task -> how it was asked for
    driver,         \* task -> where the coroutine that drives it stands
    jobs,           \* tasks driven by a job of _jobs
    note,           \* task -> who -> the push under way, or NoNote
    ledger,         \* event -> a2a_push_delivery row
    up,             \* the process runs
    inbox,          \* task -> the events its webhook received, in order
    shown,          \* tasks whose id a client has learnt
    calls,          \* task -> how often task_handler was called
    dropped,        \* tasks whose request was abandoned by its client
    crashes

serverVars == <<state, stamp, mode, driver, jobs, note, ledger>>
watchVars == <<inbox, shown, calls, dropped, crashes>>
taskVars == <<serverVars, up, watchVars>>

Terminal == {"completed", "failed", "canceled"}
States == {"absent", "submitted", "working"} \cup Terminal
Who == {"driver", "cancel"}
NoNote == [event |-> <<>>, tries |-> 0]

(* The key of the ledger: a hash of id, state and updated_at. *)
EventOf(t, s, n) == <<t, s, n>>
Row(ev) == IF ev \in DOMAIN ledger THEN ledger[ev] ELSE [delivered |-> FALSE, attempts |-> 0]
Recorded(ev, row) == [x \in DOMAIN ledger \cup {ev} |-> IF x = ev THEN row ELSE ledger[x]]

Ended(t) == state[t] \in Terminal
Idle(t, w) == note[t][w] = NoNote
-----------------------------------------------------------------------------
Init == /\ state = [t \in TaskIds |-> "absent"]
        /\ stamp = [t \in TaskIds |-> 0]
        /\ mode = [t \in TaskIds |-> "none"]
        /\ driver = [t \in TaskIds |-> "none"]
        /\ jobs = {}
        /\ note = [t \in TaskIds |-> [w \in Who |-> NoNote]]
        /\ ledger = <<>>
        /\ up = TRUE
        /\ inbox = [t \in TaskIds |-> <<>>]
        /\ shown = {}
        /\ calls = [t \in TaskIds |-> 0]
        /\ dropped = {}
        /\ crashes = 0

(* Where the driver goes once its push is over, or when there is none: after *)
(* the announcement send() creates the job, after the end there is nothing.  *)
After(phase) == IF phase = "announce" THEN "sleep" ELSE "over"

(* _notify up to its first await, for a state just saved with stamp n: the   *)
(* driver waits for the push in phase, or is past it at once.                *)
Announces(t, s, n) ==
    /\ t \in Called
    /\ ~ Row(EventOf(t, s, n)).delivered
    /\ Row(EventOf(t, s, n)).attempts < PushAttempts

NoteOf(t, s, n) == [event |-> EventOf(t, s, n), tries |-> Row(EventOf(t, s, n)).attempts]

DriverNotifies(t, s, n, phase) ==
    IF Announces(t, s, n)
    THEN /\ driver' = [driver EXCEPT ![t] = phase]
         /\ note' = [note EXCEPT ![t].driver = NoteOf(t, s, n)]
         /\ UNCHANGED <<jobs, shown>>
    ELSE /\ driver' = [driver EXCEPT ![t] = After(phase)]
         /\ jobs' = IF phase = "announce" THEN jobs \cup {t} ELSE jobs
         /\ shown' = IF phase = "announce" THEN shown \cup {t} ELSE shown
         /\ UNCHANGED note

Fresh(t) == up /\ state[t] = "absent"

(* message/send of a text that is worked on at once. *)
SendSync(t) == /\ Fresh(t)
               /\ state' = [state EXCEPT ![t] = "submitted"]
               /\ mode' = [mode EXCEPT ![t] = "sync"]
               /\ driver' = [driver EXCEPT ![t] = "handler"]
               /\ calls' = [calls EXCEPT ![t] = @ + 1]
               /\ UNCHANGED <<stamp, jobs, note, ledger, up, inbox, shown, dropped, crashes>>

(* message/send of an "async" text: saved as working, announced, then a job. *)
SendAsync(t) == /\ Fresh(t)
                /\ state' = [state EXCEPT ![t] = "working"]
                /\ stamp' = [stamp EXCEPT ![t] = 1]
                /\ mode' = [mode EXCEPT ![t] = "async"]
                /\ DriverNotifies(t, "working", 1, "announce")
                /\ UNCHANGED <<ledger, up, inbox, calls, dropped, crashes>>

(* message/stream up to its first snapshot, which shows the id. *)
Stream(t) == /\ Fresh(t)
             /\ state' = [state EXCEPT ![t] = "working"]
             /\ stamp' = [stamp EXCEPT ![t] = 1]
             /\ mode' = [mode EXCEPT ![t] = "stream"]
             /\ driver' = [driver EXCEPT ![t] = "sleep"]
             /\ shown' = shown \cup {t}
             /\ UNCHANGED <<jobs, note, ledger, up, inbox, calls, dropped, crashes>>

(* The sleep of a job or of a stream is over: work, unless it ended already. *)
Begin(t) == /\ driver[t] = "sleep"
            /\ IF Ended(t)
               THEN driver' = [driver EXCEPT ![t] = "over"] /\ UNCHANGED calls
               ELSE /\ driver' = [driver EXCEPT ![t] = "handler"]
                    /\ calls' = [calls EXCEPT ![t] = @ + 1]
            /\ UNCHANGED <<state, stamp, mode, jobs, note, ledger, up, inbox, shown, dropped, crashes>>

(* Mutant of Complete: the end is saved and nobody is told.                  *)
CompleteQuietly(t) ==
    /\ driver[t] = "handler"
    /\ \E s \in {"completed", "failed"} : state' = [state EXCEPT ![t] = s]
    /\ stamp' = [stamp EXCEPT ![t] = @ + 1]
    /\ driver' = [driver EXCEPT ![t] = "over"]
    /\ UNCHANGED <<mode, jobs, note, shown, ledger, up, inbox, calls, dropped, crashes>>

(* _complete: task_handler returned or raised; the end is saved and pushed.  *)
Complete(t) == /\ driver[t] = "handler"
               /\ \E s \in {"completed", "failed"} :
                     /\ state' = [state EXCEPT ![t] = s]
                     /\ DriverNotifies(t, s, stamp[t] + 1, "push")
               /\ stamp' = [stamp EXCEPT ![t] = @ + 1]
               /\ UNCHANGED <<mode, ledger, up, inbox, calls, dropped, crashes>>

(* Mutant of CancelledDriver: the job is left to itself.                     *)
JobGoesOn(t) == driver[t]

(* job.cancel(): CancelledError ends a job that sleeps or awaits its handler *)
(* and is not one of the exceptions _complete turns into a failure.          *)
CancelledDriver(t) == IF t \in jobs /\ driver[t] \in {"sleep", "handler"}
                      THEN "over" ELSE driver[t]

(* tasks/cancel, up to the await of its push. *)
Cancel(t) == /\ up
             /\ t \in shown
             /\ ~Ended(t) /\ state[t] # "absent"
             /\ state' = [state EXCEPT ![t] = "canceled"]
             /\ stamp' = [stamp EXCEPT ![t] = @ + 1]
             /\ driver' = [driver EXCEPT ![t] = CancelledDriver(t)]
             /\ note' = IF Announces(t, "canceled", stamp[t] + 1)
                        THEN [note EXCEPT ![t].cancel = NoteOf(t, "canceled", stamp[t] + 1)]
                        ELSE note
             /\ UNCHANGED <<mode, jobs, ledger, up, watchVars>>

(* The push loop of _notify ended: it was answered or has no attempt left.   *)
NoteEnds(t, w) == /\ note' = [note EXCEPT ![t][w] = NoNote]
                  /\ IF w = "driver"
                     THEN /\ driver' = [driver EXCEPT ![t] = After(driver[t])]
                          /\ jobs' = IF driver[t] = "announce" THEN jobs \cup {t} ELSE jobs
                     ELSE UNCHANGED <<driver, jobs>>

(* One attempt: the webhook answers, refuses, or takes it and the answer is  *)
(* lost.  Each attempt is recorded; the next one comes after a pause.        *)
Post(t, w) ==
    /\ ~Idle(t, w)
    /\ \E answer \in {"taken", "refused", "lost"} :
          LET ev == note[t][w].event
              n == note[t][w].tries + 1
              arrived == answer # "refused"
              ends == answer = "taken" \/ n = PushAttempts
          IN /\ inbox' = IF arrived THEN [inbox EXCEPT ![t] = Append(@, ev)] ELSE inbox
             /\ shown' = IF arrived \/ (ends /\ w = "driver" /\ driver[t] = "announce")
                         THEN shown \cup {t} ELSE shown
             /\ ledger' = Recorded(ev, [delivered |-> answer = "taken", attempts |-> n])
             /\ IF ends THEN NoteEnds(t, w)
                ELSE note' = [note EXCEPT ![t][w].tries = n] /\ UNCHANGED <<driver, jobs>>
    /\ UNCHANGED <<state, stamp, mode, up, calls, dropped, crashes>>

(* The client of a stream, or of a gRPC send (which carries no callback),    *)
(* goes away and its request is cancelled wherever it stands.                *)
Drop(t) == /\ Cardinality(dropped) < MaxDrops
           /\ driver[t] \in {"sleep", "handler", "push"}
           /\ t \notin jobs
           /\ mode[t] = "stream" \/ t \notin Called
           /\ driver' = [driver EXCEPT ![t] = "over"]
           /\ note' = [note EXCEPT ![t].driver = NoNote]
           /\ dropped' = dropped \cup {t}
           /\ UNCHANGED <<state, stamp, mode, jobs, ledger, up, inbox, shown, calls, crashes>>

(* The process dies, or close() cancels every job. *)
Crash == /\ up /\ crashes < MaxCrashes
         /\ up' = FALSE
         /\ crashes' = crashes + 1
         /\ driver' = [t \in TaskIds |-> "none"]
         /\ jobs' = {}
         /\ note' = [t \in TaskIds |-> [w \in Who |-> NoNote]]
         /\ UNCHANGED <<state, stamp, mode, ledger, inbox, shown, calls, dropped>>

(* Mutant of Open: only what was being worked on is taken up again.          *)
OpenWorking == {t \in TaskIds : state[t] = "working"}

(* start() looks for the saved tasks that did not end... *)
Open == {t \in TaskIds : state[t] \notin Terminal \cup {"absent"}}

(* ... and gives each of them a job. *)
Restart == /\ ~up
           /\ up' = TRUE
           /\ state' = [t \in TaskIds |-> IF t \in Open THEN "working" ELSE state[t]]
           /\ stamp' = [t \in TaskIds |-> IF t \in Open THEN stamp[t] + 1 ELSE stamp[t]]
           /\ driver' = [t \in TaskIds |-> IF t \in Open THEN "sleep" ELSE driver[t]]
           /\ jobs' = Open
           /\ UNCHANGED <<mode, note, ledger, watchVars>>

Drive(t) == \/ Begin(t) \/ Complete(t) \/ Post(t, "driver")

Next == \/ \E t \in TaskIds : \/ SendSync(t) \/ SendAsync(t) \/ Stream(t) \/ Cancel(t)
                              \/ Drive(t) \/ Post(t, "cancel") \/ Drop(t)
        \/ Crash
        \/ Restart

Spec == Init /\ [][Next]_taskVars

(* The loop runs each coroutine, handlers and posts end, and the operator    *)
(* starts the server again.                                                  *)
TaskFairness == /\ \A t \in TaskIds : WF_taskVars(Drive(t)) /\ WF_taskVars(Post(t, "cancel"))
                /\ WF_taskVars(Restart)
-----------------------------------------------------------------------------
TaskEvents == TaskIds \X States \X Nat
Notes == {NoNote} \cup [event : TaskEvents, tries : 0..(PushAttempts - 1)]

TaskTypeOK ==
    /\ state \in [TaskIds -> States]
    /\ stamp \in [TaskIds -> Nat]
    /\ mode \in [TaskIds -> {"none", "sync", "async", "stream"}]
    /\ driver \in [TaskIds -> {"none", "announce", "sleep", "handler", "push", "over"}]
    /\ jobs \subseteq TaskIds
    /\ note \in [TaskIds -> [Who -> Notes]]
    /\ ledger \in [DOMAIN ledger -> [delivered : BOOLEAN, attempts : 1..PushAttempts]]
    /\ DOMAIN ledger \subseteq TaskEvents
    /\ inbox \in [TaskIds -> Seq(TaskEvents)]
    /\ up \in BOOLEAN /\ shown \subseteq TaskIds /\ dropped \subseteq TaskIds
    /\ calls \in [TaskIds -> Nat] /\ crashes \in 0..MaxCrashes

(* A task is cancelled under a handler nobody can cancel: a live stream's.   *)
Uncancellable(t) == mode[t] = "stream" /\ t \notin jobs /\ driver[t] = "handler"

(* An ended task keeps its state, against handlers that return late,         *)
(* restarts and cancellations.  The one exception is a stream cancelled      *)
(* while its handler runs, which the handler's end overwrites.  Nor is a     *)
(* handler started for a task that ended, or more than once and once more    *)
(* for each restart.                                                         *)
EndStands ==
    [][\A t \in TaskIds :
          /\ Ended(t) /\ ~Uncancellable(t) => state'[t] = state[t]
          /\ calls'[t] > calls[t] => ~Ended(t) /\ calls'[t] <= 1 + crashes]_taskVars

Settled(ev) == Row(ev).delivered \/ Row(ev).attempts = PushAttempts

(* While the server lives, a callback is told how its task ended or has used *)
(* up its attempts, before the coroutines of the task fall silent; and the   *)
(* ledger claims no delivery that did not arrive.                            *)
EndAnnounced ==
    /\ \A t \in Called :
          /\ crashes = 0 /\ t \notin dropped /\ Ended(t)
          /\ driver[t] = "over" /\ Idle(t, "driver") /\ Idle(t, "cancel")
          => Settled(EventOf(t, state[t], stamp[t]))
    /\ \A ev \in DOMAIN ledger : ledger[ev].delivered =>
          \E i \in 1..Len(inbox[ev[1]]) : inbox[ev[1]][i] = ev

(* Every task that was accepted ends, through crashes and restarts too,      *)
(* unless its client abandoned the request that drove it.                    *)
TaskEnds == \A t \in TaskIds : state[t] # "absent" ~> Ended(t) \/ t \in dropped
=============================================================================
