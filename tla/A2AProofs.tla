------------------------------ MODULE A2AProofs ------------------------------
(* What the A2A task server guarantees for any tasks, callbacks, attempts    *)
(* and crashes, and what a graph node that waits for one of its tasks can    *)
(* rely on: the types, ends that stand, callbacks that are told, and results *)
(* that are final.                                                           *)
EXTENDS A2ABridge, SequenceTheorems, TLAPS

(* An event is not the empty note.                                           *)
LEMMA EventIsNoNote ==
    ASSUME NEW ev \in TaskEvents
    PROVE  ev # <<>> /\ ev[1] \in TaskIds
<1>1. ev[3] \in Nat /\ ev = <<ev[1], ev[2], ev[3]>> /\ ev[1] \in TaskIds
  BY DEF TaskEvents
<1>2. \A a, b, c : <<a, b, c>> # <<>>
  OBVIOUS
<1>. QED BY <1>1, <1>2

(* A row of the ledger, recorded or not.                                     *)
LEMMA RowTyped ==
    ASSUME TaskTypeOK, NEW ev
    PROVE  Row(ev) \in [delivered : BOOLEAN, attempts : 0..PushAttempts]
BY TaskConstants DEF TaskTypeOK, Row

(* What a record of an attempt changes in the ledger.                        *)
LEMMA RecordedRow ==
    ASSUME TaskTypeOK, NEW ev \in TaskEvents,
           NEW row \in [delivered : BOOLEAN, attempts : 1..PushAttempts],
           ledger' = Recorded(ev, row)
    PROVE  /\ ledger' \in [DOMAIN ledger' -> [delivered : BOOLEAN, attempts : 1..PushAttempts]]
           /\ DOMAIN ledger' = DOMAIN ledger \cup {ev}
           /\ Row(ev)' = row
           /\ \A x : x # ev => Row(x)' = Row(x)
BY DEF TaskTypeOK, Recorded, Row

(* The note of a push that is to be made.                                    *)
LEMMA NoteTyped ==
    ASSUME TaskTypeOK, NEW t \in TaskIds, NEW s \in States, NEW n \in Nat, Announces(t, s, n)
    PROVE  /\ NoteOf(t, s, n) \in Notes /\ NoteOf(t, s, n) # NoNote
           /\ NoteOf(t, s, n).event = <<t, s, n>>
           /\ NoteOf(t, s, n).tries = Row(<<t, s, n>>).attempts
           /\ ~Row(<<t, s, n>>).delivered
<1>1. <<t, s, n>> \in TaskEvents
  BY DEF TaskEvents
<1>2. NoteOf(t, s, n) = [event |-> <<t, s, n>>, tries |-> Row(<<t, s, n>>).attempts]
  BY DEF NoteOf, EventOf
<1>3. Row(<<t, s, n>>).attempts \in 0..(PushAttempts - 1) /\ ~Row(<<t, s, n>>).delivered
  BY RowTyped, TaskConstants DEF Announces, EventOf
<1>4. NoteOf(t, s, n).event # <<>> /\ NoNote.event = <<>>
  BY <1>1, <1>2, EventIsNoNote DEF NoNote
<1>5. NoteOf(t, s, n) \in Notes
  BY <1>1, <1>2, <1>3 DEF Notes
<1>6. NoteOf(t, s, n) # NoNote
  BY <1>4
<1>7. /\ NoteOf(t, s, n).event = <<t, s, n>>
      /\ NoteOf(t, s, n).tries = Row(<<t, s, n>>).attempts
  BY <1>2
<1>. QED BY <1>3, <1>5, <1>6, <1>7

(* A note that is replaced.                                                  *)
LEMMA OneNote ==
    ASSUME TaskTypeOK, NEW t \in TaskIds, NEW w \in Who, NEW m \in Notes,
           note' = [note EXCEPT ![t][w] = m]
    PROVE  /\ note' \in [TaskIds -> [Who -> Notes]]
           /\ \A x \in TaskIds, y \in Who :
                 note'[x][y] = IF x = t /\ y = w THEN m ELSE note[x][y]
<1>1. [note[t] EXCEPT ![w] = m] \in [Who -> Notes]
  BY DEF TaskTypeOK
<1>. QED BY <1>1 DEF TaskTypeOK

(* A push under way is one of its task, and has attempts left.               *)
LEMMA BusyNote ==
    ASSUME TaskTypeOK, NEW t \in TaskIds, NEW w \in Who, ~Idle(t, w)
    PROVE  /\ note[t][w] \in [event : TaskEvents, tries : 0..(PushAttempts - 1)]
           /\ note[t][w].tries + 1 \in 1..PushAttempts
BY TaskConstants DEF TaskTypeOK, Notes, Idle

(* Who is told of a change, and what it leaves of the driver and the notes.  *)
LEMMA NotifiesShape ==
    ASSUME TaskTypeOK, NEW t \in TaskIds, NEW s \in States, NEW n \in Nat,
           NEW phase \in {"announce", "push"}, DriverNotifies(t, s, n, phase)
    PROVE  \/ /\ Announces(t, s, n) /\ UNCHANGED <<jobs, shown>>
              /\ driver' = [driver EXCEPT ![t] = phase]
              /\ note' \in [TaskIds -> [Who -> Notes]]
              /\ \A x \in TaskIds, y \in Who :
                    note'[x][y] = IF x = t /\ y = "driver" THEN NoteOf(t, s, n) ELSE note[x][y]
           \/ /\ ~Announces(t, s, n) /\ UNCHANGED note
              /\ driver' = [driver EXCEPT ![t] = After(phase)]
              /\ jobs' = IF phase = "announce" THEN jobs \cup {t} ELSE jobs
              /\ shown' = IF phase = "announce" THEN shown \cup {t} ELSE shown
<1>1. CASE Announces(t, s, n)
  <2>1. /\ driver' = [driver EXCEPT ![t] = phase] /\ UNCHANGED <<jobs, shown>>
        /\ note' = [note EXCEPT ![t]["driver"] = NoteOf(t, s, n)]
    BY <1>1 DEF DriverNotifies
  <2>2. NoteOf(t, s, n) \in Notes /\ "driver" \in Who
    BY <1>1, NoteTyped DEF Who
  <2>. QED BY <1>1, <2>1, <2>2, OneNote
<1>2. CASE ~Announces(t, s, n)
  BY <1>2 DEF DriverNotifies
<1>. QED BY <1>1, <1>2

(* Such a step keeps the types.                                              *)
LEMMA NotifiesTyped ==
    ASSUME TaskTypeOK, NEW t \in TaskIds, NEW s \in States, NEW n \in Nat,
           NEW phase \in {"announce", "push"}, DriverNotifies(t, s, n, phase)
    PROVE  /\ driver' \in [TaskIds -> {"none", "announce", "sleep", "handler", "push", "over"}]
           /\ note' \in [TaskIds -> [Who -> Notes]]
           /\ jobs' \subseteq TaskIds /\ shown' \subseteq TaskIds
<1>1. note' \in [TaskIds -> [Who -> Notes]]
  BY NotifiesShape DEF TaskTypeOK
<1>2. driver' \in {[driver EXCEPT ![t] = phase], [driver EXCEPT ![t] = After(phase)]}
  BY NotifiesShape
<1>3. driver' \in [TaskIds -> {"none", "announce", "sleep", "handler", "push", "over"}]
  BY <1>2 DEF After, TaskTypeOK
<1>4. jobs' \in {jobs, jobs \cup {t}} /\ shown' \in {shown, shown \cup {t}}
  BY NotifiesShape
<1>. QED BY <1>1, <1>3, <1>4 DEF TaskTypeOK

(* The attempt n of the push of event ev, and what the answer to it changes. *)
Attempt(t, w, ev, n, answer) ==
    /\ ev = note[t][w].event /\ n = note[t][w].tries + 1
    /\ inbox' = IF answer # "refused" THEN [inbox EXCEPT ![t] = Append(@, ev)] ELSE inbox
    /\ shown' \in {shown, shown \cup {t}}
    /\ ledger' = Recorded(ev, [delivered |-> answer = "taken", attempts |-> n])
    /\ \/ (answer = "taken" \/ n = PushAttempts) /\ NoteEnds(t, w)
       \/ /\ answer # "taken" /\ n < PushAttempts
          /\ note' = [note EXCEPT ![t][w] = [event |-> ev, tries |-> n]]
          /\ UNCHANGED <<driver, jobs>>

Answers == {"taken", "refused", "lost"}

(* A step of a push is such an attempt, of a proper event.                   *)
LEMMA PostShape ==
    ASSUME TaskTypeOK, NEW t \in TaskIds, NEW w \in Who, Post(t, w)
    PROVE  \E ev \in TaskEvents, n \in 1..PushAttempts, answer \in Answers :
              Attempt(t, w, ev, n, answer)
<1>. DEFINE ev == note[t][w].event
            n == note[t][w].tries + 1
<1>1. ev \in TaskEvents /\ n \in 1..PushAttempts
  BY BusyNote DEF Post
<1>2. [note[t][w] EXCEPT !.tries = n] = [event |-> ev, tries |-> n]
  <2>1. note[t][w] \in [event : TaskEvents, tries : 0..(PushAttempts - 1)]
    BY BusyNote DEF Post
  <2>. QED BY <2>1
<1>3. PICK answer \in {"taken", "refused", "lost"} :
         LET ends == answer = "taken" \/ n = PushAttempts
         IN  /\ inbox' = IF answer # "refused" THEN [inbox EXCEPT ![t] = Append(@, ev)] ELSE inbox
             /\ shown' \in {shown, shown \cup {t}}
             /\ ledger' = Recorded(ev, [delivered |-> answer = "taken", attempts |-> n])
             /\ IF ends THEN NoteEnds(t, w)
                ELSE note' = [note EXCEPT ![t][w].tries = n] /\ UNCHANGED <<driver, jobs>>
  BY DEF Post
<1>4. [note EXCEPT ![t][w].tries = n] = [note EXCEPT ![t][w] = [event |-> ev, tries |-> n]]
  <2>. HIDE DEF ev, n
  <2>. QED BY <1>2
<1>5. ~(n = PushAttempts) => n < PushAttempts
  BY <1>1, TaskConstants
<1>. HIDE DEF ev, n
<1>6. \/ (answer = "taken" \/ n = PushAttempts) /\ NoteEnds(t, w)
      \/ /\ answer # "taken" /\ n < PushAttempts
         /\ note' = [note EXCEPT ![t][w] = [event |-> ev, tries |-> n]]
         /\ UNCHANGED <<driver, jobs>>
  BY <1>3, <1>4, <1>5
<1>7. ev = note[t][w].event /\ n = note[t][w].tries + 1
  BY DEF ev, n
<1>. QED BY <1>1, <1>3, <1>6, <1>7 DEF Attempt, Answers

(* An attempt touches no other note.                                         *)
LEMMA PostNote ==
    ASSUME TaskTypeOK, NEW t \in TaskIds, NEW w \in Who, NEW ev \in TaskEvents,
           NEW n \in 1..PushAttempts, NEW answer \in Answers, Attempt(t, w, ev, n, answer)
    PROVE  /\ \A x \in TaskIds, y \in Who : x # t \/ y # w => note'[x][y] = note[x][y]
           /\ note'[t][w] = IF answer = "taken" \/ n = PushAttempts THEN NoNote
                            ELSE [event |-> ev, tries |-> n]
<1>1. CASE (answer = "taken" \/ n = PushAttempts) /\ NoteEnds(t, w)
  BY <1>1, OneNote DEF NoteEnds, Notes
<1>2. CASE /\ answer # "taken" /\ n < PushAttempts
           /\ note' = [note EXCEPT ![t][w] = [event |-> ev, tries |-> n]]
  <2>1. [event |-> ev, tries |-> n] \in Notes
    BY <1>2, TaskConstants DEF Notes
  <2>2. n # PushAttempts
    BY <1>2, TaskConstants
  <2>3. \A x \in TaskIds, y \in Who :
           note'[x][y] = IF x = t /\ y = w THEN [event |-> ev, tries |-> n] ELSE note[x][y]
    BY <1>2, <2>1, OneNote
  <2>. QED BY <1>2, <2>2, <2>3
<1>. QED BY <1>1, <1>2 DEF Attempt

(* A cancellation touches no note but its own.                               *)
LEMMA CancelShape ==
    ASSUME TaskTypeOK, NEW t \in TaskIds, Cancel(t)
    PROVE  /\ \A x \in TaskIds, y \in Who : x # t \/ y # "cancel" => note'[x][y] = note[x][y]
           /\ note'[t]["cancel"] = IF Announces(t, "canceled", stamp[t] + 1)
                                   THEN NoteOf(t, "canceled", stamp[t] + 1) ELSE note[t]["cancel"]
<1>1. stamp[t] + 1 \in Nat /\ "canceled" \in States /\ "cancel" \in Who
  BY DEF TaskTypeOK, Who, States, Terminal
<1>2. CASE Announces(t, "canceled", stamp[t] + 1)
  <2>1. note' = [note EXCEPT ![t]["cancel"] = NoteOf(t, "canceled", stamp[t] + 1)]
    BY <1>2 DEF Cancel
  <2>. QED BY <1>1, <1>2, <2>1, NoteTyped, OneNote
<1>3. CASE ~Announces(t, "canceled", stamp[t] + 1)
  BY <1>3 DEF Cancel
<1>. QED BY <1>2, <1>3

(* An attempt keeps the types.                                               *)
LEMMA PostTyped ==
    ASSUME TaskTypeOK, NEW t \in TaskIds, NEW w \in Who, Post(t, w)
    PROVE  TaskTypeOK'
<1>. USE TaskConstants
<1>0. PICK ev \in TaskEvents, n \in 1..PushAttempts, answer \in Answers :
         Attempt(t, w, ev, n, answer)
  BY PostShape
<1>1. /\ inbox' = IF answer # "refused" THEN [inbox EXCEPT ![t] = Append(@, ev)] ELSE inbox
      /\ shown' \in {shown, shown \cup {t}}
      /\ ledger' = Recorded(ev, [delivered |-> answer = "taken", attempts |-> n])
      /\ \/ NoteEnds(t, w)
         \/ /\ note' = [note EXCEPT ![t][w] = [event |-> ev, tries |-> n]]
            /\ n < PushAttempts /\ UNCHANGED <<driver, jobs>>
  BY <1>0 DEF Attempt
<1>2. inbox' \in [TaskIds -> Seq(TaskEvents)]
  <2>1. Append(inbox[t], ev) \in Seq(TaskEvents)
    BY AppendProperties DEF TaskTypeOK
  <2>. QED BY <1>1, <2>1 DEF TaskTypeOK
<1>3. /\ ledger' \in [DOMAIN ledger' -> [delivered : BOOLEAN, attempts : 1..PushAttempts]]
      /\ DOMAIN ledger' \subseteq TaskEvents
  <2>1. [delivered |-> answer = "taken", attempts |-> n] \in
           [delivered : BOOLEAN, attempts : 1..PushAttempts]
    OBVIOUS
  <2>2. DOMAIN ledger \subseteq TaskEvents
    BY DEF TaskTypeOK
  <2>. QED BY <1>1, <2>1, <2>2, RecordedRow
<1>4. note' \in [TaskIds -> [Who -> Notes]]
  <2>1. CASE NoteEnds(t, w)
    BY <2>1, OneNote DEF NoteEnds, Notes
  <2>2. CASE n < PushAttempts /\ note' = [note EXCEPT ![t][w] = [event |-> ev, tries |-> n]]
    <3>1. [event |-> ev, tries |-> n] \in Notes
      BY <2>2 DEF Notes
    <3>. QED BY <2>2, <3>1, OneNote
  <2>. QED BY <1>1, <2>1, <2>2
<1>5. /\ driver' \in [TaskIds -> {"none", "announce", "sleep", "handler", "push", "over"}]
      /\ jobs' \subseteq TaskIds
  <2>1. CASE NoteEnds(t, w)
    <3>1. CASE w = "driver"
      <4>1. /\ driver' = [driver EXCEPT ![t] = After(driver[t])] /\ jobs' \in {jobs, jobs \cup {t}}
            /\ After(driver[t]) \in {"sleep", "over"}
        BY <2>1, <3>1 DEF NoteEnds, After
      <4>. QED BY <4>1 DEF TaskTypeOK
    <3>2. CASE w # "driver"
      BY <2>1, <3>2 DEF NoteEnds, TaskTypeOK
    <3>. QED BY <3>1, <3>2
  <2>2. CASE UNCHANGED <<driver, jobs>>
    BY <2>2 DEF TaskTypeOK
  <2>. QED BY <1>1, <2>1, <2>2
<1>6. shown' \subseteq TaskIds
  BY <1>1 DEF TaskTypeOK
<1>. QED BY <1>2, <1>3, <1>4, <1>5, <1>6 DEF Post, TaskTypeOK

(* The server's tasks, pushes and ledger are well typed in every reachable   *)
(* state.                                                                    *)
THEOREM TasksTyped == Spec => []TaskTypeOK
<1>. USE TaskConstants
<1>1. Init => TaskTypeOK
  <2>. SUFFICES ASSUME Init PROVE TaskTypeOK
    OBVIOUS
  <2>2. note \in [TaskIds -> [Who -> Notes]]
    BY DEF Init, Notes
  <2>3. DOMAIN ledger = {} /\ ledger \in [DOMAIN ledger -> [delivered : BOOLEAN, attempts : 1..PushAttempts]]
    BY DEF Init
  <2>4. inbox \in [TaskIds -> Seq(TaskEvents)]
    BY DEF Init
  <2>. QED BY <2>2, <2>3, <2>4 DEF Init, TaskTypeOK, States
<1>2. TaskTypeOK /\ [Next]_taskVars => TaskTypeOK'
  <2>. SUFFICES ASSUME TaskTypeOK, [Next]_taskVars PROVE TaskTypeOK'
    OBVIOUS
  <2>. USE DEF States, Terminal
  <2>1. ASSUME NEW t \in TaskIds, SendSync(t) PROVE TaskTypeOK'
    BY <2>1 DEF SendSync, TaskTypeOK
  <2>2. ASSUME NEW t \in TaskIds, SendAsync(t) PROVE TaskTypeOK'
    <3>1. DriverNotifies(t, "working", 1, "announce")
      BY <2>2 DEF SendAsync
    <3>2. "working" \in States /\ 1 \in Nat
      OBVIOUS
    <3>. QED BY <2>2, <3>1, <3>2, NotifiesTyped DEF SendAsync, TaskTypeOK
  <2>3. ASSUME NEW t \in TaskIds, Stream(t) PROVE TaskTypeOK'
    BY <2>3 DEF Stream, TaskTypeOK
  <2>4. ASSUME NEW t \in TaskIds, Cancel(t) PROVE TaskTypeOK'
    <3>1. driver' \in [TaskIds -> {"none", "announce", "sleep", "handler", "push", "over"}]
      BY <2>4 DEF Cancel, CancelledDriver, TaskTypeOK
    <3>2. note' \in [TaskIds -> [Who -> Notes]]
      <4>1. stamp[t] + 1 \in Nat /\ "canceled" \in States /\ "cancel" \in Who
        BY DEF TaskTypeOK, Who
      <4>2. CASE Announces(t, "canceled", stamp[t] + 1)
        <5>1. note' = [note EXCEPT ![t]["cancel"] = NoteOf(t, "canceled", stamp[t] + 1)]
          BY <2>4, <4>2 DEF Cancel
        <5>. QED BY <4>1, <4>2, <5>1, NoteTyped, OneNote
      <4>3. CASE ~Announces(t, "canceled", stamp[t] + 1)
        BY <2>4, <4>3 DEF Cancel, TaskTypeOK
      <4>. QED BY <4>2, <4>3
    <3>3. state' \in [TaskIds -> States] /\ stamp' \in [TaskIds -> Nat]
      BY <2>4 DEF Cancel, TaskTypeOK
    <3>4. UNCHANGED <<mode, jobs, ledger, up, inbox, shown, calls, dropped, crashes>>
      BY <2>4 DEF Cancel, watchVars
    <3>. QED BY <3>1, <3>2, <3>3, <3>4 DEF TaskTypeOK
  <2>5. ASSUME NEW t \in TaskIds, Begin(t) PROVE TaskTypeOK'
    <3>0. /\ driver' \in {[driver EXCEPT ![t] = "over"], [driver EXCEPT ![t] = "handler"]}
          /\ calls' \in {calls, [calls EXCEPT ![t] = @ + 1]}
      BY <2>5 DEF Begin
    <3>1. driver' \in [TaskIds -> {"none", "announce", "sleep", "handler", "push", "over"}]
      BY <3>0 DEF TaskTypeOK
    <3>2. calls' \in [TaskIds -> Nat]
      BY <3>0 DEF TaskTypeOK
    <3>. QED BY <2>5, <3>1, <3>2 DEF Begin, TaskTypeOK
  <2>6. ASSUME NEW t \in TaskIds, Complete(t) PROVE TaskTypeOK'
    <3>1. PICK s \in {"completed", "failed"} :
             /\ state' = [state EXCEPT ![t] = s]
             /\ DriverNotifies(t, s, stamp[t] + 1, "push")
      BY <2>6 DEF Complete
    <3>2. s \in States /\ stamp[t] + 1 \in Nat
      BY DEF TaskTypeOK
    <3>. QED BY <2>6, <3>1, <3>2, NotifiesTyped DEF Complete, TaskTypeOK
  <2>7. ASSUME NEW t \in TaskIds, NEW w \in Who, Post(t, w) PROVE TaskTypeOK'
    BY <2>7, PostTyped
  <2>8. ASSUME NEW t \in TaskIds, Drop(t) PROVE TaskTypeOK'
    <3>1. note' = [note EXCEPT ![t]["driver"] = NoNote] /\ "driver" \in Who /\ NoNote \in Notes
      BY <2>8 DEF Drop, Who, Notes
    <3>2. note' \in [TaskIds -> [Who -> Notes]]
      BY <3>1, OneNote
    <3>. QED BY <2>8, <3>2 DEF Drop, TaskTypeOK
  <2>9. CASE Crash
    <3>1. note' \in [TaskIds -> [Who -> Notes]]
      BY <2>9 DEF Crash, Notes
    <3>2. /\ driver' \in [TaskIds -> {"none", "announce", "sleep", "handler", "push", "over"}]
          /\ jobs' \subseteq TaskIds /\ up' \in BOOLEAN
      BY <2>9 DEF Crash, TaskTypeOK
    <3>4. crashes' \in 0..MaxCrashes
      BY <2>9 DEF Crash, TaskTypeOK
    <3>3. UNCHANGED <<state, stamp, mode, ledger, inbox, shown, calls, dropped>>
      BY <2>9 DEF Crash
    <3>. QED BY <3>1, <3>2, <3>3, <3>4 DEF TaskTypeOK
  <2>10. CASE Restart
    BY <2>10 DEF Restart, Open, TaskTypeOK, watchVars
  <2>11. CASE UNCHANGED taskVars
    BY <2>11 DEF taskVars, serverVars, watchVars, TaskTypeOK
  <2>12. "driver" \in Who /\ "cancel" \in Who
    BY DEF Who
  <2>. QED BY <2>1, <2>2, <2>3, <2>4, <2>5, <2>6, <2>7, <2>8, <2>9, <2>10, <2>11, <2>12
           DEF Next, Drive
<1>. QED BY <1>1, <1>2, PTL DEF Spec
-----------------------------------------------------------------------------
(* What the ends and the announcements rest on.                              *)

(* A task nobody asked for has left no trace.                                *)
AbsentIsIdle(t) ==
    state[t] = "absent" => /\ driver[t] = "none" /\ calls[t] = 0 /\ t \notin shown
                           /\ \A w \in Who : Idle(t, w)

(* A dead process runs nothing.                                              *)
DeadIsIdle(t) == ~up => driver[t] = "none" /\ t \notin jobs /\ \A w \in Who : Idle(t, w)

(* Outside a job only a stream sleeps, a handler runs for a stream or for a  *)
(* request whose task nobody knows yet, and a driver pushes where it waits.  *)
Placed(t) ==
    /\ t \notin jobs /\ driver[t] = "sleep" => mode[t] = "stream"
    /\ t \notin jobs /\ driver[t] = "handler" =>
          mode[t] = "stream" \/ (mode[t] = "sync" /\ t \notin shown)
    /\ ~Idle(t, "driver") => driver[t] \in {"announce", "push"}
    /\ ~Idle(t, "cancel") => t \in shown

(* Only a live stream's handler outlives the end of its task.                *)
HandlerStops(t) == Ended(t) /\ driver[t] = "handler" => Uncancellable(t)

(* The handler was called once, and once more for each restart.              *)
CallsCounted(t) ==
    /\ calls[t] <= 1 + crashes
    /\ driver[t] \in {"none", "announce", "sleep"} => calls[t] <= crashes

(* A push is of an event of its own task, the canceller's of the             *)
(* cancellation and the driver's of another; the ledger has its attempts.    *)
NotesAgree(t) ==
    \A w \in Who : ~Idle(t, w) =>
       LET ev == note[t][w].event
       IN  /\ ev[1] = t /\ (ev[2] = "canceled" <=> w = "cancel")
           /\ ~Row(ev).delivered /\ Row(ev).attempts = note[t][w].tries

(* The end of a task is settled or being pushed.                             *)
EndIsTold(t) ==
    t \in Called /\ crashes = 0 /\ t \notin dropped /\ Ended(t) =>
       \/ Settled(EventOf(t, state[t], stamp[t]))
       \/ \E w \in Who : note[t][w].event = EventOf(t, state[t], stamp[t])

(* The ledger claims no delivery that did not arrive.                        *)
DeliveriesArrived ==
    \A ev \in DOMAIN ledger : ledger[ev].delivered =>
       \E i \in 1..Len(inbox[ev[1]]) : inbox[ev[1]][i] = ev

Driven(t) == AbsentIsIdle(t) /\ DeadIsIdle(t) /\ Placed(t) /\ HandlerStops(t) /\ CallsCounted(t)

DriveInv == \A t \in TaskIds : Driven(t)

PushInv == (\A t \in TaskIds : NotesAgree(t) /\ EndIsTold(t)) /\ DeliveriesArrived

TaskInv == DriveInv /\ PushInv

(* What a task's drive depends on is what the task has of its own, the       *)
(* process and the number of its deaths.                                     *)
LEMMA DrivenElsewhere ==
    ASSUME NEW x \in TaskIds, Driven(x),
           state'[x] = state[x], driver'[x] = driver[x], mode'[x] = mode[x],
           calls'[x] = calls[x], note'[x] = note[x],
           x \in jobs' <=> x \in jobs, x \in shown' <=> x \in shown,
           UNCHANGED <<up, crashes>>
    PROVE  Driven(x)'
BY DEF Driven, AbsentIsIdle, DeadIsIdle, Placed, HandlerStops, CallsCounted, Idle, Ended, Uncancellable

(* Every step keeps the drive of every task in order.                        *)
LEMMA DrivenStands ==
    ASSUME TaskTypeOK, DriveInv, [Next]_taskVars, NEW x \in TaskIds
    PROVE  Driven(x)'
<1>. USE TaskConstants
<1>0. Driven(x)
  BY DEF DriveInv
<1>. DEFINE Here == /\ AbsentIsIdle(x) /\ DeadIsIdle(x) /\ Placed(x)
                    /\ HandlerStops(x) /\ CallsCounted(x)
<1>00. Here
  BY <1>0 DEF Driven
<1>1. ASSUME SendSync(x) PROVE Driven(x)'
  BY <1>00, <1>1 DEF SendSync, Fresh, TaskTypeOK, Driven, AbsentIsIdle, DeadIsIdle, Placed,
     HandlerStops, CallsCounted, Idle, Ended, Uncancellable, Terminal, Who
<1>2. ASSUME SendAsync(x) PROVE Driven(x)'
  <2>1. /\ Fresh(x) /\ state' = [state EXCEPT ![x] = "working"] /\ mode' = [mode EXCEPT ![x] = "async"]
        /\ DriverNotifies(x, "working", 1, "announce") /\ UNCHANGED <<up, calls, crashes>>
    BY <1>2 DEF SendAsync
  <2>2. "working" \in States /\ 1 \in Nat
    BY DEF States
  <2>3. /\ driver'[x] \in {"announce", "sleep"}
        /\ driver'[x] = "sleep" => x \in jobs'
        /\ ~Idle(x, "driver")' => driver'[x] = "announce"
        /\ note'[x]["cancel"] = note[x]["cancel"]
    BY <1>00, <2>1, <2>2, NotifiesShape DEF Fresh, AbsentIsIdle, Idle, After, TaskTypeOK, Who
  <2>. QED
    BY <1>00, <2>1, <2>3 DEF Fresh, TaskTypeOK, Driven, AbsentIsIdle, DeadIsIdle, Placed,
       HandlerStops, CallsCounted, Idle, Ended, Uncancellable, Terminal, Who
<1>3. ASSUME Stream(x) PROVE Driven(x)'
  BY <1>00, <1>3 DEF Stream, Fresh, TaskTypeOK, Driven, AbsentIsIdle, DeadIsIdle, Placed,
     HandlerStops, CallsCounted, Idle, Ended, Uncancellable, Terminal, Who
<1>4. ASSUME Cancel(x) PROVE Driven(x)'
  <2>1. /\ up /\ x \in shown /\ ~Ended(x) /\ state[x] # "absent"
        /\ state' = [state EXCEPT ![x] = "canceled"]
        /\ driver' = [driver EXCEPT ![x] = CancelledDriver(x)]
        /\ UNCHANGED <<mode, jobs, up, shown, calls, crashes>>
    BY <1>4 DEF Cancel, watchVars
  <2>2. note'[x]["driver"] = note[x]["driver"]
    BY <1>4, CancelShape DEF Who
  <2>3. driver'[x] = CancelledDriver(x)
    BY <2>1 DEF TaskTypeOK
  <2>. QED
    BY <1>00, <2>1, <2>2, <2>3 DEF CancelledDriver, TaskTypeOK, Driven, AbsentIsIdle, DeadIsIdle, Placed,
       HandlerStops, CallsCounted, Idle, Ended, Uncancellable, Terminal, Who
<1>5. ASSUME Begin(x) PROVE Driven(x)'
  BY <1>00, <1>5 DEF Begin, TaskTypeOK, Driven, AbsentIsIdle, DeadIsIdle, Placed,
     HandlerStops, CallsCounted, Idle, Ended, Uncancellable, Terminal, Who
<1>6. ASSUME Complete(x) PROVE Driven(x)'
  <2>1. PICK s \in {"completed", "failed"} :
           /\ state' = [state EXCEPT ![x] = s]
           /\ DriverNotifies(x, s, stamp[x] + 1, "push")
    BY <1>6 DEF Complete
  <2>2. s \in States /\ stamp[x] + 1 \in Nat
    BY DEF TaskTypeOK, States, Terminal
  <2>3. driver[x] = "handler" /\ UNCHANGED <<mode, up, calls, crashes>>
    BY <1>6 DEF Complete
  <2>4. /\ driver'[x] \in {"push", "over"} /\ UNCHANGED <<jobs, shown>>
        /\ ~Idle(x, "driver")' => driver'[x] = "push"
        /\ note'[x]["cancel"] = note[x]["cancel"]
    BY <1>00, <2>1, <2>2, <2>3, NotifiesShape DEF Placed, Idle, After, TaskTypeOK, Who
  <2>. QED
    BY <1>00, <2>1, <2>3, <2>4 DEF TaskTypeOK, Driven, AbsentIsIdle, DeadIsIdle, Placed,
       HandlerStops, CallsCounted, Idle, Ended, Uncancellable, Terminal, Who
<1>7. ASSUME NEW w \in Who, Post(x, w) PROVE Driven(x)'
  <2>1. PICK ev \in TaskEvents, n \in 1..PushAttempts, answer \in Answers :
           Attempt(x, w, ev, n, answer)
    BY <1>7, PostShape
  <2>2. ~Idle(x, w) /\ UNCHANGED <<state, mode, up, calls, crashes>>
    BY <1>7 DEF Post
  <2>3. \A y \in Who : y # w => note'[x][y] = note[x][y]
    <3>1. \A a \in TaskIds, y \in Who : a # x \/ y # w => note'[a][y] = note[a][y]
      <4>1. \E m : note' = [note EXCEPT ![x][w] = m]
        BY <2>1 DEF Attempt, NoteEnds
      <4>. QED BY <4>1 DEF TaskTypeOK
    <3>. QED BY <3>1
  <2>4. shown' \in {shown, shown \cup {x}}
    BY <2>1 DEF Attempt
  <2>5. CASE UNCHANGED <<driver, jobs>>
    BY <1>00, <2>2, <2>3, <2>4, <2>5 DEF TaskTypeOK, Driven, AbsentIsIdle, DeadIsIdle, Placed,
       HandlerStops, CallsCounted, Idle, Ended, Uncancellable, Terminal, Who
  <2>6. CASE w = "driver" /\ NoteEnds(x, w)
    <3>1. /\ driver' = [driver EXCEPT ![x] = After(driver[x])] /\ note'[x]["driver"] = NoNote
          /\ jobs' = IF driver[x] = "announce" THEN jobs \cup {x} ELSE jobs
      BY <2>6, OneNote DEF NoteEnds, Notes
    <3>. QED
      BY <1>00, <2>2, <2>3, <2>4, <2>6, <3>1 DEF After, TaskTypeOK, Driven, AbsentIsIdle, DeadIsIdle, Placed,
         HandlerStops, CallsCounted, Idle, Ended, Uncancellable, Terminal, Who
  <2>. QED BY <2>1, <2>5, <2>6 DEF Attempt, NoteEnds
<1>8. ASSUME Drop(x) PROVE Driven(x)'
  <2>1. note'[x]["driver"] = NoNote /\ note'[x]["cancel"] = note[x]["cancel"]
    <3>1. note' = [note EXCEPT ![x]["driver"] = NoNote] /\ NoNote \in Notes
      BY <1>8 DEF Drop, Notes
    <3>2. "driver" \in Who /\ "cancel" \in Who
      BY DEF Who
    <3>. QED BY <1>00, <3>1, <3>2, OneNote
  <2>2. /\ driver' = [driver EXCEPT ![x] = "over"] /\ x \notin jobs
        /\ UNCHANGED <<state, mode, jobs, up, shown, calls, crashes>>
        /\ driver[x] \in {"sleep", "handler", "push"}
    BY <1>8 DEF Drop
  <2>. QED
    BY <1>00, <2>1, <2>2 DEF TaskTypeOK, Driven, AbsentIsIdle, DeadIsIdle, Placed,
       HandlerStops, CallsCounted, Idle, Ended, Uncancellable, Terminal, Who
<1>9. CASE Crash
  BY <1>00, <1>9 DEF Crash, TaskTypeOK, Driven, AbsentIsIdle, DeadIsIdle, Placed,
     HandlerStops, CallsCounted, Idle, Ended, Uncancellable, Terminal, Who
<1>10. CASE Restart
  BY <1>00, <1>10 DEF Restart, Open, TaskTypeOK, watchVars, Driven, AbsentIsIdle, DeadIsIdle, Placed,
     HandlerStops, CallsCounted, Idle, Ended, Uncancellable, Terminal, Who
<1>11. CASE UNCHANGED taskVars
  BY <1>0, <1>11, DrivenElsewhere DEF taskVars, serverVars, watchVars
<1>12. ASSUME NEW t \in TaskIds, t # x,
             \/ SendSync(t) \/ SendAsync(t) \/ Stream(t) \/ Cancel(t) \/ Begin(t) \/ Complete(t)
             \/ Drop(t) \/ \E w \in Who : Post(t, w)
      PROVE  Driven(x)'
  <2>. SUFFICES /\ state'[x] = state[x] /\ driver'[x] = driver[x] /\ mode'[x] = mode[x]
                /\ calls'[x] = calls[x] /\ note'[x] = note[x]
                /\ (x \in jobs' <=> x \in jobs) /\ (x \in shown' <=> x \in shown)
                /\ UNCHANGED <<up, crashes>>
    BY <1>0, DrivenElsewhere
  <2>1. CASE SendSync(t)
    BY <1>12, <2>1 DEF SendSync, TaskTypeOK
  <2>2. CASE SendAsync(t)
    BY <1>12, <2>2 DEF SendAsync, DriverNotifies, TaskTypeOK
  <2>3. CASE Stream(t)
    BY <1>12, <2>3 DEF Stream, TaskTypeOK
  <2>4. CASE Cancel(t)
    BY <1>12, <2>4 DEF Cancel, watchVars, TaskTypeOK
  <2>5. CASE Begin(t)
    BY <1>12, <2>5 DEF Begin, TaskTypeOK
  <2>6. CASE Complete(t)
    BY <1>12, <2>6 DEF Complete, DriverNotifies, TaskTypeOK
  <2>7. CASE Drop(t)
    BY <1>12, <2>7 DEF Drop, TaskTypeOK
  <2>8. ASSUME NEW w \in Who, Post(t, w) PROVE
           /\ state'[x] = state[x] /\ driver'[x] = driver[x] /\ mode'[x] = mode[x]
           /\ calls'[x] = calls[x] /\ note'[x] = note[x]
           /\ (x \in jobs' <=> x \in jobs) /\ (x \in shown' <=> x \in shown)
           /\ UNCHANGED <<up, crashes>>
    BY <1>12, <2>8 DEF Post, NoteEnds, TaskTypeOK
  <2>. QED BY <1>12, <2>1, <2>2, <2>3, <2>4, <2>5, <2>6, <2>7, <2>8
<1>. QED
  BY <1>1, <1>2, <1>3, <1>4, <1>5, <1>6, <1>7, <1>8, <1>9, <1>10, <1>11, <1>12 DEF Next, Drive, Who

(* The drive of every task is in order in every reachable state.             *)
LEMMA DriveInvHolds == Spec => []DriveInv
<1>. USE TaskConstants
<1>1. Init => DriveInv
  BY DEF Init, DriveInv, Driven, AbsentIsIdle, DeadIsIdle, Placed,
         HandlerStops, CallsCounted, Idle, Ended, Uncancellable, Terminal, Who
<1>2. TaskTypeOK /\ DriveInv /\ [Next]_taskVars => DriveInv'
  BY DrivenStands DEF DriveInv
<1>. QED BY <1>1, <1>2, TasksTyped, PTL DEF Spec

(* What an end keeps and a call needs, step by step.                         *)
LEMMA EndStep ==
    ASSUME TaskTypeOK, DriveInv, Next, NEW t \in TaskIds
    PROVE  /\ Ended(t) /\ ~Uncancellable(t) => state'[t] = state[t]
           /\ calls'[t] > calls[t] => ~Ended(t) /\ calls'[t] <= 1 + crashes
<1>. USE TaskConstants
<1>0. /\ HandlerStops(t) /\ calls[t] \in Nat /\ crashes \in Nat
      /\ state[t] = "absent" => calls[t] = 0
      /\ driver[t] = "sleep" => calls[t] <= crashes
  BY DEF DriveInv, Driven, AbsentIsIdle, CallsCounted, TaskTypeOK
<1>1. /\ Ended(t) /\ ~Uncancellable(t) => state'[t] = state[t]
  <2>1. ASSUME NEW x \in TaskIds, SendSync(x) \/ SendAsync(x) \/ Stream(x)
        PROVE  Ended(t) => state'[t] = state[t]
    BY <2>1 DEF SendSync, SendAsync, Stream, Open, Fresh, Ended, Terminal, TaskTypeOK
  <2>2. ASSUME NEW x \in TaskIds, Complete(x)
        PROVE  Ended(t) /\ ~Uncancellable(t) => state'[t] = state[t]
    BY <1>0, <2>2 DEF Complete, HandlerStops, TaskTypeOK
  <2>3. ASSUME NEW x \in TaskIds, Cancel(x) PROVE Ended(t) => state'[t] = state[t]
    BY <2>3 DEF Cancel, Ended, TaskTypeOK
  <2>4. ASSUME NEW x \in TaskIds, NEW w, Begin(x) \/ Post(x, w) \/ Drop(x) PROVE UNCHANGED state
    BY <2>4 DEF Begin, Post, Drop
  <2>5. ASSUME Crash \/ Restart PROVE Ended(t) => state'[t] = state[t]
    BY <2>5 DEF Crash, Restart, Open, Ended, TaskTypeOK
  <2>. QED BY <2>1, <2>2, <2>3, <2>4, <2>5 DEF Next, Drive
<1>2. calls'[t] > calls[t] => ~Ended(t) /\ calls'[t] <= 1 + crashes
  <2>1. CASE UNCHANGED calls
    BY <1>0, <2>1
  <2>2. ASSUME NEW x \in TaskIds, SendSync(x)
        PROVE  calls'[t] > calls[t] => ~Ended(t) /\ calls'[t] <= 1 + crashes
    BY <1>0, <2>2 DEF SendSync, Fresh, Ended, Terminal, TaskTypeOK
  <2>3. ASSUME NEW x \in TaskIds, Begin(x)
        PROVE  calls'[t] > calls[t] => ~Ended(t) /\ calls'[t] <= 1 + crashes
    <3>1. CASE Ended(x)
      BY <1>0, <2>3, <3>1 DEF Begin
    <3>2. CASE ~Ended(x)
      <4>1. driver[x] = "sleep" /\ calls' = [calls EXCEPT ![x] = @ + 1]
        BY <2>3, <3>2 DEF Begin
      <4>. QED BY <1>0, <3>2, <4>1 DEF TaskTypeOK
    <3>. QED BY <3>1, <3>2
  <2>. QED
    BY <2>1, <2>2, <2>3 DEF Next, Drive, SendAsync, Stream, Cancel, Complete, Post, Drop, Crash,
       Restart, watchVars
<1>. QED BY <1>1, <1>2

(* An end stands: a step of a reachable state changes the state of an ended  *)
(* task only under a live stream's handler, and calls a handler only for a   *)
(* task that did not end, once and once more for each restart.               *)
THEOREM EndsAlwaysStand == Spec => EndStands
<1>. DEFINE Stands == \A t \in TaskIds :
               /\ Ended(t) /\ ~Uncancellable(t) => state'[t] = state[t]
               /\ calls'[t] > calls[t] => ~Ended(t) /\ calls'[t] <= 1 + crashes
<1>1. TaskTypeOK /\ DriveInv /\ [Next]_taskVars => [Stands]_taskVars
  BY EndStep
<1>2. Spec => [][Stands]_taskVars
  BY <1>1, TasksTyped, DriveInvHolds, PTL DEF Spec
<1>. QED BY <1>2 DEF EndStands

(* A settled event stays settled: an attempt is only made for one that is    *)
(* not, and leaves every other row as it was.                                *)
LEMMA PostedRows ==
    ASSUME TaskTypeOK, NEW t \in TaskIds, NEW w \in Who, NotesAgree(t), Post(t, w)
    PROVE  \E ev \in TaskEvents, n \in 1..PushAttempts, answer \in Answers :
              /\ Attempt(t, w, ev, n, answer)
              /\ ev[1] = t /\ (ev[2] = "canceled" <=> w = "cancel") /\ ~Settled(ev)
              /\ (Row(ev)'.delivered <=> answer = "taken") /\ Row(ev)'.attempts = n
              /\ \A other : other # ev => Row(other)' = Row(other)
<1>1. PICK ev \in TaskEvents, n \in 1..PushAttempts, answer \in Answers :
         Attempt(t, w, ev, n, answer)
  BY PostShape
<1>2. ev[1] = t /\ (ev[2] = "canceled" <=> w = "cancel") /\ ~Row(ev).delivered
      /\ Row(ev).attempts = note[t][w].tries
  BY <1>1 DEF Attempt, NotesAgree, Post
<1>3. ~Settled(ev)
  <2>1. note[t][w].tries \in 0..(PushAttempts - 1)
    BY BusyNote DEF Post
  <2>. QED BY <1>2, <2>1, TaskConstants DEF Settled
<1>4. [delivered |-> answer = "taken", attempts |-> n] \in
         [delivered : BOOLEAN, attempts : 1..PushAttempts]
  OBVIOUS
<1>5. /\ Row(ev)' = [delivered |-> answer = "taken", attempts |-> n]
      /\ \A other : other # ev => Row(other)' = Row(other)
  BY <1>1, <1>4, RecordedRow DEF Attempt
<1>6. (Row(ev)'.delivered <=> answer = "taken") /\ Row(ev)'.attempts = n
  <2>. DEFINE row == Row(ev)'
  <2>1. row = [delivered |-> answer = "taken", attempts |-> n]
    BY <1>5
  <2>. HIDE DEF row
  <2>2. (row.delivered <=> answer = "taken") /\ row.attempts = n
    BY <2>1
  <2>. QED BY <2>2 DEF row
<1>. QED BY <1>1, <1>2, <1>3, <1>5, <1>6

(* Every step keeps the notes in agreement with the ledger.                  *)
LEMMA NotesAgreeStands ==
    ASSUME TaskTypeOK, DriveInv, PushInv, [Next]_taskVars, NEW x \in TaskIds
    PROVE  NotesAgree(x)'
<1>. USE TaskConstants
<1>1. NotesAgree(x)
  BY DEF PushInv
<1>2. ASSUME UNCHANGED ledger, \A w \in Who : note'[x][w] \in {note[x][w], NoNote}
      PROVE  NotesAgree(x)'
  BY <1>1, <1>2 DEF NotesAgree, Idle, Row
<1>3. ASSUME NEW s \in States \ {"canceled"}, NEW n \in Nat, NEW phase \in {"announce", "push"},
             NEW t \in TaskIds, DriverNotifies(t, s, n, phase), UNCHANGED ledger
      PROVE  NotesAgree(x)'
  <2>1. CASE Announces(t, s, n) /\ x = t
    <3>1. /\ note'[x]["driver"] = NoteOf(t, s, n) /\ note'[x]["cancel"] = note[x]["cancel"]
      BY <1>3, <2>1, NotifiesShape DEF Who
    <3>2. /\ NoteOf(t, s, n).event = <<t, s, n>>
          /\ NoteOf(t, s, n).tries = Row(<<t, s, n>>).attempts
          /\ ~Row(<<t, s, n>>).delivered
      BY <2>1, NoteTyped
    <3>. QED BY <1>1, <1>3, <2>1, <3>1, <3>2 DEF NotesAgree, Idle, Row, Who
  <2>2. CASE ~(Announces(t, s, n) /\ x = t)
    <3>1. \A w \in Who : note'[x][w] = note[x][w]
      BY <1>3, <2>2, NotifiesShape DEF Who
    <3>. QED BY <1>2, <1>3, <3>1
  <2>. QED BY <2>1, <2>2
<1>4. ASSUME NEW t \in TaskIds, SendAsync(t) PROVE NotesAgree(x)'
  <2>1. "working" \in States \ {"canceled"} /\ 1 \in Nat
    BY DEF States
  <2>. QED BY <1>3, <1>4, <2>1 DEF SendAsync
<1>5. ASSUME NEW t \in TaskIds, Complete(t) PROVE NotesAgree(x)'
  <2>1. PICK s \in {"completed", "failed"} : DriverNotifies(t, s, stamp[t] + 1, "push")
    BY <1>5 DEF Complete
  <2>2. s \in States \ {"canceled"} /\ stamp[t] + 1 \in Nat
    BY DEF States, Terminal, TaskTypeOK
  <2>. QED BY <1>3, <1>5, <2>1, <2>2 DEF Complete
<1>6. ASSUME NEW t \in TaskIds, Cancel(t) PROVE NotesAgree(x)'
  <2>1. stamp[t] + 1 \in Nat /\ "canceled" \in States
    BY DEF States, Terminal, TaskTypeOK
  <2>2. CASE Announces(t, "canceled", stamp[t] + 1) /\ x = t
    <3>. DEFINE n == stamp[t] + 1
    <3>1. /\ note'[x]["cancel"] = NoteOf(t, "canceled", n)
          /\ note'[x]["driver"] = note[x]["driver"]
      BY <1>6, <2>2, CancelShape DEF Who
    <3>2. /\ NoteOf(t, "canceled", n).event = <<t, "canceled", n>>
          /\ NoteOf(t, "canceled", n).tries = Row(<<t, "canceled", n>>).attempts
          /\ ~Row(<<t, "canceled", n>>).delivered
      BY <2>1, <2>2, NoteTyped
    <3>3. UNCHANGED ledger
      BY <1>6 DEF Cancel
    <3>. HIDE DEF n
    <3>. QED BY <1>1, <2>2, <3>1, <3>2, <3>3 DEF NotesAgree, Idle, Row, Who
  <2>3. CASE ~(Announces(t, "canceled", stamp[t] + 1) /\ x = t)
    <3>1. \A w \in Who : note'[x][w] = note[x][w]
      BY <1>6, <2>3, CancelShape DEF Who
    <3>. QED BY <1>2, <1>6, <3>1 DEF Cancel
  <2>. QED BY <2>2, <2>3
<1>7. ASSUME NEW t \in TaskIds, NEW w \in Who, Post(t, w) PROVE NotesAgree(x)'
  <2>0. NotesAgree(t)
    BY DEF PushInv
  <2>1. PICK ev \in TaskEvents, n \in 1..PushAttempts, answer \in Answers :
           /\ Attempt(t, w, ev, n, answer)
           /\ ev[1] = t /\ (ev[2] = "canceled" <=> w = "cancel")
           /\ (Row(ev)'.delivered <=> answer = "taken") /\ Row(ev)'.attempts = n
           /\ \A other : other # ev => Row(other)' = Row(other)
    BY <1>7, <2>0, PostedRows
  <2>2. /\ \A y \in TaskIds, v \in Who : y # t \/ v # w => note'[y][v] = note[y][v]
        /\ note'[t][w] = IF answer = "taken" \/ n = PushAttempts THEN NoNote
                         ELSE [event |-> ev, tries |-> n]
    BY <2>1, PostNote
  <2>. SUFFICES ASSUME NEW v \in Who, NEW e, note'[x][v] # NoNote, e = note'[x][v].event
                PROVE  /\ e[1] = x /\ (e[2] = "canceled" <=> v = "cancel")
                       /\ ~Row(e)'.delivered /\ Row(e)'.attempts = note'[x][v].tries
    BY DEF NotesAgree, Idle, Row
  <2>3. CASE x = t /\ v = w
    <3>1. note'[x][v] = [event |-> ev, tries |-> n] /\ answer # "taken"
      BY <2>2, <2>3
    <3>2. e = ev /\ note'[x][v].tries = n
      BY <3>1
    <3>. QED BY <2>1, <2>3, <3>1, <3>2
  <2>4. CASE ~(x = t /\ v = w)
    <3>1. note'[x][v] = note[x][v]
      BY <2>2, <2>4
    <3>2. /\ e[1] = x /\ (e[2] = "canceled" <=> v = "cancel")
          /\ ~Row(e).delivered /\ Row(e).attempts = note[x][v].tries
      BY <1>1, <3>1 DEF NotesAgree, Idle
    <3>3. e # ev
      BY <2>1, <2>4, <3>2 DEF Who
    <3>. QED BY <2>1, <3>1, <3>2, <3>3
  <2>. QED BY <2>3, <2>4
<1>8. ASSUME NEW t \in TaskIds, Drop(t) PROVE NotesAgree(x)'
  <2>1. note' = [note EXCEPT ![t]["driver"] = NoNote] /\ "driver" \in Who /\ NoNote \in Notes
    BY <1>8 DEF Drop, Who, Notes
  <2>2. \A w \in Who : note'[x][w] \in {note[x][w], NoNote}
    BY <2>1, OneNote
  <2>. QED BY <1>2, <1>8, <2>2 DEF Drop
<1>9. CASE Crash
  BY <1>2, <1>9 DEF Crash
<1>10. ASSUME UNCHANGED <<note, ledger>> PROVE NotesAgree(x)'
  BY <1>2, <1>10
<1>. QED
  BY <1>4, <1>5, <1>6, <1>7, <1>8, <1>9, <1>10
     DEF Next, Drive, Who, SendSync, Stream, Begin, Restart, taskVars, serverVars

(* Who is not told of an end need not be, or is told already.                *)
LEMMA UnannouncedIsSettled ==
    ASSUME TaskTypeOK, NEW t \in Called, NEW s, NEW n, ~Announces(t, s, n)
    PROVE  Settled(EventOf(t, s, n))
BY RowTyped, TaskConstants DEF Announces, Settled

(* Every step keeps the ends told.                                           *)
LEMMA EndIsToldStands ==
    ASSUME TaskTypeOK, PushInv, [Next]_taskVars, NEW x \in TaskIds
    PROVE  EndIsTold(x)'
<1>. USE TaskConstants
<1>. SUFFICES ASSUME x \in Called, crashes' = 0, x \notin dropped', state'[x] \in Terminal
              PROVE  \/ Settled(EventOf(x, state[x], stamp[x]))'
                     \/ \E w \in Who : note'[x][w].event = EventOf(x, state'[x], stamp'[x])
  BY DEF EndIsTold, Ended, EventOf
<1>1. EndIsTold(x)
  BY DEF PushInv
<1>2. ASSUME state'[x] = state[x], stamp'[x] = stamp[x], UNCHANGED <<ledger, crashes>>,
             x \notin dropped, note'[x] = note[x]
      PROVE  \/ Settled(EventOf(x, state[x], stamp[x]))'
             \/ \E w \in Who : note'[x][w].event = EventOf(x, state'[x], stamp'[x])
  BY <1>1, <1>2 DEF EndIsTold, Settled, Row, Ended, EventOf
<1>3. ASSUME NEW s \in States, NEW n \in Nat, state'[x] = s, stamp'[x] = n, UNCHANGED ledger,
             Announces(x, s, n) => \E w \in Who : note'[x][w] = NoteOf(x, s, n)
      PROVE  \/ Settled(EventOf(x, state[x], stamp[x]))'
             \/ \E w \in Who : note'[x][w].event = EventOf(x, state'[x], stamp'[x])
  <2>1. CASE Announces(x, s, n)
    <3>1. NoteOf(x, s, n).event = EventOf(x, s, n)
      BY DEF NoteOf
    <3>. QED BY <1>3, <2>1, <3>1
  <2>2. CASE ~Announces(x, s, n)
    <3>1. Settled(EventOf(x, s, n))
      BY <2>2, UnannouncedIsSettled
    <3>. QED BY <1>3, <3>1 DEF Settled, Row, EventOf
  <2>. QED BY <2>1, <2>2
<1>4. ASSUME NEW t \in TaskIds, Complete(t)
      PROVE  \/ Settled(EventOf(x, state[x], stamp[x]))'
             \/ \E w \in Who : note'[x][w].event = EventOf(x, state'[x], stamp'[x])
  <2>1. PICK s \in {"completed", "failed"} :
           /\ state' = [state EXCEPT ![t] = s]
           /\ DriverNotifies(t, s, stamp[t] + 1, "push")
    BY <1>4 DEF Complete
  <2>2. s \in States /\ stamp[t] + 1 \in Nat
    BY DEF States, Terminal, TaskTypeOK
  <2>3. UNCHANGED <<ledger, crashes, dropped>> /\ stamp' = [stamp EXCEPT ![t] = @ + 1]
    BY <1>4 DEF Complete
  <2>4. CASE t = x
    <3>1. state'[x] = s /\ stamp'[x] = stamp[t] + 1
      BY <2>1, <2>3, <2>4 DEF TaskTypeOK
    <3>2. Announces(x, s, stamp[t] + 1) =>
             \E w \in Who : note'[x][w] = NoteOf(x, s, stamp[t] + 1)
      BY <2>1, <2>2, <2>4, NotifiesShape DEF Who
    <3>. QED BY <1>3, <2>2, <2>3, <3>1, <3>2
  <2>5. CASE t # x
    <3>1. note'[x] = note[x]
      BY <2>1, <2>5 DEF DriverNotifies, TaskTypeOK
    <3>2. state'[x] = state[x] /\ stamp'[x] = stamp[x]
      BY <2>1, <2>3, <2>5 DEF TaskTypeOK
    <3>. QED BY <1>2, <2>3, <3>1, <3>2
  <2>. QED BY <2>4, <2>5
<1>5. ASSUME NEW t \in TaskIds, Cancel(t)
      PROVE  \/ Settled(EventOf(x, state[x], stamp[x]))'
             \/ \E w \in Who : note'[x][w].event = EventOf(x, state'[x], stamp'[x])
  <2>1. /\ UNCHANGED <<ledger, crashes, dropped>> /\ stamp' = [stamp EXCEPT ![t] = @ + 1]
        /\ state' = [state EXCEPT ![t] = "canceled"]
    BY <1>5 DEF Cancel, watchVars
  <2>2. "canceled" \in States /\ stamp[t] + 1 \in Nat
    BY DEF States, Terminal, TaskTypeOK
  <2>3. CASE t = x
    <3>1. state'[x] = "canceled" /\ stamp'[x] = stamp[t] + 1
      BY <2>1, <2>3 DEF TaskTypeOK
    <3>2. Announces(x, "canceled", stamp[t] + 1) =>
             \E w \in Who : note'[x][w] = NoteOf(x, "canceled", stamp[t] + 1)
      BY <1>5, <2>3, CancelShape DEF Who
    <3>. QED BY <1>3, <2>1, <2>2, <3>1, <3>2
  <2>4. CASE t # x
    <3>1. note'[x] = note[x] /\ state'[x] = state[x] /\ stamp'[x] = stamp[x]
      BY <1>5, <2>1, <2>4 DEF Cancel, TaskTypeOK
    <3>. QED BY <1>2, <2>1, <3>1
  <2>. QED BY <2>3, <2>4
<1>6. ASSUME NEW t \in TaskIds, NEW w \in Who, Post(t, w)
      PROVE  \/ Settled(EventOf(x, state[x], stamp[x]))'
             \/ \E v \in Who : note'[x][v].event = EventOf(x, state'[x], stamp'[x])
  <2>0. NotesAgree(t)
    BY DEF PushInv
  <2>1. PICK ev \in TaskEvents, n \in 1..PushAttempts, answer \in Answers :
           /\ Attempt(t, w, ev, n, answer) /\ ev[1] = t
           /\ (Row(ev)'.delivered <=> answer = "taken") /\ Row(ev)'.attempts = n
           /\ \A other : other # ev => Row(other)' = Row(other)
    BY <1>6, <2>0, PostedRows
  <2>2. /\ \A y \in TaskIds, v \in Who : y # t \/ v # w => note'[y][v] = note[y][v]
        /\ note'[t][w] = IF answer = "taken" \/ n = PushAttempts THEN NoNote
                         ELSE [event |-> ev, tries |-> n]
    BY <2>1, PostNote
  <2>3. UNCHANGED <<state, stamp, crashes, dropped>>
    BY <1>6 DEF Post
  <2>. SUFFICES ASSUME NEW end, end = EventOf(x, state[x], stamp[x])
                PROVE  Settled(end)' \/ \E v \in Who : note'[x][v].event = end
    BY <2>3 DEF Settled, Row, EventOf
  <2>4. Settled(end) \/ \E v \in Who : note[x][v].event = end
    BY <1>1, <2>3 DEF EndIsTold, Ended
  <2>5. CASE end = ev
    <3>1. t = x
      BY <2>1, <2>5 DEF EventOf
    <3>2. CASE answer = "taken" \/ n = PushAttempts
      BY <2>1, <2>5, <3>2 DEF Settled
    <3>3. CASE ~(answer = "taken" \/ n = PushAttempts)
      BY <2>2, <2>5, <3>1, <3>3
    <3>. QED BY <3>2, <3>3
  <2>6. CASE end # ev
    <3>1. Settled(end) => Settled(end)'
      BY <2>1, <2>6 DEF Settled
    <3>2. ASSUME NEW v \in Who, note[x][v].event = end PROVE note'[x][v].event = end
      BY <2>1, <2>2, <2>6, <3>2 DEF Attempt
    <3>. QED BY <2>4, <3>1, <3>2
  <2>. QED BY <2>5, <2>6
<1>7. ASSUME NEW t \in TaskIds, Drop(t)
      PROVE  \/ Settled(EventOf(x, state[x], stamp[x]))'
             \/ \E w \in Who : note'[x][w].event = EventOf(x, state'[x], stamp'[x])
  <2>1. t # x /\ x \notin dropped
    BY <1>7 DEF Drop
  <2>2. note'[x] = note[x]
    BY <1>7, <2>1 DEF Drop, TaskTypeOK
  <2>. QED BY <1>2, <1>7, <2>1, <2>2 DEF Drop
<1>8. CASE Crash
  BY <1>8 DEF Crash, TaskTypeOK
<1>9. CASE Restart
  BY <1>9, <1>2 DEF Restart, Open, Terminal, TaskTypeOK, watchVars
<1>10. ASSUME NEW t \in TaskIds, SendSync(t) \/ SendAsync(t) \/ Stream(t)
      PROVE  \/ Settled(EventOf(x, state[x], stamp[x]))'
             \/ \E w \in Who : note'[x][w].event = EventOf(x, state'[x], stamp'[x])
  <2>1. t # x
    BY <1>10 DEF SendSync, SendAsync, Stream, Terminal, TaskTypeOK
  <2>2. /\ state'[x] = state[x] /\ stamp'[x] = stamp[x]
        /\ UNCHANGED <<ledger, crashes, dropped>>
    BY <1>10, <2>1 DEF SendSync, SendAsync, Stream, TaskTypeOK
  <2>3. note'[x] = note[x]
    BY <1>10, <2>1 DEF SendSync, SendAsync, Stream, DriverNotifies, TaskTypeOK
  <2>. QED BY <1>2, <2>2, <2>3
<1>11. CASE UNCHANGED taskVars
  BY <1>2, <1>11 DEF taskVars, serverVars, watchVars
<1>12. ASSUME NEW t \in TaskIds, Begin(t)
      PROVE  \/ Settled(EventOf(x, state[x], stamp[x]))'
             \/ \E w \in Who : note'[x][w].event = EventOf(x, state'[x], stamp'[x])
  BY <1>2, <1>12 DEF Begin
<1>. QED
  BY <1>4, <1>5, <1>6, <1>7, <1>8, <1>9, <1>10, <1>11, <1>12 DEF Next, Drive, Who

(* Every step keeps the deliveries of the ledger among those that arrived.   *)
LEMMA DeliveriesStand ==
    ASSUME TaskTypeOK, PushInv, [Next]_taskVars
    PROVE  DeliveriesArrived'
<1>. USE TaskConstants
<1>1. CASE UNCHANGED <<ledger, inbox>>
  BY <1>1 DEF PushInv, DeliveriesArrived
<1>2. ASSUME NEW t \in TaskIds, NEW w \in Who, Post(t, w) PROVE DeliveriesArrived'
  <2>0. NotesAgree(t)
    BY DEF PushInv
  <2>1. PICK ev \in TaskEvents, n \in 1..PushAttempts, answer \in Answers :
           Attempt(t, w, ev, n, answer) /\ ev[1] = t
    BY <1>2, <2>0, PostedRows
  <2>. SUFFICES ASSUME NEW e \in DOMAIN ledger', ledger'[e].delivered
                PROVE  \E i \in 1..Len(inbox'[e[1]]) : inbox'[e[1]][i] = e
    BY DEF DeliveriesArrived
  <2>2. /\ inbox' = IF answer # "refused" THEN [inbox EXCEPT ![t] = Append(@, ev)] ELSE inbox
        /\ ledger' = Recorded(ev, [delivered |-> answer = "taken", attempts |-> n])
    BY <2>1 DEF Attempt
  <2>3. inbox[t] \in Seq(TaskEvents) /\ inbox \in [TaskIds -> Seq(TaskEvents)]
    BY DEF TaskTypeOK
  <2>4. CASE e = ev
    <3>1. answer = "taken"
      BY <2>2, <2>4 DEF Recorded
    <3>2. inbox'[t] = Append(inbox[t], ev)
      BY <2>2, <2>3, <3>1
    <3>3. Len(inbox'[t]) \in 1..Len(inbox'[t]) /\ inbox'[t][Len(inbox'[t])] = ev
      BY <2>3, <3>2, AppendProperties, LenProperties
    <3>. QED BY <2>1, <2>4, <3>3
  <2>5. CASE e # ev
    <3>1. e \in DOMAIN ledger /\ ledger[e].delivered
      BY <2>2, <2>5 DEF Recorded
    <3>2. e[1] \in TaskIds
      BY <3>1, EventIsNoNote DEF TaskTypeOK
    <3>3. PICK i \in 1..Len(inbox[e[1]]) : inbox[e[1]][i] = e
      BY <3>1 DEF PushInv, DeliveriesArrived
    <3>4. CASE inbox'[e[1]] = inbox[e[1]]
      BY <3>3, <3>4
    <3>5. CASE e[1] = t /\ inbox'[t] = Append(inbox[t], ev)
      <4>1. i \in 1..Len(inbox'[t]) /\ inbox'[t][i] = inbox[t][i]
        BY <2>3, <3>3, <3>5, AppendProperties, LenProperties
      <4>. QED BY <3>3, <3>5, <4>1
    <3>. QED BY <2>2, <2>3, <3>2, <3>4, <3>5
  <2>. QED BY <2>4, <2>5
<1>. QED
  BY <1>1, <1>2 DEF Next, Drive, Who, SendSync, SendAsync, Stream, Cancel, Begin, Complete, Drop, Crash,
     Restart, taskVars, serverVars, watchVars

(* The pushes of every task are in order in every reachable state.           *)
LEMMA PushInvHolds == Spec => []PushInv
<1>. USE TaskConstants
<1>1. Init => PushInv
  BY DEF Init, PushInv, NotesAgree, EndIsTold, DeliveriesArrived, Idle, Ended, Terminal
<1>2. TaskTypeOK /\ DriveInv /\ PushInv /\ [Next]_taskVars => PushInv'
  BY NotesAgreeStands, EndIsToldStands, DeliveriesStand DEF PushInv
<1>. QED BY <1>1, <1>2, TasksTyped, DriveInvHolds, PTL DEF Spec

(* A callback is told how its task ended, or has used up its attempts,       *)
(* before the coroutines of the task fall silent, while the server lives;    *)
(* and what the ledger calls delivered did arrive.                           *)
THEOREM EndsAlwaysAnnounced == Spec => []EndAnnounced
<1>1. TaskTypeOK /\ PushInv => EndAnnounced
  <2>. SUFFICES ASSUME TaskTypeOK, PushInv PROVE EndAnnounced
    OBVIOUS
  <2>1. ASSUME NEW t \in Called, crashes = 0, t \notin dropped, Ended(t),
               Idle(t, "driver"), Idle(t, "cancel")
        PROVE  Settled(EventOf(t, state[t], stamp[t]))
    <3>1. EndIsTold(t) /\ t \in TaskIds
      BY TaskConstants DEF PushInv
    <3>2. \A w \in Who : note[t][w].event = <<>>
      BY <2>1 DEF Who, Idle, NoNote
    <3>3. EventOf(t, state[t], stamp[t]) \in TaskEvents
      BY <3>1 DEF EventOf, TaskEvents, TaskTypeOK
    <3>. QED BY <2>1, <3>1, <3>2, <3>3, EventIsNoNote DEF EndIsTold
  <2>. QED BY <2>1 DEF PushInv, DeliveriesArrived, EndAnnounced
<1>. QED BY <1>1, TasksTyped, PushInvHolds, PTL
-----------------------------------------------------------------------------
(* Every step of the bridge is a step of the task server, or none.           *)
LEMMA BridgeStepIsTaskStep == [BridgeNext]_a2aVars => [Next]_taskVars
<1>1. CASE ServerStep
  BY <1>1 DEF ServerStep, Next
<1>2. CASE ServerCrash
  BY <1>2 DEF ServerCrash, Next
<1>3. ASSUME NEW n \in Nodes, Dispatch(n) PROVE Next
  BY <1>3, BridgeConstants DEF Dispatch, Next
<1>4. ASSUME NEW n \in Nodes, CancelNode(n) PROVE Next
  BY <1>4, BridgeConstants DEF CancelNode, Next
<1>5. ASSUME NEW n \in Nodes, BridgeStep(n) \/ RunNode(n) \/ CancelPatch(n) \/ Dies(n) PROVE UNCHANGED taskVars
  BY <1>5 DEF BridgeStep, Started, Watched, RunNode, CancelPatch, Dies
<1>6. CASE UNCHANGED a2aVars
  BY <1>6 DEF a2aVars
<1>. QED BY <1>1, <1>2, <1>3, <1>4, <1>5, <1>6 DEF BridgeNext

(* A task server that graph nodes wait for is a task server: what holds of   *)
(* the one holds of the other.                                               *)
THEOREM BridgeImplementsTask == BridgeSpec => Spec
<1>1. BridgeInit => Init
  BY DEF BridgeInit
<1>. QED BY <1>1, BridgeStepIsTaskStep, PTL DEF BridgeSpec, Spec

(* The ends stand and the callbacks are told while graph nodes wait, too.    *)
THEOREM EndsStandInBridge == BridgeSpec => EndStands /\ []EndAnnounced
BY BridgeImplementsTask, EndsAlwaysStand, EndsAlwaysAnnounced, PTL

(* What the finality of a result rests on: a node's task is never a stream,  *)
(* the one kind of task whose end may be overwritten.                        *)
BridgeInv ==
    /\ node \in [Nodes -> {"waiting", "pending", "succeeded", "failed", "cancelled"}]
    /\ result \in [Nodes -> States \cup {"none"}]
    /\ deaths \in Nat
    /\ \A n \in Nodes : mode[n] # "stream"
    /\ ResultIsFinal

(* A step of the task server leaves what the graph knows true.               *)
LEMMA FinalElsewhere ==
    ASSUME TaskTypeOK, DriveInv, BridgeInv, Next, UNCHANGED <<node, result, told, deaths>>,
           \A n \in Nodes : mode'[n] # "stream"
    PROVE  BridgeInv'
<1>1. ASSUME NEW n \in Nodes, result[n] # "none" PROVE state'[n] = state[n]
  <2>1. Ended(n) /\ ~Uncancellable(n) /\ n \in TaskIds
    BY <1>1, BridgeConstants DEF BridgeInv, ResultIsFinal, Uncancellable
  <2>. QED BY <2>1, EndStep
<1>. QED BY <1>1 DEF BridgeInv, ResultIsFinal, Ended

(* Every step keeps what the graph knows true.                               *)
LEMMA BridgeInvStands ==
    ASSUME TaskTypeOK, DriveInv, BridgeInv, [BridgeNext]_a2aVars
    PROVE  BridgeInv'
<1>. USE BridgeConstants
<1>1. CASE ServerStep
  <2>1. ASSUME NEW n \in Nodes PROVE mode'[n] # "stream"
    BY <1>1 DEF ServerStep, SendSync, SendAsync, Stream, Cancel, Drive, Begin, Complete, Post, Drop,
       Restart, BridgeInv, TaskTypeOK
  <2>. QED BY <1>1, <2>1, FinalElsewhere DEF ServerStep, bridgeVars, Next
<1>2. CASE ServerCrash
  BY <1>2, FinalElsewhere DEF ServerCrash, Crash, Next, BridgeInv
<1>3. ASSUME NEW n \in Nodes, Dispatch(n) PROVE BridgeInv'
  <2>1. \A m \in Nodes : mode'[m] # "stream"
    BY <1>3 DEF Dispatch, SendSync, SendAsync, BridgeInv, TaskTypeOK
  <2>. QED BY <1>3, <2>1, FinalElsewhere DEF Dispatch, Next
<1>4. ASSUME NEW n \in Nodes, CancelNode(n) PROVE BridgeInv'
  BY <1>4, FinalElsewhere DEF CancelNode, Cancel, bridgeVars, Next, BridgeInv
<1>5. ASSUME NEW n \in Nodes, Started(n) PROVE BridgeInv'
  BY <1>5 DEF Started, taskVars, serverVars, BridgeInv, ResultIsFinal, Ended
<1>6. ASSUME NEW n \in Nodes, Watched(n) PROVE BridgeInv'
  BY <1>6 DEF Watched, Resumed, SubscriptionOver, taskVars, serverVars, BridgeInv, ResultIsFinal,
     Ended, Terminal, TaskTypeOK
<1>7. ASSUME NEW n \in Nodes, RunNode(n) PROVE BridgeInv'
  BY <1>7 DEF RunNode, taskVars, serverVars, BridgeInv, ResultIsFinal, Ended
<1>8. ASSUME NEW n \in Nodes, CancelPatch(n) PROVE BridgeInv'
  BY <1>8 DEF CancelPatch, taskVars, serverVars, BridgeInv, ResultIsFinal, Ended
<1>9. ASSUME NEW n \in Nodes, Dies(n) PROVE BridgeInv'
  BY <1>9 DEF Dies, taskVars, serverVars, BridgeInv, ResultIsFinal, Ended
<1>10. CASE UNCHANGED a2aVars
  BY <1>10 DEF a2aVars, bridgeVars, taskVars, serverVars, BridgeInv, ResultIsFinal, Ended
<1>. QED BY <1>1, <1>2, <1>3, <1>4, <1>5, <1>6, <1>7, <1>8, <1>9, <1>10 DEF BridgeNext, BridgeStep

(* What the graph was told of a remote task is what the task is for good,    *)
(* and a node is sent on only once that was kept and journalled.             *)
THEOREM ResultsAreFinal == BridgeSpec => []ResultIsFinal
<1>1. BridgeInit => BridgeInv
  BY BridgeConstants DEF BridgeInit, Init, BridgeInv, ResultIsFinal
<1>2. BridgeSpec => [](TaskTypeOK /\ DriveInv)
  BY BridgeImplementsTask, TasksTyped, DriveInvHolds, PTL
<1>3. TaskTypeOK /\ DriveInv /\ BridgeInv /\ [BridgeNext]_a2aVars => BridgeInv'
  BY BridgeInvStands
<1>4. BridgeInv => ResultIsFinal
  BY DEF BridgeInv
<1>. QED BY <1>1, <1>2, <1>3, <1>4, PTL DEF BridgeSpec
=============================================================================
