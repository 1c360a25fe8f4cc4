----------------------------- MODULE RunStream -----------------------------
(* One run's journal streamed to readers (s17code/ui/routes.py, agui.py):    *)
(* the page that ships with it (ui/client/index.html), which reconnects once *)
(* with a snapshot, and readers that reconnect at the offset they reached.   *)
(* A data model is what the fold of a journal comes to: node -> position of  *)
(* its result, and the positions of the patches.                             *)
EXTENDS Naturals, Sequences, FiniteSets, SequencesExt

CONSTANTS
    Readers,
    Page,           \* the readers that run index.html; the others keep an offset
    ResultNodes,    \* nodes whose results the data model shows
    MaxEntries,     \* bound: journal entries
    MaxLosses       \* bound: connections lost

ASSUME StreamConstants ==
    /\ Page \subseteq Readers /\ MaxEntries \in Nat /\ MaxLosses \in Nat
    /\ ResultNodes \cap {"patch", "other"} = {}

VARIABLES
    tape,           \* the journal: "patch", "other" or the node that succeeded
    runOver,        \* the run is finished
    conn,           \* reader -> "closed", "open", "lost", "done" or "dead"
    cursor,         \* reader -> the position the server has streamed to
    wire,           \* reader -> frames sent and not received
    model,          \* reader -> the data model it shows
    reached,        \* reader -> the last position it received
    reconnected,    \* pages that have used their one reconnect
    losses

streamVars == <<tape, runOver, conn, cursor, wire, model, reached, reconnected, losses>>

Entries == {"patch", "other"} \cup ResultNodes
EmptyState == [results |-> [n \in {} |-> 0], patches |-> <<>>]

(* apply_state_delta: a result overwrites, a patch is appended. *)
Delta(state, i) ==
    CASE tape[i] = "patch" -> [state EXCEPT !.patches = Append(@, i)]
      [] tape[i] \in ResultNodes ->
            [state EXCEPT !.results = [n \in DOMAIN @ \cup {tape[i]} |->
                                         IF n = tape[i] THEN i ELSE @[n]]]
      [] OTHER -> state

(* replay_state over the first k entries. *)
DataModel(k) ==
    LET after[i \in 0..k] == IF i = 0 THEN EmptyState ELSE Delta(after[i - 1], i)
    IN after[k]

Snapshot(state) == [type |-> "STATE_SNAPSHOT", state |-> state, seq |-> 0]
AguiEvent(i) == [type |-> "EVENT", state |-> EmptyState, seq |-> i]
RunFinished(i) == [type |-> "RUN_FINISHED", state |-> EmptyState, seq |-> i]

StreamInit == /\ tape = <<"other">>
              /\ runOver = FALSE
              /\ conn = [r \in Readers |-> "closed"]
              /\ cursor = [r \in Readers |-> 0]
              /\ wire = [r \in Readers |-> <<>>]
              /\ model = [r \in Readers |-> EmptyState]
              /\ reached = [r \in Readers |-> 0]
              /\ reconnected = {}
              /\ losses = 0

(* The graph saves an entry; a node has one result, and after the patch that *)
(* finishes the run only resumes and remote ends are journalled.             *)
Journal(e) == /\ Len(tape) < MaxEntries
              /\ e \in ResultNodes => e \notin ToSet(tape)
              /\ runOver => e = "other"
              /\ tape' = Append(tape, e)
              /\ runOver' \in IF e = "patch" THEN BOOLEAN ELSE {runOver}
              /\ UNCHANGED <<conn, cursor, wire, model, reached, reconnected, losses>>

(* GET /events: the page reconnects with a snapshot of this moment and       *)
(* leaves the offset at 0.                                                   *)
Connect(r) ==
    LET again == r \in Page /\ conn[r] = "lost"
    IN /\ conn[r] \in {"closed", "lost"}
       /\ conn' = [conn EXCEPT ![r] = "open"]
       /\ cursor' = [cursor EXCEPT ![r] = IF r \in Page THEN 0 ELSE reached[r]]
       /\ wire' = [wire EXCEPT ![r] = IF again THEN <<Snapshot(DataModel(Len(tape)))>> ELSE <<>>]
       /\ reconnected' = IF again THEN reconnected \cup {r} ELSE reconnected
       /\ UNCHANGED <<tape, runOver, model, reached, losses>>

(* Mutant of Over: the last entry is asked whether the run is finished.      *)
OverByLastEntry == runOver /\ Last(tape) = "patch"
Over == runOver

(* A round of gen(): what the journal holds past the cursor, and the end of  *)
(* the stream once the run is finished.                                      *)
Sending(r) == conn[r] = "open" /\ \A i \in DOMAIN wire[r] : wire[r][i].type # "RUN_FINISHED"
Serve(r) ==
    /\ Sending(r)
    /\ Len(tape) > cursor[r] \/ Over
    /\ cursor' = [cursor EXCEPT ![r] = Len(tape)]
    /\ wire' = [wire EXCEPT ![r] =
                  @ \o [i \in 1..(Len(tape) - cursor[r]) |-> AguiEvent(cursor[r] + i)]
                    \o (IF Over THEN <<RunFinished(Len(tape) + 1)>> ELSE <<>>)]
    /\ UNCHANGED <<tape, runOver, conn, model, reached, reconnected, losses>>

(* Mutant of Folded: the history behind a snapshot is folded again.          *)
FoldedAlways(r, frame) == Delta(model[r], frame.seq)

(* What a reader makes of an event: a page that reconnected folds no more.   *)
Folded(r, frame) == IF r \in reconnected THEN model[r] ELSE Delta(model[r], frame.seq)

Receive(r) ==
    /\ conn[r] = "open" /\ wire[r] # <<>>
    /\ LET frame == Head(wire[r])
       IN /\ model' = [model EXCEPT ![r] =
                          CASE frame.type = "STATE_SNAPSHOT" -> frame.state
                            [] frame.type = "EVENT"          -> Folded(r, frame)
                            [] OTHER                         -> @]
          /\ reached' = [reached EXCEPT ![r] = IF frame.type = "EVENT" THEN frame.seq ELSE @]
          /\ conn' = [conn EXCEPT ![r] = IF frame.type = "RUN_FINISHED" THEN "done" ELSE @]
    /\ wire' = [wire EXCEPT ![r] = Tail(@)]
    /\ UNCHANGED <<tape, runOver, cursor, reconnected, losses>>

(* The connection breaks with what is on it; the page recovers once.         *)
Lose(r) == /\ conn[r] = "open" /\ losses < MaxLosses
           /\ losses' = losses + 1
           /\ conn' = [conn EXCEPT ![r] = IF r \in reconnected THEN "dead" ELSE "lost"]
           /\ wire' = [wire EXCEPT ![r] = <<>>]
           /\ UNCHANGED <<tape, runOver, cursor, model, reached, reconnected>>

Stream(r) == Connect(r) \/ Serve(r) \/ Receive(r)

StreamNext == \/ \E e \in Entries : Journal(e)
              \/ \E r \in Readers : Stream(r) \/ Lose(r)

StreamSpec == StreamInit /\ [][StreamNext]_streamVars
StreamFairness == \A r \in Readers : WF_streamVars(Stream(r))
FairStreamSpec == StreamSpec /\ StreamFairness
-----------------------------------------------------------------------------
(* A reader shows the run as it was at some entry, never a mixture and never *)
(* an entry twice; one that folded all along shows it as of the last entry   *)
(* it received, and the whole of it when it is told that the run finished.   *)
ShownIsTrue ==
    \A r \in Readers :
        /\ \E k \in 0..Len(tape) : model[r] = DataModel(k)
        /\ r \notin reconnected =>
              /\ model[r] = DataModel(reached[r])
              /\ conn[r] = "done" => model[r] = DataModel(Len(tape))

(* A reader is told of the end of the run, whatever is journalled after it;  *)
(* only a page that lost its connection twice is not.                        *)
ReadersAreTold == runOver ~> \A r \in Readers : conn[r] \in {"done", "dead"}
=============================================================================
