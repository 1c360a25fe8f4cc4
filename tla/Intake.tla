------------------------------- MODULE Intake -------------------------------
(* Everything that starts or continues a run over HTTP (s17code/routes.py,   *)
(* ui/routes.py): a message of one channel conversation, a job's completion  *)
(* callback, the approval button of the page, the operator's resume.  A call *)
(* runs up to the first await of the graph in one step and then drives the   *)
(* run together with whichever other calls drive it.                         *)
EXTENDS WaitIndex, SequencesExt

CONSTANTS
    Messages,       \* event ids of the conversation's messages
    Calls,          \* bound: the requests of a behaviour
    HistoryLimit,   \* events whose bodies the event store keeps
    MaxCrashes,     \* bound: deaths of the process
    NoMessage

ASSUME IntakeConstants == NoMessage \notin Messages /\ HistoryLimit \in Nat

VARIABLES
    stage,          \* call -> "new", "running", "answered", "failed" or "lost"
    message,        \* call -> the message it delivers, or NoMessage
    drives,         \* call -> the run it drives
    how,            \* call -> the subscription its decision is stored under
    got,            \* call -> the reply it was answered with
    seen,           \* event ids in the event store's index
    bodies,         \* the messages whose bodies it keeps, oldest first
    decisions,      \* message -> the decisions stored with its body
    origin,         \* run -> the message that started it
    crashes

callVars == <<stage, message, drives, how, got>>
eventVars == <<seen, bodies, decisions, origin>>
vars == <<waitVars, callVars, eventVars, crashes>>

NoReply == <<>>

IntakeInit == /\ WaitInit
              /\ stage = [c \in Calls |-> "new"]
              /\ message = [c \in Calls |-> NoMessage]
              /\ drives = [c \in Calls |-> NoRun]
              /\ how = [c \in Calls |-> "none"]
              /\ got = [c \in Calls |-> NoReply]
              /\ seen = {} /\ bodies = <<>>
              /\ decisions = [m \in Messages |-> <<>>]
              /\ origin = [r \in Runs |-> NoMessage]
              /\ crashes = 0

Running == {c \in Calls : stage[c] = "running"}

(* What a call becomes; m and r may be NoMessage and NoRun.                  *)
Becomes(c, st, m, r, by, reply) ==
    /\ stage[c] = "new"
    /\ stage' = [stage EXCEPT ![c] = st]
    /\ message' = [message EXCEPT ![c] = m]
    /\ drives' = [drives EXCEPT ![c] = r]
    /\ how' = [how EXCEPT ![c] = by]
    /\ got' = [got EXCEPT ![c] = reply]

(* EventStore.ingest: an event id is remembered for good, its body is not.   *)
Ingest(m) ==
    LET grown == Append(bodies, m)
        kept  == IF m \in seen THEN bodies
                 ELSE IF Len(grown) > HistoryLimit THEN Tail(grown) ELSE grown
    IN /\ seen' = seen \cup {m}
       /\ bodies' = kept
       /\ decisions' = [n \in Messages |-> IF n \in ToSet(kept) THEN decisions[n] ELSE <<>>]

(* The reply stored with a message; a compacted body has none.               *)
StoredReply(m) == IF decisions[m] = <<>> THEN NoReply ELSE decisions[m][1].reply

(* Mutant of WaitingApproval: whichever run waits for an approval.           *)
ApprovalAnywhere ==
    LET open == {r \in Runs : phase[r] = "parked" /\ wait[r] \in Gates}
    IN IF open = {} THEN NoRun ELSE CHOOSE r \in open : TRUE

(* _waiting_channel_approval: the newest decision of the conversation whose  *)
(* run is parked on one approval; decision j of body i stands at <<i, j>>.   *)
Conversation == UNION {{i} \X DOMAIN decisions[bodies[i]] : i \in DOMAIN bodies}
RunAt(place) == decisions[bodies[place[1]]][place[2]].run
NotNewer(p, q) == p[1] < q[1] \/ (p[1] = q[1] /\ p[2] <= q[2])
WaitingApproval ==
    LET open == {p \in Conversation : phase[RunAt(p)] = "parked" /\ wait[RunAt(p)] \in Gates}
    IN IF open = {} THEN NoRun ELSE RunAt(CHOOSE q \in open : \A p \in open : NotNewer(p, q))

(* POST /runs: a run no message asked for. *)
StartRun(c, r) == /\ phase[r] = "absent"
                  /\ phase' = [phase EXCEPT ![r] = "working"]
                  /\ Becomes(c, "running", NoMessage, r, "request", NoReply)
                  /\ UNCHANGED <<wait, gate, index, eventVars, crashes>>

(* A delivery of a message: answered from the store, taken for the answer to *)
(* a waiting approval, or a run of its own.                                  *)
Redelivered(c, m) == /\ m \in seen /\ StoredReply(m) # NoReply
                     /\ Becomes(c, "answered", m, NoRun, "store", StoredReply(m))
                     /\ UNCHANGED <<waitVars, eventVars, crashes>>

MessageResumes(c, m) == /\ m \in seen => StoredReply(m) = NoReply
                        /\ WaitingApproval # NoRun
                        /\ Ingest(m)
                        /\ CompleteWaiting(wait[WaitingApproval], WaitingApproval)
                        /\ Becomes(c, "running", m, WaitingApproval, "channel-approval", NoReply)
                        /\ UNCHANGED <<origin, crashes>>

MessageStarts(c, m, r) == /\ m \in seen => StoredReply(m) = NoReply
                          /\ WaitingApproval = NoRun
                          /\ phase[r] = "absent"
                          /\ Ingest(m)
                          /\ phase' = [phase EXCEPT ![r] = "working"]
                          /\ origin' = [origin EXCEPT ![r] = m]
                          /\ Becomes(c, "running", m, r, "channel-direct", NoReply)
                          /\ UNCHANGED <<wait, gate, index, crashes>>

(* POST /completions: unknown and consumed handles get the same answer.      *)
Completion(c, h) ==
    /\ \/ \E r \in Runs : /\ CompleteWaiting(h, r)
                          /\ Becomes(c, "running", NoMessage, r, "completion", NoReply)
       \/ /\ NotCompleted(h)
          /\ Becomes(c, IF Found(h) = {} THEN "answered" ELSE "failed",
                     NoMessage, NoRun, "completion", NoReply)
    /\ UNCHANGED <<eventVars, crashes>>

(* decide_resume: a rejection always, an approval of exactly what was asked. *)
Allowed(action, sameArgs) == action = "reject" \/ (action = "approve" /\ sameArgs)

(* POST /v1/action on a node that waits, whatever it waits for; the run that *)
(* is resumed is the one the page names.                                     *)
Action(c, r, action, sameArgs) ==
    /\ phase[r] = "parked"
    /\ \/ /\ Allowed(action, sameArgs)
          /\ \E owner \in Runs : CompleteWaiting(wait[r], owner)
          /\ Becomes(c, "running", NoMessage, r, "action", NoReply)
       \/ /\ ~ Allowed(action, sameArgs) \/ Cardinality(Found(wait[r])) # 1
          /\ IF Allowed(action, sameArgs) THEN NotCompleted(wait[r]) ELSE UNCHANGED waitVars
          /\ Becomes(c, "failed", NoMessage, NoRun, "action", NoReply)
    /\ UNCHANGED <<eventVars, crashes>>

(* POST /runs/{id}/resume *)
Resume(c, r) == /\ phase[r] # "absent"
                /\ Becomes(c, "running", NoMessage, r, "operator", NoReply)
                /\ UNCHANGED <<waitVars, eventVars, crashes>>

(* What a driven run does next. *)
RunStep(r) == /\ \E c \in Running : drives[c] = r
              /\ \/ \E h \in NextWaits(r) : RecordWaiting(r, h)
                 \/ FinishRun(r)
              /\ UNCHANGED <<callVars, eventVars, crashes>>

(* _channel_reply: the run, and the approval it asks for (0: none).          *)
Reply(r) == <<r, IF phase[r] = "parked" /\ wait[r] \in Gates THEN wait[r][2] ELSE 0>>

(* Mutant of Stored: only the reply of a run that asks nothing is kept.      *)
StoredIfDone(m, d) ==
    IF m \notin ToSet(bodies) \/ d.reply[2] # 0 THEN decisions
    ELSE [decisions EXCEPT ![m] = Append(@, d)]

(* EventStore.add_decision: one decision per subscription, none without the  *)
(* body.                                                                     *)
Stored(m, d) ==
    IF m \notin ToSet(bodies) \/ \E i \in DOMAIN decisions[m] : decisions[m][i].by = d.by
    THEN decisions
    ELSE [decisions EXCEPT ![m] = Append(@, d)]

(* The graph returns to the route: the run waits or is over. *)
Returns(c) == /\ stage[c] = "running"
              /\ phase[drives[c]] \in {"parked", "over"}
              /\ stage' = [stage EXCEPT ![c] = "answered"]
              /\ LET m == message[c]
                     r == drives[c]
                 IN IF m = NoMessage THEN UNCHANGED <<got, decisions>>
                    ELSE /\ got' = [got EXCEPT ![c] = Reply(r)]
                         /\ decisions' = Stored(m, [by |-> how[c], run |-> r, reply |-> Reply(r)])
              /\ UNCHANGED <<waitVars, message, drives, how, seen, bodies, origin, crashes>>

(* It raises: the caller gets an error and nothing is stored. *)
Raises(c) == /\ stage[c] = "running"
             /\ stage' = [stage EXCEPT ![c] = "failed"]
             /\ UNCHANGED <<waitVars, message, drives, how, got, eventVars, crashes>>

(* The process dies, perhaps between the two saves of the store.             *)
Crash == /\ crashes < MaxCrashes
         /\ crashes' = crashes + 1
         /\ stage' = [c \in Calls |-> IF c \in Running THEN "lost" ELSE stage[c]]
         /\ \/ UNCHANGED waitVars
            \/ \E c \in Running : \E h \in NextWaits(drives[c]) :
                  SaveWaiting(drives[c], h) /\ UNCHANGED index
            \/ \E h \in Handles : \E r \in Runs :
                  Found(h) = {r} /\ SaveCompletion(r) /\ UNCHANGED index
         /\ UNCHANGED <<message, drives, how, got, eventVars>>

IntakeNext ==
    \/ \E c \in Calls :
         \/ \E m \in Messages : \/ Redelivered(c, m)
                                \/ MessageResumes(c, m)
                                \/ \E r \in Runs : MessageStarts(c, m, r)
         \/ \E h \in Handles : Completion(c, h)
         \/ \E r \in Runs : \/ \E a \in {"approve", "reject", "rerun"}, same \in BOOLEAN :
                                  Action(c, r, a, same)
                            \/ StartRun(c, r) \/ Resume(c, r)
         \/ Returns(c) \/ Raises(c)
    \/ \E r \in Runs : RunStep(r)
    \/ Crash

IntakeSpec == IntakeInit /\ [][IntakeNext]_vars
-----------------------------------------------------------------------------
Began(c) == stage[c] = "new" /\ stage'[c] # "new"

(* A completion that arrives while one node waits for its handle completes   *)
(* it, whatever a crash left in the index; one that changes a run found it   *)
(* waiting.                                                                  *)
CallbackTakesEffect ==
    [][\A c \in Calls, h \in Handles :
         Began(c) /\ Completion(c, h) =>
            /\ \A r \in Runs : Parked(h) = {r} => Parked(h)' = {}
            /\ phase' # phase => Parked(h) # {}]_vars

(* A message that comes again after an answer is given that answer and moves *)
(* no run, as long as its body is kept and its deliveries did not overlap.   *)
Answers(m) == {c \in Calls : message[c] = m /\ stage[c] = "answered"}
Overlapped(m) == \E c, d \in Calls : /\ c # d /\ message[c] = m /\ message[d] = m
                                      /\ how[c] # "store" /\ how[d] # "store"
RedeliveryAgrees ==
    [][\A c \in Calls, d \in Calls :
         /\ Began(c) /\ message'[c] # NoMessage
         /\ d \in Answers(message'[c])
         /\ message'[c] \in ToSet(bodies)
         => /\ UNCHANGED waitVars
            /\ Overlapped(message'[c]) \/ got'[c] = got[d]]_vars

(* A message completes only an approval that this conversation was asked to  *)
(* give, unless another call drove the run there.                            *)
Asked(r, k) == \E c \in Calls : message[c] # NoMessage /\ got[c] = <<r, k>>
Elsewhere(r) == \/ \E c \in Calls : drives[c] = r /\ how[c] \in {"completion", "action", "operator"}
                \/ \E c \in Calls : drives[c] = r /\ stage[c] \in {"running", "failed", "lost"}
AskedBeforeAnswered ==
    [][\A c \in Calls :
         Began(c) /\ how'[c] = "channel-approval" =>
            LET r == drives'[c] IN Asked(r, wait[r][2]) \/ Elsewhere(r)]_vars

(* README.md: messages are deduplicated on (source, id).                     *)
OneRunPerMessage == \A m \in Messages : Cardinality({r \in Runs : origin[r] = m}) <= 1
=============================================================================
