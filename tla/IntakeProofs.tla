---------------------------- MODULE IntakeProofs ----------------------------
(* What the requests that start and continue runs keep, for any runs,        *)
(* handles, messages and calls: completions, deliveries of one message, and  *)
(* the approvals a conversation is asked for.                                *)
EXTENDS Intake, FiniteSetTheorems, NaturalsInduction, TLAPS

Stages == {"new", "running", "answered", "failed", "lost"}
Ways == {"none", "request", "store", "channel-approval", "channel-direct",
         "completion", "action", "operator"}
Channel == {"channel-approval", "channel-direct"}
Replies == Runs \X Nat
DecisionType == [by : Ways, run : Runs, reply : Replies]

WaitTypeOK == /\ phase \in [Runs -> {"absent", "working", "parked", "over"}]
              /\ wait \in [Runs -> Handles \cup {NoHandle}]
              /\ gate \in [Runs -> Nat]
              /\ index \in [Handles -> Runs \cup {NoRun}]

IntakeTypeOK == /\ WaitTypeOK
                /\ stage \in [Calls -> Stages]
                /\ message \in [Calls -> Messages \cup {NoMessage}]
                /\ drives \in [Calls -> Runs \cup {NoRun}]
                /\ how \in [Calls -> Ways]
                /\ got \in [Calls -> Replies \cup {NoReply}]
                /\ seen \subseteq Messages
                /\ bodies \in Seq(Messages)
                /\ decisions \in [Messages -> Seq(DecisionType)]

-----------------------------------------------------------------------------
(* What a call has become says how it began.                                 *)
BlankIfNew(c) == stage[c] = "new" => /\ message[c] = NoMessage /\ drives[c] = NoRun
                                     /\ how[c] = "none" /\ got[c] = NoReply
Driving(c) == stage[c] = "running" => drives[c] \in Runs /\ got[c] = NoReply /\ how[c] # "none"
OfMessage(c) == /\ how[c] \in Channel \cup {"store"} <=> message[c] # NoMessage
                /\ how[c] = "store" => stage[c] = "answered"
                /\ message[c] # NoMessage => message[c] \in seen
CallsKnown == \A c \in Calls : BlankIfNew(c) /\ Driving(c) /\ OfMessage(c)

(* Decisions are stored with the bodies that are kept, by a delivery that    *)
(* was answered; every answer was the first decision's reply, unless the     *)
(* deliveries overlapped.                                                    *)
Kept == ToSet(bodies)
KeptSeen == Kept \subseteq seen /\ \A m \in Messages \ Kept : decisions[m] = <<>>
DecisionsStored ==
    \A m \in Messages : decisions[m] # <<>> =>
        \E c \in Calls : message[c] = m /\ how[c] \in Channel /\ stage[c] = "answered"
AnswersStored ==
    \A c \in Calls, m \in Kept : message[c] = m /\ stage[c] = "answered" =>
        decisions[m] # <<>> /\ (got[c] = decisions[m][1].reply \/ Overlapped(m))
StoreKnown == KeptSeen /\ DecisionsStored /\ AnswersStored

(* A run is driven from when it exists; one that a request started never has *)
(* a decision, so no message is taken for an answer to it; one that parked   *)
(* on an approval with nobody left to drive it was the reply to a message.   *)
DrivenExist == \A c \in Calls : drives[c] # NoRun => phase[drives[c]] # "absent"
ByMessage == {drives[c] : c \in {d \in Calls : how[d] \in Channel}}
RequestsApart == \A c \in Calls : how[c] = "request" => drives[c] \notin ByMessage
DecidedByMessage == \A m \in Messages : \A i \in DOMAIN decisions[m] : decisions[m][i].run \in ByMessage
ParkedAsked ==
    \A r \in Runs, k \in 1..MaxGates :
        phase[r] = "parked" /\ wait[r] \in Gates /\ wait[r][2] = k /\ r \in ByMessage =>
            Asked(r, k) \/ Elsewhere(r)
RunsKnown == DrivenExist /\ RequestsApart /\ DecidedByMessage /\ ParkedAsked

IntakeInv == IntakeTypeOK /\ CallsKnown /\ StoreKnown /\ RunsKnown

\* A server with no call, no run and an empty store satisfies the invariant.
LEMMA InitHolds == IntakeInit => IntakeInv
<1>. SUFFICES ASSUME IntakeInit PROVE IntakeInv
  OBVIOUS
<1>. USE WaitConstants, IntakeConstants DEF IntakeInit, WaitInit
<1>1. IntakeTypeOK
  BY DEF IntakeTypeOK, WaitTypeOK, Stages, Ways
<1>2. CallsKnown
  BY DEF CallsKnown, BlankIfNew, Driving, OfMessage, Channel
<1>3. StoreKnown
  BY DEF StoreKnown, KeptSeen, DecisionsStored, AnswersStored, Kept, ToSet
<1>4. RunsKnown
  BY DEF RunsKnown, DrivenExist, RequestsApart, DecidedByMessage, ParkedAsked
<1>. QED BY <1>1, <1>2, <1>3, <1>4 DEF IntakeInv

-----------------------------------------------------------------------------
(* The waits.  No operation makes a run absent, and only record_waiting      *)
(* parks one.                                                                *)
Calm(r) == /\ phase'[r] = "absent" => phase[r] = "absent"
           /\ phase'[r] = "parked" => phase[r] = "parked" /\ wait'[r] = wait[r]

\* What a run may wait on next is a handle.
LEMMA NextWaitsAreHandles ==
    ASSUME WaitTypeOK, NEW r \in Runs
    PROVE  NextWaits(r) \subseteq Handles
<1>1. gate[r] \in Nat /\ MaxGates \in Nat
  BY WaitConstants DEF WaitTypeOK
<1>2. gate[r] < MaxGates => gate[r] + 1 \in 1..MaxGates
  BY <1>1
<1>. QED BY <1>2 DEF NextWaits, Handles, Gates

\* Saving a waiting run parks it and leaves every other run calm.
LEMMA SaveWaitingTyped ==
    ASSUME WaitTypeOK, NEW r \in Runs, NEW h \in NextWaits(r), SaveWaiting(r, h)
    PROVE  /\ phase' \in [Runs -> {"absent", "working", "parked", "over"}]
           /\ wait' \in [Runs -> Handles \cup {NoHandle}] /\ gate' \in [Runs -> Nat]
           /\ phase'[r] = "parked" /\ \A q \in Runs \ {r} : Calm(q)
<1>1. h \in Handles
  BY NextWaitsAreHandles
<1>2. gate[r] + (IF h \in Gates THEN 1 ELSE 0) \in Nat
  BY DEF WaitTypeOK
<1>. QED BY <1>1, <1>2 DEF WaitTypeOK, SaveWaiting, Calm

\* Saving a completion puts that run back to work and leaves the waits of the
\* others alone.
LEMMA SaveCompletionTyped ==
    ASSUME WaitTypeOK, NEW r \in Runs, SaveCompletion(r)
    PROVE  /\ phase' \in [Runs -> {"absent", "working", "parked", "over"}]
           /\ wait' \in [Runs -> Handles \cup {NoHandle}] /\ gate' \in [Runs -> Nat]
           /\ phase'[r] = "working" /\ \A q \in Runs : Calm(q)
           /\ \A q \in Runs \ {r} : phase'[q] = phase[q] /\ wait'[q] = wait[q]
BY DEF WaitTypeOK, SaveCompletion, Calm

\* Completing a wait puts the run found back to work; every run is calm.
LEMMA CompleteTyped ==
    ASSUME WaitTypeOK, NEW h, NEW r \in Runs, CompleteWaiting(h, r)
    PROVE  WaitTypeOK' /\ phase'[r] = "working" /\ \A q \in Runs : Calm(q)
BY SaveCompletionTyped DEF CompleteWaiting, WaitTypeOK

\* A completion that finds nobody changes no run.
LEMMA NotCompletedTyped ==
    ASSUME WaitTypeOK, NEW h, NotCompleted(h)
    PROVE  WaitTypeOK' /\ UNCHANGED <<phase, wait, gate>> /\ \A q \in Runs : Calm(q)
BY DEF NotCompleted, WaitTypeOK, Repaired, Calm

\* The run a handle finds is one that is parked on it.
LEMMA FoundWaits ==
    ASSUME NEW h
    PROVE  Found(h) \subseteq Parked(h) /\ Found(h) \subseteq Runs
BY DEF Found, Indexed, Parked

(* A handle found nowhere, or at more than one node, is not in the index.    *)
LEMMA NotOneWaits ==
    ASSUME NEW h, Cardinality(Found(h)) # 1
    PROVE  Found(h) = Parked(h)
<1>1. CASE Indexed(h) # {}
  <2>1. Found(h) = {index[h]}
    BY <1>1 DEF Found, Indexed
  <2>. QED BY <2>1, FS_Singleton
<1>2. CASE Indexed(h) = {}
  BY <1>2 DEF Found
<1>. QED BY <1>1, <1>2

-----------------------------------------------------------------------------
(* A call begins.                                                            *)
LEMMA Begun ==
    ASSUME IntakeTypeOK, CallsKnown, NEW c \in Calls, NEW st, NEW m, NEW r, NEW by, NEW reply,
           Becomes(c, st, m, r, by, reply)
    PROVE  /\ stage[c] = "new" /\ message[c] = NoMessage /\ drives[c] = NoRun
           /\ how[c] = "none" /\ got[c] = NoReply
           /\ stage'[c] = st /\ message'[c] = m /\ drives'[c] = r /\ how'[c] = by /\ got'[c] = reply
           /\ \A d \in Calls \ {c} : /\ stage'[d] = stage[d] /\ message'[d] = message[d]
                                     /\ drives'[d] = drives[d] /\ how'[d] = how[d] /\ got'[d] = got[d]
BY DEF IntakeTypeOK, CallsKnown, BlankIfNew, Becomes

\* What a call becomes in one step is typed, given typed arguments.
LEMMA BegunTyped ==
    ASSUME IntakeTypeOK, NEW c \in Calls, NEW st \in Stages, NEW m \in Messages \cup {NoMessage},
           NEW r \in Runs \cup {NoRun}, NEW by \in Ways, NEW reply \in Replies \cup {NoReply},
           Becomes(c, st, m, r, by, reply)
    PROVE  /\ stage' \in [Calls -> Stages] /\ message' \in [Calls -> Messages \cup {NoMessage}]
           /\ drives' \in [Calls -> Runs \cup {NoRun}] /\ how' \in [Calls -> Ways]
           /\ got' \in [Calls -> Replies \cup {NoReply}]
BY DEF IntakeTypeOK, Becomes

\* What a call becomes keeps CallsKnown: a running call drives a run it was
\* given, and a call of a channel carries a message the server has seen.
LEMMA BegunKnown ==
    ASSUME IntakeTypeOK, CallsKnown, NEW c \in Calls, NEW st \in Stages \ {"new"}, NEW m, NEW r, NEW by, NEW reply,
           Becomes(c, st, m, r, by, reply),
           st = "running" => r \in Runs /\ reply = NoReply /\ by # "none",
           by \in Channel \cup {"store"} <=> m # NoMessage,
           by = "store" => st = "answered",
           seen \subseteq seen', m # NoMessage => m \in seen'
    PROVE  CallsKnown'
<1>1. /\ stage'[c] = st /\ message'[c] = m /\ drives'[c] = r /\ how'[c] = by /\ got'[c] = reply
      /\ \A d \in Calls \ {c} : /\ stage'[d] = stage[d] /\ message'[d] = message[d]
                                /\ drives'[d] = drives[d] /\ how'[d] = how[d] /\ got'[d] = got[d]
  BY Begun
<1>2. BlankIfNew(c)' /\ Driving(c)' /\ OfMessage(c)'
  BY <1>1 DEF BlankIfNew, Driving, OfMessage
<1>3. ASSUME NEW d \in Calls \ {c} PROVE BlankIfNew(d)' /\ Driving(d)' /\ OfMessage(d)'
  <2>1. BlankIfNew(d) /\ Driving(d) /\ OfMessage(d)
    BY DEF CallsKnown
  <2>. QED BY <1>1, <2>1 DEF BlankIfNew, Driving, OfMessage
<1>. QED BY <1>2, <1>3 DEF CallsKnown

(* A call that begins drives no run, one nobody drove, or one that a message *)
(* had been given a decision about.                                          *)
LEMMA BegunRuns ==
    ASSUME IntakeTypeOK, CallsKnown, RunsKnown, \A q \in Runs : Calm(q),
           NEW c \in Calls, NEW st \in Stages, NEW m, NEW r \in Runs \cup {NoRun}, NEW by, NEW reply,
           Becomes(c, st, m, r, by, reply),
           r # NoRun => st = "running" /\ phase'[r] # "absent",
           by = "request" => r \in Runs /\ phase[r] = "absent",
           by \in Channel => r \in Runs /\ (phase[r] = "absent" \/ r \in ByMessage),
           \A n \in Messages : decisions'[n] = decisions[n] \/ decisions'[n] = <<>>
    PROVE  RunsKnown'
<1>. USE WaitConstants
<1>1. /\ message[c] = NoMessage /\ drives[c] = NoRun /\ how[c] = "none" /\ got[c] = NoReply
      /\ stage'[c] = st /\ message'[c] = m /\ drives'[c] = r /\ how'[c] = by /\ got'[c] = reply
      /\ \A d \in Calls \ {c} : /\ stage'[d] = stage[d] /\ message'[d] = message[d]
                                /\ drives'[d] = drives[d] /\ how'[d] = how[d] /\ got'[d] = got[d]
  BY Begun
<1>2. DrivenExist'
  <2>1. \A d \in Calls : drives[d] \in Runs \cup {NoRun}
    BY DEF IntakeTypeOK
  <2>. QED BY <1>1, <2>1 DEF RunsKnown, DrivenExist, Calm
<1>3. ByMessage \subseteq ByMessage' /\ ByMessage' \subseteq ByMessage \cup (IF by \in Channel THEN {r} ELSE {})
  BY <1>1 DEF ByMessage, Channel
<1>4. RequestsApart'
  <2>. SUFFICES ASSUME NEW d \in Calls, how'[d] = "request", drives'[d] \in ByMessage' PROVE FALSE
    BY DEF RequestsApart
  <2>1. CASE d = c
    <3>1. r \in Runs /\ phase[r] = "absent" /\ by = "request"
      BY <1>1, <2>1
    <3>2. r \notin ByMessage
      BY <3>1 DEF ByMessage, RunsKnown, DrivenExist
    <3>. QED BY <1>1, <1>3, <2>1, <3>1, <3>2 DEF Channel
  <2>2. CASE d # c
    <3>1. drives[d] \notin ByMessage /\ drives'[d] = drives[d]
      BY <1>1, <2>2 DEF RunsKnown, RequestsApart
    <3>2. drives[d] = r /\ by \in Channel
      BY <1>3, <3>1
    <3>3. phase[r] # "absent"
      BY <3>2 DEF RunsKnown, DrivenExist
    <3>. QED BY <3>1, <3>2, <3>3
  <2>. QED BY <2>1, <2>2
<1>5. DecidedByMessage'
  <2>1. \A n \in Messages : \A i \in DOMAIN decisions'[n] : decisions'[n] = decisions[n]
    OBVIOUS
  <2>. QED BY <1>3, <2>1 DEF RunsKnown, DecidedByMessage
<1>6. ParkedAsked'
  <2>. SUFFICES ASSUME NEW q \in Runs, NEW k \in 1..MaxGates, phase'[q] = "parked", wait'[q] \in Gates,
                       wait'[q][2] = k, q \in ByMessage'
                PROVE  Asked(q, k)' \/ Elsewhere(q)'
    BY DEF ParkedAsked, Gates
  <2>1. CASE q = r
    BY <1>1, <2>1 DEF Elsewhere
  <2>2. CASE q # r
    <3>1. phase[q] = "parked" /\ wait'[q] = wait[q] /\ q \in ByMessage
      BY <1>3, <2>2 DEF Calm
    <3>2. Asked(q, k) \/ Elsewhere(q)
      BY <3>1 DEF RunsKnown, ParkedAsked
    <3>3. CASE Asked(q, k)
      BY <1>1, <3>1, <3>3 DEF Asked, NoReply
    <3>4. CASE Elsewhere(q)
      BY <1>1, <3>4 DEF Elsewhere
    <3>. QED BY <3>2, <3>3, <3>4
  <2>. QED BY <2>1, <2>2
<1>. QED BY <1>2, <1>4, <1>5, <1>6 DEF RunsKnown

\* The bodies the store keeps are messages.
LEMMA BodiesAreMessages ==
    ASSUME IntakeTypeOK
    PROVE  Kept \subseteq Messages
BY DEF IntakeTypeOK, Kept, ToSet

\* Two deliveries of a message that overlapped have overlapped for good.
LEMMA OverlapsStay ==
    ASSUME IntakeTypeOK, CallsKnown, NEW c \in Calls, NEW st, NEW m, NEW r, NEW by, NEW reply,
           Becomes(c, st, m, r, by, reply), NEW n \in Messages, Overlapped(n)
    PROVE  Overlapped(n)'
BY Begun, IntakeConstants DEF Overlapped

(* A call that brings no message leaves the event store alone.               *)
LEMMA BegunSilent ==
    ASSUME IntakeTypeOK, CallsKnown, StoreKnown, NEW c \in Calls, NEW st, NEW r, NEW by, NEW reply,
           Becomes(c, st, NoMessage, r, by, reply), UNCHANGED eventVars
    PROVE  StoreKnown'
<1>. USE IntakeConstants DEF eventVars
<1>1. /\ stage[c] = "new" /\ message'[c] = NoMessage
      /\ \A d \in Calls \ {c} : /\ stage'[d] = stage[d] /\ message'[d] = message[d]
                                /\ how'[d] = how[d] /\ got'[d] = got[d]
  BY Begun
<1>2. KeptSeen' /\ Kept' = Kept
  BY DEF StoreKnown, KeptSeen, Kept
<1>3. DecisionsStored'
  BY <1>1 DEF StoreKnown, DecisionsStored
<1>4. AnswersStored'
  <2>. SUFFICES ASSUME NEW d \in Calls, NEW m \in Kept, message'[d] = m, stage'[d] = "answered"
                PROVE  decisions[m] # <<>> /\ (got'[d] = decisions[m][1].reply \/ Overlapped(m)')
    BY <1>2 DEF AnswersStored
  <2>1. d # c /\ m \in Messages
    BY <1>1, BodiesAreMessages
  <2>2. decisions[m] # <<>> /\ (got[d] = decisions[m][1].reply \/ Overlapped(m))
    BY <1>1, <2>1 DEF StoreKnown, AnswersStored
  <2>. QED BY <1>1, <2>1, <2>2, OverlapsStay
<1>. QED BY <1>2, <1>3, <1>4 DEF StoreKnown

\* Answering a redelivery from the store keeps the store known: the answer is
\* the first decision's reply.
LEMMA RedeliveredKeeps ==
    ASSUME IntakeTypeOK, CallsKnown, StoreKnown, NEW c \in Calls, NEW m \in Messages, Redelivered(c, m)
    PROVE  StoreKnown'
<1>. USE IntakeConstants DEF eventVars
<1>1. UNCHANGED eventVars /\ StoredReply(m) # NoReply
      /\ Becomes(c, "answered", m, NoRun, "store", StoredReply(m))
  BY DEF Redelivered
<1>2. /\ stage[c] = "new" /\ message'[c] = m /\ got'[c] = StoredReply(m)
      /\ \A d \in Calls \ {c} : /\ stage'[d] = stage[d] /\ message'[d] = message[d]
                                /\ how'[d] = how[d] /\ got'[d] = got[d]
  BY <1>1, Begun
<1>3. decisions[m] # <<>> /\ got'[c] = decisions[m][1].reply
  BY <1>1, <1>2 DEF StoredReply
<1>4. KeptSeen' /\ Kept' = Kept
  BY <1>1 DEF StoreKnown, KeptSeen, Kept
<1>5. DecisionsStored'
  BY <1>1, <1>2 DEF StoreKnown, DecisionsStored
<1>6. AnswersStored'
  <2>. SUFFICES ASSUME NEW d \in Calls, NEW n \in Kept, message'[d] = n, stage'[d] = "answered"
                PROVE  decisions[n] # <<>> /\ (got'[d] = decisions[n][1].reply \/ Overlapped(n)')
    BY <1>1, <1>4 DEF AnswersStored
  <2>1. CASE d = c
    BY <1>2, <1>3, <2>1
  <2>2. CASE d # c
    <3>1. decisions[n] # <<>> /\ (got[d] = decisions[n][1].reply \/ Overlapped(n)) /\ n \in Messages
      BY <1>2, <2>2, BodiesAreMessages DEF StoreKnown, AnswersStored
    <3>. QED BY <1>1, <1>2, <2>2, <3>1, OverlapsStay
  <2>. QED BY <2>1, <2>2
<1>. QED BY <1>4, <1>5, <1>6 DEF StoreKnown

(* Ingesting remembers the message, keeps bodies and their decisions, and    *)
(* adds none for a message that was there before.                            *)
LEMMA IngestKeeps ==
    ASSUME IntakeTypeOK, NEW m \in Messages, Ingest(m)
    PROVE  /\ bodies' \in Seq(Messages) /\ seen' = seen \cup {m}
           /\ Kept' \subseteq Kept \cup (IF m \in seen THEN {} ELSE {m})
           /\ decisions' \in [Messages -> Seq(DecisionType)]
           /\ \A n \in Messages : decisions'[n] = IF n \in Kept' THEN decisions[n] ELSE <<>>
<1>1. /\ bodies \in Seq(Messages) /\ Append(bodies, m) \in Seq(Messages)
      /\ seen' = seen \cup {m}
      /\ bodies' = IF m \in seen THEN bodies
                   ELSE IF Len(Append(bodies, m)) > HistoryLimit THEN Tail(Append(bodies, m))
                   ELSE Append(bodies, m)
      /\ decisions' = [n \in Messages |-> IF n \in Kept' THEN decisions[n] ELSE <<>>]
  BY DEF IntakeTypeOK, Ingest, Kept
<1>2. ToSet(Append(bodies, m)) \subseteq Kept \cup {m}
  BY <1>1 DEF ToSet, Kept
<1>3. /\ Append(bodies, m) # <<>> /\ Tail(Append(bodies, m)) \in Seq(Messages)
      /\ ToSet(Tail(Append(bodies, m))) \subseteq ToSet(Append(bodies, m))
  <2>. DEFINE grown == Append(bodies, m)
  <2>1. grown \in Seq(Messages) /\ grown # <<>>
    BY <1>1
  <2>. HIDE DEF grown
  <2>2. Tail(grown) \in Seq(Messages) /\ ToSet(Tail(grown)) \subseteq ToSet(grown)
    BY <2>1 DEF ToSet
  <2>. QED BY <2>1, <2>2 DEF grown
<1>4. bodies' \in Seq(Messages) /\ Kept' \subseteq Kept \cup (IF m \in seen THEN {} ELSE {m})
  BY <1>1, <1>2, <1>3 DEF Kept
<1>5. decisions' \in [Messages -> Seq(DecisionType)]
  BY <1>1 DEF IntakeTypeOK
<1>. QED BY <1>1, <1>4, <1>5

\* A call that ingests its message keeps the store known: what is compacted
\* away takes its decisions with it.
LEMMA IngestedKeeps ==
    ASSUME IntakeTypeOK, CallsKnown, StoreKnown, NEW c \in Calls, NEW m \in Messages, NEW r, NEW by,
           Becomes(c, "running", m, r, by, NoReply), Ingest(m)
    PROVE  StoreKnown'
<1>. USE IntakeConstants
<1>1. /\ stage[c] = "new" /\ message'[c] = m /\ stage'[c] = "running"
      /\ \A d \in Calls \ {c} : /\ stage'[d] = stage[d] /\ message'[d] = message[d]
                                /\ how'[d] = how[d] /\ got'[d] = got[d]
  BY Begun
<1>2. /\ seen' = seen \cup {m} /\ Kept' \subseteq Kept \cup (IF m \in seen THEN {} ELSE {m})
      /\ \A n \in Messages : decisions'[n] = IF n \in Kept' THEN decisions[n] ELSE <<>>
  BY IngestKeeps
<1>3. KeptSeen'
  BY <1>2 DEF StoreKnown, KeptSeen
<1>4. DecisionsStored'
  BY <1>1, <1>2 DEF StoreKnown, DecisionsStored
<1>5. AnswersStored'
  <2>. SUFFICES ASSUME NEW d \in Calls, NEW n \in Kept', message'[d] = n, stage'[d] = "answered"
                PROVE  decisions'[n] # <<>> /\ (got'[d] = decisions'[n][1].reply \/ Overlapped(n)')
    BY DEF AnswersStored
  <2>1. d # c /\ message[d] = n /\ stage[d] = "answered" /\ got'[d] = got[d]
    BY <1>1
  <2>2. n \in Messages /\ n \in seen
    BY <1>2, <2>1, BodiesAreMessages DEF CallsKnown, OfMessage
  <2>3. n \in Kept /\ decisions'[n] = decisions[n]
    BY <1>2, <2>2
  <2>4. decisions[n] # <<>> /\ (got[d] = decisions[n][1].reply \/ Overlapped(n))
    BY <2>1, <2>3 DEF StoreKnown, AnswersStored
  <2>. QED BY <2>1, <2>2, <2>3, <2>4, OverlapsStay
<1>. QED BY <1>3, <1>4, <1>5 DEF StoreKnown

-----------------------------------------------------------------------------
(* The approval a message is taken for: the newest decision of the           *)
(* conversation whose run waits for one.                                     *)
LEMMA GreatestExists ==
    ASSUME NEW S \in SUBSET Nat, S # {}, NEW b \in Nat, \A x \in S : x <= b
    PROVE  \E x \in S : \A y \in S : y <= x
<1>. DEFINE R == OpToRel(<, Nat)
            Below == {n \in Nat : b - n \in S}
<1>1. IsWellFoundedOn(R, Nat)
  BY NatLessThanWellFounded
<1>2. \A x \in S : b - x \in Below
  OBVIOUS
<1>3. PICK n \in Below : \A y \in Nat : <<y, n>> \in R => y \notin Below
  BY <1>1, <1>2, WFMin
<1>4. \A y \in Nat : y < n => <<y, n>> \in R
  BY <1>3 DEF OpToRel
<1>. HIDE DEF R
<1>5. ASSUME NEW y \in S PROVE y <= b - n
  <2>1. b - y \in Nat /\ b - y \in Below
    BY <1>2
  <2>2. ~(b - y < n)
    BY <1>3, <1>4, <2>1
  <2>. QED BY <1>3, <2>1, <2>2
<1>. QED BY <1>3, <1>5

\* Among the open approvals of the conversation one is the newest, so the
\* CHOOSE of WaitingApproval picks one of them.
LEMMA NewestExists ==
    ASSUME IntakeTypeOK, NEW open \in SUBSET Conversation, open # {}
    PROVE  \E q \in open : \A p \in open : NotNewer(p, q)
<1>1. Len(bodies) \in Nat /\ \A i \in DOMAIN bodies : i \in 1..Len(bodies) /\ bodies[i] \in Messages
  BY DEF IntakeTypeOK
<1>2. \A m \in Messages : /\ Len(decisions[m]) \in Nat
                          /\ \A j \in DOMAIN decisions[m] : j \in Nat /\ j <= Len(decisions[m])
  BY DEF IntakeTypeOK
<1>3. \A p \in open : /\ p = <<p[1], p[2]>> /\ p[1] \in DOMAIN bodies
                      /\ p[2] \in DOMAIN decisions[bodies[p[1]]]
  BY DEF Conversation
<1>. DEFINE Bodies == {p[1] : p \in open}
<1>4. PICK i \in Bodies : \A k \in Bodies : k <= i
  <2>1. Bodies \in SUBSET Nat /\ Bodies # {} /\ \A x \in Bodies : x <= Len(bodies)
    BY <1>1, <1>3
  <2>. QED BY <1>1, <2>1, GreatestExists
<1>. DEFINE Places == {p[2] : p \in {o \in open : o[1] = i}}
<1>5. PICK j \in Places : \A k \in Places : k <= j
  <2>1. i \in DOMAIN bodies /\ bodies[i] \in Messages
    BY <1>1, <1>3
  <2>2. Places \in SUBSET Nat /\ Places # {} /\ \A x \in Places : x <= Len(decisions[bodies[i]])
    BY <1>2, <1>3, <2>1
  <2>. QED BY <1>2, <2>1, <2>2, GreatestExists
<1>6. PICK q \in open : q[1] = i /\ q[2] = j
  OBVIOUS
<1>7. ASSUME NEW p \in open PROVE NotNewer(p, q)
  <2>1. p[1] <= i /\ (p[1] = i => p[2] <= j) /\ p[1] \in Nat /\ i \in Nat
    BY <1>1, <1>3, <1>4, <1>5
  <2>. QED BY <1>6, <2>1 DEF NotNewer
<1>. QED BY <1>7

\* The run a message's decision goes to is parked on an approval gate and is
\* one that a message started.
LEMMA ApprovalWaits ==
    ASSUME IntakeTypeOK, DecidedByMessage, WaitingApproval # NoRun
    PROVE  /\ WaitingApproval \in Runs /\ phase[WaitingApproval] = "parked"
           /\ wait[WaitingApproval] \in Gates /\ WaitingApproval \in ByMessage
<1>. DEFINE open == {p \in Conversation : phase[RunAt(p)] = "parked" /\ wait[RunAt(p)] \in Gates}
            newest == CHOOSE q \in open : \A p \in open : NotNewer(p, q)
<1>1. open # {} /\ WaitingApproval = RunAt(newest)
  BY DEF WaitingApproval
<1>2. newest \in open
  BY <1>1, NewestExists
<1>3. newest[1] \in DOMAIN bodies /\ newest[2] \in DOMAIN decisions[bodies[newest[1]]]
  BY <1>2 DEF Conversation
<1>4. bodies[newest[1]] \in Messages
  BY <1>3 DEF IntakeTypeOK
<1>5. RunAt(newest) \in Runs /\ RunAt(newest) \in ByMessage
  <2>1. decisions[bodies[newest[1]]][newest[2]] \in DecisionType
    BY <1>3, <1>4 DEF IntakeTypeOK
  <2>. QED BY <1>3, <1>4, <2>1 DEF RunAt, DecidedByMessage, DecisionType
<1>. QED BY <1>1, <1>2, <1>5

-----------------------------------------------------------------------------
(* Every step keeps the invariant.                                           *)
LEMMA StartRunStep ==
    ASSUME IntakeInv, NEW c \in Calls, NEW r \in Runs, StartRun(c, r)
    PROVE  IntakeInv'
<1>. USE WaitConstants DEF IntakeInv, eventVars
<1>1. /\ Becomes(c, "running", NoMessage, r, "request", NoReply)
      /\ UNCHANGED eventVars /\ UNCHANGED <<wait, gate, index>> /\ phase[r] = "absent"
      /\ phase' = [phase EXCEPT ![r] = "working"]
  BY DEF StartRun
<1>2. phase'[r] = "working" /\ \A q \in Runs : Calm(q)
  BY <1>1 DEF IntakeTypeOK, WaitTypeOK, Calm
<1>3. IntakeTypeOK'
  <2>1. WaitTypeOK'
    BY <1>1 DEF IntakeTypeOK, WaitTypeOK
  <2>. QED BY <1>1, <2>1, BegunTyped DEF IntakeTypeOK, Stages, Ways
<1>4. CallsKnown'
  BY <1>1, BegunKnown DEF Stages, Channel
<1>5. StoreKnown'
  BY <1>1, BegunSilent
<1>6. RunsKnown'
  BY <1>1, <1>2, BegunRuns DEF Stages, Channel
<1>. QED BY <1>3, <1>4, <1>5, <1>6

\* The redelivery of a message keeps the invariant.
LEMMA RedeliveredStep ==
    ASSUME IntakeInv, NEW c \in Calls, NEW m \in Messages, Redelivered(c, m)
    PROVE  IntakeInv'
<1>. USE IntakeConstants DEF IntakeInv, eventVars, waitVars
<1>1. /\ Becomes(c, "answered", m, NoRun, "store", StoredReply(m))
      /\ UNCHANGED eventVars /\ UNCHANGED waitVars /\ m \in seen /\ StoredReply(m) # NoReply
  BY DEF Redelivered
<1>2. StoredReply(m) \in Replies
  <2>1. decisions[m] \in Seq(DecisionType) /\ decisions[m] # <<>>
    BY <1>1 DEF StoredReply, IntakeTypeOK
  <2>2. decisions[m][1] \in DecisionType
    BY <2>1
  <2>. QED BY <2>1, <2>2 DEF StoredReply, DecisionType
<1>3. IntakeTypeOK'
  <2>1. WaitTypeOK'
    BY <1>1 DEF IntakeTypeOK, WaitTypeOK
  <2>. QED BY <1>1, <1>2, <2>1, BegunTyped DEF IntakeTypeOK, Stages, Ways
<1>4. CallsKnown'
  BY <1>1, BegunKnown DEF Stages, Channel
<1>5. StoreKnown'
  BY RedeliveredKeeps
<1>6. RunsKnown'
  <2>1. \A q \in Runs : Calm(q)
    BY <1>1 DEF Calm
  <2>. QED BY <1>1, <2>1, BegunRuns DEF Stages, Channel
<1>. QED BY <1>3, <1>4, <1>5, <1>6

\* A message that decides an approval keeps the invariant.
LEMMA MessageResumesStep ==
    ASSUME IntakeInv, NEW c \in Calls, NEW m \in Messages, MessageResumes(c, m)
    PROVE  IntakeInv'
<1>. USE IntakeConstants DEF IntakeInv, eventVars
<1>1. PICK r \in Runs : r = WaitingApproval /\ wait[r] \in Gates /\ r \in ByMessage
  BY ApprovalWaits DEF MessageResumes, RunsKnown
<1>2. /\ Becomes(c, "running", m, r, "channel-approval", NoReply)
      /\ Ingest(m) /\ CompleteWaiting(wait[r], r) /\ UNCHANGED origin
  BY <1>1 DEF MessageResumes
<1>3. WaitTypeOK' /\ phase'[r] = "working" /\ \A q \in Runs : Calm(q)
  BY <1>2, CompleteTyped DEF IntakeTypeOK
<1>4. /\ bodies' \in Seq(Messages) /\ seen' = seen \cup {m}
      /\ decisions' \in [Messages -> Seq(DecisionType)]
      /\ \A n \in Messages : decisions'[n] = decisions[n] \/ decisions'[n] = <<>>
  BY <1>2, IngestKeeps
<1>5. IntakeTypeOK'
  BY <1>2, <1>3, <1>4, BegunTyped DEF IntakeTypeOK, Stages, Ways
<1>6. CallsKnown'
  BY <1>2, <1>4, BegunKnown DEF Stages, Channel
<1>7. StoreKnown'
  BY <1>2, IngestedKeeps
<1>8. RunsKnown'
  BY <1>1, <1>2, <1>3, <1>4, BegunRuns DEF Stages, Channel
<1>. QED BY <1>5, <1>6, <1>7, <1>8

\* A message that starts a run keeps the invariant.
LEMMA MessageStartsStep ==
    ASSUME IntakeInv, NEW c \in Calls, NEW m \in Messages, NEW r \in Runs, MessageStarts(c, m, r)
    PROVE  IntakeInv'
<1>. USE IntakeConstants DEF IntakeInv, eventVars
<1>1. /\ Becomes(c, "running", m, r, "channel-direct", NoReply)
      /\ Ingest(m) /\ phase[r] = "absent" /\ phase' = [phase EXCEPT ![r] = "working"]
      /\ UNCHANGED <<wait, gate, index>>
  BY DEF MessageStarts
<1>2. WaitTypeOK' /\ phase'[r] = "working" /\ \A q \in Runs : Calm(q)
  BY <1>1 DEF IntakeTypeOK, WaitTypeOK, Calm
<1>3. /\ bodies' \in Seq(Messages) /\ seen' = seen \cup {m}
      /\ decisions' \in [Messages -> Seq(DecisionType)]
      /\ \A n \in Messages : decisions'[n] = decisions[n] \/ decisions'[n] = <<>>
  BY <1>1, IngestKeeps
<1>4. IntakeTypeOK'
  BY <1>1, <1>2, <1>3, BegunTyped DEF IntakeTypeOK, Stages, Ways
<1>5. CallsKnown'
  BY <1>1, <1>3, BegunKnown DEF Stages, Channel
<1>6. StoreKnown'
  BY <1>1, IngestedKeeps
<1>7. RunsKnown'
  BY <1>1, <1>2, <1>3, BegunRuns DEF Stages, Channel
<1>. QED BY <1>4, <1>5, <1>6, <1>7

(* Calls that bring no message and begin by what they do to the waits.       *)
LEMMA WaitCallStep ==
    ASSUME IntakeInv, NEW c \in Calls, NEW st \in Stages \ {"new"}, NEW r \in Runs \cup {NoRun},
           NEW by \in Ways \ (Channel \cup {"none", "request", "store"}),
           Becomes(c, st, NoMessage, r, by, NoReply), UNCHANGED eventVars,
           st = "running" <=> r \in Runs,
           WaitTypeOK', \A q \in Runs : Calm(q), r # NoRun => phase'[r] # "absent"
    PROVE  IntakeInv'
<1>. USE WaitConstants DEF IntakeInv, eventVars
<1>1. IntakeTypeOK'
  BY BegunTyped DEF IntakeTypeOK
<1>2. CallsKnown'
  BY BegunKnown
<1>3. StoreKnown'
  BY BegunSilent
<1>4. RunsKnown'
  BY BegunRuns
<1>. QED BY <1>1, <1>2, <1>3, <1>4

\* A job's completion keeps the invariant.
LEMMA CompletionStep ==
    ASSUME IntakeInv, NEW c \in Calls, NEW h \in Handles, Completion(c, h)
    PROVE  IntakeInv'
<1>. USE WaitConstants
<1>1. WaitTypeOK /\ UNCHANGED eventVars
  BY DEF IntakeInv, IntakeTypeOK, Completion
<1>2. ASSUME NEW r \in Runs, CompleteWaiting(h, r),
             Becomes(c, "running", NoMessage, r, "completion", NoReply)
      PROVE  IntakeInv'
  <2>1. WaitTypeOK' /\ phase'[r] # "absent" /\ \A q \in Runs : Calm(q)
    BY <1>1, <1>2, CompleteTyped
  <2>. QED BY <1>1, <1>2, <2>1, WaitCallStep DEF Stages, Ways, Channel
<1>3. ASSUME NotCompleted(h), NEW st \in {"answered", "failed"},
             Becomes(c, st, NoMessage, NoRun, "completion", NoReply)
      PROVE  IntakeInv'
  <2>1. WaitTypeOK' /\ \A q \in Runs : Calm(q)
    BY <1>1, <1>3, NotCompletedTyped
  <2>. QED BY <1>1, <1>3, <2>1, WaitCallStep DEF Stages, Ways, Channel
<1>. QED BY <1>2, <1>3 DEF Completion

\* A page's decision keeps the invariant.
LEMMA ActionStep ==
    ASSUME IntakeInv, NEW c \in Calls, NEW r \in Runs, NEW a, NEW same, Action(c, r, a, same)
    PROVE  IntakeInv'
<1>. USE WaitConstants
<1>1. WaitTypeOK /\ UNCHANGED eventVars /\ phase[r] = "parked"
  BY DEF IntakeInv, IntakeTypeOK, Action
<1>2. ASSUME NEW owner \in Runs, CompleteWaiting(wait[r], owner),
             Becomes(c, "running", NoMessage, r, "action", NoReply)
      PROVE  IntakeInv'
  <2>1. WaitTypeOK' /\ \A q \in Runs : Calm(q)
    BY <1>1, <1>2, CompleteTyped
  <2>2. phase'[r] # "absent"
    BY <1>1, <2>1 DEF Calm
  <2>. QED BY <1>1, <1>2, <2>1, <2>2, WaitCallStep DEF Stages, Ways, Channel
<1>3. ASSUME NotCompleted(wait[r]) \/ UNCHANGED waitVars,
             Becomes(c, "failed", NoMessage, NoRun, "action", NoReply)
      PROVE  IntakeInv'
  <2>1. WaitTypeOK' /\ \A q \in Runs : Calm(q)
    <3>1. CASE NotCompleted(wait[r])
      BY <1>1, <3>1, NotCompletedTyped
    <3>2. CASE UNCHANGED waitVars
      BY <1>1, <3>2 DEF waitVars, WaitTypeOK, Calm
    <3>. QED BY <1>3, <3>1, <3>2
  <2>. QED BY <1>1, <1>3, <2>1, WaitCallStep DEF Stages, Ways, Channel
<1>. QED BY <1>2, <1>3 DEF Action

\* A resume keeps the invariant.
LEMMA ResumeStep ==
    ASSUME IntakeInv, NEW c \in Calls, NEW r \in Runs, Resume(c, r)
    PROVE  IntakeInv'
<1>. USE WaitConstants
<1>1. /\ WaitTypeOK /\ UNCHANGED eventVars /\ UNCHANGED waitVars /\ phase[r] # "absent"
      /\ Becomes(c, "running", NoMessage, r, "operator", NoReply)
  BY DEF IntakeInv, IntakeTypeOK, Resume
<1>2. WaitTypeOK' /\ phase'[r] # "absent" /\ \A q \in Runs : Calm(q)
  BY <1>1 DEF waitVars, WaitTypeOK, Calm
<1>. QED BY <1>1, <1>2, WaitCallStep DEF Stages, Ways, Channel

(* The run parks or ends while a call drives it.                             *)
LEMMA DrivenRunStep ==
    ASSUME IntakeInv, NEW r \in Runs, RunStep(r)
    PROVE  IntakeInv'
<1>. USE DEF IntakeInv, callVars, eventVars
<1>1. PICK c \in Calls : stage[c] = "running" /\ drives[c] = r
  BY DEF RunStep, Running
<1>2. UNCHANGED callVars /\ UNCHANGED eventVars
  BY DEF RunStep
<1>3. WaitTypeOK' /\ phase'[r] # "absent" /\ \A q \in Runs \ {r} : Calm(q)
  <2>1. ASSUME NEW h \in NextWaits(r), RecordWaiting(r, h)
        PROVE  WaitTypeOK' /\ phase'[r] # "absent" /\ \A q \in Runs \ {r} : Calm(q)
    <3>1. index' \in [Handles -> Runs \cup {NoRun}]
      BY <2>1 DEF IntakeTypeOK, WaitTypeOK, RecordWaiting
    <3>. QED BY <2>1, <3>1, SaveWaitingTyped DEF RecordWaiting, IntakeTypeOK, WaitTypeOK
  <2>2. ASSUME FinishRun(r)
        PROVE  WaitTypeOK' /\ phase'[r] # "absent" /\ \A q \in Runs \ {r} : Calm(q)
    BY <2>2 DEF FinishRun, IntakeTypeOK, WaitTypeOK, Calm
  <2>. QED BY <2>1, <2>2 DEF RunStep
<1>4. IntakeTypeOK'
  BY <1>2, <1>3 DEF IntakeTypeOK
<1>5. CallsKnown'
  BY <1>2 DEF CallsKnown, BlankIfNew, Driving, OfMessage
<1>6. StoreKnown'
  BY <1>2 DEF StoreKnown, KeptSeen, DecisionsStored, AnswersStored, Kept, Overlapped
<1>7. ByMessage' = ByMessage
  BY <1>2 DEF ByMessage
<1>8. DrivenExist' /\ RequestsApart' /\ DecidedByMessage'
  <2>1. \A d \in Calls : drives[d] \in Runs \cup {NoRun}
    BY DEF IntakeTypeOK
  <2>. QED BY <1>2, <1>3, <1>7, <2>1 DEF RunsKnown, DrivenExist, RequestsApart, DecidedByMessage, Calm
<1>9. ParkedAsked'
  <2>. SUFFICES ASSUME NEW q \in Runs, NEW k \in 1..MaxGates, phase'[q] = "parked", wait'[q] \in Gates,
                       wait'[q][2] = k, q \in ByMessage'
                PROVE  Asked(q, k)' \/ Elsewhere(q)'
    BY DEF ParkedAsked, Gates
  <2>1. CASE q = r
    BY <1>1, <1>2, <2>1 DEF Elsewhere
  <2>2. CASE q # r
    <3>1. Asked(q, k) \/ Elsewhere(q)
      BY <1>3, <1>7, <2>2 DEF Calm, RunsKnown, ParkedAsked
    <3>. QED BY <1>2, <3>1 DEF Asked, Elsewhere
  <2>. QED BY <2>1, <2>2
<1>. QED BY <1>4, <1>5, <1>6, <1>8, <1>9 DEF RunsKnown

(* A call ends: it has failed, or is lost with the process.                  *)
LEMMA RaisesStep ==
    ASSUME IntakeInv, NEW c \in Calls, Raises(c)
    PROVE  IntakeInv'
<1>. USE DEF IntakeInv, eventVars, waitVars
<1>1. /\ stage[c] = "running" /\ stage' = [stage EXCEPT ![c] = "failed"]
      /\ UNCHANGED <<phase, wait, gate, index, message, drives, how, got, eventVars>>
  BY DEF Raises
<1>2. stage'[c] = "failed" /\ \A d \in Calls \ {c} : stage'[d] = stage[d]
  BY <1>1 DEF IntakeTypeOK
<1>3. IntakeTypeOK'
  BY <1>1 DEF IntakeTypeOK, WaitTypeOK, Stages
<1>4. CallsKnown'
  BY <1>1, <1>2 DEF CallsKnown, BlankIfNew, Driving, OfMessage
<1>5. StoreKnown'
  BY <1>1, <1>2 DEF StoreKnown, KeptSeen, DecisionsStored, AnswersStored, Kept, Overlapped
<1>6. RunsKnown'
  BY <1>1, <1>2 DEF RunsKnown, DrivenExist, RequestsApart, DecidedByMessage, ParkedAsked, ByMessage,
                    Asked, Elsewhere
<1>. QED BY <1>3, <1>4, <1>5, <1>6

\* A crash keeps the invariant: the calls are lost, the store is not.
LEMMA CrashStep ==
    ASSUME IntakeInv, Crash
    PROVE  IntakeInv'
<1>. USE DEF IntakeInv, eventVars
<1>1. /\ stage' = [c \in Calls |-> IF stage[c] = "running" THEN "lost" ELSE stage[c]]
      /\ UNCHANGED <<message, drives, how, got, eventVars>>
  BY DEF Crash, Running
<1>2. /\ stage' \in [Calls -> Stages]
      /\ \A c \in Calls : stage'[c] = IF stage[c] = "running" THEN "lost" ELSE stage[c]
  BY <1>1 DEF IntakeTypeOK, Stages
<1>3. /\ WaitTypeOK'
      /\ \A q \in Runs : \/ Calm(q)
                         \/ /\ phase'[q] # "absent"
                            /\ \E c \in Calls : stage[c] = "running" /\ drives[c] = q
  <2>. USE DEF IntakeTypeOK
  <2>1. ASSUME UNCHANGED waitVars PROVE WaitTypeOK' /\ \A q \in Runs : Calm(q)
    BY <2>1 DEF waitVars, WaitTypeOK, Calm
  <2>2. ASSUME NEW c \in Running, NEW h \in NextWaits(drives[c]), SaveWaiting(drives[c], h),
               UNCHANGED index
        PROVE  WaitTypeOK' /\ phase'[drives[c]] = "parked" /\ \A q \in Runs \ {drives[c]} : Calm(q)
    <3>1. drives[c] \in Runs
      BY <2>2 DEF Running, CallsKnown, Driving
    <3>2. index' \in [Handles -> Runs \cup {NoRun}]
      BY <2>2 DEF WaitTypeOK
    <3>. QED BY <2>2, <3>1, <3>2, SaveWaitingTyped DEF WaitTypeOK
  <2>3. ASSUME NEW r \in Runs, SaveCompletion(r), UNCHANGED index
        PROVE  WaitTypeOK' /\ \A q \in Runs : Calm(q)
    <3>1. index' \in [Handles -> Runs \cup {NoRun}]
      BY <2>3 DEF WaitTypeOK
    <3>. QED BY <2>3, <3>1, SaveCompletionTyped DEF WaitTypeOK
  <2>. QED BY <2>1, <2>2, <2>3 DEF Crash, Running
<1>4. IntakeTypeOK'
  BY <1>1, <1>2, <1>3 DEF IntakeTypeOK
<1>5. CallsKnown'
  BY <1>1, <1>2 DEF CallsKnown, BlankIfNew, Driving, OfMessage
<1>6. StoreKnown'
  BY <1>1, <1>2 DEF StoreKnown, KeptSeen, DecisionsStored, AnswersStored, Kept, Overlapped
<1>7. ByMessage' = ByMessage
  BY <1>1 DEF ByMessage
<1>8. DrivenExist' /\ RequestsApart' /\ DecidedByMessage'
  <2>1. \A d \in Calls : drives[d] \in Runs \cup {NoRun}
    BY DEF IntakeTypeOK
  <2>. QED BY <1>1, <1>3, <1>7, <2>1 DEF RunsKnown, DrivenExist, RequestsApart, DecidedByMessage, Calm
<1>9. ParkedAsked'
  <2>. SUFFICES ASSUME NEW q \in Runs, NEW k \in 1..MaxGates, phase'[q] = "parked", wait'[q] \in Gates,
                       wait'[q][2] = k, q \in ByMessage'
                PROVE  Asked(q, k)' \/ Elsewhere(q)'
    BY DEF ParkedAsked, Gates
  <2>1. CASE \E c \in Calls : stage[c] = "running" /\ drives[c] = q
    BY <1>1, <1>2, <2>1 DEF Elsewhere
  <2>2. CASE ~\E c \in Calls : stage[c] = "running" /\ drives[c] = q
    <3>1. Asked(q, k) \/ Elsewhere(q)
      BY <1>3, <1>7, <2>2 DEF Calm, RunsKnown, ParkedAsked
    <3>. QED BY <1>1, <1>2, <3>1 DEF Asked, Elsewhere
  <2>. QED BY <2>1, <2>2
<1>. QED BY <1>4, <1>5, <1>6, <1>8, <1>9 DEF RunsKnown

\* What a call replies about a run is a reply.
LEMMA ReplyTyped ==
    ASSUME IntakeTypeOK, NEW r \in Runs
    PROVE  Reply(r) \in Replies
<1>1. wait[r] \in Gates => wait[r][2] \in 1..MaxGates
  BY DEF Gates
<1>2. MaxGates \in Nat
  BY WaitConstants
<1>. QED BY <1>1, <1>2 DEF Reply, Replies

(* A decision is appended for a body that is kept, and once.                 *)
LEMMA StoredGrows ==
    ASSUME IntakeTypeOK, NEW m \in Messages, NEW d \in DecisionType, decisions' = Stored(m, d)
    PROVE  /\ decisions' \in [Messages -> Seq(DecisionType)]
           /\ \A n \in Messages \ {m} : decisions'[n] = decisions[n]
           /\ m \notin Kept => decisions'[m] = decisions[m]
           /\ decisions[m] # <<>> => decisions'[m] # <<>> /\ decisions'[m][1] = decisions[m][1]
           /\ m \in Kept /\ decisions[m] = <<>> => decisions'[m] = <<d>>
           /\ \A i \in DOMAIN decisions'[m] :
                 decisions'[m][i] = d \/ (i \in DOMAIN decisions[m] /\ decisions'[m][i] = decisions[m][i])
<1>. DEFINE s == decisions[m]
<1>1. s \in Seq(DecisionType) /\ Append(s, d) \in Seq(DecisionType) /\ Len(s) \in Nat
  BY DEF IntakeTypeOK
<1>2. /\ Len(Append(s, d)) = Len(s) + 1 /\ Append(s, d)[Len(s) + 1] = d /\ Append(s, d) # <<>>
      /\ \A i \in 1..Len(s) : Append(s, d)[i] = s[i]
      /\ DOMAIN Append(s, d) = 1..(Len(s) + 1) /\ DOMAIN s = 1..Len(s)
  BY <1>1
<1>3. CASE decisions' = decisions /\ (m \notin Kept \/ \E i \in DOMAIN s : s[i].by = d.by)
  <2>1. s = <<>> => DOMAIN s = {}
    OBVIOUS
  <2>. QED BY <1>3, <2>1 DEF IntakeTypeOK
<1>4. CASE decisions' = [decisions EXCEPT ![m] = Append(s, d)] /\ m \in Kept
  <2>1. decisions' \in [Messages -> Seq(DecisionType)] /\ decisions'[m] = Append(s, d)
        /\ \A n \in Messages \ {m} : decisions'[n] = decisions[n]
    BY <1>1, <1>4 DEF IntakeTypeOK
  <2>2. s # <<>> => 1 \in 1..Len(s)
    BY <1>1
  <2>3. s = <<>> => Append(s, d) = <<d>>
    BY <1>1
  <2>4. \A i \in 1..(Len(s) + 1) : i = Len(s) + 1 \/ i \in 1..Len(s)
    BY <1>1
  <2>. HIDE DEF s
  <2>5. ASSUME NEW i \in DOMAIN decisions'[m]
        PROVE  decisions'[m][i] = d \/ (i \in DOMAIN s /\ decisions'[m][i] = s[i])
    <3>1. decisions'[m] = Append(s, d) /\ i \in 1..(Len(s) + 1)
      BY <1>2, <2>1
    <3>2. CASE i = Len(s) + 1
      BY <1>2, <3>1, <3>2
    <3>3. CASE i \in 1..Len(s)
      <4>1. Append(s, d)[i] = s[i] /\ i \in DOMAIN s
        BY <1>2, <3>3
      <4>. QED BY <3>1, <4>1
    <3>. QED BY <2>4, <3>1, <3>2, <3>3
  <2>6. s # <<>> => decisions'[m] # <<>> /\ decisions'[m][1] = s[1]
    BY <1>2, <2>1, <2>2
  <2>. QED BY <1>4, <2>1, <2>3, <2>5, <2>6 DEF s
<1>. QED BY <1>3, <1>4 DEF Stored, Kept

(* A delivery that returns stores its reply with the body, if that is kept.  *)
LEMMA ReturnsStores ==
    ASSUME IntakeInv, NEW c \in Calls, Returns(c)
    PROVE  /\ stage[c] = "running" /\ stage' = [stage EXCEPT ![c] = "answered"]
           /\ stage'[c] = "answered" /\ \A e \in Calls \ {c} : stage'[e] = stage[e]
           /\ UNCHANGED <<waitVars, message, drives, how, seen, bodies, origin, crashes>>
           /\ message[c] = NoMessage => UNCHANGED <<got, decisions>>
           /\ message[c] # NoMessage =>
                 /\ got' = [got EXCEPT ![c] = Reply(drives[c])] /\ how[c] \in Channel
                 /\ decisions' = Stored(message[c], [by |-> how[c], run |-> drives[c],
                                                     reply |-> Reply(drives[c])])
           /\ drives[c] \in Runs /\ got[c] = NoReply /\ how[c] # "none"
<1>1. stage[c] = "running" /\ stage' = [stage EXCEPT ![c] = "answered"]
  BY DEF Returns
<1>2. drives[c] \in Runs /\ got[c] = NoReply /\ how[c] # "none"
  BY <1>1 DEF IntakeInv, CallsKnown, Driving
<1>3. message[c] # NoMessage => how[c] \in Channel
  BY <1>1 DEF IntakeInv, CallsKnown, OfMessage
<1>4. stage'[c] = "answered" /\ \A e \in Calls \ {c} : stage'[e] = stage[e]
  BY <1>1 DEF IntakeInv, IntakeTypeOK
<1>. QED BY <1>1, <1>2, <1>3, <1>4 DEF Returns

\* A channel's call that returns keeps the invariant: its reply is stored
\* under its message before it is sent.
LEMMA ReturnsAnswers ==
    ASSUME IntakeInv, NEW c \in Calls, Returns(c), message[c] # NoMessage
    PROVE  IntakeTypeOK' /\ CallsKnown' /\ StoreKnown' /\ DecidedByMessage'
<1>. DEFINE m == message[c]
            d == [by |-> how[c], run |-> drives[c], reply |-> Reply(drives[c])]
<1>. USE DEF IntakeInv
<1>1. /\ stage'[c] = "answered" /\ \A e \in Calls \ {c} : stage'[e] = stage[e]
      /\ UNCHANGED <<waitVars, message, drives, how, seen, bodies, origin, crashes>>
      /\ got' = [got EXCEPT ![c] = Reply(drives[c])] /\ how[c] \in Channel
      /\ decisions' = Stored(m, d) /\ drives[c] \in Runs
      /\ stage[c] = "running" /\ stage' = [stage EXCEPT ![c] = "answered"]
  BY ReturnsStores
<1>2. m \in Messages /\ d \in DecisionType /\ Reply(drives[c]) \in Replies
  BY <1>1, ReplyTyped DEF IntakeTypeOK, DecisionType, Ways
<1>. HIDE DEF d
<1>3. /\ decisions' \in [Messages -> Seq(DecisionType)]
      /\ \A n \in Messages \ {m} : decisions'[n] = decisions[n]
      /\ m \notin Kept => decisions'[m] = decisions[m]
      /\ decisions[m] # <<>> => decisions'[m] # <<>> /\ decisions'[m][1] = decisions[m][1]
      /\ m \in Kept /\ decisions[m] = <<>> => decisions'[m] = <<d>>
      /\ \A i \in DOMAIN decisions'[m] :
            decisions'[m][i] = d \/ (i \in DOMAIN decisions[m] /\ decisions'[m][i] = decisions[m][i])
  BY <1>1, <1>2, StoredGrows
<1>4. got'[c] = d.reply /\ \A e \in Calls \ {c} : got'[e] = got[e]
  BY <1>1 DEF IntakeTypeOK, d
<1>5. IntakeTypeOK'
  BY <1>1, <1>2, <1>3 DEF IntakeTypeOK, WaitTypeOK, Stages, waitVars
<1>6. CallsKnown'
  BY <1>1, <1>4 DEF CallsKnown, BlankIfNew, Driving, OfMessage, Channel
<1>7. KeptSeen' /\ Kept' = Kept
  BY <1>1, <1>2, <1>3 DEF StoreKnown, KeptSeen, Kept
<1>8. DecisionsStored'
  <2>. SUFFICES ASSUME NEW n \in Messages, decisions'[n] # <<>>
                PROVE  \E e \in Calls : message'[e] = n /\ how'[e] \in Channel /\ stage'[e] = "answered"
    BY DEF DecisionsStored
  <2>1. CASE n = m
    BY <1>1, <2>1
  <2>2. CASE n # m
    BY <1>1, <1>3, <2>2 DEF StoreKnown, DecisionsStored
  <2>. QED BY <2>1, <2>2
<1>9. \A n \in Messages : Overlapped(n) => Overlapped(n)'
  BY <1>1 DEF Overlapped
<1>10. AnswersStored'
  <2>. SUFFICES ASSUME NEW e \in Calls, NEW n \in Kept, message[e] = n, stage'[e] = "answered"
                PROVE  decisions'[n] # <<>> /\ (got'[e] = decisions'[n][1].reply \/ Overlapped(n)')
    BY <1>1, <1>7 DEF AnswersStored
  <2>0. n \in Messages
    BY BodiesAreMessages
  <2>1. CASE e # c
    <3>1. decisions[n] # <<>> /\ (got[e] = decisions[n][1].reply \/ Overlapped(n))
      BY <1>1, <2>1 DEF StoreKnown, AnswersStored
    <3>2. decisions'[n] # <<>> /\ decisions'[n][1] = decisions[n][1]
      BY <1>3, <2>0, <3>1
    <3>. QED BY <1>4, <1>9, <2>0, <2>1, <3>1, <3>2
  <2>2. CASE e = c /\ decisions[m] = <<>>
    <3>1. n = m /\ decisions'[n] = <<d>>
      BY <1>3, <2>2
    <3>. QED BY <1>4, <2>2, <3>1
  <2>3. CASE e = c /\ decisions[m] # <<>>
    <3>1. n = m
      BY <2>3
    <3>2. PICK o \in Calls : message[o] = m /\ how[o] \in Channel /\ stage[o] = "answered"
      BY <1>2, <2>3 DEF StoreKnown, DecisionsStored
    <3>3. Overlapped(m)
      BY <1>1, <3>2 DEF Overlapped, Channel
    <3>. QED BY <1>2, <1>3, <1>9, <2>3, <3>1, <3>3
  <2>. QED BY <2>1, <2>2, <2>3
<1>11. DecidedByMessage'
  <2>. SUFFICES ASSUME NEW n \in Messages, NEW i \in DOMAIN decisions'[n]
                PROVE  decisions'[n][i].run \in ByMessage
    BY <1>1 DEF DecidedByMessage, ByMessage
  <2>1. drives[c] \in ByMessage /\ d.run = drives[c]
    BY <1>1 DEF ByMessage, d
  <2>2. CASE n = m
    BY <1>2, <1>3, <2>1, <2>2 DEF RunsKnown, DecidedByMessage
  <2>3. CASE n # m
    BY <1>3, <2>3 DEF RunsKnown, DecidedByMessage
  <2>. QED BY <2>2, <2>3
<1>. QED BY <1>5, <1>6, <1>7, <1>8, <1>10, <1>11 DEF StoreKnown

\* A call that returns keeps the invariant.
LEMMA ReturnsStep ==
    ASSUME IntakeInv, NEW c \in Calls, Returns(c)
    PROVE  IntakeInv'
<1>. USE DEF IntakeInv
<1>1. /\ stage'[c] = "answered" /\ \A e \in Calls \ {c} : stage'[e] = stage[e]
      /\ UNCHANGED <<waitVars, message, drives, how, seen, bodies, origin, crashes>>
      /\ drives[c] \in Runs /\ got[c] = NoReply /\ how[c] # "none"
      /\ stage[c] = "running" /\ stage' = [stage EXCEPT ![c] = "answered"]
  BY ReturnsStores
<1>2. IntakeTypeOK' /\ CallsKnown' /\ StoreKnown' /\ DecidedByMessage'
  <2>1. CASE message[c] # NoMessage
    BY <2>1, ReturnsAnswers
  <2>2. CASE message[c] = NoMessage
    <3>1. UNCHANGED <<got, decisions>>
      BY <2>2, ReturnsStores
    <3>2. IntakeTypeOK'
      BY <1>1, <3>1 DEF IntakeTypeOK, WaitTypeOK, Stages, waitVars
    <3>3. CallsKnown'
      BY <1>1, <2>2, <3>1, IntakeConstants DEF CallsKnown, BlankIfNew, Driving, OfMessage, Channel
    <3>4. StoreKnown'
      <4>1. message[c] \notin Kept
        BY <2>2, BodiesAreMessages, IntakeConstants
      <4>. QED BY <1>1, <2>2, <3>1, <4>1 DEF StoreKnown, KeptSeen, DecisionsStored, AnswersStored, Kept, Overlapped
    <3>5. DecidedByMessage'
      BY <1>1, <3>1 DEF RunsKnown, DecidedByMessage, ByMessage
    <3>. QED BY <3>2, <3>3, <3>4, <3>5
  <2>. QED BY <2>1, <2>2
<1>3. ByMessage' = ByMessage /\ DrivenExist' /\ RequestsApart'
  BY <1>1 DEF ByMessage, RunsKnown, DrivenExist, RequestsApart, waitVars
<1>4. ParkedAsked'
  <2>. SUFFICES ASSUME NEW q \in Runs, NEW k \in 1..MaxGates, phase[q] = "parked", wait[q] \in Gates,
                       wait[q][2] = k, q \in ByMessage
                PROVE  Asked(q, k)' \/ Elsewhere(q)'
    BY <1>1, <1>3 DEF ParkedAsked, waitVars
  <2>1. CASE Asked(q, k)
    <3>1. PICK e \in Calls : message[e] # NoMessage /\ got[e] = <<q, k>>
      BY <2>1 DEF Asked
    <3>2. e # c
      <4>1. <<q, k>> # NoReply
        BY DEF NoReply
      <4>. QED BY <1>1, <3>1, <4>1
    <3>3. got'[e] = got[e]
      BY <3>2, ReturnsStores DEF IntakeTypeOK
    <3>. QED BY <1>1, <3>1, <3>3 DEF Asked
  <2>2. CASE Elsewhere(q) /\ drives[c] # q
    BY <1>1, <2>2 DEF Elsewhere
  <2>3. CASE drives[c] = q
    <3>1. CASE message[c] # NoMessage
      <4>1. Reply(q) = <<q, k>>
        BY DEF Reply
      <4>2. got'[c] = <<q, k>>
        BY <2>3, <3>1, <4>1, ReturnsStores DEF IntakeTypeOK
      <4>. QED BY <1>1, <3>1, <4>2 DEF Asked
    <3>2. CASE message[c] = NoMessage
      <4>1. how[c] \in {"request", "completion", "action", "operator"}
        BY <1>1, <3>2 DEF CallsKnown, OfMessage, IntakeTypeOK, Ways, Channel
      <4>2. how[c] # "request"
        BY <2>3 DEF RunsKnown, RequestsApart
      <4>. QED BY <1>1, <2>3, <4>1, <4>2 DEF Elsewhere
    <3>. QED BY <3>1, <3>2
  <2>4. Asked(q, k) \/ Elsewhere(q)
    BY DEF RunsKnown, ParkedAsked
  <2>. QED BY <2>1, <2>2, <2>3, <2>4
<1>. QED BY <1>2, <1>3, <1>4 DEF RunsKnown

\* Every step keeps the invariant, the stutter included.
LEMMA IntakeStep == IntakeInv /\ [IntakeNext]_vars => IntakeInv'
<1>. SUFFICES ASSUME IntakeInv, [IntakeNext]_vars PROVE IntakeInv'
  OBVIOUS
<1>1. ASSUME NEW c \in Calls, NEW m \in Messages,
             Redelivered(c, m) \/ MessageResumes(c, m) \/ \E r \in Runs : MessageStarts(c, m, r)
      PROVE  IntakeInv'
  BY <1>1, RedeliveredStep, MessageResumesStep, MessageStartsStep
<1>2. ASSUME NEW c \in Calls, NEW h \in Handles, Completion(c, h) PROVE IntakeInv'
  BY <1>2, CompletionStep
<1>3. ASSUME NEW c \in Calls, NEW r \in Runs,
             \/ \E a \in {"approve", "reject", "rerun"}, same \in BOOLEAN : Action(c, r, a, same)
             \/ StartRun(c, r) \/ Resume(c, r)
      PROVE  IntakeInv'
  BY <1>3, ActionStep, StartRunStep, ResumeStep
<1>4. ASSUME NEW c \in Calls, Returns(c) \/ Raises(c) PROVE IntakeInv'
  BY <1>4, ReturnsStep, RaisesStep
<1>5. ASSUME NEW r \in Runs, RunStep(r) PROVE IntakeInv'
  BY <1>5, DrivenRunStep
<1>6. ASSUME UNCHANGED vars PROVE IntakeInv'
  <2>. USE <1>6 DEF vars, waitVars, callVars, eventVars, IntakeInv
  <2>1. IntakeTypeOK'
    BY DEF IntakeTypeOK, WaitTypeOK
  <2>2. CallsKnown' /\ StoreKnown'
    BY DEF CallsKnown, BlankIfNew, Driving, OfMessage, StoreKnown, KeptSeen, DecisionsStored,
           AnswersStored, Kept, Overlapped
  <2>3. ByMessage' = ByMessage
    BY DEF ByMessage
  <2>4. DrivenExist' /\ RequestsApart' /\ DecidedByMessage'
    BY <2>3 DEF RunsKnown, DrivenExist, RequestsApart, DecidedByMessage
  <2>5. ParkedAsked'
    <3>1. \A r, k : (Asked(r, k)' <=> Asked(r, k)) /\ (Elsewhere(r)' <=> Elsewhere(r))
      BY DEF Asked, Elsewhere
    <3>. QED BY <2>3, <3>1 DEF RunsKnown, ParkedAsked
  <2>. QED BY <2>1, <2>2, <2>4, <2>5 DEF RunsKnown
<1>. QED BY <1>1, <1>2, <1>3, <1>4, <1>5, <1>6, CrashStep DEF IntakeNext

(* Calls, the event store, the runs and the index are typed and agree about  *)
(* each other, for any runs, messages and requests (routes.py, store.py).    *)
THEOREM IntakeInvHolds == IntakeSpec => []IntakeInv
<1>1. IntakeInit => IntakeInv
  BY InitHolds
<1>2. IntakeInv /\ [IntakeNext]_vars => IntakeInv'
  BY IntakeStep
<1>. QED BY <1>1, <1>2, PTL DEF IntakeSpec

(* A completion that arrives while one node waits for its handle completes   *)
(* it, whatever a crash left in the index; one that changes a run found it   *)
(* waiting (store.py: _find_waiting, complete_waiting).                      *)
THEOREM CallbackAlwaysTakesEffect == IntakeSpec => CallbackTakesEffect
<1>. DEFINE Effect == \A c \in Calls, h \in Handles :
                         Began(c) /\ Completion(c, h) =>
                            /\ \A r \in Runs : Parked(h) = {r} => Parked(h)' = {}
                            /\ phase' # phase => Parked(h) # {}
<1>1. IntakeInv /\ [IntakeNext]_vars => [Effect]_vars
  <2>. SUFFICES ASSUME IntakeInv, NEW c \in Calls, NEW h \in Handles, Completion(c, h)
                PROVE  /\ \A r \in Runs : Parked(h) = {r} => Parked(h)' = {}
                       /\ phase' # phase => Parked(h) # {}
    OBVIOUS
  <2>0. WaitTypeOK
    BY DEF IntakeInv, IntakeTypeOK
  <2>1. ASSUME NEW r \in Runs, CompleteWaiting(h, r)
        PROVE  /\ \A q \in Runs : Parked(h) = {q} => Parked(h)' = {}
               /\ Parked(h) # {}
    <3>1. r \in Parked(h)
      BY <2>1, FoundWaits DEF CompleteWaiting
    <3>2. phase'[r] = "working" /\ \A q \in Runs : Calm(q)
      BY <2>0, <2>1, CompleteTyped
    <3>3. Parked(h)' \subseteq Parked(h) \ {r}
      BY <3>2 DEF Parked, Calm
    <3>. QED BY <3>1, <3>3
  <2>2. ASSUME NotCompleted(h)
        PROVE  (\A q \in Runs : Parked(h) # {q}) /\ phase' = phase
    BY <2>2, NotOneWaits, FS_Singleton DEF NotCompleted
  <2>. QED BY <2>1, <2>2 DEF Completion
<1>. QED BY <1>1, IntakeInvHolds, PTL DEF IntakeSpec, CallbackTakesEffect

(* Who begins with a message: a delivery answered from the store, or one     *)
(* that ingests it, which happens only while nothing is stored for it.       *)
LEMMA BeganWithMessage ==
    ASSUME IntakeInv, IntakeNext, NEW c \in Calls, Began(c), message'[c] # NoMessage
    PROVE  \/ Redelivered(c, message'[c])
           \/ /\ message'[c] \in Messages /\ (decisions[message'[c]] = <<>> \/ message'[c] \notin seen)
              /\ how'[c] = "channel-approval" => MessageResumes(c, message'[c])
<1>. USE DEF IntakeInv
<1>1. ASSUME NEW d \in Calls, NEW st, NEW m, NEW r, NEW by, NEW reply, Becomes(d, st, m, r, by, reply)
      PROVE  d = c /\ m = message'[c] /\ by = how'[c]
  BY <1>1, Begun DEF Began
<1>2. ASSUME NEW m \in Messages, m \in seen => StoredReply(m) = NoReply
      PROVE  decisions[m] = <<>> \/ m \notin seen
  <2>1. ASSUME decisions[m] # <<>> PROVE StoredReply(m) # NoReply
    <3>1. decisions[m][1] \in DecisionType
      <4>1. decisions[m] \in Seq(DecisionType)
        BY DEF IntakeTypeOK
      <4>. QED BY <2>1, <4>1
    <3>2. \A x \in Replies : x # NoReply
      BY DEF Replies, NoReply
    <3>. QED BY <2>1, <3>1, <3>2 DEF StoredReply, DecisionType
  <2>. QED BY <1>2, <2>1
<1>3. ASSUME NEW d \in Calls, NEW m \in Messages, Redelivered(d, m)
      PROVE  Redelivered(c, message'[c])
  <2>1. d = c /\ m = message'[c]
    BY <1>1, <1>3 DEF Redelivered
  <2>. QED BY <1>3, <2>1
<1>4. ASSUME NEW d \in Calls, NEW m \in Messages, MessageResumes(d, m)
      PROVE  /\ message'[c] \in Messages /\ (decisions[message'[c]] = <<>> \/ message'[c] \notin seen)
             /\ MessageResumes(c, message'[c])
  <2>1. d = c /\ m = message'[c]
    BY <1>1, <1>4 DEF MessageResumes
  <2>. QED BY <1>2, <1>4, <2>1 DEF MessageResumes
<1>5. ASSUME NEW d \in Calls, NEW m \in Messages, NEW r \in Runs, MessageStarts(d, m, r)
      PROVE  /\ message'[c] \in Messages /\ (decisions[message'[c]] = <<>> \/ message'[c] \notin seen)
             /\ how'[c] = "channel-direct"
  <2>1. d = c /\ m = message'[c] /\ how'[c] = "channel-direct"
    BY <1>1, <1>5 DEF MessageStarts
  <2>. QED BY <1>2, <1>5, <2>1 DEF MessageStarts
<1>6. ASSUME NEW d \in Calls, NEW r \in Runs,
             \/ \E a \in {"approve", "reject", "rerun"}, same \in BOOLEAN : Action(d, r, a, same)
             \/ StartRun(d, r) \/ Resume(d, r)
      PROVE  FALSE
  <2>1. ASSUME NEW st, NEW q, NEW by, Becomes(d, st, NoMessage, q, by, NoReply) PROVE FALSE
    BY <1>1, <2>1
  <2>. QED BY <1>6, <2>1 DEF Action, StartRun, Resume
<1>7. ASSUME NEW d \in Calls, NEW h \in Handles, Completion(d, h) PROVE FALSE
  <2>1. ASSUME NEW st, NEW q, NEW by, Becomes(d, st, NoMessage, q, by, NoReply) PROVE FALSE
    BY <1>1, <2>1
  <2>. QED BY <1>7, <2>1 DEF Completion
<1>8. ASSUME NEW d \in Calls, Returns(d) \/ Raises(d) PROVE FALSE
  BY <1>8 DEF Returns, Raises, Began, IntakeTypeOK
<1>9. ASSUME NEW r \in Runs, RunStep(r) PROVE FALSE
  BY <1>9 DEF RunStep, callVars, Began
<1>10. ASSUME Crash PROVE FALSE
  BY <1>10 DEF Crash, Began, Running
<1>. QED BY <1>3, <1>4, <1>5, <1>6, <1>7, <1>8, <1>9, <1>10 DEF IntakeNext

(* A message that comes again after an answer is given that answer and moves *)
(* no run, as long as its body is kept and its deliveries did not overlap    *)
(* (routes.py: channel_message; events/store.py: ingest, add_decision).      *)
THEOREM RedeliveriesAlwaysAgree == IntakeSpec => RedeliveryAgrees
<1>. DEFINE Agrees == \A c \in Calls, d \in Calls :
                         /\ Began(c) /\ message'[c] # NoMessage
                         /\ d \in Answers(message'[c])
                         /\ message'[c] \in ToSet(bodies)
                         => /\ UNCHANGED waitVars
                            /\ Overlapped(message'[c]) \/ got'[c] = got[d]
<1>1. IntakeInv /\ [IntakeNext]_vars => [Agrees]_vars
  <2>. SUFFICES ASSUME IntakeInv, IntakeNext, NEW c \in Calls, NEW d \in Calls, NEW m, m = message'[c],
                       Began(c), m # NoMessage, message[d] = m, stage[d] = "answered", m \in Kept
                PROVE  UNCHANGED waitVars /\ (Overlapped(m) \/ got'[c] = got[d])
    BY DEF Answers, Kept
  <2>1. decisions[m] # <<>> /\ (got[d] = decisions[m][1].reply \/ Overlapped(m)) /\ m \in seen
    BY DEF IntakeInv, StoreKnown, AnswersStored, KeptSeen
  <2>2. Redelivered(c, m)
    BY <2>1, BeganWithMessage
  <2>3. UNCHANGED waitVars /\ got'[c] = StoredReply(m)
    BY <2>2, Begun DEF Redelivered, IntakeInv
  <2>. QED BY <2>1, <2>3 DEF StoredReply
<1>. QED BY <1>1, IntakeInvHolds, PTL DEF IntakeSpec, RedeliveryAgrees

(* A message completes only an approval that its conversation was asked to   *)
(* give, unless another call drove the run there (routes.py:                 *)
(* _waiting_channel_approval, _resume_channel_approval).                     *)
THEOREM ApprovalsAlwaysAsked == IntakeSpec => AskedBeforeAnswered
<1>. DEFINE AskedFor == \A c \in Calls :
                           Began(c) /\ how'[c] = "channel-approval" =>
                              LET r == drives'[c] IN Asked(r, wait[r][2]) \/ Elsewhere(r)
<1>1. IntakeInv /\ [IntakeNext]_vars => [AskedFor]_vars
  <2>. SUFFICES ASSUME IntakeInv, IntakeNext, NEW c \in Calls, Began(c), how'[c] = "channel-approval",
                       NEW r, r = drives'[c]
                PROVE  Asked(r, wait[r][2]) \/ Elsewhere(r)
    OBVIOUS
  <2>1. message'[c] # NoMessage
    BY IntakeStep DEF IntakeInv, CallsKnown, OfMessage, Channel
  <2>2. MessageResumes(c, message'[c])
    <3>1. ASSUME Redelivered(c, message'[c]) PROVE FALSE
      BY <3>1, Begun DEF Redelivered, IntakeInv
    <3>. QED BY <2>1, <3>1, BeganWithMessage
  <2>3. r = WaitingApproval
    BY <2>2, Begun DEF MessageResumes, IntakeInv
  <2>4. r \in Runs /\ phase[r] = "parked" /\ wait[r] \in Gates /\ r \in ByMessage
    BY <2>2, <2>3, ApprovalWaits DEF MessageResumes, IntakeInv, RunsKnown
  <2>5. wait[r][2] \in 1..MaxGates
    BY <2>4 DEF Gates
  <2>. QED BY <2>4, <2>5 DEF IntakeInv, RunsKnown, ParkedAsked
<1>. QED BY <1>1, IntakeInvHolds, PTL DEF IntakeSpec, AskedBeforeAnswered
=============================================================================
