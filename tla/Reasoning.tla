------------------------------ MODULE Reasoning ------------------------------
(* Two loops around a model that may be wrong: the refinement ladder with its *)
(* verifier (s17code/reasoning/engine.py, verifier.py) and the rewriting of a *)
(* request before it is planned (jitrl.py).  A verifier's reply is [score,    *)
(* critique, issues, odd]; score is NoScore when the reply holds no JSON      *)
(* object or no integer.  An odd reply has an infinite score, or one in range *)
(* with issues that are no list: it raises what is no VerifierError.          *)
EXTENDS Integers, Sequences, FiniteSets, FiniteSetsExt

NoScore == -2
Refused == -1           \* VerifierError

(* Mutant of Parse: a passing score stands although issues are listed.        *)
ParseTrusting(reply, fast) ==
  IF reply.odd \/ reply.score \notin 0..100 THEN Refused
  ELSE IF reply.score < fast /\ ~ reply.critique THEN Refused
       ELSE reply.score

(* Verifier._parse: issues cap a passing score, and that says why; a failing  *)
(* score that does not say why is no verdict.                                 *)
Parse(reply, fast) ==
  IF reply.odd \/ reply.score \notin 0..100 THEN Refused
  ELSE IF reply.score >= fast /\ reply.issues THEN fast - 1
       ELSE IF reply.score < fast /\ ~ reply.critique THEN Refused
            ELSE reply.score

(* The attempt at which ReasoningEngine.run stops: without a verdict, on the  *)
(* fast path, or at the limit.                                                *)
StopsAt(scores, fast, refinements) ==
  Min({i \in 1..(refinements + 1) :
         scores[i] = Refused \/ scores[i] >= fast \/ i = refinements + 1})

(* _best: the first of the highest; an attempt without a verdict is -1.       *)
Best(scores, n) ==
  Min({i \in 1..n : \A j \in 1..n : scores[j] <= scores[i]})

(* replies[i] is what the verifier says of the i-th attempt.  A run that      *)
(* raised returns nothing; the other fields say what it held by then.         *)
Run(replies, fast, refinements) ==
  LET scores == [i \in DOMAIN replies |-> Parse(replies[i], fast)]
      n      == StopsAt(scores, fast, refinements)
      text   == IF scores[n] >= fast THEN n ELSE Best(scores, n)
  IN [text |-> text, score |-> Max({scores[text], 0}), attempts |-> n,
      verified |-> scores[n] # Refused, raised |-> replies[n].odd]
-----------------------------------------------------------------------------
(* QueryOptimizer._accept: a reply is [json, query, constraints, length,      *)
(* same]: what literals the query and its constraints carry, how long it is   *)
(* and whether it is the request but for its letter case; a request is        *)
(* [literals, length].  raised stands for a model call that failed.           *)
Declined == [rewritten |-> FALSE]

Optimize(request, reply, minLength, raised) ==
  LET carried == reply.query \cup reply.constraints
      longest == 12 * Max({request.length, minLength})
  IN IF \/ request.length = 0 \/ raised
        \/ ~ reply.json \/ reply.length = 0
        \/ ~ request.literals \subseteq carried
        \/ reply.length > longest
     THEN Declined
     ELSE [rewritten |-> ~ reply.same]

(* planning_goal: the literals the planner reads.                             *)
PlanningGoal(request, reply, minLength, raised) ==
  IF Optimize(request, reply, minLength, raised).rewritten
  THEN reply.query \cup reply.constraints \cup request.literals
  ELSE request.literals
-----------------------------------------------------------------------------
(* The text returned is scored no lower than any text the verifier scored, it *)
(* counts as verified only with a verdict of its own that is not below the    *)
(* fast path while issues are listed, and the ladder ends by its limit, in a  *)
(* result or, for an odd reply only, by raising.                              *)
LadderStands(replies, fast, refinements) ==
  LET r == Run(replies, fast, refinements)
      scored == {i \in 1..r.attempts : Parse(replies[i], fast) # Refused}
  IN /\ r.attempts \in 1..(refinements + 1)
     /\ r.raised => ~ r.verified /\ replies[r.attempts].odd
     /\ \A i \in scored : Parse(replies[i], fast) <= r.score
     /\ r.verified => scored = 1..r.attempts
     /\ (r.verified /\ r.score >= fast) => ~ replies[r.text].issues
     /\ (r.attempts <= refinements) => (~ r.verified \/ r.score >= fast)

(* Whatever the model answers, the planner reads every literal the user gave, *)
(* and a rewrite that is used did not lose one itself.                        *)
RewriteStands(request, reply, minLength, raised) ==
  /\ request.literals \subseteq PlanningGoal(request, reply, minLength, raised)
  /\ Optimize(request, reply, minLength, raised).rewritten =>
       request.literals \subseteq reply.query \cup reply.constraints
=============================================================================
