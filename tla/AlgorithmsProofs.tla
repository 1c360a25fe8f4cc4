-------------------------- MODULE AlgorithmsProofs --------------------------
(* What the pure parts promise of every input, not of the inputs of a run:   *)
(* the refinement ladder and the rewriting of a request, prices and tiers,   *)
(* the chunks of a document, the contract of a capability, the choice of a   *)
(* threshold, the wall before a surface, the spans of a trace.               *)
EXTENDS MCAlgorithms, SequenceTheorems, FiniteSetTheorems, NaturalsInduction, TLAPS

\* A set of numbers that is not empty has a least one.
LEMMA LeastOf ==
    ASSUME NEW S \in SUBSET Nat, S # {}
    PROVE  \E n \in S : \A m \in S : n <= m
<1>. DEFINE R == OpToRel(<, Nat)
<1>1. IsWellFoundedOn(R, Nat)
  BY NatLessThanWellFounded
<1>2. PICK n \in S : \A y \in Nat : <<y, n>> \in R => y \notin S
  BY <1>1, WFMin
<1>3. \A y \in Nat : y < n => <<y, n>> \in R
  BY DEF OpToRel
<1>. HIDE DEF R
<1>4. ASSUME NEW m \in S PROVE n <= m
  <2>1. m \in Nat /\ n \in Nat /\ ~(m < n)
    BY <1>2, <1>3
  <2>. QED BY <2>1
<1>. QED BY <1>4

\* A set of numbers below a bound has a greatest one.
LEMMA GreatestOf ==
    ASSUME NEW b \in Int, NEW S, S \subseteq Int, S # {}, \A i \in S : i <= b
    PROVE  \E n \in S : \A m \in S : m <= n
<1>. DEFINE T == {b - i : i \in S}
<1>1. T \in SUBSET Nat /\ T # {}
  <2>1. \A i \in S : b - i \in Nat
    OBVIOUS
  <2>. QED BY <2>1
<1>2. PICK t \in T : \A u \in T : t <= u
  BY <1>1, LeastOf
<1>3. PICK n \in S : t = b - n
  OBVIOUS
<1>4. ASSUME NEW m \in S PROVE m <= n
  <2>1. t <= b - m
    BY <1>2
  <2>. QED BY <1>3, <2>1
<1>. QED BY <1>4
-----------------------------------------------------------------------------
(* The refinement ladder.                                                    *)

Verdicts == [score : Int, critique : BOOLEAN, issues : BOOLEAN, odd : BOOLEAN]

\* The smallest element of a set of places, as Min of Reasoning takes it.
LEMMA SmallestPlace ==
    ASSUME NEW S \in SUBSET Nat, S # {}
    PROVE  Re!Min(S) \in S /\ \A m \in S : Re!Min(S) <= m
BY LeastOf DEF Re!Min

\* A verdict is -1, for none, or at most 100; one that passes lists no issue.
LEMMA ParsedInRange ==
    ASSUME NEW fast \in Nat, NEW reply \in Verdicts
    PROVE  /\ Re!Parse(reply, fast) \in -1..100
           /\ Re!Parse(reply, fast) >= fast => ~reply.issues
BY DEF Re!Parse, Re!Refused, Verdicts

\* The ladder of any replies keeps its promises: the text is scored no lower
\* than any other, a verified one has a verdict of its own, and the ladder ends
\* by its limit (ReasoningEngine.run, Verifier._parse, _best).
THEOREM LadderAlwaysStands ==
    ASSUME NEW fast \in Nat, NEW refinements \in Nat, NEW replies,
           1..(refinements + 1) \subseteq DOMAIN replies,
           \A i \in DOMAIN replies : replies[i] \in Verdicts
    PROVE  Re!LadderStands(replies, fast, refinements)
<1>. DEFINE last == refinements + 1
            scores == [i \in DOMAIN replies |-> Re!Parse(replies[i], fast)]
            stops == {i \in 1..last : scores[i] = -1 \/ scores[i] >= fast \/ i = last}
            n == Re!Min(stops)
            best == {i \in 1..n : \A j \in 1..n : scores[j] <= scores[i]}
            text == IF scores[n] >= fast THEN n ELSE Re!Min(best)
            r == Re!Run(replies, fast, refinements)
<1>1. \A i \in 1..last : /\ scores[i] = Re!Parse(replies[i], fast) /\ scores[i] \in -1..100
                         /\ scores[i] >= fast => ~replies[i].issues
  BY ParsedInRange
<1>2. r = [text |-> text, score |-> Re!Max({scores[text], 0}), attempts |-> n,
           verified |-> scores[n] # -1, raised |-> replies[n].odd]
  BY DEF Re!Run, Re!StopsAt, Re!Best, Re!Refused
<1>. HIDE DEF scores
<1>3. stops \in SUBSET Nat /\ last \in stops
  OBVIOUS
<1>4. n \in stops /\ \A m \in stops : n <= m
  BY <1>3, SmallestPlace
<1>5. n \in 1..last /\ 1..n \subseteq 1..last
  BY <1>4
<1>6. \A i \in 1..n : i # n => scores[i] # -1 /\ ~(scores[i] >= fast)
  BY <1>4, <1>5
<1>. HIDE DEF stops, n
<1>7. best \in SUBSET Nat /\ best # {}
  <2>. DEFINE values == {scores[i] : i \in 1..n}
  <2>1. values \subseteq Int /\ values # {} /\ (\A v \in values : v <= 100) /\ 100 \in Int
    BY <1>1, <1>5
  <2>. HIDE DEF values
  <2>2. PICK v \in values : \A w \in values : w <= v
    BY <2>1, GreatestOf
  <2>. USE DEF values
  <2>3. PICK i \in 1..n : scores[i] = v
    OBVIOUS
  <2>4. i \in best
    BY <2>2, <2>3
  <2>. QED BY <2>4, <1>5
<1>8. Re!Min(best) \in best
  BY <1>7, SmallestPlace
<1>9. /\ text \in 1..n
      /\ \A j \in 1..n : scores[j] <= scores[text]
      /\ scores[n] >= fast => text = n
  <2>1. CASE scores[n] >= fast
    <3>1. text = n /\ n \in 1..n
      BY <2>1, <1>5
    <3>2. ASSUME NEW j \in 1..n PROVE scores[j] <= scores[n]
      <4>1. scores[j] \in -1..100 /\ scores[n] \in -1..100
        BY <1>1, <1>5
      <4>2. j = n \/ ~(scores[j] >= fast)
        BY <1>6
      <4>. QED BY <2>1, <4>1, <4>2
    <3>. QED BY <3>1, <3>2
  <2>2. CASE ~(scores[n] >= fast)
    BY <2>2, <1>8
  <2>. QED BY <2>1, <2>2
<1>10. scores[text] \in -1..100 /\ scores[n] \in -1..100
  BY <1>1, <1>5, <1>9
<1>. HIDE DEF text, best
<1>11. Re!Max({scores[text], 0}) = IF scores[text] >= 0 THEN scores[text] ELSE 0
  BY <1>10 DEF Re!Max
<1>12. /\ r.text = text /\ r.attempts = n /\ r.verified = (scores[n] # -1)
       /\ r.score = IF scores[text] >= 0 THEN scores[text] ELSE 0
       /\ r.raised = replies[n].odd
  BY <1>2, <1>11
<1>121. r.raised => ~ r.verified /\ replies[r.attempts].odd
  BY <1>1, <1>5, <1>12 DEF Re!Parse, Re!Refused
<1>. HIDE DEF r
<1>13. \A i \in 1..n : Re!Parse(replies[i], fast) = scores[i]
  BY <1>1, <1>5
<1>14. r.attempts \in 1..last
  BY <1>5, <1>12
<1>15. \A i \in 1..n : scores[i] <= r.score
  BY <1>1, <1>5, <1>9, <1>10, <1>12
<1>16. r.verified => {i \in 1..n : scores[i] # -1} = 1..n
  BY <1>6, <1>12
<1>17. (r.verified /\ r.score >= fast) => ~replies[r.text].issues
  <2>. SUFFICES ASSUME r.verified, r.score >= fast PROVE ~replies[text].issues
    BY <1>12
  <2>1. scores[n] # -1
    BY <1>12
  <2>2. scores[text] >= scores[n] /\ scores[n] >= 0
    BY <1>5, <1>9, <1>10, <2>1
  <2>3. scores[text] >= fast
    BY <1>10, <1>12, <2>2
  <2>. QED BY <1>1, <1>5, <1>9, <2>3
<1>18. (r.attempts <= refinements) => (~r.verified \/ r.score >= fast)
  <2>. SUFFICES ASSUME n <= refinements, scores[n] # -1 PROVE r.score >= fast
    BY <1>12
  <2>1. scores[n] >= fast
    BY <1>4, <1>5 DEF stops
  <2>. QED BY <1>9, <1>10, <1>12, <2>1
<1>19. LET scored == {i \in 1..n : Re!Parse(replies[i], fast) # -1}
       IN /\ \A i \in scored : Re!Parse(replies[i], fast) <= r.score
          /\ r.verified => scored = 1..n
  BY <1>13, <1>15, <1>16
<1>20. r = Re!Run(replies, fast, refinements)
  BY DEF r
<1>. QED BY <1>12, <1>121, <1>14, <1>17, <1>18, <1>19, <1>20 DEF Re!LadderStands, Re!Refused

\* Whatever the model answers, the planner reads every literal of the request
\* (QueryOptimizer._accept, planning_goal).
THEOREM RewriteAlwaysStands ==
    ASSUME NEW request, NEW reply, NEW minLength, NEW raised
    PROVE  Re!RewriteStands(request, reply, minLength, raised)
<1>. DEFINE taken == Re!Optimize(request, reply, minLength, raised).rewritten
            carried == reply.query \cup reply.constraints
<1>1. Re!Declined.rewritten = FALSE /\ \A b : [rewritten |-> b].rewritten = b
  BY DEF Re!Declined
<1>2. ~(request.literals \subseteq carried) => ~taken
  BY <1>1 DEF Re!Optimize
<1>3. taken => request.literals \subseteq carried
  BY <1>2
<1>4. request.literals \subseteq Re!PlanningGoal(request, reply, minLength, raised)
  BY DEF Re!PlanningGoal
<1>. QED BY <1>3, <1>4 DEF Re!RewriteStands

-----------------------------------------------------------------------------
(* What a step of the run picks.                                             *)

\* The name of the algorithm tells which action picked the input.
LEMMA Picked ==
    ASSUME Next
    PROVE  /\ case'.alg = "ladder" => PickLadder
           /\ case'.alg = "chunks" => PickChunks
           /\ case'.alg = "price" => PickPrice
           /\ case'.alg = "tiers" => PickTiers
           /\ case'.alg = "report" => PickReport
           /\ case'.alg = "verdict" => PickVerdict
           /\ case'.alg = "sweep" => PickSweep
           /\ case'.alg = "trace" => PickTrace
<1>1. (PickLadder => case'.alg = "ladder") /\ (PickChunks => case'.alg = "chunks")
      /\ (PickPrice => case'.alg = "price") /\ (PickTiers => case'.alg = "tiers")
  BY DEF PickLadder, PickChunks, PickPrice, PickTiers, Pick
<1>2. (PickWall => case'.alg = "wall") /\ (PickSurface => case'.alg = "surface")
      /\ (PickModel => case'.alg = "model") /\ (PickTrace => case'.alg = "trace")
  BY DEF PickWall, PickSurface, PickModel, PickTrace, Pick
<1>3. (PickVerdict => case'.alg = "verdict") /\ (PickSweep => case'.alg = "sweep")
      /\ (PickRewrite => case'.alg = "rewrite") /\ (PickSkills => case'.alg = "skills")
  BY DEF PickVerdict, PickSweep, PickRewrite, PickSkills, Pick
<1>4. (PickManifest => case'.alg = "manifest") /\ (PickReport => case'.alg = "report")
      /\ (PickEvidence => case'.alg = "evidence")
  BY DEF PickManifest, PickEvidence, PickReport, Pick
<1>5. PickContract => case'.alg = "contract"
  <2>. SUFFICES ASSUME PickContract PROVE case'.alg = "contract"
    OBVIOUS
  <2>1. \E f : case' = [alg |-> "contract", values |-> f]
    BY Zenon DEF PickContract, Pick
  <2>. QED BY <2>1
<1>. QED BY <1>1, <1>2, <1>3, <1>4, <1>5 DEF Next

(* The verifier's replies are as many as the ladder has attempts.            *)
LadderInput ==
    case.alg = "ladder" =>
        /\ case.refinements \in Nat
        /\ 1..(case.refinements + 1) \subseteq DOMAIN case.replies
        /\ \A i \in DOMAIN case.replies : case.replies[i] \in Verdicts

(* Every input the run picks, and by the two theorems above any other: the   *)
(* ladder returns its best attempt and calls it verified only with a         *)
(* verdict, and a rewrite loses no literal (ReasoningEngine.run,             *)
(* QueryOptimizer).                                                          *)
THEOREM ReasoningAlwaysStands == Spec => []ReasoningStands
<1>1. Init => LadderInput
  BY DEF Init, NoCase, LadderInput
<1>2. LadderInput /\ [Next]_case => LadderInput'
  <2>1. ASSUME PickLadder PROVE LadderInput'
    <3>1. PICK r \in [1..3 -> VerifierReplies], n \in 0..2 :
             case' = [alg |-> "ladder", replies |-> r, refinements |-> n]
      BY <2>1 DEF PickLadder, Pick
    <3>2. VerifierReplies \subseteq Verdicts
      BY DEF VerifierReplies, Verdicts, Re!NoScore
    <3>3. case'.replies = r /\ case'.refinements = n
      BY <3>1
    <3>4. DOMAIN r = 1..3 /\ \A i \in 1..3 : r[i] \in Verdicts
      BY <3>1, <3>2
    <3>. HIDE DEF Verdicts
    <3>. QED BY <3>3, <3>4 DEF LadderInput
  <2>2. ASSUME LadderInput, UNCHANGED case PROVE LadderInput'
    BY <2>2 DEF LadderInput
  <2>3. ASSUME Next, ~PickLadder PROVE LadderInput'
    BY <2>3, Picked DEF LadderInput
  <2>. QED BY <2>1, <2>2, <2>3
<1>3. LadderInput => ReasoningStands
  BY LadderAlwaysStands, RewriteAlwaysStands DEF LadderInput, ReasoningStands
<1>. QED BY <1>1, <1>2, <1>3, PTL DEF Spec
-----------------------------------------------------------------------------
(* Prices and tiers.                                                         *)

Row == [input : Int, output : Int]
IsPricing(pricing, Part) ==
    /\ DOMAIN pricing.models \subseteq Seq(Part)
    /\ \A m \in DOMAIN pricing.models : pricing.models[m] \in Row
    /\ pricing.default \in Row
    /\ pricing.readPercent \in Int /\ pricing.writePercent \in Int
Counts == [input : Nat, output : Nat, read : Nat, write : Nat]

\* One name begins another when it agrees with it place by place.
LEMMA PrefixByPlaces ==
    ASSUME NEW Part, NEW s \in Seq(Part), NEW t \in Seq(Part)
    PROVE  Ec!IsPrefix(s, t) <=> Len(s) <= Len(t) /\ \A i \in 1..Len(s) : s[i] = t[i]
<1>1. SubSeq(s, 1, Len(s)) = s
  OBVIOUS
<1>2. ASSUME Len(s) <= Len(t)
      PROVE  SubSeq(s, 1, Len(s)) = SubSeq(t, 1, Len(s)) <=> \A i \in 1..Len(s) : s[i] = t[i]
  <2>1. /\ SubSeq(t, 1, Len(s)) \in Seq(Part) /\ Len(SubSeq(t, 1, Len(s))) = Len(s)
        /\ \A i \in 1..Len(s) : SubSeq(t, 1, Len(s))[i] = t[i]
    BY <1>2
  <2>. DEFINE u == SubSeq(t, 1, Len(s))
  <2>. HIDE DEF u
  <2>2. u \in Seq(Part) /\ Len(u) = Len(s) /\ \A i \in 1..Len(s) : u[i] = t[i]
    BY <2>1 DEF u
  <2>3. (\A i \in 1..Len(s) : s[i] = t[i]) => s = u
    BY <2>2, SeqEqual
  <2>4. s = u <=> \A i \in 1..Len(s) : s[i] = t[i]
    BY <2>2, <2>3
  <2>. QED BY <1>1, <2>4 DEF u
<1>. QED BY <1>2 DEF Ec!IsPrefix

\* The names a model begins with have a longest one, which price_for takes: of
\* two that are as long, each is the other.
LEMMA PricedByTheLongest ==
    ASSUME NEW Part, NEW pricing, IsPricing(pricing, Part), NEW model \in Seq(Part),
           NEW m \in DOMAIN pricing.models, Ec!IsPrefix(m, model)
    PROVE  \E o \in DOMAIN pricing.models :
              /\ Ec!IsPrefix(o, model) /\ Ec!PriceFor(pricing, model) = pricing.models[o]
              /\ \A x \in DOMAIN pricing.models : Ec!IsPrefix(x, model) => Len(x) <= Len(o)
<1>. DEFINE begun == {x \in DOMAIN pricing.models : Ec!IsPrefix(x, model)}
            lengths == {Len(x) : x \in begun}
            longest == CHOOSE x \in begun : \A y \in begun : Len(x) >= Len(y)
<1>1. begun \subseteq Seq(Part) /\ m \in begun
  BY DEF IsPricing
<1>2. \A x \in begun : Len(x) \in Nat /\ Len(x) <= Len(model)
  BY <1>1, PrefixByPlaces
<1>3. lengths \subseteq Int /\ lengths # {} /\ (\A l \in lengths : l <= Len(model)) /\ Len(model) \in Int
  <2>1. \A l \in lengths : l \in Int /\ l <= Len(model)
    BY <1>2
  <2>2. Len(m) \in lengths
    BY <1>1
  <2>. HIDE DEF lengths, begun
  <2>. QED BY <2>1, <2>2
<1>. HIDE DEF begun, lengths
<1>4. PICK l \in lengths : \A k \in lengths : k <= l
  BY <1>3, GreatestOf
<1>5. PICK x \in begun : l = Len(x)
  BY DEF lengths
<1>6. \A y \in begun : Len(x) >= Len(y)
  BY <1>2, <1>4, <1>5 DEF lengths
<1>7. longest \in begun /\ \A y \in begun : Len(longest) >= Len(y)
  BY <1>5, <1>6
<1>8. begun # {} /\ begun = {y \in DOMAIN pricing.models : Ec!IsPrefix(y, model)}
  BY <1>1 DEF begun
<1>9. Ec!PriceFor(pricing, model) = pricing.models[longest]
  BY <1>8 DEF Ec!PriceFor
<1>. HIDE DEF longest
<1>. QED BY <1>2, <1>7, <1>8, <1>9

\* What a name costs is what its own row says.
LEMMA OwnRow ==
    ASSUME NEW Part, NEW pricing, IsPricing(pricing, Part), NEW o \in DOMAIN pricing.models
    PROVE  Ec!PriceFor(pricing, o) = pricing.models[o]
<1>1. o \in Seq(Part) /\ Ec!IsPrefix(o, o)
  BY PrefixByPlaces DEF IsPricing
<1>2. PICK p \in DOMAIN pricing.models :
         /\ Ec!IsPrefix(p, o) /\ Ec!PriceFor(pricing, o) = pricing.models[p]
         /\ \A x \in DOMAIN pricing.models : Ec!IsPrefix(x, o) => Len(x) <= Len(p)
  BY <1>1, PricedByTheLongest
<1>3. p \in Seq(Part) /\ Len(p) <= Len(o) /\ \A i \in 1..Len(p) : p[i] = o[i]
  BY <1>1, <1>2, PrefixByPlaces DEF IsPricing
<1>4. Len(o) <= Len(p)
  BY <1>1, <1>2
<1>5. Len(p) = Len(o)
  BY <1>1, <1>3, <1>4
<1>6. p = o
  BY <1>1, <1>3, <1>5, SeqEqual
<1>. QED BY <1>2, <1>6

\* A price is that of a row of the table.
LEMMA PriceIsARow ==
    ASSUME NEW Part, NEW pricing, IsPricing(pricing, Part), NEW model \in Seq(Part)
    PROVE  Ec!PriceFor(pricing, model) \in Row
<1>1. CASE {x \in DOMAIN pricing.models : Ec!IsPrefix(x, model)} = {}
  BY <1>1 DEF Ec!PriceFor, IsPricing
<1>2. CASE {x \in DOMAIN pricing.models : Ec!IsPrefix(x, model)} # {}
  BY <1>2, PricedByTheLongest DEF IsPricing
<1>. QED BY <1>1, <1>2

\* A count times a price, split in two.
LEMMA Split ==
    ASSUME NEW x \in Int, NEW y \in Int, NEW p \in Int, NEW q \in Int
    PROVE  /\ (x + y) * p = x * p + y * p
           /\ (x + y) * p * q = x * p * q + y * p * q
           /\ x * p \in Int /\ x * p * q \in Int /\ y * p * q \in Int
<1>1. (x + y) * p = x * p + y * p
  OBVIOUS
<1>2. x * p \in Int /\ y * p \in Int /\ x * p * q \in Int /\ y * p * q \in Int
  OBVIOUS
<1>3. \A a \in Int, b \in Int : (a + b) * q = a * q + b * q
  OBVIOUS
<1>4. (x * p + y * p) * q = x * p * q + y * p * q
  BY <1>2, <1>3
<1>. QED BY <1>1, <1>2, <1>4

\* A call split in two costs what it did.
LEMMA CostsAddUp ==
    ASSUME NEW Part, NEW pricing, IsPricing(pricing, Part), NEW model \in Seq(Part),
           NEW a \in Counts, NEW b \in Counts
    PROVE  Ec!Cost(pricing, model, Ec!Sum(a, b))
             = Ec!Cost(pricing, model, a) + Ec!Cost(pricing, model, b)
<1>. DEFINE row == Ec!PriceFor(pricing, model)
            Terms(t) == 100 * t.input * row.input + 100 * t.output * row.output
                        + t.read * row.input * pricing.readPercent
                        + t.write * row.input * pricing.writePercent
            sum == Ec!Sum(a, b)
<1>1. /\ row.input \in Int /\ row.output \in Int
      /\ pricing.readPercent \in Int /\ pricing.writePercent \in Int
  BY PriceIsARow DEF Row, IsPricing
<1>2. \A n \in Nat : Ec!AtLeastZero(n) = n
  BY DEF Ec!AtLeastZero, Ec!Max
<1>3. \A t \in Counts : /\ t.input \in Nat /\ t.output \in Nat /\ t.read \in Nat /\ t.write \in Nat
                        /\ Ec!Cost(pricing, model, t) = Terms(t)
  BY <1>2 DEF Ec!Cost, Counts
<1>4. DOMAIN a = {"input", "output", "read", "write"}
  BY DEF Counts
<1>5. /\ sum.input = a.input + b.input /\ sum.output = a.output + b.output
      /\ sum.read = a.read + b.read /\ sum.write = a.write + b.write
  BY <1>4 DEF Ec!Sum
<1>6. sum \in Counts
  <2>1. sum = [input |-> a.input + b.input, output |-> a.output + b.output,
               read |-> a.read + b.read, write |-> a.write + b.write]
    BY <1>4 DEF Ec!Sum
  <2>. HIDE DEF sum
  <2>2. /\ a.input + b.input \in Nat /\ a.output + b.output \in Nat
        /\ a.read + b.read \in Nat /\ a.write + b.write \in Nat
    <3>1. a.input \in Nat /\ a.output \in Nat /\ a.read \in Nat /\ a.write \in Nat
      BY DEF Counts
    <3>2. b.input \in Nat /\ b.output \in Nat /\ b.read \in Nat /\ b.write \in Nat
      BY DEF Counts
    <3>3. \A x, y \in Nat : x + y \in Nat
      OBVIOUS
    <3>. QED BY Zenon, <3>1, <3>2, <3>3
  <2>3. \A i, o, r, w \in Nat : [input |-> i, output |-> o, read |-> r, write |-> w] \in Counts
    BY DEF Counts
  <2>. QED BY <2>1, <2>2, <2>3
<1>. HIDE DEF row, sum
<1>7. Terms(sum) = Terms(a) + Terms(b)
  <2>1. /\ 100 * sum.input * row.input = 100 * a.input * row.input + 100 * b.input * row.input
        /\ 100 * a.input * row.input \in Int /\ 100 * b.input * row.input \in Int
    <3>1. 100 * a.input \in Int /\ 100 * b.input \in Int
          /\ 100 * sum.input = 100 * a.input + 100 * b.input
      <4>1. a.input \in Nat /\ b.input \in Nat
        BY <1>3
      <4>2. \A x, y \in Nat : 100 * x \in Int /\ 100 * (x + y) = 100 * x + 100 * y
        OBVIOUS
      <4>. QED BY <1>5, <4>1, <4>2
    <3>. QED BY <1>1, <3>1, Split
  <2>2. /\ 100 * sum.output * row.output = 100 * a.output * row.output + 100 * b.output * row.output
        /\ 100 * a.output * row.output \in Int /\ 100 * b.output * row.output \in Int
    <3>1. 100 * a.output \in Int /\ 100 * b.output \in Int
          /\ 100 * sum.output = 100 * a.output + 100 * b.output
      <4>1. a.output \in Nat /\ b.output \in Nat
        BY <1>3
      <4>2. \A x, y \in Nat : 100 * x \in Int /\ 100 * (x + y) = 100 * x + 100 * y
        OBVIOUS
      <4>. QED BY <1>5, <4>1, <4>2
    <3>. QED BY <1>1, <3>1, Split
  <2>3. /\ sum.read * row.input * pricing.readPercent
             = a.read * row.input * pricing.readPercent + b.read * row.input * pricing.readPercent
        /\ a.read * row.input * pricing.readPercent \in Int
        /\ b.read * row.input * pricing.readPercent \in Int
    <3>. DEFINE x == a.read  y == b.read  p == row.input  q == pricing.readPercent
    <3>1. x \in Int /\ y \in Int /\ p \in Int /\ q \in Int /\ sum.read = x + y
      <4>1. a.read \in Nat /\ b.read \in Nat
        BY <1>3
      <4>. QED BY <1>1, <1>5, <4>1
    <3>. HIDE DEF x, y, p, q
    <3>2. /\ (x + y) * p * q = x * p * q + y * p * q
          /\ x * p * q \in Int /\ y * p * q \in Int
      BY <3>1, Split
    <3>3. sum.read * p * q = x * p * q + y * p * q
      BY <3>1, <3>2
    <3>. QED BY Zenon, <3>2, <3>3 DEF x, y, p, q
  <2>4. /\ sum.write * row.input * pricing.writePercent
             = a.write * row.input * pricing.writePercent + b.write * row.input * pricing.writePercent
        /\ a.write * row.input * pricing.writePercent \in Int
        /\ b.write * row.input * pricing.writePercent \in Int
    <3>. DEFINE x == a.write  y == b.write  p == row.input  q == pricing.writePercent
    <3>1. x \in Int /\ y \in Int /\ p \in Int /\ q \in Int /\ sum.write = x + y
      <4>1. a.write \in Nat /\ b.write \in Nat
        BY <1>3
      <4>. QED BY <1>1, <1>5, <4>1
    <3>. HIDE DEF x, y, p, q
    <3>2. /\ (x + y) * p * q = x * p * q + y * p * q
          /\ x * p * q \in Int /\ y * p * q \in Int
      BY <3>1, Split
    <3>3. sum.write * p * q = x * p * q + y * p * q
      BY <3>1, <3>2
    <3>. QED BY Zenon, <3>2, <3>3 DEF x, y, p, q
  <2>5. \A p1, p2, q1, q2, r1, r2, s1, s2 \in Int :
           (p1 + p2) + (q1 + q2) + (r1 + r2) + (s1 + s2) = (p1 + q1 + r1 + s1) + (p2 + q2 + r2 + s2)
    OBVIOUS
  <2>. QED BY <2>1, <2>2, <2>3, <2>4, <2>5
<1>. HIDE DEF Terms
<1>. QED BY <1>3, <1>6, <1>7 DEF sum

\* For any table of prices and any name: a model is billed by the most specific
\* row its name begins with, and splitting a call changes no bill (price_for,
\* cost).
THEOREM PriceAlwaysStands ==
    ASSUME NEW Part, NEW pricing, IsPricing(pricing, Part), NEW model \in Seq(Part),
           NEW a \in Counts, NEW b \in Counts
    PROVE  Ec!PriceStands(pricing, model, a, b)
<1>1. ASSUME NEW m \in DOMAIN pricing.models, Ec!IsPrefix(m, model),
             Ec!PriceFor(pricing, model) # pricing.models[m]
      PROVE  \E o \in DOMAIN pricing.models : /\ o # m /\ Ec!IsPrefix(m, o) /\ Ec!IsPrefix(o, model)
                                              /\ Ec!PriceFor(pricing, model) = Ec!PriceFor(pricing, o)
  <2>1. PICK o \in DOMAIN pricing.models :
           /\ Ec!IsPrefix(o, model) /\ Ec!PriceFor(pricing, model) = pricing.models[o]
           /\ \A x \in DOMAIN pricing.models : Ec!IsPrefix(x, model) => Len(x) <= Len(o)
    BY <1>1, PricedByTheLongest
  <2>2. m \in Seq(Part) /\ o \in Seq(Part) /\ Len(m) <= Len(o)
    BY <1>1, <2>1 DEF IsPricing
  <2>3. /\ Len(o) <= Len(model)
        /\ \A i \in 1..Len(m) : m[i] = model[i]
        /\ \A i \in 1..Len(o) : o[i] = model[i]
    BY <1>1, <2>1, <2>2, PrefixByPlaces
  <2>4. \A i \in 1..Len(m) : m[i] = o[i]
    BY <2>2, <2>3
  <2>5. Ec!IsPrefix(m, o)
    BY <2>2, <2>4, PrefixByPlaces
  <2>6. Ec!PriceFor(pricing, o) = pricing.models[o]
    BY OwnRow
  <2>. QED BY <1>1, <2>1, <2>5, <2>6
<1>2. Ec!Cost(pricing, model, Ec!Sum(a, b))
        = Ec!Cost(pricing, model, a) + Ec!Cost(pricing, model, b)
  BY CostsAddUp
<1>. QED BY <1>1, <1>2 DEF Ec!PriceStands
\* The place of a rung of the ladder is one where its name stands, and the
\* last; what is cheaper is every rung before that place, the cheapest last.
LEMMA BelowARung ==
    ASSUME NEW Name, NEW ladder, ladder.order \in Seq(Name), NEW rung \in Ec!ToSet(ladder.order)
    PROVE  LET rank == Ec!Rank(ladder, rung)
               below == Ec!CheaperThan(ladder, rung)
           IN /\ rank \in 1..Len(ladder.order) /\ ladder.order[rank] = rung
              /\ Len(below) = rank - 1
              /\ DOMAIN below = 1..(rank - 1)
              /\ \A i \in 1..(rank - 1) : below[i] = ladder.order[rank - i]
              /\ below # <<>> => Ec!Last(below) = ladder.order[1]
<1>. DEFINE order == ladder.order
            places == {i \in DOMAIN order : order[i] = rung}
            rank == Ec!Rank(ladder, rung)
            before == SubSeq(order, 1, rank - 1)
            below == Ec!CheaperThan(ladder, rung)
<1>1. places \subseteq 1..Len(order) /\ places # {} /\ Len(order) \in Nat
  BY DEF Ec!ToSet
<1>2. PICK n \in places : \A m \in places : m <= n
  <2>1. Len(order) \in Int /\ places \subseteq Int /\ \A i \in places : i <= Len(order)
    BY <1>1
  <2>. HIDE DEF places, order
  <2>. QED BY <1>1, <2>1, GreatestOf
<1>3. rank = Ec!Max(places)
  BY DEF Ec!Rank
<1>4. rank \in places
  BY <1>1, <1>2, <1>3 DEF Ec!Max
<1>. HIDE DEF rank
<1>5. rank \in 1..Len(order) /\ order[rank] = rung
  BY <1>1, <1>4
<1>6. /\ before \in Seq(Name) /\ Len(before) = rank - 1
      /\ \A i \in 1..(rank - 1) : before[i] = order[i]
  BY <1>5
<1>7. below = Ec!Reverse(before)
  BY DEF Ec!CheaperThan, rank
<1>. HIDE DEF before, below, order
<1>8. below = [i \in 1..(rank - 1) |-> before[((rank - 1) - i) + 1]]
  BY <1>6, <1>7 DEF Ec!Reverse
<1>9. \A i \in 1..(rank - 1) : below[i] = order[rank - i]
  <2>. SUFFICES ASSUME NEW i \in 1..(rank - 1) PROVE below[i] = order[rank - i]
    OBVIOUS
  <2>1. ((rank - 1) - i) + 1 = rank - i /\ rank - i \in 1..(rank - 1)
    BY <1>5
  <2>. QED BY <1>6, <1>8, <2>1
<1>10. Len(below) = rank - 1 /\ DOMAIN below = 1..(rank - 1)
  BY <1>5, <1>8
<1>11. below # <<>> => Ec!Last(below) = order[1]
  <2>. SUFFICES ASSUME below # <<>> PROVE below[rank - 1] = order[1]
    BY <1>10 DEF Ec!Last
  <2>1. rank - 1 # 0
    <3>. SUFFICES ASSUME rank - 1 = 0 PROVE FALSE
      OBVIOUS
    <3>1. 1..(rank - 1) = {}
      BY <1>5
    <3>. QED BY <1>8, <3>1
  <2>2. rank - 1 \in 1..(rank - 1) /\ rank - (rank - 1) = 1
    BY <1>5, <2>1
  <2>. QED BY <1>9, <2>2
<1>. QED BY <1>5, <1>9, <1>10, <1>11 DEF order, rank, below

(* A configuration whose order names no tier twice and none "", which        *)
(* from_mapping does not look for.                                           *)
OrdersOnce(config, Name) ==
    /\ config.order \in Seq(Name) /\ "" \notin Ec!ToSet(config.order)
    /\ \A i, j \in DOMAIN config.order : config.order[i] = config.order[j] => i = j

\* Whatever is configured and declared: a task is on a rung of the ladder, and
\* what is cheaper than the rung is every rung before it, down to the cheapest,
\* the rung itself not among them; no request raises a principal's ceiling
\* (TierLadder, declare_tiers, ceiling_for).
THEOREM TiersAlwaysStand ==
    ASSUME NEW Name, NEW Role, NEW Tier, NEW config, OrdersOnce(config, Name),
           NEW tasks, \A i \in DOMAIN tasks : tasks[i] \in [role : Role, tier : Tier],
           NEW limits, \A p \in DOMAIN limits : limits[p] \in Int,
           NEW principal, NEW requested \in Int
    PROVE  Ec!TiersStand(config, tasks, limits, principal, requested)
<1>. SUFFICES ASSUME Ec!Loads(config)
              PROVE  Ec!TiersStand(config, tasks, limits, principal, requested)
  BY DEF Ec!TiersStand
<1>. DEFINE ladder == Ec!Ladder(config)
            declared == Ec!DeclareTiers(ladder, tasks)
<1>1. /\ ladder.order = config.order /\ DOMAIN ladder.tiers = Ec!ToSet(config.order)
      /\ ladder.default \in DOMAIN ladder.tiers
  BY DEF Ec!Ladder, Ec!Loads
<1>2. DOMAIN declared = DOMAIN tasks
  BY DEF Ec!DeclareTiers
<1>3. \A i \in DOMAIN tasks : tasks[i].tier # "" => declared[i] = tasks[i]
  BY DEF Ec!DeclareTiers
<1>. HIDE DEF ladder, declared
<1>4. ASSUME NEW i \in DOMAIN declared
      PROVE  LET rung == Ec!TierNamed(ladder, declared[i].tier)
                 below == Ec!CheaperThan(ladder, rung)
             IN /\ rung \in DOMAIN ladder.tiers
                /\ rung \notin Ec!ToSet(below)
                /\ Len(below) = Ec!Rank(ladder, rung) - 1
                /\ below # <<>> => Ec!Last(below) = config.order[1]
                /\ tasks[i].tier \in DOMAIN ladder.tiers => rung = tasks[i].tier
  <2>. DEFINE rung == Ec!TierNamed(ladder, declared[i].tier)
              below == Ec!CheaperThan(ladder, rung)
              rank == Ec!Rank(ladder, rung)
  <2>1. rung \in Ec!ToSet(config.order)
    BY <1>1 DEF Ec!TierNamed
  <2>2. tasks[i].tier \in DOMAIN ladder.tiers => rung = tasks[i].tier
    BY <1>1, <1>2, <1>3 DEF Ec!TierNamed, OrdersOnce
  <2>. HIDE DEF rung
  <2>3. ladder.order \in Seq(Name) /\ rung \in Ec!ToSet(ladder.order)
    BY <1>1, <2>1 DEF OrdersOnce
  <2>4. /\ rank \in 1..Len(config.order) /\ config.order[rank] = rung
        /\ Len(below) = rank - 1 /\ DOMAIN below = 1..(rank - 1)
        /\ \A k \in 1..(rank - 1) : below[k] = config.order[rank - k]
        /\ below # <<>> => Ec!Last(below) = config.order[1]
    BY <1>1, <2>3, BelowARung
  <2>. HIDE DEF below, rank
  <2>5. ASSUME NEW k \in 1..(rank - 1) PROVE below[k] # rung
    <3>1. Len(config.order) \in Nat /\ DOMAIN config.order = 1..Len(config.order)
      <4>1. config.order \in Seq(Name)
        BY DEF OrdersOnce
      <4>. QED BY <4>1
    <3>2. rank - k \in 1..Len(config.order) /\ rank - k # rank
      BY <2>4, <3>1
    <3>. QED BY <2>4, <3>1, <3>2 DEF OrdersOnce
  <2>6. rung \notin Ec!ToSet(below)
    BY <2>4, <2>5 DEF Ec!ToSet
  <2>. QED BY <1>1, <2>1, <2>2, <2>4, <2>6 DEF rung, below, rank
<1>5. ASSUME principal \in DOMAIN limits
      PROVE  Ec!CeilingFor(limits, 9, principal, requested) <= limits[principal]
  <2>. DEFINE amount == IF requested = -1 THEN 9 ELSE requested
  <2>1. amount \in Int /\ limits[principal] \in Int
    BY <1>5
  <2>2. Ec!CeilingFor(limits, 9, principal, requested) = Ec!Min({amount, limits[principal]})
    BY <1>5 DEF Ec!CeilingFor
  <2>. HIDE DEF amount
  <2>3. \A x, y \in Int : Ec!Min({x, y}) <= y
    BY DEF Ec!Min
  <2>. QED BY <2>1, <2>2, <2>3
<1>. QED BY <1>4, <1>5 DEF Ec!TiersStand, ladder, declared
(* The tables and the calls the run picks.                                   *)
Words == {"g", "flash", "002", "pro", "h", "x"}
PriceInput ==
    case.alg = "price" =>
        /\ IsPricing(case.pricing, Words) /\ case.model \in Seq(Words)
        /\ case.first \in Counts /\ case.second \in Counts

(* The configurations and the tasks the run picks.                           *)
TiersInput ==
    case.alg = "tiers" =>
        /\ OrdersOnce(case.config, {"eco", "mid", "std"}) /\ case.requested \in Int
        /\ \A i \in DOMAIN case.tasks :
              case.tasks[i] \in [role : {"writer", "reader"}, tier : {"", "eco", "odd"}]

\* A tuple of up to three names is a sequence of names.
LEMMA ShortTuples ==
    ASSUME NEW S
    PROVE  /\ <<>> \in Seq(S) /\ \A a \in S : <<a>> \in Seq(S)
           /\ \A a, b \in S : <<a, b>> \in Seq(S)
           /\ \A a, b, c \in S : <<a, b, c>> \in Seq(S)
OBVIOUS

\* The tables of prices are tables, and the names are names.
LEMMA PricingsAreTyped ==
    /\ \A pricing \in Pricings : IsPricing(pricing, Words)
    /\ ModelIds \subseteq Seq(Words) /\ Tokens \subseteq Counts
<1>1. /\ "g" \in Words /\ "flash" \in Words /\ "002" \in Words
      /\ "pro" \in Words /\ "h" \in Words /\ "x" \in Words
  BY DEF Words
<1>2. Models \subseteq Seq(Words) /\ ModelIds \subseteq Seq(Words)
  BY <1>1, ShortTuples DEF Models, ModelIds
<1>3. ASSUME NEW pricing \in Pricings PROVE IsPricing(pricing, Words)
  <2>1. PICK s \in SUBSET Models :
           pricing = [default |-> Price(7, 9),
                      models |-> [m \in s |-> Price(Len(m), 3 * Len(m))],
                      readPercent |-> 25, writePercent |-> 125]
    BY Zenon DEF Pricings
  <2>2. /\ pricing.default = Price(7, 9) /\ pricing.readPercent = 25
        /\ pricing.writePercent = 125
        /\ pricing.models = [m \in s |-> Price(Len(m), 3 * Len(m))]
    BY <2>1
  <2>3. \A i, o \in Int : Price(i, o) \in Row
    BY DEF Price, Row
  <2>4. \A m \in s : Len(m) \in Nat
    BY <1>2
  <2>. QED BY <1>2, <2>2, <2>3, <2>4 DEF IsPricing
<1>4. Tokens \subseteq Counts
  BY DEF Tokens, Counts
<1>. QED BY <1>2, <1>3, <1>4

\* A tuple of two or three names that differ names none twice.
LEMMA ShortOrders ==
    ASSUME NEW a, NEW b, NEW c, a # b, a # c, b # c, NEW s,
           s \in {<<>>, <<c>>, <<a, c>>, <<a, b, c>>}
    PROVE  /\ \A i \in DOMAIN s : s[i] \in {a, b, c}
           /\ \A i, j \in DOMAIN s : s[i] = s[j] => i = j
<1>1. CASE s = <<>> \/ s = <<c>>
  BY <1>1
<1>2. CASE s = <<a, c>>
  <2>1. DOMAIN s = 1..2 /\ s[1] = a /\ s[2] = c
    BY <1>2
  <2>. QED BY <2>1
<1>3. CASE s = <<a, b, c>>
  <2>1. DOMAIN s = 1..3 /\ s[1] = a /\ s[2] = b /\ s[3] = c
    BY <1>3
  <2>. QED BY <2>1
<1>. QED BY <1>1, <1>2, <1>3

\* No order of a configuration names a tier twice.
LEMMA ConfigsOrderOnce ==
    ASSUME NEW config \in Configs
    PROVE  OrdersOnce(config, {"eco", "mid", "std"})
<1>1. config.order \in {<<>>, <<"std">>, <<"eco", "std">>, <<"eco", "mid", "std">>}
  BY DEF Configs
<1>2. config.order \in Seq({"eco", "mid", "std"})
  BY <1>1, ShortTuples
<1>3. /\ \A i \in DOMAIN config.order : config.order[i] \in {"eco", "mid", "std"}
      /\ \A i, j \in DOMAIN config.order : config.order[i] = config.order[j] => i = j
  BY <1>1, ShortOrders, "eco" # "mid", "eco" # "std", "mid" # "std"
<1>4. "" \notin Ec!ToSet(config.order)
  BY <1>3 DEF Ec!ToSet
<1>. QED BY <1>2, <1>3, <1>4 DEF OrdersOnce

(* Every table, name and call the run picks, and by the two theorems above   *)
(* any other: a model is billed by its most specific row and a bill adds up, *)
(* a task is on a rung of the ladder, and no caller lifts a principal's cap  *)
(* (Pricing, TierLadder, declare_tiers, EconomicsConfig.ceiling_for).        *)
THEOREM PricesAlwaysStand == Spec => []PricesStand
<1>1. Init => PriceInput /\ TiersInput
  BY DEF Init, NoCase, PriceInput, TiersInput
<1>2. PriceInput /\ TiersInput /\ [Next]_case => PriceInput' /\ TiersInput'
  <2>1. ASSUME PickPrice PROVE PriceInput' /\ TiersInput'
    <3>1. PICK p \in Pricings, m \in ModelIds, a \in Tokens, b \in Tokens :
             case' = [alg |-> "price", pricing |-> p, model |-> m, first |-> a, second |-> b]
      BY <2>1 DEF PickPrice, Pick
    <3>2. /\ case'.alg = "price" /\ case'.pricing = p /\ case'.model = m
          /\ case'.first = a /\ case'.second = b
      BY <3>1
    <3>. QED BY <3>2, PricingsAreTyped DEF PriceInput, TiersInput
  <2>2. ASSUME PickTiers PROVE PriceInput' /\ TiersInput'
    <3>1. PICK c \in Configs, t \in Tasks, who \in {"capped", "free"}, asked \in {-1, 2, 8} :
             case' = [alg |-> "tiers", config |-> c, tasks |-> t, principal |-> who,
                      requested |-> asked]
      BY <2>2 DEF PickTiers, Pick
    <3>2. /\ case'.alg = "tiers" /\ case'.config = c /\ case'.tasks = t
          /\ case'.requested = asked
      BY <3>1
    <3>3. \A i \in DOMAIN t : t[i] \in [role : {"writer", "reader"}, tier : {"", "eco", "odd"}]
      <4>. DEFINE Task == [role : {"writer", "reader"}, tier : {"", "eco", "odd"}]
      <4>1. Tasks = UNION {[1..k -> Task] : k \in 0..2}
        BY Zenon DEF Tasks, UpTo
      <4>. HIDE DEF Task
      <4>2. PICK k \in 0..2 : t \in [1..k -> Task]
        BY <4>1
      <4>3. \A i \in DOMAIN t : t[i] \in Task
        BY <4>2
      <4>. QED BY <4>3 DEF Task
    <3>4. OrdersOnce(case'.config, {"eco", "mid", "std"}) /\ case'.requested \in Int
      BY <3>2, ConfigsOrderOnce
    <3>. QED BY <3>2, <3>3, <3>4 DEF PriceInput, TiersInput
  <2>3. ASSUME PriceInput, TiersInput, UNCHANGED case PROVE PriceInput' /\ TiersInput'
    BY <2>3 DEF PriceInput, TiersInput
  <2>4. ASSUME Next, ~PickPrice, ~PickTiers PROVE PriceInput' /\ TiersInput'
    BY <2>4, Picked DEF PriceInput, TiersInput
  <2>. QED BY <2>1, <2>2, <2>3, <2>4
<1>3. PriceInput /\ TiersInput => PricesStand
  <2>1. ASSUME PriceInput, case.alg = "price"
        PROVE  Ec!PriceStands(case.pricing, case.model, case.first, case.second)
    BY <2>1, PriceAlwaysStands DEF PriceInput
  <2>2. ASSUME TiersInput, case.alg = "tiers"
        PROVE  Ec!TiersStand(case.config, case.tasks, [capped |-> 5], case.principal,
                             case.requested)
    <3>1. \A p \in DOMAIN [capped |-> 5] : [capped |-> 5][p] \in Int
      OBVIOUS
    <3>. QED BY <2>2, <3>1, TiersAlwaysStand DEF TiersInput
  <2>. QED BY <2>1, <2>2 DEF PricesStand
<1>. QED BY <1>1, <1>2, <1>3, PTL DEF Spec
-----------------------------------------------------------------------------
(* The chunks of a document.                                                 *)

(* What a place leads to when each place that goes on names another.         *)
Walk(n, go, prev) == CHOOSE f : f = [t \in 1..n |-> IF go[t] THEN f[prev[t]] ELSE t]

\* A walk back through 1..n, each place that goes on naming an earlier one, is
\* a function, and ends no later than it starts.
LEMMA WalkBack ==
    ASSUME NEW n \in Nat, NEW go, NEW prev,
           \A t \in 1..n : go[t] => prev[t] \in 1..(t - 1)
    PROVE  \A t \in 1..n : Walk(n, go, prev)[t] \in 1..t
<1>. DEFINE Walks(m, f) == f = [t \in 1..m |-> IF go[t] THEN f[prev[t]] ELSE t]
            bad == {m \in 0..n : ~ \E f : Walks(m, f)}
<1>1. bad = {}
  <2>. SUFFICES ASSUME bad # {} PROVE FALSE
    OBVIOUS
  <2>1. bad \in SUBSET Nat
    OBVIOUS
  <2>2. PICK m \in bad : \A k \in bad : m <= k
    BY <2>1, LeastOf
  <2>3. m # 0
    <3>1. Walks(0, <<>>)
      OBVIOUS
    <3>. QED BY <3>1, <2>2
  <2>4. m - 1 \in 0..n /\ m - 1 \notin bad
    BY <2>2, <2>3
  <2>5. PICK f : Walks(m - 1, f)
    BY <2>4
  <2>. DEFINE g == [t \in 1..m |-> IF t < m THEN f[t] ELSE IF go[m] THEN f[prev[m]] ELSE m]
  <2>6. \A t \in 1..m : g[t] = IF go[t] THEN g[prev[t]] ELSE t
    <3>. SUFFICES ASSUME NEW t \in 1..m PROVE g[t] = IF go[t] THEN g[prev[t]] ELSE t
      OBVIOUS
    <3>1. go[t] => prev[t] \in 1..(t - 1)
      BY <2>2
    <3>2. go[t] => g[prev[t]] = f[prev[t]]
      BY <3>1, <2>2
    <3>3. t < m => f[t] = IF go[t] THEN f[prev[t]] ELSE t
      BY <2>2, <2>5
    <3>. QED BY <3>2, <3>3, <2>2
  <2>7. g = [t \in 1..m |-> g[t]]
    OBVIOUS
  <2>. HIDE DEF g
  <2>8. Walks(m, g)
    BY <2>6, <2>7
  <2>. QED BY <2>2, <2>8
<1>. DEFINE start == CHOOSE f : Walks(n, f)
<1>2. Walks(n, start)
  <2>1. \E f : Walks(n, f)
    BY <1>1
  <2>. HIDE DEF Walks
  <2>. QED BY <2>1
<1>. HIDE DEF start
<1>3. \A t \in 1..n : start[t] = IF go[t] THEN start[prev[t]] ELSE t
  BY <1>2
<1>. DEFINE ahead == {t \in 1..n : start[t] \notin 1..t}
<1>4. ahead = {}
  <2>. SUFFICES ASSUME ahead # {} PROVE FALSE
    OBVIOUS
  <2>1. ahead \in SUBSET Nat
    OBVIOUS
  <2>2. PICK t \in ahead : \A u \in ahead : t <= u
    BY <2>1, LeastOf
  <2>3. go[t] => prev[t] \in 1..(t - 1) /\ prev[t] \notin ahead
    BY <2>2
  <2>4. go[t] => start[prev[t]] \in 1..prev[t]
    BY <2>3
  <2>. QED BY <1>3, <2>2, <2>3, <2>4
<1>. QED BY <1>4 DEF start, Walk

\* The greatest and the least of numbers are among them.
LEMMA GreatestIsOne ==
    ASSUME NEW b \in Int, NEW S, S \subseteq Int, S # {}, \A i \in S : i <= b
    PROVE  Ch!Max(S) \in S
<1>1. PICK n \in S : \A m \in S : m <= n
  BY GreatestOf
<1>. QED BY <1>1 DEF Ch!Max

LEMMA LeastIsOne ==
    ASSUME NEW S \in SUBSET Nat, S # {}
    PROVE  Ch!Min(S) \in S /\ \A m \in S : Ch!Min(S) <= m
<1>1. PICK n \in S : \A m \in S : n <= m
  BY LeastOf
<1>. QED BY <1>1 DEF Ch!Min

\* The line a word is on starts in the chunk, or where the document does.
LEMMA LineStartsBefore ==
    ASSUME NEW words, NEW first \in Nat, NEW last \in Nat
    PROVE  Ch!LineStart(words, first, last) \in {1} \cup (first + 1)..last
<1>. DEFINE S == {i \in (first + 1)..last : Ch!Opens(words, i)} \cup {1}
            b == IF last >= 1 THEN last ELSE 1
<1>1. S \subseteq Int /\ S # {} /\ b \in Int /\ \A i \in S : i <= b
  OBVIOUS
<1>. HIDE DEF b
<1>2. Ch!Max(S) \in S
  <2>. HIDE DEF S
  <2>. QED BY <1>1, GreatestIsOne
<1>. QED BY <1>2 DEF Ch!LineStart

\* The table a line belongs to starts no later than the line.
LEMMA TableStartsBefore ==
    ASSUME NEW words, Len(words) \in Nat, NEW first \in Nat, first >= 1,
           NEW line \in 1..Len(words)
    PROVE  Ch!TableStart(words, first, line) \in 1..line
<1>. DEFINE n == Len(words)
            prev == [t \in 1..n |-> Ch!LineStart(words, first, t - 1)]
            go == [t \in 1..n |-> t > first /\ words[prev[t]] = "row"]
            start == Walk(n, go, prev)
            inline == CHOOSE f : f = [t \in 1..n |->
                         IF t > first /\ words[Ch!LineStart(words, first, t - 1)] = "row"
                         THEN f[Ch!LineStart(words, first, t - 1)] ELSE t]
<1>1. \A t \in 1..n : go[t] => prev[t] \in 1..(t - 1)
  <2>. SUFFICES ASSUME NEW t \in 1..n, t > first
                PROVE  Ch!LineStart(words, first, t - 1) \in 1..(t - 1)
    OBVIOUS
  <2>1. Ch!LineStart(words, first, t - 1) \in {1} \cup (first + 1)..(t - 1)
    BY LineStartsBefore
  <2>. QED BY <2>1
<1>2. inline = start
  <2>1. \A f : [t \in 1..n |-> IF t > first /\ words[Ch!LineStart(words, first, t - 1)] = "row"
                               THEN f[Ch!LineStart(words, first, t - 1)] ELSE t]
               = [t \in 1..n |-> IF go[t] THEN f[prev[t]] ELSE t]
    OBVIOUS
  <2>. QED BY <2>1 DEF Walk
<1>3. Ch!TableStart(words, first, line) = inline[line]
  BY Zenon DEF Ch!TableStart
<1>. HIDE DEF prev, go, inline
<1>4. \A t \in 1..n : start[t] \in 1..t
  <2>1. n \in Nat
    OBVIOUS
  <2>. HIDE DEF n
  <2>. QED BY <1>1, <2>1, WalkBack
<1>. QED BY <1>2, <1>3, <1>4

\* A block ends after its first word and no later than it was asked to.
LEMMA BlockEnds ==
    ASSUME NEW doc, Len(doc.words) \in Nat, NEW maxWords \in Nat \ {0},
           NEW first \in 1..Len(doc.words)
    PROVE  /\ Ch!BlockEnd(doc, first, maxWords) \in (first + 1)..(Len(doc.words) + 1)
           /\ Ch!BlockEnd(doc, first, maxWords) - first <= maxWords
<1>. DEFINE words == doc.words
            last == Ch!Min({Len(words), first + maxWords - 1})
            headings == {i \in (first + 1)..(last - 1) : words[i] = "heading"}
            fences == {i \in first..last : words[i] = "fence"}
            line == Ch!LineStart(words, first, last)
            table == Ch!TableStart(words, first, line)
            end == Ch!StructuralEnd(doc, first, last)
<1>1. last \in first..Len(words) /\ last - first < maxWords
  <2>1. \A x, y \in Nat : Ch!Min({x, y}) = IF x <= y THEN x ELSE y
    BY DEF Ch!Min
  <2>. QED BY <2>1
<1>2. Ch!BlockEnd(doc, first, maxWords) = IF end <= first THEN last + 1 ELSE end
  BY DEF Ch!BlockEnd
<1>. HIDE DEF last
<1>3. headings # {} => Ch!Max(headings) \in (first + 1)..(last - 1)
  <2>1. headings \subseteq Int /\ last \in Int /\ \A i \in headings : i <= last
    BY <1>1
  <2>2. headings \subseteq (first + 1)..(last - 1)
    OBVIOUS
  <2>. HIDE DEF headings
  <2>. QED BY <2>1, <2>2, GreatestIsOne
<1>4. fences # {} => Ch!Max(fences) \in first..last
  <2>1. fences \subseteq Int /\ last \in Int /\ \A i \in fences : i <= last
    BY <1>1
  <2>2. fences \subseteq first..last
    OBVIOUS
  <2>. HIDE DEF fences
  <2>. QED BY <2>1, <2>2, GreatestIsOne
<1>5. Ch!Cardinality(fences) % 2 = 1 => fences # {}
  <2>1. Ch!Cardinality({}) = Cardinality({}) /\ Cardinality({}) = 0
    BY FS_EmptySet DEF Ch!Cardinality, Cardinality
  <2>2. fences = {} => Ch!Cardinality(fences) = 0
    BY Zenon, <2>1
  <2>3. 0 % 2 # 1
    OBVIOUS
  <2>. HIDE DEF fences
  <2>. QED BY <2>2, <2>3
<1>6. table \in 1..last
  <2>1. line \in {1} \cup (first + 1)..last
    BY <1>1, LineStartsBefore
  <2>2. /\ line \in 1..Len(words) /\ line <= last
        /\ Len(words) \in Nat /\ first \in Nat /\ first >= 1
    BY <1>1, <2>1
  <2>. HIDE DEF line, words
  <2>3. Ch!TableStart(words, first, line) \in 1..line
    BY <2>2, TableStartsBefore
  <2>. QED BY <1>1, <2>2, <2>3
<1>7. \/ headings # {} /\ end = Ch!Max(headings)
      \/ fences # {} /\ Ch!Max(fences) > first /\ end = Ch!Max(fences)
      \/ table > first /\ end = table
      \/ end = last + 1
  <2>. DEFINE inTable == words[line] = "row" /\ ~ (doc.ended /\ last = Len(words))
              open == Ch!Cardinality(fences) % 2 = 1 /\ Ch!Max(fences) > first
  <2>1. end = IF headings # {} THEN Ch!Max(headings)
              ELSE IF open THEN Ch!Max(fences)
              ELSE IF inTable /\ table > first THEN table ELSE last + 1
    BY DEF Ch!StructuralEnd
  <2>2. open => fences # {} /\ Ch!Max(fences) > first
    BY <1>5
  <2>. HIDE DEF open, inTable, headings, fences, line, table, end
  <2>. QED BY <2>1, <2>2
<1>. HIDE DEF headings, fences, line, table, end
<1>8. end \in (first + 1)..(last + 1)
  BY <1>1, <1>3, <1>4, <1>6, <1>7
<1>. QED BY <1>1, <1>2, <1>8

\* The next chunk starts right after the chunk ends, further on in the document
\* and no further than the budget.
LEMMA NextFollows ==
    ASSUME NEW doc, Len(doc.words) \in Nat, NEW maxWords \in Nat \ {0}, NEW floor, NEW topics,
           NEW first \in 1..Len(doc.words)
    PROVE  LET next == Ch!NextStart(doc, first, maxWords, floor, topics)
           IN /\ next \in (first + 1)..(Len(doc.words) + 1) /\ next - first <= maxWords
              /\ Ch!ChunkEnd(doc, first, maxWords, floor, topics) = next - 1
<1>. DEFINE end == Ch!BlockEnd(doc, first, maxWords)
            seconds == topics \cap (first + 1)..(end - 1)
            next == Ch!NextStart(doc, first, maxWords, floor, topics)
            to == Ch!ChunkEnd(doc, first, maxWords, floor, topics)
<1>1. end \in (first + 1)..(Len(doc.words) + 1) /\ end - first <= maxWords
  BY BlockEnds
<1>2. \/ next = end /\ to = end - 1
      \/ seconds # {} /\ next = Ch!Min(seconds) /\ to = Ch!Min(seconds) - 1
  BY Zenon DEF Ch!NextStart, Ch!ChunkEnd
<1>. HIDE DEF end, next, to
<1>3. seconds # {} => Ch!Min(seconds) \in (first + 1)..(end - 1)
  <2>1. seconds \in SUBSET Nat
    BY <1>1
  <2>2. seconds \subseteq (first + 1)..(end - 1)
    OBVIOUS
  <2>. HIDE DEF seconds
  <2>. QED BY <2>1, <2>2, LeastIsOne
<1>4. next \in (first + 1)..(Len(doc.words) + 1) /\ next - first <= maxWords /\ to = next - 1
  <2>. HIDE DEF seconds
  <2>. QED BY <1>1, <1>2, <1>3
<1>. QED BY <1>4 DEF next, to

(* The pieces of a text of n words that follow from a place on, as           *)
(* semantic_chunks collects them, each ending before its next.               *)
Collects(f, n, to, next) ==
    f = [i \in 1..(n + 1) |-> IF i > n THEN <<>> ELSE <<<<i, to[i]>>>> \o f[next[i]]]
Pieces(n, to, next) == CHOOSE f : Collects(f, n, to, next)

\* A walk forward through 1..n is a function.
LEMMA WalkForward ==
    ASSUME NEW n \in Nat, NEW to, NEW next, \A i \in 1..n : next[i] \in (i + 1)..(n + 1)
    PROVE  Collects(Pieces(n, to, next), n, to, next)
<1>. DEFINE Walks(b, f) == f = [i \in b..(n + 1) |-> IF i > n THEN <<>>
                                                    ELSE <<<<i, to[i]>>>> \o f[next[i]]]
            bad == {k \in 0..n : ~ \E f : Walks((n + 1) - k, f)}
<1>1. bad = {}
  <2>. SUFFICES ASSUME bad # {} PROVE FALSE
    OBVIOUS
  <2>1. bad \in SUBSET Nat
    OBVIOUS
  <2>2. PICK k \in bad : \A m \in bad : k <= m
    BY <2>1, LeastOf
  <2>. DEFINE b == (n + 1) - k
  <2>3. k # 0
    <3>. DEFINE e == [i \in (n + 1)..(n + 1) |-> <<>>]
    <3>. SUFFICES ASSUME k = 0 PROVE FALSE
      OBVIOUS
    <3>1. Walks(n + 1, e)
      OBVIOUS
    <3>2. (n + 1) - k = n + 1
      OBVIOUS
    <3>3. ~ \E f : Walks((n + 1) - k, f)
      <4>. HIDE DEF Walks
      <4>. QED BY <2>2
    <3>. HIDE DEF Walks, e
    <3>. QED BY <3>1, <3>2, <3>3
  <2>4. k - 1 \in 0..n /\ k - 1 \notin bad /\ (n + 1) - (k - 1) = b + 1 /\ b \in 1..n
    <3>1. k \in 1..n /\ ~(k <= k - 1)
      BY <2>2, <2>3
    <3>2. k - 1 \in 0..n /\ (n + 1) - (k - 1) = b + 1 /\ b \in 1..n
      BY <3>1
    <3>. HIDE DEF bad, b
    <3>. QED BY <2>2, <3>1, <3>2
  <2>5. PICK f : Walks(b + 1, f)
    <3>. HIDE DEF Walks, b
    <3>. QED BY <2>4
  <2>. HIDE DEF b
  <2>. DEFINE g == [i \in b..(n + 1) |-> IF i > b THEN f[i] ELSE <<<<b, to[b]>>>> \o f[next[b]]]
  <2>6. \A i \in b..(n + 1) : g[i] = IF i > n THEN <<>> ELSE <<<<i, to[i]>>>> \o g[next[i]]
    <3>. SUFFICES ASSUME NEW i \in b..(n + 1)
                  PROVE  g[i] = IF i > n THEN <<>> ELSE <<<<i, to[i]>>>> \o g[next[i]]
      OBVIOUS
    <3>1. i <= n => next[i] \in (i + 1)..(n + 1)
      BY <2>4
    <3>2. i <= n => g[next[i]] = f[next[i]]
      BY <3>1, <2>4
    <3>3. g[b] = IF b > n THEN <<>> ELSE <<<<b, to[b]>>>> \o g[next[b]]
      <4>1. b \in b..(n + 1) /\ ~(b > b) /\ ~(b > n)
        BY <2>4
      <4>2. g[b] = <<<<b, to[b]>>>> \o f[next[b]]
        BY Zenon, <4>1
      <4>3. next[b] \in b..(n + 1) /\ next[b] > b
        BY <2>4
      <4>4. g[next[b]] = f[next[b]]
        BY <4>3
      <4>. HIDE DEF g
      <4>. QED BY <4>1, <4>2, <4>4
    <3>4. CASE i # b
      <4>1. g[i] = f[i] /\ i \in (b + 1)..(n + 1)
        BY <3>4, <2>4
      <4>2. f[i] = IF i > n THEN <<>> ELSE <<<<i, to[i]>>>> \o f[next[i]]
        BY <4>1, <2>5
      <4>. HIDE DEF g
      <4>. QED BY <4>1, <4>2, <3>2, <2>4
    <3>. HIDE DEF g
    <3>. QED BY <3>3, <3>4
  <2>7. g = [i \in b..(n + 1) |-> g[i]]
    OBVIOUS
  <2>. HIDE DEF g
  <2>8. Walks(b, g)
    BY <2>6, <2>7
  <2>. HIDE DEF Walks
  <2>. QED BY <2>2, <2>8 DEF b
<1>2. \E f : Walks(1, f)
  <2>1. n \in 0..n /\ (n + 1) - n = 1
    OBVIOUS
  <2>2. n \notin bad
    BY <1>1
  <2>. HIDE DEF Walks
  <2>. QED BY <2>1, <2>2
<1>3. \E f : Collects(f, n, to, next)
  BY <1>2 DEF Collects
<1>. QED BY <1>3 DEF Pieces
(* Chunks that lead from a place on to the last of n words, none longer than *)
(* the budget of w.                                                          *)
TilesFrom(s, i, n, w) ==
    /\ s \in Seq(Int \X Int) /\ (s = <<>> <=> i = n + 1)
    /\ \A k \in 1..Len(s) :
          /\ s[k][1] = IF k = 1 THEN i ELSE s[k - 1][2] + 1
          /\ s[k][1] <= s[k][2] /\ s[k][2] - s[k][1] < w
          /\ k = Len(s) => s[k][2] = n

\* A chunk put before those that lead on from its end.
LEMMA OneMore ==
    ASSUME NEW n \in Nat, NEW w \in Nat, NEW i \in 1..n, NEW j \in (i + 1)..(n + 1), j - i <= w,
           NEW t, TilesFrom(t, j, n, w)
    PROVE  TilesFrom(<<<<i, j - 1>>>> \o t, i, n, w)
<1>. DEFINE c == <<i, j - 1>>
            s == <<c>> \o t
<1>1. c \in Int \X Int /\ c[1] = i /\ c[2] = j - 1
  OBVIOUS
<1>2. t \in Seq(Int \X Int) /\ Len(t) \in Nat /\ (t = <<>> => j = n + 1)
  BY DEF TilesFrom
<1>. HIDE DEF c
<1>3. <<c>> \in Seq(Int \X Int) /\ Len(<<c>>) = 1 /\ <<c>>[1] = c
  BY <1>1
<1>4. /\ s \in Seq(Int \X Int) /\ Len(s) = Len(t) + 1 /\ s[1] = c
      /\ \A k \in 2..Len(s) : s[k] = t[k - 1]
  BY <1>2, <1>3
<1>5. s # <<>> /\ i # n + 1
  BY <1>2, <1>4
<1>. HIDE DEF s
<1>6. ASSUME NEW k \in 1..Len(s)
      PROVE  /\ s[k][1] = IF k = 1 THEN i ELSE s[k - 1][2] + 1
             /\ s[k][1] <= s[k][2] /\ s[k][2] - s[k][1] < w
             /\ k = Len(s) => s[k][2] = n
  <2>1. CASE k = 1
    <3>1. k = Len(s) => t = <<>>
      BY <2>1, <1>2, <1>4
    <3>2. s[k][1] = i /\ s[k][2] = j - 1
      BY <2>1, <1>1, <1>4
    <3>3. k = Len(s) => j = n + 1
      BY <3>1, <1>2
    <3>. QED BY <2>1, <3>2, <3>3
  <2>2. CASE k # 1
    <3>1. k - 1 \in 1..Len(t) /\ k \in 2..Len(s) /\ s[k] = t[k - 1]
      <4>1. k - 1 \in 1..Len(t) /\ k \in 2..Len(s)
        BY <2>2, <1>2, <1>4
      <4>. QED BY <4>1, <1>4
    <3>2. /\ t[k - 1][1] = IF k - 1 = 1 THEN j ELSE t[k - 1 - 1][2] + 1
          /\ t[k - 1][1] <= t[k - 1][2] /\ t[k - 1][2] - t[k - 1][1] < w
          /\ k - 1 = Len(t) => t[k - 1][2] = n
      BY <3>1 DEF TilesFrom
    <3>3. k = 2 => s[k - 1][2] + 1 = j
      BY <1>1, <1>4
    <3>4. k # 2 => s[k - 1] = t[k - 1 - 1]
      <4>1. k # 2 => k - 1 \in 2..Len(s)
        BY <2>2, <3>1, <1>2, <1>4
      <4>. QED BY <4>1, <1>4
    <3>5. s[k][1] = s[k - 1][2] + 1
      <4>1. CASE k = 2
        <5>1. k - 1 = 1
          BY <4>1
        <5>. QED BY <4>1, <5>1, <3>1, <3>2, <3>3
      <4>2. CASE k # 2
        <5>1. k - 1 # 1
          BY <4>2, <3>1
        <5>. QED BY <4>2, <5>1, <3>1, <3>2, <3>4
      <4>. QED BY <4>1, <4>2
    <3>6. k = Len(s) => k - 1 = Len(t)
      BY <1>2, <1>4
    <3>. QED BY <2>2, <3>1, <3>2, <3>5, <3>6
  <2>. QED BY <2>1, <2>2
<1>. QED BY <1>4, <1>5, <1>6 DEF TilesFrom, s, c

\* The pieces of a walk forward tile what is ahead, from every place.
LEMMA PiecesTile ==
    ASSUME NEW n \in Nat, NEW w \in Nat, NEW to, NEW next,
           \A i \in 1..n : next[i] \in (i + 1)..(n + 1) /\ next[i] - i <= w /\ to[i] = next[i] - 1
    PROVE  \A i \in 1..(n + 1) : TilesFrom(Pieces(n, to, next)[i], i, n, w)
<1>. DEFINE P == Pieces(n, to, next)
            bad == {k \in 0..n : ~ TilesFrom(P[(n + 1) - k], (n + 1) - k, n, w)}
<1>1. \A i \in 1..(n + 1) : P[i] = IF i > n THEN <<>> ELSE <<<<i, to[i]>>>> \o P[next[i]]
  <2>1. \A i \in 1..n : next[i] \in (i + 1)..(n + 1)
    OBVIOUS
  <2>2. Collects(P, n, to, next)
    BY <2>1, WalkForward
  <2>. HIDE DEF P
  <2>. QED BY <2>2 DEF Collects
<1>. HIDE DEF P
<1>2. bad = {}
  <2>. SUFFICES ASSUME bad # {} PROVE FALSE
    OBVIOUS
  <2>1. bad \in SUBSET Nat
    OBVIOUS
  <2>2. PICK k \in bad : \A m \in bad : k <= m
    BY <2>1, LeastOf
  <2>. DEFINE i == (n + 1) - k
  <2>3. i \in 1..(n + 1) /\ ~ TilesFrom(P[i], i, n, w)
    BY <2>2
  <2>4. i \in 1..n
    <3>1. P[n + 1] = <<>>
      <4>1. n + 1 \in 1..(n + 1) /\ n + 1 > n
        OBVIOUS
      <4>. QED BY <1>1, <4>1
    <3>2. TilesFrom(<<>>, n + 1, n, w)
      <4>1. <<>> \in Seq(Int \X Int) /\ Len(<<>>) = 0 /\ 1..0 = {}
        OBVIOUS
      <4>. QED BY <4>1 DEF TilesFrom
    <3>. HIDE DEF i
    <3>3. i # n + 1
      BY <2>3, <3>1, <3>2
    <3>. QED BY <2>3, <3>3
  <2>5. P[i] = <<<<i, to[i]>>>> \o P[next[i]]
    <3>. HIDE DEF i
    <3>1. i \in 1..(n + 1) /\ ~(i > n)
      BY <2>4
    <3>. QED BY <1>1, <3>1
  <2>6. next[i] \in (i + 1)..(n + 1) /\ next[i] - i <= w /\ to[i] = next[i] - 1
    BY <2>4
  <2>7. TilesFrom(P[next[i]], next[i], n, w)
    <3>. DEFINE m == (n + 1) - next[i]
    <3>1. m \in 0..n /\ m < k /\ next[i] = (n + 1) - m
      BY <2>2, <2>4, <2>6
    <3>2. m \notin bad
      <4>. HIDE DEF m, bad
      <4>1. k \in Nat /\ m \in Nat
        BY <2>1, <2>2, <3>1
      <4>. QED BY <2>2, <3>1, <4>1
    <3>. HIDE DEF m
    <3>3. TilesFrom(P[(n + 1) - m], (n + 1) - m, n, w)
      BY <3>1, <3>2
    <3>. QED BY <3>1, <3>3
  <2>. HIDE DEF i
  <2>8. TilesFrom(<<<<i, next[i] - 1>>>> \o P[next[i]], i, n, w)
    BY <2>4, <2>6, <2>7, OneMore
  <2>. QED BY <2>3, <2>5, <2>6, <2>8
<1>3. ASSUME NEW i \in 1..(n + 1) PROVE TilesFrom(P[i], i, n, w)
  <2>1. (n + 1) - i \in 0..n /\ (n + 1) - ((n + 1) - i) = i
    OBVIOUS
  <2>2. (n + 1) - i \notin bad
    BY <1>2
  <2>3. TilesFrom(P[(n + 1) - ((n + 1) - i)], (n + 1) - ((n + 1) - i), n, w)
    BY <2>1, <2>2
  <2>. QED BY <2>1, <2>3
<1>. QED BY <1>3 DEF P

\* What semantic_chunks returns is what a walk from the first word collects.
LEMMA ChunksArePieces ==
    ASSUME NEW doc, Len(doc.words) \in Nat, NEW maxWords, NEW floor, NEW topics
    PROVE  LET n == Len(doc.words)
               to == [i \in 1..n |-> Ch!ChunkEnd(doc, i, maxWords, floor, topics)]
               next == [i \in 1..n |-> Ch!NextStart(doc, i, maxWords, floor, topics)]
           IN Ch!Chunks(doc, maxWords, floor, topics) = Pieces(n, to, next)[1]
<1>. DEFINE n == Len(doc.words)
            To(i) == Ch!ChunkEnd(doc, i, maxWords, floor, topics)
            From(i) == Ch!NextStart(doc, i, maxWords, floor, topics)
            to == [i \in 1..n |-> To(i)]
            next == [i \in 1..n |-> From(i)]
            inline == CHOOSE f : f = [i \in 1..(n + 1) |-> IF i > n THEN <<>>
                                        ELSE <<<<i, To(i)>>>> \o f[From(i)]]
<1>1. Ch!Chunks(doc, maxWords, floor, topics) = inline[1]
  BY Zenon DEF Ch!Chunks
<1>2. inline = Pieces(n, to, next)
  <2>. HIDE DEF To, From
  <2>1. \A f : [i \in 1..(n + 1) |-> IF i > n THEN <<>> ELSE <<<<i, To(i)>>>> \o f[From(i)]]
               = [i \in 1..(n + 1) |-> IF i > n THEN <<>> ELSE <<<<i, to[i]>>>> \o f[next[i]]]
    <3>1. \A i \in 1..(n + 1) : ~(i > n) => to[i] = To(i) /\ next[i] = From(i)
      OBVIOUS
    <3>. HIDE DEF to, next
    <3>. QED BY <3>1
  <2>. HIDE DEF to, next
  <2>. QED BY <2>1 DEF Pieces, Collects
<1>. QED BY <1>1, <1>2

\* Pieces of the same length follow one another to the end.
LEMMA FixedTile ==
    ASSUME NEW n \in Nat, NEW w \in Nat, w # 0
    PROVE  Ch!Tiles(Ch!FixedChunks(n, w), n)
<1>. DEFINE K == (n + w - 1) \div w
            chunks == Ch!FixedChunks(n, w)
<1>1. K \in Nat /\ w * K <= n + w - 1 /\ n + w - 1 < w * K + w
  <2>1. \A a \in Nat, b \in Nat : b # 0 =>
           b * (a \div b) <= a /\ a < b * (a \div b) + b /\ a \div b \in Nat
    OBVIOUS
  <2>2. n + w - 1 \in Nat
    OBVIOUS
  <2>. QED BY <2>1, <2>2
<1>2. \A x, y \in Nat : Ch!Min({x, y}) = IF x <= y THEN x ELSE y
  BY DEF Ch!Min
<1>3. /\ chunks = [k \in 1..K |-> <<(k - 1) * w + 1, Ch!Min({k * w, n})>>]
  BY DEF Ch!FixedChunks
<1>. HIDE DEF K, chunks
<1>4. \A k \in 1..K : /\ chunks[k][1] = (k - 1) * w + 1
                      /\ chunks[k][2] = IF k * w <= n THEN k * w ELSE n
  <2>. SUFFICES ASSUME NEW k \in 1..K
                PROVE  /\ chunks[k][1] = (k - 1) * w + 1
                       /\ chunks[k][2] = IF k * w <= n THEN k * w ELSE n
    OBVIOUS
  <2>1. k * w \in Nat
    BY <1>1
  <2>2. Ch!Min({k * w, n}) = IF k * w <= n THEN k * w ELSE n
    BY <1>2, <2>1
  <2>3. chunks[k] = <<(k - 1) * w + 1, Ch!Min({k * w, n})>>
    BY <1>3
  <2>. QED BY <2>2, <2>3
<1>5. DOMAIN chunks = 1..K /\ Len(chunks) = K
  BY <1>1, <1>3
<1>6. \A k \in 1..K : k * w <= K * w /\ (k - 1) * w = k * w - w /\ k * w \in Nat
  BY <1>1
<1>7. K * w \in Nat /\ K * w <= n + w - 1 /\ n <= K * w
  <2>1. K * w = w * K /\ K * w \in Nat
    BY <1>1
  <2>. QED BY <1>1, <2>1
<1>8. (chunks = <<>>) = (n = 0)
  <2>1. n = 0 => K = 0
    <3>1. ASSUME n = 0, K >= 1 PROVE FALSE
      <4>1. w <= K * w
        BY <1>1, <3>1
      <4>. QED BY <1>7, <3>1, <4>1
    <3>. QED BY <1>1, <3>1
  <2>2. K = 0 => n = 0
    BY <1>7
  <2>3. chunks = <<>> <=> K = 0
    <3>1. K = 0 => chunks = <<>>
      BY <1>3
    <3>2. chunks = <<>> => K = 0
      BY <1>5
    <3>. QED BY <3>1, <3>2
  <2>. QED BY <2>1, <2>2, <2>3
<1>9. ASSUME NEW k \in 1..K
      PROVE  /\ chunks[k][1] = IF k = 1 THEN 1 ELSE chunks[k - 1][2] + 1
             /\ chunks[k][1] <= chunks[k][2]
             /\ k = K => chunks[k][2] = n
  <2>1. k * w - w < n
    BY <1>6, <1>7
  <2>2. k # 1 => chunks[k - 1][2] = k * w - w
    <3>1. k # 1 => k - 1 \in 1..K
      BY <1>1
    <3>. QED BY <1>4, <1>6, <2>1, <3>1
  <2>3. k = 1 => (k - 1) * w = 0
    OBVIOUS
  <2>4. /\ chunks[k][1] = (k - 1) * w + 1 /\ (k - 1) * w = k * w - w /\ k * w \in Nat
        /\ chunks[k][2] = IF k * w <= n THEN k * w ELSE n
    BY <1>4, <1>6
  <2>5. chunks[k][1] = IF k = 1 THEN 1 ELSE chunks[k - 1][2] + 1
    BY <2>2, <2>3, <2>4
  <2>6. chunks[k][1] <= chunks[k][2]
    BY <2>1, <2>4
  <2>7. k = K => chunks[k][2] = n
    BY <1>7, <2>4
  <2>. QED BY <2>5, <2>6, <2>7
<1>. QED BY <1>5, <1>8, <1>9 DEF Ch!Tiles, chunks

\* Whatever the document, the budget, the floor and what the segmenter sees: the
\* chunks follow one another through the document, leave out no word and repeat
\* none, and none is longer than the budget (semantic_chunks,
\* fixed_word_chunks).
THEOREM ChunksAlwaysStand ==
    ASSUME NEW doc, Len(doc.words) \in Nat, NEW maxWords \in Nat \ {0}, NEW floor, NEW topics
    PROVE  Ch!ChunksStand(doc, maxWords, floor, topics)
<1>. DEFINE n == Len(doc.words)
            to == [i \in 1..n |-> Ch!ChunkEnd(doc, i, maxWords, floor, topics)]
            next == [i \in 1..n |-> Ch!NextStart(doc, i, maxWords, floor, topics)]
            chunks == Ch!Chunks(doc, maxWords, floor, topics)
<1>1. \A i \in 1..n : /\ next[i] \in (i + 1)..(n + 1) /\ next[i] - i <= maxWords
                      /\ to[i] = next[i] - 1
  BY NextFollows
<1>2. n \in Nat /\ maxWords \in Nat /\ maxWords # 0 /\ 1 \in 1..(n + 1)
  OBVIOUS
<1>3. chunks = Pieces(n, to, next)[1]
  BY ChunksArePieces
<1>. HIDE DEF n, to, next, chunks
<1>4. TilesFrom(Pieces(n, to, next)[1], 1, n, maxWords)
  BY <1>1, <1>2, PiecesTile
<1>5. TilesFrom(chunks, 1, n, maxWords)
  BY <1>3, <1>4
<1>6. DOMAIN chunks = 1..Len(chunks)
  BY <1>5 DEF TilesFrom
<1>7. Ch!Tiles(chunks, n)
  <2>1. chunks = <<>> <=> n = 0
    BY <1>2, <1>5 DEF TilesFrom
  <2>2. \A k \in DOMAIN chunks : /\ chunks[k][1] = IF k = 1 THEN 1 ELSE chunks[k - 1][2] + 1
                                 /\ chunks[k][1] <= chunks[k][2]
                                 /\ k = Len(chunks) => chunks[k][2] = n
    BY <1>5, <1>6 DEF TilesFrom
  <2>. QED BY <2>1, <2>2 DEF Ch!Tiles
<1>8. \A k \in DOMAIN chunks : chunks[k][2] - chunks[k][1] < maxWords
  BY <1>5, <1>6 DEF TilesFrom
<1>9. Ch!Tiles(Ch!FixedChunks(n, maxWords), n)
  BY <1>2, FixedTile
<1>. QED BY <1>7, <1>8, <1>9 DEF Ch!ChunksStand, n, chunks

(* The documents the run picks.                                              *)
ChunksInput ==
    case.alg = "chunks" => Len(case.doc.words) \in Nat /\ case.max \in Nat \ {0}

(* Every document the run picks, and by the theorem above any other: chunks  *)
(* tile the document within the budget (semantic_chunks).                    *)
THEOREM ChunksAlwaysTile == Spec => []ChunksTile
<1>1. Init => ChunksInput
  BY DEF Init, NoCase, ChunksInput
<1>2. ChunksInput /\ [Next]_case => ChunksInput'
  <2>1. ASSUME PickChunks PROVE ChunksInput'
    <3>1. PICK d \in Docs, max \in {2, 3}, topics \in {{}, {2, 4}} :
             case' = [alg |-> "chunks", doc |-> d, max |-> max, floor |-> 2, topics |-> topics]
      BY <2>1 DEF PickChunks, Pick
    <3>2. case'.doc = d /\ case'.max = max
      BY <3>1
    <3>3. Len(d.words) \in Nat
      <4>1. d.words \in UpTo(Kinds, 5)
        BY DEF Docs
      <4>2. PICK k \in 0..5 : d.words \in [1..k -> Kinds]
        BY <4>1 DEF UpTo
      <4>3. Len(d.words) = k
        BY <4>2
      <4>. QED BY <4>3
    <3>. QED BY <3>2, <3>3 DEF ChunksInput
  <2>2. ASSUME ChunksInput, UNCHANGED case PROVE ChunksInput'
    BY <2>2 DEF ChunksInput
  <2>3. ASSUME Next, ~PickChunks PROVE ChunksInput'
    BY <2>3, Picked DEF ChunksInput
  <2>. QED BY <2>1, <2>2, <2>3
<1>3. ChunksInput => ChunksTile
  BY ChunksAlwaysStand DEF ChunksInput, ChunksTile
<1>. QED BY <1>1, <1>2, <1>3, PTL DEF Spec
-----------------------------------------------------------------------------
(* The contract of a capability.                                             *)

(* An element of an array, a value, and an argument with the default it may  *)
(* have: a value that has elements is an array, and a default fits its       *)
(* argument, has no blank around it and no elements (RegistryStands says     *)
(* that those of default_registry fit).                                      *)
Elements(Form) == [is : STRING, size : Int, form : Form, padded : BOOLEAN, items : {<<>>}]
IsValue(v, Form) ==
    /\ v \in [is : STRING, size : Int, form : Form, padded : BOOLEAN, items : Seq(Elements(Form))]
    /\ v.items # <<>> => v.is = "array"
DefaultsFit(arguments) ==
    \A k \in DOMAIN arguments :
        arguments[k].default # Ca!None => /\ Ca!Fits(arguments[k], arguments[k].default)
                                          /\ Ca!Strip(arguments[k].default) = arguments[k].default
                                          /\ arguments[k].default.items = <<>>

(* A value by its parts, and a value with its elements, and what tells of    *)
(* blank around it, replaced.                                                *)
Whole(a, b, c, d, e) == [is |-> a, size |-> b, form |-> c, padded |-> d, items |-> e]
Cleared(v, p, e) == [v EXCEPT !.padded = p, !.items = e]

\* Clearing leaves the other parts alone.
LEMMA ClearedParts ==
    ASSUME NEW a, NEW b, NEW c, NEW d, NEW e, NEW p, NEW q
    PROVE  Cleared(Whole(a, b, c, d, e), p, q) = Whole(a, b, c, p, q)
<1>. DEFINE v == Whole(a, b, c, d, e)
            w == Whole(a, b, c, p, e)
<1>1. [v EXCEPT !.padded = p] = w
  BY DEF Whole
<1>2. [w EXCEPT !.items = q] = Whole(a, b, c, p, q)
  BY DEF Whole
<1>3. DOMAIN v = {"is", "size", "form", "padded", "items"}
  BY DEF Whole
<1>. HIDE DEF v, w
<1>4. Cleared(v, p, q) = [[v EXCEPT !.padded = p] EXCEPT !.items = q]
  BY <1>3 DEF Cleared
<1>. QED BY <1>1, <1>2, <1>4 DEF v

\* Stripping takes the blank away and nothing else, and once is enough.
LEMMA Stripped ==
    ASSUME NEW Form, NEW v, IsValue(v, Form)
    PROVE  LET s == Ca!Strip(v)
           IN /\ s.is = v.is /\ s.size = v.size /\ s.form = v.form
              /\ DOMAIN s.items = DOMAIN v.items
              /\ \A i \in DOMAIN v.items : s.items[i].is = v.items[i].is
                                           /\ s.items[i].size = v.items[i].size
              /\ Ca!Strip(s) = s
<1>. DEFINE Bare(x) == [i \in DOMAIN x |-> [x[i] EXCEPT !.padded = FALSE]]
            items == Bare(v.items)
            no == FALSE
            s == Whole(v.is, v.size, v.form, no, items)
<1>1. \A i \in DOMAIN v.items : v.items[i] \in Elements(Form)
  BY DEF IsValue
<1>2. \A x : Ca!Strip(x) = Cleared(x, no, Bare(x.items))
  BY Zenon DEF Ca!Strip, Cleared
<1>3. \A i \in DOMAIN v.items : /\ items[i] = [v.items[i] EXCEPT !.padded = FALSE]
                                /\ items[i].is = v.items[i].is /\ items[i].size = v.items[i].size
  BY <1>1 DEF Elements
<1>4. \A i \in DOMAIN v.items : [items[i] EXCEPT !.padded = FALSE] = items[i]
  BY <1>1 DEF Elements
<1>5. DOMAIN items = DOMAIN v.items /\ items = [i \in DOMAIN items |-> items[i]]
  OBVIOUS
<1>6. Bare(items) = items
  <2>. HIDE DEF items
  <2>. QED BY <1>4, <1>5
<1>. HIDE DEF Bare, items, no
<1>7. s.is = v.is /\ s.size = v.size /\ s.form = v.form /\ s.items = items
  BY DEF Whole
<1>8. Ca!Strip(v) = s
  <2>1. v = Whole(v.is, v.size, v.form, v.padded, v.items)
    BY DEF IsValue, Whole
  <2>2. Cleared(Whole(v.is, v.size, v.form, v.padded, v.items), no, items) = s
    BY ClearedParts
  <2>3. Ca!Strip(v) = Cleared(v, no, items)
    BY <1>2 DEF items
  <2>. HIDE DEF s
  <2>. QED BY Zenon, <2>1, <2>2, <2>3
<1>9. Ca!Strip(s) = s
  <2>1. Cleared(s, no, items) = s
    BY ClearedParts
  <2>. HIDE DEF s
  <2>. QED BY <1>2, <1>6, <1>7, <2>1
<1>. HIDE DEF s
<1>. QED BY <1>3, <1>5, <1>7, <1>8, <1>9

\* What fits an argument fits it once stripped.
LEMMA StrippedFits ==
    ASSUME NEW Form, NEW v, IsValue(v, Form), NEW arg, Ca!Fits(arg, v)
    PROVE  Ca!Fits(arg, Ca!Strip(v))
<1>. DEFINE s == Ca!Strip(v)
<1>1. /\ s.is = v.is /\ s.size = v.size /\ s.form = v.form /\ DOMAIN s.items = DOMAIN v.items
      /\ \A i \in DOMAIN v.items : s.items[i].is = v.items[i].is
                                   /\ s.items[i].size = v.items[i].size
  BY Stripped
<1>. HIDE DEF s
<1>2. Ca!Fits(arg, s)
  BY <1>1 DEF Ca!Fits
<1>. QED BY <1>2 DEF s

\* Whatever the arguments and the values: what a contract lets through is
\* complete and within its bounds, and passes it again unchanged
\* (CapabilityRegistry.validate).
THEOREM ContractAlwaysStands ==
    ASSUME NEW Form, NEW arguments, DefaultsFit(arguments),
           NEW values, \A k \in DOMAIN values : IsValue(values[k], Form)
    PROVE  Ca!ContractStands(arguments, values)
<1>. DEFINE clean == Ca!Validate(arguments, values)
            missing == (DOMAIN arguments) \ DOMAIN values
            filled == {k \in missing : arguments[k].default # Ca!None}
            kept == [k \in (DOMAIN values) \cup filled |->
                        IF k \in filled THEN arguments[k].default ELSE Ca!Strip(values[k])]
<1>. SUFFICES ASSUME clean # Ca!Refusal PROVE Ca!ContractStands(arguments, values)
  BY DEF Ca!ContractStands
<1>1. /\ (DOMAIN values) \subseteq DOMAIN arguments
      /\ \A k \in missing : ~ arguments[k].required
      /\ \A k \in DOMAIN values : Ca!Fits(arguments[k], values[k])
      /\ clean = kept
  BY DEF Ca!Validate
<1>2. DOMAIN kept = (DOMAIN values) \cup filled
  OBVIOUS
<1>3. \A k \in DOMAIN values : kept[k] = Ca!Strip(values[k])
  OBVIOUS
<1>4. \A k \in filled : kept[k] = arguments[k].default
  OBVIOUS
<1>5. \A k \in filled : k \in DOMAIN arguments /\ arguments[k].default # Ca!None
  OBVIOUS
<1>6. \A k \in (DOMAIN arguments) \ DOMAIN kept : ~ arguments[k].required /\ arguments[k].default = Ca!None
  BY <1>1, <1>2
<1>7. kept = [k \in DOMAIN kept |-> kept[k]]
  OBVIOUS
<1>. HIDE DEF kept, clean
<1>8. ASSUME NEW k \in DOMAIN kept
      PROVE  /\ k \in DOMAIN arguments /\ Ca!Fits(arguments[k], kept[k]) /\ Ca!Strip(kept[k]) = kept[k]
             /\ \A i \in DOMAIN kept[k].items :
                   kept[k].items[i].is = "string" /\ kept[k].items[i].size > 0
  <2>1. CASE k \in filled
    <3>. HIDE DEF filled
    <3>1. kept[k].items = <<>> => \A i \in DOMAIN kept[k].items : FALSE
      OBVIOUS
    <3>. QED BY <2>1, <3>1, <1>4, <1>5 DEF DefaultsFit
  <2>2. CASE k \in DOMAIN values
    <3>. DEFINE v == values[k]
    <3>1. IsValue(v, Form) /\ Ca!Fits(arguments[k], v) /\ kept[k] = Ca!Strip(v)
      BY <2>2, <1>1, <1>3
    <3>2. k \in DOMAIN arguments
      BY <2>2, <1>1
    <3>. HIDE DEF v
    <3>3. Ca!Fits(arguments[k], kept[k]) /\ Ca!Strip(kept[k]) = kept[k]
      BY <3>1, StrippedFits, Stripped
    <3>4. /\ DOMAIN kept[k].items = DOMAIN v.items
          /\ \A i \in DOMAIN v.items : kept[k].items[i].is = v.items[i].is
                                       /\ kept[k].items[i].size = v.items[i].size
      BY <3>1, Stripped
    <3>5. \A i \in DOMAIN v.items : v.items[i].is = "string" /\ v.items[i].size > 0
      <4>1. v.items # <<>> => arguments[k].kind = "array"
        BY <3>1 DEF IsValue, Ca!Fits
      <4>2. v.items = <<>> => DOMAIN v.items = {}
        OBVIOUS
      <4>. QED BY <3>1, <4>1, <4>2 DEF Ca!Fits
    <3>. QED BY <3>2, <3>3, <3>4, <3>5
  <2>. QED BY <2>1, <2>2, <1>2
<1>9. Ca!Validate(arguments, kept) = kept
  <2>. DEFINE none == {k \in (DOMAIN arguments) \ DOMAIN kept : arguments[k].default # Ca!None}
              again == [k \in (DOMAIN kept) \cup none |->
                           IF k \in none THEN arguments[k].default ELSE Ca!Strip(kept[k])]
  <2>1. none = {}
    BY <1>6
  <2>2. Ca!Validate(arguments, kept) = again
    BY <1>6, <1>8 DEF Ca!Validate
  <2>. HIDE DEF none
  <2>3. again = [k \in DOMAIN kept |-> kept[k]]
    BY <2>1, <1>8
  <2>. QED BY <2>2, <2>3, <1>7
<1>10. \A k \in DOMAIN arguments : arguments[k].required => k \in DOMAIN kept
  BY <1>6
<1>. QED BY <1>1, <1>8, <1>9, <1>10 DEF Ca!ContractStands, clean

-----------------------------------------------------------------------------
(* The choice of a threshold.                                                *)

Pair(top) == [score : 0..top, positive : BOOLEAN]
IsScored(scored, top) ==
    /\ Len(scored) \in Nat /\ DOMAIN scored = 1..Len(scored)
    /\ \A k \in DOMAIN scored : scored[k].score \in 0..top /\ scored[k].positive \in BOOLEAN
HitsAt(scored, t, positive) ==
    {k \in DOMAIN scored : scored[k].positive = positive /\ scored[k].score >= t}

\* How many pairs hit is how many there are that do; a higher threshold is hit by
\* no other pair, and when as many hit it, they are the same.
LEMMA HitsCounted ==
    ASSUME NEW top \in Nat, NEW scored, IsScored(scored, top), NEW positive \in BOOLEAN,
           NEW t \in Int
    PROVE  /\ Ev!Hits(scored, t, positive) \in 0..Len(scored)
           /\ Ev!Hits(scored, t, positive) = 0 <=> HitsAt(scored, t, positive) = {}
           /\ \A u \in Int : u <= t =>
                 /\ Ev!Hits(scored, t, positive) <= Ev!Hits(scored, u, positive)
                 /\ (Ev!Hits(scored, t, positive) = Ev!Hits(scored, u, positive)
                       <=> HitsAt(scored, t, positive) = HitsAt(scored, u, positive))
<1>1. \A S : Ev!Cardinality(S) = Cardinality(S)
  BY DEF Ev!Cardinality, Cardinality
<1>2. \A u : Ev!Hits(scored, u, positive) = Cardinality(HitsAt(scored, u, positive))
  BY <1>1 DEF Ev!Hits, HitsAt
<1>3. IsFiniteSet(DOMAIN scored) /\ Cardinality(DOMAIN scored) = Len(scored) /\ Len(scored) \in Nat
  <2>1. IsFiniteSet(1..Len(scored)) /\ Cardinality(1..Len(scored)) = Len(scored)
    <3>1. \A n \in Nat : IsFiniteSet(1..n) /\ Cardinality(1..n) = n
      <4>. SUFFICES ASSUME NEW n \in Nat
                    PROVE  IsFiniteSet(1..n) /\ Cardinality(1..n) = n
        OBVIOUS
      <4>1. 1 \in Int /\ n \in Int
        OBVIOUS
      <4>. QED BY <4>1, FS_Interval
    <3>. QED BY <3>1 DEF IsScored
  <2>. QED BY <2>1 DEF IsScored
<1>4. \A u \in Int : /\ HitsAt(scored, u, positive) \in SUBSET DOMAIN scored
                     /\ IsFiniteSet(HitsAt(scored, u, positive))
                     /\ Cardinality(HitsAt(scored, u, positive)) \in 0..Len(scored)
  <2>. SUFFICES ASSUME NEW u \in Int
                PROVE  /\ HitsAt(scored, u, positive) \in SUBSET DOMAIN scored
                       /\ IsFiniteSet(HitsAt(scored, u, positive))
                       /\ Cardinality(HitsAt(scored, u, positive)) \in 0..Len(scored)
    OBVIOUS
  <2>1. HitsAt(scored, u, positive) \in SUBSET DOMAIN scored
    BY DEF HitsAt
  <2>2. /\ IsFiniteSet(HitsAt(scored, u, positive))
        /\ Cardinality(HitsAt(scored, u, positive)) <= Cardinality(DOMAIN scored)
    BY <1>3, <2>1, FS_Subset
  <2>3. Cardinality(HitsAt(scored, u, positive)) \in Nat
    BY <2>2, FS_CardinalityType
  <2>. QED BY <1>3, <2>1, <2>2, <2>3
<1>5. Cardinality(HitsAt(scored, t, positive)) = 0 <=> HitsAt(scored, t, positive) = {}
  BY <1>4, FS_EmptySet
<1>6. ASSUME NEW u \in Int, u <= t
      PROVE  /\ Cardinality(HitsAt(scored, t, positive)) <= Cardinality(HitsAt(scored, u, positive))
             /\ (Cardinality(HitsAt(scored, t, positive)) = Cardinality(HitsAt(scored, u, positive))
                   <=> HitsAt(scored, t, positive) = HitsAt(scored, u, positive))
  <2>1. HitsAt(scored, t, positive) \in SUBSET HitsAt(scored, u, positive)
    BY <1>6 DEF HitsAt, IsScored
  <2>2. IsFiniteSet(HitsAt(scored, u, positive))
    BY <1>4
  <2>. QED BY <2>1, <2>2, FS_Subset
<1>. QED BY <1>2, <1>4, <1>5, <1>6

Point(n) == [threshold : Int, tp : 0..n, fp : 0..n]

\* Of some points of a sweep, one is no worse than any: it catches the most, of
\* those it admits the fewest, of those it is the strictest.
LEMMA BestIsThere ==
    ASSUME NEW n \in Nat, NEW high \in Int, NEW pool, pool # {}, pool \subseteq Point(n),
           \A p \in pool : p.threshold <= high
    PROVE  \E p \in pool : \A q \in pool : Ev!Better(p, q)
<1>1. \A p \in pool : p.threshold \in Int /\ p.tp \in 0..n /\ p.fp \in 0..n
  BY DEF Point
<1>. DEFINE caught == {p.tp : p \in pool}
<1>2. caught \subseteq Int /\ caught # {} /\ \A i \in caught : i <= n
  BY <1>1
<1>3. n \in Int
  OBVIOUS
<1>. HIDE DEF caught
<1>4. PICK tp \in caught : \A i \in caught : i <= tp
  BY <1>2, <1>3, GreatestOf
<1>. DEFINE most == {p \in pool : p.tp = tp}
            admitted == {p.fp : p \in most}
<1>5. admitted \in SUBSET Nat /\ admitted # {}
  <2>1. most # {}
    BY DEF caught
  <2>. QED BY <1>1, <2>1
<1>. HIDE DEF admitted
<1>6. PICK fp \in admitted : \A i \in admitted : fp <= i
  BY <1>5, LeastOf
<1>. DEFINE fewest == {p \in most : p.fp = fp}
            thresholds == {p.threshold : p \in fewest}
<1>7. thresholds \subseteq Int /\ thresholds # {} /\ \A i \in thresholds : i <= high
  <2>1. fewest # {}
    BY DEF admitted
  <2>. QED BY <1>1, <2>1
<1>. HIDE DEF thresholds
<1>8. PICK threshold \in thresholds : \A i \in thresholds : i <= threshold
  BY <1>7, GreatestOf
<1>9. PICK p \in fewest : p.threshold = threshold
  BY DEF thresholds
<1>10. ASSUME NEW q \in pool PROVE Ev!Better(p, q)
  <2>1. p \in pool /\ p.tp = tp /\ p.fp = fp
    OBVIOUS
  <2>2. q.tp <= tp
    BY <1>4 DEF caught
  <2>3. q.tp = tp => fp <= q.fp
    BY <1>6 DEF admitted
  <2>4. (q.tp = tp /\ q.fp = fp) => q.threshold <= p.threshold
    BY <1>8, <1>9 DEF thresholds
  <2>5. /\ q.tp \in Int /\ q.fp \in Int /\ q.threshold \in Int
        /\ p.tp \in Int /\ p.fp \in Int /\ p.threshold \in Int
    BY <1>1, <2>1
  <2>. HIDE DEF fewest, most
  <2>. QED BY <2>1, <2>2, <2>3, <2>4, <2>5 DEF Ev!Better
<1>. QED BY <1>10
\* The smallest of some natural numbers and the largest of some that are bounded,
\* as Min and Max of Evals take them.
LEMMA EndsOf ==
    /\ \A S \in SUBSET Nat : S # {} =>
          Ev!Min(S) \in S /\ \A i \in S : Ev!Min(S) <= i
    /\ \A b \in Int : \A S \in SUBSET Int : (S # {} /\ \A i \in S : i <= b) =>
          Ev!Max(S) \in S /\ \A i \in S : i <= Ev!Max(S)
<1>1. ASSUME NEW S \in SUBSET Nat, S # {}
      PROVE  Ev!Min(S) \in S /\ \A i \in S : Ev!Min(S) <= i
  BY <1>1, LeastOf DEF Ev!Min
<1>2. ASSUME NEW b \in Int, NEW S \in SUBSET Int, S # {}, \A i \in S : i <= b
      PROVE  Ev!Max(S) \in S /\ \A i \in S : i <= Ev!Max(S)
  <2>1. PICK n \in S : \A i \in S : i <= n
    BY <1>2, GreatestOf
  <2>2. \A i \in S : n >= i
    BY <2>1
  <2>3. Ev!Max(S) \in S /\ \A i \in S : Ev!Max(S) >= i
    BY <2>2 DEF Ev!Max
  <2>. QED BY <2>3
<1>. QED BY <1>1, <1>2

\* The thresholds of a grid lie in the range it was asked for and rise.
LEMMA GridInRange ==
    ASSUME NEW low \in Int, NEW high \in Int, low <= high, NEW step \in Nat, step > 0
    PROVE  LET grid == Ev!Thresholds(low, high, step)
               n    == ((high - low) \div step) + 1
           IN /\ n \in Nat /\ DOMAIN grid = 1..n /\ Len(grid) = n
              /\ \A k \in DOMAIN grid : grid[k] \in low..high
              /\ \A j, k \in DOMAIN grid : j <= k => grid[j] <= grid[k]
<1>. DEFINE d == (high - low) \div step
            grid == Ev!Thresholds(low, high, step)
<1>1. d \in Nat /\ step * d <= high - low
  <2>1. \A a, b \in Nat : b > 0 => (a \div b \in Nat /\ b * (a \div b) <= a)
    OBVIOUS
  <2>2. high - low \in Nat
    OBVIOUS
  <2>. QED BY <2>1, <2>2
<1>2. grid = [k \in 1..(d + 1) |-> low + (k - 1) * step]
  BY DEF Ev!Thresholds
<1>. HIDE DEF d, grid
<1>3. DOMAIN grid = 1..(d + 1) /\ d + 1 \in Nat
  BY <1>1, <1>2
<1>4. Len(grid) = d + 1
  BY <1>2, <1>3
<1>5. ASSUME NEW k \in DOMAIN grid PROVE grid[k] = low + (k - 1) * step
  BY <1>2, <1>3
<1>6. ASSUME NEW j \in 1..(d + 1), NEW k \in 1..(d + 1), j <= k
      PROVE  /\ (j - 1) * step \in Nat /\ (k - 1) * step \in Nat
             /\ (j - 1) * step <= (k - 1) * step /\ (k - 1) * step <= step * d
  <2>1. \A x, y, z \in Nat : x <= y => (x * z \in Nat /\ y * z \in Nat /\ x * z <= y * z)
    OBVIOUS
  <2>2. j - 1 \in Nat /\ k - 1 \in Nat /\ j - 1 <= k - 1 /\ k - 1 <= d
    BY <1>1, <1>6
  <2>3. d * step = step * d
    BY <1>1
  <2>. QED BY <1>1, <2>1, <2>2, <2>3
<1>7. ASSUME NEW k \in DOMAIN grid PROVE grid[k] \in low..high
  <2>1. (k - 1) * step \in Nat /\ (k - 1) * step <= step * d
    BY <1>3, <1>6
  <2>. QED BY <1>1, <1>5, <2>1
<1>8. ASSUME NEW j \in DOMAIN grid, NEW k \in DOMAIN grid, j <= k
      PROVE  grid[j] <= grid[k]
  <2>1. /\ (j - 1) * step \in Nat /\ (k - 1) * step \in Nat
        /\ (j - 1) * step <= (k - 1) * step
    BY <1>3, <1>6, <1>8
  <2>. QED BY <1>5, <2>1
<1>. QED BY <1>3, <1>4, <1>7, <1>8 DEF d, grid
\* A labelled set can be separated exactly when some score of what should hit
\* admits all of that and nothing else.
LEMMA SeparableByAScore ==
    ASSUME NEW top \in Nat, NEW scored, IsScored(scored, top),
           \E k \in DOMAIN scored : scored[k].positive,
           \E k \in DOMAIN scored : ~ scored[k].positive
    PROVE  Ev!Separable(scored) <=>
              \E t \in Ev!ScoresOf(scored, TRUE) :
                 /\ Ev!Hits(scored, t, FALSE) = 0
                 /\ Ev!Hits(scored, t, TRUE) = Ev!Hits(scored, 0, TRUE)
<1>. DEFINE good == Ev!ScoresOf(scored, TRUE)
            bad  == Ev!ScoresOf(scored, FALSE)
            tells(t) == /\ Ev!Hits(scored, t, FALSE) = 0
                        /\ Ev!Hits(scored, t, TRUE) = Ev!Hits(scored, 0, TRUE)
<1>1. \A k \in DOMAIN scored : scored[k].score \in 0..top /\ scored[k].positive \in BOOLEAN
  BY DEF IsScored
<1>2. /\ good \subseteq 0..top /\ bad \subseteq 0..top
      /\ good # {} /\ bad # {}
  BY <1>1, Zenon DEF Ev!ScoresOf
<1>3. Ev!Separable(scored) <=> Ev!Min(good) > Ev!Max(bad)
  BY <1>2 DEF Ev!Separable
<1>. HIDE DEF good, bad
<1>4. (\A i \in good : i \in Int /\ 0 <= i) /\ (\A i \in bad : i \in Int /\ 0 <= i)
  BY <1>2
<1>5. ASSUME NEW t \in good
      PROVE  tells(t) <=> (\A i \in bad : i < t) /\ (\A i \in good : t <= i)
  <2>1. t \in Int /\ 0 \in Int /\ 0 <= t
    BY <1>4
  <2>2. Ev!Hits(scored, t, FALSE) = 0 <=> HitsAt(scored, t, FALSE) = {}
    BY <2>1, HitsCounted
  <2>3. Ev!Hits(scored, t, TRUE) = Ev!Hits(scored, 0, TRUE)
          <=> HitsAt(scored, t, TRUE) = HitsAt(scored, 0, TRUE)
    BY <2>1, HitsCounted
  <2>4. HitsAt(scored, t, FALSE) = {} <=> \A i \in bad : i < t
    <3>1. HitsAt(scored, t, FALSE) = {} <=>
            \A k \in DOMAIN scored : scored[k].positive = FALSE => ~(scored[k].score >= t)
      BY DEF HitsAt
    <3>2. (\A i \in bad : i < t) <=>
            \A k \in DOMAIN scored : scored[k].positive = FALSE => scored[k].score < t
      BY Zenon DEF Ev!ScoresOf, bad
    <3>3. \A k \in DOMAIN scored : ~(scored[k].score >= t) <=> scored[k].score < t
      BY <1>1, <2>1
    <3>. QED BY <3>1, <3>2, <3>3
  <2>5. HitsAt(scored, t, TRUE) = HitsAt(scored, 0, TRUE) <=> \A i \in good : t <= i
    <3>1. HitsAt(scored, t, TRUE) = HitsAt(scored, 0, TRUE) <=>
            \A k \in DOMAIN scored : scored[k].positive = TRUE => scored[k].score >= t
      BY <1>1, <2>1 DEF HitsAt
    <3>2. (\A i \in good : t <= i) <=>
            \A k \in DOMAIN scored : scored[k].positive = TRUE => t <= scored[k].score
      BY Zenon DEF Ev!ScoresOf, good
    <3>3. \A k \in DOMAIN scored : scored[k].score >= t <=> t <= scored[k].score
      BY <1>1, <2>1
    <3>. QED BY <3>1, <3>2, <3>3
  <2>. QED BY <2>2, <2>3, <2>4, <2>5
<1>. HIDE DEF tells
<1>6. /\ Ev!Min(good) \in good /\ \A i \in good : Ev!Min(good) <= i
      /\ Ev!Max(bad) \in bad /\ \A i \in bad : i <= Ev!Max(bad)
  <2>1. good \in SUBSET Nat /\ bad \in SUBSET Int /\ top \in Int /\ \A i \in bad : i <= top
    BY <1>2
  <2>. QED BY <1>2, <2>1, EndsOf
<1>7. Ev!Min(good) > Ev!Max(bad) <=> \E t \in good : tells(t)
  <2>1. ASSUME Ev!Min(good) > Ev!Max(bad) PROVE \E t \in good : tells(t)
    <3>1. \A i \in bad : i < Ev!Min(good)
      BY <1>4, <1>6, <2>1
    <3>. QED BY <1>5, <1>6, <3>1
  <2>2. ASSUME NEW t \in good, tells(t) PROVE Ev!Min(good) > Ev!Max(bad)
    <3>1. Ev!Max(bad) < t /\ t <= Ev!Min(good)
      BY <1>5, <1>6, <2>2
    <3>. QED BY <1>4, <1>6, <3>1
  <2>. QED BY <2>1, <2>2
<1>. QED BY <1>3, <1>7 DEF good, tells

\* Of every labelled set and every range, the sweep is monotone and stays in the
\* range, and the threshold that is recommended admits no collision when any of
\* the grid does not, and tells the pairs apart when any of the grid does
\* (thresholds, sweep, separable, steepest_fpr_drop and best_operating of
\* evals/pairs.py, which raises when the range is empty or the step not positive).
THEOREM ThresholdAlwaysStands ==
    ASSUME NEW top \in Nat, NEW records, IsScored(records, top), NEW low \in Int,
           NEW high \in Int, low <= high, NEW step \in Nat, step > 0
    PROVE  Ev!ThresholdStands(records, low, high, step)
<1>. DEFINE n == Len(records)
            grid == Ev!Thresholds(low, high, step)
            operating == Ev!Sweep(records, grid)
            points == Ev!ToSet(operating)
            clean == {p \in points : p.fp = 0}
            pool == IF clean # {} THEN clean ELSE points
            best == Ev!BestOperating(operating)
            caught(t) == Ev!Hits(records, t, TRUE)
            admitted(t) == Ev!Hits(records, t, FALSE)
            tells(t) == admitted(t) = 0 /\ caught(t) = caught(0)
            steps == 1..(Len(operating) - 1)
            drop(k) == operating[k].fp - operating[k + 1].fp
            steepest == {k \in steps : \A j \in steps : drop(j) <= drop(k)}
<1>1. n \in Nat
  BY DEF IsScored
<1>2. PICK size \in Nat :
        /\ size > 0 /\ DOMAIN grid = 1..size /\ Len(grid) = size
        /\ \A k \in DOMAIN grid : grid[k] \in low..high
        /\ \A j, k \in DOMAIN grid : j <= k => grid[j] <= grid[k]
  <2>1. \A a, b \in Nat : b > 0 => a \div b \in Nat
    OBVIOUS
  <2>2. high - low \in Nat /\ (high - low) \div step \in Nat
    BY <2>1
  <2>. DEFINE d == (high - low) \div step
  <2>3. d + 1 \in Nat /\ d + 1 > 0
    BY <2>2
  <2>. HIDE DEF d
  <2>4. /\ DOMAIN grid = 1..(d + 1) /\ Len(grid) = d + 1
        /\ \A k \in DOMAIN grid : grid[k] \in low..high
        /\ \A j, k \in DOMAIN grid : j <= k => grid[j] <= grid[k]
    BY GridInRange DEF d
  <2>. QED BY <2>3, <2>4
<1>3. /\ DOMAIN operating = DOMAIN grid
      /\ \A k \in DOMAIN grid :
            operating[k] = [threshold |-> grid[k],
                            tp |-> caught(grid[k]), fp |-> admitted(grid[k])]
  BY DEF Ev!Sweep
<1>4. ASSUME NEW t \in Int
      PROVE  /\ caught(t) \in 0..n /\ admitted(t) \in 0..n
             /\ \A u \in Int : u <= t => (caught(t) <= caught(u) /\ admitted(t) <= admitted(u))
             /\ caught(t) <= caught(0)
  <2>1. /\ caught(t) \in 0..n
        /\ \A u \in Int : u <= t => caught(t) <= caught(u)
    BY HitsCounted
  <2>2. /\ admitted(t) \in 0..n
        /\ \A u \in Int : u <= t => admitted(t) <= admitted(u)
    BY HitsCounted
  <2>3. CASE 0 <= t
    <3>1. 0 \in Int
      OBVIOUS
    <3>. QED BY <2>1, <2>2, <2>3, <3>1
  <2>4. CASE t <= 0
    <3>1. HitsAt(records, 0, TRUE) = HitsAt(records, t, TRUE)
      BY <2>4 DEF HitsAt, IsScored
    <3>2. 0 \in Int
      OBVIOUS
    <3>3. Ev!Hits(records, 0, TRUE) = Ev!Hits(records, t, TRUE)
            <=> HitsAt(records, 0, TRUE) = HitsAt(records, t, TRUE)
      BY <2>4, <3>2, HitsCounted
    <3>4. caught(0) = caught(t)
      BY <3>1, <3>3
    <3>. HIDE DEF caught, admitted, n
    <3>. QED BY <1>1, <2>1, <2>2, <3>4
  <2>5. 0 <= t \/ t <= 0
    OBVIOUS
  <2>. HIDE DEF caught, admitted, n
  <2>. QED BY <2>3, <2>4, <2>5
<1>. HIDE DEF caught, admitted, n, grid, operating
<1>5. ASSUME NEW k \in DOMAIN grid
      PROVE  /\ operating[k] \in Point(n) /\ operating[k].threshold = grid[k]
             /\ grid[k] \in Int /\ grid[k] <= high
             /\ operating[k].tp = caught(grid[k])
             /\ operating[k].fp = admitted(grid[k])
  <2>1. grid[k] \in Int /\ grid[k] <= high
    BY <1>2
  <2>2. caught(grid[k]) \in 0..n /\ admitted(grid[k]) \in 0..n
    BY <1>4, <2>1
  <2>. QED BY <1>3, <2>1, <2>2 DEF Point
<1>6. \A j, k \in DOMAIN grid : j <= k =>
         operating[k].tp <= operating[j].tp /\ operating[k].fp <= operating[j].fp
  BY <1>2, <1>4, <1>5
<1>7. points = {operating[k] : k \in DOMAIN grid}
  BY <1>3 DEF Ev!ToSet
<1>8. points # {} /\ points \subseteq Point(n) /\ \A p \in points : p.threshold <= high
  <2>1. 1 \in DOMAIN grid
    BY <1>2
  <2>. QED BY <1>5, <1>7, <2>1
<1>9. best \in pool /\ \A q \in pool : Ev!Better(best, q)
  <2>1. best = CHOOSE p \in pool : \A q \in pool : Ev!Better(p, q)
    BY DEF Ev!BestOperating
  <2>2. pool # {} /\ pool \subseteq Point(n) /\ \A p \in pool : p.threshold <= high
    BY <1>8
  <2>. HIDE DEF pool, best
  <2>3. \E p \in pool : \A q \in pool : Ev!Better(p, q)
    BY <1>1, <2>2, BestIsThere
  <2>. QED BY <2>1, <2>3
<1>. HIDE DEF best, points
<1>10. ASSUME NEW k \in DOMAIN grid, operating[k].fp = 0
       PROVE  best.fp = 0 /\ best.tp >= operating[k].tp
  <2>1. operating[k] \in clean /\ pool = clean
    BY <1>7, <1>10
  <2>2. best.fp = 0 /\ best \in points /\ Ev!Better(best, operating[k])
    BY <1>9, <2>1
  <2>3. best.tp \in 0..n /\ operating[k].tp \in 0..n
    BY <1>5, <1>8, <2>2 DEF Point
  <2>. QED BY <2>2, <2>3 DEF Ev!Better
<1>11. ASSUME NEW k \in DOMAIN grid, tells(grid[k]) PROVE tells(best.threshold)
  <2>1. operating[k].fp = 0 /\ operating[k].tp = caught(0)
    BY <1>5, <1>11
  <2>2. best.fp = 0 /\ best.tp >= caught(0)
    BY <1>10, <2>1
  <2>3. PICK j \in DOMAIN grid : best = operating[j]
    BY <1>7, <1>9
  <2>4. /\ best.threshold = grid[j] /\ grid[j] \in Int
        /\ best.tp = caught(grid[j]) /\ best.fp = admitted(grid[j])
    BY <1>5, <2>3
  <2>5. caught(grid[j]) \in 0..n /\ caught(grid[j]) <= caught(0)
    BY <1>4, <2>4
  <2>6. caught(0) \in 0..n
    BY <1>4
  <2>7. caught(grid[j]) = caught(0)
    BY <1>1, <2>2, <2>4, <2>5, <2>6
  <2>. QED BY <2>2, <2>4, <2>7
<1>12. ASSUME Len(grid) > 1
       PROVE  operating[Ev!Knee(operating)].fp >= operating[Ev!Knee(operating) + 1].fp
  <2>1. Len(operating) = Len(grid)
    BY <1>2, <1>3
  <2>2. steps = 1..(size - 1) /\ \A k \in steps : k \in DOMAIN grid /\ k + 1 \in DOMAIN grid
    BY <1>2, <2>1
  <2>3. \A k \in DOMAIN grid : operating[k].fp \in 0..n
    BY <1>5 DEF Point
  <2>. HIDE DEF steps
  <2>4. \A k \in steps : drop(k) \in Int /\ drop(k) <= n
    BY <1>1, <2>2, <2>3
  <2>. HIDE DEF drop
  <2>. DEFINE falls == {drop(k) : k \in steps}
  <2>5. falls \subseteq Int /\ falls # {} /\ n \in Int /\ \A i \in falls : i <= n
    <3>1. 1 \in steps
      BY <1>2, <1>12, <2>2
    <3>. QED BY <1>1, <2>4, <3>1
  <2>. HIDE DEF falls
  <2>6. PICK most \in falls : \A i \in falls : i <= most
    BY <2>5, GreatestOf
  <2>7. steepest # {} /\ steepest \in SUBSET Nat
    <3>1. PICK k \in steps : most = drop(k)
      BY DEF falls
    <3>2. \A j \in steps : drop(j) <= drop(k)
      BY <2>6, <3>1 DEF falls
    <3>3. steps \subseteq Nat
      BY <2>2
    <3>. QED BY <3>2, <3>3
  <2>8. Ev!Knee(operating) = Ev!Min(steepest)
    BY DEF Ev!Knee, steps, drop
  <2>. HIDE DEF steepest
  <2>9. Ev!Min(steepest) \in steepest
    BY <2>7, EndsOf
  <2>10. Ev!Knee(operating) \in steps
    BY <2>8, <2>9 DEF steepest
  <2>. DEFINE knee == Ev!Knee(operating)
  <2>. HIDE DEF knee
  <2>11. knee \in DOMAIN grid /\ knee + 1 \in DOMAIN grid /\ knee <= knee + 1
    BY <1>2, <2>2, <2>10 DEF knee
  <2>12. /\ operating[knee + 1].fp <= operating[knee].fp
         /\ operating[knee].fp \in 0..n /\ operating[knee + 1].fp \in 0..n
    BY <1>6, <2>3, <2>11
  <2>13. operating[knee].fp >= operating[knee + 1].fp
    BY <1>1, <2>12
  <2>. QED BY <2>13 DEF knee
<1>13. ASSUME Ev!Loads(records)
       PROVE  Ev!Separable(records) = \E t \in Ev!ScoresOf(records, TRUE) : tells(t)
  <2>1. /\ \E k \in DOMAIN records : records[k].positive
        /\ \E k \in DOMAIN records : ~ records[k].positive
    BY <1>13 DEF Ev!Loads
  <2>2. Ev!Separable(records) <=> \E t \in Ev!ScoresOf(records, TRUE) : tells(t)
    BY <2>1, SeparableByAScore DEF caught, admitted
  <2>3. Ev!Separable(records) \in BOOLEAN
    BY DEF Ev!Separable
  <2>. QED BY <2>2, <2>3
<1>14. \A k \in DOMAIN grid : grid[k] \in low..high
  BY <1>2
<1>. QED
  BY <1>6, <1>10, <1>11, <1>12, <1>13, <1>14, Zenon
     DEF Ev!ThresholdStands, caught, admitted, grid, operating, best
-----------------------------------------------------------------------------
(* The wall every surface passes.                                            *)

\* Each property the catalog declares has a kind.
LEMMA DeclaredHasKind ==
    ASSUME NEW type \in DOMAIN Sf!Components, NEW name \in DOMAIN Sf!Components[type]
    PROVE  Sf!Components[type][name] # "none"
<1>1. type \in {"Row", "Column", "List", "Card"}
        => Sf!Components[type][name] # "none"
  BY SMTT(60) DEF Sf!Components
<1>2. type \in {"Divider", "Text", "Image", "TextField"}
        => Sf!Components[type][name] # "none"
  BY SMTT(60) DEF Sf!Components
<1>3. type \in {"CheckBox", "Slider", "InputChoice", "DateTime"}
        => Sf!Components[type][name] # "none"
  BY SMTT(60) DEF Sf!Components
<1>4. type \in {"Button", "Tabs", "Modal", "BarChart"}
        => Sf!Components[type][name] # "none"
  BY SMTT(60) DEF Sf!Components
<1>5. type \in {"Sparkline", "StatTile", "ProgressBar", "Timeline"}
        => Sf!Components[type][name] # "none"
  BY SMTT(60) DEF Sf!Components
<1>6. type \in {"DataTable", "Notice", "ApprovalCard"}
        => Sf!Components[type][name] # "none"
  BY SMTT(60) DEF Sf!Components
<1>7. \/ type \in {"Row", "Column", "List", "Card"}
      \/ type \in {"Divider", "Text", "Image", "TextField"}
      \/ type \in {"CheckBox", "Slider", "InputChoice", "DateTime"}
      \/ type \in {"Button", "Tabs", "Modal", "BarChart"}
      \/ type \in {"Sparkline", "StatTile", "ProgressBar", "Timeline"}
      \/ type \in {"DataTable", "Notice", "ApprovalCard"}
  BY DEF Sf!Components
<1>. QED BY <1>1, <1>2, <1>3, <1>4, <1>5, <1>6, <1>7

(* The rules of the wall, said of one property.                              *)
FieldClean(type, f) ==
    LET name == f[1]
        v    == f[2]
        kind == Sf!Components[type][name]
    IN /\ name \in DOMAIN Sf!Components[type]
       /\ v # Sf!Str("javascript:")
       /\ kind = "text" => v # Sf!Str("<b>")
       /\ kind = "binding" => v.is = "bind" /\ v.of \notin {Sf!BadPointer, Sf!NotAString}
       /\ kind = "action" => v.is = "act" /\ v.of \in Sf!RegisteredActions
       /\ kind \in DOMAIN Sf!Enum => v \in {Sf!Str(s) : s \in Sf!Enum[kind]}

\* The checks on a property, in their order, let through what keeps the rules,
\* and raise only over a value that can neither be matched nor looked up.
LEMMA FieldWall ==
    ASSUME NEW type \in DOMAIN Sf!Components, NEW f, NEW Is, NEW Of, f[2] \in [is : Is, of : Of]
    PROVE  /\ Sf!FieldFault(type, f) = "fine" <=> FieldClean(type, f)
           /\ Sf!FieldFault(type, f) = "raises" =>
                 f[2] \in {Sf!Bind(Sf!NotAString), Sf!Act(Sf!NotHashable)}
<1>. DEFINE props == Sf!Components[type]
            name == f[1]
            v == f[2]
            kind == IF name \in DOMAIN props THEN props[name] ELSE "none"
<1>1. kind = "none" <=> name \notin DOMAIN props
  BY DeclaredHasKind
<1>2. v = [is |-> v.is, of |-> v.of]
  OBVIOUS
<1>3. name \in DOMAIN props => kind = props[name]
  OBVIOUS
<1>4. FieldClean(type, f) <=>
         /\ name \in DOMAIN props
         /\ v # Sf!Str("javascript:")
         /\ kind = "text" => v # Sf!Str("<b>")
         /\ kind = "binding" => v.is = "bind" /\ v.of \notin {Sf!BadPointer, Sf!NotAString}
         /\ kind = "action" => v.is = "act" /\ v.of \in Sf!RegisteredActions
         /\ kind \in DOMAIN Sf!Enum => v \in {Sf!Str(s) : s \in Sf!Enum[kind]}
  BY <1>3, Zenon DEF FieldClean
<1>5. Sf!FieldFault(type, f) =
        CASE kind = "none" -> "data-not-code"
          [] kind \in {"text", "binding"} /\ Sf!LooksLikeMarkup(v) -> "data-not-code"
          [] Sf!LooksLikeJsUrl(v) -> "data-not-code"
          [] kind = "binding" /\ v.is = "bind" /\ v.of = Sf!NotAString -> "raises"
          [] kind = "binding" /\ (v.is # "bind" \/ v.of = Sf!BadPointer) -> "data-not-code"
          [] kind \in DOMAIN Sf!Enum /\ (v.is # "str" \/ v.of \notin Sf!Enum[kind]) -> "data-not-code"
          [] kind = "action" /\ v = Sf!Act(Sf!NotHashable) -> "raises"
          [] kind = "action" /\ (v.is # "act" \/ v.of \notin Sf!RegisteredActions) -> "event"
          [] OTHER -> "fine"
  BY Zenon DEF Sf!FieldFault
<1>. HIDE DEF kind, v, name, props
<1>6. Sf!FieldFault(type, f) = "fine" <=>
         /\ kind # "none"
         /\ ~(kind \in {"text", "binding"} /\ Sf!LooksLikeMarkup(v))
         /\ ~Sf!LooksLikeJsUrl(v)
         /\ ~(kind = "binding" /\ v.is = "bind" /\ v.of = Sf!NotAString)
         /\ ~(kind = "binding" /\ (v.is # "bind" \/ v.of = Sf!BadPointer))
         /\ ~(kind \in DOMAIN Sf!Enum /\ (v.is # "str" \/ v.of \notin Sf!Enum[kind]))
         /\ ~(kind = "action" /\ v = Sf!Act(Sf!NotHashable))
         /\ ~(kind = "action" /\ (v.is # "act" \/ v.of \notin Sf!RegisteredActions))
  BY <1>5
<1>7. Sf!LooksLikeMarkup(v) <=> v = Sf!Str("<b>")
  BY DEF Sf!LooksLikeMarkup
<1>8. Sf!LooksLikeJsUrl(v) <=> v = Sf!Str("javascript:")
  BY DEF Sf!LooksLikeJsUrl
<1>9. kind = "binding" /\ v.is = "bind" => v # Sf!Str("<b>")
  BY DEF Sf!Str
<1>10. v \in {Sf!Str(s) : s \in Sf!Enum[kind]} <=> v.is = "str" /\ v.of \in Sf!Enum[kind]
  BY <1>2 DEF Sf!Str
<1>11. v = Sf!Act(Sf!NotHashable) => v.of \notin Sf!RegisteredActions
  <2>1. v = Sf!Act(Sf!NotHashable) => v.of = Sf!NotHashable
    BY DEF Sf!Act
  <2>2. Sf!NotHashable \notin Sf!RegisteredActions
    BY DEF Sf!NotHashable, Sf!RegisteredActions
  <2>. QED BY <2>1, <2>2
<1>12. Sf!FieldFault(type, f) = "raises" => \/ v.is = "bind" /\ v.of = Sf!NotAString
                                            \/ v = Sf!Act(Sf!NotHashable)
  BY <1>5
<1>13. v.is = "bind" /\ v.of = Sf!NotAString => v = Sf!Bind(Sf!NotAString)
  BY <1>2 DEF Sf!Bind
<1>14. /\ Sf!FieldFault(type, f) = "fine" <=> FieldClean(type, f)
       /\ Sf!FieldFault(type, f) = "raises" => v \in {Sf!Bind(Sf!NotAString), Sf!Act(Sf!NotHashable)}
  BY <1>1, <1>4, <1>6, <1>7, <1>8, <1>9, <1>10, <1>11, <1>12, <1>13
<1>. QED BY <1>14 DEF v

(* A surface as a composer may send it: every value is one of some kind.     *)
IsSurface(components, Is, Of) ==
    /\ Len(components) \in Nat /\ DOMAIN components = 1..Len(components)
    /\ \A i \in DOMAIN components :
          LET fields == components[i].fields
          IN /\ DOMAIN fields \subseteq Nat
             /\ \A k \in DOMAIN fields : fields[k][2] \in [is : Is, of : Of]

\* Of a surface without a malformed component the wall lets through exactly the
\* components that keep its rules, and counts the others (validate_surface),
\* whatever the order of their properties and wherever the first fault is.  Over
\* any other it may raise instead, and then lets nothing through.
THEOREM WallAlwaysStands ==
    ASSUME NEW Is, NEW Of, NEW components, IsSurface(components, Is, Of)
    PROVE  Sf!WallStands(components)
<1>1. ASSUME NEW i \in DOMAIN components
      PROVE  /\ Sf!Fault(components[i]) = "fine" <=> Sf!Clean(components[i])
             /\ Sf!Fault(components[i]) = "raises" => Sf!Malformed(components[i])
  <2>. DEFINE c == components[i]
              faulty == {k \in DOMAIN c.fields : Sf!FieldFault(c.type, c.fields[k]) # "fine"}
  <2>1. DOMAIN c.fields \subseteq Nat /\ \A k \in DOMAIN c.fields : c.fields[k][2] \in [is : Is, of : Of]
    BY DEF IsSurface
  <2>. HIDE DEF c
  <2>2. CASE c.type \notin DOMAIN Sf!Components
    <3>1. Sf!Fault(c) = IF c.type = Sf!NotHashable THEN "raises" ELSE "catalog"
      BY <2>2, Zenon DEF Sf!Fault
    <3>2. ~Sf!Clean(c) /\ (c.type = Sf!NotHashable => Sf!Malformed(c))
      BY <2>2, Zenon DEF Sf!Clean, Sf!Malformed
    <3>. QED BY <3>1, <3>2 DEF c
  <2>3. CASE c.type \in DOMAIN Sf!Components
    <3>1. \A k \in DOMAIN c.fields :
            /\ Sf!FieldFault(c.type, c.fields[k]) = "fine" <=> FieldClean(c.type, c.fields[k])
            /\ Sf!FieldFault(c.type, c.fields[k]) = "raises" =>
                  c.fields[k][2] \in {Sf!Bind(Sf!NotAString), Sf!Act(Sf!NotHashable)}
      BY <2>1, <2>3, FieldWall
    <3>2. Sf!Clean(c) <=> \A k \in DOMAIN c.fields : FieldClean(c.type, c.fields[k])
      BY <2>3, Zenon DEF Sf!Clean, FieldClean
    <3>3. Sf!Fault(c) = IF faulty = {} THEN "fine"
                        ELSE Sf!FieldFault(c.type, c.fields[Sf!Min(faulty)])
      <4>1. c.type # Sf!NotHashable
        <5>1. DOMAIN Sf!Components =
                {"Row", "Column", "List", "Card", "Divider", "Text", "Image", "TextField",
                 "CheckBox", "Slider", "InputChoice", "DateTime", "Button", "Tabs", "Modal",
                 "BarChart", "Sparkline", "StatTile", "ProgressBar", "Timeline", "DataTable",
                 "Notice", "ApprovalCard"}
          BY DEF Sf!Components
        <5>2. Sf!NotHashable \notin DOMAIN Sf!Components
          BY <5>1 DEF Sf!NotHashable
        <5>. QED BY <2>3, <5>2
      <4>. QED BY <2>3, <4>1, Zenon DEF Sf!Fault
    <3>4. faulty # {} => Sf!Min(faulty) \in faulty
      <4>. SUFFICES ASSUME faulty # {} PROVE Sf!Min(faulty) \in faulty
        OBVIOUS
      <4>1. faulty \in SUBSET Nat
        BY <2>1
      <4>. HIDE DEF faulty
      <4>2. \E n \in faulty : \A m \in faulty : n <= m
        BY <4>1, LeastOf
      <4>. QED BY <4>2 DEF Sf!Min
    <3>5. Sf!Fault(c) = "fine" <=> faulty = {}
      BY <3>3, <3>4
    <3>6. Sf!Fault(c) = "raises" => Sf!Malformed(c)
      <4>. SUFFICES ASSUME Sf!Fault(c) = "raises" PROVE Sf!Malformed(c)
        OBVIOUS
      <4>1. PICK k \in DOMAIN c.fields : Sf!FieldFault(c.type, c.fields[k]) = "raises"
        BY <3>3, <3>4
      <4>. QED BY <3>1, <4>1, Zenon DEF Sf!Malformed
    <3>. QED BY <3>1, <3>2, <3>5, <3>6 DEF c
  <2>. QED BY <2>2, <2>3
<1>r. CASE \E i \in DOMAIN components : Sf!Fault(components[i]) = "raises"
  <2>1. Sf!ValidateSurface(components) = [raised |-> TRUE, accepted |-> {}, rejected |-> 0]
    BY <1>r DEF Sf!ValidateSurface
  <2>. HIDE DEF Sf!ValidateSurface
  <2>. QED BY <1>1, <1>r, <2>1 DEF Sf!WallStands
<1>f. CASE ~\E i \in DOMAIN components : Sf!Fault(components[i]) = "raises"
  <2>. DEFINE good == {i \in DOMAIN components : Sf!Fault(components[i]) = "fine"}
              all  == DOMAIN components
              bad  == all \ good
  <2>2. \A S : Sf!Cardinality(S) = Cardinality(S)
    BY DEF Sf!Cardinality, Cardinality
  <2>3. good \cup bad = all /\ good \cap bad = {}
    OBVIOUS
  <2>4. IsFiniteSet(all) /\ Cardinality(all) = Len(components)
    <3>1. \A n \in Nat : IsFiniteSet(1..n) /\ Cardinality(1..n) = n
      <4>. SUFFICES ASSUME NEW n \in Nat
                    PROVE  IsFiniteSet(1..n) /\ Cardinality(1..n) = n
        OBVIOUS
      <4>1. 1 \in Int /\ n \in Int
        OBVIOUS
      <4>. QED BY <4>1, FS_Interval
    <3>. QED BY <3>1 DEF IsSurface
  <2>5. Cardinality(bad) + Cardinality(good) = Len(components)
    <3>1. IsFiniteSet(good) /\ IsFiniteSet(bad)
      BY <2>3, <2>4, FS_Subset
    <3>. HIDE DEF good, bad, all
    <3>2. /\ Cardinality(good \cup bad) = Cardinality(good) + Cardinality(bad) - Cardinality(good \cap bad)
      BY <3>1, FS_Union
    <3>3. Cardinality(good \cap bad) = 0
      BY <2>3, FS_EmptySet
    <3>4. Cardinality(good) \in Nat /\ Cardinality(bad) \in Nat
      BY <3>1, FS_CardinalityType
    <3>5. Cardinality(good \cup bad) = Len(components)
      BY <2>3, <2>4, Zenon
    <3>. QED BY <3>2, <3>3, <3>4, <3>5
  <2>6. good = {i \in DOMAIN components : Sf!Clean(components[i])}
    BY <1>1
  <2>7. /\ ~Sf!ValidateSurface(components).raised
        /\ Sf!ValidateSurface(components).accepted = good
        /\ Sf!ValidateSurface(components).rejected = Cardinality(bad)
    BY <1>f, <2>2 DEF Sf!ValidateSurface
  <2>. QED BY <2>2, <2>5, <2>6, <2>7, Zenon DEF Sf!WallStands
<1>. QED BY <1>r, <1>f
-----------------------------------------------------------------------------
(* The times of a trace.                                                     *)

\* Some numbers, if they can be counted, have a least and a greatest one, as Min
\* and Max of SpanTree take them.
LEMMA EndsOfFinite ==
    ASSUME NEW S, IsFiniteSet(S), S \subseteq Int, S # {}
    PROVE  /\ Sp!Min(S) \in S /\ \A x \in S : Sp!Min(S) <= x
           /\ Sp!Max(S) \in S /\ \A x \in S : x <= Sp!Max(S)
<1>1. PICK n \in Nat : ExistsBijection(1..n, S)
  BY FS_NatBijection
<1>2. PICK h \in [1..n -> S] : \A x \in S : \E i \in 1..n : h[i] = x
  BY <1>1 DEF ExistsBijection, Bijection, Injection, Surjection, IsInjective
<1>3. \A i \in 1..n : h[i] \in Int
  BY <1>2
<1>. DEFINE Bounded(m) == \E lo \in Int, hi \in Int : \A i \in 1..m : lo <= h[i] /\ h[i] <= hi
            bad == {m \in 0..n : ~Bounded(m)}
<1>4. bad = {}
  <2>. SUFFICES ASSUME bad # {} PROVE FALSE
    OBVIOUS
  <2>1. bad \in SUBSET Nat
    OBVIOUS
  <2>2. PICK m \in bad : \A k \in bad : m <= k
    BY <2>1, LeastOf
  <2>3. Bounded(0)
    <3>1. \A i \in 1..0 : 0 <= h[i] /\ h[i] <= 0
      OBVIOUS
    <3>. QED BY <3>1
  <2>4. m # 0 /\ m \in 0..n
    <3>. HIDE DEF Bounded
    <3>. QED BY <2>2, <2>3
  <2>5. m - 1 \in 0..n /\ ~(m <= m - 1)
    BY <2>4
  <2>6. Bounded(m - 1)
    <3>. HIDE DEF Bounded
    <3>. QED BY <2>2, <2>5
  <2>7. PICK lo \in Int, hi \in Int : \A i \in 1..(m - 1) : lo <= h[i] /\ h[i] <= hi
    BY <2>6
  <2>. DEFINE low == IF h[m] < lo THEN h[m] ELSE lo
              high == IF h[m] > hi THEN h[m] ELSE hi
  <2>8. /\ h[m] \in Int /\ low \in Int /\ high \in Int
        /\ low <= h[m] /\ low <= lo /\ h[m] <= high /\ hi <= high
    <3>1. h[m] \in Int
      BY <1>3, <2>4
    <3>. HIDE DEF bad, Bounded
    <3>2. \A y \in Int : LET l == IF y < lo THEN y ELSE lo
                              g == IF y > hi THEN y ELSE hi
                          IN l \in Int /\ g \in Int /\ l <= y /\ l <= lo /\ y <= g /\ hi <= g
      OBVIOUS
    <3>. QED BY <3>1, <3>2, Zenon
  <2>. HIDE DEF low, high
  <2>9. \A i \in 1..m : low <= h[i] /\ h[i] <= high
    <3>. SUFFICES ASSUME NEW i \in 1..m PROVE low <= h[i] /\ h[i] <= high
      OBVIOUS
    <3>1. CASE i = m
      BY <2>8, <3>1
    <3>2. CASE i # m
      <4>1. i \in 1..(m - 1) /\ i \in 1..n
        BY <2>4, <3>2
      <4>2. h[i] \in Int /\ lo <= h[i] /\ h[i] <= hi
        BY <1>3, <2>7, <4>1
      <4>3. \A a, b, c \in Int : a <= b /\ b <= c => a <= c
        OBVIOUS
      <4>. HIDE DEF bad, Bounded
      <4>4. low \in Int /\ high \in Int /\ low <= lo /\ hi <= high
        BY <2>8
      <4>. QED BY <4>2, <4>3, <4>4, Zenon
    <3>. QED BY <3>1, <3>2
  <2>10. Bounded(m)
    BY <2>8, <2>9
  <2>. HIDE DEF Bounded
  <2>. QED BY <2>2, <2>10
<1>5. Bounded(n)
  <2>. HIDE DEF Bounded
  <2>. QED BY <1>4
<1>6. PICK lo \in Int, hi \in Int : \A i \in 1..n : lo <= h[i] /\ h[i] <= hi
  BY <1>5
<1>7. \A x \in S : lo <= x /\ x <= hi
  BY <1>2, <1>6
<1>8. PICK max \in S : \A x \in S : x <= max
  BY <1>7, GreatestOf
<1>. DEFINE T == {x - lo : x \in S}
<1>9. T \in SUBSET Nat /\ T # {}
  <2>1. \A x \in S : x - lo \in Nat
    BY <1>7
  <2>. QED BY <2>1
<1>10. PICK t \in T : \A u \in T : t <= u
  BY <1>9, LeastOf
<1>11. PICK min \in S : t = min - lo
  OBVIOUS
<1>12. \A x \in S : min <= x
  <2>. SUFFICES ASSUME NEW x \in S PROVE min <= x
    OBVIOUS
  <2>1. t <= x - lo
    BY <1>10
  <2>. QED BY <1>11, <2>1
<1>13. Sp!Min(S) \in S /\ \A x \in S : Sp!Min(S) <= x
  BY <1>12 DEF Sp!Min
<1>14. Sp!Max(S) \in S /\ \A x \in S : x <= Sp!Max(S)
  <2>1. \A x \in S : max >= x
    BY <1>8
  <2>2. Sp!Max(S) \in S /\ \A x \in S : Sp!Max(S) >= x
    BY <2>1 DEF Sp!Max
  <2>. QED BY <2>2
<1>. QED BY <1>13, <1>14

(* A span with times, under one that comes before it.                        *)
Timed(s) == /\ s = [x \in DOMAIN s |-> s[x]]
            /\ "start" \in DOMAIN s /\ "end" \in DOMAIN s /\ "parent" \in DOMAIN s
            /\ s.start \in Int /\ s.end \in Int
IsTree(spans) ==
    /\ Len(spans) \in Nat /\ DOMAIN spans = 1..Len(spans)
    /\ spans = [i \in DOMAIN spans |-> spans[i]]
    /\ \A i \in 1..Len(spans) : /\ Timed(spans[i])
                                /\ spans[i].parent \in 0..(i - 1)
                                /\ i # 1 => spans[i].parent # 0

Under(spans, i) == {j \in DOMAIN spans : spans[j].parent = i}

(* The span that covers what f says of those under it, as Resolved has it.   *)
Cover(spans, last, f, i) ==
    LET starts == {f[j].start : j \in Under(spans, i)} \cup {spans[i].start}
        own    == IF spans[i].end = Sp!NoEnd THEN {} ELSE {spans[i].end}
        ends   == own \cup {f[j].end : j \in Under(spans, i)}
        end    == IF ends = {} THEN last ELSE Sp!Max(ends)
    IN [spans[i] EXCEPT !.start = Sp!Min(starts), !.end = Sp!Max({end, Sp!Min(starts)})]

Covers(f, spans, last, b) == f = [i \in b..Len(spans) |-> Cover(spans, last, f, i)]

\* What covers a span depends on those under it alone.
LEMMA CoverDepends ==
    ASSUME NEW spans, NEW last, NEW f, NEW g, NEW i, \A j \in Under(spans, i) : f[j] = g[j]
    PROVE  Cover(spans, last, f, i) = Cover(spans, last, g, i)
<1>. DEFINE under == Under(spans, i)
<1>. HIDE DEF under
<1>1. /\ {f[j].start : j \in under} = {g[j].start : j \in under}
      /\ {f[j].end : j \in under} = {g[j].end : j \in under}
  BY DEF under
<1>. QED BY <1>1, Zenon DEF Cover, under
\* The times of a tree resolve: going up from the last span, each covers those
\* under it, which come after it.
LEMMA TimesResolve ==
    ASSUME NEW spans, IsTree(spans), NEW last
    PROVE  Covers(Sp!Resolved(spans, last), spans, last, 1)
<1>. DEFINE n == Len(spans)
            bad == {k \in 0..n : ~ \E f : Covers(f, spans, last, (n + 1) - k)}
<1>1. n \in Nat /\ DOMAIN spans = 1..n
  BY DEF IsTree
<1>2. \A i \in 1..n : Under(spans, i) \subseteq (i + 1)..n
  BY DEF IsTree, Under
<1>3. bad = {}
  <2>. SUFFICES ASSUME bad # {} PROVE FALSE
    OBVIOUS
  <2>1. bad \in SUBSET Nat
    OBVIOUS
  <2>2. PICK k \in bad : \A m \in bad : k <= m
    BY <2>1, LeastOf
  <2>. DEFINE b == (n + 1) - k
  <2>3. k \in 0..n /\ ~ \E f : Covers(f, spans, last, b)
    BY <2>2
  <2>4. k # 0
    <3>. SUFFICES ASSUME k = 0 PROVE FALSE
      OBVIOUS
    <3>. DEFINE e == [i \in {} |-> <<>>]
    <3>1. b = n + 1 /\ (n + 1)..n = {}
      BY <1>1
    <3>. HIDE DEF b, n
    <3>2. [i \in b..n |-> Cover(spans, last, e, i)] = e
      BY <3>1
    <3>. HIDE DEF e
    <3>3. Covers(e, spans, last, b)
      BY <3>2, Zenon DEF Covers, n
    <3>. QED BY <2>3, <3>3
  <2>5. k - 1 \in 0..n /\ ~(k <= k - 1) /\ (n + 1) - (k - 1) = b + 1 /\ b \in 1..n
    BY <1>1, <2>3, <2>4
  <2>. HIDE DEF b
  <2>6. PICK f : Covers(f, spans, last, b + 1)
    <3>. HIDE DEF n
    <3>. QED BY <2>2, <2>5
  <2>. DEFINE g == [i \in b..n |-> IF i = b THEN Cover(spans, last, f, b) ELSE f[i]]
  <2>7. ASSUME NEW i \in b..n PROVE g[i] = Cover(spans, last, g, i)
    <3>1. i \in 1..n /\ \A j \in (i + 1)..n : j \in b..n /\ j # b
      BY <1>1, <2>5
    <3>2. \A j \in Under(spans, i) : f[j] = g[j]
      BY <1>2, <3>1
    <3>3. Cover(spans, last, f, i) = Cover(spans, last, g, i)
      BY <3>2, CoverDepends
    <3>4. g[i] = Cover(spans, last, f, i)
      <4>1. CASE i = b
        BY <4>1
      <4>2. CASE i # b
        <5>1. i \in (b + 1)..n
          BY <1>1, <2>5, <4>2
        <5>2. f[i] = Cover(spans, last, f, i)
          BY <2>6, <5>1 DEF Covers
        <5>. QED BY <4>2, <5>2
      <4>. QED BY <4>1, <4>2
    <3>. QED BY <3>3, <3>4
  <2>8. g = [i \in b..n |-> g[i]]
    OBVIOUS
  <2>. HIDE DEF g
  <2>9. Covers(g, spans, last, b)
    BY <2>7, <2>8 DEF Covers
  <2>. QED BY <2>3, <2>9
<1>4. \E f : Covers(f, spans, last, 1)
  <2>1. n \in 0..n /\ (n + 1) - n = 1 /\ n \notin bad
    BY <1>1, <1>3
  <2>. HIDE DEF n
  <2>. QED BY <2>1
<1>5. \E f : f = [i \in DOMAIN spans |-> Cover(spans, last, f, i)]
  BY <1>1, <1>4 DEF Covers
<1>6. Sp!Resolved(spans, last) = CHOOSE f : f = [i \in DOMAIN spans |-> Cover(spans, last, f, i)]
  BY Zenon DEF Sp!Resolved, Cover, Under
<1>7. Sp!Resolved(spans, last)
        = [i \in DOMAIN spans |-> Cover(spans, last, Sp!Resolved(spans, last), i)]
  BY <1>5, <1>6, Zenon
<1>. QED BY <1>1, <1>7 DEF Covers

\* A span that covers others lies around them and takes no negative time.
LEMMA CoverHolds ==
    ASSUME NEW spans, IsTree(spans), NEW last \in Int, NEW f, NEW i \in 1..Len(spans),
           \A j \in Under(spans, i) : f[j].start \in Int /\ f[j].end \in Int
    PROVE  LET r == Cover(spans, last, f, i)
           IN /\ r.start \in Int /\ r.end \in Int /\ r.start <= r.end
              /\ \A j \in Under(spans, i) : r.start <= f[j].start /\ f[j].end <= r.end
<1>. DEFINE under  == Under(spans, i)
            starts == {f[j].start : j \in under} \cup {spans[i].start}
            own    == IF spans[i].end = Sp!NoEnd THEN {} ELSE {spans[i].end}
            ends   == own \cup {f[j].end : j \in under}
            end    == IF ends = {} THEN last ELSE Sp!Max(ends)
            r      == Cover(spans, last, f, i)
<1>1. Timed(spans[i])
  BY DEF IsTree
<1>2. IsFiniteSet(under)
  <2>1. \A n \in Nat : IsFiniteSet(1..n)
    <3>. SUFFICES ASSUME NEW n \in Nat PROVE IsFiniteSet(1..n)
      OBVIOUS
    <3>1. 1 \in Int /\ n \in Int
      OBVIOUS
    <3>. QED BY <3>1, FS_Interval
  <2>2. under \subseteq 1..Len(spans) /\ Len(spans) \in Nat
    BY DEF IsTree, Under
  <2>. HIDE DEF under
  <2>. QED BY <2>1, <2>2, FS_Subset
<1>3. r = [spans[i] EXCEPT !.start = Sp!Min(starts), !.end = Sp!Max({end, Sp!Min(starts)})]
  BY Zenon DEF Cover
<1>. HIDE DEF r, under
<1>4. starts \subseteq Int /\ starts # {} /\ ends \subseteq Int
  BY <1>1 DEF Timed, under
<1>5. IsFiniteSet(starts) /\ IsFiniteSet(ends)
  <2>. DEFINE fs == [j \in under |-> f[j].start]
              fe == [j \in under |-> f[j].end]
              S  == {f[j].start : j \in under}
              E  == {f[j].end : j \in under}
  <2>1. fs \in Surjection(under, S) /\ fe \in Surjection(under, E)
    BY DEF Surjection
  <2>2. IsFiniteSet(S) /\ IsFiniteSet(E)
    <3>. HIDE DEF fs, fe, S, E
    <3>. QED BY <1>2, <2>1, FS_Surjection
  <2>3. IsFiniteSet({spans[i].start}) /\ IsFiniteSet(own)
    BY FS_Singleton, FS_EmptySet
  <2>. HIDE DEF own, S, E
  <2>. QED BY <2>2, <2>3, FS_Union DEF S, E
<1>6. /\ Sp!Min(starts) \in Int /\ Sp!Min(starts) <= spans[i].start
      /\ \A j \in under : Sp!Min(starts) <= f[j].start
  <2>1. Sp!Min(starts) \in starts /\ \A x \in starts : Sp!Min(starts) <= x
    <3>. HIDE DEF starts
    <3>. QED BY <1>4, <1>5, EndsOfFinite
  <2>. QED BY <1>4, <2>1
<1>7. end \in Int /\ \A j \in under : f[j].end <= end
  <2>1. CASE ends = {}
    BY <2>1
  <2>2. CASE ends # {}
    <3>1. Sp!Max(ends) \in ends /\ \A x \in ends : x <= Sp!Max(ends)
      <4>. HIDE DEF ends
      <4>. QED BY <1>4, <1>5, <2>2, EndsOfFinite
    <3>2. \A j \in under : f[j].end \in ends
      OBVIOUS
    <3>. HIDE DEF ends
    <3>. QED BY <1>4, <2>2, <3>1, <3>2
  <2>. QED BY <2>1, <2>2
<1>. DEFINE min == Sp!Min(starts)
            max == Sp!Max({end, min})
<1>. HIDE DEF min, starts, end
<1>8. max \in Int /\ end <= max /\ min <= max
  <2>1. {end, min} \subseteq Int /\ {end, min} # {} /\ end \in {end, min} /\ min \in {end, min}
    BY <1>6, <1>7 DEF min
  <2>2. IsFiniteSet({end, min})
    <3>1. {end, min} = {end} \cup {min} /\ IsFiniteSet({end}) /\ IsFiniteSet({min})
      BY FS_Singleton
    <3>. QED BY <3>1, FS_Union
  <2>. QED BY <2>1, <2>2, EndsOfFinite
<1>. HIDE DEF max
<1>9. r.start = min /\ r.end = max
  <2>1. r = [spans[i] EXCEPT !.start = min, !.end = max]
    BY <1>3 DEF min, max
  <2>. QED BY <1>1, <2>1 DEF Timed
<1>10. \A j \in under : min <= f[j].start /\ f[j].end <= end
  BY <1>6, <1>7 DEF min
<1>11. min \in Int
  BY <1>6 DEF min
<1>12. \A j \in under : f[j].end <= max
  BY <1>7, <1>8, <1>10 DEF under
<1>. QED BY <1>8, <1>9, <1>10, <1>11, <1>12 DEF r, under

\* The spans of a tree nest once their times are resolved.
LEMMA ResolvedNest ==
    ASSUME NEW spans, IsTree(spans), NEW last \in Int
    PROVE  Sp!SpansNest(Sp!Resolved(spans, last))
<1>. DEFINE n == Len(spans)
            f == Sp!Resolved(spans, last)
            IsTimed(i) == f[i].start \in Int /\ f[i].end \in Int
            bad == {k \in 0..n : ~ \A i \in ((n + 1) - k)..n : IsTimed(i)}
<1>1. n \in Nat /\ DOMAIN spans = 1..n
  BY DEF IsTree
<1>2. \A i \in 1..n : Under(spans, i) \subseteq (i + 1)..n
  BY DEF IsTree, Under
<1>3. DOMAIN f = 1..n /\ \A i \in 1..n : f[i] = Cover(spans, last, f, i)
  <2>1. Covers(f, spans, last, 1)
    BY TimesResolve
  <2>. HIDE DEF f
  <2>. QED BY <1>1, <2>1 DEF Covers
<1>. HIDE DEF f
<1>4. bad = {}
  <2>. SUFFICES ASSUME bad # {} PROVE FALSE
    OBVIOUS
  <2>1. bad \in SUBSET Nat
    OBVIOUS
  <2>2. PICK k \in bad : \A m \in bad : k <= m
    BY <2>1, LeastOf
  <2>. DEFINE b == (n + 1) - k
  <2>3. k \in 0..n /\ ~ \A i \in b..n : IsTimed(i)
    BY <2>2
  <2>4. k # 0
    <3>. SUFFICES ASSUME k = 0 PROVE FALSE
      OBVIOUS
    <3>1. b..n = {}
      BY <1>1
    <3>. QED BY <2>3, <3>1
  <2>5. k - 1 \in 0..n /\ ~(k <= k - 1) /\ (n + 1) - (k - 1) = b + 1 /\ b \in 1..n
    BY <1>1, <2>3, <2>4
  <2>. HIDE DEF b
  <2>6. \A i \in (b + 1)..n : IsTimed(i)
    <3>. HIDE DEF n, IsTimed
    <3>. QED BY <2>2, <2>5
  <2>7. IsTimed(b)
    <3>1. \A j \in Under(spans, b) : f[j].start \in Int /\ f[j].end \in Int
      BY <1>2, <2>5, <2>6
    <3>2. Cover(spans, last, f, b).start \in Int /\ Cover(spans, last, f, b).end \in Int
      BY <2>5, <3>1, CoverHolds
    <3>. QED BY <1>3, <2>5, <3>2
  <2>8. \A i \in b..n : i = b \/ i \in (b + 1)..n
    BY <1>1, <2>5
  <2>. HIDE DEF IsTimed
  <2>. QED BY <2>3, <2>6, <2>7, <2>8
<1>5. \A i \in 1..n : IsTimed(i)
  <2>1. n \in 0..n /\ (n + 1) - n = 1 /\ n \notin bad
    BY <1>1, <1>4
  <2>. HIDE DEF n, IsTimed
  <2>. QED BY <2>1
<1>6. ASSUME NEW i \in 1..n
      PROVE  /\ f[i].start <= f[i].end
             /\ \A j \in Under(spans, i) : f[i].start <= f[j].start /\ f[j].end <= f[i].end
  <2>1. \A j \in Under(spans, i) : f[j].start \in Int /\ f[j].end \in Int
    BY <1>1, <1>2, <1>5
  <2>2. LET r == Cover(spans, last, f, i)
        IN /\ r.start <= r.end
           /\ \A j \in Under(spans, i) : r.start <= f[j].start /\ f[j].end <= r.end
    BY <2>1, CoverHolds
  <2>. QED BY <1>3, <2>2
<1>7. ASSUME NEW i \in 1..n PROVE f[i].parent = spans[i].parent
  <2>. DEFINE s == Sp!Min({f[j].start : j \in Under(spans, i)} \cup {spans[i].start})
  <2>1. \E e : f[i] = [spans[i] EXCEPT !.start = s, !.end = e]
    BY <1>3, Zenon DEF Cover
  <2>2. Timed(spans[i])
    BY DEF IsTree
  <2>. HIDE DEF s
  <2>. QED BY <2>1, <2>2 DEF Timed
<1>8. ASSUME NEW i \in (1..n) \ {1}
      PROVE  /\ f[f[i].parent].start <= f[i].start
             /\ f[i].end <= f[f[i].parent].end
  <2>1. spans[i].parent \in 1..n /\ i \in Under(spans, spans[i].parent)
    <3>1. spans[i].parent \in 0..(i - 1) /\ spans[i].parent # 0
      BY DEF IsTree
    <3>. QED BY <1>1, <3>1 DEF Under
  <2>. QED BY <1>6, <1>7, <2>1
<1>. QED BY <1>3, <1>6, <1>8, Zenon DEF Sp!SpansNest, f
-----------------------------------------------------------------------------
(* The building of a trace.                                                  *)

(* A journal as build_span_tree reads it: calls are numbered in their event, *)
(* start at some time and took another.                                      *)
HasCalls(e, Cost) ==
    /\ Len(e.calls) \in Nat /\ DOMAIN e.calls = 1..Len(e.calls)
    /\ \A k \in 1..Len(e.calls) : e.calls[k] \in [cost : Cost, at : Nat, latency : Int]
IsJournal(events, Cost) ==
    /\ Len(events) \in Nat /\ DOMAIN events = 1..Len(events)
    /\ \A i \in 1..Len(events) : HasCalls(events[i], Cost)

\* One sequence after another.
LEMMA Joined ==
    ASSUME NEW m \in Nat, NEW n \in Nat, NEW s, NEW t,
           s = [i \in 1..m |-> s[i]], t = [i \in 1..n |-> t[i]]
    PROVE  /\ Len(s) = m /\ Len(s \o t) = m + n
           /\ s \o t = [i \in 1..(m + n) |-> IF i <= m THEN s[i] ELSE t[i - m]]
<1>. DEFINE S == {s[i] : i \in 1..m} \cup {t[i] : i \in 1..n}
<1>1. s \in [1..m -> S] /\ t \in [1..n -> S]
  OBVIOUS
<1>. HIDE DEF S
<1>2. s \in Seq(S) /\ t \in Seq(S) /\ Len(s) = m /\ Len(t) = n
  BY <1>1
<1>3. /\ s \o t \in Seq(S) /\ Len(s \o t) = m + n
      /\ \A i \in 1..(m + n) : (s \o t)[i] = IF i <= m THEN s[i] ELSE t[i - m]
  BY <1>2, ConcatProperties
<1>. DEFINE u == s \o t
<1>4. u = [i \in 1..(m + n) |-> u[i]]
  <2>. HIDE DEF u
  <2>1. u \in Seq(S) /\ Len(u) = m + n
    BY <1>3 DEF u
  <2>. QED BY <2>1
<1>. QED BY <1>2, <1>3, <1>4

(* n spans that hang under the m there are, or under one another.            *)
Hang(t, n, m) ==
    /\ t = [k \in 1..n |-> t[k]]
    /\ \A k \in 1..n : Timed(t[k]) /\ t[k].parent \in 1..(m + k - 1)

\* A tree to which spans are added under earlier ones is a tree.
LEMMA TreeGrows ==
    ASSUME NEW s, IsTree(s), NEW n \in Nat, NEW t, Hang(t, n, Len(s))
    PROVE  /\ IsTree(s \o t) /\ Len(s \o t) = Len(s) + n
           /\ \A i \in 1..Len(s) : (s \o t)[i] = s[i]
           /\ \A k \in 1..n : (s \o t)[Len(s) + k] = t[k]
<1>. DEFINE m == Len(s)
            u == s \o t
<1>1. m \in Nat /\ s = [i \in 1..m |-> s[i]]
  BY DEF IsTree
<1>2. \A i \in 1..m : /\ Timed(s[i]) /\ s[i].parent \in 0..(i - 1)
                      /\ i # 1 => s[i].parent # 0
  BY DEF IsTree
<1>0. /\ t = [k \in 1..n |-> t[k]]
      /\ \A k \in 1..n : Timed(t[k]) /\ t[k].parent \in 1..(m + k - 1)
  BY DEF Hang
<1>. HIDE DEF m
<1>3. u = [i \in 1..(m + n) |-> IF i <= m THEN s[i] ELSE t[i - m]] /\ Len(u) = m + n
  BY <1>0, <1>1, Joined
<1>. HIDE DEF u
<1>4. \A i \in 1..m : u[i] = s[i]
  BY <1>1, <1>3
<1>5. \A k \in 1..n : u[m + k] = t[k]
  BY <1>1, <1>3
<1>6. ASSUME NEW i \in 1..(m + n)
      PROVE  /\ Timed(u[i]) /\ u[i].parent \in 0..(i - 1)
             /\ i # 1 => u[i].parent # 0
  <2>1. CASE i <= m
    BY <1>1, <1>2, <1>4, <2>1
  <2>2. CASE ~(i <= m)
    <3>. DEFINE k == i - m
    <3>1. k \in 1..n /\ m + k = i
      BY <1>1, <2>2
    <3>. HIDE DEF k
    <3>2. u[i] = t[k] /\ Timed(t[k]) /\ t[k].parent \in 1..(m + k - 1)
      BY <1>0, <1>5, <3>1
    <3>. QED BY <1>1, <3>1, <3>2
  <2>. QED BY <2>1, <2>2
<1>7. m + n \in Nat /\ DOMAIN u = 1..(m + n)
  BY <1>1, <1>3
<1>8. u = [i \in DOMAIN u |-> u[i]]
  BY <1>3
<1>9. IsTree(u)
  BY <1>3, <1>6, <1>7, <1>8 DEF IsTree
<1>. QED BY <1>3, <1>4, <1>5, <1>9 DEF m, u
\* A span that is given times is timed, under its parent.
LEMMA SpanTimed ==
    ASSUME NEW kind, NEW parent, NEW node, NEW a \in Int, NEW b \in Int
    PROVE  LET s == Sp!Span(kind, parent, node, a, b)
           IN Timed(s) /\ s.parent = parent /\ s.kind = kind
BY DEF Timed, Sp!Span

\* The span of a call is timed, under its parent.
LEMMA CallTimed ==
    ASSUME NEW call, call.at \in Nat, call.latency \in Int, NEW parent, NEW node, NEW t \in Int
    PROVE  LET s == Sp!CallSpan(call, parent, node, t)
           IN Timed(s) /\ s.parent = parent
<1>. DEFINE start == IF call.at > 0 THEN call.at ELSE t
            end   == start + call.latency
            cost  == call.cost
<1>1. start \in Int /\ end \in Int
  OBVIOUS
<1>2. Sp!CallSpan(call, parent, node, t)
        = [Sp!Span("provider_call", parent, node, start, end) EXCEPT !.cost = cost]
  BY Zenon DEF Sp!CallSpan
<1>. HIDE DEF start, end, cost
<1>3. Sp!CallSpan(call, parent, node, t)
        = [kind |-> "provider_call", parent |-> parent, node |-> node, start |-> start,
           end |-> end, state |-> "none", cost |-> cost]
  BY <1>2 DEF Sp!Span
<1>. QED BY <1>1, <1>3 DEF Timed

\* The clock of a journal shows a time.
LEMMA ClockShows ==
    ASSUME NEW Cost, NEW events, IsJournal(events, Cost), NEW now \in Int, NEW i \in Int
    PROVE  Sp!Clock(events, now, i) \in Int
<1>. DEFINE measured == UNION {{c.at : c \in Sp!ToSet(events[k].calls)} : k \in DOMAIN events} \ {0}
<1>1. measured \subseteq Nat
  BY DEF IsJournal, HasCalls, Sp!ToSet
<1>2. measured # {} => Sp!Min(measured) \in Nat
  <2>. HIDE DEF measured
  <2>1. SUFFICES ASSUME measured # {} PROVE Sp!Min(measured) \in measured
    BY <1>1
  <2>2. \E n \in measured : \A m \in measured : n <= m
    BY <1>1, <2>1, LeastOf
  <2>. QED BY <2>2 DEF Sp!Min
<1>3. Sp!Clock(events, now, i) = (IF measured = {} THEN now ELSE Sp!Min(measured)) + i - 1
  BY Zenon DEF Sp!Clock
<1>. HIDE DEF measured
<1>. QED BY <1>2, <1>3

(* What has been built stands: a tree with a root, whose spans the loops and *)
(* the open spans name.                                                      *)
Places(f, n) == \A x \in DOMAIN f : f[x] \in 1..n
Known(acc) ==
    /\ acc = [spans |-> acc.spans, loopOf |-> acc.loopOf, open |-> acc.open]
    /\ IsTree(acc.spans) /\ Len(acc.spans) >= 1
    /\ Places(acc.loopOf, Len(acc.spans)) /\ Places(acc.open, Len(acc.spans))

(* What stands once n spans are added to what stood.                         *)
Grown(grown, acc, t, n) ==
    /\ Known(grown) /\ Len(grown.spans) = Len(acc.spans) + n
    /\ grown.loopOf = acc.loopOf /\ grown.open = acc.open
    /\ \A k \in 1..n : grown.spans[Len(acc.spans) + k] = t[k]

\* Spans added under earlier ones keep what stands.
LEMMA SpansAdded ==
    ASSUME NEW acc, Known(acc), NEW n \in Nat, NEW t, Hang(t, n, Len(acc.spans))
    PROVE  Grown(Sp!WithSpans(acc, t), acc, t, n)
<1>. DEFINE s     == acc.spans
            u     == s \o t
            grown == Sp!WithSpans(acc, t)
<1>1. /\ IsTree(u) /\ Len(u) = Len(s) + n
      /\ \A k \in 1..n : u[Len(s) + k] = t[k]
  <2>1. IsTree(s)
    BY DEF Known
  <2>2. Hang(t, n, Len(s))
    OBVIOUS
  <2>. HIDE DEF s
  <2>. QED BY <2>1, <2>2, TreeGrows
<1>2. grown = [spans |-> u, loopOf |-> acc.loopOf, open |-> acc.open]
  <2>. DEFINE l == acc.loopOf
              o == acc.open
  <2>1. acc = [spans |-> s, loopOf |-> l, open |-> o]
    BY Zenon DEF Known
  <2>2. grown = [acc EXCEPT !.spans = s \o t]
    BY <2>1 DEF Sp!WithSpans
  <2>. HIDE DEF s, l, o, u, grown
  <2>3. grown = [spans |-> s \o t, loopOf |-> l, open |-> o]
    BY <2>1, <2>2
  <2>. QED BY <2>3 DEF l, o, u
<1>. HIDE DEF u, grown
<1>3. grown.spans = u /\ grown.loopOf = acc.loopOf /\ grown.open = acc.open
  BY <1>2
<1>4. Len(s) \in Nat /\ 1..Len(s) \subseteq 1..(Len(s) + n) /\ Len(s) + n >= 1
  BY DEF Known, IsTree
<1>5. Places(acc.loopOf, Len(u)) /\ Places(acc.open, Len(u))
  BY <1>1, <1>4 DEF Known, Places
<1>6. Known(grown)
  BY <1>1, <1>2, <1>3, <1>4, <1>5 DEF Known
<1>. QED BY <1>1, <1>3, <1>6 DEF grown, Grown

\* A loop or a node that is added under a span keeps what stands.
LEMMA SpanAdded ==
    ASSUME NEW acc, Known(acc), NEW kind, NEW parent \in 1..Len(acc.spans), NEW node, NEW t \in Int
    PROVE  LET grown == Sp!WithSpans(acc, <<Sp!Span(kind, parent, node, t, Sp!NoEnd)>>)
           IN /\ Known(grown) /\ Len(grown.spans) = Len(acc.spans) + 1
              /\ grown.loopOf = acc.loopOf /\ grown.open = acc.open
              /\ grown.spans[Len(acc.spans) + 1].kind = kind
<1>. DEFINE s == Sp!Span(kind, parent, node, t, Sp!NoEnd)
<1>1. Timed(s) /\ s.parent = parent /\ s.kind = kind
  BY SpanTimed DEF Sp!NoEnd
<1>. HIDE DEF s
<1>2. /\ <<s>> = [k \in 1..1 |-> <<s>>[k]]
      /\ \A k \in 1..1 : <<s>>[k] = s /\ k = 1
  OBVIOUS
<1>3. Len(acc.spans) \in Nat
  BY DEF Known, IsTree
<1>4. \A k \in 1..1 : /\ Timed(<<s>>[k])
                      /\ <<s>>[k].parent \in 1..(Len(acc.spans) + k - 1)
  BY <1>1, <1>2, <1>3
<1>5. Grown(Sp!WithSpans(acc, <<s>>), acc, <<s>>, 1)
  <2>. DEFINE ts == <<s>>
  <2>1. Hang(ts, 1, Len(acc.spans)) /\ 1 \in Nat
    BY <1>2, <1>4 DEF Hang
  <2>. HIDE DEF ts
  <2>2. Grown(Sp!WithSpans(acc, ts), acc, ts, 1)
    BY <2>1, SpansAdded
  <2>. QED BY <2>2 DEF ts
<1>6. 1 \in 1..1
  OBVIOUS
<1>. QED BY <1>1, <1>2, <1>5, <1>6 DEF s, Grown

\* There is a loop for a node to hang under.
LEMMA LoopStands ==
    ASSUME NEW acc, Known(acc), NEW t \in Int
    PROVE  LET looped == Sp!WithLoop(acc, t)
           IN /\ Known(looped) /\ looped.loopOf = acc.loopOf /\ looped.open = acc.open
              /\ Len(looped.spans) >= Len(acc.spans)
              /\ Sp!Max(Sp!Loops(looped)) \in 1..Len(looped.spans)
<1>. DEFINE looped == Sp!WithLoop(acc, t)
            grown  == Sp!WithSpans(acc, <<Sp!Span("agent_loop", 1, Sp!NoNode, t, Sp!NoEnd)>>)
<1>1. Len(acc.spans) \in Nat /\ 1 \in 1..Len(acc.spans) /\ DOMAIN acc.spans = 1..Len(acc.spans)
  BY DEF Known, IsTree
<1>2. /\ Known(grown) /\ Len(grown.spans) = Len(acc.spans) + 1
      /\ grown.loopOf = acc.loopOf /\ grown.open = acc.open
      /\ grown.spans[Len(acc.spans) + 1].kind = "agent_loop"
  BY <1>1, SpanAdded
<1>3. Len(acc.spans) + 1 \in Sp!Loops(grown)
  BY <1>1, <1>2 DEF Sp!Loops, Known, IsTree
<1>. HIDE DEF grown
<1>4. looped = IF Sp!Loops(acc) # {} THEN acc ELSE grown
  BY Zenon DEF Sp!WithLoop, grown
<1>. HIDE DEF looped
<1>5. Sp!Loops(looped) # {}
  BY <1>3, <1>4
<1>6. /\ Known(looped) /\ looped.loopOf = acc.loopOf /\ looped.open = acc.open
      /\ Len(looped.spans) >= Len(acc.spans)
  BY <1>1, <1>2, <1>4
<1>7. Sp!Loops(looped) \subseteq 1..Len(looped.spans) /\ Len(looped.spans) \in Nat
  BY <1>6 DEF Sp!Loops, Known, IsTree
<1>8. \E n \in Sp!Loops(looped) : \A m \in Sp!Loops(looped) : m <= n
  <2>. DEFINE S == Sp!Loops(looped)
              b == Len(looped.spans)
  <2>1. b \in Int /\ S \subseteq Int /\ S # {} /\ \A i \in S : i <= b
    BY <1>5, <1>7
  <2>. HIDE DEF S, b
  <2>2. \E n \in S : \A m \in S : m <= n
    BY <2>1, GreatestOf
  <2>. QED BY <2>2 DEF S
<1>9. Sp!Max(Sp!Loops(looped)) \in Sp!Loops(looped)
  BY <1>8 DEF Sp!Max
<1>. QED BY <1>6, <1>7, <1>9 DEF looped

\* A node is added under its loop.
LEMMA NodeStands ==
    ASSUME NEW acc, Known(acc), NEW node, NEW t \in Int
    PROVE  LET grown == Sp!WithNode(acc, node, t)
           IN /\ Known(grown) /\ grown.open = acc.open /\ Len(grown.spans) \in 1..Len(grown.spans)
<1>. DEFINE looped == Sp!WithLoop(acc, t)
            parent == IF node \in DOMAIN acc.loopOf THEN acc.loopOf[node]
                                                    ELSE Sp!Max(Sp!Loops(looped))
            grown  == Sp!WithNode(acc, node, t)
<1>1. /\ Known(looped) /\ looped.loopOf = acc.loopOf /\ looped.open = acc.open
      /\ Len(looped.spans) >= Len(acc.spans)
      /\ Sp!Max(Sp!Loops(looped)) \in 1..Len(looped.spans)
  BY LoopStands
<1>2. grown = Sp!WithSpans(looped, <<Sp!Span("node", parent, node, t, Sp!NoEnd)>>)
  BY Zenon DEF Sp!WithNode
<1>. HIDE DEF looped
<1>3. parent \in 1..Len(looped.spans)
  BY <1>1 DEF Known, Places, IsTree
<1>. HIDE DEF parent, grown
<1>4. Known(grown) /\ Len(grown.spans) = Len(looped.spans) + 1 /\ grown.open = looped.open
  BY <1>1, <1>2, <1>3, SpanAdded
<1>5. Len(grown.spans) \in 1..Len(grown.spans)
  BY <1>4 DEF Known, IsTree
<1>. QED BY <1>1, <1>4, <1>5 DEF grown

\* A patch adds its loop, its plan and the calls of the decision.
LEMMA PatchedStands ==
    ASSUME NEW acc, Known(acc), NEW Cost, NEW e, HasCalls(e, Cost), NEW t \in Int
    PROVE  Known(Sp!Patched(acc, e, t))
<1>. DEFINE m     == Len(acc.spans)
            n     == Len(e.calls)
            loop  == m + 1
            plan  == loop + 1
            L     == Sp!Span("agent_loop", 1, Sp!NoNode, t, Sp!NoEnd)
            P     == Sp!Span("plan", loop, Sp!NoNode, t, t)
            calls == [k \in DOMAIN e.calls |-> Sp!CallSpan(e.calls[k], plan, Sp!NoNode, t)]
            ts    == <<L, P>> \o calls
            grown == Sp!WithSpans(acc, ts)
<1>1. m \in Nat /\ m >= 1 /\ n \in Nat /\ DOMAIN e.calls = 1..n
  BY DEF Known, IsTree, HasCalls
<1>2. Timed(L) /\ L.parent = 1 /\ Timed(P) /\ P.parent = loop
  BY SpanTimed DEF Sp!NoEnd
<1>3. ASSUME NEW k \in 1..n PROVE Timed(calls[k]) /\ calls[k].parent = plan
  <2>1. e.calls[k].at \in Nat /\ e.calls[k].latency \in Int
    BY DEF HasCalls
  <2>2. calls[k] = Sp!CallSpan(e.calls[k], plan, Sp!NoNode, t)
    BY <1>1
  <2>. HIDE DEF calls, plan
  <2>. QED BY <2>1, <2>2, CallTimed
<1>4. calls = [k \in 1..n |-> calls[k]]
  BY <1>1
<1>. HIDE DEF L, P, calls
<1>5. ts = [k \in 1..(2 + n) |-> IF k <= 2 THEN <<L, P>>[k] ELSE calls[k - 2]]
  <2>1. <<L, P>> = [k \in 1..2 |-> <<L, P>>[k]]
    OBVIOUS
  <2>. DEFINE two == <<L, P>>
  <2>. HIDE DEF two
  <2>2. two = [k \in 1..2 |-> two[k]] /\ 2 \in Nat
    BY <2>1 DEF two
  <2>3. two \o calls = [k \in 1..(2 + n) |-> IF k <= 2 THEN two[k] ELSE calls[k - 2]]
    BY <1>1, <1>4, <2>2, Joined
  <2>. QED BY <2>3 DEF two
<1>6. ASSUME NEW k \in 1..(2 + n) PROVE Timed(ts[k]) /\ ts[k].parent \in 1..(m + k - 1)
  <2>1. CASE k = 1
    <3>1. ts[k] = L
      BY <1>1, <1>5, <2>1
    <3>. QED BY <1>1, <1>2, <2>1, <3>1
  <2>2. CASE k = 2
    <3>1. ts[k] = P
      BY <1>1, <1>5, <2>2
    <3>. QED BY <1>1, <1>2, <2>2, <3>1
  <2>3. CASE k > 2
    <3>1. ts[k] = calls[k - 2] /\ k - 2 \in 1..n
      BY <1>1, <1>5, <2>3
    <3>2. Timed(ts[k]) /\ ts[k].parent = plan
      BY <1>3, <3>1
    <3>3. plan \in 1..(m + k - 1)
      <4>. HIDE DEF m, n
      <4>. QED BY <1>1, <2>3
    <3>. QED BY <3>2, <3>3
  <2>4. k = 1 \/ k = 2 \/ k > 2
    <3>. HIDE DEF m, n
    <3>. QED BY <1>1
  <2>. HIDE DEF m, n
  <2>. QED BY <2>1, <2>2, <2>3, <2>4
<1>. HIDE DEF ts
<1>7. ts = [k \in 1..(2 + n) |-> ts[k]]
  BY <1>5
<1>8. Known(grown) /\ Len(grown.spans) = m + (2 + n) /\ grown.loopOf = acc.loopOf
  <2>. DEFINE c == 2 + n
  <2>1. Hang(ts, c, m) /\ c \in Nat
    BY <1>1, <1>6, <1>7 DEF Hang
  <2>. HIDE DEF c
  <2>2. Grown(Sp!WithSpans(acc, ts), acc, ts, c)
    BY <2>1, SpansAdded
  <2>. QED BY <2>2 DEF c, Grown
<1>. DEFINE add     == [x \in e.add \cup DOMAIN grown.loopOf |->
                          IF x \in e.add THEN loop ELSE grown.loopOf[x]]
            patched == Sp!Patched(acc, e, t)
<1>9. patched = [grown EXCEPT !.loopOf = add]
  BY Zenon DEF Sp!Patched, ts, L, P, calls
<1>. HIDE DEF grown
<1>10. loop \in 1..Len(grown.spans)
  <2>. HIDE DEF m, n
  <2>. QED BY <1>1, <1>8
<1>11. Places(add, Len(grown.spans))
  BY <1>8, <1>10 DEF Known, Places
<1>. HIDE DEF add, patched
<1>12. patched = [spans |-> grown.spans, loopOf |-> add, open |-> grown.open]
  <2>. DEFINE a == grown.spans
              b == grown.loopOf
              c == grown.open
  <2>1. grown = [spans |-> a, loopOf |-> b, open |-> c]
    BY <1>8, Zenon DEF Known
  <2>. HIDE DEF a, b, c
  <2>2. patched = [spans |-> a, loopOf |-> add, open |-> c]
    BY <1>9, <2>1
  <2>. QED BY <2>2 DEF a, c
<1>13. patched.spans = grown.spans /\ patched.loopOf = add /\ patched.open = grown.open
  BY <1>12
<1>14. Known(patched)
  BY <1>8, <1>11, <1>12, <1>13 DEF Known
<1>. QED BY <1>14 DEF patched

\* A task that starts has an open span.
LEMMA StartedStands ==
    ASSUME NEW acc, Known(acc), NEW e, NEW t \in Int
    PROVE  Known(Sp!Started(acc, e, t))
<1>. DEFINE node    == e.node
            grown   == Sp!WithNode(acc, node, t)
            n       == Len(grown.spans)
            open    == [x \in DOMAIN grown.open \cup {node} |-> IF x = node THEN n ELSE grown.open[x]]
            started == Sp!Started(acc, e, t)
<1>1. Known(grown) /\ n \in 1..n
  BY NodeStands
<1>2. started = [grown EXCEPT !.open = open]
  BY Zenon DEF Sp!Started
<1>. HIDE DEF grown, node
<1>3. Places(open, n)
  BY <1>1 DEF Known, Places
<1>. HIDE DEF open, started
<1>4. started = [spans |-> grown.spans, loopOf |-> grown.loopOf, open |-> open]
  <2>. DEFINE a == grown.spans
              b == grown.loopOf
              c == grown.open
  <2>1. grown = [spans |-> a, loopOf |-> b, open |-> c]
    BY <1>1, Zenon DEF Known
  <2>. HIDE DEF a, b, c
  <2>2. started = [spans |-> a, loopOf |-> b, open |-> open]
    BY <1>2, <2>1
  <2>. QED BY <2>2 DEF a, b
<1>5. started.spans = grown.spans /\ started.loopOf = grown.loopOf /\ started.open = open
  BY <1>4
<1>6. Known(started)
  BY <1>1, <1>3, <1>4, <1>5 DEF Known
<1>. QED BY <1>6 DEF started

(* The spans, with the one at a place closed.                                *)
Closing(s, at, state, t) == [s EXCEPT ![at] = [s[at] EXCEPT !.state = state, !.end = t]]

\* A span that is closed keeps its place in the tree.
LEMMA SpanClosed ==
    ASSUME NEW s, IsTree(s), NEW at \in 1..Len(s), NEW state, NEW t \in Int
    PROVE  IsTree(Closing(s, at, state, t)) /\ Len(Closing(s, at, state, t)) = Len(s)
<1>. DEFINE m == Len(s)
            c == [s[at] EXCEPT !.state = state, !.end = t]
            u == [s EXCEPT ![at] = c]
<1>1. m \in Nat /\ s = [i \in 1..m |-> s[i]]
  BY DEF IsTree
<1>2. \A i \in 1..m : /\ Timed(s[i]) /\ s[i].parent \in 0..(i - 1)
                      /\ i # 1 => s[i].parent # 0
  BY DEF IsTree
<1>3. Timed(c) /\ c.parent = s[at].parent
  <2>. DEFINE r == s[at]
  <2>1. Timed(r)
    BY <1>2
  <2>. HIDE DEF r
  <2>2. Timed([r EXCEPT !.state = state, !.end = t])
    BY <2>1 DEF Timed
  <2>3. [r EXCEPT !.state = state, !.end = t].parent = r.parent
    BY <2>1 DEF Timed
  <2>. QED BY <2>2, <2>3 DEF r
<1>. HIDE DEF c
<1>4. u = [i \in 1..m |-> IF i = at THEN c ELSE s[i]]
  BY <1>1
<1>. HIDE DEF u
<1>5. ASSUME NEW i \in 1..m
      PROVE  /\ Timed(u[i]) /\ u[i].parent \in 0..(i - 1)
             /\ i # 1 => u[i].parent # 0
  BY <1>2, <1>3, <1>4
<1>6. u = [i \in 1..m |-> u[i]] /\ DOMAIN u = 1..m
  BY <1>4
<1>7. Len(u) = m
  <2>. HIDE DEF m
  <2>. QED BY <1>1, <1>6, Joined
<1>8. u = [i \in DOMAIN u |-> u[i]]
  BY <1>6
<1>9. IsTree(u)
  BY <1>1, <1>5, <1>6, <1>7, <1>8 DEF IsTree
<1>. QED BY <1>7, <1>9, Zenon DEF Closing, u, c

\* A task that ends has its span closed and its calls under it.
LEMMA EndedStands ==
    ASSUME NEW acc, Known(acc), NEW Cost, NEW e, HasCalls(e, Cost), NEW t \in Int
    PROVE  Known(Sp!Ended(acc, e, t))
<1>. DEFINE was    == e.node \in DOMAIN acc.open
            opened == IF was THEN acc ELSE Sp!WithNode(acc, e.node, t)
            at     == IF was THEN acc.open[e.node] ELSE Len(opened.spans)
            state  == Sp!Ends[e.kind]
            closed == [opened.spans[at] EXCEPT !.state = state, !.end = t]
            kept   == [opened.spans EXCEPT ![at] = closed]
            capped(k) == [e.calls[k] EXCEPT !.latency = Sp!Max({@, 0})]
            calls  == [k \in DOMAIN e.calls |-> Sp!CallSpan(capped(k), at, e.node, t)]
            still  == Sp!Restrict(opened.open, DOMAIN opened.open \ {e.node})
            ended  == Sp!Ended(acc, e, t)
            m      == Len(opened.spans)
            n      == Len(e.calls)
<1>1. ended = [spans |-> kept \o calls, loopOf |-> opened.loopOf, open |-> still]
  BY Zenon DEF Sp!Ended
<1>2. Known(opened) /\ at \in 1..m
  <2>1. CASE was
    BY <2>1 DEF Known, Places
  <2>2. CASE ~was
    BY <2>2, NodeStands
  <2>. QED BY <2>1, <2>2
<1>3. n \in Nat /\ DOMAIN e.calls = 1..n
  BY DEF HasCalls
<1>. HIDE DEF opened, at, was
<1>4. m \in Nat
  BY <1>2 DEF Known, IsTree
<1>5. IsTree(kept) /\ Len(kept) = m
  <2>. DEFINE s == opened.spans
  <2>1. IsTree(s) /\ at \in 1..Len(s)
    BY <1>2 DEF Known
  <2>. HIDE DEF s, state
  <2>2. IsTree(Closing(s, at, state, t)) /\ Len(Closing(s, at, state, t)) = Len(s)
    BY <2>1, SpanClosed
  <2>. QED BY <2>2, Zenon DEF s, Closing
<1>6. ASSUME NEW k \in 1..n PROVE Timed(calls[k]) /\ calls[k].parent = at
  <2>. DEFINE call == e.calls[k]
              most == Sp!Max({call.latency, 0})
  <2>1. call \in [cost : Cost, at : Nat, latency : Int]
    BY DEF HasCalls
  <2>. HIDE DEF call
  <2>2. most \in Int
    <3>. DEFINE S == {call.latency, 0}
    <3>1. S \subseteq Int /\ S # {}
      BY <2>1
    <3>2. IsFiniteSet(S)
      <4>1. S = {call.latency} \cup {0} /\ IsFiniteSet({call.latency}) /\ IsFiniteSet({0})
        BY FS_Singleton
      <4>. QED BY <4>1, FS_Union
    <3>. HIDE DEF S
    <3>3. Sp!Max(S) \in Int
      BY <3>1, <3>2, EndsOfFinite
    <3>. QED BY <3>3 DEF S
  <2>. HIDE DEF most
  <2>3. capped(k) = [call EXCEPT !.latency = most]
    BY Zenon DEF call, most
  <2>. HIDE DEF capped
  <2>4. capped(k).at \in Nat /\ capped(k).latency \in Int
    BY <2>1, <2>2, <2>3
  <2>5. calls[k] = Sp!CallSpan(capped(k), at, e.node, t)
    BY <1>3
  <2>. HIDE DEF calls
  <2>. QED BY <2>4, <2>5, CallTimed
<1>7. calls = [k \in 1..n |-> calls[k]]
  BY <1>3
<1>. HIDE DEF calls, kept, m, n
<1>8. Hang(calls, n, Len(kept))
  BY <1>2, <1>3, <1>4, <1>5, <1>6, <1>7 DEF Hang
<1>. DEFINE u == kept \o calls
<1>9. IsTree(u) /\ Len(u) = m + n
  BY <1>3, <1>5, <1>8, TreeGrows
<1>10. DOMAIN still \subseteq DOMAIN opened.open /\ \A x \in DOMAIN still : still[x] = opened.open[x]
  BY DEF Sp!Restrict
<1>. HIDE DEF u, still, ended
<1>11. Places(opened.loopOf, Len(u)) /\ Places(still, Len(u))
  <2>1. 1..m \subseteq 1..(m + n)
    BY <1>3, <1>4
  <2>2. Places(opened.loopOf, m) /\ Places(opened.open, m)
    BY <1>2 DEF Known, m
  <2>. QED BY <1>9, <1>10, <2>1, <2>2 DEF Places
<1>12. Len(u) >= 1
  BY <1>2, <1>3, <1>4, <1>9
<1>13. ended = [spans |-> u, loopOf |-> opened.loopOf, open |-> still]
  BY <1>1 DEF u
<1>14. ended.spans = u /\ ended.loopOf = opened.loopOf /\ ended.open = still
  BY <1>13
<1>15. Known(ended)
  BY <1>9, <1>11, <1>12, <1>13, <1>14 DEF Known
<1>. QED BY <1>15 DEF ended

\* Each event that is read keeps what stands.
LEMMA ReadStands ==
    ASSUME NEW acc, Known(acc), NEW Cost, NEW e, HasCalls(e, Cost), NEW t \in Int
    PROVE  Known(Sp!Read(acc, e, t))
<1>1. Known(Sp!Patched(acc, e, t)) /\ Known(Sp!Ended(acc, e, t)) /\ Known(Sp!Started(acc, e, t))
  BY PatchedStands, StartedStands, EndedStands
<1>2. CASE e.kind = "graph_patched"
  BY <1>1, <1>2 DEF Sp!Read
<1>3. CASE e.kind = "task_started"
  BY <1>1, <1>3 DEF Sp!Read
<1>4. CASE e.kind \in DOMAIN Sp!Ends
  BY <1>1, <1>4 DEF Sp!Read, Sp!Ends
<1>5. CASE e.kind # "graph_patched" /\ e.kind # "task_started" /\ e.kind \notin DOMAIN Sp!Ends
  BY <1>5 DEF Sp!Read
<1>. QED BY <1>2, <1>3, <1>4, <1>5

(* What is built once n events are read, from what was built before.         *)
After(f, events, now, n) ==
    IF n = 0 THEN Sp!Fresh(Sp!Clock(events, now, 1))
    ELSE Sp!Read(f[n - 1], events[n], Sp!Clock(events, now, n))
ReadUpTo(f, events, now, k) == f = [n \in 0..k |-> After(f, events, now, n)]

\* A journal can be read to its end.
LEMMA JournalIsRead ==
    ASSUME NEW events, Len(events) \in Nat, NEW now
    PROVE  \E f : /\ ReadUpTo(f, events, now, Len(events))
                  /\ Sp!Unresolved(events, now) = f[Len(events)].spans
<1>. DEFINE m   == Len(events)
            bad == {k \in 0..m : ~ \E f : ReadUpTo(f, events, now, k)}
<1>1. bad = {}
  <2>. SUFFICES ASSUME bad # {} PROVE FALSE
    OBVIOUS
  <2>1. bad \in SUBSET Nat
    OBVIOUS
  <2>2. PICK k \in bad : \A j \in bad : k <= j
    BY <2>1, LeastOf
  <2>3. k \in 0..m /\ ~ \E f : ReadUpTo(f, events, now, k)
    BY <2>2
  <2>4. k # 0
    <3>. DEFINE e == [n \in 0..0 |-> Sp!Fresh(Sp!Clock(events, now, 1))]
    <3>1. \A n \in 0..0 : n = 0
      OBVIOUS
    <3>2. ReadUpTo(e, events, now, 0)
      BY <3>1, Zenon DEF ReadUpTo, After
    <3>. HIDE DEF e
    <3>. QED BY <2>3, <3>2
  <2>5. k - 1 \in 0..m /\ ~(k <= k - 1)
    BY <2>3, <2>4
  <2>6. PICK f : ReadUpTo(f, events, now, k - 1)
    BY <2>2, <2>5
  <2>. DEFINE g == [n \in 0..k |-> IF n = k THEN After(f, events, now, k) ELSE f[n]]
  <2>7. ASSUME NEW n \in 0..k PROVE g[n] = After(g, events, now, n)
    <3>1. n # 0 => g[n - 1] = f[n - 1]
      BY <2>3
    <3>2. After(f, events, now, n) = After(g, events, now, n)
      <4>. HIDE DEF g
      <4>. QED BY <3>1 DEF After
    <3>3. g[n] = After(f, events, now, n)
      <4>1. CASE n = k
        BY <4>1
      <4>2. CASE n # k
        <5>1. n \in 0..(k - 1)
          BY <2>3, <4>2
        <5>2. f[n] = After(f, events, now, n)
          BY <2>6, <5>1 DEF ReadUpTo
        <5>. QED BY <4>2, <5>2
      <4>. QED BY <4>1, <4>2
    <3>. QED BY <3>2, <3>3
  <2>8. g = [n \in 0..k |-> g[n]]
    OBVIOUS
  <2>. HIDE DEF g
  <2>9. ReadUpTo(g, events, now, k)
    BY <2>7, <2>8 DEF ReadUpTo
  <2>. QED BY <2>3, <2>9
<1>2. \E f : ReadUpTo(f, events, now, m)
  <2>1. m \in 0..m
    OBVIOUS
  <2>. QED BY <1>1, <2>1
<1>. DEFINE h == CHOOSE f : ReadUpTo(f, events, now, m)
<1>3. ReadUpTo(h, events, now, m)
  BY <1>2
<1>4. Sp!Unresolved(events, now) = h[m].spans
  BY Zenon DEF Sp!Unresolved, ReadUpTo, After
<1>. HIDE DEF h
<1>. QED BY <1>3, <1>4

\* What is built of a journal stands, however far it is read.
LEMMA JournalKnown ==
    ASSUME NEW Cost, NEW events, IsJournal(events, Cost), NEW now \in Int,
           NEW f, ReadUpTo(f, events, now, Len(events))
    PROVE  \A n \in 0..Len(events) : Known(f[n])
<1>. DEFINE m == Len(events)
<1>1. m \in Nat
  BY DEF IsJournal
<1>3. \A n \in 0..m : f[n] = After(f, events, now, n)
  BY DEF ReadUpTo
<1>. DEFINE bad == {n \in 0..m : ~Known(f[n])}
<1>4. bad = {}
  <2>. SUFFICES ASSUME bad # {} PROVE FALSE
    OBVIOUS
  <2>1. bad \in SUBSET Nat
    OBVIOUS
  <2>2. PICK k \in bad : \A j \in bad : k <= j
    BY <2>1, LeastOf
  <2>3. k \in 0..m /\ ~Known(f[k]) /\ f[k] = After(f, events, now, k)
    BY <1>3, <2>2
  <2>4. k # 0
    <3>. SUFFICES ASSUME k = 0 PROVE FALSE
      OBVIOUS
    <3>. DEFINE t    == Sp!Clock(events, now, 1)
                root == Sp!Span("run", 0, Sp!NoNode, t, Sp!NoEnd)
                acc  == [spans |-> <<root>>, loopOf |-> <<>>, open |-> <<>>]
    <3>1. t \in Int
      BY ClockShows
    <3>. HIDE DEF t
    <3>2. Timed(root) /\ root.parent = 0
      BY <3>1, SpanTimed DEF Sp!NoEnd
    <3>3. f[k] = acc
      BY <2>3, Zenon DEF After, Sp!Fresh, t
    <3>. HIDE DEF root
    <3>4. IsTree(<<root>>) /\ Len(<<root>>) = 1
      BY <3>2 DEF IsTree
    <3>5. acc.spans = <<root>> /\ acc.loopOf = <<>> /\ acc.open = <<>>
      OBVIOUS
    <3>6. Places(<<>>, 1)
      BY DEF Places
    <3>7. Known(acc)
      <4>1. acc = [spans |-> acc.spans, loopOf |-> acc.loopOf, open |-> acc.open]
        BY <3>5
      <4>. HIDE DEF acc
      <4>. QED BY <3>4, <3>5, <3>6, <4>1 DEF Known
    <3>. QED BY <2>3, <3>3, <3>7
  <2>5. k - 1 \in 0..m /\ ~(k <= k - 1) /\ k \in 1..m
    BY <1>1, <2>3, <2>4
  <2>6. Known(f[k - 1])
    BY <2>2, <2>5
  <2>7. HasCalls(events[k], Cost)
    BY <2>5 DEF IsJournal
  <2>8. Sp!Clock(events, now, k) \in Int
    BY <2>5, ClockShows
  <2>9. f[k] = Sp!Read(f[k - 1], events[k], Sp!Clock(events, now, k))
    BY <2>3, <2>4 DEF After
  <2>. QED BY <2>3, <2>6, <2>7, <2>8, <2>9, ReadStands
<1>. QED BY <1>4

\* The spans a journal leaves form a tree.
LEMMA JournalIsTree ==
    ASSUME NEW Cost, NEW events, IsJournal(events, Cost), NEW now \in Int
    PROVE  IsTree(Sp!Unresolved(events, now))
<1>. DEFINE m == Len(events)
<1>1. m \in Nat /\ m \in 0..m
  BY DEF IsJournal
<1>2. PICK f : ReadUpTo(f, events, now, m) /\ Sp!Unresolved(events, now) = f[m].spans
  BY <1>1, JournalIsRead
<1>3. Known(f[m])
  BY <1>1, <1>2, JournalKnown
<1>. QED BY <1>2, <1>3 DEF Known

\* The trace rebuilt from a journal nests, whatever the journal says of its
\* tasks and whenever its calls say they ran: each span lies in its parent and
\* none takes negative time.
THEOREM TracesAlwaysNest ==
    ASSUME NEW Cost, NEW events, IsJournal(events, Cost), NEW now \in Int
    PROVE  Sp!SpansNest(Sp!BuildSpanTree(events, now))
<1>. DEFINE i     == IF events = <<>> THEN 1 ELSE Len(events)
            last  == Sp!Clock(events, now, i)
            spans == Sp!Unresolved(events, now)
<1>1. last \in Int
  <2>1. i \in Int
    BY DEF IsJournal
  <2>. HIDE DEF i
  <2>. QED BY <2>1, ClockShows
<1>2. IsTree(spans)
  BY JournalIsTree
<1>3. Sp!BuildSpanTree(events, now) = Sp!Resolved(spans, last)
  BY Zenon DEF Sp!BuildSpanTree
<1>. HIDE DEF last, spans
<1>. QED BY <1>1, <1>2, <1>3, ResolvedNest
-----------------------------------------------------------------------------
(* The report of a night.                                                    *)

(* Records of different events, none with two decisions of a subscription    *)
(* (add_decision keeps the first), and a ledger whose entries are numbered.  *)
IsNight(records, ledger) ==
    /\ \A i, j \in DOMAIN records : records[i].event = records[j].event => i = j
    /\ \A i \in DOMAIN records : \A j, k \in DOMAIN records[i].decisions :
          records[i].decisions[j].sub = records[i].decisions[k].sub => j = k
    /\ Len(ledger) \in Nat /\ DOMAIN ledger = 1..Len(ledger)

(* What the report has of the ledger once n entries are read, from what it   *)
(* had before.                                                               *)
Adds(f, seen, ledger, since, n) ==
    IF n = 0 THEN {}
    ELSE IF /\ ledger[n].at >= since
            /\ Rp!New(seen \cup {Rp!Key(ledger[k]) : k \in f[n - 1]}, ledger[n])
           THEN f[n - 1] \cup {n}
           ELSE f[n - 1]
AddsUpTo(f, seen, ledger, since, k) == f = [n \in 0..k |-> Adds(f, seen, ledger, since, n)]

\* A ledger can be read to its end.
LEMMA LedgerIsRead ==
    ASSUME NEW seen, NEW ledger, Len(ledger) \in Nat, NEW since
    PROVE  \E f : /\ AddsUpTo(f, seen, ledger, since, Len(ledger))
                  /\ Rp!LedgerOnly(seen, ledger, since) = f[Len(ledger)]
<1>. DEFINE m   == Len(ledger)
            bad == {k \in 0..m : ~ \E f : AddsUpTo(f, seen, ledger, since, k)}
<1>1. bad = {}
  <2>. SUFFICES ASSUME bad # {} PROVE FALSE
    OBVIOUS
  <2>1. bad \in SUBSET Nat
    OBVIOUS
  <2>2. PICK k \in bad : \A j \in bad : k <= j
    BY <2>1, LeastOf
  <2>3. k \in 0..m /\ ~ \E f : AddsUpTo(f, seen, ledger, since, k)
    BY <2>2
  <2>4. k # 0
    <3>. DEFINE e == [n \in 0..0 |-> {}]
    <3>1. \A n \in 0..0 : n = 0
      OBVIOUS
    <3>2. AddsUpTo(e, seen, ledger, since, 0)
      BY <3>1, Zenon DEF AddsUpTo, Adds
    <3>. HIDE DEF e
    <3>. QED BY <2>3, <3>2
  <2>5. k - 1 \in 0..m /\ ~(k <= k - 1)
    BY <2>3, <2>4
  <2>6. PICK f : AddsUpTo(f, seen, ledger, since, k - 1)
    BY <2>2, <2>5
  <2>. DEFINE g == [n \in 0..k |-> IF n = k THEN Adds(f, seen, ledger, since, k) ELSE f[n]]
  <2>7. ASSUME NEW n \in 0..k PROVE g[n] = Adds(g, seen, ledger, since, n)
    <3>1. n # 0 => g[n - 1] = f[n - 1]
      BY <2>3
    <3>2. Adds(f, seen, ledger, since, n) = Adds(g, seen, ledger, since, n)
      <4>. HIDE DEF g
      <4>. QED BY <3>1, Zenon DEF Adds
    <3>3. g[n] = Adds(f, seen, ledger, since, n)
      <4>1. CASE n = k
        BY <4>1
      <4>2. CASE n # k
        <5>1. n \in 0..(k - 1)
          BY <2>3, <4>2
        <5>2. f[n] = Adds(f, seen, ledger, since, n)
          BY <2>6, <5>1 DEF AddsUpTo
        <5>. QED BY <4>2, <5>2
      <4>. QED BY <4>1, <4>2
    <3>. QED BY <3>2, <3>3
  <2>8. g = [n \in 0..k |-> g[n]]
    OBVIOUS
  <2>. HIDE DEF g
  <2>9. AddsUpTo(g, seen, ledger, since, k)
    BY <2>7, <2>8 DEF AddsUpTo
  <2>. QED BY <2>3, <2>9
<1>2. \E f : AddsUpTo(f, seen, ledger, since, m)
  <2>1. m \in 0..m
    OBVIOUS
  <2>. QED BY <1>1, <2>1
<1>. DEFINE h == CHOOSE f : AddsUpTo(f, seen, ledger, since, m)
<1>3. AddsUpTo(h, seen, ledger, since, m)
  BY <1>2
<1>4. Rp!LedgerOnly(seen, ledger, since) = h[m]
  BY Zenon DEF Rp!LedgerOnly, AddsUpTo, Adds
<1>. HIDE DEF h
<1>. QED BY <1>3, <1>4

(* What is added of the first n entries: recent ones, each told once, that   *)
(* with what was seen tell every recent one.                                 *)
Tells(added, seen, ledger, since, n) ==
    /\ added \subseteq {k \in 1..n : ledger[k].at >= since}
    /\ \A j, k \in added : Rp!Key(ledger[j]) = Rp!Key(ledger[k]) => j = k
    /\ \A k \in added : Rp!Key(ledger[k]) \notin seen
    /\ \A k \in 1..n : ledger[k].at >= since =>
          \/ Rp!Key(ledger[k]) \in seen
          \/ \E j \in added : Rp!Key(ledger[j]) = Rp!Key(ledger[k])

\* The entries that are added tell the ledger.
LEMMA LedgerIsTold ==
    ASSUME NEW seen, NEW ledger, Len(ledger) \in Nat, NEW since
    PROVE  Tells(Rp!LedgerOnly(seen, ledger, since), seen, ledger, since, Len(ledger))
<1>. DEFINE m == Len(ledger)
<1>1. PICK f : AddsUpTo(f, seen, ledger, since, m) /\ Rp!LedgerOnly(seen, ledger, since) = f[m]
  BY LedgerIsRead
<1>2. \A n \in 0..m : f[n] = Adds(f, seen, ledger, since, n)
  BY <1>1 DEF AddsUpTo
<1>. DEFINE bad == {n \in 0..m : ~Tells(f[n], seen, ledger, since, n)}
<1>3. bad = {}
  <2>. SUFFICES ASSUME bad # {} PROVE FALSE
    OBVIOUS
  <2>1. bad \in SUBSET Nat
    OBVIOUS
  <2>2. PICK k \in bad : \A j \in bad : k <= j
    BY <2>1, LeastOf
  <2>3. k \in 0..m /\ ~Tells(f[k], seen, ledger, since, k) /\ f[k] = Adds(f, seen, ledger, since, k)
    BY <1>2, <2>2
  <2>4. k # 0
    <3>. SUFFICES ASSUME k = 0 PROVE FALSE
      OBVIOUS
    <3>1. f[k] = {}
      BY <2>3 DEF Adds
    <3>2. 1..k = {}
      OBVIOUS
    <3>. QED BY <2>3, <3>1, <3>2 DEF Tells
  <2>5. k - 1 \in 0..m /\ ~(k <= k - 1) /\ k \in 1..m
    BY <2>3, <2>4
  <2>. DEFINE was == f[k - 1]
              key(j) == Rp!Key(ledger[j])
  <2>6. Tells(was, seen, ledger, since, k - 1)
    BY <2>2, <2>5
  <2>7. 1..k = 1..(k - 1) \cup {k} /\ k \notin 1..(k - 1)
    BY <2>5
  <2>8. f[k] = IF ledger[k].at >= since /\ key(k) \notin seen \cup {key(j) : j \in was}
               THEN was \cup {k} ELSE was
    BY <2>3, <2>4, Zenon DEF Adds, Rp!New
  <2>. HIDE DEF was, key
  <2>9. /\ was \subseteq {j \in 1..(k - 1) : ledger[j].at >= since}
        /\ \A i, j \in was : key(i) = key(j) => i = j
        /\ \A j \in was : key(j) \notin seen
        /\ \A j \in 1..(k - 1) : ledger[j].at >= since =>
              key(j) \in seen \/ \E i \in was : key(i) = key(j)
    BY <2>6, Zenon DEF Tells, key
  <2>10. CASE ledger[k].at >= since /\ key(k) \notin seen \cup {key(j) : j \in was}
    <3>1. f[k] = was \cup {k} /\ \A j \in was : key(j) # key(k)
      BY <2>8, <2>10
    <3>2. f[k] \subseteq {j \in 1..k : ledger[j].at >= since}
      BY <2>7, <2>9, <2>10, <3>1
    <3>3. \A i, j \in f[k] : key(i) = key(j) => i = j
      BY <2>9, <3>1
    <3>4. \A j \in f[k] : key(j) \notin seen
      BY <2>9, <2>10, <3>1
    <3>5. \A j \in 1..k : ledger[j].at >= since =>
              key(j) \in seen \/ \E i \in f[k] : key(i) = key(j)
      BY <2>7, <2>9, <3>1
    <3>. QED BY <2>3, <3>2, <3>3, <3>4, <3>5, Zenon DEF Tells, key
  <2>11. CASE ~(ledger[k].at >= since /\ key(k) \notin seen \cup {key(j) : j \in was})
    <3>1. f[k] = was
      BY <2>8, <2>11
    <3>2. f[k] \subseteq {j \in 1..k : ledger[j].at >= since}
      BY <2>7, <2>9, <3>1
    <3>3. \A i, j \in f[k] : key(i) = key(j) => i = j
      BY <2>9, <3>1
    <3>4. \A j \in f[k] : key(j) \notin seen
      BY <2>9, <3>1
    <3>5. ledger[k].at >= since => key(k) \in seen \/ \E i \in f[k] : key(i) = key(k)
      BY <2>11, <3>1
    <3>6. \A j \in 1..k : ledger[j].at >= since =>
              key(j) \in seen \/ \E i \in f[k] : key(i) = key(j)
      BY <2>7, <2>9, <3>1, <3>5
    <3>. QED BY <2>3, <3>2, <3>3, <3>4, <3>6, Zenon DEF Tells, key
  <2>. QED BY <2>10, <2>11
<1>4. Tells(f[m], seen, ledger, since, m)
  <2>1. m \in 0..m
    OBVIOUS
  <2>. QED BY <1>3, <2>1
<1>. QED BY <1>1, <1>4

\* The report of any night tells each refusal once (morning_report): those that
\* are stored with their event, and of the ledger those that are not, although
\* most refusals are written to both.
THEOREM ReportAlwaysStands ==
    ASSUME NEW records, NEW ledger, NEW since, IsNight(records, ledger)
    PROVE  Rp!ReportStands(records, ledger, since)
<1>. DEFINE blocked == Rp!Blocked(records, since)
            told(p) == Rp!BlockedKey(records, p)
            seen    == {told(p) : p \in blocked}
            only    == Rp!LedgerOnly(seen, ledger, since)
            report  == Rp!MorningReport(records, ledger, since)
            key(n)  == Rp!Key(ledger[n])
<1>1. report.blocked = blocked /\ report.ledgerOnly = only
  BY DEF Rp!MorningReport
<1>2. ASSUME NEW p \in blocked, NEW q \in blocked, told(p) = told(q) PROVE p = q
  <2>1. \A r \in blocked : /\ r = <<r[1], r[2]>> /\ r[1] \in DOMAIN records
                           /\ r[2] \in DOMAIN records[r[1]].decisions
    BY DEF Rp!Blocked, Rp!Decisions, Rp!Considered
  <2>2. /\ records[p[1]].event = records[q[1]].event
        /\ records[p[1]].decisions[p[2]].sub = records[q[1]].decisions[q[2]].sub
    BY <1>2 DEF Rp!BlockedKey, Rp!Decision
  <2>. HIDE DEF blocked, told
  <2>3. p[1] = q[1]
    BY <2>1, <2>2 DEF IsNight
  <2>4. p[2] = q[2]
    BY <2>1, <2>2, <2>3 DEF IsNight
  <2>. QED BY <2>1, <2>3, <2>4
<1>3. Len(ledger) \in Nat /\ DOMAIN ledger = 1..Len(ledger)
  BY DEF IsNight
<1>4. Tells(only, seen, ledger, since, Len(ledger))
  <2>. HIDE DEF seen
  <2>. QED BY <1>3, LedgerIsTold
<1>. HIDE DEF blocked, told, only, report, key
<1>5. \A n, m \in only : key(n) = key(m) => n = m
  BY <1>4, Zenon DEF Tells, key
<1>6. \A p \in blocked, n \in only : told(p) # key(n)
  <2>1. \A n \in only : key(n) \notin seen
    BY <1>4, Zenon DEF Tells, key
  <2>. QED BY <2>1
<1>7. only \subseteq {n \in DOMAIN ledger : ledger[n].at >= since}
  BY <1>3, <1>4, Zenon DEF Tells
<1>8. ASSUME NEW n \in {k \in DOMAIN ledger : ledger[k].at >= since}
      PROVE  \/ \E m \in only : key(m) = key(n)
             \/ \E p \in blocked : told(p) = key(n)
  <2>1. n \in 1..Len(ledger) /\ ledger[n].at >= since
    BY <1>3
  <2>2. key(n) \in seen \/ \E m \in only : key(m) = key(n)
    BY <1>4, <2>1, Zenon DEF Tells, key
  <2>. QED BY <2>2
<1>. QED BY <1>1, <1>2, <1>5, <1>6, <1>7, <1>8, Zenon DEF Rp!ReportStands, report, told, key

(* What the run picks of the nights.                                         *)
ReportInput ==
    case.alg = "report" => IsNight(case.records, case.ledger)

(* Every night the run picks, and by the theorem above any other: the report *)
(* tells every refusal once (morning_report).                                *)
THEOREM RefusalsAlwaysToldOnce == Spec => []RefusalsToldOnce
<1>1. Init => ReportInput
  BY DEF Init, NoCase, ReportInput
<1>2. ReportInput /\ [Next]_case => ReportInput'
  <2>1. ASSUME PickReport PROVE ReportInput'
    <3>1. PICK r \in {x \in EventRecords : Distinct(x)}, l \in Refusals :
             case' = [alg |-> "report", records |-> r, ledger |-> l]
      BY <2>1, Zenon DEF PickReport, Pick
    <3>2. case'.records = r /\ case'.ledger = l
      BY <3>1
    <3>3. \A i, j \in DOMAIN r : r[i].event = r[j].event => i = j
      BY <3>1, Zenon DEF Distinct
    <3>4. ASSUME NEW i \in DOMAIN r, NEW j \in DOMAIN r[i].decisions, NEW k \in DOMAIN r[i].decisions,
                 r[i].decisions[j].sub = r[i].decisions[k].sub
          PROVE  j = k
      <4>. DEFINE D == {<<>>, <<Decided("s1", "max_runs", TRUE)>>,
                        <<Decided("s1", "none", TRUE), Decided("s2", "max_runs", TRUE)>>}
                  R == [event : {"e1", "e2"}, at : {1, 2}, decisions : D]
      <4>1. r \in UpTo(R, 2)
        BY <3>1, Zenon DEF EventRecords
      <4>. HIDE DEF R, D
      <4>2. PICK n \in 0..2 : r \in [1..n -> R]
        BY <4>1 DEF UpTo
      <4>3. r[i] \in R
        BY <4>2
      <4>4. r[i].decisions \in D
        BY <4>3 DEF R
      <4>. DEFINE d == r[i].decisions
      <4>5. d \in D /\ j \in DOMAIN d /\ k \in DOMAIN d /\ d[j].sub = d[k].sub
        BY <3>4, <4>4
      <4>. HIDE DEF d
      <4>6. CASE d = <<>>
        BY <4>5, <4>6
      <4>7. CASE d = <<Decided("s1", "max_runs", TRUE)>>
        BY <4>5, <4>7
      <4>8. CASE d = <<Decided("s1", "none", TRUE), Decided("s2", "max_runs", TRUE)>>
        BY <4>5, <4>8 DEF Decided
      <4>. QED BY <4>5, <4>6, <4>7, <4>8 DEF D
    <3>5. Len(l) \in Nat /\ DOMAIN l = 1..Len(l)
      <4>. DEFINE R == [event : {"e1", "e2"}, control : {"max_runs", "self_trigger"},
                        sub : {"s1", "s2"}, at : {1, 2}]
      <4>1. l \in UpTo(R, 2)
        BY <3>1, Zenon DEF Refusals
      <4>. HIDE DEF R
      <4>2. PICK n \in 0..2 : l \in [1..n -> R]
        BY <4>1 DEF UpTo
      <4>3. Len(l) = n
        BY <4>2
      <4>. QED BY <4>2, <4>3
    <3>6. IsNight(r, l)
      BY <3>3, <3>4, <3>5 DEF IsNight
    <3>. QED BY <3>2, <3>6 DEF ReportInput
  <2>2. ASSUME ReportInput, UNCHANGED case PROVE ReportInput'
    BY <2>2 DEF ReportInput
  <2>3. ASSUME Next, ~PickReport PROVE ReportInput'
    BY <2>3, Picked DEF ReportInput
  <2>. QED BY <2>1, <2>2, <2>3
<1>3. ReportInput => RefusalsToldOnce
  BY ReportAlwaysStands DEF ReportInput, RefusalsToldOnce
<1>. QED BY <1>1, <1>2, <1>3, PTL DEF Spec
-----------------------------------------------------------------------------
(* The verdict of a panel.                                                   *)

(* A sample that is a vote or not: one with scores comes of a call.          *)
IsSample(s) == s.ok \in BOOLEAN /\ s.resolved \in BOOLEAN /\ (s.ok => s.called)

\* A member that gave scores was called, and votes for the answer or against.
LEMMA SampleVotes ==
    ASSUME NEW member, NEW rubric, NEW criteria
    PROVE  IsSample(Ev!Sample(member, rubric, criteria))
<1>. DEFINE asked  == Ev!Asked(member, rubric.retries)
            ok     == asked # 0 /\ Ev!Parses(member[asked], rubric, criteria)
            scores == IF ok THEN Ev!ParseScores(member[asked], rubric, criteria) ELSE <<>>
            clears == Ev!Clears(rubric, criteria, scores, 1)
            yes    == ok /\ clears
            called == asked # 0
            s      == Ev!Sample(member, rubric, criteria)
<1>1. s = [ok |-> ok, called |-> called, scores |-> scores, resolved |-> yes]
  BY Zenon DEF Ev!Sample
<1>2. ok => called
  OBVIOUS
<1>3. ok \in BOOLEAN /\ yes \in BOOLEAN /\ called \in BOOLEAN
  BY Zenon
<1>. HIDE DEF s, ok, yes, called, scores
<1>4. s.ok = ok /\ s.called = called /\ s.resolved = yes
  BY <1>1, Zenon
<1>. QED BY <1>2, <1>3, <1>4, Zenon DEF s, IsSample

\* How many there are of a part of finitely many places.
LEMMA PlacesCounted ==
    ASSUME NEW n \in Nat, NEW S, S \subseteq 1..n
    PROVE  /\ IsFiniteSet(S) /\ Ev!Cardinality(S) \in Nat
           /\ (Ev!Cardinality(S) = 0) <=> (S = {})
           /\ \A T : T \subseteq S => Ev!Cardinality(T) <= Ev!Cardinality(S)
<1>1. IsFiniteSet(1..n)
  <2>1. 1 \in Int /\ n \in Int
    OBVIOUS
  <2>. QED BY <2>1, FS_Interval
<1>2. IsFiniteSet(S)
  BY <1>1, FS_Subset
<1>3. Cardinality(S) \in Nat /\ ((Cardinality(S) = 0) <=> (S = {}))
  BY <1>2, FS_CardinalityType, FS_EmptySet
<1>4. \A T : T \subseteq S => Cardinality(T) <= Cardinality(S)
  BY <1>2, FS_Subset
<1>5. \A T : Ev!Cardinality(T) = Cardinality(T)
  BY DEF Ev!Cardinality, Cardinality
<1>. QED BY <1>2, <1>3, <1>4, <1>5

\* A panel is obeyed (RubricJudge.judge), whatever its members reply, how often
\* their calls fail and how the rubric settles a tie.
THEOREM PanelAlwaysObeyed ==
    ASSUME NEW rubric, NEW expectation, NEW panel,
           Len(panel) \in Nat, DOMAIN panel = 1..Len(panel)
    PROVE  Ev!PanelObeyed(rubric, expectation, panel)
<1>. DEFINE n        == Len(panel)
            criteria == Ev!Applicable(rubric, expectation)
            verdict  == Ev!Judge(rubric, expectation, TRUE, panel)
            samples  == [m \in DOMAIN panel |-> Ev!Sample(panel[m], rubric, criteria)]
            usable   == {m \in DOMAIN samples : samples[m].ok}
            called   == {m \in DOMAIN samples : samples[m].called}
            given    == {samples[m].resolved : m \in usable}
            F        == {m \in DOMAIN samples : samples[m].ok /\ samples[m].resolved}
            A        == {m \in DOMAIN samples : samples[m].ok /\ ~ samples[m].resolved}
            for      == Ev!Cardinality(F)
            against  == Ev!Cardinality(A)
            sums     == [i \in criteria |->
                           Ev!Total(Len(panel), [m \in usable |-> samples[m].scores[i]])]
            tied     == /\ for = against /\ rubric.tie = "score"
                        /\ Ev!Clears(rubric, criteria, sums, Ev!Cardinality(usable))
            resolved == for > against \/ tied
            status   == IF usable = {} THEN "judge_failed"
                        ELSE IF resolved THEN "resolved" ELSE "unresolved"
            calls    == Ev!Cardinality(called)
            failures == Len(samples) - Ev!Cardinality(usable)
            disputed == for > 0 /\ against > 0
<1>1. verdict = [status |-> status, calls |-> calls, failures |-> failures, disputed |-> disputed]
  BY Zenon DEF Ev!Judge, Ev!Votes
<1>2. DOMAIN samples = 1..n /\ Len(samples) = n
  <2>1. samples \in [1..n -> {samples[m] : m \in 1..n}]
    OBVIOUS
  <2>. DEFINE S == {samples[m] : m \in 1..n}
  <2>. HIDE DEF samples, S
  <2>2. samples \in [1..n -> S]
    BY <2>1 DEF S
  <2>. QED BY <2>2
<1>3. \A m \in 1..n : /\ samples[m].ok \in BOOLEAN /\ samples[m].resolved \in BOOLEAN
                      /\ samples[m].ok => samples[m].called
  <2>. SUFFICES ASSUME NEW m \in 1..n
                PROVE  /\ samples[m].ok \in BOOLEAN /\ samples[m].resolved \in BOOLEAN
                       /\ samples[m].ok => samples[m].called
    OBVIOUS
  <2>1. samples[m] = Ev!Sample(panel[m], rubric, criteria)
    OBVIOUS
  <2>. HIDE DEF samples, criteria
  <2>2. IsSample(samples[m])
    BY <2>1, SampleVotes
  <2>. QED BY <2>2, Zenon DEF IsSample
<1>. HIDE DEF samples
<1>4. usable = F \cup A /\ usable \subseteq called /\ called \subseteq 1..n
  BY <1>2, <1>3
<1>5. F \subseteq 1..n /\ A \subseteq 1..n /\ usable \subseteq 1..n
  BY <1>2
<1>6. ASSUME NEW m \in usable PROVE samples[m].resolved = TRUE \/ samples[m].resolved = FALSE
  BY <1>3, <1>5, Zenon
<1>7. (given = {}) <=> (usable = {})
  BY Zenon
<1>8. given = {TRUE} => A = {} /\ F # {}
  BY Zenon
<1>9. given = {FALSE} => F = {} /\ A # {}
  BY Zenon
<1>10. (given = BOOLEAN) <=> (F # {} /\ A # {})
  BY <1>6, Zenon
<1>. HIDE DEF F, A, usable, called, given
<1>11. /\ for \in Nat /\ ((for = 0) <=> (F = {}))
       /\ against \in Nat /\ ((against = 0) <=> (A = {}))
  BY <1>5, PlacesCounted
<1>12. calls + failures >= n
  <2>1. Ev!Cardinality(usable) \in Nat /\ calls \in Nat /\ Ev!Cardinality(usable) <= calls
    BY <1>4, <1>5, PlacesCounted
  <2>. DEFINE u == Ev!Cardinality(usable)
  <2>. HIDE DEF u, calls, n
  <2>. QED BY <1>2, <2>1 DEF u
<1>. HIDE DEF for, against, tied, calls, failures, verdict
<1>13. /\ verdict.status = status /\ verdict.calls = calls /\ verdict.failures = failures
       /\ verdict.disputed = disputed
  <2>. DEFINE st == status
              di == disputed
  <2>1. verdict = [status |-> st, calls |-> calls, failures |-> failures, disputed |-> di]
    BY <1>1
  <2>. HIDE DEF st, di
  <2>2. /\ verdict.status = st /\ verdict.calls = calls /\ verdict.failures = failures
        /\ verdict.disputed = di
    BY <2>1, Zenon
  <2>. QED BY <2>2 DEF st, di
<1>14. (status = "judge_failed") <=> (given = {})
  BY <1>7
<1>15. given = {TRUE} => status = "resolved"
  <2>1. SUFFICES ASSUME A = {}, F # {} PROVE status = "resolved"
    BY <1>8
  <2>2. for > against
    BY <1>11, <2>1
  <2>. QED BY <1>4, <2>1, <2>2
<1>16. given = {FALSE} => status = "unresolved"
  <2>1. SUFFICES ASSUME F = {}, A # {} PROVE status = "unresolved"
    BY <1>9
  <2>2. ~(for > against) /\ for # against
    BY <1>11, <2>1
  <2>3. ~tied
    BY <2>2 DEF tied
  <2>. QED BY <1>4, <2>1, <2>2, <2>3
<1>17. disputed <=> (given = BOOLEAN)
  BY <1>10, <1>11
<1>18. (verdict.status = "judge_failed") = (given = {})
  BY <1>13, <1>14, Zenon
<1>19. verdict.disputed = (given = BOOLEAN)
  BY <1>13, <1>17, Zenon
<1>20. /\ given = {TRUE} => verdict.status = "resolved"
       /\ given = {FALSE} => verdict.status = "unresolved"
       /\ verdict.calls + verdict.failures >= n
  BY <1>12, <1>13, <1>15, <1>16, Zenon
<1>. QED BY <1>18, <1>19, <1>20, Zenon DEF Ev!PanelObeyed, verdict, given, usable, samples

(* What is summed up at place k, from the sums before it.                    *)
Part(s, f, k) ==
    IF k = 0 THEN 0 ELSE s[k - 1] + (IF k \in DOMAIN f THEN f[k] ELSE 0)
Sums(s, f, n) == s = [k \in 0..n |-> Part(s, f, k)]

\* Any number of places can be summed up.
LEMMA SumStands ==
    ASSUME NEW n \in Nat, NEW f
    PROVE  \E s : Sums(s, f, n) /\ Ev!Total(n, f) = s[n]
<1>. DEFINE bad == {k \in 0..n : ~ \E s : Sums(s, f, k)}
<1>1. bad = {}
  <2>. SUFFICES ASSUME bad # {} PROVE FALSE
    OBVIOUS
  <2>1. bad \in SUBSET Nat
    OBVIOUS
  <2>2. PICK k \in bad : \A j \in bad : k <= j
    BY <2>1, LeastOf
  <2>3. k \in 0..n /\ ~ \E s : Sums(s, f, k)
    BY <2>2
  <2>4. k # 0
    <3>. DEFINE e == [j \in 0..0 |-> 0]
    <3>1. \A j \in 0..0 : j = 0
      OBVIOUS
    <3>2. Sums(e, f, 0)
      BY <3>1, Zenon DEF Sums, Part
    <3>. HIDE DEF e
    <3>. QED BY <2>3, <3>2
  <2>5. k - 1 \in 0..n /\ ~(k <= k - 1)
    BY <2>3, <2>4
  <2>6. PICK s : Sums(s, f, k - 1)
    BY <2>2, <2>5
  <2>. DEFINE t == [j \in 0..k |-> IF j = k THEN Part(s, f, k) ELSE s[j]]
  <2>7. ASSUME NEW j \in 0..k PROVE t[j] = Part(t, f, j)
    <3>1. j # 0 => t[j - 1] = s[j - 1]
      BY <2>3
    <3>2. Part(s, f, j) = Part(t, f, j)
      <4>. HIDE DEF t
      <4>. QED BY <3>1, Zenon DEF Part
    <3>3. t[j] = Part(s, f, j)
      <4>1. CASE j = k
        BY <4>1
      <4>2. CASE j # k
        <5>1. j \in 0..(k - 1)
          BY <2>3, <4>2
        <5>2. s[j] = Part(s, f, j)
          BY <2>6, <5>1 DEF Sums
        <5>. QED BY <4>2, <5>2
      <4>. QED BY <4>1, <4>2
    <3>. QED BY <3>2, <3>3
  <2>8. t = [j \in 0..k |-> t[j]]
    OBVIOUS
  <2>. HIDE DEF t
  <2>9. Sums(t, f, k)
    BY <2>7, <2>8 DEF Sums
  <2>. QED BY <2>3, <2>9
<1>2. \E s : Sums(s, f, n)
  <2>1. n \in 0..n
    OBVIOUS
  <2>. QED BY <1>1, <2>1
<1>. DEFINE h == CHOOSE s : Sums(s, f, n)
<1>3. Sums(h, f, n)
  BY <1>2
<1>4. Ev!Total(n, f) = h[n]
  BY Zenon DEF Ev!Total, Sums, Part
<1>. HIDE DEF h
<1>. QED BY <1>3, <1>4

\* What is larger at every place sums up to more.
LEMMA TotalRises ==
    ASSUME NEW n \in Nat, NEW f, NEW g, DOMAIN f = DOMAIN g,
           \A k \in DOMAIN f : f[k] \in Int /\ g[k] \in Int /\ f[k] <= g[k]
    PROVE  Ev!Total(n, f) \in Int /\ Ev!Total(n, g) \in Int /\ Ev!Total(n, f) <= Ev!Total(n, g)
<1>1. PICK s : Sums(s, f, n) /\ Ev!Total(n, f) = s[n]
  BY SumStands
<1>2. PICK t : Sums(t, g, n) /\ Ev!Total(n, g) = t[n]
  BY SumStands
<1>3. \A k \in 0..n : s[k] = Part(s, f, k) /\ t[k] = Part(t, g, k)
  BY <1>1, <1>2 DEF Sums
<1>. DEFINE Up(k) == s[k] \in Int /\ t[k] \in Int /\ s[k] <= t[k]
            bad   == {k \in 0..n : ~Up(k)}
<1>4. bad = {}
  <2>. SUFFICES ASSUME bad # {} PROVE FALSE
    OBVIOUS
  <2>1. bad \in SUBSET Nat
    OBVIOUS
  <2>2. PICK k \in bad : \A j \in bad : k <= j
    BY <2>1, LeastOf
  <2>3. k \in 0..n /\ ~Up(k)
    BY <2>2
  <2>4. k # 0
    BY <1>3, <2>3 DEF Part
  <2>5. k - 1 \in 0..n /\ ~(k <= k - 1)
    BY <2>3, <2>4
  <2>6. Up(k - 1)
    <3>. HIDE DEF Up
    <3>. QED BY <2>2, <2>5
  <2>. DEFINE a == IF k \in DOMAIN f THEN f[k] ELSE 0
              b == IF k \in DOMAIN f THEN g[k] ELSE 0
  <2>7. s[k] = s[k - 1] + a /\ t[k] = t[k - 1] + b
    BY <1>3, <2>3, <2>4 DEF Part
  <2>8. a \in Int /\ b \in Int /\ a <= b
    OBVIOUS
  <2>. HIDE DEF a, b
  <2>. QED BY <2>3, <2>6, <2>7, <2>8
<1>5. Up(n)
  <2>1. n \in 0..n
    OBVIOUS
  <2>. HIDE DEF Up
  <2>. QED BY <1>4, <2>1
<1>. QED BY <1>1, <1>2, <1>5

(* A rubric: criteria in an order, whose weights, scale, bar and floor are   *)
(* numbers.                                                                  *)
IsRubric(rubric) ==
    /\ Len(rubric.criteria) \in Nat /\ DOMAIN rubric.criteria = 1..Len(rubric.criteria)
    /\ \A i \in DOMAIN rubric.criteria : rubric.criteria[i].weight \in Int
    /\ rubric.scale \in Nat /\ rubric.bar \in Int /\ rubric.floor \in Int /\ rubric.retries \in Nat

\* A weight is a number and does not count against its criterion.
LEMMA WeightsStand ==
    ASSUME NEW rubric, IsRubric(rubric), NEW criteria, criteria \subseteq DOMAIN rubric.criteria
    PROVE  LET w == Ev!Weights(rubric, criteria)
           IN /\ DOMAIN w = criteria /\ \A i \in criteria : w[i] \in Nat
              /\ Ev!InAll(rubric, w) \in Int
<1>. DEFINE w == Ev!Weights(rubric, criteria)
            v == [i \in criteria |-> Ev!Max({0, rubric.criteria[i].weight})]
<1>1. ASSUME NEW i \in criteria PROVE v[i] \in Nat
  <2>. DEFINE x == rubric.criteria[i].weight
              S == {0, x}
              b == IF x > 0 THEN x ELSE 0
  <2>1. x \in Int
    BY DEF IsRubric
  <2>. HIDE DEF x
  <2>2. b \in Int /\ S \in SUBSET Int /\ S # {} /\ \A j \in S : j <= b
    BY <2>1
  <2>3. 0 \in S
    OBVIOUS
  <2>. HIDE DEF S, b
  <2>4. Ev!Max(S) \in S /\ 0 <= Ev!Max(S)
    BY <2>2, <2>3, EndsOf
  <2>. DEFINE y == Ev!Max(S)
  <2>5. y \in Int /\ 0 <= y
    BY <2>2, <2>4, Zenon
  <2>. HIDE DEF y
  <2>6. y \in Nat
    BY <2>5
  <2>. QED BY <2>6 DEF S, x, y
<1>2. DOMAIN v = criteria
  OBVIOUS
<1>3. w = IF Ev!InAll(rubric, v) > 0 THEN v ELSE [i \in criteria |-> 1]
  BY Zenon DEF Ev!Weights
<1>. HIDE DEF v, w
<1>4. DOMAIN w = criteria /\ \A i \in criteria : w[i] \in Nat
  BY <1>1, <1>2, <1>3
<1>5. \A k \in DOMAIN w : w[k] \in Int /\ w[k] <= w[k]
  BY <1>4
<1>6. Ev!Total(Len(rubric.criteria), w) \in Int
  BY <1>5, TotalRises DEF IsRubric
<1>. QED BY <1>4, <1>6 DEF Ev!InAll, w

\* A product rises with a factor.
LEMMA ProductRises ==
    ASSUME NEW a \in Int, NEW b \in Int, a <= b, NEW c \in Nat
    PROVE  a * c \in Int /\ b * c \in Int /\ a * c <= b * c
<1>1. b - a \in Nat
  OBVIOUS
<1>2. (b - a) * c \in Nat
  BY <1>1
<1>3. (b - a) * c = b * c - a * c
  OBVIOUS
<1>. QED BY <1>2, <1>3

\* What clears the bar still does with a higher score.
LEMMA ClearsRises ==
    ASSUME NEW rubric, IsRubric(rubric), NEW criteria, criteria \subseteq DOMAIN rubric.criteria,
           NEW f, NEW g, \A i \in criteria : f[i] \in Int /\ g[i] \in Int /\ f[i] <= g[i],
           NEW count \in Nat, Ev!Clears(rubric, criteria, f, count)
    PROVE  Ev!Clears(rubric, criteria, g, count)
<1>. DEFINE w    == Ev!Weights(rubric, criteria)
            fw   == [i \in criteria |-> f[i] * w[i]]
            gw   == [i \in criteria |-> g[i] * w[i]]
            low  == rubric.floor * rubric.scale * count
            bar  == rubric.bar * rubric.scale * count * Ev!InAll(rubric, w)
            n    == Len(rubric.criteria)
<1>1. /\ \A i \in criteria : w[i] \in Nat
      /\ Ev!InAll(rubric, w) \in Int
  BY WeightsStand
<1>2. low \in Int /\ bar \in Int
  <2>. DEFINE t == Ev!InAll(rubric, w)
              a == rubric.floor
              b == rubric.bar
              c == rubric.scale
  <2>1. t \in Int /\ a \in Int /\ b \in Int /\ c \in Int
    BY <1>1 DEF IsRubric
  <2>. HIDE DEF t, a, b, c
  <2>2. a * c * count \in Int /\ b * c * count * t \in Int
    BY <2>1
  <2>. QED BY <2>2 DEF t, a, b, c
<1>3. /\ \A i \in criteria : f[i] * 100 >= low
      /\ Ev!Total(n, fw) * 100 >= bar
  BY Zenon DEF Ev!Clears, Ev!Overall, Ev!InAll
<1>. HIDE DEF w, low, bar
<1>4. \A k \in criteria : fw[k] \in Int /\ gw[k] \in Int /\ fw[k] <= gw[k]
  <2>. SUFFICES ASSUME NEW k \in criteria PROVE fw[k] \in Int /\ gw[k] \in Int /\ fw[k] <= gw[k]
    OBVIOUS
  <2>1. fw[k] = f[k] * w[k] /\ gw[k] = g[k] * w[k]
    OBVIOUS
  <2>2. f[k] \in Int /\ g[k] \in Int /\ f[k] <= g[k] /\ w[k] \in Nat
    BY <1>1
  <2>. HIDE DEF fw, gw
  <2>. QED BY <2>1, <2>2, ProductRises
<1>5. DOMAIN fw = criteria /\ DOMAIN gw = criteria
  OBVIOUS
<1>6. n \in Nat
  BY DEF IsRubric
<1>. HIDE DEF fw, gw, n
<1>7. Ev!Total(n, fw) \in Int /\ Ev!Total(n, gw) \in Int /\ Ev!Total(n, fw) <= Ev!Total(n, gw)
  BY <1>4, <1>5, <1>6, TotalRises
<1>8. Ev!Total(n, gw) * 100 >= bar
  BY <1>2, <1>3, <1>7
<1>9. \A i \in criteria : g[i] * 100 >= low
  BY <1>2, <1>3
<1>. QED BY <1>8, <1>9, Zenon DEF Ev!Clears, Ev!Overall, Ev!InAll, n, gw, w, low, bar

\* A number on the scale stays on it, and a higher one is not lower there.
LEMMA ClampRises ==
    ASSUME NEW v \in Int, NEW top \in Nat
    PROVE  /\ Ev!Clamp(v, top) \in Nat
           /\ \A u \in Int : v <= u => Ev!Clamp(v, top) <= Ev!Clamp(u, top)
<1>. DEFINE Most(u)  == IF u > 0 THEN u ELSE 0
            Least(u) == IF Most(u) < top THEN Most(u) ELSE top
<1>1. ASSUME NEW u \in Int PROVE Ev!Clamp(u, top) = Least(u)
  <2>. DEFINE S == {u, 0}
              b == Most(u)
  <2>1. b \in Int /\ S \in SUBSET Int /\ S # {} /\ \A j \in S : j <= b
    OBVIOUS
  <2>2. Ev!Max(S) \in S /\ u <= Ev!Max(S) /\ 0 <= Ev!Max(S)
    <3>1. u \in S /\ 0 \in S
      OBVIOUS
    <3>. HIDE DEF S, b
    <3>. QED BY <2>1, <3>1, EndsOf
  <2>3. Ev!Max(S) = Most(u)
    BY <2>2
  <2>. DEFINE m == Most(u)
              T == {m, top}
  <2>4. m \in Nat
    OBVIOUS
  <2>. HIDE DEF m
  <2>5. T \in SUBSET Nat /\ T # {} /\ m \in T /\ top \in T
    BY <2>4
  <2>6. Ev!Min(T) \in T /\ Ev!Min(T) <= m /\ Ev!Min(T) <= top
    <3>. HIDE DEF T
    <3>. QED BY <2>5, EndsOf
  <2>7. Ev!Min(T) = IF m < top THEN m ELSE top
    BY <2>4, <2>6
  <2>8. Ev!Clamp(u, top) = Ev!Min(T)
    BY <2>3, Zenon DEF Ev!Clamp, m
  <2>. QED BY <2>7, <2>8 DEF m
<1>. QED BY <1>1

(* What a call may come to: the numbers of a reply, none of which would be   *)
(* taken for a missing one if it were one higher.                            *)
IsReply(r) ==
    /\ {"is", "of"} \subseteq DOMAIN r
    /\ \A name \in DOMAIN r.of : r.of[name] \in Int /\ r.of[name] + 1 # Ev!NoNumber
IsMember(member) ==
    /\ Len(member) \in Nat /\ DOMAIN member = 1..Len(member)
    /\ \A k \in DOMAIN member : IsReply(member[k])
IsPanel(panel) ==
    /\ Len(panel) \in Nat /\ DOMAIN panel = 1..Len(panel)
    /\ \A m \in DOMAIN panel : IsMember(panel[m])

Higher(r, name)             == [r EXCEPT !.of[name] = @ + 1]
HigherAt(member, k, name)   == [member EXCEPT ![k].of[name] = @ + 1]

\* A reply that names its scores still does when one of them is higher, and
\* none of them falls.
LEMMA ReplyRises ==
    ASSUME NEW rubric, IsRubric(rubric), NEW criteria, criteria \subseteq DOMAIN rubric.criteria,
           NEW r, IsReply(r), Ev!Parses(r, rubric, criteria), NEW name
    PROVE  /\ Ev!Parses(Higher(r, name), rubric, criteria)
           /\ \A i \in criteria :
                /\ Ev!ParseScores(r, rubric, criteria)[i] \in Int
                /\ Ev!ParseScores(Higher(r, name), rubric, criteria)[i] \in Int
                /\ Ev!ParseScores(r, rubric, criteria)[i]
                     <= Ev!ParseScores(Higher(r, name), rubric, criteria)[i]
<1>. DEFINE q   == Higher(r, name)
            old == r.of
            new == [old EXCEPT ![name] = old[name] + 1]
            p(i) == rubric.criteria[i].name
<1>1. q.is = r.is /\ q.of = new
  BY Zenon DEF IsReply, Higher
<1>2. r.is = "scores" /\ \A i \in criteria : p(i) \in DOMAIN old /\ old[p(i)] # Ev!NoNumber
  BY Zenon DEF Ev!Parses
<1>3. \A x \in DOMAIN old : old[x] \in Int /\ old[x] + 1 # Ev!NoNumber
  BY DEF IsReply
<1>. HIDE DEF q, p, old
<1>4. DOMAIN new = DOMAIN old
  OBVIOUS
<1>5. \A x \in DOMAIN old : new[x] = IF x = name THEN old[x] + 1 ELSE old[x]
  OBVIOUS
<1>. HIDE DEF new
<1>6. ASSUME NEW i \in criteria
      PROVE  /\ p(i) \in DOMAIN new /\ new[p(i)] # Ev!NoNumber
             /\ old[p(i)] \in Int /\ new[p(i)] \in Int /\ old[p(i)] <= new[p(i)]
  <2>. DEFINE x == p(i)
              a == Ev!NoNumber
  <2>1. x \in DOMAIN old /\ old[x] # a
    BY <1>2
  <2>2. old[x] \in Int /\ old[x] + 1 # a
    BY <1>3, <2>1
  <2>3. new[x] = IF x = name THEN old[x] + 1 ELSE old[x]
    BY <1>5, <2>1
  <2>. HIDE DEF x, a
  <2>4. x \in DOMAIN new /\ new[x] # a /\ old[x] \in Int /\ new[x] \in Int /\ old[x] <= new[x]
    BY <1>4, <2>1, <2>2, <2>3
  <2>. QED BY <2>4 DEF x, a
<1>7. Ev!Parses(q, rubric, criteria)
  <2>1. q.is = "scores"
    BY <1>1, <1>2
  <2>2. \A i \in criteria : rubric.criteria[i].name \in DOMAIN q.of /\ q.of[rubric.criteria[i].name] # Ev!NoNumber
    BY <1>1, <1>6, Zenon DEF p
  <2>. QED BY <2>1, <2>2, Zenon DEF Ev!Parses
<1>8. ASSUME NEW i \in criteria
      PROVE  /\ Ev!ParseScores(r, rubric, criteria)[i] \in Int
             /\ Ev!ParseScores(q, rubric, criteria)[i] \in Int
             /\ Ev!ParseScores(r, rubric, criteria)[i] <= Ev!ParseScores(q, rubric, criteria)[i]
  <2>. DEFINE v == old[p(i)]
              u == new[p(i)]
              t == rubric.scale
  <2>1. v \in Int /\ u \in Int /\ v <= u /\ t \in Nat
    BY <1>6 DEF IsRubric
  <2>2. Ev!ParseScores(r, rubric, criteria)[i] = Ev!Clamp(v, t)
    BY Zenon DEF Ev!ParseScores, old, p
  <2>3. Ev!ParseScores(q, rubric, criteria)[i] = Ev!Clamp(u, t)
    BY <1>1, Zenon DEF Ev!ParseScores, p
  <2>. HIDE DEF u, v, t
  <2>4. Ev!Clamp(v, t) \in Nat /\ Ev!Clamp(u, t) \in Nat /\ Ev!Clamp(v, t) <= Ev!Clamp(u, t)
    BY <2>1, ClampRises
  <2>. QED BY <2>2, <2>3, <2>4
<1>. QED BY <1>7, <1>8 DEF q

\* A member whose call scores one more still answers in that call.
LEMMA AskedStays ==
    ASSUME NEW member, IsMember(member), NEW retries, NEW k \in DOMAIN member, NEW name
    PROVE  /\ Ev!Asked(HigherAt(member, k, name), retries) = Ev!Asked(member, retries)
           /\ HigherAt(member, k, name)[k] = Higher(member[k], name)
<1>. DEFINE n   == Len(member)
            new == HigherAt(member, k, name)
            S(x) == {j \in 1..n : j <= retries + 1 /\ x[j].is # "down"}
<1>1. n \in Nat /\ DOMAIN member = 1..n
  BY Zenon DEF IsMember
<1>2. new[k] = Higher(member[k], name)
  BY Zenon DEF HigherAt, Higher
<1>3. DOMAIN new = DOMAIN member
  BY DEF HigherAt
<1>4. \A j \in 1..n : new[j].is = member[j].is
  <2>. SUFFICES ASSUME NEW j \in 1..n PROVE new[j].is = member[j].is
    OBVIOUS
  <2>1. CASE j = k
    <3>1. IsReply(member[k])
      BY DEF IsMember
    <3>. QED BY <1>2, <2>1, <3>1, Zenon DEF Higher, IsReply
  <2>2. CASE j # k
    <3>1. new[j] = member[j]
      BY <1>1, <2>2, Zenon DEF HigherAt
    <3>. QED BY <3>1
  <2>. QED BY <2>1, <2>2
<1>5. Len(new) = n
  <2>. DEFINE T == {new[j] : j \in 1..n}
  <2>1. new = [j \in 1..n |-> new[j]]
    BY <1>1, Zenon DEF HigherAt
  <2>. HIDE DEF new
  <2>2. new \in [1..n -> T]
    BY <2>1
  <2>. HIDE DEF T, n
  <2>. QED BY <1>1, <2>2
<1>6. S(new) = S(member)
  BY <1>4
<1>. HIDE DEF S
<1>7. /\ Ev!Asked(member, retries) = IF S(member) = {} THEN 0 ELSE Ev!Min(S(member))
      /\ Ev!Asked(new, retries) = IF S(new) = {} THEN 0 ELSE Ev!Min(S(new))
  BY <1>5, Zenon DEF Ev!Asked, S
<1>. QED BY <1>2, <1>6, <1>7 DEF new

(* Of two samples of a member, the second is no worse than the first.        *)
NoWorse(s, t, criteria) ==
    /\ s.ok = t.ok
    /\ s.ok => /\ s.resolved => t.resolved
               /\ \A i \in criteria : /\ s.scores[i] \in Int /\ t.scores[i] \in Int
                                      /\ s.scores[i] <= t.scores[i]

\* What a sample is made of.
LEMMA SampleIs ==
    ASSUME NEW member, NEW rubric, NEW criteria, NEW k, k = Ev!Asked(member, rubric.retries)
    PROVE  LET ok     == k # 0 /\ Ev!Parses(member[k], rubric, criteria)
               scores == Ev!ParseScores(member[k], rubric, criteria)
               s      == Ev!Sample(member, rubric, criteria)
           IN /\ s.ok <=> ok
              /\ s.ok \in BOOLEAN
              /\ ok => s.scores = scores
              /\ s.resolved <=> (ok /\ Ev!Clears(rubric, criteria, scores, 1))
<1>. DEFINE ok     == k # 0 /\ Ev!Parses(member[k], rubric, criteria)
            scores == Ev!ParseScores(member[k], rubric, criteria)
            given  == IF ok THEN scores ELSE <<>>
            clears == Ev!Clears(rubric, criteria, given, 1)
            yes    == ok /\ clears
            called == k # 0
            s      == Ev!Sample(member, rubric, criteria)
<1>1. s = [ok |-> ok, called |-> called, scores |-> given, resolved |-> yes]
  BY Zenon DEF Ev!Sample
<1>2. ok \in BOOLEAN
  BY Zenon
<1>3. ok => given = scores
  BY Zenon
<1>. HIDE DEF s, ok, yes, called, given, scores
<1>4. s.ok = ok /\ s.scores = given /\ s.resolved = yes
  BY <1>1, Zenon
<1>5. yes <=> (ok /\ Ev!Clears(rubric, criteria, scores, 1))
  BY <1>3, Zenon DEF yes
<1>. QED BY <1>2, <1>3, <1>4, <1>5, Zenon DEF s, ok, scores

\* What a sample scores is a number, so that a sample is no worse than itself.
LEMMA SampleScores ==
    ASSUME NEW rubric, IsRubric(rubric), NEW criteria, criteria \subseteq DOMAIN rubric.criteria,
           NEW member, IsMember(member)
    PROVE  LET s == Ev!Sample(member, rubric, criteria)
               k == Ev!Asked(member, rubric.retries)
           IN NoWorse(s, s, criteria) /\ (s.ok => k \in DOMAIN member)
<1>. DEFINE s      == Ev!Sample(member, rubric, criteria)
            k      == Ev!Asked(member, rubric.retries)
            ok     == k # 0 /\ Ev!Parses(member[k], rubric, criteria)
            scores == Ev!ParseScores(member[k], rubric, criteria)
            n      == Len(member)
            S      == {j \in 1..n : j <= rubric.retries + 1 /\ member[j].is # "down"}
<1>1. (s.ok <=> ok) /\ s.ok \in BOOLEAN /\ (ok => s.scores = scores)
  BY SampleIs
<1>2. k # 0 => k \in DOMAIN member
  <2>1. k = IF S = {} THEN 0 ELSE Ev!Min(S)
    BY Zenon DEF Ev!Asked
  <2>2. n \in Nat /\ DOMAIN member = 1..n
    BY DEF IsMember
  <2>3. S \in SUBSET Nat /\ S \subseteq 1..n
    OBVIOUS
  <2>. HIDE DEF S, k, n
  <2>4. S # {} => Ev!Min(S) \in S
    BY <2>3, EndsOf
  <2>. QED BY <2>1, <2>2, <2>3, <2>4
<1>3. ASSUME ok, NEW i \in criteria PROVE scores[i] \in Int /\ scores[i] <= scores[i]
  <2>1. IsReply(member[k])
    BY <1>2, <1>3 DEF IsMember
  <2>2. Ev!Parses(member[k], rubric, criteria)
    BY <1>3
  <2>. DEFINE r == member[k]
  <2>3. IsReply(r) /\ Ev!Parses(r, rubric, criteria)
    BY <2>1, <2>2
  <2>. HIDE DEF r
  <2>4. Ev!ParseScores(r, rubric, criteria)[i] \in Int
    BY <2>3, ReplyRises
  <2>. DEFINE x == scores[i]
  <2>5. x \in Int
    BY <2>4 DEF r
  <2>. HIDE DEF x
  <2>6. x <= x
    BY <2>5
  <2>. QED BY <2>5, <2>6 DEF x
<1>. HIDE DEF s, k, ok, scores
<1>4. NoWorse(s, s, criteria)
  BY <1>1, <1>3 DEF NoWorse
<1>5. s.ok => k \in DOMAIN member
  BY <1>1, <1>2 DEF ok
<1>. QED BY <1>4, <1>5 DEF s, k

\* A member that scores one more is no worse for it.
LEMMA SampleRises ==
    ASSUME NEW rubric, IsRubric(rubric), NEW criteria, criteria \subseteq DOMAIN rubric.criteria,
           NEW member, IsMember(member), Ev!Sample(member, rubric, criteria).ok,
           NEW k, k = Ev!Asked(member, rubric.retries), NEW name
    PROVE  NoWorse(Ev!Sample(member, rubric, criteria),
                   Ev!Sample(HigherAt(member, k, name), rubric, criteria), criteria)
<1>. DEFINE new == HigherAt(member, k, name)
            s   == Ev!Sample(member, rubric, criteria)
            t   == Ev!Sample(new, rubric, criteria)
            a   == Ev!ParseScores(member[k], rubric, criteria)
            b   == Ev!ParseScores(new[k], rubric, criteria)
<1>1. k # 0 /\ Ev!Parses(member[k], rubric, criteria) /\ s.ok \in BOOLEAN /\ s.scores = a
      /\ (s.resolved <=> Ev!Clears(rubric, criteria, a, 1))
  BY SampleIs
<1>2. k \in DOMAIN member
  BY SampleScores
<1>3. Ev!Asked(new, rubric.retries) = k /\ new[k] = Higher(member[k], name)
  BY <1>2, AskedStays
<1>4. IsReply(member[k])
  BY <1>2 DEF IsMember
<1>5. /\ Ev!Parses(new[k], rubric, criteria)
      /\ \A i \in criteria : a[i] \in Int /\ b[i] \in Int /\ a[i] <= b[i]
  BY <1>1, <1>3, <1>4, ReplyRises
<1>6. t.ok \in BOOLEAN /\ (t.ok <=> (k # 0 /\ Ev!Parses(new[k], rubric, criteria)))
      /\ ((k # 0 /\ Ev!Parses(new[k], rubric, criteria)) => t.scores = b)
      /\ (t.resolved <=> (k # 0 /\ Ev!Parses(new[k], rubric, criteria) /\ Ev!Clears(rubric, criteria, b, 1)))
  <2>. HIDE DEF new
  <2>. QED BY <1>3, SampleIs
<1>. HIDE DEF a, b, s, t, new
<1>7. Ev!Clears(rubric, criteria, a, 1) => Ev!Clears(rubric, criteria, b, 1)
  BY <1>5, ClearsRises
<1>8. t.ok /\ t.scores = b /\ (t.resolved <=> Ev!Clears(rubric, criteria, b, 1))
  BY <1>1, <1>5, <1>6, Zenon
<1>9. s.ok /\ s.ok = t.ok
  BY <1>1, <1>6, <1>8, Zenon DEF s
<1>10. s.resolved => t.resolved
  BY <1>1, <1>7, <1>8, Zenon
<1>11. NoWorse(s, t, criteria)
  BY <1>1, <1>5, <1>8, <1>9, <1>10 DEF NoWorse
<1>. QED BY <1>11 DEF s, t, new

SamplesOf(rubric, criteria, panel) ==
    [m \in DOMAIN panel |-> Ev!Sample(panel[m], rubric, criteria)]
Usable(samples)        == {m \in DOMAIN samples : samples[m].ok}
ForIt(samples)         == {m \in DOMAIN samples : samples[m].ok /\ samples[m].resolved}
AgainstIt(samples)     == {m \in DOMAIN samples : samples[m].ok /\ ~ samples[m].resolved}
ScoreOf(samples, i)    == [m \in Usable(samples) |-> samples[m].scores[i]]
SumsOf(samples, n, criteria) == [i \in criteria |-> Ev!Total(n, ScoreOf(samples, i))]
Tied(rubric, criteria, n, samples) ==
    /\ Ev!Cardinality(ForIt(samples)) = Ev!Cardinality(AgainstIt(samples)) /\ rubric.tie = "score"
    /\ Ev!Clears(rubric, criteria, SumsOf(samples, n, criteria), Ev!Cardinality(Usable(samples)))
Wins(rubric, criteria, n, samples) ==
    /\ Usable(samples) # {}
    /\ \/ Ev!Cardinality(ForIt(samples)) > Ev!Cardinality(AgainstIt(samples))
       \/ Tied(rubric, criteria, n, samples)

\* An answer is resolved when its samples win.
LEMMA ResolvedWhen ==
    ASSUME NEW rubric, NEW expectation, NEW panel
    PROVE  (Ev!Judge(rubric, expectation, TRUE, panel).status = "resolved")
             <=> Wins(rubric, Ev!Applicable(rubric, expectation), Len(panel),
                      SamplesOf(rubric, Ev!Applicable(rubric, expectation), panel))
<1>. DEFINE criteria == Ev!Applicable(rubric, expectation)
            samples  == SamplesOf(rubric, criteria, panel)
            for      == Ev!Cardinality(ForIt(samples))
            against  == Ev!Cardinality(AgainstIt(samples))
            resolved == for > against \/ Tied(rubric, criteria, Len(panel), samples)
            status   == IF Usable(samples) = {} THEN "judge_failed"
                        ELSE IF resolved THEN "resolved" ELSE "unresolved"
            calls    == Ev!Cardinality({m \in DOMAIN samples : samples[m].called})
            failures == Len(samples) - Ev!Cardinality(Usable(samples))
            disputed == for > 0 /\ against > 0
            verdict  == Ev!Judge(rubric, expectation, TRUE, panel)
<1>1. verdict = [status |-> status, calls |-> calls, failures |-> failures, disputed |-> disputed]
  BY Zenon DEF Ev!Judge, Ev!Votes, SamplesOf, Usable, ForIt, AgainstIt, Tied, SumsOf, ScoreOf
<1>2. verdict.status = status
  <2>. DEFINE di == disputed
              st == status
  <2>1. verdict = [status |-> st, calls |-> calls, failures |-> failures, disputed |-> di]
    BY <1>1
  <2>. HIDE DEF st, di, calls, failures, verdict
  <2>2. verdict.status = st
    BY <2>1, Zenon
  <2>. QED BY <2>2 DEF st
<1>3. Wins(rubric, criteria, Len(panel), samples) <=> (Usable(samples) # {} /\ resolved)
  BY Zenon DEF Wins
<1>4. (status = "resolved") <=> (Usable(samples) # {} /\ resolved)
  <2>. HIDE DEF resolved, samples
  <2>. QED OBVIOUS
<1>5. (verdict.status = "resolved") <=> Wins(rubric, criteria, Len(panel), samples)
  <2>. HIDE DEF resolved, samples, status, verdict
  <2>. QED BY <1>2, <1>3, <1>4
<1>. QED BY <1>5

\* Samples that win still do when each is no worse.
LEMMA WinsRises ==
    ASSUME NEW rubric, IsRubric(rubric), NEW criteria, criteria \subseteq DOMAIN rubric.criteria,
           NEW n \in Nat, NEW s, NEW t, DOMAIN s = 1..n, DOMAIN t = 1..n,
           \A m \in 1..n : IsSample(s[m]) /\ IsSample(t[m]) /\ NoWorse(s[m], t[m], criteria),
           Wins(rubric, criteria, n, s)
    PROVE  Wins(rubric, criteria, n, t)
<1>. DEFINE U  == Usable(s)
            F  == ForIt(s)
            A  == AgainstIt(s)
            F2 == ForIt(t)
            A2 == AgainstIt(t)
            C(S) == Ev!Cardinality(S)
<1>1. Usable(t) = U
  BY DEF Usable, NoWorse
<1>2. F \subseteq F2 /\ A2 \subseteq A
  BY DEF ForIt, AgainstIt, NoWorse, IsSample
<1>3. U \subseteq 1..n /\ F2 \subseteq 1..n /\ A \subseteq 1..n /\ F \subseteq 1..n /\ A2 \subseteq 1..n
  BY DEF Usable, ForIt, AgainstIt
<1>4. /\ C(F) \in Nat /\ C(A) \in Nat /\ C(F2) \in Nat /\ C(A2) \in Nat /\ C(U) \in Nat
      /\ C(F) <= C(F2) /\ C(A2) <= C(A)
  BY <1>2, <1>3, PlacesCounted
<1>5. U # {}
  BY Zenon DEF Wins
<1>6. CASE C(F2) > C(A2)
  BY <1>1, <1>5, <1>6, Zenon DEF Wins
<1>7. CASE ~(C(F2) > C(A2))
  <2>. DEFINE a == SumsOf(s, n, criteria)
              b == SumsOf(t, n, criteria)
  <2>1. C(F) > C(A) \/ Tied(rubric, criteria, n, s)
    BY Zenon DEF Wins
  <2>2. ~(C(F) > C(A)) /\ (C(F) = C(A) => C(F2) = C(A2))
    <3>. HIDE DEF C
    <3>. QED BY <1>4, <1>7
  <2>3. C(F) = C(A) /\ rubric.tie = "score" /\ Ev!Clears(rubric, criteria, a, C(U))
    BY <2>1, <2>2, Zenon DEF Tied
  <2>4. ASSUME NEW i \in criteria PROVE a[i] \in Int /\ b[i] \in Int /\ a[i] <= b[i]
    <3>. DEFINE f == ScoreOf(s, i)
                g == ScoreOf(t, i)
    <3>1. DOMAIN f = U /\ DOMAIN g = U
      BY <1>1, Zenon DEF ScoreOf
    <3>2. \A m \in U : f[m] = s[m].scores[i] /\ g[m] = t[m].scores[i]
      BY <1>1 DEF ScoreOf
    <3>3. \A m \in U : f[m] \in Int /\ g[m] \in Int /\ f[m] <= g[m]
      <4>. SUFFICES ASSUME NEW m \in U PROVE f[m] \in Int /\ g[m] \in Int /\ f[m] <= g[m]
        OBVIOUS
      <4>1. s[m].ok /\ m \in 1..n
        BY <1>3 DEF Usable
      <4>. DEFINE x == s[m].scores[i]
                  y == t[m].scores[i]
      <4>2. x \in Int /\ y \in Int /\ x <= y
        BY <4>1 DEF NoWorse
      <4>3. f[m] = x /\ g[m] = y
        BY <3>2
      <4>. HIDE DEF x, y, f, g
      <4>. QED BY <4>2, <4>3
    <3>4. a[i] = Ev!Total(n, f) /\ b[i] = Ev!Total(n, g)
      BY Zenon DEF SumsOf
    <3>. HIDE DEF f, g, a, b
    <3>5. Ev!Total(n, f) \in Int /\ Ev!Total(n, g) \in Int /\ Ev!Total(n, f) <= Ev!Total(n, g)
      BY <3>1, <3>3, TotalRises
    <3>. QED BY <3>4, <3>5
  <2>. HIDE DEF a, b
  <2>5. Ev!Clears(rubric, criteria, b, C(U))
    <3>. DEFINE c == C(U)
    <3>1. c \in Nat /\ Ev!Clears(rubric, criteria, a, c)
      BY <1>4, <2>3
    <3>. HIDE DEF c
    <3>2. Ev!Clears(rubric, criteria, b, c)
      BY <2>4, <3>1, ClearsRises
    <3>. QED BY <3>2 DEF c
  <2>6. Tied(rubric, criteria, n, t)
    BY <1>1, <2>2, <2>3, <2>5, Zenon DEF Tied, b
  <2>. QED BY <1>1, <1>5, <2>6, Zenon DEF Wins
<1>. QED BY <1>6, <1>7

\* A higher score never costs an answer its verdict (RubricJudge.judge), for any
\* rubric and panel.
THEOREM VerdictAlwaysMonotone ==
    ASSUME NEW rubric, IsRubric(rubric), NEW expectation, NEW panel, IsPanel(panel)
    PROVE  Ev!VerdictMonotone(rubric, expectation, panel)
<1>. DEFINE n           == Len(panel)
            criteria    == Ev!Applicable(rubric, expectation)
            resolved(p) == Ev!Judge(rubric, expectation, TRUE, p).status = "resolved"
            sample(x)   == Ev!Sample(x, rubric, criteria)
            k(m)        == Ev!Asked(panel[m], rubric.retries)
<1>1. criteria \subseteq DOMAIN rubric.criteria
  BY Zenon DEF Ev!Applicable
<1>2. n \in Nat /\ DOMAIN panel = 1..n
  BY Zenon DEF IsPanel
<1>3. ASSUME resolved(panel), NEW m \in DOMAIN panel, sample(panel[m]).ok, NEW name
      PROVE  resolved(Ev!Raised(panel, m, k(m), name))
  <2>. DEFINE p == Ev!Raised(panel, m, k(m), name)
              s == SamplesOf(rubric, criteria, panel)
              t == SamplesOf(rubric, criteria, p)
  <2>1. IsMember(panel[m])
    BY DEF IsPanel
  <2>2. DOMAIN p = 1..n
    BY <1>2, Zenon DEF Ev!Raised
  <2>3. p[m] = HigherAt(panel[m], k(m), name)
    BY Zenon DEF Ev!Raised, HigherAt
  <2>4. \A j \in DOMAIN panel : j # m => p[j] = panel[j]
    BY Zenon DEF Ev!Raised
  <2>5. Len(p) = n
    <3>. DEFINE T == {p[j] : j \in 1..n}
    <3>1. p = [j \in 1..n |-> p[j]]
      BY <1>2, Zenon DEF Ev!Raised
    <3>. HIDE DEF p
    <3>2. p \in [1..n -> T]
      BY <3>1
    <3>. HIDE DEF T, n
    <3>. QED BY <1>2, <3>2
  <2>. HIDE DEF p
  <2>6. DOMAIN s = 1..n /\ DOMAIN t = 1..n
    BY <1>2, <2>2, Zenon DEF SamplesOf
  <2>7. \A j \in 1..n : s[j] = sample(panel[j]) /\ t[j] = sample(p[j])
    BY <1>2, <2>2, Zenon DEF SamplesOf
  <2>8. ASSUME NEW j \in 1..n
        PROVE  IsSample(s[j]) /\ IsSample(t[j]) /\ NoWorse(s[j], t[j], criteria)
    <3>1. IsSample(sample(panel[j])) /\ IsSample(sample(p[j]))
      <4>. HIDE DEF criteria
      <4>. QED BY SampleVotes
    <3>2. NoWorse(sample(panel[j]), sample(p[j]), criteria)
      <4>1. CASE j = m
        <5>. DEFINE q == k(m)
        <5>1. q = Ev!Asked(panel[m], rubric.retries)
          OBVIOUS
        <5>2. p[m] = HigherAt(panel[m], q, name)
          BY <2>3
        <5>. HIDE DEF criteria, q
        <5>3. NoWorse(sample(panel[m]), sample(HigherAt(panel[m], q, name)), criteria)
          BY <1>1, <1>3, <2>1, <5>1, SampleRises
        <5>. QED BY <4>1, <5>2, <5>3
      <4>2. CASE j # m
        <5>1. p[j] = panel[j] /\ IsMember(panel[j])
          BY <1>2, <2>4, <4>2 DEF IsPanel
        <5>. HIDE DEF criteria
        <5>2. NoWorse(sample(panel[j]), sample(panel[j]), criteria)
          BY <1>1, <5>1, SampleScores
        <5>. QED BY <5>1, <5>2
      <4>. QED BY <4>1, <4>2
    <3>. HIDE DEF s, t, sample
    <3>. QED BY <2>7, <3>1, <3>2
  <2>9. Wins(rubric, criteria, n, s)
    BY <1>3, ResolvedWhen
  <2>. HIDE DEF s, t, n, criteria
  <2>10. Wins(rubric, criteria, n, t)
    BY <1>1, <1>2, <2>6, <2>8, <2>9, WinsRises
  <2>11. resolved(p) <=> Wins(rubric, criteria, Len(p), t)
    BY ResolvedWhen DEF t, criteria
  <2>12. resolved(p)
    BY <2>5, <2>10, <2>11
  <2>. QED BY <2>12 DEF p
<1>4. resolved(panel) =>
        \A m \in DOMAIN panel : sample(panel[m]).ok =>
          \A i \in criteria : resolved(Ev!Raised(panel, m, k(m), rubric.criteria[i].name))
  BY <1>3, Zenon
<1>. QED BY <1>4, Zenon DEF Ev!VerdictMonotone

\* A choice of at most n things out of S is a sequence of them.
LEMMA UpToIs ==
    ASSUME NEW S, NEW n \in Nat, NEW s \in UpTo(S, n)
    PROVE  Len(s) \in Nat /\ DOMAIN s = 1..Len(s) /\ \A i \in DOMAIN s : s[i] \in S
<1>1. PICK k \in 0..n : s \in [1..k -> S]
  BY DEF UpTo
<1>2. k \in Nat /\ Len(s) = k
  BY <1>1
<1>. QED BY <1>1, <1>2

\* The members of a run's panels are members of panels.
LEMMA MembersStand == ASSUME NEW member \in Members PROVE IsMember(member)
<1>1. ASSUME NEW of, \A name \in DOMAIN of : of[name] \in Int /\ of[name] + 1 # Ev!NoNumber, NEW is
      PROVE  IsReply([is |-> is, of |-> of])
  <2>. DEFINE r == [is |-> is, of |-> of]
  <2>1. r.of = of /\ DOMAIN r = {"is", "of"}
    OBVIOUS
  <2>. HIDE DEF r
  <2>2. IsReply(r)
    BY <1>1, <2>1 DEF IsReply
  <2>. QED BY <2>2 DEF r
<1>2. IsReply(Down) /\ IsReply([is |-> "prose", of |-> <<>>])
  <2>. DEFINE of == <<>>
  <2>1. \A name \in DOMAIN of : of[name] \in Int /\ of[name] + 1 # Ev!NoNumber
    OBVIOUS
  <2>. HIDE DEF of
  <2>2. \A is : IsReply([is |-> is, of |-> of])
    BY <1>1, <2>1
  <2>. QED BY <2>2 DEF Down, of
<1>3. ASSUME NEW s \in Int, NEW m \in Int, s + 1 # Ev!NoNumber, m + 1 # Ev!NoNumber
      PROVE  IsReply(Reply([sound |-> s, meets |-> m]))
  <2>. DEFINE of == [sound |-> s, meets |-> m]
  <2>1. \A name \in DOMAIN of : of[name] \in Int /\ of[name] + 1 # Ev!NoNumber
    BY <1>3
  <2>. HIDE DEF of
  <2>2. IsReply([is |-> "scores", of |-> of])
    BY <1>1, <2>1
  <2>. QED BY <2>2 DEF Reply, of
<1>4. IsReply(Reply([sound |-> 2]))
  <2>. DEFINE of == [sound |-> 2]
  <2>1. \A name \in DOMAIN of : of[name] \in Int /\ of[name] + 1 # Ev!NoNumber
    BY DEF Ev!NoNumber
  <2>. HIDE DEF of
  <2>2. IsReply([is |-> "scores", of |-> of])
    BY <1>1, <2>1
  <2>. QED BY <2>2 DEF Reply, of
<1>5. Ev!NoNumber = -99
  BY DEF Ev!NoNumber
<1>6. ASSUME NEW r \in Replies PROVE IsReply(r)
  <2>1. \A s \in {0, 1, 2, 3}, m \in {0, 2} : IsReply(Reply([sound |-> s, meets |-> m]))
    <3>. SUFFICES ASSUME NEW s \in {0, 1, 2, 3}, NEW m \in {0, 2}
                  PROVE  IsReply(Reply([sound |-> s, meets |-> m]))
      OBVIOUS
    <3>1. s \in Int /\ m \in Int /\ s + 1 # Ev!NoNumber /\ m + 1 # Ev!NoNumber
      BY <1>5
    <3>. QED BY <1>3, <3>1
  <2>2. IsReply(Reply([sound |-> Ev!NoNumber, meets |-> 1]))
    <3>. DEFINE a == Ev!NoNumber
                b == 1
    <3>1. a \in Int /\ b \in Int /\ a + 1 # Ev!NoNumber /\ b + 1 # Ev!NoNumber
      BY <1>5
    <3>. HIDE DEF a, b
    <3>2. IsReply(Reply([sound |-> a, meets |-> b]))
      BY <1>3, <3>1
    <3>. QED BY <3>2 DEF a, b
  <2>. DEFINE F(s, m) == Reply([sound |-> s, meets |-> m])
              a == Reply([sound |-> 2])
              b == Reply([sound |-> Ev!NoNumber, meets |-> 1])
              c == [is |-> "prose", of |-> <<>>]
              A == {0, 1, 2, 3}
              B == {0, 2}
  <2>3. r \in {F(s, m) : s \in A, m \in B} \/ r \in {a, b, c}
    BY DEF Replies
  <2>4. (\A s \in A, m \in B : IsReply(F(s, m))) /\ IsReply(a) /\ IsReply(b) /\ IsReply(c)
    BY <1>2, <1>4, <2>1, <2>2
  <2>. HIDE DEF F, a, b, c, A, B
  <2>5. \/ \E s \in A, m \in B : r = F(s, m)
        \/ r = a \/ r = b \/ r = c
    BY <2>3
  <2>. QED BY <2>4, <2>5
<1>7. ASSUME NEW r, IsReply(r) PROVE IsMember(<<r>>)
  <2>. DEFINE q == <<r>>
  <2>1. Len(q) = 1 /\ DOMAIN q = 1..1 /\ q[1] = r
    OBVIOUS
  <2>2. \A k \in 1..1 : k = 1
    OBVIOUS
  <2>. HIDE DEF q
  <2>3. IsMember(q)
    BY <1>7, <2>1, <2>2 DEF IsMember
  <2>. QED BY <2>3 DEF q
<1>8. ASSUME NEW r, IsReply(r) PROVE IsMember(<<Down, r>>)
  <2>. DEFINE d == Down
              q == <<d, r>>
  <2>1. Len(q) = 2 /\ DOMAIN q = 1..2 /\ q[1] = d /\ q[2] = r
    <3>. HIDE DEF d
    <3>. QED OBVIOUS
  <2>2. \A k \in 1..2 : k = 1 \/ k = 2
    OBVIOUS
  <2>3. IsReply(d)
    BY <1>2
  <2>. HIDE DEF q, d
  <2>4. IsMember(q)
    BY <1>8, <2>1, <2>2, <2>3 DEF IsMember
  <2>. QED BY <2>4 DEF q, d
<1>9. IsReply(Reply([sound |-> 2, meets |-> 2]))
  <2>. DEFINE a == 2
  <2>1. a \in Int /\ a + 1 # Ev!NoNumber
    BY <1>5
  <2>. HIDE DEF a
  <2>2. IsReply(Reply([sound |-> a, meets |-> a]))
    BY <1>3, <2>1
  <2>. QED BY <2>2 DEF a
<1>10. \/ \E r \in Replies : member = <<r>>
       \/ member = <<Down, Down>>
       \/ member = <<Down, Reply([sound |-> 2, meets |-> 2])>>
  BY Zenon DEF Members
<1>. QED BY <1>2, <1>6, <1>7, <1>8, <1>9, <1>10, Zenon

(* What the run judges and sweeps.                                           *)
EvalsInput ==
    /\ case.alg = "verdict" => IsRubric(case.rubric) /\ IsPanel(case.panel)
    /\ case.alg = "sweep" => /\ IsScored(case.records, 3)
                             /\ case.low \in Int /\ case.low <= 3 /\ case.step \in Nat /\ case.step > 0

(* Every input the run picks, and by the theorems above any other: a panel's *)
(* verdict is its own and monotone, a recommended threshold is a safe one if *)
(* there is any (RubricJudge.judge, best_operating).                         *)
THEOREM EvalsAlwaysStand == Spec => []EvalsStand
<1>1. Init => EvalsInput
  BY DEF Init, NoCase, EvalsInput
<1>2. EvalsInput /\ [Next]_case => EvalsInput'
  <2>1. ASSUME PickVerdict PROVE EvalsInput'
    <3>. DEFINE rub(floor, tie) == [criteria |-> Criteria, scale |-> 2, bar |-> 75, floor |-> floor,
                                    tie |-> tie, retries |-> 1]
    <3>1. PICK tie \in {"score", "unresolved"}, floor \in {0, 50}, e \in BOOLEAN,
               p \in UpTo(Members, 3) \ {<<>>} :
             case' = [alg |-> "verdict", expectation |-> e, panel |-> p, rubric |-> rub(floor, tie)]
      BY <2>1, Zenon DEF PickVerdict, Pick
    <3>2. IsRubric(rub(floor, tie))
      <4>. DEFINE c == Criteria
                  r == rub(floor, tie)
      <4>1. /\ r.criteria = c /\ r.scale = 2 /\ r.bar = 75 /\ r.floor = floor /\ r.retries = 1
        <5>. HIDE DEF c
        <5>. QED BY Zenon DEF c
      <4>2. Len(c) = 2 /\ DOMAIN c = 1..2 /\ c[1].weight = 2 /\ c[2].weight = 1
        BY DEF Criteria
      <4>3. \A i \in 1..2 : i = 1 \/ i = 2
        OBVIOUS
      <4>. HIDE DEF c, r
      <4>4. IsRubric(r)
        BY <4>1, <4>2, <4>3 DEF IsRubric
      <4>. QED BY <4>4 DEF r
    <3>3. IsPanel(p)
      <4>1. p \in UpTo(Members, 3)
        OBVIOUS
      <4>2. Len(p) \in Nat /\ DOMAIN p = 1..Len(p) /\ \A i \in DOMAIN p : p[i] \in Members
        BY <4>1, UpToIs
      <4>. QED BY <4>2, MembersStand DEF IsPanel
    <3>. HIDE DEF rub
    <3>4. case'.alg = "verdict" /\ case'.panel = p /\ case'.rubric = rub(floor, tie)
      BY <3>1
    <3>. QED BY <3>2, <3>3, <3>4 DEF EvalsInput
  <2>2. ASSUME PickSweep PROVE EvalsInput'
    <3>1. PICK r \in UpTo(Records, 3), low \in {0, 1}, step \in {1, 2} :
             case' = [alg |-> "sweep", records |-> r, low |-> low, step |-> step]
      BY <2>2, Zenon DEF PickSweep, Pick
    <3>2. IsScored(r, 3)
      <4>1. Len(r) \in Nat /\ DOMAIN r = 1..Len(r) /\ \A i \in DOMAIN r : r[i] \in Records
        BY <3>1, UpToIs
      <4>. QED BY <4>1 DEF IsScored, Records
    <3>3. case'.alg = "sweep" /\ case'.records = r /\ case'.low = low /\ case'.step = step
      BY <3>1
    <3>4. low \in Int /\ low <= 3 /\ step \in Nat /\ step > 0
      OBVIOUS
    <3>. QED BY <3>2, <3>3, <3>4 DEF EvalsInput
  <2>3. ASSUME EvalsInput, UNCHANGED case PROVE EvalsInput'
    BY <2>3 DEF EvalsInput
  <2>4. ASSUME Next, ~PickVerdict, ~PickSweep PROVE EvalsInput'
    BY <2>4, Picked DEF EvalsInput
  <2>. QED BY <2>1, <2>2, <2>3, <2>4
<1>3. EvalsInput => EvalsStand
  <2>. SUFFICES ASSUME EvalsInput PROVE EvalsStand
    OBVIOUS
  <2>1. ASSUME case.alg = "verdict" PROVE Ev!VerdictStands(case.rubric, case.expectation, case.panel)
    <3>1. IsRubric(case.rubric) /\ IsPanel(case.panel)
      BY <2>1 DEF EvalsInput
    <3>. DEFINE p == case.panel
                r == case.rubric
                e == case.expectation
    <3>2. IsRubric(r) /\ IsPanel(p)
      BY <3>1
    <3>. HIDE DEF p, r, e
    <3>3. Ev!PanelObeyed(r, e, p)
      BY <3>2, PanelAlwaysObeyed DEF IsPanel
    <3>4. Ev!VerdictMonotone(r, e, p)
      BY <3>2, VerdictAlwaysMonotone
    <3>. QED BY <3>3, <3>4, Zenon DEF Ev!VerdictStands, p, r, e
  <2>2. ASSUME case.alg = "sweep" PROVE Ev!ThresholdStands(case.records, case.low, 3, case.step)
    <3>. DEFINE q == case.records
                l == case.low
                s == case.step
    <3>1. IsScored(q, 3) /\ l \in Int /\ l <= 3 /\ s \in Nat /\ s > 0
      BY <2>2 DEF EvalsInput
    <3>. HIDE DEF q, l, s
    <3>2. Ev!ThresholdStands(q, l, 3, s)
      BY <3>1, ThresholdAlwaysStands
    <3>. QED BY <3>2 DEF q, l, s
  <2>. QED BY <2>1, <2>2, Zenon DEF EvalsStand
<1>. QED BY <1>1, <1>2, <1>3, PTL DEF Spec
-----------------------------------------------------------------------------
(* What a trace adds up to.                                                  *)

\* A set of numbers that holds 0, and with a number the next, holds them all.
LEMMA AllNumbers ==
    ASSUME NEW S, 0 \in S, \A n \in Nat : n \in S => n + 1 \in S
    PROVE  Nat \subseteq S
<1>. SUFFICES ASSUME NEW m \in Nat, m \notin S PROVE FALSE
  OBVIOUS
<1>. DEFINE bad == {n \in Nat : n \notin S}
<1>1. PICK n \in bad : \A k \in bad : n <= k
  <2>1. bad \in SUBSET Nat /\ bad # {}
    OBVIOUS
  <2>. HIDE DEF bad
  <2>. QED BY <2>1, LeastOf
<1>2. n \in Nat /\ n # 0
  OBVIOUS
<1>3. n - 1 \in Nat /\ ~(n <= n - 1) /\ (n - 1) + 1 = n
  BY <1>2
<1>4. n - 1 \in S
  BY <1>1, <1>3
<1>5. n \in S
  BY <1>3, <1>4
<1>. QED BY <1>5

(* What f has at place k.                                                    *)
At(f, k) == IF k \in DOMAIN f THEN f[k] ELSE 0

\* One more place adds what there is at it.
LEMMA TotalUnfolds ==
    ASSUME NEW n \in Nat, NEW f
    PROVE  Sp!Total(0, f) = 0 /\ Sp!Total(n + 1, f) = Sp!Total(n, f) + At(f, n + 1)
<1>1. \A k : Sp!Total(k, f) = Ev!Total(k, f)
  BY Zenon DEF Sp!Total, Ev!Total
<1>2. PICK s : Sums(s, f, n + 1) /\ Ev!Total(n + 1, f) = s[n + 1]
  <2>1. n + 1 \in Nat
    OBVIOUS
  <2>. QED BY <2>1, SumStands
<1>3. PICK t : Sums(t, f, n) /\ Ev!Total(n, f) = t[n]
  BY SumStands
<1>4. PICK o : Sums(o, f, 0) /\ Ev!Total(0, f) = o[0]
  <2>1. 0 \in Nat
    OBVIOUS
  <2>. QED BY <2>1, SumStands
<1>5. o[0] = 0
  BY <1>4 DEF Sums, Part
<1>. DEFINE S == {k \in Nat : k <= n => s[k] = t[k]}
<1>6. \A k \in 0..n : s[k] = Part(s, f, k) /\ t[k] = Part(t, f, k)
  <2>1. \A k \in 0..n : k \in 0..(n + 1)
    OBVIOUS
  <2>. QED BY <1>2, <1>3, <2>1 DEF Sums
<1>7. 0 \in S
  <2>1. 0 \in 0..n
    OBVIOUS
  <2>. QED BY <1>6, <2>1 DEF Part
<1>8. ASSUME NEW k \in Nat, k \in S PROVE k + 1 \in S
  <2>. SUFFICES ASSUME k + 1 <= n PROVE s[k + 1] = t[k + 1]
    OBVIOUS
  <2>1. k + 1 \in 0..n /\ (k + 1) - 1 = k /\ k + 1 # 0 /\ s[k] = t[k]
    BY <1>8
  <2>2. Part(s, f, k + 1) = Part(t, f, k + 1)
    <3>. DEFINE l == k + 1
    <3>1. l # 0 /\ s[l - 1] = t[l - 1]
      BY <2>1
    <3>. HIDE DEF l
    <3>2. Part(s, f, l) = Part(t, f, l)
      BY <3>1, Zenon DEF Part
    <3>. QED BY <3>2 DEF l
  <2>. QED BY <1>6, <2>1, <2>2
<1>9. n \in S
  <2>. HIDE DEF S
  <2>. QED BY <1>7, <1>8, AllNumbers
<1>10. s[n + 1] = s[n] + At(f, n + 1)
  <2>1. n + 1 \in 0..(n + 1) /\ n + 1 # 0 /\ (n + 1) - 1 = n
    OBVIOUS
  <2>. QED BY <1>2, <2>1 DEF Sums, Part, At
<1>. QED BY <1>1, <1>2, <1>3, <1>4, <1>5, <1>9, <1>10

\* What is at the first places alone tells what they sum up to.
LEMMA TotalDepends ==
    ASSUME NEW n \in Nat, NEW f, NEW g, \A k \in 1..n : At(f, k) \in Int /\ At(f, k) = At(g, k)
    PROVE  Sp!Total(n, f) \in Int /\ Sp!Total(n, f) = Sp!Total(n, g)
<1>. DEFINE S == {m \in Nat : m <= n => /\ Sp!Total(m, f) \in Int
                                        /\ Sp!Total(m, f) = Sp!Total(m, g)}
<1>1. 0 \in S
  <2>1. 0 \in Nat /\ Sp!Total(0, f) = 0 /\ Sp!Total(0, g) = 0
    BY TotalUnfolds
  <2>. QED BY <2>1
<1>2. ASSUME NEW m \in Nat, m \in S PROVE m + 1 \in S
  <2>. SUFFICES ASSUME m + 1 <= n
                PROVE  Sp!Total(m + 1, f) \in Int /\ Sp!Total(m + 1, f) = Sp!Total(m + 1, g)
    OBVIOUS
  <2>1. m + 1 \in 1..n /\ Sp!Total(m, f) \in Int /\ Sp!Total(m, f) = Sp!Total(m, g)
    BY <1>2
  <2>2. /\ Sp!Total(m + 1, f) = Sp!Total(m, f) + At(f, m + 1)
        /\ Sp!Total(m + 1, g) = Sp!Total(m, g) + At(g, m + 1)
    BY TotalUnfolds
  <2>. QED BY <2>1, <2>2
<1>3. n \in S
  <2>. HIDE DEF S
  <2>. QED BY <1>1, <1>2, AllNumbers
<1>. QED BY <1>3

\* The places of one sequence and then of another sum up to both sums.
LEMMA TotalJoins ==
    ASSUME NEW m \in Nat, NEW n \in Nat, NEW f, NEW g, NEW h,
           \A k \in 1..m : At(f, k) \in Int /\ At(h, k) = At(f, k),
           \A k \in 1..n : At(g, k) \in Int /\ At(h, m + k) = At(g, k)
    PROVE  /\ Sp!Total(m, f) \in Int /\ Sp!Total(n, g) \in Int
           /\ Sp!Total(m + n, h) = Sp!Total(m, f) + Sp!Total(n, g)
<1>. DEFINE S == {k \in Nat : k <= n => /\ Sp!Total(k, g) \in Int
                                        /\ Sp!Total(m + k, h) = Sp!Total(m, f) + Sp!Total(k, g)}
<1>1. Sp!Total(m, f) \in Int /\ Sp!Total(m, h) = Sp!Total(m, f)
  BY TotalDepends
<1>2. 0 \in S
  <2>1. Sp!Total(0, g) = 0 /\ m + 0 = m
    BY TotalUnfolds
  <2>. QED BY <1>1, <2>1
<1>3. ASSUME NEW k \in Nat, k \in S PROVE k + 1 \in S
  <2>. SUFFICES ASSUME k + 1 <= n
                PROVE  /\ Sp!Total(k + 1, g) \in Int
                       /\ Sp!Total(m + (k + 1), h) = Sp!Total(m, f) + Sp!Total(k + 1, g)
    OBVIOUS
  <2>1. /\ k + 1 \in 1..n /\ Sp!Total(k, g) \in Int /\ m + k \in Nat
        /\ Sp!Total(m + k, h) = Sp!Total(m, f) + Sp!Total(k, g)
    BY <1>3
  <2>2. Sp!Total(k + 1, g) = Sp!Total(k, g) + At(g, k + 1)
    BY TotalUnfolds
  <2>3. Sp!Total((m + k) + 1, h) = Sp!Total(m + k, h) + At(h, (m + k) + 1)
    BY <2>1, TotalUnfolds
  <2>4. (m + k) + 1 = m + (k + 1)
    OBVIOUS
  <2>. QED BY <1>1, <2>1, <2>2, <2>3, <2>4
<1>4. n \in S
  <2>. HIDE DEF S
  <2>. QED BY <1>2, <1>3, AllNumbers
<1>. QED BY <1>1, <1>4

\* A change at one place is a change of the sum.
LEMMA TotalChanges ==
    ASSUME NEW n \in Nat, NEW f, NEW g, NEW at \in 1..n,
           \A k \in 1..n : At(f, k) \in Int /\ At(g, k) \in Int,
           \A k \in 1..n : k # at => At(g, k) = At(f, k)
    PROVE  /\ Sp!Total(n, f) \in Int
           /\ Sp!Total(n, g) = Sp!Total(n, f) + At(g, at) - At(f, at)
<1>. DEFINE S == {m \in Nat : m <= n =>
                    /\ Sp!Total(m, f) \in Int
                    /\ Sp!Total(m, g) = IF m < at THEN Sp!Total(m, f)
                                        ELSE Sp!Total(m, f) + At(g, at) - At(f, at)}
<1>1. 0 \in S
  <2>1. 0 \in Nat /\ Sp!Total(0, f) = 0 /\ Sp!Total(0, g) = 0 /\ 0 < at
    BY TotalUnfolds
  <2>. QED BY <2>1
<1>2. ASSUME NEW m \in Nat, m \in S PROVE m + 1 \in S
  <2>. DEFINE l == m + 1
  <2>. SUFFICES ASSUME l <= n
                PROVE  /\ Sp!Total(l, f) \in Int
                       /\ Sp!Total(l, g) = IF l < at THEN Sp!Total(l, f)
                                           ELSE Sp!Total(l, f) + At(g, at) - At(f, at)
    OBVIOUS
  <2>1. /\ l \in 1..n /\ Sp!Total(m, f) \in Int
        /\ Sp!Total(m, g) = IF m < at THEN Sp!Total(m, f)
                            ELSE Sp!Total(m, f) + At(g, at) - At(f, at)
    BY <1>2
  <2>2. /\ Sp!Total(l, f) = Sp!Total(m, f) + At(f, l)
        /\ Sp!Total(l, g) = Sp!Total(m, g) + At(g, l)
    BY TotalUnfolds
  <2>3. (l < at => m < at) /\ (m < at => l <= at) /\ (l = at => m < at)
    OBVIOUS
  <2>. QED BY <2>1, <2>2, <2>3
<1>3. n \in S
  <2>. HIDE DEF S
  <2>. QED BY <1>1, <1>2, AllNumbers
<1>. QED BY <1>3

\* Places that each hold what another holds once sum up to what there are.
LEMMA TotalOfOnes ==
    ASSUME NEW n \in Nat, NEW c \in Int, NEW f, \A k \in 1..n : At(f, k) = c
    PROVE  Sp!Total(n, f) = n * c
<1>. DEFINE S == {m \in Nat : m <= n => Sp!Total(m, f) = m * c}
<1>1. 0 \in S
  <2>1. 0 \in Nat /\ Sp!Total(0, f) = 0 /\ 0 * c = 0
    BY TotalUnfolds
  <2>. QED BY <2>1
<1>2. ASSUME NEW m \in Nat, m \in S PROVE m + 1 \in S
  <2>. SUFFICES ASSUME m + 1 <= n PROVE Sp!Total(m + 1, f) = (m + 1) * c
    OBVIOUS
  <2>1. m + 1 \in 1..n /\ Sp!Total(m, f) = m * c
    BY <1>2
  <2>2. Sp!Total(m + 1, f) = Sp!Total(m, f) + At(f, m + 1)
    BY TotalUnfolds
  <2>3. (m + 1) * c = m * c + c
    OBVIOUS
  <2>. QED BY <2>1, <2>2, <2>3
<1>3. n \in S
  <2>. HIDE DEF S
  <2>. QED BY <1>1, <1>2, AllNumbers
<1>. QED BY <1>3

(* What is counted of a trace: its calls, their cost, the ends of a node in  *)
(* one way, the spans of a node.                                             *)
IsMeasure(m) ==
    /\ m.of \in {"calls", "cost", "ends", "nodes"}
    /\ m.of = "ends" => m.kind \in DOMAIN Sp!Ends
Mass(m, s) ==
    IF m.of = "calls" THEN Sp!One(s.kind = "provider_call")
    ELSE IF m.of = "cost" THEN IF s.kind = "provider_call" THEN s.cost ELSE 0
    ELSE IF m.of = "ends" THEN Sp!One(s.node = m.node /\ s.state = Sp!Ends[m.kind])
    ELSE Sp!One(s.node = m.node /\ s.kind = "node")
Masses(m, spans) == [i \in DOMAIN spans |-> Mass(m, spans[i])]
Weight(m, spans) == Sp!Total(Len(spans), Masses(m, spans))

(* A span that tells what is counted, at a cost that is a number.            *)
IsSpan(s) ==
    /\ s = [x \in DOMAIN s |-> s[x]]
    /\ "kind" \in DOMAIN s /\ "node" \in DOMAIN s /\ "state" \in DOMAIN s
    /\ "end" \in DOMAIN s /\ "cost" \in DOMAIN s
    /\ s.cost \in Int
Spans(t, n) == t = [k \in 1..n |-> t[k]] /\ \A k \in 1..n : IsSpan(t[k])

\* A span has a mass.
LEMMA MassIs ==
    ASSUME NEW m, NEW s, IsSpan(s)
    PROVE  Mass(m, s) \in Int
BY DEF Mass, IsSpan, Sp!One

\* What a span is made with.
LEMMA SpanIs ==
    ASSUME NEW kind, NEW parent, NEW node, NEW a, NEW b
    PROVE  LET s == Sp!Span(kind, parent, node, a, b)
           IN /\ IsSpan(s) /\ s.kind = kind /\ s.node = node /\ s.state = "none" /\ s.cost = 0
BY DEF IsSpan, Sp!Span

\* What the span of a call is made with.
LEMMA CallIs ==
    ASSUME NEW call, call.cost \in Int, NEW parent, NEW node, NEW t
    PROVE  LET s == Sp!CallSpan(call, parent, node, t)
           IN /\ IsSpan(s) /\ s.kind = "provider_call" /\ s.node = node /\ s.state = "none"
              /\ s.cost = call.cost
<1>. DEFINE start == IF call.at > 0 THEN call.at ELSE t
            end   == start + call.latency
            cost  == call.cost
            s     == Sp!CallSpan(call, parent, node, t)
<1>1. s = [Sp!Span("provider_call", parent, node, start, end) EXCEPT !.cost = cost]
  BY Zenon DEF Sp!CallSpan
<1>2. cost \in Int
  OBVIOUS
<1>. HIDE DEF start, end, cost, s
<1>3. s = [kind |-> "provider_call", parent |-> parent, node |-> node, start |-> start,
           end |-> end, state |-> "none", cost |-> cost]
  BY <1>1 DEF Sp!Span
<1>4. IsSpan(s) /\ s.kind = "provider_call" /\ s.node = node /\ s.state = "none" /\ s.cost = cost
  BY <1>2, <1>3 DEF IsSpan
<1>. QED BY <1>4 DEF s, cost

\* What n spans weigh, if each has its mass.
LEMMA WeightIs ==
    ASSUME NEW m, NEW n \in Nat, NEW t, Spans(t, n)
    PROVE  /\ Len(t) = n /\ DOMAIN t = 1..n
           /\ \A k \in 1..n : At(Masses(m, t), k) = Mass(m, t[k]) /\ At(Masses(m, t), k) \in Int
           /\ Weight(m, t) = Sp!Total(n, Masses(m, t)) /\ Weight(m, t) \in Int
<1>1. t = [k \in 1..n |-> t[k]] /\ \A k \in 1..n : IsSpan(t[k])
  BY DEF Spans
<1>2. Len(t) = n /\ DOMAIN t = 1..n
  <2>1. t = [k \in 1..n |-> t[k]]
    BY <1>1
  <2>. QED BY <2>1, Joined
<1>3. \A k \in 1..n : At(Masses(m, t), k) = Mass(m, t[k])
  BY <1>2, Zenon DEF At, Masses
<1>4. \A k \in 1..n : At(Masses(m, t), k) \in Int
  BY <1>1, <1>3, MassIs
<1>5. Sp!Total(n, Masses(m, t)) \in Int
  <2>. DEFINE f == Masses(m, t)
  <2>1. \A k \in 1..n : At(f, k) \in Int /\ At(f, k) = At(f, k)
    BY <1>4
  <2>. HIDE DEF f
  <2>2. Sp!Total(n, f) \in Int
    BY <2>1, TotalDepends
  <2>. QED BY <2>2 DEF f
<1>. QED BY <1>2, <1>3, <1>4, <1>5 DEF Weight

(* In u, the places of t follow those of s.                                  *)
Follow(u, s, a, t, b) == (\A k \in 1..a : u[k] = s[k]) /\ (\A k \in 1..b : u[a + k] = t[k])

\* Two sequences of spans, joined, weigh what both do.
LEMMA WeightJoins ==
    ASSUME NEW a \in Nat, NEW b \in Nat, NEW s, NEW t, Spans(s, a), Spans(t, b)
    PROVE  /\ Spans(s \o t, a + b)
           /\ Follow(s \o t, s, a, t, b)
           /\ \A m : Weight(m, s \o t) = Weight(m, s) + Weight(m, t)
<1>. DEFINE u == s \o t
<1>1. /\ s = [k \in 1..a |-> s[k]] /\ \A k \in 1..a : IsSpan(s[k])
      /\ t = [k \in 1..b |-> t[k]] /\ \A k \in 1..b : IsSpan(t[k])
  BY DEF Spans
<1>2. u = [i \in 1..(a + b) |-> IF i <= a THEN s[i] ELSE t[i - a]]
  BY <1>1, Joined
<1>. HIDE DEF u
<1>3. (\A k \in 1..a : u[k] = s[k]) /\ (\A k \in 1..b : u[a + k] = t[k])
  BY <1>2
<1>4. Spans(u, a + b)
  <2>1. ASSUME NEW k \in 1..(a + b) PROVE IsSpan(u[k])
    <3>1. CASE k <= a
      BY <1>1, <1>3, <3>1
    <3>2. CASE ~(k <= a)
      <4>1. k - a \in 1..b /\ u[k] = t[k - a]
        BY <1>2, <3>2
      <4>. QED BY <1>1, <4>1
    <3>. QED BY <3>1, <3>2
  <2>2. u = [k \in 1..(a + b) |-> u[k]]
    BY <1>2
  <2>. QED BY <2>1, <2>2 DEF Spans
<1>5. ASSUME NEW m PROVE Weight(m, u) = Weight(m, s) + Weight(m, t)
  <2>. DEFINE f == Masses(m, s)
              g == Masses(m, t)
              h == Masses(m, u)
  <2>1. /\ \A k \in 1..a : At(f, k) = Mass(m, s[k]) /\ At(f, k) \in Int
        /\ \A k \in 1..b : At(g, k) = Mass(m, t[k]) /\ At(g, k) \in Int
        /\ Weight(m, s) = Sp!Total(a, f) /\ Weight(m, t) = Sp!Total(b, g)
    BY WeightIs
  <2>2. /\ \A k \in 1..(a + b) : At(h, k) = Mass(m, u[k])
        /\ Weight(m, u) = Sp!Total(a + b, h)
    <3>1. a + b \in Nat
      OBVIOUS
    <3>. QED BY <1>4, <3>1, WeightIs
  <2>3. \A k \in 1..a : k \in 1..(a + b)
    OBVIOUS
  <2>4. \A k \in 1..b : a + k \in 1..(a + b)
    OBVIOUS
  <2>5. (\A k \in 1..a : At(h, k) = At(f, k)) /\ (\A k \in 1..b : At(h, a + k) = At(g, k))
    BY <1>3, <2>1, <2>2, <2>3, <2>4
  <2>. HIDE DEF f, g, h
  <2>6. Sp!Total(a + b, h) = Sp!Total(a, f) + Sp!Total(b, g)
    BY <2>1, <2>5, TotalJoins
  <2>. QED BY <2>1, <2>2, <2>6
<1>6. Follow(u, s, a, t, b)
  BY <1>3, Zenon DEF Follow
<1>. QED BY <1>4, <1>5, <1>6 DEF u

(* A span with its end and its state.                                        *)
Closed(s, state, t) == [s EXCEPT !.state = state, !.end = t]

\* A span that is given an end and a state keeps the rest.
LEMMA EndIs ==
    ASSUME NEW s, IsSpan(s), NEW state, NEW t
    PROVE  /\ IsSpan(Closed(s, state, t))
           /\ Closed(s, state, t).node = s.node /\ Closed(s, state, t).state = state
           /\ Closed(s, state, t).kind = s.kind /\ Closed(s, state, t).cost = s.cost
<1>. DEFINE c == [s EXCEPT !.state = state, !.end = t]
<1>1. IsSpan(c)
  BY DEF IsSpan
<1>2. c.node = s.node /\ c.state = state
  BY DEF IsSpan
<1>3. c.kind = s.kind /\ c.cost = s.cost
  BY DEF IsSpan
<1>. QED BY <1>1, <1>2, <1>3, Zenon DEF Closed

\* Closing a span changes the weight by that span.
LEMMA WeightCloses ==
    ASSUME NEW n \in Nat, NEW s, Spans(s, n), NEW at \in 1..n, NEW state, NEW t
    PROVE  LET u == Closing(s, at, state, t)
               c == Closed(s[at], state, t)
           IN /\ Spans(u, n) /\ u[at] = c /\ \A k \in 1..n : k # at => u[k] = s[k]
              /\ \A m : Weight(m, u) = Weight(m, s) + Mass(m, c) - Mass(m, s[at])
<1>. DEFINE u == Closing(s, at, state, t)
            x == s[at]
            c == Closed(x, state, t)
<1>1. s = [k \in 1..n |-> s[k]] /\ \A k \in 1..n : IsSpan(s[k])
  BY DEF Spans
<1>2. IsSpan(x)
  BY <1>1
<1>3. u = [s EXCEPT ![at] = c]
  BY Zenon DEF Closing, Closed
<1>. HIDE DEF x
<1>5. IsSpan(c) /\ c.node = x.node /\ c.state = state /\ c.kind = x.kind /\ c.cost = x.cost
  BY <1>2, EndIs
<1>. HIDE DEF c, u
<1>6. u = [k \in 1..n |-> IF k = at THEN c ELSE s[k]]
  BY <1>1, <1>3
<1>7. Spans(u, n) /\ u[at] = c /\ \A k \in 1..n : k # at => u[k] = s[k]
  <2>1. u[at] = c /\ \A k \in 1..n : k # at => u[k] = s[k]
    BY <1>6
  <2>2. u = [k \in 1..n |-> u[k]]
    BY <1>6
  <2>3. \A k \in 1..n : IsSpan(u[k])
    BY <1>1, <1>5, <2>1
  <2>. QED BY <2>1, <2>2, <2>3 DEF Spans
<1>8. ASSUME NEW m PROVE Weight(m, u) = Weight(m, s) + Mass(m, c) - Mass(m, x)
  <2>. DEFINE f == Masses(m, s)
              g == Masses(m, u)
  <2>1. /\ \A k \in 1..n : At(f, k) = Mass(m, s[k]) /\ At(f, k) \in Int
        /\ Weight(m, s) = Sp!Total(n, f)
    BY WeightIs
  <2>2. /\ \A k \in 1..n : At(g, k) = Mass(m, u[k]) /\ At(g, k) \in Int
        /\ Weight(m, u) = Sp!Total(n, g)
    BY <1>7, WeightIs
  <2>3. \A k \in 1..n : k # at => At(g, k) = At(f, k)
    BY <1>7, <2>1, <2>2
  <2>4. At(g, at) = Mass(m, c) /\ At(f, at) = Mass(m, x)
    BY <1>7, <2>1, <2>2 DEF x
  <2>. HIDE DEF f, g
  <2>5. Sp!Total(n, g) = Sp!Total(n, f) + At(g, at) - At(f, at)
    BY <2>1, <2>2, <2>3, TotalChanges
  <2>. QED BY <2>1, <2>2, <2>4, <2>5
<1>. QED BY <1>5, <1>7, <1>8 DEF u, c, x

\* Spans of one mass weigh it as often as there are spans.
LEMMA WeightOfSame ==
    ASSUME NEW m, NEW n \in Nat, NEW t, Spans(t, n), NEW c \in Int,
           \A k \in 1..n : Mass(m, t[k]) = c
    PROVE  Weight(m, t) = n * c
<1>. DEFINE f == Masses(m, t)
<1>1. (\A k \in 1..n : At(f, k) = c) /\ Weight(m, t) = Sp!Total(n, f)
  BY WeightIs
<1>. HIDE DEF f
<1>2. Sp!Total(n, f) = n * c
  BY <1>1, TotalOfOnes
<1>. QED BY <1>1, <1>2

\* Spans of no mass weigh nothing, spans of mass one as much as there are.
LEMMA WeightCounts ==
    ASSUME NEW m, NEW n \in Nat, NEW t, Spans(t, n)
    PROVE  /\ (\A k \in 1..n : Mass(m, t[k]) = 0) => Weight(m, t) = 0
           /\ (\A k \in 1..n : Mass(m, t[k]) = 1) => Weight(m, t) = n
<1>. DEFINE zero == 0
            one  == 1
            f    == Masses(m, t)
<1>1. zero \in Int /\ one \in Int /\ n * zero = 0 /\ n * one = n
  OBVIOUS
<1>2. (\A k \in 1..n : At(f, k) = Mass(m, t[k])) /\ Weight(m, t) = Sp!Total(n, f)
  BY WeightIs
<1>. HIDE DEF zero, one, f
<1>3. ASSUME \A k \in 1..n : Mass(m, t[k]) = zero PROVE Weight(m, t) = 0
  <2>1. \A k \in 1..n : At(f, k) = zero
    BY <1>2, <1>3
  <2>2. Sp!Total(n, f) = n * zero
    BY <1>1, <2>1, TotalOfOnes
  <2>. QED BY <1>1, <1>2, <2>2
<1>4. ASSUME \A k \in 1..n : Mass(m, t[k]) = one PROVE Weight(m, t) = n
  <2>1. \A k \in 1..n : At(f, k) = one
    BY <1>2, <1>4
  <2>2. Sp!Total(n, f) = n * one
    BY <1>1, <2>1, TotalOfOnes
  <2>. QED BY <1>1, <1>2, <2>2
<1>. QED BY <1>3, <1>4 DEF zero, one

\* One span weighs its mass.
LEMMA WeightOfOne ==
    ASSUME NEW s, IsSpan(s)
    PROVE  Spans(<<s>>, 1) /\ \A m : Weight(m, <<s>>) = Mass(m, s)
<1>. DEFINE t == <<s>>
<1>1. t = [k \in 1..1 |-> t[k]] /\ \A k \in 1..1 : t[k] = s
  OBVIOUS
<1>2. Spans(t, 1)
  BY <1>1 DEF Spans
<1>. HIDE DEF t
<1>3. ASSUME NEW m PROVE Weight(m, t) = Mass(m, s)
  <2>. DEFINE c == Mass(m, s)
  <2>1. c \in Int /\ \A k \in 1..1 : Mass(m, t[k]) = c
    BY <1>1, MassIs
  <2>. HIDE DEF c
  <2>2. Weight(m, t) = 1 * c
    <3>1. 1 \in Nat
      OBVIOUS
    <3>. QED BY <1>2, <2>1, <3>1, WeightOfSame
  <2>3. 1 * c = c
    BY <2>1
  <2>. QED BY <2>2, <2>3 DEF c
<1>. QED BY <1>2, <1>3 DEF t

\* No end leaves a task without one, and different ends are told apart.
LEMMA EndsDiffer ==
    /\ DOMAIN Sp!Ends = {"task_succeeded", "task_failed", "task_cancelled"}
    /\ \A kind \in DOMAIN Sp!Ends : Sp!Ends[kind] # "none"
    /\ \A a, b \in DOMAIN Sp!Ends : Sp!Ends[a] = Sp!Ends[b] => a = b
BY DEF Sp!Ends

\* What a span that has not ended counts for.
LEMMA MassOpen ==
    ASSUME NEW m, IsMeasure(m), NEW s, s.state = "none"
    PROVE  /\ s.kind # "provider_call" =>
                Mass(m, s) = IF m.of = "nodes" THEN Sp!One(s.node = m.node /\ s.kind = "node") ELSE 0
           /\ s.kind = "provider_call" =>
                Mass(m, s) = IF m.of = "calls" THEN 1 ELSE IF m.of = "cost" THEN s.cost ELSE 0
<1>1. m.of = "ends" => Sp!Ends[m.kind] # "none"
  BY EndsDiffer DEF IsMeasure
<1>. QED BY <1>1 DEF IsMeasure, Mass, Sp!One

(* The open spans are those of their tasks, which have not ended.            *)
Told(acc) ==
    /\ Spans(acc.spans, Len(acc.spans))
    /\ \A x \in DOMAIN acc.open :
          acc.spans[acc.open[x]].node = x /\ acc.spans[acc.open[x]].state = "none"

\* Spans that are added count as much as they weigh.
LEMMA SpansTold ==
    ASSUME NEW acc, Known(acc), Told(acc), NEW n \in Nat, NEW t, Spans(t, n)
    PROVE  LET grown == Sp!WithSpans(acc, t)
           IN /\ Told(grown) /\ grown.open = acc.open /\ Len(grown.spans) = Len(acc.spans) + n
              /\ grown.loopOf = acc.loopOf /\ grown = [spans |-> grown.spans, loopOf |-> grown.loopOf, open |-> grown.open]
              /\ \A k \in 1..n : grown.spans[Len(acc.spans) + k] = t[k]
              /\ \A m : Weight(m, grown.spans) = Weight(m, acc.spans) + Weight(m, t)
<1>. DEFINE s     == acc.spans
            l     == Len(s)
            u     == s \o t
            grown == Sp!WithSpans(acc, t)
<1>1. l \in Nat
  BY DEF Known, IsTree
<1>2. Spans(s, l)
  BY DEF Told
<1>3. grown = [spans |-> u, loopOf |-> acc.loopOf, open |-> acc.open]
  <2>. DEFINE lo == acc.loopOf
              o == acc.open
  <2>1. acc = [spans |-> s, loopOf |-> lo, open |-> o]
    BY Zenon DEF Known
  <2>2. grown = [acc EXCEPT !.spans = s \o t]
    BY <2>1 DEF Sp!WithSpans
  <2>. HIDE DEF s, lo, o, u, grown
  <2>3. grown = [spans |-> s \o t, loopOf |-> lo, open |-> o]
    BY <2>1, <2>2
  <2>. QED BY <2>3 DEF lo, o, u
<1>. HIDE DEF l, s
<1>9. Spans(u, l + n) /\ Follow(u, s, l, t, n) /\ \A m : Weight(m, u) = Weight(m, s) + Weight(m, t)
  BY <1>1, <1>2, WeightJoins
<1>5. Len(u) = l + n
  <2>. DEFINE a == l + n
  <2>1. a \in Nat /\ Spans(u, a)
    BY <1>1, <1>9
  <2>. HIDE DEF a, u
  <2>2. Len(u) = a
    BY <2>1, WeightIs
  <2>. QED BY <2>2 DEF a
<1>. HIDE DEF u, grown
<1>4. (\A k \in 1..l : u[k] = s[k]) /\ (\A k \in 1..n : u[l + k] = t[k])
  BY <1>9, Zenon DEF Follow
<1>6. grown.spans = u /\ grown.loopOf = acc.loopOf /\ grown.open = acc.open
  BY <1>3
<1>7. \A x \in DOMAIN acc.open : u[acc.open[x]].node = x /\ u[acc.open[x]].state = "none"
  BY <1>4 DEF Known, Places, Told, l, s
<1>8. Told(grown)
  BY <1>5, <1>6, <1>7, <1>9 DEF Told
<1>. QED BY <1>3, <1>4, <1>5, <1>6, <1>8, <1>9 DEF grown, l, s

\* A loop or a node that is added counts for itself.
LEMMA SpanTold ==
    ASSUME NEW acc, Known(acc), Told(acc), NEW kind, NEW parent, NEW node, NEW t
    PROVE  LET s     == Sp!Span(kind, parent, node, t, Sp!NoEnd)
               grown == Sp!WithSpans(acc, <<s>>)
           IN /\ Told(grown) /\ grown.open = acc.open /\ Len(grown.spans) = Len(acc.spans) + 1
              /\ grown.spans[Len(acc.spans) + 1] = s
              /\ \A m : Weight(m, grown.spans) = Weight(m, acc.spans) + Mass(m, s)
<1>. DEFINE s     == Sp!Span(kind, parent, node, t, Sp!NoEnd)
            ts    == <<s>>
            grown == Sp!WithSpans(acc, ts)
<1>1. IsSpan(s)
  BY SpanIs
<1>2. ts[1] = s
  OBVIOUS
<1>. HIDE DEF s
<1>3. Spans(ts, 1) /\ \A m : Weight(m, ts) = Mass(m, s)
  BY <1>1, WeightOfOne
<1>. HIDE DEF ts
<1>4. /\ Told(grown) /\ grown.open = acc.open /\ Len(grown.spans) = Len(acc.spans) + 1
      /\ \A k \in 1..1 : grown.spans[Len(acc.spans) + k] = ts[k]
      /\ \A m : Weight(m, grown.spans) = Weight(m, acc.spans) + Weight(m, ts)
  <2>1. 1 \in Nat
    OBVIOUS
  <2>. QED BY <1>3, <2>1, SpansTold
<1>. HIDE DEF grown
<1>5. grown.spans[Len(acc.spans) + 1] = s
  <2>1. 1 \in 1..1
    OBVIOUS
  <2>. QED BY <1>2, <1>4, <2>1
<1>. QED BY <1>3, <1>4, <1>5, Zenon DEF grown, ts, s

\* A loop to hang a node under counts for nothing.
LEMMA LoopTold ==
    ASSUME NEW acc, Known(acc), Told(acc), NEW t
    PROVE  LET looped == Sp!WithLoop(acc, t)
           IN /\ Told(looped) /\ looped.open = acc.open
              /\ \A m : IsMeasure(m) => Weight(m, looped.spans) = Weight(m, acc.spans)
<1>. DEFINE looped == Sp!WithLoop(acc, t)
            s      == Sp!Span("agent_loop", 1, Sp!NoNode, t, Sp!NoEnd)
            grown  == Sp!WithSpans(acc, <<s>>)
<1>1. /\ Told(grown) /\ grown.open = acc.open
      /\ \A m : Weight(m, grown.spans) = Weight(m, acc.spans) + Mass(m, s)
  BY SpanTold
<1>2. looped = IF Sp!Loops(acc) # {} THEN acc ELSE grown
  BY Zenon DEF Sp!WithLoop
<1>3. s.kind = "agent_loop" /\ s.state = "none"
  BY SpanIs
<1>. HIDE DEF s, grown, looped
<1>4. ASSUME NEW m, IsMeasure(m) PROVE Mass(m, s) = 0
  BY <1>3, <1>4, MassOpen DEF Sp!One
<1>5. ASSUME NEW m PROVE Weight(m, acc.spans) \in Int
  <2>1. Len(acc.spans) \in Nat /\ Spans(acc.spans, Len(acc.spans))
    BY DEF Known, IsTree, Told
  <2>. QED BY <2>1, WeightIs
<1>6. \A m : IsMeasure(m) => Weight(m, looped.spans) = Weight(m, acc.spans)
  BY <1>1, <1>2, <1>4, <1>5
<1>7. Told(looped) /\ looped.open = acc.open
  BY <1>1, <1>2
<1>. QED BY <1>6, <1>7 DEF looped

(* What a node that is added counts for.                                     *)
NodeMass(m, node) == IF m.of = "nodes" THEN Sp!One(node = m.node) ELSE 0

\* A node that is added counts for itself, and has not ended.
LEMMA NodeTold ==
    ASSUME NEW acc, Known(acc), Told(acc), NEW node, NEW t \in Int
    PROVE  LET grown == Sp!WithNode(acc, node, t)
               last  == grown.spans[Len(grown.spans)]
           IN /\ Told(grown) /\ grown.open = acc.open /\ last.node = node /\ last.state = "none"
              /\ \A m : IsMeasure(m) =>
                    Weight(m, grown.spans) = Weight(m, acc.spans) + NodeMass(m, node)
<1>. DEFINE looped == Sp!WithLoop(acc, t)
            parent == IF node \in DOMAIN acc.loopOf THEN acc.loopOf[node]
                                                    ELSE Sp!Max(Sp!Loops(looped))
            grown  == Sp!WithNode(acc, node, t)
            s      == Sp!Span("node", parent, node, t, Sp!NoEnd)
<1>1. /\ Told(looped) /\ looped.open = acc.open
      /\ \A m : IsMeasure(m) => Weight(m, looped.spans) = Weight(m, acc.spans)
  BY LoopTold
<1>2. Known(looped)
  BY LoopStands
<1>3. grown = Sp!WithSpans(looped, <<s>>)
  BY Zenon DEF Sp!WithNode
<1>. HIDE DEF looped, parent
<1>4. /\ Told(grown) /\ grown.open = looped.open /\ Len(grown.spans) = Len(looped.spans) + 1
      /\ grown.spans[Len(looped.spans) + 1] = s
      /\ \A m : Weight(m, grown.spans) = Weight(m, looped.spans) + Mass(m, s)
  BY <1>1, <1>2, <1>3, SpanTold
<1>5. s.kind = "node" /\ s.node = node /\ s.state = "none"
  BY SpanIs
<1>. HIDE DEF s, grown
<1>6. ASSUME NEW m, IsMeasure(m) PROVE Mass(m, s) = NodeMass(m, node)
  BY <1>5, <1>6, MassOpen DEF NodeMass, Sp!One
<1>7. \A m : IsMeasure(m) => Weight(m, grown.spans) = Weight(m, acc.spans) + NodeMass(m, node)
  BY <1>1, <1>4, <1>6
<1>. QED BY <1>1, <1>4, <1>5, <1>7 DEF grown

(* What the calls of an event count for.                                     *)
CallCosts(e) == [k \in DOMAIN e.calls |-> e.calls[k].cost]
Met(m, e) ==
    IF m.of = "calls" THEN Len(e.calls)
    ELSE IF m.of = "cost" THEN Sp!Total(Len(e.calls), CallCosts(e)) ELSE 0

\* The spans of an event's calls count for the calls.
LEMMA CallsTold ==
    ASSUME NEW e, HasCalls(e, Int), NEW c, Spans(c, Len(e.calls)),
           \A k \in 1..Len(e.calls) : /\ c[k].kind = "provider_call" /\ c[k].state = "none"
                                      /\ c[k].cost = e.calls[k].cost
    PROVE  \A m : IsMeasure(m) => Weight(m, c) = Met(m, e) /\ Met(m, e) \in Int
<1>. SUFFICES ASSUME NEW m, IsMeasure(m) PROVE Weight(m, c) = Met(m, e) /\ Met(m, e) \in Int
  OBVIOUS
<1>. DEFINE n == Len(e.calls)
            f == Masses(m, c)
            g == CallCosts(e)
<1>1. n \in Nat /\ DOMAIN e.calls = 1..n
  BY DEF HasCalls
<1>2. \A k \in 1..n : Mass(m, c[k]) = IF m.of = "calls" THEN 1
                                      ELSE IF m.of = "cost" THEN c[k].cost ELSE 0
  BY MassOpen
<1>3. /\ \A k \in 1..n : At(f, k) = Mass(m, c[k]) /\ At(f, k) \in Int
      /\ Weight(m, c) = Sp!Total(n, f) /\ Weight(m, c) \in Int
  BY <1>1, WeightIs
<1>4. \A k \in 1..n : At(g, k) = c[k].cost
  BY <1>1 DEF At, CallCosts
<1>. HIDE DEF f, g
<1>5. CASE m.of = "cost"
  <2>1. \A k \in 1..n : At(f, k) \in Int /\ At(f, k) = At(g, k)
    BY <1>2, <1>3, <1>4, <1>5
  <2>2. Sp!Total(n, f) = Sp!Total(n, g)
    <3>. HIDE DEF n
    <3>. QED BY <1>1, <2>1, TotalDepends
  <2>. QED BY <1>3, <1>5, <2>2 DEF Met, g
<1>6. CASE m.of = "calls"
  <2>1. \A k \in 1..n : Mass(m, c[k]) = 1
    BY <1>2, <1>6
  <2>2. Weight(m, c) = n
    BY <1>1, <2>1, WeightCounts
  <2>. QED BY <1>1, <1>6, <2>2 DEF Met
<1>7. CASE m.of # "cost" /\ m.of # "calls"
  <2>1. \A k \in 1..n : Mass(m, c[k]) = 0
    BY <1>2, <1>7
  <2>2. Weight(m, c) = 0
    BY <1>1, <2>1, WeightCounts
  <2>. QED BY <1>1, <1>7, <2>2 DEF Met
<1>. QED BY <1>5, <1>6, <1>7

\* A patch counts for the calls of the decision.
LEMMA PatchedTold ==
    ASSUME NEW acc, Known(acc), Told(acc), NEW e, HasCalls(e, Int), NEW t \in Int
    PROVE  LET patched == Sp!Patched(acc, e, t)
           IN /\ Told(patched)
              /\ \A m : IsMeasure(m) =>
                    Weight(m, patched.spans) = Weight(m, acc.spans) + Met(m, e)
<1>. DEFINE m     == Len(acc.spans)
            n     == Len(e.calls)
            loop  == m + 1
            plan  == loop + 1
            L     == Sp!Span("agent_loop", 1, Sp!NoNode, t, Sp!NoEnd)
            P     == Sp!Span("plan", loop, Sp!NoNode, t, t)
            two   == <<L, P>>
            calls == [k \in DOMAIN e.calls |-> Sp!CallSpan(e.calls[k], plan, Sp!NoNode, t)]
            ts    == two \o calls
            grown == Sp!WithSpans(acc, ts)
<1>1. m \in Nat /\ n \in Nat /\ 2 \in Nat /\ 2 + n \in Nat /\ DOMAIN e.calls = 1..n
  BY DEF Known, IsTree, HasCalls
<1>2. /\ IsSpan(L) /\ L.kind = "agent_loop" /\ L.state = "none"
      /\ IsSpan(P) /\ P.kind = "plan" /\ P.state = "none"
  BY SpanIs
<1>3. ASSUME NEW k \in 1..n
      PROVE  /\ IsSpan(calls[k]) /\ calls[k].kind = "provider_call" /\ calls[k].state = "none"
             /\ calls[k].cost = e.calls[k].cost
  <2>1. e.calls[k].cost \in Int
    BY DEF HasCalls
  <2>2. calls[k] = Sp!CallSpan(e.calls[k], plan, Sp!NoNode, t)
    BY <1>1
  <2>. HIDE DEF calls, plan
  <2>. QED BY <2>1, <2>2, CallIs
<1>4. calls = [k \in 1..n |-> calls[k]]
  BY <1>1
<1>5. two = [k \in 1..2 |-> two[k]] /\ \A k \in 1..2 : two[k] = L \/ two[k] = P
  OBVIOUS
<1>. HIDE DEF L, P, calls, two, loop, plan
<1>6. Spans(two, 2) /\ Spans(calls, n)
  BY <1>2, <1>3, <1>4, <1>5 DEF Spans
<1>7. ASSUME NEW q, IsMeasure(q) PROVE Weight(q, two) = 0
  <2>1. Mass(q, L) = 0 /\ Mass(q, P) = 0
    BY <1>2, <1>7, MassOpen DEF Sp!One
  <2>2. \A k \in 1..2 : Mass(q, two[k]) = 0
    BY <1>5, <2>1
  <2>3. Weight(q, two) = 0
    BY <1>1, <1>6, <2>2, WeightCounts
  <2>. QED BY <2>3
<1>8. \A q : IsMeasure(q) => Weight(q, calls) = Met(q, e) /\ Met(q, e) \in Int
  BY <1>3, <1>6, CallsTold
<1>9. Spans(ts, 2 + n) /\ \A q : Weight(q, ts) = Weight(q, two) + Weight(q, calls)
  BY <1>1, <1>6, WeightJoins
<1>. HIDE DEF ts, m, n
<1>10. /\ Told(grown) /\ grown.open = acc.open
       /\ grown = [spans |-> grown.spans, loopOf |-> grown.loopOf, open |-> grown.open]
       /\ \A q : Weight(q, grown.spans) = Weight(q, acc.spans) + Weight(q, ts)
  <2>. DEFINE c == 2 + n
  <2>1. Spans(ts, c) /\ c \in Nat
    BY <1>1, <1>9
  <2>. HIDE DEF c
  <2>. QED BY <2>1, SpansTold
<1>. DEFINE add     == [x \in e.add \cup DOMAIN grown.loopOf |->
                          IF x \in e.add THEN m + 1 ELSE grown.loopOf[x]]
            patched == Sp!Patched(acc, e, t)
<1>11. patched = [grown EXCEPT !.loopOf = add]
  BY Zenon DEF Sp!Patched, ts, two, L, P, calls, m, loop, plan
<1>. HIDE DEF grown, add, patched
<1>12. patched.spans = grown.spans /\ patched.open = grown.open
  <2>. DEFINE a == grown.spans
              b == grown.loopOf
              c == grown.open
  <2>1. grown = [spans |-> a, loopOf |-> b, open |-> c]
    BY <1>10
  <2>. HIDE DEF a, b, c
  <2>2. patched = [spans |-> a, loopOf |-> add, open |-> c]
    BY <1>11, <2>1
  <2>. QED BY <2>2 DEF a, c
<1>13. Told(patched)
  BY <1>10, <1>12 DEF Told
<1>14. \A q : IsMeasure(q) => Weight(q, patched.spans) = Weight(q, acc.spans) + Met(q, e)
  BY <1>7, <1>8, <1>9, <1>10, <1>12
<1>. QED BY <1>13, <1>14 DEF patched

(* What an event counts for: its calls if it is a decision or an end, its    *)
(* end, its start.                                                           *)
Due(m, e) ==
    IF m.of \in {"calls", "cost"}
    THEN IF e.kind \in DOMAIN Sp!Ends \cup {"graph_patched"} THEN Met(m, e) ELSE 0
    ELSE IF m.of = "ends" THEN Sp!One(e.node = m.node /\ e.kind = m.kind)
    ELSE Sp!One(e.node = m.node /\ e.kind = "task_started")

(* What is counted has become as much more, or at least as much more of the  *)
(* spans of a node: a task that ends without a start has one too.            *)
Gains(m, new, old, due) ==
    /\ new \in Int
    /\ m.of # "nodes" => new = old + due
    /\ m.of = "nodes" => new >= old + due

\* What is built weighs something.
LEMMA WeightTold ==
    ASSUME NEW acc, Known(acc), Told(acc)
    PROVE  \A m : Weight(m, acc.spans) \in Int
<1>1. Len(acc.spans) \in Nat /\ Spans(acc.spans, Len(acc.spans))
  BY DEF Known, IsTree, Told
<1>. QED BY <1>1, WeightIs

\* A start counts for a node.
LEMMA StartedTold ==
    ASSUME NEW acc, Known(acc), Told(acc), NEW e, NEW t \in Int
    PROVE  LET started == Sp!Started(acc, e, t)
           IN /\ Told(started)
              /\ \A m : IsMeasure(m) =>
                    Weight(m, started.spans) = Weight(m, acc.spans) + NodeMass(m, e.node)
<1>. DEFINE node    == e.node
            grown   == Sp!WithNode(acc, node, t)
            n       == Len(grown.spans)
            open    == [x \in DOMAIN grown.open \cup {node} |-> IF x = node THEN n ELSE grown.open[x]]
            started == Sp!Started(acc, e, t)
<1>1. Known(grown) /\ n \in 1..n
  BY NodeStands
<1>2. /\ Told(grown) /\ grown.spans[n].node = node /\ grown.spans[n].state = "none"
      /\ \A m : IsMeasure(m) =>
            Weight(m, grown.spans) = Weight(m, acc.spans) + NodeMass(m, node)
  BY NodeTold
<1>3. started = [grown EXCEPT !.open = open]
  BY Zenon DEF Sp!Started
<1>. HIDE DEF grown, node
<1>4. \A x \in DOMAIN open : grown.spans[open[x]].node = x /\ grown.spans[open[x]].state = "none"
  BY <1>2 DEF Told
<1>. HIDE DEF open, started
<1>5. started.spans = grown.spans /\ started.open = open
  <2>. DEFINE a == grown.spans
              b == grown.loopOf
              c == grown.open
  <2>1. grown = [spans |-> a, loopOf |-> b, open |-> c]
    BY <1>1, Zenon DEF Known
  <2>. HIDE DEF a, b, c
  <2>2. started = [spans |-> a, loopOf |-> b, open |-> open]
    BY <1>3, <2>1
  <2>. QED BY <2>2 DEF a
<1>6. Told(started)
  BY <1>2, <1>4, <1>5 DEF Told
<1>. QED BY <1>2, <1>5, <1>6 DEF started, node

\* A span that is closed counts for its end.
LEMMA MassClosed ==
    ASSUME NEW s, IsSpan(s), s.state = "none", NEW kind \in DOMAIN Sp!Ends, NEW c,
           c.node = s.node, c.state = Sp!Ends[kind], c.kind = s.kind, c.cost = s.cost
    PROVE  \A m : IsMeasure(m) =>
              Mass(m, c) = Mass(m, s) + IF m.of = "ends" THEN Sp!One(s.node = m.node /\ kind = m.kind)
                                        ELSE 0
<1>. SUFFICES ASSUME NEW m, IsMeasure(m)
              PROVE  Mass(m, c) = Mass(m, s) + IF m.of = "ends"
                                               THEN Sp!One(s.node = m.node /\ kind = m.kind) ELSE 0
  OBVIOUS
<1>1. CASE m.of = "ends"
  <2>1. m.kind \in DOMAIN Sp!Ends
    BY <1>1 DEF IsMeasure
  <2>2. Sp!Ends[m.kind] # "none" /\ (Sp!Ends[kind] = Sp!Ends[m.kind] <=> kind = m.kind)
    BY <2>1, EndsDiffer
  <2>3. Mass(m, s) = 0
    BY <1>1, <2>2 DEF Mass, Sp!One
  <2>4. Mass(m, c) = Sp!One(s.node = m.node /\ kind = m.kind)
    BY <1>1, <2>2 DEF Mass, Sp!One
  <2>. QED BY <1>1, <2>3, <2>4 DEF Sp!One
<1>2. CASE m.of # "ends"
  <2>1. Mass(m, c) = Mass(m, s)
    BY <1>2 DEF Mass, IsMeasure
  <2>2. Mass(m, s) \in Int
    BY MassIs
  <2>. QED BY <1>2, <2>1, <2>2
<1>. QED BY <1>1, <1>2

\* An end counts for itself and for its calls.
LEMMA EndedTold ==
    ASSUME NEW acc, Known(acc), Told(acc), NEW e, HasCalls(e, Int), e.kind \in DOMAIN Sp!Ends,
           NEW t \in Int
    PROVE  LET ended == Sp!Ended(acc, e, t)
           IN /\ Told(ended)
              /\ \A m : IsMeasure(m) =>
                    Gains(m, Weight(m, ended.spans), Weight(m, acc.spans), Due(m, e))
<1>. DEFINE was    == e.node \in DOMAIN acc.open
            opened == IF was THEN acc ELSE Sp!WithNode(acc, e.node, t)
            at     == IF was THEN acc.open[e.node] ELSE Len(opened.spans)
            state  == Sp!Ends[e.kind]
            kept   == Closing(opened.spans, at, state, t)
            capped(k) == [e.calls[k] EXCEPT !.latency = Sp!Max({@, 0})]
            calls  == [k \in DOMAIN e.calls |-> Sp!CallSpan(capped(k), at, e.node, t)]
            still  == Sp!Restrict(opened.open, DOMAIN opened.open \ {e.node})
            ended  == Sp!Ended(acc, e, t)
            m      == Len(opened.spans)
            n      == Len(e.calls)
            old    == opened.spans[at]
<1>1. ended = [spans |-> kept \o calls, loopOf |-> opened.loopOf, open |-> still]
  BY Zenon DEF Sp!Ended, Closing
<1>2. /\ Known(opened) /\ at \in 1..m /\ Told(opened)
      /\ old.node = e.node /\ old.state = "none"
      /\ \A q : IsMeasure(q) =>
            Weight(q, opened.spans) = Weight(q, acc.spans) + IF was THEN 0 ELSE NodeMass(q, e.node)
  <2>1. CASE was
    <3>1. \A q : Weight(q, acc.spans) \in Int
      BY WeightTold
    <3>. QED BY <2>1, <3>1 DEF Known, Places, Told
  <2>2. CASE ~was
    BY <2>2, NodeStands, NodeTold
  <2>. QED BY <2>1, <2>2
<1>3. n \in Nat /\ DOMAIN e.calls = 1..n
  BY DEF HasCalls
<1>. HIDE DEF opened, at, was
<1>4. m \in Nat /\ Spans(opened.spans, m)
  BY <1>2 DEF Known, IsTree, Told
<1>5. IsSpan(old)
  BY <1>2, <1>4 DEF Spans
<1>. DEFINE closed == Closed(old, state, t)
<1>6. /\ Spans(kept, m) /\ kept[at] = closed /\ \A k \in 1..m : k # at => kept[k] = opened.spans[k]
      /\ closed.node = old.node /\ closed.state = state /\ closed.kind = old.kind /\ closed.cost = old.cost
      /\ \A q : Weight(q, kept) = Weight(q, opened.spans) + Mass(q, closed) - Mass(q, old)
  <2>. DEFINE s == opened.spans
  <2>1. Spans(s, m) /\ at \in 1..m /\ m \in Nat
    BY <1>2, <1>4
  <2>. HIDE DEF s, state, m
  <2>2. /\ Spans(Closing(s, at, state, t), m) /\ Closing(s, at, state, t)[at] = Closed(s[at], state, t)
        /\ \A k \in 1..m : k # at => Closing(s, at, state, t)[k] = s[k]
    BY <2>1, WeightCloses
  <2>3. closed.node = old.node /\ closed.state = state /\ closed.kind = old.kind /\ closed.cost = old.cost
    <3>. HIDE DEF old
    <3>. QED BY <1>5, EndIs
  <2>4. \A q : Weight(q, Closing(s, at, state, t))
                = Weight(q, s) + Mass(q, Closed(s[at], state, t)) - Mass(q, s[at])
    BY <2>1, WeightCloses
  <2>. QED BY <2>2, <2>3, <2>4 DEF s
<1>. HIDE DEF closed
<1>7. \A q : IsMeasure(q) =>
         Mass(q, closed) = Mass(q, old) + IF q.of = "ends" THEN Sp!One(old.node = q.node /\ e.kind = q.kind)
                                          ELSE 0
  <2>. HIDE DEF old
  <2>. QED BY <1>2, <1>5, <1>6, MassClosed
<1>8. ASSUME NEW k \in 1..n
      PROVE  /\ IsSpan(calls[k]) /\ calls[k].kind = "provider_call" /\ calls[k].state = "none"
             /\ calls[k].cost = e.calls[k].cost
  <2>. DEFINE call == e.calls[k]
              most == Sp!Max({call.latency, 0})
  <2>1. call \in [cost : Int, at : Nat, latency : Int]
    BY DEF HasCalls
  <2>. HIDE DEF call, most
  <2>2. capped(k) = [call EXCEPT !.latency = most]
    BY Zenon DEF call, most
  <2>. HIDE DEF capped
  <2>3. capped(k).cost = call.cost /\ call.cost \in Int
    BY <2>1, <2>2
  <2>4. calls[k] = Sp!CallSpan(capped(k), at, e.node, t)
    BY <1>3
  <2>. HIDE DEF calls
  <2>. QED BY <2>3, <2>4, CallIs DEF call
<1>9. calls = [k \in 1..n |-> calls[k]]
  BY <1>3
<1>. HIDE DEF calls, kept, m, old
<1>10. Spans(calls, n)
  BY <1>8, <1>9 DEF Spans
<1>11. \A q : IsMeasure(q) => Weight(q, calls) = Met(q, e) /\ Met(q, e) \in Int
  BY <1>8, <1>10, CallsTold
<1>. DEFINE u == kept \o calls
<1>. HIDE DEF n
<1>12. Spans(u, m + n) /\ Follow(u, kept, m, calls, n)
       /\ \A q : Weight(q, u) = Weight(q, kept) + Weight(q, calls)
  BY <1>3, <1>4, <1>6, <1>10, WeightJoins
<1>. HIDE DEF u, still, ended
<1>13. ended.spans = u /\ ended.open = still
  BY <1>1 DEF u
<1>14. Told(ended)
  <2>1. Len(u) = m + n
    <3>. DEFINE a == m + n
    <3>1. a \in Nat /\ Spans(u, a)
      BY <1>3, <1>4, <1>12
    <3>. HIDE DEF a
    <3>2. Len(u) = a
      BY <3>1, WeightIs
    <3>. QED BY <3>2 DEF a
  <2>2. ASSUME NEW x \in DOMAIN still PROVE u[still[x]].node = x /\ u[still[x]].state = "none"
    <3>1. x \in DOMAIN opened.open /\ x # e.node /\ still[x] = opened.open[x]
      BY DEF still, Sp!Restrict
    <3>. DEFINE i == still[x]
    <3>2. i \in 1..m
      BY <1>2, <3>1 DEF Known, Places, m
    <3>3. opened.spans[i].node = x /\ opened.spans[i].state = "none"
      BY <1>2, <3>1 DEF Told
    <3>. HIDE DEF i
    <3>4. i # at
      BY <1>2, <3>1, <3>3 DEF old
    <3>5. u[i] = opened.spans[i]
      BY <1>6, <1>12, <3>2, <3>4 DEF Follow
    <3>. QED BY <3>3, <3>5 DEF i
  <2>. QED BY <1>12, <1>13, <2>1, <2>2 DEF Told
<1>15. ASSUME NEW q, IsMeasure(q)
       PROVE  Gains(q, Weight(q, ended.spans), Weight(q, acc.spans), Due(q, e))
  <2>. DEFINE own   == IF q.of = "ends" THEN Sp!One(old.node = q.node /\ e.kind = q.kind) ELSE 0
              added == IF was THEN 0 ELSE NodeMass(q, e.node)
              met   == Met(q, e)
              w     == Weight(q, acc.spans)
  <2>1. Mass(q, old) \in Int /\ w \in Int /\ met \in Int
    BY <1>5, <1>11, <1>15, MassIs, WeightTold
  <2>2. Mass(q, closed) = Mass(q, old) + own
    BY <1>7, <1>15
  <2>3. Weight(q, opened.spans) = w + added
    BY <1>2, <1>15
  <2>4. Weight(q, calls) = met
    BY <1>11, <1>15
  <2>5. /\ own \in Int /\ added \in Int /\ (q.of # "nodes" => added = 0) /\ added >= 0
        /\ q.of # "ends" => own = 0
    BY DEF NodeMass, Sp!One
  <2>. HIDE DEF own, added, met, w
  <2>6. Weight(q, ended.spans) = w + added + own + met
    BY <1>6, <1>12, <1>13, <2>1, <2>2, <2>3, <2>4, <2>5
  <2>7. q.of \in {"calls", "cost"} => Due(q, e) = met
    BY DEF Due, met
  <2>8. q.of = "ends" => Due(q, e) = own /\ met = 0
    BY <1>2 DEF Due, own, met, Met
  <2>9. q.of = "nodes" => Due(q, e) = 0 /\ met = 0
    <3>1. e.kind # "task_started"
      BY EndsDiffer
    <3>. QED BY <3>1 DEF Due, met, Met, Sp!One
  <2>10. Gains(q, Weight(q, ended.spans), w, Due(q, e))
    BY <1>15, <2>1, <2>5, <2>6, <2>7, <2>8, <2>9 DEF Gains, IsMeasure
  <2>. QED BY <2>10 DEF w
<1>. QED BY <1>14, <1>15 DEF ended

\* What an event counts for is a number.
LEMMA DueIs ==
    ASSUME NEW e, HasCalls(e, Int)
    PROVE  \A m : IsMeasure(m) => Due(m, e) \in Int
<1>. SUFFICES ASSUME NEW m, IsMeasure(m) PROVE Due(m, e) \in Int
  OBVIOUS
<1>. DEFINE n == Len(e.calls)
            g == CallCosts(e)
<1>1. n \in Nat /\ \A k \in 1..n : At(g, k) \in Int
  BY DEF HasCalls, At, CallCosts
<1>2. Sp!Total(n, g) \in Int
  <2>1. n \in Nat /\ \A k \in 1..n : At(g, k) \in Int /\ At(g, k) = At(g, k)
    BY <1>1
  <2>. HIDE DEF n, g
  <2>. QED BY <2>1, TotalDepends
<1>3. Met(m, e) \in Int
  BY <1>1, <1>2 DEF Met
<1>. QED BY <1>3 DEF Due, Sp!One

\* Each event that is read counts for itself.
LEMMA ReadTold ==
    ASSUME NEW acc, Known(acc), Told(acc), NEW e, HasCalls(e, Int), NEW t \in Int
    PROVE  /\ Told(Sp!Read(acc, e, t))
           /\ \A m : IsMeasure(m) =>
                 Gains(m, Weight(m, Sp!Read(acc, e, t).spans), Weight(m, acc.spans), Due(m, e))
<1>. DEFINE read == Sp!Read(acc, e, t)
<1>1. \A m : Weight(m, acc.spans) \in Int
  BY WeightTold
<1>2. \A m : IsMeasure(m) => Due(m, e) \in Int
  BY DueIs
<1>3. CASE e.kind = "graph_patched"
  <2>. DEFINE patched == Sp!Patched(acc, e, t)
  <2>1. read = patched
    BY <1>3, EndsDiffer DEF Sp!Read
  <2>2. Told(patched) /\ \A m : IsMeasure(m) =>
                            Weight(m, patched.spans) = Weight(m, acc.spans) + Met(m, e)
    BY PatchedTold
  <2>. HIDE DEF read, patched
  <2>3. ASSUME NEW m, IsMeasure(m) PROVE Due(m, e) = Met(m, e)
    <3>1. m.of = "ends" => m.kind # e.kind
      BY <1>3, <2>3, EndsDiffer DEF IsMeasure
    <3>. QED BY <1>3, <2>3, <3>1 DEF Due, Met, Sp!One, IsMeasure
  <2>4. ASSUME NEW m, IsMeasure(m)
        PROVE  Gains(m, Weight(m, read.spans), Weight(m, acc.spans), Due(m, e))
    <3>1. Weight(m, read.spans) = Weight(m, acc.spans) + Due(m, e)
      BY <2>1, <2>2, <2>3, <2>4
    <3>. QED BY <1>1, <1>2, <2>4, <3>1 DEF Gains
  <2>. QED BY <2>1, <2>2, <2>4 DEF read
<1>4. CASE e.kind = "task_started"
  <2>. DEFINE started == Sp!Started(acc, e, t)
  <2>1. read = started
    BY <1>4, EndsDiffer DEF Sp!Read
  <2>2. Told(started) /\ \A m : IsMeasure(m) =>
                            Weight(m, started.spans) = Weight(m, acc.spans) + NodeMass(m, e.node)
    BY StartedTold
  <2>. HIDE DEF read, started
  <2>3. ASSUME NEW m, IsMeasure(m) PROVE Due(m, e) = NodeMass(m, e.node)
    <3>1. m.of = "ends" => m.kind # e.kind
      BY <1>4, <2>3, EndsDiffer DEF IsMeasure
    <3>2. e.kind \notin DOMAIN Sp!Ends \cup {"graph_patched"}
      BY <1>4, EndsDiffer
    <3>. QED BY <1>4, <2>3, <3>1, <3>2 DEF Due, NodeMass, Sp!One, IsMeasure
  <2>4. ASSUME NEW m, IsMeasure(m)
        PROVE  Gains(m, Weight(m, read.spans), Weight(m, acc.spans), Due(m, e))
    <3>1. Weight(m, read.spans) = Weight(m, acc.spans) + Due(m, e)
      BY <2>1, <2>2, <2>3, <2>4
    <3>. QED BY <1>1, <1>2, <2>4, <3>1 DEF Gains
  <2>. QED BY <2>1, <2>2, <2>4 DEF read
<1>5. CASE e.kind \in DOMAIN Sp!Ends
  <2>1. read = Sp!Ended(acc, e, t)
    BY <1>5, EndsDiffer DEF Sp!Read
  <2>. HIDE DEF read
  <2>2. Told(read) /\ \A m : IsMeasure(m) =>
                         Gains(m, Weight(m, read.spans), Weight(m, acc.spans), Due(m, e))
    BY <1>5, <2>1, EndedTold
  <2>. QED BY <2>2 DEF read
<1>6. CASE e.kind # "graph_patched" /\ e.kind # "task_started" /\ e.kind \notin DOMAIN Sp!Ends
  <2>1. read = acc
    BY <1>6 DEF Sp!Read
  <2>. HIDE DEF read
  <2>2. ASSUME NEW m, IsMeasure(m) PROVE Due(m, e) = 0
    <3>1. m.of = "ends" => m.kind # e.kind
      BY <1>6, <2>2 DEF IsMeasure
    <3>. QED BY <1>6, <2>2, <3>1 DEF Due, Sp!One, IsMeasure
  <2>3. ASSUME NEW m, IsMeasure(m)
        PROVE  Gains(m, Weight(m, read.spans), Weight(m, acc.spans), Due(m, e))
    BY <1>1, <2>1, <2>2, <2>3 DEF Gains
  <2>. QED BY <2>1, <2>3 DEF read
<1>. QED BY <1>3, <1>4, <1>5, <1>6

(* What the events of a journal count for, and that it has been counted.     *)
Dues(m, events) == [k \in DOMAIN events |-> Due(m, events[k])]
Reaches(m, all, due) ==
    /\ all \in Int /\ due \in Int
    /\ m.of # "nodes" => all = due
    /\ m.of = "nodes" => all >= due

\* A journal counts for its events, however far it is read.
LEMMA JournalTold ==
    ASSUME NEW events, IsJournal(events, Int), NEW now \in Int,
           NEW f, ReadUpTo(f, events, now, Len(events))
    PROVE  \A n \in 0..Len(events) :
              /\ Told(f[n])
              /\ \A m : IsMeasure(m) =>
                    Reaches(m, Weight(m, f[n].spans), Sp!Total(n, Dues(m, events)))
<1>. DEFINE l == Len(events)
            Right(n) == /\ Told(f[n])
                        /\ \A m : IsMeasure(m) =>
                              Reaches(m, Weight(m, f[n].spans), Sp!Total(n, Dues(m, events)))
            S == {n \in Nat : n <= l => Right(n)}
<1>1. l \in Nat /\ DOMAIN events = 1..l /\ \A k \in 1..l : HasCalls(events[k], Int)
  BY DEF IsJournal
<1>2. \A n \in 0..l : f[n] = After(f, events, now, n) /\ Known(f[n])
  BY JournalKnown DEF ReadUpTo
<1>3. 0 \in S
  <2>. DEFINE t    == Sp!Clock(events, now, 1)
              root == Sp!Span("run", 0, Sp!NoNode, t, Sp!NoEnd)
              one  == <<root>>
  <2>1. f[0] = [spans |-> one, loopOf |-> <<>>, open |-> <<>>]
    <3>1. 0 \in 0..l
      BY <1>1
    <3>. QED BY <1>2, <3>1, Zenon DEF After, Sp!Fresh
  <2>2. IsSpan(root) /\ root.kind = "run" /\ root.state = "none"
    BY SpanIs
  <2>. HIDE DEF root
  <2>3. Spans(one, 1) /\ \A m : Weight(m, one) = Mass(m, root)
    BY <2>2, WeightOfOne
  <2>4. Len(one) = 1
    OBVIOUS
  <2>. HIDE DEF one
  <2>5. f[0].spans = one /\ f[0].open = <<>>
    BY <2>1
  <2>6. Told(f[0])
    <3>1. DOMAIN <<>> = {}
      OBVIOUS
    <3>2. DOMAIN f[0].open = {}
      BY <2>5, <3>1
    <3>. QED BY <2>3, <2>4, <2>5, <3>2 DEF Told
  <2>7. ASSUME NEW m, IsMeasure(m)
        PROVE  Reaches(m, Weight(m, f[0].spans), Sp!Total(0, Dues(m, events)))
    <3>1. Mass(m, root) = 0
      BY <2>2, <2>7, MassOpen DEF Sp!One
    <3>2. Sp!Total(0, Dues(m, events)) = 0
      <4>1. 0 \in Nat
        OBVIOUS
      <4>. QED BY <4>1, TotalUnfolds
    <3>. QED BY <2>3, <2>5, <3>1, <3>2 DEF Reaches
  <2>. QED BY <2>6, <2>7
<1>4. ASSUME NEW n \in Nat, n \in S PROVE n + 1 \in S
  <2>. SUFFICES ASSUME n + 1 <= l PROVE Right(n + 1)
    OBVIOUS
  <2>. DEFINE k == n + 1
              e == events[k]
              t == Sp!Clock(events, now, k)
              acc == f[n]
  <2>1. n \in 0..l /\ k \in 0..l /\ k \in 1..l /\ k # 0 /\ k - 1 = n /\ k \in Int /\ n <= l
    BY <1>1
  <2>2. Right(n)
    BY <1>4, <2>1
  <2>3. Known(acc) /\ Told(acc) /\ HasCalls(e, Int)
    BY <1>1, <1>2, <2>1, <2>2
  <2>4. t \in Int
    <3>. HIDE DEF k
    <3>. QED BY <2>1, ClockShows
  <2>5. f[k] = Sp!Read(acc, e, t)
    <3>1. f[k] = After(f, events, now, k)
      BY <1>2, <2>1
    <3>. HIDE DEF k
    <3>. QED BY <2>1, <3>1 DEF After
  <2>. HIDE DEF t, e, acc
  <2>6. /\ Told(f[k])
        /\ \A m : IsMeasure(m) => Gains(m, Weight(m, f[k].spans), Weight(m, acc.spans), Due(m, e))
    BY <2>3, <2>4, <2>5, ReadTold
  <2>7. ASSUME NEW m, IsMeasure(m)
        PROVE  Reaches(m, Weight(m, f[k].spans), Sp!Total(k, Dues(m, events)))
    <3>. DEFINE all == Weight(m, f[k].spans)
                w   == Weight(m, acc.spans)
                d   == Dues(m, events)
    <3>1. Gains(m, all, w, Due(m, e))
      BY <2>6, <2>7
    <3>2. Reaches(m, w, Sp!Total(n, d))
      BY <2>2, <2>7 DEF acc
    <3>3. Sp!Total(n + 1, d) = Sp!Total(n, d) + At(d, n + 1)
      BY TotalUnfolds
    <3>4. At(d, n + 1) = Due(m, e)
      BY <1>1, <2>1 DEF At, Dues, e
    <3>5. Due(m, e) \in Int
      BY <2>3, <2>7, DueIs
    <3>. HIDE DEF all, w, d
    <3>6. Reaches(m, all, Sp!Total(n + 1, d))
      BY <3>1, <3>2, <3>3, <3>4, <3>5 DEF Reaches, Gains
    <3>. QED BY <3>6 DEF all, d
  <2>. QED BY <2>6, <2>7
<1>5. ASSUME NEW n \in 0..l PROVE Right(n)
  <2>1. Nat \subseteq S
    <3>. HIDE DEF S
    <3>. QED BY <1>3, <1>4, AllNumbers
  <2>2. n \in Nat /\ n <= l
    OBVIOUS
  <2>. HIDE DEF Right
  <2>. QED BY <2>1, <2>2
<1>. QED BY <1>5

\* Resolving the times of a tree changes nothing that is counted.
LEMMA ResolvedKeeps ==
    ASSUME NEW spans, IsTree(spans), Spans(spans, Len(spans)), NEW last
    PROVE  /\ Spans(Sp!Resolved(spans, last), Len(spans))
           /\ \A m : Weight(m, Sp!Resolved(spans, last)) = Weight(m, spans)
<1>. DEFINE n == Len(spans)
            f == Sp!Resolved(spans, last)
<1>1. n \in Nat /\ DOMAIN spans = 1..n /\ \A i \in 1..n : IsSpan(spans[i])
  BY DEF IsTree, Spans
<1>2. f = [i \in 1..n |-> Cover(spans, last, f, i)]
  <2>1. Covers(f, spans, last, 1)
    BY TimesResolve
  <2>. HIDE DEF f
  <2>. QED BY <2>1 DEF Covers
<1>. HIDE DEF f
<1>3. f = [i \in 1..n |-> f[i]] /\ \A i \in 1..n : f[i] = Cover(spans, last, f, i)
  <2>1. \A i \in 1..n : f[i] = Cover(spans, last, f, i)
    BY <1>2
  <2>2. f = [i \in 1..n |-> f[i]]
    BY <1>2
  <2>. QED BY <2>1, <2>2
<1>4. ASSUME NEW i \in 1..n
      PROVE  IsSpan(f[i]) /\ \A m : Mass(m, f[i]) = Mass(m, spans[i])
  <2>. DEFINE x == spans[i]
              s == Sp!Min({f[j].start : j \in Under(spans, i)} \cup {spans[i].start})
  <2>1. \E e : f[i] = [x EXCEPT !.start = s, !.end = e]
    BY <1>3, Zenon DEF Cover
  <2>2. PICK e : f[i] = [x EXCEPT !.start = s, !.end = e]
    BY <2>1
  <2>3. IsSpan(x)
    BY <1>1
  <2>. HIDE DEF x, s
  <2>. DEFINE c == [x EXCEPT !.start = s, !.end = e]
  <2>4. IsSpan(c)
    BY <2>3 DEF IsSpan
  <2>5. c.node = x.node /\ c.state = x.state
    BY <2>3 DEF IsSpan
  <2>6. c.kind = x.kind /\ c.cost = x.cost
    BY <2>3 DEF IsSpan
  <2>. HIDE DEF c
  <2>7. \A m : Mass(m, c) = Mass(m, x)
    BY <2>5, <2>6 DEF Mass
  <2>8. f[i] = c
    BY <2>2 DEF c
  <2>. QED BY <2>4, <2>7, <2>8 DEF x
<1>5. Spans(f, n)
  BY <1>3, <1>4 DEF Spans
<1>6. ASSUME NEW m PROVE Weight(m, f) = Weight(m, spans)
  <2>. DEFINE g == Masses(m, spans)
              h == Masses(m, f)
  <2>. HIDE DEF n
  <2>1. /\ \A k \in 1..n : At(g, k) = Mass(m, spans[k]) /\ At(g, k) \in Int
        /\ Weight(m, spans) = Sp!Total(n, g)
    BY <1>1, WeightIs DEF n
  <2>2. /\ \A k \in 1..n : At(h, k) = Mass(m, f[k])
        /\ Weight(m, f) = Sp!Total(n, h)
    BY <1>1, <1>5, WeightIs
  <2>3. \A k \in 1..n : At(g, k) \in Int /\ At(g, k) = At(h, k)
    BY <1>4, <2>1, <2>2
  <2>. HIDE DEF g, h
  <2>4. Sp!Total(n, g) = Sp!Total(n, h)
    BY <1>1, <2>3, TotalDepends
  <2>. QED BY <2>1, <2>2, <2>4
<1>. QED BY <1>5, <1>6 DEF f

\* What a trace holds is what its journal counts for.
LEMMA TraceCounts ==
    ASSUME NEW events, IsJournal(events, Int), NEW now \in Int
    PROVE  \A m : IsMeasure(m) =>
              Reaches(m, Weight(m, Sp!BuildSpanTree(events, now)),
                      Sp!Total(Len(events), Dues(m, events)))
<1>. DEFINE n     == Len(events)
            i     == IF events = <<>> THEN 1 ELSE Len(events)
            last  == Sp!Clock(events, now, i)
            spans == Sp!Unresolved(events, now)
            tree  == Sp!BuildSpanTree(events, now)
<1>1. n \in Nat /\ n \in 0..n
  BY DEF IsJournal
<1>2. PICK f : ReadUpTo(f, events, now, n) /\ Sp!Unresolved(events, now) = f[n].spans
  BY <1>1, JournalIsRead
<1>3. Known(f[n])
  BY <1>1, <1>2, JournalKnown
<1>4. /\ Told(f[n])
      /\ \A m : IsMeasure(m) => Reaches(m, Weight(m, f[n].spans), Sp!Total(n, Dues(m, events)))
  BY <1>1, <1>2, JournalTold
<1>5. IsTree(spans) /\ Spans(spans, Len(spans))
  BY <1>2, <1>3, <1>4 DEF Known, Told
<1>6. tree = Sp!Resolved(spans, last)
  BY Zenon DEF Sp!BuildSpanTree
<1>7. \A m : Weight(m, spans) = Weight(m, f[n].spans)
  BY <1>2
<1>. HIDE DEF last, spans, tree
<1>8. \A m : Weight(m, tree) = Weight(m, spans)
  BY <1>5, <1>6, ResolvedKeeps
<1>9. \A m : IsMeasure(m) => Reaches(m, Weight(m, tree), Sp!Total(n, Dues(m, events)))
  BY <1>4, <1>7, <1>8
<1>. QED BY <1>9 DEF tree

(* The measures of the four things a trace tells.                            *)
CallsMade == [of |-> "calls"]
CallsCost == [of |-> "cost"]
EndsOfNode(node, kind) == [of |-> "ends", node |-> node, kind |-> kind]
SpansOfNode(node) == [of |-> "nodes", node |-> node]

\* What the measures count in the spans.
LEMMA MeasuredSpans ==
    ASSUME NEW spans
    PROVE  /\ Sp!Totals(spans) = [calls |-> Weight(CallsMade, spans), cost |-> Weight(CallsCost, spans)]
           /\ \A node, kind : Weight(EndsOfNode(node, kind), spans)
                 = Sp!EndsShown(spans, node, kind)
           /\ \A node : Weight(SpansOfNode(node), spans)
                 = Sp!SpansShown(spans, node)
<1>1. Masses(CallsMade, spans) = [i \in DOMAIN spans |-> Sp!One(spans[i].kind = "provider_call")]
  BY DEF Masses, Mass, CallsMade
<1>2. Masses(CallsCost, spans)
        = [i \in DOMAIN spans |-> IF spans[i].kind = "provider_call" THEN spans[i].cost ELSE 0]
  BY DEF Masses, Mass, CallsCost
<1>3. ASSUME NEW node, NEW kind
      PROVE  Masses(EndsOfNode(node, kind), spans)
               = [i \in DOMAIN spans |-> Sp!One(spans[i].node = node /\ spans[i].state = Sp!Ends[kind])]
  BY DEF Masses, Mass, EndsOfNode
<1>4. ASSUME NEW node
      PROVE  Masses(SpansOfNode(node), spans)
               = [i \in DOMAIN spans |-> Sp!One(spans[i].node = node /\ spans[i].kind = "node")]
  BY DEF Masses, Mass, SpansOfNode
<1>5. Sp!Totals(spans) = [calls |-> Weight(CallsMade, spans), cost |-> Weight(CallsCost, spans)]
  BY <1>1, <1>2, Zenon DEF Sp!Totals, Sp!Amount, Weight
<1>6. ASSUME NEW node, NEW kind
      PROVE  Weight(EndsOfNode(node, kind), spans)
                 = Sp!EndsShown(spans, node, kind)
  <2>. DEFINE f == [i \in DOMAIN spans |->
                      Sp!One(spans[i].node = node /\ spans[i].state = Sp!Ends[kind])]
  <2>1. Masses(EndsOfNode(node, kind), spans) = f
    BY <1>3
  <2>2. Sp!EndsShown(spans, node, kind)
          = Sp!Total(Len(spans), f)
    BY DEF Sp!EndsShown, Sp!Amount
  <2>. HIDE DEF f
  <2>. QED BY <2>1, <2>2 DEF Weight
<1>7. ASSUME NEW node
      PROVE  Weight(SpansOfNode(node), spans)
                 = Sp!SpansShown(spans, node)
  BY <1>4, Zenon DEF Sp!SpansShown, Sp!Amount, Weight
<1>. QED BY <1>5, <1>6, <1>7

\* What the measures count in the journal.
LEMMA MeasuredEvents ==
    ASSUME NEW events, IsJournal(events, Int)
    PROVE  /\ Sp!Metered(events)
                = [calls |-> Sp!Total(Len(events), Dues(CallsMade, events)),
                   cost  |-> Sp!Total(Len(events), Dues(CallsCost, events))]
           /\ \A node, kind : Sp!Total(Len(events), Dues(EndsOfNode(node, kind), events))
                 = Sp!EndsHad(events, node, kind)
           /\ \A node : Sp!Total(Len(events), Dues(SpansOfNode(node), events))
                 = Sp!StartsHad(events, node)
<1>. DEFINE told(e) == e.kind \in DOMAIN Sp!Ends \cup {"graph_patched"}
            f == [i \in DOMAIN events |-> IF told(events[i]) THEN Len(events[i].calls) ELSE 0]
            g == [i \in DOMAIN events |->
                    IF told(events[i])
                    THEN Sp!Total(Len(events[i].calls), CallCosts(events[i])) ELSE 0]
<1>1. Dues(CallsMade, events) = f
  BY DEF Dues, Due, Met, CallsMade
<1>2. Dues(CallsCost, events) = g
  BY DEF Dues, Due, Met, CallsCost
<1>3. Sp!Metered(events) = [calls |-> Sp!Total(Len(events), f), cost |-> Sp!Total(Len(events), g)]
  BY Zenon DEF Sp!Metered, Sp!Amount, CallCosts
<1>4. ASSUME NEW node, NEW kind
      PROVE  Sp!Total(Len(events), Dues(EndsOfNode(node, kind), events))
                 = Sp!EndsHad(events, node, kind)
  <2>. DEFINE h == [i \in DOMAIN events |-> Sp!One(events[i].node = node /\ events[i].kind = kind)]
  <2>1. Dues(EndsOfNode(node, kind), events) = h
    BY DEF Dues, Due, EndsOfNode
  <2>2. Sp!EndsHad(events, node, kind) = Sp!Total(Len(events), h)
    BY DEF Sp!EndsHad, Sp!Amount
  <2>. HIDE DEF h
  <2>. QED BY <2>1, <2>2
<1>5. ASSUME NEW node
      PROVE  Sp!Total(Len(events), Dues(SpansOfNode(node), events))
                 = Sp!StartsHad(events, node)
  <2>. DEFINE h == [i \in DOMAIN events |->
                      Sp!One(events[i].node = node /\ events[i].kind = "task_started")]
  <2>1. Dues(SpansOfNode(node), events) = h
    BY DEF Dues, Due, SpansOfNode
  <2>2. Sp!StartsHad(events, node)
          = Sp!Total(Len(events), h)
    BY DEF Sp!StartsHad, Sp!Amount
  <2>. HIDE DEF h
  <2>. QED BY <2>1, <2>2
<1>. HIDE DEF f, g
<1>6. Sp!Metered(events)
        = [calls |-> Sp!Total(Len(events), Dues(CallsMade, events)),
           cost  |-> Sp!Total(Len(events), Dues(CallsCost, events))]
  BY <1>1, <1>2, <1>3
<1>. QED BY <1>4, <1>5, <1>6

\* The trace rebuilt from a journal stands, whatever the journal says of its
\* tasks and whenever its calls say they ran: the spans nest, the calls of the
\* decisions and ends are there once each and add up to their cost, each end is
\* a span in its state, and no start is without a span (build_span_tree,
\* SpanExport.totals).
THEOREM TraceAlwaysStands ==
    ASSUME NEW events, IsJournal(events, Int), NEW now \in Int
    PROVE  Sp!TraceStands(events, now)
<1>. DEFINE spans == Sp!BuildSpanTree(events, now)
            l     == Len(events)
<1>1. Sp!SpansNest(spans)
  BY TracesAlwaysNest
<1>2. \A m : IsMeasure(m) => Reaches(m, Weight(m, spans), Sp!Total(l, Dues(m, events)))
  BY TraceCounts
<1>. HIDE DEF spans, l
<1>3. IsMeasure(CallsMade) /\ CallsMade.of = "calls" /\ IsMeasure(CallsCost) /\ CallsCost.of = "cost"
  BY DEF IsMeasure, CallsMade, CallsCost
<1>4. /\ Weight(CallsMade, spans) = Sp!Total(l, Dues(CallsMade, events))
      /\ Weight(CallsCost, spans) = Sp!Total(l, Dues(CallsCost, events))
  BY <1>2, <1>3 DEF Reaches
<1>5. Sp!Totals(spans) = Sp!Metered(events)
  BY <1>4, MeasuredSpans, MeasuredEvents DEF l
<1>6. ASSUME NEW n, NEW kind \in DOMAIN Sp!Ends
      PROVE  Sp!EndsShown(spans, n, kind) = Sp!EndsHad(events, n, kind)
  <2>. DEFINE m == EndsOfNode(n, kind)
  <2>1. IsMeasure(m) /\ m.of = "ends"
    BY DEF IsMeasure, EndsOfNode
  <2>2. Sp!EndsShown(spans, n, kind) = Weight(m, spans)
    BY MeasuredSpans
  <2>3. Sp!EndsHad(events, n, kind) = Sp!Total(l, Dues(m, events))
    BY MeasuredEvents DEF l
  <2>. HIDE DEF m
  <2>4. Weight(m, spans) = Sp!Total(l, Dues(m, events))
    BY <1>2, <2>1 DEF Reaches
  <2>. QED BY <2>2, <2>3, <2>4
<1>7. ASSUME NEW n PROVE Sp!SpansShown(spans, n) >= Sp!StartsHad(events, n)
  <2>. DEFINE m == SpansOfNode(n)
  <2>1. IsMeasure(m) /\ m.of = "nodes"
    BY DEF IsMeasure, SpansOfNode
  <2>2. Sp!SpansShown(spans, n) = Weight(m, spans)
    BY MeasuredSpans
  <2>3. Sp!StartsHad(events, n) = Sp!Total(l, Dues(m, events))
    BY MeasuredEvents DEF l
  <2>. HIDE DEF m
  <2>4. Weight(m, spans) >= Sp!Total(l, Dues(m, events))
    BY <1>2, <2>1 DEF Reaches
  <2>. QED BY <2>2, <2>3, <2>4
<1>. QED BY <1>1, <1>5, <1>6, <1>7, Zenon DEF Sp!TraceStands, spans

\* The journals of a run are journals.
LEMMA JournalsStand == ASSUME NEW j \in Journals PROVE IsJournal(j, Int)
<1>1. ASSUME NEW x, NEW y, x \in [cost : Int, at : Nat, latency : Int],
             y \in [cost : Int, at : Nat, latency : Int], NEW e,
             e.calls = <<>> \/ e.calls = <<x>> \/ e.calls = <<x, y>>
      PROVE  HasCalls(e, Int)
  <2>1. CASE e.calls = <<>>
    BY <2>1 DEF HasCalls
  <2>2. CASE e.calls = <<x>>
    BY <1>1, <2>2 DEF HasCalls
  <2>3. CASE e.calls = <<x, y>>
    BY <1>1, <2>3 DEF HasCalls
  <2>. QED BY <1>1, <2>1, <2>2, <2>3
<1>2. ASSUME NEW e \in JournalEvents PROVE HasCalls(e, Int)
  <2>. DEFINE p == Call(1, 0, 3)
              q == Call(2, 9, -1)
              r == Call(3, 4, 2)
              s == Call(1, 0, -1)
  <2>1. p \in [cost : Int, at : Nat, latency : Int] /\ q \in [cost : Int, at : Nat, latency : Int]
        /\ r \in [cost : Int, at : Nat, latency : Int] /\ s \in [cost : Int, at : Nat, latency : Int]
    BY DEF Call
  <2>. DEFINE T == {Event(k, n, {}, <<>>) : k \in {"task_started", "task_waiting", "task_cancelled"},
                                             n \in {"a", "b"}}
  <2>2. \/ e = Event("graph_patched", Sp!NoNode, {"a"}, <<>>)
        \/ e = Event("graph_patched", Sp!NoNode, {}, <<p, q>>)
        \/ e = Event("task_succeeded", "a", {}, <<r>>)
        \/ e = Event("task_failed", "b", {}, <<s>>)
        \/ e \in T
    <3>1. JournalEvents = {Event("graph_patched", Sp!NoNode, {"a"}, <<>>),
                           Event("graph_patched", Sp!NoNode, {}, <<p, q>>),
                           Event("task_succeeded", "a", {}, <<r>>),
                           Event("task_failed", "b", {}, <<s>>)} \cup T
      BY DEF JournalEvents
    <3>. HIDE DEF p, q, r, s, T
    <3>. QED BY <3>1
  <2>6. e \in T => \E k, n, add : e = Event(k, n, add, <<>>)
    OBVIOUS
  <2>. HIDE DEF T
  <2>. HIDE DEF p, q, r, s
  <2>3. \/ \E k, n, add : e = Event(k, n, add, <<>>)
        \/ \E k, n, add : e = Event(k, n, add, <<p, q>>)
        \/ \E k, n, add : e = Event(k, n, add, <<r>>)
        \/ \E k, n, add : e = Event(k, n, add, <<s>>)
    BY <2>2, <2>6
  <2>4. ASSUME NEW k, NEW n, NEW add, NEW calls PROVE Event(k, n, add, calls).calls = calls
    BY DEF Event
  <2>5. e.calls = <<>> \/ e.calls = <<p, q>> \/ e.calls = <<r>> \/ e.calls = <<s>>
    BY <2>3, <2>4
  <2>7. ASSUME e.calls = <<>> \/ e.calls = <<p, q>> PROVE HasCalls(e, Int)
    BY <1>1, <2>1, <2>7, Zenon
  <2>8. ASSUME NEW x \in {r, s}, e.calls = <<x>> PROVE HasCalls(e, Int)
    <3>1. x \in [cost : Int, at : Nat, latency : Int]
      BY <2>1
    <3>. QED BY <1>1, <2>8, <3>1, Zenon
  <2>. QED BY <2>5, <2>7, <2>8
<1>3. 4 \in Nat /\ j \in UpTo(JournalEvents, 4)
  BY DEF Journals
<1>4. Len(j) \in Nat /\ DOMAIN j = 1..Len(j) /\ \A i \in DOMAIN j : j[i] \in JournalEvents
  BY <1>3, UpToIs
<1>. QED BY <1>2, <1>4 DEF IsJournal

(* What the run traces.                                                      *)
TraceInput == case.alg = "trace" => IsJournal(case.events, Int)

(* Every journal the run picks, and by the theorem above any other: the      *)
(* trace nests, shows each metered call once and each end in its state.      *)
THEOREM TracesAlwaysStand == Spec => []TracesStand
<1>1. Init => TraceInput
  BY DEF Init, NoCase, TraceInput
<1>2. TraceInput /\ [Next]_case => TraceInput'
  <2>1. ASSUME PickTrace PROVE TraceInput'
    <3>1. PICK j \in Journals : case' = [alg |-> "trace", events |-> j]
      BY <2>1 DEF PickTrace, Pick
    <3>2. case'.events = j /\ IsJournal(j, Int)
      BY <3>1, JournalsStand
    <3>. QED BY <3>2 DEF TraceInput
  <2>2. ASSUME TraceInput, UNCHANGED case PROVE TraceInput'
    BY <2>2 DEF TraceInput
  <2>3. ASSUME Next, ~PickTrace PROVE TraceInput'
    BY <2>3, Picked DEF TraceInput
  <2>. QED BY <2>1, <2>2, <2>3
<1>3. TraceInput => TracesStand
  <2>. SUFFICES ASSUME TraceInput, case.alg = "trace"
                PROVE  Sp!TraceStands(case.events, 5)
    BY DEF TracesStand
  <2>1. IsJournal(case.events, Int) /\ 5 \in Int
    BY DEF TraceInput
  <2>. QED BY <2>1, TraceAlwaysStands
<1>. QED BY <1>1, <1>2, <1>3, PTL DEF Spec
=============================================================================
