----------------------------- MODULE BudgetProofs -----------------------------
(* What the money of a run guarantees for any ladder, prices, ceilings and   *)
(* frontier: its types, how far calls admitted together may pass the         *)
(* allowance, and how far they may pass the call ceilings.                   *)
EXTENDS Budget, FiniteSetTheorems, TLAPS

(* A set of naturals below a bound has a largest member.                     *)
LEMMA LargestExists ==
    ASSUME NEW n \in Nat, NEW F \in SUBSET (1..n), F # {}
    PROVE  \E t \in F : \A u \in F : u <= t
<1>. DEFINE R == {p \in Nat \X Nat : p[1] < p[2]}
            T == {k \in Nat : n - k \in F}
<1>1. IsWellFoundedOn(R, Nat)
  BY NatLessThanWellFounded DEF OpToRel
<1>2. \A u \in F : n - u \in T /\ u \in Nat
  <2>. SUFFICES ASSUME NEW u \in F PROVE n - u \in T /\ u \in Nat
    OBVIOUS
  <2>1. n - u \in Nat /\ n - (n - u) = u
    OBVIOUS
  <2>. QED BY <2>1
<1>3. T \subseteq Nat /\ T # {}
  BY <1>2
<1>4. PICK k \in T : \A y \in T : ~(<<y, k>> \in R)
  <2>. HIDE DEF R, T
  <2>. QED BY <1>1, <1>3, WFMin
<1>5. ASSUME NEW u \in F PROVE u <= n - k
  <2>1. ~(n - u < k)
    BY <1>2, <1>4
  <2>. QED BY <1>2, <2>1
<1>. QED BY <1>5

(* The money left, and a slice of it, never exceed the allowance.            *)
LEMMA SharesBounded ==
    ASSUME BudgetTypeOK, NEW F \in SUBSET Nodes, F # {}
    PROVE  Remaining \in 0..Total /\ Share(F) \in 0..Total
<1>. USE BudgetConstants
<1>1. Remaining \in 0..Total
  BY DEF Remaining, BudgetTypeOK
<1>2. Cardinality(F) \in Nat \ {0}
  BY FS_Subset, FS_CardinalityType, FS_EmptySet
<1>3. \A m \in 0..Total, k \in Nat \ {0} : m \div k \in 0..Total
  OBVIOUS
<1>. QED BY <1>1, <1>2, <1>3 DEF Share

\* A call site is a worker of a node, or the planner; the two are told apart.
LEMMA Owners ==
    /\ \A w \in Workers : w \in Sites /\ w # Planner /\ Owner(w) = w[1] /\ w[1] \in Nodes
    /\ \A s \in Sites : s # Planner => s \in Workers
    /\ \A s \in Sites : Owner(s) \in Nodes \cup {Planner} /\ Requested[Owner(s)] \in Tiers
  BY BudgetConstants DEF Owner, Sites, Workers

(* What decide() answers when it does not refuse: the ceilings are open, and *)
(* the price of the chosen tier leaves the headroom unspent.  A free call    *)
(* would fit an overdrawn run: what refuses it is the exhaustion test.       *)
LEMMA DecisionFits ==
    ASSUME BudgetTypeOK, NEW s \in Sites, NEW c, Decide(s, c).action # "refuse"
    PROVE  /\ Decide(s, c).action \in {"proceed", "downgrade", "branch"}
           /\ Decide(s, c).tier \in Tiers /\ Decide(s, c).tier <= Requested[Owner(s)]
           /\ spent + Price[Decide(s, c).tier] + Headroom <= Total
           /\ ~CeilingHit(s)
<1>. USE BudgetConstants
<1>0. /\ Requested[Owner(s)] \in Tiers /\ StartRung(Requested[Owner(s)]) \in Tiers
      /\ StartRung(Requested[Owner(s)]) <= Requested[Owner(s)]
  BY Owners DEF StartRung, Tiers, BudgetTypeOK
<1>1. ~CeilingHit(s) /\ spent < RefuseAt
  BY DEF Decide, Decision, BudgetTypeOK
<1>r. \A t \in Tiers : Price[t] + Headroom <= Remaining => spent + Price[t] + Headroom <= Total
  BY <1>1 DEF Remaining, BudgetTypeOK
<1>2. CASE Fitting(s, c) # {}
  <2>. DEFINE best == CHOOSE t \in Fitting(s, c) : \A u \in Fitting(s, c) : u <= t
  <2>1. Fitting(s, c) \in SUBSET (1..StartRung(Requested[Owner(s)])) /\ StartRung(Requested[Owner(s)]) \in Nat
    BY <1>0 DEF Fitting, Tiers
  <2>2. best \in Fitting(s, c)
    BY <1>2, <2>1, LargestExists
  <2>3. Decide(s, c) = Decision(IF best < Requested[Owner(s)] THEN "downgrade" ELSE "proceed", best)
    BY <1>1, <1>2 DEF Decide, BudgetTypeOK
  <2>. HIDE DEF best
  <2>4. best \in Tiers /\ best <= Requested[Owner(s)] /\ Price[best] + Headroom <= Remaining
    BY <1>0, <2>2 DEF Fitting, Fits, Tiers
  <2>. QED BY <1>1, <1>r, <2>3, <2>4 DEF Decision
<1>3. CASE Fitting(s, c) = {}
  <2>1. Decide(s, c) = Decision("branch", 1) /\ Price[1] + Headroom <= Remaining
    BY <1>1, <1>3 DEF Decide, Decision, BudgetTypeOK
  <2>2. 1 \in Tiers /\ 1 <= Requested[Owner(s)]
    BY <1>0 DEF Tiers
  <2>. QED BY <1>1, <1>r, <2>1, <2>2 DEF Decision
<1>. QED BY <1>2, <1>3

(* The same of the decision complete() acts on.                              *)
LEMMA RebasedFits ==
    ASSUME BudgetTypeOK, NEW s \in Sites, Rebased(s).action # "refuse"
    PROVE  /\ Rebased(s).tier \in Tiers /\ Rebased(s).tier <= Requested[Owner(s)]
           /\ spent + Price[Rebased(s).tier] + Headroom <= Total
           /\ ~CeilingHit(s)
<1>. DEFINE d == Decide(s, Released(s))
<1>1. d.action # "refuse" /\ Rebased(s).tier = d.tier
  BY DEF Rebased, Decision
<1>. HIDE DEF d
<1>3. /\ d.action \in {"proceed", "downgrade", "branch"}
      /\ d.tier \in Tiers /\ d.tier <= Requested[Owner(s)]
      /\ spent + Price[d.tier] + Headroom <= Total /\ ~CeilingHit(s)
  BY <1>1, DecisionFits DEF d
<1>. QED BY <1>1, <1>3

\* Dropping the slice of a node that branches leaves the claims typed.
LEMMA ReleasedTyped ==
    ASSUME BudgetTypeOK, NEW s \in Sites
    PROVE  Released(s) \in [Nodes -> 0..Unclaimed]
<1>1. Unclaimed \in 0..Unclaimed
  BY BudgetConstants DEF Unclaimed
<1>2. s # Planner => s[1] \in Nodes
  BY Owners
<1>. QED BY <1>1, <1>2 DEF Released, BudgetTypeOK

\* A call in flight names a real tier.
LEMMA CallsTyped ==
    ASSUME BudgetTypeOK
    PROVE  \A s \in Sites : call[s] # NoCall => call[s] \in Tiers
  BY BudgetConstants DEF BudgetTypeOK, Tiers, NoCall

(* What stopping workers leaves: their calls are gone and nothing is charged. *)
LEMMA AbandonTyped ==
    ASSUME BudgetTypeOK, NEW S, Abandon(S)
    PROVE  /\ call' \in [Sites -> 0..Rungs] /\ \A s \in Sites : call'[s] <= Requested[Owner(s)]
           /\ worker' \in [Workers -> {"none", "live", "ended"}]
<1>1. 0 \in 0..Rungs /\ \A s \in Sites : 0 <= Requested[Owner(s)]
  BY Owners, BudgetConstants DEF Tiers
<1>2. call' \in [Sites -> 0..Rungs] /\ \A s \in Sites : call'[s] <= Requested[Owner(s)]
  BY <1>1 DEF Abandon, BudgetTypeOK, NoCall
<1>3. worker' \in [Workers -> {"none", "live", "ended"}]
  BY DEF Abandon, BudgetTypeOK
<1>. QED BY <1>2, <1>3 DEF Abandon, BudgetTypeOK

(* Whatever frontier is divided, the slices are well typed.                  *)
LEMMA AllocateTyped ==
    ASSUME BudgetTypeOK, NEW F \in SUBSET Nodes, Allocate(F)
    PROVE  claims' \in [Nodes -> 0..Unclaimed]
<1>1. \A n \in F : Share(F) \in 0..Unclaimed
  <2>1. ASSUME NEW n \in F PROVE Share(F) \in 0..Total
    <3>1. F # {}
      OBVIOUS
    <3>. QED BY <3>1, SharesBounded
  <2>. QED BY <2>1, BudgetConstants DEF Unclaimed
<1>2. Unclaimed \in 0..Unclaimed
  BY BudgetConstants DEF Unclaimed
<1>. QED BY <1>1, <1>2 DEF Allocate

(* Every step keeps the types.                                               *)
LEMMA BudgetStep ==
    ASSUME BudgetTypeOK, [Next]_budgetVars
    PROVE  BudgetTypeOK'
<1>. USE BudgetConstants
<1>. USE DEF BudgetTypeOK, money, graph
<1>z. 0 \in 0..Rungs /\ \A s \in Sites : 0 <= Requested[Owner(s)]
  BY Owners DEF Tiers
<1>1. ASSUME NEW added \in SUBSET Nodes, NEW cancelled \in SUBSET Nodes, Plan(added, cancelled)
      PROVE  BudgetTypeOK'
  <2>1. PICK F \in SeenFrontiers : Allocate((F \ cancelled) \cup added)
    BY <1>1 DEF Plan
  <2>2. F \in SUBSET Nodes
    BY DEF SeenFrontiers, Frontier
  <2>3. claims' \in [Nodes -> 0..Unclaimed]
    <3>1. BudgetTypeOK /\ (F \ cancelled) \cup added \in SUBSET Nodes
      BY <2>2
    <3>. HIDE DEF BudgetTypeOK
    <3>. QED BY <2>1, <3>1, AllocateTyped
  <2>4. life' \in [Nodes -> Life]
    BY <1>1 DEF Plan, Life, Open
  <2>5. /\ call' \in [Sites -> 0..Rungs] /\ \A s \in Sites : call'[s] <= Requested[Owner(s)]
        /\ worker' \in [Workers -> {"none", "live", "ended"}]
    <3>1. BudgetTypeOK /\ Abandon({w \in Workers : life'[w[1]] = "cancelled"})
      BY <1>1 DEF Plan
    <3>. HIDE DEF BudgetTypeOK
    <3>. QED BY <3>1, AbandonTyped
  <2>. QED BY <1>1, <2>3, <2>4, <2>5 DEF Plan, Owner
<1>2. CASE StopAll
  <2>1. /\ call' \in [Sites -> 0..Rungs] /\ \A s \in Sites : call'[s] <= Requested[Owner(s)]
        /\ worker' \in [Workers -> {"none", "live", "ended"}]
    BY <1>2, AbandonTyped DEF StopAll
  <2>. QED BY <1>2, <2>1 DEF StopAll, Owner
<1>3. CASE ExecutorOver
  <2>1. claims' \in [Nodes -> 0..Unclaimed]
    BY <1>3, AllocateTyped DEF ExecutorOver
  <2>. QED BY <1>3, <2>1 DEF ExecutorOver, Owner
<1>4. CASE ResumeElsewhere
  <2>1. PICK W \in SUBSET Nodes :
           life' = [n \in Nodes |-> IF n \in W THEN "done"
                                    ELSE IF life[n] = "running" THEN "pending" ELSE life[n]]
    BY <1>4 DEF ResumeElsewhere
  <2>2. life' \in [Nodes -> Life]
    BY <2>1 DEF Life, Open
  <2>. QED BY <1>4, <2>2 DEF ResumeElsewhere, Owner
<1>5. ASSUME NEW n \in Nodes, Launch(n) PROVE BudgetTypeOK'
  BY <1>5 DEF Launch, Life, Open, Owner
<1>6. ASSUME NEW n \in Nodes, Elsewhere(n) PROVE BudgetTypeOK'
  <2>1. life' \in [Nodes -> Life]
    BY <1>6 DEF Elsewhere, Life, Open
  <2>. QED BY <1>6, <2>1 DEF Elsewhere, Owner
<1>7. ASSUME NEW w \in Workers, WorkerEnds(w) PROVE BudgetTypeOK'
  BY <1>7 DEF WorkerEnds, Owner
<1>8. ASSUME NEW w \in Workers, Drain(w) PROVE BudgetTypeOK'
  <2>1. life' \in [Nodes -> Life]
    <3>1. life' = life \/ \E to \in Life : life' = [life EXCEPT ![w[1]] = to]
      <4>1. \A to \in {"done", "waiting"} : to \in Life
        BY DEF Life, Open
      <4>2. \/ \E to \in {"done", "waiting"} : life' = [life EXCEPT ![w[1]] = to]
            \/ UNCHANGED life
        BY <1>8 DEF Drain
      <4>. QED BY <4>1, <4>2
    <3>. QED BY <3>1
  <2>2. budgeted' \in BOOLEAN
    BY <1>8 DEF Drain
  <2>. QED BY <1>8, <2>1, <2>2 DEF Drain, Owner
<1>9. ASSUME NEW w \in Workers, Refuse(w) PROVE BudgetTypeOK'
  <2>1. claims' \in [Nodes -> 0..Unclaimed]
    BY <1>9, Owners, ReleasedTyped DEF Refuse
  <2>. QED BY <1>9, <2>1 DEF Refuse, Owner
<1>10. ASSUME NEW s \in Sites, Admit(s) PROVE BudgetTypeOK'
  <2>1. Rebased(s).tier \in Tiers /\ Rebased(s).tier <= Requested[Owner(s)]
    BY <1>10, RebasedFits DEF Admit
  <2>2. claims' \in [Nodes -> 0..Unclaimed]
    BY <1>10, ReleasedTyped DEF Admit
  <2>3. call' = [call EXCEPT ![s] = Rebased(s).tier]
    BY <1>10 DEF Admit
  <2>4. call' \in [Sites -> 0..Rungs]
    BY <2>1, <2>3 DEF Tiers
  <2>5. \A x \in Sites : call'[x] <= Requested[Owner(x)]
    BY <2>1, <2>3
  <2>. QED BY <1>10, <2>2, <2>4, <2>5 DEF Admit, Owner
<1>11. ASSUME NEW s \in Sites, Charge(s) PROVE BudgetTypeOK'
  <2>1. call[s] \in Tiers
    BY <1>11, CallsTyped DEF Charge
  <2>2. Worst(s, call[s]) \in Nat
    BY <2>1 DEF Worst
  <2>3. spent' \in Nat
    BY <1>11, <2>2 DEF Charge
  <2>4. call' \in [Sites -> 0..Rungs] /\ \A x \in Sites : call'[x] <= Requested[Owner(x)]
    <3>1. call' = [call EXCEPT ![s] = 0]
      BY <1>11 DEF Charge, NoCall
    <3>. QED BY <1>z, <3>1
  <2>5. nodeCalls' \in [Nodes -> Nat]
    BY <1>11 DEF Charge
  <2>. QED BY <1>11, <2>3, <2>4, <2>5 DEF Charge, Owner
<1>12. ASSUME NEW s \in Sites, Fail(s) PROVE BudgetTypeOK'
  <2>1. call' \in [Sites -> 0..Rungs] /\ \A x \in Sites : call'[x] <= Requested[Owner(x)]
    <3>1. call' = [call EXCEPT ![s] = 0]
      BY <1>12 DEF Fail, NoCall
    <3>. QED BY <1>z, <3>1
  <2>. QED BY <1>12, <2>1 DEF Fail, Owner
<1>13. CASE UNCHANGED budgetVars
  BY <1>13 DEF budgetVars, Owner
<1>. QED BY <1>1, <1>2, <1>3, <1>4, <1>5, <1>6, <1>7, <1>8, <1>9, <1>10, <1>11, <1>12, <1>13
         DEF Next

(* The budget and its run are well typed in every reachable state.           *)
THEOREM BudgetTyped == Spec => []BudgetTypeOK
<1>. USE BudgetConstants
<1>1. Init => BudgetTypeOK
  <2>. SUFFICES ASSUME Init PROVE BudgetTypeOK
    OBVIOUS
  <2>1. call \in [Sites -> 0..Rungs] /\ \A s \in Sites : call[s] <= Requested[Owner(s)]
    BY Owners DEF Init, NoCall, Tiers
  <2>2. claims \in [Nodes -> 0..Unclaimed]
    BY DEF Init, Unclaimed
  <2>3. /\ spent \in Nat /\ charges \in Nat /\ nodeCalls \in [Nodes -> Nat]
        /\ life \in [Nodes -> Life] /\ worker \in [Workers -> {"none", "live", "ended"}]
    BY DEF Init, Life
  <2>4. budgeted \in BOOLEAN
    BY DEF Init
  <2>5. resumes \in 0..MaxResumes
    BY DEF Init
  <2>. QED BY <2>1, <2>2, <2>3, <2>4, <2>5 DEF BudgetTypeOK
<1>2. BudgetTypeOK /\ [Next]_budgetVars => BudgetTypeOK'
  BY BudgetStep
<1>. QED BY <1>1, <1>2, PTL DEF Spec
-----------------------------------------------------------------------------
(* The invariant behind the ceilings.                                        *)

Ceiling == Total + Excess + (Concurrent - 1) * Dearest

(* While calls are in flight, either one of them was admitted against all    *)
(* that was charged before it, or it has ended and all the others may still  *)
(* cost what the dearest does.                                               *)
SpendCovered ==
    \/ spent + Headroom + Cardinality(InFlight) * Dearest <= Ceiling
    \/ \E s \in InFlight :
          spent + Headroom + Worst(s, call[s]) + (Cardinality(InFlight) - 1) * Dearest <= Ceiling

(* The workers of the budgeted executor fill its slots; only they and the    *)
(* planner call, and none was launched after a resume still to come.         *)
WorkersInv ==
    /\ Cardinality(Busy) <= MaxWorkers
    /\ \A w \in Workers : /\ call[w] # NoCall => worker[w] = "live"
                          /\ worker[w] # "none" => w[2] <= resumes

(* The workers of one node that await a call: one for each resume, and one.  *)
Calling(n) == {w \in Workers : w[1] = n /\ call[w] # NoCall}

NodesBelowCeiling ==
    \A n \in Nodes : nodeCalls[n] + Cardinality(Calling(n)) <= MaxNodeCalls + resumes

BudgetInv == /\ WorkersInv /\ SpendCovered /\ NodesBelowCeiling
             /\ charges + Cardinality(InFlight) <= MaxRunCalls + Concurrent - 1
-----------------------------------------------------------------------------
(* A step admits a call, charges one, ends some for nothing, or none of it.  *)
LEMMA BudgetShape ==
    ASSUME BudgetTypeOK, [Next]_budgetVars
    PROVE  /\ resumes' \in Nat /\ resumes <= resumes'
           /\ \/ UNCHANGED <<spent, charges, nodeCalls, call>>
              \/ \E S \in SUBSET Sites :
                    /\ call' = [s \in Sites |-> IF s \in S THEN NoCall ELSE call[s]]
                    /\ UNCHANGED <<spent, charges, nodeCalls>>
              \/ \E s \in Sites : Admit(s) \/ Charge(s)
<1>. USE DEF money, graph
<1>1. ASSUME NEW S \in SUBSET Sites, Abandon(S), UNCHANGED money
      PROVE  \E T \in SUBSET Sites :
                /\ call' = [s \in Sites |-> IF s \in T THEN NoCall ELSE call[s]]
                /\ UNCHANGED <<spent, charges, nodeCalls>>
  BY <1>1 DEF Abandon
<1>2. ASSUME NEW s \in Sites, Fail(s)
      PROVE  \E S \in SUBSET Sites :
                /\ call' = [x \in Sites |-> IF x \in S THEN NoCall ELSE call[x]]
                /\ UNCHANGED <<spent, charges, nodeCalls>>
  <2>1. call' = [x \in Sites |-> IF x \in {s} THEN NoCall ELSE call[x]]
    BY <1>2 DEF Fail, BudgetTypeOK
  <2>. QED BY <1>2, <2>1 DEF Fail
<1>3. Workers \subseteq Sites
  BY DEF Sites
<1>4. resumes' = resumes \/ resumes' = resumes + 1
  <2>1. ASSUME NEW added, NEW cancelled, Plan(added, cancelled) PROVE resumes' = resumes
    BY <2>1 DEF Plan
  <2>2. StopAll \/ ExecutorOver \/ UNCHANGED budgetVars => resumes' = resumes
    BY DEF StopAll, ExecutorOver, budgetVars
  <2>3. ASSUME NEW n, Launch(n) \/ Elsewhere(n) PROVE resumes' = resumes
    BY <2>3 DEF Launch, Elsewhere
  <2>4. ASSUME NEW w, WorkerEnds(w) \/ Drain(w) \/ Refuse(w) PROVE resumes' = resumes
    BY <2>4 DEF WorkerEnds, Drain, Refuse
  <2>5. ASSUME NEW s, Admit(s) \/ Charge(s) \/ Fail(s) PROVE resumes' = resumes
    BY <2>5 DEF Admit, Charge, Fail
  <2>6. ResumeElsewhere => resumes' = resumes + 1
    BY DEF ResumeElsewhere
  <2>. QED BY <2>1, <2>2, <2>3, <2>4, <2>5, <2>6 DEF Next
<1>5. resumes' \in Nat /\ resumes <= resumes'
  BY <1>4, BudgetConstants DEF BudgetTypeOK
<1>6. ASSUME NEW added, NEW cancelled, Plan(added, cancelled)
      PROVE  Abandon({w \in Workers : life'[w[1]] = "cancelled"}) /\ UNCHANGED money
  BY <1>6 DEF Plan
<1>7. StopAll => Abandon(Workers) /\ UNCHANGED money
  BY DEF StopAll
<1>8. \/ ExecutorOver \/ ResumeElsewhere \/ UNCHANGED budgetVars
      \/ \E n \in Nodes : Launch(n) \/ Elsewhere(n)
      \/ \E w \in Workers : WorkerEnds(w) \/ Drain(w) \/ Refuse(w)
      => UNCHANGED <<spent, charges, nodeCalls, call>>
  BY DEF ExecutorOver, ResumeElsewhere, Launch, Elsewhere, WorkerEnds, Drain, Refuse, budgetVars
<1>. QED BY <1>1, <1>2, <1>3, <1>5, <1>6, <1>7, <1>8 DEF Next

\* There are finitely many workers and call sites.
LEMMA SitesFinite == IsFiniteSet(Workers) /\ IsFiniteSet(Sites)
<1>1. IsFiniteSet(0..MaxResumes)
  BY BudgetConstants, FS_Interval
<1>2. IsFiniteSet(Workers)
  BY <1>1, BudgetConstants, FS_Product DEF Workers
<1>. QED BY <1>2, FS_AddElement DEF Sites

\* The sites with a call in flight are finitely many, and counting them gives
\* zero only when there is none.
LEMMA InFlightFinite ==
    /\ IsFiniteSet(InFlight) /\ Cardinality(InFlight) \in Nat
    /\ InFlight # {} => Cardinality(InFlight) # 0
<1>1. InFlight \subseteq Sites
  BY DEF InFlight
<1>. QED BY <1>1, SitesFinite, FS_Subset, FS_CardinalityType, FS_EmptySet

\* So are the busy workers.
LEMMA BusyFinite == IsFiniteSet(Busy) /\ Cardinality(Busy) \in Nat
  BY SitesFinite, FS_Subset, FS_CardinalityType DEF Busy

(* Nobody is busy who was not, except the worker that is launched.           *)
LEMMA FewerBusy ==
    ASSUME WorkersInv, Busy' \subseteq Busy
    PROVE  (Cardinality(Busy) <= MaxWorkers)'
<1>1. IsFiniteSet(Busy') /\ Cardinality(Busy') <= Cardinality(Busy) /\ Cardinality(Busy') \in Nat
  BY BusyFinite, FS_Subset, FS_CardinalityType
<1>. QED BY <1>1, BusyFinite, BudgetConstants DEF WorkersInv

(* A slot is taken by a launch only, and its worker calls until it ends.     *)
LEMMA WorkersStep ==
    ASSUME BudgetTypeOK, WorkersInv, [Next]_budgetVars
    PROVE  WorkersInv'
<1>. USE DEF money, graph
<1>r. /\ resumes \in Nat /\ resumes' \in Nat /\ resumes <= resumes'
      /\ \A w \in Workers : w[2] \in Nat /\ w \in Sites /\ w # Planner
  BY BudgetShape, Owners, BudgetConstants DEF BudgetTypeOK, Workers
<1>a. ASSUME NEW S, Abandon(S), UNCHANGED resumes PROVE WorkersInv'
  <2>1. \A w \in Workers : /\ worker'[w] = (IF w \in S /\ worker[w] = "live" THEN "none" ELSE worker[w])
                           /\ call'[w] = (IF w \in S THEN NoCall ELSE call[w])
    BY <1>a, <1>r DEF Abandon
  <2>2. Busy' \subseteq Busy
    BY <2>1 DEF Busy
  <2>. QED BY <1>a, <2>1, <2>2, FewerBusy DEF WorkersInv
<1>1. ASSUME NEW added, NEW cancelled, Plan(added, cancelled) PROVE WorkersInv'
  BY <1>1, <1>a DEF Plan
<1>2. CASE StopAll
  BY <1>2, <1>a DEF StopAll
<1>3. ASSUME NEW n \in Nodes, Launch(n) PROVE WorkersInv'
  <2>. DEFINE v == <<n, resumes>>
  <2>1. v \in Workers /\ v[2] = resumes
    BY DEF Workers, BudgetTypeOK
  <2>2. /\ \A w \in Workers : worker'[w] = IF w = v THEN "live" ELSE worker[w]
        /\ UNCHANGED <<call, resumes>> /\ Cardinality(Busy) < MaxWorkers
    BY <1>3, <2>1 DEF Launch, BudgetTypeOK
  <2>. HIDE DEF v
  <2>3. Busy' = Busy \cup {v}
    BY <2>1, <2>2 DEF Busy
  <2>4. Cardinality(Busy') = IF v \in Busy THEN Cardinality(Busy) ELSE Cardinality(Busy) + 1
    BY <2>3, BusyFinite, FS_AddElement
  <2>5. Cardinality(Busy') <= MaxWorkers
    BY <2>2, <2>4, BusyFinite, BudgetConstants
  <2>. QED BY <1>r, <2>1, <2>2, <2>5 DEF WorkersInv
<1>4. ASSUME NEW w \in Workers, WorkerEnds(w) \/ Drain(w) \/ Refuse(w) PROVE WorkersInv'
  <2>1. /\ call[w] = NoCall \/ worker[w] = "ended"
        /\ UNCHANGED <<call, resumes>> /\ worker[w] # "none"
        /\ \A x \in Workers : x # w => worker'[x] = worker[x]
    BY <1>4 DEF WorkerEnds, Drain, Refuse, BudgetTypeOK
  <2>2. Busy' \subseteq Busy
    BY <2>1 DEF Busy
  <2>. QED BY <2>1, <2>2, FewerBusy DEF WorkersInv
<1>5. ASSUME NEW s \in Sites, Admit(s) PROVE WorkersInv'
  <2>1. /\ UNCHANGED <<worker, resumes>>
        /\ s # Planner => worker[s] = "live"
        /\ \A x \in Sites : x # s => call'[x] = call[x]
    BY <1>5 DEF Admit, BudgetTypeOK
  <2>2. Busy' \subseteq Busy
    BY <2>1 DEF Busy
  <2>. QED BY <1>r, <2>1, <2>2, FewerBusy DEF WorkersInv
<1>6. ASSUME NEW s \in Sites, Charge(s) \/ Fail(s) PROVE WorkersInv'
  <2>1. /\ UNCHANGED <<worker, resumes>>
        /\ \A x \in Sites : call'[x] # NoCall => call[x] # NoCall
    BY <1>6 DEF Charge, Fail, BudgetTypeOK
  <2>2. Busy' \subseteq Busy
    BY <2>1 DEF Busy
  <2>. QED BY <1>r, <2>1, <2>2, FewerBusy DEF WorkersInv
<1>7. ASSUME \/ ExecutorOver \/ ResumeElsewhere \/ UNCHANGED budgetVars
             \/ \E n \in Nodes : Elsewhere(n)
      PROVE  WorkersInv'
  <2>1. UNCHANGED <<call, worker>>
    BY <1>7 DEF ExecutorOver, ResumeElsewhere, Elsewhere, budgetVars
  <2>2. Busy' \subseteq Busy
    BY <2>1 DEF Busy
  <2>. QED BY <1>r, <2>1, <2>2, FewerBusy DEF WorkersInv
<1>. QED BY <1>1, <1>2, <1>3, <1>4, <1>5, <1>6, <1>7 DEF Next

(* Whoever is about to call leaves room: the other workers and the planner   *)
(* have at most one call each.                                               *)
LEMMA RoomToCall ==
    ASSUME BudgetTypeOK, WorkersInv, NEW s \in Sites, Admit(s)
    PROVE  Cardinality(InFlight) <= MaxWorkers
<1>1. \A x \in InFlight : x # s /\ (x # Planner => x \in Busy)
  BY Owners DEF InFlight, Busy, Admit, WorkersInv, BudgetTypeOK
<1>2. Cardinality(Busy) \in Nat /\ Cardinality(Busy) <= MaxWorkers /\ IsFiniteSet(Busy)
  BY BusyFinite DEF WorkersInv
<1>3. CASE s = Planner
  <2>1. InFlight \subseteq Busy
    BY <1>1, <1>3
  <2>2. Cardinality(InFlight) <= Cardinality(Busy)
    BY <1>2, <2>1, FS_Subset
  <2>. QED BY <1>2, <2>2, InFlightFinite, BudgetConstants
<1>4. CASE s # Planner
  <2>. DEFINE others == Busy \ {s}
  <2>1. s \in Busy
    BY <1>4, Owners DEF Admit, Busy
  <2>2. IsFiniteSet(others) /\ Cardinality(others) = Cardinality(Busy) - 1
    BY <1>2, <2>1, FS_RemoveElement
  <2>3. IsFiniteSet(others \cup {Planner})
        /\ Cardinality(others \cup {Planner}) <= Cardinality(others) + 1
    <3>. HIDE DEF others
    <3>1. Cardinality(others) \in Nat
      BY <2>2, FS_CardinalityType
    <3>2. /\ IsFiniteSet(others \cup {Planner})
          /\ Cardinality(others \cup {Planner}) = IF Planner \in others THEN Cardinality(others)
                                                  ELSE Cardinality(others) + 1
      BY <2>2, FS_AddElement
    <3>. QED BY <3>1, <3>2
  <2>4. InFlight \subseteq others \cup {Planner}
    BY <1>1
  <2>. HIDE DEF others
  <2>5. Cardinality(InFlight) <= Cardinality(others \cup {Planner})
    BY <2>3, <2>4, FS_Subset
  <2>6. Cardinality(others \cup {Planner}) \in Nat
    BY <2>3, FS_CardinalityType
  <2>. QED BY <1>2, <2>2, <2>3, <2>5, <2>6, InFlightFinite, BudgetConstants
<1>. QED BY <1>3, <1>4

(* A node has one worker for each resume that was, and the first.            *)
LEMMA OneForEachResume ==
    ASSUME NEW n \in Nodes, NEW m \in Nat, NEW S \in SUBSET Workers,
           \A w \in S : w[1] = n /\ w[2] <= m
    PROVE  IsFiniteSet(S) /\ Cardinality(S) \in Nat /\ Cardinality(S) <= m + 1
<1>. DEFINE number == [w \in S |-> w[2]]
<1>1. \A w \in S : w = <<n, w[2]>> /\ w[2] \in 0..m
  BY BudgetConstants DEF Workers
<1>2. number \in Injection(S, 0..m)
  <2>1. number \in [S -> 0..m]
    BY <1>1
  <2>2. ASSUME NEW v \in S, NEW w \in S, number[v] = number[w] PROVE v = w
    BY <1>1, <2>2
  <2>. QED BY <2>1, <2>2 DEF Injection, IsInjective
<1>3. IsFiniteSet(0..m) /\ Cardinality(0..m) = m + 1
  <2>1. 0 \in Int /\ m \in Int /\ ~(0 > m) /\ m - 0 + 1 = m + 1
    OBVIOUS
  <2>. QED BY <2>1, FS_Interval
<1>. HIDE DEF number
<1>4. IsFiniteSet(S) /\ Cardinality(S) <= m + 1
  BY <1>2, <1>3, FS_Injection
<1>. QED BY <1>4, FS_CardinalityType

(* No answer costs more than the dearest.                                    *)
LEMMA DearestBounds ==
    /\ Dearest \in Nat /\ Concurrent = MaxWorkers + 1 /\ Concurrent - 1 \in Nat
    /\ (Concurrent - 1) * Dearest \in Nat /\ Ceiling \in Int
    /\ BudgetTypeOK => \A s \in InFlight : /\ Worst(s, call[s]) \in Nat
                                           /\ Worst(s, call[s]) <= Dearest
<1>. USE BudgetConstants
<1>1. Rungs \in Tiers /\ \A t \in Tiers : t <= Rungs
  BY DEF Tiers
<1>2. Dearest \in Nat
  BY <1>1 DEF Dearest
<1>4. Concurrent = MaxWorkers + 1 /\ Concurrent - 1 \in Nat
  BY DEF Concurrent
<1>5. (Concurrent - 1) * Dearest \in Nat
  <2>1. \A x, y \in Nat : x * y \in Nat
    OBVIOUS
  <2>. QED BY <1>2, <1>4, <2>1
<1>6. Ceiling \in Int
  BY <1>2, <1>5 DEF Ceiling
<1>3. ASSUME BudgetTypeOK, NEW s \in InFlight
      PROVE  Worst(s, call[s]) \in Nat /\ Worst(s, call[s]) <= Dearest
  <2>1. call[s] \in Tiers
    BY <1>3, CallsTyped DEF InFlight
  <2>2. Price[call[s]] \in Nat /\ Price[Rungs] \in Nat /\ Price[call[s]] <= Price[Rungs]
    BY <1>1, <2>1
  <2>. QED BY <2>2 DEF Worst, Dearest
<1>. QED BY <1>2, <1>3, <1>4, <1>5, <1>6

\* What the products of a count and the dearest price obey: stated once,
\* because the prover does not multiply two unknowns.
LEMMA Times ==
    ASSUME NEW m \in Nat, NEW n \in Nat, m <= n
    PROVE  /\ m * Dearest \in Nat /\ m * Dearest <= n * Dearest
           /\ (m + 1) * Dearest = m * Dearest + Dearest
<1>1. \A d \in Nat : /\ m * d \in Nat /\ m * d <= n * d
                     /\ (m + 1) * d = m * d + d
  OBVIOUS
<1>. QED BY <1>1, DearestBounds

(* The newest call was admitted against all that is charged so far; what is  *)
(* to be charged before it is at most the price of the others in flight.     *)
LEMMA AdmitKeepsInv ==
    ASSUME BudgetTypeOK, NEW s \in Sites, Admit(s), BudgetInv
    PROVE  BudgetInv'
<1>. USE BudgetConstants
<1>. DEFINE k == Cardinality(InFlight)
            t == Rebased(s).tier
<1>1. /\ t # NoCall /\ t \in Tiers /\ spent + Price[t] + Headroom <= Total
      /\ charges < MaxRunCalls /\ (s # Planner => nodeCalls[s[1]] < MaxNodeCalls)
  <2>1. t \in Tiers /\ spent + Price[t] + Headroom <= Total /\ ~CeilingHit(s)
    BY RebasedFits DEF Admit
  <2>2. s # Planner => s[1] \in Nodes
    BY Owners
  <2>3. charges < MaxRunCalls /\ (s # Planner => nodeCalls[s[1]] < MaxNodeCalls)
    <3>1. charges \in Nat /\ nodeCalls \in [Nodes -> Nat]
      BY DEF BudgetTypeOK
    <3>. HIDE DEF t
    <3>. QED BY <2>1, <2>2, <3>1 DEF CeilingHit, Calls
  <2>. HIDE DEF t
  <2>4. t # NoCall
    BY <2>1 DEF NoCall, Tiers
  <2>. QED BY <2>1, <2>3, <2>4
<1>2. /\ call' = [call EXCEPT ![s] = t]
      /\ UNCHANGED <<spent, charges, nodeCalls, worker, resumes>> /\ k < Concurrent
  <2>1. k <= MaxWorkers /\ k \in Nat
    BY RoomToCall, InFlightFinite DEF BudgetInv
  <2>. QED BY <2>1 DEF Admit, Concurrent, money, graph
<1>3. InFlight' = InFlight \cup {s} /\ s \notin InFlight /\ call'[s] = t
  BY <1>1, <1>2 DEF InFlight, Admit, BudgetTypeOK
<1>4. k \in Nat /\ Cardinality(InFlight') = k + 1
  BY <1>3, InFlightFinite, FS_AddElement
<1>5. SpendCovered'
  <2>1. Worst(s, t) <= Price[t] + Excess /\ Price[t] \in Nat
    BY <1>1 DEF Worst
  <2>2. k * Dearest \in Nat /\ k * Dearest <= (Concurrent - 1) * Dearest
        /\ (Concurrent - 1) * Dearest \in Nat
    <3>1. k <= Concurrent - 1 /\ Concurrent - 1 \in Nat
      BY <1>2, <1>4 DEF Concurrent
    <3>. QED BY <1>4, <3>1, Times
  <2>. HIDE DEF k, t
  <2>3. Worst(s, t) \in Nat
    BY <2>1 DEF Worst
  <2>4. spent + Headroom + Worst(s, t) + k * Dearest <= Ceiling
    BY <1>1, <2>1, <2>2, <2>3 DEF Ceiling, BudgetTypeOK
  <2>5. (k + 1) - 1 = k
    BY <1>4
  <2>6. spent' + Headroom + Worst(s, call'[s]) + (Cardinality(InFlight') - 1) * Dearest <= Ceiling
    BY <1>2, <1>3, <1>4, <2>4, <2>5
  <2>. QED BY <1>3, <2>6 DEF SpendCovered, Worst
<1>w. WorkersInv' /\ BudgetTypeOK'
  <2>1. [Next]_budgetVars
    BY DEF Next
  <2>. QED BY <2>1, WorkersStep, BudgetStep DEF BudgetInv
<1>6. NodesBelowCeiling'
  <2>. SUFFICES ASSUME NEW n \in Nodes
                PROVE  nodeCalls[n] + Cardinality(Calling(n)') <= MaxNodeCalls + resumes
    BY <1>2 DEF NodesBelowCeiling
  <2>0. nodeCalls[n] \in Nat /\ resumes \in Nat
    BY DEF BudgetTypeOK
  <2>1. CASE s # Planner /\ s[1] = n
    <3>1. Calling(n)' \in SUBSET Workers /\ \A w \in Calling(n)' : w[1] = n /\ w[2] <= resumes
      BY <1>w, <1>2 DEF Calling, WorkersInv
    <3>2. Cardinality(Calling(n)') \in Nat /\ Cardinality(Calling(n)') <= resumes + 1
      BY <2>0, <3>1, OneForEachResume
    <3>3. nodeCalls[n] + 1 <= MaxNodeCalls
      BY <1>1, <2>0, <2>1
    <3>. QED BY <2>0, <3>2, <3>3
  <2>2. CASE ~(s # Planner /\ s[1] = n)
    <3>1. Calling(n)' = Calling(n)
      BY <1>2, <2>2, Owners DEF Calling, BudgetTypeOK
    <3>. QED BY <3>1 DEF BudgetInv, NodesBelowCeiling
  <2>. QED BY <2>1, <2>2
<1>7. charges' + Cardinality(InFlight') <= MaxRunCalls + Concurrent - 1
  <2>. HIDE DEF k
  <2>. QED BY <1>1, <1>2, <1>4 DEF BudgetTypeOK, Concurrent
<1>. QED BY <1>w, <1>5, <1>6, <1>7 DEF BudgetInv

(* Where a node is charged nothing and calls no more than before, its        *)
(* ceiling holds on.                                                         *)
LEMMA FewerCalls ==
    ASSUME BudgetTypeOK, NodesBelowCeiling, [Next]_budgetVars, UNCHANGED nodeCalls,
           \A n \in Nodes : Calling(n)' \subseteq Calling(n)
    PROVE  NodesBelowCeiling'
<1>. SUFFICES ASSUME NEW n \in Nodes
              PROVE  nodeCalls[n] + Cardinality(Calling(n)') <= MaxNodeCalls + resumes'
  BY DEF NodesBelowCeiling
<1>1. Cardinality(Calling(n)') <= Cardinality(Calling(n)) /\ Cardinality(Calling(n)) \in Nat
      /\ Cardinality(Calling(n)') \in Nat
  <2>1. IsFiniteSet(Calling(n))
    BY SitesFinite, FS_Subset DEF Calling
  <2>. QED BY <2>1, FS_Subset, FS_CardinalityType
<1>2. resumes \in Nat /\ resumes' \in Nat /\ resumes <= resumes' /\ nodeCalls[n] \in Nat
  BY BudgetShape DEF BudgetTypeOK
<1>3. nodeCalls[n] + Cardinality(Calling(n)) <= MaxNodeCalls + resumes
  BY DEF NodesBelowCeiling
<1>. QED BY <1>1, <1>2, <1>3, BudgetConstants

(* Calls that end for nothing leave the others as they were.                 *)
LEMMA EndsKeepInv ==
    ASSUME BudgetTypeOK, BudgetInv, NEW S \in SUBSET Sites,
           call' = [s \in Sites |-> IF s \in S THEN NoCall ELSE call[s]],
           UNCHANGED <<spent, charges, nodeCalls>>, [Next]_budgetVars
    PROVE  BudgetInv'
<1>. USE BudgetConstants
<1>. DEFINE k == Cardinality(InFlight)
            j == Cardinality(InFlight')
<1>1. InFlight' = InFlight \ S /\ \A s \in InFlight' : call'[s] = call[s]
  BY DEF InFlight
<1>2. k \in Nat /\ j \in Nat /\ j <= k /\ (InFlight' # InFlight => j <= k - 1)
  <2>1. InFlight' \in SUBSET InFlight /\ IsFiniteSet(InFlight)
    BY <1>1, InFlightFinite
  <2>2. IsFiniteSet(InFlight') /\ j <= k /\ (k = j => InFlight = InFlight')
    BY <2>1, FS_Subset
  <2>3. k \in Nat /\ j \in Nat
    BY <2>1, <2>2, FS_CardinalityType
  <2>. HIDE DEF k, j
  <2>. QED BY <2>2, <2>3
<1>3. SpendCovered'
  <2>1. CASE spent + Headroom + k * Dearest <= Ceiling
    <3>1. j * Dearest \in Nat /\ k * Dearest \in Nat /\ j * Dearest <= k * Dearest
      BY <1>2, Times
    <3>. HIDE DEF k
    <3>2. Ceiling \in Int
      BY DearestBounds
    <3>3. spent' + Headroom + j * Dearest <= Ceiling
      <4>. HIDE DEF j
      <4>. QED BY <2>1, <3>1, <3>2 DEF BudgetTypeOK
    <3>. QED BY <3>3 DEF SpendCovered
  <2>2. ASSUME NEW w \in InFlight,
               spent + Headroom + Worst(w, call[w]) + (k - 1) * Dearest <= Ceiling
        PROVE  SpendCovered'
    <3>1. Worst(w, call[w]) \in Nat /\ k - 1 \in Nat /\ Ceiling \in Int
      BY <1>2, InFlightFinite, DearestBounds
    <3>2. CASE w \notin S
      <4>1. w \in InFlight' /\ call'[w] = call[w]
        BY <1>1, <3>2
      <4>2. j - 1 \in Nat /\ j - 1 <= k - 1
        <5>1. j # 0
          BY <1>1, <4>1, InFlightFinite, FS_Subset, FS_EmptySet
        <5>. HIDE DEF j, k
        <5>. QED BY <1>2, <5>1
      <4>3. (j - 1) * Dearest \in Nat /\ (k - 1) * Dearest \in Nat
            /\ (j - 1) * Dearest <= (k - 1) * Dearest
        BY <3>1, <4>2, Times
      <4>4. spent' + Headroom + Worst(w, call'[w]) + (j - 1) * Dearest <= Ceiling
        <5>. HIDE DEF j, k
        <5>. QED BY <2>2, <3>1, <4>1, <4>3 DEF BudgetTypeOK
      <4>. QED BY <4>1, <4>4 DEF SpendCovered, Worst
    <3>3. CASE w \in S
      <4>1. j <= k - 1
        BY <1>1, <1>2, <3>3
      <4>2. j * Dearest \in Nat /\ (k - 1) * Dearest \in Nat /\ j * Dearest <= (k - 1) * Dearest
        BY <1>2, <3>1, <4>1, Times
      <4>3. spent' + Headroom + j * Dearest <= Ceiling
        <5>. HIDE DEF j, k
        <5>. QED BY <2>2, <3>1, <4>2 DEF BudgetTypeOK
      <4>. QED BY <4>3 DEF SpendCovered
    <3>. QED BY <3>2, <3>3
  <2>. QED BY <2>1, <2>2 DEF BudgetInv, SpendCovered
<1>4. NodesBelowCeiling'
  <2>1. \A n \in Nodes : Calling(n)' \subseteq Calling(n)
    BY Owners DEF Calling
  <2>. QED BY <2>1, FewerCalls DEF BudgetInv
<1>w. WorkersInv'
  BY WorkersStep DEF BudgetInv
<1>5. charges' + j <= MaxRunCalls + Concurrent - 1
  <2>1. charges + k <= MaxRunCalls + Concurrent - 1
    BY DEF BudgetInv
  <2>. HIDE DEF j, k
  <2>. QED BY <1>2, <2>1 DEF BudgetTypeOK, Concurrent
<1>. QED BY <1>w, <1>3, <1>4, <1>5 DEF BudgetInv

(* A charge takes its call out of those that may still cost.                 *)
LEMMA ChargeKeepsInv ==
    ASSUME BudgetTypeOK, NEW s \in Sites, Charge(s), BudgetInv
    PROVE  BudgetInv'
<1>. USE BudgetConstants
<1>. DEFINE k == Cardinality(InFlight)
            j == Cardinality(InFlight')
<1>1. /\ s \in InFlight /\ InFlight' = InFlight \ {s}
      /\ \A x \in InFlight' : call'[x] = call[x]
  BY DEF InFlight, Charge, BudgetTypeOK
<1>2. k \in Nat \ {0} /\ j \in Nat /\ j = k - 1
  <2>1. j = k - 1
    BY <1>1, InFlightFinite, FS_RemoveElement
  <2>2. k \in Nat /\ k # 0
    BY <1>1, InFlightFinite
  <2>. HIDE DEF j, k
  <2>. QED BY <2>1, <2>2
<1>3. PICK cost \in 0..Worst(s, call[s]) : spent' = spent + cost
  BY DEF Charge
<1>4. /\ Worst(s, call[s]) \in Nat /\ Worst(s, call[s]) <= Dearest
      /\ Dearest \in Nat /\ Ceiling \in Int
  BY <1>1, DearestBounds
<1>5. cost \in Nat /\ cost <= Worst(s, call[s]) /\ cost <= Dearest /\ spent' = spent + cost
  BY <1>3, <1>4
<1>6. j * Dearest \in Nat /\ k * Dearest = j * Dearest + Dearest
  <2>. HIDE DEF j, k
  <2>. QED BY <1>2, Times
<1>7. SpendCovered'
  <2>1. CASE spent + Headroom + k * Dearest <= Ceiling
    <3>1. spent' + Headroom + j * Dearest <= Ceiling
      <4>. HIDE DEF j, k
      <4>. QED BY <1>4, <1>5, <1>6, <2>1 DEF BudgetTypeOK
    <3>. QED BY <3>1 DEF SpendCovered
  <2>2. ASSUME NEW w \in InFlight,
               spent + Headroom + Worst(w, call[w]) + (k - 1) * Dearest <= Ceiling
        PROVE  SpendCovered'
    <3>1. CASE w = s
      <4>1. spent' + Headroom + j * Dearest <= Ceiling
        <5>. HIDE DEF j, k
        <5>. QED BY <1>2, <1>4, <1>5, <1>6, <2>2, <3>1 DEF BudgetTypeOK
      <4>. QED BY <4>1 DEF SpendCovered
    <3>2. CASE w # s
      <4>1. w \in InFlight' /\ call'[w] = call[w]
        BY <1>1, <3>2
      <4>2. j - 1 \in Nat /\ (j - 1) + 1 = j
        <5>1. j # 0
          BY <1>1, <4>1, InFlightFinite, FS_Subset, FS_EmptySet
        <5>. HIDE DEF j
        <5>. QED BY <1>2, <5>1
      <4>3. (j - 1) * Dearest \in Nat /\ j * Dearest = (j - 1) * Dearest + Dearest
        <5>. HIDE DEF j
        <5>. QED BY <4>2, Times
      <4>4. Worst(w, call[w]) \in Nat
        BY DearestBounds
      <4>5. spent' + Headroom + Worst(w, call'[w]) + (j - 1) * Dearest <= Ceiling
        <5>. HIDE DEF j, k
        <5>. QED BY <1>2, <1>4, <1>5, <2>2, <4>1, <4>3, <4>4 DEF BudgetTypeOK
      <4>. QED BY <4>1, <4>5 DEF SpendCovered, Worst
    <3>. QED BY <3>1, <3>2
  <2>. QED BY <2>1, <2>2 DEF BudgetInv, SpendCovered
<1>w. WorkersInv'
  BY WorkersStep DEF BudgetInv, Next
<1>8. NodesBelowCeiling'
  <2>. SUFFICES ASSUME NEW n \in Nodes
                PROVE  nodeCalls'[n] + Cardinality(Calling(n)') <= MaxNodeCalls + resumes
    BY DEF NodesBelowCeiling, Charge, graph
  <2>0. /\ nodeCalls[n] \in Nat /\ resumes \in Nat /\ Cardinality(Calling(n)) \in Nat
        /\ IsFiniteSet(Calling(n))
        /\ nodeCalls[n] + Cardinality(Calling(n)) <= MaxNodeCalls + resumes
    <3>1. IsFiniteSet(Calling(n)) /\ Cardinality(Calling(n)) \in Nat
      BY SitesFinite, FS_Subset, FS_CardinalityType DEF Calling
    <3>. QED BY <3>1 DEF BudgetTypeOK, BudgetInv, NodesBelowCeiling
  <2>1. CASE s # Planner /\ s[1] = n
    <3>1. s \in Calling(n) /\ Calling(n)' = Calling(n) \ {s}
      BY <1>1, <2>1, Owners DEF Calling, Charge, BudgetTypeOK, InFlight
    <3>2. Cardinality(Calling(n)') = Cardinality(Calling(n)) - 1
      BY <2>0, <3>1, FS_RemoveElement
    <3>3. nodeCalls'[n] = nodeCalls[n] + 1
      BY <2>1, Owners DEF Charge
    <3>. QED BY <2>0, <3>2, <3>3, BudgetConstants
  <2>2. CASE ~(s # Planner /\ s[1] = n)
    <3>1. Calling(n)' = Calling(n)
      BY <2>2, Owners DEF Calling, Charge, BudgetTypeOK
    <3>2. nodeCalls'[n] = nodeCalls[n]
      BY <2>2, Owners, BudgetConstants DEF Charge, Owner
    <3>. QED BY <2>0, <3>1, <3>2
  <2>. QED BY <2>1, <2>2
<1>9. charges' + j <= MaxRunCalls + Concurrent - 1
  <2>1. charges + k <= MaxRunCalls + Concurrent - 1 /\ charges' = charges + 1
    BY DEF BudgetInv, Charge
  <2>. HIDE DEF j, k
  <2>. QED BY <1>2, <2>1 DEF BudgetTypeOK, Concurrent
<1>. QED BY <1>w, <1>7, <1>8, <1>9 DEF BudgetInv
-----------------------------------------------------------------------------
(* The calls in flight are covered in every reachable state.                 *)
THEOREM BudgetInvHolds == Spec => []BudgetInv
<1>. USE BudgetConstants
<1>1. Init => BudgetInv
  <2>. SUFFICES ASSUME Init PROVE BudgetInv
    OBVIOUS
  <2>1. InFlight = {} /\ Cardinality(InFlight) = 0
    BY FS_EmptySet DEF InFlight, Init
  <2>2. 0 * Dearest = 0 /\ (Concurrent - 1) * Dearest \in Nat
    BY DearestBounds
  <2>3. spent + Headroom + Cardinality(InFlight) * Dearest <= Ceiling
    BY <2>1, <2>2 DEF Init, Ceiling
  <2>4. WorkersInv
    <3>1. Busy = {}
      BY DEF Busy, Init
    <3>. QED BY <3>1, FS_EmptySet, Owners DEF Init, WorkersInv
  <2>5. NodesBelowCeiling
    <3>1. \A n \in Nodes : Calling(n) = {}
      BY Owners DEF Calling, Init
    <3>2. \A n \in Nodes : Cardinality(Calling(n)) = 0 /\ nodeCalls[n] = 0
      BY <3>1, FS_EmptySet DEF Init
    <3>. QED BY <3>2 DEF Init, NodesBelowCeiling
  <2>. QED BY <2>1, <2>3, <2>4, <2>5 DEF Init, BudgetInv, SpendCovered, Concurrent
<1>2. BudgetTypeOK /\ BudgetInv /\ [Next]_budgetVars => BudgetInv'
  <2>. SUFFICES ASSUME BudgetTypeOK, BudgetInv, [Next]_budgetVars PROVE BudgetInv'
    OBVIOUS
  <2>1. CASE UNCHANGED <<spent, charges, nodeCalls, call>>
    <3>1. NodesBelowCeiling'
      BY <2>1, FewerCalls DEF Calling, BudgetInv
    <3>2. WorkersInv'
      BY WorkersStep DEF BudgetInv
    <3>. QED BY <2>1, <3>1, <3>2 DEF BudgetInv, SpendCovered, InFlight, Worst, Owner
  <2>. QED BY <2>1, BudgetShape, AdmitKeepsInv, EndsKeepInv, ChargeKeepsInv
<1>. QED BY <1>1, <1>2, BudgetTyped, PTL DEF Spec

(* A run passes its allowance by at most the price of the other calls that   *)
(* are in flight at a time and one overridden answer: decide() and charge()  *)
(* are apart, and that is all it costs.                                      *)
THEOREM OverspendAlwaysBounded == Spec => []OverspendBounded
<1>1. BudgetTypeOK /\ BudgetInv => OverspendBounded
  <2>. SUFFICES ASSUME BudgetTypeOK, BudgetInv PROVE spent + Headroom <= Ceiling
    BY BudgetConstants, DearestBounds DEF OverspendBounded, Ceiling
  <2>. DEFINE k == Cardinality(InFlight)
  <2>1. k \in Nat /\ (InFlight # {} => k - 1 \in Nat) /\ Ceiling \in Int
    BY InFlightFinite, DearestBounds
  <2>2. k * Dearest \in Nat /\ (InFlight # {} => (k - 1) * Dearest \in Nat)
    BY <2>1, Times
  <2>. HIDE DEF k
  <2>3. CASE spent + Headroom + k * Dearest <= Ceiling
    BY <2>1, <2>2, <2>3, BudgetConstants DEF BudgetTypeOK
  <2>4. ASSUME NEW w \in InFlight,
               spent + Headroom + Worst(w, call[w]) + (k - 1) * Dearest <= Ceiling
        PROVE  spent + Headroom <= Ceiling
    <3>1. Worst(w, call[w]) \in Nat
      BY DearestBounds
    <3>2. (k - 1) * Dearest \in Nat
      BY <2>2
    <3>. QED BY <2>1, <2>4, <3>1, <3>2, BudgetConstants DEF BudgetTypeOK
  <2>. QED BY <2>3, <2>4 DEF BudgetInv, SpendCovered, k
<1>. QED BY <1>1, BudgetInvHolds, BudgetTyped, PTL

(* A run passes its call ceiling by at most the calls in flight when it was  *)
(* reached; a node, whose workers call in turn, by at most one for each time *)
(* another executor resumed the run.                                         *)
THEOREM CallsAlwaysBounded == Spec => []CallsBounded
<1>1. BudgetTypeOK /\ BudgetInv => CallsBounded
  <2>. SUFFICES ASSUME BudgetTypeOK, BudgetInv, NEW n \in Nodes
                PROVE  nodeCalls[n] <= MaxNodeCalls + resumes
    BY DEF BudgetInv, CallsBounded
  <2>1. nodeCalls[n] + Cardinality(Calling(n)) <= MaxNodeCalls + resumes
    BY DEF BudgetInv, NodesBelowCeiling
  <2>2. Cardinality(Calling(n)) \in Nat
    BY SitesFinite, FS_Subset, FS_CardinalityType DEF Calling
  <2>. QED BY <2>1, <2>2, BudgetConstants DEF BudgetTypeOK
<1>. QED BY <1>1, BudgetInvHolds, BudgetTyped, PTL
=============================================================================
