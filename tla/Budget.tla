------------------------------- MODULE Budget -------------------------------
(* The money of one budgeted run: RunBudget (s17code/economics/budget.py),   *)
(* the decision of BudgetPolicy (policy.py), the seam every model call goes  *)
(* through (BudgetedGateway.complete, controller.py), and the planner        *)
(* wrapper that divides the allowance over the frontier (policy.py).         *)
(*                                                                           *)
(* complete() decides, awaits the transport, and charges when the response   *)
(* is back: several calls of one run are between the two at once, because    *)
(* the executor runs several workers and the planner calls while they run.   *)
(* The routes' /resume and /completions run the graph again with the plain   *)
(* llm, also while the budgeted executor is live: what it is running goes    *)
(* back to pending, and it may launch a node it has a worker for already.    *)
(* Money is counted in whole units; a tier's projected cost is one number,   *)
(* the size of the prompt being abstracted.                                  *)
EXTENDS Integers, FiniteSets

CONSTANTS
    Nodes,          \* graph nodes whose workers call a model
    Planner,        \* the planner's call sites plan_1, plan_2, ...
    Surface,        \* nodes whose request overrides the tier's max_tokens
    Rungs,          \* tiers are 1..Rungs, cheapest first
    Price,          \* tier -> projected worst-case cost
    Requested,      \* node, or planner -> the tier its role declares
    Excess,         \* how much more than projected an overridden call may cost
    Total,          \* the run's allowance
    Headroom,       \* what a projected call must leave unspent
    Reserve,        \* the slice allocation holds back
    DowngradeAt,    \* spend at which a requested tier loses a rung
    RefuseAt,       \* spend at which nothing is admitted
    MaxRunCalls,    \* max_calls_per_run
    MaxNodeCalls,   \* max_calls_per_node
    MaxWorkers,     \* max_workers
    MaxResumes      \* bound: times another executor resumes the run

(* A worker is a node and the number of resumes it was launched after: a     *)
(* launched node is pending again only after one more.                       *)
Workers == Nodes \X (0..MaxResumes)
Sites == Workers \cup {Planner}
Tiers == 1..Rungs
Unclaimed == Total + 1      \* "no allocation": more than any claim
NoCall == 0

ASSUME BudgetConstants ==
    /\ IsFiniteSet(Nodes) /\ Planner \notin Nodes \cup Workers /\ Surface \subseteq Nodes
    /\ Rungs \in Nat \ {0} /\ Price \in [Tiers -> Nat]
    /\ Requested \in [Nodes \cup {Planner} -> Tiers]
    /\ \A r, t \in Tiers : r <= t => Price[r] <= Price[t]
    /\ Total \in Nat \ {0} /\ Headroom \in 0..Total /\ Reserve \in 0..Total
    /\ Excess \in Nat /\ DowngradeAt \in Nat /\ RefuseAt \in 0..Total
    /\ MaxRunCalls \in Nat \ {0} /\ MaxNodeCalls \in Nat \ {0}
    /\ MaxWorkers \in Nat \ {0} /\ MaxResumes \in Nat

VARIABLES
    spent,          \* RunBudget.spent
    charges,        \* RunBudget.calls
    nodeCalls,      \* RunBudget.calls_by_node
    claims,         \* RunBudget.reservations
    life,           \* node -> its state in the graph ("done" is either outcome)
    worker,         \* worker -> "none", "live", or "ended" and not yet drained
    call,           \* call site -> the tier of the admitted call it awaits
    budgeted,       \* is the executor with the controller still on the run?
    resumes         \* times another executor has resumed the run

money == <<spent, charges, nodeCalls>>
graph == <<life, worker, budgeted, resumes>>
budgetVars == <<money, claims, call, graph>>

Open == {"pending", "running", "waiting"}
InFlight == {s \in Sites : call[s] # NoCall}
Busy == {w \in Workers : worker[w] # "none"}
Frontier == {n \in Nodes : life[n] \in Open}
Remaining == IF spent > Total THEN 0 ELSE Total - spent
Lower(x, y) == IF x <= y THEN x ELSE y
Owner(s) == IF s = Planner THEN Planner ELSE s[1]
Calls(s) == IF s = Planner THEN 0 ELSE nodeCalls[s[1]]   \* plan_N is a new site each time
Claim(s, c) == IF s = Planner THEN Unclaimed ELSE c[s[1]]

(* allowance(): a site's slice, or all that remains when it has none. *)
Allowance(s, c) == IF Claim(s, c) = Unclaimed THEN Remaining ELSE Lower(Claim(s, c), Remaining)

(* Mutant of Fits: only the node's slice is looked at. *)
FitsSlice(s, t, c) == Price[t] <= Allowance(s, c)

(* can_admit() *)
Fits(s, t, c) == /\ Price[t] + Headroom <= Remaining
                 /\ Price[t] <= Allowance(s, c)

(* Under pressure the walk down the ladder starts one rung lower. *)
StartRung(t) == IF spent >= DowngradeAt /\ t > 1 THEN t - 1 ELSE t
Fitting(s, c) == {t \in 1..StartRung(Requested[Owner(s)]) : Fits(s, t, c)}

(* Mutant of CeilingHit: one call too many. *)
CeilingPassed(s) == charges > MaxRunCalls \/ Calls(s) > MaxNodeCalls

CeilingHit(s) == charges >= MaxRunCalls \/ Calls(s) >= MaxNodeCalls

Decision(action, tier) == [action |-> action, tier |-> tier]

(* BudgetPolicy.decide: ceilings, exhaustion, the ladder, branch, refusal. *)
Decide(s, c) ==
    IF CeilingHit(s) \/ spent >= RefuseAt THEN Decision("refuse", 0)
    ELSE IF Fitting(s, c) # {}
    THEN LET t == CHOOSE t \in Fitting(s, c) : \A u \in Fitting(s, c) : u <= t
         IN  Decision(IF t < Requested[Owner(s)] THEN "downgrade" ELSE "proceed", t)
    ELSE IF Price[1] + Headroom <= Remaining THEN Decision("branch", 1)
    ELSE Decision("refuse", 0)

Branches(s) == Decide(s, claims).action = "branch"

(* _decide: a branch drops the node's slice and decides again. *)
Released(s) == IF Branches(s) /\ s # Planner THEN [claims EXCEPT ![s[1]] = Unclaimed] ELSE claims
Rebased(s) == LET d == Decide(s, Released(s))
              IN  IF Branches(s) /\ d.action # "refuse" THEN Decision("branch", d.tier) ELSE d

(* What a provider may bill for a call admitted at tier t. *)
Worst(s, t) == IF Owner(s) \in Surface THEN Price[t] + Excess ELSE Price[t]
-----------------------------------------------------------------------------
Init == /\ spent = 0
        /\ charges = 0
        /\ nodeCalls = [n \in Nodes |-> 0]
        /\ claims = [n \in Nodes |-> Unclaimed]
        /\ life = [n \in Nodes |-> "new"]
        /\ worker = [w \in Workers |-> "none"]
        /\ call = [s \in Sites |-> NoCall]
        /\ budgeted = TRUE
        /\ resumes = 0

(* Workers are cancelled where they await a provider, which may have         *)
(* answered already: the response is never charged.                          *)
Abandon(S) == /\ call' = [s \in Sites |-> IF s \in S THEN NoCall ELSE call[s]]
              /\ worker' = [w \in Workers |-> IF w \in S /\ worker[w] = "live"
                                              THEN "none" ELSE worker[w]]

Share(F) == LET spendable == IF Reserve > Remaining THEN 0 ELSE Remaining - Reserve
            IN  spendable \div Cardinality(F)

(* allocate(): the frontier divides the remainder, the others have no claim. *)
Allocate(F) == claims' = [n \in Nodes |-> IF n \in F THEN Share(F) ELSE Unclaimed]

(* The frontier of the snapshot the planner was given: only another executor *)
(* moves the graph while it plans.                                           *)
SeenFrontiers == IF resumes = 0 THEN {Frontier} ELSE SUBSET {n \in Nodes : life[n] # "new"}

(* The executor's own coroutine can move: it does not await its planner.     *)
Running == budgeted /\ call[Planner] = NoCall

(* BudgetAwarePlanner.plan: the patch adds and cancels nodes (a finish       *)
(* cancels all), the remainder is divided over the frontier it leaves, and   *)
(* the workers of whatever is cancelled in the graph by now are stopped.     *)
Plan(added, cancelled) ==
    /\ Running
    /\ \A n \in added : life[n] = "new"
    /\ cancelled \subseteq Frontier
    /\ \E F \in SeenFrontiers : Allocate((F \ cancelled) \cup added)
    /\ life' = [n \in Nodes |-> IF n \in added THEN "pending"
                                ELSE IF n \in cancelled THEN "cancelled" ELSE life[n]]
    /\ Abandon({w \in Workers : life'[w[1]] = "cancelled"})
    /\ UNCHANGED <<money, budgeted, resumes>>

(* A finished run stops every worker that is left, second ones included.     *)
StopAll == /\ Running /\ Frontier = {}
           /\ Abandon(Workers)
           /\ UNCHANGED <<money, claims, life, budgeted, resumes>>

(* The executor returns, or dies of its planner or of a refused patch, whose *)
(* allocation stays; workers it leaves behind run on.                        *)
ExecutorOver == /\ Running
                /\ budgeted' = FALSE
                /\ \/ UNCHANGED claims
                   \/ \E F \in SUBSET Nodes : Allocate(F)
                /\ UNCHANGED <<money, life, worker, call, resumes>>

(* Fill a free slot with a pending node, whether or not an earlier worker of *)
(* the node is in flight: in_flight is keyed by future.                      *)
Launch(n) == /\ Running
             /\ life[n] = "pending" /\ Cardinality(Busy) < MaxWorkers
             /\ life' = [life EXCEPT ![n] = "running"]
             /\ worker' = [worker EXCEPT ![<<n, resumes>>] = "live"]
             /\ UNCHANGED <<money, claims, call, budgeted, resumes>>

(* A worker returns or fails.                                                *)
WorkerEnds(w) == /\ worker[w] = "live" /\ call[w] = NoCall
                 /\ worker' = [worker EXCEPT ![w] = "ended"]
                 /\ UNCHANGED <<money, claims, call, life, budgeted, resumes>>

(* The executor takes a finished worker out of in_flight: it records or      *)
(* parks a running node, drops the result of a cancelled one, and dies of    *)
(* any other.  The node's claim stays until a plan.                          *)
Drain(w) == /\ Running /\ worker[w] = "ended"
            /\ worker' = [worker EXCEPT ![w] = "none"]
            /\ \/ /\ life[w[1]] = "running"
                  /\ \E to \in {"done", "waiting"} : life' = [life EXCEPT ![w[1]] = to]
                  /\ UNCHANGED budgeted
               \/ life[w[1]] = "cancelled" /\ UNCHANGED <<life, budgeted>>
               \/ /\ life[w[1]] \notin {"running", "cancelled"}
                  /\ budgeted' = FALSE /\ UNCHANGED life
            /\ UNCHANGED <<money, claims, call, resumes>>

(* complete(), up to the await. A worker makes its calls one after another.  *)
Admit(s) == /\ IF s = Planner THEN budgeted ELSE worker[s] = "live"
            /\ call[s] = NoCall
            /\ Rebased(s).action # "refuse"
            /\ call' = [call EXCEPT ![s] = Rebased(s).tier]
            /\ claims' = Released(s)
            /\ UNCHANGED <<money, graph>>

(* complete() refused: BudgetRefused ends the worker; the planner gives up   *)
(* its turn instead.                                                         *)
Refuse(w) == /\ worker[w] = "live" /\ call[w] = NoCall
             /\ Rebased(w).action = "refuse"
             /\ claims' = Released(w)
             /\ worker' = [worker EXCEPT ![w] = "ended"]
             /\ UNCHANGED <<money, call, life, budgeted, resumes>>

(* complete(), from the response on: charge() is the only writer of spent.   *)
Charge(s) == /\ call[s] # NoCall
             /\ \E cost \in 0..Worst(s, call[s]) : spent' = spent + cost
             /\ charges' = charges + 1
             /\ nodeCalls' = [n \in Nodes |-> IF n = Owner(s) THEN nodeCalls[n] + 1
                                              ELSE nodeCalls[n]]
             /\ call' = [call EXCEPT ![s] = NoCall]
             /\ UNCHANGED <<claims, graph>>

(* The transport raised: nothing is charged, no call is counted.             *)
Fail(s) == /\ call[s] # NoCall
           /\ call' = [call EXCEPT ![s] = NoCall]
           /\ UNCHANGED <<money, claims, graph>>

(* /resume, or /completions once it has completed a parked node: every       *)
(* running node is pending again, whoever runs it.                           *)
ResumeElsewhere ==
    /\ resumes < MaxResumes
    /\ resumes' = resumes + 1
    /\ \E W \in SUBSET {n \in Nodes : life[n] = "waiting"} :
          /\ Cardinality(W) <= 1
          /\ life' = [n \in Nodes |-> IF n \in W THEN "done"
                                      ELSE IF life[n] = "running" THEN "pending" ELSE life[n]]
    /\ UNCHANGED <<money, claims, call, worker, budgeted>>

Moves == {<<"new", "pending">>, <<"pending", "running">>, <<"running", "waiting">>,
          <<"running", "done">>} \cup (Open \X {"cancelled"})

(* The executor that resumed plans, launches, records and cancels as any     *)
(* does, and calls the provider without a controller.                        *)
Elsewhere(n) == /\ resumes > 0
                /\ \E to \in {"pending", "running", "waiting", "done", "cancelled"} :
                      <<life[n], to>> \in Moves /\ life' = [life EXCEPT ![n] = to]
                /\ UNCHANGED <<money, claims, call, worker, budgeted, resumes>>

Next == \/ \E added, cancelled \in SUBSET Nodes : Plan(added, cancelled)
        \/ StopAll \/ ExecutorOver \/ ResumeElsewhere
        \/ \E n \in Nodes : Launch(n) \/ Elsewhere(n)
        \/ \E w \in Workers : WorkerEnds(w) \/ Drain(w) \/ Refuse(w)
        \/ \E s \in Sites : Admit(s) \/ Charge(s) \/ Fail(s)

Spec == Init /\ [][Next]_budgetVars
-----------------------------------------------------------------------------
Life == Open \cup {"new", "done", "cancelled"}

BudgetTypeOK ==
    /\ spent \in Nat /\ charges \in Nat
    /\ nodeCalls \in [Nodes -> Nat]
    /\ claims \in [Nodes -> 0..Unclaimed]
    /\ life \in [Nodes -> Life]
    /\ worker \in [Workers -> {"none", "live", "ended"}]
    /\ call \in [Sites -> 0..Rungs]
    /\ \A s \in Sites : call[s] <= Requested[Owner(s)]
    /\ budgeted \in BOOLEAN
    /\ resumes \in 0..MaxResumes

Dearest == Price[Rungs] + Excess
Concurrent == MaxWorkers + 1

(* What the ceiling is worth: calls admitted together may each have been     *)
(* admitted against the same remainder, so a run passes its ceiling by at    *)
(* most the price of the other calls in flight, plus one overridden answer.  *)
(* The calls in flight are those of the workers and one of the planner.      *)
OverspendBounded == spent + Headroom <= Total + (Concurrent - 1) * Dearest + Excess

(* The call ceilings count charges, not admissions.  A run may pass its own  *)
(* by the calls that were in flight when it was reached.  A node's workers   *)
(* each call in turn, so a node is held to its own as long as nobody else    *)
(* resumes the run, and passes it by at most one call for each resume.       *)
CallsBounded == /\ charges + Cardinality(InFlight) <= MaxRunCalls + Concurrent - 1
                /\ \A n \in Nodes : nodeCalls[n] <= MaxNodeCalls + resumes

=============================================================================
