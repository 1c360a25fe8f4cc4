-------------------------------- MODULE Evals --------------------------------
(* Judging an answer with a panel (s17code/evals/judge.py, config.py) and    *)
(* choosing a cache threshold from labelled pairs (pairs.py).  A rubric is   *)
(* [criteria, scale, bar, floor, tie, retries]: criteria a sequence of       *)
(* [name, weight, needs], needs when it wants the task's expectation; bar    *)
(* and floor are normalised scores in percent.  Means and weights are kept   *)
(* as fractions, multiplied out where they are compared.                     *)
EXTENDS Integers, Sequences, FiniteSets, TLC, SequencesExt, FiniteSetsExt, Functions, Sums

Clamp(v, top) == Min({Max({v, 0}), top})

(* RubricConfig.applicable: the criteria in play, by their places.           *)
Applicable(rubric, expectation) ==
  {i \in DOMAIN rubric.criteria : expectation \/ ~ rubric.criteria[i].needs}

InAll(rubric, f) == Total(Len(rubric.criteria), f)

(* weights: negative ones count for nothing, and if none counts all count.   *)
Weights(rubric, criteria) ==
  LET weight == [i \in criteria |-> Max({0, rubric.criteria[i].weight})]
  IN IF InAll(rubric, weight) > 0 THEN weight ELSE [i \in criteria |-> 1]

(* Scores are <<sums, count>>: the mean of count gradings, one sum a         *)
(* criterion.                                                                *)
Overall(rubric, criteria, sums) ==
  InAll(rubric, [i \in criteria |-> sums[i] * Weights(rubric, criteria)[i]])

(* RubricConfig.resolved: no criterion under the floor, the whole over the   *)
(* bar.                                                                      *)
Clears(rubric, criteria, sums, count) ==
  /\ \A i \in criteria : sums[i] * 100 >= rubric.floor * rubric.scale * count
  /\ Overall(rubric, criteria, sums) * 100
       >= rubric.bar * rubric.scale * count * InAll(rubric, Weights(rubric, criteria))

(* parse_scores: a call comes to [is, of], "down", "prose" or "scores", of   *)
(* what stands at each name in the reply; a criterion that is missing or no  *)
(* number fails the judge, a number off the scale is clamped.                *)
NoNumber == -99
Parses(reply, rubric, criteria) ==
  /\ reply.is = "scores"
  /\ \A i \in criteria : LET name == rubric.criteria[i].name
                         IN name \in DOMAIN reply.of /\ reply.of[name] # NoNumber

ParseScores(reply, rubric, criteria) ==
  [i \in criteria |-> Clamp(reply.of[rubric.criteria[i].name], rubric.scale)]

(* _sample: a member of the panel is the sequence of what its calls come to; *)
(* only a transport that is down is tried again.                             *)
Asked(member, retries) ==
  LET answered == {k \in 1..Len(member) : k <= retries + 1 /\ member[k].is # "down"}
  IN IF answered = {} THEN 0 ELSE Min(answered)

Sample(member, rubric, criteria) ==
  LET asked  == Asked(member, rubric.retries)
      ok     == asked # 0 /\ Parses(member[asked], rubric, criteria)
      scores == IF ok THEN ParseScores(member[asked], rubric, criteria) ELSE <<>>
  IN [ok |-> ok, called |-> asked # 0, scores |-> scores,
      resolved |-> ok /\ Clears(rubric, criteria, scores, 1)]

(* Mutant of Votes: a judge that failed counts against the answer.           *)
VotesOfAll(samples) ==
  [for     |-> {m \in DOMAIN samples : samples[m].resolved},
   against |-> {m \in DOMAIN samples : ~ samples[m].resolved}]

(* Whose samples are votes: those of members that gave scores.               *)
Votes(samples) ==
  [for     |-> {m \in DOMAIN samples : samples[m].ok /\ samples[m].resolved},
   against |-> {m \in DOMAIN samples : samples[m].ok /\ ~ samples[m].resolved}]

(* RubricJudge.judge: nobody is asked about an empty or failed answer; a     *)
(* panel that failed as a whole gives no outcome; else the votes decide, and *)
(* a tie as the rubric says.                                                 *)
Judge(rubric, expectation, answered, panel) ==
  LET criteria == Applicable(rubric, expectation)
      samples  == [m \in DOMAIN panel |-> Sample(panel[m], rubric, criteria)]
      usable   == {m \in DOMAIN samples : samples[m].ok}
      for      == Cardinality(Votes(samples).for)
      against  == Cardinality(Votes(samples).against)
      sums     == [i \in criteria |->
                     Total(Len(panel), [m \in usable |-> samples[m].scores[i]])]
      resolved == \/ for > against
                  \/ /\ for = against
                     /\ rubric.tie = "score"
                     /\ Clears(rubric, criteria, sums, Cardinality(usable))
      none     == [status |-> "unresolved", calls |-> 0, failures |-> 0, disputed |-> FALSE]
  IN IF ~ answered THEN none
     ELSE [status   |-> IF usable = {} THEN "judge_failed"
                        ELSE IF resolved THEN "resolved" ELSE "unresolved",
           calls    |-> Cardinality({m \in DOMAIN samples : samples[m].called}),
           failures |-> Len(samples) - Cardinality(usable),
           disputed |-> for > 0 /\ against > 0]
-----------------------------------------------------------------------------
(* load_pairs: a record is [id, prompts, labelled, positive, score], score   *)
(* the similarity of its prompts; nothing is dropped in silence, and what    *)
(* loads can be swept.                                                       *)
PairIds(records) ==
  [k \in DOMAIN records |-> IF records[k].id = "" THEN "pair_" \o ToString(k) ELSE records[k].id]

Loads(records) ==
  /\ records # <<>>
  /\ \A k \in DOMAIN records : records[k].prompts /\ records[k].labelled
  /\ IsInjective(PairIds(records))
  /\ \E k \in DOMAIN records : records[k].positive
  /\ \E k \in DOMAIN records : ~ records[k].positive

(* thresholds: from low in steps, never past high.                           *)
Thresholds(low, high, step) ==
  [k \in 1..((high - low) \div step + 1) |-> low + (k - 1) * step]

(* How many pairs hit at a threshold.                                        *)
Hits(scored, t, positive) ==
  Cardinality({k \in DOMAIN scored : scored[k].positive = positive /\ scored[k].score >= t})

Sweep(scored, grid) ==
  [k \in DOMAIN grid |->
     [threshold |-> grid[k], tp |-> Hits(scored, grid[k], TRUE), fp |-> Hits(scored, grid[k], FALSE)]]

ScoresOf(scored, positive) ==
  {scored[k].score : k \in {j \in DOMAIN scored : scored[j].positive = positive}}

Separable(scored) ==
  /\ ScoresOf(scored, TRUE) # {} /\ ScoresOf(scored, FALSE) # {}
  /\ Min(ScoresOf(scored, TRUE)) > Max(ScoresOf(scored, FALSE))

(* steepest_fpr_drop: the first of the steps over which most collisions go.  *)
Knee(operating) ==
  LET drop(k) == operating[k].fp - operating[k + 1].fp
      steps   == 1..(Len(operating) - 1)
  IN Min({k \in steps : \A j \in steps : drop(j) <= drop(k)})

(* best_operating: without collisions if it can be, then the most hits, the  *)
(* fewest collisions and the strictest threshold.                            *)
Better(p, q) == \/ p.tp > q.tp
                \/ p.tp = q.tp /\ p.fp < q.fp
                \/ p.tp = q.tp /\ p.fp = q.fp /\ p.threshold >= q.threshold

BestOperating(operating) ==
  LET clean == {p \in ToSet(operating) : p.fp = 0}
      pool  == IF clean # {} THEN clean ELSE ToSet(operating)
  IN CHOOSE p \in pool : \A q \in pool : Better(p, q)
-----------------------------------------------------------------------------
(* A verdict is the panel's and nobody else's: there is none exactly when no *)
(* member gave one, a panel of one mind is obeyed however its members fell,  *)
(* and each member was called or is a failure.                               *)
PanelObeyed(rubric, expectation, panel) ==
  LET criteria == Applicable(rubric, expectation)
      verdict  == Judge(rubric, expectation, TRUE, panel)
      samples  == [m \in DOMAIN panel |-> Sample(panel[m], rubric, criteria)]
      given    == {samples[m].resolved : m \in {k \in DOMAIN samples : samples[k].ok}}
  IN /\ (verdict.status = "judge_failed") = (given = {})
     /\ given = {TRUE} => verdict.status = "resolved"
     /\ given = {FALSE} => verdict.status = "unresolved"
     /\ verdict.disputed = (given = BOOLEAN)
     /\ verdict.calls + verdict.failures >= Len(panel)

(* A panel of which member m scores one more by a name in its k-th call.     *)
Raised(panel, m, k, name) == [panel EXCEPT ![m][k].of[name] = @ + 1]

(* A higher score never costs an answer its verdict.                         *)
VerdictMonotone(rubric, expectation, panel) ==
  LET criteria == Applicable(rubric, expectation)
      status(p) == Judge(rubric, expectation, TRUE, p).status
  IN status(panel) = "resolved" =>
       \A m \in DOMAIN panel :
         LET k == Asked(panel[m], rubric.retries)
         IN Sample(panel[m], rubric, criteria).ok =>
              \A i \in criteria :
                status(Raised(panel, m, k, rubric.criteria[i].name)) = "resolved"

VerdictStands(rubric, expectation, panel) ==
  /\ PanelObeyed(rubric, expectation, panel)
  /\ VerdictMonotone(rubric, expectation, panel)

(* Pairs that load are separable exactly when some threshold admits all that *)
(* should hit and none that should not; a stricter threshold admits no more; *)
(* the recommended one admits no collision if any of the grid does not, and  *)
(* where the grid has one that tells the pairs apart, is such a one.         *)
ThresholdStands(records, low, high, step) ==
  LET scored == records
      grid == Thresholds(low, high, step)
      operating == Sweep(scored, grid)
      best == BestOperating(operating)
      tells(t) == Hits(scored, t, FALSE) = 0 /\ Hits(scored, t, TRUE) = Hits(scored, 0, TRUE)
  IN Loads(records) =>
       /\ Separable(scored) = \E t \in ScoresOf(scored, TRUE) : tells(t)
       /\ \A k \in DOMAIN grid : grid[k] \in low..high
       /\ \A j, k \in DOMAIN grid : j <= k =>
            operating[k].tp <= operating[j].tp /\ operating[k].fp <= operating[j].fp
       /\ (\E k \in DOMAIN grid : operating[k].fp = 0) => best.fp = 0
       /\ (\E k \in DOMAIN grid : tells(grid[k])) => tells(best.threshold)
       /\ Len(grid) > 1 => operating[Knee(operating)].fp >= operating[Knee(operating) + 1].fp
=============================================================================
