---------------------------- MODULE MCAlgorithms ----------------------------
(* The pure parts of the program, each on every input of a small set: one    *)
(* step picks an algorithm and an input, and the invariants say what the     *)
(* algorithm promises of it.                                                 *)
EXTENDS Integers, Sequences, FiniteSets

VARIABLE case

Sf == INSTANCE Surface
Sp == INSTANCE SpanTree
Ch == INSTANCE Chunking
Ev == INSTANCE Evals
Re == INSTANCE Reasoning
Ca == INSTANCE Capabilities
Ec == INSTANCE Economy
Rp == INSTANCE Report
Sk == INSTANCE Skills WITH MaxSkills <- 2, MaxInstructions <- 4, MaxInjected <- 5

UpTo(S, n) == UNION {[1..k -> S] : k \in 0..n}
-----------------------------------------------------------------------------
Fields == {<<>>, <<<<"text", Sf!Bind("a")>>>>, <<<<"text", Sf!Bind(Sf!BadPointer)>>>>,
           <<<<"text", Sf!Bind(Sf!NotAString)>>>>, <<<<"text", Sf!Str("<b>")>>>>,
           <<<<"title", Sf!Str("javascript:")>>>>, <<<<"title", Sf!Str("t")>>>>,
           <<<<"tone", Sf!Str("good")>>>>, <<<<"tone", Sf!Str("red")>>>>,
           <<<<"confirm", Sf!Act("approve")>>>>, <<<<"confirm", Sf!Act("delete")>>>>,
           <<<<"confirm", Sf!Str("approve")>>>>, <<<<"confirm", Sf!Act(Sf!NotHashable)>>>>}
Parts == {Sf!Comp(i, t, f, <<>>) : i \in {"a", "b"},
            t \in {"Text", "Notice", "Card", "ApprovalCard", "Script", Sf!NotHashable}, f \in Fields}
Nodes(n) == UNION {{s \in [1..k -> [id : 1..n, state : {"succeeded", "failed", "waiting"},
                                    skill : {"answer", "work"}, text : BOOLEAN]] :
                       Cardinality({s[i].id : i \in 1..k}) = k} : k \in 0..n}
Composed == UpTo([state : {"succeeded", "failed"}, role : {"ui", "work"}, subject : {"s", "r"},
                  value : {1, Sf!NoValue}, fields : {{"score"}}], 2)
Contents == [sections : {<<TRUE, FALSE>>}, metrics : UpTo(BOOLEAN, 2),
             series : {<<>>, <<TRUE>>}, choices : UpTo(BOOLEAN, 2)]

Call(cost, at, latency) == [cost |-> cost, at |-> at, latency |-> latency]
Event(kind, node, add, calls) == [kind |-> kind, node |-> node, add |-> add, calls |-> calls]
JournalEvents ==
  {Event("graph_patched", Sp!NoNode, {"a"}, <<>>),
   Event("graph_patched", Sp!NoNode, {}, <<Call(1, 0, 3), Call(2, 9, -1)>>),
   Event("task_succeeded", "a", {}, <<Call(3, 4, 2)>>),
   Event("task_failed", "b", {}, <<Call(1, 0, -1)>>)}
  \cup {Event(k, n, {}, <<>>) : k \in {"task_started", "task_waiting", "task_cancelled"},
                                 n \in {"a", "b"}}
Journals == {j \in UpTo(JournalEvents, 4) :
               \A i, k \in DOMAIN j : i < k /\ j[i].kind \in DOMAIN Sp!Ends => j[i].node # j[k].node}

Kinds == {"heading", "fence", "row", "plain", "word"}
Docs == [words : {w \in UpTo(Kinds, 5) :
                    /\ w # <<>> => w[1] # "word"
                    /\ \A i \in DOMAIN w : w[i] = "heading" => i < Len(w) /\ w[i + 1] = "word"},
         ended : BOOLEAN]

Criteria == <<[name |-> "sound", weight |-> 2, needs |-> FALSE],
              [name |-> "meets", weight |-> 1, needs |-> TRUE]>>
Down == [is |-> "down", of |-> <<>>]
Reply(scores) == [is |-> "scores", of |-> scores]
Replies == {Reply([sound |-> s, meets |-> m]) : s \in {0, 1, 2, 3}, m \in {0, 2}}
           \cup {Reply([sound |-> 2]), Reply([sound |-> Ev!NoNumber, meets |-> 1]),
                 [is |-> "prose", of |-> <<>>]}
Members == {<<r>> : r \in Replies} \cup {<<Down, Down>>, <<Down, Reply([sound |-> 2, meets |-> 2])>>}
Records == [id : {"", "pair_1"}, prompts : {TRUE}, labelled : {TRUE}, positive : BOOLEAN,
            score : 0..3]

VerifierReplies ==
  {v \in [score : {Re!NoScore, 40, 84, 90, 101}, critique : BOOLEAN, issues : BOOLEAN,
          odd : BOOLEAN] : v.odd => v.score = 90 /\ v.critique /\ v.issues}
Literals == {"path", "42"}

File(name, readable, chars, always, keyword, enabled) ==
  [name |-> name, readable |-> readable, front |-> chars # 2, chars |-> chars, always |-> always,
   keyword |-> keyword, enabled |-> enabled]
Files == {File(1, "yes", 4, TRUE, FALSE, TRUE), File(2, "yes", 3, FALSE, TRUE, TRUE),
          File(3, "yes", 1, FALSE, TRUE, TRUE), File(1, "yes", 3, FALSE, TRUE, FALSE),
          File(3, "no", 1, FALSE, FALSE, TRUE), File(2, "yes", 5, FALSE, TRUE, TRUE),
          File(3, "yes", 2, FALSE, TRUE, TRUE)}

Arguments == [q |-> Ca!Text(5), n |-> Ca!Default(Ca!Number(1, 5), 3), l |-> Ca!Optional(Ca!List(1, 2)),
              u |-> Ca!Optional(Ca!Formed(Ca!Text(9), "url"))]
Strings == {[Ca!Value("string", n) EXCEPT !.padded = p, !.form = f] :
              n \in {0, 2, 6}, p \in BOOLEAN, f \in {"plain", "url"}}
Values == Strings \cup {Ca!Value("integer", n) : n \in {0, 1, 9}} \cup {Ca!Value("boolean", 1)}
          \cup {[Ca!Value("array", Len(s)) EXCEPT !.items = s] : s \in UpTo(Strings, 1)}
Results == [state : {"succeeded", "failed", "cancelled"}, empty : BOOLEAN, records : {0, 1},
            items : {<<>>, <<[text |-> 0, source |-> TRUE], [text |-> 4, source |-> FALSE]>>},
            body : {0, 3}, sources : {0, 2}, summary : {FALSE}, prepend : BOOLEAN]

Price(i, o) == [input |-> i, output |-> o]
Models == {<<"g">>, <<"g", "flash">>, <<"h">>}
Pricings == {[default |-> Price(7, 9), models |-> [m \in s |-> Price(Len(m), 3 * Len(m))],
              readPercent |-> 25, writePercent |-> 125] : s \in SUBSET Models}
ModelIds == {<<>>, <<"g">>, <<"g", "flash">>, <<"g", "flash", "002">>, <<"g", "pro">>, <<"x">>}
Tokens == [input : {0, 5}, output : {0, 2}, read : {0, 4}, write : {1}]
Configs == [order : {<<>>, <<"std">>, <<"eco", "std">>, <<"eco", "mid", "std">>},
            default : {"", "std", "top"},
            roles : {[n \in {} |-> ""], [default |-> "std"], [default |-> "eco", writer |-> "top"]},
            tiers : {[n \in {"eco", "std"} |-> [model |-> <<"g">>]]}]
Tasks == UpTo([role : {"writer", "reader"}, tier : {"", "eco", "odd"}], 2)

Decided(s, refused, relevant) == [sub |-> s, refused |-> refused, relevant |-> relevant, cost |-> 1]
EventRecords == UpTo([event : {"e1", "e2"}, at : {1, 2},
                      decisions : {<<>>, <<Decided("s1", "max_runs", TRUE)>>,
                                   <<Decided("s1", "none", TRUE), Decided("s2", "max_runs", TRUE)>>}], 2)
Distinct(records) == \A i, j \in DOMAIN records : records[i].event = records[j].event => i = j
Refusals == UpTo([event : {"e1", "e2"}, control : {"max_runs", "self_trigger"}, sub : {"s1", "s2"},
                  at : {1, 2}], 2)
-----------------------------------------------------------------------------
NoCase == [alg |-> "none"]
Init == case = NoCase

NoneYet == case = NoCase
Pick(c) == case' = c

PickWall ==
  NoneYet /\ \E s \in UpTo(Parts, 1) \cup {<<p, q>> : p \in {x \in Parts : x.id = "a"},
                                                 q \in {x \in Parts : x.id = "b" /\ x.type # "Card"}} :
    Pick([alg |-> "wall", parts |-> s])
PickSurface ==
  NoneYet /\ \E s \in Nodes(2) :
    Pick([alg |-> "surface", nodes |-> s])
PickModel ==
  NoneYet /\ \E s \in Composed, c \in Contents :
    Pick([alg |-> "model", nodes |-> s, content |-> c])
PickTrace ==
  NoneYet /\ \E j \in Journals :
    Pick([alg |-> "trace", events |-> j])
PickChunks ==
  NoneYet /\ \E d \in Docs, max \in {2, 3}, topics \in {{}, {2, 4}} :
    Pick([alg |-> "chunks", doc |-> d, max |-> max, floor |-> 2, topics |-> topics])
PickVerdict ==
  NoneYet /\ \E tie \in {"score", "unresolved"}, floor \in {0, 50}, e \in BOOLEAN,
                  p \in UpTo(Members, 3) \ {<<>>} :
                 Pick([alg |-> "verdict", expectation |-> e, panel |-> p,
                       rubric |-> [criteria |-> Criteria, scale |-> 2, bar |-> 75, floor |-> floor,
                                   tie |-> tie, retries |-> 1]])
PickSweep ==
  NoneYet /\ \E r \in UpTo(Records, 3), low \in {0, 1}, step \in {1, 2} :
    Pick([alg |-> "sweep", records |-> r, low |-> low, step |-> step])
PickLadder ==
  NoneYet /\ \E r \in [1..3 -> VerifierReplies], n \in 0..2 :
    Pick([alg |-> "ladder", replies |-> r, refinements |-> n])
PickRewrite ==
  NoneYet /\ \E q, c, l \in SUBSET Literals, len \in {0, 5, 99}, j, same, raised \in BOOLEAN :
    Pick([alg |-> "rewrite", request |-> [literals |-> l, length |-> 8], raised |-> raised,
                       reply |-> [json |-> j, query |-> q, constraints |-> c, length |-> len,
                                  same |-> same]])
PickSkills ==
  NoneYet /\ \E f \in UpTo(Files, 3), r \in SUBSET {2, 3} :
    Pick([alg |-> "skills", files |-> f, requested |-> r])
PickContract ==
  NoneYet /\ \E q \in Values, rest \in SUBSET {"n", "l", "u", "x"}, v \in Values :
    Pick([alg |-> "contract",
                       values |-> [k \in {"q"} \cup rest |-> IF k = "q" THEN q ELSE v]])
PickManifest ==
  NoneYet /\ \E sandbox, workspace, skills \in BOOLEAN :
    Pick([alg |-> "manifest", sandbox |-> sandbox, workspace |-> workspace,
                       skills |-> skills])
PickEvidence ==
  NoneYet /\ \E n \in UpTo(Results, 1) \cup [1..2 -> {r \in Results : r.records = 1 \/ r.body = 3}] :
    Pick([alg |-> "evidence", nodes |-> n])
PickPrice ==
  NoneYet /\ \E p \in Pricings, m \in ModelIds, a, b \in Tokens :
    Pick([alg |-> "price", pricing |-> p, model |-> m, first |-> a, second |-> b])
PickTiers ==
  NoneYet /\ \E c \in Configs, t \in Tasks, who \in {"capped", "free"}, asked \in {-1, 2, 8} :
    Pick([alg |-> "tiers", config |-> c, tasks |-> t, principal |-> who, requested |-> asked])
PickReport ==
  NoneYet /\ \E r \in {x \in EventRecords : Distinct(x)}, l \in Refusals :
    Pick([alg |-> "report", records |-> r, ledger |-> l])

Next == \/ PickWall \/ PickSurface \/ PickModel \/ PickTrace \/ PickChunks \/ PickVerdict
        \/ PickSweep \/ PickLadder \/ PickRewrite \/ PickSkills \/ PickContract
        \/ PickManifest \/ PickEvidence \/ PickPrice \/ PickTiers \/ PickReport

Spec == Init /\ [][Next]_case
-----------------------------------------------------------------------------
(* ui: one refused component takes no other with it, unless a malformed one  *)
(* makes the whole call raise; the harness's own surfaces pass the wall with *)
(* every pointer and reference resolved; a numbered pointer offered to the   *)
(* composer has an entry behind it (validate_surface, build_run_surface,     *)
(* compose_surface).                                                         *)
SurfacesStand ==
  /\ case.alg = "wall" => Sf!WallStands(case.parts)
  /\ case.alg = "surface" => Sf!RunSurfaceStands(case.nodes)
  /\ case.alg = "model" => Sf!PointersBacked(case.nodes, case.content)
  /\ Sf!OwnSurfaceStands(Sf!ApprovalSurface)

(* telemetry: the trace holds every metered call and every attempt once, and *)
(* spans lie in their parents (build_span_tree).                             *)
TracesStand == case.alg = "trace" => Sp!TraceStands(case.events, 5)

(* memory: chunks tile the document within the budget (semantic_chunks).     *)
ChunksTile == case.alg = "chunks" => Ch!ChunksStand(case.doc, case.max, case.floor, case.topics)

(* evals: a panel's verdict is its own and monotone, a recommended threshold *)
(* is a safe one if there is any (RubricJudge.judge, best_operating).        *)
EvalsStand ==
  /\ case.alg = "verdict" => Ev!VerdictStands(case.rubric, case.expectation, case.panel)
  /\ case.alg = "sweep" => Ev!ThresholdStands(case.records, case.low, 3, case.step)

(* reasoning: the ladder returns its best attempt and calls it verified only *)
(* with a verdict; a rewrite loses no literal of the user's                  *)
(* (ReasoningEngine.run, QueryOptimizer).                                    *)
ReasoningStands ==
  /\ case.alg = "ladder" => Re!LadderStands(case.replies, 85, case.refinements)
  /\ case.alg = "rewrite" => Re!RewriteStands(case.request, case.reply, 4, case.raised)

(* capabilities, skills: contracts are idempotent, the manifest always       *)
(* offers an end, evidence is attributed and bounded; skills have unique     *)
(* names, one that was asked for is injected, and what a keyword alone       *)
(* brings in stays within the budget (validate, project_evidence, answer,    *)
(* SkillManager.render).                                                     *)
ContractsStand ==
  /\ case.alg = "contract" => Ca!ContractStands(Arguments, case.values)
  /\ case.alg = "manifest" => Ca!RegistryStands(case.sandbox, case.workspace, case.skills)
  /\ case.alg = "evidence" => Ca!EvidenceStands(case.nodes, 1, 3, 8)
  /\ case.alg = "skills" => Sk!SkillsStand(case.files, case.requested)

(* economics: a model is billed by its most specific row and a bill adds up, *)
(* a task is on a rung of the ladder, and no caller lifts a principal's cap  *)
(* (Pricing, TierLadder, declare_tiers, EconomicsConfig.ceiling_for).        *)
PricesStand ==
  /\ case.alg = "price" => Ec!PriceStands(case.pricing, case.model, case.first, case.second)
  /\ case.alg = "tiers" => Ec!TiersStand(case.config, case.tasks, [capped |-> 5],
                                         case.principal, case.requested)

(* events: the report tells every refusal once (morning_report).             *)
RefusalsToldOnce == case.alg = "report" => Rp!ReportStands(case.records, case.ledger, 2)
=============================================================================
