# A TLA+ development of S17Code

S17Code runs a request as a *live graph*: a planner (a language model) adds, cancels and
finishes tasks while an executor runs the ones that are ready. Around that core stand a
money controller, an event engine that starts runs nobody asked for, channel messages and
job callbacks, A2A tasks, scoped memory, a coding surface and a UI stream. Everything runs
in one process on one asyncio loop: coroutines interleave at awaits and nowhere else. What
survives the process is in JSON files replaced atomically and in SQLite.

Paths below are relative to `src/`; those without a directory are under `src/s17code/`.

## Inventory

| Part | State | Operations | What is hard | Module |
|---|---|---|---|---|
| `GraphStore` (`core/live_graph/store.py`) | one checkpoint per run: nodes, edges, wait handles, journal, answered triggers | start, resume, mark_running, record_outcome, record_waiting, complete_waiting, apply_patch, record_external_event | any order of operations by executors, callbacks and restarts; idempotent patches and callbacks | `GraphStore` |
| its wait index | one file for all runs | save, find, repair, forget | crash between checkpoint and index, two runs on one handle | `WaitIndex` |
| `LiveGraphExecutor` (`core/live_graph/core.py`) | in-flight workers, the batch being drained | replay, fill, wait, drain, plan, cancel | a second executor on the same run, results late or of cancelled nodes, crash between saves | `LiveGraph` |
| `GeneralAgentPlanner` (`planner.py`) | none that outlives a call | one patch per event | plans against a snapshot that is stale when its patch arrives | `LiveGraph` |
| `ActionOutbox` (`events/outbox.py`) | one record per side effect | execute | crash between record and receipt | `LiveGraph` |
| Routes (`routes.py`, `ui/routes.py`) | replies stored with events | message, approval, completion, action, resume | provider retries, callbacks that race the save they answer | `Intake` |
| Economics (`economics/`) | spend, charges, slices, call counts of one run | decide, admit, charge, refuse, allocate | money decided before an await and charged after it | `Budget`, `Economy` |
| Event engine (`events/engine.py`, `store.py`, `governor.py`, `report.py`) | event history, id index, decisions, day windows | refuse, ingest, triage, decide, reserve, settle, compact, report | redelivery, bursts, compaction under a task, crash between ingest and decision | `EventEngine`, `Report` |
| A2A server (`core/a2a/server.py`) | tasks and push ledger in SQLite | send, stream, cancel, recover, push | cancel against completion, restart between save and push | `A2ATask` |
| A2A bridge (`core/a2a/official.py`) | remote ids and results | dispatch, resume, cancel | crash between the journal entry and the resume | `A2ABridge` |
| Memory (`core/memory/`) | records, document versions, a vector sidecar in two files | write, ingest, recall, start | failed embeddings in an open transaction, the sidecar behind the table | `Memory`, `Chunking` |
| Coding surface (`coding/`) | files of one checkout, a ledger per run | read, edit, create, copy, run, reset | read-before-edit across runs, names and resets | `Coding` |
| UI (`ui/`) | a folded data model per reader | stream, snapshot, reconnect, wall, surfaces | entries folded twice or not at all | `RunStream`, `Surface` |
| Leases (`events/lease.py`) | one file per schedule | acquire, steal, release | expiry under a slow holder | `Lease` |
| Telemetry, evaluation, reasoning, capabilities, skills | none shared | functions of their input | combinations of odd inputs | `SpanTree`, `Evals`, `Reasoning`, `Capabilities`, `Skills` |
| Wiring, authentication, gateway client, command line; the scripts under `proofs/` | none | translate | | not modelled |

How they interact: a route or the event engine calls `AgentRuntime.run`, which builds a
planner, workers and (if asked) a budget, and runs an executor. The executor calls the
store after each worker and each plan. Workers and planner call the model through the
budget controller. A worker may park its node on a handle (a job, an approval, a remote
task); `/completions`, a channel message, the page's action or the A2A bridge settles that
handle and another executor runs on the same run. The engine asks the governor before it
calls the gate and before it starts a run, and records afterwards. Readers follow the
journal; telemetry folds it into spans.

The properties each part needs: the store never revises a decision and its journal tells
its whole state; the executor loses no outcome, starts no side effect twice and comes to
an end; a callback that is answered as taken moved its node; the controller bounds what a
run spends; the engine runs each event at most once per subscription, stays under the
day's ceilings and leaves a decision for each task; a remote task has one end, told to
whoever asked; acknowledged records survive; a reader never sees a state the run did not
have. `PROJECT.json` lists every hazard at its line with the properties that cover it.

## Modules

```
RunLedger <-refines- GraphStore <-EXTENDS- LiveGraph        Budget    EventEngine
                       ^    ^                ^                ^           ^
             MCGraphStore  GraphStoreProofs  MCLiveGraph   MCBudget   MCEventEngine
                            ^             ^          BudgetProofs  EventEngineProofs
                            '---- LiveGraphProofs

WaitIndex <-EXTENDS- Intake <- MCIntake     A2ATask <-EXTENDS- A2ABridge <- MCA2A
                        ^- IntakeProofs                            ^- A2AProofs
RunStream, Memory, Coding, Lease <-EXTENDS- MCServices
RunStream, Memory, Coding, Lease <-EXTENDS- ServicesProofs
Surface, SpanTree, Chunking, Evals, Reasoning, Capabilities, Skills, Economy, Report
        <-INSTANCE- MCAlgorithms <-EXTENDS- AlgorithmsProofs
Sums <-EXTENDS- SpanTree, Evals
```

**RunLedger** is what a reader of a run may rely on: each task gets at most one verdict,
never revised, and a sealed run has no open task.

**GraphStore** is the checkpoint. One variable per part of the JSON (`state`, `deps`,
`wait`, `finished`, `journal`, `applied`) and one action per public method: a method
loads, changes and replaces the file under a lock, so it is one step, and one that raises
is no step. A journal entry stands for the events one save appends for one purpose.
`CanPatch` holds the checks of `apply_patch` in their order.

**LiveGraph** runs executors over the store. `loop` names the executor that holds the
event loop; between two awaits nobody else moves, but `Crash` may strike between two
saves. `pc` gives the phase of `run()`; `Plan` gives the patches the planner can answer
for the snapshot it was handed, and `EndPlan` applies one to the graph *as it is by then*.
Workers pass through the outbox. `Callback` and `ExecResume` start further executors. A
worker is known by its *job*, a task and the number of executors started when it was
launched: `in_flight` is keyed by the future, and after another executor's resume one
executor may hold two workers of a task.

**WaitIndex** sees several runs as far as they wait: working, parked on one handle, over.
Checkpoint and index are two files, and `SaveWaiting` and `SaveCompletion` are the first
of two saves. `Found` is `_find_waiting`: the index first, then the scan of all runs, with
the repair on the way out. **Intake** adds the HTTP calls. A call runs to the first await
of the graph in one step, then drives its run (`RunStep`) with whichever other calls drive
it, and `Returns` stores the decision and its reply. Calls are lost in a crash, which may
fall between the two saves.

**Budget** is one budgeted run: `Admit` is `complete()` up to its await, `Charge` and
`Fail` what follows, `Plan` the planner wrapper that divides the allowance, `Abandon` the
cancellation of workers. `Decide` is the decision of `policy.py` with its ladder and branch.
`Launch`, `WorkerEnds` and `Drain` are the executor that has the controller;
`ResumeElsewhere` is the routes' `/resume` or `/completions`, which return running nodes to
pending while that executor may still be live, and `Elsewhere` the executor they start,
without a controller. A node that both know may so get a second worker in the first
executor, and both call within the budget; `ExecutorOver` ends it and leaves its workers.

**EventEngine** is `process()`: `RefuseEvent` is `admit_event`, `Deliver` ingests and
creates one task per subscription, tasks share the semaphore, `TakeSlot` and
`RefuseTriage` are `admit_triage`, `StartRun` is `admit_run` with the slot it reserves,
`RunEnds` settles and stores the decision. `refusals` is the store's list with its
truncation; it is also where a decision goes whose body was compacted away. The history is
compacted under the tasks and the process dies. `started` is a history variable.

**A2ATask** is the task server. A task has a driver (the request, a job, or the recovery
of a restart), and a cancellation is a request of its own with its own push; `note` is the
push under way, `ledger` its row in SQLite. **A2ABridge** adds the graph node that starts
a remote task, subscribes to it, and is resumed with its result.

**RunStream** is `GET /events`: the journal, the cursor of each connection, the frames
on the wire and the model each reader has folded. The page of `ui/client/index.html`
reconnects once, with a snapshot; other readers reconnect at their offset. **Memory** is
the record table with its open transaction (`db`) and what is committed (`disk`), the
sidecar in memory and its two files; a call that dies, or a start that rebuilds them, is
cut before the first file, inside it, between the two or inside the second. A file torn
that way cannot be read, and no store starts while it is there. Records are numbered in the order of the
table, so a list of ids read from it is a set of numbers. **Coding** is a checkout
shared by runs, each with its ledger; a path is one of several names of a file, and the
guard looks at the name as it is spelled.
**Lease** is one lease file, with the read and the write of `acquire` apart. The four
share no state, so `MCServices` explores one at a time (`focus`) and leaves the others
at their first state.

The modules under `MCAlgorithms` are pure functions: its one step picks an algorithm and
an input, and the invariants state the promise. **Surface** is the wall, the harness's own
surfaces and the pointers a composer may bind; **SpanTree** the tree of a journal;
**Chunking** the chunker over words known by the kind of line they open; **Evals** the
panel's verdict and the threshold sweep; **Reasoning** the attempt ladder and the query
rewrite; **Capabilities** contracts, registry and evidence; **Skills** discovery and
injection; **Economy** prices, tiers and caps; **Report** the morning report; **Sums** the sum that
a trace and a rubric take.

In every module an operator named *Mutant of X* above definition X is not used by the
specification: it is the form X would take with a plausible mistake, and shows that a
property can fail.

## Runs

| Run | Configuration | Shows |
|---|---|---|
| `store` | 3 tasks, 1 handle, patches of up to two ids or edges, which may name one task twice; 6 journal entries | the graph is sound and never stuck by its shape, a finished run is quiet, the journal replays to the state with one outcome per task and one patch per event, decisions stand, RunLedger is implemented |
| `live_solo` | 3 executors one after another, 2 crashes, 2 worker slots | no outcome is left unplanned, no executor dies of a late result |
| `live_overlap` | 2 executors at once, 1 crash, review may raise | effects are entered once, a started task had all its parents' evidence, orphans come only from a dead executor |
| `live_progress` | 2 tasks, 2 executors at once, 1 crash, fair | each event found unanswered is answered, unless the run is finished or the executor raised or died, and every executor ends |
| `stall` | 1 executor, no crash | *violation*: a run returns neither finished nor waiting |
| `budget` | 2 nodes and the planner, 3 rungs, 2 worker slots, 1 resume by another executor | bounds on money and calls |
| `events` | 2 events, 2 subscriptions, history of 1 body, a crash, a midnight | run and triage ceilings, one run per event, no task without a decision |
| `intake` | 2 runs, 2 messages, 3 calls, 1 job handle, history of 1 body, a crash | a callback that finds one waiting node completes it, redeliveries agree, an approval answers what was asked in its conversation |
| `retry` | 1 message, 2 calls, no crash | *violation*: one message runs twice |
| `a2a` | one task of a graph node, one of another client with a callback url; 2 push attempts, a crash, a client that leaves, a bridge that dies; fair | ends stand and are announced, results are final, every task ends, its node does not wait on |
| `services` | stream: 2 readers, 4 entries, 2 losses; memory: 3 records, 2 chunks a version, 2 embedders, a crash that may tear a file; coding: 2 runs, 2 files under 4 names; lease: 3 ticks, 5 units of time | readers show a state of the run and are told of its end; acknowledged records and whole documents survive; the sidecar agrees; edits are informed; leases do not overlap |
| `algorithms` | every input of bounded sets, 184 000 of them | the promises of the pure parts |

Bounds. `MaxJournal` cuts the store at six entries: enough to add, park, resume, call back,
cancel and finish in any order. `MaxJournal` (40, and 12 in `live_progress`) is never
reached in LiveGraph: there the finite number of executors, crashes and nodes bounds the run. Three executors in
`live_solo` allow a start and two restarts, hence a crash during a recovery; `MaxNew = 3`
lets one patch add more tasks than there are slots. Two calls in flight are what it takes
to pass a budget, and `OverspendBounded` is stated in `Concurrent`; one resume gives a node
its second worker, and `CallsBounded` counts resumes. A history of one body
under two events makes every compaction race happen; two slots let two gates read one
remainder. Three calls in `intake` are a message, its retry and a callback; two runs may
park on one job. Two push attempts are a lost answer and its retry. Four journal entries
let a reader lose its connection with frames on the wire, reconnect, and receive what
came after the snapshot. Three records allow a document of two chunks over a fact, and a
new version over an old; three versions, which may be empty, let a document lose its text
and get it back. Three ticks are a slow holder, the one that stole its lease and a
third. Sequences in `algorithms` have two to five members: enough for an item before, at
and after the one that matters.

Fairness. `LiveGraph` assumes weak fairness of each executor's steps and of each worker's:
the loop runs any coroutine that can run, and model calls and tools have timeouts. Nothing
assumes a callback, a resume or a crash. `A2ATask` and `A2ABridge` assume that the loop
runs each coroutine, that handlers and posts end (they have timeouts), and that a server
that died is started again; not that a client stays, that a push arrives or that a bridge
that died is replaced. Nor does anything assume `RunNode`: `dispatch_waiting` ends with the
resume patch, and only its caller, a test here, runs the graph on; a node is therefore held
to be no longer waiting, not to succeed. `RunStream` assumes that the server's poll and the reader take
their turns while a connection stands; not that it stands.

Deadlock is not checked: a run that ended, or whose bounds are used up, stops; a case of
`algorithms` is one step.

## Disagreements found

`PROJECT.json` quotes the text each contradicts. Two have a run:

* `stall`: `core.py:146` says the loop leaves only a finished or a waiting run. In the trace
  one task parks, its sibling ends, and the planner's patch for that outcome only cancels
  the parked one: nothing is active and the executor returns. A pending task behind a failed
  parent, which counts as active for the planner, leads there by an empty patch.
* `retry`: `README.md:57` says events are deduplicated. A message delivered again while its
  first delivery runs, or after its body was compacted, starts a second run.

Met while modelling, with the definition that keeps the behaviour:

* `core.py:114`: resume returns to pending nodes a live executor is running (`Resume`).
  `AtMostOnceEffects` holds all the same, because of the outbox.
* `controller.py:8`: calls in flight are not counted against the ceiling (`Admit`);
  `OverspendBounded` is what holds. `policy.py:164` says the call ceilings hold whatever the
  prices: they count charges, so calls admitted together pass them, two of one node even,
  when a resume has given its executor a second worker for it (`Launch`, `Admit`);
  `CallsBounded` is what holds. `economics/__init__.py:7`: a resumed run has no controller
  (`Elsewhere`), a cancelled worker drops a billed answer (`Abandon`).
* `README.md:68`: the engine reads `spend_usd` from a result that has no such key, so the
  daily budget refuses nothing (`Reported`). `README.md:57`: after a crash between ingest
  and decision the redelivery is a duplicate and no decision is made (`Deliver`, `Crash`).
  `events/store.py:162`: orphan decisions live in a list that refusals truncate (`Noted`).
* `store.py:246`: a handle two runs wait on is consumed by two completions (`Found`).
* `chunking.py:129`: a table that opens a block is cut after its first row, a comment in a
  fence taken for a heading (`LineStart`, `StructuralEnd`).
* `validator.py:11`: a `$bind` that is no string, or a type or an action that cannot be
  hashed, raises out of the call, and the clean components are lost too (`ValidateSurface`).
* `guard.py:16`: test paths are to be refused before an edit, but the guard matches the path
  as it is spelled and the workspace opens the file it denotes (`Guarded`, `Denotes`).
* `engine.py:9` of `reasoning/`: a verifier's reply with an infinite score, or with issues
  that are no list, raises what the loop does not catch (`Parse`, `Run`). `judge.py:400`: a
  number too large for a float raises, NaN passes for a score (not modelled).
* `compose.py:65`: of two attempts at one subject, one is shown
  (`OutcomeKeys`). `index.html:198`: the page folds nothing after a reconnect (`Folded`).
* `core/memory/store.py:253`: vectors of a former embedder stay in the sidecar (`InStep`);
  a failed audit embedding leaves a transaction open (`WriteRaises`); a crash between the
  sidecar's files can leave more vectors than ids, one inside a file stops every later start
  (`EnsureVectorIndex`, `Searchable`, `Start`).
* `tiers.py:65`: an undefined tier named in `order` becomes a blank one (`Ladder`);
  `tiers.py:129`: one named twice is a rung below itself (`Rank`).
* `edit.py:145`: a copy replaces a file nobody read (`CopyWithinWorkspace`).
* `lease.py:1`: the lock is the process's own (`Locked`), and two schedules may share a file.
* `manager.py:52`: a skill file that is not UTF-8 stops discovery (Skills).
* `capabilities.py:460`, `:524`: `retriever` and `validate_work` fail on an undefined name.

Two more in the budget: a slice is not lowered by what its node spends, so nodes reach
into the reserve that `config/budgets.yaml:11` says is held back; and a branch
(`policy.py:17`) takes the dearest rung that fits the run, not the cheapest, and
reallocates nothing.

## Proofs

Every proof is for arbitrary constants that satisfy the `ASSUME`s of the modules: sets of
tasks, nodes, events, subscriptions and task ids are finite where something is counted,
prices rise with the ladder, bounds are natural numbers, "none" values are outside the
sets they complete. Nothing else is assumed, except where a theorem names a hypothesis.
Each module starts with the types, then the inductive invariant, one lemma per step.

| Module | Theorems | Inductive invariant and why it is needed |
|---|---|---|
| `GraphStoreProofs` | `TypeCorrect`, `GraphAlwaysSound`, `NeverDeadlocked`, `FinishedAlwaysQuiet`, `DecisionsAlwaysStand`, `StoreImplementsLedger`, `JournalAlwaysSound` | `TypeOK`, then each property over it |
| `LiveGraphProofs` | `ExecutorsTyped`; `ExecutorsKeepGraph`, `-Decisions`, `-Journal`, `ExecutorsImplementLedger`; `EffectsAtMostOnce`, `EvidenceAlwaysFirst`, `NoTaskOrphaned`; `NobodyEverRaises`, `OutcomesAlwaysPlanned` | a started task is known; a worker's task is known, a stopped one's decided; for the last two `SoloInv` |
| `BudgetProofs` | `BudgetTyped`, `BudgetInvHolds`, `OverspendAlwaysBounded`, `CallsAlwaysBounded` | `BudgetInv`: who was admitted against what |
| `EventEngineProofs` | `EventsTyped`, `EventInvHolds`, `CeilingsAlwaysHold`, `NeverRunTwice`, `DecisionsKept` | `EventInv`: windows count the runs on record, slots cover the triage to come |
| `A2AProofs` | `TasksTyped`, `EndsAlwaysStand`, `EndsAlwaysAnnounced`, `BridgeImplementsTask`, `EndsStandInBridge`, `ResultsAreFinal` | `DriveInv`: who may still run a task; `PushInv`: what its pushes say |
| `IntakeProofs` | `IntakeInvHolds`, `CallbackAlwaysTakesEffect`, `RedeliveriesAlwaysAgree`, `ApprovalsAlwaysAsked` | `IntakeInv`: calls, event store and runs agree |
| `ServicesProofs` | `TriggersNeverOverlap`, `ChangesAlwaysInformed`, `ShownIsAlwaysTrue`, `RecordsAlwaysStand`, `SidecarAlwaysAgrees` | `LeaseInv`, `LedgerTruthful`, `StreamInv`, `RecordsInv`, `SidecarInv` |
| `AlgorithmsProofs` | `LadderAlwaysStands`, `RewriteAlwaysStands`, `PriceAlwaysStands`, `TiersAlwaysStand`, `ChunksAlwaysStand`, `ContractAlwaysStands`, `ThresholdAlwaysStands`, `PanelAlwaysObeyed`, `VerdictAlwaysMonotone`, `WallAlwaysStands`, `TracesAlwaysNest`, `TraceAlwaysStands`, `ReportAlwaysStands`; `ReasoningAlwaysStands`, `PricesAlwaysStand`, `ChunksAlwaysTile`, `RefusalsAlwaysToldOnce`, `EvalsAlwaysStand`, `TracesAlwaysStand` | none: promises of functions, for every input; the last six are those the run checks |

**Store.** `GraphSound` is inductive with the types: `CanPatch` checks it, and nothing but
a patch touches `deps` or removes a node. `NeverDeadlocked` follows from acyclicity: the
pending tasks, not being empty, have one without a parent among them. `FinishedIsQuiet`
is inductive because each action but the patch needs an active node and the finishing
patch leaves none. The refinement maps an outcome or a callback to `Settle`, a patch to
`Revise`, all else to stutters. `JournalAlwaysSound` needs that replaying a longer journal
is replaying the shorter one and then its last entry. `Replayed` is a recursive function
over the journal; that it exists and unfolds is shown on the *least* length for which it
would not (`LeastExists`, `PrefixFolds`), since no prover here can use the library's
induction theorems.

**Executors.** Every step of LiveGraph is a step of the store or leaves it alone, which
carries the store's theorems over. A patch is planned against a snapshot and applied
later: typing it needs that the snapshot is typed. `EvidenceFirst` rests on the planner, whose
patches hang edges only on tasks they add; `apply_patch` itself would take an edge into a
known node, as it refuses only unknown ends, self edges and cycles. `NoTaskOrphaned` needs that a cancelled worker's task is
decided. Two executors on one run can raise on each other's results and leave outcomes to
each other, so `NobodyEverRaises` and `OutcomesAlwaysPlanned` have the hypothesis
`~Overlap /\ ~ReviewFails`, as the run `live_solo`: executors take turns, each after the
last has returned or died, and the reviewer does not raise. Everything else, crashes
included, may happen. `SoloInv` then says that the planner's snapshot *is* the graph, that
every worker's task runs or was cancelled and has no other worker, and that the events still unanswered are those
the executor has in hand.

**Money.** `BudgetInv` says that while calls are in flight either one of them was admitted
against all that was charged before it, or it is over and all the others may cost what the
dearest tier does. The bound on what is spent is not inductive by itself: it says nothing of
what is still to be charged. For the call ceilings it counts workers: the budgeted executor has at
most `MaxWorkers`, and at most one of a node for each resume and the first launch. A worker
calls in turn, so a node's charges and calls in flight pass its ceiling by no more than the
resumes that were.

**Unattended runs.** A pair with a run on record has a task past its gate, so no second
run starts; the window was raised in the step that recorded the run; each gate being asked
holds one of `Slots`, and was admitted while triage was below its budget.

**Remote tasks.** `DriveInv` says which coroutines a task may still have: only the handler
of a live stream outlives its task's end. `PushInv` says that a push under way is of an
event of its task and agrees with its ledger row, and that the end of a called task is
settled or being pushed. A bridge step is a task server step or a stutter, so both carry
over, and a node's task is never a stream, so its result is final.

**Intake.** Every answered delivery got the first stored decision's reply, unless
deliveries overlapped; decisions exist only for kept bodies; a parked run that a message
started asked for its approval in a reply, unless another call drove it on. The newest
open approval exists because positions of decisions are bounded.

**Services.** The lease theorem has the hypothesis `OneServer`: all ticks in one process,
since the lock of `lease.py` belongs to a process. Then whoever is between read and write
is alone, and what it read is what the file says. A reader's data model is a fold of the
tape; `StreamInv` says where in the tape each entry ends, so a reader that folded so far,
or took a snapshot, shows the run as of one entry. `RecordsInv` says of the open
transaction and of the committed tables alike that they stand, and that the first only
adds to the second, so a rollback or a crash falls back on tables that stand. `SidecarInv`
says that while the embedder is reliable nothing is left uncommitted and the two files
read as one sidecar, or one of them is missing, or the store is down and either a file
is torn, so that it does not start, or the ids on file are not those of the table, so that
the start rebuilds both.

**Algorithms.** Each promise is proved of every input first, then, where the run checks
it whole, of the inputs of the run, which fit the hypotheses. Those are: an `order` of
tiers that names none twice (`OrdersOnce`; `from_mapping` does not look, and a repeated
name breaks the ladder, see above); a budget of at least one word; defaults that fit
their arguments, as every entry of the registry has; verdicts that are numbers; a rubric
of numbers with a natural scale, and replies none of whose numbers is the model's mark
for a missing one or just below it; labelled scores
from 0 to some bound, a range that is not empty and a step above 0, without which
`thresholds` raises; calls metered at a natural number; records of different events,
each with one decision of a subscription, as `add_decision` keeps them. The chunker is a
recursive function whose every place names a later one: that it exists and that what it
collects from any place tiles the rest of the document is shown on the least
counterexample (`WalkForward`, `PiecesTile`); so are the states of the trace builder,
the times of its spans and the entries of the ledger that the report adds. Spans nest
because each comes after its parent (`IsTree`, kept by every event that is read), so
that times resolve from the last span up and a parent covers what is under it. A trace
adds up because each event that is read adds what it counts for and nothing else: the
calls, their cost, the ends of a node and its spans are four measures of one weight, a sum
over the spans (`Weight`), and each handler is shown to move all four by what the event is
due (`PatchedTold`, `StartedTold`, `EndedTold`). It takes that an open span is its node's
own and has not ended (`Told`), or an end could close a span twice. The wall raises
only over a component that holds a value Python can neither match nor look up; of any other
surface it lets a component through exactly when no property is at fault; its catalog gives
each property a kind. A refusal is told once because the ledger's loop adds no key it has. A
threshold is the best of finitely many points, which exists because their counts are
bounded; that counting hits loses none going down is a fact about the cardinality of
subsets. A verdict is monotone since each stage is: clamping (`ClampRises`), the floor and
the weighted sum (`ClearsRises`, over sums that rise place by place, `TotalRises`), one
member's vote (`SampleRises`), and the count of votes. The vote that changes may make a
tie of a defeat, never of a victory; a tie that stays one has the same samples, none
scored lower, so the tie's own sum still clears (`WinsRises`).

Only model-checked, and why:

* Liveness (`ReplayAnswers`, `ExecutorsEnd`, `TaskEnds`, `NodeIsReleased`,
  `ReadersAreTold`): it rests on ENABLED through the fairness conditions.
* `SurfacesStand` and `ContractsStand` as wholes. Proved of them are the wall and the
  contracts. The rest says what `FlattenSeq`, `SelectSeq`, `SortSeq` or `ToString`
  computes (the harness's own surfaces, evidence and skills in their order), and tlapm can
  expand none of these. Fixed tables, as `RegistryStands` reads, TLC evaluates once for
  all.
* The two violations, which are counterexamples.

## Not modelled

Contents of prompts, answers and files; the choice of capabilities by a planner; YAML
loading; HTTP and gRPC encodings; authentication; embeddings and ranking; OTLP export;
prompts of judges, composers and verifiers; the search tools, which only read. In
EventEngine every subscription matches every event, the source rate and the self-trigger
marks are one refusal that may come at any time, and liveness beats are left out. Intake
has one conversation. Lease runs its ticks in one process, as the service would; between
processes the property fails (see above). Memory leaves the scope filter out: it is a
`WHERE` clause of each query; and it has one process, where a second writer could leave a
sidecar behind the table it shares. Chunking breaks between words; the overlap that
`chunking.py:216` takes may begin inside one. Evals scores are integers of a bounded set.
A2ATask has no client that leaves during a task's first push: gRPC sends carry no callback,
so that push returns at once, and the JSON endpoint runs on when its client has gone. The
scripts under `proofs/` drive the server from outside.

## Left to do

Skills and evidence with lists as sets of places instead of `SelectSeq`, as Memory and
Report have them, would let those parts of `ContractsStand` be proved as well.
