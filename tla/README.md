# self-harness in TLA+

A verification project for `self-harness`: a loop that runs an agent under a
versioned *harness*, lets a model rewrite that harness from the traces, evaluates
the rewrite in a sandbox and promotes it when it is significantly better.

The modules model the control of the code in `src/` (paths below are relative to
`src/src/self_harness/` unless they begin with `src/`), TLC checks them on small
instances, and TLAPS proves most of the safety properties for every value of the
constants. `PROJECT.json` maps every definition to the lines it stands for.

## 1. Inventory

| Part | Source | State | Operations | What makes it correct |
|---|---|---|---|---|
| Optimization loop | `orchestrator.py`, `src/scripts/run_loop.py` | step of the generation, HEAD as read at its beginning, candidate | run, one generation, propose with retries, evaluate twice, gate | HEAD moves only to a gated child of HEAD measured with it; nothing is paid for beyond a ceiling; every run ends |
| Budget guard | `budget.py` | dollars, tokens, runs of a process and of a generation | allow/record a mutation call or a sandbox run, start a generation | ceilings stop the process, caps hold, overshoot bounded |
| Artifact registry | `core/registry.py` | one directory per version, HEAD file | register, promote, rollback, has_content, current | complete artifacts under HEAD, immutable versions, lineage rooted in genesis, no content evaluated twice |
| Harness loader | `core/harness_loader.py` | – | load | only gated code is executed in the orchestrator |
| Agent and harness | `core/agent.py`, `core/harness.py` | the episode: step, messages, done | run, next_action, build_context, retries | well-formed traces, sound context, episodes end |
| Trace collection | `tracing/collector.py`, `tracing/schema.py`, `_TeeSink` | buffer, copy in memory | start_run, record, end_run, flush | what was recorded is what is read, in its order |
| Durable sink | `tracing/bigquery_sink.py` | table, dead-letter file | write with retries, dead letter, security incidents, fetch | at least once, bounded duplicates, errors isolated from the agent |
| In-memory analyzer | `tracing/analyzer.py` | – | analyze | counts what happened |
| BigQuery analyzer | `tracing/bigquery_analyzer.py`, `src/infra/bigquery/queries` | – | the same as SQL | agrees with the in-memory one, also over rows stored twice |
| Sandbox, docker | `sandbox/base.py`, `sandbox/local_docker.py` | client, container, results directory | evaluate | a call's own scores, a discarded candidate, or one of two named exceptions; every call ends |
| Sandbox, GKE | `sandbox/gke_sandbox.py`, `src/infra/gke/sandbox-job.yaml` | namespace, policies, ConfigMap, Job | evaluate, poll, harvest, tear down | policies before the pod, namespace torn down, a deadline that covers the Job's |
| Promotion gate | `evaluation/gating.py`, `evaluation/metrics.py` | a random stream, its counts | should_promote, should_rollback | only a gain is promoted, the stream decides mixed results only, promotion and rollback never alternate |
| Evaluation pipeline, suites | `evaluation/pipeline.py`, `evaluation/benchmarks/*` | the episode's seed, the scores so far | run a suite, print scores | candidate and incumbent under matched conditions |
| Mutation engine | `mutation/engine.py`, `vertex_gemini.py`, `prompts.py` | – | propose, trace window, parse | a flag ends the round, the newest evidence fits the budget |
| Static validator | `mutation/validators.py` | – | check | what it checked is what the loader binds |
| Configuration | `load_config`, `src/configs/*.yaml` | – | merge, read | the most specific file decides |
| Model benchmark script | `src/scripts/benchmark_pro_context.py` | a synthetic trace | synthesize, window, verdict | it measures the window of the engine |

**How they interact.** Everything of a run happens in one thread of one process, by
calls. The loop asks the guard before each paid operation and tells it afterwards,
and the guard answers some of them with an exception that ends the loop. The
agent calls the harness, which calls the model; each step is a call of the
collector, which now and then calls the tee, which calls the durable sink and
then the copy. The sandbox calls out of the process: to a docker client (whose
container belongs to a daemon) or to the Kubernetes API (whose Job runs on its
own).

**What is hard.** Not threads: there are none in the program. It is (1) crashes
between two file writes and what a restarted process makes of the rest; (2)
exceptions that leave in the middle of a sequence of calls, so that one of two
things is done; (3) requests whose answer is lost; (4) containers and Jobs that
live on after their caller has gone on; (5) two clocks with one deadline each; (6)
caps that are checked before and enforced after; (7) state that is read once
and used for a whole generation. `PROJECT.json` lists these as hazards, each at
its line.

## 2. Modules

```
Budget   Registry ---- RegistrySession --- MCRegistrySession, RegistryProofs
  | \     /
  |  Orchestrator ---------- MCOrchestrator      Evolution (abstract)
  |     |   \__ EvolutionSpec: implements ________/
  |  OrchestratorProofs
  |
  |  Analysis   MutationEngine --- NeedleBenchmark   Validator
  |        \_____________|__________/____________________/
  +------------------ Proposal --- MCProposal, ProposalProofs

Gate   Benchmarks   Configuration
   \______ | ________/
      Evaluation --- MCEvaluation, EvaluationProofs

Telemetry --- Training --- MCTraining, TrainingProofs

Sandbox (abstract)  <--implements--  DockerSandbox (DockerProofs), GkeSandbox (GkeProofs)

DataInduction (lemmas only): used by RegistryProofs, EvaluationProofs, ProposalProofs
```

**Budget** – `BudgetGuard`. Dollars are integers in a unit of the caller's choice, so
prices per token are whole; characters become tokens by the code's integer
division by 4, separately in the check and in the record. `Charge` and
`CeilingCrossed` are `_enforce`: the record is made first, the exception after.

**Registry** – `HarnessRegistry` on disk. A version `g{generation}-{digest}` is the
pair of a generation and a content. `register` is mkdir and three writes,
`promote` and `rollback` are a truncation and a write: each is a step, with
`call` holding the one that is due. `head = Torn` is the empty file in between.
`rollback` needs the lineage file of HEAD.

**RegistrySession** – the registry under every legal caller, rollback included
(the loop itself never calls `rollback`; nothing in the repository does).

**Orchestrator** – `Orchestrator.run` and all it calls, over the two modules above.
`pc` is where the process is; every early return, `continue`, refusal and
exception is a disjunct. `Crash` may happen at every step and forgets memory
and keeps the disk; `Restart` runs the program again over the same directory,
where a new guard starts at zero and the generation numbers at 0. The mutation
engine, the validator's verdict on a content, the sandbox's result and the
gate's verdict are choices. Variables named history are read by no action; two of them
count the flagged answers (`flagged`) and those that carried no patch (`unheard`).

**Evolution** – what the loop promises, without files, budget or processes: a set of
`<<version, parent>>`, a HEAD, and the versions measured in the current round.
`Orchestrator!EvolutionSpec` maps the loop onto it: a version is registered when
its lineage file is written, HEAD moves when its file has been written, and a
HEAD that was being written when the process died is `Lost`.

**Telemetry** – collector, tee and BigQuery sink. `write` blocks its caller, so
every action of the agent waits for `sink` to be idle. An insert that seems to
fail may have been carried out. The dead-letter file may fail after any row.
`table` and `deadLetter` count copies.

**Training** – `Agent.run` under the built-in harness or, when `mutated`, under
any code: it may do anything that an `Action` allows in any state, set
`done`, raise, answer something that is no Action, which raises outside the
agent's `try`, or never return (`Hang`): `Agent.run` calls it without a timeout, and no code reads
`step_timeout_s` of `default.yaml`. Contents of messages are one bit: whether the last one holds a
termination keyword, and tool calls and model calls are one kind of span, since `Agent.run` treats them alike.
After the batch come the analyzer and possibly an incident, written past the collector.

**Sandbox** – what the backends keep of the contract of `sandbox/base.py`: an evaluator per call, an
answer per call, completed only after the evaluator passed, with its own
scores or with none, and a discarded candidate otherwise. `base.py:6-8` wants no exception at all. The
contract has two, each with its cause in the state: the backend's own infrastructure failed the
call (`broken`), or what the evaluator left as its report cannot be read (`unreadable`). The second is
the candidate's doing and departs from the text.

**DockerSandbox** – one `docker run` per call. The container is a process of
its own that may leave any file or none, print bytes that are no text, exit early
with status 0, hang, or begin after its client was killed. `why` is the violation of a discarded
result, or what raised.

**GkeSandbox** – one call of `evaluate`, request by request, each of which may
fail or lose its answer; the Job as Kubernetes runs it; the poll loop in time
counted in poll intervals. `printed` is what the last marker line of the log holds, the pipeline's scores
or what mutated code printed as such. `enforced` says whether Kubernetes honours
`activeDeadlineSeconds`. The job template is an argument of the constructor, so
where it mounts the ConfigMap is a constant: `"flat"` is the shipped
`sandbox-job.yaml`, `"versioned"` one that lists item paths.

**Gate** – `PromotionGate`. `ShouldPromote` begins with the early returns of the code
(no common task, no positive gain, below the floor); then each `Resample` is one
iteration of the bootstrap over any resample, and the last one compares the
count with alpha. `ShouldRollback` is the same test with the arguments swapped. Scores
are integers and means are sums: both sides have the same divisor. Where two exact
values are equal, the floats of the code may be rounded to either side, and the model
takes both outcomes.

**Benchmarks** – the six tasks' scores of a final state: `done`, `step`, the phrases and the
items its messages mention. `Begins` keeps that the code looks for a substring, so
`record_1` is found in `record_10`.

**Configuration** – `load_config` of a chain of files given by `extends`, and the paths that a start of the
loop reads and must find. A nested mapping is the function from its paths to leaves and dicts, so
that `_deep_merge` is one definition (what the base has stays where it is not in the way of
what the override has) and only the chain is a recursion, by a recursive function.

**Evaluation** – these three composed, for one candidate and its incumbent: the settings are loaded, two evaluator
processes run episode by episode, a sandbox hands a report over or discards the candidate,
and the gate answers. A report (`HandedOver`) is the means of the finished suite, no scores, or any dict of
`Reports`: the harness runs in the process whose scores file, or whose last `##SCORES##` line, is taken, and
may end it with status 0 at any time, so fewer or other tasks can be reported. `AskRollback` is what an operator can do with a promoted harness;
nothing in the repository calls `should_rollback`.

**Analysis** – the two analyzers as operators on one sequence of events. The SQL side
works on a table, that is events with a number of copies each; window functions over
`ORDER BY step` see all copies of a row next to each other. The walk and the window functions
are relations between a row and the one before it (`CallBefore`, `Lag`).

**MutationEngine** – `_serialize_traces` as a fold from the newest line backwards,
`_parse_patch` on any answer: a JSON object with any of its keys, a field of which may be null, text, or
something that raises.

**Validator** – the six gates of `PatchValidator` over a source's syntax tree as far as they read
it, and which class `HarnessLoader` binds: the validator checks the first class named
`Harness`, the loader takes the last statement that binds the name.

**NeedleBenchmark** – `synthesize_trace`, the mirrored window and the mock engine's verdict.

**Proposal** – these four with the guard of `Budget`: a batch of events is recorded and
delivered with copies, analyzed, windowed, put to a model that answers anything, and each answer is
charged, parsed, looked at for its flag, and put before the tabu check and the gates, for as many
attempts as the loop has. A patch whose artifact has no length, and an incident that cannot be written, raise. `Benchmark` is the other caller of the engine.

### What the models leave out

* Payloads, times in traces, log texts, hash functions (digests are taken to
  be injective), and which patch a model writes.
* The state object is shared with the harness by reference. Mutated code may set
  `done`; that it rewrites `step` or `messages` is left out, so the bounds on them hold
  for code that does not.
* Signals and power failures at finer grain than one file write; `write_text` of
  the artifact files is one step (HEAD, which is overwritten in place, is two).
* Container runtime, Kubernetes and BigQuery beyond what the calls can observe.
* Of a final state everything that no task reads; of a syntax tree every node
  that no gate looks at; of a payload everything but its size and whether a result has `error` in it.

## 3. Runs

`tlc -config X.cfg M`; the module of each run is in `PROJECT.json`.

| Run | Bounds | Shows |
|---|---|---|
| `loop_restarts` | 3 generations, 4 contents (two valid, one broken, genesis'), 2 attempts, 4 runs of the sandbox, up to 3 processes | what is on disk, executed, evaluated and promoted is right after any crashes; the loop implements `Evolution`; versions are immutable. A `VIEW` leaves out the counters of flags, which no action and none of these properties reads |
| `loop_budget` | amounts on both sides of a rounding edge and of every cap and ceiling, no restart | caps and ceilings with their exact overshoot; the flag of a patch is lost only with the process, to the ceiling its own answer crosses or to an exception; `EveryRunEnds` |
| `registry_session` | 3 contents up to symmetry, 2 generation numbers | HEAD and its ancestry under rollback and crashes |
| `training` | 2 episodes of up to 2 steps, window of 2, buffer of 3, 1 model call and 2 inserts before giving up, an incident | traces, copy and context are right; delivery at least once, duplicates, the report; the batch ends, or hangs in mutated code |
| `docker` | 2 calls | the contract with its two exceptions, every call ends |
| `gke` | 3 policies (those of the template), wall clock 3, grace 5, setup up to 8, API delay 1 | policies first, tear-down, deadline, contract, every call ends |
| `evaluation` | seven chains of 1 to 3 files, both suites and none, 1 or 2 episodes, 1 or 2 draws, three final states that differ on every task, reports of one task and of one that no suite has | settings are the most specific, a promotion is a gain on the tasks that both reports have, luck decides mixed results only, promotion and rollback do not alternate |
| `evidence` | 2 runs of up to 4 spans, rows stored once or twice, depth buckets of 2 steps, a window of 10 tokens, 2 attempts, any answer, 13 sources | the window, both analyzers, what a flag ends, the benchmark |

*Why the bounds are enough.* An oscillation A, B, A needs two contents and three
generations; a name clash needs one restart, and a half-written
artifact that is found by a process after the next one needs two. The caps of `loop_budget` are
smaller than two calls, so each is met from below, exactly and from above. The
window of 2 holds the first two messages and loses one of the third, and a buffer of 3 is
flushed within an episode of 4 events and at its end, so that the two episodes and their retried
batches meet in every order; an error as the first of two steps is the least one after which
a step could wrongly follow. Two calls
are enough for a container to outlive its own and meet another one's. The GKE
setup may take more and less than the grace. Three files show a key decided in the middle of a
chain; a second draw is the first that can disagree with another, and alpha of 40 % lies between
the p-values they can have. The window of `evidence` holds one large payload or several small
ones, so it ends within a run, between two runs and before any line; three equal calls in a row,
the least storm, fit into four spans; each gate of the validator is the only one to reject some source.

*Deadlock* is not checked where the program really ends (every run but
`registry_session`).

*Fairness.* Three properties are about progress. `EveryRunEnds` and `BatchEnds`
assume that a process which can take its next step takes it unless it is killed
(`WF` on the loop's steps): it is one thread without locks, models, tools and APIs answer
or fail, and every wait in the code is a `sleep` or has a timeout. Nothing of the kind is assumed of
mutated code, which nothing limits in the training batch: `BatchEnds` says that a batch ends or
hangs inside a mutated `next_action`, and always ends under the built-in harness. `EveryRunEnds` takes the
batch as one step, so it is about the loop's refusals and exceptions, for batches that return. `EvaluateEnds`
assumes the same of `evaluate` and nothing of a docker container, which may hang for
ever; for GKE, that time passes and that Kubernetes enforces the deadline when
it does at all (the Job may also hang without any).

### Where code and text disagree

Four of the disagreements met while modelling have a run that looks for one violation
and finds it; `PROJECT.json` quotes the text of each.

| Run | The text | The code |
|---|---|---|
| `doc_analysis_sees_traces` | the generation's traces are analysed | traces of a promoted harness bear another version than HEAD's |
| `doc_gke_artifact` | the artifact is mounted where the evaluator loads it | the version's directory is missing |
| `doc_checked_class` | the validators enforce the contract of a harness | they check the first class named `Harness`, the loader takes the last binding of the name |
| `doc_matched_seeds` | candidate and incumbent share their seeds | a seed contains `hash` of a string, which is salted in each process |

The same models take the steps behind these others, which have no run of their own:

* `budget.py:10` aborts the loop at *any* ceiling; the run cap ends only generations, and the
  loop goes on paying for mutations (`SandboxDenied`).
* `budget.py:7` has a ceiling for the whole experiment; a restarted process begins with an empty guard (`Restart`).
* `orchestrator.py:14`, HEAD moves or stays; it can be left empty by a crash in the middle of its write (`ELose`).
* `bigquery_sink.py:10`, telemetry errors are isolated; the dead-letter file may raise (`DeadLetterFails`).
* `core/agent.py:48`, harness failures are signal; an answer that is no `Action` raises outside the `try` (`MalformedAction`).
* `bigquery_sink.py:111`, ordered for replay; RUN_END has step 0 (`EndRun`).
* `orchestrator.py:72`, the stub calls a tool first; every built-in prompt holds the
  termination keyword, so the built-in harness terminates at once (`terminal` in `StartRun`).
* `sandbox/base.py:6-8`, what a candidate does is never an orchestrator exception; container output that is no
  text, a scores file or a last marker line that is no JSON raise out of `evaluate` and end the loop (`Harvest`,
  `HarvestScores`; `unreadable` in `Sandbox`).
* `evaluation/gating.py:31` compares the tasks both dicts have; a result reported for a part of the suite can be promoted
  on that part (`HandedOver`, `PromotionIsGain`). Of a negative mean, which only such a report can bring,
  `gating.py:39-44` has no rule (`ReportAssumption` leaves it out).
* `configs/default.yaml` has a `step_timeout_s`; nothing reads it, and a mutated `next_action` that does not return holds the
  training batch for ever (`Hang`).
* `sandbox/base.py:3`, mutated code never executes in the orchestrator process; the training batch after a promotion runs it there (`OnlyGatedCodeExecuted` says what does hold).
* `sandbox/local_docker.py`, a hard timeout from the host; only the docker client is killed, the container goes on (`DockerSandbox`).
* `THREAT_MODEL.md:154`, a flag is intercepted the instant the patch returns; measuring the patch and the charge at
  `orchestrator.py:261` come first and may raise (`ProposeRaises`, `ProposeFlagged`).
* `mutation/engine.py:25-28`, a flag is surfaced for logging and telemetry regardless of whether there is a usable
  patch; an answer that also says `no_change`, or misses a field, is `None` before its flag is kept, and the
  telemetry never has it (`NoProposal`, `ProposeNothing`; `FlagsReported` counts it as `unheard`, `FlagEndsRound` names it).
* `mutation/prompts.py:43`, the oldest *runs* are dropped first; lines are, and a newest line larger than the budget empties the window (`Keep`).
* `tracing/bigquery_analyzer.py:3`, the same analytics; the queries have no runs without calls, key tool errors by depth, cut error
  classes at the first digit, and count copies. `AnalyzersAgree` is what is left.
* `retry_storms.sql` speaks of three consecutive calls and reports `a a b b` too; nothing calls it (`RetryStorms`).
* `core/harness.py:9`, a harness remains constructible from a spec; nothing checks it.

Read in the source and in no model, because no state depends on them: `cpu_limit`, `memory_limit` and `wall_clock_limit_s` of
`default.yaml` and several keys of `gcp.yaml` are read by nobody; the sandboxes never pass `--model`, so every
evaluation runs the stub; the `-v` of `local_docker.py:43` has a relative path by default, which docker takes for the
name of a volume; 20 runs per generation become 18 rollouts; the token cap is tested against the whole
traces and not the window; the benchmark with `--steps 0` never plants its needle.

## 4. Proofs

Every safety invariant that a run checks, both refinements of `Sandbox` and the one of
`Evolution`, and the action properties are theorems, for every value of the constants. Eight modules
hold them and their lemmas (`tlapm` with SMT, Zenon and LS4). They assume only what the modules assume of their constants:

* amounts, caps, limits, sizes and delays are natural numbers, names of files are no versions, the empty source of
  genesis is no valid patch, `MaxResponseChars` bounds the responses, a history window holds at least
  two messages (`TrainingAssumption`), the sizes of patches are natural numbers (`ProposalAssumption`),
  `TrainingEvents` is a set of events (`EventsAssumption`);
* a report gives natural numbers to finitely many tasks (`ReportAssumption`);
* there are finitely many contents in a session of the registry, for a digest is twelve hexadecimal digits (`SessionAssumption`);
* the files of a chain are trees, and where a loop starts with them their gain and alpha are positive and their counts
  natural (`ConfigurationAssumption`; the code checks neither);
* the benchmark's needle is not a tool of its filler, and its depth a fraction (`EvidenceAssumption`,
  `NeedleAssumption`; `LineAssumption` says the same of the characters of a line as above).

Nothing is assumed of how many contents, generations, restarts, episodes, steps, retries, calls, policies,
events, files or attempts there are.

**Induction** (`DataInduction`). The induction theorems of the library take a predicate as a parameter, which the provers cannot
instantiate. The module has the same principles with a *set* in the place of the predicate, from the
well-foundedness of `<` on the naturals (`WFMin`): `NatSetInduction`, `FiniteSetInduction`, and with them that
functions given by recursion over naturals or over the subsets of a finite set exist (`NatRecursion`,
`FiniteSetRecursion`). The folds and sums of the community modules are such functions, chosen by `CHOOSE`: once
one exists, its equations can be used. `SumIsPartialSum` does this for sums; the bounds, signs and
differences of sums follow, and `SumOfTallies`, that counting at each place and adding up is counting.

**The loop** (`OrchestratorProofs`)

* **Types.** `TypeInv` is `TypeOK` and two facts on `pc`: a generation under way has
  a number below `Generations`, and past training `base` is a version (a torn HEAD does not
  load). `TypeCorrect` follows. One step per action.
* **Money.** `MoneyInv` is inductive given `TypeInv`. `GuardDiscipline` says that
  a step either leaves the guard alone, or is one of the two paid operations followed by
  a stop if it crossed a ceiling, or resets a generation or a process; from there
  `CeilingStopsProcess`, `OvershootIsBounded` and `CapsAreBounded` need no look at the loop. The token bound
  rests on `TokensOfSum`: two texts counted together make at most one token more than apart.
* **Flags.** `FlagsAreReported`: `FlagsReported` is inductive with `TypeInv` by `StepFlags`: every answer that was flagged
  has its incident, or carried no patch (`unheard`), or is the one a process ended with.
* **Artifacts.** `LoopInv` strengthens the invariants by what the loop knows at each `pc`:
  `CallInv` (which write of the registry is due, and that the files before it are there), `HeadInv` (HEAD is
  complete and gated, `base` is HEAD until it is written), `TabuInv` (an evaluated content
  has a directory; the one to be evaluated was not evaluated before), `RoundInv`
  (what has been measured in this generation). `HeadComplete` alone is not
  inductive: it needs that `promote` is only called on the version whose lineage file
  has been written, which is a fact on `pc`. It gives `HeadIsComplete`, `ExecutedCodeIsGated` and
  `ContentsAreEvaluatedOnce`.
* **Refinement.** `LoopImplementsEvolution`: each step of the loop is a step of
  `Evolution` or a stutter, given `TypeInv` and `LoopInv`. `ArtifactsAreImmutable` is the
  action property `ArtifactsImmutable`, from the same invariants.

**The backends** (`DockerProofs`, `GkeProofs`)

* `DockerInv` adds to the types that a call without an answer has no result, so it is answered once;
  `DockerKeepsContract` maps each step to one of `Sandbox` or a stutter, and so shows that nothing but an
  unreadable report and a failing docker raises.
* `GkeInv` is types (`ClockType`, `ClusterType`), what the setup has done at each `pc` (`SetupInv`, which contains
  `PoliciesBeforeJob`), that there is no answer before the teardown (`AnswerInv`), and how late it can be
  while an enforced Job is unfinished (`TimeInv`). The last needs `LastSleep`: a sleep that began
  in time ends one poll and one request later, and this gives `GraceCoversSetup`. The
  refinement `GkeKeepsContract` needs that a Job that ended stays ended, and that what its pod printed no longer changes.

**Telemetry and the training batch** (`TrainingProofs`)

* `TypeInv` bounds the history by the steps, `FlowInv` says who holds the events: while `write` is under
  way its batch is the buffer, or the incident, which found the buffer empty. `LocalIsExact` follows.
* `EndedRunsAreDelivered` needs `DeliveryInv`: what has left the buffer has been stored, and what waits is of the present
  episode.
* `DuplicatesAreBounded` needs that no event is recorded twice (`FreshInv`) and how often a row has been sent
  at each attempt (`CountInv`). That `Distinct` sequences hold an event at most once is `OccursOnce`.
* `ContextAlwaysSound` is an arithmetic fact on any window of at least two messages.
* `TracesAreWellFormed` needs the shape of the present episode too (`TraceInv`): it begins with its RUN_START at some place of the
  record, everything after is its own and in steps, and an error or a termination is the last event before the end.
* `ReportIsExact` counts (`TallyInv`): as many terminations as successful ends, one more between a
  termination and the end of its episode.

**The registry under every caller** (`RegistryProofs`)

* `LineageInv`: every complete version has a *rank*, a natural number one above that of its complete parent, 0 for
  genesis, and below the number of complete versions. The rank is what makes `LineageRooted` inductive: generation
  numbers repeat after a restart and do not order the versions. A version whose lineage file is written gets a rank above its
  parent's; `LineageIsRooted` then follows by induction over the rank.
* `SessionHeadComplete` and `SessionKeepsArtifacts` from the same invariant, with rollback and crashes.

**Evaluation and gate** (`EvaluationProofs`)

* `EvalInv` relates the gate to what was handed over: what is compared is the two reports, whatever tasks they
  have (`IsHandedOver`: natural numbers, finitely many), with the settings of the files; a rollback is asked about the scores of a promotion. Under it
  `GateInv`: draws only happen past the floor, and when every task gained no resampled mean is bad.
* `PromotionsAreGains` and `PromotionsAreNotUndone` are facts on sums of differences over the tasks of both reports (`Common`): what reaches a positive floor
  has a positive gain, and the rollback test asks for the negative of it. `StreamDecidesMixed` is `BetterResamples`.
* `SettingsAreMostSpecific`: `LoadConfigIsLoaded` shows that the recursion over the chain has a solution,
  `ReadOneMore` what one merge does to one path, `LoadReadsFirst` is the induction along the chain.

**Proposals** (`ProposalProofs`)

* `ProposalInv`, that the answer in hand is unflagged while the round goes on, gives `FlaggedEndsTheRound`.
* `EvidenceInv`: the events are in the order of their runs, and the window is that of these events until the first call.
  `NewestLinesAreKept` follows the fold of `_serialize_traces` along the lines, from one prefix to the next, with
  `Sound` as its invariant. `MirrorIsExact` does the same for the script's copy of that loop, which keeps steps in the place of
  lines; with `WiderWindow` (more tokens never lose a line) it gives `BenchmarkIsFaithful`.
* `TableInv`: in each run the steps grow, nothing comes after its end, and every run but the last has ended.
  `AnalyzersNeverDisagree` then is about any ordered table with its rows stored once or twice (`Stored`).
  `LagsOfCalls` says what the row before a row is: another copy of the same call, or the last copy of the call before it.
  So the rows and the events on an edge between two tools are as many (`SameTransitions`, by the bijection from a call to its first
  copy), and of three equal calls two rows repeat within one window (`ThreeCallsAreAStorm`). On a table without
  duplicates errors, tool errors and the runs that made calls agree by counting (`SameErrors`, `SameToolErrors`,
  `SameRuns`); runs without calls and success rates are not compared.

**Only model-checked, and why**

* The liveness properties `EveryRunEnds`, `BatchEnds`, `EvaluateEnds`, under fairness: they need `ENABLED`, which the installed provers do not treat.

## 5. Not modelled, and what is left

* *The limits and settings of the backends* (quotas, images, bucket and dataset names): data
  that is handed on unread.
* *Latencies, quantiles, exemplars and the incident feed of the queries*, the mean number of steps: figures no
  code reads back.
* *The texts of the prompts*, and `load`'s use of Python's import machinery, which is one step.
* *Cost, latency and report of the benchmark script*: wall-clock time and output.
* *Reading back from BigQuery* (`fetch_generation_traces`): one query, of which only its order matters.

What would be worth adding: Proposal composed with Orchestrator, so that the tabu check there is the
registry's, and a refinement of Training's delivery to an abstract log.
