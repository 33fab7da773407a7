----------------------------- MODULE Evaluation -----------------------------
(***************************************************************************)
(* From a configuration to a promotion: the settings are loaded, the       *)
(* evaluation pipeline runs for the candidate and then for the incumbent   *)
(* (EvaluationPipeline.run, one process each, episode by episode), and the *)
(* gate compares what the sandbox hands over.  After the verdict the       *)
(* gate's should_rollback is asked about the same evaluations.             *)
(*                                                                         *)
(* The mean of the scores of a task is kept as their sum: both processes   *)
(* have the same divisor, and the gate compares ratios only.               *)
(***************************************************************************)
EXTENDS Gate, Benchmarks, Configuration

CONSTANTS
    Chains,       \* the chains of configuration files a run can be given
    FinalStates,  \* by episodes_per_task: the states an episode can end in
    Reports,      \* what mutated code can leave as the scores of its process
    Salts,        \* the values of the hash salt of a process
    TaskHash      \* hash(task_id) % 10_000 for a salt and a task

\* The files are trees, and their numbers are of their kind (the code checks
\* neither); a promotion asks for some gain, and some p-value is significant.
Positive == Nat \ {0}
ASSUME ConfigurationAssumption ==
    \A c \in Chains :
        /\ Len(c) \in Positive /\ DOMAIN c = 1 .. Len(c)
        /\ \A i \in DOMAIN c : IsTree(c[i])
        /\ LET settings == LoadConfig(c)
           IN Starts(settings) =>
                 /\ GateConfig(settings) \in [gain : Positive, alpha : Positive, samples : Nat]
                 /\ At(settings, <<"evaluation", "episodes_per_task">>).value \in Positive

\* A report gives numbers to some tasks, of the suite or not.  None is negative:
\* of a negative mean the gate has no rule (gating.py:39-44).
ASSUME ReportAssumption ==
    \A r \in Reports : IsFiniteSet(DOMAIN r) /\ r \in [DOMAIN r -> Nat]

VARIABLES
    chain,        \* the configuration files of the run
    pc,           \* what the orchestrator waits for
    salt,         \* of the two evaluator processes
    episodes,     \* the scores of the running process, in order
    scores        \* per_task_scores of the two SandboxResults

vars == <<gateVars, chain, pc, salt, episodes, scores>>

Evaluators == {"candidate", "incumbent"}
Phases == Evaluators \cup {"promoting", "promoted", "not promoted", "rolling back", "ended"}

Settings == LoadConfig(chain)
EvaluationSetting(k) == At(Settings, <<"evaluation", k>>).value
EpisodesPerTask == EvaluationSetting("episodes_per_task")
Tasklist == Suite(EvaluationSetting("suite"))
SuiteTasks == {Tasklist[k] : k \in 1 .. Len(Tasklist)}

TypeOK ==
    /\ chain \in Chains
    /\ pc \in Phases
    /\ salt \in [Evaluators -> Salts]
    /\ episodes \in Seq(0 .. Unit)
    /\ \A e \in Evaluators :
          \/ scores[e] \in Reports \cup {NoScores}
          \/ scores[e] \in [SuiteTasks -> 0 .. Unit * EpisodesPerTask]
    /\ drawn \in 0 .. config.samples /\ worse \in 0 .. drawn
    /\ answer \in {"none", "yes", "no"}

Init ==
    /\ chain \in Chains
    /\ pc = IF Starts(LoadConfig(chain)) THEN "candidate" ELSE "ended"
    /\ salt \in [Evaluators -> Salts]
    /\ episodes = <<>>
    /\ scores = [e \in Evaluators |-> NoScores]
    /\ GateInit

-----------------------------------------------------------------------------

\* The task of the n-th episode of a process, and its number in the task.
TaskOf(n) == Tasklist[(n - 1) \div EpisodesPerTask + 1]
EpisodeOf(n) == (n - 1) % EpisodesPerTask

\* What random.seed is called with before the n-th episode.
Seed(evaluator, n) ==
    Get(Settings, <<"evaluation", "seed">>, 0) * 10000 + TaskHash[salt[evaluator]][TaskOf(n)] + EpisodeOf(n)

LastEpisode == Len(Tasklist) * EpisodesPerTask

\* One episode of a fresh agent under the harness the process has loaded.
RunEpisode ==
    /\ pc \in Evaluators /\ Len(episodes) < LastEpisode
    /\ \E s \in FinalStates[EpisodesPerTask] :
          episodes' = Append(episodes, Score(TaskOf(Len(episodes) + 1), s))
    /\ UNCHANGED <<gateVars, chain, pc, salt, scores>>

\* metrics.per_task_scores.
Means ==
    [t \in SuiteTasks |-> SumFunction([n \in {m \in DOMAIN episodes : TaskOf(m) = t}
                                          |-> episodes[n]])]

\* The orchestrator goes on with the incumbent, then to the gate.
NextPhase == IF pc = "candidate" THEN "incumbent" ELSE "promoting"

\* per_task_scores of a completed SandboxResult.  The harness in the process may
\* exit with status 0 at any time: the results volume, or the last marker line of
\* the log, then holds what it left there.  GKE may also find no line.
HandedOver ==
    Reports \cup {NoScores}
    \cup (IF Tasklist # <<>> /\ Len(episodes) = LastEpisode THEN {Means} ELSE {})

HandOver ==
    /\ pc \in Evaluators
    /\ \E result \in HandedOver : scores' = [scores EXCEPT ![pc] = result]
    /\ episodes' = <<>>
    /\ pc' = NextPhase
    /\ IF pc = "incumbent"
       THEN ShouldPromote(scores'["incumbent"], scores'["candidate"], GateConfig(Settings))
       ELSE UNCHANGED gateVars
    /\ UNCHANGED <<chain, salt>>

\* The load fails, an episode raises, a limit is passed, or what was left is not
\* a dict of numbers: not completed, or an exception in the sandbox or the gate.
Discard ==
    /\ pc \in Evaluators
    /\ pc' = "ended"
    /\ UNCHANGED <<gateVars, chain, salt, episodes, scores>>

Bootstrap ==
    /\ pc \in {"promoting", "rolling back"}
    /\ GateStep
    /\ UNCHANGED <<chain, pc, salt, episodes, scores>>

Verdict ==
    /\ pc = "promoting" /\ answer # "none"
    /\ pc' = IF answer = "yes" THEN "promoted" ELSE "not promoted"
    /\ UNCHANGED <<gateVars, chain, salt, episodes, scores>>

\* should_rollback after a promotion: the promoted harness is in production
\* and measured as it was, against itself and against its predecessor.  It is
\* for an operator; the repository has no caller of it.
AskRollback ==
    /\ pc = "promoted"
    /\ \E e \in Evaluators :
          ShouldRollback(scores[e], scores["candidate"], GateConfig(Settings))
    /\ pc' = "rolling back"
    /\ UNCHANGED <<chain, salt, episodes, scores>>

Next ==
    \/ RunEpisode \/ HandOver \/ Discard
    \/ Bootstrap \/ Verdict \/ AskRollback

Spec == Init /\ [][Next]_vars

-----------------------------------------------------------------------------

\* A path is read from the most specific file that decides it: one that has
\* it, or has a leaf on the way to it (load_config, _deep_merge).
Decides(file, path) ==
    path \in DOMAIN file \/ \E q \in Prefixes(path) : At(file, q).kind = "leaf"
MostSpecific(path) ==
    LET deciding == {i \in DOMAIN chain : Decides(chain[i], path)}
    IN IF deciding = {} THEN Absent
       ELSE At(chain[CHOOSE i \in deciding : \A j \in deciding : i <= j], path)

\* Every setting of evaluations and gate is the one of the most specific file
\* that decides it, however the files nest it: two files may both give parts
\* of `evaluation.promotion', and neither may hide the other's.
SettingsMostSpecific ==
    \A path \in Required(Settings) \cup {<<"evaluation", k>> : k \in {"suite", "episodes_per_task"}} :
        At(Settings, path) = MostSpecific(path)

\* A promoted candidate was measured on tasks the incumbent was measured on too,
\* and by what the sandbox reported of those it gains what the floor asks for:
\* lost logs, stopped processes, reports of fewer or other tasks and lucky draws
\* promote nothing by themselves (orchestrator.py:203-226, gating.py:31-46).
\* Nothing asks that those tasks are the whole suite.
PromotionIsGain ==
    pc = "promoted" =>
        LET common == DOMAIN scores["candidate"] \cap DOMAIN scores["incumbent"]
            total(e) == SumFunction([t \in common |-> scores[e][t]])
        IN /\ common # {}
           /\ total("candidate") > total("incumbent")
           /\ 100 * (total("candidate") - total("incumbent"))
                  >= GateConfig(Settings).gain * total("incumbent")

\* Measured as it was when it was promoted, a harness is rolled back neither
\* to its predecessor nor for itself: promotion and rollback cannot alternate
\* on the same evaluations, whatever the resampling draws (gating.py:56-60).
PromotionNotUndone == pc = "rolling back" => answer # "yes"

\* The pseudo-random stream decides mixed results only: a candidate that is
\* better on every task both results have, by more than the floor, is promoted
\* for every stream, and one that is better on none of them for no stream
\* (gating.py:46-54).
StreamDecidesMixedOnly ==
    pc \in {"promoted", "not promoted"} =>
        /\ ( /\ Tasks # {} /\ \A t \in Tasks : Delta[t] > 0
             /\ 100 * SumDelta > config.gain * SumIncumbent ) => pc = "promoted"
        /\ (\A t \in Tasks : Delta[t] <= 0) => pc = "not promoted"

\* Candidate and incumbent run each episode under the same seed
\* (pipeline.py:36-37; configs/default.yaml: "Candidate and incumbent always
\* share this seed").
SeedsMatch ==
    pc = "promoting" =>
        \A n \in 1 .. LastEpisode :
            Seed("candidate", n) = Seed("incumbent", n)
=============================================================================
