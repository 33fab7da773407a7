----------------------------- MODULE GkeSandbox -----------------------------
(***************************************************************************)
(* GKESandbox.evaluate (sandbox/gke_sandbox.py): an ephemeral namespace,   *)
(* its network policies, the candidate as a ConfigMap, a Job, a poll loop  *)
(* with a deadline, the scores from the pod's log, and a teardown that     *)
(* always runs.  Each call of the Kubernetes API is a step that can fail   *)
(* before or after it has had its effect.                                  *)
(*                                                                         *)
(* Time is counted in poll intervals since t0.  It passes while evaluate() *)
(* sleeps or waits for the API; the Job's own deadline is urgent.          *)
(***************************************************************************)
EXTENDS Integers

CONSTANTS
    NumPolicies,   \* NetworkPolicy documents of the job template
    Layouts,       \* how job templates may mount the ConfigMap: the shipped one
                   \* is "flat", one that lists item paths is "versioned"
    WallClock,     \* limits.wall_clock_s
    Grace,         \* the 120 s added to it
    StatusDelay,   \* how long the status of the Job takes to be read, and to arrive
    JobDelay,      \* how late Kubernetes fails a Job after its deadline
    MaxSetup,      \* bound: when the Job is submitted at the latest
    MaxTime        \* bound: the end of the clock, later than any call can last

Poll == 1          \* POLL_INTERVAL_S

ASSUME GkeAssumption ==
    /\ NumPolicies \in Nat
    /\ Layouts \subseteq {"flat", "versioned"}
    /\ WallClock \in Nat
    /\ Grace \in Nat
    /\ StatusDelay \in Nat
    /\ JobDelay \in Nat
    /\ MaxSetup \in Nat
    /\ MaxTime \in Nat /\ MaxTime > MaxSetup + WallClock + Grace + 2 * StatusDelay + Poll

VARIABLES
    pc,            \* the step of evaluate()
    now,           \* time since t0
    until,         \* when the step of the poll loop ends at the latest
    namespace,
    policies,      \* how many network policies are in force
    configMap,     \* the candidate's files are in the namespace
    layout,
    job,           \* the Job and how it ended
    submitted,     \* when the Job was created
    enforced,      \* Kubernetes fails the Job at its deadline
    printed,       \* what the last marker line in the log holds, "nothing"
                   \* when the end of the log has none
    result,        \* what evaluate() answers once the teardown is over
    deleteFailed   \* history: the teardown's request failed

cluster == <<namespace, policies, configMap, layout, job, submitted, enforced, printed>>
vars == <<pc, now, until, cluster, result, deleteFailed>>

\* why is the violation of a discarded result, or what raised.
Result(answer, why, scores) == [answer |-> answer, why |-> why, scores |-> scores]
NoResult == Result("none", "", 0)
Raised(why) == Result("raised", why, 0)

\* Mutant: the result does not say why.
DiscardedUnexplained(why) == Result("discarded", "", 0)
Discarded(why) == Result("discarded", why, 0)

Setup == {"namespace", "policies", "configMap", "job"}
Ended == {"ended", "dead"}

TypeOK ==
    /\ pc \in Setup \cup {"head", "status", "sleep", "scores", "tail",
                          "teardown"} \cup Ended
    /\ now \in 0 .. MaxTime
    /\ until \in Nat
    /\ namespace \in {"none", "live", "deleted"}
    /\ policies \in 0 .. NumPolicies
    /\ configMap \in BOOLEAN
    /\ layout \in Layouts
    /\ job \in {"none", "pending", "running", "passed", "failed"}
    /\ submitted \in 0 .. MaxSetup
    /\ enforced \in BOOLEAN
    /\ printed \in {"nothing", "scores", "junk"}
    /\ result \in [answer : {"none", "completed", "discarded", "raised"},
                   why : {"", "job_failed", "wall_clock_exceeded",
                          "infrastructure", "unreadable"},
                   scores : {0, 1}]
    /\ (result.answer \in {"discarded", "raised"}) <=> (result.why # "")
    /\ deleteFailed \in BOOLEAN

Init ==
    /\ pc = "namespace"
    /\ now = 0
    /\ until = 0
    /\ namespace = "none"
    /\ policies = 0
    /\ configMap = FALSE
    /\ layout \in Layouts
    /\ job = "none"
    /\ submitted = 0
    /\ enforced \in BOOLEAN
    /\ printed = "nothing"
    /\ result = NoResult
    /\ deleteFailed = FALSE

-----------------------------------------------------------------------------
(* Setup                                                                   *)

\* Mutant: an exception skips the teardown.
RaiseUntidy(why) ==
    /\ pc' = "ended"
    /\ result' = Raised(why)

\* An exception of any step: finally tears the namespace down.
Raise(why) ==
    /\ pc' = "teardown"
    /\ result' = Raised(why)

\* A request of the step `at', which leaves the cluster as it is when the API
\* refuses it, and whose answer may get lost.
Request(at, effect, next) ==
    /\ pc = at
    /\ \/ effect /\ pc' = next /\ UNCHANGED result
       \/ (effect \/ UNCHANGED cluster) /\ Raise("infrastructure")
    /\ UNCHANGED <<now, until, deleteFailed>>

CreateNamespace ==
    Request("namespace",
            /\ namespace' = "live"
            /\ UNCHANGED <<policies, configMap, layout, job, submitted, enforced, printed>>,
            "policies")

\* Mutant: the loop over the template stops before the last policy.
PoliciesDoneEarly == policies + 1 >= NumPolicies
PoliciesDone == policies = NumPolicies

ApplyPolicy ==
    /\ ~PoliciesDone
    /\ Request("policies",
               /\ policies' = policies + 1
               /\ UNCHANGED <<namespace, configMap, layout, job, submitted, enforced, printed>>,
               "policies")

PoliciesApplied ==
    /\ pc = "policies"
    /\ PoliciesDone
    /\ pc' = "configMap"
    /\ UNCHANGED <<now, until, cluster, result, deleteFailed>>

MountCandidate ==
    Request("configMap",
            /\ configMap' = TRUE
            /\ UNCHANGED <<namespace, policies, layout, job, submitted, enforced, printed>>,
            "job")

SubmitJob ==
    Request("job",
            /\ job' = "pending"
            /\ submitted' = now
            /\ UNCHANGED <<namespace, policies, configMap, layout, enforced, printed>>,
            "head")

-----------------------------------------------------------------------------
(* The Job                                                                 *)

Cluster(step) == step /\ UNCHANGED <<pc, now, until, namespace, policies, configMap,
                                     layout, submitted, enforced, result,
                                     deleteFailed>>

\* Mounting waits for the ConfigMap.
PodStarts ==
    Cluster(/\ job = "pending"
            /\ namespace = "live"
            /\ configMap
            /\ job' = "running"
            /\ UNCHANGED printed)

\* pipeline.py loads /artifacts/<version>/spec.json.  The keys of the ConfigMap
\* are the files of the version directory itself, without the directory.
CandidateFound == layout = "versioned"

\* The pipeline prints its scores at its end.  Mutated code prints what it
\* likes, marker lines included, and as much as it likes: only the end of a long
\* log is read.
PodPrints ==
    Cluster(/\ job = "running"
            /\ CandidateFound
            /\ printed' \in {"nothing", "scores", "junk"}
            /\ UNCHANGED job)

\* Status 0 is the end of the pipeline or an exit of mutated code.
PodPasses ==
    Cluster(/\ job = "running"
            /\ CandidateFound
            /\ job' = "passed"
            /\ UNCHANGED printed)

\* A crash, an eviction, the deadline of the Job or the end of its namespace;
\* backoffLimit is 0.
JobFails ==
    Cluster(/\ job \in {"pending", "running"}
            /\ job' = "failed"
            /\ UNCHANGED printed)

-----------------------------------------------------------------------------
(* The poll loop                                                           *)

\* Mutant: no grace for the time the setup takes.
DeadlineWithoutGrace == WallClock
\* Mutant: every poll sets a new deadline.
DeadlineSliding == now + WallClock + Grace
Deadline == WallClock + Grace

Timeout ==
    /\ pc = "head"
    /\ now >= Deadline
    /\ result' = Discarded("wall_clock_exceeded")
    /\ pc' = "teardown"
    /\ UNCHANGED <<now, until, cluster, deleteFailed>>

AskStatus ==
    /\ pc = "head"
    /\ now < Deadline
    /\ pc' = "status"
    /\ until' = now + StatusDelay
    /\ UNCHANGED <<now, cluster, result, deleteFailed>>

\* Mutant: every Job that ended is harvested.
HarvestWhenEnded == IF job \in {"passed", "failed"} THEN "scores" ELSE "sleep"

AfterStatus == CASE job = "passed" -> "scores"
                 [] job = "failed" -> "tail"
                 [] OTHER -> "sleep"

\* The status is read here and arrives, and the sleep begins, a little later.
ReadStatus ==
    /\ pc = "status"
    /\ \/ /\ pc' = AfterStatus
          /\ until' = now + StatusDelay + Poll
          /\ UNCHANGED result
       \/ Raise("infrastructure") /\ UNCHANGED until
    /\ UNCHANGED <<now, cluster, deleteFailed>>

Wake ==
    /\ pc = "sleep"
    /\ now >= until - StatusDelay
    /\ pc' = "head"
    /\ UNCHANGED <<now, until, cluster, result, deleteFailed>>

\* The last marker line is parsed, whoever printed it, and what is not JSON
\* raises; a log that cannot be read is an empty log.  Listing the pods may fail.
HarvestScores ==
    /\ pc = "scores"
    /\ \/ /\ printed # "junk"
          /\ result' = Result("completed", "", IF printed = "scores" THEN 1 ELSE 0)
          /\ pc' = "teardown"
       \/ printed = "junk" /\ Raise("unreadable")
       \/ result' = Result("completed", "", 0) /\ pc' = "teardown"
       \/ Raise("infrastructure")
    /\ UNCHANGED <<now, until, cluster, deleteFailed>>

HarvestTail ==
    /\ pc = "tail"
    /\ \/ result' = Discarded("job_failed") /\ pc' = "teardown"
       \/ Raise("infrastructure")
    /\ UNCHANGED <<now, until, cluster, deleteFailed>>

\* Exceptions of the deletion are logged and forgotten.
Teardown ==
    /\ pc = "teardown"
    /\ \/ /\ namespace' = IF namespace = "live" THEN "deleted" ELSE namespace
          /\ UNCHANGED deleteFailed
       \/ /\ namespace' \in {namespace, IF namespace = "live" THEN "deleted" ELSE namespace}
          /\ deleteFailed' = TRUE
    /\ pc' = "ended"
    /\ UNCHANGED <<now, until, policies, configMap, layout, job, submitted, enforced,
                   printed, result>>

\* The orchestrator process dies: nobody tears down.
Killed ==
    /\ pc \notin Ended
    /\ pc' = "dead"
    /\ UNCHANGED <<now, until, cluster, result, deleteFailed>>

-----------------------------------------------------------------------------

JobUrgent ==
    /\ enforced
    /\ job \in {"pending", "running"}
    /\ now = submitted + WallClock + JobDelay

Tick ==
    /\ ~JobUrgent
    /\ now < MaxTime
    /\ \/ pc \in Setup /\ now < MaxSetup
       \/ pc \in {"status", "sleep"} /\ now < until
    /\ now' = now + 1
    /\ UNCHANGED <<pc, until, cluster, result, deleteFailed>>

EvaluateStep ==
    \/ CreateNamespace \/ ApplyPolicy \/ PoliciesApplied \/ MountCandidate \/ SubmitJob
    \/ Timeout \/ AskStatus \/ ReadStatus \/ Wake
    \/ HarvestScores \/ HarvestTail \/ Teardown

ClusterStep == PodStarts \/ PodPrints \/ PodPasses \/ JobFails

Next == EvaluateStep \/ ClusterStep \/ Tick \/ Killed

Spec == Init /\ [][Next]_vars

\* Every request is answered and time passes.  A Job may hang for ever, unless
\* Kubernetes enforces its deadline.
FairSpec ==
    /\ Spec
    /\ WF_vars(EvaluateStep)
    /\ WF_vars(Tick)
    /\ WF_vars(JobUrgent /\ JobFails)

-----------------------------------------------------------------------------
(* Properties                                                              *)

\* "The pod must never be schedulable in a namespace without egress
\* restrictions": there is no Job before the last policy is in force, whichever
\* requests fail.
PoliciesBeforeJob == job # "none" => policies = NumPolicies

\* evaluate() never ends and leaves a live namespace behind, on any path, unless
\* the deletion itself was refused; only a killed process does.
NamespaceTornDown == pc = "ended" /\ ~deleteFailed => namespace # "live"

\* The poll loop gives up on a Job only when the setup took so long that the
\* grace, less the delay of a last poll, could not cover it: a Job submitted in
\* time is judged by its own status, as long as Kubernetes enforces its deadline.
GraceCoversSetup ==
    enforced /\ result.why = "wall_clock_exceeded" =>
        submitted + JobDelay + StatusDelay + Poll >= Grace

Contract == INSTANCE Sandbox WITH
    Evals      <- {1},
    answer     <- [e \in {1} |-> result.answer],
    evaluator  <- [e \in {1} |-> IF job = "pending" THEN "none" ELSE job],
    unreadable <- [e \in {1} |-> printed = "junk"],
    broken     <- [e \in {1} |-> result.why = "infrastructure"],
    scores     <- [e \in {1} |-> result.scores]

\* Every call has one answer, completed only for a Job that succeeded and with no
\* scores but those in the log of its pod; and a Job that hangs, fails or says
\* nothing is a result: the only exceptions are a request that failed and a last
\* marker line that is not JSON, the case where the code departs from
\* sandbox/base.py:6-8.
KeepsContract == Contract!CSpec

\* Every call ends, however long the Job hangs, unless the process is killed.
EvaluateEnds == <>(pc \in Ended)

\* gke_sandbox.py:92: the artifact is shipped into the namespace and mounted at
\* /artifacts, where pipeline.py:3 loads it from.
MountedArtifactIsFound == job = "running" => CandidateFound
=============================================================================
