---------------------------- MODULE Orchestrator ----------------------------
(***************************************************************************)
(* The optimization loop (orchestrator.py) over the budget guard and the   *)
(* artifact registry: one process that runs generation after generation,   *)
(* may die at any moment, and may be run again over the same directory.    *)
(*                                                                         *)
(* The registry's variables are the disk and survive a crash, except for   *)
(* `call'; the guard's variables and the loop's are memory and do not.     *)
(***************************************************************************)
EXTENDS Budget, Registry

CONSTANTS
    MaxPatchAttempts,   \* loop.max_patch_attempts
    ValidContents,      \* the contents PatchValidator.check accepts
    GenesisContent,     \* the content of genesis: its spec.json and no source
    RequestChars,       \* sizes of harness and traces in a mutation request
    ResponseChars,      \* sizes of a patch
    MaxResponseChars,   \* the longest of them
    MaxRestarts         \* bound: how often the program is run again

ASSUME OrchestratorAssumption ==
    /\ MaxPatchAttempts \in Nat
    /\ ValidContents \subseteq Contents
    /\ GenesisContent \in Contents \ ValidContents   \* no Harness class in ""
    /\ RequestChars \subseteq Nat
    /\ MaxResponseChars \in Nat
    /\ ResponseChars \subseteq 0 .. MaxResponseChars
    /\ MaxRestarts \in Nat

VARIABLES
    pc,             \* where the process is
    generation,     \* loop index of run()
    base,           \* `head' of run(): HEAD as read when the generation began
    attempt,        \* loop index of _propose_valid_patch
    requestChars,   \* request_chars of the generation
    candidate,      \* the version register() returns, Genesis before
    measured,       \* versions whose evaluation completed in this generation
    restarts        \* bound counter

loopVars == <<generation, base, attempt, requestChars, candidate, measured>>

\* History, for the properties only: no action reads it.
VARIABLES
    executed,       \* versions whose code ran inside the orchestrator process
    gated,          \* versions should_promote accepted
    evaluations,    \* how often each content was evaluated as a candidate
    flagged,        \* answers that carried securityDetected
    unheard,        \* those of them that carried no patch
    incidents       \* SECURITY_ALERT events written

history == <<executed, gated, evaluations, flagged, unheard, incidents>>

vars == <<budgetVars, registryVars, pc, loopVars, restarts, history>>

Steps == {"boot", "genesis", "top", "train", "propose", "register",
          "registering", "evalCandidate", "runCandidate", "evalIncumbent",
          "runIncumbent", "gate", "promoting", "done", "down"}

Stopped == {"done", "down"}

TypeOK ==
    /\ BudgetTypeOK
    /\ RegistryTypeOK
    /\ pc \in Steps
    /\ generation \in 0 .. Generations
    /\ base \in Versions \cup {Torn}
    /\ attempt \in 0 .. MaxPatchAttempts
    /\ requestChars \in Nat
    /\ candidate \in Versions
    /\ measured \subseteq Versions
    /\ restarts \in 0 .. MaxRestarts
    /\ executed \subseteq Versions
    /\ gated \subseteq Versions
    /\ evaluations \in [Contents -> Nat]
    /\ flagged \in Nat
    /\ unheard \in Nat
    /\ incidents \in Nat

Init ==
    /\ BudgetInit
    /\ RegistryInit
    /\ pc = "boot"
    /\ generation = 0
    /\ base = Genesis
    /\ attempt = 0
    /\ requestChars = 0
    /\ candidate = Genesis
    /\ measured = {}
    /\ restarts = 0
    /\ executed = {}
    /\ gated = {}
    /\ evaluations = [c \in Contents |-> 0]
    /\ flagged = 0
    /\ unheard = 0
    /\ incidents = 0

-----------------------------------------------------------------------------
(* __init__ and run()                                                      *)

\* _ensure_genesis: nothing at all if the directory exists.
MakeGenesis ==
    /\ pc = "boot"
    /\ files[Genesis] = {}
    /\ Write(Genesis, "dir")
    /\ pc' = "genesis"
    /\ UNCHANGED <<budgetVars, head, parent, call, loopVars, restarts, history>>

SkipGenesis ==
    /\ pc = "boot"
    /\ files[Genesis] # {}
    /\ pc' = "top"
    /\ UNCHANGED <<budgetVars, registryVars, loopVars, restarts, history>>

WriteGenesis ==
    /\ pc = "genesis"
    /\ Write(Genesis, "spec.json")
    /\ pc' = "top"
    /\ UNCHANGED <<budgetVars, head, parent, call, loopVars, restarts, history>>

\* Mutant: one generation too many.
StartGenerationPastEnd ==
    /\ pc = "top"
    /\ generation <= Generations
    /\ ~Exhausted
    /\ ResetGeneration
    /\ base' = Current
    /\ pc' = "train"
    /\ UNCHANGED <<registryVars, generation, attempt, requestChars, candidate,
                   measured, restarts, history>>

StartGeneration ==
    /\ pc = "top"
    /\ generation < Generations
    /\ ~Exhausted
    /\ ResetGeneration
    /\ base' = Current
    /\ pc' = "train"
    /\ UNCHANGED <<registryVars, generation, attempt, requestChars, candidate,
                   measured, restarts, history>>

FinishLoop ==
    /\ pc = "top"
    /\ generation = Generations \/ Exhausted
    /\ pc' = "done"
    /\ UNCHANGED <<budgetVars, registryVars, loopVars, restarts, history>>

\* _run_generation returns: its local variables are gone.
EndGeneration ==
    /\ pc' = "top"
    /\ generation' = generation + 1
    /\ base' = Genesis
    /\ attempt' = 0
    /\ requestChars' = 0
    /\ candidate' = Genesis
    /\ measured' = {}

\* The process is gone, and with it the guard and the loop.
Forget ==
    /\ ResetBudget
    /\ generation' = 0
    /\ base' = Genesis
    /\ attempt' = 0
    /\ requestChars' = 0
    /\ candidate' = Genesis
    /\ measured' = {}

\* Mutant: the exception ends the generation and the loop goes on.
AbortGeneration == CeilingCrossed' /\ EndGeneration

\* BudgetExceededError leaves _run_generation and breaks the loop of run().
AbortLoop ==
    /\ CeilingCrossed'
    /\ pc' = "done"
    /\ UNCHANGED loopVars

-----------------------------------------------------------------------------
(* Training batch and mutation                                             *)

\* The loader reads spec.json, and harness.py when there is one.
Loadable(v) == v # Torn /\ "spec.json" \in files[v]

\* _run_training_batch runs HEAD's code in this process; the traces it leaves
\* and the artifact _read_artifact reads fix the size of the request.
TrainingBatch ==
    /\ pc = "train"
    /\ Loadable(base)
    /\ executed' = executed \cup {base}
    /\ \E chars \in RequestChars : requestChars' = chars
    /\ pc' = "propose"
    /\ UNCHANGED <<budgetVars, registryVars, generation, base, attempt,
                   candidate, measured, restarts, gated,
                   evaluations, flagged, unheard, incidents>>

\* FileNotFoundError: nothing catches it.
LoadFails ==
    /\ pc = "train"
    /\ ~Loadable(base)
    /\ pc' = "down"
    /\ Forget
    /\ UNCHANGED <<registryVars, restarts, history>>

CanPropose ==
    /\ pc = "propose"
    /\ attempt < MaxPatchAttempts
    /\ AllowMutationCall(requestChars)

NoMoreAttempts ==
    /\ pc = "propose"
    /\ \/ attempt = MaxPatchAttempts
       \/ ~AllowMutationCall(requestChars)
    /\ EndGeneration
    /\ UNCHANGED <<budgetVars, registryVars, restarts, history>>

\* mutation_engine.propose returned; its cost is recorded before anything else
\* is done with the answer.
PaidCall(responseChars) ==
    /\ CanPropose
    /\ RecordMutationCall(requestChars, responseChars)
    /\ UNCHANGED <<registryVars, restarts, executed, gated, evaluations>>

\* No patch: the response counts as empty.  An answer that says no_change or
\* misses a field is None to the loop, flagged or not.
ProposeNothing ==
    /\ PaidCall(0)
    /\ AbortLoop \/ (~CeilingCrossed' /\ EndGeneration)
    /\ \/ UNCHANGED <<flagged, unheard>>
       \/ flagged' = flagged + 1 /\ unheard' = unheard + 1
    /\ UNCHANGED incidents

\* propose() raises, a required field is null and has no length, or the incident
\* of a flagged answer cannot be written: nothing catches it.
ProposeRaises ==
    /\ CanPropose
    /\ flagged' \in {flagged, flagged + 1}
    /\ pc' = "down"
    /\ Forget
    /\ UNCHANGED <<registryVars, restarts, executed, gated, evaluations, unheard, incidents>>

\* Mutant: the flag only ends the generation.
ProposeFlaggedSilent ==
    /\ \E chars \in ResponseChars : PaidCall(chars)
    /\ flagged' = flagged + 1
    /\ AbortLoop \/ (~CeilingCrossed' /\ EndGeneration)
    /\ UNCHANGED <<unheard, incidents>>

\* security_detected: _fast_fail_security writes the incident, unless the
\* record has raised already.
ProposeFlagged ==
    /\ \E chars \in ResponseChars : PaidCall(chars)
    /\ flagged' = flagged + 1
    /\ \/ AbortLoop /\ UNCHANGED incidents
       \/ ~CeilingCrossed' /\ EndGeneration /\ incidents' = incidents + 1
    /\ UNCHANGED unheard

\* An unflagged patch is dropped for its content or by the static gates,
\* or it is the patch of this generation.
ProposePatch ==
    /\ \E chars \in ResponseChars : PaidCall(chars)
    /\ \/ AbortLoop
       \/ /\ ~CeilingCrossed'
          /\ \E c \in Contents :
                IF HasContent(c) \/ c \notin ValidContents
                THEN /\ attempt' = attempt + 1
                     /\ UNCHANGED <<pc, candidate>>
                ELSE /\ pc' = "register"
                     /\ candidate' = <<generation, c>>
                     /\ UNCHANGED attempt
          /\ UNCHANGED <<generation, base, requestChars, measured>>
    /\ UNCHANGED <<flagged, unheard, incidents>>

BeginRegister ==
    /\ pc = "register"
    /\ Register(candidate, base)
    /\ pc' = "registering"
    /\ UNCHANGED <<budgetVars, loopVars, restarts, history>>

WriteCandidate ==
    /\ pc = "registering"
    /\ \/ (WriteSpec \/ WriteSource) /\ UNCHANGED pc
       \/ WriteLineage /\ pc' = "evalCandidate"
    /\ UNCHANGED <<budgetVars, loopVars, restarts, history>>

-----------------------------------------------------------------------------
(* Sandbox and gate                                                        *)

\* Mutant: a denied evaluation waits for the budget.
SandboxDeniedWaits ==
    /\ pc \in {"evalCandidate", "evalIncumbent"}
    /\ ~AllowSandboxRun
    /\ UNCHANGED vars

\* _sandbox_eval returns None: the generation ends, the loop goes on.
SandboxDenied ==
    /\ pc \in {"evalCandidate", "evalIncumbent"}
    /\ ~AllowSandboxRun
    /\ EndGeneration
    /\ UNCHANGED <<budgetVars, registryVars, restarts, history>>

\* The run is paid for before it starts, and does not start when that raises.
StartSandbox(from, to) ==
    /\ pc = from
    /\ AllowSandboxRun
    /\ RecordSandboxRun
    /\ AbortLoop \/ (~CeilingCrossed' /\ pc' = to /\ UNCHANGED loopVars)
    /\ UNCHANGED <<registryVars, restarts, executed, gated, flagged, unheard,
                   incidents>>

EvaluateCandidate ==
    /\ StartSandbox("evalCandidate", "runCandidate")
    /\ evaluations' = IF pc' = "runCandidate"
                      THEN [evaluations EXCEPT ![candidate[2]] = @ + 1]
                      ELSE evaluations

EvaluateIncumbent ==
    /\ StartSandbox("evalIncumbent", "runIncumbent")
    /\ UNCHANGED evaluations

\* sandbox.evaluate returned; completed is false on timeout, crash or
\* violation, and then there is nothing to compare.
SandboxResult(from, version, to) ==
    /\ pc = from
    /\ \/ EndGeneration
       \/ /\ measured' = measured \cup {version}
          /\ pc' = to
          /\ UNCHANGED <<generation, base, attempt, requestChars, candidate>>
    /\ UNCHANGED <<budgetVars, registryVars, restarts, history>>

\* Mutant: the incumbent is not measured again.
CandidateResultUnpaired == SandboxResult("runCandidate", candidate, "gate")

CandidateResult == SandboxResult("runCandidate", candidate, "evalIncumbent")
IncumbentResult == SandboxResult("runIncumbent", base, "gate")

\* Mutant: HEAD moves whatever the gate says.
GateRejectsIgnored ==
    /\ pc = "gate"
    /\ Promote(candidate)
    /\ pc' = "promoting"
    /\ UNCHANGED <<budgetVars, loopVars, restarts, history>>

\* should_promote is a statistical test of the scores: either answer.
GateRejects ==
    /\ pc = "gate"
    /\ EndGeneration
    /\ UNCHANGED <<budgetVars, registryVars, restarts, history>>

GateAccepts ==
    /\ pc = "gate"
    /\ Promote(candidate)
    /\ gated' = gated \cup {candidate}
    /\ pc' = "promoting"
    /\ UNCHANGED <<budgetVars, loopVars, restarts, executed,
                   evaluations, flagged, unheard, incidents>>

FinishPromotion ==
    /\ pc = "promoting"
    /\ WriteHead
    /\ EndGeneration
    /\ UNCHANGED <<budgetVars, restarts, history>>

-----------------------------------------------------------------------------
(* The process dies, by a signal or by an exception no caller catches (the *)
(* mutation engine, the sandbox or the sink raising), and is run again.    *)

Crash ==
    /\ pc \notin Stopped
    /\ pc' = "down"
    /\ Abandon
    /\ Forget
    /\ UNCHANGED <<restarts, history>>

Restart ==
    /\ pc \in Stopped
    /\ restarts < MaxRestarts
    /\ restarts' = restarts + 1
    /\ pc' = "boot"
    /\ Forget
    /\ UNCHANGED <<registryVars, executed, gated, evaluations, flagged,
                   unheard, incidents>>

-----------------------------------------------------------------------------

LoopStep ==
    \/ MakeGenesis \/ SkipGenesis \/ WriteGenesis
    \/ StartGeneration \/ FinishLoop
    \/ TrainingBatch \/ LoadFails
    \/ NoMoreAttempts
    \/ ProposeNothing \/ ProposeRaises \/ ProposeFlagged \/ ProposePatch
    \/ BeginRegister \/ WriteCandidate
    \/ SandboxDenied \/ EvaluateCandidate \/ EvaluateIncumbent
    \/ CandidateResult \/ IncumbentResult
    \/ GateRejects \/ GateAccepts \/ FinishPromotion

Next == LoopStep \/ Crash \/ Restart

Spec == Init /\ [][Next]_vars

\* Every call the loop makes returns or raises: the process keeps stepping.
FairSpec == Spec /\ WF_vars(LoopStep)

-----------------------------------------------------------------------------
(* Safety: money                                                           *)

LargestResponse == Tokens(MaxResponseChars) + 1

\* The charge that crosses a dollar ceiling, the generation's as much as the
\* experiment's, is the last thing a process does: no generation, evaluation,
\* registration or promotion follows it.
StopsAtCeiling == CeilingCrossed /\ genUsd > 0 => pc \in Stopped

\* The kill switch is late by at most the one operation that crossed it: what
\* a process has recorded exceeds the ceiling by less than the dearest single
\* charge.  The size of a request needs no bound of its own, because the
\* token cap of the generation bounds it.
OvershootBounded ==
    \/ totalUsd = 0
    \/ totalUsd < MaxTotalUsd + UsdPerRun
    \/ totalUsd < MaxTotalUsd + UsdPerToken * (MaxMutationTokens + LargestResponse)

\* An incident is written for every flagged answer that carries a patch, but for
\* at most one of each process, its last: the cost of the answer crossed a
\* ceiling, or an exception ended the process (orchestrator.py:261-274;
\* budget.py:72-78).  A flagged answer without a patch is never reported: it is
\* None to the loop (vertex_gemini.py:102-107), although engine.py:25-28 has the
\* flag surfaced whether there is a usable patch or not.
FlagsReported ==
    /\ incidents + unheard <= flagged
    /\ flagged <= incidents + unheard + restarts
                  + (IF pc = "down" \/ (pc = "done" /\ CeilingCrossed) THEN 1 ELSE 0)

\* The run count never passes its cap.  The token cap is checked on the request
\* alone, so a generation can pass it by one response, and by one token more
\* because the check and the record round different sums down.
CapsBounded ==
    /\ sandboxRuns <= MaxSandboxRuns
    /\ genTokens <= MaxMutationTokens + LargestResponse

-----------------------------------------------------------------------------
(* Safety: what is evaluated, executed and promoted                        *)

\* "A patch identical to any ancestor is never re-evaluated" (THREAT_MODEL,
\* T5), over all generations and all runs of the program: no content is ever
\* the candidate of two evaluations.  Genesis has no digest in its name, so
\* for its content it is the static gates that see to this.
NoContentReevaluated ==
    \A c \in Contents : evaluations[c] <= IF c = GenesisContent THEN 0 ELSE 1

\* The training batch runs HEAD's code inside the orchestrator process.  That
\* code is the built-in harness or one the gate has accepted, whatever was
\* interrupted and restarted before.
OnlyGatedCodeExecuted == executed \subseteq gated \cup {Genesis}

\* Refinement.  While HEAD is being written the promotion has not happened; a
\* version is registered when its last file, the lineage, is written.
versionInForce == IF pc = "promoting" THEN base ELSE Current
registered ==
    {<<v, parent[v]>> : v \in {u \in Versions : "lineage.json" \in files[u]}}

Evolve == INSTANCE Evolution WITH
    Lost     <- Torn,
    head     <- versionInForce,
    children <- registered,
    round    <- measured

\* HEAD moves only to a child of HEAD that passed a paired evaluation in the
\* same generation, or is lost in a crash inside promote().
EvolutionSpec == Evolve!ESpec

-----------------------------------------------------------------------------
(* Liveness                                                                *)

\* However the budget, the engine, the gates and the sandbox answer, every run
\* of the program ends: no refusal leaves it waiting or trying again for ever.
EveryRunEnds == pc = "boot" ~> pc \in Stopped
=============================================================================
