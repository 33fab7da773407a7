------------------------------- MODULE Budget -------------------------------
(***************************************************************************)
(* BudgetGuard (budget.py): the spend controls of the optimization loop.   *)
(* The guard is a passive object.  Its caller asks Allow... before a paid  *)
(* operation and records the operation afterwards; recording may raise     *)
(* BudgetExceededError, which is the predicate CeilingCrossed evaluated    *)
(* AFTER the record, i.e. CeilingCrossed' in the caller's action.          *)
(* Money is counted in integer units (the float dollars of the code).      *)
(***************************************************************************)
EXTENDS Integers

CONSTANTS
    MaxTotalUsd,          \* max_total_usd
    MaxUsdPerGeneration,  \* max_usd_per_generation, NoCap for None
    MaxMutationTokens,    \* max_mutation_tokens_per_generation
    MaxSandboxRuns,       \* max_sandbox_runs
    UsdPerToken,          \* mutation_usd_per_mtoken, per token
    UsdPerRun             \* sandbox_usd_per_run

NoCap == -1
CharsPerToken == 4

ASSUME BudgetAssumption ==
    /\ MaxTotalUsd \in Nat
    /\ MaxUsdPerGeneration \in Nat \cup {NoCap}
    /\ MaxMutationTokens \in Nat
    /\ MaxSandboxRuns \in Nat
    /\ UsdPerToken \in Nat
    /\ UsdPerRun \in Nat

VARIABLES totalUsd, sandboxRuns, genTokens, genUsd

budgetVars == <<totalUsd, sandboxRuns, genTokens, genUsd>>

BudgetTypeOK ==
    /\ totalUsd \in Nat
    /\ sandboxRuns \in Nat
    /\ genTokens \in Nat
    /\ genUsd \in Nat

BudgetInit ==
    /\ totalUsd = 0
    /\ sandboxRuns = 0
    /\ genTokens = 0
    /\ genUsd = 0

\* A new process builds a new guard.
ResetBudget ==
    /\ totalUsd' = 0
    /\ sandboxRuns' = 0
    /\ genTokens' = 0
    /\ genUsd' = 0

-----------------------------------------------------------------------------

\* Mutant: the ceiling itself is still allowed.
ExhaustedAboveOnly == totalUsd > MaxTotalUsd

Exhausted == totalUsd >= MaxTotalUsd

CeilingCrossed ==
    \/ MaxUsdPerGeneration # NoCap /\ genUsd >= MaxUsdPerGeneration
    \/ Exhausted

Tokens(chars) == chars \div CharsPerToken

\* Mutant: the cap is the cap of each call.
AllowMutationCallAlone(requestChars) ==
    /\ Tokens(requestChars) <= MaxMutationTokens
    /\ ~Exhausted

AllowMutationCall(requestChars) ==
    /\ genTokens + Tokens(requestChars) <= MaxMutationTokens
    /\ ~Exhausted

AllowSandboxRun ==
    /\ sandboxRuns < MaxSandboxRuns
    /\ ~Exhausted

ResetGeneration ==
    /\ genTokens' = 0
    /\ genUsd' = 0
    /\ UNCHANGED <<totalUsd, sandboxRuns>>

Charge(usd) ==
    /\ genUsd' = genUsd + usd
    /\ totalUsd' = totalUsd + usd

RecordMutationCall(requestChars, responseChars) ==
    /\ genTokens' = genTokens + Tokens(requestChars + responseChars)
    /\ Charge(UsdPerToken * Tokens(requestChars + responseChars))
    /\ UNCHANGED sandboxRuns

RecordSandboxRun ==
    /\ sandboxRuns' = sandboxRuns + 1
    /\ Charge(UsdPerRun)
    /\ UNCHANGED genTokens
=============================================================================
