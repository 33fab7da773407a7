-------------------------------- MODULE Gate --------------------------------
(***************************************************************************)
(* PromotionGate (evaluation/gating.py): a floor on the relative gain and  *)
(* a paired bootstrap over the tasks both harnesses have a score for.      *)
(*                                                                         *)
(* Scores are integers, a fixed number of units for 1.0, so that sums and  *)
(* comparisons are exact.  The code compares sums of floats: where the     *)
(* exact values are equal, rounding puts the floats on either side, and    *)
(* the model takes both.  The pseudo-random stream is any stream: what the *)
(* gate promises must not depend on the numbers drawn.                     *)
(***************************************************************************)
EXTENDS Integers, FiniteSets, Functions

VARIABLES
    compared,   \* the metrics of the call: [incumbent, candidate]
    config,     \* GateConfig: gain and alpha in percent, samples
    drawn,      \* bootstrap iterations done
    worse,      \* those with a resampled mean of at most zero
    answer      \* "none" until the call returns

gateVars == <<compared, config, drawn, worse, answer>>

\* Per-task scores of no task: what an empty GenerationMetrics holds.
NoScores == [t \in {} |-> 0]

GateInit ==
    /\ compared = [incumbent |-> NoScores, candidate |-> NoScores]
    /\ config = [gain |-> 0, alpha |-> 0, samples |-> 0]
    /\ drawn = 0 /\ worse = 0
    /\ answer = "none"

\* The tasks both metrics have, which inc and cand range over, and deltas.
Tasks == DOMAIN compared.incumbent \cap DOMAIN compared.candidate
Delta == [t \in Tasks |-> compared.candidate[t] - compared.incumbent[t]]
SumDelta == SumFunction(Delta)
SumIncumbent == SumFunction([t \in Tasks |-> compared.incumbent[t]])

-----------------------------------------------------------------------------

\* should_promote(incumbent, candidate) is called.
ShouldPromote(incumbent, candidate, gateConfig) ==
    /\ compared' = [incumbent |-> incumbent, candidate |-> candidate]
    /\ config' = gateConfig
    /\ drawn' = 0 /\ worse' = 0
    /\ answer' = "none"

\* Mutant: the roles are not exchanged.
ShouldRollbackUnreversed(baseline, production, gateConfig) ==
    ShouldPromote(baseline, production, gateConfig)

\* should_rollback: the same test with the roles exchanged.
ShouldRollback(baseline, production, gateConfig) ==
    ShouldPromote(production, baseline, gateConfig)

\* The early returns on the means, which have one divisor; at equality the
\* quotient of the float means may be below the gain or not.
BelowFloor ==
    \/ SumIncumbent > 0 /\ 100 * SumDelta <= config.gain * SumIncumbent
    \/ SumIncumbent = 0 /\ SumDelta <= 0

\* Mutant: the gain is asked in points, not relative to the incumbent.
ReachesFloorInPoints == 100 * SumDelta >= config.gain

ReachesFloor ==
    \/ SumIncumbent > 0 /\ 100 * SumDelta >= config.gain * SumIncumbent
    \/ SumIncumbent = 0 /\ SumDelta > 0

RejectEarly ==
    /\ answer = "none" /\ drawn = 0
    /\ Tasks = {} \/ BelowFloor
    /\ answer' = "no"
    /\ UNCHANGED <<compared, config, drawn, worse>>

\* The means of one bootstrap iteration: as many tasks as there are, each
\* drawn from all of them.
ResampledSums ==
    {SumFunction([i \in 1 .. Cardinality(Tasks) |-> Delta[draw[i]]]) :
        draw \in [1 .. Cardinality(Tasks) -> Tasks]}

\* One iteration of the bootstrap.
Resample ==
    /\ answer = "none" /\ Tasks # {} /\ (drawn > 0 \/ ReachesFloor)
    /\ drawn < config.samples
    /\ drawn' = drawn + 1
    /\ \/ (\E s \in ResampledSums : s <= 0) /\ worse' = worse + 1
       \/ (\E s \in ResampledSums : s >= 0) /\ UNCHANGED worse
    /\ UNCHANGED <<compared, config, answer>>

\* Mutant: the p-value is compared the wrong way round.
SignificantReversed == worse * 100 >= config.alpha * config.samples

Significant == worse * 100 < config.alpha * config.samples

Decide ==
    /\ answer = "none" /\ drawn = config.samples /\ drawn > 0
    /\ answer' = IF Significant THEN "yes" ELSE "no"
    /\ UNCHANGED <<compared, config, drawn, worse>>

GateStep == RejectEarly \/ Resample \/ Decide
=============================================================================
