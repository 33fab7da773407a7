--------------------------- MODULE MCOrchestrator ---------------------------
(***************************************************************************)
(* Instances of the loop for TLC.  One content is what genesis contains;   *)
(* the others pass the static gates, except Broken.                        *)
(***************************************************************************)
EXTENDS Orchestrator

CONSTANTS A, B, Broken, Builtin

MCContents == {A, B, Broken, Builtin}
MCTwoContents == {A, B, Builtin}
MCValid == {A, B} \cap Contents

\* 7 + 7 characters are 3 tokens, though 7 and 7 are one token each; 19 are
\* the whole token cap of the budget instance, and 19 + 7 are 6.
MCRequests == {7, 19}
MCResponses == {3, 7}
MCRequest == {4}
MCResponse == {4}

\* No action reads the counters of flags, nor does any property of the run that
\* restarts the program: states that differ in them only are one.
RestartsView ==
    <<budgetVars, registryVars, pc, loopVars, restarts, executed, gated, evaluations>>
=============================================================================
