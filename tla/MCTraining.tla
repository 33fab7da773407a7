----------------------------- MODULE MCTraining -----------------------------
(***************************************************************************)
(* Instances of the training batch for TLC.                                *)
(***************************************************************************)
EXTENDS Training

\* Prompts of any suite, with or without a termination keyword.
AnyPrompt == BOOLEAN
=============================================================================
