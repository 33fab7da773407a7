-------------------------- MODULE MCRegistrySession --------------------------
EXTENDS RegistrySession, TLC

CONSTANTS A, B, C

MCContents == {A, B, C}

\* Contents are only ever compared: any permutation of them is as good.
MCSymmetry == Permutations(MCContents)
=============================================================================
