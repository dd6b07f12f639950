----------------------------- MODULE MCPayables -----------------------------
EXTENDS PayablesProps, TLC

Symmetric == Permutations(Processes)
=============================================================================
