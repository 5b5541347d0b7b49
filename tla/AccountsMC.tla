----------------------------- MODULE AccountsMC -----------------------------
EXTENDS Accounts, TLC
Symmetry == Permutations(Tokens) \cup Permutations(Handlers)
=============================================================================
