----------------------------- MODULE MCLspSession -----------------------------
EXTENDS LspSession, TLC

Symmetry == Permutations(Call) \cup Permutations(Uri)
=============================================================================
