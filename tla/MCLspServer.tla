----------------------------- MODULE MCLspServer -----------------------------
EXTENDS LspServer, TLC

Symmetry == Permutations(Call)
=============================================================================
