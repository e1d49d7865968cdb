----------------------------- MODULE MCReviewGate -----------------------------
EXTENDS ReviewGate, TLC

Symmetry == Permutations(Call)
=============================================================================
