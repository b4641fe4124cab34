----------------------------- MODULE MCTrapFrames -----------------------------
EXTENDS TrapFrames, TLC

Symmetry == Permutations(Users)
=============================================================================
