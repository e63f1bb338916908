------------------------- MODULE MCOrderLifecycle -------------------------
EXTENDS OrderLifecycle, TLC

CONSTANTS A, B

MCSymbols == {A, B}
Symmetry  == Permutations(MCSymbols)
=============================================================================
