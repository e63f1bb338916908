------------------------- MODULE MCEntryExecution -------------------------
EXTENDS EntryExecution, TLC

CONSTANTS A, B

MCSymbols == {A, B}
Symmetry  == Permutations(MCSymbols)
=============================================================================
