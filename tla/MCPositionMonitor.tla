------------------------- MODULE MCPositionMonitor -------------------------
EXTENDS PositionMonitor, TLC

CONSTANTS A, B

MCSymbols == {A, B}
=============================================================================
