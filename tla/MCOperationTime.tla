--------------------------- MODULE MCOperationTime ---------------------------
EXTENDS OperationTime, TLC

CONSTANTS ecu0, nas, r1, r2

NothingDisabled == {}

\* The shortest delay that is one.
OneMinute == {60}

Symmetry == Permutations(Requests)
=============================================================================
