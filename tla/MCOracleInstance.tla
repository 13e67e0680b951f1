-------------------------- MODULE MCOracleInstance --------------------------
EXTENDS OracleInstance, TLC

Cells == Permutations(Cell)
=============================================================================
