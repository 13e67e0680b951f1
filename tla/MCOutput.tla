------------------------------ MODULE MCOutput ------------------------------
EXTENDS SelfMon
=============================================================================
