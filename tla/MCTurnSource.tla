----------------------------- MODULE MCTurnSource -----------------------------
EXTENDS TurnSource, TLC

CONSTANTS t1, t2
=============================================================================
