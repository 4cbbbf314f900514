--------------------------- MODULE MCConnectorCalls ---------------------------
EXTENDS ConnectorCalls, TLC

CONSTANTS k1, k2, c1
=============================================================================
