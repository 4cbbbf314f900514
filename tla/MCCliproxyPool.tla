---------------------------- MODULE MCCliproxyPool ----------------------------
EXTENDS CliproxyPool, TLC

CONSTANTS k1, k2
=============================================================================
