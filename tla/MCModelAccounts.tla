---------------------------- MODULE MCModelAccounts ----------------------------
EXTENDS ModelAccounts, TLC

CONSTANTS r1, r2, r3

RunSymmetry == Permutations(Runs)
=============================================================================
