CONSTANTS
  r1 = r1  r2 = r2  r3 = r3
  Runs = {r1, r2}
  MaxWrites = 2
  MaxRefreshes = 2
  MaxCrashes = 1
  MaxFaults = 1
SPECIFICATION Spec
CHECK_DEADLOCK FALSE
SYMMETRY RunSymmetry
INVARIANTS RowHasTheLastTokens
PROPERTIES SpentTokenIsNotSentAgain
