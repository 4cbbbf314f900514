CONSTANTS
  t1 = t1  t2 = t2
  Trees = {t1, t2}
  Starter = t1
  Passing = {t2}
  RedBudget = 2
  MaxTurns = 2
  MaxRevisions = 4
  MaxFaults = 1
SPECIFICATION Spec
CHECK_DEADLOCK FALSE
INVARIANTS TypeOK MainPassesTheCheck EndedTurnIsMirrored
PROPERTIES AdmittedIsWhatTheTurnLeft MirrorKeepsMain TurnEnds
