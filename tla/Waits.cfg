CONSTANTS
  k1 = k1
  Instances = {1, 2, 3}
  Machines = {1, 2}
  Keys = {k1}
  MaxRuns = 2
  MaxQuestions = 2
  MaxFaults = 1
SPECIFICATION Spec
CHECK_DEADLOCK FALSE
INVARIANTS TypeOK OneReplyEndsEachWait HeldMachineStaysAwake RunKeepsItsInstance
PROPERTIES ReaperSparesOpenRuns RunComesToRest
