CONSTANTS
  r1 = r1  r2 = r2  d1 = d1  d2 = d2  None = None
  Runs = {r1, r2}
  Deleters = {d1, d2}
  Artifacts <- SomeArtifacts
SPECIFICATION Spec
CHECK_DEADLOCK FALSE
SYMMETRY Symmetry
INVARIANTS TypeOK CompletedLeavesNothing
PROPERTIES ApplicationKeepsItsData
