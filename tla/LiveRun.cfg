CONSTANTS
  r1 = r1  r2 = r2  c1 = c1  c2 = c2  p1 = p1  w = w  None = None
  Runs = {r1}
  Projects = {p1}
  Conversations = {c1, c2}
  Writers = {}
  ConversationOf <- OneRun
  ProjectOf <- OneProject
  MaxBoots = 1
  MaxFaults = 1
  Events = {}
  Prompt = {"pass", "start"}
SPECIFICATION Spec
CHECK_DEADLOCK FALSE
INVARIANTS LiveRunNeverTakenOver
