CONSTANTS
  r1 = r1  r2 = r2  c1 = c1  c2 = c2  p1 = p1  w = w  None = None
  Runs = {r1, r2}
  Projects = {p1}
  Conversations = {c1, c2}
  Writers = {}
  ConversationOf <- OneConversation
  ProjectOf <- OneProject
  MaxBoots = 2
  MaxFaults = 0
  Events = {"stop", "ask", "close"}
  Prompt = {"pass"}
SPECIFICATION Spec
CHECK_DEADLOCK FALSE
SYMMETRY RunSymmetry
INVARIANTS OneOpenRun
PROPERTIES SettledRunNeverRewritten StopPreventsAdmission KeepsThePromise
