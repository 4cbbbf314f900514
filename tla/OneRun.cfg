CONSTANTS
  r1 = r1  r2 = r2  c1 = c1  c2 = c2  p1 = p1  w = w  None = None
  Runs = {r1}
  Projects = {p1}
  Conversations = {c1, c2}
  Writers = {w}
  ConversationOf <- OneRun
  ProjectOf <- OneProject
  MaxBoots = 3
  MaxFaults = 1
  Events = {"stop", "ask", "close"}
  Prompt = {"pass"}
SPECIFICATION FairSpec
CHECK_DEADLOCK FALSE
INVARIANTS RowFollowsMain EndingAgreesWithMain
PROPERTIES StopIsNamed StoppedRunEnds HubStops EveryRunEnds
