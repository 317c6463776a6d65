SPECIFICATION Spec
CONSTANTS
  MaxClients = 2
  MaxRequests = 1
  MaxUpstream = 1
  ClientSeqs <- MCClientSeqs
  Commands = {"evaluate"}
  Events = {}
  Specs = {}
  Outcomes = {TRUE}
  NoArg = NoArg
INVARIANT
  SurvivesControlQuit
CHECK_DEADLOCK FALSE
