SPECIFICATION Spec
CONSTANTS
  MaxClients = 2
  MaxRequests = 3
  MaxUpstream = 1
  ClientSeqs <- MCClientSeqs
  Commands = {"cancel", "evaluate"}
  Events = {}
  Specs = {}
  Outcomes = {TRUE}
  NoArg = NoArg
INVARIANT
  CancelReferencesBackendSeq
CHECK_DEADLOCK FALSE
