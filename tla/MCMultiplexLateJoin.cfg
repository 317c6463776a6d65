SPECIFICATION Spec
CONSTANTS
  MaxClients = 3
  MaxRequests = 1
  MaxUpstream = 2
  ClientSeqs <- MCClientSeqs
  Commands = {"initialize"}
  Events = {"initialized", "stopped"}
  Specs = {}
  Outcomes = {TRUE}
  NoArg = NoArg
INVARIANTS
  EventsInOrderNoGap
  LateJoinerCaughtUp
  EditorSeqIncreases
CHECK_DEADLOCK FALSE
