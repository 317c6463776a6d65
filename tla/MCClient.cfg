SPECIFICATION FairSpec
CONSTANTS
  None = None
  Plugins = {"fake", "python", "user-attach", "user-launch"}
  Calls = {"threads", "next", "continue", "probe_status", "disconnect"}
  MaxCalls = 2
  MaxStops = 1
INVARIANTS
  ClientConsistent
  InitFailsForCause
PROPERTIES
  ImplementsInbox
  AnswerIsOwn
  NavigateReturnsLaterStop
  ProbeReportsNewest
  CallReturns
CHECK_DEADLOCK FALSE
