SPECIFICATION Spec
CONSTANTS
  MaxClients = 2
  MaxRequests = 2
  MaxUpstream = 2
  ClientSeqs <- MCRoutingSeqs
  Commands = {"cancel", "setBreakpoints", "_dapBreakpointSnapshot"}
  Events = {}
  Specs = {s1}
  Outcomes = {TRUE, FALSE}
  NoArg = NoArg
INVARIANTS
  TablesConsistent
  RoutedToRequester
  SnapshotConfirmed
  AnswersDeliveredOnce
PROPERTY
  CancelNamesItsRequest
CHECK_DEADLOCK FALSE
