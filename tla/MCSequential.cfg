SPECIFICATION Spec
CONSTANTS
  None = None
  MaxFrames = 2
  MaxSize = 2
  MaxLoads = 3
  MaxSessions = 3
  IdOrder <- MCIdOrder
  Dirs <- MCDirs
  Launches <- MCLaunches
  Programs <- MCPrograms
  EnvDir <- Builtin
  RootClis <- MCRootClis
  Requests <- MCRequests
  Paths <- MCPaths
  Patterns <- MCPatterns
  MaxLines = 6
  Values = {1, 2, 3}
  MaxSeen = 4
INVARIANTS
  ReadsInStep
  LaunchServed
  TreeAsPlanned
  AdapterHandedDown
  SkipIsGlob
  DecisionsFitDefinitions
PROPERTIES
  CompleteFrameReturned
  OverrideTakesNothing
CHECK_DEADLOCK FALSE
