SPECIFICATION FairSpec
CONSTANTS
  editor = editor
  control = control
  None = None
  Editor = editor
  Controls = {control}
  MaxConnected = 1
  EditorRequests = 3
  ControlRequests = 2
  LocalRequests = {1}
INVARIANTS
  BridgeConsistent
PROPERTIES
  ToldBeforeKilled
  BridgeEndsWithPeer
  SessionEndsWithEditor
  StopHeeded
  LossNoticed
CHECK_DEADLOCK FALSE
