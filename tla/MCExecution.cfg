SPECIFICATION Spec
CONSTANTS
  Modifier = {"LeftShift"}
  Key = {"KeyA", "Key1", "Enter"}
  Button = {"Left"}
  MaxHeldKeys = 2
  None = None
  MaxPayload = 3
  MaxWait = 300
  MaxStep = 2
  Coordinate <- Near
  Frame <- SmallFrames
  BatchLimit = 2
  BatchPayload = 6
  LateReports = FALSE
INVARIANTS
  ExecutionInv
  MoveInv
  BatchIsAsValidated
  ReadsABeginning
PROPERTIES
  ImplementsHeldInput
