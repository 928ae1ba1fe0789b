SPECIFICATION ScriptSpec
CONSTANTS
  ScriptLimit = 4
  BatchMaxCommands = 2
  ExpiryLimit = 2
  Fault = {"Timeout", "Hid", "Lease"}
  None = None
CHECK_DEADLOCK FALSE
INVARIANTS
  ScriptInv
  OkMeansPlayed
  AcceptedWhole
