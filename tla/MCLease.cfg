SPECIFICATION Spec
CONSTANTS
  ClockSize = 14
  Duration = 4
  MaxLag = 2
  SessionLimit = 3
  None = None
CHECK_DEADLOCK FALSE
INVARIANTS
  LeaseInv
PROPERTIES
  LeaseRunsItsCourse
