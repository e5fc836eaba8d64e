SPECIFICATION Spec
CONSTANTS
  Starts = {s1, s2, s3, s4}
  MaxEvents = 3
  MaxRestarts = 2
  UnhealthyAfter = 2
  RestartAfter = 3
  RestartAfterBusy = 4
  None = None
INVARIANTS
  TypeOK
  NoStray
  NoOrphan
PROPERTIES
  Settles
CHECK_DEADLOCK FALSE
