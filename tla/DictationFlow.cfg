SPECIFICATION Spec
CONSTANTS
  Producers = {p1}
  Dispatcher = dispatcher
  Callers = {c1}
  Wipers = {w1}
  Stoppers = {s1}
  None = None
  Cap = 1
  Stages = 1
  MaxRecordings = 2
  MaxDrops = 1
  MayCrash = TRUE
INVARIANTS
  TypeOK
  SingleFlight
  ProcessingTracksRun
  
PROPERTIES
  StopHonoured
CHECK_DEADLOCK FALSE
