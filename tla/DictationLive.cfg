SPECIFICATION FairSpec
CONSTANTS
  Producers = {p1}
  Dispatcher = dispatcher
  Callers = {}
  Wipers = {w1}
  Stoppers = {}
  None = None
  Cap = 1
  Stages = 2
  MaxRecordings = 3
  MaxDrops = 2
  MayCrash = FALSE
PROPERTIES
  DispatcherServes
CHECK_DEADLOCK FALSE
