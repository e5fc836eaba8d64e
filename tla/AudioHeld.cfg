SPECIFICATION Spec
CONSTANTS
  u1 = u1
  u2 = u2
  Users = {u1, u2}
  Callback = callback
  Watcher = watcher
  Startup = startup
  None = None
  Plans <- AllPlans
  Streams = {s1, s2}
SYMMETRY Sym
INVARIANTS
  TypeOK
  MutesAccounted
  NothingLeftBehind
  RecordingStoppable
  PanicQuiets
  NothingHangs
CHECK_DEADLOCK FALSE
