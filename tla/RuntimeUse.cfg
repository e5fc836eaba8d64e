SPECIFICATION Spec
CONSTANTS
  Names = {"stt", "llm", "tts"}
  Threads = {t1}
  Tasks = {a1}
  Sweeper = sweeper
  None = None
  Plans <- TwoPlans
  Copies <- OneEach
  Ram = 1
INVARIANTS
  TypeOK
  LeasesAccounted
PROPERTIES
  LeasedModelSpared
  LeaseKept
CHECK_DEADLOCK FALSE
