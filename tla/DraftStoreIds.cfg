SPECIFICATION Spec
CONSTANTS
  Creator = c
  Pool = {p}
  None = None
  Ops = {"library"}
  Limit = 3
  MaxDrafts = 3
  MaxVersion = 1
  JsonMayFail = FALSE
  MirrorMayFail = FALSE
  MayCrash = FALSE
INVARIANTS
  UniqueIds
CHECK_DEADLOCK FALSE
