SPECIFICATION Spec
CONSTANTS
  Creator = c
  Pool = {p, q}
  None = None
  Ops = {"update", "delete"}
  Limit = 3
  MaxDrafts = 2
  MaxVersion = 2
  JsonMayFail = TRUE
  MirrorMayFail = FALSE
  MayCrash = TRUE
SYMMETRY PoolSymmetry
INVARIANTS
  TypeOK
  UniqueIds
  SavedSurvives
CHECK_DEADLOCK FALSE
