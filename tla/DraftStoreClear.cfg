SPECIFICATION Spec
CONSTANTS
  Creator = c
  Pool = {p, q}
  None = None
  Ops = {"update", "delete", "clear", "libclear", "wipe", "library"}
  Limit = 2
  MaxDrafts = 2
  MaxVersion = 2
  JsonMayFail = FALSE
  MirrorMayFail = TRUE
  MayCrash = FALSE
SYMMETRY PoolSymmetry

  
PROPERTIES
  NoRegress
CHECK_DEADLOCK FALSE
