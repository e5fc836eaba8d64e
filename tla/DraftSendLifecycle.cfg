SPECIFICATION Spec
CONSTANTS
  Drafts = {d1}
  Texts = {x, y}
  Loop = loop
  Workers = {k1, k2}
  Wipers = {}
  None = None
  Routes = {"accept", "decline", "edit", "rewrite", "delete", "stop"}
  SaveMayFail = FALSE
SYMMETRY TextSymmetry
INVARIANTS
  TypeOK
  PlacedWasApproved
  OneSender
  NoSilentDoublePlacement
