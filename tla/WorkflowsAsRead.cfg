SPECIFICATION Spec
CONSTANTS
  app = app
  name = name
  old = old
  new = new
  Ids = {w1}
  Apps = {app}
  Entries <- TwoEntries
  Plans <- TwoPlans
  Calls = {c1, c2}
  None = None
SYMMETRY CallSymmetry
INVARIANTS
  TypeOK
  ApprovedAsRead
PROPERTIES
  ChangesAreShown
CHECK_DEADLOCK FALSE
