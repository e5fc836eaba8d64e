SPECIFICATION FairSpec
CONSTANTS
  Drafts = {d1}
  Texts = {x}
  Loop = loop
  Workers = {k1}
  Wipers = {w1}
  None = None
  Routes = {"accept"}
  SaveMayFail = TRUE
INVARIANTS
  WipeExcludesSends
  NothingRegrows
PROPERTIES
  DrainsAndSendsEnd
