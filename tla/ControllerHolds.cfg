SPECIFICATION Spec
CONSTANTS
  pad = pad
  b1 = b1
  b2 = b2
  b3 = b3
  p1 = p1
  p2 = p2
  Pads = {p1, p2}
  Names = {pad}
  NameOf <- OneName
  Tokens = {b1, b2, b3}
  Plans <- SixPlans
  Deck = Deck
  Other = Other
  Lost = Lost
  None = None
INVARIANTS
  TypeOK
  HoldTracked
  HeldIsDown
  DeferralCancelled
