SPECIFICATION Spec
CONSTANTS
  shirt = shirt
  c1 = c1
  c2 = c2
  Product = {shirt}
  Colour = {c1, c2}
  First = c1
  DashInName = FALSE
  Cart <- MCCart
  Price <- MCPrice
  PerUnit <- MCPerUnit
  StartProduct <- MCStartProduct
  StartFabric <- MCStartFabric
  Request = {r1, r2}
  MaxEdits = 2
  None = None
  Gone = Gone
INVARIANTS  UnitsFitTheCloth AnswerIsCurrent ProfilesAreBounded
CONSTRAINT Apart
SYMMETRY Symmetry
