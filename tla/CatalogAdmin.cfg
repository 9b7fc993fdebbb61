SPECIFICATION Spec
CONSTANTS
  FabricCategory = {c1, c2}
  Fabric = {f1, f2}
  Product = {p1}
  Slug = {k1}
  Style = {s1, s2}
  Request = {q1, q2}
  None = None
  Blank = Blank
INVARIANTS TypeOK ListsAgree DefaultIsOffered CategoriesWereKnown
CONSTRAINT Apart
SYMMETRY Symmetry
CHECK_DEADLOCK FALSE
