SPECIFICATION Spec
CONSTANTS
    Product = {p1, p2}
    Slug = {s1, s2}
    NoSlug = NoSlug
    NoProduct = NoProduct
    Admin = {a1, a2}
    Worker = {w1}
    BatchSize = 2
    MaxLen = 1
    MaxWrite = 3
    MaxFault = 2
INVARIANTS
    TypeOK
    EachEntryIsHandledOnce
    LastWordIsKept
PROPERTIES
    OnlyOvertakenRowsGoBack
SYMMETRY Symmetric
CHECK_DEADLOCK FALSE
