SPECIFICATION Spec
CONSTANTS
    Product = {p1, p2}
    Slug = {s1}
    NoSlug = NoSlug
    NoProduct = NoProduct
    Admin = {a1, a2}
    Worker = {w1}
    BatchSize = 2
    MaxLen = 9
    MaxWrite = 3
    MaxFault = 0
INVARIANTS
    FailuresReachTheDLQ
SYMMETRY Symmetric
