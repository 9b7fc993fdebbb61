SPECIFICATION FairSpec
CONSTANTS
    Product = {p1, p2}
    Slug = {s1, s2}
    NoSlug = NoSlug
    NoProduct = NoProduct
    Admin = {a1}
    Worker = {w1}
    BatchSize = 2
    MaxLen = 9
    MaxWrite = 4
    MaxFault = 0
PROPERTIES
    IsReplica
    EntriesAreHandled
