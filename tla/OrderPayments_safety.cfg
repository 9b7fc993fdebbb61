SPECIFICATION Spec
CONSTANTS
    Order = {o1}
    MaxRef = 2
    Price = {5, 7}
    Request = {r1, r2}
    Operation = {"create", "verify", "intent", "delete", "update"}
    UpdateStatus = {"IN_PRODUCTION"}
    Tailor = {}
    NoTailor = NoTailor
    KeepTailor = KeepTailor
    NoOrder = NoOrder
    MaxFault = 0
SYMMETRY RequestSymmetry
INVARIANT SettledMatchesPaystack
INVARIANT NoOrphanRows
INVARIANT AuditTrail
INVARIANT OneRowPerOutcome
INVARIANT IndInv
PROPERTY OnlyOvertakenBreakContract
