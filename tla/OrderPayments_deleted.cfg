SPECIFICATION Spec
CONSTANTS
    Order = {o1}
    MaxRef = 2
    Price = {5, 7}
    Request = {r1, r2}
    Operation = {"create", "verify", "get", "intent", "delete"}
    UpdateStatus = {}
    Tailor = {}
    NoTailor = NoTailor
    KeepTailor = KeepTailor
    NoOrder = NoOrder
    MaxFault = 0
PROPERTY OnlyPendingIsDeleted
