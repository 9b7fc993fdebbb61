SPECIFICATION Spec
CONSTANTS
    Order = {o1}
    MaxRef = 2
    Price = {5, 7}
    Request = {r1}
    Operation = {"create", "verify", "get", "intent", "delete", "update"}
    UpdateStatus = {"IN_PRODUCTION", "CANCELLED"}
    Tailor = {t1}
    NoTailor = NoTailor
    KeepTailor = KeepTailor
    NoOrder = NoOrder
    MaxFault = 1
PROPERTY KeepsContract
