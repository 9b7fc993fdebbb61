SPECIFICATION FairSpec
CONSTANTS
    Order = {o1}
    MaxRef = 2
    Price = {5}
    Request = {r1, r2}
    Operation = {"create", "verify", "intent"}
    UpdateStatus = {}
    Tailor = {}
    NoTailor = NoTailor
    KeepTailor = KeepTailor
    NoOrder = NoOrder
    MaxFault = 1
PROPERTY ChargeIsRecorded
INVARIANT NoticeIsBacked
INVARIANT StoredReferenceIsPayable
INVARIANT AckedIsConfirmed
