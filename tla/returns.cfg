SPECIFICATION Spec
CONSTANTS
    Returns = {r1, r2}
    Operators = {k1}
    Calls = {x1, x2}
    ItemAmount = 2
    Fees = 1
    CallsFail = TRUE
    None = None
SYMMETRY Symmetry
INVARIANTS
    TypeOK
    RefundFollowsReceipt
PROPERTIES
    OneRefundPerReturn
CHECK_DEADLOCK FALSE
