SPECIFICATION Spec
CONSTANTS
    Orders = {o1}
    Requests = {r1, r2}
    Reconciler = reconciler
    RefundKeys = {k1}
    HandDelivered = {}
    Handlers = {"checkout", "pay", "webhook", "confirm", "refund", "chargeback"}
    ItemAmount = 1
    Fees = 1
    SellerAmount = 1
    MaxFailures = 1
    Disputes = {"open", "funds_withdrawn", "lost"}
    None = None
SYMMETRY Interchangeable
INVARIANTS
    SellerPaidOnlyFromCollectedMoney
    RefundsAreClaimedAndCollected
    PaidOutIsBackedByTransfer
PROPERTIES
    MoneyMovesLikeAnEscrowAccount
CHECK_DEADLOCK FALSE
