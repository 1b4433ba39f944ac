SPECIFICATION EscrowSpec
CONSTANTS
    Orders = {o1}
    Requests = {r1}
    Reconciler = reconciler
    RefundKeys = {k1, k2}
    HandDelivered = {}
    Handlers = {"webhook", "refund"}
    ItemAmount = 2
    Fees = 1
    SellerAmount = 1
    MaxFailures = 0
    Disputes = {}
    None = None
PROPERTIES
    ClosingRefundReturnsTheRest
CHECK_DEADLOCK FALSE
