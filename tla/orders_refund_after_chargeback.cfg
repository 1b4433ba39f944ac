SPECIFICATION EscrowSpec
CONSTANTS
    Orders = {o1}
    Requests = {r1}
    Reconciler = reconciler
    RefundKeys = {k1}
    HandDelivered = {}
    Handlers = {"webhook", "refund", "chargeback"}
    ItemAmount = 1
    Fees = 1
    SellerAmount = 1
    MaxFailures = 0
    Disputes = {"warning", "inquiry", "inquiry_closed", "open", "under_review", "funds_withdrawn", "won", "lost"}
    None = None
PROPERTIES
    NoRefundAfterLostChargeback
CHECK_DEADLOCK FALSE
