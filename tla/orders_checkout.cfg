SPECIFICATION FairSpec
CONSTANTS
    Orders = {o1, o2}
    Requests = {r1}
    Reconciler = reconciler
    RefundKeys = {k1}
    HandDelivered = {o2}
    Handlers = {"checkout", "pay", "async", "cancel", "webhook", "reconcile", "ship", "handover", "confirm"}
    ItemAmount = 1
    Fees = 1
    SellerAmount = 1
    MaxFailures = 1
    Disputes = {}
    None = None
INVARIANTS
    CancelledOrderIsNeverPaid
PROPERTIES
    CheckoutIsSettled
    AbandonedOrderIsReleased
CHECK_DEADLOCK FALSE
