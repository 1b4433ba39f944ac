SPECIFICATION EscrowSpec
CONSTANTS
    Orders = {o1}
    Requests = {r1}
    Reconciler = reconciler
    RefundKeys = {k1, k2}
    HandDelivered = {}
    Handlers = {"webhook", "confirm", "refund", "dispute", "chargeback"}
    ItemAmount = 3
    Fees = 1
    SellerAmount = 2
    MaxFailures = 0
    Disputes = {"warning", "inquiry", "inquiry_closed", "open", "under_review", "funds_withdrawn", "won", "lost"}
    None = None
SYMMETRY Interchangeable
INVARIANTS
    TypeOK
    RunningTotalMatchesLedger
    LostChargebackRecoversSellerLeg
CHECK_DEADLOCK FALSE
