SPECIFICATION Spec
CONSTANTS
    Offers = {o1, o2, o3}
    Requests = {x1, x2}
    None = None
SYMMETRY Interchangeable
INVARIANTS
    TypeOK
    OnePendingOffer
    ThreadTellsTheOffer
    OnlyAnswersDeadlock
PROPERTIES
    SerializedNegotiation
