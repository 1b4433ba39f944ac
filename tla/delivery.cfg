SPECIFICATION Spec
CONSTANTS
    a1 = a1
    a2 = a2
    c1 = c1
    c2 = c2
    Request = r
    Applications = {a1, a2}
    Couriers = {c1, c2}
    CourierOf <- OneEach
    Calls = {x1, x2, x3}
    MaxVersion = 4
    None = None
SYMMETRY Interchangeable
INVARIANTS
    TypeOK
    OneCourier
    EveryChangeIsTold
    OnlyDeparturesDeadlock
PROPERTIES
    DecisionsAreNotStale
    AssignmentIsFinal
