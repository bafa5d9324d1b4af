SPECIFICATION Spec
CONSTANTS
    Callers = {}
    Borrowers = {b1, b2}
    Carriers = {c1, c2}
    Signalled = {c1}
    MaxIds = 3
    Service = service
    None = None
SYMMETRY Symmetry
INVARIANTS
    LeaseSafe
    CarrierForEveryWaiter
    NothingLost
