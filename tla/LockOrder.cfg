CONSTANTS
    w1 = w1
    w2 = w2
    w3 = w3
    None = None
    User = {1, 2}
    Tenant = {1, 2}
    Session = {1, 2, 3, 4}
    Holder <- MCHolder
    Home <- MCHome
    InSandbox = {2}
    Enrolled = {2}
    Request <- MCRequest
    Worker = {w1, w2, w3}
SPECIFICATION Spec
SYMMETRY WorkerSymmetry
INVARIANT KnownCircularWaits
