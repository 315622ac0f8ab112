CONSTANTS
    w1 = w1
    w2 = w2
    w3 = w3
    NoSession = NoSession
    Users = 2
    Superadmin = {1}
    Worker = {w1, w2}
    MaxSession = 5
    MaxGeneration = 3
    MaxClock = 2
SPECIFICATION Spec
SYMMETRY WorkerSymmetry
INVARIANTS OneLiveSuccessor FeedsCarryAccounts
PROPERTIES GateSpec
CHECK_DEADLOCK FALSE
