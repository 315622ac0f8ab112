CONSTANTS
    w1 = w1
    w2 = w2
    NoUser = NoUser
    NoSession = NoSession
    Users = 2
    Staff <- MCStaff
    Traffic <- MCTraffic
    Worker = {w1, w2}
    MaxSession = 4
    MaxSecret = 3
SPECIFICATION Spec
SYMMETRY WorkerSymmetry
INVARIANTS GoodStanding 
PROPERTIES AdminRemains PasswordsMoveOn
CHECK_DEADLOCK FALSE
