CONSTANTS
    t1 = t1
    t2 = t2
    o1 = o1
    o2 = o2
    o3 = o3
    o4 = o4
    admin = admin
    boss = boss
    w1 = w1
    w2 = w2
    w3 = w3
    Direct = Direct
    NoRow = NoRow
    NoResult = NoResult
    Txn = {t1}
    OpId = {o1, o2, o3, o4}
    Actor = {admin, boss}
    Superadmin = {boss}
    Requests <- ContendedRequests
    Existing <- ExistingRows
    Worker = {w1, w2, w3}
    MaxCursor = 4
SPECIFICATION FairStoreSpec
INVARIANTS RevisionChain AppliedOnce
 
CHECK_DEADLOCK FALSE
