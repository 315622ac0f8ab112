CONSTANTS
    t1 = t1
    t2 = t2
    o1 = o1
    o2 = o2
    o3 = o3
    admin = admin
    boss = boss
    w1 = w1
    w2 = w2
    Direct = Direct
    NoRow = NoRow
    NoResult = NoResult
    Txn = {t1, t2}
    OpId = {o1, o2, o3}
    Actor = {admin, boss}
    Superadmin = {boss}
    Requests <- FeedRequests
    Existing <- ExistingRows
    Worker = {w1, w2}
    MaxCursor = 4
    PageSize = 2
SPECIFICATION FeedSpec
SYMMETRY WorkerSymmetry
INVARIANTS DeliveredRowAgrees RowHonest
PROPERTIES LedgerSpec
CHECK_DEADLOCK FALSE
