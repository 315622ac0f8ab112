CONSTANTS
    t1 = t1
    t2 = t2
    o1 = o1
    o2 = o2
    o3 = o3
    cashier = cashier
    boss = boss
    Direct = Direct
    NoRow = NoRow
    NoResult = NoResult
    Txn = {t1}
    OpId = {o1, o2}
    Actor = {cashier, boss}
    Superadmin = {boss}
    Requests <- OneCorrection
    Existing <- ExistingRows
    Cashier = cashier
    Payloads = {TRUE}
    BatchSize = 2
    PageSize = 1
SPECIFICATION FairSpec
PROPERTIES PendingDrains ChangesArrive
CHECK_DEADLOCK FALSE
