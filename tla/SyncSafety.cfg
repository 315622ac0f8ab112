CONSTANTS
    t1 = t1
    t2 = t2
    o1 = o1
    o2 = o2
    o3 = o3
    cashier = cashier
    boss = boss
    Direct = Direct
    NoRow = NoRow
    NoResult = NoResult
    Txn = {t1}
    OpId = {o1, o2, o3}
    Actor = {cashier, boss}
    Superadmin = {boss}
    Requests <- OtherRequests
    Existing <- ExistingRows
    Cashier = cashier
    Payloads = {TRUE}
    BatchSize = 2
    PageSize = 2
SPECIFICATION Spec
SYMMETRY OperationSymmetry
INVARIANTS ConflictsTrue SyncedCopyAgrees NoBlindOverwrite AppliedNotDisowned
CHECK_DEADLOCK FALSE
