CONSTANTS
    p1 = p1
    p2 = p2
    p3 = p3
    ana = ana
    budi = budi
    s1 = s1
    Process = {p1, p2, p3}
    Account = {ana, budi}
    Sale = {s1}
    Jobs <- MCJobs
    Databases <- MCDatabases
    Manifest <- MCManifest
    Sample = ana
    MaxAttempts = 2
    MaxStarts = 4
    MaxFaults = 2
    MaxWrites = 2
    MaxRevision = 2
    NONE = NONE
SPECIFICATION Spec
INVARIANTS  AmountFollowsTotal AccountsPublished
PROPERTIES FirstIsFirst UpgradesKeepRecords CredentialsKept EveryStartEnds
CHECK_DEADLOCK FALSE
