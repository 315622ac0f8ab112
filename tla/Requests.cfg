CONSTANTS
    r1 = r1
    r2 = r2
    shop = shop
    test = test
    office = office
    seller = seller
    clerk = clerk
    next = next
    Sales = 4
    Moment = {1, 2}
    Quantity = {1, 2}
    NoSale = NoSale
    Request = {r1, r2}
    Principals <- MCPrincipals
    Plans <- MCPlans
    InitialSales <- MCSales
    PageSize = 1
    Recent = 1
    Connections = 2
    Period = {1, 2}
    Slots = 1
    Limit = 1
SPECIFICATION Spec
INVARIANTS AuthenticationHonest WalksComplete 
PROPERTIES RequestsEnd
CHECK_DEADLOCK FALSE
