CONSTANTS
    c1 = c1
    c2 = c2
    Nobody = Nobody
    Clients <- TwoClients
    MaxLogins = 4
    Kinds = {TRUE, FALSE}
SPECIFICATION HandlerSpec
INVARIANTS Stoppable WaitGroupCounts
PROPERTIES StopLeavesNone StopReturns
CHECK_DEADLOCK FALSE
