CONSTANTS
    k1 = k1
    k2 = k2
    k3 = k3
    k4 = k4
    a = a
    b = b
    c = c
    Nobody = Nobody
    Calls <- MCCalls
    Contexts <- MCContexts
    CtxOf <- MCCtxOf
SPECIFICATION Spec
INVARIANTS MutualExclusion CountsReferences OnlyWaitersContend
PROPERTIES AcquireReturns RefinesContextMutex
