CONSTANTS
    r1 = r1
    r2 = r2
    r3 = r3
    vm = vm
    Requests <- MCRequests
    Objects <- MCObjects
    Target <- MCTarget
    Kind <- MCKind
    Waited = {r1}
    Handoffs = {TRUE, FALSE}
    MaxLocks = 5
SPECIFICATION Spec
INVARIANTS CallsOK
PROPERTIES SeamlessHandoff CompletedIsFinal EverythingEnds
CHECK_DEADLOCK FALSE
