SPECIFICATION Spec
CONSTANTS
    Funcs = {f1, f2}
    Cmds = {c1, c2}
    Forking = {c2}
    OSPids = {1, 2}
    PidBase = 2
    MaxDelay = 2
    ResetDelay = 5
    MaxRequests = 3
    MaxFaults = 2
INVARIANTS ToolboxOK TableOK OutputComplete
PROPERTIES Answers Recovers StopEnds KillEnds
CHECK_DEADLOCK FALSE
