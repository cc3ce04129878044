SPECIFICATION Spec
CONSTANTS
    a = a
    b = b
    c = c
    w1 = w1
    w2 = w2
    None = None
    Objs = {a, b}
    Initials <- JustA
    PutObjs = {b}
    RemObjs = {}
    Unlocked = {}
    Writers = {w1, w2}
    WriteObjs = {a, b}
    Others = {w2}
    Directs = {FALSE}
    MaxObjects = 2
    MaxWaits = {"none"}
    MayCancel = FALSE
INVARIANTS Current
PROPERTIES Processed
CHECK_DEADLOCK FALSE
