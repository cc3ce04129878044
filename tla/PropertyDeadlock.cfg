SPECIFICATION Spec
CONSTANTS
    a = a
    b = b
    c = c
    w1 = w1
    w2 = w2
    None = None
    Objs = {a, b, c}
    Initials <- JustA
    PutObjs = {b, c}
    RemObjs = {}
    Unlocked = {}
    Writers = {}
    WriteObjs = {}
    Others = {}
    Directs = {FALSE}
    MaxObjects = 2
    MaxWaits = {"none"}
    MayCancel = FALSE
PROPERTIES Processed
CHECK_DEADLOCK FALSE
