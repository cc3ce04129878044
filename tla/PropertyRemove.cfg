SPECIFICATION Spec
CONSTANTS
    a = a
    b = b
    c = c
    w1 = w1
    w2 = w2
    None = None
    Objs = {a, b, c}
    Initials <- Either
    PutObjs = {}
    RemObjs = {a, b}
    Unlocked = {b}
    Writers = {w1}
    WriteObjs = {a, b, c}
    Others = {}
    Directs = {TRUE, FALSE}
    MaxObjects = 1
    MaxWaits = {"none", "some", "zero"}
    MayCancel = TRUE
INVARIANTS FollowsRemovals AnswersOK
PROPERTIES CancelEnds
CHECK_DEADLOCK FALSE
