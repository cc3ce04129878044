SPECIFICATION Spec
CONSTANTS
    Items = 1
    Chunks = 1
    Skew = 0
    Kinds = {"import"}
    Sinks = {"logger"}
    MayCancel = TRUE

PROPERTY SinkIsClosed
CHECK_DEADLOCK FALSE
