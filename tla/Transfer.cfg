SPECIFICATION Spec
CONSTANTS
    Items = 2
    Chunks = 2
    Skew = 1
    Kinds = {"import", "export", "task"}
    Sinks = {"logger", "item"}
    MayCancel = TRUE
INVARIANTS TransferOK Truthful CrashNeedsLateRead NothingLeft
PROPERTIES Returns
CHECK_DEADLOCK FALSE
