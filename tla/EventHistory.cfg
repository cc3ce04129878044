SPECIFICATION Spec
CONSTANTS
    a = a
    b = b
    Collectors = {a, b}
    Followed = a
    Filter <- AllAndMost
    MaxKey = 4
    MaxPage = 2
    Limits = {1, 2}
    Sizes = {1, 2}
    Reads = {1, 3}
INVARIANTS PagesOK TailCurrent Tailed
PROPERTIES ReadsAreContiguous
CHECK_DEADLOCK FALSE
