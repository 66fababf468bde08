\* Two pairs and a file over four numbers, two of them closed behind a back.
CONSTANTS
    Pairs = 2
    Fds = 4
    Sizes = {1}
    MaxSent = 0
    Hows = {}
    Modes = {TRUE}
    Handles = 2
    MaxRaw = 2
CHECK_DEADLOCK FALSE
SPECIFICATION DSpec
INVARIANTS
    NoLeak
    StrayBounded
