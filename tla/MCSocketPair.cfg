\* Two pairs over descriptors that are closed and given again.
CONSTANTS
    Pairs = 2
    Fds = 3
    Sizes = {1}
    MaxSent = 1
    Hows = {"rd", "wr"}
    Modes = {TRUE}
CHECK_DEADLOCK FALSE
SPECIFICATION Spec
INVARIANTS
    OwnSocket
    
PROPERTY
    EofIsTheEnd
