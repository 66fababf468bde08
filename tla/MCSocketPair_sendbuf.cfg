\* The send buffer is made smaller.
CONSTANTS
    Pairs = 1
    Fds = 2
    Sizes = {1, 2}
    MaxSent = 1
    Hows = {}
    Modes = {TRUE}
CHECK_DEADLOCK FALSE
SPECIFICATION Spec
INVARIANT SendbufSetsSendBuffer
