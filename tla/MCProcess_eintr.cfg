\* A SIGCHLD handler interrupts the wait of a finalizer.
CONSTANTS
    Main = 1
    Kids = {2, 3}
    Setters = {1}
    MaxForks = 2
CHECK_DEADLOCK FALSE
SPECIFICATION Spec
INVARIANT ParentWaits
