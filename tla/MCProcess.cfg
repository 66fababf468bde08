\* Pids that are given again, and SIGCHLD handlers.
CONSTANTS
    Main = 1
    Kids = {2, 3}
    Setters = {1}
    MaxForks = 2
CHECK_DEADLOCK FALSE
SPECIFICATION FairSpec
INVARIANTS
    TypeOK
    
    NegativeMeansGone
    CollectedIsGone
    StandsForItsOwn
PROPERTY FinalizerEnds
