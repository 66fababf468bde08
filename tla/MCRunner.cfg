\* Every set of hooks and every outcome of every call; a directory may be lost.
CONSTANTS
    Main = main
    Kids = {}
    TestName = {"t1", "t2"}
    Dirs = {"root", "d1", "d2"}
    Root = "root"
    Removable = {"d2"}
    Lists <- HookLists
SPECIFICATION FairSpec
INVARIANTS
    TypeOK
    HookProtocol
    Accounting
    ErrorsByFile
    NoTestForgotten
PROPERTY
    ImplementsTestReport
