\* User code that changes and removes directories and forks.
CONSTANTS
    Main = main
    Kids = {k1, k2}
    TestName = {"t1"}
    Dirs = {"root", "d1", "d2"}
    Root = "root"
    Removable = {"d1", "d2"}
    Lists <- ForkLists
SYMMETRY KidSymmetry
SPECIFICATION Spec
INVARIANTS
    ChildReportsNothing
    OwnDirectory
    AbortOnlyOnLostDir
