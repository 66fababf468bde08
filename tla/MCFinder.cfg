\* Overlapping pathnames, links, a circle of links, and files that disappear.
CONSTANTS
    Cwd <- Start
    Type <- WideTree
    Links <- WideLinks
    MaxLinks = 3
    Args <- WideArgs
    CheckAll = FALSE
    Removable <- WideRemovable
SPECIFICATION FairSpec
INVARIANTS
    EachOnce
    ExactlyTheAsked
    FailureHasCause
PROPERTY SearchEnds
