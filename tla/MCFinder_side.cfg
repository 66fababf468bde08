\* A directory whose name begins like that of the working directory.
CONSTANTS
    Cwd <- Start
    Type <- SideTree
    Links <- NoLinks
    MaxLinks = 2
    Args <- SideArgs
    CheckAll = FALSE
    Removable = {}
SPECIFICATION Spec
INVARIANT ExactlyTheAsked
