\* Every short argument list and text, every signal, small limits,
\* and every tree of three names.
CONSTANTS
    Words = {"a", "b"}
    MaxArgs = 3
    MaxLines = 5
    MaxIndex = 2
    Infinity = 4
    Entry = {"p", "q", "r"}
SPECIFICATION Spec
INVARIANTS
    ArgumentsKept
    RunsOnlyMarked
    HeadAndTail
    NamesBothWays
    
    
