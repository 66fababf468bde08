\* Calls in a row: kept writers, blocked output, functions that hook by
\* themselves, and time that passes in every step.
CONSTANTS
    MaxLines = 3
    MaxClock = 4
SPECIFICATION CallSpec
INVARIANTS
    Bracketed
    LinesShown
    CallLeavesNothing
    TotalIsCallTime
