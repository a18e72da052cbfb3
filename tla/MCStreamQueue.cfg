CONSTANTS
    Items = {1, 2, 3}
    Passes = {a, b}
    Priority <- MCPriority
    MaxCrashes = 1
SPECIFICATION FairSpec
INVARIANTS
    ProcessingIsHeld
PROPERTIES
    ImplementsWorkQueue
CHECK_DEADLOCK FALSE
