SPECIFICATION Spec
CONSTANTS
    AllRows <- MCRows
    Scopes <- MCScopes
    NULL = NULL
CHECK_DEADLOCK FALSE
INVARIANTS Integrity OnlyViewersRefuse
PROPERTIES OnlyDependentsGo
