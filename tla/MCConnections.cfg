CONSTANTS
    ann = ann
    a1 = a1
    a2 = a2
    ak = ak
    Limit = 2
    Workers = {w1, w2}
    Users = {ann}
    Requests = {a1, a2, ak}
    Rows = {l1, l2, l3, l4}
    UserOf <- MCUserOf
    ConnOf <- MCConnOf
    IsLive <- MCIsLive
    Max <- MCMax
    MaxCrashes = 2
    None = None
SPECIFICATION FairSpec
INVARIANTS
    TypeOK
    SlotsAreServed
    OvershootIsBounded
    LinesAreServed
PROPERTIES
    LockoutEnds
CHECK_DEADLOCK FALSE
