SPECIFICATION Spec
CONSTANTS
    r1 = r1
    r2 = r2
    Requests = {r1, r2}
    Providers = {1, 2}
    None = None
    Junk = Junk
    Gone = Gone
    PageLists <- MCPageLists
    MaxMade = 2
    MaxReplies = 1
SYMMETRY Symmetry
INVARIANTS
    TicketsAreNumbered
PROPERTIES
    TicketsStay
    OthersStay
CHECK_DEADLOCK FALSE
