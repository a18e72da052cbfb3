CONSTANTS
    Resellers = {r1}
    Users = {u1, u2}
    Requests = {t1, t2}
    Costs <- MCCosts
    Amounts = {1, 2}
    Puts <- MCPuts
    Start <- MCStart
    Max <- MCMax
    NoOne = NoOne
    Absent = Absent
    Gone = Gone
    None = None
SPECIFICATION Spec
SYMMETRY Symmetric
INVARIANTS
    CreditsInRange
    PricesAreCharged
CHECK_DEADLOCK FALSE
