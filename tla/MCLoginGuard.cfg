SPECIFICATION GuardSpec
CONSTANTS
    t1 = t1
    t2 = t2
    a1 = a1
    a2 = a2
    i1 = i1
    i2 = i2
    Threads = {t1, t2}
    Admins = {a1, a2}
    Ips = {i1, i2}
    Limits = {0, 1, 2}
    MaxAttempts = 2
    Nothing = Nothing
SYMMETRY Symmetry
INVARIANTS
    LockoutComes
PROPERTIES
    LocksHold
    StaysListed
