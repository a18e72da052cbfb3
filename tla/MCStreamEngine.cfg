CONSTANTS
    Threads = {t1, t2}
    Streams = {s1, s2}
    Pids = {p1, p2, p3}
    None = None
SPECIFICATION Spec
SYMMETRY Symmetric
INVARIANTS
    NoOrphan
    OneProcessPerStream
    TablesAgree
PROPERTIES
    NeverForgetsLive
