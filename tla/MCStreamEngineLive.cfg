CONSTANTS
    Threads = {t1, t2}
    Streams = {s1}
    Pids = {p1, p2}
    None = None
SPECIFICATION FairSpec
PROPERTIES
    CallsReturn
