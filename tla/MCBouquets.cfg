SPECIFICATION Spec
CONSTANTS
    a1 = a1
    a2 = a2
    s1 = s1
    s2 = s2
    Admins = {a1, a2}
    Bids = {b1, b2}
    Streams = {s1, s2}
    Words = {w}
    Users = {ann}
    None = None
    PutLists <- MCPutLists
SYMMETRY Symmetry
PROPERTIES
    WidensOnlyByRequest
    LoneRequestsDoTheirJob
