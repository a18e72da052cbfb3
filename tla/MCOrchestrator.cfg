CONSTANTS
    Services = {api, worker}
    Critical = {api}
    Commands = {c1, c2}
    Pids = {p1, p2}
    None = None
    Foreign = Foreign
SPECIFICATION SupervisorSpec
SYMMETRY Symmetric
INVARIANTS
    SupervisorTypeOK
    NoStray
    OnePerService
    WritesWhatItChecked
