SPECIFICATION Spec
CONSTANTS
    Clients = {a}
    Quiet = {}
    Remote = {}
    Reports = 2
    PipeSize = 1
INVARIANT
    ReportsAreShown
CHECK_DEADLOCK FALSE
