SPECIFICATION ProcessSpec
CONSTANTS
    Worker = {w1, w2}
    ChromePoolSize = 1
    MaxRestarts = 3
    None = None
    Document = {invoice}
    Oversize = {}
    MaxRequests = 2
    MaxRuns = 2
INVARIANTS
    ProcessTypeOK
    LeftOnDisk
PROPERTIES
    SignalEndsProcess
CHECK_DEADLOCK FALSE
