CONSTANTS
    Conns = {c1, c2}
    NoConn = NoConn
    Task = Task
    Push = Push
    MaxMsgs = 1
    WritesMayFail = TRUE
    Overlap = TRUE
SPECIFICATION FairSpec
PROPERTIES
    AllIsSent
    
CHECK_DEADLOCK FALSE
