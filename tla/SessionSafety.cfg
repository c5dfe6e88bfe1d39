CONSTANTS
    Conns = {c1, c2}
    NoConn = NoConn
    Task = Task
    Push = Push
    MaxMsgs = 2
    WritesMayFail = TRUE
    Overlap = TRUE
SPECIFICATION Spec
SYMMETRY ConnSymmetry
INVARIANTS
    InIdOrder
    
    NoLostWakeup
PROPERTIES
    SessionIsOutbox
CHECK_DEADLOCK FALSE
