CONSTANTS
    Items = {0, 1}
    Logs = {"user", "channel"}
    Emitters = {e1, e2}
    Msgs = {m1}
    NoMsg = NoMsg
    UserLimits = {0}
    ChannelLimits = {2}
    SliceMax = 1
    MaxPts = 2
    MaxEmpty = 1
SPECIFICATION FairSpec
INVARIANTS
    PtsTakenOnce
PROPERTIES
    MissesOnlyRaced
    CatchesUp
CHECK_DEADLOCK FALSE
