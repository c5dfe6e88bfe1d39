CONSTANTS
    Items = {0, 1}
    Logs = {"channel"}
    Emitters = {e1, e2}
    Msgs = {m1}
    NoMsg = NoMsg
    UserLimits = {0}
    ChannelLimits = {2}
    SliceMax = 1
    MaxPts = 3
    MaxEmpty = 1
SPECIFICATION Spec
INVARIANTS
    FoundIsShown
CHECK_DEADLOCK FALSE
