CONSTANTS
    Conns = {c1, c2}
    Ids <- TwoIds
    Afters <- SomeAfters
    Packets <- PairPackets
    TrackLimit = 1
    MaxJobs = 4
    MaxPackets = 2
SPECIFICATION FairSpec

    
PROPERTIES
    PacketsEnd
CHECK_DEADLOCK FALSE
