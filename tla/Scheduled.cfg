SPECIFICATION FairSpec
CONSTANTS
    u1 = u1
    u2 = u2
    t1 = t1
    t2 = t2
    r1 = r1
    x1 = x1
    x2 = x2
    Users = {u1, u2}
    Tasks = {t1, t2}
    Randoms = {r1}
    Texts = {x1, x2}
    None = None
    HistoryLimit = 1
    Ttl = TRUE
    Requests = {"schedule", "edit", "delete", "view"}
    MaxOps = 3
CHECK_DEADLOCK FALSE
INVARIANTS
    PlansAreKept
PROPERTIES
    PlansEnd
