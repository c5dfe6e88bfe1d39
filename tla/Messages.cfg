SPECIFICATION Spec
CONSTANTS
    u1 = u1
    u2 = u2
    t1 = t1
    t2 = t2
    r1 = r1
    r2 = r2
    x1 = x1
    Users = {u1, u2}
    Tasks = {t1, t2}
    Randoms = {r1, r2}
    Texts = {x1}
    None = None
    HistoryLimit = 1
    Ttl = FALSE
    MaxOps = 4
    Requests = {"send", "forward", "delete", "purge", "read", "pin", "block"}
SYMMETRY Symmetry
CHECK_DEADLOCK FALSE
INVARIANTS
    DialogsAreCurrent
    RetriesDoNotDouble
    ReadsAreTrue

    
