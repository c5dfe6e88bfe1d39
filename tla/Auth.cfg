SPECIFICATION Spec
CONSTANTS
    k1 = k1
    Sessions = {s1}
    Tasks = {t1, t2}
    Users = {u1, u2}
    Protected = {u1}
    Channels = {c1}
    Keys = {k1, k2}
    KeyOf <- MCKeyOf
    NoUser = NoUser
    NoSession = NoSession
    MaxOps = 2
SYMMETRY Symmetry
CHECK_DEADLOCK FALSE
INVARIANTS
    SessionIsCurrent
    NoRequestBeforePassword
