SPECIFICATION ServicesSpec
CONSTANTS
    Users = {u1, u2, u3}
    Tasks = {t1, t2}
    NoUser = NoUser
    Apps <- Channels
    InviteByAll = FALSE
    MaxInvites = 1
    MaxRequests = 3
    MaxKeys = 2
    KeyBudgets <- Handshakes
    MaxTime = 5
    MaxLists = 1
    MaxSet = 1
    Ahead = 2
    Writings = 2
    Readings = 1
SYMMETRY Symmetry
INVARIANTS
      ListsAreAsTold UploadsAreWhole BotIsTold KeysAndSaltsHold
PROPERTIES
    OnlyEntryReadmits
CHECK_DEADLOCK FALSE
