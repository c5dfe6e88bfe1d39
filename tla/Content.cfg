SPECIFICATION ContentSpec
CONSTANTS
    Tasks = {t1, t2}
    Pair = {a, b}
    MaxMessages <- Turns
    Overlaps = 1
    MaxDrafts = 1
    MaxBots = 2
SYMMETRY Symmetry
INVARIANTS
    ConversationsHold StickerSetsAreTrue PagesAreRight ThreadsAreWhole AccessAsRule
PROPERTIES
    ThreadReadsGoUp
CHECK_DEADLOCK FALSE
