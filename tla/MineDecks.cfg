SPECIFICATION Spec
CONSTANTS
    Users = {u1, u2}
    Players = {u1}
    Tags = {t1, t2}
    NoTag = NoTag
    Decks = {d1, d2, d3}
    Handlers = {h1, h2}
    MaxSlots = 2
    LogLimit = 2
    MaxBattles = 3
INVARIANTS
    TypeOK
    SlotLimit
    TagOwnedOnce
    LeastPlayedGoes
PROPERTY
    NothingForeignLeft
SYMMETRY Symmetry
CHECK_DEADLOCK FALSE
