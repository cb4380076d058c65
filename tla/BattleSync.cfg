SPECIFICATION FairSpec
CONSTANTS
    Handlers = {h1, h2}
    TTL = 2
    LogLimit = 2
    MaxBattles = 3
    MaxFaults = 1
INVARIANTS
    TypeOK
    ShownIsStored
PROPERTY
    EveryBattleStored
CHECK_DEADLOCK FALSE
