SPECIFICATION Spec
CONSTANTS
    p1 = p1
    p2 = p2
    Battles = {1, 2, 3, 4, 5}
    Players = {p1, p2}
    Linked = {p1}
    Owner <- BattleOwner
    ModeOf <- BattleMode
    Deck <- BattleDeck
    Day <- BattleDay
    Delta = {1, 2, 3, 5}
    Low = {5}
    LogSize = 2
    MaxAborts = 1
INVARIANT
    OneModePerBattle
