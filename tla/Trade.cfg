SPECIFICATION Spec
CONSTANTS
    a = a
    b = b
    x1 = x1
    x2 = x2
    x3 = x3
    y1 = y1
    NULL = NULL
    Player = {a, b}
    Item = {x1, x2, x3, y1}
    Spell = {"enchant"}
    TRADE_SLOT_TRADED_COUNT = 2
    MAX_MONEY_AMOUNT = 2
    MaxEvents = 1
    Capacity <- MCCapacity
    kind <- MCKind
    MaxCount <- MCMaxCount
    BindedNotWith <- MCBindedNotWith
    Start <- MCStart
    StartMoney <- MCStartMoney
SYMMETRY ItemSymmetry
INVARIANTS
    TradersPaired
    SavedGold
PROPERTIES
    AgreedExchange
    OfferedItemsMove
CHECK_DEADLOCK FALSE
