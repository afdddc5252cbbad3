CONSTANTS
    seller = seller
    b1 = b1
    b2 = b2
    Players = {seller, b1, b2}
    StartGold <- MCStartGold
    StartUnits <- MCStartUnits
    StartBids = {1}
    Prices = {1, 4}
    Buyouts = {0, 2}
    Counts <- MCCounts
    Deposit = 1
    CutPercent = 50
    MailCost = 1
    Letters <- MCLetters
    GameMasters = {b2}
    MAX_MONEY_AMOUNT = 6
    UInt = 4
    ULong = 16
    Nobody = Nobody
    MaxDeals = 1
    MaxMails = 5
    MaxPending = 3
    MaxBreaks = 1
SPECIFICATION Spec
INVARIANTS GoldAccounted UnitsAccounted LoadedMailsCurrent
CHECK_DEADLOCK FALSE
