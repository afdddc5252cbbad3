CONSTANTS
    seller = seller
    b1 = b1
    b2 = b2
    Players = {seller, b1}
    StartGold <- MCStartGold
    StartUnits <- MCStartUnits
    StartBids = {1}
    Prices = {1}
    Buyouts = {0}
    Counts <- MCCounts
    Deposit = 1
    CutPercent = 50
    MailCost = 1
    Letters = {}
    GameMasters = {}
    MAX_MONEY_AMOUNT = 6
    UInt = 4
    ULong = 16
    Nobody = Nobody
    MaxDeals = 1
    MaxMails = 5
    MaxPending = 3
    MaxBreaks = 1
SPECIFICATION Spec
PROPERTY WinnerGetsItem
CHECK_DEADLOCK FALSE
