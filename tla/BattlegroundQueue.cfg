SPECIFICATION Spec
CONSTANTS
    a1 = a1
    a2 = a2
    h1 = h1
    AlliancePlayers = {a1, a2}
    HordePlayers = {h1}
    Parties = {{a1, a2}}
    MinPlayersPerTeam = 1
    MaxPlayersPerTeam = 2
    InvitationType = 1
    NumBattlegrounds = 2
    MaxInvites = 2
    Movers = {a1, a2}
    MaxMoves = 1
    UInt = 8
SYMMETRY Symmetry
INVARIANTS
    InvitedCount
    InvitationExpires
    BattlegroundPresent
PROPERTIES
    BalancedInvitations
