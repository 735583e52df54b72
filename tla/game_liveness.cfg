\* A player's calls against the loop and its sweeps, without restarts.
CONSTANTS
    Users = {alice}
    TxIds = {}
    Amounts = {1}
    MaxBalance = 2
    MaxPosted = 2
    MaxRounds = 2
    TopLevel = 3
    BetIds = {b1}
    Plays = {p1}
    Sweeps = {s1}
SPECIFICATION FairSpec
PROPERTIES StakedBetsSettle RoundsKeepComing
CHECK_DEADLOCK FALSE
