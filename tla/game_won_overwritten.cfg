\* A crash and a cashout of one bet handled together.
CONSTANTS
    Users = {alice}
    TxIds = {}
    Amounts = {1}
    MaxBalance = 5
    MaxPosted = 5
    MaxRounds = 2
    TopLevel = 3
    BetIds = {b1}
    Plays = {p1, p2}
    Sweeps = {s1}
SPECIFICATION RunningSpec
PROPERTIES WonStaysWon
CHECK_DEADLOCK FALSE
