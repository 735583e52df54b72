\* One player who stakes twice, two calls and one sweep at a time.
CONSTANTS
    Users = {alice}
    TxIds = {}
    Amounts = {1}
    MaxBalance = 2
    MaxPosted = 2
    MaxRounds = 2
    TopLevel = 3
    BetIds = {b1, b2}
    Plays = {p1, p2}
    Sweeps = {s1}
SPECIFICATION Spec
SYMMETRY Symmetry
CONSTRAINTS SeedBound Pairwise LastRoundShort TwoBets
INVARIANTS TypeOK NoOverdraft SeedRevealedAfterCrash LostOnlyInCrashedRound
PROPERTIES SweepPaysTarget DriftNeedsStaleCommit NoSecondBet SettledBetsStay KeepsRoundBook
CHECK_DEADLOCK FALSE
