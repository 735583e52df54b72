\* Two bets of two players over weeks of two days, read one per page; two messages
\* per three ticks; prefixes of eight bits; every environment over five variables
\* of a merchant.
CONSTANTS
    Players = {ada, bob}
    Payouts <- TwoPayouts
    DaysInWeek = 2
    PageSize = 1
    MaxBets = 2
    MaxDay = 2
    MaxRounds = 2
    Limit = 2
    Window = 3
    MaxTime = 10
    MaxPrefix = 255
    MaxStored = 9999
    GateVars <- Merchant
SYMMETRY Symmetry
SPECIFICATION PublicSpec
INVARIANTS BoardsMatchProfiles WeekIsThisWeek MeIsConsistent WalkMissesNothing
INVARIANTS AtMostTwiceTheLimit RefusedForCause
INVARIANTS RejectedOnlyAtTop HouseEdge
INVARIANTS SimulatedMoneyStaysApart GuardedDeploymentTakesCards SocketsFollowHttp
CHECK_DEADLOCK FALSE
