\* One deposit or withdrawal of two cents, for which one or four may be paid, whose
\* webhooks are handled two at a time beside one call of the game.
CONSTANTS
    Users = {alice}
    TxIds = {t1}
    Amounts = {2}
    MaxBalance = 2
    MaxPosted = 3
    Calls = {c1}
    Patches = {}
    Hooks = {h1, h2}
    Games = {g1}
    Winnings = {2}
    Reported = {1, 4}
    EventKeys <- Keys
    CentOff <- CentShort
SPECIFICATION FairProviderSpec
INVARIANTS CompletedMovedOutside ClawbackWithinRefunds
PROPERTIES CapturedIsCredited PayoutsSettle RefundIsDebited
CHECK_DEADLOCK FALSE
