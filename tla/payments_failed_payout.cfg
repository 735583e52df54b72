\* withdraw-confirmed and withdraw-failed of one payout handled together.
CONSTANTS
    Users = {alice}
    TxIds = {t1}
    Amounts = {1}
    MaxBalance = 1
    MaxPosted = 1
    Calls = {c1}
    Patches = {}
    Hooks = {h1, h2}
    EventKeys = {e1, e2}
    Reported = {1}
    CentOff = {}
SPECIFICATION Spec
PROPERTIES FailedLeavesBalance
CHECK_DEADLOCK FALSE
