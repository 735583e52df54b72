\* Two withdrawal requests of one user, each within the balance by itself.
CONSTANTS
    Users = {alice}
    TxIds = {t1, t2}
    Amounts = {1}
    MaxBalance = 1
    MaxPosted = 1
    Calls = {c1, c2}
    Patches = {}
    Hooks = {}
    EventKeys = {}
    Reported = {1}
    CentOff = {}
SPECIFICATION Spec
PROPERTIES NoOverRequest
CHECK_DEADLOCK FALSE
