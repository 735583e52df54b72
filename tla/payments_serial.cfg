\* One request at a time over two users and two rows.
CONSTANTS
    Users = {alice, bob}
    TxIds = {t1, t2}
    Amounts = {1, 2}
    MaxBalance = 2
    MaxPosted = 2
    Calls = {c1}
    Patches = {p1}
    Hooks = {h1}
    EventKeys = {e1, e2}
    Reported = {1, 2}
    CentOff = {}
SPECIFICATION SerialSpec
SYMMETRY Symmetry
INVARIANTS LedgerExact
PROPERTIES KeepsPromise
CHECK_DEADLOCK FALSE
