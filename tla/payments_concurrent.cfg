\* One user whose two rows are settled by two deliveries at a time while a
\* wallet request and an admin patch run.
CONSTANTS
    Users = {alice}
    TxIds = {t1, t2}
    Amounts = {1}
    MaxBalance = 2
    MaxPosted = 2
    Calls = {c1, c2}
    Patches = {p1}
    Hooks = {h1, h2}
    Reported = {1, 2}
    CentOff = {}
    EventKeys = {e1, e2}
SPECIFICATION Spec
CONSTRAINT Pairwise
SYMMETRY Symmetry
INVARIANTS TypeOK NoOverdraft
PROPERTIES DriftNeedsStaleCommit SettlementConsumesEvent SettledPaymentsStay
CHECK_DEADLOCK FALSE
