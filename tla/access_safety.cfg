\* Two accounts may be registered; two requests race, over two sign-ins.
CONSTANTS
    Emails = {ada, bob}
    Names = {n1, n2}
    Codes = {k1, k2}
    RowIds = {i1, i2}
    SignIns = {s1, s2}
    Requests = {q1, q2}
    RowLife = 2
    JwtLife = 3
    MaxNow = 2
SPECIFICATION Spec
INVARIANTS TypeOK OneTokenPerSession AccountsDistinct
PROPERTIES KeepsBook SpentTokenStaysSpent CodeSettles
SYMMETRY Symmetry
CHECK_DEADLOCK FALSE
