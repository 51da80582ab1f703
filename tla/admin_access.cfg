SPECIFICATION Spec
CONSTANTS
    Request = {r1, r2}
    Password = {p1, p2}
    MaxVersion = 3
    MaxSecret = 1
    MaxStep = 1
    None = None
SYMMETRY Symmetry
INVARIANTS FactorUsedOnce LiveTokensOfThisFactor LiveSessionsOfThisPassword
CHECK_DEADLOCK FALSE
