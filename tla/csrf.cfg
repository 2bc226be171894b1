SPECIFICATION Spec
CONSTANTS
    c1 = c1
    c2 = c2
    r1 = r1
    r2 = r2
    r4 = r4
    Client = {c1, c2}
    Request = {r1, r2, r4}
    ClientOf <- MCClientOf
    Route <- MCRoute
    MaxLosses = 1
    None = None
    Absent = Absent
    Missed = Missed
SYMMETRY RequestsAlike
INVARIANTS
    TokensAgree
    OnlyWithOwnToken
    TokenRoundTrip
CHECK_DEADLOCK FALSE
