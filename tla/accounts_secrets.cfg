SPECIFICATION Spec
CONSTANTS
    r1 = r1
    r2 = r2
    r3 = r3
    r4 = r4
    r5 = r5
    Request = {r1, r2, r3, r4}
    Ops = {"register", "login", "logout", "remember", "forgot", "reset"}
    Original = Original
    None = None
    MaxFaults = 1
SYMMETRY RequestsAlike
INVARIANTS
    ReplacedPasswordRefused
    SpentTokenRefused
    ClearedRememberRefused
