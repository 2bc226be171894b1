SPECIFICATION Spec
CONSTANTS
    r1 = r1
    r2 = r2
    r3 = r3
    c1 = c1
    c2 = c2
    Request = {r1, r2}
    Client = {c1}
    ClientOf <- MCClientOf
    Route <- BlockedRoutes
    Driver = "file"
    MaxRestarts = 1
    MaxSweeps = 1
    Foreign = Foreign
    None = None
SYMMETRY SameClient
INVARIANTS
    CookieNamesSession
    LockedCopyIsCurrent
    RetiredStaysGone
PROPERTIES
    NoLostUpdate
    ImplementsSerial
