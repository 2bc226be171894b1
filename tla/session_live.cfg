SPECIFICATION FairSpec
CONSTANTS
    r1 = r1
    r2 = r2
    r3 = r3
    c1 = c1
    c2 = c2
    Request = {r1, r2}
    Client = {c1}
    ClientOf <- MCClientOf
    Route <- MixedRoutes
    Driver = "file"
    MaxRestarts = 0
    MaxSweeps = 0
    Foreign = Foreign
    None = None
PROPERTIES
    EveryRequestEnds
