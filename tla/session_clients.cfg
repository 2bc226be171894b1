SPECIFICATION Spec
CONSTANTS
    r1 = r1
    r2 = r2
    r3 = r3
    c1 = c1
    c2 = c2
    Request = {r1, r2, r3}
    Client = {c1, c2}
    ClientOf <- MCClientOf
    Route <- TwoClientRoutes
    Driver = "memory"
    MaxRestarts = 1
    MaxSweeps = 0
    Foreign = Foreign
    None = None
SYMMETRY SameClient
INVARIANTS
    TypeOK
    ConfinedToClient
    LocksHaveOwners
