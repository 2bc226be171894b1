SPECIFICATION Spec
CONSTANTS
    p1 = p1
    p2 = p2
    p3 = p3
    p4 = p4
    Command = {p1, p2, p3, p4}
    Build <- MCBuild
    MaxFaults = 2
SYMMETRY SameBuild
INVARIANTS
    TablesMatchRecords
PROPERTIES
    LastInFirstOut
    RolledBackWhole
