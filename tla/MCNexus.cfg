SPECIFICATION MCSpec
CONSTANTS
    a = a
    b = b
    n1 = n1
    n2 = n2
    Runners = {a, b}
    Cap = 2
    MaxRequests = 5
    Passes = {0, 1, 2}
    Contexts = {1, 2, 3}
    MaxPolicies = 4
    MaxPublications = 3
    Attempts = 2
    MaxReads = 2
INVARIANTS
    TicksConserved
    FreshWallTick
    GrantsHonoured
    
    ManifoldIsLawful
    GuardsPinBanks
    
    
PROPERTIES
    
    
    SnapshotsAreWhole
SYMMETRY NodeSymmetry
CHECK_DEADLOCK FALSE
