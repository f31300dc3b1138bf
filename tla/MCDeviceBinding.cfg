CONSTANTS
    Regions = 6
SPECIFICATION ContainedSpec
INVARIANTS ContainedClaimsReconcile
CHECK_DEADLOCK FALSE
