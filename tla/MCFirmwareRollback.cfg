CONSTANTS
    Regions = 6
SPECIFICATION ContainedSpec
INVARIANTS FirmwareRollsBack
CHECK_DEADLOCK FALSE
