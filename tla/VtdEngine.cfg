CONSTANTS
    Roots = {r1}
    FirmwareRoot = fw
    None = none
    RequiresFlush = TRUE
    MaxOperations = 4
SPECIFICATION Spec
INVARIANTS EnabledTranslates
CHECK_DEADLOCK FALSE
