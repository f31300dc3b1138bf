SPECIFICATION SPSpec
CONSTANTS
    N = 2
    MaxPid = 4
    MaxGen = 3
    MaxEpoch = 3
    NoLaunch = NoLaunch
    NoRegs = NoRegs
    Launches = {l1}
    Regs = {r1}
    Entry <- SameEntry
    Results = {0, 1}
    Codes = {7}
    MaxIrq = 2
INVARIANTS
    TicketExact
PROPERTIES
    SyscallCompletes
    ImplementsUserMachine
CHECK_DEADLOCK FALSE
