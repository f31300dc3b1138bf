SPECIFICATION MCSpec
CONSTANTS
    N = 2
    MaxPid = 4
    MaxGen = 3
    MaxEpoch = 3
    NoLaunch = NoLaunch
    NoRegs = NoRegs
    Launches = {l1}
    Regs = {r1}
    Entry <- SameEntry
    Results = {0, 1}
    Codes = {7}
    c1 = c1
    c2 = c2
    kernel = kernel
    ra = ra
    rb = rb
    port = port
    dom = dom
    none = none
    DomainSlots = {0, 1}
    Cpus = {c1, c2}
    Roots = {kernel, ra, rb}
    KernelRoot = kernel
    Resources = {port, dom}
    Authorities = {{}, {port}, {port, dom}}
    MaxDomainGen = 2
    MaxSeq = 3
    None = none
INVARIANTS
    TypeOK
    SupersededNeverAuthorizes
    BoundedBypass
    DomainsExclusive
    LedgerExact
    ImageSealed
    EntryPathsAreReady
    
    
PROPERTIES
    ContextPrivate
    DeadCallStaysDead
SYMMETRY Symmetry
CHECK_DEADLOCK FALSE
