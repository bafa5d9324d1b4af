SPECIFICATION KernelSpec
CONSTANTS
    TopPage = 2
    MmapLimit = 2
    BrkStart = 2
    Files = {foreign, textrel}
    Foreign = {foreign}
    Textrel = {textrel}
    Prots <- MCProts
    Jits = {jit}
    Sigs = {1, 2}
    Faults = {2}
    StackSlots = 2
    MaxCalls = 1
    MaxChanges = 3
    Tasks = {t1}
    MaxData = 8
    MaxMessages = 3
    WordMax = 3
    MaxBytes = 20
    MaxSlots = 4
    MaxSymbol = 4
    ElfPages = 4
    Hosts = {h1, h2}
    Threads = {t1, t2}
    MaxNest = 3
    None = None
\* A sampled conversion takes no step.
CHECK_DEADLOCK FALSE
INVARIANTS
    MemorySafe
    SyscallsSafe
    ElfSafe
    HeldThreadAlive
PROPERTIES
    SignalsSafe
    ClearReturns
