SPECIFICATION MCSpec
CONSTANTS
    Threads = {t1, t2}
    Refs = {r1, r2, r3}
    Null = Null
    MaxSlots = 3
    RetiredSerial = 2
    MaxFrames = 3
    Askers = {t1, t2}
    HostIds = {"h1", "h2", "h3"}
    ShortyOf <- MCShortyOf
SYMMETRY Symmetry
INVARIANTS
    HostRefsOwnedOnce
    NativesSafe
    IdsSafe
    ValuesArrive
    NamesExact
PROPERTIES
    ImplementsRefs
    FramesSafe
    MirrorsSafe
