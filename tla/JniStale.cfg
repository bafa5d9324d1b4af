SPECIFICATION AttachSpec
CONSTANTS
    Threads = {t1}
    Refs = {r1, r2, r3}
    Null = Null
    MaxSlots = 3
    RetiredSerial = 2
    MaxFrames = 3
    Askers = {t1}
    HostIds = {"h1", "h2", "h3"}
    ShortyOf <- MCShortyOf
INVARIANT StaleNeverValid
