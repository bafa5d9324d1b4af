SPECIFICATION MCSpec
CONSTANTS
    Absent = Absent
    Drawers = {d1, d2}
    AssetAddresses = {p, q}
    ApkVersions = {r1, r2}
    Painters = {"t1", "t2"}
    Bitmaps = {"b1", "b2"}
    MaxLocks = 3
    Readers = {"t1", "t2"}
    Loopers = {"l1", "l2"}
    MaxEvents = 3
    TableSize = 2
    MaxIndex = 2
    Guests = {"t1", "t2"}
    Activities <- MCActivities
    kMaxSlots = 2
    MaxRecords <- MCMaxRecords
    kStuckThreshold = 2
    kMaxNotes = 1
    WatchCap = 3
    MaxChunks = 0
SYMMETRY Symmetry
\* A thread may exit, and a sampled conversion takes no step.
CHECK_DEADLOCK FALSE
INVARIANTS
    WindowsSafe
    BitmapsSafe
    InputSafe
    AssetsSafe
    WatchSafe
PROPERTIES
    ReportSafe
    LauncherSafe
