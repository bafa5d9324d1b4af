CONSTANTS
    Threads = {t1, t2}
    Buffers = {"b"}
    Attribs = {0}
    Pointers = {"p", "q"}
    Readable <- MCReadable
    Firsts <- MCFirsts
    Counts <- MCCounts
    Indices = {0, 1}
    SyncPointers = {"s1", "s2", "s3"}
    GuestBlocks = {"g1", "g2", "g3"}
SPECIFICATION StaleSpec
CHECK_DEADLOCK FALSE
INVARIANT
    IndicesFollowBinding
