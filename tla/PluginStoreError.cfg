SPECIFICATION Spec
CONSTANTS
    Versions = {v1, v2}
    MaxErrors = 1
    MaxCrashes = 0
    LaunchDuringImport = FALSE
    Absent = Absent
    None = None
INVARIANT
    DataKept
