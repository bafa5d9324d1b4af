SPECIFICATION Spec
CONSTANTS
    Versions = {v1, v2}
    MaxErrors = 0
    MaxCrashes = 1
    LaunchDuringImport = FALSE
    Absent = Absent
    None = None
INVARIANT
    DataKept
