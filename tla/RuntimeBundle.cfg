SPECIFICATION Spec
CONSTANTS
    Procs = {p1, p2}
    Files = {f1, f2}
    Checked = {f1}
    Versions = {v1}
    FileLocked = FALSE
    MaxFaults = 0
    Marker = Marker
    Absent = Absent
    None = None
INVARIANT
    RequiredPublished
