SPECIFICATION MCSpec
CONSTANTS
    Procs = {p1, p2}
    Files = {f1, f2}
    Checked = {f1, f2}
    Versions = {v1, v2}
    FileLocked = TRUE
    MaxFaults = 3
    Marker = Marker
    Absent = Absent
    None = None
    Owners = {o1}
    Borrowers = {o1}
    Callers = {c1}
    Fds = {f1, f2}
    MaxSerial = 2
INVARIANTS
    RegisteredIsPolled
PROPERTIES
    RegistrationsKept
    InstallsRecover
    ReadyServed
    HangReported
