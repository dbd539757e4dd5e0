\* One request against the touchscreen.
CONSTANTS
    Files = {fileA}
    NoFile = NoFile
    Codes = {code}
    NoCode = NoCode
    None = None
    OddWords = {"calibrating"}
    MaxChanges = 3
    Clients = {c1}
    Pollers = {"main"}
    Tools <- MCTools
    Slicings <- MCSlicings
    Absent = Absent
    Firmwares = {"names", "both"}
    OfflineAfterFailures = 1
    MaxPosts = 1
    MaxUploads = 1
    MaxLost = 1
SPECIFICATION Spec
PROPERTY
    NeverWhileBusy
\* The requests come to an end.
CHECK_DEADLOCK FALSE
