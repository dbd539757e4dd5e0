\* A pause deferred in warm-up, then a resume, while the poll loop is issuing the pause.
CONSTANTS
    Files = {fileA}
    NoFile = NoFile
    Codes = {}
    NoCode = NoCode
    None = None
    OddWords = {}
    MaxChanges = 3
    OfflineAfterFailures = 2
    ReadbackAttempts = 1
    MaxCommandAttempts = 2
    UserCommands = {"pause", "resume"}
    MaxRequests = 2
    MaxLost = 0
    MaxDropped = 0
    MaxKills = 0
SPECIFICATION Spec
INVARIANTS
    RevokedPauseIsNotSent
