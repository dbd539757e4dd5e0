\* Two commands of any kind, from people and from the poll loop, in every interleaving.
CONSTANTS
    Files = {fileA}
    NoFile = NoFile
    Codes = {}
    NoCode = NoCode
    None = None
    OddWords = {}
    MaxChanges = 2
    OfflineAfterFailures = 2
    ReadbackAttempts = 2
    MaxCommandAttempts = 2
    UserCommands = {"pause", "resume", "cancel"}
    MaxRequests = 2
    MaxLost = 1
    MaxDropped = 0
    MaxKills = 0
SPECIFICATION Spec
INVARIANTS
    TypeOK
    CommandsSerialised
    IntentStaysDropped
    GivesUpOnlyAtTheEnd
    LockHolderAtWork
    GoneOnlyIfRevoked
PROPERTIES
    CommandsAdvance
    KeepsItsPromise
