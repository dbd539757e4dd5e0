\* One command of any kind, sent once, an outage, two threads: every race ends in the truth.
CONSTANTS
    Files = {fileA}
    NoFile = NoFile
    Codes = {}
    NoCode = NoCode
    None = None
    OddWords = {}
    MaxChanges = 2
    OfflineAfterFailures = 2
    ReadbackAttempts = 1
    MaxCommandAttempts = 1
    UserCommands = {"pause", "resume", "cancel"}
    MaxRequests = 1
    MaxLost = 0
    MaxDropped = 1
    MaxKills = 0
SPECIFICATION FairSpec
PROPERTIES
    CommandsFinish
    EventuallyAccurate
    IntentSettles
    DeferredPauseTakes
