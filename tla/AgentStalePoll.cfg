\* A poll's reply arrives after a command has read back a newer state.
CONSTANTS
    Files = {fileA}
    NoFile = NoFile
    Codes = {}
    NoCode = NoCode
    None = None
    OddWords = {}
    MaxChanges = 2
    OfflineAfterFailures = 2
    ReadbackAttempts = 1
    MaxCommandAttempts = 2
    UserCommands = {"pause"}
    MaxRequests = 1
    MaxLost = 0
    MaxDropped = 0
    MaxKills = 0
SPECIFICATION FairSpec
PROPERTIES
    ObservedInOrder
