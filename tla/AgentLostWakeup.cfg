\* A second command arrives while the command thread is on its way out.
CONSTANTS
    Files = {fileA}
    NoFile = NoFile
    Codes = {}
    NoCode = NoCode
    None = None
    OddWords = {}
    MaxChanges = 1
    OfflineAfterFailures = 2
    ReadbackAttempts = 1
    MaxCommandAttempts = 2
    UserCommands = {"pause"}
    MaxRequests = 2
    MaxLost = 0
    MaxDropped = 0
    MaxKills = 0
SPECIFICATION FairSpec
PROPERTIES
    CommandsAreTaken
