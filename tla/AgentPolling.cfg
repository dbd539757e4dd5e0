\* Polling alone: two files, every printer word, outages, a restart; nobody sends commands.
CONSTANTS
    Files = {fileA, fileB}
    NoFile = NoFile
    Codes = {code}
    NoCode = NoCode
    None = None
    OddWords = {"busy", "calibrating"}
    MaxChanges = 4
    OfflineAfterFailures = 3
    ReadbackAttempts = 1
    MaxCommandAttempts = 1
    UserCommands = {}
    MaxRequests = 0
    MaxLost = 0
    MaxDropped = 0
    MaxKills = 1
SPECIFICATION Spec
INVARIANTS
    ToldWhatItKnows
    ToldAsSessions
