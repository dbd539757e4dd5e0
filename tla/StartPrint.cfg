\* Two requests against one file that comes, goes and changes, one outage, one lost answer.
CONSTANTS
    Files = {fileA}
    NoFile = NoFile
    Codes = {code}
    NoCode = NoCode
    None = None
    OddWords = {"calibrating"}
    MaxChanges = 3
    Clients = {c1, c2}
    Pollers = {"main"}
    Tools <- MCTools
    Slicings <- MCSlicings
    Absent = Absent
    Firmwares = {"both"}
    OfflineAfterFailures = 1
    MaxPosts = 2
    MaxUploads = 1
    MaxLost = 1
SPECIFICATION Spec
SYMMETRY ClientsAreAlike
INVARIANTS
    TypeOK
    OnlyANewerJobIsInTheWay
    AnswersAreHonest
    MappingsAreTheFiles
\* The requests come to an end.
CHECK_DEADLOCK FALSE
