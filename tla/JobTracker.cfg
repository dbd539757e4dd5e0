\* Every sequence of replies over two files: mirror and session story.
CONSTANTS
    Files = {fileA, fileB}
    NoFile = NoFile
    Codes = {code}
    NoCode = NoCode
    None = None
    Times = {1, 2}
SPECIFICATION Spec
INVARIANTS
    TypeOK
    TrackerMirrorsPrinter
PROPERTIES
    TellsSessions
