SPECIFICATION Spec

CONSTANTS
    NumContents = 1
    MaxFiles = 2
    MaxAge = 1
    MaxSuffix = 1
    MaxSaves = 3
    MaxAttachments = 1
    MaxWrites = 0
    MaxTime = 2
    MaxKills = 1

INVARIANTS
    ResultIsWhole
