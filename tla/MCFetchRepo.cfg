SPECIFICATION FairSpec
CONSTANTS
    Retries = 2
    Persistent = TRUE
    ZipAllowed <- Either
    MaxRuns = 4
INVARIANTS
    SuccessIsWhole
    GitSuccessHasNoStaleFile
    NoFailureWithoutTrouble
PROPERTIES
    FetchEnds
