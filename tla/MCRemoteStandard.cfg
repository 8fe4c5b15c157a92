SPECIFICATION ModesSpec
CONSTANTS
    RepoName <- FourRepos
    HttpGit <- FirstIsSsh
    Concurrency = 2
    SmartMode = TRUE
    Persistent = TRUE
    BaseAlloc = 2
    Readings = {0, 4}
    ReadMayFail = FALSE
INVARIANTS
    ParserSeesWholeCheckout
    TempCheckoutsRemoved
PROPERTIES
    ImplementsPromise
