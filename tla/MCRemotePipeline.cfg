SPECIFICATION FairSpec
CONSTANTS
    RepoName <- FourRepos
    HttpGit <- FirstIsSsh
    Concurrency = 2
    SmartMode = TRUE
    Persistent = FALSE
    BaseAlloc = 2
    Readings = {0, 4}
    ReadMayFail = FALSE
INVARIANTS
    ParserSeesWholeCheckout
    NoSendOnClosedChannel
    CheckoutsRemoved
PROPERTIES
    ImplementsPromise
