SPECIFICATION Spec
CONSTANTS
    Slugs <- MCSlugs
    MalformedLicenses = {"("}
    MainCategories = {"app", "dev"}
    VirtualCategories = {"virtual"}
    Limit = 2
    DashboardRepos = 2
    Trees <- TwoRepos
    MaxFailures = 1
    Concurrency = 2
    NoOverlay = {}
    ByTitle <- MCByTitle
    MaxBadParses = 1
INVARIANTS NoSharedPage WholeSiteOrError LinksResolve
    ServesWhatParses LiveAgreesWithStatic
PROPERTIES GenerationEnds
