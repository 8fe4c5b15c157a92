CONSTANTS
    LibDirs <- MCLibDirs
    StaticLibNames <- MCStaticLibNames
    CountOptions <- MCCountOptions
    ValidSlots <- MCValidSlots
    MalformedLicenses <- MCMalformedLicenses
    SplitsOf <- MCSplitsOf
    UnversionedOf <- MCUnversionedOf
    PythonEclasses <- MCPythonEclasses
    Python2 <- MCPython2
    MainCategories <- MCMainCategories
    MasterTrees <- MCMasterTrees
    UpstreamCategories <- MCUpstreamCategories
    Hashes <- MCHashes
    RemoteIDTypes <- MCRemoteIDTypes
    Ids = {"p", "q", "v"}
    Contents <- MCContents
    EclassContents <- MCEclassContents
    RepoContents <- MCRepoContents
    Few = 3
    MaxEdits = 2
    Locations <- MCLocations
    TargetSets <- MCTargetSets
    Queries <- MCQueries
    VersionText <- MCVersionText
SPECIFICATION Spec
INVARIANTS
    ChangedFindsPackageFaults
    QueryFindsItsVersions
    PolicyChangesSeverities
