SPECIFICATION PortageSpec
CONSTANTS
    p = p
    q = q
    Processes = {p, q}
    Atoms = {"a", "b"}
    Fragments <- ThreeFragments
    Target = 2
    InitialFragments <- EmptyOrSpread
    MaxFragmentLines = 2
    MayFail = TRUE
    MayCrash = TRUE
    FileNames <- TwoFiles
    OwnFile <- OwnFiles
    Repos = {"foo", "gentoo"}
    Keys = {"location", "priority"}
    Values = {"/b"}
    InitialConf <- SomeConfs
    MaxConfCommands = 4
    MaskFiles <- MaskDir
    UnmaskFiles <- UnmaskOne
    MaskTarget = "mask/g2.conf"
    UnmaskTarget = "unmask"
    RepoFile = "repo"
    Packages = {"a", "b"}
    InitialMasks <- SomeMasks
    MaxMaskCommands = 3
SYMMETRY AnyProcess
INVARIANTS
    NoTornFragment
PROPERTIES
    AddDoesWhatItSays
    RemoveDoesWhatItSays
    CommandsEditOneSection
    MasksFollowCommands
CHECK_DEADLOCK FALSE
