SPECIFICATION EbuildsSpec
CONSTANTS
    Repos = {"here", "there"}
    Cwd = "here"
    Packages = {"foo", "foo-3dfx"}
    CutName <- BothCut
    Versions <- NamedVersions
    Bumps <- Bump
    Contents = {"old", "new"}
    Code <- CodeOf
    Flags <- FlagsOf
    InitialDirs <- AnyDirectory
    MaxCommands = 2
    Files <- SixFiles
    Pkg <- PkgOf
    Group <- GroupOf
    Version <- VersionOf
    Digest <- DigestOf
    Listings <- AnyListing
INVARIANTS
    NewVersionsAreNew
    UpsertSettles
    HighestKeptIfDistinct
    PackagesSurvive
    ManifestCoversRest
PROPERTIES
    CleaningKeepsWhatIsUsed
