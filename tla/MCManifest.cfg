SPECIFICATION Spec
CONSTANTS
    Versions <- ThreeVersions
    Forms <- VersionedOrBoth
    AuxNames <- OwnPatch
INVARIANTS
    AuxEntriesKept
PROPERTIES
    NeededEntriesKept
    CommandsKeepCoverage
