SPECIFICATION Spec
CONSTANTS
    Versions <- ThreeVersions
    Forms <- VersionedOrBoth
    AuxNames <- OwnPatch
PROPERTIES
    FixedEntriesStay
