SPECIFICATION Spec
CONSTANTS
    Commands = {c1}
    Editor = editor
    Packages = {"a", "b"}
    VersionNames = {"1"}
    Initial <- InitialLines
    Heights = {5, 6}
    MaxLines = 4
    MaxPieces = 3
    MaxChanges = 2
INVARIANTS
    WorldWhole
PROPERTIES
    EditorChangesShownLine
CHECK_DEADLOCK FALSE
