CONSTANTS
    a = a
    b = b
    Up = Up
    Nodes = {1, 2, 3, 4, 5, 6, 7, 8}
    Names = {a, b}
    Requested <- MCRequested
    LinkTargets <- MCLinkTargets
    InitKind <- MCKind
    InitEntry <- MCEntry
    Protected = {1, 3, 5}
    ReadPaths <- MCReadPaths
    WritePaths = {}
    ScratchPaths <- MCScratchPaths
    ExportPaths <- MCExportPaths
    AddFd <- MCAddFd
    MaxFollow = 2
    MaxHanded = 1
SPECIFICATION Spec
INVARIANTS
    TypeOK
    Untouched
    OpenDeclared
PROPERTIES
    PublishedStays
CHECK_DEADLOCK FALSE
