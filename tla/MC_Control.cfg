SPECIFICATION SumSpec
CONSTANTS
    Processes = {old, new}
    N = 2
    MaxSaves = 2
    MaxFailures = 1
    Missing = Missing
    None = None
    Old = Old
    New = New
    Clients = {c1}
INVARIANTS
    FilesSound
    ViewsAgree
PROPERTY
    SocketsKept
CHECK_DEADLOCK FALSE
