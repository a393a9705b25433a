SPECIFICATION BufferSpec
CONSTANTS
    Byte = 8
    Arena = 103
    MaxLength = 42
    Sizes = {1, 3, 9, 28, 31, 42, 50}
    Layout <- MCLayout
    Registered = {1, 9}
    Values <- MCValues
    Priorities = {0, 3}
INVARIANTS
    BufferInv
    OverrunIsSmall
    AcceptedArrive
