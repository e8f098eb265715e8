CONSTANTS
    root = root
    a = a
    b = b
    other = other
    c = c
    Directories = {a, b, c}
    Parent <- ParentOf
    MaxDirectories = 2
    MaxWatches = 4
    MaxWrites = 2
    None = None
SPECIFICATION MCSpec
INVARIANTS
    IndexTypeOK
    ReadsAreFresh
    OutdatedEntriesGo
CHECK_DEADLOCK FALSE
