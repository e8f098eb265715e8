SPECIFICATION OwnSpec
CONSTANTS
    Paths <- MCPaths
    old = old
    new = new
    t1 = t1
    t2 = t2
    Contents = {old, new}
    Missing = Missing
    Unseen = Unseen
    Transactions = {t1, t2}
    Kinds <- ReplaceAndRename
    Exclusive = TRUE
    MaxSnapshots = 2
    MaxChanges = 2
    MaxWrites = 0
    MaxCrashes = 1
PROPERTIES ImplementsAtomicCommit
CHECK_DEADLOCK FALSE
SYMMETRY Interchangeable
