CONSTANTS
    MaxTaskNumber = 3
    Texts = {1, 2}
    NoTask = NoTask
    InitialVaults <- MCInitialVaults
    Clients = {c1, c2}
    Scan <- MCScan
    Queries <- MCQueries
    NoLimit = none
    NoToken = NoToken
    MaxSnapshots = 2
    MaxBytes = 4
    MaxListings = 3
    MaxChanges = 1
    ProjectOf <- MCProjectOf
    GraphQueries <- MCGraphQueries
    NoDepth = none
    Conditions <- MCConditions
    MaxNodes = 3
    MaxEdges = 3
    MaxGraphChanges = 2
    none = none
    a = a
    b = b
SYMMETRY MCSymmetry
SPECIFICATION MCSpec
INVARIANTS
    BoardConsistent
    QueriesTypeOK
    PagesAddUp
    OnlyNewerListingsEvict
    GraphShowsWhatWasRead
    CirclesAreReal
CHECK_DEADLOCK FALSE
