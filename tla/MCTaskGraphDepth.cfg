CONSTANTS
    MaxTaskNumber = 4
    Texts = {1}
    NoTask = NoTask
    InitialVaults <- GraphBoards
    ProjectOf <- MCProjectOf
    GraphQueries <- MCGraphQueries
    NoDepth = NoDepth
    Conditions <- MCConditions
    MaxNodes = 9
    MaxEdges = 9
    MaxGraphChanges = 0
    a = a
SPECIFICATION GraphSpec
INVARIANTS
    DepthReached
CHECK_DEADLOCK FALSE
