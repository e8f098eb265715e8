SPECIFICATION Spec
CONSTANTS
    p1 = p1
    p2 = p2
    Projects = {p1, p2}
    DefaultTitled = {p1}
    Authored = Authored
    Absent = Absent
    None = None
    NotIndexed = NotIndexed
    MaxChanges = 2
    MaxDisruptions = 1
INVARIANTS TypeOK OneLateRefreshAtMost
PROPERTIES RefreshShowsTheRound PagesCatchUp ShutdownEnds
CHECK_DEADLOCK FALSE
