SPECIFICATION Spec
CONSTANTS
    p1 = p1
    p2 = p2
    Projects = {p1, p2}
    DefaultTitled = {p1}
    Authored = Authored
    Absent = Absent
    None = None
    NotIndexed = NotIndexed
    MaxChanges = 0
    MaxDisruptions = 0
PROPERTIES AuthoredPagesKept
CHECK_DEADLOCK FALSE
