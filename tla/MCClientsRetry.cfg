CONSTANTS
    Projects = {p, q}
    Everything = everything
    Absent = Absent
    MaxRequests = 6
    MaxRevision = 3
    t1 = t1
    before = before
    p = p
    t2 = t2
    Tasks = {t1, t2}
    Plans <- MCPlans
    Threads = {mine, theirs}
    Foreign = {theirs}
    NoThread = NoThread
    Wordings = {before, after}
    MaxNotices = 1
    Children = {c1, c2}
    NoChild = NoChild
    MaxCalls = 3
    InFlightMax = 2
    Chosen = {"elsewhere"}
SPECIFICATION MCSpec
PROPERTIES
    InspectionsShowTheAttempt
CHECK_DEADLOCK FALSE
