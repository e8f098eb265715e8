CONSTANTS
    MaxTaskNumber = 3
    Texts = {t1}
    t1 = t1
    NoTask = NoTask
    InitialVaults <- LinkVaults
    Requests = {r1, r2}
    Operations = {"create", "clone", "edit", "close", "backlog", "activate", "delete"}
    Free = Free
    AnyRevision = AnyRevision
    MaxEditorWrites = 0
    MaxCrashes = 0
SYMMETRY MCSymmetry
SPECIFICATION Spec
INVARIANTS
    TypeOK
PROPERTIES
    ImplementsBoard
CHECK_DEADLOCK FALSE
