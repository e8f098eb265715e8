CONSTANTS
    MaxTaskNumber = 1
    Texts = {t1, t2}
    t1 = t1
    NoTask = NoTask
    InitialVaults <- LifecycleVaults
    Requests = {r1, r2}
    Operations = {"edit", "close", "backlog", "activate", "delete"}
    Free = Free
    AnyRevision = AnyRevision
    MaxEditorWrites = 1
    MaxCrashes = 1
SPECIFICATION FairSpec
PROPERTIES
    NoLostUpdate
    ClosedTasksChangeByConfirmation
    CommandsEnd
CHECK_DEADLOCK FALSE
