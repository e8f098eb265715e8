SPECIFICATION FilesSpec
CONSTANTS
    Paths <- MCPaths
    old = old
    new = new
    t1 = t1
    t2 = t2
    Contents = {old, new}
    Missing = Missing
    Unseen = Unseen
    Transactions = {t1}
    Kinds <- AllKinds
    Exclusive = FALSE
    MaxSnapshots = 3
    MaxChanges = 2
    MaxWrites = 2
    MaxCrashes = 0
    PropertyNames = {"a", "b"}
    MaxLines = 3
    MaxEdits = 1
    w = w
    Headers <- SeveralHeaders
    OtherHeader = "Other"
    Report = "Report"
    Words = {w}
    ItemMarker = ItemMarker
    FirstBodies <- BodiesAtFirst
    FirstStyles <- SectionStyles
    MaxTokens = 3
    MaxShorthands = 1
    Snapshots = {d1, d2}
    Own = Own
    Nothing = Nothing
    MaxTransferFaults = 2
    Catalog <- SeveralCatalogs
    Unit = Unit
    Foreground = Foreground
    NoRelease = NoRelease
    MaxServerCommands = 2
    MaxServerFailures = 1
INVARIANTS
    PublishedAfterValidation
    TextsChangeAsAsked
    DatabaseStaysWhole
PROPERTIES
    SavesSurvive
CHECK_DEADLOCK FALSE
