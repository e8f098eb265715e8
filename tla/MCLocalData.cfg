SPECIFICATION LocalSpec
CONSTANTS
    to1 = to1
    Renamers = {r1, r2}
    Writers = {w1}
    FirstNotes = {n1}
    Source = Source
    Destinations = {to1, to2}
    Staging = Staging
    Backup = Backup
    Absent = Absent
    MaxUpdates = 1
    MaxFailures = 2
    MaxInterrupts = 1
    Creators = {c1, c2, c3}
    MaxTaskNumber = 3
    Unseeded = Unseeded
    MaxFileChanges = 1
    MaxCreationFailures = 1
    x = x
    xx = xx
    y = y
    Ids = {1, 2}
    Titles = {1, 2, 3}
    Paths = {x, xx, y}
    Location <- LocationOf
    Size <- SizeOf
    MaxProjects = 2
    MaxBytes = 5
    FirstRows <- RowsAtFirst
    MaxChanges = 2
    MaxRestarts = 1
    NoProject = NoProject
    Unlisted = Unlisted
    Adders = {a1, a2}
    Editors = {e1, e2}
    Removers = {m1}
    MaxNoteNumber = 2
    NoteFields = {tags, sources}
    SourceList = sources
    SourceSection = section
    FirstAuthor = FirstAuthor
    NoNote = NoNote
    Servers = {s1, s2, s3}
    Inodes = {i1, i2}
    NoFile = NoFile
    MaxKills = 2
INVARIANTS
    LocalTypeOK
    NotesKept
    RegistryNamesTheNotes
    ReadsShowTheRows
    ServingMeansReachable
PROPERTIES
    SuccessMeansMoved
    IssuedOnce
    NotesChangeAsAsked
CHECK_DEADLOCK FALSE
