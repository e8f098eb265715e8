---------------------------- MODULE ProjectStore -----------------------------
(***************************************************************************)
(* The registry of projects: rows of a database behind one connection, and *)
(* a bounded cache in front of them.  One mutex covers every operation     *)
(* from its look at the cache to its last statement.  A caller may go away *)
(* at any await: the mutex is then free, a transaction that was not        *)
(* committed rolls back, and a statement that was already sent still runs, *)
(* before those of the next operation.  The order of listings is left out. *)
(***************************************************************************)
EXTENDS Naturals, Sequences, FiniteSets

CONSTANTS
    Ids,         \* numbers, in the order of the project ids
    Titles,
    Paths,
    Location,    \* the directory that each path resolves to
    Size,        \* project_bytes, by title
    MaxProjects, \* PROJECTS_MAX
    MaxBytes,    \* BYTES_MAX
    FirstRows,   \* registries at the beginning
    MaxChanges,  \* how many operations change the registry
    MaxRestarts,
    NoProject, Unlisted

Projects == [title: Titles, path: Paths, paused: BOOLEAN, snapshots: BOOLEAN]
Registries == [Ids -> Projects \cup {NoProject}]

TitlesDiffer(rs) ==
    \A one, other \in Ids :
        (one # other /\ rs[one] # NoProject /\ rs[other] # NoProject) =>
            rs[one].title # rs[other].title

LocationsDiffer(rs) ==
    \A one, other \in Ids :
        (one # other /\ rs[one] # NoProject /\ rs[other] # NoProject) =>
            Location[rs[one].path] # Location[rs[other].path]

ASSUME IdsAssumption == Ids \subseteq Nat /\ IsFiniteSet(Ids)
ASSUME NoProjectAssumption == NoProject \notin Projects
ASSUME UnlistedAssumption == \A ids \in SUBSET Ids : ids # Unlisted
ASSUME SizeAssumption == Size \in [Titles -> Nat] /\ MaxBytes \in Nat /\ MaxProjects \in Nat \ {0}
ASSUME FirstRowsAssumption ==
    FirstRows \subseteq {rs \in Registries : TitlesDiffer(rs) /\ LocationsDiffer(rs)}
ASSUME StoreBoundsAssumption == MaxChanges \in Nat /\ MaxRestarts \in Nat

VARIABLES
    rows,     \* the table
    cache,    \* State.cache
    doing,    \* the operation that holds the mutex
    sent,     \* commands whose callers are gone and whose statements still run
    answer,   \* history: the last answer to a read since the rows changed
    changes, restarts

storeVars == <<rows, cache, doing, sent, answer, changes, restarts>>

Commands ==
    [kind: {"add"}, id: Ids, title: Titles, path: Paths]
    \cup [kind: {"pause", "resume"}, id: Ids]
    \cup [kind: {"update"}, id: Ids, snapshots: BOOLEAN]
    \cup [kind: {"rename"}, id: Ids, to: Ids, title: Titles, path: Paths]

Reads ==
    [kind: {"get"}, ids: {{id} : id \in Ids}, paused: BOOLEAN]
    \cup [kind: {"get_many"}, ids: SUBSET Ids, paused: {TRUE}]
    \cup [kind: {"list"}, ids: {Ids}, paused: BOOLEAN]

Empty == [projects |-> [id \in Ids |-> NoProject], active |-> Unlisted, all |-> Unlisted, bytes |-> 0]

Lists == (SUBSET Ids) \cup {Unlisted}
Caches == [projects: Registries, active: Lists, all: Lists, bytes: Nat]

Idle == [stage |-> "idle"]

Doings ==
    {Idle}
    \cup [stage: {"executing"}, command: Commands]
    \cup [stage: {"querying"}, read: Reads, found: Registries]
    \cup [stage: {"remembering"}, read: Reads, found: Registries, left: SUBSET Ids]

StoreTypeOK ==
    /\ rows \in Registries
    /\ cache \in Caches
    /\ doing \in Doings
    /\ sent \in Seq(Commands)
    /\ answer \in [read: Reads, found: Registries] \cup {NoProject}
    /\ changes \in 0 .. MaxChanges
    /\ restarts \in 0 .. MaxRestarts

\* What a read of a registry finds.
Selected(rs, read) ==
    [id \in Ids |->
        IF id \in read.ids /\ rs[id] # NoProject /\ (read.paused \/ ~rs[id].paused)
        THEN rs[id] ELSE NoProject]

StoreInit ==
    /\ rows \in FirstRows
    /\ cache = Empty
    /\ doing = Idle
    /\ sent = <<>>
    /\ answer = NoProject
    /\ changes = 0
    /\ restarts = 0

-----------------------------------------------------------------------------
(* The cache. *)

Held(c) == {id \in Ids : c.projects[id] # NoProject}

\* A project that does not fit beside the others takes the place of all.
Room(c, bytes) ==
    IF Cardinality(Held(c)) = MaxProjects \/ c.bytes + bytes > MaxBytes THEN Empty ELSE c

Remember(c, id, project) ==
    LET bytes == Size[project.title]
        room == Room(c, bytes)
    IN  IF id \in Held(c) THEN c
        ELSE IF bytes > MaxBytes THEN room
        ELSE [room EXCEPT !.projects[id] = project, !.bytes = @ + bytes]

\* What the views of a listing add for each project.
ViewBytes == 1

ListBytes(found) ==
    LET listed == {id \in Ids : found[id] # NoProject}
        sum[ids \in SUBSET listed] ==
            IF ids = {} THEN 0
            ELSE LET id == CHOOSE id \in ids : TRUE
                 IN  Size[found[id].title] + ViewBytes + sum[ids \ {id}]
    IN  sum[listed]

\* Mutant: a listing of the active projects stands for all of them.
RememberListAsAll(paused, found) ==
    LET listed == {id \in Ids : found[id] # NoProject}
    IN  IF Cardinality(listed) > MaxProjects \/ ListBytes(found) > MaxBytes THEN Empty
        ELSE [projects |-> found, active |-> {id \in listed : ~found[id].paused},
              all |-> listed, bytes |-> ListBytes(found)]

\* A listing replaces what was there; both views come from one with the paused
\* projects.
RememberList(paused, found) ==
    LET listed == {id \in Ids : found[id] # NoProject}
    IN  IF Cardinality(listed) > MaxProjects \/ ListBytes(found) > MaxBytes THEN Empty
        ELSE [projects |-> found, active |-> {id \in listed : ~found[id].paused},
              all |-> IF paused THEN listed ELSE Unlisted, bytes |-> ListBytes(found)]

-----------------------------------------------------------------------------
(* Reads. *)

Answered(read, found) ==
    /\ doing' = Idle
    /\ answer' = [read |-> read, found |-> found]

\* The cached part of the answer, before the filter.
Cached(read) ==
    [id \in Ids |-> IF id \in read.ids THEN cache.projects[id] ELSE NoProject]

View(read) == IF read.paused THEN cache.all ELSE cache.active

\* Whether the cache can answer.
Hit(read) ==
    IF read.kind = "list"
    THEN View(read) # Unlisted /\ \A id \in View(read) : cache.projects[id] # NoProject
    ELSE \A id \in read.ids : cache.projects[id] # NoProject

FromCache(read) ==
    IF read.kind = "list"
    THEN [id \in Ids |-> IF id \in View(read) THEN cache.projects[id] ELSE NoProject]
    ELSE Selected(cache.projects, read)

\* get_project, get_projects and list_projects.
Look(read) ==
    /\ doing = Idle
    /\ IF Hit(read)
       THEN Answered(read, FromCache(read))
       ELSE /\ doing' = [stage |-> "querying", read |-> read, found |-> Cached(read)]
            /\ UNCHANGED answer
    /\ UNCHANGED <<rows, cache, sent, changes, restarts>>

\* What the cache lacked comes from the query, and is left to remember.
Loaded(read, found, loaded) ==
    LET missing == {id \in read.ids : found[id] = NoProject}
    IN  [stage |-> "remembering", read |-> read,
         found |-> [id \in Ids |-> IF id \in missing THEN loaded[id] ELSE found[id]],
         left |-> {id \in missing : loaded[id] # NoProject}]

\* The query runs after everything that was sent before.
Query ==
    /\ doing.stage = "querying"
    /\ sent = <<>>
    /\ LET read == doing.read
           loaded == Selected(rows, read)
       IN  \/ /\ read.kind = "list"
              /\ cache' = RememberList(read.paused, loaded)
              /\ Answered(read, loaded)
           \/ /\ read.kind = "get"
              /\ \E id \in read.ids :
                   cache' = IF loaded[id] = NoProject THEN cache
                            ELSE Remember(cache, id, loaded[id])
              /\ Answered(read, loaded)
           \/ /\ read.kind = "get_many"
              /\ doing' = Loaded(read, doing.found, loaded)
              /\ UNCHANGED <<cache, answer>>
    /\ UNCHANGED <<rows, sent, changes, restarts>>

\* get_projects remembers one project after the other, without an await.
RememberNext ==
    /\ doing.stage = "remembering"
    /\ IF doing.left = {}
       THEN Answered(doing.read, doing.found) /\ UNCHANGED cache
       ELSE \E id \in doing.left :
              /\ \A other \in doing.left : id <= other
              /\ cache' = Remember(cache, id, doing.found[id])
              /\ doing' = [doing EXCEPT !.left = @ \ {id}]
              /\ UNCHANGED answer
    /\ UNCHANGED <<rows, sent, changes, restarts>>

-----------------------------------------------------------------------------
(* Commands. *)

Collides(rs, id, path) ==
    \E other \in Ids \ {id} : rs[other] # NoProject /\ Location[rs[other].path] = Location[path]

TitleTaken(rs, id, title) ==
    \E other \in Ids \ {id} : rs[other] # NoProject /\ rs[other].title = title

CanAdd(rs, c) ==
    rs[c.id] = NoProject /\ ~TitleTaken(rs, c.id, c.title) /\ ~Collides(rs, c.id, c.path)

Added(rs, c) ==
    [rs EXCEPT ![c.id] = [title |-> c.title, path |-> c.path, paused |-> FALSE, snapshots |-> FALSE]]

Paused(rs, c) == [rs EXCEPT ![c.id].paused = TRUE]

CanResume(rs, c) == rs[c.id] # NoProject /\ ~Collides(rs, c.id, rs[c.id].path)

Resumed(rs, c) == [rs EXCEPT ![c.id].paused = FALSE]

Updated(rs, c) == [rs EXCEPT ![c.id].snapshots = c.snapshots]

\* That the project is still the one its caller read is a case of StoreFails.
CanRename(rs, c) ==
    /\ rs[c.id] # NoProject
    /\ c.to # c.id => rs[c.to] = NoProject
    /\ ~TitleTaken(rs, c.id, c.title)
    /\ ~Collides(rs, c.id, c.path)

Renamed(rs, c) ==
    [id \in Ids |-> CASE id = c.to -> [rs[c.id] EXCEPT !.title = c.title, !.path = c.path]
                    [] id # c.to /\ id = c.id -> NoProject
                    [] id # c.to /\ id # c.id -> rs[id]]

\* A command that does not accept the rows fails and changes nothing.
Accepts(rs, c) ==
    CASE c.kind = "add" -> CanAdd(rs, c)
      [] c.kind = "resume" -> CanResume(rs, c)
      [] c.kind = "rename" -> CanRename(rs, c)
      [] c.kind \in {"pause", "update"} -> rs[c.id] # NoProject

Applied(rs, c) ==
    CASE c.kind = "add" -> Added(rs, c)
      [] c.kind = "pause" -> Paused(rs, c)
      [] c.kind = "resume" -> Resumed(rs, c)
      [] c.kind = "update" -> Updated(rs, c)
      [] c.kind = "rename" -> Renamed(rs, c)

Effect(rs, c) == IF Accepts(rs, c) THEN Applied(rs, c) ELSE rs

\* The cache goes before the first statement, whatever becomes of the command.
Begin(c) ==
    /\ doing = Idle
    /\ changes < MaxChanges
    /\ changes' = changes + 1
    /\ cache' = Empty
    /\ doing' = [stage |-> "executing", command |-> c]
    /\ UNCHANGED <<rows, sent, answer, restarts>>

Execute ==
    /\ doing.stage = "executing"
    /\ sent = <<>>
    /\ rows' = Effect(rows, doing.command)
    /\ doing' = Idle
    /\ answer' = NoProject
    /\ UNCHANGED <<cache, sent, changes, restarts>>

\* A command or a query fails.
StoreFails ==
    /\ doing.stage \in {"executing", "querying"}
    /\ doing' = Idle
    /\ UNCHANGED <<rows, cache, sent, answer, changes, restarts>>

\* The caller goes away after the last statement was sent: a command that needs
\* no transaction sends only one.
Abandon ==
    /\ doing.stage = "executing"
    /\ sent # <<>> => doing.command.kind = "update"
    /\ doing' = Idle
    /\ sent' = Append(sent, doing.command)
    /\ UNCHANGED <<rows, cache, answer, changes, restarts>>

\* The thread of the connection gets to a statement nobody waits for.
RunSent ==
    /\ sent # <<>>
    /\ rows' = Effect(rows, Head(sent))
    /\ sent' = Tail(sent)
    /\ answer' = NoProject
    /\ UNCHANGED <<cache, doing, changes, restarts>>

\* The server starts again.
Restart ==
    /\ restarts < MaxRestarts
    /\ restarts' = restarts + 1
    /\ cache' = Empty
    /\ doing' = Idle
    /\ sent' = <<>>
    /\ UNCHANGED <<rows, answer, changes>>

StoreNext ==
    \/ \E read \in Reads : Look(read)
    \/ Query
    \/ RememberNext
    \/ \E c \in Commands : Begin(c)
    \/ Execute
    \/ StoreFails
    \/ Abandon
    \/ RunSent
    \/ Restart

StoreSpec == StoreInit /\ [][StoreNext]_storeVars

-----------------------------------------------------------------------------
\* What a read answers is what the rows say at that moment, from the cache or
\* not, whatever was evicted, abandoned or refused before (project_store.rs,
\* where every command clears the cache before its first statement).
ReadsShowTheRows ==
    answer # NoProject => answer.found = Selected(rows, answer.read)

\* The cache never holds more projects, or more bytes, than it may, whether they
\* came one by one or as a listing (cache.rs remember and remember_list).
CacheBounded == cache.bytes <= MaxBytes /\ Cardinality(Held(cache)) <= MaxProjects

\* No two projects have one title, or resolve to one directory, whichever paths
\* name it (add_project.rs, rename_project.rs, task_location.rs).
ProjectsApart == TitlesDiffer(rows) /\ LocationsDiffer(rows)

=============================================================================
