--------------------------- MODULE ProjectSnapshots ---------------------------
(***************************************************************************)
(* The server's snapshot worker.  In rounds it lists the projects that have *)
(* snapshots enabled and rewrites the index page of each, <directory>.md,  *)
(* from the tasks and then the notes it reads.  Nothing stops anybody from *)
(* changing tasks, notes, pages and projects between those steps, and the  *)
(* server may be shut down, die and be started again.                      *)
(* Tasks and notes are versions: a page shows the versions it was made     *)
(* from.  Tasks are read through the task index, which may keep a version  *)
(* that an editor has replaced until it notices.                           *)
(***************************************************************************)
EXTENDS Naturals, FiniteSets

CONSTANTS
    Projects,
    DefaultTitled,  \* the projects whose title is their directory's name
    Authored,       \* the content of a page that somebody wrote
    Absent,         \* there is no page
    None,           \* no project
    NotIndexed,     \* the task index does not keep the project's tasks
    MaxChanges,     \* how often the world changes
    MaxDisruptions  \* how often the registry fails or the server starts again

ASSUME SnapshotsAssumption ==
    /\ DefaultTitled \subseteq Projects
    /\ None \notin Projects
    /\ Authored \notin [tasks: Nat, notes: Nat] \cup {Absent}
    /\ NotIndexed \notin Nat
    /\ MaxChanges \in Nat
    /\ MaxDisruptions \in Nat

VARIABLES
    enabled,    \* the projects with snapshots enabled
    unreadable, \* the projects with a task or a note that cannot be read
    tasks,      \* the version of each project's tasks
    notes,      \* the version of each project's notes
    page,       \* the page named after each project's directory
    indexed,    \* the tasks of each project that the task index keeps
    at,         \* what the worker does next
    listed,     \* the projects that this round has still to refresh
    current,    \* the project being refreshed
    read,       \* the tasks and notes the refresh read
    observed,   \* the page the refresh found
    server,     \* "serving", "stopping" or "stopped"
    roundTasks, \* history: the tasks the index knew when the round began
    lateWrites, \* history: the refreshes of each project since it was disabled
    changes, disruptions

registry == <<enabled>>
files == <<unreadable, tasks, notes, page, indexed>>
refresh == <<listed, current, read, observed>>
counters == <<changes, disruptions>>
vars == <<registry, files, at, refresh, server, roundTasks, lateWrites, counters>>

Versions == 0 .. MaxChanges
Indexes == [tasks: Versions, notes: Versions]
Pages == Indexes \cup {Authored, Absent}
Nothing == [tasks |-> 0, notes |-> 0]

TypeOK ==
    /\ enabled \subseteq Projects
    /\ unreadable \subseteq Projects
    /\ tasks \in [Projects -> Versions]
    /\ notes \in [Projects -> Versions]
    /\ page \in [Projects -> Pages]
    /\ indexed \in [Projects -> Versions \cup {NotIndexed}]
    /\ at \in {"listing", "choosing", "reading_tasks", "reading_notes",
               "observing", "replacing", "waiting", "stopped"}
    /\ listed \subseteq Projects
    /\ current \in Projects \cup {None}
    /\ current = None <=> at \in {"listing", "choosing", "waiting", "stopped"}
    /\ read \in Indexes
    /\ observed \in Pages
    /\ server \in {"serving", "stopping", "stopped"}
    /\ roundTasks \in [Projects -> Versions]
    /\ lateWrites \in [Projects -> Nat]
    /\ changes \in 0 .. MaxChanges
    /\ disruptions \in 0 .. MaxDisruptions

Init ==
    /\ enabled \in SUBSET Projects
    /\ unreadable = {}
    /\ tasks = [p \in Projects |-> 0]
    /\ notes = [p \in Projects |-> 0]
    /\ \E content \in {Authored, Absent} : page = [p \in Projects |-> content]
    /\ indexed = [p \in Projects |-> NotIndexed]
    /\ at = "listing"
    /\ listed = {}
    /\ current = None
    /\ read = Nothing
    /\ observed = Absent
    /\ server = "serving"
    /\ roundTasks = tasks
    /\ lateWrites = [p \in Projects |-> 0]
    /\ changes = 0
    /\ disruptions = 0

-----------------------------------------------------------------------------
\* What a reader of the task index gets.
Known(p) == IF indexed[p] = NotIndexed THEN tasks[p] ELSE indexed[p]

\* Mutant: a round refreshes the disabled projects as well.
ListEverything ==
    /\ at = "listing"
    /\ server = "serving"
    /\ listed' = Projects
    /\ at' = "choosing"
    /\ roundTasks' = [p \in Projects |-> Known(p)]
    /\ UNCHANGED <<registry, files, current, read, observed, server, lateWrites, counters>>

\* A round lists the projects, paused ones too, that have snapshots enabled.
List ==
    /\ at = "listing"
    /\ server = "serving"
    /\ listed' = enabled
    /\ at' = "choosing"
    /\ roundTasks' = [p \in Projects |-> Known(p)]
    /\ UNCHANGED <<registry, files, current, read, observed, server, lateWrites, counters>>

\* A round that cannot list the projects refreshes none.
ListFails ==
    /\ at = "listing"
    /\ server = "serving"
    /\ disruptions < MaxDisruptions
    /\ disruptions' = disruptions + 1
    /\ at' = "choosing"
    /\ UNCHANGED <<registry, files, refresh, server, roundTasks, lateWrites, changes>>

Take(p) ==
    /\ at = "choosing"
    /\ server = "serving"
    /\ p \in listed
    /\ listed' = listed \ {p}
    /\ current' = p
    /\ at' = "reading_tasks"
    /\ UNCHANGED <<registry, files, read, observed, server, roundTasks, lateWrites, counters>>

\* The round is over: the worker sleeps for a minute.
Rest ==
    /\ at = "choosing"
    /\ listed = {}
    /\ at' = "waiting"
    /\ UNCHANGED <<registry, files, refresh, server, roundTasks, lateWrites, counters>>

Wake ==
    /\ at = "waiting"
    /\ server = "serving"
    /\ at' = "listing"
    /\ UNCHANGED <<registry, files, refresh, server, roundTasks, lateWrites, counters>>

\* Mutant: one project that fails ends the round.
GiveUpTheRound ==
    /\ current' = None
    /\ at' = "waiting"

\* Mutant: the refreshed project is not let go.
GoOnKeepingCurrent ==
    /\ UNCHANGED current
    /\ at' = "choosing"

\* The next project follows, whether this one was refreshed or not.
GoOn ==
    /\ current' = None
    /\ at' = "choosing"

\* Mutant: tasks that were read before are not read again.
ReadTasksOnce ==
    /\ at = "reading_tasks"
    /\ IF current \in unreadable
       THEN GoOn /\ UNCHANGED read
       ELSE /\ read' = IF read.tasks = 0 THEN [read EXCEPT !.tasks = tasks[current]] ELSE read
            /\ at' = "reading_notes"
            /\ UNCHANGED current
    /\ UNCHANGED <<registry, files, listed, observed, server, roundTasks, lateWrites, counters>>

\* The tasks come from the index, or from a scan that it keeps; one task that
\* cannot be read fails the scan and the refresh.
ReadTasks ==
    /\ at = "reading_tasks"
    /\ IF current \in unreadable /\ indexed[current] = NotIndexed
       THEN GoOn /\ UNCHANGED <<read, indexed>>
       ELSE /\ read' = [read EXCEPT !.tasks = Known(current)]
            /\ indexed' = [indexed EXCEPT ![current] = Known(current)]
            /\ at' = "reading_notes"
            /\ UNCHANGED current
    /\ UNCHANGED <<registry, unreadable, tasks, notes, page, listed, observed, server,
                   roundTasks, lateWrites, counters>>

ReadNotes ==
    /\ at = "reading_notes"
    /\ IF current \in unreadable
       THEN GoOn /\ UNCHANGED read
       ELSE /\ read' = [read EXCEPT !.notes = notes[current]]
            /\ at' = "observing"
            /\ UNCHANGED current
    /\ UNCHANGED <<registry, files, listed, observed, server, roundTasks, lateWrites, counters>>

\* The transaction that replaces the page begins with a snapshot of it.
Observe ==
    /\ at = "observing"
    /\ observed' = page[current]
    /\ at' = "replacing"
    /\ UNCHANGED <<registry, files, listed, current, read, server, roundTasks, lateWrites,
                   counters>>

\* The page is replaced unless somebody changed it since.
Replace ==
    /\ at = "replacing"
    /\ IF page[current] = observed
       THEN /\ page' = [page EXCEPT ![current] = read]
            /\ lateWrites' = [lateWrites EXCEPT ![current] = IF current \in enabled
                                                             THEN 0 ELSE @ + 1]
       ELSE UNCHANGED <<page, lateWrites>>
    /\ GoOn
    /\ UNCHANGED <<registry, unreadable, tasks, notes, indexed, listed, read, observed, server,
                   roundTasks, counters>>

\* Mutant: a worker that sleeps does not see the signal.
StopAwake ==
    /\ at \in {"listing", "choosing"}
    /\ server = "stopping"
    /\ at' = "stopped"
    /\ listed' = {}
    /\ UNCHANGED <<registry, files, current, read, observed, server, roundTasks, lateWrites,
                   counters>>

\* The worker looks at the shutdown signal between two refreshes, and while it
\* lists or sleeps; a refresh that has begun is finished.
Stop ==
    /\ at \in {"listing", "choosing", "waiting"}
    /\ server = "stopping"
    /\ at' = "stopped"
    /\ listed' = {}
    /\ UNCHANGED <<registry, files, current, read, observed, server, roundTasks, lateWrites,
                   counters>>

Work ==
    \/ List
    \/ ListFails
    \/ \E p \in Projects : Take(p)
    \/ Rest
    \/ Wake
    \/ ReadTasks
    \/ ReadNotes
    \/ Observe
    \/ Replace
    \/ Stop

-----------------------------------------------------------------------------
Shutdown ==
    /\ server = "serving"
    /\ server' = "stopping"
    /\ UNCHANGED <<registry, files, at, refresh, roundTasks, lateWrites, counters>>

\* The server waits for the worker before it reports that it has stopped.
Stopped ==
    /\ server = "stopping"
    /\ at = "stopped"
    /\ server' = "stopped"
    /\ UNCHANGED <<registry, files, at, refresh, roundTasks, lateWrites, counters>>

Crash ==
    /\ server # "stopped"
    /\ server' = "stopped"
    /\ at' = "stopped"
    /\ listed' = {}
    /\ current' = None
    /\ UNCHANGED <<registry, files, read, observed, roundTasks, lateWrites, counters>>

Start ==
    /\ server = "stopped"
    /\ disruptions < MaxDisruptions
    /\ disruptions' = disruptions + 1
    /\ server' = "serving"
    /\ at' = "listing"
    /\ read' = Nothing
    /\ indexed' = [p \in Projects |-> NotIndexed]
    /\ UNCHANGED <<registry, unreadable, tasks, notes, page, listed, current, observed,
                   roundTasks, lateWrites, changes>>

\* A file event, or the age of the scan: the index lets the tasks go.
Notice(p) ==
    /\ indexed[p] # NotIndexed
    /\ indexed' = [indexed EXCEPT ![p] = NotIndexed]
    /\ UNCHANGED <<registry, unreadable, tasks, notes, page, at, refresh, server, roundTasks,
                   lateWrites, counters>>

\* update_project; requests in progress are still answered during a shutdown.
SetEnabled(p) ==
    /\ server # "stopped"
    /\ enabled' = IF p \in enabled THEN enabled \ {p} ELSE enabled \cup {p}
    /\ lateWrites' = [lateWrites EXCEPT ![p] = 0]
    /\ UNCHANGED files

\* A command or an editor changes the tasks or the notes, breaks a file or
\* mends it, or writes the page; commands tell the index.
EditFiles(p) ==
    /\ \/ /\ tasks' = [tasks EXCEPT ![p] = @ + 1]
          /\ indexed' \in {indexed, [indexed EXCEPT ![p] = NotIndexed]}
          /\ UNCHANGED <<notes, unreadable, page>>
       \/ notes' = [notes EXCEPT ![p] = @ + 1] /\ UNCHANGED <<tasks, unreadable, page, indexed>>
       \/ /\ unreadable' = IF p \in unreadable THEN unreadable \ {p} ELSE unreadable \cup {p}
          /\ UNCHANGED <<tasks, notes, page, indexed>>
       \/ /\ page' = [page EXCEPT ![p] = Authored]
          /\ UNCHANGED <<tasks, notes, unreadable, indexed>>
    /\ UNCHANGED <<registry, lateWrites>>

Change ==
    /\ changes < MaxChanges
    /\ changes' = changes + 1
    /\ \E p \in Projects : SetEnabled(p) \/ EditFiles(p)
    /\ UNCHANGED <<at, refresh, server, roundTasks, disruptions>>

Next ==
    \/ Work
    \/ Shutdown
    \/ Stopped
    \/ Crash
    \/ Start
    \/ \E p \in Projects : Notice(p)
    \/ Change

Spec ==
    /\ Init /\ [][Next]_vars
    /\ WF_vars(Work) /\ WF_vars(Stopped)
    /\ \A p \in Projects : WF_vars(Notice(p))

-----------------------------------------------------------------------------
\* Disabling snapshots leaves the generated page in place: a refresh that was
\* already listed may still come, but never a second one.
OneLateRefreshAtMost == \A p \in Projects : lateWrites[p] <= 1

\* A refresh shows the tasks as they were at a moment not before its round
\* began, as far as the index knew: what it read is never left over from
\* another round or another project.  After the server reported that it
\* stopped nothing is written.
RefreshShowsTheRound ==
    [][\A p \in Projects : page'[p] # page[p] /\ page'[p] \in Indexes =>
         /\ page'[p].tasks \in roundTasks[p] .. tasks[p]
         /\ server # "stopped"]_vars

\* If the server goes on serving, the page of an enabled project that can be
\* read catches up with its tasks and notes, whatever other projects do.
PagesCatchUp ==
    \A p \in Projects :
        <>[](server = "serving" /\ p \in enabled /\ p \notin unreadable) =>
        <>[](page[p] = [tasks |-> tasks[p], notes |-> notes[p]])

\* A shutdown ends, whatever the worker is doing.
ShutdownEnds == server = "stopping" ~> server = "stopped"

\* What the wiki promises: the page named after the project's title stays its
\* author's.
AuthoredPagesKept ==
    [][\A p \in DefaultTitled : page[p] = Authored => page'[p] = Authored]_vars

=============================================================================
