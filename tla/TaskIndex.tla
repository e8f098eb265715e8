------------------------------ MODULE TaskIndex ------------------------------
(***************************************************************************)
(* The cache of task metadata.  A read takes the index lock, applies the   *)
(* file events that are old enough, and returns the entry of its directory *)
(* or watches the directory and its parent, scans it, and keeps the scan   *)
(* if no event was observed meanwhile.  Commands write first and           *)
(* invalidate then; editors only cause events, which the operating system  *)
(* delivers when it likes.  A directory's content is a version number.     *)
(***************************************************************************)
EXTENDS Naturals, Sequences, FiniteSets

CONSTANTS
    Directories,
    Parent,         \* the parent of each directory
    MaxDirectories, \* DIRECTORY_COUNT_MAX
    MaxWatches,     \* WATCH_COUNT_MAX
    MaxWrites,      \* how often directories change
    None            \* no entry, no directory

WatchPaths == Directories \cup {Parent[d] : d \in Directories}

ASSUME IndexAssumption ==
    /\ IsFiniteSet(Directories)
    /\ DOMAIN Parent = Directories
    /\ \A d \in Directories : Parent[d] # d
    /\ MaxDirectories \in Nat \ {0}
    /\ MaxWatches \in Nat
    /\ MaxWatches >= 2 * MaxDirectories
    /\ MaxWrites \in Nat
    /\ None \notin Nat \cup WatchPaths

VARIABLES
    version,    \* what each directory holds by now
    dirty,      \* the directories a command wrote and has still to invalidate
    written,    \* the version each of those commands wrote
    writes,     \* how often directories changed
    events,     \* the file events on their way
    generation, \* Changes.generation: the events observed
    ready,      \* Changes.ready_generation: those that reads have to honour
    pending,    \* how long the first other event is waiting, if there is one
    failed,     \* Changes.failed
    entries,    \* the version that the entry of each directory has
    expired,    \* the entries that are older than AGE_MAX
    applied,    \* IndexState.generation
    watches,    \* IndexState.watches: the users of each watched path
    watching,   \* IndexState.watcher is there
    live,       \* the watched paths that still cause events
    reader,     \* the read that holds the index lock
    seen,       \* history: the newest version whose event was observed
    promised,   \* history: the version that the next read must not miss
    returned    \* history: what the last read promised and what it returned

disk == <<version, dirty, written, writes>>
changes == <<events, generation, ready, pending, failed>>
index == <<entries, expired, applied, watches, watching, live>>
history == <<seen, promised, returned>>
vars == <<disk, changes, index, reader, history>>

Versions == 0 .. MaxWrites
Stages == {"idle", "looking_up", "watching_parent", "watching_directory", "checking",
           "scanning", "scanning_uncached", "retaining", "returning"}
Idle == [stage |-> "idle", directory |-> None, before |-> 0, found |-> 0, floor |-> 0]

\* An event tells which directories have which version; after an overflow it
\* tells none, and anything may have changed.
FileEvents == SUBSET (Directories \X Versions)
Rescan == {}

TypeOK ==
    /\ version \in [Directories -> Versions]
    /\ dirty \subseteq Directories
    /\ writes \in Versions
    /\ written \in [Directories -> Versions]
    /\ events \in Seq(FileEvents)
    /\ generation \in Nat
    /\ ready \in 0 .. generation
    /\ pending \in {"none", "young", "old"}
    /\ failed \in BOOLEAN
    /\ entries \in [Directories -> Versions \cup {None}]
    /\ expired \subseteq {d \in Directories : entries[d] # None}
    /\ applied \in Nat
    /\ watches \in [WatchPaths -> Nat]
    /\ watching \in BOOLEAN
    /\ live \subseteq {p \in WatchPaths : watches[p] > 0}
    /\ reader \in [stage: Stages, directory: Directories \cup {None}, before: Nat,
                   found: Versions, floor: Versions]
    /\ seen \in [Directories -> Versions]
    /\ promised \in [Directories -> Versions]
    /\ returned \in [floor: Versions, version: Versions]

Init ==
    /\ version = [d \in Directories |-> 0]
    /\ dirty = {}
    /\ written = [d \in Directories |-> 0]
    /\ writes = 0
    /\ events = <<>>
    /\ generation = 0
    /\ ready = 0
    /\ pending = "none"
    /\ failed = FALSE
    /\ entries = [d \in Directories |-> None]
    /\ expired = {}
    /\ applied = 0
    /\ watches = [p \in WatchPaths |-> 0]
    /\ watching \in BOOLEAN
    /\ live = {}
    /\ reader = Idle
    /\ seen = version
    /\ promised = version
    /\ returned = [floor |-> 0, version |-> 0]

-----------------------------------------------------------------------------
Later(a, b) == IF a < b THEN b ELSE a

Entries == {d \in Directories : entries[d] # None}

GoTo(stage) == reader' = [reader EXCEPT !.stage = stage]

\* The users of a path among the directories of some entries.
Users(path, directories) ==
    Cardinality({d \in directories : d = path}) + Cardinality({d \in directories : Parent[d] = path})

\* The watcher is dropped, with everything it watches.
Disable ==
    /\ entries' = [d \in Directories |-> None]
    /\ expired' = {}
    /\ watches' = [p \in WatchPaths |-> 0]
    /\ watching' = FALSE
    /\ live' = {}

\* Mutant: a removed entry leaves the watch of its parent behind.
RemoveLeavingParent(removed, released) ==
    /\ entries' = [d \in Directories |-> IF d \in removed THEN None ELSE entries[d]]
    /\ expired' = expired \ removed
    /\ watches' = [p \in WatchPaths |->
                     watches[p] - Cardinality({d \in removed \cup released : d = p})]
    /\ live' = {p \in live : watches'[p] > 0}
    /\ UNCHANGED watching

\* Entries go and release their watches, as does a read that keeps no entry; a
\* path nobody uses any more is not watched any more.
RemoveWatched(removed, released) ==
    /\ entries' = [d \in Directories |-> IF d \in removed THEN None ELSE entries[d]]
    /\ expired' = expired \ removed
    /\ watches' = [p \in WatchPaths |-> watches[p] - Users(p, removed) - Users(p, released)]
    /\ live' = {p \in live : watches'[p] > 0}
    /\ UNCHANGED watching

\* A watcher that fails to let a path go is dropped.
Remove(removed, released) ==
    \/ RemoveWatched(removed, released)
    \/ removed \cup released # {} /\ watching /\ Disable

\* current_changes: events that waited for the debounce become ready.
Settle ==
    /\ ready' = IF pending = "old" THEN generation ELSE ready
    /\ pending' = IF pending = "old" THEN "none" ELSE pending
    /\ UNCHANGED <<events, generation, failed>>

\* Mutant: a read takes events for applied that still wait.
TakesAllForApplied == generation

\* The generation that a read applies.
Applies == ready'

\* A read takes the lock; events that are ready empty the whole index.
Begin(d) ==
    /\ reader.stage = "idle"
    /\ IF failed
       THEN /\ Disable
            /\ reader' = [Idle EXCEPT !.stage = "scanning_uncached", !.directory = d,
                                      !.floor = promised[d]]
            /\ UNCHANGED <<changes, applied>>
       ELSE /\ Settle
            /\ applied' = Applies
            /\ Remove(IF applied # ready' THEN Entries ELSE {}, {})
            /\ reader' = [Idle EXCEPT !.stage = "looking_up", !.directory = d,
                                      !.floor = promised[d]]
    /\ UNCHANGED <<disk, history>>

Hit ==
    /\ reader.stage = "looking_up"
    /\ reader.directory \in Entries \ expired
    /\ reader' = [reader EXCEPT !.stage = "returning", !.found = entries[reader.directory]]
    /\ UNCHANGED <<disk, changes, index, history>>

\* An entry past its age goes, and if the index is full another one.
Miss ==
    /\ reader.stage = "looking_up"
    /\ reader.directory \notin Entries \ expired
    /\ LET others == Entries \ {reader.directory}
           own == Entries \cap {reader.directory}
       IN  IF Cardinality(others) = MaxDirectories
           THEN \E oldest \in others : Remove(own \cup {oldest}, {})
           ELSE Remove(own, {})
    /\ GoTo("watching_parent")
    /\ UNCHANGED <<disk, changes, applied, history>>

Watched(users) == {p \in WatchPaths : users[p] > 0}

\* One more user of a path.  A new path must be watched, for which the budget
\* of bytes may drop entries first; a failure drops the watcher.
Watch(path) ==
    \/ /\ watching
       /\ \E dropped \in SUBSET Entries :
            LET left == [p \in WatchPaths |-> watches[p] - Users(p, dropped)]
            IN  /\ watches[path] > 0 => dropped = {}
                /\ watches[path] = 0 => Cardinality(Watched(left)) < MaxWatches
                /\ entries' = [d \in Directories |-> IF d \in dropped THEN None ELSE entries[d]]
                /\ expired' = expired \ dropped
                /\ watches' = [left EXCEPT ![path] = @ + 1]
                /\ live' = {p \in live : left[p] > 0}
                           \cup (IF watches[path] = 0 THEN {path} ELSE {})
       /\ UNCHANGED watching
       /\ GoTo(IF reader.stage = "watching_parent" THEN "watching_directory" ELSE "checking")
    \/ Disable /\ GoTo("scanning_uncached")

\* First the parent is watched and then the directory.
WatchBoth ==
    /\ reader.stage \in {"watching_parent", "watching_directory"}
    /\ Watch(IF reader.stage = "watching_parent" THEN Parent[reader.directory]
             ELSE reader.directory)
    /\ UNCHANGED <<disk, changes, applied, history>>

Check ==
    /\ reader.stage = "checking"
    /\ IF failed
       THEN Disable /\ GoTo("scanning_uncached") /\ UNCHANGED changes
       ELSE /\ Settle
            /\ reader' = [reader EXCEPT !.stage = "scanning", !.before = generation]
            /\ UNCHANGED <<entries, expired, watches, watching, live>>
    /\ UNCHANGED <<disk, applied, history>>

Scan ==
    /\ reader.stage \in {"scanning", "scanning_uncached"}
    /\ reader' = [reader EXCEPT
                    !.stage = IF @ = "scanning" THEN "retaining" ELSE "returning",
                    !.found = version[reader.directory]]
    /\ UNCHANGED <<disk, changes, index, history>>

\* The scan may be kept if no event was observed since it began.
KeepsScan == watching /\ reader.before = generation

\* The scan becomes the entry; to make room for it other entries may go.
RetainScan ==
    /\ reader.stage = "retaining"
    /\ ~failed
    /\ Settle
    /\ KeepsScan
    /\ \E dropped \in SUBSET (Entries \ {reader.directory}) :
         /\ entries' = [d \in Directories |->
                          IF d = reader.directory THEN reader.found
                          ELSE IF d \in dropped THEN None ELSE entries[d]]
         /\ expired' = expired \ dropped
         /\ watches' = [p \in WatchPaths |-> watches[p] - Users(p, dropped)]
         /\ live' = {p \in live : watches'[p] > 0}
    /\ GoTo("returning")
    /\ UNCHANGED <<disk, applied, watching, history>>

\* A scan that failed, is too large or may be outdated is only returned.
DropScan ==
    /\ reader.stage = "retaining"
    /\ IF failed
       THEN Disable /\ UNCHANGED changes
       ELSE Settle /\ Remove({}, IF watching THEN {reader.directory} ELSE {})
    /\ GoTo("returning")
    /\ UNCHANGED <<disk, applied, history>>

\* The lock is released with the result.
Return ==
    /\ reader.stage = "returning"
    /\ returned' = [floor |-> reader.floor, version |-> reader.found]
    /\ reader' = Idle
    /\ UNCHANGED <<disk, changes, index, seen, promised>>

\* After its write a command takes the lock and removes the entry.
Invalidate(d) ==
    /\ reader.stage = "idle"
    /\ d \in dirty
    /\ Remove({d} \cap Entries, {})
    /\ dirty' = dirty \ {d}
    /\ promised' = [promised EXCEPT ![d] = Later(@, written[d])]
    /\ UNCHANGED <<version, written, writes, changes, applied, reader, seen, returned>>

Read ==
    \/ \E d \in Directories : Begin(d)
    \/ Hit
    \/ Miss
    \/ WatchBoth
    \/ Check
    \/ Scan
    \/ RetainScan
    \/ DropScan
    \/ Return

-----------------------------------------------------------------------------
\* New versions of some directories, of which the watched ones of the tellers tell.
Write(directories, tellers) ==
    /\ writes < MaxWrites
    /\ writes' = writes + 1
    /\ version' = [d \in Directories |-> IF d \in directories THEN version[d] + 1 ELSE version[d]]
    /\ events' = IF tellers \cap live = {} THEN events
                 ELSE Append(events, {<<d, version'[d]>> : d \in directories})

\* A command writes a task; another one waits for the mutation lock.
OwnWrite(d) ==
    /\ dirty = {}
    /\ Write({d}, {d})
    /\ dirty' = {d}
    /\ written' = [written EXCEPT ![d] = version'[d]]
    /\ UNCHANGED <<generation, ready, pending, failed, index, reader, history>>

EditorWrite(d) ==
    /\ Write({d}, {d})
    /\ UNCHANGED <<dirty, written, generation, ready, pending, failed, index, reader, history>>

\* A directory is replaced by another one, with those inside it: its own watch
\* tells or its parent's, and the watches in it are lost.  What is replaced
\* above a watched parent nobody tells; only the age of the entry ends that.
ReplaceDirectory(d) ==
    LET inside == {d} \cup {other \in Directories : Parent[other] = d}
    IN  /\ Write(inside, {d, Parent[d]})
        /\ live' = live \ inside
        /\ UNCHANGED <<dirty, written, generation, ready, pending, failed, entries, expired,
                       applied, watches, watching, reader, history>>

\* The operating system loses events and says so.
Overflow ==
    /\ \E i \in 1 .. Len(events) : events[i] # Rescan
    /\ events' = <<Rescan>>
    /\ UNCHANGED <<disk, generation, ready, pending, failed, index, reader, history>>

\* Mutant: every event starts the debounce again.
DebounceAgain(waiting) == "young"

\* The debounce runs from the first event of a batch.
Debounce(waiting) == IF waiting = "none" THEN "young" ELSE waiting

\* Everything that was observed has to be honoured by the next read.
PromiseSeen == promised' = [d \in Directories |-> Later(promised[d], seen'[d])]

Observe ==
    /\ events # <<>>
    /\ events' = Tail(events)
    /\ generation' = generation + 1
    /\ IF Head(events) = Rescan
       THEN /\ ready' = generation'
            /\ pending' = "none"
            /\ UNCHANGED seen
            /\ PromiseSeen
       ELSE /\ seen' = [d \in Directories |->
                          IF \E v \in Versions : <<d, v>> \in Head(events) /\ v > seen[d]
                          THEN CHOOSE v \in Versions : <<d, v>> \in Head(events)
                          ELSE seen[d]]
            /\ pending' = Debounce(pending)
            /\ UNCHANGED ready
            /\ IF pending = "old" THEN PromiseSeen ELSE UNCHANGED promised
    /\ UNCHANGED <<disk, failed, index, reader, returned>>

\* 50 milliseconds have passed since the first event of the batch.
Elapse ==
    /\ pending = "young"
    /\ pending' = "old"
    /\ promised' = [d \in Directories |-> Later(promised[d], seen[d])]
    /\ UNCHANGED <<disk, events, generation, ready, failed, index, reader, seen, returned>>

\* The watcher reports an error instead of an event.
WatcherFails ==
    /\ watching
    /\ ~failed
    /\ failed' = TRUE
    /\ UNCHANGED <<disk, events, generation, ready, pending, index, reader, history>>

\* 60 seconds have passed since the scan.
Age(d) ==
    /\ d \in Entries \ expired
    /\ expired' = expired \cup {d}
    /\ UNCHANGED <<disk, changes, entries, applied, watches, watching, live, reader, history>>

Next ==
    \/ Read
    \/ \E d \in Directories :
         \/ Invalidate(d)
         \/ OwnWrite(d)
         \/ EditorWrite(d)
         \/ ReplaceDirectory(d)
         \/ Age(d)
    \/ Overflow
    \/ Observe
    \/ Elapse
    \/ WatcherFails

Spec == Init /\ [][Next]_vars

-----------------------------------------------------------------------------
\* A read shows at least what was there when it began, of everything a command
\* wrote before and of every event whose batch is older than the debounce
\* (the comments of TaskIndex::read and TaskIndex::invalidate).
ReadsAreFresh == returned.version >= returned.floor

\* No entry is outdated for good: an event is on its way or observed and not
\* yet applied, or a command is about to remove the entry.
OutdatedEntriesGo ==
    \A d \in Entries : entries[d] < version[d] =>
        \/ \E i \in 1 .. Len(events) : events[i] = Rescan \/ \E v \in Versions : <<d, v>> \in events[i]
        \/ generation # applied
        \/ failed
        \/ d \in dirty

\* Between reads every entry has a user at its directory and at its parent, and
\* nothing else is watched; so the table is never full when a path is to be
\* watched, which would end caching for good (task_index.rs watch, remove).
WatchesMatchEntries ==
    /\ reader.stage \in {"idle", "returning"} =>
         \A p \in WatchPaths : watches[p] = Users(p, Entries)
    /\ reader.stage = "watching_parent" =>
         watches[Parent[reader.directory]] > 0 \/ Cardinality(Watched(watches)) < MaxWatches
    /\ reader.stage = "watching_directory" =>
         watches[reader.directory] > 0 \/ Cardinality(Watched(watches)) < MaxWatches

\* The types, with watches that match the entries (task_index.rs watch, remove).
IndexTypeOK == TypeOK /\ WatchesMatchEntries

=============================================================================
