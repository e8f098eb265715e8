---------------------------- MODULE ProjectRename ----------------------------
(***************************************************************************)
(* Renaming a project moves its task directory and its registry row, which *)
(* no transaction covers together.  The directory is copied to a staging   *)
(* directory, the row is changed if it still is what was read, the source  *)
(* moves to a backup, the staging directory moves to the destination, and  *)
(* the backup goes.  A failure after the row changed changes it back.      *)
(* Task commands and other project commands run at the same time: renames  *)
(* take no lock.                                                           *)
(***************************************************************************)
EXTENDS Naturals, FiniteSets

CONSTANTS
    Renamers,      \* the rename commands of one project
    Writers,       \* the task commands that store one new note each
    FirstNotes,    \* the notes of the project at the beginning
    Source, Destinations, Staging, Backup,  \* the directories
    Absent,        \* no directory is there
    MaxUpdates,    \* how often other commands change the project row
    MaxFailures,   \* how often the file system or the registry fails
    MaxInterrupts  \* how often a rename is cancelled or the process dies

ASSUME DirectoriesAssumption ==
    /\ Source \notin Destinations
    /\ Staging \notin Destinations \cup {Source}
    /\ Backup \notin Destinations \cup {Source, Staging}
    /\ Renamers \cap Writers = {}
    /\ FirstNotes \cap Writers = {}

ASSUME BoundsAssumption ==
    MaxUpdates \in Nat /\ MaxFailures \in Nat /\ MaxInterrupts \in Nat

Homes == Destinations \cup {Source}
Places == Homes \cup {Staging, Backup}
Notes == FirstNotes \cup Writers

ASSUME AbsentAssumption ==
    Absent \notin Homes /\ \A notes \in SUBSET Notes : notes # Absent

VARIABLES
    dir,       \* the notes in each directory
    row,       \* where the registry has the project, and its other fields
    step,      \* how far each rename is
    target,    \* where each rename moves the project
    seen,      \* the row each rename read, and then the one it wrote
    listing,   \* the notes each rename found in the source directory
    path,      \* the directory each writer resolved; Absent before and after
    stored,    \* the writers whose command is over
    updates, failures, interrupts,
    saved,     \* history: the notes the program stored
    late,      \* history: the notes stored behind the back of a rename
    broken     \* history: a failure left the project in pieces and said so

world == <<dir, row>>
rename == <<step, target, seen, listing>>
writing == <<path, stored, saved, late>>
counters == <<updates, failures, interrupts>>
vars == <<world, rename, writing, counters, broken>>

Contents == (SUBSET Notes) \cup {Absent}
Rows == [home: Homes, fields: 0 .. MaxUpdates]

Ended == {"renamed", "backup retained", "refused", "rolled back", "interrupted"}
NotListed == {"idle", "checking", "creating"}
Steps == NotListed \cup Ended \cup {"copying", "cleaning", "updating", "discarding",
          "committing", "moving", "installing", "restoring", "cleaning restored",
          "removing backup", "rolling back"}

OwningStaging == {"copying", "cleaning", "updating", "discarding", "committing", "moving",
                  "installing", "restoring", "cleaning restored"}

TypeOK ==
    /\ dir \in [Places -> Contents]
    /\ row \in Rows
    /\ step \in [Renamers -> Steps]
    /\ target \in [Renamers -> Destinations]
    /\ seen \in [Renamers -> Rows]
    /\ listing \in [Renamers -> SUBSET Notes]
    /\ path \in [Writers -> (Homes \cup {Absent})]
    /\ stored \subseteq Writers
    /\ updates \in 0 .. MaxUpdates
    /\ failures \in 0 .. MaxFailures
    /\ interrupts \in 0 .. MaxInterrupts
    /\ saved \subseteq Notes
    /\ late \subseteq saved
    /\ broken \in BOOLEAN

Init ==
    /\ dir = [place \in Places |-> IF place = Source THEN FirstNotes ELSE Absent]
    /\ row = [home |-> Source, fields |-> 0]
    /\ step = [r \in Renamers |-> "idle"]
    /\ target \in [Renamers -> Destinations]
    /\ seen = [r \in Renamers |-> row]
    /\ listing = [r \in Renamers |-> {}]
    /\ path = [w \in Writers |-> Absent]
    /\ stored = {}
    /\ updates = 0
    /\ failures = 0
    /\ interrupts = 0
    /\ saved = FirstNotes
    /\ late = {}
    /\ broken = FALSE

-----------------------------------------------------------------------------
Exists(place) == dir[place] # Absent

GoTo(r, s) == step' = [step EXCEPT ![r] = s]

At(r, s) == step[r] = s

Moved(from, to) == [dir EXCEPT ![to] = dir[from], ![from] = Absent]

Removed(place) == [dir EXCEPT ![place] = Absent]

\* rename(2) replaces a directory only if it is empty.
Free(place) == dir[place] \in {Absent, {}}

FailureIsPossible == failures < MaxFailures /\ failures' = failures + 1

\* A step goes on as the code means it to, or fails for a reason of its own.
OnFailure(r, s) ==
    /\ FailureIsPossible
    /\ GoTo(r, s)
    /\ UNCHANGED <<world, target, seen, listing, writing, updates, interrupts, broken>>

\* get_project, and the paths that the rename works on.
Read(r) ==
    /\ At(r, "idle")
    /\ row.home = Source
    /\ seen' = [seen EXCEPT ![r] = row]
    /\ GoTo(r, "checking")
    /\ UNCHANGED <<world, target, listing, writing, counters, broken>>

\* Nothing may be at the destination, at the staging and at the backup path,
\* and a directory must be at the source.
Check(r) ==
    /\ At(r, "checking")
    /\ IF ~Exists(target[r]) /\ ~Exists(Staging) /\ ~Exists(Backup) /\ Exists(Source)
       THEN GoTo(r, "creating")
       ELSE GoTo(r, "refused")
    /\ UNCHANGED <<world, target, seen, listing, writing, counters, broken>>

\* Mutant: a staging directory that is there already is used as well.
ShareStaging(r) ==
    /\ At(r, "creating")
    /\ Exists(Source)
    /\ dir' = [dir EXCEPT ![Staging] = IF @ = Absent THEN {} ELSE @]
    /\ listing' = [listing EXCEPT ![r] = dir[Source]]
    /\ GoTo(r, "copying")
    /\ UNCHANGED <<row, target, seen, writing, counters, broken>>

\* Creating the staging directory fails if another rename came first; from here
\* on it belongs to this rename.  The source is listed.
CreateStaging(r) ==
    /\ At(r, "creating")
    /\ IF Exists(Staging)
       THEN GoTo(r, "refused") /\ UNCHANGED <<dir, listing>>
       ELSE /\ dir' = [dir EXCEPT ![Staging] = {}]
            /\ listing' = [listing EXCEPT ![r] = IF Exists(Source) THEN dir[Source] ELSE {}]
            /\ GoTo(r, IF Exists(Source) THEN "copying" ELSE "cleaning")
    /\ UNCHANGED <<row, target, seen, writing, counters, broken>>

\* One note is copied; one that is gone fails the copy.
CopyNote(r, note) ==
    /\ At(r, "copying")
    /\ note \in listing[r] \ dir[Staging]
    /\ IF Exists(Source) /\ note \in dir[Source]
       THEN dir' = [dir EXCEPT ![Staging] = @ \cup {note}] /\ UNCHANGED step
       ELSE GoTo(r, "cleaning") /\ UNCHANGED dir
    /\ UNCHANGED <<row, target, seen, listing, writing, counters, broken>>

\* Mutant: the copies are taken to be complete before they are.
RewriteEarly(r) ==
    /\ At(r, "copying")
    /\ GoTo(r, "updating")
    /\ UNCHANGED <<world, target, seen, listing, writing, counters, broken>>

\* The copies carry the new identity.
Rewrite(r) ==
    /\ At(r, "copying")
    /\ listing[r] \subseteq dir[Staging]
    /\ GoTo(r, "updating")
    /\ UNCHANGED <<world, target, seen, listing, writing, counters, broken>>

\* A rename that fails before the row changed removes its staging directory.
RemoveStaging(r) ==
    /\ step[r] \in {"cleaning", "discarding"}
    /\ dir' = Removed(Staging)
    /\ GoTo(r, "refused")
    /\ UNCHANGED <<row, target, seen, listing, writing, counters, broken>>

\* The row is changed in one transaction, if it still is the one that was read.
UpdateRow(r) ==
    /\ At(r, "updating")
    /\ IF row = seen[r]
       THEN /\ row' = [row EXCEPT !.home = target[r]]
            /\ seen' = [seen EXCEPT ![r] = row']
            /\ GoTo(r, "committing")
       ELSE GoTo(r, "discarding") /\ UNCHANGED <<row, seen>>
    /\ UNCHANGED <<dir, target, listing, writing, counters, broken>>

\* The destination and the backup path must still be free; if not, the staging
\* directory stays behind.
CheckAgain(r) ==
    /\ At(r, "committing")
    /\ GoTo(r, IF Exists(target[r]) \/ Exists(Backup) THEN "rolling back" ELSE "moving")
    /\ UNCHANGED <<world, target, seen, listing, writing, counters, broken>>

\* The source moves to the backup; if it is gone, the staging directory goes.
MoveSource(r) ==
    /\ At(r, "moving")
    /\ IF Exists(Source) /\ Free(Backup)
       THEN dir' = Moved(Source, Backup) /\ GoTo(r, "installing")
       ELSE dir' = Removed(Staging) /\ GoTo(r, "rolling back")
    /\ UNCHANGED <<row, target, seen, listing, writing, counters, broken>>

\* Mutant: the destination is not installed before the backup goes.
InstallNothing(r) ==
    /\ At(r, "installing")
    /\ GoTo(r, IF Free(target[r]) THEN "removing backup" ELSE "restoring")
    /\ UNCHANGED <<world, target, seen, listing, writing, counters, broken>>

\* The staging directory becomes the destination.
Install(r) ==
    /\ At(r, "installing")
    /\ IF Free(target[r])
       THEN dir' = Moved(Staging, target[r]) /\ GoTo(r, "removing backup")
       ELSE GoTo(r, "restoring") /\ UNCHANGED dir
    /\ UNCHANGED <<row, target, seen, listing, writing, counters, broken>>

RemoveBackup(r) ==
    /\ At(r, "removing backup")
    /\ dir' = Removed(Backup)
    /\ GoTo(r, "renamed")
    /\ UNCHANGED <<row, target, seen, listing, writing, counters, broken>>

\* The backup moves back; a directory that somebody made at the source in the
\* meantime keeps it where it is, and the error names both places.
RestoreSource(r) ==
    /\ At(r, "restoring")
    /\ IF Free(Source)
       THEN dir' = Moved(Backup, Source) /\ GoTo(r, "cleaning restored") /\ UNCHANGED broken
       ELSE broken' = TRUE /\ GoTo(r, "rolling back") /\ UNCHANGED dir
    /\ UNCHANGED <<row, target, seen, listing, writing, counters>>

RemoveRestoredStaging(r) ==
    /\ At(r, "cleaning restored")
    /\ dir' = Removed(Staging)
    /\ GoTo(r, "rolling back")
    /\ UNCHANGED <<row, target, seen, listing, writing, counters, broken>>

\* Mutant: the row stays renamed after the files could not be committed.
KeepRow(r) ==
    /\ At(r, "rolling back")
    /\ GoTo(r, "rolled back")
    /\ UNCHANGED <<world, target, seen, listing, writing, counters, broken>>

\* The row is changed back, if it still is what this rename wrote; otherwise the
\* error says that the rollback failed.
RollBackRow(r) ==
    /\ At(r, "rolling back")
    /\ IF row = seen[r]
       THEN row' = [row EXCEPT !.home = Source] /\ UNCHANGED broken
       ELSE broken' = TRUE /\ UNCHANGED row
    /\ GoTo(r, "rolled back")
    /\ UNCHANGED <<dir, target, seen, listing, writing, counters>>

\* The file system or the registry fails a step.
Fail(r) ==
    \/ step[r] \in {"checking", "creating"} /\ OnFailure(r, "refused")
    \/ At(r, "copying") /\ OnFailure(r, "cleaning")
    \/ At(r, "updating") /\ OnFailure(r, "discarding")
    \/ step[r] \in {"cleaning", "discarding"} /\ OnFailure(r, "refused")
    \/ step[r] \in {"committing", "cleaning restored"} /\ OnFailure(r, "rolling back")
    \/ At(r, "installing") /\ OnFailure(r, "restoring")
    \/ At(r, "removing backup") /\ OnFailure(r, "backup retained")
    \/ /\ At(r, "moving")
       /\ FailureIsPossible
       /\ dir' \in {dir, Removed(Staging)}
       /\ GoTo(r, "rolling back")
       /\ UNCHANGED <<row, target, seen, listing, writing, updates, interrupts, broken>>
    \/ /\ At(r, "restoring") \/ At(r, "rolling back")
       /\ FailureIsPossible
       /\ broken' = TRUE
       /\ GoTo(r, IF At(r, "restoring") THEN "rolling back" ELSE "rolled back")
       /\ UNCHANGED <<world, target, seen, listing, writing, updates, interrupts>>

\* The client goes away while the registry works: the future of the handler is
\* dropped, and nothing removes the staging directory.
Cancel(r) ==
    /\ interrupts < MaxInterrupts
    /\ interrupts' = interrupts + 1
    /\ \/ step[r] \in {"updating", "rolling back"} /\ UNCHANGED row
       \/ At(r, "updating") /\ row = seen[r] /\ row' = [row EXCEPT !.home = target[r]]
       \/ At(r, "rolling back") /\ row = seen[r] /\ row' = [row EXCEPT !.home = Source]
    /\ GoTo(r, "interrupted")
    /\ broken' = TRUE
    /\ UNCHANGED <<dir, target, seen, listing, writing, updates, failures>>

\* The process dies in the middle of everything.
Crash ==
    /\ interrupts < MaxInterrupts
    /\ interrupts' = interrupts + 1
    /\ step' = [r \in Renamers |->
                  IF step[r] \in {"idle"} \cup Ended THEN step[r] ELSE "interrupted"]
    /\ stored' = {w \in Writers : path[w] # Absent} \cup stored
    /\ path' = [w \in Writers |-> Absent]
    /\ broken' = (broken \/ step' # step)
    /\ UNCHANGED <<world, target, seen, listing, updates, failures, saved, late>>

-----------------------------------------------------------------------------
\* A task command looks the project up and then stores its note; creating the
\* note creates the directory too.
Resolve(w) ==
    /\ w \notin stored
    /\ path[w] = Absent
    /\ path' = [path EXCEPT ![w] = row.home]
    /\ UNCHANGED <<world, rename, counters, stored, saved, late, broken>>

StoreNote(w) ==
    /\ path[w] # Absent
    /\ dir' = [dir EXCEPT ![path[w]] = IF @ = Absent THEN {w} ELSE @ \cup {w}]
    /\ saved' = saved \cup {w}
    /\ late' = IF path[w] = row.home /\ \A r \in Renamers : step[r] \in NotListed \cup Ended
               THEN late ELSE late \cup {w}
    /\ path' = [path EXCEPT ![w] = Absent]
    /\ stored' = stored \cup {w}
    /\ UNCHANGED <<row, rename, counters, broken>>

\* The project is paused, resumed or edited.
UpdateProject ==
    /\ updates < MaxUpdates
    /\ updates' = updates + 1
    /\ row' = [row EXCEPT !.fields = @ + 1]
    /\ UNCHANGED <<dir, rename, writing, failures, interrupts, broken>>

RenameStep(r) ==
    \/ Read(r)
    \/ Check(r)
    \/ CreateStaging(r)
    \/ \E note \in Notes : CopyNote(r, note)
    \/ Rewrite(r)
    \/ RemoveStaging(r)
    \/ UpdateRow(r)
    \/ CheckAgain(r)
    \/ MoveSource(r)
    \/ Install(r)
    \/ RemoveBackup(r)
    \/ RestoreSource(r)
    \/ RemoveRestoredStaging(r)
    \/ RollBackRow(r)
    \/ Fail(r)

Next ==
    \/ \E r \in Renamers : RenameStep(r) \/ Cancel(r)
    \/ \E w \in Writers : Resolve(w) \/ StoreNote(w)
    \/ UpdateProject
    \/ Crash

Spec == Init /\ [][Next]_vars

-----------------------------------------------------------------------------
\* Whatever fails, and whenever the process dies, every note that was
\* there when a rename listed them is still in one of the directories.
NotesKept ==
    \A note \in saved \ late : \E place \in Places : Exists(place) /\ note \in dir[place]

\* The staging directory belongs to one rename from its creation until it is
\* moved or removed: create_dir is all that keeps two renames apart.
StagingOwned ==
    \A r \in Renamers : step[r] \in OwningStaging =>
        /\ Exists(Staging)
        /\ \A other \in Renamers \ {r} : step[other] \notin OwningStaging

\* When no rename runs, the registry names the directory that has the notes,
\* unless an error said otherwise or a rename was interrupted: the row and the
\* files move together or not at all (rename_project.rs execute).
RegistryNamesTheNotes ==
    (\A r \in Renamers : step[r] \in {"idle"} \cup Ended) /\ ~broken =>
        Exists(row.home) /\ saved \ late \subseteq dir[row.home]

\* A rename that reports success has moved the project: its notes are at the
\* destination, the registry says so, and there is no second copy of them.
SuccessMeansMoved ==
    [][\A r \in Renamers : step'[r] = "renamed" /\ step[r] # "renamed" =>
         /\ row.home = target[r]
         /\ dir'[target[r]] # Absent
         /\ saved \ late \subseteq dir'[target[r]]
         /\ dir'[Backup] = Absent
         /\ dir'[Source] = Absent \/ dir'[Source] \subseteq late]_vars

=============================================================================
