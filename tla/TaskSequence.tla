---------------------------- MODULE TaskSequence ----------------------------
(***************************************************************************)
(* How task numbers are given out.  The project row counts the numbers     *)
(* issued; it starts without a value, and the first creator seeds it from  *)
(* the files it finds.  The statements of the registry are atomic, and     *)
(* nothing else is: creators, whole servers and people who add and remove  *)
(* task files interleave freely.                                           *)
(***************************************************************************)
EXTENDS Naturals

CONSTANTS
    Creators,       \* the creations of one project
    MaxTaskNumber,  \* the highest number a task can have, 9999 in the code
    Unseeded,       \* last_task_number IS NULL
    MaxFileChanges, \* how often people add or remove a task file
    MaxCreationFailures     \* how often the registry, the disk or the process fails

ASSUME MaxTaskNumberAssumption == MaxTaskNumber \in Nat
ASSUME UnseededAssumption == Unseeded \notin Nat
ASSUME SequenceBoundsAssumption == MaxFileChanges \in Nat /\ MaxCreationFailures \in Nat

Numbers == 1 .. MaxTaskNumber

VARIABLES
    lastNumber,      \* projects.last_task_number
    named,    \* the numbers whose own file, such as FOO-0007.md, exists
    authored, \* the numbers that files with names of their own declare
    creation,     \* how far each creator is
    highest,  \* the highest number each creator found in the directory
    held,     \* the number each creator reserved, or 0
    fileChanges,
    creationFailures,
    issued,   \* history: all numbers ever reserved
    scanned,  \* history: the numbers each creator found in the directory
    known     \* history: the numbers found by the scans that seeded the row

registry == <<lastNumber, issued, known>>
files == <<named, authored>>
creators == <<creation, highest, held, scanned>>
sequenceVars == <<registry, files, creators, fileChanges, creationFailures>>

CreationSteps == {"idle", "reserving", "scanning", "seeding", "retrying", "inserting", "done"}

SequenceTypeOK ==
    /\ lastNumber \in 0 .. MaxTaskNumber \cup {Unseeded}
    /\ named \subseteq Numbers
    /\ authored \subseteq Numbers
    /\ creation \in [Creators -> CreationSteps]
    /\ highest \in [Creators -> 0 .. MaxTaskNumber]
    /\ held \in [Creators -> 0 .. MaxTaskNumber]
    /\ fileChanges \in 0 .. MaxFileChanges
    /\ creationFailures \in 0 .. MaxCreationFailures
    /\ issued \subseteq Numbers
    /\ scanned \in [Creators -> SUBSET Numbers]
    /\ known \subseteq Numbers

\* A project that was just registered over a directory of task files.
SequenceInit ==
    /\ lastNumber = Unseeded
    /\ named \in SUBSET Numbers
    /\ authored \in SUBSET Numbers
    /\ named \cap authored = {}
    /\ creation = [c \in Creators |-> "idle"]
    /\ highest = [c \in Creators |-> 0]
    /\ held = [c \in Creators |-> 0]
    /\ fileChanges = 0
    /\ creationFailures = 0
    /\ issued = {}
    /\ scanned = [c \in Creators |-> {}]
    /\ known = {}

-----------------------------------------------------------------------------
Proceed(c, s) == creation' = [creation EXCEPT ![c] = s]

\* The creation ends and forgets the number it held.
Finish(c) ==
    /\ Proceed(c, "done")
    /\ held' = [held EXCEPT ![c] = 0]

Start(c) ==
    /\ creation[c] = "idle"
    /\ Proceed(c, "reserving")
    /\ UNCHANGED <<registry, files, highest, held, scanned, fileChanges, creationFailures>>

\* The UPDATE of the row gives out the next number; it changes nothing when the
\* row is at the limit, or has no value and must be seeded first.
Reserve(c) ==
    /\ creation[c] \in {"reserving", "retrying"}
    /\ \/ /\ lastNumber # Unseeded
          /\ lastNumber < MaxTaskNumber
          /\ lastNumber' = lastNumber + 1
          /\ held' = [held EXCEPT ![c] = lastNumber + 1]
          /\ issued' = issued \cup {lastNumber + 1}
          /\ Proceed(c, "inserting")
       \/ /\ lastNumber = Unseeded
          /\ creation[c] = "reserving"
          /\ Proceed(c, "scanning")
          /\ UNCHANGED <<lastNumber, held, issued>>
       \/ /\ lastNumber = MaxTaskNumber \/ (lastNumber = Unseeded /\ creation[c] = "retrying")
          /\ Finish(c)
          /\ UNCHANGED <<lastNumber, issued>>
    /\ UNCHANGED <<files, highest, scanned, known, fileChanges, creationFailures>>

IsHighest(number, numbers) ==
    /\ \A other \in numbers : other <= number
    /\ number \in numbers \/ (numbers = {} /\ number = 0)

\* The directory is scanned; two files that declare one number fail the scan.
Scan(c) ==
    /\ creation[c] = "scanning"
    /\ IF named \cap authored = {}
       THEN /\ \E number \in 0 .. MaxTaskNumber :
                 /\ IsHighest(number, named \cup authored)
                 /\ highest' = [highest EXCEPT ![c] = number]
            /\ scanned' = [scanned EXCEPT ![c] = named \cup authored]
            /\ Proceed(c, "seeding")
            /\ UNCHANGED held
       ELSE Finish(c) /\ UNCHANGED <<highest, scanned>>
    /\ UNCHANGED <<registry, files, fileChanges, creationFailures>>

\* Mutant: the row is set to what the scan found.
AdvancedTo(number) == number

\* MAX(COALESCE(last_task_number, 0), ?)
Advanced(number) ==
    IF lastNumber = Unseeded \/ lastNumber < number THEN number ELSE lastNumber

Advance(c) ==
    /\ creation[c] = "seeding"
    /\ lastNumber' = Advanced(highest[c])
    /\ known' = known \cup scanned[c]
    /\ Proceed(c, "retrying")
    /\ UNCHANGED <<issued, files, highest, held, scanned, fileChanges, creationFailures>>

\* The note is written to its own file, unless that exists.
Insert(c) ==
    /\ creation[c] = "inserting"
    /\ named' = named \cup {held[c]}
    /\ Finish(c)
    /\ UNCHANGED <<registry, authored, highest, scanned, fileChanges, creationFailures>>

\* A statement, a scan or the write fails: the creation reports it.
CreationFails(c) ==
    /\ creation[c] \notin {"idle", "done"}
    /\ creationFailures < MaxCreationFailures
    /\ creationFailures' = creationFailures + 1
    /\ Finish(c)
    /\ UNCHANGED <<registry, files, highest, scanned, fileChanges>>

\* The process dies: the row and the files stay.
SequenceCrash ==
    /\ creationFailures < MaxCreationFailures
    /\ creationFailures' = creationFailures + 1
    /\ creation' = [c \in Creators |-> IF creation[c] = "idle" THEN "idle" ELSE "done"]
    /\ held' = [c \in Creators |-> 0]
    /\ UNCHANGED <<registry, files, highest, scanned, fileChanges>>

\* A task is removed by a command, or somebody removes or adds a task file.
RemoveFile(number) ==
    /\ fileChanges < MaxFileChanges
    /\ number \in named \cup authored
    /\ fileChanges' = fileChanges + 1
    /\ named' = named \ {number}
    /\ authored' = authored \ {number}
    /\ UNCHANGED <<registry, creators, creationFailures>>

AddFile(number) ==
    /\ fileChanges < MaxFileChanges
    /\ fileChanges' = fileChanges + 1
    /\ authored' = authored \cup {number}
    /\ UNCHANGED <<registry, named, creators, creationFailures>>

SequenceNext ==
    \/ \E c \in Creators :
         Start(c) \/ Reserve(c) \/ Scan(c) \/ Advance(c) \/ Insert(c) \/ CreationFails(c)
    \/ \E number \in Numbers : RemoveFile(number) \/ AddFile(number)
    \/ SequenceCrash

SequenceSpec == SequenceInit /\ [][SequenceNext]_sequenceVars

-----------------------------------------------------------------------------
\* A number that is given out was never given out before, whatever became of
\* its task, and none of the files that seeded the row declared it
\* (task_sequence.rs reserve and advance).
IssuedOnce ==
    [][\A c \in Creators : held'[c] \notin {0, held[c]} =>
         held'[c] \notin issued \cup known]_sequenceVars

\* No two creations write the same file.
NumbersNotShared ==
    \A c, d \in Creators : held[c] = held[d] /\ held[c] # 0 => c = d

\* The retry after the row was seeded finds a value: the error that the
\* sequence was not initialized cannot happen (add_task.rs allocate_task_id).
SeededBeforeRetry ==
    \A c \in Creators : creation[c] = "retrying" => lastNumber # Unseeded

=============================================================================
