--------------------------- MODULE LocalDataProofs ---------------------------
(***************************************************************************)
(* What the program keeps on the local disk, for any number of actors and   *)
(* any limits: task numbers are given out once, notes change as asked, the  *)
(* cache in front of the registry is never seen and stays within its        *)
(* bounds, renames of projects lose no note and leave the registry and the  *)
(* files in agreement, and who serves is reached at the socket.             *)
(***************************************************************************)
EXTENDS LocalData, FiniteSetTheorems, WellFoundedInduction, TLAPS

-----------------------------------------------------------------------------
(* Task numbers, for any limit and any history of files and failures. *)

\* The row is at or above everything that was issued or that seeded it.
RowCovers ==
    /\ lastNumber = Unseeded => issued = {} /\ known = {}
    /\ lastNumber # Unseeded => \A number \in issued \cup known : number <= lastNumber

\* The scan of a creator bounds what it found until the row takes it over.
ScansCovered ==
    \A c \in Creators : creation[c] = "seeding" =>
        \A number \in scanned[c] : number <= highest[c]

HeldNumbersIssued ==
    \A c \in Creators :
        /\ held[c] # 0 => held[c] \in issued
        /\ creation[c] = "inserting" => held[c] # 0

SequenceInv ==
    /\ SequenceTypeOK
    /\ RowCovers
    /\ ScansCovered
    /\ HeldNumbersIssued
    /\ NumbersNotShared
    /\ SeededBeforeRetry

\* The number a reservation gives out is above all the others.
LEMMA FreshNumber ==
    ASSUME SequenceInv, lastNumber # Unseeded
    PROVE  /\ lastNumber \in Nat
           /\ lastNumber + 1 \notin issued \cup known
           /\ \A c \in Creators : held[c] # lastNumber + 1
<1>1. lastNumber \in Nat
  BY DEF SequenceInv, SequenceTypeOK
<1>2. \A number \in issued \cup known : number \in Nat /\ number <= lastNumber
  BY DEF SequenceInv, SequenceTypeOK, RowCovers, Numbers
<1>3. lastNumber + 1 \notin issued \cup known
  BY <1>1, <1>2
<1>4. QED
  BY <1>1, <1>3 DEF SequenceInv, HeldNumbersIssued

\* Reservations: the first two cases leave everything but the step alone.
LEMMA ReserveKeepsSequence ==
    ASSUME SequenceInv, NEW c \in Creators, Reserve(c)
    PROVE  SequenceInv'
<1> USE DEF Reserve, Proceed, Finish, Numbers, files
<1>1. CASE lastNumber # Unseeded /\ lastNumber < MaxTaskNumber
  <2>1. lastNumber' = lastNumber + 1 /\ issued' = issued \cup {lastNumber + 1}
        /\ held' = [held EXCEPT ![c] = lastNumber + 1]
        /\ creation' = [creation EXCEPT ![c] = "inserting"]
    BY <1>1, FreshNumber, MaxTaskNumberAssumption
  <2>2. lastNumber \in Nat /\ lastNumber + 1 \in Numbers /\ lastNumber' # Unseeded
    BY <1>1, <2>1, FreshNumber, MaxTaskNumberAssumption, UnseededAssumption
  <2>3. SequenceTypeOK'
    BY <2>1, <2>2 DEF SequenceInv, SequenceTypeOK, CreationSteps
  <2>4. RowCovers'
    BY <1>1, <2>1, <2>2 DEF SequenceInv, SequenceTypeOK, RowCovers
  <2>5. HeldNumbersIssued' /\ ScansCovered'
    BY <2>1 DEF SequenceInv, SequenceTypeOK, HeldNumbersIssued, ScansCovered
  <2>6. NumbersNotShared' /\ SeededBeforeRetry'
    BY <1>1, <2>1, <2>2, FreshNumber DEF SequenceInv, SequenceTypeOK, NumbersNotShared, SeededBeforeRetry
  <2>7. QED
    BY <2>3, <2>4, <2>5, <2>6 DEF SequenceInv
<1>2. CASE ~(lastNumber # Unseeded /\ lastNumber < MaxTaskNumber)
  <2>1. /\ UNCHANGED <<lastNumber, issued, known, named, authored, highest, scanned,
                       fileChanges, creationFailures>>
        /\ held' = held \/ held' = [held EXCEPT ![c] = 0]
        /\ creation' = [creation EXCEPT ![c] = "scanning"] \/ creation' = [creation EXCEPT ![c] = "done"]
    BY <1>2
  <2>2. SequenceTypeOK'
    BY <2>1, MaxTaskNumberAssumption DEF SequenceInv, SequenceTypeOK, CreationSteps
  <2>3. RowCovers' /\ ScansCovered' /\ HeldNumbersIssued'
    BY <2>1 DEF SequenceInv, SequenceTypeOK, RowCovers, ScansCovered, HeldNumbersIssued
  <2>4. NumbersNotShared' /\ SeededBeforeRetry'
    BY <2>1 DEF SequenceInv, SequenceTypeOK, NumbersNotShared, SeededBeforeRetry
  <2>5. QED
    BY <2>2, <2>3, <2>4 DEF SequenceInv
<1>3. QED
  BY <1>1, <1>2

LEMMA ScanKeepsSequence ==
    ASSUME SequenceInv, NEW c \in Creators, Scan(c)
    PROVE  SequenceInv'
<1> USE DEF Scan, Proceed, Finish, registry, files
<1>1. SequenceTypeOK'
  BY MaxTaskNumberAssumption DEF SequenceInv, SequenceTypeOK, CreationSteps
<1>2. ScansCovered'
  BY DEF SequenceInv, SequenceTypeOK, ScansCovered, IsHighest
<1>3. RowCovers' /\ HeldNumbersIssued'
  BY DEF SequenceInv, SequenceTypeOK, RowCovers, HeldNumbersIssued
<1>4. NumbersNotShared' /\ SeededBeforeRetry'
  BY DEF SequenceInv, SequenceTypeOK, NumbersNotShared, SeededBeforeRetry
<1>5. QED
  BY <1>1, <1>2, <1>3, <1>4 DEF SequenceInv

LEMMA AdvanceKeepsSequence ==
    ASSUME SequenceInv, NEW c \in Creators, Advance(c)
    PROVE  SequenceInv'
<1> USE DEF Advance, Proceed, files
<1>1. /\ lastNumber' \in 0 .. MaxTaskNumber
      /\ highest[c] \in 0 .. MaxTaskNumber
      /\ lastNumber' >= highest[c]
      /\ lastNumber # Unseeded => lastNumber \in 0 .. MaxTaskNumber /\ lastNumber' >= lastNumber
      /\ lastNumber' # Unseeded
  BY MaxTaskNumberAssumption, UnseededAssumption DEF SequenceInv, SequenceTypeOK, Advanced
<1>2. SequenceTypeOK'
  BY <1>1 DEF SequenceInv, SequenceTypeOK, CreationSteps
<1>3. RowCovers'
  <2>1. ASSUME NEW number \in issued \cup known
        PROVE  number <= lastNumber'
    BY <1>1, <2>1 DEF SequenceInv, SequenceTypeOK, RowCovers, Numbers
  <2>2. ASSUME NEW number \in scanned[c]
        PROVE  number <= lastNumber'
    BY <1>1, <2>2 DEF SequenceInv, SequenceTypeOK, ScansCovered, Numbers
  <2>3. QED
    BY <1>1, <2>1, <2>2 DEF RowCovers
<1>4. ScansCovered' /\ HeldNumbersIssued' /\ NumbersNotShared'
  BY DEF SequenceInv, SequenceTypeOK, ScansCovered, HeldNumbersIssued, NumbersNotShared
<1>5. SeededBeforeRetry'
  BY <1>1 DEF SeededBeforeRetry
<1>6. QED
  BY <1>2, <1>3, <1>4, <1>5 DEF SequenceInv

\* All other steps leave the registry alone and only drop numbers.
LEMMA OthersKeepSequence ==
    ASSUME SequenceInv, UNCHANGED <<lastNumber, issued, known, highest, scanned>>, SequenceTypeOK',
           \A c \in Creators :
             /\ held'[c] \in {0, held[c]}
             /\ creation'[c] \in {"idle", "reserving", "done", creation[c]}
             /\ creation'[c] = "inserting" => creation[c] = "inserting" /\ held'[c] = held[c]
    PROVE  SequenceInv'
BY DEF SequenceInv, RowCovers, ScansCovered, HeldNumbersIssued, NumbersNotShared, SeededBeforeRetry

LEMMA NextKeepsSequence ==
    ASSUME SequenceInv, [SequenceNext]_sequenceVars
    PROVE  SequenceInv'
<1> USE DEF registry, files, creators
<1>1. CASE UNCHANGED sequenceVars
  BY <1>1, OthersKeepSequence DEF sequenceVars, SequenceInv, SequenceTypeOK
<1>2. ASSUME NEW c \in Creators, Start(c) \/ Insert(c) \/ CreationFails(c)
      PROVE  SequenceInv'
  <2>1. SequenceTypeOK'
    <3>1. CASE Start(c)
      BY <3>1 DEF Start, Proceed, SequenceInv, SequenceTypeOK, CreationSteps
    <3>2. CASE Insert(c)
      <4>1. held[c] \in Numbers
        BY <3>2 DEF Insert, SequenceInv, SequenceTypeOK, HeldNumbersIssued, Numbers
      <4>2. QED
        BY <3>2, <4>1, MaxTaskNumberAssumption DEF Insert, Finish, Proceed, SequenceInv, SequenceTypeOK, CreationSteps
    <3>3. CASE CreationFails(c)
      BY <3>3, MaxTaskNumberAssumption, SequenceBoundsAssumption
         DEF CreationFails, Finish, Proceed, SequenceInv, SequenceTypeOK, CreationSteps
    <3>4. QED
      BY <1>2, <3>1, <3>2, <3>3
  <2>2. QED
    BY <1>2, <2>1, OthersKeepSequence DEF Start, Insert, CreationFails, Finish, Proceed, SequenceInv, SequenceTypeOK
<1>3. CASE SequenceCrash
  <2>1. SequenceTypeOK'
    BY <1>3, MaxTaskNumberAssumption, SequenceBoundsAssumption DEF SequenceCrash, SequenceInv, SequenceTypeOK, CreationSteps
  <2>2. QED
    BY <1>3, <2>1, OthersKeepSequence DEF SequenceCrash, SequenceInv, SequenceTypeOK
<1>4. ASSUME NEW number \in Numbers, RemoveFile(number) \/ AddFile(number)
      PROVE  SequenceInv'
  <2>1. SequenceTypeOK'
    BY <1>4, SequenceBoundsAssumption DEF RemoveFile, AddFile, SequenceInv, SequenceTypeOK
  <2>2. QED
    BY <1>4, <2>1, OthersKeepSequence DEF RemoveFile, AddFile, SequenceInv, SequenceTypeOK
<1>5. QED
  BY <1>1, <1>2, <1>3, <1>4, ReserveKeepsSequence, ScanKeepsSequence, AdvanceKeepsSequence DEF SequenceNext

LEMMA InitSequence == SequenceInit => SequenceInv
<1> SUFFICES ASSUME SequenceInit PROVE SequenceInv
  OBVIOUS
<1>1. SequenceTypeOK
  BY MaxTaskNumberAssumption, SequenceBoundsAssumption DEF SequenceInit, SequenceTypeOK, CreationSteps
<1>2. QED
  BY <1>1 DEF SequenceInit, SequenceInv, RowCovers, ScansCovered, HeldNumbersIssued, NumbersNotShared,
     SeededBeforeRetry

THEOREM SequenceInvariant == SequenceSpec => []SequenceInv
BY InitSequence, NextKeepsSequence, PTL DEF SequenceSpec

\* No two creations ever hold one number, so that no two write one file.
THEOREM HoldersDiffer == SequenceSpec => []NumbersNotShared
BY SequenceInvariant, PTL DEF SequenceInv

\* The sequence never issues a number again, and never one that it was seeded with.
THEOREM NumbersIssuedOnce == SequenceSpec => IssuedOnce
<1>1. ASSUME SequenceInv, [SequenceNext]_sequenceVars, NEW c \in Creators, held'[c] \notin {0, held[c]}
      PROVE  held'[c] \notin issued \cup known
  <2>1. ~UNCHANGED held
    BY <1>1
  <2>2. PICK d \in Creators :
           Start(d) \/ Reserve(d) \/ Scan(d) \/ Advance(d) \/ Insert(d) \/ CreationFails(d)
    BY <1>1, <2>1 DEF SequenceNext, sequenceVars, creators, RemoveFile, AddFile, SequenceCrash
  <2>3. held'[c] # 0 /\ held'[c] # held[c] /\ held \in [Creators -> 0 .. MaxTaskNumber]
    BY <1>1 DEF SequenceInv, SequenceTypeOK
  <2>4. held' # held /\ held' # [held EXCEPT ![d] = 0]
    BY <2>3
  <2>5. Reserve(d)
    BY <2>2, <2>4 DEF Start, Scan, Advance, Insert, CreationFails, Finish
  <2>6. lastNumber # Unseeded /\ held' = [held EXCEPT ![d] = lastNumber + 1]
    BY <2>4, <2>5 DEF Reserve, Finish
  <2>7. held'[c] = lastNumber + 1
    BY <2>3, <2>6
  <2>8. QED
    BY <1>1, <2>6, <2>7, FreshNumber
<1>2. SequenceInv /\ [SequenceNext]_sequenceVars =>
        [\A c \in Creators : held'[c] \notin {0, held[c]} =>
           held'[c] \notin issued \cup known]_sequenceVars
  BY <1>1
<1>3. QED
  BY <1>2, SequenceInvariant, PTL DEF SequenceSpec, IssuedOnce

-----------------------------------------------------------------------------
(* Study notes. *)

\* Ending or going on leaves every other command alone.
LEMMA WorkTypes ==
    ASSUME NotesTypeOK, NEW c \in NoteCommands, NEW w \in Works, Goes(c, w)
    PROVE  work' \in [NoteCommands -> Works]
BY DEF NotesTypeOK, Goes

LEMMA EndTypes ==
    ASSUME NEW outcome \in {"succeeded", "failed", "aborted"}
    PROVE  [stage |-> outcome] \in Works
BY DEF Works

LEMMA SavingWork ==
    ASSUME NotesTypeOK, NEW c \in NoteCommands, work[c].stage = "saving"
    PROVE  /\ work[c].number \in NoteNumbers
           /\ work[c].patch \in Patches
           /\ work[c].seen \in Documents
BY DEF NotesTypeOK, Works

LEMMA DeletingWork ==
    ASSUME NotesTypeOK, NEW c \in NoteCommands, work[c].stage = "deleting"
    PROVE  work[c].number \in NoteNumbers /\ work[c].seen \in Documents
BY DEF NotesTypeOK, Works

LEMMA NumberedWork ==
    ASSUME NotesTypeOK, NEW c \in NoteCommands,
           work[c].stage \in {"creating", "asking", "confirmed", "reopening"}
    PROVE  /\ work[c].number \in NoteNumbers
           /\ work[c].stage = "reopening" => work[c].patch \in Patches
BY DEF NotesTypeOK, Works

\* A patched note is a note.
LEMMA PatchedIsDocument ==
    ASSUME NEW c \in NoteCommands, NEW document \in Documents, NEW patch \in Patches
    PROVE  LET after == Patched(c, document, patch)
           IN  /\ after \in Documents
               /\ \A field \in NoteFields :
                    /\ patch[field] = "keep" => after[field] = document[field]
                    /\ patch[field] = "append" => document[field] \subseteq after[field]
               /\ after[SourceSection] =
                    IF patch[SourceList] = "keep" THEN document[SourceSection] ELSE after[SourceList]
<1> DEFINE resolved == Resolved(c, document, patch)
           after == Patched(c, document, patch)
<1>1. c \in Authors
  BY DEF Authors
<1>2. ASSUME NEW field \in NoteFields
      PROVE  /\ resolved[field] \in SUBSET Authors
             /\ patch[field] = "keep" => resolved[field] = document[field]
             /\ patch[field] = "append" => document[field] \subseteq resolved[field]
  <2>1. document[field] \in SUBSET Authors /\ patch[field] \in {"keep", "replace", "append", "clear"}
    BY DEF Documents, NoteParts, Patches
  <2>2. CASE patch[field] = "keep"
    BY <2>1, <2>2 DEF Resolved
  <2>3. CASE patch[field] = "replace"
    BY <1>1, <2>1, <2>3 DEF Resolved
  <2>4. CASE patch[field] = "append"
    BY <1>1, <2>1, <2>4 DEF Resolved
  <2>5. CASE patch[field] = "clear"
    BY <2>1, <2>5 DEF Resolved
  <2>6. QED
    BY <2>1, <2>2, <2>3, <2>4, <2>5
<1> HIDE DEF resolved
<1>3. /\ \A field \in NoteFields : after[field] = resolved[field]
      /\ after[SourceSection] =
           IF patch[SourceList] = "keep" THEN document[SourceSection] ELSE resolved[SourceList]
  BY SourcesAssumption DEF Patched, NoteParts, resolved
<1>4. after \in Documents
  <2>1. document[SourceSection] \in SUBSET Authors /\ resolved[SourceList] \in SUBSET Authors
    BY <1>2, SourcesAssumption DEF Documents, NoteParts
  <2>2. \A part \in NoteParts : after[part] \in SUBSET Authors
    BY <1>2, <1>3, <2>1 DEF NoteParts
  <2>3. after = [part \in NoteParts |-> after[part]]
    BY DEF Patched
  <2>4. QED
    BY <2>2, <2>3 DEF Documents
<1> HIDE DEF after
<1>5. QED
  BY <1>2, <1>3, <1>4, SourcesAssumption DEF after

-----------------------------------------------------------------------------
\* What a step may do to the notes: nothing, create where no note is, save a
\* patch of the note that is there, or delete what a confirmed removal saw.
Creates(c) ==
    /\ work[c].stage = "creating"
    /\ notes[work[c].number] = NoNote
    /\ notes' = [notes EXCEPT ![work[c].number] = [part \in NoteParts |-> {c}]]

Saves(c) ==
    /\ work[c].stage = "saving"
    /\ notes[work[c].number] = work[c].seen
    /\ notes' = [notes EXCEPT ![work[c].number] = Patched(c, work[c].seen, work[c].patch)]
    /\ work' = [work EXCEPT ![c] = [stage |-> "succeeded"]]

Deletes(c) ==
    /\ work[c].stage = "deleting"
    /\ notes' = [notes EXCEPT ![work[c].number] = NoNote]
    /\ work' = [work EXCEPT ![c] = [stage |-> "succeeded"]]

StepShape == UNCHANGED notes \/ \E c \in NoteCommands : Creates(c) \/ Saves(c) \/ Deletes(c)

LEMMA AddersStep ==
    ASSUME NotesTypeOK, NEW c \in Adders, ListNotes(c) \/ InsertNote(c)
    PROVE  StepShape /\ work' \in [NoteCommands -> Works]
<1>0. c \in NoteCommands
  BY DEF NoteCommands
<1>1. CASE ListNotes(c)
  <2>1. PICK next \in 1 .. (MaxNoteNumber + 1) :
          IF next <= MaxNoteNumber
          THEN Goes(c, [stage |-> "creating", number |-> next])
          ELSE Ends(c, "failed")
    BY <1>1 DEF ListNotes
  <2>2. CASE next <= MaxNoteNumber
    <3>1. next \in NoteNumbers
      BY <2>2, NoteNumbersAssumption DEF NoteNumbers
    <3>2. [stage |-> "creating", number |-> next] \in Works
      BY <3>1 DEF Works
    <3>3. QED
      BY <1>0, <1>1, <2>1, <2>2, <3>2, WorkTypes DEF ListNotes, StepShape
  <2>3. CASE ~(next <= MaxNoteNumber)
    BY <1>0, <1>1, <2>1, <2>3, EndTypes, WorkTypes DEF ListNotes, StepShape, Ends
  <2>4. QED
    BY <2>2, <2>3
<1>2. CASE InsertNote(c)
  <2>1. PICK outcome \in {"succeeded", "failed"} : Goes(c, [stage |-> outcome])
    BY <1>2 DEF InsertNote, Ends
  <2>2. work' \in [NoteCommands -> Works]
    BY <1>0, <2>1, EndTypes, WorkTypes
  <2>3. StepShape
    BY <1>0, <1>2 DEF InsertNote, Stands, StepShape, Creates
  <2>4. QED
    BY <2>2, <2>3
<1>3. QED
  BY <1>1, <1>2

LEMMA EditorsStep ==
    ASSUME NotesTypeOK, NEW c \in Editors,
           \/ \E n \in NoteNumbers, patch \in Patches : FindForEdit(c, n, patch)
           \/ OpenNote(c)
           \/ SaveNote(c)
    PROVE  StepShape /\ work' \in [NoteCommands -> Works]
<1>0. c \in NoteCommands
  BY DEF NoteCommands
<1>1. CASE \E n \in NoteNumbers, patch \in Patches : FindForEdit(c, n, patch)
  <2>1. PICK n \in NoteNumbers, patch \in Patches : FindForEdit(c, n, patch)
    BY <1>1
  <2>2. [stage |-> "reopening", number |-> n, patch |-> patch] \in Works
    BY DEF Works
  <2>3. PICK w \in Works : Goes(c, w)
    BY <2>1, <2>2, EndTypes DEF FindForEdit, Ends
  <2>4. QED
    BY <1>0, <2>1, <2>3, WorkTypes DEF FindForEdit, StepShape
<1>2. CASE OpenNote(c)
  <2>1. work[c].number \in NoteNumbers /\ work[c].patch \in Patches
    BY <1>0, <1>2, NumberedWork DEF OpenNote, Stands
  <2>2. notes[work[c].number] # NoNote => notes[work[c].number] \in Documents
    BY <2>1 DEF NotesTypeOK
  <2>3. notes[work[c].number] # NoNote =>
          [stage |-> "saving", number |-> work[c].number, patch |-> work[c].patch,
           seen |-> notes[work[c].number]] \in Works
    BY <2>1, <2>2 DEF Works
  <2>4. PICK w \in Works : Goes(c, w)
    BY <1>2, <2>3, EndTypes DEF OpenNote, Ends
  <2>5. QED
    BY <1>0, <1>2, <2>4, WorkTypes DEF OpenNote, StepShape
<1>3. CASE SaveNote(c)
  <2>1. PICK outcome \in {"succeeded", "failed"} : Goes(c, [stage |-> outcome])
    BY <1>3 DEF SaveNote, Ends
  <2>2. work' \in [NoteCommands -> Works]
    BY <1>0, <2>1, EndTypes, WorkTypes
  <2>3. StepShape
    BY <1>0, <1>3 DEF SaveNote, Stands, StepShape, Saves, Ends, Goes
  <2>4. QED
    BY <2>2, <2>3
<1>4. QED
  BY <1>1, <1>2, <1>3

LEMMA RemoversStep ==
    ASSUME NotesTypeOK, NEW c \in Removers,
           \/ \E n \in NoteNumbers : FindForRemoval(c, n)
           \/ Decide(c)
           \/ SnapshotNote(c)
           \/ DeleteNote(c)
    PROVE  StepShape /\ work' \in [NoteCommands -> Works]
<1>0. c \in NoteCommands
  BY DEF NoteCommands
<1>1. CASE \E n \in NoteNumbers : FindForRemoval(c, n)
  <2>1. PICK n \in NoteNumbers : FindForRemoval(c, n)
    BY <1>1
  <2>2. [stage |-> "asking", number |-> n] \in Works
    BY DEF Works
  <2>3. PICK w \in Works : Goes(c, w)
    BY <2>1, <2>2, EndTypes DEF FindForRemoval, Ends
  <2>4. QED
    BY <1>0, <2>1, <2>3, WorkTypes DEF FindForRemoval, StepShape
<1>2. CASE Decide(c)
  <2>1. work[c].number \in NoteNumbers
    BY <1>0, <1>2, NumberedWork DEF Decide, Stands
  <2>2. [stage |-> "confirmed", number |-> work[c].number] \in Works
    BY <2>1 DEF Works
  <2>3. PICK w \in Works : Goes(c, w)
    BY <1>2, <2>2, EndTypes DEF Decide, Ends
  <2>4. QED
    BY <1>0, <1>2, <2>3, WorkTypes DEF Decide, StepShape
<1>3. CASE SnapshotNote(c)
  <2>1. work[c].number \in NoteNumbers
    BY <1>0, <1>3, NumberedWork DEF SnapshotNote, Stands
  <2>2. notes[work[c].number] # NoNote => notes[work[c].number] \in Documents
    BY <2>1 DEF NotesTypeOK
  <2>3. notes[work[c].number] # NoNote =>
          [stage |-> "deleting", number |-> work[c].number,
           seen |-> notes[work[c].number]] \in Works
    BY <2>1, <2>2 DEF Works
  <2>4. PICK w \in Works : Goes(c, w)
    BY <1>3, <2>3, EndTypes DEF SnapshotNote, Ends
  <2>5. QED
    BY <1>0, <1>3, <2>4, WorkTypes DEF SnapshotNote, StepShape
<1>4. CASE DeleteNote(c)
  <2>1. PICK outcome \in {"succeeded", "failed"} : Goes(c, [stage |-> outcome])
    BY <1>4 DEF DeleteNote, Ends
  <2>2. work' \in [NoteCommands -> Works]
    BY <1>0, <2>1, EndTypes, WorkTypes
  <2>3. StepShape
    BY <1>0, <1>4 DEF DeleteNote, Stands, StepShape, Deletes, Ends, Goes
  <2>4. QED
    BY <2>2, <2>3
<1>5. QED
  BY <1>1, <1>2, <1>3, <1>4

\* A step of the specification has one of these shapes.
LEMMA NotesStep ==
    ASSUME NotesTypeOK, NotesNext
    PROVE  StepShape /\ work' \in [NoteCommands -> Works]
<1>1. ASSUME NEW c \in NoteCommands, NoteCommandFails(c)
      PROVE  StepShape /\ work' \in [NoteCommands -> Works]
  BY <1>1, EndTypes, WorkTypes DEF NoteCommandFails, Ends, StepShape
<1>2. QED
  BY <1>1, AddersStep, EditorsStep, RemoversStep DEF NotesNext

-----------------------------------------------------------------------------
\* The files that steps leave are notes.
LEMMA ShapeKeepsTypes ==
    ASSUME NotesTypeOK, StepShape, work' \in [NoteCommands -> Works]
    PROVE  NotesTypeOK'
<1>1. CASE UNCHANGED notes
  BY <1>1 DEF NotesTypeOK
<1>2. ASSUME NEW c \in NoteCommands, Creates(c)
      PROVE  NotesTypeOK'
  <2>1. [part \in NoteParts |-> {c}] \in Documents
    BY DEF Documents, Authors
  <2>2. QED
    BY <1>2, <2>1 DEF NotesTypeOK, Creates
<1>3. ASSUME NEW c \in NoteCommands, Saves(c)
      PROVE  NotesTypeOK'
  <2>1. Patched(c, work[c].seen, work[c].patch) \in Documents
    BY <1>3, SavingWork, PatchedIsDocument DEF Saves
  <2>2. QED
    BY <1>3, <2>1 DEF NotesTypeOK, Saves
<1>4. ASSUME NEW c \in NoteCommands, Deletes(c)
      PROVE  NotesTypeOK'
  BY <1>4 DEF NotesTypeOK, Deletes
<1>5. QED
  BY <1>1, <1>2, <1>3, <1>4 DEF StepShape

\* Every file of the directory is a note, and every command knows what it needs
\* at its stage (project_note.rs).
THEOREM NotesAreTyped == NotesSpec => []NotesTypeOK
<1>1. NotesInit => NotesTypeOK
  <2>1. FirstDocuments \subseteq Documents
    BY DEF FirstDocuments, Documents, Authors
  <2>2. [stage |-> "waiting"] \in Works
    BY DEF Works
  <2>3. QED
    BY <2>1, <2>2 DEF NotesInit, NotesTypeOK
<1>2. NotesTypeOK /\ [NotesNext]_noteVars => NotesTypeOK'
  <2>1. CASE UNCHANGED noteVars
    BY <2>1 DEF NotesTypeOK, noteVars
  <2>2. QED
    BY <2>1, NotesStep, ShapeKeepsTypes
<1>3. QED
  BY <1>1, <1>2, PTL DEF NotesSpec

\* A note changes only by the save of an edit, which keeps the fields that it
\* does not name and everything that it appends to and writes the sources of the
\* body only from those of the front matter, or by a removal that was confirmed
\* (project_note.rs insert_note, update_note and delete_note).
THEOREM NotesChangeOnlyAsAsked == NotesSpec => NotesChangeAsAsked
<1> DEFINE Asked(n) ==
      \E c \in NoteCommands :
        /\ work[c].stage \in {"saving", "deleting"} /\ work[c].number = n
        /\ work'[c].stage = "succeeded"
        /\ Stands(c, "deleting") => notes'[n] = NoNote
        /\ Stands(c, "saving") =>
             /\ notes'[n] # NoNote
             /\ \A field \in NoteFields :
                  /\ work[c].patch[field] = "keep" => notes'[n][field] = notes[n][field]
                  /\ work[c].patch[field] = "append" => notes[n][field] \subseteq notes'[n][field]
             /\ notes'[n][SourceSection] =
                  IF work[c].patch[SourceList] = "keep"
                  THEN notes[n][SourceSection] ELSE notes'[n][SourceList]
<1>1. ASSUME NotesTypeOK, NotesNext, NEW n \in NoteNumbers, notes[n] # NoNote, notes'[n] # notes[n]
      PROVE  Asked(n)
  <2>1. StepShape
    BY <1>1, NotesStep
  <2>2. notes \in [NoteNumbers -> Documents \cup {NoNote}] /\ work \in [NoteCommands -> Works]
    BY <1>1 DEF NotesTypeOK
  <2>3. PICK c \in NoteCommands : Creates(c) \/ Saves(c) \/ Deletes(c)
    BY <1>1, <2>1 DEF StepShape
  <2>4. ~Creates(c)
    BY <1>1, <2>2 DEF Creates
  <2>5. CASE Saves(c)
    <3> DEFINE after == Patched(c, work[c].seen, work[c].patch)
    <3>1. work[c].number = n /\ notes'[n] = after /\ notes[n] = work[c].seen
          /\ work'[c].stage = "succeeded"
      BY <1>1, <2>2, <2>5 DEF Saves
    <3>2. after \in Documents /\ after # NoNote
      BY <1>1, <2>5, SavingWork, PatchedIsDocument, NoNoteAssumption DEF Saves
    <3>3. /\ \A field \in NoteFields :
               /\ work[c].patch[field] = "keep" => after[field] = work[c].seen[field]
               /\ work[c].patch[field] = "append" => work[c].seen[field] \subseteq after[field]
          /\ after[SourceSection] =
               IF work[c].patch[SourceList] = "keep"
               THEN work[c].seen[SourceSection] ELSE after[SourceList]
      BY <1>1, <2>5, SavingWork, PatchedIsDocument DEF Saves
    <3> HIDE DEF after
    <3>4. work[c].stage = "saving"
      BY <2>5 DEF Saves
    <3>5. QED
      BY <3>1, <3>2, <3>3, <3>4 DEF Stands
  <2>6. CASE Deletes(c)
    <3>1. work[c].number = n /\ notes'[n] = NoNote /\ work'[c].stage = "succeeded"
          /\ work[c].stage = "deleting"
      BY <1>1, <2>2, <2>6 DEF Deletes
    <3>2. QED
      BY <3>1 DEF Stands
  <2>7. QED
    BY <2>3, <2>4, <2>5, <2>6
<1>2. ASSUME NotesTypeOK, [NotesNext]_noteVars
      PROVE  [\A n \in NoteNumbers : notes[n] # NoNote /\ notes'[n] # notes[n] => Asked(n)]_noteVars
  BY <1>1, <1>2
<1>3. QED
  BY <1>2, NotesAreTyped, PTL DEF NotesSpec, NotesChangeAsAsked

-----------------------------------------------------------------------------
(* Rows and commands. *)

LEMMA AddTypes ==
    ASSUME NEW c \in Commands, c.kind = "add"
    PROVE  c.id \in Ids /\ c.title \in Titles /\ c.path \in Paths
BY DEF Commands

LEMMA ChangeTypes ==
    ASSUME NEW c \in Commands, c.kind \in {"pause", "resume"}
    PROVE  c.id \in Ids
BY DEF Commands

LEMMA UpdateTypes ==
    ASSUME NEW c \in Commands, c.kind = "update"
    PROVE  c.id \in Ids /\ c.snapshots \in BOOLEAN
BY DEF Commands

LEMMA RenameTypes ==
    ASSUME NEW c \in Commands, c.kind = "rename"
    PROVE  c.id \in Ids /\ c.to \in Ids /\ c.title \in Titles /\ c.path \in Paths
BY DEF Commands

LEMMA CommandKinds ==
    ASSUME NEW c \in Commands
    PROVE  c.kind \in {"add", "pause", "resume", "update", "rename"}
BY DEF Commands

\* A registry in which at most one project changed is still one of projects
\* apart, when that project is apart from the others.
Fits(rs, id, project) ==
    \A other \in Ids \ {id} : rs[other] # NoProject =>
        rs[other].title # project.title /\ Location[rs[other].path] # Location[project.path]

LEMMA OneReplaced ==
    ASSUME NEW rs \in Registries, NEW new \in Registries, NEW id \in Ids,
           TitlesDiffer(rs), LocationsDiffer(rs),
           \A other \in Ids \ {id} : new[other] \in {rs[other], NoProject},
           new[id] # NoProject => Fits(new, id, new[id])
    PROVE  TitlesDiffer(new) /\ LocationsDiffer(new)
<1>1. ASSUME NEW one \in Ids, NEW other \in Ids, one # other,
             new[one] # NoProject, new[other] # NoProject
      PROVE  new[one].title # new[other].title
             /\ Location[new[one].path] # Location[new[other].path]
  <2>1. CASE one = id
    BY <1>1, <2>1 DEF Fits
  <2>2. CASE other = id
    BY <1>1, <2>2 DEF Fits
  <2>3. CASE one # id /\ other # id
    <3>1. new[one] = rs[one] /\ new[other] = rs[other]
      BY <1>1, <2>3
    <3>2. QED
      BY <1>1, <3>1 DEF TitlesDiffer, LocationsDiffer
  <2>4. QED
    BY <2>1, <2>2, <2>3
<1>2. QED
  BY <1>1 DEF TitlesDiffer, LocationsDiffer

\* A project that keeps its title and its path fits where it was.
LEMMA StillFits ==
    ASSUME NEW rs \in Registries, NEW id \in Ids, TitlesDiffer(rs), LocationsDiffer(rs),
           rs[id] # NoProject, NEW project, project.title = rs[id].title,
           project.path = rs[id].path
    PROVE  Fits(rs, id, project)
BY DEF Fits, TitlesDiffer, LocationsDiffer

Apart(rs) == rs \in Registries /\ TitlesDiffer(rs) /\ LocationsDiffer(rs)

LEMMA AddKeepsApart ==
    ASSUME NEW rs, Apart(rs), NEW c \in Commands, c.kind = "add", CanAdd(rs, c)
    PROVE  Apart(Added(rs, c))
<1> DEFINE project == [title |-> c.title, path |-> c.path, paused |-> FALSE, snapshots |-> FALSE]
           new == Added(rs, c)
<1>1. project \in Projects
  BY AddTypes DEF Projects
<1>2. new \in Registries /\ new[c.id] = project
      /\ \A other \in Ids \ {c.id} : new[other] = rs[other]
  BY <1>1, AddTypes DEF Added, Registries, Apart
<1>3. Fits(rs, c.id, project)
  BY AddTypes DEF CanAdd, TitleTaken, Collides, Fits
<1> HIDE DEF new, project
<1>4. TitlesDiffer(new) /\ LocationsDiffer(new)
  BY <1>2, <1>3, AddTypes, OneReplaced DEF Apart, Fits
<1>5. QED
  BY <1>2, <1>4 DEF Apart, new

\* Pausing, resuming and updating leave titles and paths alone.
LEMMA ChangeKeepsApart ==
    ASSUME NEW rs, Apart(rs), NEW id \in Ids, rs[id] # NoProject,
           NEW project \in Projects, project.title = rs[id].title, project.path = rs[id].path
    PROVE  Apart([rs EXCEPT ![id] = project])
<1> DEFINE new == [rs EXCEPT ![id] = project]
<1>1. new \in Registries /\ new[id] = project
      /\ \A other \in Ids \ {id} : new[other] = rs[other]
  BY DEF Registries, Apart
<1>2. Fits(rs, id, project)
  BY StillFits DEF Apart
<1> HIDE DEF new
<1>3. TitlesDiffer(new) /\ LocationsDiffer(new)
  BY <1>1, <1>2, OneReplaced DEF Apart, Fits
<1>4. QED
  BY <1>1, <1>3 DEF Apart, new

LEMMA RenameKeepsApart ==
    ASSUME NEW rs, Apart(rs), NEW c \in Commands, c.kind = "rename", CanRename(rs, c)
    PROVE  Apart(Renamed(rs, c))
<1> DEFINE project == [rs[c.id] EXCEPT !.title = c.title, !.path = c.path]
           new == Renamed(rs, c)
<1>1. c.id \in Ids /\ c.to \in Ids /\ c.title \in Titles /\ c.path \in Paths
  BY RenameTypes
<1>2. rs[c.id] \in Projects
  BY <1>1 DEF CanRename, Apart, Registries
<1>3. project \in Projects /\ project.title = c.title /\ project.path = c.path
  BY <1>1, <1>2 DEF Projects
<1>4. new[c.to] = project
  BY <1>1 DEF Renamed
<1>5. ASSUME NEW other \in Ids \ {c.to}
      PROVE  new[other] \in {rs[other], NoProject}
  <2>1. CASE other = c.id
    BY <1>5, <2>1 DEF Renamed
  <2>2. CASE other # c.id
    BY <1>5, <2>2 DEF Renamed
  <2>3. QED
    BY <2>1, <2>2
<1>6. new \in Registries
  <2>1. ASSUME NEW id \in Ids
        PROVE  new[id] \in Projects \cup {NoProject}
    <3>1. rs[id] \in Projects \cup {NoProject}
      BY DEF Apart, Registries
    <3>2. QED
      BY <1>3, <1>4, <1>5, <3>1
  <2>2. QED
    BY <2>1 DEF Registries, Renamed
<1>7. Fits(new, c.to, project)
  <2>1. ASSUME NEW other \in Ids \ {c.to}, new[other] # NoProject
        PROVE  new[other].title # project.title
               /\ Location[new[other].path] # Location[project.path]
    <3>1. other # c.id
      BY <1>1, <2>1 DEF Renamed
    <3>2. new[other] = rs[other]
      BY <2>1, <1>5
    <3>3. rs[other].title # c.title /\ Location[rs[other].path] # Location[c.path]
      BY <2>1, <3>1, <3>2 DEF CanRename, TitleTaken, Collides
    <3>4. QED
      BY <1>3, <3>2, <3>3
  <2>2. QED
    BY <2>1 DEF Fits
<1> HIDE DEF new, project
<1>8. TitlesDiffer(new) /\ LocationsDiffer(new)
  BY <1>1, <1>4, <1>5, <1>6, <1>7, OneReplaced DEF Apart
<1>9. QED
  BY <1>6, <1>8 DEF Apart, new

LEMMA EffectKeepsApart ==
    ASSUME NEW rs, Apart(rs), NEW c \in Commands
    PROVE  Apart(Effect(rs, c))
<1>1. CASE ~Accepts(rs, c)
  BY <1>1 DEF Effect
<1>2. CASE Accepts(rs, c) /\ c.kind = "add"
  <2>1. CanAdd(rs, c) /\ Effect(rs, c) = Added(rs, c)
    BY <1>2 DEF Effect, Accepts, Applied
  <2>2. QED
    BY <1>2, <2>1, AddKeepsApart
<1>3. CASE Accepts(rs, c) /\ c.kind = "rename"
  <2>1. CanRename(rs, c) /\ Effect(rs, c) = Renamed(rs, c)
    BY <1>3 DEF Effect, Accepts, Applied
  <2>2. QED
    BY <1>3, <2>1, RenameKeepsApart
<1>4. CASE Accepts(rs, c) /\ c.kind \in {"pause", "resume", "update"}
  <2>1. c.id \in Ids /\ rs[c.id] # NoProject
    BY <1>4, ChangeTypes, UpdateTypes DEF Accepts, CanResume
  <2>2. rs[c.id] \in Projects
    BY <2>1 DEF Apart, Registries
  <2>3. PICK project \in Projects :
          /\ project.title = rs[c.id].title /\ project.path = rs[c.id].path
          /\ Effect(rs, c) = [rs EXCEPT ![c.id] = project]
    <3>1. CASE c.kind = "pause"
      <4>1. [rs[c.id] EXCEPT !.paused = TRUE] \in Projects
        BY <2>2 DEF Projects
      <4>2. Effect(rs, c) = [rs EXCEPT ![c.id] = [rs[c.id] EXCEPT !.paused = TRUE]]
        BY <1>4, <3>1 DEF Effect, Applied, Paused
      <4>3. QED
        BY <2>2, <4>1, <4>2 DEF Projects
    <3>2. CASE c.kind = "resume"
      <4>1. [rs[c.id] EXCEPT !.paused = FALSE] \in Projects
        BY <2>2 DEF Projects
      <4>2. Effect(rs, c) = [rs EXCEPT ![c.id] = [rs[c.id] EXCEPT !.paused = FALSE]]
        BY <1>4, <3>2 DEF Effect, Applied, Resumed
      <4>3. QED
        BY <2>2, <4>1, <4>2 DEF Projects
    <3>3. CASE c.kind = "update"
      <4>1. [rs[c.id] EXCEPT !.snapshots = c.snapshots] \in Projects
        BY <2>2, <3>3, UpdateTypes DEF Projects
      <4>2. Effect(rs, c) = [rs EXCEPT ![c.id] = [rs[c.id] EXCEPT !.snapshots = c.snapshots]]
        BY <1>4, <3>3 DEF Effect, Applied, Updated
      <4>3. QED
        BY <2>2, <4>1, <4>2 DEF Projects
    <3>4. QED
      BY <1>4, <3>1, <3>2, <3>3
  <2>4. Apart([rs EXCEPT ![c.id] = project])
    BY <2>1, <2>3, ChangeKeepsApart
  <2>5. QED
    BY <2>3, <2>4
<1>5. QED
  BY <1>1, <1>2, <1>3, <1>4, CommandKinds

Remembering(d) ==
    d = [stage |-> "remembering", read |-> d.read, found |-> d.found, left |-> d.left]

-----------------------------------------------------------------------------
(* The cache. *)

\* What a listing shows.
Shown(rs, paused) == {id \in Ids : rs[id] # NoProject /\ (paused \/ ~rs[id].paused)}

ViewAgrees(view, projects, rs, paused) ==
    view # Unlisted =>
        /\ view = Shown(rs, paused)
        /\ \A id \in Shown(rs, paused) : projects[id] # NoProject

\* What the cache holds is what the rows say.
CacheAgrees(c, rs) ==
    /\ c = [projects |-> c.projects, active |-> c.active, all |-> c.all, bytes |-> c.bytes]
    /\ c.projects = [id \in Ids |-> c.projects[id]]
    /\ \A id \in Ids : c.projects[id] \in {rs[id], NoProject}
    /\ ViewAgrees(c.active, c.projects, rs, FALSE)
    /\ ViewAgrees(c.all, c.projects, rs, TRUE)

LEMMA EmptyAgrees ==
    ASSUME NEW rs
    PROVE  CacheAgrees(Empty, rs)
BY DEF CacheAgrees, ViewAgrees, Empty

LEMMA RoomAgrees ==
    ASSUME NEW rs, NEW c, CacheAgrees(c, rs), NEW bytes
    PROVE  CacheAgrees(Room(c, bytes), rs)
BY EmptyAgrees DEF Room

LEMMA RememberAgrees ==
    ASSUME NEW rs, NEW c, CacheAgrees(c, rs), NEW id \in Ids, rs[id] # NoProject
    PROVE  CacheAgrees(Remember(c, id, rs[id]), rs)
<1> DEFINE bytes == Size[rs[id].title]
           room == Room(c, bytes)
           grown == [room EXCEPT !.projects[id] = rs[id], !.bytes = @ + bytes]
<1>1. CacheAgrees(room, rs)
  BY RoomAgrees
<1>2. Remember(c, id, rs[id]) \in {c, room, grown}
  BY DEF Remember
<1> HIDE DEF room, bytes
<1>3. CacheAgrees(grown, rs)
  <2>1. grown = [projects |-> [room.projects EXCEPT ![id] = rs[id]], active |-> room.active,
                 all |-> room.all, bytes |-> room.bytes + bytes]
    <3>1. PICK p, a, l, b : room = [projects |-> p, active |-> a, all |-> l, bytes |-> b]
      BY <1>1 DEF CacheAgrees
    <3>2. room.projects = p /\ room.active = a /\ room.all = l /\ room.bytes = b
      BY <3>1
    <3> DEFINE q == [p EXCEPT ![id] = rs[id]]
    <3>3. grown = [[room EXCEPT !.projects = q] EXCEPT !.bytes = b + bytes]
      BY <3>1
    <3> HIDE DEF q, grown
    <3>4. grown = [projects |-> q, active |-> a, all |-> l, bytes |-> b + bytes]
      BY <3>1, <3>3
    <3>5. QED
      BY <3>2, <3>4 DEF q
  <2> DEFINE after == [room.projects EXCEPT ![id] = rs[id]]
  <2>2. after = [other \in Ids |-> after[other]] /\ after[id] = rs[id]
        /\ \A other \in Ids \ {id} : after[other] = room.projects[other]
    BY <1>1 DEF CacheAgrees
  <2>3. grown.projects = after /\ grown.active = room.active /\ grown.all = room.all
        /\ grown.bytes = room.bytes + bytes
    BY <2>1
  <2> HIDE DEF after, grown
  <2>4. \A other \in Ids : after[other] \in {rs[other], NoProject}
    BY <1>1, <2>2 DEF CacheAgrees
  <2>5. ASSUME NEW view, NEW paused, ViewAgrees(view, room.projects, rs, paused)
        PROVE  ViewAgrees(view, after, rs, paused)
    BY <2>2, <2>5 DEF ViewAgrees, Shown
  <2>6. ViewAgrees(grown.active, grown.projects, rs, FALSE)
        /\ ViewAgrees(grown.all, grown.projects, rs, TRUE)
    BY <1>1, <2>3, <2>5 DEF CacheAgrees
  <2>7. grown = [projects |-> grown.projects, active |-> grown.active,
                 all |-> grown.all, bytes |-> grown.bytes]
    BY <2>1, <2>3 DEF after
  <2>8. QED
    BY <2>2, <2>3, <2>4, <2>6, <2>7 DEF CacheAgrees
<1>4. QED
  BY <1>1, <1>2, <1>3

LEMMA RememberListAgrees ==
    ASSUME NEW rs, NEW read \in Reads, read.kind = "list"
    PROVE  CacheAgrees(RememberList(read.paused, Selected(rs, read)), rs)
<1> DEFINE found == Selected(rs, read)
           listed == {id \in Ids : found[id] # NoProject}
           active == {id \in listed : ~found[id].paused}
           all == IF read.paused THEN listed ELSE Unlisted
           full == [projects |-> found, active |-> active, all |-> all, bytes |-> ListBytes(found)]
<1>1. read.ids = Ids /\ read.paused \in BOOLEAN
  BY DEF Reads
<1>2. found = [id \in Ids |-> found[id]]
  BY DEF Selected
<1>3. ASSUME NEW id \in Ids
      PROVE  found[id] = IF rs[id] # NoProject /\ (read.paused \/ ~rs[id].paused)
                         THEN rs[id] ELSE NoProject
  BY <1>1 DEF Selected
<1>4. listed = Shown(rs, read.paused)
  BY <1>3 DEF Shown
<1>5. active = Shown(rs, FALSE)
  BY <1>3 DEF Shown
<1>6. Shown(rs, FALSE) \subseteq listed
  BY <1>5
<1>7. CacheAgrees(full, rs)
  <2> HIDE DEF found
  <2>1. \A id \in Ids : found[id] \in {rs[id], NoProject}
    BY <1>3
  <2>2. ViewAgrees(active, found, rs, FALSE)
    BY <1>5, <1>6 DEF ViewAgrees
  <2>3. ViewAgrees(all, found, rs, TRUE)
    BY <1>1, <1>4 DEF ViewAgrees, Shown
  <2> HIDE DEF active, all
  <2>4. QED
    BY <1>2, <2>1, <2>2, <2>3 DEF CacheAgrees
<1>8. RememberList(read.paused, found) \in {Empty, full}
  BY DEF RememberList
<1> HIDE DEF found, full
<1>9. QED
  BY <1>7, <1>8, EmptyAgrees DEF found

\* An answer from the cache is the one the rows would give.
LEMMA HitAgrees ==
    ASSUME NEW read \in Reads, CacheAgrees(cache, rows), Hit(read)
    PROVE  FromCache(read) = Selected(rows, read)
<1>1. CASE read.kind = "list"
  <2>1. read.ids = Ids /\ read.paused \in BOOLEAN
    BY <1>1 DEF Reads
  <2>2. View(read) # Unlisted
    BY <1>1 DEF Hit
  <2>3. View(read) = Shown(rows, read.paused)
        /\ \A id \in Shown(rows, read.paused) : cache.projects[id] # NoProject
    BY <2>1, <2>2 DEF View, CacheAgrees, ViewAgrees
  <2>4. ASSUME NEW id \in Ids
        PROVE  (IF id \in View(read) THEN cache.projects[id] ELSE NoProject)
               = Selected(rows, read)[id]
    <3>1. Selected(rows, read)[id]
          = IF id \in Shown(rows, read.paused) THEN rows[id] ELSE NoProject
      BY <2>1 DEF Selected, Shown
    <3>2. cache.projects[id] \in {rows[id], NoProject}
      BY DEF CacheAgrees
    <3>3. QED
      BY <2>3, <3>1, <3>2
  <2>5. FromCache(read) = [id \in Ids |-> IF id \in View(read) THEN cache.projects[id] ELSE NoProject]
    BY <1>1 DEF FromCache
  <2>6. Selected(rows, read) = [id \in Ids |-> Selected(rows, read)[id]]
    BY DEF Selected
  <2>7. QED
    BY <2>4, <2>5, <2>6
<1>2. CASE read.kind # "list"
  <2>1. \A id \in read.ids : cache.projects[id] # NoProject
    BY <1>2 DEF Hit
  <2>2. read.ids \subseteq Ids
    BY DEF Reads
  <2>3. \A id \in read.ids : cache.projects[id] = rows[id]
    BY <2>1, <2>2 DEF CacheAgrees
  <2>4. FromCache(read) = Selected(cache.projects, read)
    BY <1>2 DEF FromCache
  <2>5. Selected(cache.projects, read) = Selected(rows, read)
    BY <2>3 DEF Selected
  <2>6. QED
    BY <2>4, <2>5
<1>3. QED
  BY <1>1, <1>2

-----------------------------------------------------------------------------
(* The operations. *)

\* What a get_projects call took from the cache before it asks for the rest.
QueryAgrees(d) ==
    /\ d.read \in Reads
    /\ \A id \in Ids : d.found[id] \in {NoProject, IF id \in d.read.ids THEN rows[id] ELSE NoProject}
    /\ sent # <<>> => \A id \in Ids : d.found[id] = NoProject

\* What it found, some of it not yet remembered: no statement is outstanding,
\* so the rows stay until it is done.
RememberingAgrees(d) ==
    /\ Remembering(d)
    /\ d.read \in Reads
    /\ sent = <<>>
    /\ d.found = Selected(rows, d.read)
    /\ d.left \subseteq {id \in Ids : d.found[id] # NoProject}

ReadsInvariant ==
    /\ CacheAgrees(cache, rows)
    /\ sent # <<>> => cache = Empty
    /\ doing.stage = "executing" => cache = Empty
    /\ doing.stage = "querying" => QueryAgrees(doing)
    /\ doing.stage = "remembering" => RememberingAgrees(doing)
    /\ ReadsShowTheRows

LEMMA SelectedRow ==
    ASSUME NEW read \in Reads, NEW id \in Ids, Selected(rows, read)[id] # NoProject
    PROVE  Selected(rows, read)[id] = rows[id]
BY DEF Selected

\* An operation that ends, with the rows and the cache as they were.
LEMMA IdleKeepsReads ==
    ASSUME ReadsInvariant, doing' = Idle, UNCHANGED <<rows, cache, sent>>,
           ReadsShowTheRows'
    PROVE  ReadsInvariant'
BY DEF ReadsInvariant, Idle

LEMMA AnswerShows ==
    ASSUME NEW read, NEW found, Answered(read, found), found = Selected(rows, read),
           UNCHANGED rows
    PROVE  ReadsShowTheRows'
<1>1. answer'.found = found /\ answer'.read = read
  BY DEF Answered
<1>2. QED
  BY <1>1 DEF ReadsShowTheRows, Selected

LEMMA LookKeepsReads ==
    ASSUME ReadsInvariant, NEW read \in Reads, Look(read)
    PROVE  ReadsInvariant'
<1>1. UNCHANGED <<rows, cache, sent>>
  BY DEF Look
<1>2. CASE Hit(read)
  <2>1. Answered(read, FromCache(read))
    BY <1>2 DEF Look
  <2>2. FromCache(read) = Selected(rows, read)
    BY <1>2, HitAgrees DEF ReadsInvariant
  <2>3. ReadsShowTheRows'
    BY <1>1, <2>1, <2>2, AnswerShows
  <2>4. QED
    BY <1>1, <2>1, <2>3, IdleKeepsReads DEF Answered
<1>3. CASE ~Hit(read)
  <2>1. doing' = [stage |-> "querying", read |-> read, found |-> Cached(read)] /\ UNCHANGED answer
    BY <1>3 DEF Look
  <2>2. \A id \in Ids : Cached(read)[id] = IF id \in read.ids THEN cache.projects[id] ELSE NoProject
    BY DEF Cached
  <2>3. \A id \in Ids : cache.projects[id] \in {rows[id], NoProject}
    BY DEF ReadsInvariant, CacheAgrees
  <2>4. sent # <<>> => \A id \in Ids : cache.projects[id] = NoProject
    BY DEF ReadsInvariant, Empty
  <2>5. doing'.read = read /\ doing'.found = Cached(read) /\ doing'.stage = "querying"
    BY <2>1
  <2>6. QueryAgrees(doing)'
    BY <1>1, <2>2, <2>3, <2>4, <2>5 DEF QueryAgrees
  <2>7. ReadsShowTheRows'
    BY <1>1, <2>1 DEF ReadsInvariant, ReadsShowTheRows, Selected
  <2>8. QED
    BY <1>1, <2>5, <2>6, <2>7 DEF ReadsInvariant
<1>4. QED
  BY <1>2, <1>3

LEMMA QueryKeepsReads ==
    ASSUME ReadsInvariant, Query
    PROVE  ReadsInvariant'
<1> DEFINE read == doing.read
           loaded == Selected(rows, read)
<1>1. UNCHANGED <<rows, sent>> /\ sent = <<>> /\ QueryAgrees(doing) /\ CacheAgrees(cache, rows)
  BY DEF Query, ReadsInvariant
<1>2. read \in Reads
  BY <1>1 DEF QueryAgrees
<1>3. ASSUME CacheAgrees(cache', rows), Answered(read, loaded)
      PROVE  ReadsInvariant'
  <2>1. ReadsShowTheRows'
    BY <1>1, <1>3, AnswerShows
  <2>2. doing' = Idle
    BY <1>3 DEF Answered
  <2>3. CacheAgrees(cache, rows)'
    BY <1>1, <1>3
  <2>4. QED
    BY <1>1, <2>1, <2>2, <2>3 DEF ReadsInvariant, Idle
<1>4. CASE read.kind = "list"
  <2>1. cache' = RememberList(read.paused, loaded) /\ Answered(read, loaded)
    BY <1>4 DEF Query
  <2>2. CacheAgrees(cache', rows)
    BY <1>2, <1>4, <2>1, RememberListAgrees
  <2>3. QED
    BY <1>3, <2>1, <2>2
<1>5. CASE read.kind = "get"
  <2>1. PICK id \in read.ids :
          cache' = IF loaded[id] = NoProject THEN cache ELSE Remember(cache, id, loaded[id])
    BY <1>5 DEF Query
  <2>2. id \in Ids
    BY <1>2 DEF Reads
  <2>3. CASE loaded[id] = NoProject
    BY <1>1, <1>3, <1>5, <2>1, <2>3 DEF Query
  <2>4. CASE loaded[id] # NoProject
    <3>1. loaded[id] = rows[id]
      BY <1>2, <2>2, <2>4, SelectedRow
    <3>2. cache' = Remember(cache, id, rows[id]) /\ rows[id] # NoProject
      BY <2>1, <2>4, <3>1
    <3>3. CacheAgrees(cache', rows)
      BY <1>1, <2>2, <3>2, RememberAgrees
    <3>4. QED
      BY <1>3, <1>5, <3>3 DEF Query
  <2>5. QED
    BY <2>3, <2>4
<1>6. CASE read.kind = "get_many"
  <2> DEFINE missing == {id \in read.ids : doing.found[id] = NoProject}
             found == [id \in Ids |-> IF id \in missing THEN loaded[id] ELSE doing.found[id]]
             left == {id \in missing : loaded[id] # NoProject}
  <2>1. doing' = [stage |-> "remembering", read |-> read, found |-> found, left |-> left]
        /\ UNCHANGED <<cache, answer>>
    BY <1>6 DEF Query, Loaded
  <2>2. read.paused /\ read.ids \subseteq Ids
    BY <1>2, <1>6 DEF Reads
  <2>3. ASSUME NEW id \in Ids
        PROVE  found[id] = loaded[id]
    <3>1. loaded[id] = IF id \in read.ids THEN rows[id] ELSE NoProject
      BY <2>2 DEF Selected
    <3>2. doing.found[id] \in {NoProject, IF id \in read.ids THEN rows[id] ELSE NoProject}
      BY <1>1 DEF QueryAgrees
    <3>3. QED
      BY <3>1, <3>2
  <2>4. found = loaded
    BY <2>3 DEF Selected
  <2>5. left \subseteq {id \in Ids : found[id] # NoProject}
    BY <2>2, <2>4
  <2>6. loaded' = Selected(rows, doing'.read)
    BY <1>1 DEF Selected
  <2> HIDE DEF missing, found, left, loaded
  <2>7. doing'.stage = "remembering" /\ doing'.read = read /\ doing'.found = found
        /\ doing'.left = left /\ Remembering(doing')
    BY <2>1 DEF Remembering
  <2>8. RememberingAgrees(doing)'
    BY <1>1, <1>2, <2>4, <2>5, <2>7 DEF RememberingAgrees, loaded, Selected
  <2>9. CacheAgrees(cache, rows)'
    BY <1>1, <2>1
  <2>10. ReadsShowTheRows'
    BY <1>1, <2>1 DEF ReadsInvariant, ReadsShowTheRows, Selected
  <2>11. QED
    BY <1>1, <2>7, <2>8, <2>9, <2>10 DEF ReadsInvariant
<1>7. QED
  BY <1>4, <1>5, <1>6 DEF Query

LEMMA RememberNextKeepsReads ==
    ASSUME ReadsInvariant, RememberNext
    PROVE  ReadsInvariant'
<1>1. UNCHANGED <<rows, sent>> /\ RememberingAgrees(doing) /\ CacheAgrees(cache, rows)
  BY DEF RememberNext, ReadsInvariant
<1>2. CASE doing.left = {}
  <2>1. Answered(doing.read, doing.found) /\ UNCHANGED cache
    BY <1>2 DEF RememberNext
  <2>2. ReadsShowTheRows'
    BY <1>1, <2>1, AnswerShows DEF RememberingAgrees
  <2>3. QED
    BY <1>1, <2>1, <2>2, IdleKeepsReads DEF Answered
<1>3. CASE doing.left # {}
  <2>1. PICK id \in doing.left :
          /\ cache' = Remember(cache, id, doing.found[id])
          /\ doing' = [doing EXCEPT !.left = @ \ {id}]
          /\ UNCHANGED answer
    BY <1>3 DEF RememberNext
  <2>2. id \in Ids /\ doing.found[id] = rows[id] /\ rows[id] # NoProject
    BY <1>1, SelectedRow DEF RememberingAgrees
  <2>3. CacheAgrees(cache', rows)
    BY <1>1, <2>1, <2>2, RememberAgrees
  <2>4. PICK read, found, left :
          doing = [stage |-> "remembering", read |-> read, found |-> found, left |-> left]
    BY <1>1 DEF RememberingAgrees, Remembering
  <2>5. doing' = [stage |-> "remembering", read |-> read, found |-> found, left |-> left \ {id}]
    BY <2>1, <2>4
  <2>6. /\ doing.read = read /\ doing.found = found /\ doing.left = left
        /\ doing'.stage = "remembering" /\ doing'.read = read /\ doing'.found = found
        /\ doing'.left = left \ {id} /\ Remembering(doing')
    BY <2>4, <2>5 DEF Remembering
  <2>7. RememberingAgrees(doing)'
    BY <1>1, <2>6 DEF RememberingAgrees, Selected
  <2>8. ReadsShowTheRows'
    BY <1>1, <2>1 DEF ReadsInvariant, ReadsShowTheRows, Selected
  <2>9. CacheAgrees(cache, rows)'
    BY <1>1, <2>3
  <2>10. QED
    BY <1>1, <2>6, <2>7, <2>8, <2>9 DEF ReadsInvariant, RememberingAgrees
<1>4. QED
  BY <1>2, <1>3

\* A statement runs, of a command that holds the mutex or of one whose caller is
\* gone: the cache is empty then, and no answer is left to compare.
LEMMA RunSentKeepsReads ==
    ASSUME ReadsInvariant, RunSent
    PROVE  ReadsInvariant'
<1>1. cache' = Empty /\ answer' = NoProject /\ UNCHANGED doing /\ sent # <<>>
  BY DEF ReadsInvariant, RunSent
<1>2. CacheAgrees(cache, rows)' /\ ReadsShowTheRows'
  BY <1>1, EmptyAgrees DEF ReadsShowTheRows
<1>3. doing.stage # "remembering"
  BY <1>1 DEF ReadsInvariant, RememberingAgrees
<1>4. doing.stage = "querying" => QueryAgrees(doing)'
  BY <1>1 DEF ReadsInvariant, QueryAgrees
<1>5. QED
  BY <1>1, <1>2, <1>3, <1>4 DEF ReadsInvariant

LEMMA ExecuteKeepsReads ==
    ASSUME ReadsInvariant, Execute
    PROVE  ReadsInvariant'
<1>1. cache' = Empty /\ answer' = NoProject /\ doing' = Idle
  BY DEF ReadsInvariant, Execute
<1>2. CacheAgrees(cache, rows)' /\ ReadsShowTheRows'
  BY <1>1, EmptyAgrees DEF ReadsShowTheRows
<1>3. QED
  BY <1>1, <1>2 DEF ReadsInvariant, Idle

\* Beginning a command, abandoning it and starting again leave an empty cache.
LEMMA EmptyingKeepsReads ==
    ASSUME ReadsInvariant, Abandon \/ Restart \/ \E c \in Commands : Begin(c)
    PROVE  ReadsInvariant'
<1>1. cache' = Empty /\ UNCHANGED <<rows, answer>> /\ doing'.stage \in {"idle", "executing"}
  BY DEF ReadsInvariant, Abandon, Restart, Begin, Idle
<1>2. CacheAgrees(cache, rows)'
  BY <1>1, EmptyAgrees
<1>3. ReadsShowTheRows'
  BY <1>1 DEF ReadsInvariant, ReadsShowTheRows, Selected
<1>4. QED
  BY <1>1, <1>2, <1>3 DEF ReadsInvariant

LEMMA ReadsInvariantHolds == StoreSpec => []ReadsInvariant
<1>1. StoreInit => ReadsInvariant
  BY EmptyAgrees DEF StoreInit, ReadsInvariant, ReadsShowTheRows, Idle
<1>2. ASSUME ReadsInvariant, [StoreNext]_storeVars
      PROVE  ReadsInvariant'
  <2>1. CASE StoreFails
    <3>1. doing' = Idle /\ UNCHANGED <<rows, cache, sent, answer>>
      BY <2>1 DEF StoreFails
    <3>2. ReadsShowTheRows'
      BY <1>2, <3>1 DEF ReadsInvariant, ReadsShowTheRows, Selected
    <3>3. QED
      BY <1>2, <3>1, <3>2, IdleKeepsReads
  <2>2. CASE UNCHANGED storeVars
    BY <1>2, <2>2 DEF storeVars, ReadsInvariant, CacheAgrees, ViewAgrees, Shown, QueryAgrees,
                      RememberingAgrees, Remembering, ReadsShowTheRows, Selected
  <2>3. QED
    BY <1>2, <2>1, <2>2, LookKeepsReads, QueryKeepsReads, RememberNextKeepsReads,
       RunSentKeepsReads, ExecuteKeepsReads, EmptyingKeepsReads DEF StoreNext
<1>3. QED
  BY <1>1, <1>2, PTL DEF StoreSpec

\* What a read answers is what the rows say at that moment, whatever was cached,
\* evicted, abandoned or refused before (project_store.rs).
THEOREM ReadsAlwaysShowTheRows == StoreSpec => []ReadsShowTheRows
<1>1. ReadsInvariant => ReadsShowTheRows
  BY DEF ReadsInvariant
<1>2. QED
  BY <1>1, ReadsInvariantHolds, PTL

-----------------------------------------------------------------------------
(* The bytes of a listing are a number: a sum over a finite set exists and is *)
(* one, by induction on the size of the set.                                  *)

Smaller == {pair \in Nat \X Nat : pair[1] < pair[2]}

\* What holds of zero and of every successor holds of all numbers.
LEMMA Counting ==
    ASSUME NEW S \in SUBSET Nat, 0 \in S, \A n \in S : n + 1 \in S
    PROVE  S = Nat
<1>1. SUFFICES ASSUME Nat \ S # {} PROVE FALSE
  OBVIOUS
<1>2. IsWellFoundedOn(Smaller, Nat)
  BY NatLessThanWellFounded DEF OpToRel, Smaller
<1>3. \E n \in Nat \ S : \A m \in Nat \ S : ~(<<m, n>> \in Smaller)
  BY <1>1, <1>2, WFMin
<1>4. PICK n \in Nat \ S : \A m \in Nat \ S : ~(m < n)
  BY <1>3 DEF Smaller
<1>5. n # 0 /\ n - 1 \in Nat /\ n - 1 \in S
  BY <1>4
<1>6. QED
  BY <1>4, <1>5

Weight(found, id) == Size[found[id].title] + ViewBytes

OneOf(ids) == CHOOSE id \in ids : TRUE

\* A sum over the subsets of a set that belong to a family.
SumsOver(sum, found, family) ==
    sum = [ids \in family |->
             IF ids = {} THEN 0 ELSE Weight(found, OneOf(ids)) + sum[ids \ {OneOf(ids)}]]

\* The subsets with at most n members.
UpTo(n, listed) == {ids \in SUBSET listed : Cardinality(ids) <= n}

LEMMA OneFewer ==
    ASSUME NEW listed, IsFiniteSet(listed), NEW ids \in SUBSET listed, ids # {}
    PROVE  /\ OneOf(ids) \in ids
           /\ IsFiniteSet(ids) /\ Cardinality(ids) \in Nat
           /\ ids \ {OneOf(ids)} \in SUBSET listed
           /\ Cardinality(ids \ {OneOf(ids)}) = Cardinality(ids) - 1
<1>1. OneOf(ids) \in ids
  BY DEF OneOf
<1>2. IsFiniteSet(ids) /\ Cardinality(ids) \in Nat
  BY FS_Subset, FS_CardinalityType
<1>3. Cardinality(ids \ {OneOf(ids)}) = Cardinality(ids) - 1
  BY <1>1, <1>2, FS_RemoveElement
<1>4. QED
  BY <1>1, <1>2, <1>3

LEMMA SumsExist ==
    ASSUME NEW found, NEW listed, IsFiniteSet(listed)
    PROVE  \E sum : SumsOver(sum, found, SUBSET listed)
<1> DEFINE S == {n \in Nat : \E sum : SumsOver(sum, found, UpTo(n, listed))}
<1>1. 0 \in S
  <2> DEFINE sum == [ids \in UpTo(0, listed) |-> 0]
  <2>1. ASSUME NEW ids \in UpTo(0, listed) PROVE ids = {}
    <3>1. ids \in SUBSET listed /\ Cardinality(ids) <= 0
      BY DEF UpTo
    <3>2. IsFiniteSet(ids) /\ Cardinality(ids) \in Nat
      BY <3>1, FS_Subset, FS_CardinalityType
    <3>3. Cardinality(ids) = 0
      BY <3>1, <3>2
    <3>4. QED
      BY <3>2, <3>3, FS_EmptySet
  <2>2. SumsOver(sum, found, UpTo(0, listed))
    BY <2>1 DEF SumsOver
  <2> HIDE DEF sum
  <2>3. QED
    BY <2>2
<1>2. ASSUME NEW n \in S PROVE n + 1 \in S
  <2>1. n \in Nat /\ n + 1 \in Nat
    BY <1>2
  <2>2. PICK sum : SumsOver(sum, found, UpTo(n, listed))
    BY <1>2
  <2> DEFINE more == [ids \in UpTo(n + 1, listed) |->
                        IF ids = {} THEN 0 ELSE Weight(found, OneOf(ids)) + sum[ids \ {OneOf(ids)}]]
  <2>3. ASSUME NEW ids \in UpTo(n, listed)
        PROVE  ids \in UpTo(n + 1, listed) /\ more[ids] = sum[ids]
    <3>1. ids \in SUBSET listed /\ Cardinality(ids) <= n
      BY <2>3 DEF UpTo
    <3>2. Cardinality(ids) \in Nat
      BY <3>1, FS_Subset, FS_CardinalityType
    <3>3. ids \in UpTo(n + 1, listed)
      BY <2>1, <3>1, <3>2 DEF UpTo
    <3>4. sum[ids] = IF ids = {} THEN 0 ELSE Weight(found, OneOf(ids)) + sum[ids \ {OneOf(ids)}]
      BY <2>2, <2>3 DEF SumsOver
    <3>5. QED
      BY <3>3, <3>4
  <2>4. ASSUME NEW ids \in UpTo(n + 1, listed), ids # {}
        PROVE  more[ids] = Weight(found, OneOf(ids)) + more[ids \ {OneOf(ids)}]
    <3>1. ids \in SUBSET listed /\ Cardinality(ids) <= n + 1
      BY <2>4 DEF UpTo
    <3>2. ids \ {OneOf(ids)} \in UpTo(n, listed)
      BY <2>1, <2>4, <3>1, OneFewer DEF UpTo
    <3>3. more[ids \ {OneOf(ids)}] = sum[ids \ {OneOf(ids)}]
      BY <2>3, <3>2
    <3>4. QED
      BY <2>4, <3>3
  <2>5. ASSUME NEW ids \in UpTo(n + 1, listed)
        PROVE  more[ids] = IF ids = {} THEN 0 ELSE Weight(found, OneOf(ids)) + more[ids \ {OneOf(ids)}]
    BY <2>4, <2>5
  <2>6. more = [ids \in UpTo(n + 1, listed) |-> more[ids]]
    OBVIOUS
  <2> HIDE DEF more
  <2>7. SumsOver(more, found, UpTo(n + 1, listed))
    BY <2>5, <2>6 DEF SumsOver
  <2>8. QED
    BY <2>1, <2>7
<1> HIDE DEF S
<1>3. S = Nat
  BY <1>1, <1>2, Counting DEF S
<1>4. Cardinality(listed) \in Nat
  BY FS_CardinalityType
<1>5. UpTo(Cardinality(listed), listed) = SUBSET listed
  BY FS_Subset DEF UpTo
<1>6. \A n \in Nat : \E sum : SumsOver(sum, found, UpTo(n, listed))
  BY <1>3 DEF S
<1>7. PICK sum : SumsOver(sum, found, UpTo(Cardinality(listed), listed))
  BY <1>4, <1>6
<1>8. SumsOver(sum, found, SUBSET listed)
  BY <1>5, <1>7
<1>9. QED
  BY <1>8

\* A sum of numbers is a number.
LEMMA SumsAreNumbers ==
    ASSUME NEW found, NEW listed, IsFiniteSet(listed), NEW sum,
           SumsOver(sum, found, SUBSET listed), \A id \in listed : Weight(found, id) \in Nat
    PROVE  sum[listed] \in Nat
<1> DEFINE S == {n \in Nat : \A ids \in UpTo(n, listed) : sum[ids] \in Nat}
<1>1. ASSUME NEW ids \in SUBSET listed, ids # {} => sum[ids \ {OneOf(ids)}] \in Nat
      PROVE  sum[ids] \in Nat
  <2>1. sum[ids] = IF ids = {} THEN 0 ELSE Weight(found, OneOf(ids)) + sum[ids \ {OneOf(ids)}]
    BY DEF SumsOver
  <2>2. CASE ids = {}
    BY <2>1, <2>2
  <2>3. CASE ids # {}
    <3>1. Weight(found, OneOf(ids)) \in Nat
      BY <2>3, OneFewer
    <3>2. QED
      BY <1>1, <2>1, <2>3, <3>1
  <2>4. QED
    BY <2>2, <2>3
<1>2. 0 \in S
  <2>1. ASSUME NEW ids \in UpTo(0, listed) PROVE sum[ids] \in Nat
    <3>1. ids \in SUBSET listed /\ Cardinality(ids) <= 0
      BY <2>1 DEF UpTo
    <3>2. IsFiniteSet(ids) /\ Cardinality(ids) \in Nat
      BY <3>1, FS_Subset, FS_CardinalityType
    <3>3. Cardinality(ids) = 0
      BY <3>1, <3>2
    <3>4. ids = {}
      BY <3>2, <3>3, FS_EmptySet
    <3>5. QED
      BY <1>1, <3>1, <3>4
  <2>2. QED
    BY <2>1
<1>3. ASSUME NEW n \in S PROVE n + 1 \in S
  <2>1. n \in Nat /\ n + 1 \in Nat
    BY <1>3
  <2>2. ASSUME NEW ids \in UpTo(n + 1, listed) PROVE sum[ids] \in Nat
    <3>1. ids \in SUBSET listed /\ Cardinality(ids) <= n + 1
      BY <2>2 DEF UpTo
    <3>2. ASSUME ids # {} PROVE ids \ {OneOf(ids)} \in UpTo(n, listed)
      BY <2>1, <3>1, <3>2, OneFewer DEF UpTo
    <3>3. QED
      BY <1>1, <1>3, <3>1, <3>2
  <2>3. QED
    BY <2>1, <2>2
<1> HIDE DEF S
<1>4. S = Nat
  BY <1>2, <1>3, Counting DEF S
<1>5. Cardinality(listed) \in Nat /\ listed \in UpTo(Cardinality(listed), listed)
  BY FS_CardinalityType DEF UpTo
<1>6. QED
  BY <1>4, <1>5 DEF S

LEMMA ListBytesType ==
    ASSUME NEW found \in Registries
    PROVE  ListBytes(found) \in Nat
<1> DEFINE listed == {id \in Ids : found[id] # NoProject}
           sum == CHOOSE f : SumsOver(f, found, SUBSET listed)
<1>1. IsFiniteSet(listed)
  BY IdsAssumption, FS_Subset
<1>2. SumsOver(sum, found, SUBSET listed)
  BY <1>1, SumsExist
<1>3. ASSUME NEW id \in listed PROVE Weight(found, id) \in Nat
  <2>1. found[id] \in Projects
    BY <1>3 DEF Registries
  <2>2. Size[found[id].title] \in Nat
    BY <2>1, SizeAssumption DEF Projects
  <2>3. QED
    BY <2>2 DEF Weight, ViewBytes
<1>4. ListBytes(found) = sum[listed]
  BY DEF ListBytes, SumsOver, Weight, OneOf
<1> HIDE DEF sum, listed
<1>5. QED
  BY <1>1, <1>2, <1>3, <1>4, SumsAreNumbers

-----------------------------------------------------------------------------
(* Types and bounds of the registry. *)

Within(c) == c.bytes <= MaxBytes /\ Cardinality(Held(c)) <= MaxProjects

StoreInv == StoreTypeOK /\ CacheBounded /\ Apart(rows)

LEMMA HeldIsFinite ==
    ASSUME NEW c
    PROVE  IsFiniteSet(Held(c)) /\ Cardinality(Held(c)) \in Nat
<1>1. Held(c) \subseteq Ids
  BY DEF Held
<1>2. IsFiniteSet(Held(c))
  BY <1>1, IdsAssumption, FS_Subset
<1>3. QED
  BY <1>2, FS_CardinalityType

LEMMA EmptyIsTyped ==
    /\ Empty \in Caches /\ Within(Empty)
    /\ Cardinality(Held(Empty)) = 0 /\ Empty.bytes = 0
<1>1. Empty \in Caches
  BY DEF Empty, Caches, Registries, Lists
<1>2. Held(Empty) = {} /\ Empty.bytes = 0
  BY DEF Empty, Held
<1>3. Cardinality(Held(Empty)) = 0
  BY <1>2, FS_EmptySet
<1>4. QED
  BY <1>1, <1>2, <1>3, SizeAssumption DEF Within

\* There is room for one more project, if it fits into the cache at all.
LEMMA RoomIsTyped ==
    ASSUME NEW c \in Caches, Within(c), NEW bytes \in Nat
    PROVE  /\ Room(c, bytes) \in Caches /\ Within(Room(c, bytes))
           /\ Held(Room(c, bytes)) \subseteq Held(c)
           /\ Cardinality(Held(Room(c, bytes))) < MaxProjects
           /\ bytes <= MaxBytes => Room(c, bytes).bytes + bytes <= MaxBytes
<1>1. c.bytes \in Nat
  BY DEF Caches
<1>2. CASE Cardinality(Held(c)) = MaxProjects \/ c.bytes + bytes > MaxBytes
  <2>1. Room(c, bytes) = Empty
    BY <1>2 DEF Room
  <2>2. Held(Empty) \subseteq Held(c)
    BY DEF Held, Empty
  <2>3. QED
    BY <2>1, <2>2, EmptyIsTyped, SizeAssumption
<1>3. CASE ~(Cardinality(Held(c)) = MaxProjects \/ c.bytes + bytes > MaxBytes)
  <2>1. Room(c, bytes) = c
    BY <1>3 DEF Room
  <2>2. Cardinality(Held(c)) < MaxProjects /\ c.bytes + bytes <= MaxBytes
    BY <1>1, <1>3, HeldIsFinite, SizeAssumption DEF Within
  <2>3. QED
    BY <2>1, <2>2
<1>4. QED
  BY <1>2, <1>3

LEMMA RememberIsTyped ==
    ASSUME NEW c \in Caches, Within(c), NEW id \in Ids, NEW project \in Projects
    PROVE  Remember(c, id, project) \in Caches /\ Within(Remember(c, id, project))
<1> DEFINE bytes == Size[project.title]
           room == Room(c, bytes)
           grown == [room EXCEPT !.projects[id] = project, !.bytes = @ + bytes]
<1>1. bytes \in Nat
  BY SizeAssumption DEF Projects
<1>2. Remember(c, id, project) \in {c, room, grown}
      /\ (Remember(c, id, project) = grown \/ Remember(c, id, project) \in {c, room})
      /\ (Remember(c, id, project) \notin {c, room} => bytes <= MaxBytes)
  BY <1>1, SizeAssumption DEF Remember
<1> HIDE DEF bytes
<1>3. /\ room \in Caches /\ Within(room) /\ Cardinality(Held(room)) < MaxProjects
      /\ bytes <= MaxBytes => room.bytes + bytes <= MaxBytes
  BY <1>1, RoomIsTyped
<1> HIDE DEF room
<1>4. ASSUME bytes <= MaxBytes PROVE grown \in Caches /\ Within(grown)
  <2> DEFINE after == [room.projects EXCEPT ![id] = project]
  <2>1. room.projects \in Registries /\ room.bytes \in Nat
        /\ room.active \in Lists /\ room.all \in Lists
        /\ room = [projects |-> room.projects, active |-> room.active,
                   all |-> room.all, bytes |-> room.bytes]
    BY <1>3 DEF Caches
  <2>2. after \in Registries
    BY <2>1 DEF Registries
  <2>3. grown = [projects |-> after, active |-> room.active,
                 all |-> room.all, bytes |-> room.bytes + bytes]
    <3>1. PICK p, a, l, b : room = [projects |-> p, active |-> a, all |-> l, bytes |-> b]
      BY <2>1
    <3>2. room.projects = p /\ room.active = a /\ room.all = l /\ room.bytes = b
      BY <3>1
    <3> DEFINE q == [p EXCEPT ![id] = project]
    <3>3. grown = [[room EXCEPT !.projects = q] EXCEPT !.bytes = b + bytes]
      BY <3>1
    <3> HIDE DEF q, grown
    <3>4. grown = [projects |-> q, active |-> a, all |-> l, bytes |-> b + bytes]
      BY <3>1, <3>3
    <3>5. QED
      BY <3>2, <3>4 DEF q
  <2>4. \A other \in Ids : other # id => after[other] = room.projects[other]
    BY <2>1 DEF Registries
  <2> HIDE DEF after, grown
  <2>5. grown.projects = after /\ grown.bytes = room.bytes + bytes
    BY <2>3
  <2>6. grown \in Caches
    <3>1. room.bytes + bytes \in Nat
      BY <1>1, <2>1
    <3>2. QED
      BY <2>1, <2>2, <2>3, <3>1 DEF Caches
  <2>7. Held(grown) \subseteq Held(room) \cup {id}
    BY <2>4, <2>5 DEF Held
  <2>8. Cardinality(Held(grown)) <= MaxProjects
    <3>1. IsFiniteSet(Held(room)) /\ Cardinality(Held(room)) \in Nat
          /\ Cardinality(Held(grown)) \in Nat
      BY HeldIsFinite
    <3>2. IsFiniteSet(Held(room) \cup {id})
          /\ Cardinality(Held(room) \cup {id}) <= Cardinality(Held(room)) + 1
          /\ Cardinality(Held(room) \cup {id}) \in Nat
      <4>1. IsFiniteSet(Held(room) \cup {id})
        BY <3>1, FS_AddElement
      <4>2. Cardinality(Held(room) \cup {id}) \in {Cardinality(Held(room)), Cardinality(Held(room)) + 1}
        BY <3>1, FS_AddElement
      <4>3. QED
        BY <3>1, <4>1, <4>2
    <3>3. Cardinality(Held(grown)) <= Cardinality(Held(room) \cup {id})
      BY <2>7, <3>2, FS_Subset
    <3>4. QED
      BY <1>3, <3>1, <3>2, <3>3, SizeAssumption
  <2>9. QED
    BY <1>3, <1>4, <2>5, <2>6, <2>8 DEF Within
<1> HIDE DEF grown
<1>5. QED
  BY <1>2, <1>3, <1>4

LEMMA SelectedIsTyped ==
    ASSUME NEW rs \in Registries, NEW read
    PROVE  Selected(rs, read) \in Registries
<1>1. ASSUME NEW id \in Ids PROVE rs[id] \in Projects \cup {NoProject}
  BY DEF Registries
<1>2. QED
  BY <1>1 DEF Selected, Registries

LEMMA RememberListIsTyped ==
    ASSUME NEW found \in Registries, NEW paused
    PROVE  RememberList(paused, found) \in Caches /\ Within(RememberList(paused, found))
<1> DEFINE listed == {id \in Ids : found[id] # NoProject}
           active == {id \in listed : ~found[id].paused}
           all == IF paused THEN listed ELSE Unlisted
           full == [projects |-> found, active |-> active, all |-> all, bytes |-> ListBytes(found)]
<1>1. CASE Cardinality(listed) > MaxProjects \/ ListBytes(found) > MaxBytes
  <2>1. RememberList(paused, found) = Empty
    BY <1>1 DEF RememberList
  <2>2. QED
    BY <2>1, EmptyIsTyped
<1>2. CASE ~(Cardinality(listed) > MaxProjects \/ ListBytes(found) > MaxBytes)
  <2>1. RememberList(paused, found) = full
    BY <1>2 DEF RememberList
  <2>2. active \in Lists /\ all \in Lists
    BY DEF Lists
  <2>3. ListBytes(found) \in Nat
    BY ListBytesType
  <2> HIDE DEF active, all
  <2>4. full \in Caches
    BY <2>2, <2>3 DEF Caches
  <2>5. full.projects = found /\ full.bytes = ListBytes(found)
    OBVIOUS
  <2> HIDE DEF full
  <2>6. Held(full) = listed
    BY <2>5 DEF Held
  <2>7. Cardinality(listed) \in Nat
    BY <2>6, HeldIsFinite
  <2> HIDE DEF listed
  <2>8. Within(full)
    BY <1>2, <2>3, <2>5, <2>6, <2>7, SizeAssumption DEF Within
  <2>9. QED
    BY <2>1, <2>4, <2>8
<1>3. QED
  BY <1>1, <1>2

LEMMA DoingIsTyped ==
    ASSUME StoreTypeOK
    PROVE  /\ doing.stage = "executing" => doing.command \in Commands
           /\ doing.stage = "querying" => doing.read \in Reads /\ doing.found \in Registries
           /\ doing.stage = "remembering" =>
                doing.read \in Reads /\ doing.found \in Registries
                /\ doing.left \in SUBSET Ids /\ Remembering(doing)
<1>1. doing \in Doings
  BY DEF StoreTypeOK
<1>2. doing.stage = "executing" => doing.command \in Commands
  BY <1>1 DEF Doings, Idle
<1>3. doing.stage = "querying" => doing.read \in Reads /\ doing.found \in Registries
  BY <1>1 DEF Doings, Idle
<1>4. ASSUME doing.stage = "remembering"
      PROVE  doing \in [stage: {"remembering"}, read: Reads, found: Registries, left: SUBSET Ids]
  BY <1>1, <1>4 DEF Doings, Idle
<1>5. doing.stage = "remembering" =>
        doing.read \in Reads /\ doing.found \in Registries
        /\ doing.left \in SUBSET Ids /\ Remembering(doing)
  BY <1>4 DEF Remembering
<1>6. QED
  BY <1>2, <1>3, <1>5

\* What the end of a read changes.
LEMMA AnswersAreTyped ==
    ASSUME NEW read \in Reads, NEW found \in Registries, Answered(read, found)
    PROVE  doing' \in Doings /\ answer' \in [read: Reads, found: Registries] \cup {NoProject}
BY DEF Answered, Doings

\* A step that leaves rows, statements and counters alone.
LEMMA ReadsKeepStore ==
    ASSUME StoreInv, UNCHANGED <<rows, sent, changes, restarts>>,
           doing' \in Doings, answer' \in [read: Reads, found: Registries] \cup {NoProject},
           cache' \in Caches, Within(cache')
    PROVE  StoreInv'
BY DEF StoreInv, StoreTypeOK, Apart, TitlesDiffer, LocationsDiffer, CacheBounded, Within, Held

LEMMA CacheIsTyped ==
    ASSUME StoreInv
    PROVE  /\ cache \in Caches /\ Within(cache) /\ rows \in Registries
           /\ doing \in Doings /\ answer \in [read: Reads, found: Registries] \cup {NoProject}
BY DEF StoreInv, StoreTypeOK, CacheBounded, Within

LEMMA LookKeepsStore ==
    ASSUME StoreInv, NEW read \in Reads, Look(read)
    PROVE  StoreInv'
<1>1. UNCHANGED <<rows, cache, sent, changes, restarts>>
  BY DEF Look
<1>2. cache.projects \in Registries
  BY CacheIsTyped DEF Caches
<1>3. CASE Hit(read)
  <2>1. Answered(read, FromCache(read))
    BY <1>3 DEF Look
  <2>2. FromCache(read) \in Registries
    <3>1. CASE read.kind = "list"
      BY <1>2, <3>1 DEF FromCache, Registries
    <3>2. CASE read.kind # "list"
      BY <1>2, <3>2, SelectedIsTyped DEF FromCache
    <3>3. QED
      BY <3>1, <3>2
  <2>3. QED
    BY <1>1, <2>1, <2>2, AnswersAreTyped, CacheIsTyped, ReadsKeepStore
<1>4. CASE ~Hit(read)
  <2>1. doing' = [stage |-> "querying", read |-> read, found |-> Cached(read)] /\ UNCHANGED answer
    BY <1>4 DEF Look
  <2>2. Cached(read) \in Registries
    BY <1>2 DEF Cached, Registries
  <2>3. doing' \in Doings
    BY <2>1, <2>2 DEF Doings
  <2>4. QED
    BY <1>1, <2>1, <2>3, CacheIsTyped, ReadsKeepStore
<1>5. QED
  BY <1>3, <1>4

LEMMA QueryKeepsStore ==
    ASSUME StoreInv, Query
    PROVE  StoreInv'
<1> DEFINE read == doing.read
           loaded == Selected(rows, read)
<1>1. UNCHANGED <<rows, sent, changes, restarts>> /\ doing.stage = "querying"
  BY DEF Query
<1>2. read \in Reads /\ doing.found \in Registries
  BY <1>1, DoingIsTyped DEF StoreInv
<1>3. loaded \in Registries
  BY SelectedIsTyped, CacheIsTyped
<1>4. CASE read.kind = "list"
  <2>1. cache' = RememberList(read.paused, loaded) /\ Answered(read, loaded)
    BY <1>4 DEF Query
  <2> HIDE DEF loaded, read
  <2>2. QED
    BY <1>1, <1>2, <1>3, <2>1, RememberListIsTyped, AnswersAreTyped, ReadsKeepStore
<1>5. CASE read.kind = "get"
  <2>1. PICK id \in read.ids :
          cache' = IF loaded[id] = NoProject THEN cache ELSE Remember(cache, id, loaded[id])
    BY <1>5 DEF Query
  <2>2. Answered(read, loaded)
    BY <1>5 DEF Query
  <2>3. id \in Ids
    BY <1>2 DEF Reads
  <2> HIDE DEF loaded, read
  <2>4. loaded[id] # NoProject => loaded[id] \in Projects
    BY <1>3, <2>3 DEF Registries
  <2>5. cache' \in Caches /\ Within(cache')
    BY <2>1, <2>3, <2>4, CacheIsTyped, RememberIsTyped
  <2>6. QED
    BY <1>1, <1>2, <1>3, <2>2, <2>5, AnswersAreTyped, ReadsKeepStore
<1>6. CASE read.kind = "get_many"
  <2>1. doing' = Loaded(read, doing.found, loaded) /\ UNCHANGED <<cache, answer>>
    BY <1>6 DEF Query
  <2>2. read.ids \subseteq Ids
    BY <1>2 DEF Reads
  <2> HIDE DEF loaded, read
  <2> DEFINE missing == {id \in read.ids : doing.found[id] = NoProject}
             found == [id \in Ids |-> IF id \in missing THEN loaded[id] ELSE doing.found[id]]
             left == {id \in missing : loaded[id] # NoProject}
  <2>3. found \in Registries
    BY <1>2, <1>3 DEF Registries
  <2>4. left \in SUBSET Ids
    BY <2>2
  <2>5. doing' = [stage |-> "remembering", read |-> read, found |-> found, left |-> left]
    BY <2>1 DEF Loaded
  <2> HIDE DEF found, left
  <2>6. doing' \in Doings
    BY <1>2, <2>3, <2>4, <2>5 DEF Doings
  <2>7. QED
    BY <1>1, <2>1, <2>6, CacheIsTyped, ReadsKeepStore
<1>7. QED
  BY <1>4, <1>5, <1>6 DEF Query

LEMMA RememberNextKeepsStore ==
    ASSUME StoreInv, ReadsInvariant, RememberNext
    PROVE  StoreInv'
<1>1. UNCHANGED <<rows, sent, changes, restarts>> /\ doing.stage = "remembering"
  BY DEF RememberNext
<1>2. /\ doing.read \in Reads /\ doing.found \in Registries
      /\ doing.left \in SUBSET Ids /\ Remembering(doing)
  BY <1>1, DoingIsTyped DEF StoreInv
<1>3. CASE doing.left = {}
  <2>1. Answered(doing.read, doing.found) /\ UNCHANGED cache
    BY <1>3 DEF RememberNext
  <2>2. QED
    BY <1>1, <1>2, <2>1, AnswersAreTyped, CacheIsTyped, ReadsKeepStore
<1>4. CASE doing.left # {}
  <2>1. PICK id \in doing.left :
          /\ cache' = Remember(cache, id, doing.found[id])
          /\ doing' = [doing EXCEPT !.left = @ \ {id}]
          /\ UNCHANGED answer
    BY <1>4 DEF RememberNext
  <2>2. id \in Ids /\ doing.found[id] # NoProject
    BY <1>1 DEF ReadsInvariant, RememberingAgrees
  <2>3. doing.found[id] \in Projects
    BY <1>2, <2>2 DEF Registries
  <2>4. cache' \in Caches /\ Within(cache')
    BY <2>1, <2>2, <2>3, CacheIsTyped, RememberIsTyped
  <2>5. doing' = [stage |-> "remembering", read |-> doing.read, found |-> doing.found,
                  left |-> doing.left \ {id}]
    BY <1>2, <2>1 DEF Remembering
  <2>6. doing' \in Doings
    BY <1>2, <2>5 DEF Doings
  <2>7. QED
    BY <1>1, <2>1, <2>4, <2>6, CacheIsTyped, ReadsKeepStore
<1>5. QED
  BY <1>3, <1>4

\* Commands, their failures, statements that nobody waits for, and restarts.
LEMMA ChangesKeepStore ==
    ASSUME StoreInv,
           Execute \/ StoreFails \/ Abandon \/ RunSent \/ Restart \/ \E c \in Commands : Begin(c)
    PROVE  StoreInv'
<1>1. /\ cache \in Caches /\ Within(cache) /\ rows \in Registries
      /\ doing \in Doings /\ answer \in [read: Reads, found: Registries] \cup {NoProject}
      /\ sent \in Seq(Commands) /\ changes \in 0 .. MaxChanges /\ restarts \in 0 .. MaxRestarts
      /\ Apart(rows)
  BY CacheIsTyped DEF StoreInv, StoreTypeOK
<1>2. Idle \in Doings
  BY DEF Doings
<1>3. /\ Apart(rows') /\ sent' \in Seq(Commands) /\ doing' \in Doings
      /\ cache' \in {cache, Empty} /\ answer' \in {answer, NoProject}
      /\ changes' \in 0 .. MaxChanges /\ restarts' \in 0 .. MaxRestarts
  <2>1. CASE Execute
    <3>1. doing.command \in Commands
      BY <2>1, DoingIsTyped DEF Execute, StoreInv
    <3>2. QED
      BY <1>1, <1>2, <2>1, <3>1, EffectKeepsApart DEF Execute
  <2>2. CASE StoreFails
    BY <1>1, <1>2, <2>2 DEF StoreFails
  <2>3. CASE Abandon
    <3>1. doing.command \in Commands
      BY <2>3, DoingIsTyped DEF Abandon, StoreInv
    <3>2. QED
      BY <1>1, <1>2, <2>3, <3>1 DEF Abandon
  <2>4. CASE RunSent
    <3>1. Head(sent) \in Commands /\ Tail(sent) \in Seq(Commands)
      BY <1>1, <2>4 DEF RunSent
    <3>2. QED
      BY <1>1, <2>4, <3>1, EffectKeepsApart DEF RunSent
  <2>5. CASE Restart
    <3>1. restarts' \in 0 .. MaxRestarts
      BY <1>1, <2>5, StoreBoundsAssumption DEF Restart
    <3>2. QED
      BY <1>1, <1>2, <2>5, <3>1 DEF Restart
  <2>6. ASSUME NEW c \in Commands, Begin(c)
        PROVE  /\ Apart(rows') /\ sent' \in Seq(Commands) /\ doing' \in Doings
               /\ cache' \in {cache, Empty} /\ answer' \in {answer, NoProject}
               /\ changes' \in 0 .. MaxChanges /\ restarts' \in 0 .. MaxRestarts
    <3>1. changes' \in 0 .. MaxChanges
      BY <1>1, <2>6, StoreBoundsAssumption DEF Begin
    <3>2. doing' \in Doings
      BY <2>6 DEF Begin, Doings
    <3>3. QED
      BY <1>1, <2>6, <3>1, <3>2 DEF Begin
  <2>7. QED
    BY <2>1, <2>2, <2>3, <2>4, <2>5, <2>6
<1>4. cache' \in Caches /\ Within(cache')
  BY <1>1, <1>3, EmptyIsTyped
<1>5. CacheBounded'
  BY <1>4 DEF CacheBounded, Within, Held
<1>6. QED
  BY <1>1, <1>3, <1>4, <1>5 DEF StoreInv, StoreTypeOK, Apart

LEMMA StoreInvHolds == StoreSpec => []StoreInv
<1>1. StoreInit => StoreInv
  <2> SUFFICES ASSUME StoreInit PROVE StoreInv
    OBVIOUS
  <2>1. Apart(rows)
    BY FirstRowsAssumption DEF StoreInit, Apart
  <2>2. CacheBounded
    BY EmptyIsTyped DEF StoreInit, CacheBounded, Within
  <2>3. StoreTypeOK
    BY <2>1, EmptyIsTyped, StoreBoundsAssumption DEF StoreInit, StoreTypeOK, Apart, Doings
  <2>4. QED
    BY <2>1, <2>2, <2>3 DEF StoreInv
<1>2. StoreInv /\ ReadsInvariant /\ [StoreNext]_storeVars => StoreInv'
  <2> SUFFICES ASSUME StoreInv, ReadsInvariant, [StoreNext]_storeVars PROVE StoreInv'
    OBVIOUS
  <2>1. CASE UNCHANGED storeVars
    BY <2>1, CacheIsTyped, ReadsKeepStore DEF storeVars
  <2>2. QED
    BY <2>1, LookKeepsStore, QueryKeepsStore, RememberNextKeepsStore, ChangesKeepStore DEF StoreNext
<1>3. QED
  BY <1>1, <1>2, ReadsInvariantHolds, PTL DEF StoreSpec

\* No two projects have one title, or resolve to one directory, whichever paths
\* name it (add_project.rs, rename_project.rs, task_location.rs).
THEOREM ProjectsStayApart == StoreSpec => []ProjectsApart
<1>1. StoreInv => ProjectsApart
  BY DEF StoreInv, Apart, ProjectsApart
<1>2. QED
  BY <1>1, StoreInvHolds, PTL

\* The cache never holds more projects, or more bytes, than it may (cache.rs
\* remember and remember_list).
THEOREM CacheStaysBounded == StoreSpec => []CacheBounded
<1>1. StoreInv => CacheBounded
  BY DEF StoreInv
<1>2. QED
  BY <1>1, StoreInvHolds, PTL

-----------------------------------------------------------------------------
(* Renames.  First comes who owns what: the staging directory belongs to the  *)
(* rename that created it, the row to the one that wrote it.  Then, from      *)
(* that, where the notes are at every step.                                   *)

\* The steps at which the row is still to be written, and those at which it was
\* and may have to be changed back.
BeforeRow == {"checking", "creating", "copying", "cleaning", "updating", "discarding"}
OwningRow == {"committing", "moving", "installing", "restoring", "cleaning restored",
              "removing backup", "rolling back"}

SeenAtSource == \A r \in Renamers : step[r] \in BeforeRow => seen[r].home = Source

RowOwned ==
    \A r \in Renamers : step[r] \in OwningRow =>
        /\ row.home = target[r]
        /\ \A other \in Renamers \ {r} : step[other] \notin OwningRow

FieldsCounted == row.fields = updates

Ownership ==
    /\ TypeOK
    /\ FieldsCounted
    /\ SeenAtSource
    /\ StagingOwned
    /\ RowOwned

-----------------------------------------------------------------------------
\* What is used of the sets of steps, directories and contents.
LEMMA StepsListed ==
    \A s \in {"checking", "creating", "copying", "cleaning", "updating", "discarding",
              "committing", "moving", "installing", "restoring", "cleaning restored",
              "removing backup", "rolling back", "renamed", "backup retained", "refused",
              "rolled back", "interrupted"} : s \in Steps
BY DEF Steps, NotListed, Ended

LEMMA PlacesListed ==
    /\ Source \in Places /\ Staging \in Places /\ Backup \in Places
    /\ Homes \subseteq Places /\ Destinations \subseteq Homes /\ Source \in Homes
    /\ Source # Staging /\ Source # Backup /\ Staging # Backup
    /\ Staging \notin Homes /\ Backup \notin Homes /\ Source \notin Destinations
BY DirectoriesAssumption DEF Places, Homes

LEMMA ContentsListed ==
    /\ Absent \in Contents
    /\ \A some \in SUBSET Notes : some \in Contents /\ some # Absent
    /\ \A content \in Contents : content # Absent => content \subseteq Notes
BY AbsentAssumption DEF Contents

\* Directories that are moved or removed have contents again.
LEMMA MovesTyped ==
    ASSUME TypeOK, NEW from \in Places, NEW to \in Places
    PROVE  Moved(from, to) \in [Places -> Contents] /\ Removed(from) \in [Places -> Contents]
BY ContentsListed DEF TypeOK, Moved, Removed

\* Every action keeps the types; of the row only its home and its count matter.
LEMMA TypesKept ==
    ASSUME TypeOK, FieldsCounted, StagingOwned, [Next]_vars
    PROVE  TypeOK' /\ FieldsCounted'
<1> DEFINE Kept == TypeOK' /\ FieldsCounted'
<1> USE DEF At, GoTo, world, rename, writing, counters
<1>1. ASSUME NEW r \in Renamers, Read(r) PROVE Kept
  BY <1>1, StepsListed DEF Read, TypeOK, FieldsCounted
<1>2. ASSUME NEW r \in Renamers, Check(r) PROVE Kept
  BY <1>2, StepsListed DEF Check, TypeOK, FieldsCounted
<1>3. ASSUME NEW r \in Renamers, CreateStaging(r) PROVE Kept
  <2>1. dir' \in [Places -> Contents] /\ listing' \in [Renamers -> SUBSET Notes]
    BY <1>3, PlacesListed, ContentsListed DEF TypeOK, CreateStaging, Exists
  <2>2. step' \in [Renamers -> Steps]
    BY <1>3, StepsListed DEF TypeOK, CreateStaging
  <2>3. QED
    BY <1>3, <2>1, <2>2 DEF CreateStaging, TypeOK, FieldsCounted
<1>4. ASSUME NEW r \in Renamers, NEW note \in Notes, CopyNote(r, note) PROVE Kept
  <2>1. dir[Staging] \cup {note} \in Contents
    <3>1. Exists(Staging)
      BY <1>4 DEF CopyNote, StagingOwned, OwningStaging
    <3>2. dir[Staging] \subseteq Notes
      BY <3>1, PlacesListed, ContentsListed DEF TypeOK, Exists
    <3>3. QED
      BY <3>2, ContentsListed
  <2>2. dir' \in [Places -> Contents]
    BY <1>4, <2>1 DEF TypeOK, CopyNote
  <2>3. step' \in [Renamers -> Steps]
    BY <1>4, StepsListed DEF TypeOK, CopyNote
  <2>4. QED
    BY <1>4, <2>2, <2>3 DEF CopyNote, TypeOK, FieldsCounted
<1>5. ASSUME NEW r \in Renamers, Rewrite(r) PROVE Kept
  BY <1>5, StepsListed DEF Rewrite, TypeOK, FieldsCounted
<1>6. ASSUME NEW r \in Renamers, RemoveStaging(r) PROVE Kept
  BY <1>6, StepsListed, PlacesListed, ContentsListed
  DEF RemoveStaging, Removed, TypeOK, FieldsCounted
<1>7. ASSUME NEW r \in Renamers, UpdateRow(r) PROVE Kept
  <2>1. /\ target[r] \in Homes /\ row \in Rows
        /\ row' \in {row, [row EXCEPT !.home = target[r]]}
    BY <1>7, PlacesListed DEF TypeOK, UpdateRow
  <2>2. row' \in Rows /\ row'.fields = row.fields
    BY <2>1 DEF Rows
  <2>3. step' \in [Renamers -> Steps] /\ seen' \in [Renamers -> Rows]
    BY <1>7, <2>2, StepsListed DEF TypeOK, UpdateRow
  <2>4. QED
    BY <1>7, <2>2, <2>3 DEF UpdateRow, TypeOK, FieldsCounted
<1>8. ASSUME NEW r \in Renamers, CheckAgain(r) PROVE Kept
  BY <1>8, StepsListed DEF CheckAgain, TypeOK, FieldsCounted
<1>9. ASSUME NEW r \in Renamers, MoveSource(r) PROVE Kept
  <2>1. dir' \in [Places -> Contents]
    <3>1. dir' \in {Removed(Staging), Moved(Source, Backup)}
      BY <1>9 DEF MoveSource
    <3>2. Removed(Staging) \in [Places -> Contents] /\ Moved(Source, Backup) \in [Places -> Contents]
      BY PlacesListed, MovesTyped DEF TypeOK
    <3>3. QED
      BY <3>1, <3>2
  <2>2. step' \in [Renamers -> Steps]
    BY <1>9, StepsListed DEF TypeOK, MoveSource
  <2>3. QED
    BY <1>9, <2>1, <2>2 DEF MoveSource, TypeOK, FieldsCounted
<1>10. ASSUME NEW r \in Renamers, Install(r) PROVE Kept
  <2>1. target[r] \in Places
    BY PlacesListed DEF TypeOK
  <2>2. dir' \in [Places -> Contents]
    <3>1. dir' \in {dir, Moved(Staging, target[r])}
      BY <1>10 DEF Install
    <3>2. dir \in [Places -> Contents] /\ Moved(Staging, target[r]) \in [Places -> Contents]
      BY <2>1, PlacesListed, MovesTyped DEF TypeOK
    <3>3. QED
      BY <3>1, <3>2
  <2>3. step' \in [Renamers -> Steps]
    BY <1>10, StepsListed DEF TypeOK, Install
  <2>4. QED
    BY <1>10, <2>2, <2>3 DEF Install, TypeOK, FieldsCounted
<1>11. ASSUME NEW r \in Renamers, RemoveBackup(r) PROVE Kept
  BY <1>11, StepsListed, PlacesListed, ContentsListed
  DEF RemoveBackup, Removed, TypeOK, FieldsCounted
<1>12. ASSUME NEW r \in Renamers, RestoreSource(r) PROVE Kept
  <2>1. dir' \in [Places -> Contents]
    <3>1. dir' \in {dir, Moved(Backup, Source)}
      BY <1>12 DEF RestoreSource
    <3>2. dir \in [Places -> Contents] /\ Moved(Backup, Source) \in [Places -> Contents]
      BY PlacesListed, MovesTyped DEF TypeOK
    <3>3. QED
      BY <3>1, <3>2
  <2>2. step' \in [Renamers -> Steps] /\ broken' \in BOOLEAN
    BY <1>12, StepsListed DEF TypeOK, RestoreSource
  <2>3. QED
    BY <1>12, <2>1, <2>2 DEF RestoreSource, TypeOK, FieldsCounted
<1>13. ASSUME NEW r \in Renamers, RemoveRestoredStaging(r) PROVE Kept
  BY <1>13, StepsListed, PlacesListed, ContentsListed
  DEF RemoveRestoredStaging, Removed, TypeOK, FieldsCounted
<1>14. ASSUME NEW r \in Renamers, RollBackRow(r) PROVE Kept
  <2>1. row \in Rows /\ row' \in {row, [row EXCEPT !.home = Source]}
    BY <1>14 DEF TypeOK, RollBackRow
  <2>2. row' \in Rows /\ row'.fields = row.fields
    BY <2>1, PlacesListed DEF Rows
  <2>3. step' \in [Renamers -> Steps] /\ broken' \in BOOLEAN
    BY <1>14, StepsListed DEF TypeOK, RollBackRow
  <2>4. QED
    BY <1>14, <2>2, <2>3 DEF RollBackRow, TypeOK, FieldsCounted
<1>15. ASSUME NEW r \in Renamers, Fail(r) PROVE Kept
  <2>1. dir' \in [Places -> Contents]
    <3>1. dir' \in {dir, Removed(Staging)}
      BY <1>15 DEF Fail, OnFailure
    <3>2. QED
      BY <3>1, PlacesListed, MovesTyped DEF TypeOK
  <2>2. step' \in [Renamers -> Steps]
    <3>1. \E s \in Steps : step' = [step EXCEPT ![r] = s]
      BY <1>15, StepsListed DEF Fail, OnFailure
    <3>2. QED
      BY <3>1 DEF TypeOK
  <2>3. FailureIsPossible /\ broken' \in {broken, TRUE}
    BY <1>15 DEF Fail, OnFailure
  <2>4. failures' \in 0 .. MaxFailures
    BY <2>3, BoundsAssumption DEF TypeOK, FailureIsPossible
  <2>5. UNCHANGED <<row, target, seen, listing, path, stored, saved, late, updates, interrupts>>
    BY <1>15 DEF Fail, OnFailure
  <2>6. QED
    BY <2>1, <2>2, <2>3, <2>4, <2>5 DEF TypeOK, FieldsCounted
<1>16. ASSUME NEW r \in Renamers, Cancel(r) PROVE Kept
  <2>1. /\ target[r] \in Homes /\ row \in Rows
        /\ row' \in {row, [row EXCEPT !.home = target[r]], [row EXCEPT !.home = Source]}
    BY <1>16, PlacesListed DEF TypeOK, Cancel
  <2>2. row' \in Rows /\ row'.fields = row.fields
    BY <2>1, PlacesListed DEF Rows
  <2>3. interrupts' \in 0 .. MaxInterrupts
    <3>1. interrupts < MaxInterrupts /\ interrupts' = interrupts + 1
      BY <1>16 DEF Cancel
    <3>2. QED
      BY <3>1, BoundsAssumption DEF TypeOK
  <2>4. step' \in [Renamers -> Steps] /\ broken' \in BOOLEAN
    BY <1>16, StepsListed DEF TypeOK, Cancel
  <2>5. UNCHANGED <<dir, target, seen, listing, path, stored, saved, late, updates, failures>>
    BY <1>16 DEF Cancel
  <2>6. QED
    BY <2>2, <2>3, <2>4, <2>5 DEF TypeOK, FieldsCounted
<1>17. ASSUME NEW w \in Writers, Resolve(w) PROVE Kept
  <2>1. row.home \in Homes
    BY DEF TypeOK, Rows
  <2>2. QED
    BY <1>17, <2>1 DEF Resolve, TypeOK, FieldsCounted
<1>18. ASSUME NEW w \in Writers, StoreNote(w) PROVE Kept
  <2>1. path[w] \in Places /\ w \in Notes
    BY <1>18, PlacesListed DEF StoreNote, TypeOK, Notes
  <2>2. /\ {w} \in Contents
        /\ Exists(path[w]) => dir[path[w]] \cup {w} \in Contents
    BY <2>1, ContentsListed DEF TypeOK, Exists
  <2>3. dir' \in [Places -> Contents]
    BY <1>18, <2>1, <2>2 DEF StoreNote, TypeOK, Exists
  <2>4. saved' \subseteq Notes /\ late' \subseteq saved'
    BY <1>18, <2>1 DEF StoreNote, TypeOK
  <2>5. path' \in [Writers -> (Homes \cup {Absent})] /\ stored' \subseteq Writers
    BY <1>18 DEF StoreNote, TypeOK
  <2>6. QED
    BY <1>18, <2>3, <2>4, <2>5 DEF StoreNote, TypeOK, FieldsCounted
<1>19. ASSUME UpdateProject PROVE Kept
  <2>1. row \in Rows /\ row.fields = updates /\ updates \in 0 .. MaxUpdates
    BY DEF TypeOK, FieldsCounted
  <2>2. updates' \in 0 .. MaxUpdates /\ row' \in Rows /\ row'.fields = updates'
    BY <1>19, <2>1, BoundsAssumption DEF UpdateProject, Rows
  <2>3. QED
    BY <1>19, <2>2 DEF UpdateProject, TypeOK, FieldsCounted
<1>20. ASSUME Crash PROVE Kept
  <2>1. step' \in [Renamers -> Steps]
    BY <1>20, StepsListed DEF Crash, TypeOK
  <2>2. path' \in [Writers -> (Homes \cup {Absent})] /\ stored' \subseteq Writers
    BY <1>20 DEF Crash, TypeOK
  <2>3. interrupts' \in 0 .. MaxInterrupts
    BY <1>20, BoundsAssumption DEF TypeOK, Crash
  <2>4. broken' \in BOOLEAN
    BY <1>20 DEF Crash, TypeOK
  <2>5. UNCHANGED <<dir, row, target, seen, listing, updates, failures, saved, late>>
    BY <1>20 DEF Crash
  <2>6. QED
    BY <2>1, <2>2, <2>3, <2>4, <2>5 DEF TypeOK, FieldsCounted
<1>21. CASE UNCHANGED vars
  BY <1>21 DEF vars, TypeOK, FieldsCounted
<1>22. QED
  BY <1>1, <1>2, <1>3, <1>4, <1>5, <1>6, <1>7, <1>8, <1>9, <1>10, <1>11, <1>12, <1>13, <1>14,
     <1>15, <1>16, <1>17, <1>18, <1>19, <1>20, <1>21 DEF Next, RenameStep

-----------------------------------------------------------------------------
\* What one step of a rename does to what the renames share, in terms of where
\* that rename was and where it is then.
Disciplined(r) ==
    /\ step' = [step EXCEPT ![r] = step'[r]]
    /\ target' = target
    /\ \A other \in Renamers \ {r} : seen'[other] = seen[other]
    /\ step'[r] \in BeforeRow => seen'[r].home = Source
    /\ step'[r] \in OwningStaging => dir'[Staging] # Absent
    /\ step'[r] \in OwningStaging /\ Exists(Staging) => step[r] \in OwningStaging
    /\ Exists(Staging) /\ dir'[Staging] = Absent => step[r] \in OwningStaging
    /\ step'[r] \in OwningRow => row'.home = target[r]
    /\ step'[r] \in OwningRow => step[r] \in OwningRow \/ row.home = Source
    /\ row'.home = row.home \/ row.home = Source \/ step[r] \in OwningRow

\* A step that only goes from one place in the code to another.
LEMMA GoingIsDisciplined ==
    ASSUME Ownership, NEW r \in Renamers, NEW s \in Steps,
           step' = [step EXCEPT ![r] = s], UNCHANGED <<dir, row, target, seen>>,
           s \in BeforeRow => step[r] \in BeforeRow,
           s \in OwningStaging => step[r] \in OwningStaging,
           s \in OwningRow => step[r] \in OwningRow
    PROVE  Disciplined(r)
<1>1. step'[r] = s
  BY DEF Ownership, TypeOK
<1>2. QED
  BY <1>1 DEF Ownership, SeenAtSource, StagingOwned, RowOwned, Disciplined, Exists

\* A step that removes the staging directory, which is its own.
LEMMA RemovingIsDisciplined ==
    ASSUME Ownership, NEW r \in Renamers, NEW s \in Steps,
           step' = [step EXCEPT ![r] = s], dir' = Removed(Staging), UNCHANGED <<row, target, seen>>,
           step[r] \in OwningStaging, s \notin OwningStaging, s \notin BeforeRow,
           s \in OwningRow => step[r] \in OwningRow
    PROVE  Disciplined(r)
<1>1. step'[r] = s
  BY DEF Ownership, TypeOK
<1>2. QED
  BY <1>1 DEF Ownership, RowOwned, Disciplined, Exists

\* Every step of a rename is disciplined, whatever fails.
LEMMA RenamesAreDisciplined ==
    ASSUME Ownership, NEW r \in Renamers, RenameStep(r) \/ Cancel(r)
    PROVE  Disciplined(r)
<1> USE DEF At, GoTo, world, rename
<1> USE DEF BeforeRow, OwningStaging, OwningRow
<1> DEFINE Passes(from, to) ==
       /\ step[r] = from
       /\ step' = [step EXCEPT ![r] = to]
       /\ step'[r] = to
<1>1. CASE Read(r)
  <2>1. Passes("idle", "checking") /\ UNCHANGED <<dir, row, target>> /\ row.home = Source
    BY <1>1 DEF Read, Ownership, TypeOK
  <2>2. /\ seen'[r].home = Source
        /\ \A other \in Renamers \ {r} : seen'[other] = seen[other]
    BY <1>1, <2>1 DEF Read, Ownership, TypeOK
  <2>3. QED
    BY <2>1, <2>2 DEF Disciplined, Exists
<1>2. CASE Check(r)
  <2>1. Passes("checking", "creating") \/ Passes("checking", "refused")
    BY <1>2 DEF Check, Ownership, TypeOK
  <2>2. QED
    BY <1>2, <2>1, StepsListed, GoingIsDisciplined DEF Check
<1>3. CASE CreateStaging(r)
  <2>1. CASE Exists(Staging)
    <3>1. Passes("creating", "refused") /\ dir' = dir
      BY <1>3, <2>1 DEF CreateStaging, Ownership, TypeOK
    <3>2. QED
      BY <1>3, <3>1, StepsListed, GoingIsDisciplined DEF CreateStaging
  <2>2. CASE ~Exists(Staging)
    <3>1. Passes("creating", "copying") \/ Passes("creating", "cleaning")
      BY <1>3, <2>2 DEF CreateStaging, Ownership, TypeOK
    <3>2. dir'[Staging] # Absent /\ UNCHANGED <<row, target, seen>>
      BY <1>3, <2>2, PlacesListed, ContentsListed DEF CreateStaging, Ownership, TypeOK
    <3>3. seen[r].home = Source
      BY <3>1 DEF Ownership, SeenAtSource
    <3>4. QED
      BY <2>2, <3>1, <3>2, <3>3 DEF Disciplined
  <2>3. QED
    BY <2>1, <2>2
<1>4. ASSUME NEW note \in Notes, CopyNote(r, note) PROVE Disciplined(r)
  <2>1. step[r] = "copying" /\ Exists(Staging) /\ seen[r].home = Source
    BY <1>4 DEF CopyNote, Ownership, SeenAtSource, StagingOwned
  <2>2. CASE dir' = dir /\ Passes("copying", "cleaning")
    BY <1>4, <2>2, StepsListed, GoingIsDisciplined DEF CopyNote
  <2>3. CASE step' = step /\ dir' = [dir EXCEPT ![Staging] = @ \cup {note}]
    <3>1. dir[Staging] \subseteq Notes
      BY <2>1, PlacesListed, ContentsListed DEF Ownership, TypeOK, Exists
    <3>2. dir[Staging] \cup {note} # Absent
      BY <3>1, ContentsListed
    <3>3. dir'[Staging] # Absent
      BY <2>3, <3>2, PlacesListed DEF Ownership, TypeOK
    <3>4. step' = [step EXCEPT ![r] = step'[r]] /\ step'[r] = "copying"
      BY <2>1, <2>3 DEF Ownership, TypeOK
    <3>5. UNCHANGED <<row, target, seen>>
      BY <1>4 DEF CopyNote
    <3>6. QED
      BY <2>1, <3>3, <3>4, <3>5 DEF Disciplined
  <2>4. QED
    BY <1>4, <2>2, <2>3 DEF CopyNote, Ownership, TypeOK
<1>5. CASE Rewrite(r)
  <2>1. Passes("copying", "updating")
    BY <1>5 DEF Rewrite, Ownership, TypeOK
  <2>2. QED
    BY <1>5, <2>1, StepsListed, GoingIsDisciplined DEF Rewrite
<1>6. CASE RemoveStaging(r)
  <2>1. Passes("cleaning", "refused") \/ Passes("discarding", "refused")
    BY <1>6 DEF RemoveStaging, Ownership, TypeOK
  <2>2. QED
    BY <1>6, <2>1, StepsListed, RemovingIsDisciplined DEF RemoveStaging
<1>7. CASE UpdateRow(r)
  <2>1. CASE row = seen[r]
    <3>1. Passes("updating", "committing") /\ UNCHANGED <<dir, target>>
      BY <1>7, <2>1 DEF UpdateRow, Ownership, TypeOK
    <3>2. row.home = Source /\ Exists(Staging)
      BY <2>1, <3>1 DEF Ownership, SeenAtSource, StagingOwned
    <3>3. row' = [row EXCEPT !.home = target[r]] /\ seen' = [seen EXCEPT ![r] = row']
      BY <1>7, <2>1 DEF UpdateRow
    <3>4. row'.home = target[r]
      BY <3>3 DEF Ownership, TypeOK, Rows
    <3>5. \A other \in Renamers \ {r} : seen'[other] = seen[other]
      BY <3>3 DEF Ownership, TypeOK
    <3>6. QED
      BY <3>1, <3>2, <3>4, <3>5 DEF Disciplined, Exists
  <2>2. CASE row # seen[r]
    <3>1. Passes("updating", "discarding") /\ UNCHANGED <<row, seen>>
      BY <1>7, <2>2 DEF UpdateRow, Ownership, TypeOK
    <3>2. QED
      BY <1>7, <3>1, StepsListed, GoingIsDisciplined DEF UpdateRow
  <2>3. QED
    BY <2>1, <2>2
<1>8. CASE CheckAgain(r)
  <2>1. Passes("committing", "rolling back") \/ Passes("committing", "moving")
    BY <1>8 DEF CheckAgain, Ownership, TypeOK
  <2>2. QED
    BY <1>8, <2>1, StepsListed, GoingIsDisciplined DEF CheckAgain
<1>9. CASE MoveSource(r)
  <2>1. CASE Exists(Source) /\ Free(Backup)
    <3>1. Passes("moving", "installing") /\ UNCHANGED <<row, target, seen>>
      BY <1>9, <2>1 DEF MoveSource, Ownership, TypeOK
    <3>2. dir'[Staging] = dir[Staging] /\ Exists(Staging)
      BY <1>9, <2>1, <3>1, PlacesListed DEF MoveSource, Moved, Ownership, TypeOK, StagingOwned
    <3>3. row.home = target[r]
      BY <3>1 DEF Ownership, RowOwned
    <3>4. QED
      BY <3>1, <3>2, <3>3 DEF Disciplined, Exists
  <2>2. CASE ~(Exists(Source) /\ Free(Backup))
    <3>1. Passes("moving", "rolling back") /\ dir' = Removed(Staging)
      BY <1>9, <2>2 DEF MoveSource, Ownership, TypeOK
    <3>2. QED
      BY <1>9, <3>1, StepsListed, RemovingIsDisciplined DEF MoveSource
  <2>3. QED
    BY <2>1, <2>2
<1>10. CASE Install(r)
  <2>1. CASE Free(target[r])
    <3>1. Passes("installing", "removing backup") /\ UNCHANGED <<row, target, seen>>
      BY <1>10, <2>1 DEF Install, Ownership, TypeOK
    <3>2. row.home = target[r]
      BY <3>1 DEF Ownership, RowOwned
    <3>3. QED
      BY <3>1, <3>2 DEF Disciplined
  <2>2. CASE ~Free(target[r])
    <3>1. Passes("installing", "restoring") /\ dir' = dir
      BY <1>10, <2>2 DEF Install, Ownership, TypeOK
    <3>2. QED
      BY <1>10, <3>1, StepsListed, GoingIsDisciplined DEF Install
  <2>3. QED
    BY <2>1, <2>2
<1>11. CASE RemoveBackup(r)
  <2>1. Passes("removing backup", "renamed") /\ UNCHANGED <<row, target, seen>>
    BY <1>11 DEF RemoveBackup, Ownership, TypeOK
  <2>2. dir'[Staging] = dir[Staging]
    BY <1>11, PlacesListed DEF RemoveBackup, Removed, Ownership, TypeOK
  <2>3. QED
    BY <2>1, <2>2 DEF Disciplined, Exists
<1>12. CASE RestoreSource(r)
  <2>1. /\ Passes("restoring", "cleaning restored") \/ Passes("restoring", "rolling back")
        /\ UNCHANGED <<row, target, seen>>
    BY <1>12 DEF RestoreSource, Ownership, TypeOK
  <2>2. dir'[Staging] = dir[Staging] /\ Exists(Staging)
    BY <1>12, <2>1, PlacesListed DEF RestoreSource, Moved, Ownership, TypeOK, StagingOwned
  <2>3. row.home = target[r]
    BY <2>1 DEF Ownership, RowOwned
  <2>4. QED
    BY <2>1, <2>2, <2>3 DEF Disciplined, Exists
<1>13. CASE RemoveRestoredStaging(r)
  <2>1. Passes("cleaning restored", "rolling back")
    BY <1>13 DEF RemoveRestoredStaging, Ownership, TypeOK
  <2>2. QED
    BY <1>13, <2>1, StepsListed, RemovingIsDisciplined DEF RemoveRestoredStaging
<1>14. CASE RollBackRow(r)
  <2>1. Passes("rolling back", "rolled back") /\ UNCHANGED <<dir, target, seen>>
    BY <1>14 DEF RollBackRow, Ownership, TypeOK
  <2>2. QED
    BY <2>1 DEF Disciplined, Exists
<1>15. CASE Fail(r)
  <2>1. UNCHANGED <<row, target, seen>>
    BY <1>15 DEF Fail, OnFailure
  <2>2. CASE At(r, "moving")
    <3>1. Passes("moving", "rolling back") /\ dir' \in {dir, Removed(Staging)}
      BY <1>15, <2>2 DEF Fail, Ownership, TypeOK
    <3>2. QED
      BY <2>1, <3>1, StepsListed, GoingIsDisciplined, RemovingIsDisciplined
  <2>3. CASE ~At(r, "moving")
    <3>1. dir' = dir
      BY <1>15, <2>3 DEF Fail, OnFailure
    <3>2. \/ Passes("checking", "refused") \/ Passes("creating", "refused")
          \/ Passes("copying", "cleaning") \/ Passes("updating", "discarding")
          \/ Passes("cleaning", "refused") \/ Passes("discarding", "refused")
          \/ Passes("committing", "rolling back") \/ Passes("cleaning restored", "rolling back")
          \/ Passes("installing", "restoring") \/ Passes("removing backup", "backup retained")
          \/ Passes("restoring", "rolling back") \/ Passes("rolling back", "rolled back")
      <4>1. \A s \in Steps : step' = [step EXCEPT ![r] = s] => step'[r] = s
        BY DEF Ownership, TypeOK
      <4>2. \/ step[r] \in {"checking", "creating"} /\ step' = [step EXCEPT ![r] = "refused"]
            \/ step[r] = "copying" /\ step' = [step EXCEPT ![r] = "cleaning"]
            \/ step[r] = "updating" /\ step' = [step EXCEPT ![r] = "discarding"]
            \/ step[r] \in {"cleaning", "discarding"} /\ step' = [step EXCEPT ![r] = "refused"]
            \/ /\ step[r] \in {"committing", "cleaning restored", "restoring"}
               /\ step' = [step EXCEPT ![r] = "rolling back"]
            \/ step[r] = "installing" /\ step' = [step EXCEPT ![r] = "restoring"]
            \/ step[r] = "removing backup" /\ step' = [step EXCEPT ![r] = "backup retained"]
            \/ step[r] = "rolling back" /\ step' = [step EXCEPT ![r] = "rolled back"]
        BY <1>15, <2>3 DEF Fail, OnFailure
      <4>3. QED
        BY <4>1, <4>2, StepsListed
    <3>3. QED
      BY <2>1, <3>1, <3>2, StepsListed, GoingIsDisciplined
  <2>4. QED
    BY <2>2, <2>3
<1>16. CASE Cancel(r)
  <2>1. /\ Passes("updating", "interrupted") \/ Passes("rolling back", "interrupted")
        /\ UNCHANGED <<dir, target, seen>>
    BY <1>16 DEF Cancel, Ownership, TypeOK
  <2>2. row' = row \/ row.home = Source \/ step[r] \in OwningRow
    <3>1. step[r] = "updating" /\ row = seen[r] => row.home = Source
      BY DEF Ownership, SeenAtSource
    <3>2. QED
      BY <1>16, <3>1 DEF Cancel
  <2>3. QED
    BY <2>1, <2>2 DEF Disciplined, Exists
<1>17. QED
  BY <1>1, <1>2, <1>3, <1>4, <1>5, <1>6, <1>7, <1>8, <1>9, <1>10, <1>11, <1>12, <1>13, <1>14,
     <1>15, <1>16 DEF RenameStep

\* Discipline is enough to keep the staging directory and the row owned.
LEMMA DisciplineKeepsOwners ==
    ASSUME Ownership, NEW r \in Renamers, Disciplined(r), TypeOK', FieldsCounted'
    PROVE  Ownership'
<1>1. \A other \in Renamers \ {r} : step'[other] = step[other] /\ seen'[other] = seen[other]
  BY DEF Disciplined, Ownership, TypeOK
<1>2. SeenAtSource'
  BY <1>1 DEF Disciplined, Ownership, SeenAtSource
<1>3. StagingOwned'
  <2>1. CASE step'[r] \in OwningStaging
    BY <1>1, <2>1 DEF Disciplined, Ownership, StagingOwned, Exists
  <2>2. CASE step'[r] \notin OwningStaging
    BY <1>1, <2>2 DEF Disciplined, Ownership, StagingOwned, Exists
  <2>3. QED
    BY <2>1, <2>2
<1>4. RowOwned'
  <2>1. \A other \in Renamers : target[other] # Source
    BY PlacesListed DEF Ownership, TypeOK
  <2>2. row.home = Source => \A other \in Renamers : step[other] \notin OwningRow
    BY <2>1 DEF Ownership, RowOwned
  <2>3. CASE step'[r] \in OwningRow
    BY <1>1, <2>2, <2>3 DEF Disciplined, Ownership, RowOwned
  <2>4. CASE step'[r] \notin OwningRow
    BY <1>1, <2>2, <2>4 DEF Disciplined, Ownership, RowOwned
  <2>5. QED
    BY <2>3, <2>4
<1>5. QED
  BY <1>2, <1>3, <1>4 DEF Ownership

\* Task commands, other project commands and crashes own nothing.
LEMMA OwnershipKept ==
    ASSUME Ownership, [Next]_vars
    PROVE  Ownership'
<1>1. TypeOK' /\ FieldsCounted'
  BY TypesKept DEF Ownership
<1> USE DEF world, rename, writing, counters
<1>2. ASSUME NEW r \in Renamers, RenameStep(r) \/ Cancel(r) PROVE Ownership'
  BY <1>1, <1>2, RenamesAreDisciplined, DisciplineKeepsOwners
<1>3. CASE UNCHANGED <<step, target, seen>> /\ row'.home = row.home /\ dir'[Staging] = dir[Staging]
  BY <1>1, <1>3 DEF Ownership, SeenAtSource, StagingOwned, RowOwned, Exists
<1>4. ASSUME NEW w \in Writers, Resolve(w) \/ StoreNote(w) PROVE Ownership'
  <2>1. UNCHANGED <<step, target, seen, row>>
    BY <1>4 DEF Resolve, StoreNote
  <2>2. dir'[Staging] = dir[Staging]
    BY <1>4, PlacesListed DEF Resolve, StoreNote, Ownership, TypeOK
  <2>3. QED
    BY <1>3, <2>1, <2>2
<1>5. CASE UpdateProject
  <2>1. row'.home = row.home /\ UNCHANGED <<dir, step, target, seen>>
    BY <1>5 DEF UpdateProject, Ownership, TypeOK, Rows
  <2>2. QED
    BY <1>3, <2>1
<1>6. CASE Crash
  <2>1. UNCHANGED <<dir, row, target, seen>>
    BY <1>6 DEF Crash
  <2>2. \A r \in Renamers : step'[r] = step[r] \/ step'[r] = "interrupted"
    BY <1>6 DEF Crash
  <2>3. SeenAtSource' /\ StagingOwned'
    BY <2>1, <2>2 DEF Ownership, SeenAtSource, StagingOwned, BeforeRow, OwningStaging, Exists
  <2>4. RowOwned'
    BY <2>1, <2>2 DEF Ownership, RowOwned, OwningRow
  <2>5. QED
    BY <1>1, <2>3, <2>4 DEF Ownership
<1>7. CASE UNCHANGED vars
  BY <1>3, <1>7 DEF vars
<1>8. QED
  BY <1>2, <1>4, <1>5, <1>6, <1>7 DEF Next

\* At the beginning no rename owns anything.
LEMMA OwnershipStarts == Init => Ownership
<1> SUFFICES ASSUME Init PROVE Ownership
  OBVIOUS
<1>1. TypeOK /\ FieldsCounted
  <2>1. row \in Rows /\ row.fields = updates
    BY PlacesListed, BoundsAssumption DEF Init, Rows
  <2>2. dir \in [Places -> Contents]
    BY ContentsListed DEF Init, Notes
  <2>3. step \in [Renamers -> Steps] /\ seen \in [Renamers -> Rows]
    BY <2>1 DEF Init, Steps, NotListed
  <2>4. saved \subseteq Notes /\ late \subseteq saved /\ listing \in [Renamers -> SUBSET Notes]
    BY DEF Init, Notes
  <2>5. /\ updates \in 0 .. MaxUpdates /\ failures \in 0 .. MaxFailures
        /\ interrupts \in 0 .. MaxInterrupts
    BY BoundsAssumption DEF Init
  <2>6. QED
    BY <2>1, <2>2, <2>3, <2>4, <2>5 DEF Init, TypeOK, FieldsCounted
<1>2. SeenAtSource /\ StagingOwned /\ RowOwned
  BY DEF Init, SeenAtSource, StagingOwned, RowOwned, BeforeRow, OwningStaging, OwningRow
<1>3. QED
  BY <1>1, <1>2 DEF Ownership

\* The first invariant.
LEMMA RenamesKeepOwnership == Spec => []Ownership
BY OwnershipStarts, OwnershipKept, PTL DEF Spec

\* No two renames use the staging directory at a time: create_dir, which fails
\* if the directory is there, and the row compared before it is written are
\* enough, without a lock.
THEOREM StagingHasOneOwner == Spec => []StagingOwned
<1>1. Ownership => StagingOwned
  BY DEF Ownership
<1>2. QED
  BY <1>1, RenamesKeepOwnership, PTL

-----------------------------------------------------------------------------
\* Where the notes are.  The late ones, stored behind the back of a rename, are
\* left out throughout.
OnTime == saved \ late

Holds(place) == dir[place] # Absent /\ OnTime \subseteq dir[place]

SomeAt(steps) == \E r \in Renamers : step[r] \in steps

\* The steps of the owner of the staging directory while the source is in place,
\* those of them at which the copy is complete, and those of the owner of the row
\* before the source moved and after it came back.
BeforeMove == {"copying", "cleaning", "updating", "discarding", "committing", "moving",
               "cleaning restored"}
Copied == {"updating", "committing", "moving"}
RowAhead == {"committing", "moving", "cleaning restored", "rolling back"}

\* The copy has the notes that were listed, and all that came since are late.
CopiesCover ==
    \A r \in Renamers :
        /\ step[r] \in Copied \cup {"copying"} /\ Exists(Source) =>
               dir[Source] \ late \subseteq listing[r]
        /\ step[r] \in Copied => listing[r] \subseteq dir[Staging]

\* While the source is away, the backup has the notes, and then the destination.
MovedCover ==
    \A r \in Renamers :
        /\ step[r] \in {"installing", "restoring"} => Holds(Backup)
        /\ step[r] = "installing" => OnTime \subseteq dir[Staging]
        /\ step[r] = "removing backup" => Holds(target[r])
        /\ step[r] \in {"installing", "removing backup"} /\ Exists(Source) =>
               dir[Source] \subseteq late

\* The source has the notes if the registry names it or will again, unless a
\* rename broke off; then the staging directory is still there, and keeps every
\* other rename from starting.
SourceHolds ==
    /\ ~broken \/ ~Exists(Staging) \/ SomeAt(BeforeMove)
    /\ row.home = Source \/ SomeAt(RowAhead)
    => Holds(Source)

\* The directory that a completed rename gave to the registry has the notes.
HomeHolds == ~broken /\ row.home # Source /\ ~SomeAt(OwningRow) => Holds(row.home)

KeptOutsideStaging ==
    \A note \in OnTime :
        \E place \in Places \ {Staging} : Exists(place) /\ note \in dir[place]

Whereabouts ==
    /\ CopiesCover
    /\ MovedCover
    /\ SourceHolds
    /\ HomeHolds
    /\ KeptOutsideStaging

Inv == Ownership /\ Whereabouts

-----------------------------------------------------------------------------
\* A step that neither moves notes nor writes the row, but may remove the staging
\* directory.
HandsOff(r) ==
    /\ step' = [step EXCEPT ![r] = step'[r]]
    /\ UNCHANGED <<row, target, listing, saved, late>>
    /\ \/ dir' = dir
       \/ /\ dir' = Removed(Staging)
          /\ step[r] \in BeforeMove /\ step'[r] \notin OwningStaging
    /\ broken => broken'
    /\ step'[r] \in Copied \cup {"copying"} => step[r] \in Copied \cup {"copying"}
    /\ step'[r] \in Copied => listing[r] \subseteq dir[Staging]
    /\ step'[r] \notin {"installing", "removing backup"}
    /\ step'[r] = "restoring" => step[r] = "installing"
    /\ step'[r] \in BeforeMove => step[r] \in BeforeMove
    /\ step'[r] \in RowAhead => step[r] \in RowAhead
    /\ step[r] \in OwningRow => broken' \/ step'[r] \in OwningRow \/ step[r] = "removing backup"

\* Where such a step may go, and where only a rename that is given up.
Goings == {<<"idle", "checking">>, <<"checking", "creating">>, <<"checking", "refused">>,
           <<"creating", "refused">>, <<"copying", "cleaning">>, <<"updating", "discarding">>,
           <<"cleaning", "refused">>, <<"discarding", "refused">>,
           <<"committing", "moving">>, <<"committing", "rolling back">>,
           <<"moving", "rolling back">>, <<"installing", "restoring">>,
           <<"cleaning restored", "rolling back">>, <<"removing backup", "backup retained">>}
Endings == {<<"updating", "interrupted">>, <<"rolling back", "interrupted">>,
            <<"rolling back", "rolled back">>}

\* Such a step leaves the notes where they have to be.
LEMMA HandsOffKeepsNotes ==
    ASSUME Inv, NEW r \in Renamers, HandsOff(r)
    PROVE  Whereabouts'
<1> USE DEF Inv, Whereabouts
<1>1. \A other \in Renamers \ {r} : step'[other] = step[other]
  BY DEF HandsOff, Ownership, TypeOK
<1>2. /\ \A place \in Places \ {Staging} : dir'[place] = dir[place]
      /\ dir'[Staging] = dir[Staging] \/ step[r] \in BeforeMove
  BY PlacesListed DEF HandsOff, Removed, Ownership, TypeOK
<1>3. ASSUME NEW other \in Renamers, step'[other] \in OwningStaging
      PROVE  dir'[Staging] = dir[Staging]
  BY <1>1, <1>3 DEF HandsOff, Ownership, StagingOwned, BeforeMove, OwningStaging
<1>4. OnTime' = OnTime
  BY DEF HandsOff, OnTime
<1>5. CopiesCover'
  <2>1. dir'[Source] = dir[Source] /\ UNCHANGED <<listing, late>>
    BY <1>2, PlacesListed DEF HandsOff
  <2>2. ASSUME NEW other \in Renamers, step'[other] \in Copied
        PROVE  listing[other] \subseteq dir'[Staging]
    BY <1>1, <1>3, <2>2 DEF CopiesCover, HandsOff, Copied, OwningStaging
  <2>3. ASSUME NEW other \in Renamers, step'[other] \in Copied \cup {"copying"}
        PROVE  step[other] \in Copied \cup {"copying"}
    BY <1>1, <2>3 DEF HandsOff
  <2>4. QED
    BY <2>1, <2>2, <2>3 DEF CopiesCover, Exists
<1>6. MovedCover'
  <2>1. /\ dir'[Source] = dir[Source] /\ dir'[Backup] = dir[Backup] /\ UNCHANGED <<target, late>>
        /\ \A other \in Renamers : dir'[target[other]] = dir[target[other]]
    BY <1>2, PlacesListed DEF HandsOff, Ownership, TypeOK
  <2>2. ASSUME NEW other \in Renamers, step'[other] = "installing"
        PROVE  dir'[Staging] = dir[Staging]
    BY <1>3, <2>2 DEF OwningStaging
  <2>3. ASSUME NEW other \in Renamers
        PROVE  /\ step'[other] \in {"installing", "removing backup"} => step'[other] = step[other]
               /\ step'[other] = "restoring" => step[other] \in {"installing", "restoring"}
    BY <1>1 DEF HandsOff
  <2>4. QED
    BY <1>4, <2>1, <2>2, <2>3 DEF MovedCover, Holds, Exists
<1>7. SourceHolds'
  <2>1. dir'[Source] = dir[Source] /\ row' = row
    BY <1>2, PlacesListed DEF HandsOff
  <2>2. SomeAt(BeforeMove)' => SomeAt(BeforeMove)
    BY <1>1 DEF SomeAt, HandsOff
  <2>3. SomeAt(RowAhead)' => SomeAt(RowAhead)
    BY <1>1 DEF SomeAt, HandsOff
  <2>4. ~Exists(Staging)' => ~Exists(Staging) \/ SomeAt(BeforeMove)
    BY <1>2 DEF SomeAt, Exists
  <2>5. ~broken' => ~broken
    BY DEF HandsOff
  <2>6. QED
    BY <1>4, <2>1, <2>2, <2>3, <2>4, <2>5 DEF SourceHolds, Holds
<1>8. HomeHolds'
  <2>1. SUFFICES ASSUME ~broken', row.home # Source, ~SomeAt(OwningRow)' PROVE Holds(row.home)
    BY <1>2, <1>4, PlacesListed DEF HomeHolds, Holds, HandsOff, Ownership, TypeOK, Rows
  <2>2. step'[r] \notin OwningRow
    BY <2>1 DEF SomeAt
  <2>3. CASE step[r] \in OwningRow
    <3>1. step[r] = "removing backup"
      BY <2>1, <2>2, <2>3 DEF HandsOff
    <3>2. QED
      BY <2>3, <3>1 DEF MovedCover, Ownership, RowOwned
  <2>4. CASE step[r] \notin OwningRow
    <3>1. ~SomeAt(OwningRow)
      BY <1>1, <2>1, <2>4 DEF SomeAt
    <3>2. ~broken
      BY <2>1 DEF HandsOff
    <3>3. QED
      BY <2>1, <3>1, <3>2 DEF HomeHolds
  <2>5. QED
    BY <2>3, <2>4
<1>9. KeptOutsideStaging'
  BY <1>2, <1>4 DEF KeptOutsideStaging, Exists
<1>10. QED
  BY <1>5, <1>6, <1>7, <1>8, <1>9

\* A step that goes on in the code, or gives up, is such a step.
LEMMA GoingKeepsNotes ==
    ASSUME Inv, NEW r \in Renamers, NEW s,
           step' = [step EXCEPT ![r] = s],
           \/ dir' = dir
           \/ dir' = Removed(Staging) /\ step[r] \in BeforeMove /\ s \notin OwningStaging,
           UNCHANGED <<row, target, listing, saved, late>>, broken => broken',
           \/ <<step[r], s>> \in Goings
           \/ <<step[r], s>> \in Endings /\ broken'
           \/ <<step[r], s>> = <<"copying", "updating">> /\ listing[r] \subseteq dir[Staging]
    PROVE  Whereabouts'
<1>1. step'[r] = s
  BY DEF Inv, Ownership, TypeOK
<1>2. s = "moving" => listing[r] \subseteq dir[Staging]
  <2>1. s = "moving" => step[r] = "committing"
    BY DEF Goings, Endings
  <2>2. QED
    BY <2>1 DEF Inv, Whereabouts, CopiesCover, Copied
<1>3. HandsOff(r)
  BY <1>1, <1>2 DEF HandsOff, Goings, Endings, Copied, BeforeMove, RowAhead, OwningRow
<1>4. QED
  BY <1>3, HandsOffKeepsNotes

\* The steps that do move notes, or write the row.  What is listed is all there is
\* on time; a rename that finds no directory copies nothing and cleans up.
LEMMA CreateStagingKeepsNotes ==
    ASSUME Inv, NEW r \in Renamers, CreateStaging(r)
    PROVE  Whereabouts'
<1> USE DEF At, GoTo, world, rename, writing, counters
<1>1. CASE Exists(Staging)
  <2>1. /\ step[r] = "creating" /\ step' = [step EXCEPT ![r] = "refused"] /\ step'[r] = "refused"
        /\ UNCHANGED <<dir, listing>>
    BY <1>1 DEF CreateStaging, Inv, Ownership, TypeOK
  <2>2. UNCHANGED <<row, target, saved, late>> /\ (broken => broken')
    BY DEF CreateStaging
  <2>3. QED
    <3>1. <<step[r], "refused">> \in Goings
      BY <2>1 DEF Goings
    <3>2. /\ dir' = dir /\ step' = [step EXCEPT ![r] = "refused"]
          /\ UNCHANGED <<row, target, listing, saved, late>>
      BY <2>1, <2>2
    <3>3. QED
      BY <2>2, <3>1, <3>2, GoingKeepsNotes
<1>2. CASE ~Exists(Staging)
  <2>1. /\ step[r] = "creating" /\ step'[r] \in {"copying", "cleaning"}
        /\ \A other \in Renamers \ {r} : step'[other] = step[other]
    BY <1>2 DEF CreateStaging, Inv, Ownership, TypeOK
  <2>2. /\ \A place \in Places \ {Staging} : dir'[place] = dir[place]
        /\ UNCHANGED <<row, target, saved, late, broken>>
    BY <1>2 DEF CreateStaging, Inv, Ownership, TypeOK
  <2>3. /\ \A other \in Renamers \ {r} : listing'[other] = listing[other]
        /\ Exists(Source) => listing'[r] = dir[Source]
    BY <1>2 DEF CreateStaging, Inv, Ownership, TypeOK
  <2>4. \A other \in Renamers : step[other] \notin OwningStaging
    BY <1>2 DEF Inv, Ownership, StagingOwned
  <2>5. CopiesCover'
    <3>1. dir'[Source] = dir[Source]
      BY <2>2, PlacesListed
    <3>2. \A other \in Renamers \ {r} : step'[other] \notin Copied \cup {"copying"}
      BY <2>1, <2>4 DEF OwningStaging, Copied
    <3>3. step'[r] \notin Copied
      BY <2>1 DEF Copied
    <3>4. QED
      BY <2>2, <2>3, <3>1, <3>2, <3>3 DEF CopiesCover, Exists, Copied
  <2>6. MovedCover'
    <3>1. /\ dir'[Source] = dir[Source] /\ dir'[Backup] = dir[Backup]
          /\ \A other \in Renamers : dir'[target[other]] = dir[target[other]]
      BY <2>2, PlacesListed DEF Inv, Ownership, TypeOK
    <3>2. \A other \in Renamers : step'[other] \notin {"installing", "restoring"}
      BY <2>1, <2>4 DEF OwningStaging
    <3>3. \A other \in Renamers : step'[other] = "removing backup" => step[other] = "removing backup"
      BY <2>1
    <3>4. QED
      BY <2>2, <3>1, <3>2, <3>3 DEF Inv, Whereabouts, MovedCover, Holds, OnTime, Exists
  <2>7. SourceHolds'
    <3>1. dir'[Source] = dir[Source]
      BY <2>2, PlacesListed
    <3>2. SomeAt(RowAhead)' => SomeAt(RowAhead)
      BY <2>1 DEF SomeAt, RowAhead
    <3>3. QED
      BY <1>2, <2>2, <3>1, <3>2 DEF Inv, Whereabouts, SourceHolds, Holds, OnTime
  <2>8. HomeHolds'
    <3>1. dir'[row.home] = dir[row.home]
      BY <2>2, PlacesListed DEF Inv, Ownership, TypeOK, Rows
    <3>2. SomeAt(OwningRow) => SomeAt(OwningRow)'
      BY <2>1 DEF SomeAt, OwningRow
    <3>3. QED
      BY <2>2, <3>1, <3>2 DEF Inv, Whereabouts, HomeHolds, Holds, OnTime
  <2>9. KeptOutsideStaging'
    BY <2>2 DEF Inv, Whereabouts, KeptOutsideStaging, Exists, OnTime
  <2>10. QED
    BY <2>5, <2>6, <2>7, <2>8, <2>9 DEF Whereabouts
<1>3. QED
  BY <1>1, <1>2

\* Copying adds to the staging directory only.
LEMMA CopyNoteKeepsNotes ==
    ASSUME Inv, NEW r \in Renamers, NEW note \in Notes, CopyNote(r, note)
    PROVE  Whereabouts'
<1> USE DEF At, GoTo, world, rename, writing, counters
<1>1. CASE dir' = dir /\ step' = [step EXCEPT ![r] = "cleaning"]
  <2>1. /\ step[r] = "copying" /\ step'[r] = "cleaning"
        /\ UNCHANGED <<row, target, listing, saved, late, broken>>
    BY <1>1 DEF CopyNote, Inv, Ownership, TypeOK
  <2>2. broken => broken'
    BY <2>1
  <2>3. QED
    <3>1. <<step[r], "cleaning">> \in Goings
      BY <2>1 DEF Goings
    <3>2. UNCHANGED <<row, target, listing, saved, late>>
      BY <2>1
    <3>3. QED
      BY <1>1, <2>2, <3>1, <3>2, GoingKeepsNotes
<1>2. CASE step' = step /\ dir' = [dir EXCEPT ![Staging] = @ \cup {note}]
  <2>1. step[r] = "copying" /\ UNCHANGED <<row, target, listing, saved, late, broken>>
    BY <1>2 DEF CopyNote
  <2>2. \A place \in Places \ {Staging} : dir'[place] = dir[place]
    BY <1>2 DEF Inv, Ownership, TypeOK
  <2>3. Exists(Staging)' /\ Exists(Staging)
    BY <1>2, <2>1, OwnershipKept DEF Inv, Ownership, StagingOwned, OwningStaging, Next, RenameStep
  <2>4. \A other \in Renamers \ {r} : step[other] \notin OwningStaging
    BY <2>1 DEF Inv, Ownership, StagingOwned, OwningStaging
  <2>5. CopiesCover'
    <3>1. \A other \in Renamers : step[other] \notin Copied
      BY <2>1, <2>4 DEF Copied, OwningStaging
    <3>2. dir'[Source] = dir[Source]
      BY <2>2, PlacesListed
    <3>3. QED
      BY <1>2, <2>1, <3>1, <3>2 DEF Inv, Whereabouts, CopiesCover, Exists
  <2>6. MovedCover'
    <3>1. /\ dir'[Source] = dir[Source] /\ dir'[Backup] = dir[Backup]
          /\ \A other \in Renamers : dir'[target[other]] = dir[target[other]]
      BY <2>2, PlacesListed DEF Inv, Ownership, TypeOK
    <3>2. \A other \in Renamers : step[other] # "installing"
      BY <2>1, <2>4 DEF OwningStaging
    <3>3. QED
      BY <1>2, <2>1, <3>1, <3>2 DEF Inv, Whereabouts, MovedCover, Holds, OnTime, Exists
  <2>7. SourceHolds' /\ HomeHolds'
    <3>1. dir'[Source] = dir[Source] /\ dir'[row.home] = dir[row.home]
      BY <2>2, PlacesListed DEF Inv, Ownership, TypeOK, Rows
    <3>2. QED
      BY <1>2, <2>1, <2>3, <3>1
      DEF Inv, Whereabouts, SourceHolds, HomeHolds, Holds, OnTime, SomeAt, Exists
  <2>8. KeptOutsideStaging'
    BY <2>1, <2>2 DEF Inv, Whereabouts, KeptOutsideStaging, Exists, OnTime
  <2>9. QED
    BY <2>5, <2>6, <2>7, <2>8 DEF Whereabouts
<1>3. QED
  BY <1>1, <1>2 DEF CopyNote

\* The row is written while the source has the notes and the copy of them.
LEMMA UpdateRowKeepsNotes ==
    ASSUME Inv, NEW r \in Renamers, step[r] = "updating", row.home = Source,
           step' = [step EXCEPT ![r] = step'[r]], step'[r] \in {"committing", "interrupted"},
           step'[r] = "interrupted" => broken', broken => broken',
           row'.home = target[r], UNCHANGED <<dir, target, listing, saved, late>>
    PROVE  Whereabouts'
<1>1. \A other \in Renamers \ {r} : step'[other] = step[other]
  BY DEF Inv, Ownership, TypeOK
<1>2. CopiesCover'
  BY <1>1 DEF Inv, Whereabouts, CopiesCover, Exists, Copied
<1>3. MovedCover'
  BY <1>1 DEF Inv, Whereabouts, MovedCover, Holds, OnTime, Exists
<1>4. SourceHolds'
  <2>1. SomeAt(BeforeMove)
    BY DEF SomeAt, BeforeMove
  <2>2. Holds(Source)
    BY <2>1 DEF Inv, Whereabouts, SourceHolds
  <2>3. QED
    BY <2>2 DEF SourceHolds, Holds, OnTime
<1>5. HomeHolds'
  <2>1. CASE step'[r] = "committing"
    BY <2>1 DEF HomeHolds, SomeAt, OwningRow
  <2>2. CASE step'[r] = "interrupted"
    BY <2>2 DEF HomeHolds
  <2>3. QED
    BY <2>1, <2>2
<1>6. KeptOutsideStaging'
  BY DEF Inv, Whereabouts, KeptOutsideStaging, Exists, OnTime
<1>7. QED
  BY <1>2, <1>3, <1>4, <1>5, <1>6 DEF Whereabouts

\* The source moves when the copy has all its notes.
LEMMA MoveSourceKeepsNotes ==
    ASSUME Inv, NEW r \in Renamers, MoveSource(r), Exists(Source) /\ Free(Backup)
    PROVE  Whereabouts'
<1>1. /\ step[r] = "moving" /\ step'[r] = "installing"
      /\ \A other \in Renamers \ {r} : step'[other] = step[other]
      /\ UNCHANGED <<row, target, listing, saved, late, broken>>
  BY DEF MoveSource, Inv, Ownership, TypeOK, At, GoTo, writing
<1>2. /\ dir'[Source] = Absent /\ dir'[Backup] = dir[Source]
      /\ dir'[Staging] = dir[Staging]
  BY PlacesListed DEF MoveSource, Moved, Inv, Ownership, TypeOK
<1>3. \A other \in Renamers \ {r} : step'[other] \notin OwningStaging \cup OwningRow
  BY <1>1 DEF Inv, Ownership, StagingOwned, RowOwned, OwningStaging, OwningRow
<1>4. Holds(Source)
  <2>1. SomeAt(BeforeMove) /\ SomeAt(RowAhead)
    BY <1>1 DEF SomeAt, BeforeMove, RowAhead
  <2>2. QED
    BY <2>1 DEF Inv, Whereabouts, SourceHolds
<1>5. OnTime \subseteq dir[Staging]
  <2>1. dir[Source] \ late \subseteq listing[r] /\ listing[r] \subseteq dir[Staging]
    BY <1>1 DEF Inv, Whereabouts, CopiesCover, Copied
  <2>2. QED
    BY <1>4, <2>1 DEF Holds, OnTime
<1>6. OnTime' = OnTime /\ Holds(Backup)'
  BY <1>1, <1>2, <1>4 DEF OnTime, Holds
<1>7. CopiesCover'
  BY <1>1, <1>3 DEF CopiesCover, Copied, OwningStaging
<1>8. MovedCover'
  BY <1>1, <1>2, <1>3, <1>5, <1>6 DEF MovedCover, Exists, OwningStaging, OwningRow
<1>9. SourceHolds'
  <2>1. row'.home # Source
    <3>1. target[r] # Source
      BY PlacesListed DEF Inv, Ownership, TypeOK
    <3>2. QED
      BY <1>1, <3>1 DEF Inv, Ownership, RowOwned, OwningRow
  <2>2. ~SomeAt(RowAhead)'
    BY <1>1, <1>3 DEF SomeAt, RowAhead, OwningRow
  <2>3. QED
    BY <2>1, <2>2 DEF SourceHolds
<1>10. HomeHolds'
  BY <1>1 DEF HomeHolds, SomeAt, OwningRow
<1>11. KeptOutsideStaging'
  BY <1>6, PlacesListed DEF KeptOutsideStaging, Holds, Exists
<1>12. QED
  BY <1>7, <1>8, <1>9, <1>10, <1>11 DEF Whereabouts

\* The copy becomes the destination that the registry names.
LEMMA InstallKeepsNotes ==
    ASSUME Inv, NEW r \in Renamers, Install(r), Free(target[r])
    PROVE  Whereabouts'
<1>1. /\ step[r] = "installing" /\ step'[r] = "removing backup"
      /\ \A other \in Renamers \ {r} : step'[other] = step[other]
      /\ UNCHANGED <<row, target, listing, saved, late, broken>>
  BY DEF Install, Inv, Ownership, TypeOK, At, GoTo, writing
<1>2. target[r] \in Homes /\ target[r] # Source
  BY PlacesListed DEF Inv, Ownership, TypeOK
<1>3. dir'[target[r]] = dir[Staging] /\ dir'[Source] = dir[Source]
  BY <1>2, PlacesListed DEF Install, Moved, Inv, Ownership, TypeOK
<1>4. \A other \in Renamers \ {r} : step'[other] \notin OwningStaging \cup OwningRow
  BY <1>1 DEF Inv, Ownership, StagingOwned, RowOwned, OwningStaging, OwningRow
<1>5. Exists(Staging) /\ OnTime \subseteq dir[Staging] /\ (Exists(Source) => dir[Source] \subseteq late)
  BY <1>1 DEF Inv, Ownership, StagingOwned, OwningStaging, Whereabouts, MovedCover
<1>6. OnTime' = OnTime /\ Holds(target[r])'
  BY <1>1, <1>3, <1>5 DEF OnTime, Holds, Exists
<1>7. CopiesCover'
  BY <1>1, <1>4 DEF CopiesCover, Copied, OwningStaging
<1>8. MovedCover'
  BY <1>1, <1>3, <1>4, <1>5, <1>6 DEF MovedCover, Exists, OwningStaging, OwningRow
<1>9. SourceHolds'
  <2>1. row'.home # Source
    BY <1>1, <1>2 DEF Inv, Ownership, RowOwned, OwningRow
  <2>2. ~SomeAt(RowAhead)'
    BY <1>1, <1>4 DEF SomeAt, RowAhead, OwningRow
  <2>3. QED
    BY <2>1, <2>2 DEF SourceHolds
<1>10. HomeHolds'
  BY <1>1 DEF HomeHolds, SomeAt, OwningRow
<1>11. KeptOutsideStaging'
  <2>1. target[r]' = target[r] /\ target[r] \in Places \ {Staging}
    BY <1>1, <1>2, PlacesListed
  <2>2. QED
    BY <1>6, <2>1 DEF KeptOutsideStaging, Holds, Exists
<1>12. QED
  BY <1>7, <1>8, <1>9, <1>10, <1>11 DEF Whereabouts

\* The backup goes when the destination has its notes.
LEMMA RemoveBackupKeepsNotes ==
    ASSUME Inv, NEW r \in Renamers, RemoveBackup(r)
    PROVE  Whereabouts'
<1>1. /\ step[r] = "removing backup" /\ step'[r] = "renamed"
      /\ \A other \in Renamers \ {r} : step'[other] = step[other]
      /\ UNCHANGED <<row, target, listing, saved, late, broken>>
  BY DEF RemoveBackup, Inv, Ownership, TypeOK, At, GoTo, writing
<1>2. target[r] \in Homes /\ target[r] # Source /\ row.home = target[r] /\ Holds(target[r])
  <2>1. target[r] \in Homes /\ target[r] # Source
    BY PlacesListed DEF Inv, Ownership, TypeOK
  <2>2. row.home = target[r]
    BY <1>1 DEF Inv, Ownership, RowOwned, OwningRow
  <2>3. Holds(target[r])
    BY <1>1 DEF Inv, Whereabouts, MovedCover
  <2>4. QED
    BY <2>1, <2>2, <2>3
<1>3. \A place \in Places \ {Backup} : dir'[place] = dir[place]
  BY DEF RemoveBackup, Removed, Inv, Ownership, TypeOK
<1>4. dir'[Source] = dir[Source] /\ dir'[Staging] = dir[Staging] /\ dir'[target[r]] = dir[target[r]]
  BY <1>2, <1>3, PlacesListed
<1>5. \A other \in Renamers : step'[other] \notin OwningRow
  BY <1>1 DEF Inv, Ownership, RowOwned, OwningRow
<1>6. OnTime' = OnTime /\ Holds(target[r])'
  BY <1>1, <1>2, <1>4 DEF OnTime, Holds
<1>7. CopiesCover'
  BY <1>1, <1>4 DEF Inv, Whereabouts, CopiesCover, Copied, Exists
<1>8. MovedCover'
  BY <1>5 DEF MovedCover, OwningRow
<1>9. SourceHolds'
  BY <1>1, <1>2, <1>5 DEF SourceHolds, SomeAt, RowAhead, OwningRow
<1>10. HomeHolds'
  BY <1>1, <1>2, <1>6 DEF HomeHolds, Holds
<1>11. KeptOutsideStaging'
  <2>1. target[r]' = target[r] /\ target[r] \in Places \ {Staging}
    BY <1>1, <1>2, PlacesListed
  <2>2. QED
    BY <1>6, <2>1 DEF KeptOutsideStaging, Holds, Exists
<1>12. QED
  BY <1>7, <1>8, <1>9, <1>10, <1>11 DEF Whereabouts

\* The backup becomes the source again, before the row is changed back.
LEMMA RestoreSourceKeepsNotes ==
    ASSUME Inv, NEW r \in Renamers, RestoreSource(r), Free(Source)
    PROVE  Whereabouts'
<1>1. /\ step[r] = "restoring" /\ step'[r] = "cleaning restored"
      /\ \A other \in Renamers \ {r} : step'[other] = step[other]
      /\ UNCHANGED <<row, target, listing, saved, late, broken>>
  BY DEF RestoreSource, Inv, Ownership, TypeOK, At, GoTo, writing
<1>2. dir'[Source] = dir[Backup]
  BY PlacesListed DEF RestoreSource, Moved, Inv, Ownership, TypeOK
<1>3. \A other \in Renamers \ {r} : step'[other] \notin OwningStaging \cup OwningRow
  BY <1>1 DEF Inv, Ownership, StagingOwned, RowOwned, OwningStaging, OwningRow
<1>4. Holds(Source)'
  BY <1>1, <1>2 DEF Inv, Whereabouts, MovedCover, Holds, OnTime
<1>5. CopiesCover'
  BY <1>1, <1>3 DEF CopiesCover, Copied, OwningStaging
<1>6. MovedCover'
  BY <1>1, <1>3 DEF MovedCover, OwningStaging, OwningRow
<1>7. SourceHolds' /\ HomeHolds'
  BY <1>1, <1>4 DEF SourceHolds, HomeHolds, SomeAt, OwningRow
<1>8. KeptOutsideStaging'
  BY <1>4, PlacesListed DEF KeptOutsideStaging, Holds, Exists
<1>9. QED
  BY <1>5, <1>6, <1>7, <1>8 DEF Whereabouts

\* The backup stays where it is, and an error says so: the staging directory that
\* stays too keeps the next rename away.
LEMMA GivingUpKeepsNotes ==
    ASSUME Inv, NEW r \in Renamers, step[r] = "restoring",
           step' = [step EXCEPT ![r] = "rolling back"], broken',
           UNCHANGED <<dir, row, target, listing, saved, late>>
    PROVE  Whereabouts'
<1>1. /\ step'[r] = "rolling back"
      /\ \A other \in Renamers \ {r} : step'[other] = step[other]
  BY DEF Inv, Ownership, TypeOK
<1>2. \A other \in Renamers \ {r} : step'[other] \notin OwningStaging \cup OwningRow
  BY <1>1 DEF Inv, Ownership, StagingOwned, RowOwned, OwningStaging, OwningRow
<1>3. CopiesCover'
  BY <1>1, <1>2 DEF CopiesCover, Copied, OwningStaging
<1>4. MovedCover'
  BY <1>1, <1>2 DEF MovedCover, OwningStaging, OwningRow
<1>5. SourceHolds'
  <2>1. Exists(Staging)'
    BY DEF Inv, Ownership, StagingOwned, OwningStaging, Exists
  <2>2. ~SomeAt(BeforeMove)'
    BY <1>1, <1>2 DEF SomeAt, BeforeMove, OwningStaging
  <2>3. QED
    BY <2>1, <2>2 DEF SourceHolds
<1>6. HomeHolds'
  BY DEF HomeHolds
<1>7. KeptOutsideStaging'
  BY DEF Inv, Whereabouts, KeptOutsideStaging, Exists, OnTime
<1>8. QED
  BY <1>3, <1>4, <1>5, <1>6, <1>7 DEF Whereabouts

\* The row names the source again, which has the notes.
LEMMA RollBackRowKeepsNotes ==
    ASSUME Inv, NEW r \in Renamers, step[r] = "rolling back",
           NEW s \in {"rolled back", "interrupted"},
           step' = [step EXCEPT ![r] = s], row'.home = Source, broken => broken',
           UNCHANGED <<dir, target, listing, saved, late>>
    PROVE  Whereabouts'
<1>1. /\ step'[r] \in {"rolled back", "interrupted"}
      /\ \A other \in Renamers \ {r} : step'[other] = step[other]
  BY DEF Inv, Ownership, TypeOK
<1>2. \A other \in Renamers \ {r} : step'[other] \notin OwningRow
  BY <1>1 DEF Inv, Ownership, RowOwned, OwningRow
<1>3. CopiesCover'
  BY <1>1 DEF Inv, Whereabouts, CopiesCover, Copied, Exists
<1>4. MovedCover'
  BY <1>1, <1>2 DEF MovedCover, OwningRow
<1>5. SourceHolds'
  <2>1. SomeAt(RowAhead)
    BY DEF SomeAt, RowAhead
  <2>2. SomeAt(BeforeMove)' => SomeAt(BeforeMove)
    BY <1>1 DEF SomeAt, BeforeMove
  <2>3. Exists(Staging)' <=> Exists(Staging)
    BY DEF Exists
  <2>4. Holds(Source)' <=> Holds(Source)
    BY DEF Holds, OnTime
  <2>5. QED
    BY <2>1, <2>2, <2>3, <2>4 DEF Inv, Whereabouts, SourceHolds
<1>6. HomeHolds'
  BY DEF HomeHolds
<1>7. KeptOutsideStaging'
  BY DEF Inv, Whereabouts, KeptOutsideStaging, Exists, OnTime
<1>8. QED
  BY <1>3, <1>4, <1>5, <1>6, <1>7 DEF Whereabouts

\* The files are left alone: only how far the renames are, and the other columns
\* of the row.
LEMMA FilesLeftAlone ==
    ASSUME Inv, UNCHANGED <<dir, step, target, listing, saved, late, broken>>, row'.home = row.home
    PROVE  Whereabouts'
<1>1. CopiesCover' /\ MovedCover'
  BY DEF Inv, Whereabouts, CopiesCover, MovedCover, Holds, OnTime, Exists
<1>2. SourceHolds' /\ HomeHolds'
  BY DEF Inv, Whereabouts, SourceHolds, HomeHolds, Holds, OnTime, Exists, SomeAt
<1>3. KeptOutsideStaging'
  BY DEF Inv, Whereabouts, KeptOutsideStaging, Exists, OnTime
<1>4. QED
  BY <1>1, <1>2, <1>3 DEF Whereabouts

\* A crash ends the renames that are under way, and breaks them.
LEMMA CrashKeepsNotes ==
    ASSUME Inv, Crash
    PROVE  Whereabouts'
<1>1. UNCHANGED <<dir, row, target, listing, saved, late>>
  BY DEF Crash, world
<1>2. \A r \in Renamers : step'[r] = step[r] \/ step'[r] = "interrupted"
  BY DEF Crash
<1>3. broken => broken'
  BY DEF Crash
<1>4. CASE step' = step
  <2>1. CASE broken' <=> broken
    <3>1. CopiesCover' /\ MovedCover'
      BY <1>1, <1>4 DEF Inv, Whereabouts, CopiesCover, MovedCover, Holds, OnTime, Exists
    <3>2. SourceHolds' /\ HomeHolds'
      BY <1>1, <1>4, <2>1
      DEF Inv, Whereabouts, SourceHolds, HomeHolds, Holds, OnTime, Exists, SomeAt
    <3>3. KeptOutsideStaging'
      BY <1>1 DEF Inv, Whereabouts, KeptOutsideStaging, Exists, OnTime
    <3>4. QED
      BY <3>1, <3>2, <3>3 DEF Whereabouts
  <2>2. QED
    BY <1>4, <2>1 DEF Crash
<1>5. CASE step' # step
  <2>1. broken'
    BY <1>5 DEF Crash
  <2>2. CopiesCover'
    BY <1>1, <1>2 DEF Inv, Whereabouts, CopiesCover, Copied, Exists
  <2>3. MovedCover'
    BY <1>1, <1>2 DEF Inv, Whereabouts, MovedCover, Holds, OnTime, Exists
  <2>4. SourceHolds'
    <3>1. SomeAt(BeforeMove)' => SomeAt(BeforeMove)
      BY <1>2 DEF SomeAt, BeforeMove
    <3>2. SomeAt(RowAhead)' => SomeAt(RowAhead)
      BY <1>2 DEF SomeAt, RowAhead
    <3>3. (Exists(Staging)' <=> Exists(Staging)) /\ (Holds(Source)' <=> Holds(Source))
      BY <1>1 DEF Exists, Holds, OnTime
    <3>4. QED
      BY <1>1, <1>3, <3>1, <3>2, <3>3 DEF Inv, Whereabouts, SourceHolds
  <2>5. HomeHolds'
    BY <2>1 DEF HomeHolds
  <2>6. KeptOutsideStaging'
    BY <1>1 DEF Inv, Whereabouts, KeptOutsideStaging, Exists, OnTime
  <2>7. QED
    BY <2>2, <2>3, <2>4, <2>5, <2>6 DEF Whereabouts
<1>6. QED
  BY <1>4, <1>5

\* A note goes to the directory that its command resolved; unless no rename is
\* under way and the registry still names that directory, it is late.
LEMMA StoreNoteKeepsNotes ==
    ASSUME Inv, NEW w \in Writers, StoreNote(w)
    PROVE  Whereabouts'
<1> DEFINE Quiet == path[w] = row.home /\ \A r \in Renamers : step[r] \in NotListed \cup Ended
<1>1. path[w] \in Homes /\ path[w] \in Places \ {Staging, Backup} /\ w \in Notes
  BY PlacesListed DEF StoreNote, Inv, Ownership, TypeOK, Notes
<1>2. UNCHANGED <<row, step, target, listing, broken>>
  BY DEF StoreNote, rename, counters
<1>3. \A place \in Places \ {path[w]} : dir'[place] = dir[place]
  BY DEF StoreNote, Inv, Ownership, TypeOK
<1>4. /\ ~Exists(path[w]) => dir'[path[w]] = {w}
      /\ Exists(path[w]) => dir'[path[w]] = dir[path[w]] \cup {w}
  BY <1>1 DEF StoreNote, Inv, Ownership, TypeOK, Exists
<1>5. dir'[path[w]] # Absent /\ w \in dir'[path[w]]
  <2>1. {w} # Absent
    BY <1>1, ContentsListed
  <2>2. ASSUME Exists(path[w]) PROVE dir[path[w]] \cup {w} # Absent
    <3>1. dir[path[w]] \subseteq Notes
      BY <1>1, <2>2, ContentsListed DEF Exists, Inv, Ownership, TypeOK
    <3>2. dir[path[w]] \cup {w} \in SUBSET Notes
      BY <1>1, <3>1
    <3>3. QED
      BY <3>2, ContentsListed
  <2>3. QED
    BY <1>4, <2>1, <2>2
<1>6. \A place \in Places : Exists(place) =>
          dir'[place] # Absent /\ dir[place] \subseteq dir'[place]
  BY <1>3, <1>4, <1>5 DEF Exists
<1>7. Quiet => late' = late /\ OnTime' \subseteq OnTime \cup {w}
  BY DEF StoreNote, OnTime
<1>8. ~Quiet => late' = late \cup {w} /\ OnTime' \subseteq OnTime
  BY DEF StoreNote, OnTime
<1>9. dir'[Staging] = dir[Staging] /\ dir'[Backup] = dir[Backup]
  BY <1>1, <1>3, PlacesListed
<1>10. \A place \in Places : Holds(place) /\ ~Quiet => Holds(place)'
  BY <1>6, <1>8 DEF Holds, Exists
<1>11. Quiet => \A place \in Places : Holds(place) /\ place = path[w] => Holds(place)'
  BY <1>5, <1>6, <1>7 DEF Holds, Exists
<1>12. Exists(Source)' /\ ~Quiet =>
           \/ dir'[Source] \subseteq {w}
           \/ Exists(Source) /\ dir'[Source] \subseteq dir[Source] \cup {w}
  <2>1. CASE path[w] = Source
    BY <1>4, <2>1 DEF Exists
  <2>2. CASE path[w] # Source
    BY <1>3, <2>2, PlacesListed DEF Exists
  <2>3. QED
    BY <2>1, <2>2
<1>13. CopiesCover'
  <2>1. ASSUME NEW r \in Renamers, step[r] \in Copied \cup {"copying"} PROVE ~Quiet
    BY <2>1 DEF Copied, NotListed, Ended
  <2>2. QED
    BY <1>2, <1>8, <1>9, <1>12, <2>1 DEF Inv, Whereabouts, CopiesCover, Exists
<1>14. MovedCover'
  <2>1. ASSUME NEW r \in Renamers, step[r] \in {"installing", "restoring", "removing backup"}
        PROVE  ~Quiet
    BY <2>1 DEF NotListed, Ended
  <2>2. \A r \in Renamers : target[r] \in Places
    BY PlacesListed DEF Inv, Ownership, TypeOK
  <2>3. ASSUME NEW r \in Renamers
        PROVE  /\ step[r] \in {"installing", "restoring"} => Holds(Backup)'
               /\ step[r] = "installing" => OnTime' \subseteq dir'[Staging]
    BY <1>8, <1>9, <1>10, <2>1, PlacesListed DEF Inv, Whereabouts, MovedCover
  <2>4. ASSUME NEW r \in Renamers, step[r] = "removing backup" PROVE Holds(target[r])'
    <3>1. Holds(target[r]) /\ ~Quiet
      BY <2>1, <2>4 DEF Inv, Whereabouts, MovedCover
    <3>2. QED
      BY <1>2, <1>6, <1>8, <2>2, <3>1 DEF Holds, Exists
  <2>5. ASSUME NEW r \in Renamers, step[r] \in {"installing", "removing backup"}, Exists(Source)'
        PROVE  dir'[Source] \subseteq late'
    BY <1>8, <1>12, <2>1, <2>5 DEF Inv, Whereabouts, MovedCover
  <2>6. QED
    BY <1>2, <2>3, <2>4, <2>5 DEF MovedCover
<1>15. SourceHolds'
  <2>1. SUFFICES ASSUME Holds(Source), row.home = Source \/ SomeAt(RowAhead) PROVE Holds(Source)'
    BY <1>2, <1>9 DEF Inv, Whereabouts, SourceHolds, SomeAt, Exists
  <2>2. Quiet => path[w] = Source
    BY <2>1 DEF SomeAt, RowAhead, NotListed, Ended
  <2>3. QED
    BY <1>10, <1>11, <2>1, <2>2, PlacesListed
<1>16. HomeHolds'
  <2>1. row.home \in Places
    BY PlacesListed DEF Inv, Ownership, TypeOK, Rows
  <2>2. SUFFICES ASSUME Holds(row.home) PROVE Holds(row.home)'
    BY <1>2 DEF Inv, Whereabouts, HomeHolds, SomeAt
  <2>3. CASE Quiet
    BY <1>2, <1>5, <1>6, <1>7, <2>1, <2>2, <2>3 DEF Holds, Exists
  <2>4. CASE ~Quiet
    BY <1>2, <1>6, <1>8, <2>1, <2>2, <2>4 DEF Holds, Exists
  <2>5. QED
    BY <2>3, <2>4
<1>17. KeptOutsideStaging'
  <2>1. SUFFICES ASSUME NEW note \in OnTime'
                 PROVE  \E place \in Places \ {Staging} : dir'[place] # Absent /\ note \in dir'[place]
    BY DEF KeptOutsideStaging, Exists
  <2>2. CASE note = w
    BY <1>1, <1>5, <2>2
  <2>3. CASE note # w
    <3>1. note \in OnTime
      BY <1>7, <1>8, <2>3
    <3>2. QED
      BY <1>6, <3>1 DEF Inv, Whereabouts, KeptOutsideStaging, Exists
  <2>4. QED
    BY <2>2, <2>3
<1>18. QED
  BY <1>13, <1>14, <1>15, <1>16, <1>17 DEF Whereabouts

\* Every step of a rename, and every cancellation.
LEMMA RenamesKeepNotes ==
    ASSUME Inv, NEW r \in Renamers, RenameStep(r) \/ Cancel(r)
    PROVE  Whereabouts'
<1> USE DEF At, GoTo, world, rename, writing, counters
<1>1. CASE Read(r)
  <2>1. /\ <<step[r], "checking">> \in Goings /\ step' = [step EXCEPT ![r] = "checking"]
        /\ dir' = dir /\ UNCHANGED <<row, target, listing, saved, late>> /\ (broken => broken')
    BY <1>1 DEF Read, Goings
  <2>2. QED
    BY <2>1, GoingKeepsNotes
<1>2. CASE Check(r)
  <2>1. PICK s \in {"creating", "refused"} :
           <<step[r], s>> \in Goings /\ step' = [step EXCEPT ![r] = s]
    BY <1>2 DEF Check, Goings
  <2>2. dir' = dir /\ UNCHANGED <<row, target, listing, saved, late>> /\ (broken => broken')
    BY <1>2 DEF Check
  <2>3. QED
    BY <2>1, <2>2, GoingKeepsNotes
<1>3. CASE CreateStaging(r)
  BY <1>3, CreateStagingKeepsNotes
<1>4. CASE \E note \in Notes : CopyNote(r, note)
  BY <1>4, CopyNoteKeepsNotes
<1>5. CASE Rewrite(r)
  <2>1. /\ <<step[r], "updating">> = <<"copying", "updating">> /\ listing[r] \subseteq dir[Staging]
        /\ step' = [step EXCEPT ![r] = "updating"]
        /\ dir' = dir /\ UNCHANGED <<row, target, listing, saved, late>> /\ (broken => broken')
    BY <1>5 DEF Rewrite
  <2>2. QED
    BY <2>1, GoingKeepsNotes
<1>6. CASE RemoveStaging(r)
  <2>1. /\ <<step[r], "refused">> \in Goings /\ step' = [step EXCEPT ![r] = "refused"]
        /\ dir' = Removed(Staging) /\ step[r] \in BeforeMove /\ "refused" \notin OwningStaging
        /\ UNCHANGED <<row, target, listing, saved, late>> /\ (broken => broken')
    BY <1>6 DEF RemoveStaging, Goings, BeforeMove, OwningStaging
  <2>2. QED
    BY <2>1, GoingKeepsNotes
<1>7. CASE UpdateRow(r)
  <2>1. step[r] = "updating" /\ UNCHANGED <<dir, target, listing, saved, late>> /\ (broken => broken')
    BY <1>7 DEF UpdateRow
  <2>2. CASE row = seen[r]
    <3>1. step' = [step EXCEPT ![r] = "committing"] /\ step'[r] = "committing"
      BY <1>7, <2>2 DEF UpdateRow, Inv, Ownership, TypeOK
    <3>2. row.home = Source
      BY <2>1, <2>2 DEF Inv, Ownership, SeenAtSource, BeforeRow
    <3>3. row'.home = target[r]
      BY <1>7, <2>2 DEF UpdateRow, Inv, Ownership, TypeOK, Rows
    <3>4. QED
      BY <2>1, <3>1, <3>2, <3>3, UpdateRowKeepsNotes
  <2>3. CASE row # seen[r]
    <3>1. /\ <<step[r], "discarding">> \in Goings /\ step' = [step EXCEPT ![r] = "discarding"]
          /\ row' = row
      BY <1>7, <2>3 DEF UpdateRow, Goings
    <3>2. QED
      BY <2>1, <3>1, GoingKeepsNotes
  <2>4. QED
    BY <2>2, <2>3
<1>8. CASE CheckAgain(r)
  <2>1. PICK s \in {"moving", "rolling back"} :
           <<step[r], s>> \in Goings /\ step' = [step EXCEPT ![r] = s]
    BY <1>8 DEF CheckAgain, Goings
  <2>2. dir' = dir /\ UNCHANGED <<row, target, listing, saved, late>> /\ (broken => broken')
    BY <1>8 DEF CheckAgain
  <2>3. QED
    BY <2>1, <2>2, GoingKeepsNotes
<1>9. CASE MoveSource(r)
  <2>1. CASE Exists(Source) /\ Free(Backup)
    BY <1>9, <2>1, MoveSourceKeepsNotes
  <2>2. CASE ~(Exists(Source) /\ Free(Backup))
    <3>1. /\ <<step[r], "rolling back">> \in Goings /\ step' = [step EXCEPT ![r] = "rolling back"]
          /\ dir' = Removed(Staging) /\ step[r] \in BeforeMove /\ "rolling back" \notin OwningStaging
          /\ UNCHANGED <<row, target, listing, saved, late>> /\ (broken => broken')
      BY <1>9, <2>2 DEF MoveSource, Goings, BeforeMove, OwningStaging
    <3>2. QED
      BY <3>1, GoingKeepsNotes
  <2>3. QED
    BY <2>1, <2>2
<1>10. CASE Install(r)
  <2>1. CASE Free(target[r])
    BY <1>10, <2>1, InstallKeepsNotes
  <2>2. CASE ~Free(target[r])
    <3>1. /\ <<step[r], "restoring">> \in Goings /\ step' = [step EXCEPT ![r] = "restoring"]
          /\ dir' = dir /\ UNCHANGED <<row, target, listing, saved, late>> /\ (broken => broken')
      BY <1>10, <2>2 DEF Install, Goings
    <3>2. QED
      BY <3>1, GoingKeepsNotes
  <2>3. QED
    BY <2>1, <2>2
<1>11. CASE RemoveBackup(r)
  BY <1>11, RemoveBackupKeepsNotes
<1>12. CASE RestoreSource(r)
  <2>1. CASE Free(Source)
    BY <1>12, <2>1, RestoreSourceKeepsNotes
  <2>2. CASE ~Free(Source)
    <3>1. /\ step[r] = "restoring" /\ step' = [step EXCEPT ![r] = "rolling back"] /\ broken'
          /\ UNCHANGED <<dir, row, target, listing, saved, late>>
      BY <1>12, <2>2 DEF RestoreSource
    <3>2. QED
      BY <3>1, GivingUpKeepsNotes
  <2>3. QED
    BY <2>1, <2>2
<1>13. CASE RemoveRestoredStaging(r)
  <2>1. /\ <<step[r], "rolling back">> \in Goings /\ step' = [step EXCEPT ![r] = "rolling back"]
        /\ dir' = Removed(Staging) /\ step[r] \in BeforeMove /\ "rolling back" \notin OwningStaging
        /\ UNCHANGED <<row, target, listing, saved, late>> /\ (broken => broken')
    BY <1>13 DEF RemoveRestoredStaging, Goings, BeforeMove, OwningStaging
  <2>2. QED
    BY <2>1, GoingKeepsNotes
<1>14. CASE RollBackRow(r)
  <2>1. /\ step[r] = "rolling back" /\ step' = [step EXCEPT ![r] = "rolled back"]
        /\ UNCHANGED <<dir, target, listing, saved, late>>
    BY <1>14 DEF RollBackRow
  <2>2. CASE row = seen[r]
    <3>1. row'.home = Source /\ (broken => broken')
      BY <1>14, <2>2 DEF RollBackRow, Inv, Ownership, TypeOK, Rows
    <3>2. QED
      BY <2>1, <3>1, RollBackRowKeepsNotes
  <2>3. CASE row # seen[r]
    <3>1. row' = row /\ broken' /\ <<step[r], "rolled back">> \in Endings
      BY <1>14, <2>1, <2>3 DEF RollBackRow, Endings
    <3>2. QED
      BY <2>1, <3>1, GoingKeepsNotes
  <2>4. QED
    BY <2>2, <2>3
<1>15. CASE Fail(r)
  <2>1. UNCHANGED <<row, target, listing, saved, late>> /\ (broken => broken')
    <3>1. UNCHANGED <<row, target, listing, saved, late>>
      BY <1>15 DEF Fail, OnFailure
    <3>2. broken' \/ UNCHANGED broken
      BY <1>15 DEF Fail, OnFailure
    <3>3. QED
      BY <3>1, <3>2
  <2>2. CASE step[r] = "restoring"
    <3>1. /\ step' = [step EXCEPT ![r] = "rolling back"] /\ broken'
          /\ UNCHANGED <<dir, row, target, listing, saved, late>>
      BY <1>15, <2>1, <2>2 DEF Fail
    <3>2. QED
      BY <2>2, <3>1, GivingUpKeepsNotes
  <2>3. CASE step[r] = "moving"
    <3>1. /\ <<step[r], "rolling back">> \in Goings /\ step' = [step EXCEPT ![r] = "rolling back"]
          /\ dir' = dir \/ dir' = Removed(Staging)
          /\ step[r] \in BeforeMove /\ "rolling back" \notin OwningStaging
      BY <1>15, <2>3 DEF Fail, Goings, BeforeMove, OwningStaging
    <3>2. QED
      BY <2>1, <3>1, GoingKeepsNotes
  <2>4. CASE step[r] = "rolling back"
    <3>1. /\ <<step[r], "rolled back">> \in Endings /\ step' = [step EXCEPT ![r] = "rolled back"]
          /\ dir' = dir /\ broken'
      BY <1>15, <2>4 DEF Fail, Endings
    <3>2. QED
      BY <2>1, <3>1, GoingKeepsNotes
  <2>5. CASE step[r] \notin {"restoring", "moving", "rolling back"}
    <3>1. dir' = dir
      BY <1>15, <2>5 DEF Fail, OnFailure
    <3>2. \E s \in {"refused", "cleaning", "discarding", "rolling back", "restoring", "backup retained"} :
             <<step[r], s>> \in Goings /\ step' = [step EXCEPT ![r] = s]
      BY <1>15, <2>5 DEF Fail, OnFailure, Goings
    <3>3. QED
      BY <2>1, <3>1, <3>2, GoingKeepsNotes
  <2>6. QED
    BY <2>2, <2>3, <2>4, <2>5
<1>16. CASE Cancel(r)
  <2>1. /\ step' = [step EXCEPT ![r] = "interrupted"] /\ broken'
        /\ UNCHANGED <<dir, target, listing, saved, late>>
    BY <1>16 DEF Cancel
  <2>2. CASE step[r] \in {"updating", "rolling back"} /\ row' = row
    <3>1. <<step[r], "interrupted">> \in Endings
      BY <2>2 DEF Endings
    <3>2. QED
      BY <2>1, <2>2, <3>1, GoingKeepsNotes
  <2>3. CASE step[r] = "updating" /\ row = seen[r] /\ row' = [row EXCEPT !.home = target[r]]
    <3>1. row.home = Source /\ row'.home = target[r]
      BY <2>3 DEF Inv, Ownership, SeenAtSource, BeforeRow, TypeOK, Rows
    <3>2. step'[r] = "interrupted"
      BY <2>1 DEF Inv, Ownership, TypeOK
    <3>3. QED
      BY <2>1, <2>3, <3>1, <3>2, UpdateRowKeepsNotes
  <2>4. CASE step[r] = "rolling back" /\ row' = [row EXCEPT !.home = Source]
    <3>1. row'.home = Source
      BY <2>4 DEF Inv, Ownership, TypeOK, Rows
    <3>2. QED
      BY <2>1, <2>4, <3>1, RollBackRowKeepsNotes
  <2>5. QED
    BY <1>16, <2>2, <2>3, <2>4 DEF Cancel
<1>17. QED
  BY <1>1, <1>2, <1>3, <1>4, <1>5, <1>6, <1>7, <1>8, <1>9, <1>10, <1>11, <1>12, <1>13, <1>14,
     <1>15, <1>16 DEF RenameStep

\* Every step of the system.
LEMMA InvKept ==
    ASSUME Inv, [Next]_vars
    PROVE  Inv'
<1>1. Ownership'
  BY OwnershipKept DEF Inv
<1>2. ASSUME NEW r \in Renamers, RenameStep(r) \/ Cancel(r) PROVE Whereabouts'
  BY <1>2, RenamesKeepNotes
<1>3. ASSUME NEW w \in Writers, Resolve(w) PROVE Whereabouts'
  <2>1. UNCHANGED <<dir, row, step, target, listing, saved, late, broken>>
    BY <1>3 DEF Resolve, world, rename
  <2>2. QED
    BY <2>1, FilesLeftAlone
<1>4. ASSUME NEW w \in Writers, StoreNote(w) PROVE Whereabouts'
  BY <1>4, StoreNoteKeepsNotes
<1>5. ASSUME UpdateProject PROVE Whereabouts'
  <2>1. /\ UNCHANGED <<dir, step, target, listing, saved, late, broken>>
        /\ row'.home = row.home
    BY <1>5 DEF UpdateProject, rename, writing, Inv, Ownership, TypeOK, Rows
  <2>2. QED
    BY <2>1, FilesLeftAlone
<1>6. ASSUME Crash PROVE Whereabouts'
  BY <1>6, CrashKeepsNotes
<1>7. ASSUME UNCHANGED vars PROVE Whereabouts'
  <2>1. UNCHANGED <<dir, row, step, target, listing, saved, late, broken>>
    BY <1>7 DEF vars, world, rename, writing
  <2>2. QED
    BY <2>1, FilesLeftAlone
<1>8. QED
  BY <1>1, <1>2, <1>3, <1>4, <1>5, <1>6, <1>7 DEF Inv, Next

\* At the beginning the source has all notes.
LEMMA InvStarts == Init => Inv
<1> SUFFICES ASSUME Init PROVE Inv
  OBVIOUS
<1>1. Ownership
  BY OwnershipStarts
<1>2. dir[Source] = FirstNotes /\ OnTime = FirstNotes /\ FirstNotes # Absent
  BY PlacesListed, ContentsListed DEF Init, OnTime, Notes
<1>3. Holds(Source)
  BY <1>2 DEF Holds
<1>4. CopiesCover /\ MovedCover
  BY DEF Init, CopiesCover, MovedCover, Copied
<1>5. SourceHolds /\ HomeHolds
  BY <1>3 DEF Init, SourceHolds, HomeHolds
<1>6. KeptOutsideStaging
  BY <1>3, PlacesListed DEF KeptOutsideStaging, Holds, Exists
<1>7. QED
  BY <1>1, <1>4, <1>5, <1>6 DEF Inv, Whereabouts

\* The second invariant.
LEMMA RenamesKeepInv == Spec => []Inv
BY InvStarts, InvKept, PTL DEF Spec

-----------------------------------------------------------------------------
\* No rename, failure, cancellation or crash loses a note, however many renames
\* and task commands run at a time.
THEOREM RenamesLoseNoNote == Spec => []NotesKept
<1>1. Inv => NotesKept
  BY DEF Inv, Whereabouts, KeptOutsideStaging, NotesKept, OnTime
<1>2. QED
  BY <1>1, RenamesKeepInv, PTL

\* With no rename under way, the registry names the directory with the notes.
THEOREM RegistryAgreesWithFiles == Spec => []RegistryNamesTheNotes
<1>1. Inv => RegistryNamesTheNotes
  <2>1. SUFFICES ASSUME Inv, \A r \in Renamers : step[r] \in {"idle"} \cup Ended, ~broken
                 PROVE  Holds(row.home)
    BY DEF RegistryNamesTheNotes, Holds, Exists, OnTime
  <2>2. CASE row.home = Source
    BY <2>1, <2>2 DEF Inv, Whereabouts, SourceHolds
  <2>3. CASE row.home # Source
    <3>1. ~SomeAt(OwningRow)
      BY <2>1 DEF SomeAt, OwningRow, Ended
    <3>2. QED
      BY <2>1, <2>3, <3>1 DEF Inv, Whereabouts, HomeHolds
  <2>4. QED
    BY <2>2, <2>3
<1>2. QED
  BY <1>1, RenamesKeepInv, PTL

\* Only the removal of the backup ends a rename well.
LEMMA RenamedByRemoval ==
    ASSUME TypeOK, [Next]_vars, NEW r \in Renamers, step'[r] = "renamed", step[r] # "renamed"
    PROVE  RemoveBackup(r)
<1> USE DEF TypeOK, At, GoTo
<1>1. ASSUME NEW other \in Renamers, RenameStep(other) PROVE RemoveBackup(r)
  <2>1. CASE Fail(other)
    BY <2>1 DEF Fail, OnFailure
  <2>2. CASE ~Fail(other) /\ ~RemoveBackup(other)
    BY <1>1, <2>2
    DEF RenameStep, Read, Check, CreateStaging, CopyNote, Rewrite, RemoveStaging, UpdateRow,
        CheckAgain, MoveSource, Install, RestoreSource, RemoveRestoredStaging, RollBackRow
  <2>3. CASE RemoveBackup(other)
    BY <2>3 DEF RemoveBackup
  <2>4. QED
    BY <2>1, <2>2, <2>3
<1>2. ASSUME NEW other \in Renamers, Cancel(other) PROVE FALSE
  BY <1>2 DEF Cancel
<1>3. CASE Crash
  BY <1>3 DEF Crash
<1>4. CASE UNCHANGED step
  BY <1>4
<1>5. QED
  BY <1>1, <1>2, <1>3, <1>4 DEF Next, Resolve, StoreNote, UpdateProject, rename, vars

\* A rename that reports success moved every note, and left no copy behind.
THEOREM RenamedMeansMoved == Spec => SuccessMeansMoved
<1>1. ASSUME Inv, [Next]_vars, NEW r \in Renamers, step'[r] = "renamed", step[r] # "renamed"
      PROVE  /\ row.home = target[r]
             /\ dir'[target[r]] # Absent
             /\ saved \ late \subseteq dir'[target[r]]
             /\ dir'[Backup] = Absent
             /\ dir'[Source] = Absent \/ dir'[Source] \subseteq late
  <2>1. RemoveBackup(r)
    BY <1>1, RenamedByRemoval DEF Inv, Ownership
  <2>2. step[r] = "removing backup" /\ dir' = Removed(Backup)
    BY <2>1 DEF RemoveBackup, At
  <2>3. row.home = target[r] /\ Holds(target[r]) /\ (Exists(Source) => dir[Source] \subseteq late)
    BY <1>1, <2>2 DEF Inv, Ownership, RowOwned, OwningRow, Whereabouts, MovedCover
  <2>4. target[r] \in Places \ {Backup} /\ Source \in Places \ {Backup}
    BY <1>1, PlacesListed DEF Inv, Ownership, TypeOK
  <2>5. /\ dir'[Backup] = Absent /\ dir'[target[r]] = dir[target[r]]
        /\ dir'[Source] = dir[Source]
    BY <1>1, <2>2, <2>4, PlacesListed DEF Removed, Inv, Ownership, TypeOK
  <2>6. QED
    BY <2>3, <2>5 DEF Holds, OnTime, Exists
<1>2. Inv /\ [Next]_vars =>
        [\A r \in Renamers : step'[r] = "renamed" /\ step[r] # "renamed" =>
             /\ row.home = target[r]
             /\ dir'[target[r]] # Absent
             /\ saved \ late \subseteq dir'[target[r]]
             /\ dir'[Backup] = Absent
             /\ dir'[Source] = Absent \/ dir'[Source] \subseteq late]_vars
  BY <1>1
<1>3. QED
  BY <1>2, RenamesKeepInv, PTL DEF Spec, SuccessMeansMoved

-----------------------------------------------------------------------------
(* The socket: with one server starting or stopping at a time, nobody removes *)
(* or replaces a file that a serving server listens on.                       *)

HoldsListener == {"inspecting", "restricting", "verifying", "serving", "closing", "leaving"}
OwnsSocket == {"inspecting", "restricting", "verifying", "serving"}

\* The phases that exclude a serving server: they begin when nobody answers,
\* or when the only server that served stops.
ServesNobody == (Starting \ {"probing", "binding"}) \cup Stopping \cup {"leaving"}

\* A listener belongs to one server, which is past binding.
ListenersApart ==
    /\ \A s \in Servers :
         /\ phase[s] \in HoldsListener => listener[s] # NoFile
         /\ listener[s] # NoFile => phase[s] \in HoldsListener \cup Stopping
    /\ \A s, t \in Servers : s # t /\ listener[s] # NoFile => listener[s] # listener[t]

OneAtATime ==
    /\ IsFiniteSet(Busy(phase))
    /\ ~crowded => \A s, t \in Busy(phase) : s = t

Undisturbed ==
    ~crowded => \A s \in Servers :
        /\ phase[s] \in OwnsSocket => socket = listener[s]
        /\ phase[s] = "serving" => private
        /\ phase[s] \in ServesNobody => \A t \in Servers : phase[t] # "serving"

SocketInv == SocketTypeOK /\ ListenersApart /\ OneAtATime /\ Undisturbed

\* A step of one server adds at most that server to the busy ones.
LEMMA EnterKeepsOne ==
    ASSUME SocketInv, NEW s \in Servers, NEW p \in Phases, Enter(s, p)
    PROVE  /\ OneAtATime'
           /\ phase' \in [Servers -> Phases] /\ crowded' \in BOOLEAN
           /\ ~crowded' => ~crowded
<1>1. phase' = [phase EXCEPT ![s] = p] /\ phase \in [Servers -> Phases]
  BY DEF Enter, SocketInv, SocketTypeOK
<1>2. IsFiniteSet(Busy(phase) \cup {s})
  BY FS_AddElement DEF SocketInv, OneAtATime
<1>3. Busy(phase') \in SUBSET (Busy(phase) \cup {s})
  BY <1>1 DEF Busy
<1>4. IsFiniteSet(Busy(phase'))
  BY <1>2, <1>3, FS_Subset
<1>5. ASSUME ~crowded', NEW t \in Busy(phase'), NEW u \in Busy(phase'), t # u
      PROVE  FALSE
  <2>1. ~(Cardinality(Busy(phase')) > 1)
    BY <1>5 DEF Enter
  <2>2. Cardinality({t}) = 1 /\ IsFiniteSet({t})
    BY FS_Singleton
  <2>3. Cardinality({t} \cup {u}) = 2
    <3>1. u \notin {t}
      BY <1>5
    <3>2. Cardinality({t} \cup {u}) = Cardinality({t}) + 1
      BY <2>2, <3>1, FS_AddElement
    <3>3. QED
      BY <2>2, <3>2
  <2>4. {t} \cup {u} \in SUBSET Busy(phase')
    BY <1>5
  <2>5. Cardinality({t} \cup {u}) <= Cardinality(Busy(phase')) /\ Cardinality(Busy(phase')) \in Nat
    BY <1>4, <2>4, FS_Subset, FS_CardinalityType
  <2>6. QED
    BY <2>1, <2>3, <2>5
<1>6. phase' \in [Servers -> Phases] /\ crowded' \in BOOLEAN /\ (~crowded' => ~crowded)
  BY <1>1 DEF Enter
<1>7. QED
  BY <1>4, <1>5, <1>6 DEF OneAtATime

\* Whoever serves answers, as long as nothing was crowded.
LEMMA ServingAnswers ==
    ASSUME SocketInv, ~crowded, NEW t \in Servers, phase[t] = "serving"
    PROVE  socket # NoFile /\ Answers
BY DEF SocketInv, Undisturbed, ListenersApart, OwnsSocket, HoldsListener, Answers

\* Before a server owns a file, and at the end of one that never did.
LEMMA EarlyStepsKeepInv ==
    ASSUME SocketInv, NEW s \in Servers,
           Inspect(s) \/ Probe(s) \/ Recheck(s) \/ RemoveStale(s)
    PROVE  SocketInv'
<1> USE DEF Starting, Stopping, HoldsListener, OwnsSocket, ServesNobody
<1>1. PICK p \in Phases : Enter(s, p)
  BY DEF Inspect, Probe, Recheck, RemoveStale, Phases, SocketInv, SocketTypeOK
<1>2. OneAtATime' /\ phase' \in [Servers -> Phases] /\ crowded' \in BOOLEAN /\ (~crowded' => ~crowded)
  BY <1>1, EnterKeepsOne
<1>3. phase[s] \in {"off", "probing", "rechecking", "removing"} /\ listener[s] = NoFile
  BY DEF Inspect, Probe, Recheck, RemoveStale, SocketInv, ListenersApart
<1>4. /\ phase' = [phase EXCEPT ![s] = p] /\ UNCHANGED <<private, listener, kills>>
      /\ p \in {"probing", "rechecking", "removing", "binding", "refused"}
  BY <1>1 DEF Inspect, Probe, Recheck, RemoveStale, Enter, SocketInv, SocketTypeOK
<1>5. SocketTypeOK'
  BY <1>2, <1>4 DEF Inspect, Probe, Recheck, RemoveStale, SocketInv, SocketTypeOK
<1>6. ListenersApart'
  BY <1>3, <1>4 DEF SocketInv, SocketTypeOK, ListenersApart
<1>7. ASSUME ~crowded' PROVE \A t \in Servers : phase[t] \in OwnsSocket => socket' = listener'[t]
  <2>1. CASE RemoveStale(s)
    <3>1. \A t \in Servers \ {s} : phase[t] \notin OwnsSocket
      BY <1>2, <1>7, <2>1 DEF RemoveStale, SocketInv, OneAtATime, Undisturbed, Busy
    <3>2. QED
      BY <3>1, <1>3
  <2>2. CASE Inspect(s) \/ Probe(s) \/ Recheck(s)
    BY <2>2, <1>2, <1>4, <1>7 DEF Inspect, Probe, Recheck, SocketInv, Undisturbed
  <2>3. QED
    BY <2>1, <2>2
<1>8. ASSUME ~crowded', p \in {"rechecking", "removing"}, NEW t \in Servers
      PROVE  phase[t] # "serving"
  BY <1>2, <1>4, <1>8, ServingAnswers
     DEF Inspect, Probe, Recheck, RemoveStale, Enter, SocketInv, SocketTypeOK, Undisturbed
<1>9. Undisturbed'
  BY <1>2, <1>3, <1>4, <1>7, <1>8 DEF SocketInv, SocketTypeOK, Undisturbed
<1>10. QED
  BY <1>2, <1>5, <1>6, <1>9 DEF SocketInv

\* The server makes its file, or finds one that is not its own.
LEMMA BindKeepsInv ==
    ASSUME SocketInv, NEW s \in Servers, Bind(s)
    PROVE  SocketInv'
<1> USE DEF Starting, Stopping, HoldsListener, OwnsSocket, ServesNobody
<1>1. CASE socket # NoFile
  <2>1. Enter(s, "refused") /\ UNCHANGED <<socket, private, listener, noted, kills>>
    BY <1>1 DEF Bind
  <2>2. OneAtATime' /\ phase' \in [Servers -> Phases] /\ crowded' \in BOOLEAN /\ (~crowded' => ~crowded)
    BY <2>1, EnterKeepsOne DEF Phases
  <2>3. phase' = [phase EXCEPT ![s] = "refused"] /\ phase[s] = "binding"
    BY <2>1 DEF Bind, Enter
  <2>4. QED
    BY <2>1, <2>2, <2>3 DEF SocketInv, SocketTypeOK, ListenersApart, Undisturbed
<1>2. CASE socket = NoFile
  <2>1. PICK inode \in Unused : socket' = inode /\ listener' = [listener EXCEPT ![s] = inode]
    BY <1>2 DEF Bind
  <2>2. Enter(s, "inspecting") /\ private' = FALSE /\ UNCHANGED <<noted, kills>>
    BY <1>2 DEF Bind
  <2>3. OneAtATime' /\ phase' \in [Servers -> Phases] /\ crowded' \in BOOLEAN /\ (~crowded' => ~crowded)
    BY <2>2, EnterKeepsOne DEF Phases
  <2>4. phase' = [phase EXCEPT ![s] = "inspecting"] /\ phase[s] = "binding"
    BY <2>2 DEF Bind, Enter
  <2>5. inode \in Inodes /\ inode # NoFile /\ \A t \in Servers : listener[t] # inode
    BY InodesAssumption DEF Unused
  <2>6. SocketTypeOK' /\ ListenersApart'
    BY <2>1, <2>2, <2>3, <2>4, <2>5 DEF SocketInv, SocketTypeOK, ListenersApart
  <2>7. ASSUME ~crowded' PROVE \A t \in Servers : phase[t] # "serving"
    BY <1>2, <2>3, <2>7, ServingAnswers
  <2>8. ASSUME ~crowded' PROVE \A t \in Servers \ {s} : phase[t] \notin OwnsSocket
    BY <2>3, <2>4, <2>7, <2>8 DEF SocketInv, OneAtATime, Busy
  <2>9. Undisturbed'
    BY <2>1, <2>2, <2>4, <2>7, <2>8 DEF SocketInv, SocketTypeOK, Undisturbed
  <2>10. QED
    BY <2>3, <2>6, <2>9 DEF SocketInv
<1>3. QED
  BY <1>1, <1>2

\* From the bound file to a server that serves, or that leaves.
LEMMA LaterStepsKeepInv ==
    ASSUME SocketInv, NEW s \in Servers,
           InspectBound(s) \/ SetPrivate(s) \/ Verify(s) \/ Stop(s)
    PROVE  SocketInv'
<1> USE DEF Starting, Stopping, HoldsListener, OwnsSocket, ServesNobody
<1>1. PICK p \in Phases : Enter(s, p)
  BY DEF InspectBound, SetPrivate, Verify, Stop, Phases
<1>2. OneAtATime' /\ phase' \in [Servers -> Phases] /\ crowded' \in BOOLEAN /\ (~crowded' => ~crowded)
  BY <1>1, EnterKeepsOne
<1>3. /\ phase' = [phase EXCEPT ![s] = p] /\ UNCHANGED <<socket, kills>>
      /\ private => private'
      /\ listener' = listener \/ (listener' = [listener EXCEPT ![s] = NoFile] /\ p = "refused")
      /\ p \in {"refused", "restricting", "verifying", "serving", "leaving", "closing", "comparing"}
      /\ phase[s] \in {"inspecting", "restricting", "verifying", "serving", "leaving"}
  BY <1>1 DEF InspectBound, SetPrivate, Verify, Stop, Enter, SocketInv, SocketTypeOK
<1>4. /\ p \in {"restricting", "verifying", "serving"} => phase[s] \in OwnsSocket
      /\ p = "serving" => private' /\ phase[s] = "verifying"
      /\ p \in HoldsListener => phase[s] \in HoldsListener /\ listener' = listener
      /\ p = "refused" => listener' = [listener EXCEPT ![s] = NoFile]
  BY <1>1, <1>3 DEF InspectBound, SetPrivate, Verify, Stop, Enter, SocketInv, SocketTypeOK
<1>5. SocketTypeOK'
  BY <1>2, <1>3, <1>4 DEF InspectBound, SetPrivate, Verify, Stop, SocketInv, SocketTypeOK
<1>6. ListenersApart'
  BY <1>3, <1>4, <1>5 DEF SocketInv, SocketTypeOK, ListenersApart
<1>7. ASSUME ~crowded', NEW t \in Servers, t # s, phase[s] # "serving" PROVE phase[t] # "serving"
  BY <1>2, <1>3, <1>7 DEF SocketInv, Undisturbed
<1>8. ASSUME ~crowded', NEW t \in Servers, t # s, phase[s] = "serving" PROVE phase[t] # "serving"
  BY <1>2, <1>8 DEF SocketInv, Undisturbed, ListenersApart
<1>9. ASSUME ~crowded', NEW t \in Servers, t # s, p = "serving" PROVE phase[t] \notin ServesNobody
  BY <1>2, <1>4, <1>9 DEF SocketInv, OneAtATime, Busy
<1>10. Undisturbed'
  BY <1>2, <1>3, <1>4, <1>7, <1>8, <1>9 DEF SocketInv, SocketTypeOK, Undisturbed
<1>11. QED
  BY <1>2, <1>5, <1>6, <1>10 DEF SocketInv

\* The end of a server: its listener goes, and its file if it still is its own.
LEMMA LastStepsKeepInv ==
    ASSUME SocketInv, NEW s \in Servers,
           Close(s) \/ Compare(s) \/ Unlink(s) \/ Kill(s)
    PROVE  SocketInv'
<1> USE DEF Starting, Stopping, HoldsListener, OwnsSocket, ServesNobody
<1>1. PICK p \in {"comparing", "unlinking", "gone"} : Enter(s, p)
  BY DEF Close, Compare, Unlink, Kill
<1>2. OneAtATime' /\ phase' \in [Servers -> Phases] /\ crowded' \in BOOLEAN /\ (~crowded' => ~crowded)
  BY <1>1, EnterKeepsOne DEF Phases
<1>3. /\ phase' = [phase EXCEPT ![s] = p] /\ UNCHANGED <<private, noted>>
      /\ listener' = listener \/ listener' = [listener EXCEPT ![s] = NoFile]
      /\ p = "gone" => listener' = [listener EXCEPT ![s] = NoFile]
      /\ p # "gone" => phase[s] \in {"closing", "comparing"}
  BY <1>1 DEF Close, Compare, Unlink, Kill, Enter, SocketInv, SocketTypeOK
<1>4. SocketTypeOK'
  BY <1>2, <1>3, KillsAssumption DEF Close, Compare, Unlink, Kill, SocketInv, SocketTypeOK
<1>5. ListenersApart'
  BY <1>3, <1>4 DEF SocketInv, SocketTypeOK, ListenersApart
<1>6. ASSUME ~crowded', NEW t \in Servers, t # s, phase[t] \in OwnsSocket PROVE socket' = listener[t]
  <2>1. CASE Unlink(s)
    <3>1. phase[s] = "unlinking" /\ s \in Busy(phase)
      BY <2>1 DEF Unlink, Busy
    <3>2. phase[t] # "serving"
      BY <1>2, <1>6, <3>1 DEF SocketInv, Undisturbed
    <3>3. t \in Busy(phase)
      BY <1>6, <3>2 DEF Busy
    <3>4. QED
      BY <1>2, <1>6, <3>1, <3>3 DEF SocketInv, OneAtATime
  <2>2. CASE ~Unlink(s)
    BY <1>2, <1>6, <2>2 DEF Close, Compare, Kill, SocketInv, Undisturbed
  <2>3. QED
    BY <2>1, <2>2
<1>7. Undisturbed'
  BY <1>2, <1>3, <1>6 DEF SocketInv, SocketTypeOK, Undisturbed
<1>8. QED
  BY <1>2, <1>4, <1>5, <1>7 DEF SocketInv

LEMMA SocketInvHolds == SocketSpec => []SocketInv
<1>1. SocketInit => SocketInv
  <2> SUFFICES ASSUME SocketInit PROVE SocketInv
    OBVIOUS
  <2>1. Busy(phase) = {}
    BY DEF SocketInit, Busy, Starting, Stopping
  <2>2. OneAtATime
    BY <2>1, FS_EmptySet DEF OneAtATime
  <2>3. SocketTypeOK
    <3>1. "off" \in Phases
      BY DEF Phases
    <3>2. 0 \in 0 .. MaxKills
      BY KillsAssumption
    <3>3. QED
      BY <3>1, <3>2 DEF SocketInit, SocketTypeOK
  <2>4. ListenersApart
    BY DEF SocketInit, ListenersApart, HoldsListener
  <2>5. Undisturbed
    BY DEF SocketInit, Undisturbed, OwnsSocket, ServesNobody, Starting, Stopping
  <2>6. QED
    BY <2>2, <2>3, <2>4, <2>5 DEF SocketInv
<1>2. SocketInv /\ [SocketNext]_socketVars => SocketInv'
  <2> SUFFICES ASSUME SocketInv, [SocketNext]_socketVars PROVE SocketInv'
    OBVIOUS
  <2>1. CASE SocketNext
    BY <2>1, EarlyStepsKeepInv, BindKeepsInv, LaterStepsKeepInv, LastStepsKeepInv DEF SocketNext
  <2>2. CASE UNCHANGED socketVars
    BY <2>2 DEF socketVars, SocketInv, SocketTypeOK, ListenersApart, OneAtATime, Undisturbed, Busy
  <2>3. QED
    BY <2>1, <2>2
<1>3. QED
  BY <1>1, <1>2, PTL DEF SocketSpec

\* As long as servers start and stop one at a time, one that serves is the
\* one clients reach, for any number of servers and any reuse of inodes
\* (listener.rs bind and drop).
THEOREM ServingIsReachable == SocketSpec => []ServingMeansReachable
<1>1. SocketInv => ServingMeansReachable
  BY DEF SocketInv, Undisturbed, ListenersApart, OwnsSocket, HoldsListener, ServingMeansReachable
<1>2. QED
  BY <1>1, SocketInvHolds, PTL

-----------------------------------------------------------------------------
\* All of what is on the local disk has its types, its owners and its bounds
\* (project_rename.rs, task_sequence.rs, add_task.rs, add_project.rs,
\* task_location.rs, cache.rs, listener.rs).
THEOREM LocalDataIsTyped ==
    Spec /\ SequenceSpec /\ StoreSpec /\ NotesSpec /\ SocketSpec => []LocalTypeOK
<1>1. Ownership /\ SequenceInv /\ StoreInv /\ NotesTypeOK /\ SocketInv => LocalTypeOK
  BY DEF Ownership, SequenceInv, StoreInv, Apart, ProjectsApart, SocketInv, LocalTypeOK
<1>2. QED
  BY <1>1, RenamesKeepOwnership, SequenceInvariant, StoreInvHolds, NotesAreTyped, SocketInvHolds, PTL

=============================================================================
