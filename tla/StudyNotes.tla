----------------------------- MODULE StudyNotes ------------------------------
(***************************************************************************)
(* The study notes of one project: files such as FOO-NOTE-0001.md, with no *)
(* lock, no counter and no row behind them.  A creation takes the number   *)
(* after the highest it finds; an edit opens the note a second time and    *)
(* patches what it then finds; a removal asks first and looks again        *)
(* afterwards.  A commit of one file is one step here: FileTransaction     *)
(* shows that it happens as a whole or not at all.  A note has its sources *)
(* twice, as a list of its front matter and as a section of its body,      *)
(* which a user may have changed by hand: an edit of the sources goes by   *)
(* the list and writes both.                                               *)
(***************************************************************************)
EXTENDS Naturals

CONSTANTS
    Adders, Editors, Removers,  \* the commands, each run once
    MaxNoteNumber,              \* 9999 in the code
    NoteFields,                 \* title, content, domain, tags, sources, verified
    SourceList,                 \* the sources of the front matter, one of the fields
    SourceSection,              \* the lines below the heading Sources of the body
    FirstAuthor,                \* who wrote the notes of the beginning
    NoNote

NoteCommands == Adders \cup Editors \cup Removers
NoteNumbers == 1 .. MaxNoteNumber
Authors == NoteCommands \cup {FirstAuthor}

NoteParts == NoteFields \cup {SourceSection}

\* A part is told by the commands whose values are in it.
Documents == [NoteParts -> SUBSET Authors]

Patches == [NoteFields -> {"keep", "replace", "append", "clear"}]

ASSUME NoteNumbersAssumption == MaxNoteNumber \in Nat
ASSUME SourcesAssumption == SourceList \in NoteFields /\ SourceSection \notin NoteFields
ASSUME NoNoteAssumption == NoNote \notin Documents

VARIABLES
    notes,  \* the files of the directory, by number
    work    \* how far each command is

noteVars == <<notes, work>>

Works ==
    [stage: {"waiting", "succeeded", "failed", "aborted"}]
    \cup [stage: {"creating", "asking", "confirmed"}, number: NoteNumbers]
    \cup [stage: {"reopening"}, number: NoteNumbers, patch: Patches]
    \cup [stage: {"saving"}, number: NoteNumbers, patch: Patches, seen: Documents]
    \cup [stage: {"deleting"}, number: NoteNumbers, seen: Documents]

NotesTypeOK ==
    /\ notes \in [NoteNumbers -> Documents \cup {NoNote}]
    /\ work \in [NoteCommands -> Works]

\* The notes of the beginning: with sources in both places, in one, or in none.
FirstDocuments ==
    {[part \in NoteParts |->
        IF part = SourceList THEN list ELSE IF part = SourceSection THEN section ELSE {FirstAuthor}] :
        list \in SUBSET {FirstAuthor}, section \in SUBSET {FirstAuthor}}

NotesInit ==
    /\ notes \in [NoteNumbers -> FirstDocuments \cup {NoNote}]
    /\ work = [c \in NoteCommands |-> [stage |-> "waiting"]]

-----------------------------------------------------------------------------
Stands(c, stage) == work[c].stage = stage

Goes(c, w) == work' = [work EXCEPT ![c] = w]

Ends(c, outcome) == Goes(c, [stage |-> outcome])

Written == {number \in NoteNumbers : notes[number] # NoNote}

\* list_notes, and the number that follows the highest.
ListNotes(c) ==
    /\ Stands(c, "waiting")
    /\ \E next \in 1 .. (MaxNoteNumber + 1) :
         /\ next = 1 \/ next - 1 \in Written
         /\ \A other \in Written : other < next
         /\ IF next <= MaxNoteNumber
            THEN Goes(c, [stage |-> "creating", number |-> next])
            ELSE Ends(c, "failed")
    /\ UNCHANGED notes

\* insert_note: the complete file gets its name, unless the name is taken.
InsertNote(c) ==
    /\ Stands(c, "creating")
    /\ LET n == work[c].number
       IN  IF notes[n] = NoNote
           THEN notes' = [notes EXCEPT ![n] = [part \in NoteParts |-> {c}]] /\ Ends(c, "succeeded")
           ELSE UNCHANGED notes /\ Ends(c, "failed")

-----------------------------------------------------------------------------
\* get_note: the title that the answer shows comes from here.
FindForEdit(c, n, patch) ==
    /\ Stands(c, "waiting")
    /\ IF notes[n] # NoNote
       THEN Goes(c, [stage |-> "reopening", number |-> n, patch |-> patch])
       ELSE Ends(c, "failed")
    /\ UNCHANGED notes

\* update_note opens the file again.
OpenNote(c) ==
    /\ Stands(c, "reopening")
    /\ LET n == work[c].number
       IN  IF notes[n] # NoNote
           THEN Goes(c, [stage |-> "saving", number |-> n, patch |-> work[c].patch, seen |-> notes[n]])
           ELSE Ends(c, "failed")
    /\ UNCHANGED notes

Resolved(c, document, patch) ==
    [field \in NoteFields |->
        CASE patch[field] = "keep" -> document[field]
          [] patch[field] = "replace" -> {c}
          [] patch[field] = "append" -> document[field] \cup {c}
          [] patch[field] = "clear" -> {}]

\* The section is written anew from the list, if the edit names the sources.
Patched(c, document, patch) ==
    [part \in NoteParts |->
        IF part # SourceSection THEN Resolved(c, document, patch)[part]
        ELSE IF patch[SourceList] = "keep" THEN document[SourceSection]
        ELSE Resolved(c, document, patch)[SourceList]]

\* Mutant: the file is written whatever became of it.
SaveBlindly(c) ==
    /\ Stands(c, "saving")
    /\ notes' = [notes EXCEPT ![work[c].number] = Patched(c, work[c].seen, work[c].patch)]
    /\ Ends(c, "succeeded")

\* MarkdownFile::save replaces the file that was opened, or fails.
SaveNote(c) ==
    /\ Stands(c, "saving")
    /\ LET n == work[c].number
       IN  IF notes[n] = work[c].seen
           THEN /\ notes' = [notes EXCEPT ![n] = Patched(c, work[c].seen, work[c].patch)]
                /\ Ends(c, "succeeded")
           ELSE UNCHANGED notes /\ Ends(c, "failed")

-----------------------------------------------------------------------------
\* get_note, and the question with the title it found.
FindForRemoval(c, n) ==
    /\ Stands(c, "waiting")
    /\ IF notes[n] # NoNote
       THEN Goes(c, [stage |-> "asking", number |-> n])
       ELSE Ends(c, "failed")
    /\ UNCHANGED notes

\* The user decides, or the stream of the confirmation breaks.
Decide(c) ==
    /\ Stands(c, "asking")
    /\ \/ Goes(c, [stage |-> "confirmed", number |-> work[c].number])
       \/ Ends(c, "aborted")
       \/ Ends(c, "failed")
    /\ UNCHANGED notes

\* delete_note takes the snapshot that it will remove.
SnapshotNote(c) ==
    /\ Stands(c, "confirmed")
    /\ LET n == work[c].number
       IN  IF notes[n] # NoNote
           THEN Goes(c, [stage |-> "deleting", number |-> n, seen |-> notes[n]])
           ELSE Ends(c, "failed")
    /\ UNCHANGED notes

DeleteNote(c) ==
    /\ Stands(c, "deleting")
    /\ LET n == work[c].number
       IN  IF notes[n] = work[c].seen
           THEN notes' = [notes EXCEPT ![n] = NoNote] /\ Ends(c, "succeeded")
           ELSE UNCHANGED notes /\ Ends(c, "failed")

\* The disk fails, or the process dies: temporary files aside, nothing changes.
NoteCommandFails(c) ==
    /\ work[c].stage \notin {"waiting", "succeeded", "failed", "aborted"}
    /\ Ends(c, "failed")
    /\ UNCHANGED notes

NotesNext ==
    \/ \E c \in Adders : ListNotes(c) \/ InsertNote(c)
    \/ \E c \in Editors :
         \/ \E n \in NoteNumbers, patch \in Patches : FindForEdit(c, n, patch)
         \/ OpenNote(c) \/ SaveNote(c)
    \/ \E c \in Removers :
         \/ \E n \in NoteNumbers : FindForRemoval(c, n)
         \/ Decide(c) \/ SnapshotNote(c) \/ DeleteNote(c)
    \/ \E c \in NoteCommands : NoteCommandFails(c)

NotesSpec == NotesInit /\ [][NotesNext]_noteVars

-----------------------------------------------------------------------------
\* What is in a note stays until a command means to change it: a creation never
\* lands on a note, an edit keeps every field it does not name and everything
\* that it appends to, as they are when it saves and not when it looked, the
\* sources of the body stay unless an edit makes them those of the front matter,
\* and a note goes only after a confirmation for its number (project_note.rs
\* insert_note, update_note and delete_note, remove_note.rs).
NotesChangeAsAsked ==
    [][\A n \in NoteNumbers : notes[n] # NoNote /\ notes'[n] # notes[n] =>
         \E c \in NoteCommands :
            /\ work[c].stage \in {"saving", "deleting"} /\ work[c].number = n
            /\ work'[c].stage = "succeeded"
            /\ Stands(c, "deleting") => notes'[n] = NoNote
            /\ Stands(c, "saving") =>
                 /\ notes'[n] # NoNote
                 /\ \A field \in NoteFields :
                      /\ work[c].patch[field] = "keep" => notes'[n][field] = notes[n][field]
                      /\ work[c].patch[field] = "append" => notes[n][field] \subseteq notes'[n][field]
                 /\ notes'[n][SourceSection] =
                      IF work[c].patch[SourceList] = "keep"
                      THEN notes[n][SourceSection] ELSE notes'[n][SourceList]
      ]_noteVars

=============================================================================
