----------------------------- MODULE MCLocalData -----------------------------
(* What the program keeps on the local disk: one part runs in each           *)
(* behaviour, and the others stay at one of their initial states.            *)
EXTENDS LocalData, TLC

CONSTANTS
    to1,      \* a destination of renames
    x, xx, y  \* paths; xx is another path to x

LocationOf == [p \in Paths |-> IF p = xx THEN x ELSE p]

SizeOf == (1 :> 1) @@ (2 :> 2) @@ (3 :> 5)

NoRows == [id \in Ids |-> NoProject]
OneRow == [NoRows EXCEPT ![1] = [title |-> 1, path |-> x, paused |-> FALSE, snapshots |-> FALSE]]
RowsAtFirst == {OneRow}

\* At most the first note is there, with sources in its body, and an edit names
\* one field.
FewNotes ==
    \A n \in NoteNumbers : notes[n] # NoNote => n = 1 /\ notes[n][SourceSection] = {FirstAuthor}

OneField ==
    \A c \in Editors : work'[c].stage = "reopening" =>
        \E field \in NoteFields : \A other \in NoteFields \ {field} : work'[c].patch[other] = "keep"

VARIABLE part

everything == <<part, vars, sequenceVars, storeVars, noteVars, socketVars>>

LocalInit ==
    /\ part \in {"rename", "sequence", "store", "notes", "socket"}
    /\ IF part = "rename" THEN TRUE ELSE target = [r \in Renamers |-> to1]
    /\ IF part = "sequence" THEN TRUE ELSE named = {} /\ authored = {}
    /\ IF part = "store" THEN TRUE ELSE rows = OneRow
    /\ IF part = "notes" THEN TRUE ELSE notes = [n \in NoteNumbers |-> NoNote]
    /\ IF part = "socket" THEN TRUE ELSE socket = NoFile /\ private = FALSE
    /\ Init /\ SequenceInit /\ StoreInit /\ NotesInit /\ FewNotes /\ SocketInit

OthersIdle ==
    /\ IF part = "rename" THEN TRUE ELSE UNCHANGED vars
    /\ IF part = "sequence" THEN TRUE ELSE UNCHANGED sequenceVars
    /\ IF part = "store" THEN TRUE ELSE UNCHANGED storeVars
    /\ IF part = "notes" THEN TRUE ELSE UNCHANGED noteVars
    /\ IF part = "socket" THEN TRUE ELSE UNCHANGED socketVars

LocalNext ==
    /\ UNCHANGED part
    /\ \/ part = "rename" /\ Next
       \/ part = "sequence" /\ SequenceNext
       \/ part = "store" /\ StoreNext
       \/ part = "notes" /\ NotesNext /\ OneField
       \/ part = "socket" /\ SocketNext
    /\ OthersIdle

LocalSpec == LocalInit /\ [][LocalNext]_everything

=============================================================================
