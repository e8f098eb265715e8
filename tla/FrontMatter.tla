----------------------------- MODULE FrontMatter ------------------------------
(***************************************************************************)
(* Edits of one property in the block of properties at the top of a        *)
(* Markdown file.  The file is never rendered from what was read: the      *)
(* lines of the property are found by their first characters and replaced, *)
(* and everything else stays.  A document is a sequence of lines, and a    *)
(* line is what tells it apart: a fence, the start of a property with or   *)
(* without a value on its own line, an indented line, an item, a comment,  *)
(* or a blank one.  Bytes, line ends and names that are not valid are left *)
(* out.                                                                    *)
(***************************************************************************)
EXTENDS TextLines

CONSTANTS
    PropertyNames,
    MaxLines,      \* the lines between the fences at the beginning
    MaxEdits

ASSUME LinesAssumption == MaxLines \in Nat /\ MaxEdits \in Nat

VARIABLES
    document,
    edits,
    edited    \* history: the last edit, and the document before it

frontVars == <<document, edits, edited>>

Property(name, kind) == [kind |-> kind, name |-> name]
Fence == [kind |-> "fence"]
Others == {[kind |-> kind] : kind \in {"indented", "item", "comment", "blank"}}
Starts == {Property(name, kind) : name \in PropertyNames, kind \in {"plain", "block", "new"}}
Lines == Starts \cup Others \cup {Fence}

NoEdit == [kind |-> "none"]
Edits ==
    [kind: {"set"}, name: PropertyNames, after: {<<>>} \cup (PropertyNames \X PropertyNames)]
    \cup [kind: {"remove"}, name: PropertyNames]

-----------------------------------------------------------------------------
(* Where the properties are. *)

\* frontmatter_bounds: the first line and the next fence.  Without an opening
\* fence there is no block; without a closing one the document is malformed.
HasBlock(doc) == doc # <<>> /\ doc[1] = Fence

Closing(doc) ==
    LET fences == {i \in 2 .. Len(doc) : doc[i] = Fence}
    IN  IF fences = {} THEN 0 ELSE First(fences)

Malformed(doc) == HasBlock(doc) /\ Closing(doc) = 0

\* property_name.
StartsProperty(line) == line \in Starts

\* property_continues: without a value on its own line a property goes on to
\* the next one, and with one as long as lines are indented.
Continues(start, line) ==
    IF start.kind = "block" THEN ~StartsProperty(line) ELSE line.kind = "indented"

\* property_range: blank lines and comments at the end do not belong to it.
LastOf(doc, first) ==
    LET own == {i \in first + 1 .. Closing(doc) - 1 :
                  /\ \A j \in first + 1 .. i : Continues(doc[first], doc[j])
                  /\ doc[i].kind \notin {"comment", "blank"}}
    IN  IF own = {} THEN first ELSE Last(own)

Positions(doc, name) ==
    {i \in 2 .. Closing(doc) - 1 : StartsProperty(doc[i]) /\ doc[i].name = name}

Duplicated(doc) == \E name \in PropertyNames : \E i, j \in Positions(doc, name) : i # j

-----------------------------------------------------------------------------
(* The edits. *)

Replaced(doc, first, last, lines) ==
    SubSeq(doc, 1, first - 1) \o lines \o SubSeq(doc, last + 1, Len(doc))

\* The end of the first property of insert_after that is there, or the line
\* above the closing fence.
InsertionPoint(doc, after) ==
    LET found == {i \in DOMAIN after : Positions(doc, after[i]) # {}}
    IN  IF found = {} THEN Closing(doc) - 1
        ELSE LET name == after[First(found)]
             IN  LastOf(doc, First(Positions(doc, name)))

\* set_property_rendered_source; a document without a block gets one.
Edited(doc, edit) ==
    LET put == IF edit.kind = "set" THEN <<Property(edit.name, "new")>> ELSE <<>>
        own == Positions(doc, edit.name)
    IN  CASE ~HasBlock(doc) ->
               IF put = <<>> THEN doc
               ELSE <<Fence>> \o put \o <<Fence, [kind |-> "blank"]>> \o doc
          [] HasBlock(doc) /\ own # {} ->
               LET first == First(own)
               IN  Replaced(doc, first, LastOf(doc, first), put)
          [] HasBlock(doc) /\ own = {} ->
               IF put = <<>> THEN doc
               ELSE LET point == InsertionPoint(doc, edit.after)
                    IN  Replaced(doc, point + 1, point, put)

Edit(edit) ==
    /\ edits < MaxEdits
    /\ edits' = edits + 1
    /\ IF Malformed(document) \/ (HasBlock(document) /\ Duplicated(document))
       THEN UNCHANGED <<document, edited>>
       ELSE /\ document' = Edited(document, edit)
            /\ edited' = [edit |-> edit, before |-> document]

FirstLines == Starts \cup Others

Bodies == {<<>>, <<[kind |-> "indented"], Fence>>}

FrontInit ==
    /\ \E n \in 0 .. MaxLines : \E lines \in [1 .. n -> FirstLines], body \in Bodies :
         document \in {<<Fence>> \o lines \o <<Fence>> \o body, <<Fence>> \o lines, lines}
    /\ edits = 0
    /\ edited = NoEdit

FrontNext == \E edit \in Edits : Edit(edit)

FrontSpec == FrontInit /\ [][FrontNext]_frontVars

FrontTypeOK ==
    /\ document \in Seq(Lines)
    /\ edits \in 0 .. MaxEdits
    /\ edited = NoEdit \/ (edited.edit \in Edits /\ edited.before \in Seq(Lines))

-----------------------------------------------------------------------------
(* What a document says, read as YAML and not by the edits. *)

\* The lines between the fences.
Block(doc) == IF HasBlock(doc) THEN SubSeq(doc, 2, Closing(doc) - 1) ELSE <<>>

Body(doc) ==
    IF ~HasBlock(doc) THEN doc ELSE SubSeq(doc, Closing(doc) + 1, Len(doc))

\* The property that each line of a block belongs to: the last start above it.
OwnerOf(block, i) ==
    LET starts == {j \in 1 .. i : block[j].kind \in {"plain", "block", "new"}}
    IN  IF starts = {} THEN 0 ELSE Last(starts)

Said(line) == line.kind \notin {"comment", "blank"}

\* No property is there twice, a value on the line of its name goes on only in
\* indented lines with nothing between them, and nothing is said before the
\* first property.  YAML would also accept a blank line or a comment between.
ReadsWell(block) ==
    /\ \A i, j \in DOMAIN block :
         i # j /\ OwnerOf(block, i) = i /\ OwnerOf(block, j) = j => block[i].name # block[j].name
    /\ \A i \in DOMAIN block : Said(block[i]) =>
         /\ OwnerOf(block, i) # 0
         /\ block[OwnerOf(block, i)].kind = "block" \/
            \A j \in OwnerOf(block, i) + 1 .. i : block[j].kind = "indented"

WellFormed(doc) == ReadsWell(Block(doc))

\* What a property says: its lines, without comments and blank ones.
SaidOf(block, name) ==
    Joined([i \in DOMAIN block |->
        IF Said(block[i]) /\ OwnerOf(block, i) # 0 /\ block[OwnerOf(block, i)].name = name
        THEN <<block[i]>> ELSE <<>>])

Says(doc) == [name \in PropertyNames |-> SaidOf(Block(doc), name)]

\* An edit changes what its own property says, and nothing else: every other
\* property says what it said, the body is the same, and the document still
\* reads as one (markdown_file.rs set_property and remove_property: "The edit
\* retains all bytes outside the selected property").
EditsStayInPlace ==
    edited # NoEdit /\ WellFormed(edited.before) =>
        LET edit == edited.edit
        IN  /\ WellFormed(document)
            /\ Says(document) =
                 [Says(edited.before) EXCEPT ![edit.name] =
                    IF edit.kind = "set" THEN <<Property(edit.name, "new")>> ELSE <<>>]
            /\ \/ Body(document) = Body(edited.before)
               \/ ~HasBlock(edited.before) /\ Body(document) = <<[kind |-> "blank"]>> \o edited.before

=============================================================================
