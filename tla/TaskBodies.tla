----------------------------- MODULE TaskBodies ------------------------------
(***************************************************************************)
(* The body of one task: shorthand that is parsed into the sections of a   *)
(* preset, rendered in place of the body or added to the sections it has,  *)
(* and the report that closing appends and reopening removes.              *)
(*                                                                         *)
(* A body is its lines.  The level of a heading other than the report's,   *)
(* the number and the marker of an item, indented lines and quotations are *)
(* left out, and so are placeholders, which are kept as they are.          *)
(***************************************************************************)
EXTENDS TextLines

CONSTANTS
    Headers,      \* the headers of the preset, in the order of its sections
    OtherHeader,
    Report,       \* the heading of REPORT_SEPARATOR
    Words,
    ItemMarker,   \* ITEM_MARKER, as is every marker that is not configured
    FirstBodies,  \* bodies at the beginning
    FirstStyles,  \* how the sections of the preset separate their items
    MaxTokens,    \* the tokens of one shorthand
    MaxShorthands

VARIABLES
    body,       \* the lines
    styles,     \* the style of each section of the preset
    closed,     \* the task is done or cancelled
    atClosing,  \* history: the body when the task was closed
    reported,   \* history: it was closed with a report
    asked,      \* history: the last shorthand, and the body before it
    shorthands

bodyVars == <<body, styles, closed, atClosing, reported, asked, shorthands>>

Sections == 1 .. Len(Headers)

Line(kind, text) == [kind |-> kind, text |-> text]
Blank == Line("blank", <<>>)
Heading(header) == Line("heading", <<header>>)

Text == Seq(Words)
AnyHeader == {Headers[s] : s \in Sections} \cup {OtherHeader, Report}
BodyLines ==
    [kind: {"blank", "fence"}, text: {<<>>}]
    \cup [kind: {"heading"}, text: {<<h>> : h \in AnyHeader}]
    \cup [kind: {"bullet", "number", "paragraph"}, text: Text]

\* An odd number of fences above a line makes it code.
InCode(lines, i) ==
    LET open[n \in 0 .. i - 1] ==
          IF n = 0 THEN FALSE ELSE IF lines[n].kind = "fence" THEN ~open[n - 1] ELSE open[n - 1]
    IN  open[i - 1]

\* Nothing closes the last code block.
EndsInCode(lines) == InCode(lines, Len(lines) + 1)

ASSUME BodiesAssumption == \A lines \in FirstBodies : lines # <<>> /\ lines \in Seq(BodyLines)
ASSUME StylesAssumption ==
    /\ Len(Headers) \in Nat \ {0}
    /\ \A s \in Sections : Headers[s] # Report
    /\ \A s, t \in Sections : s # t => Headers[s] # Headers[t]
    /\ FirstStyles \subseteq [Sections -> {"bullet", "number", "paragraph"}]
ASSUME ShorthandAssumption == MaxTokens \in Nat /\ MaxShorthands \in Nat

-----------------------------------------------------------------------------
(* Shorthand: words, markers of items and of sections. *)

Tokens == Words \cup {ItemMarker} \cup Sections
Shorthands == UNION {[1 .. n -> Tokens] : n \in 1 .. MaxTokens}

NothingParsed ==
    [title |-> <<>>, items |-> [s \in Sections |-> <<>>], present |-> {},
     current |-> 1, text |-> <<>>, marked |-> FALSE]

\* The text since the last marker is an item; before the first marker it is
\* the title.
Flush(parsed) ==
    IF parsed.text = <<>> THEN [parsed EXCEPT !.marked = TRUE]
    ELSE IF parsed.marked
    THEN [parsed EXCEPT !.items[parsed.current] = Append(@, parsed.text), !.text = <<>>]
    ELSE [parsed EXCEPT !.title = parsed.text, !.text = <<>>, !.marked = TRUE]

Take(parsed, token) ==
    IF token \in Words THEN [parsed EXCEPT !.text = Append(@, token)]
    ELSE IF token = ItemMarker THEN Flush(parsed)
    ELSE [Flush(parsed) EXCEPT !.current = token, !.present = @ \cup {token}]

Parse(shorthand) ==
    LET taken[n \in 0 .. Len(shorthand)] ==
          IF n = 0 THEN NothingParsed ELSE Take(taken[n - 1], shorthand[n])
        parsed == taken[Len(shorthand)]
    IN  IF parsed.marked THEN Flush(parsed)
        ELSE [parsed EXCEPT !.title = parsed.text]

-----------------------------------------------------------------------------
(* Rendering. *)

ItemLines(style, items, newBlock) ==
    IF style = "paragraph"
    THEN Joined([i \in DOMAIN items |-> <<Blank, Line(style, items[i])>>])
    ELSE (IF newBlock THEN <<Blank>> ELSE <<>>) \o [i \in DOMAIN items |-> Line(style, items[i])]

\* A section without items ends with the line that would separate them.
RenderedSection(s, items) ==
    <<Heading(Headers[s])>>
        \o (IF items = <<>> THEN <<Blank>> ELSE ItemLines(styles[s], items, TRUE))

\* The first section is always rendered.
Rendered(parsed, present) ==
    Joined([s \in Sections |->
        IF s = 1 THEN RenderedSection(s, parsed.items[s])
        ELSE IF s \in present \/ parsed.items[s] # <<>>
        THEN <<Blank>> \o RenderedSection(s, parsed.items[s])
        ELSE <<>>])

-----------------------------------------------------------------------------
(* Adding items to a body. *)

\* trim_end: the empty body is one blank line.
Trimmed(lines) ==
    SubSeq(lines, 1, Last({1} \cup {i \in DOMAIN lines : lines[i].kind # "blank"}))

\* Mutant: headings inside of code count.
AnyHeadings(lines) == {i \in DOMAIN lines : lines[i].kind = "heading"}

Headings(lines) == {i \in DOMAIN lines : lines[i].kind = "heading" /\ ~InCode(lines, i)}

\* The next heading, of any level, ends a section.
SectionEnd(lines, header) ==
    First({i \in Headings(lines) : i > header} \cup {Len(lines) + 1})

NoBlock == [kind |-> "none", texts |-> <<>>]

\* One line after the other: a list goes on over blank lines, and text goes on
\* with the paragraph or the item above it.
Observe(scan, line) ==
    LET blocks == scan.blocks
        last == IF blocks = <<>> THEN NoBlock ELSE blocks[Len(blocks)]
        Open(kind, text) ==
            [blocks |-> Append(blocks, [kind |-> kind, texts |-> <<text>>]),
             code |-> kind = "code", gap |-> FALSE]
        GoOn(texts) ==
            [blocks |-> [blocks EXCEPT ![Len(blocks)] = [kind |-> last.kind, texts |-> texts]],
             code |-> scan.code, gap |-> FALSE]
        Extend(text) == GoOn([last.texts EXCEPT ![Len(last.texts)] = @ \o text])
    IN  CASE line.kind = "fence" ->
               IF scan.code THEN [scan EXCEPT !.code = FALSE] ELSE Open("code", <<>>)
          [] line.kind # "fence" /\ scan.code -> Extend(line.text)
          [] line.kind = "blank" /\ ~scan.code -> [scan EXCEPT !.gap = TRUE]
          [] line.kind = "heading" /\ ~scan.code -> Open("heading", line.text)
          [] line.kind \in {"bullet", "number"} /\ ~scan.code ->
               IF last.kind = line.kind THEN GoOn(Append(last.texts, line.text))
               ELSE Open(line.kind, line.text)
          [] line.kind = "paragraph" /\ ~scan.code ->
               IF last.kind \in {"bullet", "number", "paragraph"} /\ ~scan.gap
               THEN Extend(line.text)
               ELSE Open("paragraph", line.text)

NothingScanned == [blocks |-> <<>>, code |-> FALSE, gap |-> FALSE]

Scanned(lines) ==
    LET scan[n \in 0 .. Len(lines)] ==
          IF n = 0 THEN NothingScanned ELSE Observe(scan[n - 1], lines[n])
    IN  scan[Len(lines)]

\* The blocks that a Markdown parser finds at the top level.
Blocks(lines) == Scanned(lines).blocks

\* ItemContinuation: the style of the last list or paragraph of a section.
LastItemBlock(blocks) ==
    Last({0} \cup {i \in DOMAIN blocks : blocks[i].kind \in {"bullet", "number", "paragraph"}})

AppendItems(lines, s, items) ==
    LET found == {i \in Headings(lines) : lines[i] = Heading(Headers[s])}
        header == First(found)
        end == SectionEnd(lines, header)
        blocks == Blocks(SubSeq(lines, header + 1, end - 1))
        item == LastItemBlock(blocks)
        style == IF item = 0 THEN styles[s] ELSE blocks[item].kind
        after == SubSeq(lines, end, Len(lines))
    IN  IF items = <<>> THEN lines
        ELSE IF found = {}
        THEN Trimmed(lines) \o <<Blank, Heading(Headers[s])>> \o ItemLines(styles[s], items, TRUE)
        ELSE Trimmed(SubSeq(lines, 1, end - 1))
                 \o ItemLines(style, items, item = 0 \/ item # Len(blocks))
                 \o (IF after = <<>> THEN <<>> ELSE <<Blank>> \o after)

\* The title of shorthand that is appended is an item of the first section.
ItemsToAppend(parsed, s) ==
    IF s = 1 /\ parsed.title # <<>> THEN <<parsed.title>> \o parsed.items[s] ELSE parsed.items[s]

AppendMarkerSections(lines, parsed) ==
    LET grown[s \in 0 .. Len(Headers)] ==
          IF s = 0 THEN lines ELSE AppendItems(grown[s - 1], s, ItemsToAppend(parsed, s))
    IN  grown[Len(Headers)]

-----------------------------------------------------------------------------
(* Reports. *)

\* Where REPORT_SEPARATOR occurs, in code as well.
Separators(lines) ==
    {i \in 3 .. Len(lines) - 2 :
        lines[i] = Heading(Report) /\ lines[i - 1] = Blank /\ lines[i + 1] = Blank}

AppendReport(lines) ==
    Trimmed(lines) \o <<Blank, Heading(Report), Blank, Line("paragraph", <<>>)>>

RemoveReport(lines) ==
    IF Separators(lines) = {} THEN lines ELSE Trimmed(SubSeq(lines, 1, Last(Separators(lines)) - 2))

-----------------------------------------------------------------------------
NotAsked == [kind |-> "none"]

BodyInit ==
    /\ body \in FirstBodies
    /\ styles \in FirstStyles
    /\ closed = FALSE
    /\ atClosing = body
    /\ reported = FALSE
    /\ asked = NotAsked
    /\ shorthands = 0

Ask(kind, parsed) ==
    /\ ~closed
    /\ shorthands < MaxShorthands
    /\ shorthands' = shorthands + 1
    /\ asked' = [kind |-> kind, parsed |-> parsed, before |-> body]
    /\ UNCHANGED <<styles, closed, atClosing, reported>>

AppendShorthand(parsed) ==
    /\ Ask("append", parsed)
    /\ body' = AppendMarkerSections(body, parsed)

\* The title of a task comes from the shorthand, which must have one.
ReplaceShorthand(parsed) ==
    /\ parsed.title # <<>>
    /\ Ask("replace", parsed)
    /\ body' = Rendered(parsed, {})

\* Creation renders the sections that were named without items, too.
CreateFrom(parsed) ==
    /\ parsed.title # <<>>
    /\ Ask("create", parsed)
    /\ body' = Rendered(parsed, parsed.present)

CloseWith(report) ==
    /\ ~closed
    /\ closed' = TRUE
    /\ body' = IF report THEN AppendReport(body) ELSE body
    /\ atClosing' = body
    /\ reported' = report
    /\ asked' = NotAsked
    /\ UNCHANGED <<styles, shorthands>>

Reopen ==
    /\ closed
    /\ closed' = FALSE
    /\ body' = RemoveReport(body)
    /\ UNCHANGED <<styles, atClosing, reported, asked, shorthands>>

BodyNext ==
    \/ /\ ~closed /\ shorthands < MaxShorthands
       /\ \E shorthand \in Shorthands :
            LET parsed == Parse(shorthand)
            IN  AppendShorthand(parsed) \/ ReplaceShorthand(parsed) \/ CreateFrom(parsed)
    \/ \E report \in BOOLEAN : CloseWith(report)
    \/ Reopen

BodySpec == BodyInit /\ [][BodyNext]_bodyVars

-----------------------------------------------------------------------------
BodyTypeOK ==
    /\ body \in Seq(BodyLines) /\ body # <<>>
    /\ closed \in BOOLEAN /\ reported \in BOOLEAN
    /\ shorthands \in 0 .. MaxShorthands

HeadingBlock(s) == [kind |-> "heading", texts |-> << <<Headers[s]>> >>]

\* The blocks under the first heading with the header of a section.
OwnBlocks(blocks, s) ==
    {i \in DOMAIN blocks : \E h \in 1 .. i - 1 :
        /\ blocks[h] = HeadingBlock(s)
        /\ \A g \in 1 .. h - 1 : blocks[g] # HeadingBlock(s)
        /\ \A j \in h + 1 .. i : blocks[j].kind # "heading"}

\* What a section says: its items, its paragraphs and its code.
SectionTexts(lines, s) ==
    LET blocks == Blocks(lines)
    IN  Joined([i \in DOMAIN blocks |->
            IF i \in OwnBlocks(blocks, s) THEN blocks[i].texts ELSE <<>>])

\* Everything else, with the headings.
Elsewhere(lines) ==
    LET blocks == Blocks(lines)
    IN  Joined([i \in DOMAIN blocks |->
            IF \E s \in Sections : i \in OwnBlocks(blocks, s) THEN <<>> ELSE <<blocks[i]>>])

HeadingsOf(sections) ==
    Joined([s \in Sections |-> IF s \in sections THEN <<HeadingBlock(s)>> ELSE <<>>])

HasSection(lines, s) == \E i \in Headings(lines) : lines[i] = Heading(Headers[s])

\* Shorthand that is appended becomes items of its own at the end of their
\* sections, which are made at the end of the body where they are missing;
\* whatever else the body says stays, in its place, headings in code included
\* (content.rs append_marker_sections).  When nothing closes the last code of a
\* body, as a user may write it, or reopening leaves it by cutting a body at a
\* report in its code, the items would become code.
AppendedToSections ==
    (asked.kind = "append" /\ ~EndsInCode(asked.before)) =>
        /\ \A s \in Sections :
              SectionTexts(body, s) = SectionTexts(asked.before, s) \o ItemsToAppend(asked.parsed, s)
        /\ Elsewhere(body) =
              Elsewhere(asked.before) \o HeadingsOf({s \in Sections :
                  ItemsToAppend(asked.parsed, s) # <<>> /\ ~HasSection(asked.before, s)})

\* A rendered body has the sections and the items that were asked for, and a
\* Markdown parser finds them again; the title is not in it (content.rs
\* render_shorthand, adapters/markdown.rs).
RenderedAsParsed ==
    asked.kind \in {"create", "replace"} =>
        /\ \A s \in Sections : SectionTexts(body, s) = asked.parsed.items[s]
        /\ Elsewhere(body) = HeadingsOf({s \in Sections :
              \/ s = 1
              \/ asked.parsed.items[s] # <<>>
              \/ asked.kind = "create" /\ s \in asked.parsed.present})

\* Closing with a report and reopening gives the body back but for blank lines
\* at its end, whatever headings somebody wrote in it (content.rs
\* append_report, remove_report).  A body with a section that looks like a
\* report loses that section when the task was closed without one.
ReportsComeOff ==
    (~closed /\ asked = NotAsked /\ (reported \/ Separators(atClosing) = {})) =>
        Trimmed(body) = Trimmed(atClosing)

=============================================================================
