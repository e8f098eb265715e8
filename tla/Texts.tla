------------------------------- MODULE Texts ---------------------------------
(* The texts that the program edits in the files of users: the front matter  *)
(* of a note and the body of a task.  They share no state.                   *)
EXTENDS FrontMatter, TaskBodies

\* A text says what it said, but for what was asked for: edits of front matter
\* stay in their property, shorthand in its sections, and reports come off
\* again (markdown_file.rs, content.rs, marker_sections.rs).
TextsChangeAsAsked ==
    /\ FrontTypeOK /\ BodyTypeOK
    /\ EditsStayInPlace /\ AppendedToSections /\ RenderedAsParsed /\ ReportsComeOff

=============================================================================
