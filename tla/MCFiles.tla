------------------------------- MODULE MCFiles --------------------------------
(* Files of the program: what a transaction publishes, the texts that it     *)
(* publishes, and the file of the database between releases, exports and     *)
(* imports.  One part runs in each behaviour, the others stay where they     *)
(* began.                                                                    *)
EXTENDS MCFileTransaction, Texts, Installation

CONSTANT w  \* a word

SeveralHeaders == <<"Goal", "Context">>

\* Every body of two lines, bodies with the first section, code and what comes
\* after, and a body with a report in its code.
BodiesAtFirst ==
    LET Text1(kind) == Line(kind, <<w>>)
        fence == Line("fence", <<>>)
        items == {Blank, Text1("bullet"), Text1("number"), Text1("paragraph")}
        any == items \cup {fence, Heading("Goal"), Heading("Context"), Heading("Report")}
        UpTo(n, S) == UNION {[1 .. m -> S] : m \in 0 .. n}
    IN  {lines \in UpTo(2, any) : lines # <<>>}
        \cup {<<fence, Blank, Heading("Report"), Blank, fence>>}
        \cup {<<Heading("Goal")>> \o own \o code \o after :
                own \in UpTo(2, items),
                code \in {<<>>, <<fence, Heading("Context"), fence>>},
                after \in {<<Heading("Other")>>, <<Heading("Context"), Text1("bullet")>>,
                          <<Blank, Heading("Report"), Blank, Text1("paragraph")>>}}

SectionStyles == {<<"bullet", "bullet">>, <<"number", "paragraph">>}

\* A release, its successor, and one whose history is another.
SeveralCatalogs == ("old" :> <<1>>) @@ ("new" :> <<1, 2, 3>>) @@ ("other" :> <<1, 4>>)

VARIABLE part

everyFile == <<part, vars, frontVars, bodyVars, transferVars, upgradeVars>>

FilesInit ==
    /\ part \in {"files", "document", "body", "transfer", "upgrade"}
    /\ IF part = "files" THEN TRUE ELSE files = [p \in Paths |-> Missing]
    /\ IF part = "document" THEN TRUE ELSE document = <<>>
    /\ IF part = "body" THEN TRUE ELSE body = <<Blank>> /\ styles = <<"bullet", "bullet">>
    /\ IF part = "transfer" THEN TRUE ELSE daemon = "off" /\ log = Nothing
    /\ IF part = "upgrade" THEN TRUE ELSE ledger = <<>> /\ apart = FALSE
    /\ Init /\ FrontInit /\ BodyInit /\ TransferInit /\ UpgradeInit

FilesNext ==
    /\ UNCHANGED part
    /\ \/ part = "files" /\ Next
       \/ part = "document" /\ FrontNext
       \/ part = "body" /\ BodyNext
       \/ part = "transfer" /\ TransferNext
       \/ part = "upgrade" /\ UpgradeNext
    /\ IF part = "files" THEN TRUE ELSE UNCHANGED vars
    /\ IF part = "document" THEN TRUE ELSE UNCHANGED frontVars
    /\ IF part = "body" THEN TRUE ELSE UNCHANGED bodyVars
    /\ IF part = "transfer" THEN TRUE ELSE UNCHANGED transferVars
    /\ IF part = "upgrade" THEN TRUE ELSE UNCHANGED upgradeVars

FilesSpec == FilesInit /\ [][FilesNext]_everyFile

=============================================================================
