------------------------------ MODULE Terminal -------------------------------
(***************************************************************************)
(* The terminal interface: one request to the server at a time, a draft    *)
(* that survives its failures, dialogs, and questions of the server and of *)
(* the interface itself.  Answers come through a channel, so that one may  *)
(* wait there while its request is cancelled; and a write whose request    *)
(* ended with an error may still be carried out.                           *)
(*                                                                         *)
(* There is one task, and tasks and notes are created in Projects, which   *)
(* all stay active.                                                        *)
(* A revision is the hash of the task's bytes.  It stands for them, and it *)
(* is their number in the order in which the task first comes to them: who *)
(* puts earlier bytes back brings back their revision.                     *)
(* External: the server and the other writers of the task.                 *)
(***************************************************************************)
EXTENDS Naturals, Sequences

CONSTANTS
    Projects,
    Everything,   \* the scope that shows all projects
    Absent,
    MaxRequests,  \* requests of one session
    MaxRevision   \* how many contents the task may come to

ASSUME ScopesAssumption == Everything \notin Projects
ASSUME BoundsAssumption == MaxRequests \in Nat /\ MaxRevision \in Nat \ {0}

VARIABLES
    open,      \* the interface has not ended
    scope,     \* Browser.project_scope
    draft,     \* App.draft
    dialog,    \* App.dialog
    question,  \* App.confirmation
    pending,   \* App.pending
    reply,     \* Runtime.confirmation_reply: the request whose question it answers
    requests,  \* Runtime.request_id
    worker,    \* Runtime.worker
    events,    \* the channel from the worker
    mutations, \* external: the writes that the server was asked for
    revision,  \* external: the revision of the task
    holds,     \* history: the edits that are in each contents of the task
    applied,   \* external: what the server has carried out
    agreed     \* history: the requests whose question was answered with yes

interface == <<open, scope, draft, dialog, question, pending, reply, requests>>
server == <<mutations, revision, holds, applied>>
terminalVars == <<interface, worker, events, server, agreed>>

Scopes == Projects \cup {Everything}
Requests == 1..MaxRequests

(* Work: what a request is for.  A submission carries the draft. *)
Reads == {"load", "template", "target", "blockers", "locate", "inspect"}
Writes == {"create", "edit", "export", "complete", "shelve", "ask"}

\* Mutant: an update does not name the revision that it changes.
GuardedCompletions == {"complete"}

\* Updates, completions and cancellations name the revision that they change.
Guarded == {"edit", "complete"}

DraftKinds == {"create", "edit", "export"}

\* sent and owed are history: the submissions of the draft, and those of them
\* that had been carried out when the interface learnt that they failed; seen
\* is what had been carried out by the inspection that the user accepted, and
\* within is the scope of that inspection.  Revision 0 is none.
Drafts ==
    [kind: DraftKinds, project: Scopes, revision: 0..MaxRevision,
     dirty: BOOLEAN, requires_inspection: BOOLEAN,
     sent: SUBSET Requests, owed: SUBSET Requests, seen: SUBSET Requests, within: Scopes]

NewDraft(kind, project, rev) ==
    [kind |-> kind, project |-> project, revision |-> rev,
     dirty |-> FALSE, requires_inspection |-> FALSE,
     sent |-> {}, owed |-> {}, seen |-> {}, within |-> Everything]

Work ==
    [kind: Reads \cup Writes, project: Scopes, revision: 0..MaxRevision,
     before: SUBSET Requests, seen: SUBSET Requests]

WorkOn(kind, project, rev) ==
    [kind |-> kind, project |-> project, revision |-> rev, before |-> {}, seen |-> {}]

Stages == {"begun", "read", "waiting", "asking", "yes", "no"}

Ended == {"applied", "refused", "aborted"}

Questions == [local: {"no", "discard", "quit"}, id: Requests \cup {0}, yes: BOOLEAN]

Pendings == [id: Requests, writes: BOOLEAN]

Answers ==
    [id: Requests, out: {"loaded", "draft", "blockers", "saved", "exported",
                         "aborted", "edit_file", "inspected", "error", "confirm"},
     scope: Scopes, draft: Drafts \cup {Absent},
     revision: 0..MaxRevision, shown: SUBSET Requests]

\* None is no value of what there may be.
ASSUME AbsentAssumption ==
    Absent \notin Drafts /\ Absent \notin Questions /\ Absent \notin Pendings

TerminalTypeOK ==
    /\ open \in BOOLEAN
    /\ scope \in Scopes
    /\ draft \in Drafts \cup {Absent}
    /\ dialog = Absent \/ dialog.kind \in {"projects", "actions", "blockers", "inspection"}
    /\ (open /\ dialog # Absent /\ dialog.kind \in {"blockers", "inspection"}) => draft # Absent
    /\ question \in Questions \cup {Absent}
    /\ pending \in Pendings \cup {Absent}
    /\ reply \in Requests \cup {Absent}
    /\ requests \in 0..MaxRequests
    /\ worker \in [id: Requests, work: Work, at: Stages] \cup {Absent}
    /\ events \in Seq(Answers)
    /\ mutations \in SUBSET [id: Requests, work: Work, agreed: BOOLEAN, end: Ended \cup {"open"}]
    /\ revision \in DOMAIN holds
    /\ holds \in Seq(SUBSET Requests) /\ Len(holds) <= MaxRevision
    /\ applied \in SUBSET [id: Requests, kind: Writes, project: Scopes]
    /\ agreed \in SUBSET Requests

\* The first load is over.
TerminalInit ==
    /\ open = TRUE
    /\ scope \in Scopes
    /\ draft = Absent
    /\ dialog = Absent
    /\ question = Absent
    /\ pending = Absent
    /\ reply = Absent
    /\ requests = 0
    /\ worker = Absent
    /\ events = <<>>
    /\ mutations = {}
    /\ revision = 1
    /\ holds = <<{}>>
    /\ applied = {}
    /\ agreed = {}

AppliedIds == {done.id : done \in applied}

\* What of it a listing of a scope, or the task, lets the user see or miss.
Shown(within) ==
    {done.id : done \in {d \in applied :
        d.kind = "create" => within = Everything \/ within = d.project}}

-----------------------------------------------------------------------------
(* The worker. *)

Answered(w, out) ==
    [id |-> w.id, out |-> out, scope |-> w.work.project, draft |-> Absent,
     revision |-> revision, shown |-> {}]

Finish(answer) ==
    /\ events' = Append(events, answer)
    /\ worker' = Absent

\* Every read asks the server once and answers with what it said.
Read ==
    /\ worker # Absent
    /\ worker.at = "begun"
    /\ worker.work.kind \in Reads
    /\ LET kind == worker.work.kind IN
       Finish([Answered(worker,
                 CASE kind = "load" -> "loaded"
                   [] kind = "blockers" -> "blockers"
                   [] kind = "locate" -> "edit_file"
                   [] kind = "inspect" -> "inspected"
                   [] kind \in {"template", "target"} -> "draft") EXCEPT
                !.draft = CASE kind = "template" -> NewDraft("create", worker.work.project, 0)
                            [] kind = "target" -> NewDraft("edit", Everything, revision)
                            [] OTHER -> Absent,
                !.shown = IF kind = "inspect" THEN Shown(worker.work.project) ELSE {}])
    /\ UNCHANGED <<interface, server, agreed>>

\* A completion from the list reads the task for its revision first.
ReadTarget ==
    /\ worker # Absent
    /\ worker.at = "begun"
    /\ worker.work.kind = "complete"
    /\ worker' = [worker EXCEPT !.at = "read", !.work.revision = revision]
    /\ UNCHANGED <<interface, events, server, agreed>>

Mutation(id, work) == [id |-> id, work |-> work, agreed |-> FALSE, end |-> "open"]

Submit ==
    /\ worker # Absent
    /\ \/ worker.at = "begun" /\ worker.work.kind \in {"create", "edit", "shelve", "ask"}
       \/ worker.at = "read"
    /\ mutations' = mutations \cup {Mutation(worker.id, worker.work)}
    /\ worker' = [worker EXCEPT !.at = "waiting"]
    /\ UNCHANGED <<interface, events, revision, holds, applied, agreed>>

\* An export creates a file and asks nobody.
Export ==
    /\ worker # Absent
    /\ worker.at = "begun"
    /\ worker.work.kind = "export"
    /\ Finish(Answered(worker, "exported"))
    /\ UNCHANGED <<interface, server, agreed>>

ReceiveAnswer ==
    /\ worker # Absent
    /\ worker.at = "waiting"
    /\ \E m \in mutations :
        /\ m.id = worker.id
        /\ m.end \in Ended
        /\ Finish(Answered(worker,
             CASE m.end = "applied" -> "saved"
               [] m.end = "refused" -> "error"
               [] m.end = "aborted" -> "aborted"))
        /\ mutations' = mutations \ {m}
    /\ UNCHANGED <<interface, revision, holds, applied, agreed>>

\* The server asks before it reopens or deletes; the question goes to the
\* interface with the sender for its reply.
AskInterface ==
    /\ worker # Absent
    /\ worker.at = "waiting"
    /\ \E m \in mutations : m.id = worker.id /\ m.work.kind = "ask" /\ m.end = "open" /\ ~m.agreed
    /\ events' = Append(events, Answered(worker, "confirm"))
    /\ worker' = [worker EXCEPT !.at = "asking"]
    /\ UNCHANGED <<interface, server, agreed>>

SendDecision ==
    /\ worker # Absent
    /\ worker.at \in {"yes", "no"}
    /\ mutations' = {IF m.id # worker.id THEN m
                     ELSE IF worker.at = "yes" THEN [m EXCEPT !.agreed = TRUE]
                     ELSE [m EXCEPT !.end = "aborted"] : m \in mutations}
    /\ worker' = [worker EXCEPT !.at = "waiting"]
    /\ UNCHANGED <<interface, events, revision, holds, applied, agreed>>

\* No connection, an error, a question that nobody answers, or the deadline.
Fail ==
    /\ worker # Absent
    /\ Finish(Answered(worker, "error"))
    /\ mutations' = {m \in mutations : m.id = worker.id => m.end = "open"}
    /\ UNCHANGED <<interface, revision, holds, applied, agreed>>

WorkerStep ==
    \/ Read
    \/ ReadTarget
    \/ Submit
    \/ Export
    \/ ReceiveAnswer
    \/ AskInterface
    \/ SendDecision
    \/ Fail

-----------------------------------------------------------------------------
(* External: the server carries a write out, or refuses it, whether or not  *)
(* anybody still waits for the answer, and others change the task.          *)

\* An answer that nobody waits for is lost.
End(m, end) ==
    mutations' = (mutations \ {m})
        \cup (IF worker # Absent /\ worker.id = m.id THEN {[m EXCEPT !.end = end]} ELSE {})

Current(m) == m.work.kind \in Guarded => m.work.revision = revision

\* The task comes to other contents, by what these edits did or without
\* them: new ones, which keep what was in it, or some that it had before.
Becomes(ids) ==
    \/ /\ Len(holds) < MaxRevision
       /\ holds' = Append(holds, holds[revision] \cup ids)
       /\ revision' = Len(holds) + 1
    \/ /\ revision' \in DOMAIN holds
       /\ UNCHANGED holds

CarryOut(m) ==
    /\ m.end = "open"
    /\ m.work.kind = "ask" => m.agreed
    /\ Current(m)
    /\ IF m.work.kind = "create" THEN UNCHANGED <<revision, holds>>
       ELSE Becomes(IF m.work.kind = "edit" THEN {m.id} ELSE {})
    /\ applied' = applied \cup {[id |-> m.id, kind |-> m.work.kind, project |-> m.work.project]}
    /\ End(m, "applied")
    /\ UNCHANGED <<interface, worker, events, agreed>>

Refuse(m) ==
    /\ m.end = "open"
    /\ End(m, "refused")
    /\ UNCHANGED <<interface, worker, events, revision, holds, applied, agreed>>

OthersWrite ==
    /\ Becomes({})
    /\ UNCHANGED <<interface, worker, events, mutations, applied, agreed>>

-----------------------------------------------------------------------------
(* The interface. *)

\* MaxRequests leaves room for the load that follows a write or an editor.
Room(kind) == requests + (IF kind \in Writes \cup {"locate"} THEN 2 ELSE 1) <= MaxRequests

StartWork(work) ==
    /\ requests' = requests + 1
    /\ pending' = [id |-> requests + 1, writes |-> work.kind \in Writes]
    /\ worker' = [id |-> requests + 1, work |-> work, at |-> "begun"]

\* Mutant: any pending request takes the event.
IsForAnyPending(event) == pending # Absent

\* An event of another request than the pending one is dropped.
IsForPending(event) == pending # Absent /\ pending.id = event.id

DropEvent ==
    /\ open
    /\ events # <<>>
    /\ ~IsForPending(Head(events))
    /\ events' = Tail(events)
    /\ UNCHANGED <<interface, worker, server, agreed>>

TakeQuestion ==
    /\ open
    /\ events # <<>>
    /\ IsForPending(Head(events))
    /\ Head(events).out = "confirm"
    /\ events' = Tail(events)
    /\ reply' = Head(events).id
    /\ question' = [local |-> "no", id |-> Head(events).id, yes |-> FALSE]
    /\ UNCHANGED <<open, scope, draft, dialog, pending, requests, worker, server, agreed>>

\* Mutant: only an error that the server reports locks the draft.
AfterErrorUnlocked(d) ==
    IF d = Absent \/ ~pending.writes THEN d ELSE [d EXCEPT !.owed = d.sent \cap AppliedIds]

\* What becomes of the draft when its write, or a read beside it, fails.
AfterError(d) ==
    IF d = Absent \/ ~pending.writes THEN d
    ELSE [d EXCEPT !.requires_inspection = d.kind # "export",
                   !.owed = d.sent \cap AppliedIds]

DraftAfter(event) ==
    CASE event.out = "error" -> AfterError(draft)
      [] event.out = "draft" -> event.draft
      [] event.out \in {"saved", "exported"} -> Absent
      [] OTHER -> draft

DialogAfter(event) ==
    CASE event.out = "blockers" -> [kind |-> "blockers"]
      [] event.out = "inspected" ->
            [kind |-> "inspection", revision |-> event.revision,
             shown |-> event.shown, within |-> event.scope]
      [] OTHER -> dialog

\* After a write, and after the editor, the records are loaded again.
TakeResult ==
    /\ open
    /\ events # <<>>
    /\ IsForPending(Head(events))
    /\ Head(events).out # "confirm"
    /\ events' = Tail(events)
    /\ reply' = Absent
    /\ question' = Absent
    /\ draft' = DraftAfter(Head(events))
    /\ dialog' = DialogAfter(Head(events))
    /\ scope' = IF Head(events).out \in {"loaded", "inspected"} THEN Head(events).scope ELSE scope
    /\ IF Head(events).out \in {"saved", "edit_file"}
        THEN StartWork(WorkOn("load", scope, 0))
        ELSE pending' = Absent /\ UNCHANGED <<requests, worker>>
    /\ UNCHANGED <<open, server, agreed>>

\* Everything that the user does meets the confirmation first, then the
\* dialog, then the draft, then the list.
InConfirmation == open /\ question # Absent
InDialog == open /\ question = Absent /\ dialog # Absent
InDraft == open /\ question = Absent /\ dialog = Absent /\ draft # Absent
InBrowser == open /\ question = Absent /\ dialog = Absent /\ draft = Absent

Toggle ==
    /\ InConfirmation
    /\ question' = [question EXCEPT !.yes = ~question.yes]
    /\ UNCHANGED <<open, scope, draft, dialog, pending, reply, requests, worker, events, server, agreed>>

\* Mutant: Esc sends the choice as it stands.
ConfirmedAsChosen(key, q) == q.yes

Confirmed(key, q) == key = "enter" /\ q.yes

\* The reply reaches the worker only while it still waits for one.
Decide(confirmed) ==
    worker' = IF worker # Absent /\ worker.id = reply /\ worker.at = "asking"
              THEN [worker EXCEPT !.at = IF confirmed THEN "yes" ELSE "no"]
              ELSE worker

CloseConfirmation(key) ==
    /\ InConfirmation
    /\ question' = Absent
    /\ IF question.local = "no"
        THEN /\ Decide(Confirmed(key, question))
             /\ reply' = Absent
             /\ agreed' = IF key = "enter" /\ question.yes THEN agreed \cup {question.id} ELSE agreed
             /\ UNCHANGED <<open, draft>>
        ELSE /\ draft' = IF Confirmed(key, question) THEN Absent ELSE draft
             /\ open' = ~(Confirmed(key, question) /\ question.local = "quit")
             /\ worker' = IF open' THEN worker ELSE Absent
             /\ UNCHANGED <<reply, agreed>>
    /\ UNCHANGED <<scope, dialog, pending, requests, events, server>>

AskLocal(local) ==
    question' = [local |-> local, id |-> 0, yes |-> FALSE]

\* The end of the interface aborts the worker.
MayQuit == pending # Absent => ~pending.writes

Quit ==
    /\ open
    /\ question = Absent
    /\ MayQuit
    /\ IF draft # Absent /\ draft.dirty
        THEN AskLocal("quit") /\ UNCHANGED <<open, worker>>
        ELSE open' = FALSE /\ worker' = Absent /\ UNCHANGED question
    /\ UNCHANGED <<scope, draft, dialog, pending, reply, requests, events, server, agreed>>

Start(work) ==
    /\ pending = Absent
    /\ Room(work.kind)
    /\ StartWork(work)
    /\ UNCHANGED <<open, question, reply, events, server, agreed>>

Reload ==
    /\ InBrowser
    /\ Start(WorkOn("load", scope, 0))
    /\ UNCHANGED <<scope, draft, dialog>>

CancelRead ==
    /\ InBrowser \/ InDraft
    /\ pending # Absent
    /\ ~pending.writes
    /\ worker' = Absent
    /\ pending' = Absent
    /\ UNCHANGED <<open, scope, draft, dialog, question, reply, requests, events, server, agreed>>

\* A new task needs the sections of its project; a new note does not.
CreateIn(project) ==
    \/ Start(WorkOn("template", project, 0)) /\ UNCHANGED <<scope, draft>>
    \/ /\ draft' = NewDraft("create", project, 0)
       /\ UNCHANGED <<open, scope, question, pending, reply, requests, worker, events, server, agreed>>

Create ==
    /\ InBrowser
    /\ pending = Absent
    /\ IF scope \in Projects
        THEN CreateIn(scope) /\ UNCHANGED dialog
        ELSE /\ dialog' = [kind |-> "projects", browse |-> FALSE]
             /\ UNCHANGED <<open, scope, draft, question, pending, reply, requests, worker, events, server, agreed>>

\* The list of the projects opens beside a pending request.
BrowseProjects ==
    /\ InBrowser
    /\ dialog' = [kind |-> "projects", browse |-> TRUE]
    /\ UNCHANGED <<open, scope, draft, question, pending, reply, requests, worker, events, server, agreed>>

OpenActions ==
    /\ InBrowser
    /\ pending = Absent
    /\ dialog' = [kind |-> "actions"]
    /\ UNCHANGED <<open, scope, draft, question, pending, reply, requests, worker, events, server, agreed>>

\* So does the draft of an export.
ExportReferences ==
    /\ InBrowser
    /\ draft' = NewDraft("export", Everything, 0)
    /\ UNCHANGED <<open, scope, dialog, question, pending, reply, requests, worker, events, server, agreed>>

TaskActions == {"target", "locate", "complete", "shelve", "ask"}

Act ==
    /\ InBrowser
    /\ \E kind \in TaskActions : Start(WorkOn(kind, Everything, 0))
    /\ UNCHANGED <<scope, draft, dialog>>

CloseDialog ==
    /\ InDialog
    /\ dialog' = Absent
    /\ UNCHANGED <<open, scope, draft, question, pending, reply, requests, worker, events, server, agreed>>

ChooseAction ==
    /\ InDialog
    /\ dialog.kind = "actions"
    /\ dialog' = Absent
    /\ \E kind \in TaskActions : Start(WorkOn(kind, Everything, 0))
    /\ UNCHANGED <<scope, draft>>

ChooseProject ==
    /\ InDialog
    /\ dialog.kind = "projects"
    /\ pending = Absent
    /\ dialog' = Absent
    /\ IF dialog.browse
        THEN \E chosen \in Scopes :
                /\ scope' = chosen
                /\ Start(WorkOn("load", chosen, 0))
                /\ UNCHANGED draft
        ELSE \E project \in Projects : CreateIn(project)

\* Only this unlocks a draft, and gives it the revision that was shown.
Inspected(d, inspection) ==
    [d EXCEPT !.requires_inspection = FALSE,
              !.revision = IF d.kind = "edit" THEN inspection.revision ELSE d.revision,
              !.seen = inspection.shown, !.within = inspection.within]

AcceptInspection ==
    /\ InDialog
    /\ dialog.kind = "inspection"
    /\ dialog' = Absent
    /\ draft' = IF draft = Absent THEN draft ELSE Inspected(draft, dialog)
    /\ UNCHANGED <<open, scope, question, pending, reply, requests, worker, events, server, agreed>>

\* Also by the list of blockers, the editor of a field and a paste.
Type ==
    /\ draft # Absent
    /\ InDraft \/ (InDialog /\ dialog.kind = "blockers")
    /\ pending = Absent
    /\ draft' = [draft EXCEPT !.dirty = TRUE]
    /\ dialog' = Absent
    /\ UNCHANGED <<open, scope, question, pending, reply, requests, worker, events, server, agreed>>

LeaveDraft ==
    /\ InDraft
    /\ pending = Absent
    /\ IF draft.dirty
        THEN AskLocal("discard") /\ UNCHANGED draft
        ELSE draft' = Absent /\ UNCHANGED question
    /\ UNCHANGED <<open, scope, dialog, pending, reply, requests, worker, events, server, agreed>>

\* MaxRequests submissions at most; before is history.
Save ==
    /\ InDraft
    /\ ~draft.requires_inspection
    /\ Start([kind |-> draft.kind, project |-> draft.project, revision |-> draft.revision,
              before |-> draft.sent, seen |-> draft.seen])
    /\ draft' = [draft EXCEPT !.sent = draft.sent \cup {requests'}]
    /\ UNCHANGED <<scope, dialog>>

Inspect ==
    /\ InDraft
    /\ draft.requires_inspection
    /\ Start(WorkOn("inspect", scope, 0))
    /\ UNCHANGED <<scope, draft, dialog>>

OpenBlockers ==
    /\ InDraft
    /\ draft.kind = "edit"
    /\ Start(WorkOn("blockers", Everything, 0))
    /\ UNCHANGED <<scope, draft, dialog>>

Key ==
    \/ Toggle
    \/ \E key \in {"enter", "esc"} : CloseConfirmation(key)
    \/ Quit
    \/ Reload
    \/ CancelRead
    \/ Create
    \/ BrowseProjects
    \/ OpenActions
    \/ ExportReferences
    \/ Act
    \/ CloseDialog
    \/ ChooseAction
    \/ ChooseProject
    \/ AcceptInspection
    \/ Type
    \/ LeaveDraft
    \/ Save
    \/ Inspect
    \/ OpenBlockers

TakeEvent == DropEvent \/ TakeQuestion \/ TakeResult

TerminalNext ==
    \/ WorkerStep
    \/ TakeEvent
    \/ Key
    \/ \E m \in mutations : CarryOut(m) \/ Refuse(m)
    \/ OthersWrite

\* The worker has a deadline, and the loop of the interface takes its events.
TerminalFairness ==
    /\ WF_terminalVars(WorkerStep)
    /\ WF_terminalVars(TakeEvent)

TerminalSpec == TerminalInit /\ [][TerminalNext]_terminalVars /\ TerminalFairness

-----------------------------------------------------------------------------
\* The request that runs is the pending one, and a question of the server
\* belongs to it, as does the channel that carries the reply: nothing that
\* was left by an earlier request is shown or answered.  The interface does not
\* end while a write is awaited.
OneRequest ==
    /\ (~open /\ pending # Absent) => ~pending.writes
    /\ worker # Absent =>
         /\ pending # Absent
         /\ pending = [id |-> worker.id, writes |-> worker.work.kind \in Writes]
    /\ (question # Absent /\ question.local = "no") =>
         pending # Absent /\ pending.id = question.id /\ reply = question.id
    /\ (reply # Absent) => (question # Absent /\ question.id = reply)

\* What the user typed goes only when the server or the disk has it, by a
\* submission of this very draft, or when the user confirmed a question that
\* named the loss.
DraftsSurvive ==
    [][(draft # Absent /\ draft.dirty /\ (draft' = Absent \/ ~draft'.dirty)) =>
        \/ question # Absent /\ question.local \in {"discard", "quit"} /\ question.yes
        \/ /\ events # <<>>
           /\ Head(events).out \in {"saved", "exported"}
           /\ Head(events).id \in draft.sent]_terminalVars

Submitting ==
    /\ draft # Absent
    /\ draft' # Absent
    /\ draft'.sent # draft.sent

\* A draft whose write failed is submitted again only after an inspection
\* that showed whatever the failed write had done by then, provided that the
\* inspection looked at the project of the draft.
RetriesAreInformed ==
    [][(Submitting /\ (draft.kind = "create" =>
            draft.within = Everything \/ draft.within = draft.project)) =>
        draft.owed \subseteq draft.seen]_terminalVars

\* The same without the proviso: "Check for an existing task or note before
\* creating again", says the inspection (inspection.rs), to a user whom it
\* may have shown the records of another project.
InspectionsShowTheAttempt ==
    [][Submitting => draft.owed \subseteq draft.seen]_terminalVars

\* The server deletes and reopens only what the user agreed to, on the
\* question of that very request and with Enter.
ApprovalsAreDeliberate ==
    \A m \in mutations : m.agreed => m.id \in agreed

\* A write of a draft that nobody waits for any longer may still be carried
\* out, also after the inspection.  The next submission of the draft is then
\* refused: no edit is carried out on contents with an earlier submission of
\* its draft in them that the user was not shown (task_mutation.rs submit).  Where
\* somebody has put back the contents that the user saw, it is accepted, and
\* what the earlier submission did is in them no more.
EditsApplyOncePerView ==
    [][\A m \in mutations :
        (m.work.kind = "edit" /\ m.id \notin AppliedIds /\ m.id \in {done.id : done \in applied'}) =>
            (m.work.before \cap holds[revision]) \subseteq m.work.seen]_terminalVars

\* The user waits for a request.
RequestRuns == open /\ pending # Absent

=============================================================================
