--------------------------- MODULE TaskMutations ---------------------------
(***************************************************************************)
(* The task commands of the server, step by step.  Every command takes the *)
(* one mutation lock of the server, reads the files it depends on, checks  *)
(* them, and commits a write that is guarded by the revision it read.      *)
(* Reactivating a closed task and removing a task ask the user first, and  *)
(* nothing is locked while the user decides.  People also edit the files   *)
(* in their editor, which takes no lock.                                   *)
(***************************************************************************)
EXTENDS Tasks

CONSTANTS
    Requests,         \* the commands that clients send
    Operations,       \* which of the commands they send
    Free,             \* nobody holds the mutation lock
    AnyRevision,      \* the client names no revision it expects
    MaxEditorWrites,  \* how often somebody saves a file in an editor
    MaxCrashes        \* how often the server process dies

ASSUME RequestsAssumption ==
    /\ Free \notin Requests
    /\ AnyRevision \notin TaskContents \cup {NoTask}
    /\ MaxEditorWrites \in Nat
    /\ MaxCrashes \in Nat
    /\ Operations \subseteq
         {"create", "clone", "edit", "close", "backlog", "activate", "delete"}

VARIABLES
    files,         \* the task file of each id
    last,          \* last_task_number of the project row
    lock,          \* AppState.task_mutations
    req,           \* what each command is doing
    editorWrites,
    crashes

vars == <<files, last, lock, req, editorWrites, crashes>>

BlockedByEdits == {"unchanged", "clear", "replace", "append"}

\* waiting and relocking wait for the lock; the steps from locked to ready hold
\* it; asking waits for the user's decision.
Steps == {"idle", "waiting", "locked", "allocating", "linking", "preparing",
          "prepared", "asking", "relocking", "ready", "done"}

RequestStates ==
    [step: Steps,
     op: Operations \cup {"none"},
     id: 0 .. MaxTaskNumber,
     expected: TaskContents \cup {NoTask, AnyRevision},
     seen: TaskContents \cup {NoTask},
     mode: BlockedByEdits,
     added: SUBSET TaskIds]

Idle == [step |-> "idle", op |-> "none", id |-> 0, expected |-> AnyRevision,
         seen |-> NoTask, mode |-> "unchanged", added |-> {}]

LockedSteps == {"locked", "allocating", "linking", "ready"}

\* The lock covers the steps from the first read to the commit, and nobody
\* keeps it while a user thinks (confirmation.rs confirm drops the guard).
TypeOK ==
    /\ files \in Vaults
    /\ last \in 0 .. MaxTaskNumber
    /\ lock \in Requests \cup {Free}
    /\ req \in [Requests -> RequestStates]
    /\ \A r \in Requests : lock = r <=> req[r].step \in LockedSteps
    /\ editorWrites \in 0 .. MaxEditorWrites
    /\ crashes \in 0 .. MaxCrashes

\* The project row counts the ids given out so far.
Init ==
    /\ files \in InitialVaults
    /\ last \in 0 .. MaxTaskNumber
    /\ \A id \in Existing(files) : id <= last
    /\ lock = Free
    /\ req = [r \in Requests |-> Idle]
    /\ editorWrites = 0
    /\ crashes = 0

-----------------------------------------------------------------------------
\* Helpers of the steps.  Holding says that a command is at one of its steps
\* and owns the lock there.

At(r, step) == req[r].step = step

Holding(r, step) == At(r, step) /\ lock = r

GoTo(r, step) == req' = [req EXCEPT ![r].step = step]

\* Mutant: the guard outlives the command.
FinishKeepingLock(r) ==
    /\ req' = [req EXCEPT ![r] = [Idle EXCEPT !.step = "done"]]
    /\ UNCHANGED lock

\* A command ends and drops its guard; whatever it captured is gone with it.
Finish(r) ==
    /\ req' = [req EXCEPT ![r] = [Idle EXCEPT !.step = "done"]]
    /\ lock' = IF lock = r THEN Free ELSE lock

\* The blockers an edit asks to store, given the record it read.
RequestedBlockers(q) ==
    IF q.mode = "append" THEN q.seen.blocked_by \cup q.added ELSE q.added

AddsBlockers(q) == q.mode \in {"replace", "append"}

\* Mutant: closed tasks can be edited.
AcceptedStatusesOfAnyEdit(op) ==
    IF op = "edit" THEN Statuses
    ELSE IF op \in {"close", "backlog"} THEN {"active"}
    ELSE IF op = "activate" THEN Statuses \ {"active"} ELSE Statuses

\* The statuses from which a command goes on; otherwise it reports an error or
\* that there is nothing to do.
AcceptedStatuses(op) ==
    CASE op = "edit" -> Statuses \ ClosedStatuses
      [] op \in {"close", "backlog"} -> {"active"}
      [] op = "activate" -> Statuses \ {"active"}
      [] op \in {"clone", "delete"} -> Statuses

ExpectedRevisionHolds(q, record) == q.expected \in {AnyRevision, record}

\* Mutant: the guard is kept while the user decides.
LockKept(next) == lock

\* The guard is dropped before the question goes out.
LockAfterReading(next) == IF next = "asking" THEN Free ELSE lock

-----------------------------------------------------------------------------
\* A client sends a command.  Creation and edits may name any ids as blockers,
\* the target's own and unknown ones included; an edit and a closure may carry
\* the revision of the file that the client displayed.
Send(r, op, id, expected, mode, added) ==
    /\ At(r, "idle")
    /\ op = "create" => id = 0 /\ mode = "unchanged"
    /\ op # "create" => id # 0
    /\ op \notin {"create", "edit"} => mode = "unchanged" /\ added = {}
    /\ op = "edit" => (added # {} <=> mode \in {"replace", "append"})
    /\ op \notin {"edit", "close"} => expected = AnyRevision
    /\ req' = [req EXCEPT ![r] =
                 [step |-> IF op = "delete" THEN "preparing" ELSE "waiting",
                  op |-> op, id |-> id, expected |-> expected, seen |-> NoTask,
                  mode |-> mode, added |-> added]]
    /\ UNCHANGED <<files, last, lock, editorWrites, crashes>>

\* A handler gets the mutation lock before it reads anything; a removal gets it
\* only after the user confirmed.
Acquire(r) ==
    /\ At(r, "waiting")
    /\ lock = Free
    /\ lock' = r
    /\ GoTo(r, "locked")
    /\ UNCHANGED <<files, last, editorWrites, crashes>>

\* The confirmed command gets the lock back: a reactivation goes straight to
\* its guarded write, a removal validates everything again.
AcquireAfterDecision(r) ==
    /\ At(r, "relocking")
    /\ lock = Free
    /\ lock' = r
    /\ GoTo(r, IF req[r].op = "activate" THEN "ready" ELSE "locked")
    /\ UNCHANGED <<files, last, editorWrites, crashes>>

\* The record the command works on is read, and refused when it is missing,
\* not at the revision the client displayed, or in the wrong status.
ReadRecord(r) ==
    LET q == req[r]
        record == files[q.id]
        accepted == /\ record # NoTask
                    /\ ExpectedRevisionHolds(q, record)
                    /\ record.status \in AcceptedStatuses(q.op)
        next == CASE q.op = "edit" -> IF AddsBlockers(q) THEN "linking" ELSE "ready"
                  [] q.op \in {"close", "backlog"} -> "ready"
                  [] q.op = "clone" -> "allocating"
                  [] q.op = "activate" ->
                       IF record.status \in ClosedStatuses THEN "asking" ELSE "ready"
    IN  /\ Holding(r, "locked")
        /\ q.op \notin {"create", "delete"}
        /\ IF accepted
           THEN /\ req' = [req EXCEPT
                             ![r].step = next,
                             ![r].seen = record,
                             ![r].added = IF q.op = "clone" THEN record.blocked_by ELSE @]
                /\ lock' = LockAfterReading(next)
           ELSE Finish(r)
        /\ UNCHANGED <<files, last, editorWrites, crashes>>

\* Creation reserves the next number of the project, or fails at the limit.
Reserve(r) ==
    /\ \/ Holding(r, "locked") /\ req[r].op = "create"
       \/ Holding(r, "allocating")
    /\ IF last < MaxTaskNumber
       THEN /\ last' = last + 1
            /\ req' = [req EXCEPT
                         ![r].id = last + 1,
                         ![r].step = IF req[r].added = {} THEN "ready" ELSE "linking"]
            /\ UNCHANGED lock
       ELSE Finish(r) /\ UNCHANGED last
    /\ UNCHANGED <<files, editorWrites, crashes>>

\* The files of every project the blockers reach are read and validated.
ValidateLinks(r) ==
    LET q == req[r]
    IN  /\ Holding(r, "linking")
        /\ IF ValidBlockers(files, q.id, RequestedBlockers(q), q.added)
           THEN GoTo(r, "ready") /\ UNCHANGED lock
           ELSE Finish(r)
        /\ UNCHANGED <<files, last, editorWrites, crashes>>

\* A removal reads its target without the lock, to tell the user what goes.
ReadTarget(r) ==
    /\ At(r, "preparing")
    /\ IF files[req[r].id] # NoTask
       THEN /\ req' = [req EXCEPT ![r].step = "prepared", ![r].seen = files[req[r].id]]
            /\ UNCHANGED lock
       ELSE Finish(r)
    /\ UNCHANGED <<files, last, editorWrites, crashes>>

\* Mutant: the confirmed removal trusts what it checked before the question.
RejectDependentsOnce(r) ==
    /\ req[r].op = "delete"
    /\ At(r, "prepared") \/ Holding(r, "locked")
    /\ IF At(r, "locked") \/ Dependents(files, req[r].id) = {}
       THEN /\ GoTo(r, IF At(r, "prepared") THEN "asking" ELSE "ready")
            /\ UNCHANGED lock
       ELSE Finish(r)
    /\ UNCHANGED <<files, last, editorWrites, crashes>>

\* Nothing may be blocked by the target: looked up before the user is asked
\* and again, with the lock held, once the user confirmed.
RejectDependents(r) ==
    /\ req[r].op = "delete"
    /\ At(r, "prepared") \/ Holding(r, "locked")
    /\ IF Dependents(files, req[r].id) = {}
       THEN /\ GoTo(r, IF At(r, "prepared") THEN "asking" ELSE "ready")
            /\ UNCHANGED lock
       ELSE Finish(r)
    /\ UNCHANGED <<files, last, editorWrites, crashes>>

\* The user confirms what the preflight message shows.
Confirm(r) ==
    /\ At(r, "asking")
    /\ GoTo(r, "relocking")
    /\ UNCHANGED <<files, last, lock, editorWrites, crashes>>

\* The user declines, closes the stream, or lets half an hour pass.
Decline(r) ==
    /\ At(r, "asking")
    /\ Finish(r)
    /\ UNCHANGED <<files, last, editorWrites, crashes>>

-----------------------------------------------------------------------------
\* What a command may leave in the file of its task, given the record it read.
Written(q) ==
    CASE q.op \in {"create", "clone"} ->
           {NewTask(q.added, text) : text \in Texts}
      [] q.op = "edit" ->
           {[q.seen EXCEPT
               !.text = text,
               !.blocked_by = IF q.mode = "unchanged" THEN @ ELSE RequestedBlockers(q)] :
              text \in Texts}
      [] q.op = "close" ->
           {[q.seen EXCEPT !.status = status, !.completed = TRUE] : status \in ClosedStatuses}
      [] q.op = "backlog" -> {[q.seen EXCEPT !.status = "backlog"]}
      [] q.op = "activate" -> {[q.seen EXCEPT !.status = "active", !.completed = FALSE]}
      [] q.op = "delete" -> {NoTask}

\* Mutant: the write does not look at what it replaces.
RequiredNothing(q) == files[q.id]

\* The content a write requires on disk: none for a new file, which is created
\* without replacing one, and the record that was read for any other.
Required(q) == IF q.op \in {"create", "clone"} THEN NoTask ELSE q.seen

Commit(r) ==
    LET q == req[r]
    IN  /\ Holding(r, "ready")
        /\ IF files[q.id] = Required(q)
           THEN \E content \in Written(q) : files' = [files EXCEPT ![q.id] = content]
           ELSE UNCHANGED files
        /\ Finish(r)
        /\ UNCHANGED <<last, editorWrites, crashes>>

\* The file system refuses the write.
CommitFails(r) ==
    /\ Holding(r, "ready")
    /\ Finish(r)
    /\ UNCHANGED <<files, last, editorWrites, crashes>>

\* The client goes away and the server drops the future of the handler, which
\* it can do where the handler awaits the lock or the project registry.  The
\* worker of a creation and the tasks of a reactivation or a removal live on.
Cancel(r) ==
    /\ \/ At(r, "waiting") /\ req[r].op # "activate"
       \/ /\ req[r].op \in {"clone", "edit", "close", "backlog"}
          /\ \E step \in {"locked", "allocating", "linking"} : At(r, step)
    /\ Finish(r)
    /\ UNCHANGED <<files, last, editorWrites, crashes>>

\* The process dies: the lock and the running commands go, the files and the
\* registry stay.
Crash ==
    /\ crashes < MaxCrashes
    /\ crashes' = crashes + 1
    /\ lock' = Free
    /\ req' = [r \in Requests |->
                 IF At(r, "idle") THEN Idle ELSE [Idle EXCEPT !.step = "done"]]
    /\ UNCHANGED <<files, last, editorWrites>>

\* Somebody saves, creates or deletes the file of a task in an editor.
EditorWrite(id, content) ==
    /\ editorWrites < MaxEditorWrites
    /\ content # files[id]
    /\ editorWrites' = editorWrites + 1
    /\ files' = [files EXCEPT ![id] = content]
    /\ UNCHANGED <<last, lock, req, crashes>>

-----------------------------------------------------------------------------
\* The revisions a client can carry: none, or the one it just displayed.
DisplayedRevisions(id) ==
    {AnyRevision} \cup (IF id = 0 THEN {} ELSE {files[id]} \ {NoTask})

ClientStep(r) ==
    \/ /\ At(r, "idle")
       /\ \E op \in Operations, id \in 0 .. MaxTaskNumber, mode \in BlockedByEdits,
             added \in SUBSET TaskIds :
             \E expected \in DisplayedRevisions(id) : Send(r, op, id, expected, mode, added)
    \/ Confirm(r)
    \/ Decline(r)
    \/ Cancel(r)

ServerStep(r) ==
    \/ ReadRecord(r)
    \/ Reserve(r)
    \/ ValidateLinks(r)
    \/ ReadTarget(r)
    \/ RejectDependents(r)
    \/ Commit(r)
    \/ CommitFails(r)

Lock(r) == Acquire(r) \/ AcquireAfterDecision(r)

Next ==
    \/ \E r \in Requests : ClientStep(r) \/ Lock(r) \/ ServerStep(r)
    \/ \E id \in TaskIds, content \in TaskContents \cup {NoTask} : EditorWrite(id, content)
    \/ Crash

Spec == Init /\ [][Next]_vars

\* A running command goes on; the decision times out after half an hour if the
\* user never answers; and the mutex is handed over in the order of the calls.
Fairness ==
    \A r \in Requests :
        WF_vars(ServerStep(r)) /\ WF_vars(Decline(r)) /\ SF_vars(Lock(r))

FairSpec == Spec /\ Fairness

-----------------------------------------------------------------------------
\* Every command does what TaskBoard promises, at the instant it commits.
Board == INSTANCE TaskBoard WITH board <- files

\* The commands together are atomic task board operations: what each validated
\* about the other tasks still holds when it writes (services/task.rs).
ImplementsBoard == Board!Spec

\* A write of the server replaces exactly the content that its command read,
\* and that the client displayed when it named a revision: nobody's save is
\* lost, whoever wrote in between (task_mutation.rs commit_task_writes_impl).
NoLostUpdate ==
    [][\A r \in Requests : \A id \in TaskIds :
         (files'[id] # files[id] /\ files[id] # NoTask
            /\ At(r, "ready") /\ req'[r].step = "done" /\ crashes' = crashes)
           => /\ files[id] = req[r].seen
              /\ ExpectedRevisionHolds(req[r], files[id])]_vars

\* A closed task changes only when it is reactivated or removed, and then only
\* while it still is what the user was shown before confirming
\* (activate_task.rs, remove_task.rs).
ClosedTasksChangeByConfirmation ==
    [][\A id \in TaskIds :
         (files[id] # NoTask /\ files[id].status \in ClosedStatuses
            /\ files'[id] # files[id] /\ editorWrites' = editorWrites)
           => \E r \in Requests :
                /\ req[r].op \in {"activate", "delete"}
                /\ req[r].seen = files[id]
                /\ req[r].id = id
                /\ Holding(r, "ready")]_vars

\* Every command that was sent ends, although users may never decide and
\* clients may disappear at any point.
CommandsEnd == \A r \in Requests : ~At(r, "idle") ~> At(r, "done")

=============================================================================
