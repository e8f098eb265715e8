----------------------------- MODULE TaskBoard -----------------------------
(***************************************************************************)
(* What the task commands of the server promise: each of them happens at   *)
(* one instant, and what it requires of the other tasks holds at that      *)
(* instant.  TaskMutations, where a command is many steps, implements this *)
(* specification.                                                          *)
(***************************************************************************)
EXTENDS Tasks

VARIABLE board

TypeOK == board \in Vaults

Init == board \in InitialVaults

Open(id) == board[id] # NoTask /\ board[id].status \notin ClosedStatuses

\* A new task may name existing tasks as its blockers.
Create(id, blockers, text) ==
    /\ board[id] = NoTask
    /\ blockers \subseteq Existing(board)
    /\ board' = [board EXCEPT ![id] = NewTask(blockers, text)]

\* An open task may be blocked by more existing tasks, none of which waits for
\* it, or by none.
Edit(id, kept, added, text) ==
    /\ Open(id)
    /\ kept \in {{}, board[id].blocked_by}
    /\ added \subseteq Existing(board)
    /\ added # {} => id \notin Reachable(board, kept \cup added)
    /\ board' = [board EXCEPT ![id].blocked_by = kept \cup added, ![id].text = text]

Close(id, status) ==
    /\ board[id] # NoTask
    /\ board[id].status = "active"
    /\ board' = [board EXCEPT ![id].status = status, ![id].completed = TRUE]

Backlog(id) ==
    /\ board[id] # NoTask
    /\ board[id].status = "active"
    /\ board' = [board EXCEPT ![id].status = "backlog"]

Activate(id) ==
    /\ board[id] # NoTask
    /\ board[id].status # "active"
    /\ board' = [board EXCEPT ![id].status = "active", ![id].completed = FALSE]

\* Only a task that blocks no other can be removed.
Remove(id) ==
    /\ board[id] # NoTask
    /\ Dependents(board, id) = {}
    /\ board' = [board EXCEPT ![id] = NoTask]

Next ==
    \E id \in TaskIds :
        \/ \E blockers \in SUBSET TaskIds, text \in Texts : Create(id, blockers, text)
        \/ \E kept, added \in SUBSET TaskIds, text \in Texts : Edit(id, kept, added, text)
        \/ \E status \in ClosedStatuses : Close(id, status)
        \/ Backlog(id)
        \/ Activate(id)
        \/ Remove(id)

Spec == Init /\ [][Next]_board

-----------------------------------------------------------------------------
\* The blocked_by graph never has a cycle, whichever commands run and in
\* whichever order (blocked_by.rs validate, remove_task.rs ensure_no_dependents).
DependenciesAcyclic == AcyclicBlockers(board)

\* A blocker of an existing task exists: it cannot be removed while it is one.
BlockersExist == NoDanglingBlockers(board)

\* Closing a task always leaves its completion data and reactivating it always
\* takes the data away, so no open task carries a completion date
\* (task_closure.rs close, activate_task.rs).
CompletionMatchesStatus == CompletedWhenClosed(board)

\* All of it, after any commands.
BoardConsistent == DependenciesAcyclic /\ BlockersExist /\ CompletionMatchesStatus

=============================================================================
