-------------------------- MODULE MCTaskMutations --------------------------
(* Small vaults for the task commands. *)
EXTENDS TaskMutations, TLC

CONSTANTS t1

Task(status, blockers) ==
    [status |-> status, blocked_by |-> blockers, text |-> t1,
     completed |-> status \in ClosedStatuses]

\* The ids from n on are free, the ones below hold active tasks without blockers.
UnlinkedVault(n) ==
    [id \in TaskIds |-> IF id < n THEN Task("active", {}) ELSE NoTask]

\* Two tasks, the second waiting for the first, and a free id.
ChainVault ==
    [id \in TaskIds |->
        CASE id = 1 -> Task("active", {})
          [] id = 2 -> Task("active", {1})
          [] OTHER -> NoTask]

LinkVaults == {UnlinkedVault(3), ChainVault}

\* One task, open or closed.
LifecycleVaults ==
    {[id \in TaskIds |-> IF id = 1 THEN Task(status, {}) ELSE NoTask] :
        status \in {"active", "done"}}

MCSymmetry == Permutations(Requests)

=============================================================================
