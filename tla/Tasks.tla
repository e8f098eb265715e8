------------------------------- MODULE Tasks -------------------------------
(***************************************************************************)
(* The task files of a vault as data, and the dependency graph that their  *)
(* blocked_by metadata forms.  A file's revision is the hash of its bytes, *)
(* so two files have the same revision exactly when they have the same     *)
(* content: the content itself stands for the revision here.               *)
(***************************************************************************)
EXTENDS Naturals, FiniteSets

CONSTANTS
    MaxTaskNumber,  \* the last number a task id can carry (9999 in the code)
    Texts,          \* what the title and the body of a task can be
    NoTask,         \* no file holds the id
    InitialVaults   \* vaults as earlier commands left them

ASSUME MaxTaskNumberAssumption == MaxTaskNumber \in Nat

Statuses == {"active", "backlog", "done", "cancelled"}
ClosedStatuses == {"done", "cancelled"}

TaskIds == 1 .. MaxTaskNumber

\* completed stands for completed_at, commits and the report: what closing a
\* task stamps on it and reactivating it clears.
TaskContents ==
    [status: Statuses, blocked_by: SUBSET TaskIds, text: Texts, completed: BOOLEAN]

ASSUME NoTaskAssumption == NoTask \notin TaskContents

\* A vault holds at most one file for each id.
Vaults == [TaskIds -> TaskContents \cup {NoTask}]

NewTask(blockers, text) ==
    [status |-> "active", blocked_by |-> blockers, text |-> text, completed |-> FALSE]

Existing(vault) == {id \in TaskIds : vault[id] # NoTask}

BlockersOf(vault, id) == IF vault[id] = NoTask THEN {} ELSE vault[id].blocked_by

\* The tasks whose stored blocked_by names the target.
Dependents(vault, target) == {id \in Existing(vault) : target \in vault[id].blocked_by}

ClosedUnderBlockers(vault, ids) == \A id \in ids : BlockersOf(vault, id) \subseteq ids

\* Mutant: the search stops at the blockers of the blockers.
ReachableInOneStep(vault, blockers) ==
    blockers \cup UNION {BlockersOf(vault, id) : id \in blockers}

\* Every id the blockers lead to, themselves included: the least set that
\* holds them and the blockers of its members.
Reachable(vault, blockers) ==
    {id \in TaskIds :
        \A ids \in SUBSET TaskIds :
            blockers \subseteq ids /\ ClosedUnderBlockers(vault, ids) => id \in ids}

\* What the validation of a dependency edit accepts: no self dependency, no
\* unknown id among those supplied, and no cycle, through the target or
\* between the tasks the blockers lead to.
ValidBlockers(vault, target, blockers, supplied) ==
    /\ target \notin blockers
    /\ supplied \subseteq Existing(vault)
    /\ target \notin Reachable(vault, blockers)
    /\ \A id \in Reachable(vault, blockers) :
          id \notin Reachable(vault, BlockersOf(vault, id))

-----------------------------------------------------------------------------
\* No nonempty set of tasks has each of its members blocked by another one:
\* some member can always be worked on before the others.
AcyclicBlockers(vault) ==
    \A ids \in SUBSET TaskIds :
        ids # {} => \E id \in ids : BlockersOf(vault, id) \cap ids = {}

NoDanglingBlockers(vault) ==
    \A id \in Existing(vault) : vault[id].blocked_by \subseteq Existing(vault)

\* Completion data is on exactly the closed tasks.
CompletedWhenClosed(vault) ==
    \A id \in Existing(vault) :
        vault[id].completed <=> vault[id].status \in ClosedStatuses

WellFormed(vault) ==
    /\ AcyclicBlockers(vault)
    /\ NoDanglingBlockers(vault)
    /\ CompletedWhenClosed(vault)

ASSUME InitialVaultsAssumption ==
    \A vault \in InitialVaults : vault \in Vaults /\ WellFormed(vault)

=============================================================================
