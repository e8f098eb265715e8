---------------------------- MODULE AtomicCommit ----------------------------
(***************************************************************************)
(* What file transactions promise to the stores that use them: a compare   *)
(* and swap over several files.  A transaction collects what it observed   *)
(* and what it wants to change; it commits at one instant at which every   *)
(* observation still holds, and then all of its changes are there.  Only a *)
(* file system that gives up half way leaves the first few of them.        *)
(***************************************************************************)
EXTENDS FileChanges

CONSTANTS Transactions, MaxChanges

VARIABLES
    vault,    \* the files
    observed, \* what each transaction depends on
    changes,  \* what each transaction wants to change
    outcome   \* how each transaction ended

vars == <<vault, observed, changes, outcome>>

Outcomes == {"open", "committed", "torn", "refused"}

Init ==
    /\ vault \in Directories
    /\ observed = [t \in Transactions |-> NothingSeen]
    /\ changes = [t \in Transactions |-> <<>>]
    /\ outcome = [t \in Transactions |-> "open"]

\* The transaction depends on one or two more files, and may change them if
\* nothing it collected before does.
Collect(t, change, from, to) ==
    /\ outcome[t] = "open"
    /\ observed[t][change.path] \in {Unseen, from}
    /\ observed[t][change.to] \in {Unseen, to}
    /\ IF change.kind = "rename" THEN from # Missing /\ to = Missing ELSE from = to
    /\ change.path = change.to => from = to
    /\ change.kind = "remove" => from # Missing
    /\ observed' = [observed EXCEPT ![t][change.path] = from, ![t][change.to] = to]
    /\ IF change.kind = "expect"
       THEN UNCHANGED changes
       ELSE /\ Touched(change) \cap MutationPaths(changes[t]) = {}
            /\ Len(changes[t]) < MaxChanges
            /\ changes' = [changes EXCEPT ![t] = Append(@, change)]
    /\ UNCHANGED <<vault, outcome>>

End(t, how) ==
    /\ outcome[t] = "open"
    /\ outcome' = [outcome EXCEPT ![t] = how]
    /\ observed' = [observed EXCEPT ![t] = NothingSeen]
    /\ changes' = [changes EXCEPT ![t] = <<>>]

Commit(t) ==
    /\ ObservationsHold(vault, observed[t])
    /\ vault' = Published(vault, changes[t], Len(changes[t]))
    /\ End(t, "committed")

Tear(t) ==
    /\ ObservationsHold(vault, observed[t])
    /\ \E n \in 0 .. Len(changes[t]) : vault' = Published(vault, changes[t], n)
    /\ End(t, "torn")

Refuse(t) ==
    /\ End(t, "refused")
    /\ UNCHANGED vault

\* The process dies: at most one transaction was about to leave its first changes.
Crash ==
    LET open == {t \in Transactions : outcome[t] = "open"}
        EndAll(torn) == [t \in Transactions |->
                           IF t \in torn THEN "torn"
                           ELSE IF t \in open THEN "refused" ELSE outcome[t]]
    IN  /\ \/ outcome' = EndAll({}) /\ UNCHANGED vault
           \/ \E t \in open, n \in 0 .. MaxChanges :
                /\ n <= Len(changes[t])
                /\ ObservationsHold(vault, observed[t])
                /\ vault' = Published(vault, changes[t], n)
                /\ outcome' = EndAll({t})
        /\ observed' = [t \in Transactions |-> NothingSeen]
        /\ changes' = [t \in Transactions |-> <<>>]

\* Somebody else writes a file.
Write(path, state) ==
    /\ vault' = [vault EXCEPT ![path] = state]
    /\ UNCHANGED <<observed, changes, outcome>>

Next ==
    \/ \E t \in Transactions :
         \/ \E change \in Changes, from, to \in FileStates : Collect(t, change, from, to)
         \/ Commit(t)
         \/ Tear(t)
         \/ Refuse(t)
    \/ \E path \in Paths, state \in FileStates : Write(path, state)
    \/ Crash

Spec == Init /\ [][Next]_vars

=============================================================================
