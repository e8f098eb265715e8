-------------------------- MODULE MCFileTransaction --------------------------
(* Small instances of the file transactions.                               *)
EXTENDS FileTransaction, TLC

CONSTANTS t1, t2, old, new

MCPaths == 1 .. 2

Interchangeable == Permutations(Transactions)

ReplaceAndRename == {"replace", "rename"}
AllKinds == {"expect", "replace", "remove", "rename"}

\* Nobody but the transactions writes.
OwnSteps == (\E t \in Transactions : Step(t)) \/ Crash
OwnSpec == Init /\ [][OwnSteps]_vars

=============================================================================
