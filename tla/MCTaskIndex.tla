----------------------------- MODULE MCTaskIndex -----------------------------
(* A directory, one inside it, and one somewhere else.                     *)
EXTENDS TaskIndex

CONSTANTS root, a, b, other, c

\* Only the first directory changes twice.
MCSpec == Init /\ [][Next /\ (writes' = 2 => version'[a] = 2)]_vars

ParentOf == [d \in Directories |-> CASE d = a -> root [] d = b -> a [] d = c -> other]

=============================================================================
