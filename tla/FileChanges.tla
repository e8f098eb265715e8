----------------------------- MODULE FileChanges -----------------------------
(***************************************************************************)
(* The files of a vault, and the changes that a file transaction collects: *)
(* replacing a file, removing it, or renaming it to a free path.  A path   *)
(* holds one of the Contents or is Missing; a transaction has Unseen the   *)
(* paths it does not observe.                                              *)
(***************************************************************************)
EXTENDS Naturals, Sequences

CONSTANTS
    Paths,     \* the files, numbered in the order of their paths
    Contents,  \* what a file can hold
    Missing,   \* no file is there
    Unseen     \* the transaction does not depend on the path

ASSUME PathsAssumption == Paths \subseteq Nat

ASSUME StatesAssumption ==
    /\ Missing \notin Contents
    /\ Unseen \notin Contents \cup {Missing}

FileStates == Contents \cup {Missing}

Directories == [Paths -> FileStates]

Observations == [Paths -> FileStates \cup {Unseen}]

NothingSeen == [path \in Paths |-> Unseen]

\* A change names the file it works on and where that goes: the same path,
\* unless it is renamed.  An expectation only observes.
Change(kind, path, to, contents) ==
    [kind |-> kind, path |-> path, to |-> to, contents |-> contents]

Changes ==
    {Change(kind, path, path, Missing) : kind \in {"expect", "remove"}, path \in Paths}
    \cup {Change("replace", path, path, new) : path \in Paths, new \in Contents}
    \cup {Change("rename", path, to, Missing) : path, to \in Paths}

Mutations == {change \in Changes : change.kind # "expect"}

Touched(change) == {change.path, change.to}

MutationPaths(changes) ==
    UNION {Touched(changes[i]) : i \in 1 .. Len(changes)}

\* What publishing one change makes of the files.
AppliedTo(files, change) ==
    CASE change.kind = "replace" ->
           [files EXCEPT ![change.path] = change.contents]
      [] change.kind = "remove" ->
           [files EXCEPT ![change.path] = Missing]
      [] change.kind = "rename" ->
           [files EXCEPT ![change.to] = files[change.path], ![change.path] = Missing]

\* The files once the first n of the changes are published, in their order.
Published(files, changes, n) ==
    LET applied[i \in 0 .. n] ==
          IF i = 0 THEN files ELSE AppliedTo(applied[i - 1], changes[i])
    IN  applied[n]

ObservationsHold(files, observed) ==
    \A path \in Paths : observed[path] \in {Unseen, files[path]}

=============================================================================
