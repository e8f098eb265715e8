--------------------------- MODULE FileTransaction ---------------------------
(***************************************************************************)
(* File transactions, step by step.  A store takes snapshots of files,     *)
(* adds expectations and changes based on them, and commits: replacements  *)
(* are written to temporary files, every observed path is read again and   *)
(* compared, in the order of the paths, and only then are the changes      *)
(* published, one rename or unlink at a time.  Notes, project snapshots    *)
(* and editors write with no lock, so anything can happen between steps.   *)
(***************************************************************************)
EXTENDS FileChanges, FiniteSets

CONSTANTS
    Transactions,
    Kinds,         \* which changes the stores make
    Exclusive,     \* whether commits have the files to themselves
    MaxSnapshots,  \* how many snapshots a transaction is built from
    MaxChanges,    \* how many changes a transaction has
    MaxWrites,     \* how often other programs write a file
    MaxCrashes     \* how often the server process dies

ASSUME BoundsAssumption ==
    /\ Kinds \subseteq {"expect", "replace", "remove", "rename"}
    /\ Exclusive \in BOOLEAN
    /\ MaxSnapshots \in Nat
    /\ MaxChanges \in Nat
    /\ MaxWrites \in Nat
    /\ MaxCrashes \in Nat

VARIABLES
    files,
    step,       \* how far each transaction is
    snapshots,  \* what its store has read so far
    observed,   \* FileTransaction.observations
    changes,    \* FileTransaction.changes
    checked,    \* the observed paths that were read again
    published,  \* how many of the changes are published
    writes,
    crashes,
    disturbed,  \* history: the paths others wrote after they were checked
    before      \* history: the files when the first change was published

transaction == <<step, snapshots, observed, changes, checked, published>>
history == <<disturbed, before>>
vars == <<files, transaction, writes, crashes, history>>

Running == {"building", "validating", "publishing"}
Ended == {"committed", "torn", "refused"}

TypeOK ==
    /\ files \in Directories
    /\ step \in [Transactions -> Running \cup Ended]
    /\ snapshots \in [Transactions -> SUBSET (Paths \X FileStates)]
    /\ observed \in [Transactions -> Observations]
    /\ changes \in [Transactions -> Seq(Mutations)]
    /\ checked \in [Transactions -> SUBSET Paths]
    /\ published \in [Transactions -> Nat]
    /\ \A t \in Transactions : published[t] <= Len(changes[t])
    /\ writes \in 0 .. MaxWrites
    /\ crashes \in 0 .. MaxCrashes
    /\ disturbed \in [Transactions -> SUBSET Paths]
    /\ before \in [Transactions -> Directories]

Init ==
    /\ files \in Directories
    /\ step = [t \in Transactions |-> "building"]
    /\ snapshots = [t \in Transactions |-> {}]
    /\ observed = [t \in Transactions |-> NothingSeen]
    /\ changes = [t \in Transactions |-> <<>>]
    /\ checked = [t \in Transactions |-> {}]
    /\ published = [t \in Transactions |-> 0]
    /\ writes = 0
    /\ crashes = 0
    /\ disturbed = [t \in Transactions |-> {}]
    /\ before = [t \in Transactions |-> files]

-----------------------------------------------------------------------------
At(t, s) == step[t] = s

Committing(t) == step[t] \in {"validating", "publishing"}

\* The transaction value is consumed, and the temporary files it still has are
\* deleted with it.
End(t, how) ==
    /\ step' = [step EXCEPT ![t] = how]
    /\ snapshots' = [snapshots EXCEPT ![t] = {}]
    /\ observed' = [observed EXCEPT ![t] = NothingSeen]
    /\ changes' = [changes EXCEPT ![t] = <<>>]
    /\ checked' = [checked EXCEPT ![t] = {}]
    /\ published' = [published EXCEPT ![t] = 0]

\* The store reads a file.
Snapshot(t, path) ==
    /\ At(t, "building")
    /\ Cardinality(snapshots[t]) < MaxSnapshots
    /\ snapshots' = [snapshots EXCEPT ![t] = @ \cup {<<path, files[path]>>}]
    /\ UNCHANGED <<files, step, observed, changes, checked, published,
                   writes, crashes, history>>

\* Two snapshots of one path must agree.
AgreesWith(seen, path, state) == seen[path] \in {Unseen, state}

\* Mutant: the second change of a path is accepted.
ConflictsNever(change, pending) == FALSE

\* A path takes part in one change at most.
Conflicts(change, pending) ==
    change.kind # "expect" /\ Touched(change) \cap MutationPaths(pending) # {}

\* What the signatures of expect, replace, remove and rename admit: a file to
\* remove or rename was read, and the destination of a rename was free.
Admits(change, from, to) ==
    /\ change.kind = "rename" => from # Missing /\ to = Missing
    /\ change.kind # "rename" => to = from
    /\ change.kind = "remove" => from # Missing

\* An expectation or a change is added, from snapshots taken before; a conflict
\* with what was added before gives the transaction up.
Add(t, change, from, to) ==
    /\ At(t, "building")
    /\ change.kind \in Kinds
    /\ Admits(change, from, to)
    /\ {<<change.path, from>>, <<change.to, to>>} \subseteq snapshots[t]
    /\ IF /\ AgreesWith(observed[t], change.path, from)
          /\ AgreesWith(observed[t], change.to, to)
          /\ change.path = change.to => from = to
          /\ ~Conflicts(change, changes[t])
       THEN /\ Len(changes[t]) < MaxChanges
            /\ observed' = [observed EXCEPT ![t][change.path] = from, ![t][change.to] = to]
            /\ changes' = IF change.kind = "expect" THEN changes
                          ELSE [changes EXCEPT ![t] = Append(@, change)]
            /\ UNCHANGED <<step, snapshots, checked, published>>
       ELSE End(t, "refused")
    /\ UNCHANGED <<files, writes, crashes, history>>

\* commit writes and synchronises the temporary files of all replacements.
Prepare(t) ==
    /\ At(t, "building")
    /\ Exclusive => \A other \in Transactions : ~Committing(other)
    /\ step' = [step EXCEPT ![t] = "validating"]
    /\ disturbed' = [disturbed EXCEPT ![t] = {}]
    /\ UNCHANGED <<files, snapshots, observed, changes, checked, published,
                   writes, crashes, before>>

\* Mutant: only the paths that change are read again.
UncheckedMutations(t) == MutationPaths(changes[t]) \ checked[t]

\* The observed paths that were not read again yet.
Unchecked(t) == {path \in Paths : observed[t][path] # Unseen} \ checked[t]

\* The first observed path that is left is read again; a difference ends the
\* transaction before anything is published.
Validate(t) ==
    /\ At(t, "validating")
    /\ \E path \in Unchecked(t) :
         /\ \A other \in Unchecked(t) : path <= other
         /\ IF files[path] = observed[t][path]
            THEN /\ checked' = [checked EXCEPT ![t] = @ \cup {path}]
                 /\ UNCHANGED <<step, snapshots, observed, changes, published>>
            ELSE End(t, "refused")
    /\ UNCHANGED <<files, writes, crashes, history>>

\* Every observation held, and the directories of the renames are there.
StartPublishing(t) ==
    /\ At(t, "validating")
    /\ Unchecked(t) = {}
    /\ step' = [step EXCEPT ![t] = "publishing"]
    /\ before' = [before EXCEPT ![t] = files]
    /\ UNCHANGED <<files, snapshots, observed, changes, checked, published,
                   writes, crashes, disturbed>>

\* Any of these steps fails: a read, a temporary file, a missing directory.
Refuse(t) ==
    /\ step[t] \in {"building", "validating"}
    /\ End(t, "refused")
    /\ UNCHANGED <<files, writes, crashes, history>>

\* The paths another program writes have been checked in vain.
Disturb(paths, others) ==
    disturbed' = [t \in Transactions |->
                    IF t \in others THEN disturbed[t] \cup (paths \cap checked[t])
                    ELSE disturbed[t]]

\* One change is published, whatever the file holds by now; removing or
\* renaming a file that is gone fails.
Publish(t) ==
    /\ At(t, "publishing")
    /\ published[t] < Len(changes[t])
    /\ LET change == changes[t][published[t] + 1]
       IN  /\ change.kind # "replace" => files[change.path] # Missing
           /\ files' = AppliedTo(files, change)
           /\ Disturb(Touched(change), Transactions \ {t})
    /\ published' = [published EXCEPT ![t] = @ + 1]
    /\ UNCHANGED <<step, snapshots, observed, changes, checked, writes, crashes, before>>

Committed(t) ==
    /\ At(t, "publishing")
    /\ published[t] = Len(changes[t])
    /\ End(t, "committed")
    /\ UNCHANGED <<files, writes, crashes, history>>

\* Mutant: a failing publication is reported as success.
PublishFailsSilently(t) ==
    /\ At(t, "publishing")
    /\ published[t] < Len(changes[t])
    /\ End(t, "committed")
    /\ UNCHANGED <<files, writes, crashes, history>>

\* A change cannot be published: those before it stay.
PublishFails(t) ==
    /\ At(t, "publishing")
    /\ published[t] < Len(changes[t])
    /\ End(t, "torn")
    /\ UNCHANGED <<files, writes, crashes, history>>

\* Another program saves, creates or deletes a file.
Write(path, state) ==
    /\ writes < MaxWrites
    /\ Exclusive => \A t \in Transactions : ~Committing(t)
    /\ state # files[path]
    /\ writes' = writes + 1
    /\ files' = [files EXCEPT ![path] = state]
    /\ Disturb({path}, Transactions)
    /\ UNCHANGED <<transaction, crashes, before>>

\* The process dies with all transactions.
Crash ==
    /\ crashes < MaxCrashes
    /\ crashes' = crashes + 1
    /\ step' = [t \in Transactions |->
                  CASE At(t, "publishing") -> "torn"
                    [] step[t] \in {"building", "validating"} -> "refused"
                    [] OTHER -> step[t]]
    /\ snapshots' = [t \in Transactions |-> {}]
    /\ observed' = [t \in Transactions |-> NothingSeen]
    /\ changes' = [t \in Transactions |-> <<>>]
    /\ checked' = [t \in Transactions |-> {}]
    /\ published' = [t \in Transactions |-> 0]
    /\ UNCHANGED <<files, writes, history>>

Step(t) ==
    \/ \E path \in Paths : Snapshot(t, path)
    \/ \E change \in Changes, from, to \in FileStates : Add(t, change, from, to)
    \/ Prepare(t)
    \/ Validate(t)
    \/ StartPublishing(t)
    \/ Refuse(t)
    \/ Publish(t)
    \/ Committed(t)
    \/ PublishFails(t)

Next ==
    \/ \E t \in Transactions : Step(t)
    \/ \E path \in Paths, state \in FileStates : Write(path, state)
    \/ Crash

Spec == Init /\ [][Next]_vars

-----------------------------------------------------------------------------
\* What is published goes over the content the transaction observed, unless
\* somebody wrote the file after the transaction checked it for the last time:
\* a save made at any earlier moment survives (FileTransaction::commit).
SavesSurvive ==
    [][\A t \in Transactions : published'[t] > published[t] =>
         \A path \in Touched(changes[t][published[t] + 1]) :
           files[path] = observed[t][path] \/ path \in disturbed[t]]_vars

\* The first change is not published before every observed path was read again
\* and found as it was observed; what changed since was disturbed by others
\* (conflict_in_any_observation_prevents_the_first_publication).
PublishedAfterValidation ==
    \A t \in Transactions : At(t, "publishing") =>
        \A path \in Paths :
            \/ observed[t][path] \in {Unseen, before[t][path]}
            \/ path \in disturbed[t]

\* A transaction reports success only when its changes are all there, and an
\* error other than a failing publication leaves the files alone: with the
\* files to themselves, commits are atomic.  Files a running commit published
\* count from its end.
Atomic == INSTANCE AtomicCommit WITH
    vault <- IF \E t \in Transactions : At(t, "publishing")
             THEN before[CHOOSE t \in Transactions : At(t, "publishing")]
             ELSE files,
    outcome <- [t \in Transactions |-> IF step[t] \in Running THEN "open" ELSE step[t]]

ImplementsAtomicCommit == Atomic!Spec

=============================================================================
