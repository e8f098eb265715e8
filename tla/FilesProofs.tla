---------------------------- MODULE FilesProofs ------------------------------
(***************************************************************************)
(* The files of the program.                                               *)
(*                                                                         *)
(* File transactions keep every save that was made before they last looked *)
(* at its file, for any number of transactions, files, changes and writes; *)
(* and with the files to themselves they are atomic: the detailed          *)
(* specification implements AtomicCommit.                                  *)
(*                                                                         *)
(* The server and its database stay whole, for any releases with any       *)
(* migrations and any number of servers, snapshots, commands and failures: *)
(* what the servers, their supervisor and the commands of the client leave *)
(* of an upgrade, and what exports and imports leave of a snapshot.        *)
(***************************************************************************)
EXTENDS FileTransaction, Installation, FiniteSetTheorems, SequenceTheorems,
        WellFoundedInduction, TLAPS

-----------------------------------------------------------------------------
(* File transactions. *)

ChangesAreApart(t) ==
    \A i, j \in 1 .. Len(changes[t]) :
        i # j => Touched(changes[t][i]) \cap Touched(changes[t][j]) = {}

ChangesAreObserved(t) ==
    \A i \in 1 .. Len(changes[t]) : \A path \in Touched(changes[t][i]) :
        observed[t][path] # Unseen

PublishedAlready(t, path) ==
    \E i \in 1 .. Len(changes[t]) : i <= published[t] /\ path \in Touched(changes[t][i])

ChecksHold(t) ==
    \A path \in checked[t] :
        \/ path \in disturbed[t]
        \/ PublishedAlready(t, path)
        \/ files[path] = observed[t][path]

Phases(t) ==
    /\ At(t, "building") => checked[t] = {}
    /\ ~At(t, "publishing") => published[t] = 0
    /\ At(t, "publishing") => Unchecked(t) = {}

\* What PublishedAfterValidation says of one transaction.
ValidatedBefore(t) ==
    At(t, "publishing") =>
        \A path \in Paths :
            \/ observed[t][path] \in {Unseen, before[t][path]}
            \/ path \in disturbed[t]

Inv ==
    /\ TypeOK
    /\ \A t \in Transactions :
         /\ ChangesAreApart(t)
         /\ ChangesAreObserved(t)
         /\ ChecksHold(t)
         /\ Phases(t)
         /\ ValidatedBefore(t)

\* Publishing a change writes the paths of that change and no other.
LEMMA AppliedLeavesOthers ==
    ASSUME NEW dir \in Directories, NEW change \in Mutations
    PROVE  /\ AppliedTo(dir, change) \in Directories
           /\ \A path \in Paths \ Touched(change) :
                AppliedTo(dir, change)[path] = dir[path]
<1>1. PICK path, to \in Paths, kind \in {"replace", "remove", "rename"},
           new \in Contents \cup {Missing} :
           /\ change = Change(kind, path, to, new)
           /\ kind # "rename" => to = path
  BY DEF Mutations, Changes, Change
<1>2. /\ change.kind = kind /\ change.path = path
      /\ change.to = to /\ change.contents = new
  BY <1>1 DEF Change
<1>3. CASE kind = "replace"
  BY <1>1, <1>2, <1>3 DEF AppliedTo, Directories, FileStates, Touched
<1>4. CASE kind = "remove"
  BY <1>1, <1>2, <1>4 DEF AppliedTo, Directories, FileStates, Touched
<1>5. CASE kind = "rename"
  BY <1>1, <1>2, <1>5 DEF AppliedTo, Directories, FileStates, Touched
<1>6. QED
  BY <1>1, <1>3, <1>4, <1>5

LEMMA ChangeTypes ==
    ASSUME NEW change \in Changes
    PROVE  /\ change.path \in Paths
           /\ change.to \in Paths
           /\ Touched(change) \subseteq Paths
BY DEF Changes, Change, Touched

LEMMA PendingTypes ==
    ASSUME TypeOK, NEW t \in Transactions, NEW i \in 1 .. Len(changes[t])
    PROVE  changes[t][i] \in Mutations /\ Touched(changes[t][i]) \subseteq Paths
<1>1. changes[t] \in Seq(Mutations)
  BY DEF TypeOK
<1>2. changes[t][i] \in Mutations
  BY <1>1
<1>3. QED
  BY <1>2, ChangeTypes DEF Mutations

\* Before a transaction publishes, its checks hold without exception.
LEMMA NothingPublishedYet ==
    ASSUME NEW t \in Transactions, TypeOK, Phases(t), ~At(t, "publishing")
    PROVE  \A path \in Paths : ~PublishedAlready(t, path)
BY DEF TypeOK, Phases, PublishedAlready

\* The initial states, and the steps that end transactions.
LEMMA InitInv ==
    ASSUME Init
    PROVE  Inv
<1>1. TypeOK
  BY BoundsAssumption, StatesAssumption
     DEF Init, TypeOK, Directories, Observations, NothingSeen, FileStates, Running
<1>2. \A t \in Transactions : Len(changes[t]) = 0 /\ checked[t] = {} /\ At(t, "building")
                              /\ published[t] = 0
  BY DEF Init, At
<1>3. QED
  BY <1>1, <1>2 DEF Inv, ChangesAreApart, ChangesAreObserved, ChecksHold, Phases, ValidatedBefore, At

\* What one transaction keeps when others end, publish or go on.
Untouched(t) ==
    /\ step'[t] = step[t]
    /\ observed'[t] = observed[t]
    /\ changes'[t] = changes[t]
    /\ checked'[t] = checked[t]
    /\ published'[t] = published[t]
    /\ before'[t] = before[t]

Sound(t) ==
    /\ ChangesAreApart(t)
    /\ ChangesAreObserved(t)
    /\ ChecksHold(t)
    /\ Phases(t)
    /\ ValidatedBefore(t)

\* A transaction that does not move keeps its part of the invariant when the
\* files that changed under it are recorded as disturbed.
LEMMA UntouchedKeepsParts ==
    ASSUME NEW t \in Transactions, Inv, Untouched(t),
           disturbed[t] \subseteq disturbed'[t],
           \A path \in checked[t] : files'[path] = files[path] \/ path \in disturbed'[t]
    PROVE  Sound(t)'
<1>1. ChangesAreApart(t)' /\ ChangesAreObserved(t)'
  BY DEF Inv, Untouched, ChangesAreApart, ChangesAreObserved
<1>2. Phases(t)'
  BY DEF Inv, Untouched, Phases, At, Unchecked
<1>3. ASSUME NEW path \in checked'[t]
      PROVE  \/ path \in disturbed'[t]
             \/ PublishedAlready(t, path)'
             \/ files'[path] = observed'[t][path]
  BY <1>3 DEF Inv, Untouched, ChecksHold, PublishedAlready
<1>4. ValidatedBefore(t)'
  BY DEF Inv, Untouched, ValidatedBefore, At
<1>5. QED
  BY <1>1, <1>2, <1>3, <1>4 DEF Sound, ChecksHold

\* A transaction that ended has nothing left to lose.
LEMMA EndedKeepsParts ==
    ASSUME NEW t \in Transactions, changes'[t] = <<>>, checked'[t] = {},
           published'[t] = 0, step'[t] \in Ended
    PROVE  Sound(t)'
BY DEF Sound, ChangesAreApart, ChangesAreObserved, ChecksHold, Phases, ValidatedBefore,
       At, Ended

\* Steps that end one transaction and leave the files alone.
LEMMA EndKeepsInv ==
    ASSUME Inv, NEW t \in Transactions, NEW how \in Ended, End(t, how),
           UNCHANGED <<files, history>>,
           writes' \in 0 .. MaxWrites, crashes' \in 0 .. MaxCrashes
    PROVE  Inv'
<1> USE DEF Inv, TypeOK, End, history
<1>1. TypeOK'
  BY StatesAssumption DEF Ended, Running, Observations, NothingSeen
<1>2. Sound(t)'
  BY EndedKeepsParts
<1>3. ASSUME NEW u \in Transactions, u # t
      PROVE  Sound(u)'
  BY <1>3, UntouchedKeepsParts DEF Untouched
<1>4. QED
  BY <1>1, <1>2, <1>3 DEF Sound

LEMMA SnapshotKeepsInv ==
    ASSUME Inv, NEW t \in Transactions, NEW path \in Paths, Snapshot(t, path)
    PROVE  Inv'
<1> USE DEF Inv, TypeOK, Snapshot, history
<1>1. TypeOK'
  BY DEF Directories
<1>2. ASSUME NEW u \in Transactions
      PROVE  Sound(u)'
  BY <1>2, UntouchedKeepsParts DEF Untouched
<1>3. QED
  BY <1>1, <1>2 DEF Sound

LEMMA AddKeepsInv ==
    ASSUME Inv, NEW t \in Transactions, NEW change \in Changes,
           NEW from \in FileStates, NEW to \in FileStates, Add(t, change, from, to)
    PROVE  Inv'
<1>1. CASE End(t, "refused")
  BY <1>1, EndKeepsInv DEF Add, Ended, Inv, TypeOK
<1>2. CASE ~End(t, "refused")
  <2>1. /\ At(t, "building")
        /\ AgreesWith(observed[t], change.path, from)
        /\ AgreesWith(observed[t], change.to, to)
        /\ change.path = change.to => from = to
        /\ ~Conflicts(change, changes[t])
        /\ observed' = [observed EXCEPT ![t][change.path] = from, ![t][change.to] = to]
        /\ changes' = IF change.kind = "expect" THEN changes
                      ELSE [changes EXCEPT ![t] = Append(@, change)]
        /\ UNCHANGED <<step, snapshots, checked, published, files, writes, crashes, history>>
    BY <1>2 DEF Add
  <2>2. change.path \in Paths /\ change.to \in Paths
    BY ChangeTypes
  <2>3. observed' \in [Transactions -> Observations]
    BY <2>1, <2>2 DEF Inv, TypeOK, Observations
  <2>4. changes' \in [Transactions -> Seq(Mutations)]
    BY <2>1 DEF Inv, TypeOK, Mutations
  <2>5. \A u \in Transactions : published'[u] <= Len(changes'[u])
    BY <2>1 DEF Inv, TypeOK
  <2>6. TypeOK'
    BY <2>1, <2>3, <2>4, <2>5 DEF Inv, TypeOK, history
  <2>7. ASSUME NEW u \in Transactions, u # t
        PROVE  Sound(u)'
    BY <2>1, <2>7, UntouchedKeepsParts DEF Untouched, Inv, TypeOK, history
  <2>8. Sound(t)'
    <3>1. checked'[t] = {} /\ published'[t] = 0 /\ step'[t] = "building"
      BY <2>1 DEF Inv, Phases, At
    <3>2. ChecksHold(t)' /\ Phases(t)' /\ ValidatedBefore(t)'
      BY <3>1 DEF ChecksHold, Phases, ValidatedBefore, At
    <3>3. \A path \in Paths :
             /\ observed[t][path] # Unseen => observed'[t][path] # Unseen
             /\ path \in Touched(change) => observed'[t][path] # Unseen
      BY <2>1, <2>2, StatesAssumption
         DEF Inv, TypeOK, Observations, FileStates, Touched, AgreesWith
    <3>4. CASE change.kind = "expect"
      <4>1. changes' = changes /\ TypeOK
        BY <2>1, <3>4 DEF Inv
      <4>2. ChangesAreApart(t)'
        BY <4>1 DEF Inv, ChangesAreApart
      <4>3. ChangesAreObserved(t)'
        BY <3>3, <4>1, PendingTypes DEF Inv, ChangesAreObserved
      <4>4. QED
        BY <3>2, <4>2, <4>3 DEF Sound
    <3>5. CASE change.kind # "expect"
      <4>1. /\ changes[t] \in Seq(Mutations)
            /\ changes'[t] = Append(changes[t], change)
        BY <2>1, <3>5 DEF Inv, TypeOK
      <4>2. /\ Len(changes'[t]) = Len(changes[t]) + 1
            /\ Len(changes[t]) \in Nat
            /\ \A i \in 1 .. Len(changes[t]) :
                 changes'[t][i] = changes[t][i] /\ changes[t][i] \in Mutations
            /\ changes'[t][Len(changes[t]) + 1] = change
        BY <4>1
      <4>3. \A i \in 1 .. Len(changes[t]) :
               Touched(changes[t][i]) \cap Touched(change) = {}
        BY <2>1, <3>5, <4>2 DEF Conflicts, MutationPaths
      <4>4. ChangesAreApart(t)'
        <5> DEFINE n == Len(changes[t])
        <5>1. \A i, j \in 1 .. n : i # j =>
                 Touched(changes'[t][i]) \cap Touched(changes'[t][j]) = {}
          BY <4>2 DEF Inv, ChangesAreApart
        <5>2. \A i \in 1 .. n :
                 Touched(changes'[t][i]) \cap Touched(changes'[t][n + 1]) = {}
          BY <4>2, <4>3
        <5>3. n \in Nat /\ \A i \in 1 .. Len(changes'[t]) : i \in 1 .. n \/ i = n + 1
          BY <4>2
        <5>4. \A i, j \in 1 .. Len(changes'[t]) : i # j =>
                 Touched(changes'[t][i]) \cap Touched(changes'[t][j]) = {}
          <6> HIDE DEF n
          <6>1. QED
            BY <5>1, <5>2, <5>3
        <5>5. QED
          BY <5>4 DEF ChangesAreApart
      <4>5. ChangesAreObserved(t)'
        <5>1. ASSUME NEW i \in 1 .. Len(changes'[t]), NEW path \in Touched(changes'[t][i])
              PROVE  observed'[t][path] # Unseen
          <6>1. CASE i = Len(changes[t]) + 1
            BY <3>3, <4>2, <5>1, <6>1, ChangeTypes
          <6>2. CASE i \in 1 .. Len(changes[t])
            BY <3>3, <4>2, <5>1, <6>2, ChangeTypes DEF Inv, ChangesAreObserved, Mutations
          <6>3. QED
            BY <4>2, <6>1, <6>2
        <5>2. QED
          BY <5>1 DEF ChangesAreObserved
      <4>6. QED
        BY <3>2, <4>4, <4>5 DEF Sound
    <3>6. QED
      BY <3>4, <3>5
  <2>9. QED
    BY <2>6, <2>7, <2>8 DEF Inv, Sound
<1>3. QED
  BY <1>1, <1>2

LEMMA PrepareKeepsInv ==
    ASSUME Inv, NEW t \in Transactions, Prepare(t)
    PROVE  Inv'
<1> USE DEF Inv, TypeOK, Prepare
<1>1. TypeOK'
  BY DEF Running
<1>2. Sound(t)'
  <2>1. ChangesAreApart(t)' /\ ChangesAreObserved(t)'
    BY DEF ChangesAreApart, ChangesAreObserved
  <2>2. checked'[t] = {} /\ published'[t] = 0 /\ step'[t] = "validating"
    BY DEF Phases, At
  <2>3. QED
    BY <2>1, <2>2 DEF Sound, ChecksHold, Phases, ValidatedBefore, At
<1>3. ASSUME NEW u \in Transactions, u # t
      PROVE  Sound(u)'
  BY <1>3, UntouchedKeepsParts DEF Untouched
<1>4. QED
  BY <1>1, <1>2, <1>3 DEF Sound

LEMMA ValidateKeepsInv ==
    ASSUME Inv, NEW t \in Transactions, Validate(t)
    PROVE  Inv'
<1>1. CASE End(t, "refused")
  BY <1>1, EndKeepsInv DEF Validate, Ended, Inv, TypeOK
<1>2. CASE ~End(t, "refused")
  <2>1. PICK path \in Unchecked(t) :
           /\ files[path] = observed[t][path]
           /\ checked' = [checked EXCEPT ![t] = @ \cup {path}]
    BY <1>2 DEF Validate
  <2>2. /\ At(t, "validating")
        /\ UNCHANGED <<step, snapshots, observed, changes, published, files, writes,
                       crashes, history>>
    BY <1>2 DEF Validate
  <2>3. TypeOK'
    BY <2>1, <2>2 DEF Inv, TypeOK, Unchecked, history
  <2>4. Sound(t)'
    <3>1. ChangesAreApart(t)' /\ ChangesAreObserved(t)'
      BY <2>2 DEF Inv, ChangesAreApart, ChangesAreObserved
    <3>2. checked'[t] = checked[t] \cup {path}
      BY <2>1 DEF Inv, TypeOK
    <3>3. ChecksHold(t)'
      BY <2>1, <2>2, <3>2 DEF Inv, ChecksHold, PublishedAlready, history
    <3>4. Phases(t)' /\ ValidatedBefore(t)'
      BY <2>2 DEF Inv, Phases, ValidatedBefore, At
    <3>5. QED
      BY <3>1, <3>3, <3>4 DEF Sound
  <2>5. ASSUME NEW u \in Transactions, u # t
        PROVE  Sound(u)'
    BY <2>1, <2>2, <2>5, UntouchedKeepsParts DEF Untouched, Inv, TypeOK, history
  <2>6. QED
    BY <2>3, <2>4, <2>5 DEF Inv, Sound
<1>3. QED
  BY <1>1, <1>2

LEMMA StartPublishingKeepsInv ==
    ASSUME Inv, NEW t \in Transactions, StartPublishing(t)
    PROVE  Inv'
<1> USE DEF Inv, TypeOK, StartPublishing
<1>1. TypeOK'
  BY DEF Running
<1>2. Sound(t)'
  <2>1. \A path \in Paths :
           observed[t][path] = Unseen \/ path \in disturbed[t] \/ files[path] = observed[t][path]
    <3>1. \A path \in Paths : ~PublishedAlready(t, path)
      BY NothingPublishedYet DEF At
    <3>2. \A path \in Paths : observed[t][path] # Unseen => path \in checked[t]
      BY DEF Unchecked
    <3>3. QED
      BY <3>1, <3>2 DEF ChecksHold
  <2>2. ValidatedBefore(t)' /\ Phases(t)'
    BY <2>1 DEF ValidatedBefore, Phases, Unchecked, At
  <2>3. ChangesAreApart(t)' /\ ChangesAreObserved(t)'
    BY DEF ChangesAreApart, ChangesAreObserved
  <2>4. ChecksHold(t)'
    BY DEF ChecksHold, PublishedAlready
  <2>5. QED
    BY <2>2, <2>3, <2>4 DEF Sound
<1>3. ASSUME NEW u \in Transactions, u # t
      PROVE  Sound(u)'
  BY <1>3, UntouchedKeepsParts DEF Untouched
<1>4. QED
  BY <1>1, <1>2, <1>3 DEF Sound

LEMMA PublishKeepsInv ==
    ASSUME Inv, NEW t \in Transactions, Publish(t)
    PROVE  Inv'
<1> DEFINE n == published[t]
           change == changes[t][n + 1]
<1>1. /\ change \in Mutations
      /\ n \in Nat
      /\ n + 1 \in 1 .. Len(changes[t])
      /\ files' = AppliedTo(files, change)
      /\ Disturb(Touched(change), Transactions \ {t})
      /\ published' = [published EXCEPT ![t] = @ + 1]
      /\ UNCHANGED <<step, snapshots, observed, changes, checked, writes, crashes, before>>
  BY DEF Publish, Inv, TypeOK
<1> HIDE DEF change
<1>2. /\ files' \in Directories
      /\ \A path \in Paths \ Touched(change) : files'[path] = files[path]
  BY <1>1, AppliedLeavesOthers DEF Inv, TypeOK
<1>3. disturbed' \in [Transactions -> SUBSET Paths]
  BY <1>1 DEF Disturb, Inv, TypeOK
<1>4. TypeOK'
  <2>1. /\ published' \in [Transactions -> Nat]
        /\ \A u \in Transactions : published'[u] <= Len(changes'[u])
    BY <1>1 DEF Inv, TypeOK
  <2>2. QED
    BY <1>1, <1>2, <1>3, <2>1 DEF Inv, TypeOK
<1>5. Sound(t)'
  <2>1. /\ disturbed'[t] = disturbed[t]
        /\ published'[t] = n + 1
        /\ observed' = observed /\ changes' = changes /\ checked' = checked
        /\ step' = step /\ before' = before
    BY <1>1 DEF Disturb, Inv, TypeOK
  <2>2. ASSUME NEW path \in checked'[t]
        PROVE  \/ path \in disturbed'[t]
               \/ PublishedAlready(t, path)'
               \/ files'[path] = observed'[t][path]
    <3>1. CASE path \in Touched(change)
      BY <1>1, <2>1, <3>1 DEF PublishedAlready, change
    <3>2. CASE path \notin Touched(change)
      BY <1>1, <1>2, <2>1, <2>2, <3>2 DEF Inv, TypeOK, ChecksHold, PublishedAlready
    <3>3. QED
      BY <3>1, <3>2
  <2>3. Phases(t)' /\ ValidatedBefore(t)'
    BY <2>1 DEF Publish, Inv, Phases, ValidatedBefore, At, Unchecked
  <2>4. ChangesAreApart(t)' /\ ChangesAreObserved(t)'
    BY <2>1 DEF Inv, ChangesAreApart, ChangesAreObserved
  <2>5. QED
    BY <2>2, <2>3, <2>4 DEF Sound, ChecksHold
<1>6. ASSUME NEW u \in Transactions, u # t
      PROVE  Sound(u)'
  <2>1. Untouched(u)
    BY <1>1, <1>6 DEF Untouched, Inv, TypeOK
  <2>2. disturbed'[u] = disturbed[u] \cup (Touched(change) \cap checked[u])
    BY <1>1, <1>6 DEF Disturb
  <2>3. \A path \in checked[u] : files'[path] = files[path] \/ path \in disturbed'[u]
    BY <1>2, <2>2 DEF Inv, TypeOK
  <2>4. QED
    BY <2>1, <2>2, <2>3, UntouchedKeepsParts
<1>7. QED
  BY <1>4, <1>5, <1>6 DEF Inv, Sound

LEMMA WriteKeepsInv ==
    ASSUME Inv, NEW path \in Paths, NEW state \in FileStates, Write(path, state)
    PROVE  Inv'
<1> USE DEF Inv, TypeOK, Write, transaction
<1>1. disturbed' \in [Transactions -> SUBSET Paths]
  BY DEF Disturb
<1>2. TypeOK'
  BY <1>1, BoundsAssumption DEF Directories
<1>3. ASSUME NEW u \in Transactions
      PROVE  Sound(u)'
  <2>1. disturbed'[u] = disturbed[u] \cup ({path} \cap checked[u])
    BY DEF Disturb
  <2>2. \A other \in checked[u] : files'[other] = files[other] \/ other \in disturbed'[u]
    BY <2>1 DEF Directories
  <2>3. QED
    BY <2>1, <2>2, UntouchedKeepsParts DEF Untouched
<1>4. QED
  BY <1>2, <1>3 DEF Sound

LEMMA CrashKeepsInv ==
    ASSUME Inv, Crash
    PROVE  Inv'
<1> USE DEF Inv, TypeOK, Crash, history
<1>1. ASSUME NEW t \in Transactions
      PROVE  step'[t] \in Ended
  BY DEF At, Running, Ended
<1>2. step' \in [Transactions -> Running \cup Ended]
  BY <1>1
<1>3. TypeOK'
  BY <1>2, BoundsAssumption DEF Observations, NothingSeen
<1>4. \A t \in Transactions : Sound(t)'
  BY <1>1, EndedKeepsParts
<1>5. QED
  BY <1>3, <1>4 DEF Sound

LEMMA NextKeepsInv ==
    ASSUME Inv, [Next]_vars
    PROVE  Inv'
<1>1. CASE UNCHANGED vars
  <2>1. TypeOK'
    BY <1>1 DEF vars, transaction, history, Inv, TypeOK
  <2>2. \A t \in Transactions : Sound(t)'
    BY <1>1, UntouchedKeepsParts DEF vars, transaction, history, Untouched, Inv, TypeOK
  <2>3. QED
    BY <2>1, <2>2 DEF Inv, Sound
<1>2. CASE \E t \in Transactions : Step(t)
  <2>1. PICK t \in Transactions : Step(t)
    BY <1>2
  <2>2. CASE Refuse(t) \/ Committed(t) \/ PublishFails(t)
    BY <2>2, EndKeepsInv DEF Refuse, Committed, PublishFails, Ended, Inv, TypeOK
  <2>3. QED
    BY <2>1, <2>2, SnapshotKeepsInv, AddKeepsInv, PrepareKeepsInv, ValidateKeepsInv,
       StartPublishingKeepsInv, PublishKeepsInv DEF Step
<1>3. CASE \E path \in Paths, state \in FileStates : Write(path, state)
  BY <1>3, WriteKeepsInv
<1>4. CASE Crash
  BY <1>4, CrashKeepsInv
<1>5. QED
  BY <1>1, <1>2, <1>3, <1>4 DEF Next

THEOREM Invariant == Spec => []Inv
BY InitInv, NextKeepsInv, PTL DEF Spec

\* No transaction publishes its first change before every file it observed was
\* found unchanged after the replacements had been prepared.
THEOREM TransactionsValidateFirst == Spec => []PublishedAfterValidation
<1>1. Inv => PublishedAfterValidation
  BY DEF Inv, ValidatedBefore, PublishedAfterValidation
<1>2. QED
  BY <1>1, Invariant, PTL

\* The count of published changes grows in Publish alone.
LEMMA OnlyPublishCounts ==
    ASSUME Inv, [Next]_vars, NEW t \in Transactions, published'[t] > published[t]
    PROVE  Publish(t)
<1> USE DEF Inv, TypeOK
<1>1. published'[t] # 0 /\ published'[t] # published[t]
  OBVIOUS
<1>2. Next
  BY <1>1 DEF vars, transaction
<1>3. ~Crash /\ ~\E path \in Paths, state \in FileStates : Write(path, state)
  BY <1>1 DEF Crash, Write, transaction
<1>4. PICK u \in Transactions : Step(u)
  BY <1>2, <1>3 DEF Next
<1>5. published' # published /\ \A how : ~End(u, how)
  BY <1>1 DEF End
<1>6. Publish(u)
  BY <1>4, <1>5 DEF Step, Snapshot, Add, Prepare, Validate, StartPublishing, Refuse,
     Committed, PublishFails
<1>7. u = t
  BY <1>1, <1>6 DEF Publish
<1>8. QED
  BY <1>6, <1>7

\* Whatever other transactions and programs do, a publication overwrites only
\* what its transaction read, or what was written after its last look at the file.
THEOREM TransactionsKeepSaves == Spec => SavesSurvive
<1>1. ASSUME Inv, [Next]_vars, NEW t \in Transactions, published'[t] > published[t],
             NEW path \in Touched(changes[t][published[t] + 1])
      PROVE  files[path] = observed[t][path] \/ path \in disturbed[t]
  <2> DEFINE n == published[t]
  <2>1. Publish(t)
    BY <1>1, OnlyPublishCounts
  <2>2. n \in Nat /\ n + 1 \in 1 .. Len(changes[t]) /\ changes[t][n + 1] \in Mutations
    BY <1>1, <2>1 DEF Publish, Inv, TypeOK
  <2>3. path \in Paths
    BY <1>1, <2>2, ChangeTypes DEF Mutations
  <2>4. path \in checked[t]
    BY <1>1, <2>1, <2>2, <2>3 DEF Publish, Inv, Phases, Unchecked, ChangesAreObserved
  <2>5. ~PublishedAlready(t, path)
    <3>1. ASSUME NEW i \in 1 .. Len(changes[t]), i <= n
          PROVE  path \notin Touched(changes[t][i])
      <4>1. i # n + 1
        BY <2>2, <3>1
      <4>2. Touched(changes[t][i]) \cap Touched(changes[t][n + 1]) = {}
        BY <1>1, <2>2, <3>1, <4>1 DEF Inv, ChangesAreApart
      <4>3. QED
        BY <1>1, <4>2
    <3>2. QED
      BY <3>1 DEF PublishedAlready
  <2>6. QED
    BY <1>1, <2>4, <2>5 DEF Inv, ChecksHold
<1>2. Inv /\ [Next]_vars =>
        [\A t \in Transactions : published'[t] > published[t] =>
           \A path \in Touched(changes[t][published[t] + 1]) :
             files[path] = observed[t][path] \/ path \in disturbed[t]]_vars
  BY <1>1
<1>3. QED
  BY <1>2, Invariant, PTL DEF Spec, SavesSurvive

-----------------------------------------------------------------------------
(* Publishing one change after the other.  Induction over the number of     *)
(* changes goes through a least counterexample.                             *)

Smaller == {pair \in Nat \X Nat : pair[1] < pair[2]}

LEMMA Least ==
    ASSUME NEW T \in SUBSET Nat, T # {}
    PROVE  \E n \in T : \A m \in T : ~(m < n)
<1>1. IsWellFoundedOn(Smaller, Nat)
  BY NatLessThanWellFounded DEF OpToRel, Smaller
<1>2. \E n \in T : \A m \in T : ~(<<m, n>> \in Smaller)
  BY <1>1, WFMin
<1>3. QED
  BY <1>2 DEF Smaller

LEMMA Counting ==
    ASSUME NEW S \in SUBSET Nat, 0 \in S, \A n \in S : n + 1 \in S
    PROVE  S = Nat
<1>1. SUFFICES ASSUME Nat \ S # {} PROVE FALSE
  OBVIOUS
<1>2. PICK n \in Nat \ S : \A m \in Nat \ S : ~(m < n)
  BY <1>1, Least
<1>3. n # 0 /\ n - 1 \in Nat /\ n - 1 \in S
  BY <1>2
<1>4. QED
  BY <1>2, <1>3

\* The files after each of the first n changes.
IsRun(run, dir, list, n) ==
    run = [i \in 0 .. n |-> IF i = 0 THEN dir ELSE AppliedTo(run[i - 1], list[i])]

LEMMA RunSteps ==
    ASSUME NEW run, NEW dir, NEW list, NEW n \in Nat, IsRun(run, dir, list, n)
    PROVE  /\ run[0] = dir
           /\ \A i \in 1 .. n : run[i] = AppliedTo(run[i - 1], list[i])
BY DEF IsRun

LEMMA RunsExist ==
    ASSUME NEW dir, NEW list, NEW n \in Nat
    PROVE  \E run : IsRun(run, dir, list, n)
<1> DEFINE S == {m \in Nat : \E run : IsRun(run, dir, list, m)}
<1>1. 0 \in S
  <2>1. IsRun([i \in 0 .. 0 |-> dir], dir, list, 0)
    BY DEF IsRun
  <2>2. QED
    BY <2>1
<1>2. ASSUME NEW m \in S
      PROVE  m + 1 \in S
  <2>1. PICK run : IsRun(run, dir, list, m)
    BY <1>2
  <2> DEFINE last == AppliedTo(run[m], list[m + 1])
             longer == [i \in 0 .. m + 1 |-> IF i = m + 1 THEN last ELSE run[i]]
  <2>2. run[0] = dir /\ \A i \in 1 .. m : run[i] = AppliedTo(run[i - 1], list[i])
    BY <1>2, <2>1, RunSteps
  <2>3. ASSUME NEW i \in 0 .. m + 1
        PROVE  longer[i] = IF i = 0 THEN dir ELSE AppliedTo(longer[i - 1], list[i])
    <3>1. CASE i = 0
      BY <1>2, <2>2, <3>1
    <3>2. CASE i \in 1 .. m
      <4>1. longer[i] = run[i] /\ longer[i - 1] = run[i - 1] /\ i # 0
        BY <1>2, <3>2
      <4>2. QED
        BY <2>2, <3>2, <4>1
    <3>3. CASE i = m + 1
      <4>1. longer[i] = last /\ longer[i - 1] = run[m] /\ i # 0
        BY <1>2, <3>3
      <4>2. QED
        BY <3>3, <4>1
    <3>4. QED
      BY <1>2, <3>1, <3>2, <3>3
  <2>4. IsRun(longer, dir, list, m + 1)
    BY <2>3 DEF IsRun
  <2>5. QED
    BY <1>2, <2>4
<1> HIDE DEF S
<1>3. S = Nat
  BY <1>1, <1>2, Counting DEF S
<1>4. QED
  BY <1>3 DEF S

LEMMA RunsAgree ==
    ASSUME NEW dir, NEW list, NEW n \in Nat, NEW k \in Nat,
           NEW one, IsRun(one, dir, list, n), NEW other, IsRun(other, dir, list, k),
           NEW m \in Nat, m <= n, m <= k
    PROVE  one[m] = other[m]
<1> DEFINE S == {i \in Nat : i <= n /\ i <= k => one[i] = other[i]}
<1>1. 0 \in S
  BY RunSteps
<1>2. ASSUME NEW i \in S
      PROVE  i + 1 \in S
  <2>1. ASSUME i + 1 <= n, i + 1 <= k
        PROVE  one[i + 1] = other[i + 1]
    <3>1. i + 1 \in 1 .. n /\ i + 1 \in 1 .. k /\ (i + 1) - 1 = i /\ i <= n /\ i <= k
      BY <1>2, <2>1
    <3>2. one[i + 1] = AppliedTo(one[i], list[i + 1])
          /\ other[i + 1] = AppliedTo(other[i], list[i + 1])
      BY <3>1, RunSteps
    <3>3. QED
      BY <1>2, <3>1, <3>2
  <2>2. QED
    BY <1>2, <2>1
<1> HIDE DEF S
<1>3. S = Nat
  BY <1>1, <1>2, Counting DEF S
<1>4. QED
  BY <1>3 DEF S

LEMMA PublishedIsRun ==
    ASSUME NEW dir, NEW list, NEW n \in Nat
    PROVE  \E run : IsRun(run, dir, list, n) /\ Published(dir, list, n) = run[n]
<1> DEFINE chosen == CHOOSE run : IsRun(run, dir, list, n)
<1>1. IsRun(chosen, dir, list, n)
  BY RunsExist
<1>2. Published(dir, list, n) = chosen[n]
  BY DEF Published, IsRun
<1>3. QED
  BY <1>1, <1>2

\* Nothing is published at first.
LEMMA PublishedNone ==
    ASSUME NEW dir, NEW list
    PROVE  Published(dir, list, 0) = dir
BY PublishedIsRun, RunSteps

\* The next change is applied to what is there.
LEMMA PublishedNext ==
    ASSUME NEW dir, NEW list, NEW n \in Nat
    PROVE  Published(dir, list, n + 1) = AppliedTo(Published(dir, list, n), list[n + 1])
<1>1. PICK run : IsRun(run, dir, list, n) /\ Published(dir, list, n) = run[n]
  BY PublishedIsRun
<1>2. PICK longer : IsRun(longer, dir, list, n + 1) /\ Published(dir, list, n + 1) = longer[n + 1]
  BY PublishedIsRun
<1>3. longer[n] = run[n]
  BY <1>1, <1>2, RunsAgree
<1>4. longer[n + 1] = AppliedTo(longer[n], list[n + 1])
  <2>1. n + 1 \in Nat /\ n + 1 \in 1 .. n + 1 /\ (n + 1) - 1 = n
    OBVIOUS
  <2>2. QED
    BY <1>2, <2>1, RunSteps
<1>5. QED
  BY <1>1, <1>2, <1>3, <1>4

-----------------------------------------------------------------------------
(* Commits one at a time. *)

\* One transaction commits at a time.
Alone == \A t, u \in Transactions : Committing(t) /\ Committing(u) => t = u

\* Nobody disturbs a commit, its changes are within the bound, and the files
\* are those from before with what it published so far.
AtomicParts(t) ==
    /\ Len(changes[t]) <= MaxChanges
    /\ Committing(t) => disturbed[t] = {}
    /\ At(t, "publishing") => files = Published(before[t], changes[t], published[t])

AtomicInv ==
    /\ Inv
    /\ Alone
    /\ \A t \in Transactions : AtomicParts(t)

\* A transaction whose step, changes and publications stay, while the files stay
\* or no one is committing.
LEMMA StillAtomic ==
    ASSUME AtomicInv, NEW t \in Transactions, Untouched(t), disturbed'[t] = disturbed[t],
           UNCHANGED files \/ ~Committing(t)
    PROVE  AtomicParts(t)'
BY DEF AtomicInv, AtomicParts, Untouched, Committing, At

LEMMA EndedIsAtomic ==
    ASSUME NEW t \in Transactions, changes'[t] = <<>>, step'[t] \in Ended
    PROVE  AtomicParts(t)'
BY BoundsAssumption DEF AtomicParts, Committing, At, Ended

\* No step lets a second transaction begin to commit.
LEMMA AloneStays ==
    ASSUME Alone, NEW t \in Transactions,
           \A u \in Transactions : Committing(u)' => Committing(u)
    PROVE  Alone'
BY DEF Alone

LEMMA EndIsAtomic ==
    ASSUME AtomicInv, Inv', NEW t \in Transactions, NEW how \in Ended, End(t, how),
           UNCHANGED <<files, history>>
    PROVE  AtomicInv'
<1>1. /\ step' = [step EXCEPT ![t] = how] /\ changes'[t] = <<>> /\ step'[t] = how
      /\ \A u \in Transactions : u # t => Untouched(u) /\ disturbed'[u] = disturbed[u]
  BY DEF AtomicInv, Inv, TypeOK, End, Untouched, history
<1>2. Alone'
  BY <1>1, AloneStays DEF AtomicInv, Committing, Ended, Untouched
<1>3. AtomicParts(t)'
  BY <1>1, EndedIsAtomic
<1>4. \A u \in Transactions : u # t => AtomicParts(u)'
  BY <1>1, StillAtomic
<1>5. QED
  BY <1>2, <1>3, <1>4 DEF AtomicInv

LEMMA AddIsAtomic ==
    ASSUME AtomicInv, Inv', NEW t \in Transactions, NEW change \in Changes,
           NEW from \in FileStates, NEW to \in FileStates, Add(t, change, from, to)
    PROVE  AtomicInv'
<1>1. CASE End(t, "refused")
  BY <1>1, EndIsAtomic DEF Add, Ended
<1>2. CASE ~End(t, "refused")
  <2>1. /\ At(t, "building") /\ Len(changes[t]) < MaxChanges
        /\ changes' = IF change.kind = "expect" THEN changes
                      ELSE [changes EXCEPT ![t] = Append(@, change)]
        /\ observed' = [observed EXCEPT ![t][change.path] = from, ![t][change.to] = to]
        /\ UNCHANGED <<step, checked, published, files, history>>
    BY <1>2 DEF Add
  <2>2. \A u \in Transactions : u # t => Untouched(u) /\ disturbed'[u] = disturbed[u]
    BY <2>1 DEF Untouched, AtomicInv, Inv, TypeOK, history
  <2>3. Alone'
    BY <2>1, AloneStays DEF AtomicInv, Committing
  <2>4. Len(changes'[t]) <= MaxChanges
    BY <2>1, BoundsAssumption DEF AtomicInv, Inv, TypeOK
  <2>5. AtomicParts(t)'
    BY <2>1, <2>4 DEF AtomicParts, Committing, At
  <2>6. \A u \in Transactions : u # t => AtomicParts(u)'
    BY <2>1, <2>2, StillAtomic
  <2>7. QED
    BY <2>3, <2>5, <2>6 DEF AtomicInv
<1>3. QED
  BY <1>1, <1>2

LEMMA PrepareIsAtomic ==
    ASSUME Exclusive, AtomicInv, Inv', NEW t \in Transactions, Prepare(t)
    PROVE  AtomicInv'
<1>1. /\ step'[t] = "validating" /\ disturbed'[t] = {} /\ changes'[t] = changes[t]
      /\ \A u \in Transactions : ~Committing(u)
      /\ \A u \in Transactions : u # t => Untouched(u) /\ disturbed'[u] = disturbed[u]
  BY DEF AtomicInv, Inv, TypeOK, Prepare, Untouched
<1>2. Alone'
  BY <1>1 DEF Alone, Committing, Untouched
<1>3. AtomicParts(t)'
  BY <1>1 DEF AtomicInv, AtomicParts, At
<1>4. \A u \in Transactions : u # t => AtomicParts(u)'
  BY <1>1, StillAtomic
<1>5. QED
  BY <1>2, <1>3, <1>4 DEF AtomicInv

LEMMA ValidateIsAtomic ==
    ASSUME AtomicInv, Inv', NEW t \in Transactions, Validate(t)
    PROVE  AtomicInv'
<1>1. CASE End(t, "refused")
  BY <1>1, EndIsAtomic DEF Validate, Ended
<1>2. CASE ~End(t, "refused")
  <2>1. UNCHANGED <<step, changes, published, files, disturbed, before>>
    BY <1>2 DEF Validate, history
  <2>2. QED
    BY <2>1 DEF AtomicInv, Alone, AtomicParts, Committing, At
<1>3. QED
  BY <1>1, <1>2

LEMMA StartPublishingIsAtomic ==
    ASSUME AtomicInv, Inv', NEW t \in Transactions, StartPublishing(t)
    PROVE  AtomicInv'
<1>1. /\ step'[t] = "publishing" /\ changes'[t] = changes[t] /\ before'[t] = files
      /\ published'[t] = 0 /\ Committing(t) /\ UNCHANGED <<files, disturbed>>
      /\ \A u \in Transactions : u # t => Untouched(u) /\ disturbed'[u] = disturbed[u]
  BY DEF AtomicInv, Inv, TypeOK, Phases, At, StartPublishing, Untouched, Committing
<1>2. Alone'
  BY <1>1, AloneStays DEF AtomicInv, Committing, Untouched
<1>3. AtomicParts(t)'
  BY <1>1, PublishedNone DEF AtomicInv, AtomicParts
<1>4. \A u \in Transactions : u # t => AtomicParts(u)'
  BY <1>1, StillAtomic
<1>5. QED
  BY <1>2, <1>3, <1>4 DEF AtomicInv

LEMMA PublishIsAtomic ==
    ASSUME AtomicInv, Inv', NEW t \in Transactions, Publish(t)
    PROVE  AtomicInv'
<1>1. /\ step' = step /\ changes' = changes /\ before' = before /\ UNCHANGED observed
      /\ published[t] \in Nat /\ published'[t] = published[t] + 1
      /\ files' = AppliedTo(files, changes[t][published[t] + 1])
      /\ At(t, "publishing") /\ disturbed'[t] = disturbed[t]
  BY DEF AtomicInv, Inv, TypeOK, Publish, Disturb
<1>2. Alone'
  BY <1>1 DEF AtomicInv, Alone, Committing
<1>3. AtomicParts(t)'
  <2>1. files' = Published(before[t], changes[t], published[t] + 1)
    BY <1>1, PublishedNext DEF AtomicInv, AtomicParts
  <2>2. QED
    BY <1>1, <2>1 DEF AtomicInv, AtomicParts, Committing, At
<1>4. ASSUME NEW u \in Transactions, u # t
      PROVE  AtomicParts(u)'
  <2>1. ~Committing(u)
    BY <1>1, <1>4 DEF AtomicInv, Alone, Committing, At
  <2>2. QED
    BY <1>1, <2>1 DEF AtomicInv, AtomicParts, Committing, At
<1>5. QED
  BY <1>2, <1>3, <1>4 DEF AtomicInv

LEMMA WriteIsAtomic ==
    ASSUME Exclusive, AtomicInv, Inv', NEW path \in Paths, NEW state \in FileStates,
           Write(path, state)
    PROVE  AtomicInv'
<1>1. UNCHANGED <<step, changes>> /\ \A u \in Transactions : ~Committing(u)
  BY DEF Write, transaction
<1>2. QED
  BY <1>1 DEF AtomicInv, Alone, AtomicParts, Committing, At

LEMMA CrashIsAtomic ==
    ASSUME AtomicInv, Inv', Crash
    PROVE  AtomicInv'
<1>1. ASSUME NEW t \in Transactions
      PROVE  step'[t] \in Ended /\ changes'[t] = <<>>
  BY DEF Crash, At, Running, Ended, AtomicInv, Inv, TypeOK
<1>2. Alone'
  BY <1>1 DEF Alone, Committing, Ended
<1>3. QED
  BY <1>1, <1>2, EndedIsAtomic DEF AtomicInv

LEMMA NextIsAtomic ==
    ASSUME Exclusive, AtomicInv, [Next]_vars
    PROVE  AtomicInv'
<1>1. Inv'
  BY NextKeepsInv DEF AtomicInv
<1>2. CASE UNCHANGED vars
  BY <1>1, <1>2 DEF vars, transaction, history, AtomicInv, Alone, AtomicParts, Committing, At
<1>3. CASE \E t \in Transactions : Step(t)
  <2>1. PICK t \in Transactions : Step(t)
    BY <1>3
  <2>2. CASE Refuse(t) \/ Committed(t) \/ PublishFails(t)
    BY <1>1, <2>2, EndIsAtomic DEF Refuse, Committed, PublishFails, Ended
  <2>3. CASE \E path \in Paths : Snapshot(t, path)
    BY <1>1, <2>3 DEF Snapshot, history, AtomicInv, Alone, AtomicParts, Committing, At
  <2>4. QED
    BY <1>1, <2>1, <2>2, <2>3, AddIsAtomic, PrepareIsAtomic, ValidateIsAtomic,
       StartPublishingIsAtomic, PublishIsAtomic DEF Step
<1>4. CASE \E path \in Paths, state \in FileStates : Write(path, state)
  BY <1>1, <1>4, WriteIsAtomic
<1>5. CASE Crash
  BY <1>1, <1>5, CrashIsAtomic
<1>6. QED
  BY <1>2, <1>3, <1>4, <1>5 DEF Next

LEMMA InitIsAtomic ==
    ASSUME Init
    PROVE  AtomicInv
<1>1. Inv
  BY InitInv
<1>2. \A t \in Transactions : step[t] = "building" /\ changes[t] = <<>>
  BY DEF Init
<1>3. QED
  BY <1>1, <1>2, BoundsAssumption DEF AtomicInv, Alone, AtomicParts, Committing, At

-----------------------------------------------------------------------------
(* The refinement mapping. *)

VaultOf(how, at, now) ==
    IF \E t \in Transactions : how[t] = "publishing"
    THEN at[CHOOSE t \in Transactions : how[t] = "publishing"]
    ELSE now

OutcomeOf(how) == [t \in Transactions |-> IF how[t] \in Running THEN "open" ELSE how[t]]

Vault == VaultOf(step, before, files)
Outcome == OutcomeOf(step)

LEMMA OnePublishes ==
    ASSUME NEW how, NEW at, NEW now, NEW t \in Transactions, how[t] = "publishing",
           \A u \in Transactions : how[u] = "publishing" => u = t
    PROVE  VaultOf(how, at, now) = at[t]
<1>1. (CHOOSE u \in Transactions : how[u] = "publishing") \in Transactions
      /\ how[CHOOSE u \in Transactions : how[u] = "publishing"] = "publishing"
  OBVIOUS
<1>2. (CHOOSE u \in Transactions : how[u] = "publishing") = t
  BY <1>1
<1>3. QED
  BY <1>2 DEF VaultOf

LEMMA NobodyPublishes ==
    ASSUME NEW how, NEW at, NEW now, \A u \in Transactions : how[u] # "publishing"
    PROVE  VaultOf(how, at, now) = now
BY DEF VaultOf

\* The abstract specification speaks of files and changes in the same words.
LEMMA SameWords ==
    /\ Atomic!FileStates = FileStates
    /\ Atomic!Directories = Directories
    /\ Atomic!NothingSeen = NothingSeen
    /\ Atomic!Changes = Changes
    /\ \A change : Atomic!Touched(change) = Touched(change)
    /\ \A list : Atomic!MutationPaths(list) = MutationPaths(list)
    /\ \A dir, seen : Atomic!ObservationsHold(dir, seen) = ObservationsHold(dir, seen)
    /\ \A dir, list, n : Atomic!Published(dir, list, n) = Published(dir, list, n)
BY DEF Atomic!FileStates, FileStates, Atomic!Directories, Directories, Atomic!NothingSeen,
   NothingSeen, Atomic!Changes, Changes, Atomic!Change, Change, Atomic!Touched, Touched,
   Atomic!MutationPaths, MutationPaths, Atomic!ObservationsHold, ObservationsHold,
   Atomic!Published, Published, Atomic!AppliedTo, AppliedTo

LEMMA MappedInit ==
    ASSUME Init
    PROVE  Atomic!Init
<1>1. Vault = files
  BY NobodyPublishes DEF Init, Vault
<1>2. Outcome = [t \in Transactions |-> "open"]
  BY DEF Init, Outcome, OutcomeOf, Running
<1>3. files \in Directories /\ observed = [t \in Transactions |-> NothingSeen]
      /\ changes = [t \in Transactions |-> <<>>]
  BY DEF Init
<1>4. QED
  BY <1>1, <1>2, <1>3, SameWords DEF Atomic!Init, Vault, VaultOf, Outcome, OutcomeOf, At

\* Steps that the abstract specification does not see.
LEMMA Stutters ==
    ASSUME UNCHANGED <<Vault, Outcome, observed, changes>>
    PROVE  UNCHANGED Atomic!vars
BY DEF Atomic!vars, Vault, VaultOf, Outcome, OutcomeOf, At

MappedEnd(t, how) ==
    /\ Outcome[t] = "open"
    /\ Outcome' = [Outcome EXCEPT ![t] = how]
    /\ observed' = [observed EXCEPT ![t] = NothingSeen]
    /\ changes' = [changes EXCEPT ![t] = <<>>]

LEMMA EndMaps ==
    ASSUME TypeOK, NEW t \in Transactions, NEW how \in Ended, step[t] \in Running, End(t, how)
    PROVE  MappedEnd(t, how)
<1>1. step' = [step EXCEPT ![t] = how]
  BY DEF End
<1>2. how \notin Running
  BY DEF Ended, Running
<1>3. ASSUME NEW u \in Transactions
      PROVE  Outcome'[u] = [Outcome EXCEPT ![t] = how][u]
  BY <1>1, <1>2 DEF TypeOK, Outcome, OutcomeOf
<1>4. Outcome' = [Outcome EXCEPT ![t] = how]
  BY <1>3 DEF Outcome, OutcomeOf
<1>5. Outcome[t] = "open"
  BY DEF Outcome, OutcomeOf
<1>6. QED
  BY <1>4, <1>5 DEF MappedEnd, End

LEMMA MapsToEnd ==
    ASSUME NEW t \in Transactions, NEW how, MappedEnd(t, how)
    PROVE  Atomic!End(t, how)
BY SameWords DEF Atomic!End, MappedEnd, Outcome, OutcomeOf

LEMMA MapsToRefuse ==
    ASSUME NEW t \in Transactions, MappedEnd(t, "refused"), UNCHANGED Vault
    PROVE  Atomic!Next
<1>1. Atomic!End(t, "refused")
  BY MapsToEnd
<1>2. Atomic!Refuse(t)
  BY <1>1 DEF Atomic!Refuse, Vault, VaultOf, At
<1>3. QED
  BY <1>2 DEF Atomic!Next

LEMMA MapsToCommit ==
    ASSUME NEW t \in Transactions, MappedEnd(t, "committed"),
           ObservationsHold(Vault, observed[t]),
           Vault' = Published(Vault, changes[t], Len(changes[t]))
    PROVE  Atomic!Next
<1>1. Atomic!End(t, "committed")
  BY MapsToEnd
<1>2. Atomic!Commit(t)
  BY <1>1, SameWords DEF Atomic!Commit, Vault, VaultOf, At
<1>3. QED
  BY <1>2 DEF Atomic!Next

LEMMA MapsToTear ==
    ASSUME NEW t \in Transactions, MappedEnd(t, "torn"),
           ObservationsHold(Vault, observed[t]),
           NEW n \in 0 .. Len(changes[t]), Vault' = Published(Vault, changes[t], n)
    PROVE  Atomic!Next
<1>1. Atomic!End(t, "torn")
  BY MapsToEnd
<1>2. Atomic!Tear(t)
  BY <1>1, SameWords DEF Atomic!Tear, Vault, VaultOf, At
<1>3. QED
  BY <1>2 DEF Atomic!Next

\* The files that count stay while the same transactions publish.
LEMMA SamePublisher ==
    ASSUME Alone, UNCHANGED <<files, before>>,
           \A u \in Transactions : step'[u] = "publishing" <=> step[u] = "publishing"
    PROVE  UNCHANGED Vault
<1>1. CASE \E u \in Transactions : step[u] = "publishing"
  <2>1. PICK u \in Transactions : step[u] = "publishing"
    BY <1>1
  <2>2. \A other \in Transactions : step[other] = "publishing" => other = u
    BY <2>1 DEF Alone, Committing
  <2>3. Vault = before[u]
    BY <2>1, <2>2, OnePublishes DEF Vault
  <2>4. Vault' = before'[u]
    BY <2>1, <2>2, OnePublishes DEF Vault
  <2>5. QED
    BY <2>3, <2>4
<1>2. CASE \A u \in Transactions : step[u] # "publishing"
  BY <1>2, NobodyPublishes DEF Vault
<1>3. QED
  BY <1>1, <1>2

\* While a transaction that is not publishing ends, the files that count stay.
LEMMA EndingKeepsVault ==
    ASSUME AtomicInv, NEW t \in Transactions, NEW how \in Ended, End(t, how),
           ~At(t, "publishing"), UNCHANGED <<files, before>>
    PROVE  UNCHANGED Vault
<1>1. step' = [step EXCEPT ![t] = how] /\ how # "publishing"
  BY DEF End, Ended
<1>2. \A u \in Transactions : step'[u] = "publishing" <=> step[u] = "publishing"
  BY <1>1 DEF AtomicInv, Inv, TypeOK, At
<1>3. QED
  BY <1>2, SamePublisher DEF AtomicInv

LEMMA RefusalMaps ==
    ASSUME AtomicInv, NEW t \in Transactions, step[t] \in {"building", "validating"},
           End(t, "refused"), UNCHANGED <<files, history>>
    PROVE  Atomic!Next
<1>1. ~At(t, "publishing") /\ step[t] \in Running /\ UNCHANGED before
  BY DEF At, Running, history
<1>2. MappedEnd(t, "refused")
  BY <1>1, EndMaps DEF AtomicInv, Inv, Ended
<1>3. UNCHANGED Vault
  BY <1>1, EndingKeepsVault DEF Ended
<1>4. QED
  BY <1>2, <1>3, MapsToRefuse

LEMMA AddMaps ==
    ASSUME AtomicInv, NEW t \in Transactions, NEW change \in Changes,
           NEW from \in FileStates, NEW to \in FileStates, Add(t, change, from, to)
    PROVE  Atomic!Next
<1>1. CASE End(t, "refused")
  BY <1>1, RefusalMaps DEF Add, At
<1>2. CASE ~End(t, "refused")
  <2>1. /\ At(t, "building") /\ Admits(change, from, to)
        /\ observed[t][change.path] \in {Unseen, from}
        /\ observed[t][change.to] \in {Unseen, to}
        /\ change.path = change.to => from = to
        /\ ~Conflicts(change, changes[t])
        /\ Len(changes[t]) < MaxChanges
        /\ observed' = [observed EXCEPT ![t][change.path] = from, ![t][change.to] = to]
        /\ changes' = IF change.kind = "expect" THEN changes
                      ELSE [changes EXCEPT ![t] = Append(@, change)]
        /\ UNCHANGED <<step, files, history>>
    BY <1>2 DEF Add, AgreesWith
  <2>2. Outcome[t] = "open" /\ UNCHANGED <<Vault, Outcome>>
    BY <2>1 DEF At, Running, Outcome, OutcomeOf, Vault, VaultOf, history
  <2>3. IF change.kind = "rename" THEN from # Missing /\ to = Missing ELSE from = to
    BY <2>1 DEF Admits
  <2>4. change.kind = "remove" => from # Missing
    BY <2>1 DEF Admits
  <2>5. IF change.kind = "expect"
        THEN UNCHANGED changes
        ELSE /\ Touched(change) \cap MutationPaths(changes[t]) = {}
             /\ Len(changes[t]) < MaxChanges
             /\ changes' = [changes EXCEPT ![t] = Append(@, change)]
    BY <2>1 DEF Conflicts
  <2>6. Atomic!Touched(change) = Touched(change)
        /\ Atomic!MutationPaths(changes[t]) = MutationPaths(changes[t])
        /\ change \in Atomic!Changes /\ from \in Atomic!FileStates /\ to \in Atomic!FileStates
    BY SameWords
  <2>7. Atomic!Collect(t, change, from, to)
    BY <2>1, <2>2, <2>3, <2>4, <2>5, <2>6
       DEF Atomic!Collect, Outcome, OutcomeOf, Vault, VaultOf, At
  <2>8. QED
    BY <2>6, <2>7 DEF Atomic!Next
<1>3. QED
  BY <1>1, <1>2

\* Preparing and validating change neither the files nor the outcome.
LEMMA WorkingMaps ==
    ASSUME AtomicInv, NEW t \in Transactions, step[t] \in {"building", "validating"},
           step' = [step EXCEPT ![t] = "validating"], UNCHANGED <<files, before, observed, changes>>
    PROVE  UNCHANGED Atomic!vars
<1>1. \A u \in Transactions : step'[u] = "publishing" <=> step[u] = "publishing"
  BY DEF AtomicInv, Inv, TypeOK
<1>2. \A u \in Transactions : Outcome'[u] = Outcome[u]
  BY DEF AtomicInv, Inv, TypeOK, Outcome, OutcomeOf, Running
<1>3. UNCHANGED Outcome
  BY <1>2 DEF Outcome, OutcomeOf
<1>4. UNCHANGED Vault
  BY <1>1, SamePublisher DEF AtomicInv
<1>5. QED
  BY <1>3, <1>4, Stutters

LEMMA StartPublishingMaps ==
    ASSUME AtomicInv, NEW t \in Transactions, StartPublishing(t)
    PROVE  UNCHANGED Atomic!vars
<1>1. /\ step[t] = "validating" /\ step' = [step EXCEPT ![t] = "publishing"]
      /\ before' = [before EXCEPT ![t] = files] /\ UNCHANGED <<files, observed, changes>>
  BY DEF StartPublishing, At
<1>2. \A u \in Transactions : step[u] # "publishing"
  BY <1>1 DEF AtomicInv, Alone, Committing
<1>3. step'[t] = "publishing" /\ \A u \in Transactions : step'[u] = "publishing" => u = t
  BY <1>1, <1>2 DEF AtomicInv, Inv, TypeOK
<1>4. Vault = files
  BY <1>2, NobodyPublishes DEF Vault
<1>5. Vault' = before'[t]
  BY <1>3, OnePublishes DEF Vault
<1>6. before'[t] = files
  BY <1>1 DEF AtomicInv, Inv, TypeOK
<1>7. \A u \in Transactions : Outcome'[u] = Outcome[u]
  BY <1>1 DEF AtomicInv, Inv, TypeOK, Outcome, OutcomeOf, Running
<1>8. UNCHANGED Outcome
  BY <1>7 DEF Outcome, OutcomeOf
<1>9. QED
  BY <1>1, <1>4, <1>5, <1>6, <1>8, Stutters

LEMMA PublishMaps ==
    ASSUME AtomicInv, NEW t \in Transactions, Publish(t)
    PROVE  UNCHANGED Atomic!vars
<1>1. step[t] = "publishing" /\ UNCHANGED <<step, before, observed, changes>>
  BY DEF Publish, At
<1>2. \A u \in Transactions : step[u] = "publishing" => u = t
  BY <1>1 DEF AtomicInv, Alone, Committing
<1>3. Vault = before[t] /\ Vault' = before'[t]
  BY <1>1, <1>2, OnePublishes DEF Vault
<1>4. UNCHANGED Outcome
  BY <1>1 DEF Outcome, OutcomeOf
<1>5. QED
  BY <1>1, <1>3, <1>4, Stutters

\* A publishing transaction ends: every observation held when it began.
LEMMA PublishingEnds ==
    ASSUME AtomicInv, NEW t \in Transactions, NEW how \in Ended, At(t, "publishing"),
           End(t, how), UNCHANGED files
    PROVE  /\ MappedEnd(t, how)
           /\ ObservationsHold(Vault, observed[t])
           /\ published[t] \in 0 .. Len(changes[t])
           /\ Vault' = Published(Vault, changes[t], published[t])
<1>1. step[t] = "publishing" /\ step[t] \in Running
  BY DEF At, Running
<1>2. \A u \in Transactions : step[u] = "publishing" => u = t
  BY <1>1 DEF AtomicInv, Alone, Committing
<1>3. Vault = before[t]
  BY <1>1, <1>2, OnePublishes DEF Vault
<1>4. \A u \in Transactions : step'[u] # "publishing"
  BY <1>2 DEF End, Ended, AtomicInv, Inv, TypeOK
<1>5. Vault' = files
  BY <1>4, NobodyPublishes DEF Vault
<1>6. disturbed[t] = {}
  BY <1>1 DEF AtomicInv, AtomicParts, Committing
<1>7. \A path \in Paths : observed[t][path] \in {Unseen, before[t][path]}
  BY <1>6 DEF AtomicInv, Inv, ValidatedBefore
<1>8. published[t] \in 0 .. Len(changes[t])
  BY DEF AtomicInv, Inv, TypeOK
<1>9. MappedEnd(t, how)
  BY <1>1, EndMaps DEF AtomicInv, Inv
<1>10. files = Published(before[t], changes[t], published[t])
  BY DEF AtomicInv, AtomicParts
<1>11. QED
  BY <1>3, <1>5, <1>7, <1>8, <1>9, <1>10 DEF ObservationsHold

LEMMA WriteMaps ==
    ASSUME Exclusive, AtomicInv, NEW path \in Paths, NEW state \in FileStates,
           Write(path, state)
    PROVE  Atomic!Next
<1>1. /\ UNCHANGED <<step, observed, changes, before>>
      /\ files' = [files EXCEPT ![path] = state]
      /\ \A u \in Transactions : step[u] # "publishing"
  BY DEF Write, transaction, Committing
<1>2. Vault = files /\ Vault' = files'
  BY <1>1, NobodyPublishes DEF Vault
<1>3. UNCHANGED Outcome
  BY <1>1 DEF Outcome, OutcomeOf
<1>4. Vault' = [Vault EXCEPT ![path] = state]
  BY <1>1, <1>2
<1>5. Atomic!Write(path, state)
  BY <1>1, <1>3, <1>4 DEF Atomic!Write, Vault, VaultOf, Outcome, OutcomeOf, At
<1>6. state \in Atomic!FileStates
  BY SameWords
<1>7. QED
  BY <1>5, <1>6 DEF Atomic!Next

\* The process dies: at most one transaction was publishing, and leaves what it
\* had published.
LEMMA CrashMaps ==
    ASSUME AtomicInv, Crash
    PROVE  Atomic!Next
<1> DEFINE open == {t \in Transactions : Outcome[t] = "open"}
           EndAll(torn) == [t \in Transactions |->
                              IF t \in torn THEN "torn"
                              ELSE IF t \in open THEN "refused" ELSE Outcome[t]]
<1>1. /\ UNCHANGED files
      /\ observed' = [t \in Transactions |-> NothingSeen]
      /\ changes' = [t \in Transactions |-> <<>>]
  BY DEF Crash
<1>2. ASSUME NEW t \in Transactions
      PROVE  /\ step[t] = "publishing" => step'[t] = "torn"
             /\ step[t] \in {"building", "validating"} => step'[t] = "refused"
             /\ step[t] \in Ended => step'[t] = step[t]
             /\ step'[t] \in Ended
  BY DEF Crash, At, Running, Ended, AtomicInv, Inv, TypeOK
<1>3. \A t \in Transactions : t \in open <=> step[t] \in Running
  BY DEF AtomicInv, Inv, TypeOK, Outcome, OutcomeOf, Running, Ended
<1>4. \A t \in Transactions : Outcome'[t] = step'[t]
  BY <1>2 DEF Outcome, OutcomeOf, Running, Ended
<1>5. \A t \in Transactions : step[t] \in Ended => Outcome[t] = step[t]
  BY DEF Outcome, OutcomeOf, Running, Ended
<1>6. Vault' = files
  <2>1. \A t \in Transactions : step'[t] # "publishing"
    BY <1>2 DEF Ended
  <2>2. Vault' = files'
    BY <2>1, NobodyPublishes DEF Vault
  <2>3. QED
    BY <1>1, <2>2
<1>7. ASSUME NEW torn, \A t \in Transactions : t \in torn <=> step[t] = "publishing"
      PROVE  Outcome' = EndAll(torn)
  <2>1. ASSUME NEW t \in Transactions
        PROVE  Outcome'[t] = EndAll(torn)[t]
    <3> HIDE DEF open
    <3>1. step[t] \in Running \cup Ended
      BY DEF AtomicInv, Inv, TypeOK
    <3>2. CASE step[t] = "publishing"
      BY <1>2, <1>4, <1>7, <3>2
    <3>3. CASE step[t] \in {"building", "validating"}
      BY <1>2, <1>3, <1>4, <1>7, <3>3 DEF Running
    <3>4. CASE step[t] \in Ended
      BY <1>2, <1>3, <1>4, <1>5, <1>7, <3>4 DEF Running, Ended
    <3>5. QED
      BY <3>1, <3>2, <3>3, <3>4 DEF Running
  <2>2. QED
    BY <2>1 DEF Outcome, OutcomeOf
<1>8. CASE \A t \in Transactions : step[t] # "publishing"
  <2>1. Outcome' = EndAll({})
    <3>1. \A t \in Transactions : t \in {} <=> step[t] = "publishing"
      BY <1>8
    <3> HIDE DEF EndAll
    <3>2. QED
      BY <1>7, <3>1
  <2>2. UNCHANGED Vault
    BY <1>6, <1>8, NobodyPublishes DEF Vault
  <2>3. Atomic!Crash
    BY <1>1, <2>1, <2>2, SameWords DEF Atomic!Crash, Outcome, OutcomeOf, Vault, VaultOf, At
  <2>4. QED
    BY <2>3 DEF Atomic!Next
<1>9. CASE \E t \in Transactions : step[t] = "publishing"
  <2>1. PICK t \in Transactions : step[t] = "publishing"
    BY <1>9
  <2>2. \A u \in Transactions : step[u] = "publishing" => u = t
    BY <2>1 DEF AtomicInv, Alone, Committing
  <2>3. Outcome' = EndAll({t})
    BY <1>7, <2>1, <2>2
  <2>4. Vault = before[t]
    BY <2>1, <2>2, OnePublishes DEF Vault
  <2>5. disturbed[t] = {}
    BY <2>1 DEF AtomicInv, AtomicParts, Committing
  <2>6. ObservationsHold(Vault, observed[t])
    BY <2>1, <2>4, <2>5 DEF AtomicInv, Inv, ValidatedBefore, At, ObservationsHold
  <2>7. files = Published(Vault, changes[t], published[t])
    BY <2>1, <2>4 DEF AtomicInv, AtomicParts, At
  <2>8. published[t] <= Len(changes[t]) /\ published[t] \in 0 .. MaxChanges /\ t \in open
    BY <1>3, <2>1, BoundsAssumption DEF AtomicInv, AtomicParts, Inv, TypeOK, Running
  <2> DEFINE n == published[t]
  <2>9. /\ Atomic!ObservationsHold(Vault, observed[t])
        /\ Vault' = Atomic!Published(Vault, changes[t], n)
    BY <1>6, <2>6, <2>7, SameWords
  <2> HIDE DEF n
  <2>10. Atomic!Crash
    BY <1>1, <2>3, <2>8, <2>9, SameWords
       DEF Atomic!Crash, Outcome, OutcomeOf, Vault, VaultOf, At, n
  <2>11. QED
    BY <2>10 DEF Atomic!Next
<1>10. QED
  BY <1>8, <1>9

\* When commits have the files to themselves, a transaction takes effect at one
\* instant at which all that it observed still held, and success means that all
\* of its changes are there (FileTransaction::commit).
THEOREM CommitsAreAtomic ==
    ASSUME Exclusive
    PROVE  Spec => ImplementsAtomicCommit
<1>1. Init => Atomic!Init
  BY MappedInit
<1>2. Init => AtomicInv
  BY InitIsAtomic
<1>3. AtomicInv /\ [Next]_vars => AtomicInv'
  BY NextIsAtomic
<1>4. ASSUME AtomicInv, [Next]_vars
      PROVE  [Atomic!Next]_(Atomic!vars)
  <2>1. CASE UNCHANGED vars
    <3>1. UNCHANGED <<Vault, Outcome, observed, changes>>
      BY <2>1 DEF vars, transaction, history, Vault, VaultOf, Outcome, OutcomeOf
    <3>2. QED
      BY <3>1, Stutters
  <2>2. CASE \E t \in Transactions : Step(t)
    <3>1. PICK t \in Transactions : Step(t)
      BY <2>2
    <3>2. CASE \E path \in Paths : Snapshot(t, path)
      <4>1. UNCHANGED <<Vault, Outcome, observed, changes>>
        BY <3>2 DEF Snapshot, history, Vault, VaultOf, Outcome, OutcomeOf
      <4>2. QED
        BY <4>1, Stutters
    <3>3. CASE \E change \in Changes, from, to \in FileStates : Add(t, change, from, to)
      BY <1>4, <3>3, AddMaps
    <3>4. CASE Prepare(t)
      BY <1>4, <3>4, WorkingMaps DEF Prepare, At
    <3>5. CASE Validate(t)
      <4>1. CASE End(t, "refused")
        BY <1>4, <3>5, <4>1, RefusalMaps DEF Validate, At
      <4>2. CASE ~End(t, "refused")
        <5>1. UNCHANGED <<Vault, Outcome, observed, changes>>
          BY <3>5, <4>2 DEF Validate, history, Vault, VaultOf, Outcome, OutcomeOf
        <5>2. QED
          BY <5>1, Stutters
      <4>3. QED
        BY <4>1, <4>2
    <3>6. CASE StartPublishing(t)
      BY <1>4, <3>6, StartPublishingMaps
    <3>7. CASE Refuse(t)
      BY <1>4, <3>7, RefusalMaps DEF Refuse
    <3>8. CASE Publish(t)
      BY <1>4, <3>8, PublishMaps
    <3>9. CASE Committed(t)
      BY <1>4, <3>9, PublishingEnds, MapsToCommit DEF Committed, Ended
    <3>10. CASE PublishFails(t)
      BY <1>4, <3>10, PublishingEnds, MapsToTear DEF PublishFails, Ended
    <3>11. QED
      BY <3>1, <3>2, <3>3, <3>4, <3>5, <3>6, <3>7, <3>8, <3>9, <3>10 DEF Step
  <2>3. CASE \E path \in Paths, state \in FileStates : Write(path, state)
    BY <1>4, <2>3, WriteMaps
  <2>4. CASE Crash
    BY <1>4, <2>4, CrashMaps
  <2>5. QED
    BY <1>4, <2>1, <2>2, <2>3, <2>4 DEF Next
<1>5. QED
  BY <1>1, <1>2, <1>3, <1>4, PTL DEF Spec, ImplementsAtomicCommit, Atomic!Spec

-----------------------------------------------------------------------------
(* Upgrades. *)

\* What belongs to the servers in the type invariant.
ServersTyped ==
    /\ ledger \in Seq(Migrations) /\ pending \in Seq(Migrations)
    /\ writer \in Processes \cup {NoRelease}
    /\ startup \in [Processes -> ServerPhases]
    /\ release \in [Processes -> Releases \cup {NoRelease}]
    /\ installed \in Releases \cup {NoRelease}
    /\ \A p \in Processes : (writer = p) <=> startup[p] \in Migrating
    /\ ~apart => ~(Bound(Unit) /\ Bound(Foreground))

\* A server that runs, or that its supervisor will start again, has a release,
\* and the registered one has the release that is registered.
ServersNamed ==
    /\ \A p \in Processes : startup[p] # "off" => release[p] \in Releases
    /\ startup[Unit] # "off" => release[Unit] = installed

\* The transaction holds a beginning of the migrations of its release, and all
\* of them when it commits.
UpgradeBegun(p) ==
    /\ startup[p] \in {"applying", "committing"} =>
         Seqs!IsPrefix(pending, Catalog[release[p]])
    /\ startup[p] = "committing" => pending = Catalog[release[p]]

ServersInv ==
    /\ ServersTyped
    /\ ServersNamed
    /\ \A p \in Processes : UpgradeBegun(p)
    /\ UpgradesAreWhole
    /\ ServesItsRelease

Commands ==
    [kind: {"none", "install", "restart", "start"}, release: Releases \cup {NoRelease},
     step: CommandSteps, served: BOOLEAN]

\* A command under way is for a release.  One that starts the server without
\* registering it found a registration, and a release is registered while the
\* server is off.
CommandNames ==
    /\ command.step # "failed" => command.release \in Releases
    /\ command.step = "starting" => installed \in Releases
    /\ command.step = "stopping" /\ command.kind # "install" => installed \in Releases
    /\ command.step = "installing" => startup[Unit] = "off"

\* A command about to stop a server that served knows that its release can
\* follow the registered one.
SuccessorKnown ==
    ~apart =>
        /\ ~doomed
        /\ command.step = "stopping" /\ command.served =>
             Compatible(command.release, Catalog[installed])

CommandInv ==
    /\ command \in Commands
    /\ commands \in 0 .. MaxServerCommands
    /\ failures \in 0 .. MaxServerFailures
    /\ CommandNames
    /\ SuccessorKnown

UpgradeInv == ServersInv /\ CommandInv

\* The migrations of a release are a sequence, and a beginning of them that is
\* not all of them can be continued by the next one.
LEMMA NextMigration ==
    ASSUME NEW all \in Seq(Migrations), NEW done \in Seq(Migrations),
           Seqs!IsPrefix(done, all), done # all
    PROVE  LET next == SubSeq(all, 1, Len(done) + 1)
           IN  next \in Seq(Migrations) /\ Seqs!IsPrefix(next, all)
<1> DEFINE next == SubSeq(all, 1, Len(done) + 1)
<1>1. Len(done) \in Nat /\ Len(all) \in Nat /\ Len(done) <= Len(all)
  BY DEF Seqs!IsPrefix
<1>2. \A i \in 1 .. Len(done) : done[i] = all[i]
  <2>1. SubSeq(done, 1, Len(done)) = SubSeq(all, 1, Len(done))
    BY DEF Seqs!IsPrefix
  <2>2. \A i \in 1 .. Len(done) : SubSeq(done, 1, Len(done))[i] = done[i]
    BY <1>1
  <2>3. \A i \in 1 .. Len(done) : SubSeq(all, 1, Len(done))[i] = all[i]
    BY <1>1
  <2>4. QED
    BY <2>1, <2>2, <2>3
<1>3. Len(done) # Len(all)
  <2>1. SUFFICES ASSUME Len(done) = Len(all) PROVE FALSE
    OBVIOUS
  <2>2. done = all
    BY <1>2, <2>1, SeqEqual
  <2>3. QED
    BY <2>2
<1>4. Len(done) + 1 \in 1 .. Len(all)
  BY <1>1, <1>3
<1>5. next \in Seq(Migrations) /\ Len(next) = Len(done) + 1
  BY <1>1, <1>4
<1>6. \A i \in 1 .. Len(next) : next[i] = all[i]
  BY <1>1, <1>4, <1>5
<1>7. SubSeq(next, 1, Len(next)) = SubSeq(all, 1, Len(next))
  <2>1. SubSeq(next, 1, Len(next)) = next
    BY <1>5
  <2>2. QED
    BY <2>1, <1>5
<1>8. QED
  BY <1>1, <1>3, <1>5, <1>7 DEF Seqs!IsPrefix

\* What the assumption says of one release.
LEMMA CatalogTyped ==
    /\ \A r \in Releases : Catalog[r] \in Seq(Migrations)
    /\ NoRelease \notin Releases /\ NoRelease # Unit /\ NoRelease # Foreground
    /\ Unit # Foreground
BY CatalogAssumption DEF Processes

-----------------------------------------------------------------------------
(* A server that goes on or ends. *)

\* The parts that a server changes as it goes from one step to the next.
LEMMA ReachesKeepsServers ==
    ASSUME ServersInv, NEW p \in Processes, NEW to \in ServerPhases, Reaches(p, to),
           startup[p] # "off" \/ (to = "off" /\ startup[p] # "serving"),
           startup[p] \notin Migrating, to \notin Migrating \cup {"serving"},
           to \in NotRunning \cup {"binding"} \/ Bound(p),
           UNCHANGED <<ledger, pending, writer, release, installed, apart>>
    PROVE  ServersInv'
<1> USE DEF ServersInv, Reaches
<1>1. /\ startup' \in [Processes -> ServerPhases] /\ startup'[p] = to
      /\ \A q \in Processes : q # p => startup'[q] = startup[q]
  BY DEF ServersTyped
<1>2. ServersTyped'
  <2>1. \A q \in Processes : (writer' = q) <=> startup'[q] \in Migrating
    BY <1>1 DEF ServersTyped
  <2>2. (~apart => ~(Bound(Unit) /\ Bound(Foreground)))'
    BY <1>1 DEF ServersTyped, Bound, Processes
  <2>3. QED
    BY <1>1, <2>1, <2>2 DEF ServersTyped
<1>3. ServersNamed'
  BY <1>1 DEF ServersNamed, Processes
<1>4. \A q \in Processes : UpgradeBegun(q)'
  BY <1>1 DEF UpgradeBegun, Migrating
<1>5. UpgradesAreWhole' /\ ServesItsRelease'
  BY <1>1 DEF UpgradesAreWhole, ServesItsRelease, Ledgers, Releases
<1>6. QED
  BY <1>2, <1>3, <1>4, <1>5

\* The end of a server takes its transaction along.
LEMMA ExitsKeepsServers ==
    ASSUME ServersInv, NEW p \in Processes, NEW how \in NotRunning, Exits(p, how),
           startup[p] # "off" \/ how = "off",
           UNCHANGED <<ledger, release, installed, apart>>
    PROVE  ServersInv'
<1> USE DEF ServersInv, Exits, Reaches
<1> DEFINE to == IF p = Foreground THEN "off" ELSE how
<1>0. to \in NotRunning
  BY DEF NotRunning
<1>1. /\ startup' \in [Processes -> ServerPhases] /\ startup'[p] = to
      /\ \A q \in Processes : q # p => startup'[q] = startup[q]
  BY <1>0 DEF ServersTyped, ServerPhases
<1>2. pending' \in Seq(Migrations) /\ writer' \in Processes \cup {NoRelease}
  BY DEF ServersTyped
<1>a. to \notin Migrating /\ to # "serving" /\ to \notin {"applying", "committing"}
  BY <1>0 DEF NotRunning, Migrating
<1>3. ServersTyped'
  <2>1. \A q \in Processes : (writer' = q) <=> startup'[q] \in Migrating
    BY <1>1, <1>a, CatalogTyped DEF ServersTyped, Processes
  <2>2. ~Bound(p)'
    BY <1>0, <1>1 DEF Bound
  <2>3. \A q \in Processes : Bound(q)' => Bound(q)
    BY <1>1, <2>2 DEF Bound
  <2>4. QED
    BY <1>1, <1>2, <2>1, <2>3 DEF ServersTyped, Processes
<1>4. ServersNamed'
  BY <1>1 DEF ServersNamed, Processes
<1>5. ASSUME NEW q \in Processes PROVE UpgradeBegun(q)'
  <2>1. CASE q = p
    BY <1>1, <1>a, <2>1 DEF UpgradeBegun
  <2>2. CASE q # p /\ startup[q] \in {"applying", "committing"}
    <3>1. writer = q
      BY <2>2 DEF ServersTyped, Migrating
    <3>2. pending' = pending
      BY <2>2, <3>1
    <3>3. QED
      BY <1>1, <2>2, <3>2 DEF UpgradeBegun
  <2>3. CASE q # p /\ startup[q] \notin {"applying", "committing"}
    BY <1>1, <2>3 DEF UpgradeBegun
  <2>4. QED
    BY <2>1, <2>2, <2>3
<1>6. UpgradesAreWhole' /\ ServesItsRelease'
  BY <1>1, <1>a DEF UpgradesAreWhole, ServesItsRelease, Ledgers, Releases
<1>7. QED
  BY <1>3, <1>4, <1>5, <1>6

\* Beginning, validating, applying and verifying.
LEMMA TransactionKeepsServers ==
    ASSUME ServersInv, NEW p \in Processes,
           BeginUpgrade(p) \/ ValidateUpgrade(p) \/ Apply(p) \/ VerifyUpgrade(p)
    PROVE  ServersInv'
<1> USE DEF around, Migrating
<1>1. startup[p] # "off" /\ "restarting" \in NotRunning
      /\ UNCHANGED <<ledger, release, installed, apart>>
  BY DEF BeginUpgrade, ValidateUpgrade, Apply, VerifyUpgrade, NotRunning
<1>2. CASE Exits(p, "restarting")
  BY <1>1, <1>2, ExitsKeepsServers
<1>3. CASE BeginUpgrade(p) /\ ~Exits(p, "restarting")
  <2>1. /\ startup[p] = "beginning" /\ writer = NoRelease /\ writer' = p
        /\ pending' = ledger /\ startup' = [startup EXCEPT ![p] = "validating"]
    BY <1>3 DEF BeginUpgrade, Reaches
  <2>2. ServersTyped'
    <3>1. /\ startup' \in [Processes -> ServerPhases] /\ startup'[p] = "validating"
          /\ \A q \in Processes : q # p => startup'[q] = startup[q]
      BY <2>1 DEF ServersInv, ServersTyped, ServerPhases
    <3>2. \A q \in Processes : (writer' = q) <=> startup'[q] \in Migrating
      BY <2>1, <3>1, CatalogTyped DEF ServersInv, ServersTyped, Processes
    <3>3. \A q \in Processes : Bound(q)' => Bound(q)
      BY <2>1, <3>1 DEF Bound, NotRunning
    <3>4. QED
      BY <1>1, <2>1, <3>1, <3>2, <3>3 DEF ServersInv, ServersTyped, Processes
  <2>3. ServersNamed'
    BY <1>1, <2>1 DEF ServersInv, ServersTyped, ServersNamed, Processes
  <2>4. ASSUME NEW q \in Processes PROVE UpgradeBegun(q)'
    <3>1. startup[q] \notin Migrating
      BY <2>1, CatalogTyped DEF ServersInv, ServersTyped, Processes
    <3>2. QED
      BY <2>1, <3>1 DEF ServersInv, ServersTyped, UpgradeBegun
  <2>5. UpgradesAreWhole' /\ ServesItsRelease'
    BY <1>1, <2>1 DEF ServersInv, ServersTyped, UpgradesAreWhole, ServesItsRelease, Ledgers, Releases
  <2>6. QED
    BY <2>2, <2>3, <2>4, <2>5 DEF ServersInv
<1>4. CASE ValidateUpgrade(p) /\ ~Exits(p, "restarting")
  <2>1. /\ startup[p] = "validating" /\ Seqs!IsPrefix(pending, Catalog[release[p]])
        /\ startup' = [startup EXCEPT ![p] = "applying"] /\ UNCHANGED <<writer, pending>>
    BY <1>4 DEF ValidateUpgrade, Compatible, Reaches
  <2>2. /\ startup' \in [Processes -> ServerPhases] /\ startup'[p] = "applying"
        /\ \A q \in Processes : q # p => startup'[q] = startup[q]
    BY <2>1 DEF ServersInv, ServersTyped, ServerPhases
  <2>3. ServersTyped'
    <3>1. \A q \in Processes : Bound(q)' => Bound(q)
      BY <2>1, <2>2 DEF Bound, NotRunning
    <3>2. QED
      BY <1>1, <2>1, <2>2, <3>1 DEF ServersInv, ServersTyped, Processes
  <2>4. ServersNamed'
    BY <1>1, <2>1, <2>2 DEF ServersInv, ServersNamed, Processes
  <2>5. \A q \in Processes : UpgradeBegun(q)'
    BY <1>1, <2>1, <2>2 DEF ServersInv, UpgradeBegun
  <2>6. UpgradesAreWhole' /\ ServesItsRelease'
    BY <1>1, <2>2 DEF ServersInv, UpgradesAreWhole, ServesItsRelease, Ledgers, Releases
  <2>7. QED
    BY <2>3, <2>4, <2>5, <2>6 DEF ServersInv
<1>5. CASE Apply(p)
  <2>1. /\ startup[p] = "applying" /\ writer = p /\ release[p] \in Releases
        /\ Seqs!IsPrefix(pending, Catalog[release[p]])
    BY <1>5 DEF Apply, ServersInv, ServersTyped, ServersNamed, UpgradeBegun
  <2>2. Catalog[release[p]] \in Seq(Migrations) /\ pending \in Seq(Migrations)
    BY <2>1, CatalogTyped DEF ServersInv, ServersTyped
  <2>3. \A q \in Processes : q # p => startup[q] \notin Migrating
    BY <2>1 DEF ServersInv, ServersTyped
  <2>4. CASE pending = Catalog[release[p]]
    <3>1. startup' = [startup EXCEPT ![p] = "committing"] /\ UNCHANGED <<writer, pending>>
      BY <1>5, <2>4 DEF Apply, Reaches
    <3>2. /\ startup' \in [Processes -> ServerPhases] /\ startup'[p] = "committing"
          /\ \A q \in Processes : q # p => startup'[q] = startup[q]
      BY <3>1 DEF ServersInv, ServersTyped, ServerPhases
    <3>3. ServersTyped'
      <4>1. \A q \in Processes : Bound(q)' => Bound(q)
        BY <2>1, <3>2 DEF Bound, NotRunning
      <4>2. QED
        BY <1>1, <2>1, <3>1, <3>2, <4>1 DEF ServersInv, ServersTyped, Processes
    <3>4. ServersNamed'
      BY <1>1, <2>1, <3>2 DEF ServersInv, ServersNamed, Processes
    <3>5. \A q \in Processes : UpgradeBegun(q)'
      BY <1>1, <2>1, <2>4, <3>1, <3>2 DEF ServersInv, UpgradeBegun
    <3>6. UpgradesAreWhole' /\ ServesItsRelease'
      BY <1>1, <3>2 DEF ServersInv, UpgradesAreWhole, ServesItsRelease, Ledgers, Releases
    <3>7. QED
      BY <3>3, <3>4, <3>5, <3>6 DEF ServersInv
  <2>5. CASE pending # Catalog[release[p]]
    <3>1. /\ pending' = SubSeq(Catalog[release[p]], 1, Len(pending) + 1)
          /\ UNCHANGED <<startup, writer>>
      BY <1>5, <2>5 DEF Apply
    <3>2. pending' \in Seq(Migrations) /\ Seqs!IsPrefix(pending', Catalog[release[p]])
      BY <2>1, <2>2, <2>5, <3>1, NextMigration
    <3>3. ServersTyped'
      BY <1>1, <3>1, <3>2 DEF ServersInv, ServersTyped, Bound
    <3>4. ServersNamed'
      BY <1>1, <3>1 DEF ServersInv, ServersNamed
    <3>5. ASSUME NEW q \in Processes PROVE UpgradeBegun(q)'
      <4>1. CASE q = p
        BY <1>1, <2>1, <3>1, <3>2, <4>1 DEF UpgradeBegun
      <4>2. CASE q # p
        BY <2>3, <3>1, <4>2 DEF UpgradeBegun
      <4>3. QED
        BY <4>1, <4>2
    <3>6. UpgradesAreWhole' /\ ServesItsRelease'
      BY <1>1, <3>1 DEF ServersInv, UpgradesAreWhole, ServesItsRelease, Ledgers, Releases
    <3>7. QED
      BY <3>3, <3>4, <3>5, <3>6 DEF ServersInv
  <2>6. QED
    BY <2>4, <2>5
<1>6. CASE VerifyUpgrade(p) /\ ~Exits(p, "restarting")
  <2>1. /\ startup[p] = "verifying" /\ ledger = Catalog[release[p]]
        /\ startup' = [startup EXCEPT ![p] = "serving"] /\ UNCHANGED <<writer, pending>>
    BY <1>6 DEF VerifyUpgrade, Reaches
  <2>2. /\ startup' \in [Processes -> ServerPhases] /\ startup'[p] = "serving"
        /\ \A q \in Processes : q # p => startup'[q] = startup[q]
    BY <2>1 DEF ServersInv, ServersTyped, ServerPhases
  <2>3. ServersTyped'
    <3>1. \A q \in Processes : Bound(q)' => Bound(q)
      BY <2>1, <2>2 DEF Bound, NotRunning
    <3>2. QED
      BY <1>1, <2>1, <2>2, <3>1 DEF ServersInv, ServersTyped, Processes
  <2>4. ServersNamed'
    BY <1>1, <2>1, <2>2 DEF ServersInv, ServersNamed, Processes
  <2>5. \A q \in Processes : UpgradeBegun(q)'
    BY <1>1, <2>1, <2>2 DEF ServersInv, UpgradeBegun
  <2>6. UpgradesAreWhole' /\ ServesItsRelease'
    BY <1>1, <2>1, <2>2 DEF ServersInv, UpgradesAreWhole, ServesItsRelease, Ledgers, Releases
  <2>7. QED
    BY <2>3, <2>4, <2>5, <2>6 DEF ServersInv
<1>7. QED
  BY <1>2, <1>3, <1>4, <1>5, <1>6

\* With one endpoint, nobody serves while another commits.
LEMMA CommitKeepsServers ==
    ASSUME ServersInv, NEW p \in Processes, CommitUpgrade(p)
    PROVE  ServersInv'
<1> USE DEF around, Migrating
<1>1. /\ startup[p] = "committing" /\ ledger' = pending /\ pending' = <<>>
      /\ writer' = NoRelease /\ startup' = [startup EXCEPT ![p] = "verifying"]
      /\ UNCHANGED <<release, installed, apart>>
  BY DEF CommitUpgrade, Reaches
<1>2. /\ writer = p /\ pending = Catalog[release[p]] /\ release[p] \in Releases
  BY <1>1 DEF ServersInv, ServersTyped, ServersNamed, UpgradeBegun
<1>3. /\ startup' \in [Processes -> ServerPhases] /\ startup'[p] = "verifying"
      /\ \A q \in Processes : q # p => startup'[q] = startup[q] /\ startup[q] \notin Migrating
  BY <1>1, <1>2 DEF ServersInv, ServersTyped, ServerPhases
<1>4. ServersTyped'
  <2>1. \A q \in Processes : Bound(q)' => Bound(q)
    BY <1>1, <1>3 DEF Bound, NotRunning
  <2>2. \A q \in Processes : (writer' = q) <=> startup'[q] \in Migrating
    BY <1>1, <1>3, CatalogTyped DEF Processes
  <2>3. pending' \in Seq(Migrations) /\ ledger' \in Seq(Migrations)
    BY <1>1 DEF ServersInv, ServersTyped
  <2>4. QED
    BY <1>1, <1>3, <2>1, <2>2, <2>3 DEF ServersInv, ServersTyped, Processes
<1>5. ServersNamed'
  BY <1>1, <1>3 DEF ServersInv, ServersNamed, Processes
<1>6. \A q \in Processes : UpgradeBegun(q)'
  BY <1>3 DEF UpgradeBegun
<1>7. UpgradesAreWhole'
  BY <1>1, <1>2 DEF UpgradesAreWhole, Ledgers, Releases
<1>8. ServesItsRelease'
  <2>1. SUFFICES ASSUME ~apart, NEW q \in Processes, startup'[q] = "serving"
                 PROVE  FALSE
    BY <1>1 DEF ServesItsRelease
  <2>2. q # p /\ startup[q] = "serving"
    BY <1>3, <2>1
  <2>3. Bound(q) /\ Bound(p)
    BY <1>1, <2>2 DEF Bound, NotRunning
  <2>4. QED
    BY <2>1, <2>2, <2>3 DEF ServersInv, ServersTyped, Processes
<1>9. QED
  BY <1>4, <1>5, <1>6, <1>7, <1>8 DEF ServersInv

\* Binding and the check that writes nothing.
LEMMA CheckKeepsServers ==
    ASSUME ServersInv, NEW p \in Processes, BindEndpoint(p) \/ CheckCompatible(p)
    PROVE  ServersInv'
<1> USE DEF around
<1>1. startup[p] \in {"binding", "checking"} /\ {"restarting", "failed"} \subseteq NotRunning
      /\ UNCHANGED <<ledger, release, installed, apart>>
  BY DEF BindEndpoint, CheckCompatible, NotRunning
<1>2. CASE Exits(p, "restarting")
  BY <1>1, <1>2, ExitsKeepsServers
<1>3. CASE Exits(p, "failed")
  BY <1>1, <1>3, ExitsKeepsServers
<1>4. CASE CheckCompatible(p) /\ ~Exits(p, "failed")
  <2>1. /\ startup[p] = "checking" /\ Reaches(p, "beginning")
        /\ UNCHANGED <<writer, pending>>
    BY <1>4 DEF CheckCompatible
  <2>2. Bound(p) /\ startup[p] \notin Migrating /\ "beginning" \notin Migrating \cup {"serving"}
        /\ "beginning" \in ServerPhases
    BY <2>1 DEF Bound, NotRunning, Migrating, ServerPhases
  <2>3. QED
    BY <1>1, <2>1, <2>2, ReachesKeepsServers
<1>5. CASE BindEndpoint(p) /\ ~Exits(p, "restarting")
  <2>1. /\ startup[p] = "binding" /\ startup' = [startup EXCEPT ![p] = "checking"]
        /\ UNCHANGED <<writer, pending>>
        /\ ~apart => \A other \in Processes \ {p} : ~Bound(other)
    BY <1>5 DEF BindEndpoint, Reaches
  <2>2. /\ startup' \in [Processes -> ServerPhases] /\ startup'[p] = "checking"
        /\ \A q \in Processes : q # p => startup'[q] = startup[q]
    BY <2>1 DEF ServersInv, ServersTyped, ServerPhases
  <2>3. ServersTyped'
    <3>1. \A q \in Processes : (writer' = q) <=> startup'[q] \in Migrating
      BY <2>1, <2>2 DEF ServersInv, ServersTyped, Migrating
    <3>2. (~apart => ~(Bound(Unit) /\ Bound(Foreground)))'
      BY <1>1, <2>1, <2>2, CatalogTyped DEF Bound, Processes
    <3>3. QED
      BY <1>1, <2>1, <2>2, <3>1, <3>2 DEF ServersInv, ServersTyped
  <2>4. ServersNamed'
    BY <1>1, <2>1, <2>2 DEF ServersInv, ServersNamed, Processes
  <2>5. \A q \in Processes : UpgradeBegun(q)'
    BY <1>1, <2>1, <2>2 DEF ServersInv, UpgradeBegun
  <2>6. UpgradesAreWhole' /\ ServesItsRelease'
    BY <1>1, <2>1, <2>2 DEF ServersInv, UpgradesAreWhole, ServesItsRelease, Ledgers, Releases
  <2>7. QED
    BY <2>3, <2>4, <2>5, <2>6 DEF ServersInv
<1>6. QED
  BY <1>2, <1>3, <1>4, <1>5

LEMMA FailureKeepsServers ==
    ASSUME ServersInv, NEW p \in Processes, ServerFails(p)
    PROVE  ServersInv'
<1>1. startup[p] # "off" /\ "restarting" \in NotRunning
      /\ Exits(p, "restarting") /\ UNCHANGED <<ledger, release, installed, apart>>
  BY DEF ServerFails, NotRunning, around
<1>2. QED
  BY <1>1, ExitsKeepsServers

\* A server step leaves the command, the registration and what the command
\* knows alone, and does not start a server.
LEMMA ServerKeepsCommand ==
    ASSUME CommandInv, ServersInv, NEW p \in Processes, ServerStep(p)
    PROVE  CommandInv'
<1>1. UNCHANGED <<installed, apart, command, commands, doomed>>
  BY DEF ServerStep, BindEndpoint, CheckCompatible, BeginUpgrade, ValidateUpgrade, Apply,
         CommitUpgrade, VerifyUpgrade, ServerFails, around
<1>2. failures' \in 0 .. MaxServerFailures
  <2>1. CASE ServerFails(p)
    BY <2>1, UpgradeBounds DEF CommandInv, ServerFails
  <2>2. CASE ~ServerFails(p)
    BY <2>2 DEF CommandInv, ServerStep, BindEndpoint, CheckCompatible, BeginUpgrade,
                ValidateUpgrade, Apply, CommitUpgrade, VerifyUpgrade
  <2>3. QED
    BY <2>1, <2>2
<1>3. startup[p] # "off"
  BY DEF ServerStep, BindEndpoint, CheckCompatible, BeginUpgrade, ValidateUpgrade, Apply,
         CommitUpgrade, VerifyUpgrade, ServerFails, NotRunning
<1>4. startup[Unit] = "off" => startup'[Unit] = "off"
  <2>1. SUFFICES ASSUME startup[Unit] = "off" PROVE startup'[Unit] = "off"
    OBVIOUS
  <2>2. p # Unit
    BY <1>3, <2>1
  <2>3. \E to : startup' = [startup EXCEPT ![p] = to]
    <3>1. CASE startup' = startup
      BY <3>1 DEF ServersInv, ServersTyped
    <3>2. CASE startup' # startup
      BY <3>2 DEF ServerStep, BindEndpoint, CheckCompatible, BeginUpgrade, ValidateUpgrade,
                  Apply, CommitUpgrade, VerifyUpgrade, ServerFails, Exits, Reaches
    <3>3. QED
      BY <3>1, <3>2
  <2>4. Unit \in Processes
    BY DEF Processes
  <2>5. QED
    BY <2>1, <2>2, <2>3, <2>4 DEF ServersInv, ServersTyped
<1>5. CommandNames'
  BY <1>1, <1>4 DEF CommandInv, CommandNames, Releases
<1>6. SuccessorKnown'
  BY <1>1 DEF CommandInv, SuccessorKnown, Compatible
<1>7. QED
  BY <1>1, <1>2, <1>5, <1>6 DEF CommandInv, Commands, Releases

-----------------------------------------------------------------------------
(* The supervisor, a server in the foreground, and the commands. *)

LEMMA StartKeepsServers ==
    ASSUME ServersInv, startup[Unit] \in NotRunning, installed \in Releases, StartUnit,
           UNCHANGED <<ledger, pending, writer, installed, apart>>
    PROVE  ServersInv'
<1>1. Unit \in Processes
  BY DEF Processes
<1>2. /\ startup' \in [Processes -> ServerPhases] /\ startup'[Unit] = "binding"
      /\ \A q \in Processes : q # Unit => startup'[q] = startup[q]
  BY <1>1 DEF ServersInv, ServersTyped, StartUnit, Reaches, ServerPhases
<1>3. /\ release' \in [Processes -> Releases \cup {NoRelease}] /\ release'[Unit] = installed
      /\ \A q \in Processes : q # Unit => release'[q] = release[q]
  BY <1>1 DEF ServersInv, ServersTyped, StartUnit
<1>4. ServersTyped'
  <2>1. \A q \in Processes : Bound(q)' => Bound(q)
    BY <1>2 DEF Bound
  <2>2. \A q \in Processes : (writer' = q) <=> startup'[q] \in Migrating
    BY <1>1, <1>2 DEF ServersInv, ServersTyped, Migrating, NotRunning
  <2>3. (Releases \cup {NoRelease})' = Releases \cup {NoRelease}
    BY DEF Releases
  <2>4. QED
    BY <1>2, <1>3, <2>1, <2>2, <2>3 DEF ServersInv, ServersTyped, Processes
<1>5. ServersNamed'
  BY <1>2, <1>3 DEF ServersInv, ServersNamed, Releases
<1>6. \A q \in Processes : UpgradeBegun(q)'
  BY <1>2, <1>3 DEF ServersInv, UpgradeBegun
<1>7. UpgradesAreWhole' /\ ServesItsRelease'
  BY <1>2, <1>3 DEF ServersInv, UpgradesAreWhole, ServesItsRelease, Ledgers, Releases
<1>8. QED
  BY <1>4, <1>5, <1>6, <1>7 DEF ServersInv

\* Supervision leaves the command alone; a release is not registered meanwhile.
LEMMA SuperviseKeepsUpgrade ==
    ASSUME UpgradeInv, Supervise
    PROVE  UpgradeInv'
<1>1. /\ startup[Unit] = "restarting" /\ StartUnit /\ Unit \in Processes
      /\ UNCHANGED <<ledger, pending, writer, installed, apart, command, commands, failures, doomed>>
  BY DEF Supervise, Processes
<1>2. installed \in Releases /\ startup[Unit] \in NotRunning
  BY <1>1 DEF UpgradeInv, ServersInv, ServersNamed, NotRunning
<1>3. ServersInv'
  BY <1>1, <1>2, StartKeepsServers DEF UpgradeInv
<1>4. CommandInv'
  BY <1>1 DEF UpgradeInv, CommandInv, CommandNames, SuccessorKnown, Compatible, Commands, Releases
<1>5. QED
  BY <1>3, <1>4 DEF UpgradeInv

LEMMA ForegroundKeepsUpgrade ==
    ASSUME UpgradeInv, RunInForeground
    PROVE  UpgradeInv'
<1>1. PICK r \in Releases : release' = [release EXCEPT ![Foreground] = r]
  BY DEF RunInForeground
<1>2. /\ release[Foreground] = NoRelease /\ startup' = [startup EXCEPT ![Foreground] = "binding"]
      /\ UNCHANGED <<ledger, pending, writer, installed, apart, command, commands, failures, doomed>>
      /\ Foreground \in Processes
  BY DEF RunInForeground, Reaches, Processes
<1>3. startup[Foreground] = "off" /\ Unit # Foreground
  BY <1>2, CatalogTyped DEF UpgradeInv, ServersInv, ServersNamed
<1>4. /\ startup' \in [Processes -> ServerPhases] /\ startup'[Foreground] = "binding"
      /\ \A q \in Processes : q # Foreground => startup'[q] = startup[q]
  BY <1>2 DEF UpgradeInv, ServersInv, ServersTyped, ServerPhases
<1>5. /\ release' \in [Processes -> Releases \cup {NoRelease}] /\ release'[Foreground] = r
      /\ \A q \in Processes : q # Foreground => release'[q] = release[q]
  BY <1>1, <1>2 DEF UpgradeInv, ServersInv, ServersTyped
<1>6. ServersInv'
  <2>1. ServersTyped'
    <3>1. \A q \in Processes : Bound(q)' => Bound(q)
      BY <1>4 DEF Bound
    <3>2. \A q \in Processes : (writer' = q) <=> startup'[q] \in Migrating
      BY <1>2, <1>3, <1>4 DEF UpgradeInv, ServersInv, ServersTyped, Migrating
    <3>3. QED
      BY <1>2, <1>4, <1>5, <3>1, <3>2 DEF UpgradeInv, ServersInv, ServersTyped, Processes, Releases
  <2>2. ServersNamed'
    BY <1>2, <1>3, <1>4, <1>5 DEF UpgradeInv, ServersInv, ServersNamed, Processes, Releases
  <2>3. \A q \in Processes : UpgradeBegun(q)'
    BY <1>2, <1>4, <1>5 DEF UpgradeInv, ServersInv, UpgradeBegun
  <2>4. UpgradesAreWhole' /\ ServesItsRelease'
    BY <1>2, <1>4, <1>5 DEF UpgradeInv, ServersInv, UpgradesAreWhole, ServesItsRelease, Ledgers, Releases
  <2>5. QED
    BY <2>1, <2>2, <2>3, <2>4 DEF ServersInv
<1>7. CommandInv'
  <2>1. startup'[Unit] = startup[Unit]
    BY <1>3, <1>4 DEF Processes
  <2>2. QED
    BY <1>2, <2>1 DEF UpgradeInv, CommandInv, CommandNames, SuccessorKnown, Compatible, Commands, Releases
<1>8. QED
  BY <1>6, <1>7 DEF UpgradeInv

\* Steps of the command that leave every server alone.
LEMMA ServersAsTheyWere ==
    ASSUME ServersInv, UNCHANGED releases
    PROVE  ServersInv'
<1>1. UNCHANGED <<ledger, pending, writer, startup, release, installed, apart>>
  BY DEF releases
<1>2. ServersTyped' /\ ServersNamed'
  BY <1>1 DEF ServersInv, ServersTyped, ServersNamed, Bound, Releases
<1>3. \A p \in Processes : UpgradeBegun(p)'
  BY <1>1 DEF ServersInv, UpgradeBegun
<1>4. UpgradesAreWhole' /\ ServesItsRelease'
  BY <1>1 DEF ServersInv, UpgradesAreWhole, ServesItsRelease, Ledgers, Releases
<1>5. QED
  BY <1>2, <1>3, <1>4 DEF ServersInv

LEMMA CommandKeepsUpgrade ==
    ASSUME UpgradeInv, NEW kind \in {"install", "restart", "start"}, NEW r \in Releases,
           Command(kind, r)
    PROVE  UpgradeInv'
<1>1. /\ commands' = commands + 1 /\ commands < MaxServerCommands
      /\ command' = [kind |-> kind, release |-> r, step |-> "preflight", served |-> FALSE]
      /\ UNCHANGED <<releases, doomed>>
  BY DEF Command
<1>2. ServersInv'
  BY <1>1, ServersAsTheyWere DEF UpgradeInv
<1>3. commands' \in 0 .. MaxServerCommands
  BY <1>1, UpgradeBounds DEF UpgradeInv, CommandInv
<1>4. command' \in Commands /\ command'.step = "preflight" /\ command'.release = r
  BY <1>1 DEF Commands, CommandSteps
<1>5. QED
  BY <1>1, <1>2, <1>3, <1>4 DEF UpgradeInv, CommandInv, CommandNames, SuccessorKnown, releases, Releases, Commands

\* The doctor compares with the database as it is, and a server that serves
\* has the migrations of the registered release in it.
LEMMA PreflightKeepsUpgrade ==
    ASSUME UpgradeInv, Preflight
    PROVE  UpgradeInv'
<1> DEFINE next == IF ~Healthy(command.kind) THEN "failed"
                   ELSE IF command.kind = "start" THEN "starting" ELSE "stopping"
           serves == startup[Unit] = "serving"
<1>1. /\ command.step = "preflight"
      /\ command' = [command EXCEPT !.step = next, !.served = serves]
      /\ UNCHANGED <<releases, commands, doomed>>
  BY DEF Preflight
<1>2. next \in {"failed", "starting", "stopping"} /\ serves \in BOOLEAN
  OBVIOUS
<1>3. /\ next \in {"starting", "stopping"} => Compatible(command.release, ledger)
      /\ next = "starting" => installed = command.release
      /\ next = "stopping" /\ command.kind # "install" => installed = command.release
  <2>1. next \in {"starting", "stopping"} => Healthy(command.kind)
    OBVIOUS
  <2>2. next = "starting" => command.kind = "start"
    OBVIOUS
  <2>3. QED
    BY <2>1, <2>2 DEF Healthy
<1> HIDE DEF next
<1>4. serves /\ ~apart => ledger = Catalog[installed]
  BY DEF UpgradeInv, ServersInv, ServersNamed, ServesItsRelease, Processes
<1> HIDE DEF serves
<1>5. /\ command' \in Commands /\ command'.step = next /\ command'.served = serves
      /\ command'.release = command.release /\ command'.kind = command.kind
  BY <1>1, <1>2 DEF UpgradeInv, CommandInv, Commands, CommandSteps, Releases
<1>6. ServersInv'
  BY <1>1, ServersAsTheyWere DEF UpgradeInv
<1>7. CommandNames'
  BY <1>1, <1>2, <1>3, <1>5 DEF UpgradeInv, CommandInv, CommandNames, releases, Releases
<1>8. SuccessorKnown'
  <2>1. UNCHANGED <<apart, installed, doomed>>
    BY <1>1 DEF releases
  <2>2. SUFFICES ASSUME ~apart, next = "stopping", serves
                 PROVE  Compatible(command.release, Catalog[installed])
    BY <1>5, <2>1 DEF UpgradeInv, CommandInv, SuccessorKnown, Compatible
  <2>3. QED
    BY <1>3, <1>4, <2>2
<1>9. QED
  BY <1>1, <1>5, <1>6, <1>7, <1>8 DEF UpgradeInv, CommandInv, releases, Releases, Commands

\* A server that is stopped while it serves has the registered release, which
\* that of the command can follow.
LEMMA StopKeepsUpgrade ==
    ASSUME UpgradeInv, StopUnit
    PROVE  UpgradeInv'
<1> DEFINE next == IF command.kind = "install" THEN "installing" ELSE "starting"
<1>1. /\ command.step = "stopping" /\ Exits(Unit, "off")
      /\ command' = [command EXCEPT !.step = next]
      /\ doomed' = (doomed \/ (command.served /\ startup[Unit] = "serving"
                                /\ ~Compatible(command.release, ledger)))
      /\ UNCHANGED <<ledger, release, installed, apart, commands, failures>>
      /\ Unit \in Processes /\ "off" \in NotRunning
  BY DEF StopUnit, CommandAt, Processes, NotRunning
<1>2. ServersInv'
  BY <1>1, ExitsKeepsServers DEF UpgradeInv
<1>3. startup'[Unit] = "off"
  BY <1>1 DEF UpgradeInv, ServersInv, ServersTyped, Exits, Reaches
<1>4. /\ next \in {"installing", "starting"}
      /\ next = "starting" => command.kind # "install"
  OBVIOUS
<1> HIDE DEF next
<1>5. /\ command' \in Commands /\ command'.step = next
      /\ command'.release = command.release /\ command'.kind = command.kind
  BY <1>1, <1>4 DEF UpgradeInv, CommandInv, Commands, CommandSteps, Releases
<1>6. CommandNames'
  BY <1>1, <1>3, <1>4, <1>5 DEF UpgradeInv, CommandInv, CommandNames, Releases
<1>7. SuccessorKnown'
  <2>1. SUFFICES ASSUME ~apart PROVE ~doomed'
    BY <1>1, <1>4, <1>5 DEF SuccessorKnown
  <2>2. ~doomed
    BY <2>1 DEF UpgradeInv, CommandInv, SuccessorKnown
  <2>3. SUFFICES ASSUME command.served, startup[Unit] = "serving"
                 PROVE  Compatible(command.release, ledger)
    BY <1>1, <2>2
  <2>4. ledger = Catalog[installed]
    BY <1>1, <2>1, <2>3 DEF UpgradeInv, ServersInv, ServersNamed, ServesItsRelease
  <2>5. Compatible(command.release, Catalog[installed])
    BY <1>1, <2>1, <2>3 DEF UpgradeInv, CommandInv, SuccessorKnown
  <2>6. QED
    BY <2>4, <2>5
<1>8. QED
  BY <1>1, <1>2, <1>5, <1>6, <1>7 DEF UpgradeInv, CommandInv, Releases, Commands

\* Registering, while the server is off.
LEMMA RegisterKeepsUpgrade ==
    ASSUME UpgradeInv, Register
    PROVE  UpgradeInv'
<1>1. /\ command.step = "installing" /\ installed' = command.release
      /\ command' = [command EXCEPT !.step = "starting"]
      /\ UNCHANGED <<ledger, pending, writer, startup, release, apart, commands, failures, doomed>>
  BY DEF Register, CommandAt
<1>2. startup[Unit] = "off" /\ installed' \in Releases
  BY <1>1 DEF UpgradeInv, CommandInv, CommandNames
<1>3. ServersInv'
  <2>1. ServersTyped' /\ ServersNamed'
    BY <1>1, <1>2 DEF UpgradeInv, ServersInv, ServersTyped, ServersNamed, Bound, Releases
  <2>2. \A p \in Processes : UpgradeBegun(p)'
    BY <1>1 DEF UpgradeInv, ServersInv, UpgradeBegun
  <2>3. UpgradesAreWhole' /\ ServesItsRelease'
    BY <1>1 DEF UpgradeInv, ServersInv, UpgradesAreWhole, ServesItsRelease, Ledgers, Releases
  <2>4. QED
    BY <2>1, <2>2, <2>3 DEF ServersInv
<1>4. /\ command' \in Commands /\ command'.step = "starting"
      /\ command'.release = command.release
  BY <1>1 DEF UpgradeInv, CommandInv, Commands, CommandSteps, Releases
<1>5. CommandNames' /\ SuccessorKnown'
  BY <1>1, <1>2, <1>4 DEF UpgradeInv, CommandInv, CommandNames, SuccessorKnown, Releases
<1>6. QED
  BY <1>1, <1>3, <1>4, <1>5 DEF UpgradeInv, CommandInv, Releases, Commands

\* A command goes on to a step at which nothing is asked of it.
LEMMA OnwardsKeepsCommand ==
    ASSUME CommandInv, NEW to \in {"waiting", "asking", "ready", "failed"}, CommandAt(to),
           command.step # "failed",
           UNCHANGED <<installed, apart, commands, failures, doomed>>
    PROVE  CommandInv'
<1>1. /\ command' \in Commands /\ command'.step = to /\ command'.release = command.release
  BY DEF CommandInv, CommandAt, Commands, CommandSteps, Releases
<1>2. CommandNames' /\ SuccessorKnown'
  BY <1>1 DEF CommandInv, CommandNames, SuccessorKnown, Releases
<1>3. QED
  BY <1>1, <1>2 DEF CommandInv, Releases, Commands

LEMMA StartKeepsUpgrade ==
    ASSUME UpgradeInv, StartRegistered
    PROVE  UpgradeInv'
<1>1. /\ command.step = "starting" /\ CommandAt("waiting")
      /\ UNCHANGED <<ledger, pending, writer, installed, apart, commands, failures, doomed>>
  BY DEF StartRegistered
<1>2. installed \in Releases
  BY <1>1 DEF UpgradeInv, CommandInv, CommandNames
<1>3. CommandInv'
  BY <1>1, OnwardsKeepsCommand DEF UpgradeInv
<1>4. CASE startup[Unit] \in NotRunning
  BY <1>1, <1>2, <1>3, <1>4, StartKeepsServers DEF UpgradeInv, StartRegistered
<1>5. CASE startup[Unit] \notin NotRunning
  <2>1. UNCHANGED releases
    BY <1>1, <1>5 DEF StartRegistered, releases
  <2>2. QED
    BY <1>3, <2>1, ServersAsTheyWere DEF UpgradeInv
<1>6. QED
  BY <1>4, <1>5

LEMMA AskingKeepsUpgrade ==
    ASSUME UpgradeInv, AskSupervisor \/ AskHealth \/ CommandFails
    PROVE  UpgradeInv'
<1>1. command.step # "failed" /\ UNCHANGED <<releases, commands, doomed>>
  BY DEF AskSupervisor, AskHealth, CommandFails
<1>2. \E to \in {"waiting", "asking", "ready", "failed"} : CommandAt(to)
  <2>1. CASE AskSupervisor
    BY <2>1 DEF AskSupervisor
  <2>2. CASE AskHealth
    BY <2>2 DEF AskHealth
  <2>3. CASE CommandFails
    BY <2>3 DEF CommandFails
  <2>4. QED
    BY <2>1, <2>2, <2>3
<1>3. UNCHANGED <<installed, apart, commands, failures, doomed>>
  BY <1>1 DEF releases
<1>4. CommandInv'
  BY <1>1, <1>2, <1>3, OnwardsKeepsCommand DEF UpgradeInv
<1>5. QED
  BY <1>1, <1>4, ServersAsTheyWere DEF UpgradeInv

-----------------------------------------------------------------------------

LEMMA UpgradeBegins == UpgradeInit => UpgradeInv
<1> SUFFICES ASSUME UpgradeInit PROVE UpgradeInv
  OBVIOUS
<1> USE DEF UpgradeInit
<1>1. <<>> \in Seq(Migrations) /\ ledger \in Seq(Migrations)
  <2>1. CASE ledger = <<>>
    BY <2>1
  <2>2. ASSUME NEW r \in Releases, ledger = Catalog[r] PROVE ledger \in Seq(Migrations)
    BY <2>2, CatalogTyped
  <2>3. ledger = <<>> \/ \E r \in Releases : ledger = Catalog[r]
    BY DEF Ledgers
  <2>4. <<>> \in Seq(Migrations)
    OBVIOUS
  <2>5. QED
    BY <2>1, <2>2, <2>3, <2>4
<1>2. ServersTyped
  BY <1>1, CatalogTyped DEF ServersTyped, ServerPhases, NotRunning, Migrating, Bound, Processes
<1>3. ServersNamed /\ UpgradesAreWhole /\ ServesItsRelease
      /\ \A p \in Processes : UpgradeBegun(p)
  BY DEF ServersNamed, UpgradesAreWhole, ServesItsRelease, UpgradeBegun, Processes
<1>4. CommandInv
  BY UpgradeBounds DEF CommandInv, NoCommand, Commands, CommandSteps, CommandNames, SuccessorKnown
<1>5. QED
  BY <1>2, <1>3, <1>4 DEF UpgradeInv, ServersInv

LEMMA UpgradeStep == UpgradeInv /\ [UpgradeNext]_upgradeVars => UpgradeInv'
<1> SUFFICES ASSUME UpgradeInv, [UpgradeNext]_upgradeVars PROVE UpgradeInv'
  OBVIOUS
<1>1. ASSUME NEW p \in Processes, ServerStep(p) PROVE UpgradeInv'
  <2>1. ServersInv'
    <3>1. CASE BindEndpoint(p) \/ CheckCompatible(p)
      BY <3>1, CheckKeepsServers DEF UpgradeInv
    <3>2. CASE BeginUpgrade(p) \/ ValidateUpgrade(p) \/ Apply(p) \/ VerifyUpgrade(p)
      BY <3>2, TransactionKeepsServers DEF UpgradeInv
    <3>3. CASE CommitUpgrade(p)
      BY <3>3, CommitKeepsServers DEF UpgradeInv
    <3>4. CASE ServerFails(p)
      BY <3>4, FailureKeepsServers DEF UpgradeInv
    <3>5. QED
      BY <1>1, <3>1, <3>2, <3>3, <3>4 DEF ServerStep
  <2>2. CommandInv'
    BY <1>1, ServerKeepsCommand DEF UpgradeInv
  <2>3. QED
    BY <2>1, <2>2 DEF UpgradeInv
<1>2. CASE Supervise
  BY <1>2, SuperviseKeepsUpgrade
<1>3. CASE RunInForeground
  BY <1>3, ForegroundKeepsUpgrade
<1>4. ASSUME NEW kind \in {"install", "restart", "start"}, NEW r \in Releases, Command(kind, r)
      PROVE  UpgradeInv'
  BY <1>4, CommandKeepsUpgrade
<1>5. CASE Preflight
  BY <1>5, PreflightKeepsUpgrade
<1>6. CASE StopUnit
  BY <1>6, StopKeepsUpgrade
<1>7. CASE Register
  BY <1>7, RegisterKeepsUpgrade
<1>8. CASE StartRegistered
  BY <1>8, StartKeepsUpgrade
<1>9. CASE AskSupervisor \/ AskHealth \/ CommandFails
  BY <1>9, AskingKeepsUpgrade
<1>10. CASE UNCHANGED upgradeVars
  <2>1. UNCHANGED releases /\ UNCHANGED <<command, commands, doomed>>
    BY <1>10 DEF upgradeVars, releases
  <2>2. CommandInv'
    BY <2>1 DEF UpgradeInv, CommandInv, CommandNames, SuccessorKnown, Compatible, Commands, Releases, releases
  <2>3. QED
    BY <2>1, <2>2, ServersAsTheyWere DEF UpgradeInv
<1>11. QED
  BY <1>1, <1>2, <1>3, <1>4, <1>5, <1>6, <1>7, <1>8, <1>9, <1>10 DEF UpgradeNext

LEMMA UpgradeInvHolds == UpgradeSpec => []UpgradeInv
BY UpgradeBegins, UpgradeStep, PTL DEF UpgradeSpec

\* The variables of the servers and of the commands keep their types, a server
\* is in the transaction exactly while it migrates, and of two servers with one
\* endpoint one has it (lib.rs run_resident, migrations.rs migrate_database).
THEOREM UpgradesAreTyped == UpgradeSpec => []UpgradeTypeOK
<1>1. UpgradeInv => UpgradeTypeOK
  BY DEF UpgradeInv, ServersInv, ServersTyped, CommandInv, Commands, UpgradeTypeOK
<1>2. QED
  BY <1>1, UpgradeInvHolds, PTL

\* The database holds all the migrations of a release or none, whatever
\* releases there are (migrations.rs migrate_database).
THEOREM NoUpgradeIsPartial == UpgradeSpec => []UpgradesAreWhole
<1>1. UpgradeInv => UpgradesAreWhole
  BY DEF UpgradeInv, ServersInv
<1>2. QED
  BY <1>1, UpgradeInvHolds, PTL

\* With one endpoint, a server that serves has the schema of its release
\* (lib.rs run_resident).
THEOREM ServersServeTheirRelease == UpgradeSpec => []ServesItsRelease
<1>1. UpgradeInv => ServesItsRelease
  BY DEF UpgradeInv, ServersInv
<1>2. QED
  BY <1>1, UpgradeInvHolds, PTL

\* With one endpoint, no command stops a server for a release that the database
\* refuses (server.rs run).
THEOREM OnlySuccessorsReplace == UpgradeSpec => []StopsOnlyForASuccessor
<1>1. UpgradeInv => StopsOnlyForASuccessor
  BY DEF UpgradeInv, CommandInv, SuccessorKnown, StopsOnlyForASuccessor
<1>2. QED
  BY <1>1, UpgradeInvHolds, PTL

-----------------------------------------------------------------------------
(* Exports and imports. *)

\* What a directory holds at each step of its export.  A directory without
\* manifest may be left when an export ends early.
BundleWritten(s) ==
    /\ export[s] = "waiting" => bundle[s] = Nothing
    /\ export[s] = "database" => bundle[s] = {}
    /\ export[s] = "settings" => bundle[s] = {"database"}
    /\ export[s] = "manifest" => bundle[s] = {"database", "settings"}
    /\ export[s] = "exported" => bundle[s] = Parts
    /\ export[s] \in {"cleaning", "failed"} /\ bundle[s] # Nothing =>
         "manifest" \notin bundle[s]

\* An import that got past the manifest has a directory that is complete.
ImportedFromWhole(s) ==
    import[s] \notin {"waiting", "failed"} => bundle[s] = Parts

\* As long as nothing overlaps: who is under way is alone, the staged file is
\* its own from the migration on until it replaces the database, and no server
\* runs while it puts the files in place.
Staging(s) ==
    /\ import[s] \in {"migrating", "asking", "stopping", "finishing", "companions", "replacing"}
          /\ staged # Nothing => staged.of = s
    /\ import[s] \in Finishing => daemon # "on"
    /\ import[s] = "replacing" => log = Nothing

Restored(s) ==
    /\ import[s] \in {"config", "titles", "starting", "imported"} => database = s
    /\ import[s] \in {"titles", "starting", "imported"} => settings["config"] = s
    /\ import[s] \in {"starting", "imported"} => settings["titles"] = s

AloneUntilMixed ==
    ~mixed =>
        /\ \A s, t \in UnderWay : s = t
        /\ log \in {database, Nothing}
        /\ \A s \in Snapshots : Staging(s)
        /\ \A s \in Snapshots :
             (\A other \in Snapshots \ {s} : import[other] = "waiting") => Restored(s)

TransferInv ==
    /\ TransferTypeOK
    /\ \A s \in Snapshots : BundleWritten(s) /\ ImportedFromWhole(s)
    /\ AloneUntilMixed

\* An export changes nothing that an import has read.
LEMMA ExportKeepsTransfer ==
    ASSUME TransferInv, NEW s \in Snapshots,
           CreateDirectory(s) \/ WritePart(s) \/ ExportFails(s) \/ RemoveDirectory(s)
    PROVE  TransferInv'
<1> USE DEF TransferInv
<1>1. UNCHANGED <<import, restart, staged, settings, database, log, daemon, mixed>>
  BY DEF CreateDirectory, WritePart, ExportFails, RemoveDirectory, importing, live
<1>2. AloneUntilMixed'
  BY <1>1 DEF AloneUntilMixed, UnderWay, Staging, Restored
<1>3. /\ bundle \in [Snapshots -> (SUBSET Parts) \cup {Nothing}]
      /\ export \in [Snapshots -> ExportSteps]
      /\ BundleWritten(s) /\ ImportedFromWhole(s)
  BY DEF TransferTypeOK
<1>4. faults' \in 0 .. MaxTransferFaults
  BY FaultsAssumption DEF TransferTypeOK, CreateDirectory, WritePart, ExportFails, RemoveDirectory, Fault
<1>5. SUFFICES
        /\ bundle' \in [Snapshots -> (SUBSET Parts) \cup {Nothing}]
        /\ export' \in [Snapshots -> ExportSteps]
        /\ \A t \in Snapshots \ {s} : bundle'[t] = bundle[t] /\ export'[t] = export[t]
        /\ BundleWritten(s)' /\ ImportedFromWhole(s)'
  <2>1. ASSUME NEW t \in Snapshots,
               bundle'[t] = bundle[t] /\ export'[t] = export[t]
        PROVE  BundleWritten(t)' /\ ImportedFromWhole(t)'
    BY <1>1, <2>1 DEF BundleWritten, ImportedFromWhole, Parts
  <2>2. QED
    BY <1>1, <1>2, <1>4, <2>1 DEF TransferTypeOK, Origins, ImportSteps, SettingsFiles
<1>6. CASE CreateDirectory(s)
  <2>1. /\ bundle' = [bundle EXCEPT ![s] = {}] /\ export' = [export EXCEPT ![s] = "database"]
        /\ export[s] = "waiting" /\ import' = import
    BY <1>6 DEF CreateDirectory, Exports, importing
  <2>2. import[s] \in {"waiting", "failed"}
    <3>1. bundle[s] = Nothing
      BY <1>3, <2>1 DEF BundleWritten
    <3>2. QED
      BY <1>3, <3>1, SnapshotsAssumption DEF ImportedFromWhole, Parts
  <2>3. QED
    BY <1>3, <2>1, <2>2 DEF BundleWritten, ImportedFromWhole, ExportSteps, ExportEnds
<1>7. CASE WritePart(s)
  <2>1. export[s] \in Parts /\ bundle' = [bundle EXCEPT ![s] = @ \cup {export[s]}] /\ import' = import
    BY <1>7 DEF WritePart, importing
  <2>2. CASE export[s] = "database"
    <3>1. export' = [export EXCEPT ![s] = "settings"]
      BY <1>7, <2>2 DEF WritePart, Exports
    <3>2. QED
      BY <1>3, <2>1, <2>2, <3>1 DEF BundleWritten, ImportedFromWhole, ExportSteps, ExportEnds, Parts
  <2>3. CASE export[s] = "settings"
    <3>1. export' = [export EXCEPT ![s] = "manifest"]
      BY <1>7, <2>3 DEF WritePart, Exports
    <3>2. QED
      BY <1>3, <2>1, <2>3, <3>1 DEF BundleWritten, ImportedFromWhole, ExportSteps, ExportEnds, Parts
  <2>4. CASE export[s] = "manifest"
    <3>1. export' = [export EXCEPT ![s] = "exported"]
      BY <1>7, <2>4 DEF WritePart, Exports
    <3>2. QED
      BY <1>3, <2>1, <2>4, <3>1 DEF BundleWritten, ImportedFromWhole, ExportSteps, ExportEnds, Parts
  <2>5. QED
    BY <2>1, <2>2, <2>3, <2>4 DEF Parts
<1>8. CASE ExportFails(s)
  <2>1. /\ export[s] \in Parts /\ bundle' = bundle /\ import' = import
        /\ \/ export' = [export EXCEPT ![s] = "cleaning"]
           \/ export' = [export EXCEPT ![s] = "failed"]
    BY <1>8 DEF ExportFails, Exports, importing
  <2>2. export'[s] \in {"cleaning", "failed"} /\ export' \in [Snapshots -> ExportSteps]
        /\ \A t \in Snapshots \ {s} : export'[t] = export[t]
    BY <1>3, <2>1 DEF ExportSteps, ExportEnds
  <2>3. bundle[s] \in {{}, {"database"}, {"database", "settings"}}
    BY <1>3, <2>1 DEF BundleWritten, Parts
  <2>4. QED
    BY <1>3, <2>1, <2>2, <2>3 DEF BundleWritten, ImportedFromWhole
<1>9. CASE RemoveDirectory(s)
  <2>1. /\ export[s] = "cleaning" /\ export' = [export EXCEPT ![s] = "failed"]
        /\ import' = import
    BY <1>9 DEF RemoveDirectory, Exports, importing
  <2>2. PICK left \in {bundle[s], Nothing} : bundle' = [bundle EXCEPT ![s] = left]
    BY <1>9 DEF RemoveDirectory
  <2>3. import[s] \in {"waiting", "failed"}
    <3>1. bundle[s] # Parts
      BY <1>3, <2>1, SnapshotsAssumption DEF BundleWritten, Parts
    <3>2. QED
      BY <1>3, <3>1 DEF ImportedFromWhole
  <2>4. /\ bundle' \in [Snapshots -> (SUBSET Parts) \cup {Nothing}] /\ bundle'[s] = left
        /\ \A t \in Snapshots \ {s} : bundle'[t] = bundle[t]
    BY <1>3, <2>2
  <2>5. QED
    BY <1>3, <2>1, <2>2, <2>3, <2>4 DEF BundleWritten, ImportedFromWhole, ExportSteps, ExportEnds
<1>10. QED
  BY <1>6, <1>7, <1>8, <1>9

\* An import that goes on, alone or not: what is to be shown of the others
\* follows from its being alone.
LEMMA ImportGoesOn ==
    ASSUME TransferInv, NEW s \in Snapshots, NEW p \in ImportSteps \ {"waiting"}, Imports(s, p),
           p # "failed" => bundle[s] = Parts,
           UNCHANGED exporting, TransferTypeOK',
           ~mixed' => /\ ~mixed /\ UnderWay \subseteq {s}
                      /\ log' \in {database', Nothing}
                      /\ Staging(s)'
                      /\ (\A other \in Snapshots \ {s} : import[other] = "waiting") => Restored(s)'
    PROVE  TransferInv'
<1> USE DEF TransferInv, Imports
<1>1. /\ import'[s] = p /\ bundle' = bundle /\ export' = export
      /\ \A t \in Snapshots \ {s} : import'[t] = import[t]
  BY DEF TransferTypeOK, exporting
<1>2. ASSUME NEW t \in Snapshots PROVE BundleWritten(t)' /\ ImportedFromWhole(t)'
  BY <1>1 DEF BundleWritten, ImportedFromWhole, Parts
<1>3. AloneUntilMixed'
  <2>1. SUFFICES ASSUME ~mixed'
                 PROVE  /\ \A t, u \in UnderWay' : t = u
                        /\ \A t \in Snapshots \ {s} :
                             /\ Staging(t)'
                             /\ ~(\A other \in Snapshots \ {t} : import'[other] = "waiting")
    BY <1>1 DEF AloneUntilMixed
  <2>2. UnderWay' \subseteq {s}
    BY <1>1, <2>1 DEF UnderWay
  <2>3. ASSUME NEW t \in Snapshots \ {s} PROVE Staging(t)'
    <3>1. import'[t] \in ImportEnds \cup {"waiting"}
      BY <2>2 DEF UnderWay
    <3>2. QED
      BY <3>1 DEF Staging, ImportEnds, Finishing
  <2>4. \A t \in Snapshots \ {s} : s \in Snapshots \ {t} /\ import'[s] # "waiting"
    BY <1>1
  <2>5. QED
    BY <2>2, <2>3, <2>4
<1>4. QED
  BY <1>2, <1>3

\* Who is under way is alone until imports overlap.
LEMMA UnderWayAlone ==
    ASSUME TransferInv, NEW s \in UnderWay
    PROVE  /\ bundle[s] = Parts
           /\ ~mixed => UnderWay \subseteq {s} /\ log \in {database, Nothing} /\ Staging(s)
           /\ ~mixed /\ (\A other \in Snapshots \ {s} : import[other] = "waiting") => Restored(s)
<1>1. s \in Snapshots /\ import[s] \notin {"waiting", "failed"}
  BY DEF UnderWay, ImportEnds
<1>2. bundle[s] = Parts
  BY <1>1 DEF TransferInv, ImportedFromWhole
<1>3. QED
  BY <1>1, <1>2 DEF TransferInv, AloneUntilMixed

LEMMA StartImportKeepsTransfer ==
    ASSUME TransferInv, NEW s \in Snapshots, StartImport(s)
    PROVE  TransferInv'
<1> DEFINE p == IF "manifest" \in bundle[s] THEN "removing" ELSE "failed"
<1>1. /\ import[s] = "waiting" /\ bundle[s] # Nothing /\ mixed' = (mixed \/ UnderWay # {})
      /\ Imports(s, p) /\ UNCHANGED <<exporting, restart, staged, settings, live, faults>>
  BY DEF StartImport
<1>2. p # "failed" => bundle[s] = Parts
  <2>1. SUFFICES ASSUME "manifest" \in bundle[s] PROVE bundle[s] = Parts
    OBVIOUS
  <2>2. export[s] \in ExportSteps /\ BundleWritten(s)
    BY DEF TransferInv, TransferTypeOK
  <2>3. QED
    BY <1>1, <2>1, <2>2 DEF BundleWritten, ExportSteps, ExportEnds
<1>3. p \in {"removing", "failed"}
  OBVIOUS
<1> HIDE DEF p
<1>4. p \in ImportSteps \ {"waiting"}
  BY <1>3 DEF ImportSteps, ImportEnds, StagingSteps
<1>5. import'[s] = p
  BY <1>1 DEF Imports, TransferInv, TransferTypeOK
<1>6. TransferTypeOK'
  BY <1>1, <1>4 DEF TransferInv, TransferTypeOK, Imports, exporting, live, Origins
<1>7. ~mixed' => ~mixed /\ UnderWay \subseteq {s}
  BY <1>1
<1>8. ~mixed' => log' \in {database', Nothing}
  BY <1>1, <1>7 DEF TransferInv, AloneUntilMixed, live
<1>9. Staging(s)' /\ Restored(s)'
  BY <1>3, <1>5 DEF Staging, Restored, Finishing
<1>10. QED
  BY <1>1, <1>2, <1>4, <1>6, <1>7, <1>8, <1>9, ImportGoesOn

\* Until the database is replaced, an import changes nothing but the staged
\* file and the server.
LEMMA StagingKeepsTransfer ==
    ASSUME TransferInv, NEW s \in Snapshots,
           RemoveStaged(s) \/ CopySnapshot(s) \/ MigrateStaged(s)
    PROVE  TransferInv'
<1>1. /\ import[s] \in StagingSteps /\ UNCHANGED <<exporting, restart, settings, live, faults, mixed>>
  BY DEF RemoveStaged, CopySnapshot, MigrateStaged, StagingSteps
<1>2. s \in UnderWay
  BY <1>1 DEF UnderWay, StagingSteps, ImportEnds
<1>3. PICK p \in {"copying", "migrating", "asking", "failed"} :
        /\ Imports(s, p)
        /\ staged' \in StagedFiles \cup {Nothing}
        /\ p \in {"migrating", "asking"} /\ staged' # Nothing =>
             staged'.of = IF import[s] = "copying" THEN s ELSE staged.of
        /\ p = "asking" => import[s] = "migrating" /\ staged # Nothing
        /\ p = "migrating" => import[s] = "copying"
  <2>1. CASE RemoveStaged(s)
    BY <2>1 DEF RemoveStaged
  <2>2. CASE CopySnapshot(s)
    <3>1. CASE staged' = Nothing /\ Imports(s, "failed")
      BY <3>1
    <3>2. CASE staged' = [of |-> s, migrated |-> FALSE] /\ Imports(s, "migrating")
      <4>1. staged' \in StagedFiles /\ staged'.of = s
        BY <3>2 DEF StagedFiles
      <4>2. QED
        BY <2>2, <3>2, <4>1 DEF CopySnapshot
    <3>3. QED
      BY <2>2, <3>1, <3>2 DEF CopySnapshot
  <2>3. CASE MigrateStaged(s)
    <3>1. CASE staged' = Nothing /\ Imports(s, "failed")
      BY <3>1
    <3>2. CASE staged' = [staged EXCEPT !.migrated = TRUE] /\ Imports(s, "asking")
      <4>1. staged \in StagedFiles /\ import[s] = "migrating" /\ staged # Nothing
        BY <2>3 DEF MigrateStaged, TransferInv, TransferTypeOK
      <4>2. staged' \in StagedFiles /\ staged'.of = staged.of
        BY <3>2, <4>1 DEF StagedFiles
      <4>3. QED
        BY <3>2, <4>1, <4>2
    <3>3. QED
      BY <2>3, <3>1, <3>2 DEF MigrateStaged
  <2>4. QED
    BY <2>1, <2>2, <2>3
<1>4. p \in ImportSteps \ {"waiting"}
  BY <1>3 DEF ImportSteps, ImportEnds, StagingSteps
<1>5. import'[s] = p
  BY <1>3 DEF Imports, TransferInv, TransferTypeOK
<1>6. TransferTypeOK'
  BY <1>1, <1>3, <1>4 DEF TransferInv, TransferTypeOK, Imports, exporting, live, Origins, StagedFiles
<1>7. ~mixed' => Staging(s)'
  <2>1. SUFFICES ASSUME ~mixed', p \in {"migrating", "asking"}, staged' # Nothing
                 PROVE  staged'.of = s
    BY <1>5 DEF Staging, Finishing
  <2>2. CASE import[s] = "copying"
    BY <1>3, <2>1, <2>2
  <2>3. CASE import[s] = "migrating" /\ staged # Nothing
    <3>1. staged.of = s
      BY <1>1, <1>2, <2>1, <2>3, UnderWayAlone DEF Staging
    <3>2. QED
      BY <1>3, <2>1, <2>3, <3>1
  <2>4. QED
    BY <1>3, <2>1, <2>2, <2>3
<1>8. Restored(s)'
  BY <1>3, <1>5 DEF Restored
<1>9. ~mixed' => ~mixed /\ UnderWay \subseteq {s} /\ log' \in {database', Nothing}
  BY <1>1, <1>2, UnderWayAlone DEF live
<1>10. QED
  BY <1>1, <1>2, <1>3, <1>4, <1>6, <1>7, <1>8, <1>9, UnderWayAlone, ImportGoesOn

\* The server is asked about and stopped, and the companions go.
LEMMA StoppingKeepsTransfer ==
    ASSUME TransferInv, NEW s \in Snapshots,
           AskForServer(s) \/ StopServer(s) \/ CheckStaged(s) \/ RemoveCompanions(s)
    PROVE  TransferInv'
<1>1. /\ import[s] \in {"asking", "stopping", "finishing", "companions"}
      /\ UNCHANGED <<exporting, staged, settings, database, faults, mixed>>
  BY DEF AskForServer, StopServer, CheckStaged, RemoveCompanions, live
<1>2. s \in UnderWay
  BY <1>1 DEF UnderWay, ImportEnds
<1>3. PICK p \in {"stopping", "finishing", "companions", "replacing", "failed"} :
        /\ Imports(s, p)
        /\ restart' \in [Snapshots -> BOOLEAN]
        /\ log' \in {log, Nothing}
        /\ daemon' \in {daemon, "off"}
        /\ p = "finishing" => daemon' # "on"
        /\ p \in {"companions", "replacing"} => import[s] \in Finishing
        /\ p = "replacing" => log' = Nothing
  <2>1. CASE AskForServer(s)
    <3>1. restart' \in [Snapshots -> BOOLEAN]
      BY <2>1 DEF AskForServer, TransferInv, TransferTypeOK
    <3>2. QED
      BY <2>1, <3>1 DEF AskForServer, live
  <2>2. CASE StopServer(s)
    BY <2>2 DEF StopServer, TransferInv, TransferTypeOK
  <2>3. CASE CheckStaged(s)
    BY <2>3 DEF CheckStaged, TransferInv, TransferTypeOK, live, Finishing
  <2>4. CASE RemoveCompanions(s)
    BY <2>4 DEF RemoveCompanions, TransferInv, TransferTypeOK, Finishing
  <2>5. QED
    BY <2>1, <2>2, <2>3, <2>4
<1>4. p \in ImportSteps \ {"waiting"}
  BY <1>3 DEF ImportSteps, ImportEnds, Finishing
<1>5. import'[s] = p
  BY <1>3 DEF Imports, TransferInv, TransferTypeOK
<1>6. TransferTypeOK'
  BY <1>1, <1>3, <1>4 DEF TransferInv, TransferTypeOK, Imports, exporting, Origins, StagedFiles
<1>7. ~mixed' => Staging(s)'
  <2>1. SUFFICES ASSUME ~mixed PROVE Staging(s)'
    BY <1>1
  <2>2. staged' # Nothing => staged'.of = s
    BY <1>1, <1>2, <2>1, UnderWayAlone DEF Staging
  <2>3. import[s] \in Finishing => daemon # "on"
    BY <1>2, <2>1, UnderWayAlone DEF Staging
  <2>4. import'[s] \in Finishing => daemon' # "on"
    BY <1>3, <1>5, <2>3 DEF Finishing
  <2>5. QED
    BY <1>3, <1>5, <2>2, <2>4 DEF Staging
<1>8. Restored(s)'
  BY <1>3, <1>5 DEF Restored
<1>9. ~mixed' => ~mixed /\ UnderWay \subseteq {s} /\ log' \in {database', Nothing}
  BY <1>1, <1>2, <1>3, UnderWayAlone
<1>10. QED
  BY <1>1, <1>2, <1>3, <1>4, <1>6, <1>7, <1>8, <1>9, UnderWayAlone, ImportGoesOn

\* The staged file is that of the import, and nothing is left that would be
\* applied to it.
LEMMA ReplaceKeepsTransfer ==
    ASSUME TransferInv, NEW s \in Snapshots, ReplaceDatabase(s)
    PROVE  TransferInv'
<1>1. /\ import[s] = "replacing" /\ staged' = Nothing
      /\ UNCHANGED <<exporting, restart, settings, log, daemon, faults, mixed>>
  BY DEF ReplaceDatabase
<1>2. s \in UnderWay
  BY <1>1 DEF UnderWay, ImportEnds
<1>3. ~mixed => (staged # Nothing => staged.of = s) /\ log = Nothing /\ daemon # "on"
  BY <1>1, <1>2, UnderWayAlone DEF Staging, Finishing
<1>4. staged # Nothing => staged.of \in Snapshots
  BY DEF TransferInv, TransferTypeOK, StagedFiles
<1>5. PICK p \in {"config", "failed"} :
        /\ Imports(s, p)
        /\ p = "config" => staged # Nothing /\ database' = staged.of
        /\ p = "failed" => database' = database
  BY DEF ReplaceDatabase
<1>6. p \in ImportSteps \ {"waiting"} /\ import'[s] = p
  BY <1>5 DEF ImportSteps, ImportEnds, Finishing, Imports, TransferInv, TransferTypeOK
<1>7. database' \in Origins
  BY <1>4, <1>5 DEF TransferInv, TransferTypeOK, Origins
<1>8. TransferTypeOK'
  BY <1>1, <1>5, <1>6, <1>7 DEF TransferInv, TransferTypeOK, Imports, exporting, Origins, StagedFiles
<1>9. ~mixed' => /\ ~mixed /\ UnderWay \subseteq {s} /\ log' \in {database', Nothing}
                 /\ Staging(s)' /\ Restored(s)'
  <2>1. SUFFICES ASSUME ~mixed
                 PROVE  /\ UnderWay \subseteq {s} /\ log' \in {database', Nothing}
                        /\ Staging(s)' /\ Restored(s)'
    BY <1>1
  <2>2. UnderWay \subseteq {s} /\ log' \in {database', Nothing}
    BY <1>1, <1>2, <1>3, <2>1, UnderWayAlone
  <2>3. Staging(s)'
    BY <1>1, <1>3, <1>5, <1>6, <2>1 DEF Staging, Finishing
  <2>4. Restored(s)'
    BY <1>3, <1>5, <1>6, <2>1 DEF Restored
  <2>5. QED
    BY <2>2, <2>3, <2>4
<1>10. QED
  BY <1>1, <1>2, <1>5, <1>6, <1>8, <1>9, UnderWayAlone, ImportGoesOn

\* The directory has the settings, and both files are put back.
LEMMA RestoreKeepsTransfer ==
    ASSUME TransferInv, NEW s \in Snapshots, RestoreSettings(s)
    PROVE  TransferInv'
<1> DEFINE p == IF import[s] = "config" THEN "titles"
                ELSE IF restart[s] THEN "starting" ELSE "imported"
<1>1. /\ import[s] \in SettingsFiles /\ Imports(s, p)
      /\ settings' = [settings EXCEPT ![import[s]] = IF "settings" \in bundle[s] THEN s ELSE @]
      /\ UNCHANGED <<exporting, restart, staged, live, faults, mixed>>
  BY DEF RestoreSettings
<1>2. s \in UnderWay
  BY <1>1 DEF UnderWay, ImportEnds, SettingsFiles
<1>3. bundle[s] = Parts
  BY <1>2, UnderWayAlone
<1>4. /\ settings' \in [SettingsFiles -> Origins] /\ settings'[import[s]] = s
      /\ \A f \in SettingsFiles : f # import[s] => settings'[f] = settings[f]
  BY <1>1, <1>3 DEF TransferInv, TransferTypeOK, Origins, Parts
<1>5. /\ import[s] = "config" => p = "titles"
      /\ import[s] # "config" => p \in {"starting", "imported"}
  OBVIOUS
<1> HIDE DEF p
<1>6. p \in ImportSteps \ {"waiting"} /\ import'[s] = p /\ p # "failed"
  BY <1>1, <1>5 DEF ImportSteps, ImportEnds, Finishing, Imports, TransferInv, TransferTypeOK
<1>7. TransferTypeOK'
  BY <1>1, <1>4, <1>6 DEF TransferInv, TransferTypeOK, Imports, exporting, live, Origins, StagedFiles
<1>8. ~mixed' => ~mixed /\ UnderWay \subseteq {s} /\ log' \in {database', Nothing} /\ Staging(s)'
  <2>1. SUFFICES ASSUME ~mixed PROVE UnderWay \subseteq {s} /\ log' \in {database', Nothing} /\ Staging(s)'
    BY <1>1
  <2>2. daemon # "on"
    BY <1>1, <1>2, <2>1, UnderWayAlone DEF Staging, Finishing, SettingsFiles
  <2>3. Staging(s)'
    BY <1>1, <1>5, <1>6, <2>2 DEF Staging, Finishing, live
  <2>4. QED
    BY <1>1, <1>2, <2>1, <2>3, UnderWayAlone DEF live
<1>9. ~mixed' /\ (\A other \in Snapshots \ {s} : import[other] = "waiting") => Restored(s)'
  <2>1. SUFFICES ASSUME ~mixed, \A other \in Snapshots \ {s} : import[other] = "waiting"
                 PROVE  Restored(s)'
    BY <1>1
  <2>2. Restored(s)
    BY <1>2, <2>1, UnderWayAlone
  <2>3. CASE import[s] = "config"
    BY <1>1, <1>4, <1>5, <1>6, <2>2, <2>3 DEF Restored, live
  <2>4. CASE import[s] = "titles"
    <3>1. settings'["config"] = settings["config"]
      BY <1>4, <2>4 DEF SettingsFiles
    <3>2. QED
      BY <1>1, <1>4, <1>5, <1>6, <2>2, <2>4, <3>1 DEF Restored, live
  <2>5. QED
    BY <1>1, <2>3, <2>4 DEF SettingsFiles
<1>10. QED
  BY <1>1, <1>3, <1>6, <1>7, <1>8, <1>9, ImportGoesOn

LEMMA EndKeepsTransfer ==
    ASSUME TransferInv, NEW s \in Snapshots, StartServer(s) \/ ImportFails(s)
    PROVE  TransferInv'
<1>1. UNCHANGED <<exporting, restart, staged, settings, database, mixed>>
  BY DEF StartServer, ImportFails, live
<1>2. s \in UnderWay
  BY DEF StartServer, ImportFails, UnderWay, ImportEnds
<1>3. PICK p \in {"imported", "failed"} :
        /\ Imports(s, p)
        /\ log' \in {log, database}
        /\ daemon' \in {"on", daemon}
        /\ faults' \in 0 .. MaxTransferFaults
        /\ p = "imported" => import[s] = "starting"
  <2>1. CASE StartServer(s)
    BY <2>1 DEF StartServer, Opens, TransferInv, TransferTypeOK
  <2>2. CASE ImportFails(s)
    BY <2>2, FaultsAssumption DEF ImportFails, Fault, live, TransferInv, TransferTypeOK
  <2>3. QED
    BY <2>1, <2>2
<1>4. p \in ImportSteps \ {"waiting"} /\ import'[s] = p
  BY <1>3 DEF ImportSteps, ImportEnds, Imports, TransferInv, TransferTypeOK
<1>5. TransferTypeOK'
  BY <1>1, <1>3, <1>4 DEF TransferInv, TransferTypeOK, Imports, exporting, Origins, StagedFiles
<1>6. Staging(s)'
  BY <1>3, <1>4 DEF Staging, Finishing
<1>7. ~mixed' => ~mixed /\ UnderWay \subseteq {s} /\ log' \in {database', Nothing}
  BY <1>1, <1>2, <1>3, UnderWayAlone
<1>8. ~mixed' /\ (\A other \in Snapshots \ {s} : import[other] = "waiting") => Restored(s)'
  BY <1>1, <1>2, <1>3, <1>4, UnderWayAlone DEF Restored
<1>9. QED
  BY <1>1, <1>2, <1>3, <1>4, <1>5, <1>6, <1>7, <1>8, UnderWayAlone, ImportGoesOn

\* A server that starts under an import is counted as such.
LEMMA DaemonKeepsTransfer ==
    ASSUME TransferInv, ServerDies \/ SomebodyStarts
    PROVE  TransferInv'
<1>1. /\ UNCHANGED <<exporting, importing, database>>
      /\ log' \in {log, database}
      /\ daemon' \in {"on", "restarting"} /\ faults' \in 0 .. MaxTransferFaults /\ mixed' \in BOOLEAN
      /\ mixed => mixed'
      /\ daemon' = "on" /\ ~mixed' => \A s \in UnderWay : import[s] \notin Finishing
      /\ log' # log => daemon' = "on"
  <2>1. CASE ServerDies
    BY <2>1, FaultsAssumption DEF ServerDies, Fault, TransferInv, TransferTypeOK
  <2>2. CASE SomebodyStarts
    BY <2>2 DEF SomebodyStarts, Opens, TransferInv, TransferTypeOK
  <2>3. QED
    BY <2>1, <2>2
<1>2. /\ UNCHANGED <<bundle, export, import, staged, settings, restart>>
      /\ UnderWay' = UnderWay
  BY <1>1 DEF exporting, importing, UnderWay
<1>3. TransferTypeOK'
  BY <1>1, <1>2 DEF TransferInv, TransferTypeOK, Origins, StagedFiles
<1>4. \A s \in Snapshots : BundleWritten(s)' /\ ImportedFromWhole(s)'
  BY <1>2 DEF TransferInv, BundleWritten, ImportedFromWhole
<1>5. AloneUntilMixed'
  <2>1. SUFFICES ASSUME ~mixed'
                 PROVE  /\ log' \in {database', Nothing}
                        /\ \A s \in Snapshots : Staging(s)'
    BY <1>1, <1>2 DEF TransferInv, AloneUntilMixed, Restored
  <2>2. ~mixed /\ log' \in {database', Nothing}
    BY <1>1, <2>1 DEF TransferInv, AloneUntilMixed
  <2>3. ASSUME NEW s \in Snapshots PROVE Staging(s)'
    <3>1. import[s] \in Finishing => daemon' # "on" /\ log' = log
      <4>1. import[s] \in Finishing => s \in UnderWay
        BY DEF UnderWay, Finishing, ImportEnds
      <4>2. QED
        BY <1>1, <2>1, <4>1
    <3>2. Staging(s)
      BY <2>2 DEF TransferInv, AloneUntilMixed
    <3>3. QED
      BY <1>2, <3>1, <3>2 DEF Staging, Finishing
  <2>4. QED
    BY <2>2, <2>3
<1>6. QED
  BY <1>3, <1>4, <1>5 DEF TransferInv

-----------------------------------------------------------------------------

LEMMA TransferBegins == TransferInit => TransferInv
<1> SUFFICES ASSUME TransferInit PROVE TransferInv
  OBVIOUS
<1>1. TransferTypeOK
  <2>1. "waiting" \in ExportSteps /\ "waiting" \in ImportSteps
    BY DEF ExportSteps, ImportSteps
  <2>2. /\ export \in [Snapshots -> ExportSteps] /\ import \in [Snapshots -> ImportSteps]
        /\ restart \in [Snapshots -> BOOLEAN] /\ settings \in [SettingsFiles -> Origins]
        /\ bundle \in [Snapshots -> (SUBSET Parts) \cup {Nothing}]
    BY <2>1 DEF TransferInit, Origins
  <2>3. /\ staged = Nothing /\ database \in Origins /\ log \in Origins \cup {Nothing}
        /\ daemon \in {"off", "on", "restarting"}
    BY DEF TransferInit, Origins
  <2>4. faults \in 0 .. MaxTransferFaults
    BY FaultsAssumption DEF TransferInit
  <2>5. mixed \in BOOLEAN
    BY DEF TransferInit
  <2>6. QED
    BY <2>2, <2>3, <2>4, <2>5 DEF TransferTypeOK
<1>2. \A s \in Snapshots : BundleWritten(s) /\ ImportedFromWhole(s)
  BY DEF TransferInit, BundleWritten, ImportedFromWhole
<1>3. AloneUntilMixed
  BY DEF TransferInit, AloneUntilMixed, UnderWay, Staging, Restored, Finishing
<1>4. QED
  BY <1>1, <1>2, <1>3 DEF TransferInv

LEMMA TransferStep == TransferInv /\ [TransferNext]_transferVars => TransferInv'
<1> SUFFICES ASSUME TransferInv, [TransferNext]_transferVars PROVE TransferInv'
  OBVIOUS
<1>1. ASSUME NEW s \in Snapshots,
             CreateDirectory(s) \/ WritePart(s) \/ ExportFails(s) \/ RemoveDirectory(s)
      PROVE  TransferInv'
  BY <1>1, ExportKeepsTransfer
<1>2. ASSUME NEW s \in Snapshots, StartImport(s) PROVE TransferInv'
  BY <1>2, StartImportKeepsTransfer
<1>3. ASSUME NEW s \in Snapshots, RemoveStaged(s) \/ CopySnapshot(s) \/ MigrateStaged(s)
      PROVE  TransferInv'
  BY <1>3, StagingKeepsTransfer
<1>4. ASSUME NEW s \in Snapshots,
             AskForServer(s) \/ StopServer(s) \/ CheckStaged(s) \/ RemoveCompanions(s)
      PROVE  TransferInv'
  BY <1>4, StoppingKeepsTransfer
<1>5. ASSUME NEW s \in Snapshots, ReplaceDatabase(s) PROVE TransferInv'
  BY <1>5, ReplaceKeepsTransfer
<1>6. ASSUME NEW s \in Snapshots, RestoreSettings(s) PROVE TransferInv'
  BY <1>6, RestoreKeepsTransfer
<1>7. ASSUME NEW s \in Snapshots, StartServer(s) \/ ImportFails(s) PROVE TransferInv'
  BY <1>7, EndKeepsTransfer
<1>8. CASE ServerDies \/ SomebodyStarts
  BY <1>8, DaemonKeepsTransfer
<1>9. CASE UNCHANGED transferVars
  <2>1. UNCHANGED <<bundle, export, import, restart, staged, settings, database, log, daemon,
                    faults, mixed>>
    BY <1>9 DEF transferVars, exporting, importing, live
  <2>2. QED
    BY <2>1 DEF TransferInv, TransferTypeOK, BundleWritten, ImportedFromWhole, AloneUntilMixed,
                UnderWay, Staging, Restored, Origins, StagedFiles
<1>10. QED
  BY <1>1, <1>2, <1>3, <1>4, <1>5, <1>6, <1>7, <1>8, <1>9 DEF TransferNext

LEMMA TransferInvHolds == TransferSpec => []TransferInv
BY TransferBegins, TransferStep, PTL DEF TransferSpec

\* The variables of exports and imports keep their types (data.rs, snapshot.rs).
THEOREM TransfersAreTyped == TransferSpec => []TransferTypeOK
<1>1. TransferInv => TransferTypeOK
  BY DEF TransferInv
<1>2. QED
  BY <1>1, TransferInvHolds, PTL

\* Unless imports overlap or a server starts under one, the database never has
\* the log of another, and an import that reports success left its database and
\* both of its settings files (snapshot.rs replace_database_file, data.rs
\* finish_import).
THEOREM ImportsTakeTheWhole == TransferSpec => []ImportsAreWhole
<1>1. TransferInv => ImportsAreWhole
  <2>1. SUFFICES ASSUME TransferInv, ~mixed PROVE ImportsAreWhole
    BY DEF ImportsAreWhole
  <2>2. log \in {database, Nothing}
    BY <2>1 DEF TransferInv, AloneUntilMixed
  <2>3. ASSUME NEW s \in Snapshots, import[s] = "imported"
        PROVE  /\ bundle[s] = Parts
               /\ (\A other \in Snapshots \ {s} : import[other] = "waiting") =>
                    database = s /\ settings = [f \in SettingsFiles |-> s]
    <3>1. bundle[s] = Parts
      BY <2>1, <2>3 DEF TransferInv, ImportedFromWhole
    <3>2. ASSUME \A other \in Snapshots \ {s} : import[other] = "waiting"
          PROVE  database = s /\ settings = [f \in SettingsFiles |-> s]
      <4>1. database = s /\ settings["config"] = s /\ settings["titles"] = s
        BY <2>1, <2>3, <3>2 DEF TransferInv, AloneUntilMixed, Restored
      <4>2. settings \in [SettingsFiles -> Origins]
        BY <2>1 DEF TransferInv, TransferTypeOK
      <4>3. QED
        BY <4>1, <4>2 DEF SettingsFiles
    <3>3. QED
      BY <3>1, <3>2
  <2>4. QED
    BY <2>2, <2>3 DEF ImportsAreWhole
<1>2. QED
  BY <1>1, TransferInvHolds, PTL

\* What is promised of the database as a whole, when both are at work on their
\* own: imports and exports, and releases of the server (snapshot.rs,
\* migrations.rs, lib.rs run_resident, server.rs run).
THEOREM TheDatabaseStaysWhole == TransferSpec /\ UpgradeSpec => []DatabaseStaysWhole
<1>1. TransferTypeOK /\ UpgradeTypeOK /\ ImportsAreWhole /\ UpgradesAreWhole
        /\ ServesItsRelease /\ StopsOnlyForASuccessor => DatabaseStaysWhole
  BY DEF DatabaseStaysWhole
<1>2. QED
  BY <1>1, TransfersAreTyped, ImportsTakeTheWhole, UpgradesAreTyped, NoUpgradeIsPartial,
     ServersServeTheirRelease, OnlySuccessorsReplace, PTL

=============================================================================
