----------------------- MODULE ProjectSnapshotsProofs -----------------------
(***************************************************************************)
(* What the snapshot worker writes, for any number of projects and any     *)
(* history of edits, failures, shutdowns and crashes: its variables keep   *)
(* their types, at most one refresh comes late, and a refresh shows the    *)
(* round it belongs to.                                                    *)
(***************************************************************************)
EXTENDS ProjectSnapshots, TLAPS

\* Versions count the changes, and the index keeps no version from the future.
VersionsCounted ==
    \A p \in Projects :
        /\ tasks[p] <= changes /\ notes[p] <= changes
        /\ indexed[p] # NotIndexed => indexed[p] <= tasks[p]

\* What the round still has to refresh is not what it is refreshing, and a
\* worker between rounds has nothing left.
ListedOnce ==
    /\ current \notin listed
    /\ at \in {"listing", "waiting", "stopped"} => listed = {}
    /\ server = "stopped" => at = "stopped"

\* A disabled project was refreshed once at most, and not yet if its refresh is
\* still to come.
LateWritesCounted ==
    \A p \in Projects :
        /\ lateWrites[p] <= 1
        /\ p \in enabled \cup listed \cup {current} => lateWrites[p] = 0

\* The index never knows less than when the round began, and neither does the
\* refresh once it has read the tasks.
RoundKnown ==
    /\ \A p \in Projects : roundTasks[p] <= Known(p)
    /\ at \in {"reading_notes", "observing", "replacing"} =>
         roundTasks[current] <= read.tasks /\ read.tasks <= tasks[current]

Inv == TypeOK /\ VersionsCounted /\ ListedOnce /\ LateWritesCounted /\ RoundKnown

\* What a reader of the index gets is a version of the tasks.
LEMMA KnownIsVersion ==
    ASSUME Inv, NEW p \in Projects
    PROVE  Known(p) \in Versions /\ Known(p) <= tasks[p]
BY SnapshotsAssumption DEF Inv, TypeOK, VersionsCounted, Known, Versions

LEMMA InitInv == Init => Inv
<1> SUFFICES ASSUME Init PROVE Inv
  OBVIOUS
<1>1. 0 \in Versions /\ Nothing \in Indexes /\ changes = 0
  BY SnapshotsAssumption DEF Init, Versions, Indexes, Nothing
<1>2. TypeOK
  BY <1>1, SnapshotsAssumption DEF Init, TypeOK, Pages
<1>3. VersionsCounted /\ ListedOnce /\ LateWritesCounted
  BY <1>1, SnapshotsAssumption DEF Init, VersionsCounted, ListedOnce, LateWritesCounted
<1>4. RoundKnown
  BY <1>1 DEF Init, RoundKnown, Known
<1>5. QED
  BY <1>2, <1>3, <1>4 DEF Inv

-----------------------------------------------------------------------------
(* The worker. *)

\* Steps between two refreshes leave the files alone.
LEMMA RoundStepsKeepInv ==
    ASSUME Inv, List \/ ListFails \/ (\E p \in Projects : Take(p)) \/ Rest \/ Wake \/ Stop
    PROVE  Inv'
<1> USE DEF List, ListFails, Take, Rest, Wake, Stop, registry, files, refresh, counters
<1>1. TypeOK'
  BY KnownIsVersion, SnapshotsAssumption DEF Inv, TypeOK
<1>2. VersionsCounted' /\ ListedOnce'
  BY SnapshotsAssumption DEF Inv, TypeOK, VersionsCounted, ListedOnce
<1>3. LateWritesCounted'
  BY SnapshotsAssumption DEF Inv, TypeOK, ListedOnce, LateWritesCounted
<1>4. RoundKnown'
  BY KnownIsVersion DEF Inv, TypeOK, RoundKnown, Known, Versions
<1>5. QED
  BY <1>1, <1>2, <1>3, <1>4 DEF Inv

LEMMA ReadsKeepInv ==
    ASSUME Inv, ReadTasks \/ ReadNotes \/ Observe
    PROVE  Inv'
<1> USE DEF GoOn, registry, files, refresh, counters
<1>1. current \in Projects /\ at \in {"reading_tasks", "reading_notes", "observing"}
  BY DEF Inv, TypeOK, ReadTasks, ReadNotes, Observe
<1>2. Known(current) \in Versions /\ Known(current) <= tasks[current] /\ current # None
  BY <1>1, KnownIsVersion, SnapshotsAssumption
<1>3. CASE ReadTasks
  <2>1. TypeOK'
    BY <1>1, <1>2, <1>3, SnapshotsAssumption DEF ReadTasks, Inv, TypeOK, Indexes
  <2>2. VersionsCounted' /\ ListedOnce' /\ LateWritesCounted'
    BY <1>1, <1>2, <1>3, SnapshotsAssumption
       DEF ReadTasks, Inv, TypeOK, VersionsCounted, ListedOnce, LateWritesCounted
  <2>3. \A p \in Projects : Known(p)' = Known(p)
    BY <1>1, <1>2, <1>3, SnapshotsAssumption DEF ReadTasks, Inv, TypeOK, Known, Versions
  <2>4. RoundKnown'
    BY <1>1, <1>2, <1>3, <2>3 DEF ReadTasks, Inv, TypeOK, RoundKnown, Indexes
  <2>5. QED
    BY <2>1, <2>2, <2>4 DEF Inv
<1>4. CASE ReadNotes \/ Observe
  <2>1. TypeOK'
    BY <1>1, <1>2, <1>4, SnapshotsAssumption DEF ReadNotes, Observe, Inv, TypeOK, Indexes
  <2>2. VersionsCounted' /\ ListedOnce' /\ LateWritesCounted'
    BY <1>1, <1>2, <1>4, SnapshotsAssumption
       DEF ReadNotes, Observe, Inv, TypeOK, VersionsCounted, ListedOnce, LateWritesCounted
  <2>3. RoundKnown'
    BY <1>1, <1>2, <1>4 DEF ReadNotes, Observe, Inv, TypeOK, RoundKnown, Known, Indexes
  <2>4. QED
    BY <2>1, <2>2, <2>3 DEF Inv
<1>5. QED
  BY <1>3, <1>4

LEMMA ReplaceKeepsInv ==
    ASSUME Inv, Replace
    PROVE  Inv'
<1> USE DEF Replace, GoOn, registry, counters
<1>1. current \in Projects /\ current # None /\ current \notin listed /\ at = "replacing"
  BY SnapshotsAssumption DEF Inv, TypeOK, ListedOnce
<1>2. TypeOK'
  BY <1>1, SnapshotsAssumption DEF Inv, TypeOK, LateWritesCounted, Pages
<1>3. VersionsCounted' /\ ListedOnce' /\ RoundKnown'
  BY <1>1, SnapshotsAssumption DEF Inv, TypeOK, VersionsCounted, ListedOnce, RoundKnown, Known
<1>4. LateWritesCounted'
  BY <1>1, SnapshotsAssumption DEF Inv, TypeOK, LateWritesCounted
<1>5. QED
  BY <1>2, <1>3, <1>4 DEF Inv

-----------------------------------------------------------------------------
(* The server and the world. *)

LEMMA ServerStepsKeepInv ==
    ASSUME Inv, Shutdown \/ Stopped \/ Crash \/ Start \/ \E p \in Projects : Notice(p)
    PROVE  Inv'
<1> USE DEF Shutdown, Stopped, Crash, Start, Notice, registry, files, refresh, counters
<1>1. TypeOK'
  BY SnapshotsAssumption DEF Inv, TypeOK, ListedOnce, Nothing, Indexes, Versions
<1>2. VersionsCounted' /\ ListedOnce'
  BY SnapshotsAssumption DEF Inv, TypeOK, VersionsCounted, ListedOnce
<1>3. LateWritesCounted'
  BY SnapshotsAssumption DEF Inv, TypeOK, LateWritesCounted
<1>4. \A p \in Projects : Known(p)' \in {Known(p), tasks[p]} /\ Known(p) <= Known(p)'
  BY KnownIsVersion DEF Inv, TypeOK, Known, Versions
<1>5. RoundKnown'
  BY <1>4, KnownIsVersion DEF Inv, TypeOK, ListedOnce, RoundKnown, Versions
<1>6. QED
  BY <1>1, <1>2, <1>3, <1>5 DEF Inv

LEMMA ChangeKeepsInv ==
    ASSUME Inv, Change
    PROVE  Inv'
<1> USE DEF Change, registry, files, refresh, counters
<1>1. changes' = changes + 1 /\ changes \in Nat /\ changes' \in 0 .. MaxChanges
  BY SnapshotsAssumption DEF Inv, TypeOK
<1>2. PICK p \in Projects : SetEnabled(p) \/ EditFiles(p)
  OBVIOUS
<1>3. CASE SetEnabled(p)
  <2>1. TypeOK' /\ VersionsCounted' /\ ListedOnce'
    BY <1>1, <1>2, <1>3, SnapshotsAssumption
       DEF SetEnabled, Inv, TypeOK, VersionsCounted, ListedOnce, Versions
  <2>2. LateWritesCounted' /\ RoundKnown'
    BY <1>1, <1>2, <1>3 DEF SetEnabled, Inv, TypeOK, LateWritesCounted, RoundKnown, Known
  <2>3. QED
    BY <2>1, <2>2 DEF Inv
<1>4. CASE EditFiles(p)
  <2>1. tasks[p] + 1 \in Versions /\ notes[p] + 1 \in Versions
    BY <1>1, <1>2, SnapshotsAssumption DEF Inv, TypeOK, VersionsCounted, Versions
  <2>2. /\ \A q \in Projects : tasks[q] <= tasks'[q] /\ tasks'[q] <= changes'
        /\ \A q \in Projects : notes'[q] <= changes'
        /\ tasks' \in [Projects -> Versions] /\ notes' \in [Projects -> Versions]
    BY <1>1, <1>2, <1>4, <2>1 DEF EditFiles, Inv, TypeOK, VersionsCounted, Versions
  <2>3. /\ \A q \in Projects : indexed'[q] \in {indexed[q], NotIndexed}
        /\ indexed' \in [Projects -> Versions \cup {NotIndexed}]
        /\ page' \in [Projects -> Pages] /\ unreadable' \subseteq Projects
        /\ UNCHANGED <<enabled, lateWrites, at, listed, current, read, observed, server,
                       roundTasks, disruptions>>
    BY <1>1, <1>2, <1>4 DEF EditFiles, Inv, TypeOK, Pages
  <2>4. TypeOK' /\ ListedOnce' /\ LateWritesCounted'
    BY <1>1, <2>2, <2>3 DEF Inv, TypeOK, ListedOnce, LateWritesCounted
  <2>5. VersionsCounted'
    BY <2>2, <2>3 DEF Inv, TypeOK, VersionsCounted, Versions
  <2>6. \A q \in Projects : Known(q) <= Known(q)'
    BY <2>2, <2>3, KnownIsVersion DEF Inv, TypeOK, Known, Versions
  <2>7. RoundKnown'
    BY <2>2, <2>3, <2>6, KnownIsVersion DEF Inv, TypeOK, RoundKnown, Versions, Known, Indexes
  <2>8. QED
    BY <2>4, <2>5, <2>7 DEF Inv
<1>5. QED
  BY <1>2, <1>3, <1>4

LEMMA NextKeepsInv == Inv /\ [Next]_vars => Inv'
<1> SUFFICES ASSUME Inv, [Next]_vars PROVE Inv'
  OBVIOUS
<1>1. CASE Work
  BY <1>1, RoundStepsKeepInv, ReadsKeepInv, ReplaceKeepsInv DEF Work
<1>2. CASE Shutdown \/ Stopped \/ Crash \/ Start \/ \E p \in Projects : Notice(p)
  BY <1>2, ServerStepsKeepInv
<1>3. CASE Change
  BY <1>3, ChangeKeepsInv
<1>4. CASE UNCHANGED vars
  BY <1>4 DEF vars, registry, files, refresh, counters, Inv, TypeOK, VersionsCounted, ListedOnce,
              LateWritesCounted, RoundKnown, Known
<1>5. QED
  BY <1>1, <1>2, <1>3, <1>4 DEF Next

LEMMA Invariance == Init /\ [][Next]_vars => []Inv
BY InitInv, NextKeepsInv, PTL

\* The worker's variables keep their types, and it has a current project exactly
\* while it refreshes one (snapshots.rs SnapshotWorker).
THEOREM SnapshotsAreTyped == Spec => []TypeOK
<1>1. Inv => TypeOK
  BY DEF Inv
<1>2. QED
  BY <1>1, Invariance, PTL DEF Spec

\* After snapshots were disabled at most the refresh that the round had listed
\* already comes (snapshots.rs refresh_enabled).
THEOREM OneRefreshComesLate == Spec => []OneLateRefreshAtMost
<1>1. Inv => OneLateRefreshAtMost
  BY DEF Inv, LateWritesCounted, OneLateRefreshAtMost
<1>2. QED
  BY <1>1, Invariance, PTL DEF Spec

\* A refresh shows the tasks of a moment of its round and comes from a running
\* server (project_snapshot.rs refresh).
THEOREM RefreshesShowTheirRound == Spec => RefreshShowsTheRound
<1> DEFINE Shows(p) == page'[p] # page[p] /\ page'[p] \in Indexes =>
                         /\ page'[p].tasks \in roundTasks[p] .. tasks[p]
                         /\ server # "stopped"
<1>1. ASSUME Inv, [Next]_vars, NEW p \in Projects PROVE Shows(p)
  <2> SUFFICES ASSUME page'[p] # page[p], page'[p] \in Indexes
               PROVE  page'[p].tasks \in roundTasks[p] .. tasks[p] /\ server # "stopped"
    OBVIOUS
  <2>1. page'[p] # Authored /\ page' # page
    BY SnapshotsAssumption DEF Indexes, Versions
  <2>2. ~Change
    BY <1>1, <2>1 DEF Change, SetEnabled, EditFiles, files, Inv, TypeOK
  <2>3. Replace
    BY <1>1, <2>1, <2>2 DEF Next, Work, List, ListFails, Take, Rest, Wake, ReadTasks, ReadNotes,
                            Observe, Stop, Shutdown, Stopped, Crash, Start, Notice, vars, files
  <2>4. p = current /\ page'[p] = read /\ at = "replacing"
    BY <1>1, <2>1, <2>3 DEF Replace, Inv, TypeOK
  <2>5. QED
    BY <1>1, <2>4 DEF Inv, TypeOK, RoundKnown, ListedOnce, Indexes, Versions
<1>2. Inv /\ [Next]_vars => [\A p \in Projects : Shows(p)]_vars
  BY <1>1
<1>3. QED
  BY <1>2, Invariance, PTL DEF Spec, RefreshShowsTheRound
=============================================================================
