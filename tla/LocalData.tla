----------------------------- MODULE LocalData -----------------------------
(***************************************************************************)
(* What the program keeps on the local disk: the directories of projects,  *)
(* the numbers of their tasks, the registry, study notes, and the socket.  *)
(***************************************************************************)
EXTENDS ProjectRename, TaskSequence, ProjectStore, StudyNotes, ServerSocket

\* Every part has its types, and keeps what its other properties rest on: one
\* rename owns the staging directory, no two creations hold one number, a
\* creation that tries again finds a counter, no two projects have one title
\* or one directory, and the cache has bounds (project_rename.rs,
\* task_sequence.rs, add_task.rs, add_project.rs, task_location.rs, cache.rs).
LocalTypeOK ==
    /\ TypeOK /\ StagingOwned
    /\ SequenceTypeOK /\ NumbersNotShared /\ SeededBeforeRetry
    /\ StoreTypeOK /\ ProjectsApart /\ CacheBounded
    /\ NotesTypeOK /\ SocketTypeOK

=============================================================================
