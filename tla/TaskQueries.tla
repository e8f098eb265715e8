---------------------------- MODULE TaskQueries ----------------------------
(***************************************************************************)
(* What is asked of the task board: listings that are read page by page,   *)
(* and graphs of the dependencies of a task.                               *)
(***************************************************************************)
EXTENDS TaskPages, TaskGraph

\* Every part has its types, and what the server keeps for its clients has
\* bounds: the stored listings (snapshots.rs first_page), and the nodes and
\* edges of a graph (get_task_dag.rs add_node and add_directional_edge).
QueriesTypeOK == PagesTypeOK /\ GraphTypeOK /\ SnapshotsBounded

=============================================================================
