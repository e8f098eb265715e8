------------------------------ MODULE TaskGraph ------------------------------
(***************************************************************************)
(* The dependency graph of one task.  A depth-first search follows the     *)
(* blockers, the dependents or both, from project to project, and each     *)
(* project is read once: when the search first comes to one of its tasks   *)
(* or, when dependents are wanted, before it starts.  Task commands change *)
(* the board between those reads.                                          *)
(***************************************************************************)
EXTENDS TaskBoard, Sequences

CONSTANTS
    ProjectOf,        \* the project of each task id
    GraphQueries,     \* what is asked: root, directions, depth and filter
    NoDepth,          \* a query without a depth limit
    Conditions,       \* which projects and files cannot be read
    MaxNodes,         \* TaskDag::NODE_COUNT_MAX, 512 in the code
    MaxEdges,         \* TaskDag::EDGE_COUNT_MAX, 2048 in the code
    MaxGraphChanges   \* how often the board changes during a query

Projects == {ProjectOf[id] : id \in TaskIds}
Directions == {"blocked_by", "blocks"}

ASSUME GraphQueriesAssumption ==
    GraphQueries \subseteq
        [root: TaskIds, directions: (SUBSET Directions) \ {{}},
         depth: (Nat \ {0}) \cup {NoDepth}, shown: SUBSET Statuses]
ASSUME GraphLimitsAssumption ==
    MaxNodes \in Nat \ {0} /\ MaxEdges \in Nat /\ MaxGraphChanges \in Nat
ASSUME ConditionsAssumption ==
    Conditions \subseteq
        [projects: [Projects -> {"there", "missing", "unreadable"}], damaged: SUBSET TaskIds]

VARIABLES
    asked,      \* the query
    condition,  \* what it meets
    phase,      \* what the query is doing, or how it ended
    reads,      \* Resolver.projects: each project as the query read it
    direction,  \* the traversal in progress
    marks,      \* VisitState of its tasks
    path,       \* its stack: the tasks being visited and what is left beside each
    nodes,      \* GraphBuilder.nodes
    edges,      \* GraphBuilder.edges, from blocker to dependent
    graphChanges

traversal == <<direction, marks, path>>
result == <<nodes, edges>>
graphVars == <<asked, condition, phase, reads, traversal, result, graphChanges>>

Endings == {"answered", "not_found", "unreadable", "cycle", "too_large", "invalid"}
Reads == [state: {"unread", "there", "missing", "unreadable"}, tasks: Vaults]

\* A node stands for a task or for what the depth limit cuts off beside one.
Nodes ==
    [kind: {"found", "missing", "unavailable"}, id: TaskIds]
        \cup [kind: {"limit"}, id: TaskIds, direction: Directions]

GraphTypeOK ==
    /\ TypeOK
    /\ asked \in GraphQueries
    /\ condition \in Conditions
    /\ phase \in {"start", "gather", "walk"} \cup Endings
    /\ reads \in [Projects -> Reads]
    /\ direction \in Directions
    /\ marks \in [TaskIds -> {"new", "visiting", "complete"}]
    /\ path \in Seq([id: TaskIds, rest: Seq(TaskIds)])
    /\ nodes \subseteq Nodes
    /\ edges \subseteq Nodes \X Nodes
    /\ Cardinality(nodes) <= MaxNodes
    /\ Cardinality(edges) <= MaxEdges
    /\ graphChanges \in 0 .. MaxGraphChanges

GraphInit ==
    /\ Init
    /\ asked \in GraphQueries
    /\ condition \in Conditions
    /\ phase = "start"
    /\ reads = [p \in Projects |-> [state |-> "unread", tasks |-> [id \in TaskIds |-> NoTask]]]
    /\ direction = "blocked_by"
    /\ marks = [id \in TaskIds |-> "new"]
    /\ path = <<>>
    /\ nodes = {}
    /\ edges = {}
    /\ graphChanges = 0

-----------------------------------------------------------------------------
\* The projects of ids are read as they are now, those read before stay.
ReadFor(ids) ==
    [p \in Projects |->
        IF reads[p].state = "unread" /\ \E id \in ids : ProjectOf[id] = p
        THEN [state |-> condition.projects[p],
              tasks |-> [id \in TaskIds |->
                            IF condition.projects[p] = "there" /\ ProjectOf[id] = p
                            THEN board[id] ELSE NoTask]]
        ELSE reads[p]]

\* What the query knows of a task.
Resolved(read, id) ==
    LET project == read[ProjectOf[id]]
    IN  CASE project.state = "unreadable" -> "unavailable"
          [] project.tasks[id] = NoTask /\ project.state # "unreadable" -> "missing"
          [] project.tasks[id] # NoTask ->
                IF id \in condition.damaged THEN "unavailable" ELSE "found"

Visible(read, id) ==
    Resolved(read, id) = "found" => read[ProjectOf[id]].tasks[id].status \in asked.shown

BlockersRead(read, id) ==
    IF Resolved(read, id) = "found" THEN read[ProjectOf[id]].tasks[id].blocked_by ELSE {}

\* What is beside a task.  A query for dependents has read every project, so its
\* dependents are those among all tasks.
Adjacent(read, id, towards) ==
    IF towards = "blocked_by" THEN BlockersRead(read, id)
    ELSE {other \in TaskIds : id \in BlockersRead(read, other)}

InOrder(ids) ==
    CHOOSE s \in [1 .. Cardinality(ids) -> ids] :
        \A i, j \in 1 .. Cardinality(ids) : i < j => s[i] < s[j]

TaskNode(read, id) == [kind |-> Resolved(read, id), id |-> id]
LimitNode(id) == [kind |-> "limit", id |-> id, direction |-> direction]

Edge(current, beside) ==
    IF direction = "blocked_by" THEN <<beside, current>> ELSE <<current, beside>>

\* Mutant: the limits are compared with what is there before a node is added.
FitsOneMore(allNodes, allEdges) ==
    Cardinality(allNodes) <= MaxNodes + 1 /\ Cardinality(allEdges) <= MaxEdges + 1

Fits(allNodes, allEdges) ==
    Cardinality(allNodes) <= MaxNodes /\ Cardinality(allEdges) <= MaxEdges

\* The query ends without a graph.
Fail(how) ==
    /\ phase' = how
    /\ UNCHANGED <<traversal, result>>

-----------------------------------------------------------------------------
\* The root's project is read first; without a readable root there is no graph.
ReadRoot ==
    /\ phase = "start"
    /\ reads' = ReadFor({asked.root})
    /\ \/ Resolved(reads', asked.root) = "missing" /\ Fail("not_found")
       \/ Resolved(reads', asked.root) = "unavailable" /\ Fail("unreadable")
       \/ /\ Resolved(reads', asked.root) = "found"
          /\ phase' = "gather"
          /\ nodes' = {TaskNode(reads', asked.root)}
          /\ UNCHANGED <<traversal, edges>>
    /\ UNCHANGED <<board, asked, condition, graphChanges>>

\* A query for dependents reads every managed project before it starts; one that
\* cannot be read ends it.
GatherProject(p) ==
    /\ phase = "gather"
    /\ "blocks" \in asked.directions
    /\ reads[p].state = "unread"
    /\ condition.projects[p] # "missing"
    /\ reads' = ReadFor({id \in TaskIds : ProjectOf[id] = p})
    /\ \/ condition.projects[p] = "unreadable" /\ Fail("unreadable")
       \/ condition.projects[p] = "there" /\ UNCHANGED <<phase, traversal, result>>
    /\ UNCHANGED <<board, asked, condition, graphChanges>>

Gathered ==
    "blocks" \in asked.directions =>
        \A p \in Projects : reads[p].state = "unread" => condition.projects[p] = "missing"

\* The first traversal starts, unless a file that cannot be read hides the tasks
\* it waits for from a query for dependents.
StartWalk ==
    /\ phase = "gather"
    /\ Gathered
    /\ LET hidden == \E id \in TaskIds : Resolved(reads, id) = "unavailable"
       IN  \/ "blocks" \in asked.directions /\ hidden /\ Fail("unreadable")
           \/ /\ "blocks" \in asked.directions => ~hidden
              /\ phase' = "walk"
              /\ direction' = IF "blocked_by" \in asked.directions THEN "blocked_by" ELSE "blocks"
              /\ UNCHANGED <<marks, path, result>>
    /\ UNCHANGED <<board, asked, condition, reads, graphChanges>>

AtLimit(depth) == asked.depth # NoDepth /\ depth >= asked.depth

\* The tasks that are looked up to see whether anything visible is cut off: up to
\* the first one that is visible.
LookedUp(ids) ==
    {id \in ids : \A other \in ids : other < id => ~Visible(ReadFor(ids), other)}

\* A task is visited for the first time, depth edges away from the root.  At the
\* depth limit one node without a task stands for whatever is beside it.
Visit(id, depth, below, read, allNodes, allEdges) ==
    LET beside == Adjacent(read, id, direction)
        looked == IF AtLimit(depth) THEN LookedUp(beside) ELSE {}
        known == [p \in Projects |->
                     IF read[p].state = "unread" THEN ReadFor(looked)[p] ELSE read[p]]
        cut == \E other \in looked : Visible(known, other)
        limits == IF cut THEN {LimitNode(id)} ELSE {}
        withLimit == allEdges \cup {Edge(TaskNode(read, id), limit) : limit \in limits}
    IN  \/ ~Fits(allNodes \cup limits, withLimit) /\ Fail("too_large") /\ reads' = known
        \/ /\ Fits(allNodes \cup limits, withLimit)
           /\ reads' = known
           /\ marks' = [marks EXCEPT ![id] = "visiting"]
           /\ path' = Append(below,
                             [id |-> id,
                              rest |-> IF AtLimit(depth) THEN <<>> ELSE InOrder(beside)])
           /\ nodes' = allNodes \cup limits
           /\ edges' = withLimit
           /\ UNCHANGED <<phase, direction>>

VisitRoot ==
    /\ phase = "walk"
    /\ path = <<>>
    /\ marks[asked.root] = "new"
    /\ Visit(asked.root, 0, path, reads, nodes, edges)
    /\ UNCHANGED <<board, asked, condition, graphChanges>>

Top == path[Len(path)]

\* Mutant: a task met before closes a circle.
ClosesCircleOnceMet(id) == marks[id] # "new"

\* A task that is still being visited closes a circle.
ClosesCircle(id) == marks[id] = "visiting"

\* The next task beside the one being visited.  A hidden task ends the path; a
\* task that is complete gets its edge and is not visited again.
VisitAdjacent ==
    /\ phase = "walk"
    /\ path # <<>>
    /\ Top.rest # <<>>
    /\ LET id == Head(Top.rest)
           read == ReadFor({id})
           below == [path EXCEPT ![Len(path)].rest = Tail(@)]
           allNodes == nodes \cup {TaskNode(read, id)}
           allEdges == edges \cup {Edge(TaskNode(read, Top.id), TaskNode(read, id))}
           shown == Visible(read, id) /\ Fits(allNodes, allEdges)
           found == Resolved(read, id) = "found"
       IN  \/ /\ ~Visible(read, id)
              /\ reads' = read
              /\ path' = below
              /\ UNCHANGED <<phase, direction, marks, result>>
           \/ /\ Visible(read, id)
              /\ ~Fits(allNodes, allEdges)
              /\ reads' = read
              /\ Fail("too_large")
           \/ /\ shown
              /\ found => marks[id] # "new" /\ ~ClosesCircle(id)
              /\ reads' = read
              /\ path' = below
              /\ nodes' = allNodes
              /\ edges' = allEdges
              /\ UNCHANGED <<phase, direction, marks>>
           \/ /\ shown /\ found /\ ClosesCircle(id)
              /\ reads' = read
              /\ Fail("cycle")
           \/ /\ shown /\ found /\ marks[id] = "new"
              /\ Visit(id, Len(path), below, read, allNodes, allEdges)
    /\ UNCHANGED <<board, asked, condition, graphChanges>>

\* Everything beside a task has been seen.
Return ==
    /\ phase = "walk"
    /\ path # <<>>
    /\ Top.rest = <<>>
    /\ marks' = [marks EXCEPT ![Top.id] = "complete"]
    /\ path' = SubSeq(path, 1, Len(path) - 1)
    /\ UNCHANGED <<board, asked, condition, phase, reads, direction, result, graphChanges>>

Traversed == phase = "walk" /\ path = <<>> /\ marks[asked.root] = "complete"

\* Mutant: the second traversal takes over what the first one has visited.
BeginBlocksVisited ==
    /\ Traversed
    /\ direction = "blocked_by"
    /\ "blocks" \in asked.directions
    /\ direction' = "blocks"
    /\ UNCHANGED <<board, asked, condition, phase, reads, marks, path, result, graphChanges>>

BeginBlocks ==
    /\ Traversed
    /\ direction = "blocked_by"
    /\ "blocks" \in asked.directions
    /\ direction' = "blocks"
    /\ marks' = [id \in TaskIds |-> "new"]
    /\ UNCHANGED <<board, asked, condition, phase, reads, path, result, graphChanges>>

\* No node waits for itself over other nodes, and the root leads to all of them.
ValidGraph ==
    /\ \A some \in (SUBSET nodes) \ {{}} :
          \E n \in some : \A blocker \in some : <<blocker, n>> \notin edges
    /\ \A some \in SUBSET nodes :
          /\ TaskNode(reads, asked.root) \in some
          /\ \A e \in edges : e[1] \in some <=> e[2] \in some
          => some = nodes

\* The graph is checked once more before it is sent.
Finish ==
    /\ Traversed
    /\ direction = "blocks" \/ "blocks" \notin asked.directions
    /\ phase' = IF ValidGraph THEN "answered" ELSE "invalid"
    /\ UNCHANGED <<board, asked, condition, reads, traversal, result, graphChanges>>

\* A task command changes the board while the query runs.
ChangeDuringQuery ==
    /\ phase \notin Endings
    /\ graphChanges < MaxGraphChanges
    /\ graphChanges' = graphChanges + 1
    /\ Next
    /\ UNCHANGED <<asked, condition, phase, reads, traversal, result>>

GraphNext ==
    \/ ReadRoot
    \/ \E p \in Projects : GatherProject(p)
    \/ StartWalk
    \/ VisitRoot
    \/ VisitAdjacent
    \/ Return
    \/ BeginBlocks
    \/ Finish
    \/ ChangeDuringQuery

GraphSpec == GraphInit /\ [][GraphNext]_<<board, graphVars>>

-----------------------------------------------------------------------------
VisibleBeside(id, towards) ==
    IF Resolved(reads, id) = "found"
    THEN {other \in Adjacent(reads, id, towards) : Visible(reads, other)} ELSE {}

\* What paths of visible tasks lead to from the root.
Connected(towards) ==
    {id \in TaskIds :
        \A ids \in SUBSET TaskIds :
            (/\ asked.root \in ids
             /\ \A one \in ids : VisibleBeside(one, towards) \subseteq ids) => id \in ids}

ShownTasks == {n.id : n \in {n \in nodes : n.kind # "limit"}}

EdgesOf(towards) ==
    UNION {{IF towards = "blocked_by" THEN <<other, id>> ELSE <<id, other>> :
                other \in VisibleBeside(id, towards)} : id \in Connected(towards)}

ShownEdges ==
    {<<e[1].id, e[2].id>> : e \in {e \in edges : e[1].kind # "limit" /\ e[2].kind # "limit"}}

\* The tasks that paths of at most n visible edges lead to.
Within(towards, n) ==
    LET near[k \in 0 .. n] ==
            IF k = 0 THEN {asked.root}
            ELSE near[k - 1] \cup UNION {VisibleBeside(id, towards) : id \in near[k - 1]}
    IN  near[n]

\* The graph holds nothing but what the visible tasks connect to the root within
\* the depth limit, and without a limit all of it: whichever way a task is met
\* first, it is followed once (get_task_dag.rs visit).
GraphShowsWhatWasRead ==
    phase = "answered" =>
        LET tasks == UNION {Connected(towards) : towards \in asked.directions}
            links == UNION {EdgesOf(towards) : towards \in asked.directions}
        IN  /\ ShownTasks \subseteq tasks
            /\ ShownEdges \subseteq links
            /\ asked.depth = NoDepth => ShownTasks = tasks /\ ShownEdges = links
            /\ asked.depth # NoDepth =>
                 ShownTasks \subseteq UNION {Within(towards, asked.depth) : towards \in asked.directions}

\* A query is refused for a circle only if the tasks, as it read them, wait for
\* each other in one (get_task_dag.rs cycle_error, dag.rs try_new).  What it read
\* may be from different moments.
CirclesAreReal ==
    phase \in {"cycle", "invalid"} =>
        \E ids \in (SUBSET TaskIds) \ {{}} :
            \A id \in ids : BlockersRead(reads, id) \cap ids # {}

\* "Limit traversal to N dependency edges from the selected task"
\* (pwf-cli/src/task/dag.rs:57): every task that many edges away is shown.
DepthReached ==
    phase = "answered" /\ asked.depth # NoDepth =>
        UNION {Within(towards, asked.depth) : towards \in asked.directions} \subseteq ShownTasks

=============================================================================
