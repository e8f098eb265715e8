---------------------------- MODULE MCTaskQueries ----------------------------
(* The task board by itself, listings of it, and graphs of its tasks. *)
EXTENDS TaskQueries, TLC

CONSTANTS none, a, b

VARIABLE part

EmptyBoard == [id \in TaskIds |-> NoTask]

\* Three unlinked tasks; the second has the first title.
PagesBoard ==
    [id \in TaskIds |-> NewTask({}, IF id = 2 THEN 1 ELSE 2)]

\* Every way three tasks can wait for one another, one of them done or not.
GraphBoards ==
    {[id \in TaskIds |->
        [status |-> status[id], blocked_by |-> blockers[id], text |-> 1,
         completed |-> status[id] = "done"]] :
        blockers \in {links \in [TaskIds -> SUBSET TaskIds] :
                        \A id \in TaskIds : \A other \in links[id] : other > id},
        status \in {[id \in TaskIds |-> "active"], [id \in TaskIds |-> IF id = 2 THEN "done" ELSE "active"]}}

MCInitialVaults == {EmptyBoard, PagesBoard} \cup GraphBoards

MCProjectOf == [id \in TaskIds |-> IF id < 3 THEN a ELSE b]

MCScan == <<{id \in TaskIds : MCProjectOf[id] = a}, {id \in TaskIds : MCProjectOf[id] = b}>>

Listing(field, ascending, detailed, cap, size, status) ==
    [status |-> status, field |-> field, ascending |-> ascending,
     detailed |-> detailed, cap |-> cap, size |-> size]

MCQueries ==
    {Listing("id", TRUE, TRUE, none, 1, "active"),
     Listing("title", TRUE, FALSE, 2, 1, "all"),
     Listing("id", FALSE, FALSE, none, none, "all")}

MCGraphQueries ==
    [root: {1}, directions: {{"blocked_by"}}, depth: {none, 1, 2}, shown: {Statuses, {"active"}}]
    \cup [root: {2}, directions: {Directions}, depth: {none, 1}, shown: {Statuses}]
    \cup [root: {3}, directions: {{"blocks"}}, depth: {none, 1}, shown: {Statuses, {"active"}}]

MCConditions ==
    {[projects |-> [p \in Projects |-> "there"], damaged |-> {}],
     [projects |-> [p \in Projects |-> "there"], damaged |-> {3}],
     [projects |-> [p \in Projects |-> IF p = b THEN "missing" ELSE "there"], damaged |-> {}],
     [projects |-> [p \in Projects |-> IF p = b THEN "unreadable" ELSE "there"], damaged |-> {}]}

MCInit ==
    /\ PagesInit
    /\ GraphInit
    /\ \/ part = "board" /\ board = EmptyBoard
       \/ part = "pages" /\ board = PagesBoard
       \/ part = "graph" /\ board \in GraphBoards
    /\ part # "graph" => asked = CHOOSE q \in GraphQueries : TRUE
    /\ part # "graph" => condition = CHOOSE some \in Conditions : TRUE

\* Listings do not tell apart who waits for whom.
NoLinks == \A id \in TaskIds : BlockersOf(board', id) = {}

\* Commands run only beside queries that meet no other obstacle.
FewChanges ==
    graphChanges' # graphChanges =>
        /\ asked.depth = none
        /\ condition.damaged = {}
        /\ \A p \in Projects : condition.projects[p] = "there"
        /\ \A id \in Existing(board') : board'[id].text = 1

MCNext ==
    /\ UNCHANGED part
    /\ \/ part = "board" /\ Next /\ UNCHANGED <<clients, snapshots, listings, changes, graphVars>>
       \/ part = "pages" /\ PagesNext /\ NoLinks /\ UNCHANGED graphVars
       \/ part = "graph" /\ GraphNext /\ FewChanges /\ UNCHANGED <<clients, snapshots, listings, changes>>

MCSpec == MCInit /\ [][MCNext]_<<vars, graphVars, part>>

MCSymmetry == Permutations(Clients)

=============================================================================
