----------------------------- MODULE MCTaskGraph -----------------------------
(* The graphs of one of four tasks, up to a distance. *)
EXTENDS TaskGraph

CONSTANT a

GraphBoards ==
    {[id \in TaskIds |-> NewTask(blockers[id], 1)] :
        blockers \in {links \in [TaskIds -> SUBSET TaskIds] :
                        \A id \in TaskIds : \A other \in links[id] : other > id}}

MCProjectOf == [id \in TaskIds |-> a]

MCGraphQueries ==
    [root: {1}, directions: {{"blocked_by"}}, depth: {1, 2}, shown: {Statuses}]

MCConditions == {[projects |-> [p \in Projects |-> "there"], damaged |-> {}]}

=============================================================================
