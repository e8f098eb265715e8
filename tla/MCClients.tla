------------------------------ MODULE MCClients ------------------------------
(* Sessions of the terminal interface, by what the user starts in them,     *)
(* dispatches of agent sessions, and sessions of the editor.                *)
EXTENDS Clients, TLC

CONSTANTS
    t1, t2,
    before,   \* what the tasks say at first
    p,        \* a project
    Chosen    \* the sessions of a run

VARIABLE session

\* How many requests the user starts, of which kinds, and how many contents the
\* task comes to meanwhile.
Terminals ==
    [browsing |-> [limit |-> 2, contents |-> 2, kinds |-> (Reads \cup Writes) \ {"create", "edit"}],
     creation |-> [limit |-> 3, contents |-> 1, kinds |-> {"create", "inspect"}],
     editing |-> [limit |-> 4, contents |-> 3, kinds |-> {"target", "edit", "inspect"}],
     elsewhere |-> [limit |-> 5, contents |-> 1, kinds |-> {"template", "load", "create", "inspect"}]]

\* A dispatch to Claude plans two tasks, one to Codex a single one.
MCPlans == {<<t1, t2>>, <<t1>>}

\* Outside its session each part is at its end.  Nothing tells the projects
\* apart, so that one stands for all of them at first;
\* an edit is of the one task, whatever the scope.
MCInit ==
    /\ TerminalInit
    /\ DispatchInit
    /\ PluginInit
    /\ session \in Chosen
    /\ scope \in {p, Everything}
    /\ session \in {"editing", "dispatch", "plugin"} => scope = Everything
    /\ \A t \in Tasks : tasks[t].text = before
    /\ session # "dispatch" => (\A t \in Tasks : tasks[t].active) /\ agent = "claude"
    /\ agent = "codex" <=> Len(plan.tasks) = 1

\* Started by the user, not by a result.
Starts == pending = Absent /\ requests' # requests

\* Others bring the task to contents that it never had.
OthersAdd == holds' # holds /\ applied' = applied

InTerminal(step) ==
    /\ session \in DOMAIN Terminals
    /\ step
    /\ UNCHANGED <<dispatchVars, pluginVars, session>>

InDispatch(step) ==
    /\ session = "dispatch"
    /\ step
    /\ \A t \in Tasks : tasks'[t] # tasks[t] => \E i \in DOMAIN plan.tasks : plan.tasks[i] = t
    /\ UNCHANGED <<terminalVars, pluginVars, session>>

InPlugin(step) ==
    /\ session = "plugin"
    /\ step
    /\ UNCHANGED <<terminalVars, dispatchVars, session>>

MCNext ==
    \/ /\ InTerminal(TerminalNext)
       /\ Len(holds') <= Terminals[session].contents
       /\ OthersAdd => Len(holds') = 2
       /\ Starts => /\ requests' <= Terminals[session].limit
                    /\ worker'.work.kind \in Terminals[session].kinds
    \/ InDispatch(DispatchNext)
    \/ InPlugin(PluginNext)

allVars == <<terminalVars, dispatchVars, pluginVars, session>>

\* The fairness of each part, where it runs.  A step of one part is enabled
\* in no session of another, so that one condition serves for several parts.
MCFairness ==
    /\ WF_allVars(InTerminal(WorkerStep) \/ InDispatch(DispatchStep) \/ InPlugin(ElapseAny))
    /\ WF_allVars(InTerminal(TakeEvent) \/ InDispatch(Decline) \/ InPlugin(RunAny))
    /\ WF_allVars(InDispatch(EndCommand))
    /\ SF_allVars(InDispatch(Lock))

MCSpec == MCInit /\ [][MCNext]_allVars /\ MCFairness

SomethingRuns == RequestRuns \/ (session = "dispatch" /\ DispatchRuns) \/ CallRuns

\* Every request of the interface, every dispatch and every call of the plugin
\* ends, the first by its deadline, the second by those of the app server and
\* the third by its timer (backend.rs run, client.rs request, client.lua
\* M.request), and the dispatch gives the lock back.
EveryRequestEnds == SomethingRuns ~> ~SomethingRuns

=============================================================================
