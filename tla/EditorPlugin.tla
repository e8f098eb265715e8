---------------------------- MODULE EditorPlugin ----------------------------
(***************************************************************************)
(* The Neovim plugin: lua/pwf/client.lua shares one pwf-nvim child between *)
(* the requests that wait, and stops it with the last of them; the child   *)
(* runs every request on a task of its own.  Messages stay in a pipe until *)
(* the other side reads them, also when the writer is gone, so the answer  *)
(* of a child, its exit and the timer of a request come in any order.      *)
(* External: Neovim's jobs, channels and timers, and pwf-server.           *)
(***************************************************************************)
EXTENDS Naturals, FiniteSets

CONSTANTS
    Children,     \* the processes that can be started
    NoChild,
    MaxCalls,     \* how often M.request is called
    InFlightMax   \* REQUESTS_IN_FLIGHT_MAX, of the plugin and of the child

ASSUME PluginAssumption ==
    /\ NoChild \notin Children
    /\ MaxCalls \in Nat
    /\ InFlightMax \in Nat \ {0}

VARIABLES
    job,        \* job_id
    waiting,    \* pending: the requests whose outcome is not known yet
    calls,      \* next_request_id; refused calls are counted too
    sentTo,     \* history: the child that a request was sent to
    scheduled,  \* outcomes whose callback has not run yet
    called,     \* history: the outcomes that callbacks were given
    process,    \* what each child is doing
    unread,     \* requests in the pipe to a child
    serving,    \* requests that a child holds a permit for
    replies     \* answers in the pipe from a child

pluginVars == <<job, waiting, calls, sentTo, scheduled, called, process, unread, serving, replies>>

Calls == 1..MaxCalls

\* answered: by the child, with a value or a message; failed: by the plugin,
\* which could not send the request or waited for too long; exited: by on_exit.
CallOutcomes == {"answered", "failed", "exited"}

\* stopped: jobstop was called; exited: on_exit has not run yet.
ChildPhases == {"absent", "running", "stopped", "leaving", "exited", "gone"}
ChildAlive == {"running", "stopped", "leaving"}

PluginTypeOK ==
    /\ job \in Children \cup {NoChild}
    /\ waiting \subseteq Calls /\ Cardinality(waiting) <= InFlightMax
    /\ calls \in 0..MaxCalls
    /\ sentTo \in [Calls -> Children \cup {NoChild}]
    /\ scheduled \subseteq Calls \X CallOutcomes
    /\ called \in [Calls -> SUBSET CallOutcomes]
    /\ process \in [Children -> ChildPhases]
    /\ unread \in [Children -> SUBSET Calls]
    /\ serving \in [Children -> SUBSET Calls]
    /\ replies \in [Children -> SUBSET Calls]

PluginInit ==
    /\ job = NoChild
    /\ waiting = {}
    /\ calls = 0
    /\ sentTo = [c \in Calls |-> NoChild]
    /\ scheduled = {}
    /\ called = [c \in Calls |-> {}]
    /\ process = [p \in Children |-> "absent"]
    /\ unread = [p \in Children |-> {}]
    /\ serving = [p \in Children |-> {}]
    /\ replies = [p \in Children |-> {}]

-----------------------------------------------------------------------------
(* The plugin. *)

Stopped(p) == IF process[p] = "running" THEN [process EXCEPT ![p] = "stopped"] ELSE process

\* Only the first outcome of a request counts; the last request that waits
\* takes the child with it.
Settle(requests, outcome) ==
    /\ scheduled' = scheduled \cup ((requests \cap waiting) \X {outcome})
    /\ waiting' = waiting \ requests
    /\ IF requests \cap waiting # {} /\ waiting' = {} /\ job # NoChild
       THEN job' = NoChild /\ process' = Stopped(job)
       ELSE UNCHANGED <<job, process>>

\* M.request, when too many requests wait or the child cannot be started.
CallRefused ==
    /\ calls < MaxCalls
    /\ Cardinality(waiting) >= InFlightMax \/ job = NoChild
    /\ calls' = calls + 1
    /\ scheduled' = scheduled \cup {<<calls', "failed">>}
    /\ UNCHANGED <<job, waiting, sentTo, called, process, unread, serving, replies>>

\* start: the processes are interchangeable.
NewChild ==
    LET absent == {p \in Children : process[p] = "absent"}
    IN  IF absent = {} THEN NoChild ELSE CHOOSE p \in absent : TRUE

\* M.request, by the child that runs or by a new one.
Call(p) ==
    /\ calls < MaxCalls
    /\ Cardinality(waiting) < InFlightMax
    /\ p = IF job = NoChild THEN NewChild ELSE job
    /\ process[p] \notin {"exited", "gone"}
    /\ calls' = calls + 1
    /\ waiting' = waiting \cup {calls'}
    /\ sentTo' = [sentTo EXCEPT ![calls'] = p]
    /\ unread' = [unread EXCEPT ![p] = @ \cup {calls'}]
    /\ job' = p
    /\ process' = [process EXCEPT ![p] = IF @ = "absent" THEN "running" ELSE @]
    /\ UNCHANGED <<scheduled, called, serving, replies>>

\* M.request, when the channel of the child that has exited is closed already:
\* the request is added and settled in one call.
CallUnsent ==
    /\ calls < MaxCalls
    /\ Cardinality(waiting) < InFlightMax
    /\ job # NoChild
    /\ process[job] = "exited"
    /\ calls' = calls + 1
    /\ scheduled' = scheduled \cup {<<calls', "failed">>}
    /\ job' = IF waiting = {} THEN NoChild ELSE job
    /\ UNCHANGED <<waiting, sentTo, called, process, unread, serving, replies>>

\* M.resolve, also for the answers of a child that is not the current one.
Resolve(p, id) ==
    /\ id \in replies[p]
    /\ replies' = [replies EXCEPT ![p] = @ \ {id}]
    /\ Settle({id}, "answered")
    /\ UNCHANGED <<calls, sentTo, called, unread, serving>>

\* Mutant: whichever child exits, all requests that wait have failed.
SettledByExitOfAny(p) == waiting

\* The requests that the exit of a child ends.
SettledByExit(p) == IF job = p THEN waiting ELSE {}

OnExit(p) ==
    /\ process[p] = "exited"
    /\ process' = [process EXCEPT ![p] = "gone"]
    /\ LET ended == SettledByExit(p) IN
       /\ scheduled' = scheduled \cup (ended \X {"exited"})
       /\ waiting' = waiting \ ended
    /\ job' = IF job = p THEN NoChild ELSE job
    /\ UNCHANGED <<calls, sentTo, called, unread, serving, replies>>

\* The timer of a request, which is stopped when the request is settled.
Elapse(id) ==
    /\ id \in waiting
    /\ Settle({id}, "failed")
    /\ UNCHANGED <<calls, sentTo, called, unread, serving, replies>>

RunCallback(id, outcome) ==
    /\ <<id, outcome>> \in scheduled
    /\ scheduled' = scheduled \ {<<id, outcome>>}
    /\ called' = [called EXCEPT ![id] = @ \cup {outcome}]
    /\ UNCHANGED <<job, waiting, calls, sentTo, process, unread, serving, replies>>

-----------------------------------------------------------------------------
(* The child. *)

\* dispatch: a request without a permit is answered at once.
ChildDispatch(p, id) ==
    /\ process[p] \in ChildAlive
    /\ id \in unread[p]
    /\ unread' = [unread EXCEPT ![p] = @ \ {id}]
    /\ IF Cardinality(serving[p]) < InFlightMax
       THEN serving' = [serving EXCEPT ![p] = @ \cup {id}] /\ UNCHANGED replies
       ELSE replies' = [replies EXCEPT ![p] = @ \cup {id}] /\ UNCHANGED serving
    /\ UNCHANGED <<job, waiting, calls, sentTo, scheduled, called, process>>

\* A request ends with the answer of the server, an error or its deadline.
\* After a release mismatch the child writes the answer and leaves.
ChildAnswer(p, id) ==
    /\ process[p] \in ChildAlive
    /\ id \in serving[p]
    /\ serving' = [serving EXCEPT ![p] = @ \ {id}]
    /\ replies' = [replies EXCEPT ![p] = @ \cup {id}]
    /\ \/ UNCHANGED process
       \/ process' = [process EXCEPT ![p] = "leaving"]
    /\ UNCHANGED <<job, waiting, calls, sentTo, scheduled, called, unread>>

\* The process ends: it was stopped, it leaves or it dies.  What it has not
\* read or answered is lost.
ChildExit(p) ==
    /\ process[p] \in ChildAlive
    /\ process' = [process EXCEPT ![p] = "exited"]
    /\ unread' = [unread EXCEPT ![p] = {}]
    /\ serving' = [serving EXCEPT ![p] = {}]
    /\ UNCHANGED <<job, waiting, calls, sentTo, scheduled, called, replies>>

-----------------------------------------------------------------------------
ElapseAny == \E id \in waiting : Elapse(id)
RunAny == \E message \in scheduled : RunCallback(message[1], message[2])

PluginNext ==
    \/ CallRefused
    \/ CallUnsent
    \/ \E p \in Children :
        \/ Call(p) \/ OnExit(p) \/ ChildExit(p)
        \/ \E id \in replies[p] : Resolve(p, id)
        \/ \E id \in unread[p] : ChildDispatch(p, id)
        \/ \E id \in serving[p] : ChildAnswer(p, id)
    \/ ElapseAny
    \/ RunAny

\* The timers of Neovim fire and its main loop runs what is scheduled.
PluginFairness == WF_pluginVars(ElapseAny) /\ WF_pluginVars(RunAny)

PluginSpec == PluginInit /\ [][PluginNext]_pluginVars /\ PluginFairness

-----------------------------------------------------------------------------
\* The plugin has a child exactly while a request waits, and every request
\* that waits was sent to that child: no child is left behind without being
\* stopped, and the exit of the child reaches everybody who waits for it
\* ("Shares a child between pending requests and stops it when they finish",
\* client.lua).
ChildServesPending ==
    /\ job = NoChild <=> waiting = {}
    /\ \A id \in waiting : sentTo[id] = job
    /\ \A p \in Children \ {job} : process[p] # "running"

KnownOutcomes(id) == {outcome \in CallOutcomes : <<id, outcome>> \in scheduled} \cup called[id]

\* A callback is called once, whatever order the answer, the exit and the
\* timer come in (client.lua settle).
CalledOnce == \A id \in Calls :
    /\ Cardinality(KnownOutcomes(id)) <= 1
    /\ id \in waiting => KnownOutcomes(id) = {}
    /\ \A outcome \in called[id] : <<id, outcome>> \notin scheduled

\* A request fails by the exit of a child only when its own child has exited:
\* the exit of a child that was stopped does not disturb the next one
\* (client.lua on_exit).
ExitsAreOwn ==
    \A id \in Calls : "exited" \in KnownOutcomes(id) => process[sentTo[id]] = "gone"

\* A call of M.request has not ended in its callback.
CallRuns == \E id \in 1..calls : called[id] = {}

=============================================================================
