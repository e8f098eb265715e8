------------------------------ MODULE Sessions -------------------------------
(***************************************************************************)
(* The dispatch of one agent session.  Its tasks are planned without the   *)
(* mutation lock, shown to the user, compared with the files under the     *)
(* lock, and handed to the agent.  For Codex the dispatch first starts a   *)
(* child process, the app server, and creates and names a thread with it:  *)
(* requests in lines, answers in lines, in an order of the child's own, or *)
(* late, or never.                                                         *)
(*                                                                         *)
(* A revision is the hash of a task's bytes: it stands for them, and comes *)
(* back with them.                                                         *)
(* External: the user, other commands and editors, and the child.          *)
(***************************************************************************)
EXTENDS Naturals, Sequences

Seqs == INSTANCE SequencesExt

CONSTANTS
    Tasks,
    Plans,       \* sequences of tasks that a session may be asked for
    Threads,
    Foreign,     \* the threads that are there before
    NoThread,
    Wordings,    \* what a task may say
    MaxNotices   \* lines of the child that answer nothing

\* A request that names a task twice is refused (pwf-models session.rs).
ASSUME PlansAssumption ==
    /\ Plans \subseteq Seq(Tasks)
    /\ \A p \in Plans : \A i, j \in DOMAIN p : p[i] = p[j] => i = j
ASSUME ThreadsAssumption == Foreign \subseteq Threads /\ \A t \in Threads : t # NoThread
ASSUME SessionBoundsAssumption == MaxNotices \in Nat

VARIABLES
    tasks,     \* the files: what a task says, and whether it is active
    lock,      \* who holds task_mutations
    plan,      \* the tasks of the session and the revisions read for them
    agent,
    at,        \* how far the dispatch is
    progress,  \* the position of the task that is read or compared
    child,     \* the process of the app server
    inbox,     \* requests that the child has not handled
    responses, \* the channel from the reader of its output
    next_id,   \* request_id_next
    thread,    \* the thread that the child created for this dispatch
    failure,   \* what failed so far
    outcome,   \* the answer to the client
    threads,   \* external: what the child keeps
    notices,
    changed    \* history: tasks that an editor saved since their comparison

plannings == <<plan, agent, at, progress>>
protocol == <<child, inbox, responses, next_id, thread, failure, threads, notices>>
dispatchVars == <<tasks, lock, plannings, protocol, outcome, changed>>

Operations == {"initialize", "thread/start", "thread/name/set", "thread/delete"}
DispatchStages == {"plan", "confirm", "lock", "compare", "prepare", "shutdown", "end"} \cup Operations
Failures == {"none", "primary", "naming", "cleanup"}
Outcomes == {"none", "not_planned", "aborted", "stale", "launched", "primary",
             "naming_and_cleanup", "named_shutdown"}
ThreadStates == {"none", "unnamed", "named", "deleted"}
NoAnswer == 4  \* the id of no request

Contents == [text: Wordings, active: BOOLEAN]

DispatchTypeOK ==
    /\ tasks \in [Tasks -> Contents]
    /\ lock \in {"free", "command", "dispatch"}
    /\ plan.tasks \in Plans
    /\ plan.revisions \in Seq(Contents)
    /\ Len(plan.revisions) <= Len(plan.tasks)
    /\ agent \in {"claude", "codex"}
    /\ at \in DispatchStages
    /\ progress \in 1 .. Len(plan.tasks) + 1
    /\ child \in {"none", "running", "dead", "reaped", "left"}
    /\ inbox \in Seq([id: Nat, operation: Operations, thread: Threads \cup {NoThread}])
    /\ responses \in Seq([id: Nat, kind: {"result", "error", "malformed", "closed"},
                          thread: Threads \cup {NoThread}])
    /\ next_id \in 0..4
    /\ thread \in Threads \cup {NoThread}
    /\ failure \in Failures
    /\ outcome \in Outcomes
    /\ threads \in [Threads -> ThreadStates]
    /\ notices \in 0..MaxNotices
    /\ changed \in SUBSET Tasks

DispatchInit ==
    /\ tasks \in [Tasks -> Contents]
    /\ lock = "free"
    /\ plan \in [tasks: Plans, revisions: {<<>>}]
    /\ agent \in {"claude", "codex"}
    /\ at = "plan"
    /\ progress = 1
    /\ child = "none"
    /\ inbox = <<>>
    /\ responses = <<>>
    /\ next_id = 0
    /\ thread = NoThread
    /\ failure = "none"
    /\ outcome = "none"
    /\ threads = [t \in Threads |-> IF t \in Foreign THEN "named" ELSE "none"]
    /\ notices = 0
    /\ changed = {}

-----------------------------------------------------------------------------
(* Planning, the question and the comparison. *)

EndDispatch(result) ==
    /\ at' = "end"
    /\ outcome' = result
    /\ lock' = IF lock = "dispatch" THEN "free" ELSE lock

\* The tasks are read one after the other, and each must be active; one that
\* cannot be launched yet, or a project without a directory, ends the plan.
PlanTask ==
    /\ at = "plan"
    /\ IF progress > Len(plan.tasks)
       THEN /\ at' = "confirm" /\ progress' = 1
            /\ UNCHANGED <<plan, outcome, lock>>
       ELSE LET task == plan.tasks[progress] IN
            \/ /\ tasks[task].active
               /\ plan' = [plan EXCEPT !.revisions = Append(@, tasks[task])]
               /\ progress' = progress + 1
               /\ UNCHANGED <<at, outcome, lock>>
            \/ EndDispatch("not_planned") /\ UNCHANGED <<plan, progress>>
    /\ UNCHANGED <<tasks, agent, protocol, changed>>

\* The user agrees; or declines, leaves, or says nothing for half an hour.
Agree ==
    /\ at = "confirm"
    /\ at' = "lock"
    /\ UNCHANGED <<tasks, lock, plan, agent, progress, protocol, outcome, changed>>

Decline ==
    /\ at = "confirm"
    /\ EndDispatch("aborted")
    /\ UNCHANGED <<tasks, plan, agent, progress, protocol, changed>>

\* Mutant: the comparison begins without the lock.
LockLater ==
    /\ at = "lock"
    /\ at' = "compare"
    /\ UNCHANGED <<tasks, lock, plan, agent, progress, protocol, outcome, changed>>

Lock ==
    /\ at = "lock"
    /\ lock = "free"
    /\ lock' = "dispatch"
    /\ at' = "compare"
    /\ UNCHANGED <<tasks, plan, agent, progress, protocol, outcome, changed>>

AsRead(position) == tasks[plan.tasks[position]] = plan.revisions[position]

\* commit_task_writes compares every revision and writes nothing.
Compare ==
    /\ at = "compare"
    /\ IF progress > Len(plan.tasks)
       THEN /\ at' = "prepare"
            /\ UNCHANGED <<progress, outcome, lock, changed>>
       ELSE IF AsRead(progress)
       THEN /\ progress' = progress + 1
            /\ changed' = changed \ {plan.tasks[progress]}
            /\ UNCHANGED <<at, outcome, lock>>
       ELSE EndDispatch("stale") /\ UNCHANGED <<progress, changed>>
    /\ UNCHANGED <<tasks, plan, agent, protocol>>

-----------------------------------------------------------------------------
(* The client of the app server. *)

LaunchClaude ==
    /\ at = "prepare"
    /\ agent = "claude"
    /\ EndDispatch("launched")
    /\ UNCHANGED <<tasks, plan, agent, progress, protocol, changed>>

StartChild ==
    /\ at = "prepare"
    /\ agent = "codex"
    /\ \/ child' = "running" /\ at' = "initialize" /\ UNCHANGED <<outcome, lock>>
       \/ EndDispatch("primary") /\ UNCHANGED child
    /\ UNCHANGED <<tasks, plan, agent, progress, inbox, responses, next_id, thread, failure, threads, notices, changed>>

Awaited == next_id - 1

\* The request of the current stage has been written.
Sent == next_id = CASE at = "initialize" -> 1
                    [] at = "thread/start" -> 2
                    [] at = "thread/name/set" -> 3
                    [] at = "thread/delete" -> 4

\* What follows when the operation of the stage fails: a thread that could not
\* be named is deleted.
Fails ==
    /\ at' = IF at = "thread/name/set" THEN "thread/delete" ELSE "shutdown"
    /\ failure' = CASE at \in {"initialize", "thread/start"} -> "primary"
                    [] at = "thread/name/set" -> "naming"
                    [] at = "thread/delete" -> "cleanup"
    /\ UNCHANGED thread

Succeeds(answer) ==
    /\ at' = CASE at = "initialize" -> "thread/start"
               [] at = "thread/start" -> "thread/name/set"
               [] at \in {"thread/name/set", "thread/delete"} -> "shutdown"
    /\ thread' = IF at = "thread/start" THEN answer.thread ELSE thread
    /\ UNCHANGED failure

\* A write to a child that is gone may fail; its id is spent all the same.
Request ==
    /\ at \in Operations
    /\ ~Sent
    /\ next_id' = next_id + 1
    /\ \/ /\ inbox' = IF child = "running"
                      THEN Append(inbox, [id |-> next_id, operation |-> at, thread |-> thread])
                      ELSE inbox
          /\ UNCHANGED <<at, failure, thread>>
       \/ child = "dead" /\ Fails /\ UNCHANGED inbox
    /\ UNCHANGED <<tasks, lock, plan, agent, progress, child, responses, outcome, threads, notices, changed>>

\* Mutant: the answer to any request will do.
MatchesAny(answer) == answer.id # NoAnswer

Matches(answer) == answer.id = Awaited

\* The end of the output stays at the end of the channel.
Receive ==
    /\ at \in Operations
    /\ Sent
    /\ responses # <<>>
    /\ LET answer == Head(responses) IN
       /\ responses' = IF answer.kind = "closed" THEN responses ELSE Tail(responses)
       /\ IF answer.kind = "closed" \/ (answer.kind = "malformed" /\ answer.id = NoAnswer) THEN Fails
          ELSE IF ~Matches(answer) THEN UNCHANGED <<at, failure, thread>>
          ELSE IF answer.kind \in {"error", "malformed"} THEN Fails
          ELSE Succeeds(answer)
    /\ UNCHANGED <<tasks, lock, plan, agent, progress, child, inbox, next_id, outcome, threads, notices, changed>>

\* Mutant: only a line from the child ends the wait.
DeadlineAfterLine ==
    /\ at \in Operations
    /\ Sent
    /\ responses # <<>>
    /\ Fails
    /\ UNCHANGED <<tasks, lock, plan, agent, progress, child, inbox, responses, next_id, outcome, threads, notices, changed>>

\* Ten seconds after the request.
Deadline ==
    /\ at \in Operations
    /\ Sent
    /\ Fails
    /\ UNCHANGED <<tasks, lock, plan, agent, progress, child, inbox, responses, next_id, outcome, threads, notices, changed>>

Result(exited) ==
    CASE failure = "primary" -> "primary"
      [] failure = "naming" -> "primary"
      [] failure = "cleanup" -> "naming_and_cleanup"
      [] failure = "none" -> IF exited THEN "launched" ELSE "named_shutdown"

\* The child is killed, and waited for at most two seconds.
Shutdown ==
    /\ at = "shutdown"
    /\ \E exited \in BOOLEAN :
        /\ child' = IF exited THEN "reaped" ELSE "left"
        /\ EndDispatch(Result(exited))
    /\ UNCHANGED <<tasks, plan, agent, progress, inbox, responses, next_id, thread, failure, threads, notices, changed>>

-----------------------------------------------------------------------------
(* External: the child.  It handles the requests in any order, may fail any *)
(* of them, answers with the id of the request or not at all, and may end.  *)

Alive == child \in {"running", "left"}

Made(request) ==
    IF request.operation = "thread/start" THEN {t \in Threads : threads[t] = "none"} ELSE {NoThread}

Effect(request, made) ==
    CASE request.operation = "thread/start" -> [threads EXCEPT ![made] = "unnamed"]
      [] request.operation = "thread/name/set" ->
            [threads EXCEPT ![request.thread] = IF @ = "unnamed" THEN "named" ELSE @]
      [] request.operation = "thread/delete" -> [threads EXCEPT ![request.thread] = "deleted"]
      [] OTHER -> threads

Say(kind, id, made) == Append(responses, [id |-> id, kind |-> kind, thread |-> made])

Handle ==
    /\ Alive
    /\ \E i \in DOMAIN inbox :
        /\ inbox' = Seqs!RemoveAt(inbox, i)
        /\ \/ \E made \in Made(inbox[i]) :
                /\ threads' = Effect(inbox[i], made)
                /\ \/ \E kind \in {"result", "malformed"} : responses' = Say(kind, inbox[i].id, made)
                   \/ UNCHANGED responses
           \/ threads' = threads /\ responses' = Say("error", inbox[i].id, NoThread)
    /\ UNCHANGED <<tasks, lock, plannings, child, next_id, thread, failure, notices, outcome, changed>>

\* A notification, or a line that is no message at all.
Notice ==
    /\ Alive
    /\ notices < MaxNotices
    /\ notices' = notices + 1
    /\ \E kind \in {"result", "malformed"} : responses' = Say(kind, NoAnswer, NoThread)
    /\ UNCHANGED <<tasks, lock, plannings, child, inbox, next_id, thread, failure, threads, outcome, changed>>

Exit ==
    /\ child = "running"
    /\ child' = "dead"
    /\ inbox' = <<>>
    /\ responses' = Say("closed", NoAnswer, NoThread)
    /\ UNCHANGED <<tasks, lock, plannings, next_id, thread, failure, threads, notices, outcome, changed>>

-----------------------------------------------------------------------------
(* External: other commands hold the lock while they write; editors do not. *)

Change(task) == \E contents \in Contents \ {tasks[task]} : tasks' = [tasks EXCEPT ![task] = contents]

BeginCommand ==
    /\ lock = "free"
    /\ lock' = "command"
    /\ UNCHANGED <<tasks, plannings, protocol, outcome, changed>>

EndCommand ==
    /\ lock = "command"
    /\ lock' = "free"
    /\ (\E task \in Tasks : Change(task)) \/ UNCHANGED tasks
    /\ UNCHANGED <<plannings, protocol, outcome, changed>>

EditTask ==
    /\ \E task \in Tasks : Change(task) /\ changed' = changed \cup {task}
    /\ UNCHANGED <<lock, plannings, protocol, outcome>>

DispatchStep ==
    \/ PlanTask
    \/ Lock
    \/ Compare
    \/ LaunchClaude
    \/ StartChild
    \/ Request
    \/ Receive
    \/ Deadline
    \/ Shutdown

DispatchNext ==
    \/ DispatchStep
    \/ Agree
    \/ Decline
    \/ Handle
    \/ Notice
    \/ Exit
    \/ BeginCommand
    \/ EndCommand
    \/ EditTask

\* The steps of the dispatch are its own, the half hour ends the question, and
\* the lock goes to those who wait for it in their order.
DispatchFairness ==
    /\ WF_dispatchVars(DispatchStep)
    /\ WF_dispatchVars(Decline)
    /\ WF_dispatchVars(EndCommand)
    /\ SF_dispatchVars(Lock)

DispatchSpec == DispatchInit /\ [][DispatchNext]_dispatchVars /\ DispatchFairness

-----------------------------------------------------------------------------
\* What the agent starts with is what the user confirmed: the content of every
\* task is the one read for the plan, and still the one in the file when the
\* dispatch hands it over, unless an editor saved the file after the
\* comparison.  No command gets in between.
LaunchedAsConfirmed ==
    [][(outcome # "launched" /\ outcome' = "launched") =>
        \A i \in DOMAIN plan.tasks : AsRead(i) \/ plan.tasks[i] \in changed]_dispatchVars

\* A session starts only on a thread that was created for it, carries its name
\* and was left by the app server, whose process is gone.  A thread that the
\* dispatch learnt of is launched, deleted, or named in the error; that a
\* deletion took place is believed only on its own answer
\* (codex_app_server.rs create_thread).
ThreadsAccountedFor ==
    /\ (outcome = "launched" /\ agent = "codex") =>
         thread \notin Foreign /\ threads[thread] = "named" /\ child = "reaped"
    /\ (at = "end" /\ thread # NoThread) =>
         \/ outcome \in {"launched", "named_shutdown", "naming_and_cleanup"}
         \/ threads[thread] = "deleted"

\* The dispatch has not ended, or has not given the lock back.
DispatchRuns == at # "end" \/ lock = "dispatch"

=============================================================================
