---------------------------- MODULE ClientsProofs ----------------------------
(***************************************************************************)
(* Proofs about the clients: the dispatch of agent sessions, the editor's  *)
(* plugin and the terminal interface, for any tasks, threads, children and *)
(* projects, and any number of changes, notices, calls and requests.       *)
(***************************************************************************)
EXTENDS Clients, FiniteSetTheorems, SequenceTheorems, TLAPS

-----------------------------------------------------------------------------
(* Sessions: the plan.  Its tasks are compared in its order and under the    *)
(* lock, and no task is in it twice, so that the comparison of another one   *)
(* does not take from changed what an editor has saved since.                *)

ComparedStages == {"prepare", "shutdown"} \cup Operations

Compared(i) == (at = "compare" /\ i < progress) \/ at \in ComparedStages

PlanTyped ==
    /\ tasks \in [Tasks -> Contents]
    /\ lock \in {"free", "command", "dispatch"}
    /\ plan \in [tasks: Plans, revisions: Seq(Contents)]
    /\ agent \in {"claude", "codex"}
    /\ at \in DispatchStages
    /\ progress \in 1 .. Len(plan.tasks) + 1
    /\ changed \in SUBSET Tasks

LockIsHeld == lock = "dispatch" <=> (at = "compare" \/ at \in ComparedStages)

ReadSoFar ==
    /\ Len(plan.revisions) <= Len(plan.tasks)
    /\ at = "plan" => Len(plan.revisions) = progress - 1
    /\ at \notin {"plan", "end"} => Len(plan.revisions) = Len(plan.tasks)

\* The comparison, like the reading, begins with the first task.
QuestionFromStart == at \in {"confirm", "lock"} => progress = 1

ComparedOnce ==
    \A i \in 1 .. Len(plan.tasks) : Compared(i) => AsRead(i) \/ plan.tasks[i] \in changed

PlanInv == PlanTyped /\ LockIsHeld /\ ReadSoFar /\ QuestionFromStart /\ ComparedOnce

LEMMA StagesOfDispatch ==
    /\ Operations \subseteq ComparedStages
    /\ ComparedStages \subseteq DispatchStages
    /\ \A s \in ComparedStages : s \notin {"plan", "confirm", "lock", "compare", "end"}
BY DEF Operations, ComparedStages, DispatchStages

\* The steps of the client of the app server leave the plan alone.
LEMMA ProtocolKeepsPlan ==
    ASSUME Request \/ Receive \/ Deadline
    PROVE  /\ at \in Operations
           /\ at' \in ComparedStages
           /\ UNCHANGED <<tasks, lock, plan, agent, progress, outcome, changed, child, threads, notices>>
<1>1. CASE Request
    BY <1>1 DEF Request, Fails, Operations, ComparedStages
<1>2. CASE Receive
  <2>1. at \in Operations /\ UNCHANGED <<tasks, lock, plan, agent, progress, outcome, changed, child, threads, notices>>
      BY <1>2 DEF Receive
  <2>2. Fails \/ (\E answer : Succeeds(answer)) \/ UNCHANGED at
      BY <1>2 DEF Receive
  <2>3. at' \in ComparedStages
      BY <2>1, <2>2 DEF Fails, Succeeds, Operations, ComparedStages
  <2> QED
      BY <2>1, <2>3
<1>3. CASE Deadline
    BY <1>3 DEF Deadline, Fails, Operations, ComparedStages
<1> QED
    BY <1>1, <1>2, <1>3

LEMMA PlanTypes ==
    ASSUME PlanInv
    PROVE  /\ plan.tasks \in Seq(Tasks)
           /\ plan.revisions \in Seq(Contents)
           /\ progress \in Nat
           /\ Len(plan.tasks) \in Nat
           /\ Len(plan.revisions) \in Nat
           /\ \A i \in 1 .. Len(plan.tasks) : plan.tasks[i] \in Tasks
           /\ \A i, j \in 1 .. Len(plan.tasks) : plan.tasks[i] = plan.tasks[j] => i = j
           /\ \A t \in Tasks : tasks[t] \in Contents
<1>1. plan.tasks \in Seq(Tasks) /\ plan.revisions \in Seq(Contents)
    BY PlansAssumption DEF PlanInv, PlanTyped
<1>2. \A i, j \in DOMAIN plan.tasks : plan.tasks[i] = plan.tasks[j] => i = j
    BY PlansAssumption DEF PlanInv, PlanTyped
<1>4. \A t \in Tasks : tasks[t] \in Contents
    BY DEF PlanInv, PlanTyped
<1>5. Len(plan.tasks) \in Nat /\ Len(plan.revisions) \in Nat
    BY <1>1
<1>6. progress \in Nat
    BY <1>5 DEF PlanInv, PlanTyped
<1>7. \A i \in 1 .. Len(plan.tasks) : plan.tasks[i] \in Tasks
    BY <1>1
<1>8. \A i, j \in 1 .. Len(plan.tasks) : plan.tasks[i] = plan.tasks[j] => i = j
    BY <1>1, <1>2
<1> QED
    BY <1>1, <1>2, <1>8, <1>4, <1>5, <1>6, <1>7

LEMMA PlanInitially ==
    ASSUME DispatchInit
    PROVE  PlanInv
<1>1. plan.revisions = <<>> /\ Len(plan.revisions) = 0 /\ plan.tasks \in Plans /\ progress = 1 /\ at = "plan"
    BY DEF DispatchInit
<1>2. Len(plan.tasks) \in Nat
    BY <1>1, PlansAssumption
<1>3. PlanTyped
  <2>1. tasks \in [Tasks -> Contents]
      BY DEF DispatchInit
  <2>2. plan \in [tasks: Plans, revisions: Seq(Contents)]
    <3>1. plan \in [tasks: Plans, revisions: {<<>>}]
        BY DEF DispatchInit
    <3>2. <<>> \in Seq(Contents)
        OBVIOUS
    <3> QED
        BY <3>1, <3>2
  <2> QED
      BY <2>1, <2>2, <1>1, <1>2 DEF PlanTyped, DispatchInit, DispatchStages
<1>4. LockIsHeld /\ ReadSoFar /\ QuestionFromStart /\ ComparedOnce
    BY <1>1, <1>2 DEF DispatchInit, LockIsHeld, ReadSoFar, QuestionFromStart, ComparedOnce, Compared,
       ComparedStages, Operations
<1> QED
    BY <1>3, <1>4 DEF PlanInv

\* A step that changes neither the plan nor the tasks, and leaves behind no
\* more than had been compared.
LEMMA PlanKept ==
    ASSUME PlanInv,
           UNCHANGED <<tasks, plan, agent, changed>>,
           progress' \in 1 .. Len(plan.tasks) + 1,
           at' \in DispatchStages, lock' \in {"free", "command", "dispatch"},
           LockIsHeld', QuestionFromStart',
           at' = "plan" => at = "plan" /\ progress' = progress,
           at' \notin {"plan", "end"} => Len(plan.revisions) = Len(plan.tasks),
           \A i \in 1 .. Len(plan.tasks) : Compared(i)' => Compared(i)
    PROVE  PlanInv'
<1>1. PlanTyped'
    BY DEF PlanInv, PlanTyped
<1>2. ReadSoFar'
    BY DEF PlanInv, ReadSoFar
<1>4. ComparedOnce'
    BY DEF PlanInv, ComparedOnce, AsRead
<1> QED
    BY <1>1, <1>2, <1>4 DEF PlanInv

\* The tasks that change without the lock are noted.
LEMMA TasksMove ==
    ASSUME PlanInv,
           UNCHANGED <<plan, agent, at, progress>>,
           NEW task \in Tasks, Change(task),
           changed \subseteq changed', changed' \subseteq Tasks,
           LockIsHeld', lock' \in {"free", "command", "dispatch"},
           task \in changed' \/ lock # "dispatch"
    PROVE  PlanInv'
<1> USE PlanTypes
<1>1. PICK contents \in Contents : tasks' = [tasks EXCEPT ![task] = contents]
    BY DEF Change
<1>3. tasks' \in [Tasks -> Contents]
    BY <1>1 DEF PlanInv, PlanTyped
<1>4. PlanTyped'
    BY <1>3 DEF PlanInv, PlanTyped
<1>5. \A t \in Tasks : t # task => tasks'[t] = tasks[t]
    BY <1>1 DEF PlanInv, PlanTyped
<1>6. ReadSoFar' /\ QuestionFromStart'
    BY DEF PlanInv, ReadSoFar, QuestionFromStart
<1>8. ComparedOnce'
  <2> SUFFICES ASSUME NEW i \in 1 .. Len(plan.tasks), Compared(i)
               PROVE  (AsRead(i) \/ plan.tasks[i] \in changed)'
      BY DEF PlanInv, ComparedOnce, Compared
  <2>1. lock = "dispatch"
      BY DEF Compared, PlanInv, LockIsHeld
  <2>2. AsRead(i) \/ plan.tasks[i] \in changed
      BY DEF PlanInv, ComparedOnce
  <2>3. task \in changed'
      BY <2>1
  <2>4. plan.tasks[i] \in Tasks
      OBVIOUS
  <2> QED
      BY <2>2, <2>3, <2>4, <1>5 DEF AsRead
<1> QED
    BY <1>4, <1>6, <1>8 DEF PlanInv

LEMMA PlanReads ==
    ASSUME PlanInv, PlanTask
    PROVE  PlanInv'
<1> USE PlanTypes
<1>0. lock # "dispatch"
    BY DEF PlanInv, LockIsHeld, PlanTask, ComparedStages, Operations
<1>1. CASE progress > Len(plan.tasks)
  <2>1. at' = "confirm" /\ progress' = 1 /\ UNCHANGED <<plan, lock, tasks, agent, changed>>
      BY <1>1 DEF PlanTask
  <2>2. Len(plan.revisions) = Len(plan.tasks)
      BY <1>1 DEF PlanTask, PlanInv, ReadSoFar, PlanTyped
  <2>3. \A i : ~Compared(i)'
      BY <2>1 DEF Compared, ComparedStages, Operations
  <2>4. LockIsHeld' /\ QuestionFromStart' /\ at' \in DispatchStages
      BY <2>1, <1>0 DEF LockIsHeld, QuestionFromStart, ComparedStages, Operations, DispatchStages
  <2> QED
      BY <2>1, <2>2, <2>3, <2>4, PlanKept DEF PlanInv, PlanTyped
<1>2. CASE progress <= Len(plan.tasks) /\ ~EndDispatch("not_planned")
  <2> DEFINE task == plan.tasks[progress]
  <2>1. /\ plan' = [plan EXCEPT !.revisions = Append(@, tasks[task])]
        /\ progress' = progress + 1
        /\ UNCHANGED <<at, lock, tasks, agent, changed>>
        /\ at = "plan"
      BY <1>2 DEF PlanTask
  <2>2. progress \in 1 .. Len(plan.tasks) /\ task \in Tasks
      BY <1>2 DEF PlanInv, PlanTyped
  <2>3. tasks[task] \in Contents
      BY <2>2
  <2> DEFINE revisions == Append(plan.revisions, tasks[task])
  <2>4. plan' = [tasks |-> plan.tasks, revisions |-> revisions]
      BY <2>1 DEF PlanInv, PlanTyped
  <2>5. Len(plan.revisions) = progress - 1
      BY <2>1 DEF PlanInv, ReadSoFar
  <2>6. /\ revisions \in Seq(Contents)
        /\ Len(revisions) = progress
        /\ revisions[progress] = tasks[task]
        /\ \A i \in 1 .. progress - 1 : revisions[i] = plan.revisions[i]
    <3>1. plan.revisions \in Seq(Contents) /\ progress \in Nat
        OBVIOUS
    <3>2. /\ revisions \in Seq(Contents)
          /\ Len(revisions) = Len(plan.revisions) + 1
          /\ revisions[Len(plan.revisions) + 1] = tasks[task]
          /\ \A i \in 1 .. Len(plan.revisions) : revisions[i] = plan.revisions[i]
        BY <3>1, <2>3
    <3> HIDE DEF revisions
    <3> QED
        BY <3>1, <3>2, <2>5
  <2>7. PlanTyped'
    <3>1. plan' \in [tasks: Plans, revisions: Seq(Contents)]
        BY <2>4, <2>6 DEF PlanInv, PlanTyped
    <3>2. progress' \in 1 .. Len(plan'.tasks) + 1
        BY <2>1, <2>2, <2>4
    <3> QED
        BY <2>1, <3>1, <3>2 DEF PlanInv, PlanTyped
  <2>8. LockIsHeld' /\ ReadSoFar' /\ QuestionFromStart' /\ ComparedOnce'
      BY <2>1, <2>2, <2>4, <2>6 DEF PlanInv, LockIsHeld, ReadSoFar, QuestionFromStart, ComparedOnce, Compared,
         ComparedStages, Operations
  <2> QED
      BY <2>7, <2>8 DEF PlanInv
<1>3. CASE progress <= Len(plan.tasks) /\ EndDispatch("not_planned")
  <2>1. at' = "end" /\ lock' = lock /\ UNCHANGED <<tasks, plan, agent, changed>>
      BY <1>3, <1>0 DEF PlanTask, EndDispatch
  <2>2. progress' \in 1 .. Len(plan.tasks) + 1
      BY <1>3 DEF PlanTask, PlanInv, PlanTyped
  <2>3. \A i : ~Compared(i)'
      BY <2>1 DEF Compared, ComparedStages, Operations
  <2>4. LockIsHeld' /\ QuestionFromStart' /\ at' \in DispatchStages
      BY <2>1, <1>0 DEF LockIsHeld, QuestionFromStart, ComparedStages, Operations, DispatchStages
  <2> QED
      BY <2>1, <2>2, <2>3, <2>4, PlanKept DEF PlanInv, PlanTyped
<1> QED
    BY <1>1, <1>2, <1>3

\* A comparison that succeeds forgets what editors saved of that task before.
LEMMA PlanCompares ==
    ASSUME PlanInv, Compare
    PROVE  PlanInv'
<1> USE PlanTypes
<1>0. at = "compare" /\ lock = "dispatch" /\ Len(plan.revisions) = Len(plan.tasks)
    BY DEF PlanInv, LockIsHeld, ReadSoFar, Compare
<1>1. CASE progress > Len(plan.tasks)
  <2>1. at' = "prepare" /\ UNCHANGED <<progress, lock, tasks, plan, agent, changed>>
      BY <1>1 DEF Compare
  <2>2. \A i \in 1 .. Len(plan.tasks) : Compared(i)
      BY <1>0, <1>1 DEF Compared
  <2>3. LockIsHeld' /\ QuestionFromStart' /\ at' \in DispatchStages
      BY <2>1, <1>0 DEF LockIsHeld, QuestionFromStart, ComparedStages, DispatchStages
  <2> QED
      BY <2>1, <2>2, <2>3, <1>0, PlanKept DEF PlanInv, PlanTyped
<1>2. CASE progress <= Len(plan.tasks) /\ ~AsRead(progress)
  <2>1. at' = "end" /\ lock' = "free" /\ UNCHANGED <<progress, tasks, plan, agent, changed>>
      BY <1>2, <1>0 DEF Compare, EndDispatch
  <2>2. \A i : ~Compared(i)'
      BY <2>1 DEF Compared, ComparedStages, Operations
  <2>3. LockIsHeld' /\ QuestionFromStart' /\ at' \in DispatchStages
      BY <2>1 DEF LockIsHeld, QuestionFromStart, ComparedStages, Operations, DispatchStages
  <2> QED
      BY <2>1, <2>2, <2>3, <1>0, PlanKept DEF PlanInv, PlanTyped
<1>3. CASE progress <= Len(plan.tasks) /\ AsRead(progress)
  <2> DEFINE task == plan.tasks[progress]
  <2>1. /\ progress' = progress + 1
        /\ changed' = changed \ {task}
        /\ UNCHANGED <<at, lock, tasks, plan, agent>>
      BY <1>3 DEF Compare
  <2>2. progress \in 1 .. Len(plan.tasks) /\ task \in Tasks
      BY <1>3 DEF PlanInv, PlanTyped
  <2>3. PlanTyped'
      BY <2>1, <2>2 DEF PlanInv, PlanTyped
  <2>4. LockIsHeld' /\ ReadSoFar' /\ QuestionFromStart'
      BY <2>1, <1>0 DEF PlanInv, LockIsHeld, ReadSoFar, QuestionFromStart
  <2>6. ComparedOnce'
    <3> HIDE PlanTypes
    <3>0. plan' = plan /\ tasks' = tasks
        BY <2>1
    <3> SUFFICES ASSUME NEW i \in 1 .. Len(plan.tasks), Compared(i)'
                 PROVE  AsRead(i) \/ plan.tasks[i] \in changed'
        BY <3>0 DEF ComparedOnce, AsRead
    <3>1. i <= progress
        BY <2>1, <1>0, <2>2 DEF Compared, ComparedStages, Operations
    <3>2. CASE i = progress
        BY <3>2, <1>3
    <3>3. CASE i # progress
      <4>1. i < progress /\ plan.tasks[i] # task
          BY <3>1, <3>3, <2>2, PlanTypes
      <4>2. Compared(i)
          BY <4>1, <1>0 DEF Compared
      <4> QED
          BY <4>1, <4>2, <2>1 DEF PlanInv, ComparedOnce
    <3> QED
        BY <3>2, <3>3
  <2> QED
      BY <2>3, <2>4, <2>6 DEF PlanInv
<1> QED
    BY <1>1, <1>2, <1>3 DEF PlanInv, PlanTyped

\* The other steps of the dispatch: the question, the lock, the agents.
LEMMA PlanWaits ==
    ASSUME PlanInv, Agree \/ Decline \/ Lock \/ LaunchClaude \/ StartChild \/ Shutdown
    PROVE  PlanInv'
<1> USE PlanTypes
<1>1. UNCHANGED <<tasks, plan, agent, changed, progress>>
    BY DEF Agree, Decline, Lock, LaunchClaude, StartChild, Shutdown
<1>2. at \notin {"plan", "end"} /\ at \in DispatchStages /\ Len(plan.revisions) = Len(plan.tasks)
    BY DEF Agree, Decline, Lock, LaunchClaude, StartChild, Shutdown, PlanInv, ReadSoFar, PlanTyped
<1>3. /\ at' \in DispatchStages
      /\ at' # "plan" /\ QuestionFromStart'
      /\ LockIsHeld' /\ lock' \in {"free", "command", "dispatch"}
      /\ \A i \in 1 .. Len(plan.tasks) : Compared(i)' => Compared(i)
  <2>1. CASE Agree \/ Decline
      BY <2>1 DEF Agree, Decline, EndDispatch, PlanInv, PlanTyped, LockIsHeld, QuestionFromStart, Compared,
         ComparedStages, Operations, DispatchStages
  <2>2. CASE Lock
    <3>1. at = "lock" /\ at' = "compare" /\ lock' = "dispatch"
        BY <2>2 DEF Lock
    <3>2. \A i \in 1 .. Len(plan.tasks) : ~Compared(i)'
      <4>1. progress = 1
          BY <3>1 DEF PlanInv, QuestionFromStart
      <4> QED
          BY <3>1, <4>1, <1>1 DEF Compared, ComparedStages, Operations
    <3> QED
        BY <3>1, <3>2 DEF LockIsHeld, QuestionFromStart, DispatchStages
  <2>3. CASE LaunchClaude
      BY <2>3 DEF LaunchClaude, EndDispatch, PlanInv, PlanTyped, LockIsHeld, QuestionFromStart, Compared,
         ComparedStages, Operations, DispatchStages
  <2>4. CASE StartChild
      BY <2>4 DEF StartChild, EndDispatch, PlanInv, PlanTyped, LockIsHeld, QuestionFromStart, Compared,
         ComparedStages, Operations, DispatchStages
  <2>5. CASE Shutdown
    <3>1. at = "shutdown" /\ at' = "end" /\ lock' = "free"
        BY <2>5 DEF Shutdown, EndDispatch, PlanInv, LockIsHeld, ComparedStages
    <3> QED
        BY <3>1 DEF LockIsHeld, QuestionFromStart, Compared, ComparedStages, Operations, DispatchStages
  <2> QED
      BY <2>1, <2>2, <2>3, <2>4, <2>5
<1>4. progress' \in 1 .. Len(plan.tasks) + 1
    BY <1>1 DEF PlanInv, PlanTyped
<1> QED
    BY <1>1, <1>2, <1>3, <1>4, PlanKept

LEMMA PlanNext ==
    ASSUME PlanInv, [DispatchNext]_dispatchVars
    PROVE  PlanInv'
<1>1. CASE PlanTask
    BY <1>1, PlanReads
<1>2. CASE Compare
    BY <1>2, PlanCompares
<1>3. CASE Agree \/ Decline \/ Lock \/ LaunchClaude \/ StartChild \/ Shutdown
    BY <1>3, PlanWaits
<1>4. CASE Request \/ Receive \/ Deadline
  <2>1. /\ at \in Operations /\ at' \in ComparedStages
        /\ UNCHANGED <<tasks, lock, plan, agent, progress, changed>>
      BY <1>4, ProtocolKeepsPlan
  <2>2. at \notin {"plan", "confirm", "lock", "compare", "end"} /\ at' \in DispatchStages
        /\ at \in ComparedStages /\ at' \notin {"plan", "confirm", "lock", "compare", "end"}
      BY <2>1, StagesOfDispatch
  <2>3. LockIsHeld' /\ QuestionFromStart' /\ Len(plan.revisions) = Len(plan.tasks)
      BY <2>1, <2>2 DEF PlanInv, LockIsHeld, QuestionFromStart, ReadSoFar
  <2>4. \A i : Compared(i)
      BY <2>2 DEF Compared
  <2> QED
      BY <2>1, <2>2, <2>3, <2>4, PlanKept DEF PlanInv, PlanTyped
<1>5. CASE Handle \/ Notice \/ Exit \/ BeginCommand \/ (EndCommand /\ UNCHANGED tasks) \/ UNCHANGED dispatchVars
  <2>1. UNCHANGED <<tasks, plan, agent, at, progress, changed>>
      BY <1>5 DEF Handle, Notice, Exit, BeginCommand, EndCommand, dispatchVars, plannings
  <2>2. LockIsHeld' /\ lock' \in {"free", "command", "dispatch"}
    <3>1. lock' = lock \/ (lock # "dispatch" /\ lock' \in {"free", "command"})
        BY <1>5 DEF Handle, Notice, Exit, BeginCommand, EndCommand, dispatchVars
    <3> QED
        BY <3>1, <2>1 DEF PlanInv, LockIsHeld, PlanTyped
  <2> QED
      BY <2>1, <2>2 DEF PlanInv, PlanTyped, ReadSoFar, QuestionFromStart, ComparedOnce, Compared, AsRead
<1>6. CASE EndCommand /\ \E task \in Tasks : Change(task)
  <2>1. /\ lock = "command" /\ lock' = "free"
        /\ UNCHANGED <<plan, agent, at, progress, changed>>
      BY <1>6 DEF EndCommand, plannings
  <2>2. LockIsHeld' /\ changed' \subseteq Tasks
      BY <2>1 DEF PlanInv, LockIsHeld, PlanTyped
  <2> QED
      BY <1>6, <2>1, <2>2, TasksMove
<1>7. CASE EditTask
  <2>1. UNCHANGED <<plan, agent, at, progress, lock>>
      BY <1>7 DEF EditTask, plannings
  <2>2. PICK task \in Tasks : Change(task) /\ changed' = changed \cup {task}
      BY <1>7 DEF EditTask
  <2>3. LockIsHeld' /\ changed' \subseteq Tasks /\ lock' \in {"free", "command", "dispatch"}
      BY <2>1, <2>2 DEF PlanInv, LockIsHeld, PlanTyped
  <2> QED
      BY <2>1, <2>2, <2>3, TasksMove
<1>8. EndCommand => (\E task \in Tasks : Change(task)) \/ UNCHANGED tasks
    BY DEF EndCommand
<1> QED
    BY <1>1, <1>2, <1>3, <1>4, <1>5, <1>6, <1>7, <1>8 DEF DispatchNext, DispatchStep

LEMMA PlanHolds == DispatchInit /\ [][DispatchNext]_dispatchVars => []PlanInv
<1>1. DispatchInit => PlanInv
    BY PlanInitially
<1>2. PlanInv /\ [DispatchNext]_dispatchVars => PlanInv'
    BY PlanNext
<1> QED
    BY <1>1, <1>2, PTL

\* What the agent starts with is what the user confirmed, unless an editor
\* saved a file after its comparison (sessions.rs dispatch, task_commands.rs
\* commit_task_writes).
THEOREM LaunchesAreConfirmed == DispatchSpec => LaunchedAsConfirmed
<1>1. ASSUME PlanInv, [DispatchNext]_dispatchVars, outcome # "launched", outcome' = "launched"
      PROVE  \A i \in DOMAIN plan.tasks : AsRead(i) \/ plan.tasks[i] \in changed
  <2>1. at \in {"prepare", "shutdown"}
    <3>1. CASE Request \/ Receive \/ Deadline
        BY <3>1, <1>1, ProtocolKeepsPlan
    <3>2. CASE PlanTask \/ Compare \/ LaunchClaude \/ StartChild \/ Shutdown \/ Decline
        BY <3>2, <1>1 DEF PlanTask, Compare, LaunchClaude, StartChild, Shutdown, Decline, EndDispatch
    <3>3. CASE Agree \/ Lock \/ Handle \/ Notice \/ Exit \/ BeginCommand \/ EndCommand \/ EditTask
               \/ UNCHANGED dispatchVars
        BY <3>3, <1>1 DEF Agree, Lock, Handle, Notice, Exit, BeginCommand, EndCommand, EditTask, dispatchVars
    <3> QED
        BY <3>1, <3>2, <3>3, <1>1 DEF DispatchNext, DispatchStep
  <2>2. \A i : Compared(i)
      BY <2>1 DEF Compared, ComparedStages
  <2>3. DOMAIN plan.tasks = 1 .. Len(plan.tasks)
      BY <1>1, PlanTypes
  <2> QED
      BY <2>2, <2>3, <1>1 DEF PlanInv, ComparedOnce
<1>2. PlanInv /\ [DispatchNext]_dispatchVars =>
        [(outcome # "launched" /\ outcome' = "launched") =>
            \A i \in DOMAIN plan.tasks : AsRead(i) \/ plan.tasks[i] \in changed]_dispatchVars
    BY <1>1
<1> QED
    BY <1>2, PlanHolds, PTL DEF DispatchSpec, LaunchedAsConfirmed

-----------------------------------------------------------------------------
(* Sessions: the app server.  The number of a request tells what it was for, *)
(* and an answer is worth what the child had done when it gave it; threads   *)
(* are created, named and deleted once, so that it stays true.               *)

Asked == [id: Nat, operation: Operations, thread: Threads \cup {NoThread}]
Said == [id: Nat, kind: {"result", "error", "malformed", "closed"}, thread: Threads \cup {NoThread}]

\* The requests that the dispatch may have written so far.
Requested == {r \in Asked :
    /\ r.id < next_id
    /\ r.operation = "initialize" => r.id = 0
    /\ r.operation = "thread/start" => r.id = 1
    /\ r.operation = "thread/name/set" => r.id = 2
    /\ r.operation = "thread/delete" => r.id = 3
    /\ r.operation \in {"thread/name/set", "thread/delete"} => r.thread = thread /\ thread # NoThread}

\* The answers that are true.
Sound == {a \in Said :
    /\ a.id < next_id \/ a.id = NoAnswer
    /\ (a.kind = "result" /\ a.id = 1) => a.thread \in Threads \ Foreign /\ threads[a.thread] # "none"
    /\ (a.kind = "result" /\ a.id = 2) => thread # NoThread /\ threads[thread] \in {"named", "deleted"}
    /\ (a.kind = "result" /\ a.id = 3) => thread # NoThread /\ threads[thread] = "deleted"}

Channels ==
    /\ inbox \in Seq(Requested)
    /\ responses \in Seq(Sound)
    /\ child \in {"none", "running", "dead", "reaped", "left"}
    /\ notices \in 0..MaxNotices

ThreadsKept ==
    /\ threads \in [Threads -> ThreadStates]
    /\ thread \in Threads \cup {NoThread}
    /\ next_id \in 0..4
    /\ \A t \in Foreign : threads[t] # "none"
    /\ \A t \in Threads : threads[t] = "deleted" => next_id = 4
    /\ thread # NoThread => thread \notin Foreign /\ threads[thread] # "none"

Unprepared == {"plan", "confirm", "lock", "compare", "prepare"}

StagesMatch ==
    /\ at \in DispatchStages
    /\ agent \in {"claude", "codex"}
    /\ failure \in Failures
    /\ outcome \in Outcomes
    /\ at # "end" => outcome = "none"
    /\ at \in Unprepared =>
         next_id = 0 /\ thread = NoThread /\ failure = "none" /\ child = "none"
    /\ at \in Operations \cup {"shutdown"} => agent = "codex"
    /\ at = "initialize" => next_id \in {0, 1} /\ thread = NoThread /\ failure = "none"
    /\ at = "thread/start" => next_id \in {1, 2} /\ thread = NoThread /\ failure = "none"
    /\ at = "thread/name/set" => next_id \in {2, 3} /\ thread # NoThread /\ failure = "none"
    /\ at = "thread/delete" => next_id \in {3, 4} /\ thread # NoThread /\ failure = "naming"

\* What is known of the thread when the protocol is over.
ThreadEnds ==
    /\ at = "shutdown" =>
         /\ failure = "none" => next_id = 3 /\ thread # NoThread /\ threads[thread] = "named"
         /\ failure = "naming" => thread # NoThread /\ threads[thread] = "deleted"
         /\ failure = "primary" => thread = NoThread
    /\ at = "end" =>
         /\ outcome = "launched" =>
              \/ agent = "claude" /\ thread = NoThread
              \/ child = "reaped" /\ thread # NoThread /\ threads[thread] = "named"
         /\ outcome \notin {"launched", "named_shutdown", "naming_and_cleanup"} =>
              thread = NoThread \/ threads[thread] = "deleted"

ProtocolInv == Channels /\ ThreadsKept /\ StagesMatch /\ ThreadEnds

LEMMA RemovalTakesOne ==
    ASSUME NEW S, NEW s \in Seq(S), NEW i \in DOMAIN s
    PROVE  Seqs!RemoveAt(s, i) \in Seq(S)
<1>1. i \in 1 .. Len(s) /\ Len(s) \in Nat
    OBVIOUS
<1>2. SubSeq(s, 1, i - 1) \in Seq(S)
    BY <1>1, SubSeqProperties
<1>3. SubSeq(s, i + 1, Len(s)) \in Seq(S)
    BY <1>1, SubSeqProperties
<1>4. SubSeq(s, 1, i - 1) \o SubSeq(s, i + 1, Len(s)) \in Seq(S)
    BY <1>2, <1>3
<1> QED
    BY <1>4 DEF Seqs!RemoveAt

LEMMA ProtocolInitially ==
    ASSUME DispatchInit
    PROVE  ProtocolInv
<1>1. Channels
  <2>1. <<>> \in Seq(Requested) /\ <<>> \in Seq(Sound)
      OBVIOUS
  <2> QED
      BY <2>1, SessionBoundsAssumption DEF DispatchInit, Channels
<1>2. ThreadsKept
    BY ThreadsAssumption DEF DispatchInit, ThreadsKept, ThreadStates
<1>3. StagesMatch /\ ThreadEnds
    BY DEF DispatchInit, StagesMatch, ThreadEnds, DispatchStages, Failures, Outcomes, Operations, Unprepared
<1> QED
    BY <1>1, <1>2, <1>3 DEF ProtocolInv

\* The ways of a thread, and what stays true of the messages on them.
Onwards ==
    /\ next_id <= next_id' /\ next_id' \in 0..4
    /\ threads' \in [Threads -> ThreadStates]
    /\ thread' \in Threads \cup {NoThread}
    /\ thread' = thread \/ (thread = NoThread /\ next_id = 2)
    /\ \A t \in Threads :
        /\ threads[t] # "none" => threads'[t] # "none"
        /\ threads[t] \in {"named", "deleted"} => threads'[t] \in {"named", "deleted"}
        /\ threads[t] = "deleted" => threads'[t] = "deleted"

LEMMA MessagesStayTrue ==
    ASSUME ThreadsKept, Onwards
    PROVE  Requested \subseteq Requested' /\ Sound \subseteq Sound'
<1>0. next_id \in 0..4 /\ next_id' \in 0..4 /\ next_id <= next_id'
    BY DEF ThreadsKept, Onwards
<1>1. thread' = thread \/ (thread = NoThread /\ next_id = 2)
    BY DEF Onwards
<1>2. ASSUME NEW r \in Requested
      PROVE  r \in Requested'
  <2>1. r.id \in Nat /\ r.id < next_id /\ r.id < next_id'
      BY <1>2, <1>0 DEF Requested, Asked
  <2>2. r.operation \in {"thread/name/set", "thread/delete"} => r.thread = thread' /\ thread' # NoThread
      BY <1>2, <1>1 DEF Requested
  <2> QED
      BY <1>2, <2>1, <2>2 DEF Requested
<1>3. ASSUME NEW a \in Sound
      PROVE  a \in Sound'
  <2>1. a.id \in Nat /\ (a.id < next_id' \/ a.id = NoAnswer)
      BY <1>3, <1>0 DEF Sound, Said, NoAnswer
  <2>2. (a.kind = "result" /\ a.id = 1) => a.thread \in Threads \ Foreign /\ threads'[a.thread] # "none"
      BY <1>3 DEF Sound, Onwards
  <2>3. ASSUME a.kind = "result", a.id \in {2, 3}
        PROVE  thread' = thread /\ thread # NoThread /\ thread \in Threads
      BY <2>3, <1>3, <1>1, <1>0 DEF Sound, ThreadsKept
  <2>4. (a.kind = "result" /\ a.id = 2) => thread' # NoThread /\ threads'[thread'] \in {"named", "deleted"}
      BY <2>3, <1>3 DEF Sound, Onwards
  <2>5. (a.kind = "result" /\ a.id = 3) => thread' # NoThread /\ threads'[thread'] = "deleted"
      BY <2>3, <1>3 DEF Sound, Onwards
  <2> QED
      BY <1>3, <2>1, <2>2, <2>4, <2>5 DEF Sound
<1> QED
    BY <1>2, <1>3

\* Steps that leave the messages alone, or only take some away.
LEMMA ChannelsKept ==
    ASSUME Channels, ThreadsKept, Onwards,
           inbox' \in Seq(Requested), responses' \in Seq(Sound), notices' = notices,
           child' \in {"none", "running", "dead", "reaped", "left"}
    PROVE  Channels'
<1>1. Requested \subseteq Requested' /\ Sound \subseteq Sound'
    BY MessagesStayTrue
<1>2. inbox' \in Seq(Requested')
    BY <1>1, SeqMonotonic
<1>3. responses' \in Seq(Sound')
    BY <1>1, SeqMonotonic
<1> QED
    BY <1>2, <1>3 DEF Channels

LEMMA StandingStill ==
    ASSUME ThreadsKept, UNCHANGED <<threads, thread, next_id>>
    PROVE  Onwards /\ ThreadsKept'
<1>1. Onwards
    BY DEF ThreadsKept, Onwards
<1>2. ThreadsKept'
    BY DEF ThreadsKept
<1> QED
    BY <1>1, <1>2

LEMMA AnswersAreLines ==
    ASSUME NEW a \in Sound
    PROVE  /\ a.id \in Nat
           /\ a.kind \in {"result", "error", "malformed", "closed"}
           /\ a.thread \in Threads \cup {NoThread}
BY DEF Sound, Said

\* The steps before the app server, at its end, and of everybody else.
LEMMA ProtocolAround ==
    ASSUME ProtocolInv,
           PlanTask \/ Agree \/ Decline \/ Lock \/ Compare \/ LaunchClaude \/ StartChild \/ Shutdown
    PROVE  ProtocolInv'
<1>1. UNCHANGED <<inbox, responses, next_id, thread, failure, threads, notices, agent>>
    BY DEF PlanTask, Agree, Decline, Lock, Compare, LaunchClaude, StartChild, Shutdown, protocol
<1>2. ThreadsKept' /\ Onwards
    BY <1>1, StandingStill DEF ProtocolInv
<1>3. child' \in {"none", "running", "dead", "reaped", "left"}
    BY DEF PlanTask, Agree, Decline, Lock, Compare, LaunchClaude, StartChild, Shutdown, protocol,
       ProtocolInv, Channels
<1>4. Channels'
    BY <1>1, <1>2, <1>3, ChannelsKept DEF ProtocolInv, Channels
<1>5. StagesMatch' /\ ThreadEnds'
  <2>1. CASE PlanTask \/ Compare
    <3>1. at \in Unprepared /\ (at' \in Unprepared \/ at' = "end") /\ child' = child
        BY <2>1 DEF PlanTask, Compare, EndDispatch, Unprepared, protocol
    <3>2. /\ at' = "end" => outcome' \in {"not_planned", "stale"}
          /\ at' # "end" => outcome' = outcome
        BY <2>1 DEF PlanTask, Compare, EndDispatch
    <3> QED
        BY <3>1, <3>2, <1>1 DEF ProtocolInv, StagesMatch, ThreadEnds, Unprepared, Operations, DispatchStages, Outcomes
  <2>2. CASE Agree \/ Decline \/ Lock
    <3>1. at \in Unprepared /\ (at' \in Unprepared \/ at' = "end") /\ child' = child
        BY <2>2 DEF Agree, Decline, Lock, EndDispatch, Unprepared, protocol
    <3>2. /\ at' = "end" => outcome' = "aborted"
          /\ at' # "end" => outcome' = outcome
        BY <2>2 DEF Agree, Decline, Lock, EndDispatch
    <3> QED
        BY <3>1, <3>2, <1>1 DEF ProtocolInv, StagesMatch, ThreadEnds, Unprepared, Operations, DispatchStages, Outcomes
  <2>3. CASE LaunchClaude
    <3>1. at = "prepare" /\ agent = "claude" /\ at' = "end" /\ outcome' = "launched" /\ child' = child
        BY <2>3 DEF LaunchClaude, EndDispatch, protocol
    <3> QED
        BY <3>1, <1>1 DEF ProtocolInv, StagesMatch, ThreadEnds, Unprepared, Operations, DispatchStages, Outcomes
  <2>4. CASE StartChild
    <3>1. /\ at = "prepare" /\ agent = "codex"
          /\ \/ at' = "initialize" /\ outcome' = outcome
             \/ at' = "end" /\ outcome' = "primary"
        BY <2>4 DEF StartChild, EndDispatch
    <3> QED
        BY <3>1, <1>1 DEF ProtocolInv, StagesMatch, ThreadEnds, Unprepared, Operations, DispatchStages, Outcomes
  <2>5. CASE Shutdown
    <3>1. PICK exited \in BOOLEAN :
              /\ child' = IF exited THEN "reaped" ELSE "left"
              /\ at' = "end" /\ outcome' = Result(exited)
        BY <2>5 DEF Shutdown, EndDispatch
    <3>2. at = "shutdown" /\ failure \in Failures
        BY <2>5 DEF Shutdown, ProtocolInv, StagesMatch
    <3>3. CASE failure = "none"
        BY <3>1, <3>2, <3>3, <1>1 DEF Result, ProtocolInv, StagesMatch, ThreadEnds, Unprepared, Operations,
           DispatchStages, Outcomes
    <3>4. CASE failure \in {"primary", "naming"}
      <4>1. outcome' = "primary"
          BY <3>1, <3>4 DEF Result
      <4> QED
          BY <3>1, <3>2, <3>4, <4>1, <1>1 DEF ProtocolInv, StagesMatch, ThreadEnds, Unprepared, Operations,
             DispatchStages, Outcomes
    <3>5. CASE failure = "cleanup"
      <4>1. outcome' = "naming_and_cleanup"
          BY <3>1, <3>5 DEF Result
      <4> QED
          BY <3>1, <3>2, <3>5, <4>1, <1>1 DEF ProtocolInv, StagesMatch, ThreadEnds, Unprepared, Operations,
             DispatchStages, Outcomes
    <3> QED
        BY <3>2, <3>3, <3>4, <3>5 DEF Failures
  <2> QED
      BY <2>1, <2>2, <2>3, <2>4, <2>5
<1> QED
    BY <1>2, <1>4, <1>5 DEF ProtocolInv

\* The steps of the other commands, and of editors.
LEMMA ProtocolBeside ==
    ASSUME ProtocolInv,
           UNCHANGED <<at, agent, failure, outcome, child, inbox, responses, next_id, thread, threads, notices>>
    PROVE  ProtocolInv'
<1>1. ThreadsKept' /\ Onwards
    BY StandingStill DEF ProtocolInv
<1>2. Channels'
    BY <1>1, ChannelsKept DEF ProtocolInv, Channels
<1>3. StagesMatch' /\ ThreadEnds'
    BY DEF ProtocolInv, StagesMatch, ThreadEnds
<1> QED
    BY <1>1, <1>2, <1>3 DEF ProtocolInv

\* The number that next_id has once the request of a stage is sent.
SentAs(number) ==
    /\ at = "initialize" => number = 1
    /\ at = "thread/start" => number = 2
    /\ at = "thread/name/set" => number = 3
    /\ at = "thread/delete" => number = 4

LEMMA SentNumbers ==
    ASSUME at \in Operations, Sent
    PROVE  SentAs(next_id)
<1>1. CASE at = "initialize"
    BY <1>1 DEF Sent, SentAs
<1>2. CASE at = "thread/start"
    BY <1>2 DEF Sent, SentAs
<1>3. CASE at = "thread/name/set"
    BY <1>3 DEF Sent, SentAs
<1>4. CASE at = "thread/delete"
    BY <1>4 DEF Sent, SentAs
<1> QED
    BY <1>1, <1>2, <1>3, <1>4 DEF Operations

LEMMA UnsentNumbers ==
    ASSUME at \in Operations, ~Sent, StagesMatch
    PROVE  next_id \in 0..3 /\ SentAs(next_id + 1)
<1>1. CASE at = "initialize"
    BY <1>1 DEF Sent, SentAs, StagesMatch
<1>2. CASE at = "thread/start"
    BY <1>2 DEF Sent, SentAs, StagesMatch
<1>3. CASE at = "thread/name/set"
    BY <1>3 DEF Sent, SentAs, StagesMatch
<1>4. CASE at = "thread/delete"
    BY <1>4 DEF Sent, SentAs, StagesMatch
<1> QED
    BY <1>1, <1>2, <1>3, <1>4 DEF Operations

LEMMA FailuresMatch ==
    ASSUME ProtocolInv, at \in Operations, Fails, SentAs(next_id'),
           UNCHANGED <<agent, outcome, threads, child>>
    PROVE  StagesMatch' /\ ThreadEnds'
<1>1. thread' = thread
    BY DEF Fails
<1>2. CASE at \in {"initialize", "thread/start"}
  <2>1. at' = "shutdown" /\ failure' = "primary" /\ thread' = NoThread
      BY <1>2, <1>1 DEF Fails, ProtocolInv, StagesMatch
  <2> QED
      BY <1>2, <2>1 DEF ProtocolInv, StagesMatch, ThreadEnds, Unprepared, Operations, DispatchStages, Failures
<1>3. CASE at = "thread/name/set"
  <2>1. at' = "thread/delete" /\ failure' = "naming" /\ thread' # NoThread /\ next_id' = 3
      BY <1>3, <1>1 DEF Fails, ProtocolInv, StagesMatch, SentAs
  <2> QED
      BY <1>3, <2>1 DEF ProtocolInv, StagesMatch, ThreadEnds, Unprepared, Operations, DispatchStages, Failures
<1>4. CASE at = "thread/delete"
  <2>1. at' = "shutdown" /\ failure' = "cleanup"
      BY <1>4 DEF Fails
  <2> QED
      BY <1>4, <2>1 DEF ProtocolInv, StagesMatch, ThreadEnds, Unprepared, Operations, DispatchStages, Failures
<1> QED
    BY <1>2, <1>3, <1>4 DEF Operations

LEMMA ProtocolRequests ==
    ASSUME ProtocolInv, Request
    PROVE  ProtocolInv'
<1>1. /\ at \in Operations /\ ~Sent /\ next_id' = next_id + 1
      /\ UNCHANGED <<agent, child, responses, outcome, threads, notices>>
    BY DEF Request
<1>2. next_id \in 0..3 /\ SentAs(next_id')
    BY <1>1, UnsentNumbers DEF ProtocolInv
<1>3. thread' = thread
    BY DEF Request, Fails
<1>4. Onwards
    BY <1>1, <1>2, <1>3 DEF ProtocolInv, ThreadsKept, Onwards
<1>5. ThreadsKept'
  <2>1. \A t \in Threads : threads[t] # "deleted"
      BY <1>2 DEF ProtocolInv, ThreadsKept
  <2> QED
      BY <1>1, <1>2, <1>3, <2>1 DEF ProtocolInv, ThreadsKept
<1>6. Requested \subseteq Requested' /\ Sound \subseteq Sound'
    BY <1>4, MessagesStayTrue DEF ProtocolInv
<1>7. Channels'
  <2>1. inbox \in Seq(Requested')
      BY <1>6, SeqMonotonic DEF ProtocolInv, Channels
  <2>2. responses' \in Seq(Sound')
      BY <1>6, <1>1, SeqMonotonic DEF ProtocolInv, Channels
  <2> DEFINE request == [id |-> next_id, operation |-> at, thread |-> thread]
  <2>3. request \in Requested'
    <3>1. request \in Asked
        BY <1>1, <1>2 DEF Asked, ProtocolInv, ThreadsKept
    <3>2. request.id < next_id'
        BY <1>1, <1>2
    <3>3. /\ at = "initialize" => next_id = 0
          /\ at = "thread/start" => next_id = 1
          /\ at = "thread/name/set" => next_id = 2
          /\ at = "thread/delete" => next_id = 3
        BY <1>1, <1>2 DEF SentAs
    <3>4. at \in {"thread/name/set", "thread/delete"} => thread # NoThread
        BY DEF ProtocolInv, StagesMatch
    <3> QED
        BY <3>1, <3>2, <3>3, <3>4, <1>3 DEF Requested
  <2>4. Append(inbox, request) \in Seq(Requested')
      BY <2>1, <2>3
  <2>5. inbox' \in Seq(Requested')
      BY <2>1, <2>4 DEF Request
  <2> QED
      BY <2>2, <2>5, <1>1 DEF ProtocolInv, Channels
<1>8. StagesMatch' /\ ThreadEnds'
  <2>1. CASE Fails
      BY <2>1, <1>1, <1>2, FailuresMatch
  <2>2. CASE UNCHANGED <<at, failure, thread>>
    <3>1. /\ at = "initialize" => next_id' = 1
          /\ at = "thread/start" => next_id' = 2
          /\ at = "thread/name/set" => next_id' = 3
          /\ at = "thread/delete" => next_id' = 4
        BY <1>2 DEF SentAs
    <3>2. at \notin Unprepared /\ at \notin {"shutdown", "end"}
        BY <1>1 DEF Operations, Unprepared
    <3> QED
        BY <2>2, <1>1, <3>1, <3>2 DEF ProtocolInv, StagesMatch, ThreadEnds
  <2> QED
      BY <2>1, <2>2 DEF Request
<1> QED
    BY <1>5, <1>7, <1>8 DEF ProtocolInv

LEMMA ProtocolWaits ==
    ASSUME ProtocolInv, Deadline
    PROVE  ProtocolInv'
<1>1. /\ at \in Operations /\ Sent /\ Fails
      /\ UNCHANGED <<agent, child, inbox, responses, next_id, outcome, threads, notices>>
    BY DEF Deadline
<1>2. thread' = thread
    BY <1>1 DEF Fails
<1>3. ThreadsKept' /\ Onwards
    BY <1>1, <1>2, StandingStill DEF ProtocolInv
<1>4. Channels'
    BY <1>1, <1>3, ChannelsKept DEF ProtocolInv, Channels
<1>5. StagesMatch' /\ ThreadEnds'
    BY <1>1, SentNumbers, FailuresMatch
<1> QED
    BY <1>3, <1>4, <1>5 DEF ProtocolInv

\* The answer to a name says that it is there, since nothing was deleted yet.
LEMMA ProtocolReceives ==
    ASSUME ProtocolInv, Receive
    PROVE  ProtocolInv'
<1> DEFINE answer == Head(responses)
<1>1. /\ at \in Operations /\ Sent /\ responses # <<>>
      /\ UNCHANGED <<agent, child, inbox, next_id, outcome, threads, notices>>
    BY DEF Receive
<1>2. answer \in Sound /\ Tail(responses) \in Seq(Sound)
    BY <1>1 DEF ProtocolInv, Channels
<1>3. responses' \in Seq(Sound)
    BY <1>2 DEF Receive, ProtocolInv, Channels
<1>4. SentAs(next_id)
    BY <1>1, SentNumbers
<1> HIDE DEF answer
<1>5. CASE Fails \/ UNCHANGED <<at, failure, thread>>
  <2>1. thread' = thread
      BY <1>5 DEF Fails
  <2>2. ThreadsKept' /\ Onwards
      BY <1>1, <2>1, StandingStill DEF ProtocolInv
  <2>3. Channels'
      BY <1>1, <1>3, <2>2, ChannelsKept DEF ProtocolInv, Channels
  <2>4. CASE Fails
      BY <2>2, <2>3, <2>4, <1>1, <1>4, FailuresMatch DEF ProtocolInv
  <2>5. CASE UNCHANGED <<at, failure, thread>>
      BY <2>2, <2>3, <2>5, <1>1 DEF ProtocolInv, StagesMatch, ThreadEnds
  <2> QED
      BY <1>5, <2>4, <2>5
<1>6. CASE ~Fails /\ ~UNCHANGED <<at, failure, thread>>
  <2>1. Matches(answer) /\ answer.kind \notin {"error", "malformed", "closed"} /\ Succeeds(answer)
      BY <1>6 DEF Receive, answer
  <2>2. answer.kind = "result" /\ answer.id = next_id - 1 /\ failure' = failure
      BY <2>1, <1>2, AnswersAreLines DEF Matches, Awaited, Succeeds
  <2>3. CASE at = "initialize"
    <3>1. at' = "thread/start" /\ thread' = thread /\ next_id = 1
        BY <2>1, <2>3, <1>4 DEF Succeeds, SentAs
    <3>2. ThreadsKept' /\ Onwards
        BY <1>1, <3>1, StandingStill DEF ProtocolInv
    <3>3. Channels'
        BY <1>1, <1>3, <3>2, ChannelsKept DEF ProtocolInv, Channels
    <3>4. StagesMatch' /\ ThreadEnds'
        BY <2>2, <2>3, <3>1, <1>1 DEF ProtocolInv, StagesMatch, ThreadEnds, Unprepared, Operations, DispatchStages
    <3> QED
        BY <3>2, <3>3, <3>4 DEF ProtocolInv
  <2>4. CASE at = "thread/start"
    <3>1. at' = "thread/name/set" /\ thread' = answer.thread /\ next_id = 2 /\ thread = NoThread
        BY <2>1, <2>4, <1>4 DEF Succeeds, SentAs, ProtocolInv, StagesMatch
    <3>2. answer.thread \in Threads \ Foreign /\ threads[answer.thread] # "none"
        BY <1>2, <2>2, <3>1 DEF Sound
    <3>3. answer.thread # NoThread
        BY <3>2, ThreadsAssumption
    <3>4. Onwards
        BY <1>1, <3>1, <3>2 DEF ProtocolInv, ThreadsKept, Onwards
    <3>5. ThreadsKept'
        BY <1>1, <3>1, <3>2 DEF ProtocolInv, ThreadsKept
    <3>6. Channels'
        BY <1>1, <1>3, <3>4, ChannelsKept DEF ProtocolInv, Channels
    <3>7. StagesMatch' /\ ThreadEnds'
        BY <2>2, <2>4, <3>1, <3>3, <1>1 DEF ProtocolInv, StagesMatch, ThreadEnds, Unprepared, Operations, DispatchStages
    <3> QED
        BY <3>5, <3>6, <3>7 DEF ProtocolInv
  <2>5. CASE at \in {"thread/name/set", "thread/delete"}
    <3>1. at' = "shutdown" /\ thread' = thread
        BY <2>1, <2>5 DEF Succeeds
    <3>2. ThreadsKept' /\ Onwards
        BY <1>1, <3>1, StandingStill DEF ProtocolInv
    <3>3. Channels'
        BY <1>1, <1>3, <3>2, ChannelsKept DEF ProtocolInv, Channels
    <3>4. CASE at = "thread/name/set"
      <4>1. next_id = 3 /\ failure = "none" /\ answer.id = 2
          BY <3>4, <1>4, <2>2 DEF SentAs, ProtocolInv, StagesMatch
      <4>2. thread # NoThread /\ threads[thread] \in {"named", "deleted"}
          BY <4>1, <1>2, <2>2 DEF Sound
      <4>3. threads[thread] = "named"
          BY <4>1, <4>2 DEF ProtocolInv, ThreadsKept
      <4>4. StagesMatch' /\ ThreadEnds'
          BY <4>1, <4>2, <4>3, <3>1, <3>4, <2>2, <1>1 DEF ProtocolInv, StagesMatch, ThreadEnds, Unprepared, Operations, DispatchStages
      <4> QED
          BY <4>4, <3>2, <3>3 DEF ProtocolInv
    <3>5. CASE at = "thread/delete"
      <4>1. next_id = 4 /\ failure = "naming" /\ answer.id = 3
          BY <3>5, <1>4, <2>2 DEF SentAs, ProtocolInv, StagesMatch
      <4>2. thread # NoThread /\ threads[thread] = "deleted"
          BY <4>1, <1>2, <2>2 DEF Sound
      <4>3. StagesMatch' /\ ThreadEnds'
          BY <4>1, <4>2, <3>1, <3>5, <2>2, <1>1 DEF ProtocolInv, StagesMatch, ThreadEnds, Unprepared, Operations, DispatchStages
      <4> QED
          BY <4>3, <3>2, <3>3 DEF ProtocolInv
    <3> QED
        BY <2>5, <3>4, <3>5
  <2> QED
      BY <1>1, <2>3, <2>4, <2>5 DEF Operations
<1> QED
    BY <1>5, <1>6

\* What the child does to the threads when it carries out a request, and that
\* its answer is true.
LEMMA EffectsAreSound ==
    ASSUME ThreadsKept, NEW r \in Requested, NEW made \in Made(r), threads' = Effect(r, made),
           UNCHANGED <<thread, next_id>>
    PROVE  /\ Onwards /\ ThreadsKept'
           /\ next_id # 4 => \A t \in Threads : threads[t] = "named" => threads'[t] = "named"
           /\ \A kind \in {"result", "malformed"} : [id |-> r.id, kind |-> kind, thread |-> made] \in Sound'
<1>1. /\ r.id \in Nat /\ r.operation \in Operations /\ r.thread \in Threads \cup {NoThread}
      /\ r.id < next_id
    BY DEF Requested, Asked
<1>2. next_id \in 0..4
    BY DEF ThreadsKept
<1>3. CASE r.operation = "initialize"
  <2>1. threads' = threads /\ made = NoThread /\ r.id = 0
      BY <1>3 DEF Effect, Made, Requested
  <2>2. Onwards /\ ThreadsKept'
      BY <2>1, StandingStill
  <2> QED
      BY <2>1, <2>2, <1>1 DEF Sound, Said
<1>4. CASE r.operation = "thread/start"
  <2>1. r.id = 1 /\ made \in Threads /\ threads[made] = "none" /\ threads' = [threads EXCEPT ![made] = "unnamed"]
      BY <1>4 DEF Effect, Made, Requested
  <2>2. made \notin Foreign /\ threads' \in [Threads -> ThreadStates]
      BY <2>1 DEF ThreadsKept, ThreadStates
  <2>3. \A t \in Threads : (t = made => threads'[t] = "unnamed") /\ (t # made => threads'[t] = threads[t])
      BY <2>1 DEF ThreadsKept
  <2>4. Onwards /\ ThreadsKept'
      BY <2>1, <2>2, <2>3 DEF ThreadsKept, Onwards
  <2>5. \A t \in Threads : threads[t] = "named" => threads'[t] = "named"
      BY <2>1, <2>3
  <2> QED
      BY <2>1, <2>2, <2>3, <2>4, <2>5, <1>1 DEF Sound, Said
<1>5. CASE r.operation = "thread/name/set"
  <2>1. /\ r.id = 2 /\ made = NoThread /\ r.thread = thread /\ thread # NoThread
        /\ threads' = [threads EXCEPT ![thread] = IF @ = "unnamed" THEN "named" ELSE @]
      BY <1>5 DEF Effect, Made, Requested
  <2>2. thread \in Threads /\ threads[thread] # "none" /\ threads[thread] \in ThreadStates
      BY <2>1 DEF ThreadsKept
  <2>3. threads' \in [Threads -> ThreadStates]
      BY <2>1, <2>2 DEF ThreadsKept, ThreadStates
  <2>4. \A t \in Threads : (t # thread => threads'[t] = threads[t])
      BY <2>1 DEF ThreadsKept
  <2>5. threads'[thread] = IF threads[thread] = "unnamed" THEN "named" ELSE threads[thread]
      BY <2>1, <2>2 DEF ThreadsKept
  <2>6. Onwards /\ ThreadsKept'
    <3>1. Onwards
        BY <1>2, <2>1, <2>2, <2>3, <2>4, <2>5 DEF ThreadsKept, Onwards
    <3>2. ThreadsKept'
        BY <2>1, <2>2, <2>3, <2>4, <2>5, ThreadsAssumption DEF ThreadsKept
    <3> QED
        BY <3>1, <3>2
  <2>7. threads'[thread] \in {"named", "deleted"}
      BY <2>2, <2>5 DEF ThreadStates
  <2>8. \A t \in Threads : threads[t] = "named" => threads'[t] = "named"
      BY <2>4, <2>5
  <2> QED
      BY <2>1, <2>6, <2>7, <2>8, <1>1 DEF Sound, Said
<1>6. CASE r.operation = "thread/delete"
  <2>1. /\ r.id = 3 /\ made = NoThread /\ r.thread = thread /\ thread # NoThread
        /\ threads' = [threads EXCEPT ![thread] = "deleted"]
      BY <1>6 DEF Effect, Made, Requested
  <2>2. thread \in Threads /\ next_id = 4
      BY <2>1, <1>1, <1>2 DEF ThreadsKept
  <2>3. threads' \in [Threads -> ThreadStates]
      BY <2>1 DEF ThreadsKept, ThreadStates
  <2>4. threads'[thread] = "deleted" /\ \A t \in Threads : (t # thread => threads'[t] = threads[t])
      BY <2>1, <2>2 DEF ThreadsKept
  <2>5. Onwards /\ ThreadsKept'
    <3>1. Onwards
        BY <1>2, <2>1, <2>2, <2>3, <2>4 DEF ThreadsKept, Onwards
    <3>2. ThreadsKept'
        BY <2>1, <2>2, <2>3, <2>4, ThreadsAssumption DEF ThreadsKept
    <3> QED
        BY <3>1, <3>2
  <2> QED
      BY <2>1, <2>2, <2>4, <2>5, <1>1 DEF Sound, Said
<1> QED
    BY <1>1, <1>3, <1>4, <1>5, <1>6 DEF Operations

LEMMA ProtocolHandles ==
    ASSUME ProtocolInv, Handle
    PROVE  ProtocolInv'
<1>1. UNCHANGED <<at, agent, child, next_id, thread, failure, notices, outcome>> /\ child \in {"running", "left"}
    BY DEF Handle, Alive, plannings
<1>2. PICK i \in DOMAIN inbox :
        /\ inbox' = Seqs!RemoveAt(inbox, i)
        /\ \/ \E made \in Made(inbox[i]) :
                /\ threads' = Effect(inbox[i], made)
                /\ \/ \E kind \in {"result", "malformed"} : responses' = Say(kind, inbox[i].id, made)
                   \/ UNCHANGED responses
           \/ threads' = threads /\ responses' = Say("error", inbox[i].id, NoThread)
    BY DEF Handle
<1> DEFINE r == inbox[i]
<1>3. inbox \in Seq(Requested) /\ responses \in Seq(Sound)
    BY DEF ProtocolInv, Channels
<1>4. r \in Requested
    BY <1>3
<1>5. inbox' \in Seq(Requested)
    BY <1>2, <1>3, RemovalTakesOne
<1>6. r.id \in Nat /\ r.id < next_id
    BY <1>4 DEF Requested, Asked
<1> HIDE DEF r
<1>7. /\ Onwards /\ ThreadsKept'
      /\ responses' \in Seq(Sound')
      /\ next_id # 4 => \A t \in Threads : threads[t] = "named" => threads'[t] = "named"
  <2>1. CASE threads' = threads /\ responses' = Say("error", r.id, NoThread)
    <3>1. Onwards /\ ThreadsKept'
        BY <2>1, <1>1, StandingStill DEF ProtocolInv
    <3>2. Sound \subseteq Sound'
        BY <3>1, MessagesStayTrue DEF ProtocolInv
    <3>3. responses \in Seq(Sound')
        BY <3>2, <1>3, SeqMonotonic
    <3>4. [id |-> r.id, kind |-> "error", thread |-> NoThread] \in Sound'
        BY <1>6, <1>1 DEF Sound, Said
    <3>5. responses' \in Seq(Sound')
        BY <2>1, <3>3, <3>4 DEF Say
    <3> QED
        BY <3>1, <3>5, <2>1
  <2>2. ASSUME NEW made \in Made(r), threads' = Effect(r, made),
               (\E kind \in {"result", "malformed"} : responses' = Say(kind, r.id, made)) \/ UNCHANGED responses
        PROVE  /\ Onwards /\ ThreadsKept'
               /\ responses' \in Seq(Sound')
               /\ next_id # 4 => \A t \in Threads : threads[t] = "named" => threads'[t] = "named"
    <3>1. /\ Onwards /\ ThreadsKept'
          /\ next_id # 4 => \A t \in Threads : threads[t] = "named" => threads'[t] = "named"
          /\ \A kind \in {"result", "malformed"} : [id |-> r.id, kind |-> kind, thread |-> made] \in Sound'
        BY <2>2, <1>1, <1>4, EffectsAreSound DEF ProtocolInv
    <3>2. Sound \subseteq Sound'
        BY <3>1, MessagesStayTrue DEF ProtocolInv
    <3>3. responses \in Seq(Sound')
        BY <3>2, <1>3, SeqMonotonic
    <3>4. CASE UNCHANGED responses
        BY <3>1, <3>3, <3>4
    <3>5. ASSUME NEW kind \in {"result", "malformed"}, responses' = Say(kind, r.id, made)
          PROVE  responses' \in Seq(Sound')
        BY <3>1, <3>3, <3>5 DEF Say
    <3> QED
        BY <2>2, <3>1, <3>4, <3>5
  <2> QED
      BY <1>2, <2>1, <2>2 DEF r
<1>8. Channels'
  <2>1. Requested \subseteq Requested'
      BY <1>7, MessagesStayTrue DEF ProtocolInv
  <2>2. inbox' \in Seq(Requested')
      BY <2>1, <1>5, SeqMonotonic
  <2> QED
      BY <2>2, <1>1, <1>7 DEF ProtocolInv, Channels
<1>9. StagesMatch'
    BY <1>1 DEF ProtocolInv, StagesMatch
<1>10. ThreadEnds'
  <2>1. thread # NoThread => thread \in Threads
      BY DEF ProtocolInv, ThreadsKept
  <2>2. thread # NoThread /\ threads[thread] = "deleted" => threads'[thread] = "deleted"
      BY <2>1, <1>7 DEF Onwards
  <2>3. next_id = 3 /\ thread # NoThread /\ threads[thread] = "named" => threads'[thread] = "named"
      BY <2>1, <1>7
  <2> QED
      BY <1>1, <2>2, <2>3 DEF ProtocolInv, ThreadEnds
<1> QED
    BY <1>7, <1>8, <1>9, <1>10 DEF ProtocolInv

\* Lines that answer nothing, and the end of the child's output.
LEMMA ProtocolTalks ==
    ASSUME ProtocolInv, Notice \/ Exit
    PROVE  ProtocolInv'
<1>1. UNCHANGED <<at, agent, next_id, thread, threads, failure, outcome>>
    BY DEF Notice, Exit, plannings
<1>2. ThreadsKept' /\ Onwards
    BY <1>1, StandingStill DEF ProtocolInv
<1>3. Requested \subseteq Requested' /\ Sound \subseteq Sound'
    BY <1>2, MessagesStayTrue DEF ProtocolInv
<1>4. inbox' \in Seq(Requested')
  <2>1. inbox' = inbox \/ inbox' = <<>>
      BY DEF Notice, Exit
  <2>2. inbox \in Seq(Requested') /\ <<>> \in Seq(Requested')
      BY <1>3, SeqMonotonic DEF ProtocolInv, Channels
  <2> QED
      BY <2>1, <2>2
<1>5. responses' \in Seq(Sound')
  <2>1. \E kind \in {"result", "malformed", "closed"} : responses' = Say(kind, NoAnswer, NoThread)
      BY DEF Notice, Exit
  <2>2. \A kind \in {"result", "malformed", "closed"} :
            [id |-> NoAnswer, kind |-> kind, thread |-> NoThread] \in Sound'
      BY DEF Sound, Said, NoAnswer
  <2>3. responses \in Seq(Sound')
      BY <1>3, SeqMonotonic DEF ProtocolInv, Channels
  <2> QED
      BY <2>1, <2>2, <2>3 DEF Say
<1>6. Channels'
  <2>1. notices' \in 0..MaxNotices
      BY SessionBoundsAssumption DEF Notice, Exit, ProtocolInv, Channels
  <2>2. child' \in {"none", "running", "dead", "reaped", "left"} /\ (child' = child \/ child = "running")
      BY DEF Notice, Exit, ProtocolInv, Channels
  <2> QED
      BY <2>1, <2>2, <1>4, <1>5 DEF Channels
<1>7. StagesMatch' /\ ThreadEnds'
  <2>1. child' = child \/ child = "running"
      BY DEF Notice, Exit
  <2> QED
      BY <2>1, <1>1 DEF ProtocolInv, StagesMatch, ThreadEnds
<1> QED
    BY <1>2, <1>6, <1>7 DEF ProtocolInv

LEMMA ProtocolNext ==
    ASSUME ProtocolInv, [DispatchNext]_dispatchVars
    PROVE  ProtocolInv'
<1>1. CASE PlanTask \/ Agree \/ Decline \/ Lock \/ Compare \/ LaunchClaude \/ StartChild \/ Shutdown
    BY <1>1, ProtocolAround
<1>2. CASE Request
    BY <1>2, ProtocolRequests
<1>3. CASE Receive
    BY <1>3, ProtocolReceives
<1>4. CASE Deadline
    BY <1>4, ProtocolWaits
<1>5. CASE Handle
    BY <1>5, ProtocolHandles
<1>6. CASE Notice \/ Exit
    BY <1>6, ProtocolTalks
<1>7. CASE BeginCommand \/ EndCommand \/ EditTask \/ UNCHANGED dispatchVars
  <2>1. UNCHANGED <<at, agent, failure, outcome, child, inbox, responses, next_id, thread, threads, notices>>
      BY <1>7 DEF BeginCommand, EndCommand, EditTask, dispatchVars, plannings, protocol
  <2> QED
      BY <2>1, ProtocolBeside
<1> QED
    BY <1>1, <1>2, <1>3, <1>4, <1>5, <1>6, <1>7 DEF DispatchNext, DispatchStep

LEMMA ProtocolHolds == DispatchInit /\ [][DispatchNext]_dispatchVars => []ProtocolInv
<1>1. DispatchInit => ProtocolInv
    BY ProtocolInitially
<1>2. ProtocolInv /\ [DispatchNext]_dispatchVars => ProtocolInv'
    BY ProtocolNext
<1> QED
    BY <1>1, <1>2, PTL

\* A session starts only on a thread of its own that carries its name, and a
\* thread that the dispatch learnt of is launched, deleted or named in the
\* error (codex_app_server.rs create_thread).
THEOREM ThreadsAreAccountedFor == DispatchSpec => []ThreadsAccountedFor
<1>1. ASSUME ProtocolInv
      PROVE  ThreadsAccountedFor
  <2>1. outcome = "launched" => at = "end"
      BY <1>1 DEF ProtocolInv, StagesMatch
  <2>2. at = "end" /\ outcome = "launched" /\ agent = "codex" =>
            child = "reaped" /\ thread # NoThread /\ threads[thread] = "named"
      BY <1>1 DEF ProtocolInv, ThreadEnds
  <2>3. thread # NoThread => thread \notin Foreign
      BY <1>1 DEF ProtocolInv, ThreadsKept
  <2>4. at = "end" /\ thread # NoThread =>
            outcome \in {"launched", "named_shutdown", "naming_and_cleanup"} \/ threads[thread] = "deleted"
      BY <1>1 DEF ProtocolInv, ThreadEnds
  <2> QED
      BY <2>1, <2>2, <2>3, <2>4 DEF ThreadsAccountedFor
<1>2. ProtocolInv => ThreadsAccountedFor
    BY <1>1
<1> QED
    BY <1>2, ProtocolHolds, PTL DEF DispatchSpec

\* The types of a dispatch.
THEOREM DispatchesAreTyped == DispatchSpec => []DispatchTypeOK
<1>1. ASSUME PlanInv, ProtocolInv
      PROVE  DispatchTypeOK
  <2>1. Requested \subseteq Asked /\ Sound \subseteq Said
      BY DEF Requested, Sound
  <2>2. inbox \in Seq(Asked) /\ responses \in Seq(Said)
      BY <1>1, <2>1, SeqMonotonic DEF ProtocolInv, Channels
  <2>3. plan.tasks \in Plans /\ plan.revisions \in Seq(Contents) /\ Len(plan.revisions) <= Len(plan.tasks)
      BY <1>1 DEF PlanInv, PlanTyped, ReadSoFar
  <2> QED
      BY <1>1, <2>2, <2>3 DEF DispatchTypeOK, PlanInv, PlanTyped, ProtocolInv, Channels, ThreadsKept,
         StagesMatch, Asked, Said
<1>2. PlanInv /\ ProtocolInv => DispatchTypeOK
    BY <1>1
<1> QED
    BY <1>2, PlanHolds, ProtocolHolds, PTL DEF DispatchSpec

-----------------------------------------------------------------------------
(* EditorPlugin.  The plugin has a child exactly while a request waits, so   *)
(* that whatever waits at an exit was sent to the child that exits; a        *)
(* request that waits has no outcome, and the first one ends its wait.       *)

PluginTyped ==
    /\ job \in Children \cup {NoChild}
    /\ waiting \subseteq Calls
    /\ calls \in 0..MaxCalls
    /\ sentTo \in [Calls -> Children \cup {NoChild}]
    /\ scheduled \subseteq Calls \X CallOutcomes
    /\ called \in [Calls -> SUBSET CallOutcomes]
    /\ process \in [Children -> ChildPhases]
    /\ unread \in [Children -> SUBSET Calls]
    /\ serving \in [Children -> SUBSET Calls]
    /\ replies \in [Children -> SUBSET Calls]

FewWait == IsFiniteSet(waiting) /\ Cardinality(waiting) <= InFlightMax

\* The child that the plugin has was neither stopped nor is it forgotten.
ChildInUse ==
    /\ job # NoChild => process[job] \in {"running", "leaving", "exited"}
    /\ \A q \in Children : q # job => process[q] # "running"

WaitersMatch ==
    /\ job = NoChild <=> waiting = {}
    /\ \A id \in waiting : sentTo[id] = job

\* A number that was not given out yet has no outcome.
CallsAreNumbered ==
    /\ waiting \subseteq 1..calls
    /\ \A id \in Calls : id > calls => KnownOutcomes(id) = {}

SettledOnce == \A id \in Calls :
    /\ \A o1, o2 \in KnownOutcomes(id) : o1 = o2
    /\ id \in waiting => KnownOutcomes(id) = {}
    /\ \A given \in called[id] : <<id, given>> \notin scheduled

\* The request that an exit ended was sent, and its child is gone for good.
OwnExits ==
    \A id \in Calls : "exited" \in KnownOutcomes(id) =>
        sentTo[id] \in Children /\ process[sentTo[id]] = "gone"

PluginInv ==
    PluginTyped /\ FewWait /\ ChildInUse /\ WaitersMatch /\ CallsAreNumbered /\ SettledOnce /\ OwnExits

LEMMA PluginInitially ==
    ASSUME PluginInit
    PROVE  PluginInv
<1>1. PluginTyped
    BY PluginAssumption DEF PluginInit, PluginTyped, Calls, ChildPhases
<1>2. FewWait
  <2>1. IsFiniteSet({}) /\ Cardinality({}) = 0
      BY FS_EmptySet
  <2> QED
      BY <2>1, PluginAssumption DEF PluginInit, FewWait
<1>3. \A id \in Calls : KnownOutcomes(id) = {}
    BY DEF PluginInit, KnownOutcomes
<1>4. ChildInUse /\ WaitersMatch
    BY PluginAssumption DEF PluginInit, ChildInUse, WaitersMatch
<1>5. CallsAreNumbered /\ SettledOnce /\ OwnExits
    BY <1>3 DEF PluginInit, CallsAreNumbered, SettledOnce, OwnExits
<1> QED
    BY <1>1, <1>2, <1>4, <1>5 DEF PluginInv

\* Requests that had no outcome are given one, and do not wait any longer.
LEMMA OutcomesSettle ==
    ASSUME PluginTyped, SettledOnce, NEW settled \in SUBSET Calls, NEW given \in CallOutcomes,
           \A id \in settled : KnownOutcomes(id) = {},
           scheduled' = scheduled \cup (settled \X {given}), called' = called,
           \A id \in waiting' : id \notin settled /\ KnownOutcomes(id) = {}
    PROVE  /\ scheduled' \subseteq Calls \X CallOutcomes
           /\ SettledOnce'
           /\ \A id \in Calls : KnownOutcomes(id)' = IF id \in settled THEN {given} ELSE KnownOutcomes(id)
<1>1. scheduled' \subseteq Calls \X CallOutcomes
    BY DEF PluginTyped
<1>2. \A id \in Calls : \A o : <<id, o>> \in scheduled' <=> (<<id, o>> \in scheduled \/ (id \in settled /\ o = given))
    OBVIOUS
<1>3. \A id \in Calls : KnownOutcomes(id)' = IF id \in settled THEN {given} ELSE KnownOutcomes(id)
  <2> SUFFICES ASSUME NEW id \in Calls
               PROVE  KnownOutcomes(id)' = IF id \in settled THEN {given} ELSE KnownOutcomes(id)
      OBVIOUS
  <2>1. KnownOutcomes(id)' = {o \in CallOutcomes : <<id, o>> \in scheduled'} \cup called[id]
      BY DEF KnownOutcomes
  <2>2. CASE id \in settled
    <3>1. called[id] = {} /\ \A o \in CallOutcomes : <<id, o>> \notin scheduled
        BY <2>2 DEF KnownOutcomes
    <3> QED
        BY <2>1, <2>2, <3>1, <1>2
  <2>3. CASE id \notin settled
      BY <2>1, <2>3, <1>2 DEF KnownOutcomes
  <2> QED
      BY <2>2, <2>3
<1>4. SettledOnce'
  <2> SUFFICES ASSUME NEW id \in Calls
               PROVE  /\ \A o1, o2 \in KnownOutcomes(id)' : o1 = o2
                      /\ id \in waiting' => KnownOutcomes(id)' = {}
                      /\ \A o \in called[id] : <<id, o>> \notin scheduled'
      BY DEF SettledOnce
  <2>1. \A o1, o2 \in KnownOutcomes(id)' : o1 = o2
      BY <1>3 DEF SettledOnce
  <2>2. id \in waiting' => KnownOutcomes(id)' = {}
      BY <1>3
  <2>3. \A o \in called[id] : <<id, o>> \notin scheduled'
    <3>1. id \in settled => called[id] = {}
        BY DEF KnownOutcomes
    <3> QED
        BY <3>1, <1>2 DEF SettledOnce
  <2> QED
      BY <2>1, <2>2, <2>3
<1> QED
    BY <1>1, <1>3, <1>4

LEMMA FewerWait ==
    ASSUME FewWait, waiting' \subseteq waiting
    PROVE  FewWait'
<1>1. IsFiniteSet(waiting') /\ Cardinality(waiting') <= Cardinality(waiting)
    BY FS_Subset DEF FewWait
<1>2. Cardinality(waiting) \in Nat /\ Cardinality(waiting') \in Nat
    BY <1>1, FS_CardinalityType DEF FewWait
<1> QED
    BY <1>1, <1>2, PluginAssumption DEF FewWait

\* The child that is gone stays so, and a number keeps its child.
LEMMA ExitsStayOwn ==
    ASSUME PluginTyped, OwnExits, \A p \in Children : process[p] = "gone" => process'[p] = "gone",
           sentTo' \in [Calls -> Children \cup {NoChild}],
           \A id \in Calls : "exited" \in KnownOutcomes(id)' =>
               \/ "exited" \in KnownOutcomes(id) /\ sentTo'[id] = sentTo[id]
               \/ sentTo'[id] \in Children /\ process'[sentTo'[id]] = "gone"
    PROVE  OwnExits'
BY DEF OwnExits

\* A request that is refused, or that cannot be sent, has its outcome at once.
LEMMA PluginRefuses ==
    ASSUME PluginInv, CallRefused \/ CallUnsent
    PROVE  PluginInv'
<1>1. /\ calls < MaxCalls /\ calls' = calls + 1
      /\ scheduled' = scheduled \cup {<<calls + 1, "failed">>}
      /\ UNCHANGED <<waiting, sentTo, called, process, unread, serving, replies>>
    BY DEF CallRefused, CallUnsent
<1>2. job' = job
    BY DEF CallRefused, CallUnsent, PluginInv, WaitersMatch
<1>3. calls \in Nat /\ calls + 1 \in Calls /\ calls' \in 0..MaxCalls
    BY <1>1, PluginAssumption DEF PluginInv, PluginTyped, Calls
<1> DEFINE settled == {calls + 1}
<1>4. /\ scheduled' = scheduled \cup (settled \X {"failed"})
      /\ settled \in SUBSET Calls /\ "failed" \in CallOutcomes
    BY <1>1, <1>3 DEF CallOutcomes
<1>5. \A id \in settled : KnownOutcomes(id) = {} /\ id \notin waiting
    BY <1>3 DEF PluginInv, CallsAreNumbered
<1>6. \A id \in waiting : id \notin settled /\ KnownOutcomes(id) = {}
    BY <1>5 DEF PluginInv, SettledOnce, PluginTyped
<1> HIDE DEF settled
<1>7. /\ scheduled' \subseteq Calls \X CallOutcomes
      /\ SettledOnce'
      /\ \A id \in Calls : KnownOutcomes(id)' = IF id \in settled THEN {"failed"} ELSE KnownOutcomes(id)
    BY <1>1, <1>4, <1>5, <1>6, OutcomesSettle DEF PluginInv
<1>8. PluginTyped' /\ FewWait'
    BY <1>1, <1>2, <1>3, <1>7 DEF PluginInv, PluginTyped, FewWait
<1>9. ChildInUse' /\ WaitersMatch'
    BY <1>1, <1>2 DEF PluginInv, ChildInUse, WaitersMatch
<1>10. CallsAreNumbered'
  <2>1. waiting' \subseteq 1 .. calls'
      BY <1>1, <1>3 DEF PluginInv, CallsAreNumbered
  <2>2. \A id \in Calls : id > calls' => id \notin settled /\ id > calls
      BY <1>1, <1>3 DEF settled, Calls
  <2> QED
      BY <2>1, <2>2, <1>7 DEF PluginInv, CallsAreNumbered
<1>11. OwnExits'
    BY <1>1, <1>7, ExitsStayOwn DEF PluginInv, PluginTyped
<1> QED
    BY <1>7, <1>8, <1>9, <1>10, <1>11 DEF PluginInv

\* M.request sends the request to the child that the plugin has, or to a new
\* one, of which nobody waits yet.
LEMMA PluginCalls ==
    ASSUME PluginInv, NEW p \in Children, Call(p)
    PROVE  PluginInv'
<1>1. /\ calls < MaxCalls /\ calls' = calls + 1
      /\ Cardinality(waiting) < InFlightMax
      /\ p = IF job = NoChild THEN NewChild ELSE job
      /\ process[p] \notin {"exited", "gone"}
      /\ waiting' = waiting \cup {calls + 1}
      /\ sentTo' = [sentTo EXCEPT ![calls + 1] = p]
      /\ unread' = [unread EXCEPT ![p] = @ \cup {calls + 1}]
      /\ job' = p
      /\ process' = [process EXCEPT ![p] = IF @ = "absent" THEN "running" ELSE @]
      /\ UNCHANGED <<scheduled, called, serving, replies>>
    BY DEF Call
<1>2. calls \in Nat /\ calls + 1 \in Calls /\ calls' \in 0..MaxCalls
    BY <1>1, PluginAssumption DEF PluginInv, PluginTyped, Calls
<1>3. KnownOutcomes(calls + 1) = {} /\ calls + 1 \notin waiting
    BY <1>2 DEF PluginInv, CallsAreNumbered
<1>4. \A id \in Calls : KnownOutcomes(id)' = KnownOutcomes(id)
    BY <1>1 DEF KnownOutcomes
<1>5. PluginTyped'
  <2>1. sentTo' \in [Calls -> Children \cup {NoChild}]
      BY <1>1 DEF PluginInv, PluginTyped
  <2>2. process' \in [Children -> ChildPhases]
      BY <1>1 DEF PluginInv, PluginTyped, ChildPhases
  <2>3. unread' \in [Children -> SUBSET Calls]
      BY <1>1, <1>2 DEF PluginInv, PluginTyped
  <2>4. waiting' \subseteq Calls
      BY <1>1, <1>2 DEF PluginInv, PluginTyped
  <2> QED
      BY <1>1, <1>2, <2>1, <2>2, <2>3, <2>4 DEF PluginInv, PluginTyped
<1>6. FewWait'
  <2>1. IsFiniteSet(waiting') /\ Cardinality(waiting') = Cardinality(waiting) + 1
      BY <1>1, <1>3, FS_AddElement DEF PluginInv, FewWait
  <2>2. Cardinality(waiting) \in Nat
      BY FS_CardinalityType DEF PluginInv, FewWait
  <2> QED
      BY <1>1, <2>1, <2>2, PluginAssumption DEF FewWait
\* The child of the plugin is in use; a new one was not started before.
<1>7. process'[p] \in {"running", "leaving"} /\ \A q \in Children : q # p => process'[q] = process[q]
  <2>1. CASE job = NoChild
    <3>1. p \in {q \in Children : process[q] = "absent"}
        BY <1>1, <2>1, PluginAssumption DEF NewChild
    <3> QED
        BY <1>1, <3>1 DEF PluginInv, PluginTyped
  <2>2. CASE job # NoChild
    <3>1. process[p] \in {"running", "leaving"}
        BY <1>1, <2>2 DEF PluginInv, ChildInUse
    <3> QED
        BY <1>1, <3>1 DEF PluginInv, PluginTyped
  <2> QED
      BY <2>1, <2>2
<1>8. ChildInUse'
  <2>1. \A q \in Children : q # p => process[q] # "running"
    <3>1. CASE job = NoChild
        BY <3>1, PluginAssumption DEF PluginInv, ChildInUse
    <3>2. CASE job # NoChild
        BY <3>2, <1>1 DEF PluginInv, ChildInUse
    <3> QED
        BY <3>1, <3>2
  <2> QED
      BY <1>1, <1>7, <2>1 DEF ChildInUse
<1>9. WaitersMatch'
  <2>1. \A id \in waiting : sentTo'[id] = p
    <3> SUFFICES ASSUME NEW id \in waiting
                 PROVE  sentTo'[id] = p
        OBVIOUS
    <3>1. job # NoChild /\ sentTo[id] = job /\ p = job
        BY <1>1 DEF PluginInv, WaitersMatch
    <3>2. id # calls + 1 /\ id \in Calls
        BY <1>3 DEF PluginInv, PluginTyped
    <3> QED
        BY <1>1, <3>1, <3>2 DEF PluginInv, PluginTyped
  <2>2. sentTo'[calls + 1] = p
      BY <1>1, <1>2 DEF PluginInv, PluginTyped
  <2>3. p # NoChild /\ waiting' # {}
      BY <1>1, PluginAssumption
  <2> QED
      BY <1>1, <2>1, <2>2, <2>3 DEF WaitersMatch
<1>10. CallsAreNumbered'
  <2>1. waiting' \subseteq 1 .. calls'
      BY <1>1, <1>2 DEF PluginInv, CallsAreNumbered
  <2>2. \A id \in Calls : id > calls' => id > calls
      BY <1>1, <1>2 DEF Calls
  <2> QED
      BY <2>1, <2>2, <1>4 DEF PluginInv, CallsAreNumbered
<1>11. SettledOnce'
    BY <1>1, <1>3, <1>4 DEF PluginInv, SettledOnce
<1>12. OwnExits'
  <2>1. \A q \in Children : process[q] = "gone" => process'[q] = "gone"
      BY <1>1, <1>7
  <2>2. \A id \in Calls : "exited" \in KnownOutcomes(id)' =>
            "exited" \in KnownOutcomes(id) /\ sentTo'[id] = sentTo[id]
    <3> SUFFICES ASSUME NEW id \in Calls, "exited" \in KnownOutcomes(id)
                 PROVE  sentTo'[id] = sentTo[id]
        BY <1>4
    <3>1. id # calls + 1
        BY <1>3
    <3> QED
        BY <3>1, <1>1 DEF PluginInv, PluginTyped
  <2> QED
      BY <2>1, <2>2, <1>5, ExitsStayOwn DEF PluginInv, PluginTyped
<1> QED
    BY <1>5, <1>6, <1>8, <1>9, <1>10, <1>11, <1>12 DEF PluginInv

\* An answer or the timer: only the first outcome counts, and the last of the
\* requests takes the child with it.
LEMMA PluginSettles ==
    ASSUME PluginInv, NEW id \in Calls, NEW given \in CallOutcomes, given # "exited",
           Settle({id}, given),
           replies' \in [Children -> SUBSET Calls],
           UNCHANGED <<calls, sentTo, called, unread, serving>>
    PROVE  PluginInv'
<1> DEFINE settled == {id} \cap waiting
<1>1. /\ scheduled' = scheduled \cup (settled \X {given})
      /\ waiting' = waiting \ {id}
      /\ \/ /\ settled # {} /\ waiting' = {} /\ job # NoChild
            /\ job' = NoChild /\ process' = Stopped(job)
         \/ ~(settled # {} /\ waiting' = {} /\ job # NoChild) /\ UNCHANGED <<job, process>>
    BY DEF Settle
<1>2. settled \in SUBSET Calls /\ \A c \in settled : KnownOutcomes(c) = {}
    BY DEF PluginInv, SettledOnce
<1>3. \A c \in waiting' : c \in waiting /\ c \notin settled /\ KnownOutcomes(c) = {}
    BY <1>1 DEF PluginInv, PluginTyped, SettledOnce
<1>4. settled = {} => waiting' = waiting
    BY <1>1
<1> HIDE DEF settled
<1>5. /\ scheduled' \subseteq Calls \X CallOutcomes
      /\ SettledOnce'
      /\ \A c \in Calls : KnownOutcomes(c)' = IF c \in settled THEN {given} ELSE KnownOutcomes(c)
    BY <1>1, <1>2, <1>3, OutcomesSettle DEF PluginInv
\* The child, if the plugin gives it up.
<1>6. /\ process' \in [Children -> ChildPhases]
      /\ job' \in Children \cup {NoChild}
      /\ ChildInUse' /\ (job' = NoChild <=> waiting' = {})
      /\ \A q \in Children : process[q] = "gone" => process'[q] = "gone"
  <2>1. CASE settled # {} /\ waiting' = {} /\ job # NoChild
    <3>1. job' = NoChild /\ process' = Stopped(job) /\ job \in Children
        BY <1>1, <2>1 DEF PluginInv, PluginTyped
    <3>2. process' \in [Children -> ChildPhases]
        BY <3>1 DEF Stopped, PluginInv, PluginTyped, ChildPhases
    <3>3. /\ process'[job] # "running"
          /\ process[job] = "gone" => process'[job] = "gone"
          /\ \A q \in Children : q # job => process'[q] = process[q]
        BY <3>1 DEF Stopped, PluginInv, PluginTyped
    <3> QED
        BY <2>1, <3>1, <3>2, <3>3 DEF PluginInv, ChildInUse
  <2>2. CASE ~(settled # {} /\ waiting' = {} /\ job # NoChild)
    <3>1. UNCHANGED <<job, process>>
        BY <1>1, <2>2
    <3>2. job = NoChild <=> waiting' = {}
        BY <2>2, <1>1, <1>4 DEF PluginInv, WaitersMatch
    <3> QED
        BY <3>1, <3>2 DEF PluginInv, PluginTyped, ChildInUse
  <2> QED
      BY <2>1, <2>2
<1>7. WaitersMatch'
  <2>1. waiting' # {} => job' = job
      BY <1>1
  <2> QED
      BY <1>3, <1>6, <2>1 DEF PluginInv, WaitersMatch
<1>8. PluginTyped' /\ FewWait'
    BY <1>1, <1>3, <1>5, <1>6, FewerWait DEF PluginInv, PluginTyped
<1>9. CallsAreNumbered'
  <2>1. \A c \in settled : c \in waiting
      BY DEF settled
  <2>2. \A c \in Calls : c > calls => c \notin settled
      BY <2>1 DEF PluginInv, PluginTyped, CallsAreNumbered
  <2> QED
      BY <1>1, <1>5, <2>2 DEF PluginInv, CallsAreNumbered
<1>10. OwnExits'
  <2>1. \A c \in Calls : "exited" \in KnownOutcomes(c)' => "exited" \in KnownOutcomes(c)
      BY <1>5
  <2> QED
      BY <2>1, <1>6, <1>8, ExitsStayOwn DEF PluginInv, PluginTyped
<1> QED
    BY <1>5, <1>6, <1>7, <1>8, <1>9, <1>10 DEF PluginInv

\* The exit of the child of the plugin reaches everybody who waits; that of
\* another child reaches nobody.
LEMMA PluginExits ==
    ASSUME PluginInv, NEW p \in Children, OnExit(p)
    PROVE  PluginInv'
<1> DEFINE ended == SettledByExit(p)
<1>1. /\ process[p] = "exited"
      /\ process' = [process EXCEPT ![p] = "gone"]
      /\ scheduled' = scheduled \cup (ended \X {"exited"})
      /\ waiting' = waiting \ ended
      /\ job' = IF job = p THEN NoChild ELSE job
      /\ UNCHANGED <<calls, sentTo, called, unread, serving, replies>>
    BY DEF OnExit
<1>2. ended \subseteq waiting /\ (job = p => ended = waiting) /\ (job # p => ended = {})
    BY DEF SettledByExit
<1>3. ended \in SUBSET Calls /\ (\A c \in ended : KnownOutcomes(c) = {}) /\ "exited" \in CallOutcomes
    BY <1>2 DEF PluginInv, PluginTyped, SettledOnce, CallOutcomes
<1>4. \A c \in waiting' : c \in waiting /\ c \notin ended /\ KnownOutcomes(c) = {}
    BY <1>1 DEF PluginInv, PluginTyped, SettledOnce
<1> HIDE DEF ended
<1>5. /\ scheduled' \subseteq Calls \X CallOutcomes
      /\ SettledOnce'
      /\ \A c \in Calls : KnownOutcomes(c)' = IF c \in ended THEN {"exited"} ELSE KnownOutcomes(c)
    BY <1>1, <1>3, <1>4, OutcomesSettle DEF PluginInv
<1>6. /\ process' \in [Children -> ChildPhases] /\ process'[p] = "gone"
      /\ \A q \in Children : q # p => process'[q] = process[q]
    BY <1>1 DEF PluginInv, PluginTyped, ChildPhases
<1>7. PluginTyped' /\ FewWait'
  <2>1. waiting' \subseteq waiting /\ job' \in Children \cup {NoChild}
      BY <1>1 DEF PluginInv, PluginTyped
  <2>2. FewWait'
      BY <2>1, FewerWait DEF PluginInv
  <2> QED
      BY <1>1, <1>5, <1>6, <2>1, <2>2 DEF PluginInv, PluginTyped
<1>8. ChildInUse'
  <2>1. job' # NoChild => job' = job /\ job # p
      BY <1>1
  <2> QED
      BY <1>1, <1>6, <2>1, PluginAssumption DEF PluginInv, PluginTyped, ChildInUse
<1>9. WaitersMatch'
  <2>1. CASE job = p
    <3>1. waiting' = {} /\ job' = NoChild
        BY <1>1, <1>2, <2>1
    <3> QED
        BY <3>1 DEF WaitersMatch
  <2>2. CASE job # p
    <3>1. waiting' = waiting /\ job' = job
        BY <1>1, <1>2, <2>2
    <3> QED
        BY <3>1, <1>1 DEF PluginInv, WaitersMatch
  <2> QED
      BY <2>1, <2>2
<1>10. CallsAreNumbered'
  <2>1. \A c \in Calls : c > calls => c \notin ended
      BY <1>2 DEF PluginInv, PluginTyped, CallsAreNumbered
  <2> QED
      BY <1>1, <1>5, <2>1 DEF PluginInv, CallsAreNumbered
<1>11. OwnExits'
  <2>1. \A c \in ended : sentTo[c] = p
      BY <1>2 DEF PluginInv, WaitersMatch
  <2>2. \A c \in Calls : "exited" \in KnownOutcomes(c)' =>
            \/ "exited" \in KnownOutcomes(c) /\ sentTo'[c] = sentTo[c]
            \/ sentTo'[c] \in Children /\ process'[sentTo'[c]] = "gone"
      BY <1>1, <1>5, <1>6, <2>1
  <2>3. \A q \in Children : process[q] = "gone" => process'[q] = "gone"
      BY <1>6
  <2> QED
      BY <2>2, <2>3, <1>1, ExitsStayOwn DEF PluginInv, PluginTyped
<1> QED
    BY <1>5, <1>7, <1>8, <1>9, <1>10, <1>11 DEF PluginInv

\* A callback gets what was scheduled for it.
LEMMA PluginRuns ==
    ASSUME PluginInv, NEW message \in scheduled, RunCallback(message[1], message[2])
    PROVE  PluginInv'
<1>1. PICK id \in Calls, given \in CallOutcomes : message = <<id, given>>
    BY DEF PluginInv, PluginTyped
<1>2. /\ <<id, given>> \in scheduled
      /\ scheduled' = scheduled \ {<<id, given>>}
      /\ called' = [called EXCEPT ![id] = @ \cup {given}]
      /\ UNCHANGED <<job, waiting, calls, sentTo, process, unread, serving, replies>>
    BY <1>1 DEF RunCallback
<1>3. /\ called' \in [Calls -> SUBSET CallOutcomes]
      /\ called'[id] = called[id] \cup {given}
      /\ \A c \in Calls : c # id => called'[c] = called[c]
    BY <1>2 DEF PluginInv, PluginTyped
<1>4. \A c \in Calls : \A o \in CallOutcomes :
          <<c, o>> \in scheduled' <=> (<<c, o>> \in scheduled /\ ~(c = id /\ o = given))
    BY <1>2
<1>5. \A c \in Calls : KnownOutcomes(c)' = KnownOutcomes(c)
  <2> SUFFICES ASSUME NEW c \in Calls
               PROVE  KnownOutcomes(c)' = KnownOutcomes(c)
      OBVIOUS
  <2>1. KnownOutcomes(c)' = {o \in CallOutcomes : <<c, o>> \in scheduled'} \cup called'[c]
      BY DEF KnownOutcomes
  <2>2. CASE c = id
      BY <2>1, <2>2, <1>2, <1>3, <1>4 DEF KnownOutcomes
  <2>3. CASE c # id
      BY <2>1, <2>3, <1>3, <1>4 DEF KnownOutcomes
  <2> QED
      BY <2>2, <2>3
<1>6. PluginTyped' /\ FewWait' /\ ChildInUse' /\ WaitersMatch' /\ CallsAreNumbered' /\ OwnExits'
    BY <1>2, <1>3, <1>5 DEF PluginInv, PluginTyped, FewWait, ChildInUse, WaitersMatch, CallsAreNumbered, OwnExits
<1>7. SettledOnce'
  <2> SUFFICES ASSUME NEW c \in Calls
               PROVE  /\ \A o1, o2 \in KnownOutcomes(c)' : o1 = o2
                      /\ c \in waiting => KnownOutcomes(c)' = {}
                      /\ \A o \in called'[c] : <<c, o>> \notin scheduled'
      BY <1>2 DEF SettledOnce
  <2>1. (\A o1, o2 \in KnownOutcomes(c)' : o1 = o2) /\ (c \in waiting => KnownOutcomes(c)' = {})
      BY <1>5 DEF PluginInv, SettledOnce
  <2>2. \A o \in called'[c] : o \in CallOutcomes
      BY <1>3
  <2>3. \A o \in called[c] : <<c, o>> \notin scheduled
      BY DEF PluginInv, SettledOnce
  <2>4. \A o \in called'[c] : o \in called[c] \/ (c = id /\ o = given)
      BY <1>3
  <2>5. \A o \in called'[c] : <<c, o>> \notin scheduled'
      BY <2>2, <2>3, <2>4, <1>4
  <2> QED
      BY <2>1, <2>5
<1> QED
    BY <1>6, <1>7 DEF PluginInv

\* What a child does by itself.
LEMMA PluginChildren ==
    ASSUME PluginInv, NEW p \in Children,
           \/ \E id \in unread[p] : ChildDispatch(p, id)
           \/ \E id \in serving[p] : ChildAnswer(p, id)
           \/ ChildExit(p)
    PROVE  PluginInv'
<1>1. UNCHANGED <<job, waiting, calls, sentTo, scheduled, called>> /\ process[p] \in ChildAlive
    BY DEF ChildDispatch, ChildAnswer, ChildExit
<1>2. \/ process' = process
      \/ process' = [process EXCEPT ![p] = "leaving"]
      \/ process' = [process EXCEPT ![p] = "exited"]
    BY DEF ChildDispatch, ChildAnswer, ChildExit
<1>3. /\ unread' \in [Children -> SUBSET Calls]
      /\ serving' \in [Children -> SUBSET Calls]
      /\ replies' \in [Children -> SUBSET Calls]
  <2>1. CASE \E id \in unread[p] : ChildDispatch(p, id)
    <3>1. PICK id \in Calls : ChildDispatch(p, id)
        BY <2>1 DEF PluginInv, PluginTyped
    <3> QED
        BY <3>1 DEF ChildDispatch, PluginInv, PluginTyped
  <2>2. CASE \E id \in serving[p] : ChildAnswer(p, id)
    <3>1. PICK id \in Calls : ChildAnswer(p, id)
        BY <2>2 DEF PluginInv, PluginTyped
    <3> QED
        BY <3>1 DEF ChildAnswer, PluginInv, PluginTyped
  <2>3. CASE ChildExit(p)
      BY <2>3 DEF ChildExit, PluginInv, PluginTyped
  <2> QED
      BY <2>1, <2>2, <2>3
<1>4. process' \in [Children -> ChildPhases]
    BY <1>2 DEF PluginInv, PluginTyped, ChildPhases
<1>5. \A q \in Children : process'[q] = process[q] \/ (q = p /\ process'[q] \in {"leaving", "exited"})
    BY <1>2 DEF PluginInv, PluginTyped
<1>6. \A q \in Children : process[q] = "gone" => process'[q] = "gone"
    BY <1>1, <1>5 DEF ChildAlive
<1>7. \A id \in Calls : KnownOutcomes(id)' = KnownOutcomes(id)
    BY <1>1 DEF KnownOutcomes
<1>8. PluginTyped' /\ FewWait' /\ WaitersMatch' /\ CallsAreNumbered' /\ SettledOnce'
    BY <1>1, <1>3, <1>4, <1>7 DEF PluginInv, PluginTyped, FewWait, WaitersMatch, CallsAreNumbered, SettledOnce
<1>9. ChildInUse'
    BY <1>1, <1>5 DEF PluginInv, PluginTyped, ChildInUse
<1>10. OwnExits'
    BY <1>1, <1>6, <1>7, ExitsStayOwn DEF PluginInv, PluginTyped
<1> QED
    BY <1>8, <1>9, <1>10 DEF PluginInv

LEMMA PluginStep ==
    ASSUME PluginInv, [PluginNext]_pluginVars
    PROVE  PluginInv'
<1>1. CASE CallRefused \/ CallUnsent
    BY <1>1, PluginRefuses
<1>2. ASSUME NEW p \in Children, Call(p)
      PROVE  PluginInv'
    BY <1>2, PluginCalls
<1>3. ASSUME NEW p \in Children, OnExit(p)
      PROVE  PluginInv'
    BY <1>3, PluginExits
<1>4. ASSUME NEW p \in Children,
             \/ \E id \in unread[p] : ChildDispatch(p, id)
             \/ \E id \in serving[p] : ChildAnswer(p, id)
             \/ ChildExit(p)
      PROVE  PluginInv'
    BY <1>4, PluginChildren
<1>5. ASSUME NEW p \in Children, NEW id \in replies[p], Resolve(p, id)
      PROVE  PluginInv'
  <2>1. id \in Calls /\ "answered" \in CallOutcomes
      BY DEF PluginInv, PluginTyped, CallOutcomes
  <2>2. /\ replies' \in [Children -> SUBSET Calls] /\ Settle({id}, "answered")
        /\ UNCHANGED <<calls, sentTo, called, unread, serving>>
      BY <1>5 DEF Resolve, PluginInv, PluginTyped
  <2> QED
      BY <2>1, <2>2, PluginSettles
<1>6. ASSUME ElapseAny
      PROVE  PluginInv'
  <2>1. PICK id \in waiting : Elapse(id)
      BY <1>6 DEF ElapseAny
  <2>2. id \in Calls /\ "failed" \in CallOutcomes
      BY DEF PluginInv, PluginTyped, CallOutcomes
  <2>3. /\ replies' \in [Children -> SUBSET Calls] /\ Settle({id}, "failed")
        /\ UNCHANGED <<calls, sentTo, called, unread, serving>>
      BY <2>1 DEF Elapse, PluginInv, PluginTyped
  <2> QED
      BY <2>2, <2>3, PluginSettles
<1>7. CASE RunAny
    BY <1>7, PluginRuns DEF RunAny
<1>8. CASE UNCHANGED pluginVars
    BY <1>8 DEF pluginVars, PluginInv, PluginTyped, FewWait, ChildInUse, WaitersMatch, CallsAreNumbered,
       SettledOnce, OwnExits, KnownOutcomes
<1> QED
    BY <1>1, <1>2, <1>3, <1>4, <1>5, <1>6, <1>7, <1>8 DEF PluginNext

LEMMA PluginHolds == PluginInit /\ [][PluginNext]_pluginVars => []PluginInv
<1>1. PluginInit => PluginInv
    BY PluginInitially
<1>2. PluginInv /\ [PluginNext]_pluginVars => PluginInv'
    BY PluginStep
<1> QED
    BY <1>1, <1>2, PTL

\* The plugin has a child exactly while requests wait, all of them for that
\* child, and no other one was left to run (client.lua).
THEOREM ChildrenServeThePending == PluginSpec => []ChildServesPending
<1>1. PluginInv => ChildServesPending
    BY DEF PluginInv, ChildInUse, WaitersMatch, ChildServesPending
<1> QED
    BY <1>1, PluginHolds, PTL DEF PluginSpec

\* A callback is called once (client.lua settle).
THEOREM CallbacksRunOnce == PluginSpec => []CalledOnce
<1>1. ASSUME PluginInv, NEW id \in Calls
      PROVE  Cardinality(KnownOutcomes(id)) <= 1
  <2>1. CASE KnownOutcomes(id) = {}
    <3>1. Cardinality({}) = 0
        BY FS_EmptySet
    <3> QED
        BY <2>1, <3>1
  <2>2. CASE KnownOutcomes(id) # {}
    <3>1. PICK o : o \in KnownOutcomes(id)
        BY <2>2
    <3>2. KnownOutcomes(id) = {o}
        BY <1>1, <3>1 DEF PluginInv, SettledOnce
    <3>3. Cardinality({o}) = 1
        BY FS_Singleton
    <3> QED
        BY <3>2, <3>3
  <2> QED
      BY <2>1, <2>2
<1>2. PluginInv => CalledOnce
    BY <1>1 DEF PluginInv, SettledOnce, CalledOnce
<1> QED
    BY <1>2, PluginHolds, PTL DEF PluginSpec

\* A request fails only by the exit of its own child (client.lua on_exit).
THEOREM ExitsDisturbNobodyElse == PluginSpec => []ExitsAreOwn
<1>1. PluginInv => ExitsAreOwn
    BY DEF PluginInv, OwnExits, ExitsAreOwn
<1> QED
    BY <1>1, PluginHolds, PTL DEF PluginSpec

\* The types of the plugin, with at most InFlightMax requests that wait.
THEOREM CallsAreTyped == PluginSpec => []PluginTypeOK
<1>1. PluginInv => PluginTypeOK
    BY DEF PluginInv, PluginTyped, FewWait, PluginTypeOK
<1> QED
    BY <1>1, PluginHolds, PTL DEF PluginSpec

-----------------------------------------------------------------------------
(* Terminal.  The last request is the pending one, and what the others left  *)
(* in the channel is dropped.  While a request is pending, the draft is the  *)
(* one that it was started for, or an empty one.  What a draft, a submission *)
(* or an inspection says of the task names a revision, which is that of some *)
(* contents of the task, and the edits that are in these contents are those  *)
(* that it knows of or none of its own.                                      *)

Dialogs ==
    [kind: {"projects"}, browse: BOOLEAN] \cup [kind: {"actions", "blockers"}]
        \cup [kind: {"inspection"}, revision: 0..MaxRevision, shown: SUBSET Requests, within: Scopes]

TerminalTyped ==
    /\ open \in BOOLEAN
    /\ scope \in Scopes
    /\ draft \in Drafts \cup {Absent}
    /\ dialog \in Dialogs \cup {Absent}
    /\ question \in Questions \cup {Absent}
    /\ pending \in Pendings \cup {Absent}
    /\ reply \in Requests \cup {Absent}
    /\ requests \in 0..MaxRequests
    /\ worker \in [id: Requests, work: Work, at: Stages] \cup {Absent}
    /\ mutations \in SUBSET [id: Requests, work: Work, agreed: BOOLEAN, end: Ended \cup {"open"}]
    /\ revision \in DOMAIN holds
    /\ holds \in Seq(SUBSET Requests) /\ Len(holds) <= MaxRevision
    /\ applied \in SUBSET [id: Requests, kind: Writes, project: Scopes]
    /\ agreed \in SUBSET Requests

Submitted == {"create", "edit", "complete", "shelve", "ask"}

\* What a scope shows of the records that a draft may have created.
Covers(within, d) == d.kind = "create" => within = Everything \/ within = d.project

\* The edits in the contents of a revision are among those shown.
View(rev, shown) ==
    /\ rev \in DOMAIN holds
    /\ holds[rev] \subseteq shown

Fresh(d) ==
    /\ ~d.dirty /\ ~d.requires_inspection /\ d.sent = {} /\ d.owed = {}
    /\ d.kind = "edit" => d.revision \in DOMAIN holds

\* An earlier submission of an edit is known to the later one, or is not in
\* the contents that it names.
WorkMatches(id, work) ==
    /\ work.before \subseteq 1 .. id - 1
    /\ work.kind = "edit" =>
        /\ work.revision \in DOMAIN holds
        /\ (work.before \cap holds[work.revision]) \subseteq work.seen

OfDraft(id, kind, project) ==
    (draft # Absent /\ id \in draft.sent) => kind = draft.kind /\ project = draft.project

PendingMatches ==
    /\ pending # Absent => pending.id = requests
    /\ (~open /\ pending # Absent) => ~pending.writes
    /\ (pending # Absent /\ pending.writes /\ draft # Absent /\ draft.dirty) => pending.id \in draft.sent

QuestionMatches ==
    /\ (question # Absent /\ question.local = "no") =>
         pending # Absent /\ pending.id = question.id /\ reply = question.id
    /\ (question # Absent /\ question.local # "no") => question.id = 0
    /\ (question # Absent /\ question.local = "quit") => pending = Absent \/ ~pending.writes
    /\ (question # Absent /\ question.local = "discard") => pending = Absent /\ dialog = Absent
    /\ reply # Absent => question # Absent /\ question.id = reply

WorkerMatches == worker # Absent =>
    /\ pending # Absent /\ pending = [id |-> worker.id, writes |-> worker.work.kind \in Writes]
    /\ worker.at = "read" => worker.work.kind = "complete"
    /\ worker.at \in {"waiting", "asking", "yes", "no"} => worker.work.kind \in Submitted
    /\ worker.at = "yes" => worker.id \in agreed
    /\ worker.work.kind \in Writes \cup {"locate"} => requests < MaxRequests
    /\ worker.at \in {"begun", "read"} =>
         (\A m \in mutations : m.id # worker.id) /\ (\A done \in applied : done.id # worker.id)
    /\ WorkMatches(worker.id, worker.work)
    /\ OfDraft(worker.id, worker.work.kind, worker.work.project)
    /\ (worker.work.kind \in {"inspect", "blockers"} /\ open) => draft # Absent
    /\ (worker.work.kind \in {"template", "target"} /\ draft # Absent) => ~draft.dirty /\ draft.sent = {}

Live(event) == pending # Absent /\ event.id = pending.id

\* The events that may be in the channel.
Told == {e \in Answers :
    /\ e.id <= requests
    /\ e.out # "confirm" => ~(worker # Absent /\ worker.id = e.id)
    /\ (e.out \in {"saved", "edit_file"} /\ e.id = requests) => requests < MaxRequests
    /\ (e.out \in {"saved", "exported"} /\ Live(e)) => pending.writes
    /\ (e.out \in {"inspected", "blockers"} /\ Live(e) /\ open) => draft # Absent
    /\ e.out = "draft" => e.draft # Absent /\ Fresh(e.draft)
    /\ (e.out = "draft" /\ Live(e) /\ draft # Absent) => ~draft.dirty /\ draft.sent = {}
    /\ e.out = "inspected" => View(e.revision, e.shown)
    /\ (e.out = "inspected" /\ Live(e) /\ draft # Absent /\ Covers(e.scope, draft)) => draft.owed \subseteq e.shown}

MutationsMatch ==
    /\ \A m \in mutations :
        /\ m.id <= requests
        /\ m.work.kind \in Submitted
        /\ m.agreed => m.id \in agreed
        /\ WorkMatches(m.id, m.work)
        /\ OfDraft(m.id, m.work.kind, m.work.project)
    /\ \A m1, m2 \in mutations : m1.id = m2.id => m1 = m2

AppliedMatches ==
    /\ \A done \in applied :
        /\ done.id <= requests
        /\ done.kind \in Submitted
        /\ OfDraft(done.id, done.kind, done.project)
    /\ \A n \in DOMAIN holds : \A id \in holds[n] : \E done \in applied : done.id = id /\ done.kind = "edit"

DraftMatches == draft # Absent =>
    /\ draft.sent \subseteq 1 .. requests
    /\ draft.owed \subseteq draft.sent /\ draft.owed \subseteq AppliedIds
    /\ (~draft.requires_inspection /\ Covers(draft.within, draft)) => draft.owed \subseteq draft.seen
    /\ draft.kind = "edit" =>
        /\ draft.revision \in DOMAIN holds
        /\ (draft.sent \cap holds[draft.revision]) \subseteq draft.seen

DialogMatches == dialog # Absent =>
    /\ dialog.kind \in {"blockers", "inspection"} => pending = Absent /\ (open => draft # Absent)
    /\ dialog.kind = "actions" => pending = Absent /\ draft = Absent
    /\ (dialog.kind = "projects" /\ ~dialog.browse) => pending = Absent /\ draft = Absent
    /\ dialog.kind = "inspection" =>
        /\ View(dialog.revision, dialog.shown)
        /\ (draft # Absent /\ Covers(dialog.within, draft)) => draft.owed \subseteq dialog.shown

TerminalInv ==
    /\ TerminalTyped
    /\ events \in Seq(Told)
    /\ PendingMatches /\ QuestionMatches /\ WorkerMatches
    /\ MutationsMatch /\ AppliedMatches
    /\ DraftMatches /\ DialogMatches

LEMMA TerminalInitially ==
    ASSUME TerminalInit
    PROVE  TerminalInv
<1>1. TerminalTyped
    BY BoundsAssumption DEF TerminalInit, TerminalTyped
<1>2. events \in Seq(Told)
    BY EmptySeq DEF TerminalInit
<1>3. PendingMatches /\ QuestionMatches /\ WorkerMatches /\ MutationsMatch /\ AppliedMatches
      /\ DraftMatches /\ DialogMatches
    BY DEF TerminalInit, PendingMatches, QuestionMatches, WorkerMatches, MutationsMatch, AppliedMatches,
       DraftMatches, DialogMatches
<1> QED
    BY <1>1, <1>2, <1>3 DEF TerminalInv

LEMMA TerminalNumbers ==
    ASSUME TerminalInv
    PROVE  /\ requests \in Nat /\ requests <= MaxRequests
           /\ revision \in 0..MaxRevision /\ DOMAIN holds \subseteq 0..MaxRevision
           /\ Requests \subseteq Nat \ {0}
           /\ \A id \in Requests : id <= MaxRequests /\ id >= 1
           /\ Head(events) \in Told \/ events = <<>>
           /\ Tail(events) \in Seq(Told) \/ events = <<>>
<1>1. requests \in Nat /\ requests <= MaxRequests
    BY BoundsAssumption DEF TerminalInv, TerminalTyped
<1>4. revision \in 0..MaxRevision /\ DOMAIN holds \subseteq 0..MaxRevision
  <2>1. holds \in Seq(SUBSET Requests) /\ Len(holds) <= MaxRevision /\ revision \in DOMAIN holds
      BY DEF TerminalInv, TerminalTyped
  <2>2. DOMAIN holds = 1 .. Len(holds) /\ Len(holds) \in Nat
      BY <2>1, LenProperties
  <2> QED
      BY <2>1, <2>2, BoundsAssumption
<1>2. /\ Requests \subseteq Nat \ {0}
      /\ \A id \in Requests : id <= MaxRequests /\ id >= 1
    BY BoundsAssumption DEF Requests
<1>3. events # <<>> => Head(events) \in Told /\ Tail(events) \in Seq(Told)
    BY DEF TerminalInv
<1> QED
    BY <1>1, <1>2, <1>3, <1>4

\* The draft that a pending request was started for, and what may become of
\* it meanwhile.
DraftStands ==
    \/ draft' = draft
    \/ draft' = Absent /\ ~open'
    \/ draft = Absent /\ draft' # Absent /\ ~draft'.dirty /\ draft'.sent = {} /\ draft'.owed = {}

\* What the interface does leaves the channel true: a new request has a number
\* of its own.
RequestStands ==
    /\ requests' \in Nat /\ requests <= requests'
    /\ worker' = Absent \/ (worker # Absent /\ worker'.id = worker.id) \/ worker'.id > requests
    /\ pending' = Absent \/ pending'.id > requests \/ (pending' = pending /\ DraftStands /\ (open' => open))

LEMMA ToldStays ==
    ASSUME TerminalInv, RequestStands, UNCHANGED <<revision, holds, applied>>
    PROVE  Told \subseteq Told'
<1> SUFFICES ASSUME NEW e \in Told
             PROVE  e \in Told'
    OBVIOUS
<1>1. e \in Answers /\ e.id \in Nat /\ e.id <= requests /\ requests \in Nat /\ requests' \in Nat /\ requests <= requests'
    BY TerminalNumbers DEF Told, Answers, RequestStands
<1>2. e.id <= requests'
    BY <1>1
<1>3. e.out # "confirm" => ~(worker' # Absent /\ worker'.id = e.id)
  <2>1. CASE worker # Absent /\ worker'.id = worker.id
      BY <2>1 DEF Told
  <2>2. CASE worker'.id > requests
      BY <2>2, <1>1
  <2> QED
      BY <2>1, <2>2 DEF RequestStands
<1>4. (e.out \in {"saved", "edit_file"} /\ e.id = requests') => requests' < MaxRequests
  <2>1. e.id = requests' => requests' = requests
      BY <1>1
  <2> QED
      BY <2>1 DEF Told
<1>5. Live(e)' => pending' = pending /\ Live(e) /\ DraftStands /\ (open' => open)
    BY <1>1 DEF Live, RequestStands
<1>6. /\ (e.out \in {"saved", "exported"} /\ Live(e)') => pending'.writes
      /\ (e.out \in {"inspected", "blockers"} /\ Live(e)' /\ open') => draft' # Absent
      /\ (e.out = "draft" /\ Live(e)' /\ draft' # Absent) => ~draft'.dirty /\ draft'.sent = {}
      /\ (e.out = "inspected" /\ Live(e)' /\ draft' # Absent /\ Covers(e.scope, draft')) =>
            draft'.owed \subseteq e.shown
    BY <1>5 DEF Told, DraftStands
<1>7. /\ e.out = "draft" => e.draft # Absent /\ Fresh(e.draft)'
      /\ e.out = "inspected" => View(e.revision, e.shown)'
    BY DEF Told, Fresh, View
<1> QED
    BY <1>1, <1>2, <1>3, <1>4, <1>6, <1>7 DEF Told, Covers

LEMMA EventsStay ==
    ASSUME TerminalInv, RequestStands, UNCHANGED <<revision, holds, applied>>,
           events' = events \/ (events # <<>> /\ events' = Tail(events))
    PROVE  events' \in Seq(Told')
<1>1. Told \subseteq Told'
    BY ToldStays
<1>2. events' \in Seq(Told)
    BY TerminalNumbers DEF TerminalInv
<1> QED
    BY <1>1, <1>2, SeqMonotonic

\* The draft goes, or is new, or is the same with its next submission.
DraftKeepsWord ==
    \/ draft' = Absent
    \/ draft'.sent = {}
    \/ /\ draft # Absent
       /\ draft'.kind = draft.kind /\ draft'.project = draft.project
       /\ \A id \in draft'.sent : id \in draft.sent \/ id > requests

LEMMA ServerStays ==
    ASSUME TerminalInv, UNCHANGED <<mutations, revision, holds, applied>>, agreed \subseteq agreed',
           requests' \in Nat, requests <= requests', DraftKeepsWord
    PROVE  MutationsMatch' /\ AppliedMatches'
<1> USE TerminalNumbers
<1>1. \A id \in Requests : \A kind, project :
          id <= requests /\ OfDraft(id, kind, project) =>
            id <= requests' /\ ((draft' # Absent /\ id \in draft'.sent) => kind = draft'.kind /\ project = draft'.project)
    BY DEF OfDraft, DraftKeepsWord
<1>2. MutationsMatch'
  <2>1. ASSUME NEW m \in mutations
        PROVE  /\ m.id <= requests'
               /\ m.work.kind \in Submitted
               /\ m.agreed => m.id \in agreed'
               /\ WorkMatches(m.id, m.work)'
               /\ OfDraft(m.id, m.work.kind, m.work.project)'
    <3>1. /\ m.id \in Requests /\ m.id <= requests
          /\ m.work.kind \in Submitted
          /\ m.agreed => m.id \in agreed
          /\ WorkMatches(m.id, m.work)
          /\ OfDraft(m.id, m.work.kind, m.work.project)
        BY DEF TerminalInv, MutationsMatch, TerminalTyped
    <3>2. WorkMatches(m.id, m.work)'
        BY <3>1 DEF WorkMatches
    <3> QED
        BY <3>1, <3>2, <1>1 DEF OfDraft
  <2> QED
      BY <2>1 DEF MutationsMatch, TerminalInv
<1>3. AppliedMatches'
  <2>1. \A done \in applied : done.id \in Requests
      BY DEF TerminalInv, TerminalTyped
  <2> QED
      BY <2>1, <1>1 DEF AppliedMatches, TerminalInv, OfDraft
<1> QED
    BY <1>2, <1>3

\* Keys that start nothing and stop nothing.
LEMMA QuietKeys ==
    ASSUME TerminalInv, UNCHANGED <<open, pending, reply, requests, worker, agreed, events, mutations, revision, holds, applied>>,
           TerminalTyped',
           QuestionMatches', DialogMatches', DraftMatches', DraftKeepsWord,
           pending # Absent => DraftStands
    PROVE  TerminalInv'
<1> USE TerminalNumbers
<1>1. RequestStands
    BY DEF RequestStands
<1>2. events' \in Seq(Told')
    BY <1>1, EventsStay
<1>3. MutationsMatch' /\ AppliedMatches'
    BY ServerStays
<1>4. PendingMatches'
    BY DEF PendingMatches, TerminalInv, DraftStands
<1>5. WorkerMatches'
  <2> SUFFICES ASSUME worker # Absent
               PROVE  WorkerMatches'
      BY DEF WorkerMatches
  <2>1. pending # Absent /\ DraftStands
      BY DEF TerminalInv, WorkerMatches
  <2>2. WorkMatches(worker.id, worker.work)'
      BY DEF TerminalInv, WorkerMatches, WorkMatches
  <2>3. OfDraft(worker.id, worker.work.kind, worker.work.project)'
      BY <2>1 DEF TerminalInv, WorkerMatches, OfDraft, DraftStands
  <2>4. /\ (worker.work.kind \in {"inspect", "blockers"} /\ open') => draft' # Absent
        /\ (worker.work.kind \in {"template", "target"} /\ draft' # Absent) => ~draft'.dirty /\ draft'.sent = {}
      BY <2>1 DEF TerminalInv, WorkerMatches, DraftStands
  <2> QED
      BY <2>2, <2>3, <2>4 DEF TerminalInv, WorkerMatches
<1> QED
    BY <1>2, <1>3, <1>4, <1>5 DEF TerminalInv

\* A draft that begins.
LEMMA NewDraftsMatch ==
    ASSUME TerminalInv, NEW kind \in DraftKinds, NEW project \in Scopes
    PROVE  /\ NewDraft(kind, project, 0) \in Drafts
           /\ NewDraft(kind, project, 0) # Absent
           /\ NewDraft(kind, project, 0).sent = {} /\ NewDraft(kind, project, 0).owed = {}
           /\ ~NewDraft(kind, project, 0).dirty
           /\ NewDraft(kind, project, 0).kind = kind
<1>1. 0 \in 0..MaxRevision /\ Everything \in Scopes
    BY BoundsAssumption DEF Scopes
<1>2. NewDraft(kind, project, 0) \in Drafts
    BY <1>1 DEF NewDraft, Drafts
<1> QED
    BY <1>2, AbsentAssumption DEF NewDraft

\* The dialogs and questions that a key opens beside an unchanged draft.
LEMMA KeysOfDialogs ==
    ASSUME TerminalInv,
           \/ Toggle \/ BrowseProjects \/ OpenActions \/ CloseDialog
           \/ (Create /\ scope \notin Projects)
           \/ (Quit /\ open')
           \/ (LeaveDraft /\ draft.dirty)
    PROVE  TerminalInv'
<1> USE TerminalNumbers
<1>1. UNCHANGED <<open, scope, draft, pending, reply, requests, worker, agreed, events, mutations, revision, holds, applied>>
    BY DEF Toggle, BrowseProjects, OpenActions, CloseDialog, Create, Quit, LeaveDraft, server
<1>2. DraftKeepsWord /\ DraftStands
    BY <1>1 DEF DraftKeepsWord, DraftStands
<1>3. DraftMatches'
    BY <1>1 DEF TerminalInv, DraftMatches, AppliedIds, Covers
<1>4. /\ dialog' \in Dialogs \cup {Absent} /\ question' \in Questions \cup {Absent}
      /\ QuestionMatches' /\ DialogMatches'
  <2>1. CASE Toggle
    <3>1. dialog' = dialog /\ question # Absent /\ question' = [question EXCEPT !.yes = ~question.yes]
        BY <2>1 DEF Toggle, InConfirmation
    <3>2. question \in Questions /\ question' \in Questions /\ question'.local = question.local /\ question'.id = question.id
        BY <3>1 DEF TerminalInv, TerminalTyped, Questions
    <3> QED
        BY <1>1, <3>1, <3>2, AbsentAssumption
        DEF TerminalInv, TerminalTyped, QuestionMatches, DialogMatches, View, Covers
  <2>2. CASE BrowseProjects
    <3>1. dialog' = [kind |-> "projects", browse |-> TRUE] /\ question' = question /\ question = Absent
        BY <2>2 DEF BrowseProjects, InBrowser
    <3> QED
        BY <1>1, <3>1 DEF TerminalInv, TerminalTyped, QuestionMatches, DialogMatches, Dialogs
  <2>3. CASE OpenActions
    <3>1. dialog' = [kind |-> "actions"] /\ question' = question /\ question = Absent /\ pending = Absent /\ draft = Absent
        BY <2>3 DEF OpenActions, InBrowser
    <3> QED
        BY <1>1, <3>1 DEF TerminalInv, TerminalTyped, QuestionMatches, DialogMatches, Dialogs
  <2>4. CASE Create /\ scope \notin Projects
    <3>1. dialog' = [kind |-> "projects", browse |-> FALSE] /\ question' = question /\ question = Absent
          /\ pending = Absent /\ draft = Absent
        BY <2>4 DEF Create, InBrowser
    <3> QED
        BY <1>1, <3>1 DEF TerminalInv, TerminalTyped, QuestionMatches, DialogMatches, Dialogs
  <2>5. CASE CloseDialog
      BY <2>5, <1>1 DEF CloseDialog, InDialog, TerminalInv, TerminalTyped, QuestionMatches, DialogMatches
  <2>6. CASE Quit /\ open'
    <3>1. /\ question = Absent /\ question' = [local |-> "quit", id |-> 0, yes |-> FALSE] /\ dialog' = dialog
          /\ pending # Absent => ~pending.writes
        BY <2>6 DEF Quit, AskLocal, MayQuit
    <3>2. question' \in Questions /\ reply = Absent
        BY <3>1 DEF Questions, TerminalInv, QuestionMatches
    <3> QED
        BY <1>1, <3>1, <3>2 DEF TerminalInv, TerminalTyped, QuestionMatches, DialogMatches, View, Covers
  <2>7. CASE LeaveDraft /\ draft.dirty
    <3>1. /\ question = Absent /\ question' = [local |-> "discard", id |-> 0, yes |-> FALSE]
          /\ dialog' = dialog /\ dialog = Absent /\ pending = Absent
        BY <2>7 DEF LeaveDraft, AskLocal, InDraft
    <3>2. question' \in Questions /\ reply = Absent
        BY <3>1 DEF Questions, TerminalInv, QuestionMatches
    <3> QED
        BY <1>1, <3>1, <3>2 DEF TerminalInv, TerminalTyped, QuestionMatches, DialogMatches
  <2> QED
      BY <2>1, <2>2, <2>3, <2>4, <2>5, <2>6, <2>7
<1>5. TerminalTyped'
    BY <1>1, <1>4 DEF TerminalInv, TerminalTyped
<1> QED
    BY <1>1, <1>2, <1>3, <1>4, <1>5, QuietKeys

\* A new draft, of a note or of an export.
LEMMA KeysOfNewDrafts ==
    ASSUME TerminalInv, open, question = Absent, draft = Absent,
           NEW kind \in {"create", "export"}, NEW project \in Scopes,
           draft' = NewDraft(kind, project, 0), dialog' \in {dialog, Absent},
           dialog # Absent => pending = Absent /\ dialog' = Absent,
           UNCHANGED <<open, question, scope, pending, reply, requests, worker, agreed, events, mutations, revision, holds, applied>>
    PROVE  TerminalInv'
<1> USE TerminalNumbers
<1>1. /\ draft' \in Drafts /\ draft' # Absent /\ draft'.sent = {} /\ draft'.owed = {} /\ ~draft'.dirty
      /\ draft'.kind # "edit"
    BY NewDraftsMatch DEF DraftKinds
<1>2. dialog' = Absent
    OBVIOUS
<1>3. DraftKeepsWord /\ DraftStands
    BY <1>1 DEF DraftKeepsWord, DraftStands
<1>4. DraftMatches' /\ DialogMatches'
    BY <1>1, <1>2 DEF DraftMatches, DialogMatches
<1>5. QuestionMatches'
    BY DEF TerminalInv, QuestionMatches
<1>6. TerminalTyped'
    BY <1>1, <1>2 DEF TerminalInv, TerminalTyped
<1> QED
    BY <1>3, <1>4, <1>5, <1>6, QuietKeys

LEMMA KeyExports ==
    ASSUME TerminalInv, ExportReferences
    PROVE  TerminalInv'
<1>1. Everything \in Scopes
    BY DEF Scopes
<1>2. /\ open /\ question = Absent /\ dialog = Absent /\ draft = Absent
      /\ draft' = NewDraft("export", Everything, 0)
      /\ UNCHANGED <<open, scope, dialog, question, pending, reply, requests, worker, agreed, events, mutations, revision, holds, applied>>
    BY DEF ExportReferences, InBrowser, server
<1> QED
    BY <1>1, <1>2, KeysOfNewDrafts

\* The draft is typed in, unlocked or left.
LEMMA KeysOfDrafts ==
    ASSUME TerminalInv, Type \/ AcceptInspection \/ (LeaveDraft /\ ~draft.dirty)
    PROVE  TerminalInv'
<1> USE TerminalNumbers
<1>1. /\ UNCHANGED <<open, scope, question, pending, reply, requests, worker, agreed, events, mutations, revision, holds, applied>>
      /\ open /\ question = Absent /\ pending = Absent
    BY DEF Type, AcceptInspection, LeaveDraft, InDraft, InDialog, server, TerminalInv, DialogMatches
<1>2. dialog' = Absent
    BY DEF Type, AcceptInspection, LeaveDraft, InDraft
<1>3. DialogMatches' /\ QuestionMatches'
    BY <1>1, <1>2 DEF TerminalInv, QuestionMatches, DialogMatches
<1>4. draft' \in Drafts \cup {Absent} /\ DraftMatches' /\ DraftKeepsWord
  <2>1. CASE Type
    <3>1. draft # Absent /\ draft \in Drafts /\ draft' = [draft EXCEPT !.dirty = TRUE]
        BY <2>1 DEF Type, TerminalInv, TerminalTyped
    <3>2. draft' \in Drafts
        BY <3>1 DEF Drafts
    <3>3. /\ draft'.kind = draft.kind /\ draft'.project = draft.project /\ draft'.sent = draft.sent
          /\ draft'.owed = draft.owed /\ draft'.seen = draft.seen /\ draft'.within = draft.within
          /\ draft'.requires_inspection = draft.requires_inspection /\ draft'.revision = draft.revision
        BY <3>1 DEF Drafts
    <3>4. DraftMatches'
        BY <1>1, <3>1, <3>3 DEF TerminalInv, DraftMatches, Covers, AppliedIds
    <3> QED
        BY <3>1, <3>2, <3>3, <3>4 DEF DraftKeepsWord
  <2>2. CASE AcceptInspection
    <3>1. /\ dialog # Absent /\ dialog.kind = "inspection" /\ draft # Absent /\ draft \in Drafts
          /\ draft' = Inspected(draft, dialog)
        BY <2>2, <1>1 DEF AcceptInspection, InDialog, TerminalInv, DialogMatches, TerminalTyped
    <3>2. dialog \in [kind: {"inspection"}, revision: 0..MaxRevision, shown: SUBSET Requests, within: Scopes]
        BY <3>1 DEF TerminalInv, TerminalTyped, Dialogs
    <3>3. draft' \in Drafts
        BY <3>1, <3>2 DEF Inspected, Drafts
    <3>4. /\ draft'.kind = draft.kind /\ draft'.project = draft.project /\ draft'.sent = draft.sent
          /\ draft'.owed = draft.owed /\ draft'.seen = dialog.shown /\ draft'.within = dialog.within
          /\ draft.kind = "edit" => draft'.revision = dialog.revision
        BY <3>1 DEF Inspected, Drafts
    <3>5. /\ View(dialog.revision, dialog.shown)
          /\ Covers(dialog.within, draft) => draft.owed \subseteq dialog.shown
        BY <3>1 DEF TerminalInv, DialogMatches
    <3>6. DraftMatches'
        BY <1>1, <3>1, <3>4, <3>5 DEF TerminalInv, DraftMatches, Covers, AppliedIds, View
    <3> QED
        BY <3>1, <3>3, <3>4, <3>6 DEF DraftKeepsWord
  <2>3. CASE LeaveDraft /\ ~draft.dirty
    <3>1. draft' = Absent
        BY <2>3 DEF LeaveDraft
    <3> QED
        BY <3>1 DEF DraftMatches, DraftKeepsWord
  <2> QED
      BY <2>1, <2>2, <2>3
<1>5. TerminalTyped'
    BY <1>1, <1>2, <1>4 DEF TerminalInv, TerminalTyped
<1> QED
    BY <1>1, <1>3, <1>4, <1>5, QuietKeys

\* What a request may be started with.
Startable(work) ==
    /\ work \in Work
    /\ work.before \subseteq 1 .. requests
    /\ work.kind = "edit" =>
        /\ work.revision \in DOMAIN holds
        /\ (work.before \cap holds[work.revision]) \subseteq work.seen
    /\ (work.kind \in {"inspect", "blockers"} /\ open) => draft # Absent
    /\ (work.kind \in {"template", "target"} /\ draft # Absent) => ~draft.dirty /\ draft.sent = {}

\* The draft of a new request: as it was, and submitted by it or not.
DraftStarts(work) ==
    \/ draft' = draft /\ ((draft # Absent /\ draft.dirty) => work.kind \notin Writes)
    \/ /\ draft # Absent /\ draft' = [draft EXCEPT !.sent = draft.sent \cup {requests + 1}]
       /\ work.kind = draft.kind /\ work.project = draft.project

LEMMA Starting ==
    ASSUME TerminalInv, open, question = Absent,
           NEW work \in Work, Startable(work), DraftStarts(work), Room(work.kind),
           requests' = requests + 1,
           pending' = [id |-> requests + 1, writes |-> work.kind \in Writes],
           worker' = [id |-> requests + 1, work |-> work, at |-> "begun"],
           pending = Absent, dialog' = Absent, scope' \in Scopes,
           UNCHANGED <<open, question, reply, agreed, events, mutations, revision, holds, applied>>
    PROVE  TerminalInv'
<1> USE TerminalNumbers
<1>1. /\ requests + 1 \in Requests /\ requests' \in 0..MaxRequests /\ requests' \in Nat
      /\ work.kind \in Writes \cup {"locate"} => requests' < MaxRequests
    BY BoundsAssumption DEF Room, Requests
<1>2. pending' \in Pendings /\ pending' # Absent
  <2> DEFINE writes == work.kind \in Writes
  <2>1. writes \in BOOLEAN
      OBVIOUS
  <2>2. pending' = [id |-> requests + 1, writes |-> writes]
      OBVIOUS
  <2> HIDE DEF writes
  <2>3. pending' \in Pendings
      BY <1>1, <2>1, <2>2 DEF Pendings
  <2> QED
      BY <2>3, AbsentAssumption
<1>3. worker' \in [id: Requests, work: Work, at: Stages]
    BY <1>1 DEF Stages
\* The draft keeps all but its submissions.
<1>4. /\ draft' \in Drafts \cup {Absent}
      /\ draft # Absent <=> draft' # Absent
      /\ draft # Absent =>
            /\ draft'.kind = draft.kind /\ draft'.project = draft.project /\ draft'.owed = draft.owed
            /\ draft'.seen = draft.seen /\ draft'.within = draft.within /\ draft'.revision = draft.revision
            /\ draft'.requires_inspection = draft.requires_inspection /\ draft'.dirty = draft.dirty
            /\ draft'.sent = draft.sent \/ draft'.sent = draft.sent \cup {requests + 1}
  <2>1. CASE draft' = draft
      BY <2>1 DEF TerminalInv, TerminalTyped
  <2>2. CASE draft # Absent /\ draft' = [draft EXCEPT !.sent = draft.sent \cup {requests + 1}]
    <3>1. draft \in Drafts
        BY <2>2 DEF TerminalInv, TerminalTyped
    <3>2. draft' \in Drafts
        BY <3>1, <2>2, <1>1 DEF Drafts
    <3>3. /\ draft'.kind = draft.kind /\ draft'.project = draft.project /\ draft'.owed = draft.owed
          /\ draft'.seen = draft.seen /\ draft'.within = draft.within /\ draft'.revision = draft.revision
          /\ draft'.requires_inspection = draft.requires_inspection /\ draft'.dirty = draft.dirty
          /\ draft'.sent = draft.sent \cup {requests + 1}
        BY <3>1, <2>2 DEF Drafts
    <3> QED
        BY <2>2, <3>2, <3>3, AbsentAssumption
  <2> QED
      BY <2>1, <2>2 DEF DraftStarts
<1>5. TerminalTyped'
    BY <1>1, <1>2, <1>3, <1>4 DEF TerminalInv, TerminalTyped
<1>6. events' \in Seq(Told')
  <2>1. RequestStands
      BY <1>1 DEF RequestStands
  <2> QED
      BY <2>1, EventsStay
<1>7. MutationsMatch' /\ AppliedMatches'
  <2>1. DraftKeepsWord
      BY <1>4 DEF DraftKeepsWord
  <2> QED
      BY <2>1, <1>1, ServerStays
<1>8. QuestionMatches'
    BY DEF TerminalInv, QuestionMatches
<1>9. PendingMatches'
  <2>1. (draft' # Absent /\ draft'.dirty /\ work.kind \in Writes) => requests + 1 \in draft'.sent
    <3>1. CASE draft' = draft /\ ((draft # Absent /\ draft.dirty) => work.kind \notin Writes)
        BY <3>1
    <3>2. CASE draft # Absent /\ draft' = [draft EXCEPT !.sent = draft.sent \cup {requests + 1}]
      <4>1. draft \in Drafts
          BY <3>2 DEF TerminalInv, TerminalTyped
      <4> QED
          BY <4>1, <3>2 DEF Drafts
    <3> QED
        BY <3>1, <3>2 DEF DraftStarts
  <2> QED
      BY <2>1 DEF PendingMatches
<1>10. DraftMatches'
  <2>1. ASSUME draft # Absent
        PROVE  draft'.sent \subseteq 1 .. requests' /\ draft'.owed \subseteq draft'.sent
      BY <2>1, <1>4 DEF TerminalInv, DraftMatches
  <2>2. \A n \in DOMAIN holds : requests + 1 \notin holds[n]
      BY DEF TerminalInv, AppliedMatches
  <2> QED
      BY <1>4, <2>1, <2>2 DEF TerminalInv, DraftMatches, AppliedIds, Covers
<1>11. DialogMatches'
    BY DEF DialogMatches
<1>12. WorkerMatches'
  <2>1. /\ worker'.id = requests + 1 /\ worker'.work = work /\ worker'.at = "begun"
      OBVIOUS
  <2>2. /\ \A m \in mutations : m.id # requests + 1
        /\ \A done \in applied : done.id # requests + 1
      BY DEF TerminalInv, MutationsMatch, AppliedMatches
  <2>3. WorkMatches(worker.id, worker.work)'
    <3>1. requests + 1 - 1 = requests
        OBVIOUS
    <3> QED
        BY <2>1, <3>1 DEF WorkMatches, Startable
  <2>4. OfDraft(worker.id, worker.work.kind, worker.work.project)'
    <3>1. CASE draft' = draft
      <4>1. draft # Absent => requests + 1 \notin draft.sent
          BY DEF TerminalInv, DraftMatches
      <4> QED
          BY <3>1, <4>1, <2>1 DEF OfDraft
    <3>2. CASE draft # Absent /\ work.kind = draft.kind /\ work.project = draft.project
        BY <3>2, <1>4, <2>1 DEF OfDraft
    <3> QED
        BY <3>1, <3>2 DEF DraftStarts
  <2>5. /\ (work.kind \in {"inspect", "blockers"} /\ open') => draft' # Absent
        /\ (work.kind \in {"template", "target"} /\ draft' # Absent) => ~draft'.dirty /\ draft'.sent = {}
    <3>1. (work.kind \in {"template", "target"} /\ draft # Absent) => draft' = draft
        BY DEF DraftStarts, TerminalInv, TerminalTyped, Drafts, DraftKinds
    <3> QED
        BY <1>4, <3>1 DEF Startable
  <2> QED
      BY <1>1, <1>2, <2>1, <2>2, <2>3, <2>4, <2>5 DEF WorkerMatches
<1> QED
    BY <1>5, <1>6, <1>7, <1>8, <1>9, <1>10, <1>11, <1>12 DEF TerminalInv

\* Work without a draft.
LEMMA PlainWork ==
    ASSUME TerminalInv, NEW kind \in (Reads \cup Writes) \ {"edit"}, NEW project \in Scopes,
           (kind \in {"inspect", "blockers"} /\ open) => draft # Absent,
           (kind \in {"template", "target"} /\ draft # Absent) => ~draft.dirty /\ draft.sent = {}
    PROVE  /\ Startable(WorkOn(kind, project, 0)) /\ WorkOn(kind, project, 0) \in Work
           /\ WorkOn(kind, project, 0).kind = kind
<1>1. 0 \in 0..MaxRevision
    BY BoundsAssumption
<1>2. WorkOn(kind, project, 0) \in Work
    BY <1>1 DEF WorkOn, Work
<1> QED
    BY <1>2 DEF WorkOn, Startable

\* Start, seen from the keys.
LEMMA KeyStarts ==
    ASSUME TerminalInv, open, question = Absent,
           NEW work \in Work, Startable(work), DraftStarts(work), Start(work),
           dialog' = Absent, scope' \in Scopes
    PROVE  TerminalInv'
<1>1. /\ pending = Absent /\ Room(work.kind)
      /\ requests' = requests + 1
      /\ pending' = [id |-> requests + 1, writes |-> work.kind \in Writes]
      /\ worker' = [id |-> requests + 1, work |-> work, at |-> "begun"]
      /\ UNCHANGED <<open, question, reply, agreed, events, mutations, revision, holds, applied>>
    BY DEF Start, StartWork, server
<1> QED
    BY <1>1, Starting

LEMMA KeysOfWork ==
    ASSUME TerminalInv, Reload \/ Act \/ ChooseAction \/ Save \/ Inspect \/ OpenBlockers
    PROVE  TerminalInv'
<1> USE TerminalNumbers
<1>0. Everything \in Scopes /\ scope \in Scopes
    BY DEF Scopes, TerminalInv, TerminalTyped
<1>1. CASE Reload
  <2> DEFINE work == WorkOn("load", scope, 0)
  <2>1. /\ open /\ question = Absent /\ dialog = Absent /\ draft = Absent /\ Start(work)
        /\ UNCHANGED <<scope, draft, dialog>>
      BY <1>1 DEF Reload, InBrowser
  <2>2. Startable(work) /\ work \in Work
      BY <1>0, PlainWork DEF Reads
  <2>3. DraftStarts(work)
      BY <2>1 DEF DraftStarts
  <2> HIDE DEF work
  <2> QED
      BY <2>1, <2>2, <2>3, <1>0, KeyStarts
<1>2. CASE Act \/ ChooseAction
  <2>1. PICK kind \in TaskActions : Start(WorkOn(kind, Everything, 0))
      BY <1>2 DEF Act, ChooseAction
  <2>2. /\ open /\ question = Absent /\ dialog' = Absent /\ draft = Absent
        /\ UNCHANGED <<scope, draft>>
      BY <1>2 DEF Act, ChooseAction, InBrowser, InDialog, TerminalInv, DialogMatches
  <2> DEFINE work == WorkOn(kind, Everything, 0)
  <2>3. Startable(work) /\ work \in Work
    <3>1. kind \in (Reads \cup Writes) \ {"edit"} /\ kind \notin {"inspect", "blockers"}
        BY DEF TaskActions, Reads, Writes
    <3> QED
        BY <1>0, <2>2, <3>1, PlainWork
  <2>4. DraftStarts(work)
      BY <2>2 DEF DraftStarts
  <2>5. Start(work)
      BY <2>1
  <2> HIDE DEF work
  <2> QED
      BY <2>2, <2>3, <2>4, <2>5, <1>0, KeyStarts
<1>3. CASE Save
  <2> DEFINE work == [kind |-> draft.kind, project |-> draft.project, revision |-> draft.revision,
                      before |-> draft.sent, seen |-> draft.seen]
  <2>1. /\ open /\ question = Absent /\ dialog = Absent /\ draft # Absent /\ draft \in Drafts
        /\ UNCHANGED <<scope, dialog>>
      BY <1>3 DEF Save, InDraft, TerminalInv, TerminalTyped
  <2>2. Start(work) /\ draft' = [draft EXCEPT !.sent = draft.sent \cup {requests'}]
      BY <1>3 DEF Save
  <2>3. draft' = [draft EXCEPT !.sent = draft.sent \cup {requests + 1}]
      BY <2>2 DEF Start, StartWork
  <2>4. work \in Work
      BY <2>1 DEF Drafts, DraftKinds, Work, Writes
  <2>5. Startable(work)
    <3>1. work.kind \in DraftKinds /\ draft.sent \subseteq 1 .. requests
        BY <2>1 DEF Drafts, TerminalInv, DraftMatches
    <3>2. work.kind \notin {"inspect", "blockers", "template", "target"}
        BY <3>1 DEF DraftKinds
    <3>3. \A m \in mutations : m.id \in draft.sent => m.work.kind = draft.kind
        BY <2>1 DEF TerminalInv, MutationsMatch, OfDraft
    <3> QED
        BY <2>1, <2>4, <3>1, <3>2, <3>3 DEF Startable, TerminalInv, DraftMatches
  <2>6. DraftStarts(work)
      BY <2>1, <2>3 DEF DraftStarts
  <2> HIDE DEF work
  <2> QED
      BY <2>1, <2>2, <2>4, <2>5, <2>6, <1>0, KeyStarts
<1>4. CASE Inspect
  <2> DEFINE work == WorkOn("inspect", scope, 0)
  <2>1. /\ open /\ question = Absent /\ dialog = Absent /\ draft # Absent /\ Start(work)
        /\ UNCHANGED <<scope, draft, dialog>>
      BY <1>4 DEF Inspect, InDraft
  <2>2. Startable(work) /\ work \in Work /\ work.kind = "inspect"
      BY <1>0, <2>1, PlainWork DEF Reads
  <2>3. DraftStarts(work)
      BY <2>1, <2>2 DEF DraftStarts, Writes
  <2> HIDE DEF work
  <2> QED
      BY <2>1, <2>2, <2>3, <1>0, KeyStarts
<1>5. CASE OpenBlockers
  <2> DEFINE work == WorkOn("blockers", Everything, 0)
  <2>1. /\ open /\ question = Absent /\ dialog = Absent /\ draft # Absent /\ Start(work)
        /\ UNCHANGED <<scope, draft, dialog>>
      BY <1>5 DEF OpenBlockers, InDraft
  <2>2. Startable(work) /\ work \in Work /\ work.kind = "blockers"
      BY <1>0, <2>1, PlainWork DEF Reads
  <2>3. DraftStarts(work)
      BY <2>1, <2>2 DEF DraftStarts, Writes
  <2> HIDE DEF work
  <2> QED
      BY <2>1, <2>2, <2>3, <1>0, KeyStarts
<1> QED
    BY <1>1, <1>2, <1>3, <1>4, <1>5

\* A new task or note, and the list of the projects.
LEMMA KeysOfProjects ==
    ASSUME TerminalInv, ChooseProject \/ (Create /\ scope \in Projects)
    PROVE  TerminalInv'
<1> USE TerminalNumbers
<1>0. Projects \subseteq Scopes /\ scope \in Scopes
    BY DEF Scopes, TerminalInv, TerminalTyped
<1>1. ASSUME NEW project \in Projects, CreateIn(project), open, question = Absent, draft = Absent,
             dialog' = Absent, pending = Absent, scope' = scope
      PROVE  TerminalInv'
  <2>1. CASE Start(WorkOn("template", project, 0)) /\ UNCHANGED <<scope, draft>>
    <3> DEFINE work == WorkOn("template", project, 0)
    <3>1. Startable(work) /\ work \in Work
        BY <1>0, <1>1, PlainWork DEF Reads
    <3>2. DraftStarts(work)
        BY <1>1, <2>1 DEF DraftStarts
    <3>3. Start(work)
        BY <2>1
    <3> HIDE DEF work
    <3> QED
        BY <3>1, <3>2, <3>3, <1>0, <1>1, KeyStarts
  <2>2. CASE ~(Start(WorkOn("template", project, 0)) /\ UNCHANGED <<scope, draft>>)
    <3>1. /\ draft' = NewDraft("create", project, 0)
          /\ UNCHANGED <<open, scope, question, pending, reply, requests, worker, events, agreed, mutations, revision, holds, applied>>
        BY <1>1, <2>2 DEF CreateIn, server
    <3>2. "create" \in DraftKinds /\ project \in Scopes
        BY <1>0 DEF DraftKinds
    <3> QED
        BY <1>1, <3>1, <3>2, KeysOfNewDrafts
  <2> QED
      BY <2>1, <2>2
<1>2. CASE Create /\ scope \in Projects
    BY <1>2, <1>1 DEF Create, InBrowser, CreateIn, Start
<1>3. CASE ChooseProject /\ ~dialog.browse
  <2>1. /\ open /\ question = Absent /\ dialog # Absent /\ dialog.kind = "projects"
        /\ pending = Absent /\ dialog' = Absent
      BY <1>3 DEF ChooseProject, InDialog
  <2>2. draft = Absent
      BY <1>3, <2>1 DEF TerminalInv, DialogMatches
  <2>3. PICK project \in Projects : CreateIn(project)
      BY <1>3 DEF ChooseProject
  <2>4. scope' = scope
      BY <2>3 DEF CreateIn
  <2> QED
      BY <2>1, <2>2, <2>3, <2>4, <1>1
<1>4. CASE ChooseProject /\ dialog.browse
  <2>1. /\ open /\ question = Absent /\ pending = Absent /\ dialog' = Absent
      BY <1>4 DEF ChooseProject, InDialog
  <2>2. PICK chosen \in Scopes : scope' = chosen /\ Start(WorkOn("load", chosen, 0)) /\ UNCHANGED draft
      BY <1>4 DEF ChooseProject
  <2> DEFINE work == WorkOn("load", chosen, 0)
  <2>3. Startable(work) /\ work \in Work /\ work.kind = "load"
      BY PlainWork DEF Reads
  <2>4. DraftStarts(work)
      BY <2>2, <2>3 DEF DraftStarts, Writes
  <2>5. Start(work)
      BY <2>2
  <2> HIDE DEF work
  <2> QED
      BY <2>1, <2>2, <2>3, <2>4, <2>5, KeyStarts
<1> QED
    BY <1>2, <1>3, <1>4

\* Keys that end the interface, or the request that reads.
LEMMA KeysThatStop ==
    ASSUME TerminalInv,
           UNCHANGED <<scope, dialog, requests, reply, agreed, events, mutations, revision, holds, applied>>,
           worker' = Absent, question' \in {question, Absent},
           pending' = Absent \/ (pending' = pending /\ ~open' /\ ~pending.writes),
           draft' \in {draft, Absent}, open' \in BOOLEAN, open' => open /\ draft' = draft,
           reply = Absent, question' # Absent => pending = Absent
    PROVE  TerminalInv'
<1> USE TerminalNumbers
<1>1. TerminalTyped'
    BY DEF TerminalInv, TerminalTyped
<1>2. RequestStands
    BY DEF RequestStands, DraftStands
<1>3. events' \in Seq(Told')
    BY <1>2, EventsStay
<1>4. MutationsMatch' /\ AppliedMatches'
  <2>1. DraftKeepsWord
      BY DEF DraftKeepsWord
  <2> QED
      BY <2>1, ServerStays
<1>5. PendingMatches'
    BY DEF PendingMatches, TerminalInv
<1>6. QuestionMatches'
    BY DEF QuestionMatches, TerminalInv
<1>7. WorkerMatches'
    BY DEF WorkerMatches
<1>8. DraftMatches' /\ DialogMatches'
    BY DEF TerminalInv, DraftMatches, DialogMatches, View, Covers, AppliedIds
<1> QED
    BY <1>1, <1>3, <1>4, <1>5, <1>6, <1>7, <1>8 DEF TerminalInv

LEMMA KeyQuits ==
    ASSUME TerminalInv, Quit, ~open'
    PROVE  TerminalInv'
<1>1. /\ open /\ question = Absent /\ MayQuit
      /\ worker' = Absent /\ UNCHANGED <<question, scope, draft, dialog, pending, reply, requests, events,
                                         agreed, mutations, revision, holds, applied>>
    BY DEF Quit, server
<1>2. reply = Absent
    BY <1>1 DEF TerminalInv, QuestionMatches
<1>3. pending' = Absent \/ (pending' = pending /\ ~pending.writes)
    BY <1>1 DEF MayQuit
<1>4. open' = FALSE
    BY <1>1 DEF Quit
<1> QED
    BY <1>1, <1>2, <1>3, <1>4, KeysThatStop

LEMMA KeyCancels ==
    ASSUME TerminalInv, CancelRead
    PROVE  TerminalInv'
<1>1. /\ open /\ question = Absent
      /\ worker' = Absent /\ pending' = Absent
      /\ UNCHANGED <<open, question, scope, draft, dialog, reply, requests, events, agreed, mutations, revision, holds, applied>>
    BY DEF CancelRead, InBrowser, InDraft, server
<1>2. reply = Absent
    BY <1>1 DEF TerminalInv, QuestionMatches
<1> QED
    BY <1>1, <1>2, KeysThatStop

\* The answer to a question, of the server or of the interface.
LEMMA KeyDecides ==
    ASSUME TerminalInv, NEW key \in {"enter", "esc"}, CloseConfirmation(key)
    PROVE  TerminalInv'
<1> USE TerminalNumbers
<1>1. /\ open /\ question # Absent /\ question' = Absent /\ question \in Questions
      /\ UNCHANGED <<scope, dialog, pending, requests, events, mutations, revision, holds, applied>>
    BY DEF CloseConfirmation, InConfirmation, server, TerminalInv, TerminalTyped
<1>2. CASE question.local = "no"
  <2>1. /\ Decide(Confirmed(key, question))
        /\ reply' = Absent
        /\ agreed' = IF key = "enter" /\ question.yes THEN agreed \cup {question.id} ELSE agreed
        /\ UNCHANGED <<open, draft>>
      BY <1>2 DEF CloseConfirmation
  <2>2. pending # Absent /\ pending.id = question.id /\ reply = question.id /\ question.id \in Requests
      BY <1>1, <1>2 DEF TerminalInv, QuestionMatches, TerminalTyped, Pendings
  <2>3. agreed \subseteq agreed' /\ agreed' \subseteq Requests
      BY <2>1, <2>2 DEF TerminalInv, TerminalTyped
  <2>4. \/ worker' = worker
        \/ /\ worker # Absent /\ worker.id = reply /\ worker.at = "asking"
           /\ worker' = [worker EXCEPT !.at = IF Confirmed(key, question) THEN "yes" ELSE "no"]
      BY <2>1 DEF Decide
  \* The worker that was asked, with the answer.
  <2>5. /\ worker' \in [id: Requests, work: Work, at: Stages] \cup {Absent}
        /\ WorkerMatches'
        /\ worker' = Absent \/ (worker # Absent /\ worker'.id = worker.id)
    <3>1. CASE worker' = worker
      <4>1. worker # Absent => WorkMatches(worker.id, worker.work)' /\ OfDraft(worker.id, worker.work.kind, worker.work.project)'
          BY <1>1, <2>1, <3>1 DEF TerminalInv, WorkerMatches, WorkMatches, OfDraft
      <4> QED
          BY <1>1, <2>1, <2>3, <3>1, <4>1 DEF TerminalInv, TerminalTyped, WorkerMatches
    <3>2. CASE /\ worker # Absent /\ worker.id = reply /\ worker.at = "asking"
               /\ worker' = [worker EXCEPT !.at = IF Confirmed(key, question) THEN "yes" ELSE "no"]
      <4>1. worker \in [id: Requests, work: Work, at: Stages]
          BY <3>2 DEF TerminalInv, TerminalTyped
      <4>2. /\ worker'.id = worker.id /\ worker'.work = worker.work
            /\ worker'.at \in {"yes", "no"}
            /\ worker'.at = "yes" => key = "enter" /\ question.yes
            /\ worker' \in [id: Requests, work: Work, at: Stages]
          BY <3>2, <4>1 DEF Confirmed, Stages
      <4>3. worker'.at = "yes" => worker'.id \in agreed'
          BY <4>2, <2>1, <2>2, <3>2
      <4>4. WorkMatches(worker.id, worker.work)' /\ OfDraft(worker.id, worker.work.kind, worker.work.project)'
          BY <1>1, <2>1, <3>2, <4>2 DEF TerminalInv, WorkerMatches, WorkMatches, OfDraft
      <4>5. worker.work.kind \in Submitted
          BY <3>2 DEF TerminalInv, WorkerMatches
      <4>6. WorkerMatches'
          BY <1>1, <2>1, <3>2, <4>2, <4>3, <4>4, <4>5 DEF TerminalInv, WorkerMatches
      <4> QED
          BY <3>2, <4>2, <4>6
    <3> QED
        BY <2>4, <3>1, <3>2
  <2>6. TerminalTyped'
      BY <1>1, <2>1, <2>3, <2>5 DEF TerminalInv, TerminalTyped
  <2>7. events' \in Seq(Told')
    <3>1. RequestStands
        BY <1>1, <2>1, <2>5 DEF RequestStands, DraftStands
    <3> QED
        BY <1>1, <3>1, EventsStay
  <2>8. MutationsMatch' /\ AppliedMatches'
    <3>1. DraftKeepsWord
        BY <2>1 DEF DraftKeepsWord
    <3> QED
        BY <1>1, <2>3, <3>1, ServerStays
  <2>9. PendingMatches' /\ QuestionMatches' /\ DraftMatches' /\ DialogMatches'
      BY <1>1, <2>1 DEF TerminalInv, PendingMatches, QuestionMatches, DraftMatches, DialogMatches, View, Covers, AppliedIds
  <2> QED
      BY <2>5, <2>6, <2>7, <2>8, <2>9 DEF TerminalInv
<1>3. CASE question.local # "no"
  <2>1. /\ draft' = IF Confirmed(key, question) THEN Absent ELSE draft
        /\ open' = ~(Confirmed(key, question) /\ question.local = "quit")
        /\ worker' = IF open' THEN worker ELSE Absent
        /\ UNCHANGED <<reply, agreed>>
      BY <1>3 DEF CloseConfirmation
  <2>2. reply = Absent
    <3>1. question.id = 0
        BY <1>1, <1>3 DEF TerminalInv, QuestionMatches
    <3>2. reply # Absent => reply \in Requests /\ reply = 0
        BY <3>1 DEF TerminalInv, QuestionMatches, TerminalTyped
    <3> QED
        BY <3>2
  <2>3. open' \in BOOLEAN
      BY <2>1
  <2>4. CASE ~open'
    <3>1. question.local = "quit" /\ worker' = Absent /\ draft' = Absent
        BY <2>1, <2>4
    <3>2. pending' = Absent \/ (pending' = pending /\ ~pending.writes)
        BY <1>1, <3>1 DEF TerminalInv, QuestionMatches
    <3> QED
        BY <1>1, <2>1, <2>2, <2>3, <2>4, <3>1, <3>2, KeysThatStop
  <2>5. CASE open' /\ draft' = draft
    <3>1. UNCHANGED <<open, worker>>
        BY <1>1, <2>1, <2>5
    <3>2. TerminalTyped' /\ DraftKeepsWord /\ DraftStands
        BY <1>1, <2>1, <2>5, <3>1 DEF TerminalInv, TerminalTyped, DraftKeepsWord, DraftStands
    <3>3. QuestionMatches' /\ DialogMatches' /\ DraftMatches'
        BY <1>1, <2>1, <2>2, <2>5, <3>1 DEF TerminalInv, QuestionMatches, DialogMatches, DraftMatches, View, Covers, AppliedIds
    <3> QED
        BY <1>1, <2>1, <3>1, <3>2, <3>3, QuietKeys
  <2>6. CASE open' /\ draft' # draft
    <3>1. Confirmed(key, question) /\ question.local = "discard" /\ draft' = Absent
        BY <1>1, <1>3, <2>1, <2>6 DEF Questions
    <3>2. pending = Absent /\ dialog = Absent /\ UNCHANGED <<open, worker>>
        BY <1>1, <2>1, <2>6, <3>1 DEF TerminalInv, QuestionMatches
    <3>3. TerminalTyped' /\ DraftKeepsWord
        BY <1>1, <2>1, <3>1, <3>2 DEF TerminalInv, TerminalTyped, DraftKeepsWord
    <3>4. QuestionMatches' /\ DialogMatches' /\ DraftMatches'
        BY <1>1, <2>1, <2>2, <3>1, <3>2 DEF QuestionMatches, DialogMatches, DraftMatches
    <3> QED
        BY <1>1, <2>1, <3>2, <3>3, <3>4, QuietKeys
  <2> QED
      BY <2>3, <2>4, <2>5, <2>6
<1> QED
    BY <1>2, <1>3

LEMMA KeysMatch ==
    ASSUME TerminalInv, Key
    PROVE  TerminalInv'
<1>1. CASE Toggle \/ BrowseProjects \/ OpenActions \/ CloseDialog
    BY <1>1, KeysOfDialogs
<1>2. CASE \E key \in {"enter", "esc"} : CloseConfirmation(key)
    BY <1>2, KeyDecides
<1>3. CASE Quit
    BY <1>3, KeyQuits, KeysOfDialogs
<1>4. CASE Reload \/ Act \/ ChooseAction \/ Save \/ Inspect \/ OpenBlockers
    BY <1>4, KeysOfWork
<1>5. CASE CancelRead
    BY <1>5, KeyCancels
<1>6. CASE Create
    BY <1>6, KeysOfDialogs, KeysOfProjects
<1>7. CASE ChooseProject
    BY <1>7, KeysOfProjects
<1>8. CASE ExportReferences
    BY <1>8, KeyExports
<1>9. CASE AcceptInspection \/ Type
    BY <1>9, KeysOfDrafts
<1>10. CASE LeaveDraft
    BY <1>10, KeysOfDialogs, KeysOfDrafts
<1> QED
    BY <1>1, <1>2, <1>3, <1>4, <1>5, <1>6, <1>7, <1>8, <1>9, <1>10 DEF Key

\* The event at the head of the channel.
LEMMA HeadsAreTold ==
    ASSUME TerminalInv, events # <<>>
    PROVE  /\ Head(events) \in Told /\ Head(events) \in Answers
           /\ Tail(events) \in Seq(Told)
BY TerminalNumbers DEF Told

LEMMA EventIsDropped ==
    ASSUME TerminalInv, DropEvent
    PROVE  TerminalInv'
<1> USE TerminalNumbers
<1>1. /\ events # <<>> /\ events' = Tail(events)
      /\ UNCHANGED <<open, scope, draft, dialog, question, pending, reply, requests, worker, agreed,
                     mutations, revision, holds, applied>>
    BY DEF DropEvent, interface, server
<1>2. RequestStands /\ DraftKeepsWord
    BY <1>1 DEF RequestStands, DraftStands, DraftKeepsWord
<1>3. events' \in Seq(Told')
    BY <1>1, <1>2, EventsStay
<1>4. MutationsMatch' /\ AppliedMatches'
    BY <1>1, <1>2, ServerStays
<1>5. WorkerMatches'
    BY <1>1 DEF TerminalInv, WorkerMatches, WorkMatches, OfDraft
<1> QED
    BY <1>1, <1>3, <1>4, <1>5 DEF TerminalInv, TerminalTyped, PendingMatches, QuestionMatches, DraftMatches,
       DialogMatches, View, Covers, AppliedIds

LEMMA QuestionIsTaken ==
    ASSUME TerminalInv, TakeQuestion
    PROVE  TerminalInv'
<1> USE TerminalNumbers
<1>1. /\ events # <<>> /\ events' = Tail(events)
      /\ pending # Absent /\ pending.id = Head(events).id
      /\ reply' = Head(events).id
      /\ question' = [local |-> "no", id |-> Head(events).id, yes |-> FALSE]
      /\ UNCHANGED <<open, scope, draft, dialog, pending, requests, worker, agreed, mutations, revision, holds, applied>>
    BY DEF TakeQuestion, IsForPending, server
<1>2. Head(events).id \in Requests
    BY <1>1, HeadsAreTold DEF Answers
<1>3. question' # Absent /\ question' \in Questions /\ question'.local = "no" /\ question'.id = Head(events).id
  <2> DEFINE id == Head(events).id
  <2>1. question' = [local |-> "no", id |-> id, yes |-> FALSE] /\ id \in Requests
      BY <1>1, <1>2
  <2> HIDE DEF id
  <2>2. question' \in Questions
      BY <2>1 DEF Questions
  <2>3. question' # Absent
      BY <2>2, AbsentAssumption
  <2>4. question'.local = "no" /\ question'.id = id
      BY <2>1
  <2> QED
      BY <2>2, <2>3, <2>4 DEF id
<1>4. RequestStands /\ DraftKeepsWord
    BY <1>1 DEF RequestStands, DraftStands, DraftKeepsWord
<1>5. events' \in Seq(Told')
    BY <1>1, <1>4, EventsStay
<1>6. MutationsMatch' /\ AppliedMatches'
    BY <1>1, <1>4, ServerStays
<1>7. WorkerMatches'
    BY <1>1 DEF TerminalInv, WorkerMatches, WorkMatches, OfDraft
<1>8. QuestionMatches'
    BY <1>1, <1>3 DEF QuestionMatches
<1>9. TerminalTyped'
    BY <1>1, <1>2, <1>3 DEF TerminalInv, TerminalTyped
<1> QED
    BY <1>1, <1>5, <1>6, <1>7, <1>8, <1>9 DEF TerminalInv, PendingMatches, DraftMatches,
       DialogMatches, View, Covers, AppliedIds

\* What a result makes of the draft.
LEMMA DraftsAfterResults ==
    ASSUME TerminalInv, open, events # <<>>, Live(Head(events)), draft' = DraftAfter(Head(events)),
           UNCHANGED <<applied, revision, holds, requests>> \/ (UNCHANGED <<applied, revision, holds>> /\ requests' = requests + 1)
    PROVE  /\ draft' \in Drafts \cup {Absent}
           /\ DraftKeepsWord
           /\ DraftMatches'
           /\ Head(events).out \notin {"error", "draft", "saved", "exported"} => draft' = draft
<1> USE TerminalNumbers
<1> DEFINE e == Head(events)
<1>1. e \in Told /\ e \in Answers
    BY HeadsAreTold
<1> HIDE DEF e
<1>2. CASE e.out = "error"
  <2>1. draft' = AfterError(draft)
      BY <1>2 DEF DraftAfter, e
  <2>2. CASE draft' = draft
      BY <1>2, <2>2 DEF DraftKeepsWord, DraftMatches, TerminalInv, TerminalTyped, Covers, AppliedIds, e
  <2>3. CASE draft' # draft
    <3>1. /\ draft # Absent /\ draft \in Drafts
          /\ draft' = [draft EXCEPT !.requires_inspection = draft.kind # "export",
                                    !.owed = draft.sent \cap AppliedIds]
        BY <2>1, <2>3 DEF AfterError, TerminalInv, TerminalTyped
    <3>2. /\ draft'.kind = draft.kind /\ draft'.project = draft.project /\ draft'.sent = draft.sent
          /\ draft'.owed = draft.sent \cap AppliedIds /\ draft'.seen = draft.seen /\ draft'.within = draft.within
          /\ draft'.revision = draft.revision
          /\ draft'.requires_inspection <=> draft.kind # "export"
        BY <3>1 DEF Drafts
    <3>3. draft' \in Drafts
      <4> DEFINE locked == draft.kind # "export"
      <4>1. locked \in BOOLEAN /\ draft.sent \cap AppliedIds \in SUBSET Requests
          BY <3>1 DEF Drafts
      <4>2. draft' = [draft EXCEPT !.requires_inspection = locked, !.owed = draft.sent \cap AppliedIds]
          BY <3>1
      <4> HIDE DEF locked
      <4> QED
          BY <3>1, <4>1, <4>2 DEF Drafts
    \* Nothing that an export submits is carried out by the server.
    <3>4. draft.kind = "export" => draft.sent \cap AppliedIds = {}
      <4>1. \A done \in applied : done.id \in draft.sent => done.kind = draft.kind /\ done.kind \in Submitted
          BY <3>1 DEF TerminalInv, AppliedMatches, OfDraft
      <4> QED
          BY <4>1 DEF AppliedIds, Submitted
    <3>5. DraftMatches'
        BY <3>1, <3>2, <3>4 DEF TerminalInv, DraftMatches, Covers, AppliedIds
    <3> QED
        BY <1>2, <3>1, <3>2, <3>3, <3>5 DEF DraftKeepsWord, e
  <2> QED
      BY <2>2, <2>3
<1>3. CASE e.out = "draft"
  <2>1. draft' = e.draft
      BY <1>3 DEF DraftAfter, e
  <2>2. e.draft # Absent /\ Fresh(e.draft) /\ e.draft \in Drafts
      BY <1>1, <1>3 DEF Told, Answers
  <2>3. DraftMatches'
      BY <2>1, <2>2 DEF DraftMatches, Fresh
  <2> QED
      BY <2>1, <2>2, <2>3, <1>3 DEF DraftKeepsWord, Fresh, e
<1>4. CASE e.out \in {"saved", "exported"}
  <2>1. draft' = Absent
      BY <1>4 DEF DraftAfter, e
  <2> QED
      BY <2>1, <1>4 DEF DraftKeepsWord, DraftMatches, e
<1>5. CASE e.out \notin {"error", "draft", "saved", "exported"}
  <2>1. draft' = draft
      BY <1>5 DEF DraftAfter, e
  <2> QED
      BY <2>1 DEF DraftKeepsWord, DraftMatches, TerminalInv, TerminalTyped, Covers, AppliedIds
<1> QED
    BY <1>2, <1>3, <1>4, <1>5

LEMMA ResultIsTaken ==
    ASSUME TerminalInv, TakeResult
    PROVE  TerminalInv'
<1> USE TerminalNumbers
<1> DEFINE e == Head(events)
<1>1. /\ open /\ events # <<>> /\ Live(e) /\ e.out # "confirm"
      /\ pending # Absent /\ e.id = pending.id
      /\ events' = Tail(events) /\ reply' = Absent /\ question' = Absent
      /\ draft' = DraftAfter(e) /\ dialog' = DialogAfter(e)
      /\ scope' = IF e.out \in {"loaded", "inspected"} THEN e.scope ELSE scope
      /\ UNCHANGED <<open, agreed, mutations, revision, holds, applied>>
    BY DEF TakeResult, IsForPending, Live, server
<1>2. e \in Told /\ e \in Answers
    BY <1>1, HeadsAreTold
<1>3. e.id = requests
    BY <1>1 DEF TerminalInv, PendingMatches
\* The request is over.
<1>4. worker = Absent
  <2>1. ~(worker # Absent /\ worker.id = e.id)
      BY <1>1, <1>2 DEF Told
  <2> QED
      BY <1>1, <2>1 DEF TerminalInv, WorkerMatches
<1> DEFINE load == WorkOn("load", scope, 0)
<1>5. \/ /\ e.out \in {"saved", "edit_file"} /\ requests' = requests + 1
         /\ pending' = [id |-> requests + 1, writes |-> FALSE]
         /\ worker' = [id |-> requests + 1, work |-> load, at |-> "begun"]
      \/ e.out \notin {"saved", "edit_file"} /\ pending' = Absent /\ UNCHANGED <<requests, worker>>
  <2> DEFINE writes == load.kind \in Writes
  <2>1. writes = FALSE
      BY DEF WorkOn, Writes
  <2>2. CASE e.out \in {"saved", "edit_file"}
    <3>1. StartWork(load)
        BY <2>2 DEF TakeResult
    <3>2. /\ requests' = requests + 1
          /\ pending' = [id |-> requests + 1, writes |-> writes]
          /\ worker' = [id |-> requests + 1, work |-> load, at |-> "begun"]
        BY <3>1 DEF StartWork
    <3> HIDE DEF writes, load
    <3> QED
        BY <2>1, <2>2, <3>2
  <2>3. CASE e.out \notin {"saved", "edit_file"}
      BY <2>3 DEF TakeResult
  <2> QED
      BY <2>2, <2>3
<1>6. load \in Work /\ load.kind = "load" /\ load.before = {}
  <2>1. 0 \in 0..MaxRevision /\ scope \in Scopes
      BY BoundsAssumption DEF TerminalInv, TerminalTyped
  <2> QED
      BY <2>1 DEF WorkOn, Work, Reads
<1>7. /\ requests' = requests \/ requests' = requests + 1
      /\ requests' \in 0..MaxRequests /\ requests' \in Nat /\ requests <= requests'
      /\ requests' = requests + 1 => requests + 1 \in Requests
  <2>1. e.out \in {"saved", "edit_file"} => requests < MaxRequests
      BY <1>2, <1>3 DEF Told
  <2> QED
      BY <2>1, <1>5, BoundsAssumption DEF Requests
<1> HIDE DEF load
<1>8. /\ draft' \in Drafts \cup {Absent} /\ DraftKeepsWord /\ DraftMatches'
      /\ e.out \notin {"error", "draft", "saved", "exported"} => draft' = draft
    BY <1>1, <1>5, DraftsAfterResults
<1>9. events' \in Seq(Told')
  <2>1. RequestStands
      BY <1>5, <1>7 DEF RequestStands
  <2> QED
      BY <1>1, <2>1, EventsStay
<1>10. MutationsMatch' /\ AppliedMatches'
    BY <1>1, <1>7, <1>8, ServerStays
<1>11. TerminalTyped'
  <2>1. scope' \in Scopes
      BY <1>1, <1>2 DEF Answers, TerminalInv, TerminalTyped
  <2>2. dialog' \in Dialogs \cup {Absent}
      BY <1>1, <1>2 DEF DialogAfter, Dialogs, Answers, TerminalInv, TerminalTyped
  <2>3. pending' \in Pendings \cup {Absent}
    <3>1. CASE pending' = [id |-> requests + 1, writes |-> FALSE] /\ requests + 1 \in Requests
        BY <3>1 DEF Pendings
    <3> QED
        BY <3>1, <1>5, <1>7
  <2>4. worker' \in [id: Requests, work: Work, at: Stages] \cup {Absent}
      BY <1>4, <1>5, <1>6, <1>7 DEF Stages
  <2> QED
      BY <1>1, <1>7, <1>8, <2>1, <2>2, <2>3, <2>4 DEF TerminalInv, TerminalTyped
<1>12. PendingMatches' /\ QuestionMatches'
    BY <1>1, <1>5 DEF PendingMatches, QuestionMatches
<1>13. WorkerMatches'
  <2>1. CASE worker' = Absent
      BY <2>1 DEF WorkerMatches
  <2>2. CASE worker' # Absent
    <3>1. /\ e.out \in {"saved", "edit_file"} /\ requests' = requests + 1
          /\ pending' = [id |-> requests + 1, writes |-> FALSE]
          /\ worker'.id = requests + 1 /\ worker'.work = load /\ worker'.at = "begun"
        BY <2>2, <1>4, <1>5
    <3>2. pending' # Absent
      <4>1. pending' \in Pendings
          BY <3>1, <1>7 DEF Pendings
      <4> QED
          BY <4>1, AbsentAssumption
    <3>3. load.kind \notin Writes \cup {"locate", "edit", "inspect", "blockers", "template", "target"}
        BY <1>6 DEF Writes
    <3>4. /\ \A m \in mutations : m.id # requests + 1
          /\ \A done \in applied : done.id # requests + 1
        BY DEF TerminalInv, MutationsMatch, AppliedMatches
    <3>5. WorkMatches(worker.id, worker.work)'
        BY <3>1, <3>3, <1>6 DEF WorkMatches
    <3>6. OfDraft(worker.id, worker.work.kind, worker.work.project)'
      <4>1. draft' # Absent => requests + 1 \notin draft'.sent
        <5>1. CASE e.out = "edit_file"
          <6>1. draft' = draft
              BY <1>8, <5>1
          <6> QED
              BY <6>1 DEF TerminalInv, DraftMatches
        <5>2. CASE e.out = "saved"
          <6>1. draft' = Absent
              BY <1>1, <5>2 DEF DraftAfter
          <6> QED
              BY <6>1
        <5> QED
            BY <3>1, <5>1, <5>2
      <4> QED
          BY <3>1, <4>1 DEF OfDraft
    <3>7. worker'.id = requests + 1 /\ (load.kind \in Writes) = FALSE
        BY <3>1, <3>3
    <3> QED
        BY <1>1, <3>1, <3>2, <3>3, <3>4, <3>5, <3>6, <3>7 DEF WorkerMatches
  <2> QED
      BY <2>1, <2>2
<1>14. DialogMatches'
  \* The dialogs that were open beside a pending request.
  <2>1. dialog # Absent => dialog.kind = "projects" /\ dialog.browse
      BY <1>1 DEF TerminalInv, DialogMatches, TerminalTyped, Dialogs
  <2>2. CASE e.out = "blockers"
    <3>1. dialog' = [kind |-> "blockers"] /\ pending' = Absent /\ draft' = draft
        BY <2>2, <1>1, <1>5, <1>8 DEF DialogAfter
    <3>2. draft # Absent
        BY <2>2, <1>1, <1>2 DEF Told
    <3> QED
        BY <3>1, <3>2 DEF DialogMatches
  <2>3. CASE e.out = "inspected"
    <3>1. /\ dialog' = [kind |-> "inspection", revision |-> e.revision, shown |-> e.shown, within |-> e.scope]
          /\ pending' = Absent /\ draft' = draft
        BY <2>3, <1>1, <1>5, <1>8 DEF DialogAfter
    <3>2. /\ draft # Absent /\ View(e.revision, e.shown)
          /\ Covers(e.scope, draft) => draft.owed \subseteq e.shown
        BY <2>3, <1>1, <1>2 DEF Told
    <3>3. View(e.revision, e.shown) <=> View(dialog.revision, dialog.shown)'
        BY <1>1, <3>1 DEF View
    <3> QED
        BY <3>1, <3>2, <3>3 DEF DialogMatches, Covers
  <2>4. CASE e.out \notin {"blockers", "inspected"}
    <3>1. dialog' = dialog
        BY <2>4, <1>1 DEF DialogAfter
    <3> QED
        BY <3>1, <2>1 DEF DialogMatches
  <2> QED
      BY <2>2, <2>3, <2>4
<1> QED
    BY <1>8, <1>9, <1>10, <1>11, <1>12, <1>13, <1>14 DEF TerminalInv

\* The server carries out what it was asked for, and the contents that the
\* task has had stay what they are.
Grows ==
    /\ applied \subseteq applied'
    /\ \A done \in applied' : done \notin applied =>
        \E m \in mutations : m.id = done.id /\ m.work.kind = done.kind /\ m.work.project = done.project
    /\ DOMAIN holds \subseteq DOMAIN holds'
    /\ \A n \in DOMAIN holds : holds'[n] = holds[n]
    /\ \A n \in DOMAIN holds' : \A id \in holds'[n] :
        \/ \E k \in DOMAIN holds : id \in holds[k]
        \/ \E done \in applied' : done.id = id /\ done.kind = "edit"

\* Writes end, or are agreed to, and none is asked for.
Descends ==
    /\ \A n \in mutations' : \E m \in mutations :
        n.id = m.id /\ n.work = m.work /\ (n.agreed => m.agreed \/ n.id \in agreed)
    /\ \A n1, n2 \in mutations' : n1.id = n2.id => n1 = n2

LEMMA WorksStay ==
    ASSUME Grows, NEW work, NEW id, WorkMatches(id, work)
    PROVE  WorkMatches(id, work)'
    BY DEF Grows, WorkMatches

LEMMA MutationsDescend ==
    ASSUME TerminalInv, Grows, Descends, UNCHANGED <<draft, requests, agreed>>
    PROVE  MutationsMatch' /\ AppliedMatches'
<1>1. ASSUME NEW m \in mutations
      PROVE  /\ m.id <= requests
             /\ m.work \in Work /\ m.work.kind \in Submitted
             /\ m.agreed => m.id \in agreed
             /\ WorkMatches(m.id, m.work)
             /\ OfDraft(m.id, m.work.kind, m.work.project)
    BY DEF TerminalInv, MutationsMatch, TerminalTyped
<1>2. ASSUME NEW n \in mutations'
      PROVE  /\ n.id <= requests'
             /\ n.work.kind \in Submitted
             /\ n.agreed => n.id \in agreed'
             /\ WorkMatches(n.id, n.work)'
             /\ OfDraft(n.id, n.work.kind, n.work.project)'
  <2>1. PICK m \in mutations : n.id = m.id /\ n.work = m.work /\ (n.agreed => m.agreed \/ n.id \in agreed)
      BY DEF Descends
  <2>2. n.work \in Work /\ WorkMatches(n.id, n.work) /\ OfDraft(n.id, n.work.kind, n.work.project)
      BY <2>1, <1>1
  <2>3. WorkMatches(n.id, n.work)'
      BY <2>2, WorksStay
  <2>4. OfDraft(n.id, n.work.kind, n.work.project)'
      BY <2>2 DEF OfDraft
  <2> QED
      BY <1>1, <2>1, <2>3, <2>4
<1>3. MutationsMatch'
    BY <1>2 DEF MutationsMatch, Descends
<1>4. ASSUME NEW done \in applied'
      PROVE  /\ done.id <= requests'
             /\ done.kind \in Submitted
             /\ OfDraft(done.id, done.kind, done.project)'
  <2>1. CASE done \in applied
      BY <2>1 DEF TerminalInv, AppliedMatches, OfDraft
  <2>2. CASE done \notin applied
    <3>1. PICK m \in mutations : m.id = done.id /\ m.work.kind = done.kind /\ m.work.project = done.project
        BY <2>2 DEF Grows
    <3> QED
        BY <1>1, <3>1 DEF OfDraft
  <2> QED
      BY <2>1, <2>2
<1>5. \A n \in DOMAIN holds' : \A id \in holds'[n] : \E done \in applied' : done.id = id /\ done.kind = "edit"
  <2>1. \A n \in DOMAIN holds : \A id \in holds[n] : \E done \in applied : done.id = id /\ done.kind = "edit"
      BY DEF TerminalInv, AppliedMatches
  <2> QED
      BY <2>1 DEF Grows
<1>6. AppliedMatches'
    BY <1>4, <1>5 DEF AppliedMatches
<1> QED
    BY <1>3, <1>6

\* What the server does on its own.
LEMMA ServerActs ==
    ASSUME TerminalInv, Grows, Descends, UNCHANGED <<interface, worker, events, agreed>>,
           revision' \in DOMAIN holds',
           holds' \in Seq(SUBSET Requests), Len(holds') <= MaxRevision,
           applied' \in SUBSET [id: Requests, kind: Writes, project: Scopes],
           mutations' \in SUBSET [id: Requests, work: Work, agreed: BOOLEAN, end: Ended \cup {"open"}]
    PROVE  TerminalInv'
<1>1. UNCHANGED <<open, scope, draft, dialog, question, pending, reply, requests, worker, events, agreed>>
    BY DEF interface
<1>2. TerminalTyped'
    BY <1>1 DEF TerminalInv, TerminalTyped
<1>3. DOMAIN holds \subseteq DOMAIN holds' /\ \A n \in DOMAIN holds : holds'[n] = holds[n]
    BY DEF Grows
<1>4. ASSUME NEW rev, NEW shown, View(rev, shown)
      PROVE  View(rev, shown)'
    BY <1>3, <1>4 DEF View
<1>5. events' \in Seq(Told')
  <2>1. ASSUME NEW e \in Told
        PROVE  e \in Told'
    <3>1. e.out = "draft" => e.draft # Absent /\ Fresh(e.draft)'
        BY <1>3 DEF Told, Fresh
    <3>2. e.out = "inspected" => View(e.revision, e.shown)'
        BY <1>4 DEF Told
    <3> QED
        BY <1>1, <3>1, <3>2 DEF Told, Live, Covers
  <2>2. Told \subseteq Told' /\ events' \in Seq(Told)
      BY <1>1, <2>1 DEF TerminalInv
  <2> QED
      BY <2>2, SeqMonotonic
<1>6. MutationsMatch' /\ AppliedMatches'
    BY <1>1, MutationsDescend
<1>7. PendingMatches' /\ QuestionMatches'
    BY <1>1 DEF TerminalInv, PendingMatches, QuestionMatches
<1>8. WorkerMatches'
  <2> SUFFICES ASSUME worker # Absent
               PROVE  WorkerMatches'
      BY <1>1 DEF WorkerMatches
  <2>2. WorkMatches(worker.id, worker.work)'
      BY <1>1, <1>3 DEF TerminalInv, WorkerMatches, WorkMatches
  <2>3. worker.at \in {"begun", "read"} =>
            (\A m \in mutations' : m.id # worker.id) /\ (\A done \in applied' : done.id # worker.id)
      BY DEF TerminalInv, WorkerMatches, Grows, Descends
  <2>4. OfDraft(worker.id, worker.work.kind, worker.work.project)'
      BY <1>1 DEF TerminalInv, WorkerMatches, OfDraft
  <2> QED
      BY <1>1, <2>2, <2>3, <2>4 DEF TerminalInv, WorkerMatches
<1>9. DraftMatches'
  <2> SUFFICES ASSUME draft # Absent
               PROVE  DraftMatches'
      BY <1>1 DEF DraftMatches
  <2>1. AppliedIds \subseteq AppliedIds'
      BY DEF AppliedIds, Grows
  <2>2. draft.kind = "edit" =>
            draft.revision \in DOMAIN holds' /\ (draft.sent \cap holds'[draft.revision]) \subseteq draft.seen
      BY <1>3 DEF TerminalInv, DraftMatches
  <2> QED
      BY <1>1, <2>1, <2>2 DEF TerminalInv, DraftMatches, Covers
<1>10. DialogMatches'
  <2> SUFFICES ASSUME dialog # Absent, dialog.kind = "inspection"
               PROVE  View(dialog.revision, dialog.shown)'
      BY <1>1 DEF TerminalInv, DialogMatches, Covers
  <2>1. View(dialog.revision, dialog.shown)
      BY DEF TerminalInv, DialogMatches
  <2> QED
      BY <1>1, <1>3, <2>1 DEF View
<1> QED
    BY <1>2, <1>5, <1>6, <1>7, <1>8, <1>9, <1>10 DEF TerminalInv

LEMMA WritesEnd ==
    ASSUME TerminalInv, NEW m \in mutations, NEW end \in Ended, End(m, end)
    PROVE  /\ Descends
           /\ mutations' \in SUBSET [id: Requests, work: Work, agreed: BOOLEAN, end: Ended \cup {"open"}]
<1>1. m \in [id: Requests, work: Work, agreed: BOOLEAN, end: Ended \cup {"open"}]
    BY DEF TerminalInv, TerminalTyped
<1> DEFINE ended == [m EXCEPT !.end = end]
<1>2. /\ ended \in [id: Requests, work: Work, agreed: BOOLEAN, end: Ended \cup {"open"}]
      /\ ended.id = m.id /\ ended.work = m.work /\ ended.agreed = m.agreed
    BY <1>1
<1>3. mutations' \subseteq (mutations \ {m}) \cup {ended}
    BY DEF End
<1> HIDE DEF ended
<1>4. \A n1, n2 \in mutations : n1.id = n2.id => n1 = n2
    BY DEF TerminalInv, MutationsMatch
<1>5. Descends
  <2>1. ASSUME NEW n \in mutations'
        PROVE  \E n1 \in mutations : n.id = n1.id /\ n.work = n1.work /\ (n.agreed => n1.agreed \/ n.id \in agreed)
      BY <1>2, <1>3
  <2>2. ASSUME NEW n1 \in mutations', NEW n2 \in mutations', n1.id = n2.id
        PROVE  n1 = n2
      BY <1>2, <1>3, <1>4, <2>2
  <2> QED
      BY <2>1, <2>2 DEF Descends
<1> QED
    BY <1>2, <1>3, <1>5 DEF TerminalInv, TerminalTyped

LEMMA ContentsFollow ==
    ASSUME TerminalInv, NEW ids \in SUBSET Requests, Becomes(ids)
    PROVE  /\ revision' \in DOMAIN holds'
           /\ holds' \in Seq(SUBSET Requests) /\ Len(holds') <= MaxRevision
           /\ DOMAIN holds \subseteq DOMAIN holds'
           /\ \A n \in DOMAIN holds : holds'[n] = holds[n]
           /\ \A n \in DOMAIN holds' : \A id \in holds'[n] :
                (\E k \in DOMAIN holds : id \in holds[k]) \/ id \in ids
<1>1. /\ holds \in Seq(SUBSET Requests) /\ Len(holds) <= MaxRevision /\ revision \in DOMAIN holds
      /\ DOMAIN holds = 1 .. Len(holds) /\ Len(holds) \in Nat /\ MaxRevision \in Nat
    BY LenProperties, BoundsAssumption DEF TerminalInv, TerminalTyped
<1>2. CASE revision' \in DOMAIN holds /\ UNCHANGED holds
    BY <1>1, <1>2
<1>3. CASE /\ Len(holds) < MaxRevision
           /\ holds' = Append(holds, holds[revision] \cup ids)
           /\ revision' = Len(holds) + 1
  <2>1. holds[revision] \cup ids \in SUBSET Requests
      BY <1>1, ElementOfSeq
  <2>2. /\ holds' \in Seq(SUBSET Requests)
        /\ Len(holds') = Len(holds) + 1
        /\ \A n \in 1 .. Len(holds) : holds'[n] = holds[n]
        /\ holds'[Len(holds) + 1] = holds[revision] \cup ids
      BY <1>1, <1>3, <2>1, AppendProperties
  <2>3. DOMAIN holds' = 1 .. Len(holds) + 1
      BY <2>2, LenProperties
  <2>4. ASSUME NEW n \in DOMAIN holds', NEW id \in holds'[n]
        PROVE  (\E k \in DOMAIN holds : id \in holds[k]) \/ id \in ids
    <3>1. n \in 1 .. Len(holds) \/ n = Len(holds) + 1
        BY <1>1, <2>3
    <3> QED
        BY <1>1, <2>2, <2>4, <3>1
  <2> QED
      BY <1>1, <1>3, <2>2, <2>3, <2>4
<1> QED
    BY <1>2, <1>3 DEF Becomes

LEMMA ServerMatches ==
    ASSUME TerminalInv, (\E m \in mutations : CarryOut(m) \/ Refuse(m)) \/ OthersWrite
    PROVE  TerminalInv'
<1>1. /\ revision \in DOMAIN holds /\ holds \in Seq(SUBSET Requests) /\ Len(holds) <= MaxRevision
      /\ applied \in SUBSET [id: Requests, kind: Writes, project: Scopes]
    BY DEF TerminalInv, TerminalTyped
<1>2. ASSUME NEW m \in mutations, CarryOut(m)
      PROVE  TerminalInv'
  <2> DEFINE done == [id |-> m.id, kind |-> m.work.kind, project |-> m.work.project]
             ids == IF m.work.kind = "edit" THEN {m.id} ELSE {}
  <2>1. /\ IF m.work.kind = "create" THEN UNCHANGED <<revision, holds>> ELSE Becomes(ids)
        /\ applied' = applied \cup {done}
        /\ End(m, "applied")
        /\ UNCHANGED <<interface, worker, events, agreed>>
      BY <1>2 DEF CarryOut
  <2>2. m \in [id: Requests, work: Work, agreed: BOOLEAN, end: Ended \cup {"open"}] /\ m.work.kind \in Submitted
      BY DEF TerminalInv, TerminalTyped, MutationsMatch
  <2>3. /\ done \in [id: Requests, kind: Writes, project: Scopes]
        /\ done.id = m.id /\ done.kind = m.work.kind /\ done.project = m.work.project
        /\ ids \in SUBSET Requests
        /\ \A id \in ids : done.id = id /\ done.kind = "edit"
      BY <2>2 DEF Work, Submitted, Writes
  <2> HIDE DEF done, ids
  <2>4. /\ revision' \in DOMAIN holds'
        /\ holds' \in Seq(SUBSET Requests) /\ Len(holds') <= MaxRevision
        /\ DOMAIN holds \subseteq DOMAIN holds' /\ \A n \in DOMAIN holds : holds'[n] = holds[n]
        /\ \A n \in DOMAIN holds' : \A id \in holds'[n] :
                (\E k \in DOMAIN holds : id \in holds[k]) \/ id \in ids
      BY <1>1, <2>1, <2>3, ContentsFollow
  <2>5. Grows
      BY <2>1, <2>3, <2>4 DEF Grows
  <2>6. /\ Descends
        /\ mutations' \in SUBSET [id: Requests, work: Work, agreed: BOOLEAN, end: Ended \cup {"open"}]
      BY <2>1, WritesEnd DEF Ended
  <2>7. applied' \in SUBSET [id: Requests, kind: Writes, project: Scopes]
      BY <1>1, <2>1, <2>3
  <2> QED
      BY <2>1, <2>4, <2>5, <2>6, <2>7, ServerActs
<1>3. ASSUME NEW m \in mutations, Refuse(m)
      PROVE  TerminalInv'
  <2>1. End(m, "refused") /\ UNCHANGED <<interface, worker, events, revision, holds, applied, agreed>>
      BY <1>3 DEF Refuse
  <2>2. Grows
      BY <2>1 DEF Grows
  <2>3. /\ Descends
        /\ mutations' \in SUBSET [id: Requests, work: Work, agreed: BOOLEAN, end: Ended \cup {"open"}]
      BY <2>1, WritesEnd DEF Ended
  <2> QED
      BY <1>1, <2>1, <2>2, <2>3, ServerActs
<1>4. CASE OthersWrite
  <2>1. Becomes({}) /\ UNCHANGED <<interface, worker, events, mutations, applied, agreed>>
      BY <1>4 DEF OthersWrite
  <2>2. /\ revision' \in DOMAIN holds'
        /\ holds' \in Seq(SUBSET Requests) /\ Len(holds') <= MaxRevision
        /\ DOMAIN holds \subseteq DOMAIN holds' /\ \A n \in DOMAIN holds : holds'[n] = holds[n]
        /\ \A n \in DOMAIN holds' : \A id \in holds'[n] : \E k \in DOMAIN holds : id \in holds[k]
      BY <2>1, ContentsFollow
  <2>3. Grows
      BY <2>1, <2>2 DEF Grows
  <2>4. Descends
      BY <2>1 DEF Descends, TerminalInv, MutationsMatch
  <2>5. mutations' \in SUBSET [id: Requests, work: Work, agreed: BOOLEAN, end: Ended \cup {"open"}]
      BY <2>1 DEF TerminalInv, TerminalTyped
  <2> QED
      BY <1>1, <2>1, <2>2, <2>3, <2>4, <2>5, ServerActs
<1> QED
    BY <1>2, <1>3, <1>4

\* The answers of the worker, which is the pending request.
Outs == {"loaded", "draft", "blockers", "saved", "exported", "aborted", "edit_file", "inspected", "error", "confirm"}

LEMMA WorkersAreTyped ==
    ASSUME TerminalInv, worker # Absent
    PROVE  /\ worker \in [id: Requests, work: Work, at: Stages]
           /\ worker.id = requests
           /\ pending # Absent /\ pending.id = worker.id
           /\ pending.writes <=> worker.work.kind \in Writes
<1> DEFINE writes == worker.work.kind \in Writes
<1>1. worker \in [id: Requests, work: Work, at: Stages]
    BY DEF TerminalInv, TerminalTyped
<1>2. pending # Absent /\ pending = [id |-> worker.id, writes |-> writes]
    BY DEF TerminalInv, WorkerMatches
<1>3. pending.id = requests
    BY <1>2 DEF TerminalInv, PendingMatches
<1> HIDE DEF writes
<1>4. pending.id = worker.id /\ pending.writes = writes
    BY <1>2
<1> QED
    BY <1>1, <1>2, <1>3, <1>4 DEF writes

LEMMA AnswersSay ==
    ASSUME TerminalInv, worker # Absent, NEW out \in Outs,
           NEW d \in Drafts \cup {Absent}, NEW shown \in SUBSET Requests, NEW e,
           e = [id |-> worker.id, out |-> out, scope |-> worker.work.project, draft |-> d,
                revision |-> revision, shown |-> shown]
    PROVE  /\ e \in Answers
           /\ e.id = worker.id /\ e.out = out /\ e.scope = worker.work.project
           /\ e.draft = d /\ e.revision = revision /\ e.shown = shown
<1>1. /\ worker.id \in Requests /\ worker.work.project \in Scopes /\ revision \in 0..MaxRevision
    BY WorkersAreTyped, TerminalNumbers DEF Work
<1>2. e \in Answers
    BY <1>1 DEF Answers, Outs
<1>3. /\ e.id = worker.id /\ e.out = out /\ e.scope = worker.work.project
      /\ e.draft = d /\ e.revision = revision /\ e.shown = shown
    OBVIOUS
<1> QED
    BY <1>2, <1>3

\* An answer without a draft, that shows nothing.
LEMMA PlainAnswersSay ==
    ASSUME TerminalInv, worker # Absent, NEW out \in Outs
    PROVE  /\ Answered(worker, out) \in Answers
           /\ Answered(worker, out).id = worker.id /\ Answered(worker, out).out = out
<1> DEFINE e == Answered(worker, out)
<1>1. e = [id |-> worker.id, out |-> out, scope |-> worker.work.project, draft |-> Absent,
           revision |-> revision, shown |-> {}]
    BY DEF Answered
<1> HIDE DEF e
<1>2. Absent \in Drafts \cup {Absent} /\ {} \in SUBSET Requests
    OBVIOUS
<1>3. e \in Answers /\ e.id = worker.id /\ e.out = out
    BY <1>1, <1>2, AnswersSay
<1> QED
    BY <1>3 DEF e

\* What may be said as the result of the work.
Answering(e) ==
    /\ e \in Answers /\ e.id = worker.id
    /\ e.out # "confirm"
    /\ e.out \in {"saved", "edit_file"} => worker.work.kind \in Writes \cup {"locate"}
    /\ e.out \in {"saved", "exported"} => worker.work.kind \in Writes
    /\ e.out \in {"inspected", "blockers"} => worker.work.kind \in {"inspect", "blockers"}
    /\ e.out = "draft" => worker.work.kind \in {"template", "target"} /\ e.draft # Absent /\ Fresh(e.draft)
    /\ e.out = "inspected" =>
        /\ View(e.revision, e.shown)
        /\ (draft # Absent /\ Covers(e.scope, draft)) => draft.owed \subseteq e.shown

LEMMA WorkEnds ==
    ASSUME TerminalInv, worker # Absent, worker' = Absent, NEW e, Answering(e), events' = Append(events, e),
           mutations' \subseteq mutations, UNCHANGED <<interface, revision, holds, applied, agreed>>
    PROVE  TerminalInv'
<1>1. UNCHANGED <<open, scope, draft, dialog, question, pending, reply, requests>>
    BY DEF interface
<1>2. RequestStands
    BY <1>1, TerminalNumbers DEF RequestStands, DraftStands
<1>3. e \in Told'
  <2>1. /\ worker.id = requests /\ requests \in Nat /\ pending.id = worker.id
        /\ pending.writes <=> worker.work.kind \in Writes
      BY WorkersAreTyped, TerminalNumbers
  <2>2. /\ worker.work.kind \in Writes \cup {"locate"} => requests < MaxRequests
        /\ (worker.work.kind \in {"inspect", "blockers"} /\ open) => draft # Absent
        /\ (worker.work.kind \in {"template", "target"} /\ draft # Absent) => ~draft.dirty /\ draft.sent = {}
      BY DEF TerminalInv, WorkerMatches
  <2>3. /\ e.out = "draft" => e.draft # Absent /\ Fresh(e.draft)'
        /\ e.out = "inspected" => View(e.revision, e.shown)'
      BY <1>1 DEF Answering, Fresh, View
  <2> QED
      BY <1>1, <2>1, <2>2, <2>3 DEF Answering, Told, Live, Covers
<1>4. events' \in Seq(Told')
  <2>1. Told \subseteq Told' /\ events \in Seq(Told)
      BY <1>2, ToldStays DEF TerminalInv
  <2>2. events \in Seq(Told')
      BY <2>1, SeqMonotonic
  <2> HIDE DEF Told
  <2> QED
      BY <1>3, <2>2, AppendProperties
<1>5. MutationsMatch' /\ AppliedMatches'
  <2>1. Grows
      BY TerminalNumbers DEF Grows
  <2>2. Descends
      BY DEF Descends, TerminalInv, MutationsMatch
  <2> QED
      BY <1>1, <2>1, <2>2, MutationsDescend
<1>6. TerminalTyped'
    BY <1>1 DEF TerminalInv, TerminalTyped
<1>7. WorkerMatches'
    BY DEF WorkerMatches
<1> QED
    BY <1>1, <1>4, <1>5, <1>6, <1>7 DEF TerminalInv, PendingMatches, QuestionMatches, DraftMatches, DialogMatches,
       View, Covers, AppliedIds

LEMMA WorkGoesOn ==
    ASSUME TerminalInv, worker # Absent, UNCHANGED <<interface, revision, holds, applied, agreed>>,
           worker' \in [id: Requests, work: Work, at: Stages], worker'.id = worker.id,
           \/ events' = events
           \/ events' = Append(events, Answered(worker, "confirm")),
           mutations' \in SUBSET [id: Requests, work: Work, agreed: BOOLEAN, end: Ended \cup {"open"}],
           MutationsMatch', WorkerMatches'
    PROVE  TerminalInv'
<1>1. UNCHANGED <<open, scope, draft, dialog, question, pending, reply, requests>>
    BY DEF interface
<1>2. RequestStands
    BY <1>1, TerminalNumbers DEF RequestStands, DraftStands
<1>3. Told \subseteq Told' /\ events \in Seq(Told)
    BY <1>2, ToldStays DEF TerminalInv
<1>4. events \in Seq(Told')
    BY <1>3, SeqMonotonic
<1> DEFINE e == Answered(worker, "confirm")
<1>5. e \in Told'
  <2>1. /\ e \in Answers /\ e.id = worker.id /\ e.out = "confirm"
      BY PlainAnswersSay DEF Outs
  <2>2. e.id <= requests' /\ requests' \in Nat
      BY <1>1, <2>1, WorkersAreTyped, TerminalNumbers
  <2> HIDE DEF e
  <2> QED
      BY <2>1, <2>2 DEF Told
<1>6. events' \in Seq(Told')
  <2> HIDE DEF e, Told
  <2>1. events' = events \/ events' = Append(events, e)
      BY DEF e
  <2> QED
      BY <1>4, <1>5, <2>1, AppendProperties
<1>7. TerminalTyped'
    BY <1>1 DEF TerminalInv, TerminalTyped
<1> QED
    BY <1>1, <1>6, <1>7 DEF TerminalInv, PendingMatches, QuestionMatches, AppliedMatches, OfDraft,
       DraftMatches, DialogMatches, View, Covers, AppliedIds

\* Work at a later stage.
LEMMA StagesPass ==
    ASSUME TerminalInv, worker # Absent, UNCHANGED <<interface, revision, holds, applied, agreed>>,
           worker'.id = worker.id, worker'.work = worker.work,
           worker'.at \in {"waiting", "asking"}, worker.work.kind \in Submitted,
           WorkMatches(worker.id, worker.work)'
    PROVE  WorkerMatches'
<1>1. UNCHANGED <<open, scope, draft, dialog, question, pending, reply, requests>>
    BY DEF interface
<1>2. OfDraft(worker.id, worker.work.kind, worker.work.project)'
    BY <1>1 DEF TerminalInv, WorkerMatches, OfDraft
<1> QED
    BY <1>1, <1>2 DEF TerminalInv, WorkerMatches

LEMMA TargetIsRead ==
    ASSUME TerminalInv, ReadTarget
    PROVE  TerminalInv'
<1>1. /\ worker # Absent /\ worker.at = "begun" /\ worker.work.kind = "complete"
      /\ worker' = [worker EXCEPT !.at = "read", !.work.revision = revision]
      /\ UNCHANGED <<interface, events, mutations, revision, holds, applied, agreed>>
    BY DEF ReadTarget, server
<1>2. worker \in [id: Requests, work: Work, at: Stages] /\ revision \in 0..MaxRevision
    BY <1>1, WorkersAreTyped, TerminalNumbers
<1> DEFINE work == [worker.work EXCEPT !.revision = revision]
<1>3. /\ work \in Work /\ work.kind = worker.work.kind /\ work.project = worker.work.project
      /\ work.before = worker.work.before /\ work.kind # "edit"
  <2>1. worker.work \in Work
      BY <1>2
  <2> QED
      BY <1>1, <1>2, <2>1 DEF Work
<1>4. /\ worker'.id = worker.id /\ worker'.at = "read" /\ worker'.work = work
      /\ worker' \in [id: Requests, work: Work, at: Stages]
  <2>1. worker' = [id |-> worker.id, work |-> work, at |-> "read"]
      BY <1>1, <1>2
  <2> HIDE DEF work
  <2> QED
      BY <1>2, <1>3, <2>1 DEF Stages
<1> HIDE DEF work
<1>5. UNCHANGED <<open, scope, draft, dialog, question, pending, reply, requests>>
    BY <1>1 DEF interface
<1>7. WorkMatches(worker.id, worker.work)'
    BY <1>1, <1>3, <1>4 DEF TerminalInv, WorkerMatches, WorkMatches
<1>8. OfDraft(worker.id, worker.work.kind, worker.work.project)'
    BY <1>1, <1>3, <1>4, <1>5 DEF TerminalInv, WorkerMatches, OfDraft
<1>9. WorkerMatches'
    BY <1>1, <1>3, <1>4, <1>5, <1>7, <1>8 DEF TerminalInv, WorkerMatches
<1>10. MutationsMatch'
    BY <1>1, <1>5 DEF TerminalInv, MutationsMatch, WorkMatches, OfDraft
<1>11. mutations' \in SUBSET [id: Requests, work: Work, agreed: BOOLEAN, end: Ended \cup {"open"}]
    BY <1>1 DEF TerminalInv, TerminalTyped
<1> QED
    BY <1>1, <1>4, <1>9, <1>10, <1>11, WorkGoesOn

LEMMA WriteIsSubmitted ==
    ASSUME TerminalInv, Submit
    PROVE  TerminalInv'
<1>1. /\ worker # Absent
      /\ \/ worker.at = "begun" /\ worker.work.kind \in {"create", "edit", "shelve", "ask"}
         \/ worker.at = "read"
      /\ mutations' = mutations \cup {Mutation(worker.id, worker.work)}
      /\ worker' = [worker EXCEPT !.at = "waiting"]
      /\ UNCHANGED <<interface, events, revision, holds, applied, agreed>>
    BY DEF Submit
<1>2. worker \in [id: Requests, work: Work, at: Stages]
    BY <1>1, WorkersAreTyped
<1>3. worker.at \in {"begun", "read"} /\ worker.work.kind \in Submitted
    BY <1>1 DEF TerminalInv, WorkerMatches, Submitted
<1>4. /\ worker'.id = worker.id /\ worker'.at = "waiting" /\ worker'.work = worker.work
      /\ worker' \in [id: Requests, work: Work, at: Stages]
    BY <1>1, <1>2 DEF Stages
<1> DEFINE new == Mutation(worker.id, worker.work)
<1>5. /\ new \in [id: Requests, work: Work, agreed: BOOLEAN, end: Ended \cup {"open"}]
      /\ new.id = worker.id /\ new.work = worker.work /\ ~new.agreed
    BY <1>2 DEF Mutation
<1>6. mutations' = mutations \cup {new}
    BY <1>1
<1> HIDE DEF new
<1>7. UNCHANGED <<open, scope, draft, dialog, question, pending, reply, requests>>
    BY <1>1 DEF interface
<1>8. /\ worker.id = requests /\ requests \in Nat
      /\ WorkMatches(worker.id, worker.work)
      /\ OfDraft(worker.id, worker.work.kind, worker.work.project)
      /\ \A m \in mutations : m.id # worker.id
    BY <1>1, <1>3, WorkersAreTyped, TerminalNumbers DEF TerminalInv, WorkerMatches
\* No earlier submission knows of this one.
<1>9. ASSUME NEW id \in Nat, id <= requests, NEW work, WorkMatches(id, work)
      PROVE  WorkMatches(id, work)'
  <2>1. worker.id \notin work.before
      BY <1>8, <1>9 DEF WorkMatches
  <2> QED
      BY <1>1, <1>5, <1>6, <1>9, <2>1 DEF WorkMatches
<1>10. ASSUME NEW m \in mutations'
       PROVE  /\ m.id <= requests'
              /\ m.work.kind \in Submitted
              /\ m.agreed => m.id \in agreed'
              /\ WorkMatches(m.id, m.work)'
              /\ OfDraft(m.id, m.work.kind, m.work.project)'
  <2>1. CASE m = new
    <3>1. WorkMatches(m.id, m.work)'
        BY <1>5, <1>8, <1>9, <2>1
    <3>2. OfDraft(m.id, m.work.kind, m.work.project)'
        BY <1>5, <1>7, <1>8, <2>1 DEF OfDraft
    <3> QED
        BY <1>3, <1>5, <1>7, <1>8, <2>1, <3>1, <3>2
  <2>2. CASE m \in mutations
    <3>1. /\ m.id \in Nat /\ m.id <= requests
          /\ m.work.kind \in Submitted
          /\ m.agreed => m.id \in agreed
          /\ WorkMatches(m.id, m.work)
          /\ OfDraft(m.id, m.work.kind, m.work.project)
        BY <2>2, TerminalNumbers DEF TerminalInv, MutationsMatch, TerminalTyped
    <3>2. WorkMatches(m.id, m.work)'
        BY <1>9, <3>1
    <3>3. OfDraft(m.id, m.work.kind, m.work.project)'
        BY <1>7, <3>1 DEF OfDraft
    <3> QED
        BY <1>1, <1>7, <3>1, <3>2, <3>3
  <2> QED
      BY <1>6, <2>1, <2>2
<1>11. MutationsMatch'
  <2>1. \A n1, n2 \in mutations' : n1.id = n2.id => n1 = n2
    <3>1. \A n1, n2 \in mutations : n1.id = n2.id => n1 = n2
        BY DEF TerminalInv, MutationsMatch
    <3> QED
        BY <1>5, <1>6, <1>8, <3>1
  <2> QED
      BY <1>10, <2>1 DEF MutationsMatch
<1>12. WorkerMatches'
  <2>1. WorkMatches(worker.id, worker.work)'
    <3>1. WorkMatches(worker.id, worker.work) /\ worker.id \in Nat /\ worker.id <= requests
        BY <1>8
    <3>2. \A id \in Nat : \A work : id <= requests /\ WorkMatches(id, work) => WorkMatches(id, work)'
        BY <1>9
    <3> QED
        BY <1>4, <3>1, <3>2 DEF WorkMatches
  <2> QED
      BY <1>1, <1>3, <1>4, <2>1, StagesPass
<1>13. mutations' \in SUBSET [id: Requests, work: Work, agreed: BOOLEAN, end: Ended \cup {"open"}]
    BY <1>5, <1>6 DEF TerminalInv, TerminalTyped
<1> QED
    BY <1>1, <1>4, <1>11, <1>12, <1>13, WorkGoesOn

LEMMA InterfaceIsAsked ==
    ASSUME TerminalInv, AskInterface
    PROVE  TerminalInv'
<1>1. /\ worker # Absent /\ worker.at = "waiting"
      /\ events' = Append(events, Answered(worker, "confirm"))
      /\ worker' = [worker EXCEPT !.at = "asking"]
      /\ UNCHANGED <<interface, mutations, revision, holds, applied, agreed>>
    BY DEF AskInterface, server
<1>2. worker \in [id: Requests, work: Work, at: Stages]
    BY <1>1, WorkersAreTyped
<1>3. /\ worker'.id = worker.id /\ worker'.at = "asking" /\ worker'.work = worker.work
      /\ worker' \in [id: Requests, work: Work, at: Stages]
    BY <1>1, <1>2 DEF Stages
<1>4. worker.work.kind \in Submitted /\ WorkMatches(worker.id, worker.work)
    BY <1>1 DEF TerminalInv, WorkerMatches
<1>5. WorkerMatches'
  <2>1. WorkMatches(worker.id, worker.work)'
      BY <1>1, <1>3, <1>4 DEF WorkMatches
  <2> QED
      BY <1>1, <1>3, <1>4, <2>1, StagesPass
<1>6. MutationsMatch'
    BY <1>1 DEF TerminalInv, MutationsMatch, WorkMatches, OfDraft, interface
<1>7. mutations' \in SUBSET [id: Requests, work: Work, agreed: BOOLEAN, end: Ended \cup {"open"}]
    BY <1>1 DEF TerminalInv, TerminalTyped
<1> QED
    BY <1>1, <1>3, <1>5, <1>6, <1>7, WorkGoesOn

LEMMA DecisionIsSent ==
    ASSUME TerminalInv, SendDecision
    PROVE  TerminalInv'
<1> DEFINE Decided(m) == IF m.id # worker.id THEN m
                      ELSE IF worker.at = "yes" THEN [m EXCEPT !.agreed = TRUE]
                      ELSE [m EXCEPT !.end = "aborted"]
<1>1. /\ worker # Absent /\ worker.at \in {"yes", "no"}
      /\ mutations' = {Decided(m) : m \in mutations}
      /\ worker' = [worker EXCEPT !.at = "waiting"]
      /\ UNCHANGED <<interface, events, revision, holds, applied, agreed>>
    BY DEF SendDecision
<1>2. worker \in [id: Requests, work: Work, at: Stages]
    BY <1>1, WorkersAreTyped
<1>3. /\ worker'.id = worker.id /\ worker'.at = "waiting" /\ worker'.work = worker.work
      /\ worker' \in [id: Requests, work: Work, at: Stages]
    BY <1>1, <1>2 DEF Stages
<1>4. /\ worker.work.kind \in Submitted /\ WorkMatches(worker.id, worker.work)
      /\ worker.at = "yes" => worker.id \in agreed
    BY <1>1 DEF TerminalInv, WorkerMatches
<1>5. ASSUME NEW m \in mutations
      PROVE  /\ Decided(m) \in [id: Requests, work: Work, agreed: BOOLEAN, end: Ended \cup {"open"}]
             /\ Decided(m).id = m.id /\ Decided(m).work = m.work
             /\ Decided(m).agreed => m.agreed \/ m.id \in agreed
  <2>1. m \in [id: Requests, work: Work, agreed: BOOLEAN, end: Ended \cup {"open"}]
      BY DEF TerminalInv, TerminalTyped
  <2>2. CASE m.id # worker.id
      BY <2>1, <2>2
  <2>3. CASE m.id = worker.id /\ worker.at = "yes"
      BY <2>1, <2>3, <1>4
  <2>4. CASE m.id = worker.id /\ worker.at # "yes"
      BY <2>1, <2>4 DEF Ended
  <2> QED
      BY <2>2, <2>3, <2>4
<1> HIDE DEF Decided
<1>6. Descends
  <2>1. \A n \in mutations' : \E m \in mutations :
            n.id = m.id /\ n.work = m.work /\ (n.agreed => m.agreed \/ n.id \in agreed)
      BY <1>1, <1>5
  <2>2. \A n1, n2 \in mutations' : n1.id = n2.id => n1 = n2
      BY <1>1, <1>5 DEF TerminalInv, MutationsMatch
  <2> QED
      BY <2>1, <2>2 DEF Descends
<1>7. Grows
    BY <1>1, TerminalNumbers DEF Grows
<1>8. MutationsMatch'
    BY <1>1, <1>6, <1>7, MutationsDescend DEF interface
<1>9. WorkerMatches'
  <2>1. WorkMatches(worker.id, worker.work)'
    <3>1. worker.work \in Work
        BY <1>2
    <3>2. \A id : \A work \in Work : WorkMatches(id, work) => WorkMatches(id, work)'
        BY <1>6, <1>7, WorksStay
    <3> QED
        BY <1>3, <1>4, <3>1, <3>2 DEF WorkMatches
  <2> QED
      BY <1>1, <1>3, <1>4, <2>1, StagesPass
<1>10. mutations' \in SUBSET [id: Requests, work: Work, agreed: BOOLEAN, end: Ended \cup {"open"}]
    BY <1>1, <1>5
<1> QED
    BY <1>1, <1>3, <1>8, <1>9, <1>10, WorkGoesOn

\* What an inspection shows.
LEMMA InspectionsShow ==
    ASSUME TerminalInv, NEW within \in Scopes
    PROVE  /\ Shown(within) \in SUBSET Requests
           /\ View(revision, Shown(within))
           /\ (draft # Absent /\ Covers(within, draft)) => draft.owed \subseteq Shown(within)
<1>1. Shown(within) \in SUBSET Requests
    BY DEF Shown, TerminalInv, TerminalTyped
<1>2. View(revision, Shown(within))
  <2>1. revision \in DOMAIN holds
      BY DEF TerminalInv, TerminalTyped
  <2>2. ASSUME NEW id \in holds[revision]
        PROVE  id \in Shown(within)
    <3>1. PICK done \in applied : done.id = id /\ done.kind = "edit"
        BY <2>1, <2>2 DEF TerminalInv, AppliedMatches
    <3> QED
        BY <3>1 DEF Shown
  <2> QED
      BY <2>1, <2>2 DEF View
<1>3. ASSUME draft # Absent, Covers(within, draft), NEW id \in draft.owed
      PROVE  id \in Shown(within)
  <2>1. id \in draft.sent /\ id \in AppliedIds
      BY <1>3 DEF TerminalInv, DraftMatches
  <2>2. PICK done \in applied : done.id = id
      BY <2>1 DEF AppliedIds
  <2>3. done.kind = draft.kind /\ done.project = draft.project
      BY <1>3, <2>1, <2>2 DEF TerminalInv, AppliedMatches, OfDraft
  <2> QED
      BY <1>3, <2>2, <2>3 DEF Covers, Shown
<1> QED
    BY <1>1, <1>2, <1>3

LEMMA ReadAnswers ==
    ASSUME TerminalInv, Read
    PROVE  TerminalInv'
<1> DEFINE kind == worker.work.kind
           out == CASE kind = "load" -> "loaded"
                    [] kind = "blockers" -> "blockers"
                    [] kind = "locate" -> "edit_file"
                    [] kind = "inspect" -> "inspected"
                    [] kind \in {"template", "target"} -> "draft"
           d == CASE kind = "template" -> NewDraft("create", worker.work.project, 0)
                  [] kind = "target" -> NewDraft("edit", Everything, revision)
                  [] OTHER -> Absent
           shown == IF kind = "inspect" THEN Shown(worker.work.project) ELSE {}
           e == [Answered(worker, out) EXCEPT !.draft = d, !.shown = shown]
<1>1. /\ worker # Absent /\ kind \in Reads
      /\ events' = Append(events, e) /\ worker' = Absent
      /\ UNCHANGED <<interface, mutations, revision, holds, applied, agreed>>
    BY DEF Read, Finish, server
<1>2. worker.work \in Work /\ worker.work.project \in Scopes /\ Everything \in Scopes
    BY <1>1, WorkersAreTyped DEF Work, Scopes
<1>3. revision \in 0..MaxRevision /\ 0 \in 0..MaxRevision /\ revision \in DOMAIN holds
    BY BoundsAssumption, TerminalNumbers DEF TerminalInv, TerminalTyped
<1>4. ASSUME NEW k \in {"create", "edit"}, NEW project \in Scopes, NEW rev \in {0, revision},
             k = "edit" => rev = revision
      PROVE  /\ NewDraft(k, project, rev) \in Drafts
             /\ Fresh(NewDraft(k, project, rev))
  <2>1. rev \in 0..MaxRevision
      BY <1>3
  <2>2. NewDraft(k, project, rev) \in Drafts
      BY <1>2, <2>1 DEF NewDraft, Drafts, DraftKinds
  <2>3. Fresh(NewDraft(k, project, rev))
      BY <1>3, <1>4 DEF NewDraft, Fresh
  <2> QED
      BY <2>2, <2>3
<1>5. /\ out \in Outs /\ out # "confirm" /\ out \notin {"saved", "exported"}
      /\ out = "edit_file" => kind = "locate"
      /\ out \in {"inspected", "blockers"} => kind \in {"inspect", "blockers"}
      /\ out = "inspected" => kind = "inspect"
      /\ out = "draft" => kind \in {"template", "target"}
    BY <1>1 DEF Reads, Outs
<1>6. /\ d \in Drafts \cup {Absent}
      /\ kind \in {"template", "target"} => d # Absent /\ Fresh(d)
  <2>1. CASE kind = "template"
    <3>1. d = NewDraft("create", worker.work.project, 0)
        BY <2>1
    <3> QED
        BY <1>2, <1>4, <3>1, AbsentAssumption
  <2>2. CASE kind = "target"
    <3>1. d = NewDraft("edit", Everything, revision)
        BY <2>2
    <3> QED
        BY <1>2, <1>4, <3>1, AbsentAssumption
  <2>3. CASE kind \notin {"template", "target"}
      BY <2>3
  <2> QED
      BY <2>1, <2>2, <2>3
<1>7. shown \in SUBSET Requests
    BY <1>2, InspectionsShow
<1>8. /\ kind = "inspect" => View(revision, shown)
      /\ (kind = "inspect" /\ draft # Absent /\ Covers(worker.work.project, draft)) => draft.owed \subseteq shown
    BY <1>2, InspectionsShow
<1>9. e = [id |-> worker.id, out |-> out, scope |-> worker.work.project, draft |-> d,
           revision |-> revision, shown |-> shown]
  <2> DEFINE a == Answered(worker, out)
  <2>1. e = [a EXCEPT !.draft = d, !.shown = shown]
      OBVIOUS
  <2>2. a = [id |-> worker.id, out |-> out, scope |-> worker.work.project, draft |-> Absent,
             revision |-> revision, shown |-> {}]
      BY DEF Answered
  <2> HIDE DEF a, out, d, shown, e
  <2> QED
      BY <2>1, <2>2
<1> HIDE DEF out, d, shown, e
<1>10. /\ e \in Answers
       /\ e.id = worker.id /\ e.out = out /\ e.scope = worker.work.project
       /\ e.draft = d /\ e.revision = revision /\ e.shown = shown
  <2>1. worker # Absent /\ out \in Outs /\ d \in Drafts \cup {Absent} /\ shown \in SUBSET Requests
      BY <1>1, <1>5, <1>6, <1>7
  <2> HIDE DEF kind
  <2> QED
      BY <2>1, <1>9, AnswersSay
<1>11. Answering(e)
    BY <1>5, <1>6, <1>8, <1>10 DEF Answering
<1> QED
    BY <1>1, <1>11, WorkEnds

LEMMA OtherAnswers ==
    ASSUME TerminalInv, Export \/ ReceiveAnswer \/ Fail
    PROVE  TerminalInv'
<1>1. CASE Export
  <2> DEFINE e == Answered(worker, "exported")
  <2>1. /\ worker # Absent /\ worker.work.kind = "export"
        /\ events' = Append(events, e) /\ worker' = Absent
        /\ UNCHANGED <<interface, mutations, revision, holds, applied, agreed>>
      BY <1>1 DEF Export, Finish, server
  <2>2. e \in Answers /\ e.id = worker.id /\ e.out = "exported"
      BY <2>1, PlainAnswersSay DEF Outs
  <2> HIDE DEF e
  <2>3. Answering(e)
      BY <2>1, <2>2 DEF Answering, Writes
  <2> QED
      BY <2>1, <2>3, WorkEnds
<1>2. CASE ReceiveAnswer
  <2>1. /\ worker # Absent /\ worker.at = "waiting"
        /\ UNCHANGED <<interface, revision, holds, applied, agreed>>
      BY <1>2 DEF ReceiveAnswer
  <2>2. PICK m \in mutations :
            /\ m.end \in Ended
            /\ Finish(Answered(worker, CASE m.end = "applied" -> "saved"
                                         [] m.end = "refused" -> "error"
                                         [] m.end = "aborted" -> "aborted"))
            /\ mutations' = mutations \ {m}
      BY <1>2 DEF ReceiveAnswer
  <2> DEFINE out == CASE m.end = "applied" -> "saved"
                      [] m.end = "refused" -> "error"
                      [] m.end = "aborted" -> "aborted"
             e == Answered(worker, out)
  <2>3. out \in {"saved", "error", "aborted"}
      BY <2>2 DEF Ended
  <2>4. events' = Append(events, e) /\ worker' = Absent
      BY <2>2 DEF Finish
  <2> HIDE DEF out
  <2>5. e \in Answers /\ e.id = worker.id /\ e.out = out
      BY <2>1, <2>3, PlainAnswersSay DEF Outs
  <2>6. worker.work.kind \in Writes
      BY <2>1 DEF TerminalInv, WorkerMatches, Submitted, Writes
  <2> HIDE DEF e
  <2>7. Answering(e)
      BY <2>3, <2>5, <2>6 DEF Answering
  <2> QED
      BY <2>1, <2>2, <2>4, <2>7, WorkEnds
<1>3. CASE Fail
  <2> DEFINE e == Answered(worker, "error")
  <2>1. /\ worker # Absent
        /\ events' = Append(events, e) /\ worker' = Absent
        /\ mutations' \subseteq mutations
        /\ UNCHANGED <<interface, revision, holds, applied, agreed>>
      BY <1>3 DEF Fail, Finish
  <2>2. e \in Answers /\ e.id = worker.id /\ e.out = "error"
      BY <2>1, PlainAnswersSay DEF Outs
  <2> HIDE DEF e
  <2>3. Answering(e)
      BY <2>2 DEF Answering
  <2> QED
      BY <2>1, <2>3, WorkEnds
<1> QED
    BY <1>1, <1>2, <1>3

LEMMA TerminalStep ==
    ASSUME TerminalInv, TerminalNext
    PROVE  TerminalInv'
<1>1. CASE WorkerStep
    BY <1>1, ReadAnswers, TargetIsRead, WriteIsSubmitted, OtherAnswers, InterfaceIsAsked, DecisionIsSent DEF WorkerStep
<1>2. CASE TakeEvent
    BY <1>2, EventIsDropped, QuestionIsTaken, ResultIsTaken DEF TakeEvent
<1>3. CASE Key
    BY <1>3, KeysMatch
<1>4. CASE (\E m \in mutations : CarryOut(m) \/ Refuse(m)) \/ OthersWrite
    BY <1>4, ServerMatches
<1> QED
    BY <1>1, <1>2, <1>3, <1>4 DEF TerminalNext

LEMMA TerminalIdles ==
    ASSUME TerminalInv, UNCHANGED terminalVars
    PROVE  TerminalInv'
<1>1. UNCHANGED <<open, scope, draft, dialog, question, pending, reply, requests, worker, events,
                  mutations, revision, holds, applied, agreed>>
    BY DEF terminalVars, interface, server
<1>2. RequestStands /\ DraftKeepsWord
    BY <1>1, TerminalNumbers DEF RequestStands, DraftStands, DraftKeepsWord
<1>3. events' \in Seq(Told')
    BY <1>1, <1>2, EventsStay
<1>4. MutationsMatch' /\ AppliedMatches'
    BY <1>1, <1>2, TerminalNumbers, ServerStays
<1>5. WorkerMatches'
    BY <1>1 DEF TerminalInv, WorkerMatches, WorkMatches, OfDraft
<1> QED
    BY <1>1, <1>3, <1>4, <1>5 DEF TerminalInv, TerminalTyped, PendingMatches, QuestionMatches, DraftMatches,
       DialogMatches, View, Covers, AppliedIds

LEMMA TerminalHolds == TerminalInit /\ [][TerminalNext]_terminalVars => []TerminalInv
<1>1. TerminalInit => TerminalInv
    BY TerminalInitially
<1>2. TerminalInv /\ [TerminalNext]_terminalVars => TerminalInv'
    BY TerminalStep, TerminalIdles
<1> QED
    BY <1>1, <1>2, PTL

\* What the keys do to a draft.
LEMMA KeysAndTheDraft ==
    ASSUME TerminalInv, Key, draft # Absent
    PROVE  \/ draft' = draft
           \/ draft' = Absent /\ question # Absent /\ question.local \in {"discard", "quit"} /\ question.yes
           \/ draft' = Absent /\ ~draft.dirty
           \/ draft' = Inspected(draft, dialog) /\ dialog # Absent /\ dialog.kind = "inspection"
           \/ draft' = [draft EXCEPT !.dirty = TRUE]
           \/ /\ Save /\ draft.sent \cup {requests'} \in SUBSET Requests
              /\ draft' = [draft EXCEPT !.sent = draft.sent \cup {requests'}]
<1>1. CASE Toggle \/ Quit \/ Reload \/ CancelRead \/ BrowseProjects \/ OpenActions \/ Act \/ CloseDialog
           \/ ChooseAction \/ Inspect \/ OpenBlockers
    BY <1>1 DEF Toggle, Quit, Reload, CancelRead, BrowseProjects, OpenActions, Act, CloseDialog,
       ChooseAction, Inspect, OpenBlockers
<1>2. CASE Create \/ ExportReferences
    BY <1>2 DEF Create, ExportReferences, InBrowser
<1>3. ASSUME NEW key \in {"enter", "esc"}, CloseConfirmation(key)
      PROVE  \/ draft' = draft
             \/ draft' = Absent /\ question # Absent /\ question.local \in {"discard", "quit"} /\ question.yes
  <2>1. question # Absent /\ question \in Questions
      BY <1>3 DEF CloseConfirmation, InConfirmation, TerminalInv, TerminalTyped
  <2>2. CASE question.local = "no"
      BY <1>3, <2>2 DEF CloseConfirmation
  <2>3. CASE question.local # "no"
    <3>1. draft' = IF Confirmed(key, question) THEN Absent ELSE draft
        BY <1>3, <2>3 DEF CloseConfirmation
    <3>2. question.local \in {"discard", "quit"}
        BY <2>1, <2>3 DEF Questions
    <3> QED
        BY <2>1, <3>1, <3>2 DEF Confirmed
  <2> QED
      BY <2>2, <2>3
<1>4. CASE ChooseProject
  <2>1. CASE dialog.browse
      BY <1>4, <2>1 DEF ChooseProject
  <2>2. CASE ~dialog.browse
      BY <1>4, <2>2 DEF ChooseProject, InDialog, TerminalInv, DialogMatches
  <2> QED
      BY <2>1, <2>2
<1>5. CASE AcceptInspection \/ Type
    BY <1>5 DEF AcceptInspection, InDialog, Type
<1>6. CASE LeaveDraft
    BY <1>6 DEF LeaveDraft
<1>7. CASE Save
  <2>1. requests' \in Requests
      BY <1>7, TerminalNumbers, BoundsAssumption DEF Save, Start, StartWork, Room, Requests
  <2>2. draft.sent \in SUBSET Requests
      BY DEF TerminalInv, TerminalTyped, Drafts
  <2> QED
      BY <1>7, <2>1, <2>2 DEF Save
<1> QED
    BY <1>1, <1>2, <1>3, <1>4, <1>5, <1>6, <1>7 DEF Key

\* What an event does to it.
LEMMA EventsAndTheDraft ==
    ASSUME TerminalInv, TakeEvent, draft # Absent
    PROVE  \/ draft' = draft
           \/ draft' = AfterError(draft)
           \/ draft'.sent = draft.sent /\ ~draft.dirty
           \/ /\ events # <<>> /\ Head(events).out \in {"saved", "exported"}
              /\ draft.dirty => Head(events).id \in draft.sent
              /\ draft' = Absent
<1>1. CASE DropEvent \/ TakeQuestion
    BY <1>1 DEF DropEvent, TakeQuestion, interface
<1>2. CASE TakeResult
  <2> DEFINE e == Head(events)
  <2>1. /\ events # <<>> /\ Live(e) /\ draft' = DraftAfter(e)
        /\ pending # Absent /\ pending.id = e.id
      BY <1>2 DEF TakeResult, IsForPending, Live
  <2>2. e \in Told
      BY <2>1, HeadsAreTold
  <2> HIDE DEF e
  <2>3. CASE e.out = "error"
      BY <2>1, <2>3 DEF DraftAfter
  <2>4. CASE e.out = "draft"
    <3>1. draft' = e.draft
        BY <2>1, <2>4 DEF DraftAfter
    <3> QED
        BY <2>1, <2>2, <2>4, <3>1 DEF Told, Fresh
  <2>5. CASE e.out \in {"saved", "exported"}
    <3>1. draft' = Absent
        BY <2>1, <2>5 DEF DraftAfter
    <3>2. pending.writes
        BY <2>1, <2>2, <2>5 DEF Told
    <3>3. draft.dirty => e.id \in draft.sent
        BY <2>1, <3>2 DEF TerminalInv, PendingMatches
    <3> QED
        BY <2>1, <2>5, <3>1, <3>3 DEF e
  <2>6. CASE e.out \notin {"error", "draft", "saved", "exported"}
      BY <2>1, <2>6 DEF DraftAfter
  <2> QED
      BY <2>3, <2>4, <2>5, <2>6
<1> QED
    BY <1>1, <1>2 DEF TakeEvent

\* Nothing else touches it.
LEMMA OthersLeaveTheDraft ==
    ASSUME WorkerStep \/ (\E m \in mutations : CarryOut(m) \/ Refuse(m)) \/ OthersWrite \/ UNCHANGED terminalVars
    PROVE  UNCHANGED interface
BY DEF WorkerStep, Read, ReadTarget, Submit, Export, ReceiveAnswer, AskInterface, SendDecision, Fail,
   CarryOut, Refuse, OthersWrite, terminalVars

\* A draft after an error, or after its inspection.
LEMMA DraftsKeepTheRest ==
    ASSUME TerminalInv, draft # Absent
    PROVE  /\ AfterError(draft).dirty = draft.dirty /\ AfterError(draft).sent = draft.sent
           /\ AfterError(draft) # Absent
           /\ Inspected(draft, dialog).dirty = draft.dirty /\ Inspected(draft, dialog).sent = draft.sent
           /\ (dialog # Absent /\ dialog.kind = "inspection") => Inspected(draft, dialog) # Absent
           /\ [draft EXCEPT !.dirty = TRUE].dirty /\ [draft EXCEPT !.dirty = TRUE].sent = draft.sent
           /\ [draft EXCEPT !.dirty = TRUE] # Absent
           /\ \A sent \in SUBSET Requests :
                [draft EXCEPT !.sent = sent].dirty = draft.dirty /\ [draft EXCEPT !.sent = sent] # Absent
<1>1. draft \in Drafts
    BY DEF TerminalInv, TerminalTyped
<1>2. AfterError(draft).dirty = draft.dirty /\ AfterError(draft).sent = draft.sent
    BY <1>1 DEF AfterError, Drafts
<1>3. AfterError(draft) # Absent
  <2>1. CASE AfterError(draft) = draft
      BY <2>1
  <2>2. CASE AfterError(draft) # draft
    <3> DEFINE locked == draft.kind # "export"
               owed == draft.sent \cap AppliedIds
    <3>1. locked \in BOOLEAN /\ owed \in SUBSET Requests
        BY <1>1 DEF Drafts
    <3>2. AfterError(draft) = [draft EXCEPT !.requires_inspection = locked, !.owed = owed]
        BY <2>2 DEF AfterError
    <3> HIDE DEF locked, owed
    <3>3. AfterError(draft) \in Drafts
        BY <1>1, <3>1, <3>2 DEF Drafts
    <3> QED
        BY <3>3, AbsentAssumption
  <2> QED
      BY <2>1, <2>2
<1>4. Inspected(draft, dialog).dirty = draft.dirty /\ Inspected(draft, dialog).sent = draft.sent
    BY <1>1 DEF Inspected, Drafts
<1>5. ASSUME dialog # Absent, dialog.kind = "inspection"
      PROVE  Inspected(draft, dialog) # Absent
  <2> DEFINE rev == IF draft.kind = "edit" THEN dialog.revision ELSE draft.revision
  <2>1. dialog.revision \in 0..MaxRevision /\ dialog.shown \in SUBSET Requests /\ dialog.within \in Scopes
      BY <1>5 DEF TerminalInv, TerminalTyped, Dialogs
  <2>2. rev \in 0..MaxRevision
      BY <1>1, <2>1 DEF Drafts
  <2>3. Inspected(draft, dialog) =
            [draft EXCEPT !.requires_inspection = FALSE, !.revision = rev,
                          !.seen = dialog.shown, !.within = dialog.within]
      BY DEF Inspected
  <2> HIDE DEF rev
  <2>4. Inspected(draft, dialog) \in Drafts
      BY <1>1, <2>1, <2>2, <2>3 DEF Drafts
  <2> QED
      BY <2>4, AbsentAssumption
<1>6. /\ [draft EXCEPT !.dirty = TRUE].dirty /\ [draft EXCEPT !.dirty = TRUE].sent = draft.sent
      /\ \A sent : [draft EXCEPT !.sent = sent].dirty = draft.dirty
    BY <1>1 DEF Drafts
<1>7. /\ [draft EXCEPT !.dirty = TRUE] \in Drafts
      /\ \A sent \in SUBSET Requests : [draft EXCEPT !.sent = sent] \in Drafts
    BY <1>1 DEF Drafts
<1> QED
    BY <1>2, <1>3, <1>4, <1>5, <1>6, <1>7, AbsentAssumption

\* The server hears nothing of the keys.
LEMMA KeysAskNothing ==
    ASSUME Key
    PROVE  UNCHANGED <<mutations, revision, holds, applied>>
<1>1. CASE Reload \/ Act \/ ChooseAction \/ Save \/ Inspect \/ OpenBlockers
    BY <1>1 DEF Reload, Act, ChooseAction, Save, Inspect, OpenBlockers, Start, server
<1>2. CASE Create \/ ChooseProject
    BY <1>2 DEF Create, ChooseProject, CreateIn, Start, server
<1>3. CASE \E key \in {"enter", "esc"} : CloseConfirmation(key)
    BY <1>3 DEF CloseConfirmation, server
<1>4. CASE Toggle \/ Quit \/ CancelRead \/ BrowseProjects \/ OpenActions \/ ExportReferences \/ CloseDialog
           \/ AcceptInspection \/ Type \/ LeaveDraft
    BY <1>4 DEF Toggle, Quit, CancelRead, BrowseProjects, OpenActions, ExportReferences, CloseDialog,
       AcceptInspection, Type, LeaveDraft, server
<1> QED
    BY <1>1, <1>2, <1>3, <1>4 DEF Key

\* The types of the interface and of its requests.
THEOREM RequestsAreTyped == TerminalSpec => []TerminalTypeOK
<1>1. TerminalInv => TerminalTypeOK
  <2> SUFFICES ASSUME TerminalInv
               PROVE  TerminalTypeOK
      OBVIOUS
  <2>1. events \in Seq(Answers)
    <3>1. Told \subseteq Answers /\ events \in Seq(Told)
        BY DEF Told, TerminalInv
    <3> HIDE DEF Told
    <3> QED
        BY <3>1, SeqMonotonic
  <2>2. dialog = Absent \/ dialog.kind \in {"projects", "actions", "blockers", "inspection"}
      BY DEF TerminalInv, TerminalTyped, Dialogs
  <2>3. (open /\ dialog # Absent /\ dialog.kind \in {"blockers", "inspection"}) => draft # Absent
      BY DEF TerminalInv, DialogMatches
  <2> QED
      BY <2>1, <2>2, <2>3 DEF TerminalInv, TerminalTyped, TerminalTypeOK
<1> QED
    BY <1>1, TerminalHolds, PTL DEF TerminalSpec

\* App.apply_event: what is shown, answered or awaited belongs to the last
\* request, whatever the earlier ones still send.
THEOREM RequestsComeOneByOne == TerminalSpec => []OneRequest
<1>1. TerminalInv => OneRequest
    BY DEF TerminalInv, PendingMatches, QuestionMatches, WorkerMatches, OneRequest
<1> QED
    BY <1>1, TerminalHolds, PTL DEF TerminalSpec

\* The server deletes and reopens only what the user agreed to with Enter, on
\* the question of that very request.
THEOREM NothingIsApprovedByChance == TerminalSpec => []ApprovalsAreDeliberate
<1>1. TerminalInv => ApprovalsAreDeliberate
    BY DEF TerminalInv, MutationsMatch, ApprovalsAreDeliberate
<1> QED
    BY <1>1, TerminalHolds, PTL DEF TerminalSpec

\* What the user typed goes only by a submission of this very draft that
\* succeeded, or by a question that named the loss.
THEOREM TypedTextSurvives == TerminalSpec => DraftsSurvive
<1>1. ASSUME TerminalInv, [TerminalNext]_terminalVars,
             draft # Absent, draft.dirty, draft' = Absent \/ ~draft'.dirty
      PROVE  \/ question # Absent /\ question.local \in {"discard", "quit"} /\ question.yes
             \/ /\ events # <<>>
                /\ Head(events).out \in {"saved", "exported"}
                /\ Head(events).id \in draft.sent
  <2>1. CASE Key
      BY <1>1, <2>1, KeysAndTheDraft, DraftsKeepTheRest
  <2>2. CASE TakeEvent
      BY <1>1, <2>2, EventsAndTheDraft, DraftsKeepTheRest
  <2>3. CASE WorkerStep \/ (\E m \in mutations : CarryOut(m) \/ Refuse(m)) \/ OthersWrite \/ UNCHANGED terminalVars
    <3>1. draft' = draft
        BY <2>3, OthersLeaveTheDraft DEF interface
    <3> QED
        BY <1>1, <3>1
  <2> QED
      BY <1>1, <2>1, <2>2, <2>3 DEF TerminalNext
<1>2. TerminalInv /\ [TerminalNext]_terminalVars =>
        [(draft # Absent /\ draft.dirty /\ (draft' = Absent \/ ~draft'.dirty)) =>
            \/ question # Absent /\ question.local \in {"discard", "quit"} /\ question.yes
            \/ /\ events # <<>>
               /\ Head(events).out \in {"saved", "exported"}
               /\ Head(events).id \in draft.sent]_terminalVars
    BY <1>1
<1> QED
    BY <1>2, TerminalHolds, PTL DEF TerminalSpec, DraftsSurvive

\* After a failure a draft is submitted again only by a user who was shown
\* what the failed submission had done, when the inspection looked where it
\* was done.
THEOREM RetriesFollowTheInspection == TerminalSpec => RetriesAreInformed
<1>1. ASSUME TerminalInv, [TerminalNext]_terminalVars, Submitting,
             draft.kind = "create" => draft.within = Everything \/ draft.within = draft.project
      PROVE  draft.owed \subseteq draft.seen
  <2>1. draft # Absent /\ draft' # Absent /\ draft'.sent # draft.sent
      BY <1>1 DEF Submitting
  <2>2. CASE Key
    <3>1. Save
        BY <1>1, <2>1, <2>2, KeysAndTheDraft, DraftsKeepTheRest
    <3>2. ~draft.requires_inspection
        BY <3>1 DEF Save
    <3> QED
        BY <1>1, <2>1, <3>2 DEF TerminalInv, DraftMatches, Covers
  <2>3. CASE TakeEvent
      BY <1>1, <2>1, <2>3, EventsAndTheDraft, DraftsKeepTheRest
  <2>4. CASE WorkerStep \/ (\E m \in mutations : CarryOut(m) \/ Refuse(m)) \/ OthersWrite \/ UNCHANGED terminalVars
    <3>1. draft' = draft
        BY <2>4, OthersLeaveTheDraft DEF interface
    <3> QED
        BY <2>1, <3>1
  <2> QED
      BY <1>1, <2>2, <2>3, <2>4 DEF TerminalNext
<1>2. TerminalInv /\ [TerminalNext]_terminalVars =>
        [(Submitting /\ (draft.kind = "create" =>
            draft.within = Everything \/ draft.within = draft.project)) =>
        draft.owed \subseteq draft.seen]_terminalVars
    BY <1>1
<1> QED
    BY <1>2, TerminalHolds, PTL DEF TerminalSpec, RetriesAreInformed

\* An edit is carried out on contents with an earlier submission of the same
\* draft in them only when the user was shown what the earlier one did: the
\* server compares the revision, and that of the contents which the user saw
\* is the revision of these contents alone (task_mutation.rs submit).
THEOREM EditsNameWhatWasShown == TerminalSpec => EditsApplyOncePerView
<1>1. ASSUME TerminalInv, [TerminalNext]_terminalVars, NEW m \in mutations,
             m.work.kind = "edit", m.id \notin AppliedIds, m.id \in {done.id : done \in applied'}
      PROVE  (m.work.before \cap holds[revision]) \subseteq m.work.seen
  <2>1. applied' # applied
      BY <1>1 DEF AppliedIds
  <2>2. PICK n \in mutations : CarryOut(n)
    <3>1. CASE WorkerStep \/ TakeEvent \/ OthersWrite \/ UNCHANGED terminalVars
        BY <2>1, <3>1 DEF WorkerStep, Read, ReadTarget, Submit, Export, ReceiveAnswer, AskInterface, SendDecision, Fail,
           TakeEvent, DropEvent, TakeQuestion, TakeResult, OthersWrite, terminalVars, server
    <3>2. CASE Key
        BY <2>1, <3>2, KeysAskNothing
    <3>3. CASE \E n \in mutations : Refuse(n)
        BY <2>1, <3>3 DEF Refuse
    <3> QED
        BY <1>1, <3>1, <3>2, <3>3 DEF TerminalNext
  <2>3. n = m
    <3>1. applied' = applied \cup {[id |-> n.id, kind |-> n.work.kind, project |-> n.work.project]}
        BY <2>2 DEF CarryOut
    <3>2. n.id = m.id
        BY <1>1, <3>1 DEF AppliedIds
    <3> QED
        BY <1>1, <3>2 DEF TerminalInv, MutationsMatch
  <2>4. m.work.revision = revision
      BY <1>1, <2>2, <2>3 DEF CarryOut, Current, Guarded
  <2>5. WorkMatches(m.id, m.work)
      BY <1>1 DEF TerminalInv, MutationsMatch
  <2> QED
      BY <1>1, <2>4, <2>5 DEF WorkMatches
<1>2. TerminalInv /\ [TerminalNext]_terminalVars =>
        [\A m \in mutations :
            (m.work.kind = "edit" /\ m.id \notin AppliedIds /\ m.id \in {done.id : done \in applied'}) =>
                (m.work.before \cap holds[revision]) \subseteq m.work.seen]_terminalVars
    BY <1>1
<1> QED
    BY <1>2, TerminalHolds, PTL DEF TerminalSpec, EditsApplyOncePerView

\* The three clients together: each keeps its types and does not mix up its
\* requests (app.rs, client.rs, client.lua).
THEOREM RequestsAreNotMixedUp == TerminalSpec /\ DispatchSpec /\ PluginSpec => []ClientsConsistent
<1>1. TerminalTypeOK /\ OneRequest /\ DispatchTypeOK /\ PluginTypeOK /\ ChildServesPending
        /\ CalledOnce /\ ExitsAreOwn => ClientsConsistent
  BY DEF ClientsConsistent
<1>2. QED
  BY <1>1, RequestsAreTyped, RequestsComeOneByOne, DispatchesAreTyped, CallsAreTyped,
     ChildrenServeThePending, CallbacksRunOnce, ExitsDisturbNobodyElse, PTL

=============================================================================
