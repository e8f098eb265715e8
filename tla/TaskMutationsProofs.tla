------------------------- MODULE TaskMutationsProofs --------------------------
(***************************************************************************)
(* The task commands, many steps each, implement the atomic operations of  *)
(* TaskBoard while nobody writes in an editor: for any number of commands, *)
(* tasks and crashes.  What a command validated still holds when it writes *)
(* because it holds the lock from the validation to the write.             *)
(***************************************************************************)
EXTENDS TaskMutations, TLAPS

Creating == {"create", "clone"}
Updating == {"edit", "close", "backlog", "activate"}

\* What a command relies on, by how far it is.
RightOperation(q) ==
    /\ q.step \notin {"idle", "done"} => q.op \in Operations
    /\ q.step = "linking" => q.op \in Creating \cup {"edit"}
    /\ q.step = "allocating" => q.op = "clone"
    /\ q.step = "waiting" => q.op # "delete"
    /\ q.step = "preparing" => q.op = "delete"

RightTarget(q) ==
    /\ q.op \in Updating \cup {"clone", "delete"} => q.id \in TaskIds
    /\ q.op \in Creating => q.mode = "unchanged"
    /\ q.op \in Creating /\ q.step \in {"linking", "ready"} => q.id \in TaskIds
    /\ q.op = "edit" => (q.mode \in {"unchanged", "clear"} => q.added = {})
    /\ q.op = "delete" => q.expected = AnyRevision

RightRecord(q) ==
    /\ q.op \in Updating /\ q.step \in {"linking", "ready", "asking", "relocking"} =>
         /\ q.seen # NoTask
         /\ q.seen.status \in AcceptedStatuses(q.op)
         /\ q.expected \in {AnyRevision, q.seen}
    /\ q.op = "delete" /\ q.step \notin {"waiting", "preparing", "idle", "done"} => q.seen # NoTask

\* What was validated, of the files as they are, unless somebody saved a file in
\* an editor.
StillValid(q, vault, saves) ==
    q.step = "ready" /\ saves = 0 =>
        /\ q.op \in Creating => q.added \subseteq Existing(vault)
        /\ q.op = "edit" =>
             /\ q.added \subseteq Existing(vault)
             /\ q.added # {} => q.id \notin Reachable(vault, RequestedBlockers(q))
        /\ q.op = "delete" => Dependents(vault, q.id) = {}

Good(q, vault, saves) == RightOperation(q) /\ RightTarget(q) /\ RightRecord(q) /\ StillValid(q, vault, saves)

Inv ==
    /\ TypeOK
    /\ \A r \in Requests : Good(req[r], files, editorWrites)

-----------------------------------------------------------------------------
(* Requests. *)

Ended == [Idle EXCEPT !.step = "done"]

LEMMA OperationNames ==
    ASSUME NEW op \in Operations
    PROVE  op \in Creating \cup Updating \cup {"delete"}
BY RequestsAssumption DEF Creating, Updating

LEMMA EndedIsGood ==
    ASSUME NEW vault, NEW saves
    PROVE  /\ Ended \in RequestStates /\ Good(Ended, vault, saves)
           /\ Idle \in RequestStates /\ Good(Idle, vault, saves)
           /\ Ended.step = "done" /\ Idle.step = "idle"
<1>1. Ended = [step |-> "done", op |-> "none", id |-> 0, expected |-> AnyRevision,
               seen |-> NoTask, mode |-> "unchanged", added |-> {}]
  BY DEF Ended, Idle
<1>2. Ended \in RequestStates /\ Idle \in RequestStates
  BY <1>1, MaxTaskNumberAssumption DEF Idle, RequestStates, Steps, BlockedByEdits
<1>3. Good(Ended, vault, saves)
  BY <1>1 DEF Good, RightOperation, RightTarget, RightRecord, StillValid, Creating, Updating
<1>4. Good(Idle, vault, saves)
  BY DEF Idle, Good, RightOperation, RightTarget, RightRecord, StillValid, Creating, Updating
<1>5. QED
  BY <1>1, <1>2, <1>3, <1>4 DEF Idle

\* A command moves on.
LEMMA Advanced ==
    ASSUME NEW q \in RequestStates, NEW step \in Steps
    PROVE  /\ [q EXCEPT !.step = step] \in RequestStates
           /\ [q EXCEPT !.step = step].step = step
           /\ [q EXCEPT !.step = step].op = q.op
           /\ [q EXCEPT !.step = step].id = q.id
           /\ [q EXCEPT !.step = step].seen = q.seen
           /\ [q EXCEPT !.step = step].mode = q.mode
           /\ [q EXCEPT !.step = step].added = q.added
           /\ [q EXCEPT !.step = step].expected = q.expected
BY DEF RequestStates

LEMMA Held ==
    ASSUME Inv, NEW r \in Requests, NEW u \in Requests, lock = r, u # r
    PROVE  req[u].step \notin LockedSteps
BY DEF Inv, TypeOK

\* One command moves, takes or drops the lock as its new step says, and changes
\* files only with the lock.
LEMMA OneMoves ==
    ASSUME Inv, NEW r \in Requests, NEW w \in RequestStates, req' = [req EXCEPT ![r] = w],
           Good(w, files', editorWrites'), files' \in Vaults, last' \in 0 .. MaxTaskNumber,
           UNCHANGED <<editorWrites, crashes>>,
           w.step \in LockedSteps => lock' = r /\ lock \in {r, Free},
           w.step \notin LockedSteps => lock' = IF lock = r THEN Free ELSE lock,
           files' = files \/ lock = r
    PROVE  Inv'
<1>1. req \in [Requests -> RequestStates] /\ Free \notin Requests
  BY RequestsAssumption DEF Inv, TypeOK
<1>2. req' \in [Requests -> RequestStates] /\ req'[r] = w
      /\ \A u \in Requests : u # r => req'[u] = req[u]
  BY <1>1
<1>3. lock' \in Requests \cup {Free}
  BY DEF Inv, TypeOK
<1>4. ASSUME NEW u \in Requests
      PROVE  lock' = u <=> req'[u].step \in LockedSteps
  <2>1. lock = u <=> req[u].step \in LockedSteps
    BY DEF Inv, TypeOK
  <2>2. CASE u = r
    BY <1>1, <1>2, <2>2
  <2>3. CASE u # r
    BY <1>1, <1>2, <2>1, <2>3
  <2>4. QED
    BY <2>2, <2>3
<1>5. TypeOK'
  BY <1>2, <1>3, <1>4 DEF Inv, TypeOK
<1>6. ASSUME NEW u \in Requests
      PROVE  Good(req'[u], files', editorWrites')
  <2>1. CASE u = r
    BY <1>2, <2>1
  <2>2. CASE u # r
    <3>1. Good(req[u], files, editorWrites)
      BY DEF Inv
    <3>2. files' = files \/ req[u].step # "ready"
      BY <2>2, Held DEF LockedSteps
    <3>3. QED
      BY <1>2, <2>2, <3>1, <3>2 DEF Good, StillValid
  <2>3. QED
    BY <2>1, <2>2
<1>7. QED
  BY <1>5, <1>6 DEF Inv

LEMMA FinishKeepsInv ==
    ASSUME Inv, NEW r \in Requests, Finish(r), files' \in Vaults, last' \in 0 .. MaxTaskNumber,
           UNCHANGED <<editorWrites, crashes>>, files' = files \/ lock = r
    PROVE  Inv'
<1>1. req' = [req EXCEPT ![r] = Ended]
  BY DEF Finish, Ended
<1>2. lock' = IF lock = r THEN Free ELSE lock
  BY DEF Finish
<1>3. Ended \in RequestStates /\ Good(Ended, files', editorWrites') /\ Ended.step \notin LockedSteps
  BY EndedIsGood DEF LockedSteps
<1> HIDE DEF Ended
<1>4. QED
  BY <1>1, <1>2, <1>3, OneMoves

\* A command moves on without new knowledge.
LEMMA MovesOn ==
    ASSUME Inv, NEW r \in Requests, NEW step \in Steps, GoTo(r, step),
           Good([req[r] EXCEPT !.step = step], files, editorWrites),
           UNCHANGED <<files, last, editorWrites, crashes>>,
           step \in LockedSteps => lock' = r /\ lock \in {r, Free},
           step \notin LockedSteps => lock' = IF lock = r THEN Free ELSE lock
    PROVE  Inv'
<1> DEFINE w == [req[r] EXCEPT !.step = step]
<1>1. req[r] \in RequestStates /\ files \in Vaults /\ last \in 0 .. MaxTaskNumber
  BY DEF Inv, TypeOK
<1>2. w \in RequestStates /\ w.step = step
  BY <1>1, Advanced
<1>3. req' = [req EXCEPT ![r] = w]
  BY DEF GoTo
<1>4. files' \in Vaults /\ last' \in 0 .. MaxTaskNumber /\ Good(w, files', editorWrites')
  BY <1>1
<1> HIDE DEF w
<1>5. QED
  BY <1>2, <1>3, <1>4, OneMoves

\* What a command knows at a step carries over to a step that asks for no more.
LEMMA KnowsAsMuch ==
    ASSUME NEW q \in RequestStates, NEW step \in Steps, NEW vault, NEW saves, Good(q, vault, saves),
           q.step \notin {"idle", "done"}, step \notin {"linking", "ready", "allocating", "waiting", "preparing"},
           q.op = "delete" => q.seen # NoTask,
           q.op \in Updating => (step \notin {"asking", "relocking"} \/ q.step \in {"asking", "relocking"})
    PROVE  Good([q EXCEPT !.step = step], vault, saves)
BY Advanced DEF Good, RightOperation, RightTarget, RightRecord, StillValid

LEMMA SendKeepsInv ==
    ASSUME Inv, NEW r \in Requests, NEW op \in Operations, NEW id \in 0 .. MaxTaskNumber,
           NEW mode \in BlockedByEdits, NEW added \in SUBSET TaskIds,
           NEW expected \in DisplayedRevisions(id), Send(r, op, id, expected, mode, added)
    PROVE  Inv'
<1> DEFINE w == [step |-> IF op = "delete" THEN "preparing" ELSE "waiting",
                 op |-> op, id |-> id, expected |-> expected, seen |-> NoTask,
                 mode |-> mode, added |-> added]
<1>1. /\ req' = [req EXCEPT ![r] = w] /\ req[r].step = "idle"
      /\ op \in Updating \cup {"clone", "delete"} => id # 0
      /\ op \in Creating => mode = "unchanged"
      /\ op = "edit" => (mode \in {"unchanged", "clear"} => added = {})
      /\ op = "delete" => expected = AnyRevision
      /\ UNCHANGED <<files, last, lock, editorWrites, crashes>>
  BY DEF Send, At, Updating, Creating
<1>2. expected \in TaskContents \cup {NoTask, AnyRevision}
  <2>1. id # 0 => id \in TaskIds
    BY MaxTaskNumberAssumption DEF TaskIds
  <2>2. QED
    BY <2>1 DEF DisplayedRevisions, Inv, TypeOK, Vaults
<1>3. w \in RequestStates
  BY <1>2 DEF RequestStates, Steps
<1>4. id # 0 => id \in TaskIds
  BY MaxTaskNumberAssumption DEF TaskIds
<1>5. w.step \in {"waiting", "preparing"} /\ (w.step = "waiting" <=> op # "delete") /\ w.op = op /\ w.id = id /\ w.mode = mode /\ w.added = added
      /\ w.expected = expected
  OBVIOUS
<1> HIDE DEF w
<1>6. Good(w, files, editorWrites)
  BY <1>1, <1>4, <1>5 DEF Good, RightOperation, RightTarget, RightRecord, StillValid
<1>7. lock # r
  BY <1>1 DEF Inv, TypeOK, LockedSteps
<1>8. files \in Vaults /\ last \in 0 .. MaxTaskNumber
  BY DEF Inv, TypeOK
<1>9. w.step \notin LockedSteps
  BY <1>5 DEF LockedSteps
<1>10. QED
  BY <1>1, <1>3, <1>6, <1>7, <1>8, <1>9, OneMoves

LEMMA AcquireKeepsInv ==
    ASSUME Inv, NEW r \in Requests, Acquire(r)
    PROVE  Inv'
<1>1. req[r].step = "waiting" /\ lock = Free /\ lock' = r /\ GoTo(r, "locked")
      /\ UNCHANGED <<files, last, editorWrites, crashes>>
  BY DEF Acquire, At
<1>2. req[r] \in RequestStates /\ Good(req[r], files, editorWrites)
  BY DEF Inv, TypeOK
<1>3. req[r].op # "delete"
  BY <1>1, <1>2 DEF Good, RightOperation
<1>4. Good([req[r] EXCEPT !.step = "locked"], files, editorWrites)
  BY <1>1, <1>2, <1>3, KnowsAsMuch DEF Steps
<1>5. QED
  BY <1>1, <1>4, MovesOn DEF LockedSteps, Steps

LEMMA AcquireAfterDecisionKeepsInv ==
    ASSUME Inv, NEW r \in Requests, AcquireAfterDecision(r)
    PROVE  Inv'
<1> DEFINE step == IF req[r].op = "activate" THEN "ready" ELSE "locked"
<1>1. req[r].step = "relocking" /\ lock = Free /\ lock' = r /\ GoTo(r, step)
      /\ UNCHANGED <<files, last, editorWrites, crashes>>
  BY DEF AcquireAfterDecision, At
<1>2. req[r] \in RequestStates /\ Good(req[r], files, editorWrites)
  BY DEF Inv, TypeOK
<1>3. step \in Steps /\ step \in LockedSteps
  BY DEF Steps, LockedSteps
<1>4. Good([req[r] EXCEPT !.step = step], files, editorWrites)
  <2>1. CASE req[r].op = "activate"
    <3>1. step = "ready"
      BY <2>1
    <3> HIDE DEF step
    <3>2. QED
      BY <1>1, <1>2, <1>3, <2>1, <3>1, Advanced
         DEF Good, RightOperation, RightTarget, RightRecord, StillValid, Creating, Updating
  <2>2. CASE req[r].op # "activate"
    <3>1. step = "locked"
      BY <2>2
    <3>2. req[r].op = "delete" => req[r].seen # NoTask
      BY <1>1, <1>2 DEF Good, RightRecord
    <3> HIDE DEF step
    <3>3. QED
      BY <1>1, <1>2, <1>3, <3>1, <3>2, KnowsAsMuch
  <2>3. QED
    BY <2>1, <2>2
<1> HIDE DEF step
<1>5. QED
  BY <1>1, <1>3, <1>4, MovesOn

LEMMA ReadRecordKeepsInv ==
    ASSUME Inv, NEW r \in Requests, ReadRecord(r)
    PROVE  Inv'
<1> DEFINE q == req[r]
           record == files[q.id]
<1>1. /\ q.step = "locked" /\ lock = r /\ q.op \notin {"create", "delete"}
      /\ UNCHANGED <<files, last, editorWrites, crashes>>
  BY DEF ReadRecord, Holding, At
<1>2. q \in RequestStates /\ Good(q, files, editorWrites) /\ files \in Vaults /\ last \in 0 .. MaxTaskNumber
  BY DEF Inv, TypeOK
<1>3. q.op \in Updating \cup {"clone"}
  BY <1>1, <1>2, OperationNames DEF Good, RightOperation, Creating
<1>4. CASE Finish(r)
  BY <1>1, <1>2, <1>4, FinishKeepsInv
<1>5. CASE ~Finish(r)
  <2> DEFINE Next1(next) ==
               /\ req' = [req EXCEPT ![r] = [q EXCEPT !.step = next, !.seen = record,
                            !.added = IF q.op = "clone" THEN record.blocked_by ELSE @]]
               /\ lock' = LockAfterReading(next)
               /\ next = CASE q.op = "edit" -> IF AddsBlockers(q) THEN "linking" ELSE "ready"
                  [] q.op \in {"close", "backlog"} -> "ready"
                  [] q.op = "clone" -> "allocating"
                  [] q.op = "activate" ->
                       IF record.status \in ClosedStatuses THEN "asking" ELSE "ready"
  <2>1. /\ record # NoTask /\ record.status \in AcceptedStatuses(q.op)
        /\ q.expected \in {AnyRevision, record}
        /\ \E next : Next1(next)
    BY <1>5 DEF ReadRecord, ExpectedRevisionHolds
  <2>2. PICK next : Next1(next)
    BY <2>1
  <2>3. /\ q.op = "edit" => next = IF AddsBlockers(q) THEN "linking" ELSE "ready"
        /\ q.op \in {"close", "backlog"} => next = "ready"
        /\ q.op = "clone" => next = "allocating"
        /\ q.op = "activate" => next \in {"asking", "ready"}
    BY <2>2
  <2>4. next \in {"linking", "ready", "allocating", "asking"}
    BY <1>3, <2>3 DEF Updating
  <2> DEFINE added == IF q.op = "clone" THEN record.blocked_by ELSE q.added
             w == [q EXCEPT !.step = next, !.seen = record, !.added = added]
  <2>5. req' = [req EXCEPT ![r] = w]
    BY <2>2
  <2>6. record \in TaskContents
    <3>1. q.id \in TaskIds
      BY <1>2, <1>3 DEF Good, RightTarget
    <3>2. QED
      BY <1>2, <2>1, <3>1 DEF Vaults
  <2>7. added \in SUBSET TaskIds
    BY <1>2, <2>6 DEF RequestStates, TaskContents
  <2>8. /\ w \in RequestStates /\ w.step = next /\ w.op = q.op /\ w.id = q.id
        /\ w.seen = record /\ w.mode = q.mode /\ w.added = added /\ w.expected = q.expected
    <3> HIDE DEF record, added
    <3>1. next \in Steps
      BY <2>4 DEF Steps
    <3>2. QED
      BY <1>2, <2>6, <2>7, <3>1 DEF RequestStates
  <2>9. q.op # "clone" => added = q.added
    OBVIOUS
  <2>10. lock' = IF next = "asking" THEN Free ELSE r
    BY <1>1, <2>2 DEF LockAfterReading
  <2> HIDE DEF w, added, Next1
  <2>11. RightOperation(w) /\ RightTarget(w) /\ RightRecord(w)
    <3>1. RightOperation(w)
      BY <1>1, <1>2, <1>3, <2>3, <2>4, <2>8 DEF Good, RightOperation, Creating, Updating
    <3>2. RightTarget(w)
      BY <1>2, <1>3, <2>3, <2>8, <2>9 DEF Good, RightTarget, Creating, Updating
    <3>3. RightRecord(w)
      BY <1>3, <2>1, <2>8 DEF RightRecord, Creating, Updating
    <3>4. QED
      BY <3>1, <3>2, <3>3
  <2>12. StillValid(w, files, editorWrites)
    <3>1. ASSUME q.op = "edit", next = "ready"
          PROVE  added = {}
      <4>1. q.mode \in {"unchanged", "clear"}
        BY <1>2, <2>3, <3>1 DEF AddsBlockers, RequestStates, BlockedByEdits
      <4>2. QED
        BY <1>2, <2>9, <3>1, <4>1 DEF Good, RightTarget
    <3>2. next = "ready" => w.op \in Updating
      BY <1>3, <2>3, <2>8
    <3>3. QED
      BY <2>8, <3>1, <3>2 DEF StillValid, Creating, Updating
  <2>13. Good(w, files, editorWrites)
    BY <2>11, <2>12 DEF Good
  <2>14. /\ w.step \in LockedSteps => lock' = r
         /\ w.step \notin LockedSteps => lock' = Free
    BY <2>4, <2>8, <2>10 DEF LockedSteps
  <2>15. QED
    BY <1>1, <1>2, <2>5, <2>8, <2>13, <2>14, OneMoves
<1>6. QED
  BY <1>4, <1>5

LEMMA ReserveKeepsInv ==
    ASSUME Inv, NEW r \in Requests, Reserve(r)
    PROVE  Inv'
<1> DEFINE q == req[r]
<1>1. q \in RequestStates /\ Good(q, files, editorWrites) /\ files \in Vaults /\ last \in 0 .. MaxTaskNumber
  BY DEF Inv, TypeOK
<1>2. /\ lock = r /\ q.op \in Creating /\ q.step \in {"locked", "allocating"}
      /\ UNCHANGED <<files, editorWrites, crashes>>
  BY <1>1 DEF Reserve, Holding, At, Good, RightOperation, Creating
<1>3. CASE last < MaxTaskNumber
  <2> DEFINE step == IF q.added = {} THEN "ready" ELSE "linking"
             w == [q EXCEPT !.id = last + 1, !.step = step]
  <2>1. req' = [req EXCEPT ![r] = w] /\ lock' = lock /\ last' = last + 1
    BY <1>3 DEF Reserve
  <2>2. last + 1 \in TaskIds /\ last' \in 0 .. MaxTaskNumber
    BY <1>1, <1>3, <2>1, MaxTaskNumberAssumption DEF TaskIds
  <2>3. step \in Steps /\ step \in LockedSteps
    BY DEF Steps, LockedSteps
  <2>4. last + 1 \in 0 .. MaxTaskNumber
    BY <2>2, MaxTaskNumberAssumption DEF TaskIds
  <2>5. /\ w \in RequestStates /\ w.step = step /\ w.op = q.op /\ w.id = last + 1
        /\ w.seen = q.seen /\ w.mode = q.mode /\ w.added = q.added /\ w.expected = q.expected
    <3> HIDE DEF step
    <3>1. QED
      BY <1>1, <2>3, <2>4 DEF RequestStates
  <2> HIDE DEF w
  <2>6. RightOperation(w) /\ RightTarget(w) /\ RightRecord(w)
    BY <1>1, <1>2, <2>2, <2>5
       DEF Good, RightOperation, RightTarget, RightRecord, Creating, Updating
  <2>7. StillValid(w, files, editorWrites)
    BY <1>2, <2>5 DEF StillValid, Creating
  <2> HIDE DEF step
  <2>8. QED
    BY <1>1, <1>2, <2>1, <2>2, <2>3, <2>5, <2>6, <2>7, OneMoves DEF Good
<1>4. CASE ~(last < MaxTaskNumber)
  BY <1>1, <1>2, <1>4, FinishKeepsInv DEF Reserve
<1>5. QED
  BY <1>3, <1>4

LEMMA ValidateLinksKeepsInv ==
    ASSUME Inv, NEW r \in Requests, ValidateLinks(r)
    PROVE  Inv'
<1> DEFINE q == req[r]
           w == [q EXCEPT !.step = "ready"]
<1>1. /\ lock = r /\ q.step = "linking" /\ UNCHANGED <<files, last, editorWrites, crashes>>
  BY DEF ValidateLinks, Holding, At
<1>2. q \in RequestStates /\ Good(q, files, editorWrites) /\ files \in Vaults /\ last \in 0 .. MaxTaskNumber
  BY DEF Inv, TypeOK
<1>3. CASE ValidBlockers(files, q.id, RequestedBlockers(q), q.added)
  <2>1. GoTo(r, "ready") /\ UNCHANGED lock
    BY <1>3 DEF ValidateLinks
  <2>2. "ready" \in Steps /\ "ready" \in LockedSteps
    BY DEF Steps, LockedSteps
  <2>3. /\ w.step = "ready" /\ w.op = q.op /\ w.id = q.id
        /\ w.seen = q.seen /\ w.mode = q.mode /\ w.added = q.added /\ w.expected = q.expected
    BY <1>2, <2>2, Advanced
  <2>4. RequestedBlockers(w) = RequestedBlockers(q)
    BY <2>3 DEF RequestedBlockers
  <2>5. q.added \subseteq Existing(files)
        /\ q.id \notin Reachable(files, RequestedBlockers(q))
    BY <1>3 DEF ValidBlockers
  <2>6. q.op \in Creating \cup {"edit"} /\ q.op \in Operations
    BY <1>1, <1>2 DEF Good, RightOperation
  <2> HIDE DEF w
  <2>7. StillValid(w, files, editorWrites)
    BY <2>3, <2>4, <2>5, <2>6 DEF StillValid, Creating
  <2>8. RightOperation(w) /\ RightTarget(w)
    <3>1. RightTarget(q)
      BY <1>2 DEF Good
    <3>2. RightOperation(w)
      BY <2>3, <2>6 DEF RightOperation
    <3>3. RightTarget(w)
      BY <1>1, <2>3, <3>1 DEF RightTarget
    <3>4. QED
      BY <3>2, <3>3
  <2>9. RightRecord(w)
    BY <1>1, <1>2, <2>3, <2>6 DEF Good, RightRecord, Creating, Updating
  <2>10. Good([req[r] EXCEPT !.step = "ready"], files, editorWrites)
    BY <2>7, <2>8, <2>9 DEF Good, w
  <2>11. QED
    BY <1>1, <2>1, <2>2, <2>10, MovesOn
<1>4. CASE ~ValidBlockers(files, q.id, RequestedBlockers(q), q.added)
  BY <1>1, <1>2, <1>4, FinishKeepsInv DEF ValidateLinks
<1>5. QED
  BY <1>3, <1>4

LEMMA ReadTargetKeepsInv ==
    ASSUME Inv, NEW r \in Requests, ReadTarget(r)
    PROVE  Inv'
<1> DEFINE q == req[r]
           w == [q EXCEPT !.step = "prepared", !.seen = files[q.id]]
<1>1. q.step = "preparing" /\ UNCHANGED <<files, last, editorWrites, crashes>>
  BY DEF ReadTarget, At
<1>2. q \in RequestStates /\ Good(q, files, editorWrites) /\ files \in Vaults /\ last \in 0 .. MaxTaskNumber
      /\ lock # r
  BY <1>1 DEF Inv, TypeOK, LockedSteps
<1>3. CASE files[q.id] # NoTask
  <2>1. req' = [req EXCEPT ![r] = w] /\ lock' = lock
    BY <1>3 DEF ReadTarget
  <2>2. q.op = "delete" /\ q.id \in TaskIds
    BY <1>1, <1>2 DEF Good, RightOperation, RightTarget
  <2>3. files[q.id] \in TaskContents \cup {NoTask}
    BY <1>2, <2>2 DEF Vaults
  <2>4. "prepared" \in Steps /\ "prepared" \notin LockedSteps
    BY DEF Steps, LockedSteps
  <2>5. /\ w \in RequestStates /\ w.step = "prepared" /\ w.op = "delete" /\ w.id = q.id
        /\ w.seen # NoTask /\ w.expected = q.expected
    BY <1>2, <1>3, <2>2, <2>3, <2>4 DEF RequestStates
  <2> HIDE DEF w
  <2>6. Good(w, files, editorWrites)
    BY <1>1, <1>2, <2>2, <2>5
       DEF Good, RightOperation, RightTarget, RightRecord, StillValid, Creating, Updating
  <2>7. QED
    BY <1>1, <1>2, <2>1, <2>4, <2>5, <2>6, OneMoves
<1>4. CASE files[q.id] = NoTask
  BY <1>1, <1>2, <1>4, FinishKeepsInv DEF ReadTarget
<1>5. QED
  BY <1>3, <1>4

LEMMA RejectDependentsKeepsInv ==
    ASSUME Inv, NEW r \in Requests, RejectDependents(r)
    PROVE  Inv'
<1> DEFINE q == req[r]
           step == IF q.step = "prepared" THEN "asking" ELSE "ready"
           w == [q EXCEPT !.step = step]
<1>1. /\ q.op = "delete" /\ (q.step = "prepared" \/ (q.step = "locked" /\ lock = r))
      /\ UNCHANGED <<files, last, editorWrites, crashes>>
  BY DEF RejectDependents, Holding, At
<1>2. q \in RequestStates /\ Good(q, files, editorWrites) /\ files \in Vaults /\ last \in 0 .. MaxTaskNumber
      /\ (q.step = "prepared" => lock # r)
  BY DEF Inv, TypeOK, LockedSteps
<1>3. CASE Dependents(files, q.id) = {}
  <2>1. GoTo(r, step) /\ UNCHANGED lock
    BY <1>3 DEF RejectDependents, At
  <2>2. step \in Steps /\ (step \in LockedSteps => step = "ready") /\ step \in {"asking", "ready"}
    BY DEF Steps, LockedSteps
  <2>3. step = "ready" => lock = r
    BY <1>1
  <2>4. step # "ready" => lock # r
    BY <1>1, <1>2
  <2> HIDE DEF step
  <2>5. /\ w.step = step /\ w.op = q.op /\ w.id = q.id
        /\ w.seen = q.seen /\ w.mode = q.mode /\ w.added = q.added /\ w.expected = q.expected
    BY <1>2, <2>2, Advanced
  <2>6. q.seen # NoTask
    BY <1>1, <1>2 DEF Good, RightRecord
  <2> HIDE DEF w
  <2>7. Good(w, files, editorWrites)
    BY <1>1, <1>2, <1>3, <2>2, <2>5, <2>6
       DEF Good, RightOperation, RightTarget, RightRecord, StillValid, Creating, Updating
  <2>8. Good([req[r] EXCEPT !.step = step], files, editorWrites)
    BY <2>7 DEF w
  <2>9. "ready" \in LockedSteps
    BY DEF LockedSteps
  <2>10. QED
    BY <1>1, <2>1, <2>2, <2>3, <2>4, <2>8, <2>9, MovesOn
<1>4. CASE Dependents(files, q.id) # {}
  BY <1>1, <1>2, <1>4, FinishKeepsInv DEF RejectDependents
<1>5. QED
  BY <1>3, <1>4

LEMMA ConfirmKeepsInv ==
    ASSUME Inv, NEW r \in Requests, Confirm(r)
    PROVE  Inv'
<1>1. req[r].step = "asking" /\ GoTo(r, "relocking")
      /\ UNCHANGED <<files, last, lock, editorWrites, crashes>>
  BY DEF Confirm, At
<1>2. req[r] \in RequestStates /\ Good(req[r], files, editorWrites) /\ lock # r
  BY <1>1 DEF Inv, TypeOK, LockedSteps
<1>3. req[r].op = "delete" => req[r].seen # NoTask
  BY <1>1, <1>2 DEF Good, RightRecord
<1>4. Good([req[r] EXCEPT !.step = "relocking"], files, editorWrites)
  BY <1>1, <1>2, <1>3, KnowsAsMuch DEF Steps
<1>5. QED
  BY <1>1, <1>2, <1>4, MovesOn DEF Steps, LockedSteps

-----------------------------------------------------------------------------
(* Commits. *)

\* The task board speaks of tasks in the same words.
LEMMA SameWords ==
    /\ Board!TaskIds = TaskIds
    /\ Board!ClosedStatuses = ClosedStatuses
    /\ \A vault : Board!Existing(vault) = Existing(vault)
    /\ \A vault, id : Board!Dependents(vault, id) = Dependents(vault, id)
    /\ \A vault, ids : Board!Reachable(vault, ids) = Reachable(vault, ids)
    /\ \A ids, text : Board!NewTask(ids, text) = NewTask(ids, text)
BY DEF Board!TaskIds, TaskIds, Board!ClosedStatuses, ClosedStatuses, Board!Existing, Existing,
   Board!Dependents, Dependents, Board!Reachable, Reachable, Board!ClosedUnderBlockers,
   ClosedUnderBlockers, Board!BlockersOf, BlockersOf, Board!NewTask, NewTask

\* What the commit of a new task, an edit, and so on is to the board.
Writes(q) ==
    /\ files[q.id] = Required(q)
    /\ \E content \in Written(q) : files' = [files EXCEPT ![q.id] = content]

LEMMA CreateMaps ==
    ASSUME files \in Vaults, NEW q \in RequestStates, Good(q, files, editorWrites), q.step = "ready",
           q.op \in Creating, Writes(q)
    PROVE  (editorWrites = 0 => Board!Next) /\ files' \in Vaults
<1>1. q.id \in TaskIds /\ (editorWrites = 0 => q.added \subseteq Existing(files)) /\ q.added \in SUBSET TaskIds
  BY DEF Good, RightTarget, StillValid, RequestStates
<1>2. PICK text \in Texts : files' = [files EXCEPT ![q.id] = NewTask(q.added, text)]
  BY DEF Writes, Written, Creating
<1>3. files[q.id] = NoTask
  BY DEF Writes, Required, Creating
<1>4. NewTask(q.added, text) \in TaskContents
  BY <1>1 DEF NewTask, TaskContents, Statuses
<1>5. editorWrites = 0 => Board!Create(q.id, q.added, text)
  BY <1>1, <1>2, <1>3, SameWords DEF Board!Create
<1>6. editorWrites = 0 => Board!Next
  BY <1>1, <1>5, SameWords DEF Board!Next
<1>7. QED
  BY <1>1, <1>2, <1>4, <1>6 DEF Vaults

\* The record of a command on an existing task.
LEMMA SeenRecord ==
    ASSUME NEW q \in RequestStates, Good(q, files, editorWrites), q.step = "ready", q.op \in Updating, Writes(q)
    PROVE  /\ q.id \in TaskIds /\ files[q.id] = q.seen
           /\ q.seen \in TaskContents /\ q.seen # NoTask
           /\ q.seen.status \in AcceptedStatuses(q.op)
<1>1. q.op \notin Creating
  BY DEF Updating, Creating
<1>2. files[q.id] = q.seen
  BY <1>1 DEF Writes, Required, Creating
<1>3. QED
  BY <1>2 DEF Good, RightTarget, RightRecord, RequestStates

LEMMA EditMaps ==
    ASSUME files \in Vaults, NEW q \in RequestStates, Good(q, files, editorWrites), q.step = "ready",
           q.op = "edit", Writes(q)
    PROVE  (editorWrites = 0 => Board!Next) /\ files' \in Vaults
<1>1. /\ q.id \in TaskIds /\ files[q.id] = q.seen
      /\ q.seen \in TaskContents /\ q.seen # NoTask
      /\ q.seen.status \in AcceptedStatuses("edit")
  BY SeenRecord DEF Updating
<1>2. q.seen.status \notin ClosedStatuses
  BY <1>1 DEF AcceptedStatuses
<1> DEFINE blockers == IF q.mode = "unchanged" THEN q.seen.blocked_by ELSE RequestedBlockers(q)
           kept == IF q.mode \in {"unchanged", "append"} THEN q.seen.blocked_by ELSE {}
<1>3. PICK text \in Texts :
        files' = [files EXCEPT ![q.id] = [q.seen EXCEPT !.text = text, !.blocked_by = blockers]]
  <2>1. Written(q) = {[q.seen EXCEPT !.text = text, !.blocked_by = blockers] : text \in Texts}
    BY Zenon DEF Written
  <2>2. PICK new \in Written(q) : files' = [files EXCEPT ![q.id] = new]
    BY DEF Writes
  <2> HIDE DEF blockers
  <2>3. PICK text \in Texts : new = [q.seen EXCEPT !.text = text, !.blocked_by = blockers]
    BY <2>1, <2>2
  <2>4. QED
    BY <2>2, <2>3
<1>4. q.added \in SUBSET TaskIds /\ q.mode \in BlockedByEdits
      /\ (q.mode \in {"unchanged", "clear"} => q.added = {})
  BY DEF Good, RightTarget, RequestStates
<1>5. editorWrites = 0 =>
        /\ q.added \subseteq Existing(files)
        /\ q.added # {} => q.id \notin Reachable(files, RequestedBlockers(q))
  BY DEF Good, StillValid
<1>6. blockers = kept \cup q.added
  BY <1>4 DEF RequestedBlockers, BlockedByEdits
<1>7. editorWrites = 0 /\ q.added # {} => q.id \notin Reachable(files, kept \cup q.added)
  <2>1. q.added # {} => RequestedBlockers(q) = kept \cup q.added
    BY <1>4 DEF RequestedBlockers, BlockedByEdits
  <2>2. QED
    BY <1>5, <2>1
<1>8. q.seen.blocked_by \in SUBSET TaskIds /\ kept \in SUBSET TaskIds
      /\ kept \in {{}, q.seen.blocked_by}
  BY <1>1 DEF TaskContents
<1> DEFINE content == [q.seen EXCEPT !.text = text, !.blocked_by = kept \cup q.added]
<1>9. files' = [files EXCEPT ![q.id] = content]
  BY <1>3, <1>6
<1> HIDE DEF blockers, kept
<1>10. content \in TaskContents
  BY <1>1, <1>4, <1>8 DEF TaskContents
<1>11. [files EXCEPT ![q.id].blocked_by = kept \cup q.added, ![q.id].text = text]
       = [files EXCEPT ![q.id] = content]
  <2>1. content = [[q.seen EXCEPT !.blocked_by = kept \cup q.added] EXCEPT !.text = text]
    BY <1>1, <1>4, <1>8 DEF TaskContents
  <2>2. files = [i \in TaskIds |-> files[i]]
    BY DEF Vaults
  <2> HIDE DEF content
  <2>3. QED
    BY <1>1, <2>1, <2>2
<1> HIDE DEF content
<1>12. Board!Open(q.id)
  BY <1>1, <1>2, SameWords DEF Board!Open
<1>13. editorWrites = 0 => Board!Edit(q.id, kept, q.added, text)
  BY <1>1, <1>5, <1>7, <1>8, <1>9, <1>11, <1>12, SameWords DEF Board!Edit
<1>14. editorWrites = 0 => Board!Next
  BY <1>1, <1>4, <1>8, <1>13, SameWords DEF Board!Next
<1>15. QED
  BY <1>1, <1>9, <1>10, <1>14 DEF Vaults

LEMMA CloseMaps ==
    ASSUME files \in Vaults, NEW q \in RequestStates, Good(q, files, editorWrites), q.step = "ready",
           q.op = "close", Writes(q)
    PROVE  Board!Next /\ files' \in Vaults
<1>1. /\ q.id \in TaskIds /\ files[q.id] = q.seen
      /\ q.seen \in TaskContents /\ q.seen # NoTask
      /\ q.seen.status \in AcceptedStatuses("close")
  BY SeenRecord DEF Updating
<1>2. q.seen.status = "active"
  BY <1>1 DEF AcceptedStatuses
<1>3. PICK status \in ClosedStatuses :
        files' = [files EXCEPT ![q.id] = [q.seen EXCEPT !.status = status, !.completed = TRUE]]
  <2>1. Written(q) = {[q.seen EXCEPT !.status = status, !.completed = TRUE] : status \in ClosedStatuses}
    BY Zenon DEF Written
  <2>2. PICK new \in Written(q) : files' = [files EXCEPT ![q.id] = new]
    BY DEF Writes
  <2>3. PICK status \in ClosedStatuses : new = [q.seen EXCEPT !.status = status, !.completed = TRUE]
    BY <2>1, <2>2
  <2>4. QED
    BY <2>2, <2>3
<1> DEFINE content == [q.seen EXCEPT !.status = status, !.completed = TRUE]
<1>4. content \in TaskContents
  BY <1>1 DEF TaskContents, ClosedStatuses, Statuses
<1>5. files' = [files EXCEPT ![q.id].status = status, ![q.id].completed = TRUE]
  BY <1>1, <1>3 DEF Vaults
<1>6. Board!Close(q.id, status)
  BY <1>1, <1>2, <1>5 DEF Board!Close
<1>7. Board!Next
  BY <1>1, <1>6, SameWords DEF Board!Next
<1> HIDE DEF content
<1>8. QED
  BY <1>1, <1>3, <1>4, <1>7 DEF Vaults, content

LEMMA BacklogMaps ==
    ASSUME files \in Vaults, NEW q \in RequestStates, Good(q, files, editorWrites), q.step = "ready",
           q.op = "backlog", Writes(q)
    PROVE  Board!Next /\ files' \in Vaults
<1>1. /\ q.id \in TaskIds /\ files[q.id] = q.seen
      /\ q.seen \in TaskContents /\ q.seen # NoTask
      /\ q.seen.status \in AcceptedStatuses("backlog")
  BY SeenRecord DEF Updating
<1>2. q.seen.status = "active"
  BY <1>1 DEF AcceptedStatuses
<1>3. files' = [files EXCEPT ![q.id] = [q.seen EXCEPT !.status = "backlog"]]
  <2>1. Written(q) = {[q.seen EXCEPT !.status = "backlog"]}
    BY Zenon DEF Written
  <2>2. QED
    BY <2>1 DEF Writes
<1>4. [q.seen EXCEPT !.status = "backlog"] \in TaskContents
  BY <1>1 DEF TaskContents, Statuses
<1>5. Board!Backlog(q.id)
  BY <1>1, <1>2, <1>3 DEF Board!Backlog
<1>6. Board!Next
  BY <1>1, <1>5, SameWords DEF Board!Next
<1>7. QED
  BY <1>1, <1>3, <1>4, <1>6 DEF Vaults

LEMMA ActivateMaps ==
    ASSUME files \in Vaults, NEW q \in RequestStates, Good(q, files, editorWrites), q.step = "ready",
           q.op = "activate", Writes(q)
    PROVE  Board!Next /\ files' \in Vaults
<1>1. /\ q.id \in TaskIds /\ files[q.id] = q.seen
      /\ q.seen \in TaskContents /\ q.seen # NoTask
      /\ q.seen.status \in AcceptedStatuses("activate")
  BY SeenRecord DEF Updating
<1>2. q.seen.status # "active"
  BY <1>1 DEF AcceptedStatuses
<1> DEFINE content == [q.seen EXCEPT !.status = "active", !.completed = FALSE]
<1>3. files' = [files EXCEPT ![q.id] = content]
  <2>1. Written(q) = {content}
    BY Zenon DEF Written
  <2> HIDE DEF content
  <2>2. QED
    BY <2>1 DEF Writes
<1>4. content \in TaskContents
  BY <1>1 DEF TaskContents, Statuses
<1>5. files' = [files EXCEPT ![q.id].status = "active", ![q.id].completed = FALSE]
  BY <1>1, <1>3 DEF Vaults
<1>6. Board!Activate(q.id)
  BY <1>1, <1>2, <1>5 DEF Board!Activate
<1>7. Board!Next
  BY <1>1, <1>6, SameWords DEF Board!Next
<1> HIDE DEF content
<1>8. QED
  BY <1>1, <1>3, <1>4, <1>7 DEF Vaults

LEMMA DeleteMaps ==
    ASSUME files \in Vaults, NEW q \in RequestStates, Good(q, files, editorWrites), q.step = "ready",
           q.op = "delete", Writes(q)
    PROVE  (editorWrites = 0 => Board!Next) /\ files' \in Vaults
<1>1. q.id \in TaskIds /\ q.seen # NoTask /\ (editorWrites = 0 => Dependents(files, q.id) = {})
  BY DEF Good, RightTarget, RightRecord, StillValid
<1>2. files[q.id] = q.seen
  BY DEF Writes, Required, Creating
<1>3. files' = [files EXCEPT ![q.id] = NoTask]
  BY DEF Writes, Written
<1>4. editorWrites = 0 => Board!Remove(q.id)
  BY <1>1, <1>2, <1>3, SameWords DEF Board!Remove
<1>5. editorWrites = 0 => Board!Next
  BY <1>1, <1>4, SameWords DEF Board!Next
<1>6. QED
  BY <1>3, <1>5 DEF Vaults

\* Whatever a command writes is what the board allows then.
LEMMA WritesMap ==
    ASSUME files \in Vaults, NEW q \in RequestStates, Good(q, files, editorWrites), q.step = "ready", Writes(q)
    PROVE  (editorWrites = 0 => Board!Next) /\ files' \in Vaults
<1>1. q.op \in Creating \cup Updating \cup {"delete"}
  BY OperationNames DEF Good, RightOperation
<1>2. q.op \in Creating \/ q.op \in {"edit", "close", "backlog", "activate", "delete"}
  BY <1>1 DEF Updating
<1>3. QED
  BY <1>2, CreateMaps, EditMaps, CloseMaps, BacklogMaps, ActivateMaps, DeleteMaps

LEMMA CommitKeepsInv ==
    ASSUME Inv, NEW r \in Requests, Commit(r)
    PROVE  Inv' /\ (editorWrites = 0 => Board!Next \/ UNCHANGED files)
<1>1. /\ req[r].step = "ready" /\ lock = r /\ Finish(r)
      /\ UNCHANGED <<last, editorWrites, crashes>>
  BY DEF Commit, Holding, At
<1>2. req[r] \in RequestStates /\ Good(req[r], files, editorWrites) /\ files \in Vaults
      /\ last \in 0 .. MaxTaskNumber
  BY DEF Inv, TypeOK
<1>3. Writes(req[r]) \/ UNCHANGED files
  BY DEF Commit, Writes
<1>4. files' \in Vaults /\ (editorWrites = 0 => Board!Next \/ UNCHANGED files)
  BY <1>1, <1>2, <1>3, WritesMap
<1>5. Inv'
  BY <1>1, <1>2, <1>4, FinishKeepsInv
<1>6. QED
  BY <1>4, <1>5

-----------------------------------------------------------------------------
(* The other steps change no file. *)

\* A command may end at any step without having written.
LEMMA EndingKeepsInv ==
    ASSUME Inv, NEW r \in Requests, CommitFails(r) \/ Cancel(r) \/ Decline(r)
    PROVE  Inv' /\ UNCHANGED files
<1>1. Finish(r) /\ UNCHANGED <<files, last, editorWrites, crashes>>
  BY DEF CommitFails, Cancel, Decline
<1>2. files \in Vaults /\ last \in 0 .. MaxTaskNumber
  BY DEF Inv, TypeOK
<1>3. QED
  BY <1>1, <1>2, FinishKeepsInv

LEMMA CrashKeepsInv ==
    ASSUME Inv, Crash
    PROVE  Inv' /\ UNCHANGED files
<1>1. /\ crashes < MaxCrashes /\ crashes' = crashes + 1 /\ lock' = Free
      /\ UNCHANGED <<files, last, editorWrites>>
  BY DEF Crash
<1>2. req' = [r \in Requests |-> IF At(r, "idle") THEN Idle ELSE Ended]
  BY DEF Crash, Ended
<1>3. /\ Ended \in RequestStates /\ Good(Ended, files, editorWrites) /\ Ended.step = "done"
      /\ Idle \in RequestStates /\ Good(Idle, files, editorWrites) /\ Idle.step = "idle"
  BY EndedIsGood
<1> HIDE DEF Ended, Idle
<1>4. ASSUME NEW r \in Requests
      PROVE  req'[r] \in {Idle, Ended}
  BY <1>2
<1>5. req' \in [Requests -> RequestStates]
  BY <1>2, <1>3
<1>6. ASSUME NEW r \in Requests
      PROVE  lock' = r <=> req'[r].step \in LockedSteps
  BY <1>1, <1>3, <1>4, RequestsAssumption DEF LockedSteps
<1>7. crashes' \in 0 .. MaxCrashes
  BY <1>1, RequestsAssumption DEF Inv, TypeOK
<1>8. TypeOK'
  BY <1>1, <1>5, <1>6, <1>7 DEF Inv, TypeOK
<1>9. ASSUME NEW r \in Requests
      PROVE  Good(req[r], files, editorWrites)'
  BY <1>1, <1>3, <1>4
<1>10. QED
  BY <1>1, <1>8, <1>9 DEF Inv

LEMMA EditorWriteKeepsInv ==
    ASSUME Inv, NEW id \in TaskIds, NEW content \in TaskContents \cup {NoTask},
           EditorWrite(id, content)
    PROVE  Inv' /\ editorWrites < MaxEditorWrites
<1>1. /\ editorWrites < MaxEditorWrites /\ editorWrites' = editorWrites + 1
      /\ files' = [files EXCEPT ![id] = content]
      /\ UNCHANGED <<last, lock, req, crashes>>
  BY DEF EditorWrite
<1>2. files' \in Vaults
  BY <1>1 DEF Inv, TypeOK, Vaults
<1>3. editorWrites' \in 0 .. MaxEditorWrites /\ editorWrites' # 0
  BY <1>1, RequestsAssumption DEF Inv, TypeOK
<1>4. TypeOK'
  BY <1>1, <1>2, <1>3 DEF Inv, TypeOK
<1>5. ASSUME NEW r \in Requests
      PROVE  Good(req[r], files, editorWrites)'
  BY <1>1, <1>3 DEF Inv, Good, StillValid
<1>6. QED
  BY <1>1, <1>4, <1>5 DEF Inv

\* Every step keeps the invariant, and is a step of the board or none while
\* nobody saves a file in an editor.
LEMMA StepsMap ==
    ASSUME Inv, [Next]_vars
    PROVE  Inv' /\ (MaxEditorWrites = 0 => [Board!Next]_files)
<1>0. MaxEditorWrites = 0 => editorWrites = 0
  BY DEF Inv, TypeOK
<1>1. CASE UNCHANGED vars
  BY <1>1
     DEF vars, Inv, TypeOK, Good, RightOperation, RightTarget, RightRecord, StillValid
<1>2. ASSUME NEW r \in Requests, ClientStep(r)
      PROVE  Inv' /\ UNCHANGED files
  <2>1. CASE \E op \in Operations, id \in 0 .. MaxTaskNumber, mode \in BlockedByEdits,
                added \in SUBSET TaskIds :
               \E expected \in DisplayedRevisions(id) : Send(r, op, id, expected, mode, added)
    <3>1. PICK op \in Operations, id \in 0 .. MaxTaskNumber, mode \in BlockedByEdits,
               added \in SUBSET TaskIds :
                 \E expected \in DisplayedRevisions(id) : Send(r, op, id, expected, mode, added)
      BY <2>1
    <3>2. PICK expected \in DisplayedRevisions(id) : Send(r, op, id, expected, mode, added)
      BY <3>1
    <3>3. UNCHANGED files
      BY <3>2 DEF Send
    <3>4. QED
      BY <3>2, <3>3, SendKeepsInv
  <2>2. CASE Confirm(r)
    BY <2>2, ConfirmKeepsInv DEF Confirm
  <2>3. CASE Decline(r) \/ Cancel(r)
    BY <2>3, EndingKeepsInv
  <2>4. QED
    BY <1>2, <2>1, <2>2, <2>3 DEF ClientStep
<1>3. ASSUME NEW r \in Requests, Lock(r)
      PROVE  Inv' /\ UNCHANGED files
  <2>1. CASE Acquire(r)
    BY <2>1, AcquireKeepsInv DEF Acquire
  <2>2. CASE AcquireAfterDecision(r)
    BY <2>2, AcquireAfterDecisionKeepsInv DEF AcquireAfterDecision
  <2>3. QED
    BY <1>3, <2>1, <2>2 DEF Lock
<1>4. ASSUME NEW r \in Requests, ServerStep(r)
      PROVE  Inv' /\ (editorWrites = 0 => [Board!Next]_files)
  <2>1. CASE ReadRecord(r)
    BY <2>1, ReadRecordKeepsInv DEF ReadRecord
  <2>2. CASE Reserve(r)
    BY <2>2, ReserveKeepsInv DEF Reserve
  <2>3. CASE ValidateLinks(r)
    BY <2>3, ValidateLinksKeepsInv DEF ValidateLinks
  <2>4. CASE ReadTarget(r)
    BY <2>4, ReadTargetKeepsInv DEF ReadTarget
  <2>5. CASE RejectDependents(r)
    BY <2>5, RejectDependentsKeepsInv DEF RejectDependents
  <2>6. CASE Commit(r)
    BY <2>6, CommitKeepsInv
  <2>7. CASE CommitFails(r)
    BY <2>7, EndingKeepsInv
  <2>8. QED
    BY <1>4, <2>1, <2>2, <2>3, <2>4, <2>5, <2>6, <2>7 DEF ServerStep
<1>5. ASSUME NEW id \in TaskIds, NEW content \in TaskContents \cup {NoTask},
             EditorWrite(id, content)
      PROVE  Inv' /\ MaxEditorWrites # 0
  <2>1. Inv' /\ editorWrites < MaxEditorWrites
    BY <1>5, EditorWriteKeepsInv
  <2>2. editorWrites \in Nat
    BY RequestsAssumption DEF Inv, TypeOK
  <2>3. QED
    BY <2>1, <2>2
<1>6. CASE Crash
  BY <1>6, CrashKeepsInv
<1>7. QED
  BY <1>0, <1>1, <1>2, <1>3, <1>4, <1>5, <1>6 DEF Next

LEMMA InitMaps == Init => Inv /\ Board!Init
<1> SUFFICES ASSUME Init PROVE Inv /\ Board!Init
  OBVIOUS
<1>1. /\ files \in InitialVaults /\ files \in Vaults
      /\ lock = Free /\ req = [r \in Requests |-> Idle]
      /\ editorWrites = 0 /\ crashes = 0 /\ last \in 0 .. MaxTaskNumber
  BY InitialVaultsAssumption DEF Init
<1>2. Idle \in RequestStates /\ Good(Idle, files, editorWrites) /\ Idle.step = "idle"
  BY EndedIsGood
<1> HIDE DEF Idle
<1>3. \A r \in Requests : req[r] = Idle
  BY <1>1
<1>4. TypeOK
  BY <1>1, <1>2, <1>3, RequestsAssumption DEF TypeOK, LockedSteps
<1>5. QED
  BY <1>1, <1>2, <1>3, <1>4 DEF Inv, Board!Init

\* As long as nobody saves files in an editor meanwhile, the many steps of any
\* number of commands, with crashes in between, are atomic operations of the
\* task board: each validated what it relies on under the lock that it still
\* holds when it commits (services/task.rs, task_mutation.rs).
THEOREM CommandsAreAtomic ==
    ASSUME MaxEditorWrites = 0
    PROVE  Spec => ImplementsBoard
<1>1. Init => Inv /\ Board!Init
  BY InitMaps
<1>2. Inv /\ [Next]_vars => Inv' /\ [Board!Next]_files
  BY StepsMap
<1>3. QED
  BY <1>1, <1>2, PTL DEF Spec, ImplementsBoard, Board!Spec

-----------------------------------------------------------------------------
(* Nobody's save is lost. *)

\* What the commands rely on holds in every reachable state.
THEOREM Invariance == Spec => []Inv
<1>1. Init => Inv
  BY InitMaps
<1>2. Inv /\ [Next]_vars => Inv'
  BY StepsMap
<1>3. QED
  BY <1>1, <1>2, PTL DEF Spec

\* The requests stay in their states, the lock is owned exactly during the
\* locked steps, for any numbers of commands, tasks, saves and crashes
\* (services/task.rs takes the guard, confirmation.rs drops it).
THEOREM CommandsAreTyped == Spec => []TypeOK
<1>1. Inv => TypeOK
  BY DEF Inv
<1>2. QED
  BY <1>1, Invariance, PTL

\* Which steps write: commits to files, and saves in an editor.
LEMMA WhoWrites ==
    ASSUME NEW r \in Requests, ClientStep(r) \/ Lock(r) \/ ServerStep(r)
    PROVE  editorWrites' = editorWrites /\ (Commit(r) \/ files' = files)
<1>1. ASSUME ClientStep(r)
      PROVE  editorWrites' = editorWrites /\ files' = files
  BY <1>1 DEF ClientStep, Send, Confirm, Decline, Cancel
<1>2. ASSUME Lock(r)
      PROVE  editorWrites' = editorWrites /\ files' = files
  BY <1>2 DEF Lock, Acquire, AcquireAfterDecision
<1>3. ASSUME ReadRecord(r) \/ Reserve(r) \/ ValidateLinks(r) \/ ReadTarget(r)
             \/ RejectDependents(r) \/ CommitFails(r)
      PROVE  editorWrites' = editorWrites /\ files' = files
  BY <1>3 DEF ReadRecord, Reserve, ValidateLinks, ReadTarget, RejectDependents, CommitFails
<1>4. Commit(r) => editorWrites' = editorWrites
  BY DEF Commit
<1>5. QED
  BY <1>1, <1>2, <1>3, <1>4 DEF ServerStep

\* A command changes a file only in its commit, and there what it read.
LEMMA OnlyCommitsChange ==
    ASSUME Inv, [Next]_vars, NEW id \in TaskIds, files'[id] # files[id],
           editorWrites' = editorWrites
    PROVE  \E r \in Requests :
             /\ Commit(r) /\ id = req[r].id /\ files[id] = Required(req[r])
             /\ \A u \in Requests : u # r => req'[u] = req[u]
<1>1. files' # files
  OBVIOUS
<1>2. editorWrites \in Nat
  BY RequestsAssumption DEF Inv, TypeOK
<1>3. PICK r \in Requests : Commit(r)
  <2>1. CASE UNCHANGED vars
    BY <1>1, <2>1 DEF vars
  <2>2. CASE \E r \in Requests : ClientStep(r) \/ Lock(r) \/ ServerStep(r)
    BY <1>1, <2>2, WhoWrites
  <2>3. ASSUME NEW i, NEW content, EditorWrite(i, content)
        PROVE  FALSE
    BY <1>2, <2>3 DEF EditorWrite
  <2>4. CASE Crash
    BY <1>1, <2>4 DEF Crash
  <2>5. QED
    BY <2>1, <2>2, <2>3, <2>4 DEF Next
<1>4. files[req[r].id] = Required(req[r]) /\ id = req[r].id
  <2>1. PICK content : /\ files[req[r].id] = Required(req[r])
                       /\ files' = [files EXCEPT ![req[r].id] = content]
    BY <1>1, <1>3 DEF Commit
  <2>2. files \in Vaults
    BY DEF Inv, TypeOK
  <2>3. QED
    BY <2>1, <2>2 DEF Vaults
<1>5. \A u \in Requests : u # r => req'[u] = req[u]
  BY <1>3 DEF Commit, Finish, Inv, TypeOK
<1>6. QED
  BY <1>3, <1>4, <1>5

\* What the commit of a command on an existing task replaces.
LEMMA ReplacesWhatWasSeen ==
    ASSUME Inv, NEW r \in Requests, req[r].step = "ready",
           files[req[r].id] = Required(req[r]), files[req[r].id] # NoTask
    PROVE  /\ req[r].op \in Updating \cup {"delete"}
           /\ files[req[r].id] = req[r].seen
           /\ ExpectedRevisionHolds(req[r], req[r].seen)
           /\ req[r].op \in Updating => req[r].seen.status \in AcceptedStatuses(req[r].op)
<1> DEFINE q == req[r]
<1>1. q \in RequestStates /\ Good(q, files, editorWrites)
  BY DEF Inv, TypeOK
<1>2. q.op \in Creating \cup Updating \cup {"delete"}
  BY <1>1, OperationNames DEF Good, RightOperation
<1>3. q.op \notin Creating /\ files[q.id] = q.seen
  BY DEF Required, Creating
<1>4. q.op \in Updating => q.seen.status \in AcceptedStatuses(q.op) /\ q.expected \in {AnyRevision, q.seen}
  BY <1>1 DEF Good, RightRecord
<1>5. q.op = "delete" => q.expected = AnyRevision
  BY <1>1 DEF Good, RightTarget
<1>6. QED
  BY <1>2, <1>3, <1>4, <1>5 DEF ExpectedRevisionHolds

\* Whatever other commands, editors and crashes do, a write of the server
\* replaces what its command read and the revision its client named
\* (task_mutation.rs commit_task_writes_impl).
THEOREM NobodysSaveIsLost == Spec => NoLostUpdate
<1>1. ASSUME Inv, [Next]_vars, NEW r \in Requests, NEW id \in TaskIds,
             files'[id] # files[id], files[id] # NoTask, At(r, "ready"),
             req'[r].step = "done", crashes' = crashes
      PROVE  files[id] = req[r].seen /\ ExpectedRevisionHolds(req[r], files[id])
  <2>1. req[r].step = "ready" /\ req'[r] # req[r]
    BY <1>1 DEF At
  <2>2. editorWrites' = editorWrites
    <3>1. CASE UNCHANGED vars
      BY <3>1 DEF vars
    <3>2. CASE \E u \in Requests : ClientStep(u) \/ Lock(u) \/ ServerStep(u)
      BY <3>2, WhoWrites
    <3>3. ASSUME NEW i, NEW content, EditorWrite(i, content)
          PROVE  FALSE
      BY <2>1, <3>3 DEF EditorWrite
    <3>4. CASE Crash
      BY <1>1, <3>4, RequestsAssumption DEF Crash, Inv, TypeOK
    <3>5. QED
      BY <1>1, <3>1, <3>2, <3>3, <3>4 DEF Next
  <2>3. PICK w \in Requests :
          /\ Commit(w) /\ id = req[w].id /\ files[id] = Required(req[w])
          /\ \A u \in Requests : u # w => req'[u] = req[u]
    BY <1>1, <2>2, OnlyCommitsChange
  <2>4. w = r
    BY <2>1, <2>3
  <2>5. QED
    BY <1>1, <2>1, <2>3, <2>4, ReplacesWhatWasSeen
<1>2. Inv /\ [Next]_vars =>
        [\A r \in Requests : \A id \in TaskIds :
           (files'[id] # files[id] /\ files[id] # NoTask
              /\ At(r, "ready") /\ req'[r].step = "done" /\ crashes' = crashes)
             => /\ files[id] = req[r].seen
                /\ ExpectedRevisionHolds(req[r], files[id])]_vars
  BY <1>1
<1>3. QED
  BY <1>2, Invariance, PTL DEF Spec, NoLostUpdate

\* Whatever other commands, editors and crashes do, the server changes a closed
\* task only to reactivate or to remove it, and only while it still is what the
\* user was shown (activate_task.rs, remove_task.rs).
THEOREM ClosedTasksStayClosed == Spec => ClosedTasksChangeByConfirmation
<1>1. ASSUME Inv, [Next]_vars, NEW id \in TaskIds, files[id] # NoTask,
             files[id].status \in ClosedStatuses, files'[id] # files[id],
             editorWrites' = editorWrites
      PROVE  \E r \in Requests :
               /\ req[r].op \in {"activate", "delete"}
               /\ req[r].seen = files[id]
               /\ req[r].id = id
               /\ Holding(r, "ready")
  <2>1. PICK r \in Requests :
          Commit(r) /\ id = req[r].id /\ files[id] = Required(req[r])
    BY <1>1, OnlyCommitsChange
  <2>2. Holding(r, "ready") /\ req[r].step = "ready"
    BY <2>1 DEF Commit, Holding, At
  <2>3. /\ req[r].op \in Updating \cup {"delete"}
        /\ files[id] = req[r].seen
        /\ req[r].op \in Updating => req[r].seen.status \in AcceptedStatuses(req[r].op)
    BY <1>1, <2>1, <2>2, ReplacesWhatWasSeen
  <2>4. req[r].op \notin {"edit", "close", "backlog"}
    <3>1. ASSUME req[r].op = "edit" PROVE FALSE
      <4>1. AcceptedStatuses(req[r].op) = Statuses \ ClosedStatuses
        BY <3>1 DEF AcceptedStatuses
      <4>2. QED
        BY <1>1, <2>3, <3>1, <4>1 DEF Updating
    <3>2. ASSUME req[r].op \in {"close", "backlog"} PROVE FALSE
      <4>1. AcceptedStatuses(req[r].op) = {"active"}
        BY <3>2, Zenon DEF AcceptedStatuses
      <4>2. QED
        BY <1>1, <2>3, <3>2, <4>1 DEF Updating, ClosedStatuses
    <3>3. QED
      BY <3>1, <3>2
  <2>5. QED
    BY <2>1, <2>2, <2>3, <2>4 DEF Updating
<1>2. Inv /\ [Next]_vars =>
        [\A id \in TaskIds :
           (files[id] # NoTask /\ files[id].status \in ClosedStatuses
              /\ files'[id] # files[id] /\ editorWrites' = editorWrites)
             => \E r \in Requests :
                  /\ req[r].op \in {"activate", "delete"}
                  /\ req[r].seen = files[id]
                  /\ req[r].id = id
                  /\ Holding(r, "ready")]_vars
  BY <1>1
<1>3. QED
  BY <1>2, Invariance, PTL DEF Spec, ClosedTasksChangeByConfirmation

=============================================================================
