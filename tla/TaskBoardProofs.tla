-------------------------- MODULE TaskBoardProofs --------------------------
(***************************************************************************)
(* The task board keeps its dependency graph acyclic and complete, for any *)
(* number of tasks, a graph query shows what it read of it, for any        *)
(* limits, and the pages of a listing add up to what was listed, for any   *)
(* number of clients.                                                      *)
(***************************************************************************)
EXTENDS TaskQueries, FiniteSetTheorems, SequenceTheorems, WellFoundedInduction, TLAPS

\* The blockers of a task are task ids.
LEMMA BlockersAreIds ==
    ASSUME NEW vault \in Vaults, NEW id \in TaskIds
    PROVE  BlockersOf(vault, id) \in SUBSET TaskIds
<1>1. CASE vault[id] = NoTask
  BY <1>1 DEF BlockersOf
<1>2. CASE vault[id] # NoTask
  <2>1. vault[id] \in TaskContents
    BY <1>2 DEF Vaults
  <2>2. QED
    BY <1>2, <2>1 DEF BlockersOf, TaskContents
<1>3. QED
  BY <1>1, <1>2

\* Reachable holds the blockers it starts from and is closed: what the search
\* of the dependency reader visits (read_task_dependencies.rs execute).
LEMMA ReachableClosed ==
    ASSUME NEW vault \in Vaults, NEW blockers \in SUBSET TaskIds
    PROVE  /\ blockers \subseteq Reachable(vault, blockers)
           /\ ClosedUnderBlockers(vault, Reachable(vault, blockers))
<1>1. blockers \subseteq Reachable(vault, blockers)
  BY DEF Reachable
<1>2. ASSUME NEW id \in Reachable(vault, blockers), NEW next \in BlockersOf(vault, id)
      PROVE  next \in Reachable(vault, blockers)
  <2>1. id \in TaskIds
    BY DEF Reachable
  <2>2. next \in TaskIds
    BY <2>1, BlockersAreIds
  <2>3. ASSUME NEW ids \in SUBSET TaskIds,
               blockers \subseteq ids, ClosedUnderBlockers(vault, ids)
        PROVE  next \in ids
    <3>1. id \in ids
      BY <2>3 DEF Reachable
    <3>2. QED
      BY <3>1, <2>3 DEF ClosedUnderBlockers
  <2>4. QED
    BY <2>2, <2>3 DEF Reachable
<1>3. QED
  BY <1>1, <1>2 DEF ClosedUnderBlockers

\* Taking blockers away cannot close a cycle.
LEMMA FewerBlockersAcyclic ==
    ASSUME NEW old, NEW new, AcyclicBlockers(old),
           \A id \in TaskIds : BlockersOf(new, id) \subseteq BlockersOf(old, id)
    PROVE  AcyclicBlockers(new)
<1> SUFFICES ASSUME NEW ids \in SUBSET TaskIds, ids # {}
             PROVE  \E id \in ids : BlockersOf(new, id) \cap ids = {}
  BY DEF AcyclicBlockers
<1>1. PICK id \in ids : BlockersOf(old, id) \cap ids = {}
  BY DEF AcyclicBlockers
<1>2. BlockersOf(new, id) \cap ids = {}
  BY <1>1
<1>3. QED
  BY <1>2

\* Giving a task blockers that do not lead back to it cannot close a cycle.
LEMMA UnreachedLinkAcyclic ==
    ASSUME NEW old \in Vaults, NEW new, AcyclicBlockers(old),
           NEW target \in TaskIds, NEW blockers \in SUBSET TaskIds,
           target \notin Reachable(old, blockers),
           BlockersOf(new, target) \subseteq blockers,
           \A id \in TaskIds \ {target} : BlockersOf(new, id) = BlockersOf(old, id)
    PROVE  AcyclicBlockers(new)
<1> DEFINE reached == Reachable(old, blockers)
<1> SUFFICES ASSUME NEW ids \in SUBSET TaskIds, ids # {},
                    \A id \in ids : BlockersOf(new, id) \cap ids # {}
             PROVE  FALSE
  BY DEF AcyclicBlockers
<1>1. blockers \subseteq reached /\ ClosedUnderBlockers(old, reached)
  BY ReachableClosed
<1>2. CASE target \in ids
  \* The members that the new blockers lead to already formed a cycle.
  <2>1. PICK first : first \in BlockersOf(new, target) /\ first \in ids
    BY <1>2
  <2>2. ids \cap reached # {}
    BY <2>1, <1>1
  <2>3. ASSUME NEW id \in ids \cap reached
        PROVE  BlockersOf(old, id) \cap (ids \cap reached) # {}
    <3>1. id # target
      BY DEF reached
    <3>2. PICK next : next \in BlockersOf(old, id) /\ next \in ids
      BY <3>1
    <3>3. next \in reached
      BY <3>2, <1>1 DEF ClosedUnderBlockers
    <3>4. QED
      BY <3>2, <3>3
  <2>4. QED
    BY <2>2, <2>3 DEF AcyclicBlockers
<1>3. CASE target \notin ids
  <2>1. \A id \in ids : BlockersOf(old, id) \cap ids # {}
    BY <1>3
  <2>2. QED
    BY <2>1 DEF AcyclicBlockers
<1>4. QED
  BY <1>2, <1>3

-----------------------------------------------------------------------------
\* The invariant of the board: each part needs the others, since a new task can
\* only be linked safely when nothing refers to its id yet.
BoardInv == TypeOK /\ WellFormed(board)

LEMMA NewTaskIsContents ==
    ASSUME NEW blockers \in SUBSET TaskIds, NEW text \in Texts
    PROVE  NewTask(blockers, text) \in TaskContents
BY DEF NewTask, TaskContents, Statuses

\* Creating a task with existing blockers keeps the invariant: the existing
\* tasks are closed under blockers, so the new id is not reached from them.
LEMMA CreateSafe ==
    ASSUME BoardInv, NEW id \in TaskIds, NEW blockers \in SUBSET TaskIds,
           NEW text \in Texts, Create(id, blockers, text)
    PROVE  BoardInv'
<1> USE DEF BoardInv, TypeOK
<1>1. NewTask(blockers, text) \in TaskContents
  BY NewTaskIsContents
<1>2. TypeOK'
  BY <1>1 DEF Create, Vaults
<1>3. NewTask(blockers, text) # NoTask
  BY <1>1, NoTaskAssumption
<1>4. board'[id] = NewTask(blockers, text) /\ \A other \in TaskIds \ {id} : board'[other] = board[other]
  BY DEF Create, Vaults
<1>5. Existing(board') = Existing(board) \cup {id}
  BY <1>3, <1>4 DEF Existing
<1>6. BlockersOf(board', id) = blockers
  BY <1>3, <1>4 DEF BlockersOf, NewTask
<1>7. \A other \in TaskIds \ {id} : BlockersOf(board', other) = BlockersOf(board, other)
  BY <1>4 DEF BlockersOf
<1>8. id \notin Reachable(board, blockers)
  <2>1. ClosedUnderBlockers(board, Existing(board))
    BY DEF WellFormed, NoDanglingBlockers, ClosedUnderBlockers, BlockersOf, Existing
  <2>2. blockers \subseteq Existing(board) /\ id \notin Existing(board)
    BY DEF Create, Existing
  <2>3. Existing(board) \in SUBSET TaskIds
    BY DEF Existing
  <2>4. QED
    BY <2>1, <2>2, <2>3 DEF Reachable
<1>9. AcyclicBlockers(board')
  BY <1>6, <1>7, <1>8, UnreachedLinkAcyclic DEF WellFormed
<1>10. NoDanglingBlockers(board')
  BY <1>4, <1>5 DEF WellFormed, NoDanglingBlockers, Create, NewTask, Existing
<1>11. CompletedWhenClosed(board')
  BY <1>4, <1>5 DEF WellFormed, CompletedWhenClosed, NewTask, ClosedStatuses, Existing
<1>12. QED
  BY <1>2, <1>9, <1>10, <1>11 DEF WellFormed

\* An edit keeps the invariant, whether it drops blockers or adds some.
LEMMA EditSafe ==
    ASSUME BoardInv, NEW id \in TaskIds, NEW kept \in SUBSET TaskIds,
           NEW added \in SUBSET TaskIds, NEW text \in Texts, Edit(id, kept, added, text)
    PROVE  BoardInv'
<1> USE DEF BoardInv, TypeOK
<1>1. board[id] \in TaskContents /\ board[id] # NoTask
  BY DEF Edit, Open, Vaults
<1> DEFINE edited == [board[id] EXCEPT !.blocked_by = kept \cup added, !.text = text]
<1>2. edited \in TaskContents
  BY <1>1 DEF TaskContents
<1>3. edited # NoTask
  BY <1>2, NoTaskAssumption
<1>4. board' = [board EXCEPT ![id] = edited]
  BY DEF Edit
<1> HIDE DEF edited
<1>5. TypeOK'
  BY <1>2, <1>4 DEF Vaults
<1>6. board'[id] = edited /\ \A other \in TaskIds \ {id} : board'[other] = board[other]
  BY <1>4 DEF Vaults
<1>7. Existing(board') = Existing(board)
  BY <1>1, <1>3, <1>6 DEF Existing
<1>8. /\ edited.blocked_by = kept \cup added
      /\ edited.status = board[id].status
      /\ edited.completed = board[id].completed
  BY <1>1 DEF edited, TaskContents
<1>9. BlockersOf(board', id) = kept \cup added
  BY <1>3, <1>6, <1>8 DEF BlockersOf
<1>10. \A other \in TaskIds \ {id} : BlockersOf(board', other) = BlockersOf(board, other)
  BY <1>6 DEF BlockersOf
<1>11. AcyclicBlockers(board')
  <2>1. CASE added = {}
    <3>1. BlockersOf(board', id) \subseteq BlockersOf(board, id)
      BY <1>1, <1>9, <2>1 DEF Edit, BlockersOf
    <3>2. \A other \in TaskIds : BlockersOf(board', other) \subseteq BlockersOf(board, other)
      BY <3>1, <1>10
    <3>3. QED
      BY <3>2, FewerBlockersAcyclic DEF WellFormed
  <2>2. CASE added # {}
    <3>1. id \notin Reachable(board, kept \cup added)
      BY <2>2 DEF Edit
    <3>2. kept \cup added \in SUBSET TaskIds
      OBVIOUS
    <3>3. QED
      BY <3>1, <3>2, <1>9, <1>10, UnreachedLinkAcyclic DEF WellFormed
  <2>3. QED
    BY <2>1, <2>2
<1>12. NoDanglingBlockers(board')
  <2>1. kept \cup added \subseteq Existing(board)
    BY <1>1 DEF Edit, WellFormed, NoDanglingBlockers, Existing
  <2>2. QED
    BY <2>1, <1>6, <1>7, <1>8 DEF WellFormed, NoDanglingBlockers, Existing
<1>13. CompletedWhenClosed(board')
  BY <1>6, <1>7, <1>8 DEF WellFormed, CompletedWhenClosed, Existing
<1>14. QED
  BY <1>5, <1>11, <1>12, <1>13 DEF WellFormed

\* A change of status keeps the invariant as long as it moves the completion
\* data along with it: the graph is left alone.
LEMMA StatusChangeSafe ==
    ASSUME BoardInv, NEW id \in TaskIds, board[id] # NoTask,
           NEW status \in Statuses, NEW completed \in BOOLEAN,
           completed <=> status \in ClosedStatuses,
           board' = [board EXCEPT ![id] =
                       [board[id] EXCEPT !.status = status, !.completed = completed]]
    PROVE  BoardInv'
<1> USE DEF BoardInv, TypeOK
<1> DEFINE changed == [board[id] EXCEPT !.status = status, !.completed = completed]
<1>1. board[id] \in TaskContents
  BY DEF Vaults
<1>2. changed \in TaskContents
  BY <1>1 DEF TaskContents
<1>3. changed # NoTask
  BY <1>2, NoTaskAssumption
<1>4. /\ changed.blocked_by = board[id].blocked_by
      /\ changed.status = status
      /\ changed.completed = completed
  BY <1>1 DEF TaskContents
<1> HIDE DEF changed
<1>5. TypeOK'
  BY <1>2 DEF Vaults, changed
<1>6. board'[id] = changed /\ \A other \in TaskIds \ {id} : board'[other] = board[other]
  BY DEF Vaults, changed
<1>7. Existing(board') = Existing(board)
  BY <1>3, <1>6 DEF Existing
<1>8. ASSUME NEW other \in TaskIds
      PROVE  BlockersOf(board', other) \subseteq BlockersOf(board, other)
  <2>1. CASE other = id
    BY <2>1, <1>3, <1>4, <1>6 DEF BlockersOf
  <2>2. CASE other # id
    BY <2>2, <1>6 DEF BlockersOf
  <2>3. QED
    BY <2>1, <2>2
<1>9. AcyclicBlockers(board')
  BY <1>8, FewerBlockersAcyclic DEF WellFormed
<1>10. NoDanglingBlockers(board')
  BY <1>4, <1>6, <1>7 DEF WellFormed, NoDanglingBlockers, Existing
<1>11. CompletedWhenClosed(board')
  BY <1>4, <1>6, <1>7 DEF WellFormed, CompletedWhenClosed, Existing
<1>12. QED
  BY <1>5, <1>9, <1>10, <1>11 DEF WellFormed

\* Removing a task that blocks no other leaves no dangling blocker.
LEMMA RemoveSafe ==
    ASSUME BoardInv, NEW id \in TaskIds, Remove(id)
    PROVE  BoardInv'
<1> USE DEF BoardInv, TypeOK
<1>1. TypeOK'
  BY DEF Remove, Vaults
<1>2. board'[id] = NoTask /\ \A other \in TaskIds \ {id} : board'[other] = board[other]
  BY DEF Remove, Vaults
<1>3. Existing(board') = Existing(board) \ {id}
  BY <1>2 DEF Existing
<1>4. \A other \in TaskIds : BlockersOf(board', other) \subseteq BlockersOf(board, other)
  BY <1>2 DEF BlockersOf
<1>5. AcyclicBlockers(board')
  BY <1>4, FewerBlockersAcyclic DEF WellFormed
<1>6. NoDanglingBlockers(board')
  BY <1>2, <1>3 DEF WellFormed, NoDanglingBlockers, Remove, Dependents, Existing
<1>7. CompletedWhenClosed(board')
  BY <1>2, <1>3 DEF WellFormed, CompletedWhenClosed, Existing
<1>8. QED
  BY <1>1, <1>5, <1>6, <1>7 DEF WellFormed

\* One command keeps the board well-formed.
LEMMA BoardStep == BoardInv /\ [Next]_board => BoardInv'
<1> SUFFICES ASSUME BoardInv, [Next]_board
             PROVE  BoardInv'
  OBVIOUS
<1>1. CASE UNCHANGED board
  BY <1>1 DEF BoardInv, TypeOK, WellFormed, AcyclicBlockers, NoDanglingBlockers,
              CompletedWhenClosed, BlockersOf, Existing
<1>2. ASSUME NEW id \in TaskIds, NEW blockers \in SUBSET TaskIds, NEW text \in Texts,
             Create(id, blockers, text)
      PROVE  BoardInv'
  BY <1>2, CreateSafe
<1>3. ASSUME NEW id \in TaskIds, NEW kept \in SUBSET TaskIds, NEW added \in SUBSET TaskIds,
             NEW text \in Texts, Edit(id, kept, added, text)
      PROVE  BoardInv'
  BY <1>3, EditSafe
<1>4. ASSUME NEW id \in TaskIds, NEW status \in ClosedStatuses, Close(id, status)
      PROVE  BoardInv'
  <2>1. status \in Statuses
    BY DEF Statuses, ClosedStatuses
  <2>2. board' = [board EXCEPT ![id] =
                    [board[id] EXCEPT !.status = status, !.completed = TRUE]]
    BY <1>4 DEF Close
  <2>3. QED
    BY <1>4, <2>1, <2>2, StatusChangeSafe DEF Close
<1>5. ASSUME NEW id \in TaskIds, Backlog(id)
      PROVE  BoardInv'
  <2>1. board[id] \in TaskContents /\ ~board[id].completed
    BY <1>5 DEF Backlog, BoardInv, TypeOK, Vaults, WellFormed, CompletedWhenClosed,
                Existing, ClosedStatuses
  <2>2. board' = [board EXCEPT ![id] =
                    [board[id] EXCEPT !.status = "backlog", !.completed = FALSE]]
    BY <1>5, <2>1 DEF Backlog, TaskContents
  <2>3. QED
    BY <1>5, <2>2, StatusChangeSafe DEF Backlog, Statuses, ClosedStatuses
<1>6. ASSUME NEW id \in TaskIds, Activate(id)
      PROVE  BoardInv'
  <2>1. board' = [board EXCEPT ![id] =
                    [board[id] EXCEPT !.status = "active", !.completed = FALSE]]
    BY <1>6 DEF Activate
  <2>2. QED
    BY <1>6, <2>1, StatusChangeSafe DEF Activate, Statuses, ClosedStatuses
<1>7. ASSUME NEW id \in TaskIds, Remove(id)
      PROVE  BoardInv'
  BY <1>7, RemoveSafe
<1>8. QED
  BY <1>1, <1>2, <1>3, <1>4, <1>5, <1>6, <1>7 DEF Next

LEMMA BoardStart == Init => BoardInv
BY InitialVaultsAssumption DEF Init, BoardInv, TypeOK

\* Whatever the commands do, the board stays a well-formed vault.
THEOREM BoardStaysWellFormed == Spec => []BoardInv
BY BoardStart, BoardStep, PTL DEF Spec

\* No sequence of commands makes tasks wait for each other in a circle.
THEOREM BoardAcyclic == Spec => []DependenciesAcyclic
<1>1. BoardInv => DependenciesAcyclic
  BY DEF BoardInv, WellFormed, DependenciesAcyclic
<1>2. QED
  BY <1>1, BoardStaysWellFormed, PTL

\* No sequence of commands leaves a task waiting for one that is gone.
THEOREM BoardBlockersExist == Spec => []BlockersExist
<1>1. BoardInv => BlockersExist
  BY DEF BoardInv, WellFormed, BlockersExist
<1>2. QED
  BY <1>1, BoardStaysWellFormed, PTL

\* Both, and completion data on the closed tasks only, after any commands.
THEOREM BoardStaysConsistent == Spec => []BoardConsistent
<1>1. BoardInv => BoardConsistent
  BY DEF BoardInv, WellFormed, BoardConsistent, DependenciesAcyclic, BlockersExist,
         CompletionMatchesStatus
<1>2. QED
  BY <1>1, BoardStaysWellFormed, PTL

-----------------------------------------------------------------------------
(* Counting, and ids in their order.                                       *)

Smaller == {pair \in Nat \X Nat : pair[1] < pair[2]}

\* A set of numbers that is not empty has a least one.
LEMMA Least ==
    ASSUME NEW T \in SUBSET Nat, T # {}
    PROVE  \E n \in T : \A m \in T : ~(m < n)
<1>1. IsWellFoundedOn(Smaller, Nat)
  BY NatLessThanWellFounded DEF OpToRel, Smaller
<1>2. \E n \in T : \A m \in T : ~(<<m, n>> \in Smaller)
  BY <1>1, WFMin
<1>3. QED
  BY <1>2 DEF Smaller

\* What holds of zero and of every successor holds of all numbers.
LEMMA Counting ==
    ASSUME NEW S \in SUBSET Nat, 0 \in S, \A n \in S : n + 1 \in S
    PROVE  S = Nat
<1>1. SUFFICES ASSUME Nat \ S # {} PROVE FALSE
  OBVIOUS
<1>2. PICK n \in Nat \ S : \A m \in Nat \ S : ~(m < n)
  BY <1>1, Least
<1>3. n # 0 /\ n - 1 \in Nat /\ n - 1 \in S
  BY <1>2
<1>4. QED
  BY <1>2, <1>3

LEMMA IdsAreNumbers == \A id \in TaskIds : id \in Nat
BY MaxTaskNumberAssumption DEF TaskIds

LEMMA LastOfIds ==
    ASSUME NEW ids \in SUBSET TaskIds, ids # {}
    PROVE  \E m \in ids : \A id \in ids : id <= m
<1> USE MaxTaskNumberAssumption DEF TaskIds
<1> DEFINE bounds == {k \in Nat : \A id \in ids : id <= k}
<1>1. MaxTaskNumber \in bounds
  OBVIOUS
<1>2. PICK k \in bounds : \A m \in bounds : ~(m < k)
  BY <1>1, Least
<1>3. CASE k \in ids
  BY <1>2, <1>3
<1>4. CASE k \notin ids
  <2>1. PICK id \in ids : TRUE
    OBVIOUS
  <2>2. k \in Nat /\ k # 0 /\ \A other \in ids : other \in Nat /\ other <= k /\ other # k
    BY <1>2, <1>4, <2>1
  <2>3. k - 1 \in bounds
    BY <2>2
  <2>4. QED
    BY <1>2, <2>2, <2>3
<1>5. QED
  BY <1>3, <1>4

LEMMA OrdersExist ==
    ASSUME NEW ids \in SUBSET TaskIds
    PROVE  /\ IsFiniteSet(ids) /\ Cardinality(ids) \in Nat
           /\ \E s \in [1 .. Cardinality(ids) -> ids] :
                 \A i, j \in 1 .. Cardinality(ids) : i < j => s[i] < s[j]
<1> DEFINE Increasing(s, n) == \A i, j \in 1 .. n : i < j => s[i] < s[j]
           S == {n \in Nat : \A some \in SUBSET TaskIds :
                    Cardinality(some) = n => \E s \in [1 .. n -> some] : Increasing(s, n)}
<1>1. \A some \in SUBSET TaskIds : IsFiniteSet(some) /\ Cardinality(some) \in Nat
  <2>1. IsFiniteSet(TaskIds)
    BY FS_Interval, MaxTaskNumberAssumption DEF TaskIds
  <2>2. ASSUME NEW some \in SUBSET TaskIds PROVE IsFiniteSet(some)
    BY <2>1, FS_Subset
  <2>3. QED
    BY <2>2, FS_CardinalityType
<1>2. 0 \in S
  <2>1. ASSUME NEW some \in SUBSET TaskIds PROVE \E s \in [1 .. 0 -> some] : Increasing(s, 0)
    <3>1. [i \in 1 .. 0 |-> 0] \in [1 .. 0 -> some]
      OBVIOUS
    <3>2. Increasing([i \in 1 .. 0 |-> 0], 0)
      OBVIOUS
    <3>3. QED
      BY <3>1, <3>2
  <2>2. QED
    BY <2>1
<1>3. ASSUME NEW n \in S PROVE n + 1 \in S
  <2> SUFFICES ASSUME NEW some \in SUBSET TaskIds, Cardinality(some) = n + 1
               PROVE  \E s \in [1 .. n + 1 -> some] : Increasing(s, n + 1)
    OBVIOUS
  <2>1. some # {} /\ IsFiniteSet(some)
    BY <1>1, FS_EmptySet
  <2>2. PICK m \in some : \A id \in some : id <= m
    BY <2>1, LastOfIds
  <2>3. Cardinality(some \ {m}) = n
    BY <2>1, <2>2, FS_RemoveElement
  <2>4. PICK t \in [1 .. n -> some \ {m}] : Increasing(t, n)
    BY <2>3
  <2> DEFINE s == [i \in 1 .. n + 1 |-> IF i = n + 1 THEN m ELSE t[i]]
  <2>5. s \in [1 .. n + 1 -> some]
    BY <2>4
  <2>6. ASSUME NEW i \in 1 .. n + 1, NEW j \in 1 .. n + 1, i < j PROVE s[i] < s[j]
    <3>1. i \in 1 .. n /\ s[i] = t[i] /\ t[i] \in some \ {m}
      BY <2>4, <2>6
    <3>2. CASE j = n + 1
      <4>1. t[i] \in Nat /\ m \in Nat /\ t[i] # m /\ t[i] <= m
        <5>1. t[i] \in TaskIds /\ m \in TaskIds /\ t[i] # m /\ t[i] <= m
          BY <3>1, <2>2
        <5>2. QED
          BY <5>1, IdsAreNumbers
      <4>2. s[j] = m
        BY <3>2
      <4>3. QED
        BY <3>1, <4>1, <4>2
    <3>3. CASE j # n + 1
      <4>1. j \in 1 .. n /\ s[j] = t[j]
        BY <3>3
      <4>2. QED
        BY <2>4, <2>6, <3>1, <4>1
    <3>4. QED
      BY <3>2, <3>3
  <2>7. QED
    BY <2>5, <2>6
<1> HIDE DEF S
<1>4. S = Nat
  BY <1>2, <1>3, Counting DEF S
<1>5. QED
  BY <1>1, <1>4 DEF S

\* The ids in their order are all of them and nothing else.
LEMMA InOrderLists ==
    ASSUME NEW ids \in SUBSET TaskIds
    PROVE  /\ InOrder(ids) \in Seq(TaskIds)
           /\ \A j \in 1 .. Len(InOrder(ids)) : InOrder(ids)[j] \in ids
           /\ \A id \in ids : \E j \in 1 .. Len(InOrder(ids)) : InOrder(ids)[j] = id
<1> DEFINE n == Cardinality(ids)
           s == InOrder(ids)
<1>1. /\ IsFiniteSet(ids) /\ n \in Nat
      /\ s \in [1 .. n -> ids]
      /\ \A i, j \in 1 .. n : i < j => s[i] < s[j]
  BY OrdersExist DEF InOrder
<1> HIDE DEF n, s
<1>2. s \in Injection(1 .. n, ids)
  <2>1. ASSUME NEW i \in 1 .. n, NEW j \in 1 .. n, s[i] = s[j] PROVE i = j
    <3>1. s[i] \in Nat /\ s[j] \in Nat
      <4>1. s[i] \in TaskIds /\ s[j] \in TaskIds
        BY <1>1
      <4>2. QED
        BY <4>1, IdsAreNumbers
    <3>2. i \in Nat /\ j \in Nat
      BY <1>1
    <3>3. ~(i < j) /\ ~(j < i)
      BY <1>1, <2>1, <3>1
    <3>4. QED
      BY <3>2, <3>3
  <2>2. QED
    BY <1>1, <2>1 DEF Injection, IsInjective
<1>3. Cardinality(1 .. n) = n
  BY <1>1, FS_Interval
<1>4. s \in Surjection(1 .. n, ids)
  BY <1>1, <1>2, <1>3, FS_Injection DEF n
<1>5. \A id \in ids : \E j \in 1 .. n : s[j] = id
  BY <1>4 DEF Surjection
<1>6. s \in Seq(TaskIds) /\ Len(s) = n
  BY <1>1
<1>7. QED
  BY <1>1, <1>5, <1>6 DEF s

-----------------------------------------------------------------------------
(* What a query has read only grows.                                       *)

Known(read, id) == read[ProjectOf[id]].state # "unread"

\* A project was read as the query meets it, and has tasks only if it is there.
ReadsKept(read) ==
    /\ read \in [Projects -> Reads]
    /\ \A p \in Projects :
          /\ read[p].state \in {"unread", condition.projects[p]}
          /\ read[p].state # "there" => \A id \in TaskIds : read[p].tasks[id] = NoTask

\* What was read before stays as it was read.
Onwards(old, new) ==
    \A p \in Projects : old[p].state # "unread" => new[p] = old[p]

\* What is visible beside a task, as far as it was read.
KnownBeside(read, id, towards) ==
    {other \in TaskIds :
        /\ Resolved(read, id) = "found"
        /\ other \in Adjacent(read, id, towards)
        /\ Known(read, other)
        /\ Visible(read, other)}

LEMMA ProjectsOfIds == \A id \in TaskIds : ProjectOf[id] \in Projects
BY DEF Projects

LEMMA ResolvedCases ==
    ASSUME NEW read, ReadsKept(read), NEW id \in TaskIds
    PROVE  /\ Resolved(read, id) \in {"found", "missing", "unavailable"}
           /\ Resolved(read, id) = "found" =>
                 /\ Known(read, id)
                 /\ read[ProjectOf[id]].tasks[id] \in TaskContents
           /\ ~Known(read, id) => Resolved(read, id) = "missing"
           /\ BlockersRead(read, id) \in SUBSET TaskIds
<1> DEFINE project == read[ProjectOf[id]]
<1>1. /\ project.state \in {"unread", "there", "missing", "unreadable"}
      /\ project.tasks[id] \in TaskContents \cup {NoTask}
      /\ project.state # "there" => project.tasks[id] = NoTask
  BY ProjectsOfIds DEF ReadsKept, Reads, Vaults
<1> HIDE DEF project
<1>2. Resolved(read, id) =
          CASE project.state = "unreadable" -> "unavailable"
            [] project.tasks[id] = NoTask /\ project.state # "unreadable" -> "missing"
            [] project.tasks[id] # NoTask ->
                  IF id \in condition.damaged THEN "unavailable" ELSE "found"
  BY DEF Resolved, project
<1>3. CASE project.state = "unreadable"
  BY <1>1, <1>2, <1>3 DEF BlockersRead, Known, project
<1>4. CASE project.state # "unreadable" /\ project.tasks[id] = NoTask
  BY <1>1, <1>2, <1>4 DEF BlockersRead, Known, project
<1>5. CASE project.tasks[id] # NoTask
  <2>1. project.state = "there" /\ project.tasks[id] \in TaskContents
    BY <1>1, <1>5
  <2>2. Resolved(read, id) \in {"unavailable", "found"}
    BY <1>2, <1>5, <2>1
  <2>3. project.tasks[id].blocked_by \in SUBSET TaskIds
    BY <2>1 DEF TaskContents
  <2>4. QED
    BY <2>1, <2>2, <2>3 DEF BlockersRead, Known, project
<1>6. QED
  BY <1>3, <1>4, <1>5

\* What was read of a task stays, and what was not read had no blockers.
LEMMA ReadsStay ==
    ASSUME NEW old, NEW new, ReadsKept(old), ReadsKept(new), Onwards(old, new),
           NEW id \in TaskIds
    PROVE  /\ Known(old, id) => /\ Known(new, id)
                                /\ Resolved(new, id) = Resolved(old, id)
                                /\ Visible(new, id) = Visible(old, id)
                                /\ BlockersRead(new, id) = BlockersRead(old, id)
           /\ ~Known(old, id) => BlockersRead(old, id) = {}
           /\ BlockersRead(old, id) \subseteq BlockersRead(new, id)
           /\ Resolved(old, id) = "found" => Resolved(new, id) = "found"
<1>1. ASSUME Known(old, id)
      PROVE  /\ Known(new, id)
             /\ Resolved(new, id) = Resolved(old, id)
             /\ Visible(new, id) = Visible(old, id)
             /\ BlockersRead(new, id) = BlockersRead(old, id)
  <2>1. new[ProjectOf[id]] = old[ProjectOf[id]]
    BY <1>1, ProjectsOfIds DEF Onwards, Known
  <2>2. Known(new, id)
    BY <1>1, <2>1 DEF Known
  <2>3. Resolved(new, id) = Resolved(old, id)
    BY <2>1 DEF Resolved
  <2>4. QED
    BY <2>1, <2>2, <2>3 DEF Visible, BlockersRead
<1>2. ASSUME ~Known(old, id) PROVE BlockersRead(old, id) = {} /\ Resolved(old, id) # "found"
  BY <1>2, ResolvedCases DEF BlockersRead
<1>3. QED
  BY <1>1, <1>2

LEMMA AdjacentStays ==
    ASSUME NEW old, NEW new, ReadsKept(old), ReadsKept(new), Onwards(old, new),
           NEW id \in TaskIds, NEW towards \in Directions
    PROVE  /\ Adjacent(old, id, towards) \in SUBSET TaskIds
           /\ Adjacent(old, id, towards) \subseteq Adjacent(new, id, towards)
           /\ KnownBeside(old, id, towards) \subseteq KnownBeside(new, id, towards)
<1>1. \A other \in TaskIds : BlockersRead(old, other) \subseteq BlockersRead(new, other)
  BY ReadsStay
<1>2. Adjacent(old, id, towards) \subseteq Adjacent(new, id, towards)
  BY <1>1 DEF Adjacent
<1>3. Adjacent(old, id, towards) \in SUBSET TaskIds
  BY ResolvedCases DEF Adjacent
<1>4. ASSUME NEW other \in KnownBeside(old, id, towards)
      PROVE  other \in KnownBeside(new, id, towards)
  <2>1. other \in TaskIds
    BY DEF KnownBeside
  <2>2. QED
    BY <1>2, <2>1, ReadsStay DEF KnownBeside
<1>5. QED
  BY <1>2, <1>3, <1>4

\* Reading the projects of ids, now.
LEMMA ReadingGoesOnwards ==
    ASSUME ReadsKept(reads), condition \in Conditions, board \in Vaults, NEW ids \in SUBSET TaskIds
    PROVE  /\ ReadsKept(ReadFor(ids))
           /\ Onwards(reads, ReadFor(ids))
           /\ \A id \in ids : Known(ReadFor(ids), id)
<1> DEFINE new == ReadFor(ids)
           Met(p) == reads[p].state = "unread" /\ \E id \in ids : ProjectOf[id] = p
           tasks(p) == [id \in TaskIds |->
                          IF condition.projects[p] = "there" /\ ProjectOf[id] = p
                          THEN board[id] ELSE NoTask]
<1>1. new = [p \in Projects |->
                IF Met(p) THEN [state |-> condition.projects[p], tasks |-> tasks(p)]
                ELSE reads[p]]
  BY DEF ReadFor
<1>2. \A p \in Projects : condition.projects[p] \in {"there", "missing", "unreadable"}
  BY ConditionsAssumption
<1>3. \A p \in Projects : tasks(p) \in Vaults
  BY DEF Vaults
<1> HIDE DEF new, Met
<1>4. ASSUME NEW p \in Projects
      PROVE  /\ new[p] \in Reads
             /\ new[p].state \in {"unread", condition.projects[p]}
             /\ new[p].state # "there" => \A id \in TaskIds : new[p].tasks[id] = NoTask
             /\ reads[p].state # "unread" => new[p] = reads[p]
             /\ Met(p) => new[p].state # "unread"
  <2>1. CASE Met(p)
    <3>1. new[p] = [state |-> condition.projects[p], tasks |-> tasks(p)]
      BY <1>1, <2>1
    <3>2. reads[p].state = "unread"
      BY <2>1 DEF Met
    <3>3. QED
      BY <1>2, <1>3, <3>1, <3>2 DEF Reads
  <2>2. CASE ~Met(p)
    <3>1. new[p] = reads[p]
      BY <1>1, <2>2
    <3>2. QED
      BY <2>2, <3>1 DEF ReadsKept
  <2>3. QED
    BY <2>1, <2>2
<1>5. new \in [Projects -> Reads]
  BY <1>1, <1>4
<1>6. ReadsKept(new)
  BY <1>4, <1>5 DEF ReadsKept
<1>7. Onwards(reads, new)
  BY <1>4 DEF Onwards
<1>8. ASSUME NEW id \in ids PROVE Known(new, id)
  <2>1. ProjectOf[id] \in Projects
    BY ProjectsOfIds
  <2>2. CASE Met(ProjectOf[id])
    BY <1>4, <2>1, <2>2 DEF Known
  <2>3. CASE ~Met(ProjectOf[id])
    BY <1>4, <2>1, <2>3 DEF Known, Met
  <2>4. QED
    BY <2>2, <2>3
<1>9. QED
  BY <1>6, <1>7, <1>8 DEF new

LEMMA OnwardsTransitive ==
    ASSUME NEW one, NEW two, NEW three, Onwards(one, two), Onwards(two, three)
    PROVE  Onwards(one, three)
BY DEF Onwards

\* What a visit knows after it has looked beside the depth limit.
LEMMA LookingGoesOnwards ==
    ASSUME ReadsKept(reads), condition \in Conditions, board \in Vaults,
           NEW read, ReadsKept(read), Onwards(reads, read), NEW looked \in SUBSET TaskIds,
           NEW known,
           known = [p \in Projects |->
                      IF read[p].state = "unread" THEN ReadFor(looked)[p] ELSE read[p]]
    PROVE  ReadsKept(known) /\ Onwards(read, known)
<1>1. ReadsKept(ReadFor(looked))
  BY ReadingGoesOnwards
<1>2. \A p \in Projects : known[p] \in {ReadFor(looked)[p], read[p]}
  OBVIOUS
<1>3. known \in [Projects -> Reads]
  BY <1>1, <1>2 DEF ReadsKept
<1>4. ReadsKept(known)
  BY <1>1, <1>2, <1>3 DEF ReadsKept
<1>5. Onwards(read, known)
  BY DEF Onwards
<1>6. QED
  BY <1>4, <1>5

-----------------------------------------------------------------------------
(* The stack of the search is a path from the root, along what was read.   *)

\* A path of n visible edges from the root to a task.
Chain(read, towards, c, n, id) ==
    /\ c \in [0 .. n -> TaskIds]
    /\ c[0] = asked.root
    /\ c[n] = id
    /\ \A i \in 1 .. n : c[i] \in KnownBeside(read, c[i - 1], towards)

\* The root leads to a task within the depth limit.
Led(read, towards, id) ==
    \E n \in Nat :
        /\ asked.depth # NoDepth => n <= asked.depth
        /\ \E c : Chain(read, towards, c, n, id)

\* Each task of the stack is beside the one below it, and what is left beside it
\* is beside it; nothing is left beside a task at the depth limit.
Stacked(read, towards, p, i) ==
    /\ Resolved(read, p[i].id) = "found"
    /\ \A j \in 1 .. Len(p[i].rest) : p[i].rest[j] \in Adjacent(read, p[i].id, towards)
    /\ asked.depth # NoDepth => /\ i <= asked.depth + 1
                                /\ p[i].rest # <<>> => i <= asked.depth
    /\ IF i = 1 THEN p[i].id = asked.root
       ELSE p[i].id \in KnownBeside(read, p[i - 1].id, towards)

PathKept(read, towards, p) ==
    /\ p \in Seq([id: TaskIds, rest: Seq(TaskIds)])
    /\ \A i \in 1 .. Len(p) : Stacked(read, towards, p, i)

QueryTyped == asked \in GraphQueries

LEMMA AskedTyped ==
    ASSUME QueryTyped
    PROVE  /\ asked.root \in TaskIds
           /\ asked.directions \subseteq Directions
           /\ asked.depth # NoDepth => asked.depth \in Nat \ {0}
           /\ asked.directions # {}
BY GraphQueriesAssumption DEF QueryTyped

LEMMA StackTyped ==
    ASSUME NEW p \in Seq([id: TaskIds, rest: Seq(TaskIds)]), NEW i \in 1 .. Len(p)
    PROVE  p[i].id \in TaskIds /\ p[i].rest \in Seq(TaskIds)
<1>1. p[i] \in [id: TaskIds, rest: Seq(TaskIds)]
  BY ElementOfSeq
<1>2. QED
  BY <1>1

LEMMA LedStays ==
    ASSUME NEW old, NEW new, ReadsKept(old), ReadsKept(new), Onwards(old, new),
           NEW id, NEW towards \in Directions, Led(old, towards, id)
    PROVE  Led(new, towards, id)
<1>1. PICK n \in Nat : /\ asked.depth # NoDepth => n <= asked.depth
                       /\ \E c : Chain(old, towards, c, n, id)
  BY DEF Led
<1>2. PICK c : Chain(old, towards, c, n, id)
  BY <1>1
<1>3. ASSUME NEW i \in 1 .. n PROVE c[i] \in KnownBeside(new, c[i - 1], towards)
  <2>1. c[i - 1] \in TaskIds /\ c[i] \in KnownBeside(old, c[i - 1], towards)
    BY <1>2 DEF Chain
  <2>2. QED
    BY <2>1, AdjacentStays
<1>4. Chain(new, towards, c, n, id)
  BY <1>2, <1>3 DEF Chain
<1>5. QED
  BY <1>1, <1>4 DEF Led

LEMMA PathStays ==
    ASSUME NEW old, NEW new, ReadsKept(old), ReadsKept(new), Onwards(old, new),
           NEW towards \in Directions, NEW p, PathKept(old, towards, p)
    PROVE  PathKept(new, towards, p)
<1>1. p \in Seq([id: TaskIds, rest: Seq(TaskIds)])
  BY DEF PathKept
<1>2. ASSUME NEW i \in 1 .. Len(p) PROVE Stacked(new, towards, p, i)
  <2>1. Stacked(old, towards, p, i) /\ p[i].id \in TaskIds
    BY <1>1, StackTyped DEF PathKept
  <2>2. Resolved(new, p[i].id) = "found"
    BY <2>1, ReadsStay DEF Stacked
  <2>3. \A j \in 1 .. Len(p[i].rest) : p[i].rest[j] \in Adjacent(new, p[i].id, towards)
    BY <2>1, AdjacentStays DEF Stacked
  <2>4. CASE i = 1
    BY <2>1, <2>2, <2>3, <2>4 DEF Stacked
  <2>5. CASE i # 1
    <3>1. i - 1 \in 1 .. Len(p)
      BY <2>5
    <3>2. p[i - 1].id \in TaskIds
      BY <1>1, <3>1, StackTyped
    <3>3. p[i].id \in KnownBeside(new, p[i - 1].id, towards)
      BY <2>1, <2>5, <3>2, AdjacentStays DEF Stacked
    <3>4. QED
      BY <2>1, <2>2, <2>3, <2>5, <3>3 DEF Stacked
  <2>6. QED
    BY <2>4, <2>5
<1>3. QED
  BY <1>1, <1>2 DEF PathKept

\* The tasks of the stack are led to, and so is what is visible beside the last
\* one while something is left beside it.
LEMMA PathLeads ==
    ASSUME QueryTyped, NEW read, NEW towards, NEW p, PathKept(read, towards, p),
           NEW i \in 1 .. Len(p)
    PROVE  /\ Led(read, towards, p[i].id)
           /\ p[i].rest # <<>> =>
                 \A other \in KnownBeside(read, p[i].id, towards) : Led(read, towards, other)
<1> DEFINE c == [k \in 0 .. i - 1 |-> p[k + 1].id]
<1>1. p \in Seq([id: TaskIds, rest: Seq(TaskIds)])
  BY DEF PathKept
<1>2. \A k \in 1 .. Len(p) : p[k].id \in TaskIds /\ Stacked(read, towards, p, k)
  BY <1>1, StackTyped DEF PathKept
<1>3. i \in Nat /\ i - 1 \in Nat /\ Len(p) \in Nat
  BY <1>1
<1>4. \A k \in 1 .. i - 1 : c[k] \in KnownBeside(read, c[k - 1], towards)
  <2> SUFFICES ASSUME NEW k \in 1 .. i - 1 PROVE c[k] \in KnownBeside(read, c[k - 1], towards)
    OBVIOUS
  <2>1. k + 1 \in 1 .. Len(p) /\ k + 1 # 1 /\ (k + 1) - 1 = k
    BY <1>3
  <2>2. p[k + 1].id \in KnownBeside(read, p[k].id, towards)
    BY <1>2, <2>1 DEF Stacked
  <2>3. c[k] = p[k + 1].id /\ c[k - 1] = p[k].id
    BY <1>3
  <2>4. QED
    BY <2>2, <2>3
<1>5. c \in [0 .. i - 1 -> TaskIds]
  BY <1>2, <1>3
<1>6. c[0] = asked.root
  <2>1. 1 \in 1 .. Len(p)
    BY <1>3
  <2>2. p[1].id = asked.root
    BY <1>2, <2>1 DEF Stacked
  <2>3. QED
    BY <1>3, <2>2
<1>7. c[i - 1] = p[i].id
  BY <1>3
<1> HIDE DEF c
<1>8. Chain(read, towards, c, i - 1, p[i].id)
  BY <1>4, <1>5, <1>6, <1>7 DEF Chain
<1>9. asked.depth # NoDepth => /\ asked.depth \in Nat
                               /\ i - 1 <= asked.depth
                               /\ p[i].rest # <<>> => i <= asked.depth
  <2>1. asked.depth # NoDepth => asked.depth \in Nat
    BY AskedTyped
  <2>2. Stacked(read, towards, p, i)
    BY <1>2
  <2>3. QED
    BY <1>3, <2>1, <2>2 DEF Stacked
<1>10. Led(read, towards, p[i].id)
  BY <1>3, <1>8, <1>9 DEF Led
<1>11. ASSUME p[i].rest # <<>>, NEW other \in KnownBeside(read, p[i].id, towards)
       PROVE  Led(read, towards, other)
  <2> DEFINE d == [k \in 0 .. i |-> IF k = i THEN other ELSE c[k]]
  <2>1. d \in [0 .. i -> TaskIds]
    BY <1>3, <1>5 DEF KnownBeside
  <2>2. d[0] = asked.root /\ d[i] = other
    BY <1>3, <1>6
  <2>3. ASSUME NEW k \in 1 .. i PROVE d[k] \in KnownBeside(read, d[k - 1], towards)
    <3>1. CASE k = i
      <4>1. d[k] = other /\ d[k - 1] = p[i].id
        BY <1>3, <1>7, <3>1
      <4>2. QED
        BY <1>11, <4>1
    <3>2. CASE k # i
      <4>1. k \in 1 .. i - 1 /\ d[k] = c[k] /\ d[k - 1] = c[k - 1]
        BY <1>3, <3>2
      <4>2. QED
        BY <1>4, <4>1 DEF c
    <3>3. QED
      BY <3>1, <3>2
  <2> HIDE DEF d
  <2>4. Chain(read, towards, d, i, other)
    BY <2>1, <2>2, <2>3 DEF Chain
  <2>5. QED
    BY <1>3, <1>9, <1>11, <2>4 DEF Led
<1>12. QED
  BY <1>10, <1>11

\* Tasks that wait for each other in a circle, as they were read.
Circle(read, ids) ==
    /\ ids # {}
    /\ \A id \in ids : BlockersRead(read, id) \cap ids # {}

\* A task beside the last one that is on the stack itself closes a circle.
LEMMA PathCloses ==
    ASSUME NEW read, NEW towards \in Directions, NEW p, PathKept(read, towards, p),
           p # <<>>, NEW id \in Adjacent(read, p[Len(p)].id, towards),
           NEW i \in 1 .. Len(p), p[i].id = id
    PROVE  \E ids \in SUBSET TaskIds : Circle(read, ids)
<1> DEFINE L == Len(p)
           ids == {p[k].id : k \in i .. L}
<1>1. p \in Seq([id: TaskIds, rest: Seq(TaskIds)]) /\ L \in Nat /\ i \in Nat /\ L \in i .. L
  BY DEF PathKept
<1>2. \A k \in 1 .. L : p[k].id \in TaskIds /\ Stacked(read, towards, p, k)
  BY <1>1, StackTyped DEF PathKept
<1>3. ids \in SUBSET TaskIds /\ id \in ids /\ p[L].id \in ids
  BY <1>1, <1>2
<1>4. ASSUME NEW k \in i .. L, k # i
      PROVE  p[k].id \in Adjacent(read, p[k - 1].id, towards) /\ k - 1 \in i .. L
  <2>1. k \in 1 .. L /\ k # 1 /\ k - 1 \in i .. L
    BY <1>1, <1>4
  <2>2. p[k].id \in KnownBeside(read, p[k - 1].id, towards)
    BY <1>2, <2>1 DEF Stacked
  <2>3. QED
    BY <2>1, <2>2 DEF KnownBeside
<1>5. ASSUME NEW k \in i .. L PROVE BlockersRead(read, p[k].id) \cap ids # {}
  <2>1. CASE towards = "blocked_by"
    <3>1. CASE k = L
      <4>1. id \in BlockersRead(read, p[k].id)
        BY <2>1, <3>1 DEF Adjacent
      <4>2. QED
        BY <1>3, <4>1
    <3>2. CASE k # L
      <4>1. k + 1 \in i .. L /\ k + 1 # i /\ (k + 1) - 1 = k
        BY <1>1, <3>2
      <4>2. p[k + 1].id \in Adjacent(read, p[k].id, towards) /\ p[k + 1].id \in ids
        BY <1>4, <4>1
      <4>3. QED
        BY <2>1, <4>2 DEF Adjacent
    <3>3. QED
      BY <3>1, <3>2
  <2>2. CASE towards # "blocked_by"
    <3>1. CASE k = i
      <4>1. p[L].id \in BlockersRead(read, p[k].id)
        BY <2>2, <3>1 DEF Adjacent
      <4>2. QED
        BY <1>3, <4>1
    <3>2. CASE k # i
      <4>1. p[k].id \in Adjacent(read, p[k - 1].id, towards) /\ p[k - 1].id \in ids
        BY <1>4, <3>2
      <4>2. QED
        BY <2>2, <4>1 DEF Adjacent
    <3>3. QED
      BY <3>1, <3>2
  <2>3. QED
    BY <2>1, <2>2
<1>6. Circle(read, ids)
  BY <1>3, <1>5 DEF Circle
<1>7. QED
  BY <1>3, <1>6

-----------------------------------------------------------------------------
(* Nodes and edges say what was read, and the root leads to all of them.   *)

NodesKept(read, nd) ==
    /\ nd \subseteq Nodes
    /\ \A n \in nd : n.kind # "limit" =>
          /\ n = TaskNode(read, n.id)
          /\ Known(read, n.id)
          /\ \E towards \in asked.directions : Led(read, towards, n.id)

\* An edge was met in a direction, from a task that the root leads to.
LinkRead(read, towards, blocker, dependent) ==
    IF towards = "blocked_by"
    THEN Led(read, towards, dependent) /\ blocker \in KnownBeside(read, dependent, towards)
    ELSE Led(read, towards, blocker) /\ dependent \in KnownBeside(read, blocker, towards)

EdgeKept(read, e) ==
    \/ e[1].kind = "limit" /\ e[1].direction = "blocked_by" /\ e[2].kind # "limit"
    \/ e[2].kind = "limit" /\ e[2].direction = "blocks" /\ e[1].kind # "limit"
    \/ /\ e[1].kind # "limit" /\ e[2].kind # "limit"
       /\ \E towards \in asked.directions : LinkRead(read, towards, e[1].id, e[2].id)

EdgesKept(read, nd, ed) ==
    /\ ed \subseteq nd \X nd
    /\ \A e \in ed : EdgeKept(read, e)

RootLeads(root, nd, ed) ==
    /\ root \in nd
    /\ \A some \in SUBSET nd :
          root \in some /\ (\A e \in ed : e[1] \in some <=> e[2] \in some) => some = nd

LEMMA NodeTyped ==
    ASSUME NEW n \in Nodes
    PROVE  n.id \in TaskIds
BY DEF Nodes

LEMMA TaskNodeTyped ==
    ASSUME NEW read, ReadsKept(read), NEW id \in TaskIds
    PROVE  /\ TaskNode(read, id) \in Nodes
           /\ TaskNode(read, id).kind # "limit"
           /\ TaskNode(read, id).kind = Resolved(read, id)
           /\ TaskNode(read, id).id = id
<1>1. Resolved(read, id) \in {"found", "missing", "unavailable"}
  BY ResolvedCases
<1>2. QED
  BY <1>1 DEF TaskNode, Nodes

LEMMA TaskNodeStays ==
    ASSUME NEW old, NEW new, ReadsKept(old), ReadsKept(new), Onwards(old, new),
           NEW id \in TaskIds, Known(old, id)
    PROVE  TaskNode(new, id) = TaskNode(old, id)
BY ReadsStay DEF TaskNode

LEMMA NodesStay ==
    ASSUME QueryTyped, NEW old, NEW new, ReadsKept(old), ReadsKept(new), Onwards(old, new),
           NEW nd, NodesKept(old, nd)
    PROVE  NodesKept(new, nd)
<1>1. ASSUME NEW n \in nd, n.kind # "limit"
      PROVE  /\ n = TaskNode(new, n.id)
             /\ Known(new, n.id)
             /\ \E towards \in asked.directions : Led(new, towards, n.id)
  <2>1. n.id \in TaskIds /\ n = TaskNode(old, n.id) /\ Known(old, n.id)
    BY <1>1, NodeTyped DEF NodesKept
  <2>2. PICK towards \in asked.directions : Led(old, towards, n.id)
    BY <1>1 DEF NodesKept
  <2>3. towards \in Directions
    BY <2>2, AskedTyped
  <2>4. Led(new, towards, n.id)
    BY <2>2, <2>3, LedStays
  <2>5. QED
    BY <2>1, <2>2, <2>4, TaskNodeStays, ReadsStay
<1>2. QED
  BY <1>1 DEF NodesKept

LEMMA LinkStays ==
    ASSUME NEW old, NEW new, ReadsKept(old), ReadsKept(new), Onwards(old, new),
           NEW towards \in Directions, NEW blocker \in TaskIds, NEW dependent \in TaskIds,
           LinkRead(old, towards, blocker, dependent)
    PROVE  LinkRead(new, towards, blocker, dependent)
BY LedStays, AdjacentStays DEF LinkRead

LEMMA EdgesStay ==
    ASSUME QueryTyped, NEW old, NEW new, ReadsKept(old), ReadsKept(new), Onwards(old, new),
           NEW nd, nd \subseteq Nodes, NEW ed, EdgesKept(old, nd, ed)
    PROVE  EdgesKept(new, nd, ed)
<1>1. ASSUME NEW e \in ed PROVE EdgeKept(new, e)
  <2>1. e[1] \in Nodes /\ e[2] \in Nodes /\ EdgeKept(old, e)
    BY <1>1 DEF EdgesKept
  <2>2. CASE e[1].kind # "limit" /\ e[2].kind # "limit"
    <3>1. PICK towards \in asked.directions : LinkRead(old, towards, e[1].id, e[2].id)
      BY <2>1, <2>2 DEF EdgeKept
    <3>2. towards \in Directions /\ e[1].id \in TaskIds /\ e[2].id \in TaskIds
      BY <2>1, <3>1, AskedTyped, NodeTyped
    <3>3. LinkRead(new, towards, e[1].id, e[2].id)
      BY <3>1, <3>2, LinkStays
    <3>4. QED
      BY <2>2, <3>1, <3>3 DEF EdgeKept
  <2>3. CASE e[1].kind = "limit" \/ e[2].kind = "limit"
    BY <2>1, <2>3 DEF EdgeKept
  <2>4. QED
    BY <2>2, <2>3
<1>2. QED
  BY <1>1 DEF EdgesKept

\* One more node, with an edge to a node that is there.
LEMMA RootLeadsToOneMore ==
    ASSUME NEW root, NEW nd, NEW ed, ed \subseteq nd \X nd, RootLeads(root, nd, ed),
           NEW current \in nd, NEW n, NEW e, e \in {<<n, current>>, <<current, n>>}
    PROVE  RootLeads(root, nd \cup {n}, ed \cup {e})
<1> SUFFICES ASSUME NEW some \in SUBSET (nd \cup {n}), root \in some,
                    \A d \in ed \cup {e} : d[1] \in some <=> d[2] \in some
             PROVE  some = nd \cup {n}
  BY DEF RootLeads
<1>1. \A d \in ed : d[1] \in nd /\ d[2] \in nd
  OBVIOUS
<1>2. some \cap nd = nd
  <2>1. some \cap nd \in SUBSET nd /\ root \in some \cap nd
    BY DEF RootLeads
  <2>2. \A d \in ed : d[1] \in some \cap nd <=> d[2] \in some \cap nd
    BY <1>1
  <2>3. QED
    BY <2>1, <2>2 DEF RootLeads
<1>3. current \in some
  BY <1>2
<1>4. e[1] \in some <=> e[2] \in some
  OBVIOUS
<1>5. n \in some
  BY <1>3, <1>4
<1>6. QED
  BY <1>2, <1>5

LEMMA OneMoreNode ==
    ASSUME NEW read, ReadsKept(read), NEW nd, NodesKept(read, nd), NEW id \in TaskIds,
           Known(read, id), NEW towards \in asked.directions, Led(read, towards, id)
    PROVE  NodesKept(read, nd \cup {TaskNode(read, id)})
<1>1. TaskNode(read, id) \in Nodes /\ TaskNode(read, id).id = id
  BY TaskNodeTyped
<1>2. QED
  BY <1>1 DEF NodesKept

LEMMA OneMoreEdge ==
    ASSUME NEW read, NEW nd, NEW ed, EdgesKept(read, nd, ed), NEW more,
           NEW e \in (nd \cup more) \X (nd \cup more), EdgeKept(read, e)
    PROVE  EdgesKept(read, nd \cup more, ed \cup {e})
BY DEF EdgesKept

\* A graph that does not pass the check at the end shows a circle: it is never
\* apart from its root.
LEMMA InvalidHasCircle ==
    ASSUME QueryTyped, ReadsKept(reads), NodesKept(reads, nodes), EdgesKept(reads, nodes, edges),
           RootLeads(TaskNode(reads, asked.root), nodes, edges), ~ValidGraph
    PROVE  \E ids \in SUBSET TaskIds : Circle(reads, ids)
<1>1. PICK some \in (SUBSET nodes) \ {{}} :
         \A n \in some : \E blocker \in some : <<blocker, n>> \in edges
  BY DEF ValidGraph, RootLeads
<1>2. \A e \in edges : EdgeKept(reads, e)
  BY DEF EdgesKept
<1> DEFINE tasks == {n \in some : n.kind # "limit"}
           ids == {n.id : n \in tasks}
<1>3. ASSUME NEW n \in some PROVE \E blocker \in tasks : <<blocker, n>> \in edges
  <2>1. PICK blocker \in some : <<blocker, n>> \in edges
    BY <1>1
  <2>2. PICK first \in some : <<first, blocker>> \in edges
    BY <1>1
  <2>3. blocker.kind # "limit"
    <3>1. EdgeKept(reads, <<blocker, n>>) /\ EdgeKept(reads, <<first, blocker>>)
      BY <1>2, <2>1, <2>2
    <3>2. QED
      BY <3>1 DEF EdgeKept
  <2>4. QED
    BY <2>1, <2>3
<1>4. tasks # {}
  BY <1>3
<1>5. ASSUME NEW n \in tasks PROVE BlockersRead(reads, n.id) \cap ids # {}
  <2>1. PICK blocker \in tasks : <<blocker, n>> \in edges
    BY <1>3
  <2>2. PICK towards \in asked.directions : LinkRead(reads, towards, blocker.id, n.id)
    <3>1. EdgeKept(reads, <<blocker, n>>)
      BY <1>2, <2>1
    <3>2. QED
      BY <2>1, <3>1 DEF EdgeKept
  <2>3. blocker.id \in BlockersRead(reads, n.id)
    BY <2>2 DEF LinkRead, KnownBeside, Adjacent
  <2>4. QED
    BY <2>1, <2>3
<1>6. ids \in SUBSET TaskIds
  BY NodeTyped DEF NodesKept
<1>7. ids # {} /\ \A id \in ids : BlockersRead(reads, id) \cap ids # {}
  BY <1>4, <1>5
<1> HIDE DEF ids
<1>8. Circle(reads, ids)
  BY <1>7 DEF Circle
<1>9. QED
  BY <1>6, <1>8

-----------------------------------------------------------------------------
(* Without a depth limit, nothing visible beside a visited task is left    *)
(* out.                                                                    *)

\* The edge between a task and one beside it.
EdgeOf(read, towards, id, other) ==
    IF towards = "blocked_by" THEN <<TaskNode(read, other), TaskNode(read, id)>>
    ELSE <<TaskNode(read, id), TaskNode(read, other)>>

\* A task beside another one was looked up; if it is visible, it is shown and,
\* if it was found, among the visited ones.
Met(read, towards, id, other, nd, ed, visited) ==
    /\ Known(read, other)
    /\ Visible(read, other) =>
          /\ TaskNode(read, other) \in nd
          /\ EdgeOf(read, towards, id, other) \in ed
          /\ Resolved(read, other) = "found" => other \in visited

Settled(read, towards, nd, ed, visited) ==
    /\ visited \subseteq TaskIds
    /\ asked.root \in visited
    /\ \A id \in visited :
          /\ Resolved(read, id) = "found"
          /\ \A other \in Adjacent(read, id, towards) : Met(read, towards, id, other, nd, ed, visited)

Left(p, id, other) ==
    \E i \in 1 .. Len(p) : p[i].id = id /\ \E j \in 1 .. Len(p[i].rest) : p[i].rest[j] = other

Marked(m) == {id \in TaskIds : m[id] # "new"}

\* Beside a marked task everything was met or is left on the stack.
Walked(read, towards, p, nd, ed, marked, visited) ==
    \A id \in marked :
        /\ Resolved(read, id) = "found"
        /\ \A other \in Adjacent(read, id, towards) :
              Met(read, towards, id, other, nd, ed, visited) \/ Left(p, id, other)

\* A query for dependents has read all projects but the ones that are not there.
AllRead(read) ==
    \A p \in Projects : read[p].state = "unread" => condition.projects[p] = "missing"

LEMMA AdjacentSame ==
    ASSUME NEW old, NEW new, ReadsKept(old), ReadsKept(new), Onwards(old, new),
           NEW id \in TaskIds, Known(old, id), NEW towards \in Directions,
           towards = "blocks" => AllRead(old)
    PROVE  Adjacent(new, id, towards) = Adjacent(old, id, towards)
<1>1. CASE towards = "blocked_by"
  BY <1>1, ReadsStay DEF Adjacent
<1>2. CASE towards # "blocked_by"
  <2>1. AllRead(old)
    BY <1>2 DEF Directions
  <2>2. ASSUME NEW other \in TaskIds PROVE BlockersRead(new, other) = BlockersRead(old, other)
    <3>1. CASE Known(old, other)
      BY <3>1, ReadsStay
    <3>2. CASE ~Known(old, other)
      <4>1. condition.projects[ProjectOf[other]] = "missing" /\ ProjectOf[other] \in Projects
        BY <2>1, <3>2, ProjectsOfIds DEF AllRead, Known
      <4>2. new[ProjectOf[other]].tasks[other] = NoTask
        BY <4>1 DEF ReadsKept
      <4>3. Resolved(new, other) # "found"
        BY <4>2, ResolvedCases, NoTaskAssumption
      <4>4. BlockersRead(old, other) = {}
        BY <3>2, ReadsStay
      <4>5. QED
        BY <4>3, <4>4 DEF BlockersRead
    <3>3. QED
      BY <3>1, <3>2
  <2>3. QED
    BY <1>2, <2>2 DEF Adjacent
<1>3. QED
  BY <1>1, <1>2

LEMMA MetStays ==
    ASSUME NEW old, NEW new, ReadsKept(old), ReadsKept(new), Onwards(old, new),
           NEW id \in TaskIds, Known(old, id), NEW other \in TaskIds, NEW towards,
           NEW nd, NEW ed, NEW visited, Met(old, towards, id, other, nd, ed, visited),
           NEW moreNd, nd \subseteq moreNd, NEW moreEd, ed \subseteq moreEd,
           NEW moreVisited, visited \subseteq moreVisited
    PROVE  Met(new, towards, id, other, moreNd, moreEd, moreVisited)
<1>1. Known(old, other)
  BY DEF Met
<1>2. /\ Known(new, other)
      /\ Visible(new, other) = Visible(old, other)
      /\ Resolved(new, other) = Resolved(old, other)
      /\ TaskNode(new, other) = TaskNode(old, other)
      /\ TaskNode(new, id) = TaskNode(old, id)
  BY <1>1, ReadsStay, TaskNodeStays
<1>3. EdgeOf(new, towards, id, other) = EdgeOf(old, towards, id, other)
  BY <1>2 DEF EdgeOf
<1>4. QED
  BY <1>1, <1>2, <1>3 DEF Met

LEMMA SettledStays ==
    ASSUME NEW old, NEW new, ReadsKept(old), ReadsKept(new), Onwards(old, new),
           NEW towards \in Directions, towards = "blocks" => AllRead(old),
           NEW nd, NEW ed, NEW visited, Settled(old, towards, nd, ed, visited),
           NEW moreNd, nd \subseteq moreNd, NEW moreEd, ed \subseteq moreEd
    PROVE  Settled(new, towards, moreNd, moreEd, visited)
<1>1. ASSUME NEW id \in visited
      PROVE  /\ Resolved(new, id) = "found"
             /\ \A other \in Adjacent(new, id, towards) :
                   Met(new, towards, id, other, moreNd, moreEd, visited)
  <2>1. id \in TaskIds /\ Resolved(old, id) = "found"
    BY DEF Settled
  <2>2. Known(old, id)
    BY <2>1, ResolvedCases
  <2>3. Resolved(new, id) = "found" /\ Adjacent(new, id, towards) = Adjacent(old, id, towards)
    BY <2>1, <2>2, ReadsStay, AdjacentSame
  <2>4. ASSUME NEW other \in Adjacent(old, id, towards)
        PROVE  Met(new, towards, id, other, moreNd, moreEd, visited)
    <3>1. Met(old, towards, id, other, nd, ed, visited)
      BY DEF Settled
    <3>2. other \in TaskIds
      BY <2>1, AdjacentStays
    <3>3. QED
      BY <2>1, <2>2, <3>1, <3>2, MetStays
  <2>5. QED
    BY <2>3, <2>4
<1>2. QED
  BY <1>1 DEF Settled

LEMMA WalkedStays ==
    ASSUME NEW old, NEW new, ReadsKept(old), ReadsKept(new), Onwards(old, new),
           NEW towards \in Directions, towards = "blocks" => AllRead(old),
           NEW p, NEW nd, NEW ed, NEW marked \in SUBSET TaskIds, NEW visited,
           Walked(old, towards, p, nd, ed, marked, visited),
           NEW moreNd, nd \subseteq moreNd, NEW moreEd, ed \subseteq moreEd,
           NEW moreVisited, visited \subseteq moreVisited
    PROVE  Walked(new, towards, p, moreNd, moreEd, marked, moreVisited)
<1>1. ASSUME NEW id \in marked
      PROVE  /\ Resolved(new, id) = "found"
             /\ \A other \in Adjacent(new, id, towards) :
                   \/ Met(new, towards, id, other, moreNd, moreEd, moreVisited)
                   \/ Left(p, id, other)
  <2>1. id \in TaskIds /\ Resolved(old, id) = "found"
    BY DEF Walked
  <2>2. Known(old, id)
    BY <2>1, ResolvedCases
  <2>3. Resolved(new, id) = "found" /\ Adjacent(new, id, towards) = Adjacent(old, id, towards)
    BY <2>1, <2>2, ReadsStay, AdjacentSame
  <2>4. ASSUME NEW other \in Adjacent(old, id, towards), ~Left(p, id, other)
        PROVE  Met(new, towards, id, other, moreNd, moreEd, moreVisited)
    <3>1. Met(old, towards, id, other, nd, ed, visited)
      BY <2>4 DEF Walked
    <3>2. other \in TaskIds
      BY <2>1, AdjacentStays
    <3>3. QED
      BY <2>1, <2>2, <3>1, <3>2, MetStays
  <2>5. QED
    BY <2>3, <2>4
<1>2. QED
  BY <1>1 DEF Walked

LEMMA AllReadStays ==
    ASSUME NEW old, NEW new, Onwards(old, new), AllRead(old)
    PROVE  AllRead(new)
<1>1. ASSUME NEW p \in Projects, new[p].state = "unread" PROVE old[p].state = "unread"
  BY <1>1 DEF Onwards
<1>2. QED
  BY <1>1 DEF AllRead

-----------------------------------------------------------------------------
(* The invariant of a query.                                               *)

SearchKept(read, towards, p, m, nd, ed) ==
    /\ PathKept(read, towards, p)
    /\ \A id \in TaskIds : m[id] = "visiting" => \E i \in 1 .. Len(p) : p[i].id = id
    /\ \A i \in 1 .. Len(p) : TaskNode(read, p[i].id) \in nd /\ m[p[i].id] # "new"
    /\ NodesKept(read, nd)
    /\ EdgesKept(read, nd, ed)

RootKept(read, nd, ed) ==
    /\ Resolved(read, asked.root) = "found"
    /\ RootLeads(TaskNode(read, asked.root), nd, ed)

\* The blockers are settled before the dependents are followed.
BlockersFirst(read, towards, nd, ed) ==
    towards = "blocks" /\ "blocked_by" \in asked.directions =>
        \E visited \in SUBSET TaskIds : Settled(read, "blocked_by", nd, ed, visited)

WalkKept(read, towards, p, m, nd, ed) ==
    /\ towards \in asked.directions
    /\ "blocks" \in asked.directions => AllRead(read)
    /\ asked.depth = NoDepth =>
          /\ Walked(read, towards, p, nd, ed, Marked(m), Marked(m))
          /\ BlockersFirst(read, towards, nd, ed)

QueryKept(read, towards, p, m, nd, ed, ph) ==
    /\ ReadsKept(read)
    /\ SearchKept(read, towards, p, m, nd, ed)
    /\ ph = "start" => nd = {} /\ ed = {}
    /\ ph \in {"start", "gather"} => p = <<>> /\ Marked(m) = {}
    /\ ph \notin {"start", "not_found", "unreadable"} => RootKept(read, nd, ed)
    /\ ph = "walk" => WalkKept(read, towards, p, m, nd, ed)
    /\ ph = "answered" /\ asked.depth = NoDepth =>
          \A some \in asked.directions :
              \E visited \in SUBSET TaskIds : Settled(read, some, nd, ed, visited)
    /\ ph \in {"cycle", "invalid"} => \E ids \in SUBSET TaskIds : Circle(read, ids)

GraphInv ==
    /\ BoardInv
    /\ GraphTypeOK
    /\ QueryKept(reads, direction, path, marks, nodes, edges, phase)

LEMMA SearchStays ==
    ASSUME QueryTyped, NEW old, NEW new, ReadsKept(old), ReadsKept(new), Onwards(old, new),
           NEW towards \in Directions, NEW p, NEW m, NEW nd, NEW ed,
           SearchKept(old, towards, p, m, nd, ed)
    PROVE  SearchKept(new, towards, p, m, nd, ed)
<1>1. PathKept(old, towards, p) /\ NodesKept(old, nd) /\ EdgesKept(old, nd, ed) /\ nd \subseteq Nodes
  BY DEF SearchKept, NodesKept
<1>2. PathKept(new, towards, p) /\ NodesKept(new, nd) /\ EdgesKept(new, nd, ed)
  BY <1>1, PathStays, NodesStay, EdgesStay
<1>3. ASSUME NEW i \in 1 .. Len(p) PROVE TaskNode(new, p[i].id) \in nd /\ m[p[i].id] # "new"
  <2>1. p[i].id \in TaskIds /\ Resolved(old, p[i].id) = "found"
    BY <1>1, StackTyped DEF PathKept, Stacked
  <2>2. Known(old, p[i].id)
    BY <2>1, ResolvedCases
  <2>3. TaskNode(old, p[i].id) \in nd /\ m[p[i].id] # "new"
    BY DEF SearchKept
  <2>4. QED
    BY <2>1, <2>2, <2>3, TaskNodeStays
<1>4. QED
  BY <1>2, <1>3 DEF SearchKept

LEMMA RootStays ==
    ASSUME QueryTyped, NEW old, NEW new, ReadsKept(old), ReadsKept(new), Onwards(old, new),
           NEW nd, NEW ed, RootKept(old, nd, ed)
    PROVE  RootKept(new, nd, ed)
<1>1. asked.root \in TaskIds /\ Resolved(old, asked.root) = "found"
  BY AskedTyped DEF RootKept
<1>2. Known(old, asked.root)
  BY <1>1, ResolvedCases
<1>3. Resolved(new, asked.root) = "found" /\ TaskNode(new, asked.root) = TaskNode(old, asked.root)
  BY <1>1, <1>2, ReadsStay, TaskNodeStays
<1>4. QED
  BY <1>3 DEF RootKept

\* What holds of the next reads and results holds in the next state, because
\* the query and its conditions stay.
LEMMA QueryKeptNext ==
    ASSUME asked' = asked, condition' = condition,
           QueryKept(reads', direction', path', marks', nodes', edges', phase')
    PROVE  QueryKept(reads, direction, path, marks, nodes, edges, phase)'
<1>1. /\ \A id : Resolved(reads, id)' = Resolved(reads', id)
      /\ \A id : (Known(reads, id)' <=> Known(reads', id))
  BY DEF Resolved, Known
<1>2. \A id : (Visible(reads, id)' <=> Visible(reads', id))
  BY DEF Visible, Resolved
<1>3. \A id : BlockersRead(reads, id)' = BlockersRead(reads', id)
  BY DEF BlockersRead, Resolved
<1>4. \A id, towards : Adjacent(reads, id, towards)' = Adjacent(reads', id, towards)
  BY DEF Adjacent, BlockersRead, Resolved
<1>5. \A id, towards : KnownBeside(reads, id, towards)' = KnownBeside(reads', id, towards)
  BY DEF KnownBeside, Known, Visible, Adjacent, BlockersRead, Resolved
<1>6. \A id : TaskNode(reads, id)' = TaskNode(reads', id)
  BY DEF TaskNode, Resolved
<1>7. \A towards, c, n, id : (Chain(reads, towards, c, n, id)' <=> Chain(reads', towards, c, n, id))
  BY <1>5 DEF Chain
<1>8. \A towards, id : (Led(reads, towards, id)' <=> Led(reads', towards, id))
  BY <1>7 DEF Led
<1>9. \A towards, p, i : (Stacked(reads, towards, p, i)' <=> Stacked(reads', towards, p, i))
  BY <1>1, <1>4, <1>5 DEF Stacked
<1>10. \A nd : (NodesKept(reads, nd)' <=> NodesKept(reads', nd))
  BY <1>1, <1>6, <1>8 DEF NodesKept
<1>11. \A towards, b, d : (LinkRead(reads, towards, b, d)' <=> LinkRead(reads', towards, b, d))
  BY <1>5, <1>8 DEF LinkRead
<1>12. \A e : (EdgeKept(reads, e)' <=> EdgeKept(reads', e))
  BY <1>11 DEF EdgeKept
<1>13. \A towards, id, other, nd, ed, visited :
         (Met(reads, towards, id, other, nd, ed, visited)'
            <=> Met(reads', towards, id, other, nd, ed, visited))
  BY <1>1, <1>2, <1>6 DEF Met, EdgeOf
<1>14. \A towards, nd, ed, visited :
         (Settled(reads, towards, nd, ed, visited)' <=> Settled(reads', towards, nd, ed, visited))
  BY <1>1, <1>4, <1>13 DEF Settled
<1>15. \A towards, p, nd, ed, marked, visited :
         (Walked(reads, towards, p, nd, ed, marked, visited)'
            <=> Walked(reads', towards, p, nd, ed, marked, visited))
  BY <1>1, <1>4, <1>13 DEF Walked
<1>16. (ReadsKept(reads)' <=> ReadsKept(reads')) /\ (AllRead(reads)' <=> AllRead(reads'))
  BY DEF ReadsKept, AllRead
<1>17. QED
  BY <1>1, <1>3, <1>6, <1>9, <1>10, <1>12, <1>14, <1>15, <1>16
  DEF QueryKept, SearchKept, PathKept, EdgesKept, RootKept, WalkKept, BlockersFirst, Circle

-----------------------------------------------------------------------------
(* Visiting a task.                                                        *)

LEMMA PathGrows ==
    ASSUME NEW read, NEW towards, NEW p, PathKept(read, towards, p),
           NEW id \in TaskIds, NEW rest \in Seq(TaskIds), Resolved(read, id) = "found",
           \A j \in 1 .. Len(rest) : rest[j] \in Adjacent(read, id, towards),
           asked.depth # NoDepth => /\ Len(p) + 1 <= asked.depth + 1
                                    /\ rest # <<>> => Len(p) + 1 <= asked.depth,
           IF Len(p) = 0 THEN id = asked.root ELSE id \in KnownBeside(read, p[Len(p)].id, towards)
    PROVE  PathKept(read, towards, Append(p, [id |-> id, rest |-> rest]))
<1> DEFINE entry == [id |-> id, rest |-> rest]
           q == Append(p, entry)
<1>1. p \in Seq([id: TaskIds, rest: Seq(TaskIds)]) /\ entry \in [id: TaskIds, rest: Seq(TaskIds)]
  BY DEF PathKept
<1>2. q \in Seq([id: TaskIds, rest: Seq(TaskIds)]) /\ Len(q) = Len(p) + 1 /\ Len(p) \in Nat
  BY <1>1
<1>3. (\A i \in 1 .. Len(p) : q[i] = p[i]) /\ q[Len(p) + 1] = entry
  BY <1>1
<1>4. entry.id = id /\ entry.rest = rest
  OBVIOUS
<1> HIDE DEF entry, q
<1>5. ASSUME NEW i \in 1 .. Len(q) PROVE Stacked(read, towards, q, i)
  <2>1. CASE i \in 1 .. Len(p)
    <3>1. Stacked(read, towards, p, i)
      BY <2>1 DEF PathKept
    <3>2. q[i] = p[i]
      BY <1>3, <2>1
    <3>4. ASSUME i # 1 PROVE q[i - 1] = p[i - 1]
      <4>1. i - 1 \in 1 .. Len(p)
        BY <1>2, <2>1, <3>4
      <4>2. QED
        BY <1>3, <4>1
    <3>3. QED
      BY <3>1, <3>2, <3>4 DEF Stacked
  <2>2. CASE i = Len(p) + 1
    <3>1. q[i].id = id /\ q[i].rest = rest
      BY <1>3, <1>4, <2>2
    <3>2. CASE Len(p) = 0
      BY <2>2, <3>1, <3>2 DEF Stacked
    <3>3. CASE Len(p) # 0
      <4>1. i # 1 /\ q[i - 1] = p[Len(p)]
        BY <1>2, <1>3, <2>2, <3>3
      <4>2. id \in KnownBeside(read, p[Len(p)].id, towards)
        BY <3>3
      <4>3. QED
        BY <2>2, <3>1, <4>1, <4>2 DEF Stacked
    <3>4. QED
      BY <3>2, <3>3
  <2>3. QED
    BY <1>2, <2>1, <2>2
<1>6. PathKept(read, towards, q)
  BY <1>2, <1>5 DEF PathKept
<1>7. QED
  BY <1>6 DEF q, entry

\* The node that stands for what the depth limit cuts off.
LEMMA LimitKeepsGraph ==
    ASSUME NEW read, ReadsKept(read), NEW nd, NEW ed, NEW root, NodesKept(read, nd),
           EdgesKept(read, nd, ed), RootLeads(root, nd, ed),
           direction \in Directions, NEW id \in TaskIds, TaskNode(read, id) \in nd,
           NEW limits, limits \in {{}, {LimitNode(id)}}, NEW withLimit,
           limits = {} => withLimit = ed,
           limits # {} => withLimit = ed \cup {Edge(TaskNode(read, id), LimitNode(id))}
    PROVE  /\ NodesKept(read, nd \cup limits)
           /\ EdgesKept(read, nd \cup limits, withLimit)
           /\ RootLeads(root, nd \cup limits, withLimit)
<1> DEFINE limit == LimitNode(id)
           e == Edge(TaskNode(read, id), limit)
<1>1. CASE limits = {}
  <2>1. nd \cup limits = nd /\ withLimit = ed
    BY <1>1
  <2>2. QED
    BY <2>1
<1>2. CASE limits = {limit}
  <2>1. withLimit = ed \cup {e}
    BY <1>2
  <2>2. limit \in Nodes /\ limit.kind = "limit" /\ limit.direction = direction
    BY DEF LimitNode, Nodes
  <2>3. TaskNode(read, id).kind # "limit"
    BY TaskNodeTyped
  <2>4. NodesKept(read, nd \cup {limit})
    BY <2>2 DEF NodesKept
  <2>5. e \in {<<limit, TaskNode(read, id)>>, <<TaskNode(read, id), limit>>} /\ EdgeKept(read, e)
    BY <2>2, <2>3 DEF Edge, EdgeKept, Directions
  <2> HIDE DEF e, limit
  <2>6. e \in (nd \cup {limit}) \X (nd \cup {limit})
    BY <2>5
  <2>7. EdgesKept(read, nd \cup {limit}, ed \cup {e})
    BY <2>5, <2>6, OneMoreEdge
  <2>8. RootLeads(root, nd \cup {limit}, ed \cup {e})
    <3> DEFINE current == TaskNode(read, id)
    <3>1. current \in nd /\ e \in {<<limit, current>>, <<current, limit>>} /\ ed \subseteq nd \X nd
      BY <2>5 DEF EdgesKept
    <3> HIDE DEF current
    <3>2. QED
      BY <3>1, RootLeadsToOneMore
  <2>9. QED
    BY <1>2, <2>1, <2>4, <2>7, <2>8
<1>3. QED
  BY <1>1, <1>2

\* A query that gives up keeps what it had.
LEMMA FailKeepsQuery ==
    ASSUME QueryTyped, NEW new, ReadsKept(reads), ReadsKept(new), Onwards(reads, new),
           direction \in Directions,
           SearchKept(reads, direction, path, marks, nodes, edges),
           NEW how \in {"not_found", "unreadable", "too_large"},
           how = "too_large" => RootKept(reads, nodes, edges)
    PROVE  QueryKept(new, direction, path, marks, nodes, edges, how)
<1>1. SearchKept(new, direction, path, marks, nodes, edges)
  BY SearchStays
<1>2. how = "too_large" => RootKept(new, nodes, edges)
  BY RootStays
<1>3. QED
  BY <1>1, <1>2 DEF QueryKept

LEMMA LookedUpTyped ==
    ASSUME NEW read, ReadsKept(read), NEW id \in TaskIds, direction \in Directions
    PROVE  LookedUp(Adjacent(read, id, direction)) \in SUBSET TaskIds
<1>1. Adjacent(read, id, direction) \in SUBSET TaskIds
  BY ResolvedCases DEF Adjacent
<1>2. QED
  BY <1>1 DEF LookedUp

LEMMA VisitKeepsQuery ==
    ASSUME QueryTyped, condition \in Conditions, board \in Vaults, ReadsKept(reads),
           direction \in Directions, marks \in [TaskIds -> {"new", "visiting", "complete"}],
           phase = "walk",
           WalkKept(reads, direction, path, marks, nodes, edges),
           SearchKept(reads, direction, path, marks, nodes, edges), RootKept(reads, nodes, edges),
           NEW read, ReadsKept(read), Onwards(reads, read),
           NEW id \in TaskIds, Resolved(read, id) = "found",
           NEW below, NEW nd, NEW ed,
           SearchKept(read, direction, below, marks, nd, ed), RootKept(read, nd, ed),
           TaskNode(read, id) \in nd,
           asked.depth # NoDepth => Len(below) <= asked.depth,
           IF Len(below) = 0 THEN id = asked.root
           ELSE id \in KnownBeside(read, below[Len(below)].id, direction),
           asked.depth = NoDepth =>
              /\ Walked(read, direction, below, nd, ed, Marked(marks), Marked(marks) \cup {id})
              /\ BlockersFirst(read, direction, nd, ed),
           Visit(id, Len(below), below, read, nd, ed)
    PROVE  /\ QueryKept(reads', direction', path', marks', nodes', edges', phase')
           /\ direction' = direction /\ phase' \in {phase, "too_large"}
           /\ marks' \in [TaskIds -> {"new", "visiting", "complete"}]
           /\ Fits(nodes', edges') \/ UNCHANGED <<nodes, edges>>
<1> DEFINE depth == Len(below)
           beside == Adjacent(read, id, direction)
           looked == IF AtLimit(depth) THEN LookedUp(beside) ELSE {}
           known == [p \in Projects |->
                       IF read[p].state = "unread" THEN ReadFor(looked)[p] ELSE read[p]]
           cut == \E other \in looked : Visible(known, other)
           limits == IF cut THEN {LimitNode(id)} ELSE {}
           withLimit == ed \cup {Edge(TaskNode(read, id), limit) : limit \in limits}
           rest == IF AtLimit(depth) THEN <<>> ELSE InOrder(beside)
<1>1. \/ Fail("too_large") /\ reads' = known
      \/ /\ Fits(nd \cup limits, withLimit)
         /\ reads' = known
         /\ marks' = [marks EXCEPT ![id] = "visiting"]
         /\ path' = Append(below, [id |-> id, rest |-> rest])
         /\ nodes' = nd \cup limits
         /\ edges' = withLimit
         /\ UNCHANGED <<phase, direction>>
  BY DEF Visit
<1>2. looked \in SUBSET TaskIds
  BY LookedUpTyped
<1>3. ReadsKept(known) /\ Onwards(read, known)
  <2> HIDE DEF looked
  <2>1. QED
    BY <1>2, LookingGoesOnwards
<1>4. beside \in SUBSET TaskIds
  BY ResolvedCases DEF Adjacent
<1>5. asked.depth = NoDepth => limits = {} /\ rest = InOrder(beside)
  BY DEF AtLimit
<1>6. limits \in {{}, {LimitNode(id)}} /\ rest \in {<<>>, InOrder(beside)}
  OBVIOUS
<1>7. asked.depth # NoDepth =>
         asked.depth \in Nat /\ depth <= asked.depth /\ (rest # <<>> => depth < asked.depth)
  <2>1. asked.depth # NoDepth => asked.depth \in Nat
    BY AskedTyped
  <2>2. depth \in Nat
    BY DEF SearchKept, PathKept
  <2>3. QED
    BY <2>1, <2>2 DEF AtLimit
<1> HIDE DEF beside, looked, known, cut, limits, rest
<1>8. Onwards(reads, known)
  BY <1>3, OnwardsTransitive
<1>9. CASE Fail("too_large") /\ reads' = known
  <2>1. QueryKept(known, direction, path, marks, nodes, edges, "too_large")
    BY <1>3, <1>8, FailKeepsQuery
  <2>2. QED
    BY <1>9, <2>1 DEF Fail, traversal, result
<1>10. CASE /\ Fits(nd \cup limits, withLimit)
            /\ reads' = known
            /\ marks' = [marks EXCEPT ![id] = "visiting"]
            /\ path' = Append(below, [id |-> id, rest |-> rest])
            /\ nodes' = nd \cup limits
            /\ edges' = withLimit
            /\ UNCHANGED <<phase, direction>>
  <2>1. SearchKept(known, direction, below, marks, nd, ed) /\ RootKept(known, nd, ed)
    BY <1>3, SearchStays, RootStays
  <2>2. /\ Known(read, id) /\ Known(known, id) /\ Resolved(known, id) = "found"
        /\ TaskNode(known, id) = TaskNode(read, id)
    BY <1>3, ResolvedCases, ReadsStay, TaskNodeStays
  <2>3. beside \subseteq Adjacent(known, id, direction)
    BY <1>3, AdjacentStays DEF beside
  <2>4. /\ rest \in Seq(TaskIds)
        /\ \A j \in 1 .. Len(rest) : rest[j] \in beside
    <3>1. CASE rest = <<>>
      BY <3>1
    <3>2. CASE rest = InOrder(beside)
      BY <1>4, <3>2, InOrderLists
    <3>3. QED
      BY <1>6, <3>1, <3>2
  <2>5. PathKept(known, direction, path')
    <3>1. PathKept(known, direction, below) /\ Len(below) \in Nat
      BY <2>1 DEF SearchKept, PathKept
    <3>2. IF Len(below) = 0 THEN id = asked.root
          ELSE id \in KnownBeside(known, below[Len(below)].id, direction)
      <4>1. CASE Len(below) = 0
        BY <4>1
      <4>2. CASE Len(below) # 0
        <5>1. below[Len(below)].id \in TaskIds
          <6>1. Len(below) \in 1 .. Len(below)
            BY <3>1, <4>2
          <6>2. QED
            BY <3>1, <6>1, StackTyped DEF PathKept
        <5>2. QED
          BY <1>3, <4>2, <5>1, AdjacentStays
      <4>3. QED
        BY <4>1, <4>2
    <3>3. asked.depth # NoDepth => /\ Len(below) + 1 <= asked.depth + 1
                                   /\ rest # <<>> => Len(below) + 1 <= asked.depth
      BY <1>7, <3>1
    <3>4. \A j \in 1 .. Len(rest) : rest[j] \in Adjacent(known, id, direction)
      BY <2>3, <2>4
    <3>5. QED
      BY <1>10, <2>2, <2>4, <3>1, <3>2, <3>3, <3>4, PathGrows
  <2>6. /\ NodesKept(known, nodes')
        /\ EdgesKept(known, nodes', edges')
        /\ RootKept(known, nodes', edges')
    <3>1. NodesKept(known, nd) /\ EdgesKept(known, nd, ed) /\ TaskNode(known, id) \in nd
      BY <2>1, <2>2 DEF SearchKept
    <3>2. RootLeads(TaskNode(known, asked.root), nd, ed)
      BY <2>1 DEF RootKept
    <3>3. /\ NodesKept(known, nd \cup limits)
          /\ EdgesKept(known, nd \cup limits, withLimit)
          /\ RootLeads(TaskNode(known, asked.root), nd \cup limits, withLimit)
      <4>1. /\ limits = {} => withLimit = ed
            /\ limits # {} => withLimit = ed \cup {Edge(TaskNode(known, id), LimitNode(id))}
        BY <1>6, <2>2
      <4> HIDE DEF withLimit
      <4>2. QED
        BY <1>3, <1>6, <3>1, <3>2, <4>1, LimitKeepsGraph
    <3>4. QED
      BY <1>10, <2>1, <3>3 DEF RootKept
  <2>7. below \in Seq([id: TaskIds, rest: Seq(TaskIds)])
    BY DEF SearchKept, PathKept
  <2>8. /\ Len(path') = Len(below) + 1 /\ Len(below) \in Nat
        /\ \A i \in 1 .. Len(below) : path'[i] = below[i]
        /\ path'[Len(below) + 1].id = id /\ path'[Len(below) + 1].rest = rest
    BY <1>10, <2>4, <2>7
  <2>9. SearchKept(known, direction, path', marks', nodes', edges')
    <3>1. ASSUME NEW x \in TaskIds, marks'[x] = "visiting"
          PROVE  \E i \in 1 .. Len(path') : path'[i].id = x
      <4>1. CASE x = id
        BY <2>8, <4>1
      <4>2. CASE x # id
        <5>1. marks[x] = "visiting"
          BY <1>10, <3>1, <4>2
        <5>2. PICK i \in 1 .. Len(below) : below[i].id = x
          BY <5>1 DEF SearchKept
        <5>3. QED
          BY <2>8, <5>2
      <4>3. QED
        BY <4>1, <4>2
    <3>2. ASSUME NEW i \in 1 .. Len(path')
          PROVE  TaskNode(known, path'[i].id) \in nodes' /\ marks'[path'[i].id] # "new"
      <4>1. CASE i \in 1 .. Len(below)
        <5>1. /\ below[i].id \in TaskIds /\ path'[i].id = below[i].id
              /\ TaskNode(known, below[i].id) \in nd /\ marks[below[i].id] # "new"
          BY <2>1, <2>7, <2>8, <4>1, StackTyped DEF SearchKept
        <5>2. QED
          BY <1>10, <5>1
      <4>2. CASE i = Len(below) + 1
        BY <1>10, <2>2, <2>8, <4>2
      <4>3. QED
        BY <2>8, <4>1, <4>2
    <3>3. QED
      BY <2>5, <2>6, <3>1, <3>2 DEF SearchKept
  <2>10. WalkKept(known, direction, path', marks', nodes', edges')
    <3>1. direction \in asked.directions /\ ("blocks" \in asked.directions => AllRead(reads))
      BY DEF WalkKept
    <3>2. "blocks" \in asked.directions => AllRead(read) /\ AllRead(known)
      BY <1>3, <3>1, AllReadStays
    <3>3. ASSUME asked.depth = NoDepth
          PROVE  /\ Walked(known, direction, path', nodes', edges', Marked(marks'), Marked(marks'))
                 /\ BlockersFirst(known, direction, nodes', edges')
      <4>1. nodes' = nd /\ edges' = ed /\ rest = InOrder(beside)
        BY <1>5, <1>10, <3>3
      <4>2. Marked(marks') = Marked(marks) \cup {id}
        BY <1>10 DEF Marked
      <4>3. Marked(marks) \in SUBSET TaskIds
        BY DEF Marked
      <4>4. Walked(known, direction, below, nd, ed, Marked(marks), Marked(marks) \cup {id})
        BY <1>3, <3>1, <3>2, <3>3, <4>3, WalkedStays
      <4>5. ASSUME NEW x, NEW other, Left(below, x, other) PROVE Left(path', x, other)
        BY <2>8, <4>5 DEF Left
      <4>6. ASSUME NEW other \in Adjacent(known, id, direction) PROVE Left(path', id, other)
        <5>1. other \in beside
          BY <1>3, <2>2, <3>1, <3>2, AdjacentSame DEF beside
        <5>2. PICK j \in 1 .. Len(rest) : rest[j] = other
          BY <1>4, <4>1, <5>1, InOrderLists
        <5>3. Len(below) + 1 \in 1 .. Len(path')
          BY <2>8
        <5>4. QED
          BY <2>8, <5>2, <5>3 DEF Left
      <4>7. Walked(known, direction, path', nodes', edges', Marked(marks'), Marked(marks'))
        BY <2>2, <4>1, <4>2, <4>4, <4>5, <4>6 DEF Walked
      <4>8. BlockersFirst(known, direction, nd, ed)
        BY <1>3, <3>3, SettledStays DEF BlockersFirst, Directions
      <4>9. QED
        BY <4>1, <4>7, <4>8
    <3>4. QED
      BY <3>1, <3>2, <3>3 DEF WalkKept
  <2>11. phase' = "walk" /\ direction' = direction
    BY <1>10
  <2>12. marks' \in [TaskIds -> {"new", "visiting", "complete"}]
    BY <1>10
  <2>13. QueryKept(known, direction, path', marks', nodes', edges', "walk")
    BY <1>3, <2>6, <2>9, <2>10 DEF QueryKept
  <2>14. QED
    BY <1>10, <2>11, <2>12, <2>13
<1>11. QED
  BY <1>1, <1>9, <1>10

-----------------------------------------------------------------------------
(* The steps of a query.                                                   *)

\* What a step of the query itself has to show.
Stepped ==
    /\ QueryKept(reads', direction', path', marks', nodes', edges', phase')
    /\ phase' \in {"start", "gather", "walk"} \cup Endings
    /\ direction' \in Directions
    /\ marks' \in [TaskIds -> {"new", "visiting", "complete"}]
    /\ Fits(nodes', edges')
    /\ UNCHANGED <<board, asked, condition, graphChanges>>

LEMMA SteppedKeepsInv ==
    ASSUME GraphInv, Stepped
    PROVE  GraphInv'
<1>1. asked' = asked /\ condition' = condition /\ board' = board /\ graphChanges' = graphChanges
  BY DEF Stepped
<1>2. QueryKept(reads, direction, path, marks, nodes, edges, phase)'
  BY <1>1, QueryKeptNext DEF Stepped
<1>3. BoardInv' /\ TypeOK'
  <2>1. BoardInv
    BY DEF GraphInv
  <2>2. BoardInv'
    BY <1>1, <2>1, BoardStep
  <2>3. QED
    BY <2>2 DEF BoardInv
<1>4. QueryKept(reads', direction', path', marks', nodes', edges', phase')
  BY DEF Stepped
<1>5. reads' \in [Projects -> Reads]
  BY <1>4 DEF QueryKept, ReadsKept
<1>6. path' \in Seq([id: TaskIds, rest: Seq(TaskIds)])
  BY <1>4 DEF QueryKept, SearchKept, PathKept
<1>7. nodes' \subseteq Nodes /\ edges' \subseteq nodes' \X nodes'
  BY <1>4 DEF QueryKept, SearchKept, NodesKept, EdgesKept
<1>8. asked \in GraphQueries /\ condition \in Conditions /\ graphChanges \in 0 .. MaxGraphChanges
  BY DEF GraphInv, GraphTypeOK
<1>9. /\ phase' \in {"start", "gather", "walk"} \cup Endings
      /\ direction' \in Directions
      /\ marks' \in [TaskIds -> {"new", "visiting", "complete"}]
      /\ Cardinality(nodes') <= MaxNodes
      /\ Cardinality(edges') <= MaxEdges
  BY DEF Stepped, Fits
<1>10. edges' \subseteq Nodes \X Nodes
  BY <1>7
<1>11. GraphTypeOK'
  BY <1>1, <1>3, <1>5, <1>6, <1>7, <1>8, <1>9, <1>10 DEF GraphTypeOK
<1>12. QED
  BY <1>2, <1>3, <1>11 DEF GraphInv

LEMMA RootIsLed ==
    ASSUME QueryTyped, NEW read, NEW towards
    PROVE  Led(read, towards, asked.root)
<1> DEFINE c == [k \in 0 .. 0 |-> asked.root]
<1>1. asked.root \in TaskIds /\ (asked.depth # NoDepth => 0 <= asked.depth)
  BY AskedTyped
<1>2. Chain(read, towards, c, 0, asked.root)
  BY <1>1 DEF Chain
<1> HIDE DEF c
<1>3. QED
  BY <1>1, <1>2 DEF Led

\* What the invariant says before a step.
LEMMA BeforeStep ==
    ASSUME GraphInv
    PROVE  /\ QueryTyped /\ condition \in Conditions /\ board \in Vaults
           /\ phase \in {"start", "gather", "walk"} \cup Endings
           /\ direction \in Directions
           /\ marks \in [TaskIds -> {"new", "visiting", "complete"}]
           /\ Fits(nodes, edges)
           /\ ReadsKept(reads)
           /\ SearchKept(reads, direction, path, marks, nodes, edges)
           /\ Onwards(reads, reads)
<1>1. board \in Vaults
  BY DEF GraphInv, GraphTypeOK, TypeOK
<1>2. QED
  BY <1>1 DEF GraphInv, GraphTypeOK, QueryTyped, QueryKept, Fits, Onwards

LEMMA FailingStep ==
    ASSUME GraphInv, NEW how \in {"not_found", "unreadable", "too_large"},
           ReadsKept(reads'), Onwards(reads, reads'), Fail(how),
           how = "too_large" => phase = "walk",
           UNCHANGED <<board, asked, condition, graphChanges>>
    PROVE  Stepped
<1>1. how = "too_large" => RootKept(reads, nodes, edges)
  BY DEF GraphInv, QueryKept
<1>2. QueryKept(reads', direction, path, marks, nodes, edges, how)
  BY <1>1, BeforeStep, FailKeepsQuery
<1>3. phase' = how /\ UNCHANGED <<direction, path, marks, nodes, edges>>
  BY DEF Fail, traversal, result
<1>4. QED
  BY <1>2, <1>3, BeforeStep DEF Stepped, Endings

LEMMA ReadRootStep ==
    ASSUME GraphInv, ReadRoot
    PROVE  Stepped
<1>1. /\ phase = "start" /\ reads' = ReadFor({asked.root})
      /\ UNCHANGED <<board, asked, condition, graphChanges>>
  BY DEF ReadRoot
<1>2. asked.root \in TaskIds /\ asked.directions # {} /\ asked.directions \subseteq Directions
  BY BeforeStep, AskedTyped
<1>3. ReadsKept(reads') /\ Onwards(reads, reads') /\ Known(reads', asked.root)
  <2>1. {asked.root} \in SUBSET TaskIds
    BY <1>2
  <2>2. QED
    BY <1>1, <2>1, BeforeStep, ReadingGoesOnwards
<1>4. CASE Fail("not_found") \/ Fail("unreadable")
  BY <1>1, <1>3, <1>4, FailingStep
<1>5. CASE /\ Resolved(reads', asked.root) = "found"
           /\ phase' = "gather"
           /\ nodes' = {TaskNode(reads', asked.root)}
           /\ UNCHANGED <<traversal, edges>>
  <2> DEFINE root == TaskNode(reads', asked.root)
  <2>1. UNCHANGED <<direction, marks, path, edges>>
    BY <1>5 DEF traversal
  <2>2. path = <<>> /\ Marked(marks) = {} /\ edges = {}
    BY <1>1 DEF GraphInv, QueryKept
  <2>3. nodes' = {} \cup {root} /\ edges' = {}
    BY <1>5, <2>1, <2>2
  <2>4. PICK towards \in asked.directions : TRUE
    BY <1>2
  <2>5. Led(reads', towards, asked.root)
    BY BeforeStep, RootIsLed
  <2>6. NodesKept(reads', {})
    BY DEF NodesKept
  <2>7. NodesKept(reads', nodes')
    BY <1>2, <1>3, <2>3, <2>4, <2>5, <2>6, OneMoreNode
  <2>8. EdgesKept(reads', nodes', edges')
    BY <2>3 DEF EdgesKept
  <2>9. RootKept(reads', nodes', edges')
    BY <1>5, <2>3 DEF RootKept, RootLeads
  <2>10. PathKept(reads', direction', path')
    BY <2>1, <2>2 DEF PathKept
  <2>11. \A id \in TaskIds : marks'[id] = "new"
    BY <2>1, <2>2 DEF Marked
  <2>12. SearchKept(reads', direction', path', marks', nodes', edges')
    BY <2>1, <2>2, <2>7, <2>8, <2>10, <2>11 DEF SearchKept
  <2>13. QueryKept(reads', direction', path', marks', nodes', edges', phase')
    BY <1>3, <1>5, <2>1, <2>2, <2>9, <2>12 DEF QueryKept
  <2>14. Fits(nodes', edges')
    <3> HIDE DEF root
    <3>1. Cardinality(nodes') = 1 /\ Cardinality(edges') = 0
      BY <2>3, FS_Singleton, FS_EmptySet
    <3>2. QED
      BY <3>1, GraphLimitsAssumption DEF Fits
  <2>15. QED
    BY <1>1, <1>5, <2>1, <2>13, <2>14, BeforeStep DEF Stepped
<1>6. QED
  BY <1>4, <1>5 DEF ReadRoot

LEMMA GatherStep ==
    ASSUME GraphInv, NEW p \in Projects, GatherProject(p)
    PROVE  Stepped
<1>1. /\ phase = "gather" /\ reads' = ReadFor({id \in TaskIds : ProjectOf[id] = p})
      /\ UNCHANGED <<board, asked, condition, graphChanges>>
  BY DEF GatherProject
<1>2. ReadsKept(reads') /\ Onwards(reads, reads')
  BY <1>1, BeforeStep, ReadingGoesOnwards
<1>3. CASE Fail("unreadable")
  BY <1>1, <1>2, <1>3, FailingStep
<1>4. CASE UNCHANGED <<phase, traversal, result>>
  <2>1. UNCHANGED <<phase, direction, marks, path, nodes, edges>>
    BY <1>4 DEF traversal, result
  <2>2. path = <<>> /\ Marked(marks) = {} /\ RootKept(reads, nodes, edges)
    BY <1>1 DEF GraphInv, QueryKept
  <2>3. /\ SearchKept(reads', direction, path, marks, nodes, edges)
        /\ RootKept(reads', nodes, edges)
    BY <1>2, <2>2, BeforeStep, SearchStays, RootStays
  <2>4. QueryKept(reads', direction', path', marks', nodes', edges', phase')
    BY <1>1, <1>2, <2>1, <2>2, <2>3 DEF QueryKept
  <2>5. QED
    BY <1>1, <2>1, <2>4, BeforeStep DEF Stepped
<1>5. QED
  BY <1>3, <1>4 DEF GatherProject

LEMMA StartWalkStep ==
    ASSUME GraphInv, StartWalk
    PROVE  Stepped
<1>1. /\ phase = "gather" /\ Gathered
      /\ UNCHANGED <<board, asked, condition, reads, graphChanges>>
  BY DEF StartWalk
<1>2. CASE Fail("unreadable")
  BY <1>1, <1>2, BeforeStep, FailingStep
<1>3. CASE /\ phase' = "walk"
           /\ direction' = IF "blocked_by" \in asked.directions THEN "blocked_by" ELSE "blocks"
           /\ UNCHANGED <<marks, path, result>>
  <2>1. reads' = reads /\ UNCHANGED <<marks, path, nodes, edges>>
    BY <1>1, <1>3 DEF result
  <2>2. path = <<>> /\ Marked(marks) = {} /\ RootKept(reads, nodes, edges)
    BY <1>1 DEF GraphInv, QueryKept
  <2>3. direction' \in asked.directions /\ direction' \in Directions
    <3>1. asked.directions # {} /\ asked.directions \subseteq Directions
      BY BeforeStep, AskedTyped
    <3>2. QED
      BY <1>3, <3>1 DEF Directions
  <2>4. PathKept(reads, direction', path)
    BY <2>2 DEF PathKept
  <2>5. SearchKept(reads, direction', path, marks, nodes, edges)
    BY <2>4, BeforeStep DEF SearchKept
  <2>6. "blocks" \in asked.directions => AllRead(reads)
    BY <1>1 DEF Gathered, AllRead
  <2>7. Walked(reads, direction', path, nodes, edges, Marked(marks), Marked(marks))
    BY <2>2 DEF Walked
  <2>8. BlockersFirst(reads, direction', nodes, edges)
    BY <1>3 DEF BlockersFirst
  <2>9. WalkKept(reads, direction', path, marks, nodes, edges)
    BY <2>3, <2>6, <2>7, <2>8 DEF WalkKept
  <2>10. QueryKept(reads', direction', path', marks', nodes', edges', phase')
    BY <1>3, <2>1, <2>2, <2>5, <2>9, BeforeStep DEF QueryKept
  <2>11. QED
    BY <1>1, <1>3, <2>1, <2>3, <2>10, BeforeStep DEF Stepped
<1>4. QED
  BY <1>2, <1>3 DEF StartWalk

\* What the invariant says while the query walks.
LEMMA WhileWalking ==
    ASSUME GraphInv, phase = "walk"
    PROVE  /\ RootKept(reads, nodes, edges)
           /\ WalkKept(reads, direction, path, marks, nodes, edges)
BY DEF GraphInv, QueryKept

LEMMA VisitRootStep ==
    ASSUME GraphInv, VisitRoot
    PROVE  Stepped
<1>1. /\ phase = "walk" /\ path = <<>>
      /\ Visit(asked.root, 0, path, reads, nodes, edges)
      /\ UNCHANGED <<board, asked, condition, graphChanges>>
  BY DEF VisitRoot
<1>2. Len(path) = 0 /\ Visit(asked.root, Len(path), path, reads, nodes, edges)
  <2>1. Len(path) = 0
    BY <1>1
  <2>2. QED
    BY <1>1, <2>1
<1>3. asked.root \in TaskIds /\ (asked.depth # NoDepth => Len(path) <= asked.depth)
  BY <1>2, BeforeStep, AskedTyped
<1>4. /\ RootKept(reads, nodes, edges)
      /\ WalkKept(reads, direction, path, marks, nodes, edges)
  BY <1>1, WhileWalking
<1>5. Resolved(reads, asked.root) = "found" /\ TaskNode(reads, asked.root) \in nodes
  BY <1>4 DEF RootKept, RootLeads
<1>6. ASSUME asked.depth = NoDepth
      PROVE  /\ Walked(reads, direction, path, nodes, edges, Marked(marks),
                       Marked(marks) \cup {asked.root})
             /\ BlockersFirst(reads, direction, nodes, edges)
  <2>1. /\ Walked(reads, direction, path, nodes, edges, Marked(marks), Marked(marks))
        /\ BlockersFirst(reads, direction, nodes, edges)
        /\ "blocks" \in asked.directions => AllRead(reads)
        /\ direction \in asked.directions
    BY <1>4, <1>6 DEF WalkKept
  <2>2. Marked(marks) \in SUBSET TaskIds
    BY DEF Marked
  <2>3. QED
    BY <2>1, <2>2, BeforeStep, WalkedStays
<1>7. /\ QueryKept(reads', direction', path', marks', nodes', edges', phase')
      /\ direction' = direction /\ phase' \in {phase, "too_large"}
      /\ marks' \in [TaskIds -> {"new", "visiting", "complete"}]
      /\ Fits(nodes', edges') \/ UNCHANGED <<nodes, edges>>
  BY <1>1, <1>2, <1>3, <1>4, <1>5, <1>6, BeforeStep, VisitKeepsQuery
<1>8. QED
  BY <1>1, <1>7, BeforeStep DEF Stepped, Endings, Fits

\* The stack without the next task beside the last one.
PopNext(p) == [p EXCEPT ![Len(p)].rest = Tail(@)]

LEMMA PopNextTyped ==
    ASSUME NEW p \in Seq([id: TaskIds, rest: Seq(TaskIds)]), p # <<>>, p[Len(p)].rest # <<>>
    PROVE  /\ Len(p) \in 1 .. Len(p)
           /\ PopNext(p) \in Seq([id: TaskIds, rest: Seq(TaskIds)])
           /\ Len(PopNext(p)) = Len(p)
           /\ \A i \in 1 .. Len(p) :
                 /\ PopNext(p)[i].id = p[i].id
                 /\ i # Len(p) => PopNext(p)[i] = p[i]
           /\ PopNext(p)[Len(p)].rest = Tail(p[Len(p)].rest)
           /\ Head(p[Len(p)].rest) = p[Len(p)].rest[1]
           /\ Len(p[Len(p)].rest) >= 1
           /\ p[Len(p)].rest \in Seq(TaskIds)
<1> DEFINE L == Len(p)
           top == p[L]
           q == PopNext(p)
<1>1. L \in Nat /\ L \in 1 .. L
  OBVIOUS
<1>2. top \in [id: TaskIds, rest: Seq(TaskIds)]
  BY <1>1, ElementOfSeq
<1>3. top.rest \in Seq(TaskIds) /\ top.rest # <<>> /\ top.id \in TaskIds
  BY <1>2
<1>4. Tail(top.rest) \in Seq(TaskIds) /\ Len(top.rest) >= 1 /\ Head(top.rest) = top.rest[1]
  BY <1>3
<1> DEFINE entry == [top EXCEPT !.rest = Tail(@)]
<1>5. entry \in [id: TaskIds, rest: Seq(TaskIds)] /\ entry.id = top.id /\ entry.rest = Tail(top.rest)
  BY <1>2, <1>4
<1>6. q = [p EXCEPT ![L] = entry]
  BY DEF PopNext
<1> HIDE DEF entry, q
<1>7. q \in Seq([id: TaskIds, rest: Seq(TaskIds)]) /\ Len(q) = L
  BY <1>1, <1>5, <1>6
<1>8. q[L] = entry /\ \A i \in 1 .. L : i # L => q[i] = p[i]
  BY <1>1, <1>6
<1>9. QED
  BY <1>1, <1>3, <1>4, <1>5, <1>7, <1>8 DEF q

LEMMA PathPops ==
    ASSUME NEW read, NEW towards, NEW p, PathKept(read, towards, p),
           p # <<>>, p[Len(p)].rest # <<>>
    PROVE  PathKept(read, towards, PopNext(p))
<1> DEFINE q == PopNext(p)
           L == Len(p)
<1>1. p \in Seq([id: TaskIds, rest: Seq(TaskIds)]) /\ L \in Nat
  BY DEF PathKept
<1>2. /\ L \in 1 .. L
      /\ q \in Seq([id: TaskIds, rest: Seq(TaskIds)])
      /\ Len(q) = L
      /\ \A i \in 1 .. L : q[i].id = p[i].id /\ (i # L => q[i] = p[i])
      /\ q[L].rest = Tail(p[L].rest)
      /\ p[L].rest \in Seq(TaskIds)
  BY <1>1, PopNextTyped
<1> HIDE DEF q
<1>3. ASSUME NEW i \in 1 .. L PROVE Stacked(read, towards, q, i)
  <2>1. Stacked(read, towards, p, i) /\ q[i].id = p[i].id
    BY <1>2 DEF PathKept
  <2>2. ASSUME i # 1 PROVE q[i - 1].id = p[i - 1].id
    <3>1. i - 1 \in 1 .. L
      BY <1>1, <2>2
    <3>2. QED
      BY <1>2, <3>1
  <2>3. CASE i # L
    BY <1>2, <2>1, <2>2, <2>3 DEF Stacked
  <2>4. CASE i = L
    <3>1. p[i].rest \in Seq(TaskIds) /\ p[i].rest # <<>> /\ q[i].rest = Tail(p[i].rest)
      BY <1>2, <2>4
    <3>2. \A j \in 1 .. Len(q[i].rest) : j + 1 \in 1 .. Len(p[i].rest) /\ q[i].rest[j] = p[i].rest[j + 1]
      BY <3>1
    <3>3. \A j \in 1 .. Len(q[i].rest) : q[i].rest[j] \in Adjacent(read, q[i].id, towards)
      BY <2>1, <3>2 DEF Stacked
    <3>4. QED
      BY <2>1, <2>2, <3>1, <3>3 DEF Stacked
  <2>5. QED
    BY <2>3, <2>4
<1>4. QED
  BY <1>2, <1>3 DEF PathKept, q

LEMMA SearchPops ==
    ASSUME NEW read, NEW towards, NEW p, NEW m, NEW nd, NEW ed,
           SearchKept(read, towards, p, m, nd, ed), p # <<>>, p[Len(p)].rest # <<>>
    PROVE  SearchKept(read, towards, PopNext(p), m, nd, ed)
<1>1. PathKept(read, towards, p) /\ p \in Seq([id: TaskIds, rest: Seq(TaskIds)])
  BY DEF SearchKept, PathKept
<1>2. PathKept(read, towards, PopNext(p))
  BY <1>1, PathPops
<1>3. Len(PopNext(p)) = Len(p) /\ \A i \in 1 .. Len(p) : PopNext(p)[i].id = p[i].id
  BY <1>1, PopNextTyped
<1>4. QED
  BY <1>2, <1>3 DEF SearchKept

\* What is beside a task is met, or still left on the stack, once the next one
\* of the stack is met.
LEMMA WalkedPops ==
    ASSUME NEW read, NEW towards, NEW p \in Seq([id: TaskIds, rest: Seq(TaskIds)]),
           p # <<>>, p[Len(p)].rest # <<>>,
           NEW nd, NEW ed, NEW marked, NEW visited,
           Walked(read, towards, p, nd, ed, marked, visited),
           Met(read, towards, p[Len(p)].id, Head(p[Len(p)].rest), nd, ed, visited)
    PROVE  Walked(read, towards, PopNext(p), nd, ed, marked, visited)
<1> DEFINE q == PopNext(p)
           L == Len(p)
<1>1. /\ L \in 1 .. L
      /\ Len(q) = L
      /\ \A i \in 1 .. L : q[i].id = p[i].id /\ (i # L => q[i] = p[i])
      /\ q[L].rest = Tail(p[L].rest)
      /\ p[L].rest \in Seq(TaskIds)
      /\ Head(p[L].rest) = p[L].rest[1]
  BY PopNextTyped
<1> HIDE DEF q
<1>2. ASSUME NEW id, NEW other, Left(p, id, other)
      PROVE  Met(read, towards, id, other, nd, ed, visited) \/ Left(q, id, other)
  <2>1. PICK i \in 1 .. L : p[i].id = id /\ \E j \in 1 .. Len(p[i].rest) : p[i].rest[j] = other
    BY <1>2 DEF Left
  <2>2. PICK j \in 1 .. Len(p[i].rest) : p[i].rest[j] = other
    BY <2>1
  <2>3. CASE i # L
    BY <1>1, <2>1, <2>3 DEF Left
  <2>4. CASE i = L /\ j = 1
    BY <1>1, <2>1, <2>2, <2>4
  <2>5. CASE i = L /\ j # 1
    <3>1. j - 1 \in 1 .. Len(q[L].rest) /\ q[L].rest[j - 1] = other
      <4>1. j \in 1 .. Len(p[L].rest) /\ p[L].rest[j] = other /\ j # 1
        BY <2>2, <2>5
      <4>2. j - 1 \in 1 .. Len(Tail(p[L].rest)) /\ Tail(p[L].rest)[j - 1] = p[L].rest[j]
        BY <1>1, <4>1
      <4>3. QED
        BY <1>1, <4>1, <4>2
    <3>2. q[L].id = id
      BY <1>1, <2>1, <2>5
    <3>3. QED
      BY <1>1, <3>1, <3>2 DEF Left
  <2>6. QED
    BY <2>3, <2>4, <2>5
<1>3. Walked(read, towards, q, nd, ed, marked, visited)
  BY <1>2 DEF Walked
<1>4. QED
  BY <1>3 DEF q

LEMMA BlockersFirstStay ==
    ASSUME NEW old, NEW new, ReadsKept(old), ReadsKept(new), Onwards(old, new),
           NEW towards, NEW nd, NEW ed, BlockersFirst(old, towards, nd, ed),
           NEW moreNd, nd \subseteq moreNd, NEW moreEd, ed \subseteq moreEd
    PROVE  BlockersFirst(new, towards, moreNd, moreEd)
<1> SUFFICES ASSUME towards = "blocks", "blocked_by" \in asked.directions
             PROVE  \E visited \in SUBSET TaskIds :
                       Settled(new, "blocked_by", moreNd, moreEd, visited)
  BY DEF BlockersFirst
<1>1. PICK visited \in SUBSET TaskIds : Settled(old, "blocked_by", nd, ed, visited)
  BY DEF BlockersFirst
<1>2. Settled(new, "blocked_by", moreNd, moreEd, visited)
  BY <1>1, SettledStays DEF Directions
<1>3. QED
  BY <1>2

\* The next task beside the one being visited, once its project is read.
LEMMA NextBeside ==
    ASSUME GraphInv, phase = "walk", path # <<>>, Top.rest # <<>>,
           NEW id, id = Head(Top.rest), NEW read, read = ReadFor({id})
    PROVE  /\ id \in TaskIds /\ Top.id \in TaskIds
           /\ ReadsKept(read) /\ Onwards(reads, read) /\ Known(read, id)
           /\ id \in Adjacent(read, Top.id, direction)
           /\ Resolved(read, Top.id) = "found"
           /\ SearchKept(read, direction, path, marks, nodes, edges)
           /\ SearchKept(read, direction, PopNext(path), marks, nodes, edges)
           /\ RootKept(read, nodes, edges)
           /\ Visible(read, id) => /\ id \in KnownBeside(read, Top.id, direction)
                                   /\ Led(read, direction, id)
                                   /\ Led(read, direction, Top.id)
           /\ asked.depth # NoDepth => Len(path) <= asked.depth
<1> DEFINE L == Len(path)
<1>1. PathKept(reads, direction, path) /\ path \in Seq([id: TaskIds, rest: Seq(TaskIds)])
  BY BeforeStep DEF SearchKept, PathKept
<1>2. Top = path[L] /\ path[L].rest # <<>>
  BY DEF Top
<1>3. /\ L \in 1 .. L /\ id = path[L].rest[1] /\ Len(path[L].rest) >= 1
      /\ path[L].rest \in Seq(TaskIds)
  BY <1>1, <1>2, PopNextTyped
<1>4. Top.id \in TaskIds
  BY <1>1, <1>2, <1>3, StackTyped
<1>5. 1 \in 1 .. Len(path[L].rest)
  BY <1>3
<1>6. id \in TaskIds
  BY <1>3, <1>5, ElementOfSeq
<1>7. ReadsKept(read) /\ Onwards(reads, read) /\ Known(read, id)
  <2>1. {id} \in SUBSET TaskIds
    BY <1>6
  <2>2. QED
    BY <2>1, BeforeStep, ReadingGoesOnwards
<1>8. /\ SearchKept(read, direction, path, marks, nodes, edges)
      /\ RootKept(read, nodes, edges)
  BY <1>7, BeforeStep, WhileWalking, SearchStays, RootStays
<1>9. SearchKept(read, direction, PopNext(path), marks, nodes, edges)
  BY <1>2, <1>8, SearchPops
<1>10. PathKept(read, direction, path)
  BY <1>8 DEF SearchKept
<1>11. Stacked(read, direction, path, L)
  BY <1>3, <1>10 DEF PathKept
<1>12. Resolved(read, Top.id) = "found" /\ id \in Adjacent(read, Top.id, direction)
  BY <1>2, <1>3, <1>5, <1>11 DEF Stacked
<1>13. asked.depth # NoDepth => L <= asked.depth
  BY <1>2, <1>11 DEF Stacked
<1>14. ASSUME Visible(read, id)
       PROVE  /\ id \in KnownBeside(read, Top.id, direction)
              /\ Led(read, direction, id)
              /\ Led(read, direction, Top.id)
  <2>1. id \in KnownBeside(read, Top.id, direction)
    BY <1>6, <1>7, <1>12, <1>14 DEF KnownBeside
  <2>2. QED
    BY <1>2, <1>3, <1>10, <2>1, BeforeStep, PathLeads
<1>15. QED
  BY <1>4, <1>6, <1>7, <1>8, <1>9, <1>12, <1>13, <1>14

\* If it is visible, its node and its edge belong to the graph.
LEMMA NextShown ==
    ASSUME GraphInv, phase = "walk", path # <<>>, Top.rest # <<>>,
           NEW id, id = Head(Top.rest), NEW read, read = ReadFor({id}), Visible(read, id),
           NEW nd, nd = nodes \cup {TaskNode(read, id)},
           NEW ed, ed = edges \cup {Edge(TaskNode(read, Top.id), TaskNode(read, id))}
    PROVE  /\ SearchKept(read, direction, PopNext(path), marks, nd, ed)
           /\ RootKept(read, nd, ed)
           /\ EdgeOf(read, direction, Top.id, id) \in ed
<1> DEFINE n == TaskNode(read, id)
           current == TaskNode(read, Top.id)
           e == Edge(current, n)
<1>1. /\ id \in TaskIds /\ Top.id \in TaskIds
      /\ ReadsKept(read) /\ Known(read, id)
      /\ SearchKept(read, direction, PopNext(path), marks, nodes, edges)
      /\ SearchKept(read, direction, path, marks, nodes, edges)
      /\ RootKept(read, nodes, edges)
      /\ id \in KnownBeside(read, Top.id, direction)
      /\ Led(read, direction, id) /\ Led(read, direction, Top.id)
  BY NextBeside
<1>2. direction \in asked.directions
  BY WhileWalking DEF WalkKept
<1>3. NodesKept(read, nodes) /\ EdgesKept(read, nodes, edges)
  BY <1>1 DEF SearchKept
<1>4. NodesKept(read, nd)
  BY <1>1, <1>2, <1>3, OneMoreNode
<1>5. current \in nodes
  <2>1. path \in Seq([id: TaskIds, rest: Seq(TaskIds)])
    BY <1>1 DEF SearchKept, PathKept
  <2>2. Len(path) \in 1 .. Len(path)
    BY <2>1
  <2>3. QED
    BY <1>1, <2>2 DEF SearchKept, Top
<1>6. /\ n.kind # "limit" /\ current.kind # "limit" /\ n.id = id /\ current.id = Top.id
  BY <1>1, TaskNodeTyped
<1> HIDE DEF n, current
<1>7. e \in {<<n, current>>, <<current, n>>}
  BY DEF Edge
<1>8. EdgeKept(read, e)
  <2>1. CASE direction = "blocked_by"
    <3>1. e = <<n, current>>
      BY <2>1 DEF Edge
    <3>2. LinkRead(read, direction, id, Top.id)
      BY <1>1, <2>1 DEF LinkRead
    <3>3. e[1].kind # "limit" /\ e[2].kind # "limit" /\ e[1].id = id /\ e[2].id = Top.id
      BY <1>6, <3>1
    <3>4. QED
      BY <1>2, <3>2, <3>3 DEF EdgeKept
  <2>2. CASE direction # "blocked_by"
    <3>1. e = <<current, n>>
      BY <2>2 DEF Edge
    <3>2. LinkRead(read, direction, Top.id, id)
      BY <1>1, <2>2 DEF LinkRead
    <3>3. e[1].kind # "limit" /\ e[2].kind # "limit" /\ e[1].id = Top.id /\ e[2].id = id
      BY <1>6, <3>1
    <3>4. QED
      BY <1>2, <3>2, <3>3 DEF EdgeKept
  <2>3. QED
    BY <2>1, <2>2
<1>9. nd = nodes \cup {n} /\ ed = edges \cup {e}
  BY DEF n, current
<1>10. e \in (nodes \cup {n}) \X (nodes \cup {n})
  BY <1>5, <1>7
<1>11. EdgeOf(read, direction, Top.id, id) = e
  BY DEF EdgeOf, Edge, n, current
<1> HIDE DEF e
<1>12. EdgesKept(read, nd, ed)
  <2>1. EdgesKept(read, nodes \cup {n}, edges \cup {e})
    BY <1>3, <1>8, <1>10, OneMoreEdge
  <2>2. QED
    BY <1>9, <2>1
<1>13. RootKept(read, nd, ed)
  <2>1. edges \subseteq nodes \X nodes /\ RootLeads(TaskNode(read, asked.root), nodes, edges)
    BY <1>1, <1>3 DEF EdgesKept, RootKept
  <2>2. RootLeads(TaskNode(read, asked.root), nodes \cup {n}, edges \cup {e})
    BY <1>5, <1>7, <2>1, RootLeadsToOneMore
  <2>3. QED
    BY <1>1, <1>9, <2>2 DEF RootKept
<1>14. SearchKept(read, direction, PopNext(path), marks, nd, ed)
  BY <1>1, <1>4, <1>9, <1>12 DEF SearchKept
<1>15. QED
  BY <1>9, <1>11, <1>13, <1>14

\* Without a depth limit, the walk goes on once it is met.
LEMMA NextMet ==
    ASSUME GraphInv, phase = "walk", path # <<>>, Top.rest # <<>>, asked.depth = NoDepth,
           NEW id, id = Head(Top.rest), NEW read, read = ReadFor({id}),
           NEW nd, nodes \subseteq nd, NEW ed, edges \subseteq ed,
           NEW visited, Marked(marks) \subseteq visited,
           Met(read, direction, Top.id, id, nd, ed, visited)
    PROVE  /\ Walked(read, direction, PopNext(path), nd, ed, Marked(marks), visited)
           /\ BlockersFirst(read, direction, nd, ed)
<1>1. ReadsKept(read) /\ Onwards(reads, read)
  BY NextBeside
<1>2. /\ Walked(reads, direction, path, nodes, edges, Marked(marks), Marked(marks))
      /\ BlockersFirst(reads, direction, nodes, edges)
      /\ direction = "blocks" => AllRead(reads)
  BY WhileWalking DEF WalkKept
<1>3. Marked(marks) \in SUBSET TaskIds
  BY DEF Marked
<1>4. Walked(read, direction, path, nd, ed, Marked(marks), visited)
  BY <1>1, <1>2, <1>3, BeforeStep, WalkedStays
<1>5. path \in Seq([id: TaskIds, rest: Seq(TaskIds)])
  BY BeforeStep DEF SearchKept, PathKept
<1>6. path[Len(path)] = Top
  BY DEF Top
<1>7. Walked(read, direction, PopNext(path), nd, ed, Marked(marks), visited)
  BY <1>4, <1>5, <1>6, WalkedPops
<1>8. BlockersFirst(read, direction, nd, ed)
  BY <1>1, <1>2, BeforeStep, BlockersFirstStay
<1>9. QED
  BY <1>7, <1>8

LEMMA VisitAdjacentStep ==
    ASSUME GraphInv, VisitAdjacent
    PROVE  Stepped
<1> DEFINE id == Head(Top.rest)
           read == ReadFor({id})
           below == PopNext(path)
           n == TaskNode(read, id)
           e == Edge(TaskNode(read, Top.id), n)
           allNodes == nodes \cup {n}
           allEdges == edges \cup {e}
           found == Resolved(read, id) = "found"
<1>1. /\ phase = "walk" /\ path # <<>> /\ Top.rest # <<>>
      /\ UNCHANGED <<board, asked, condition, graphChanges>>
  BY DEF VisitAdjacent
<1>2. \/ /\ ~Visible(read, id)
         /\ reads' = read
         /\ path' = below
         /\ UNCHANGED <<phase, direction, marks, result>>
      \/ /\ reads' = read
         /\ Fail("too_large")
      \/ /\ Visible(read, id) /\ Fits(allNodes, allEdges)
         /\ found => marks[id] # "new"
         /\ reads' = read
         /\ path' = below
         /\ nodes' = allNodes
         /\ edges' = allEdges
         /\ UNCHANGED <<phase, direction, marks>>
      \/ /\ marks[id] = "visiting"
         /\ reads' = read
         /\ Fail("cycle")
      \/ /\ Visible(read, id) /\ Fits(allNodes, allEdges) /\ found
         /\ Visit(id, Len(path), below, read, allNodes, allEdges)
  BY DEF VisitAdjacent, PopNext, ClosesCircle
<1> HIDE DEF id, read
<1>3. /\ id \in TaskIds /\ Top.id \in TaskIds
      /\ ReadsKept(read) /\ Onwards(reads, read) /\ Known(read, id)
      /\ id \in Adjacent(read, Top.id, direction)
      /\ SearchKept(read, direction, path, marks, nodes, edges)
      /\ SearchKept(read, direction, below, marks, nodes, edges)
      /\ RootKept(read, nodes, edges)
      /\ Visible(read, id) => id \in KnownBeside(read, Top.id, direction)
      /\ asked.depth # NoDepth => Len(path) <= asked.depth
  BY <1>1, NextBeside DEF id, read
<1>4. ASSUME Visible(read, id)
      PROVE  /\ SearchKept(read, direction, below, marks, allNodes, allEdges)
             /\ RootKept(read, allNodes, allEdges)
             /\ EdgeOf(read, direction, Top.id, id) \in allEdges
  BY <1>1, <1>4, NextShown DEF id, read
<1>5. ASSUME asked.depth = NoDepth,
             NEW nd, nodes \subseteq nd, NEW ed, edges \subseteq ed,
             NEW visited, Marked(marks) \subseteq visited,
             Met(read, direction, Top.id, id, nd, ed, visited)
      PROVE  /\ Walked(read, direction, below, nd, ed, Marked(marks), visited)
             /\ BlockersFirst(read, direction, nd, ed)
  BY <1>1, <1>5, NextMet DEF id, read
<1>6. WalkKept(reads, direction, path, marks, nodes, edges)
  BY <1>1, WhileWalking
<1>7. direction \in asked.directions /\ ("blocks" \in asked.directions => AllRead(read))
  BY <1>3, <1>6, AllReadStays DEF WalkKept
<1>8. path \in Seq([id: TaskIds, rest: Seq(TaskIds)])
  BY BeforeStep DEF SearchKept, PathKept
<1>9. /\ Len(below) = Len(path) /\ below[Len(path)].id = Top.id
      /\ Len(path) \in 1 .. Len(path)
  BY <1>1, <1>8, PopNextTyped DEF Top
<1> HIDE DEF below, n, e, allNodes, allEdges, found
<1>10. CASE /\ ~Visible(read, id)
            /\ reads' = read
            /\ path' = below
            /\ UNCHANGED <<phase, direction, marks, result>>
  <2>1. UNCHANGED <<nodes, edges>>
    BY <1>10 DEF result
  <2>2. Met(read, direction, Top.id, id, nodes, edges, Marked(marks))
    BY <1>3, <1>10 DEF Met
  <2>3. WalkKept(read, direction, below, marks, nodes, edges)
    BY <1>5, <1>7, <2>2 DEF WalkKept
  <2>4. QueryKept(read, direction, below, marks, nodes, edges, phase)
    BY <1>1, <1>3, <2>3 DEF QueryKept
  <2>5. QED
    BY <1>1, <1>10, <2>1, <2>4, BeforeStep DEF Stepped
<1>11. CASE reads' = read /\ Fail("too_large")
  BY <1>1, <1>3, <1>11, FailingStep
<1>12. CASE /\ Visible(read, id) /\ Fits(allNodes, allEdges)
            /\ found => marks[id] # "new"
            /\ reads' = read
            /\ path' = below
            /\ nodes' = allNodes
            /\ edges' = allEdges
            /\ UNCHANGED <<phase, direction, marks>>
  <2>1. Met(read, direction, Top.id, id, allNodes, allEdges, Marked(marks))
    BY <1>3, <1>4, <1>12 DEF Met, Marked, found, allNodes, n
  <2>2. nodes \subseteq allNodes /\ edges \subseteq allEdges
    BY DEF allNodes, allEdges
  <2>3. WalkKept(read, direction, below, marks, allNodes, allEdges)
    BY <1>5, <1>7, <2>1, <2>2 DEF WalkKept
  <2>4. QueryKept(read, direction, below, marks, allNodes, allEdges, phase)
    BY <1>1, <1>3, <1>4, <1>12, <2>3 DEF QueryKept
  <2>5. QED
    BY <1>1, <1>12, <2>4, BeforeStep DEF Stepped
<1>13. CASE marks[id] = "visiting" /\ reads' = read /\ Fail("cycle")
  <2>1. phase' = "cycle" /\ UNCHANGED <<direction, path, marks, nodes, edges>>
    BY <1>13 DEF Fail, traversal, result
  <2>2. PICK i \in 1 .. Len(path) : path[i].id = id
    BY <1>3, <1>13 DEF SearchKept
  <2>3. PathKept(read, direction, path)
    BY <1>3 DEF SearchKept
  <2>4. \E ids \in SUBSET TaskIds : Circle(read, ids)
    BY <1>1, <1>3, <2>2, <2>3, BeforeStep, PathCloses DEF Top
  <2>5. QueryKept(read, direction, path, marks, nodes, edges, "cycle")
    BY <1>3, <2>4 DEF QueryKept
  <2>6. QED
    BY <1>1, <1>13, <2>1, <2>5, BeforeStep DEF Stepped, Endings
<1>14. CASE /\ Visible(read, id) /\ Fits(allNodes, allEdges) /\ found
            /\ Visit(id, Len(path), below, read, allNodes, allEdges)
  <2>1. Visit(id, Len(below), below, read, allNodes, allEdges)
    BY <1>9, <1>14
  <2>2. /\ TaskNode(read, id) \in allNodes
        /\ nodes \subseteq allNodes /\ edges \subseteq allEdges
    BY DEF allNodes, allEdges, n
  <2>3. ASSUME asked.depth = NoDepth
        PROVE  /\ Walked(read, direction, below, allNodes, allEdges, Marked(marks),
                         Marked(marks) \cup {id})
               /\ BlockersFirst(read, direction, allNodes, allEdges)
    <3>1. Met(read, direction, Top.id, id, allNodes, allEdges, Marked(marks) \cup {id})
      BY <1>3, <1>4, <1>14, <2>2 DEF Met
    <3>2. QED
      BY <1>5, <2>2, <2>3, <3>1
  <2>4. /\ asked.depth # NoDepth => Len(below) <= asked.depth
        /\ Len(below) # 0 /\ id \in KnownBeside(read, below[Len(below)].id, direction)
    BY <1>3, <1>9, <1>14
  <2>5. /\ QueryKept(reads', direction', path', marks', nodes', edges', phase')
        /\ direction' = direction /\ phase' \in {phase, "too_large"}
        /\ marks' \in [TaskIds -> {"new", "visiting", "complete"}]
        /\ Fits(nodes', edges') \/ UNCHANGED <<nodes, edges>>
    <3>1. SearchKept(read, direction, below, marks, allNodes, allEdges)
          /\ RootKept(read, allNodes, allEdges) /\ Resolved(read, id) = "found"
      BY <1>4, <1>14 DEF found
    <3>2. RootKept(reads, nodes, edges)
      BY <1>1, WhileWalking
    <3>3. QED
      BY <1>1, <1>3, <1>6, <2>1, <2>2, <2>3, <2>4, <3>1, <3>2, BeforeStep, VisitKeepsQuery
  <2>6. QED
    BY <1>1, <2>5, BeforeStep DEF Stepped, Endings, Fits
<1>15. QED
  BY <1>2, <1>10, <1>11, <1>12, <1>13, <1>14

LEMMA PathReturns ==
    ASSUME NEW p \in Seq([id: TaskIds, rest: Seq(TaskIds)]), p # <<>>,
           NEW q, q = SubSeq(p, 1, Len(p) - 1)
    PROVE  /\ q \in Seq([id: TaskIds, rest: Seq(TaskIds)])
           /\ Len(q) = Len(p) - 1 /\ Len(p) \in 1 .. Len(p) /\ Len(q) \in Nat
           /\ \A i \in 1 .. Len(q) : q[i] = p[i] /\ i \in 1 .. Len(p)
<1>1. Len(p) \in Nat /\ Len(p) >= 1
  OBVIOUS
<1>2. q \in Seq([id: TaskIds, rest: Seq(TaskIds)]) /\ Len(q) = Len(p) - 1
  <2> DEFINE S == [id: TaskIds, rest: Seq(TaskIds)]
             n == Len(p) - 1
  <2>1. n \in Int /\ 1 \in Int /\ p \in Seq(S)
    BY <1>1
  <2>2. ASSUME NEW i \in 1 .. n PROVE p[i] \in S
    <3>1. i \in 1 .. Len(p)
      BY <1>1
    <3>2. QED
      BY <3>1, ElementOfSeq
  <2> HIDE DEF S, n
  <2>3. SubSeq(p, 1, n) \in Seq(S) /\ Len(SubSeq(p, 1, n)) = IF 1 <= n THEN n - 1 + 1 ELSE 0
    BY <2>1, <2>2, SubSeqProperties
  <2>4. q = SubSeq(p, 1, n)
    BY DEF n
  <2>5. q \in Seq(S) /\ Len(q) = IF 1 <= n THEN n - 1 + 1 ELSE 0
    BY <2>3, <2>4
  <2>6. n = Len(p) - 1 /\ S = [id: TaskIds, rest: Seq(TaskIds)]
    BY DEF n, S
  <2>7. Len(q) = Len(p) - 1
    BY <1>1, <2>5, <2>6
  <2>8. QED
    BY <2>5, <2>6, <2>7
<1>3. \A i \in 1 .. Len(p) - 1 : q[i] = p[i]
  BY <1>1
<1>4. QED
  BY <1>1, <1>2, <1>3

LEMMA ReturnStep ==
    ASSUME GraphInv, Return
    PROVE  Stepped
<1> DEFINE L == Len(path)
           below == SubSeq(path, 1, L - 1)
           done == [marks EXCEPT ![Top.id] = "complete"]
<1>1. /\ phase = "walk" /\ path # <<>> /\ Top.rest = <<>>
      /\ marks' = done /\ path' = below
      /\ UNCHANGED <<board, asked, condition, phase, reads, direction, nodes, edges, graphChanges>>
  BY DEF Return, result
<1>2. path \in Seq([id: TaskIds, rest: Seq(TaskIds)]) /\ Top = path[L]
  BY BeforeStep DEF SearchKept, PathKept, Top
<1>3. /\ below \in Seq([id: TaskIds, rest: Seq(TaskIds)])
      /\ Len(below) = L - 1 /\ L \in 1 .. L /\ Len(below) \in Nat
      /\ \A i \in 1 .. Len(below) : below[i] = path[i] /\ i \in 1 .. L
  BY <1>1, <1>2, PathReturns
<1>4. Top.id \in TaskIds /\ \A i \in 1 .. L : path[i].id \in TaskIds
  BY <1>2, <1>3, StackTyped
<1>5. done \in [TaskIds -> {"new", "visiting", "complete"}]
      /\ done[Top.id] = "complete" /\ \A x \in TaskIds : x # Top.id => done[x] = marks[x]
  BY <1>4, BeforeStep
<1> HIDE DEF below, done
<1>6. SearchKept(reads, direction, path, marks, nodes, edges)
  BY BeforeStep
<1>7. PathKept(reads, direction, below)
  <2>1. ASSUME NEW i \in 1 .. Len(below) PROVE Stacked(reads, direction, below, i)
    <3>1. Stacked(reads, direction, path, i) /\ below[i] = path[i]
      BY <1>3, <1>6 DEF SearchKept, PathKept
    <3>2. ASSUME i # 1 PROVE below[i - 1] = path[i - 1]
      <4>1. i - 1 \in 1 .. Len(below)
        BY <1>3, <3>2
      <4>2. QED
        BY <1>3, <4>1
    <3>3. QED
      BY <3>1, <3>2 DEF Stacked
  <2>2. QED
    BY <1>3, <2>1 DEF PathKept
<1>8. SearchKept(reads, direction, below, done, nodes, edges)
  <2>1. ASSUME NEW x \in TaskIds, done[x] = "visiting"
        PROVE  \E i \in 1 .. Len(below) : below[i].id = x
    <3>1. x # Top.id /\ marks[x] = "visiting"
      BY <1>5, <2>1
    <3>2. PICK i \in 1 .. L : path[i].id = x
      BY <1>6, <3>1 DEF SearchKept
    <3>3. i # L
      BY <1>2, <3>1, <3>2
    <3>4. i \in 1 .. Len(below)
      BY <1>3, <3>3
    <3>5. QED
      BY <1>3, <3>2, <3>4
  <2>2. ASSUME NEW i \in 1 .. Len(below)
        PROVE  TaskNode(reads, below[i].id) \in nodes /\ done[below[i].id] # "new"
    <3>1. /\ TaskNode(reads, path[i].id) \in nodes /\ marks[path[i].id] # "new"
          /\ path[i].id \in TaskIds /\ below[i] = path[i]
      BY <1>3, <1>4, <1>6 DEF SearchKept
    <3>2. QED
      BY <1>5, <3>1
  <2>3. QED
    BY <1>6, <1>7, <2>1, <2>2 DEF SearchKept
<1>9. Marked(done) = Marked(marks)
  <2>1. marks[Top.id] # "new"
    BY <1>2, <1>3, <1>6 DEF SearchKept
  <2>2. \A x \in TaskIds : done[x] # "new" <=> marks[x] # "new"
    BY <1>5, <2>1
  <2>3. QED
    BY <2>2 DEF Marked
<1>10. RootKept(reads, nodes, edges) /\ WalkKept(reads, direction, path, marks, nodes, edges)
  BY <1>1, WhileWalking
<1>11. ASSUME asked.depth = NoDepth
       PROVE  Walked(reads, direction, below, nodes, edges, Marked(done), Marked(done))
  <2>1. Walked(reads, direction, path, nodes, edges, Marked(marks), Marked(marks))
    BY <1>10, <1>11 DEF WalkKept
  <2>2. ASSUME NEW id, NEW other, Left(path, id, other) PROVE Left(below, id, other)
    <3>1. PICK i \in 1 .. L : path[i].id = id /\ \E j \in 1 .. Len(path[i].rest) : path[i].rest[j] = other
      BY <2>2 DEF Left
    <3>2. i # L
      <4>1. path[L].rest = <<>>
        BY <1>1, <1>2
      <4>2. 1 .. Len(path[L].rest) = {}
        BY <4>1
      <4>3. QED
        BY <3>1, <4>2
    <3>3. i \in 1 .. Len(below) /\ below[i] = path[i]
      BY <1>3, <3>2
    <3>4. QED
      BY <3>1, <3>3 DEF Left
  <2>3. QED
    BY <1>9, <2>1, <2>2 DEF Walked
<1>12. WalkKept(reads, direction, below, done, nodes, edges)
  BY <1>10, <1>11 DEF WalkKept
<1>13. QueryKept(reads', direction', path', marks', nodes', edges', phase')
  BY <1>1, <1>8, <1>10, <1>12, BeforeStep DEF QueryKept
<1>14. QED
  BY <1>1, <1>5, <1>13, BeforeStep DEF Stepped

\* When the walk is back at its root, nothing is left.
LEMMA WalkedSettles ==
    ASSUME NEW read, NEW towards, NEW m, NEW nd, NEW ed,
           asked.root \in TaskIds, m[asked.root] = "complete",
           Walked(read, towards, <<>>, nd, ed, Marked(m), Marked(m))
    PROVE  \E visited \in SUBSET TaskIds : Settled(read, towards, nd, ed, visited)
<1>1. \A id, other : ~Left(<<>>, id, other)
  BY DEF Left
<1>2. asked.root \in Marked(m) /\ Marked(m) \in SUBSET TaskIds
  BY DEF Marked
<1>3. Settled(read, towards, nd, ed, Marked(m))
  BY <1>1, <1>2 DEF Walked, Settled
<1>4. QED
  BY <1>2, <1>3

LEMMA BeginBlocksStep ==
    ASSUME GraphInv, BeginBlocks
    PROVE  Stepped
<1> DEFINE fresh == [id \in TaskIds |-> "new"]
<1>1. /\ phase = "walk" /\ path = <<>> /\ marks[asked.root] = "complete"
      /\ direction = "blocked_by" /\ "blocks" \in asked.directions
      /\ direction' = "blocks" /\ marks' = fresh
      /\ UNCHANGED <<board, asked, condition, phase, reads, path, nodes, edges, graphChanges>>
  BY DEF BeginBlocks, Traversed, result
<1>2. RootKept(reads, nodes, edges) /\ WalkKept(reads, direction, path, marks, nodes, edges)
  BY <1>1, WhileWalking
<1>3. SearchKept(reads, "blocks", path, fresh, nodes, edges)
  BY <1>1, BeforeStep DEF SearchKept, PathKept
<1>4. Marked(fresh) = {}
  BY DEF Marked
<1>5. ASSUME asked.depth = NoDepth
      PROVE  /\ Walked(reads, "blocks", path, nodes, edges, Marked(fresh), Marked(fresh))
             /\ BlockersFirst(reads, "blocks", nodes, edges)
  <2>1. Walked(reads, "blocked_by", <<>>, nodes, edges, Marked(marks), Marked(marks))
    BY <1>1, <1>2, <1>5 DEF WalkKept
  <2>2. asked.root \in TaskIds
    BY BeforeStep, AskedTyped
  <2>3. \E visited \in SUBSET TaskIds : Settled(reads, "blocked_by", nodes, edges, visited)
    BY <1>1, <2>1, <2>2, WalkedSettles
  <2>4. QED
    BY <1>4, <2>3 DEF Walked, BlockersFirst
<1> HIDE DEF fresh
<1>6. WalkKept(reads, "blocks", path, fresh, nodes, edges)
  BY <1>1, <1>2, <1>5 DEF WalkKept
<1>7. QueryKept(reads', direction', path', marks', nodes', edges', phase')
  BY <1>1, <1>2, <1>3, <1>6, BeforeStep DEF QueryKept
<1>8. marks' \in [TaskIds -> {"new", "visiting", "complete"}] /\ direction' \in Directions
  BY <1>1 DEF fresh, Directions
<1>9. QED
  BY <1>1, <1>7, <1>8, BeforeStep DEF Stepped

LEMMA FinishStep ==
    ASSUME GraphInv, Finish
    PROVE  Stepped
<1>1. /\ phase = "walk" /\ path = <<>> /\ marks[asked.root] = "complete"
      /\ direction = "blocks" \/ "blocks" \notin asked.directions
      /\ phase' = IF ValidGraph THEN "answered" ELSE "invalid"
      /\ UNCHANGED <<board, asked, condition, reads, direction, marks, path, nodes, edges, graphChanges>>
  BY DEF Finish, Traversed, traversal, result
<1>2. RootKept(reads, nodes, edges) /\ WalkKept(reads, direction, path, marks, nodes, edges)
  BY <1>1, WhileWalking
<1>3. asked.root \in TaskIds /\ asked.directions \subseteq Directions
  BY BeforeStep, AskedTyped
<1>4. ASSUME asked.depth = NoDepth, NEW some \in asked.directions
      PROVE  \E visited \in SUBSET TaskIds : Settled(reads, some, nodes, edges, visited)
  <2>1. /\ Walked(reads, direction, <<>>, nodes, edges, Marked(marks), Marked(marks))
        /\ BlockersFirst(reads, direction, nodes, edges)
        /\ direction \in asked.directions
    BY <1>1, <1>2, <1>4 DEF WalkKept
  <2>2. CASE some = direction
    BY <1>1, <1>3, <2>1, <2>2, WalkedSettles
  <2>3. CASE some # direction
    <3>1. direction = "blocks" /\ some = "blocked_by"
      BY <1>1, <1>3, <1>4, <2>1, <2>3 DEF Directions
    <3>2. QED
      BY <1>4, <2>1, <3>1 DEF BlockersFirst
  <2>4. QED
    BY <2>2, <2>3
<1>5. ASSUME ~ValidGraph PROVE \E ids \in SUBSET TaskIds : Circle(reads, ids)
  <2>1. /\ NodesKept(reads, nodes) /\ EdgesKept(reads, nodes, edges)
        /\ RootLeads(TaskNode(reads, asked.root), nodes, edges)
    BY <1>2, BeforeStep DEF SearchKept, RootKept
  <2>2. QED
    BY <1>5, <2>1, BeforeStep, InvalidHasCircle
<1>6. phase' \in {"answered", "invalid"} /\ (phase' = "invalid" => ~ValidGraph)
  BY <1>1
<1>7. QueryKept(reads, direction, path, marks, nodes, edges, phase')
  BY <1>2, <1>4, <1>5, <1>6, BeforeStep DEF QueryKept
<1>8. QED
  BY <1>1, <1>6, <1>7, BeforeStep DEF Stepped, Endings

LEMMA ChangeStep ==
    ASSUME GraphInv, ChangeDuringQuery
    PROVE  GraphInv'
<1>1. /\ graphChanges < MaxGraphChanges /\ graphChanges' = graphChanges + 1 /\ Next
      /\ UNCHANGED <<asked, condition, phase, reads, direction, marks, path, nodes, edges>>
  BY DEF ChangeDuringQuery, traversal, result
<1>2. BoardInv' /\ TypeOK'
  BY <1>1, BoardStep DEF GraphInv, BoardInv
<1>3. QueryKept(reads', direction', path', marks', nodes', edges', phase')
  BY <1>1 DEF GraphInv
<1>4. QueryKept(reads, direction, path, marks, nodes, edges, phase)'
  BY <1>1, <1>3, QueryKeptNext
<1>5. graphChanges' \in 0 .. MaxGraphChanges
  BY <1>1, GraphLimitsAssumption DEF GraphInv, GraphTypeOK
<1>6. GraphTypeOK'
  BY <1>1, <1>2, <1>5 DEF GraphInv, GraphTypeOK
<1>7. QED
  BY <1>2, <1>4, <1>6 DEF GraphInv

LEMMA GraphStart == GraphInit => GraphInv
<1> SUFFICES ASSUME GraphInit PROVE GraphInv
  OBVIOUS
<1>1. BoardInv
  BY BoardStart DEF GraphInit
<1>2. /\ phase = "start" /\ direction = "blocked_by" /\ path = <<>> /\ nodes = {} /\ edges = {}
      /\ marks = [id \in TaskIds |-> "new"] /\ graphChanges = 0
      /\ reads = [p \in Projects |-> [state |-> "unread", tasks |-> [id \in TaskIds |-> NoTask]]]
  BY DEF GraphInit
<1>3. ReadsKept(reads)
  <2>1. [id \in TaskIds |-> NoTask] \in Vaults
    BY DEF Vaults
  <2>2. QED
    BY <1>2, <2>1 DEF ReadsKept, Reads
<1>4. SearchKept(reads, direction, path, marks, nodes, edges)
  BY <1>2 DEF SearchKept, PathKept, NodesKept, EdgesKept
<1>5. Marked(marks) = {}
  BY <1>2 DEF Marked
<1>6. QueryKept(reads, direction, path, marks, nodes, edges, phase)
  BY <1>2, <1>3, <1>4, <1>5 DEF QueryKept
<1>7. GraphTypeOK
  <2>1. Cardinality({}) = 0
    BY FS_EmptySet
  <2>2. asked \in GraphQueries /\ condition \in Conditions
    BY DEF GraphInit
  <2>3. /\ reads \in [Projects -> Reads]
        /\ marks \in [TaskIds -> {"new", "visiting", "complete"}]
        /\ path \in Seq([id: TaskIds, rest: Seq(TaskIds)])
    BY <1>2, <1>3 DEF ReadsKept
  <2>4. QED
    BY <1>1, <1>2, <2>1, <2>2, <2>3, GraphLimitsAssumption DEF GraphTypeOK, BoardInv, Directions
<1>8. QED
  BY <1>1, <1>6, <1>7 DEF GraphInv

\* A query and the commands beside it keep the invariant.
THEOREM GraphSafe == GraphSpec => []GraphInv
<1>1. ASSUME GraphInv, [GraphNext]_<<board, graphVars>> PROVE GraphInv'
  <2>1. CASE ReadRoot
    BY <1>1, <2>1, ReadRootStep, SteppedKeepsInv
  <2>2. CASE \E p \in Projects : GatherProject(p)
    BY <1>1, <2>2, GatherStep, SteppedKeepsInv
  <2>3. CASE StartWalk
    BY <1>1, <2>3, StartWalkStep, SteppedKeepsInv
  <2>4. CASE VisitRoot
    BY <1>1, <2>4, VisitRootStep, SteppedKeepsInv
  <2>5. CASE VisitAdjacent
    BY <1>1, <2>5, VisitAdjacentStep, SteppedKeepsInv
  <2>6. CASE Return
    BY <1>1, <2>6, ReturnStep, SteppedKeepsInv
  <2>7. CASE BeginBlocks
    BY <1>1, <2>7, BeginBlocksStep, SteppedKeepsInv
  <2>8. CASE Finish
    BY <1>1, <2>8, FinishStep, SteppedKeepsInv
  <2>9. CASE ChangeDuringQuery
    BY <1>1, <2>9, ChangeStep
  <2>10. CASE UNCHANGED <<board, graphVars>>
    <3>1. UNCHANGED <<board, asked, condition, phase, reads, direction, marks, path, nodes, edges, graphChanges>>
      BY <2>10 DEF graphVars, traversal, result
    <3>2. Stepped
      BY <1>1, <3>1, BeforeStep DEF Stepped, GraphInv
    <3>3. QED
      BY <1>1, <3>2, SteppedKeepsInv
  <2>11. QED
    BY <1>1, <2>1, <2>2, <2>3, <2>4, <2>5, <2>6, <2>7, <2>8, <2>9, <2>10 DEF GraphNext
<1>2. QED
  BY <1>1, GraphStart, PTL DEF GraphSpec

\* Every state of a query has its type, and its graph is within its limits.
THEOREM GraphTypeCorrect == GraphSpec => []GraphTypeOK
<1>1. GraphInv => GraphTypeOK
  BY DEF GraphInv
<1>2. QED
  BY <1>1, GraphSafe, PTL

\* A query is refused for a circle only when the tasks it read wait for each
\* other in one.
THEOREM RefusedCirclesAreReal == GraphSpec => []CirclesAreReal
<1>1. GraphInv => CirclesAreReal
  BY DEF GraphInv, QueryKept, CirclesAreReal, Circle
<1>2. QED
  BY <1>1, GraphSafe, PTL

-----------------------------------------------------------------------------
(* The graph of an answer.                                                 *)

LEMMA KnownIsVisible ==
    ASSUME NEW id, NEW towards
    PROVE  KnownBeside(reads, id, towards) \subseteq VisibleBeside(id, towards)
BY DEF KnownBeside, VisibleBeside

\* What the root leads to is connected to it.
LEMMA LedConnects ==
    ASSUME NEW towards, NEW id, Led(reads, towards, id)
    PROVE  id \in Connected(towards)
<1>1. PICK n \in Nat : \E c : Chain(reads, towards, c, n, id)
  BY DEF Led
<1>2. PICK c : Chain(reads, towards, c, n, id)
  BY <1>1
<1>3. /\ c \in [0 .. n -> TaskIds] /\ c[0] = asked.root /\ c[n] = id
      /\ \A i \in 1 .. n : c[i] \in KnownBeside(reads, c[i - 1], towards)
  BY <1>2 DEF Chain
<1>4. id \in TaskIds
  BY <1>3
<1>5. ASSUME NEW ids \in SUBSET TaskIds, asked.root \in ids,
             \A one \in ids : VisibleBeside(one, towards) \subseteq ids
      PROVE  id \in ids
  <2> DEFINE S == {k \in Nat : k <= n => c[k] \in ids}
  <2>1. 0 \in S
    BY <1>3, <1>5
  <2>2. ASSUME NEW k \in S PROVE k + 1 \in S
    <3>1. SUFFICES ASSUME k + 1 <= n PROVE c[k + 1] \in ids
      BY <2>2
    <3>2. k + 1 \in 1 .. n /\ (k + 1) - 1 = k /\ c[k] \in ids
      BY <2>2, <3>1
    <3>3. c[k + 1] \in KnownBeside(reads, c[k], towards)
      BY <1>3, <3>2
    <3>4. c[k + 1] \in VisibleBeside(c[k], towards)
      BY <3>3, KnownIsVisible
    <3>5. QED
      BY <1>5, <3>2, <3>4
  <2> HIDE DEF S
  <2>3. S = Nat
    BY <2>1, <2>2, Counting DEF S
  <2>4. n \in S
    BY <2>3
  <2>5. QED
    BY <1>3, <2>4 DEF S
<1>6. QED
  BY <1>4, <1>5 DEF Connected

\* The tasks near the root are a function of the number of edges.
IsNear(near, towards, n) ==
    near = [k \in 0 .. n |->
              IF k = 0 THEN {asked.root}
              ELSE near[k - 1] \cup UNION {VisibleBeside(id, towards) : id \in near[k - 1]}]

Nearer(towards, ids) == ids \cup UNION {VisibleBeside(id, towards) : id \in ids}

LEMMA NearSteps ==
    ASSUME NEW near, NEW towards, NEW n \in Nat, IsNear(near, towards, n)
    PROVE  /\ near[0] = {asked.root}
           /\ \A k \in 1 .. n : near[k] = Nearer(towards, near[k - 1])
<1>1. near[0] = {asked.root}
  BY DEF IsNear
<1>2. ASSUME NEW k \in 1 .. n PROVE near[k] = Nearer(towards, near[k - 1])
  <2>1. k \in 0 .. n /\ k # 0
    OBVIOUS
  <2>2. QED
    BY <2>1 DEF IsNear, Nearer
<1>3. QED
  BY <1>1, <1>2

LEMMA NearExists ==
    ASSUME NEW towards, NEW n \in Nat
    PROVE  \E near : IsNear(near, towards, n)
<1> DEFINE S == {m \in Nat : \E near : IsNear(near, towards, m)}
<1>1. 0 \in S
  <2> DEFINE near == [k \in 0 .. 0 |-> {asked.root}]
  <2>2. IsNear(near, towards, 0)
    BY DEF IsNear
  <2>3. QED
    BY <2>2
<1>2. ASSUME NEW m \in S PROVE m + 1 \in S
  <2>1. m \in Nat
    BY <1>2
  <2>2. PICK near : IsNear(near, towards, m)
    BY <1>2
  <2>3. near[0] = {asked.root} /\ \A k \in 1 .. m : near[k] = Nearer(towards, near[k - 1])
    BY <2>1, <2>2, NearSteps
  <2> DEFINE last == Nearer(towards, near[m])
             longer == [k \in 0 .. m + 1 |-> IF k = m + 1 THEN last ELSE near[k]]
  <2>4. ASSUME NEW k \in 0 .. m + 1
        PROVE  longer[k] = IF k = 0 THEN {asked.root} ELSE Nearer(towards, longer[k - 1])
    <3>1. CASE k = 0
      BY <2>1, <2>3, <3>1
    <3>2. CASE k \in 1 .. m
      <4>1. longer[k] = near[k] /\ longer[k - 1] = near[k - 1] /\ k # 0
        BY <2>1, <3>2
      <4>2. near[k] = Nearer(towards, near[k - 1])
        BY <2>1, <2>3, <3>2
      <4>3. QED
        BY <4>1, <4>2
    <3>3. CASE k = m + 1
      <4>1. longer[k] = last /\ longer[k - 1] = near[m] /\ k # 0
        BY <2>1, <3>3
      <4>2. QED
        BY <4>1
    <3>4. QED
      BY <2>1, <3>1, <3>2, <3>3
  <2>5. \A k \in 0 .. m + 1 :
           longer[k] = IF k = 0 THEN {asked.root}
                       ELSE longer[k - 1] \cup UNION {VisibleBeside(id, towards) : id \in longer[k - 1]}
    BY <2>4 DEF Nearer
  <2>6. IsNear(longer, towards, m + 1)
    BY <2>5 DEF IsNear
  <2>7. QED
    BY <2>1, <2>6
<1> HIDE DEF S
<1>3. S = Nat
  BY <1>1, <1>2, Counting DEF S
<1>4. QED
  BY <1>3 DEF S

LEMMA WithinIsNear ==
    ASSUME NEW towards, NEW n \in Nat
    PROVE  \E near : /\ near[0] = {asked.root}
                     /\ \A k \in 1 .. n : near[k] = Nearer(towards, near[k - 1])
                     /\ Within(towards, n) = near[n]
<1> DEFINE chosen == CHOOSE near : IsNear(near, towards, n)
<1>1. IsNear(chosen, towards, n)
  BY NearExists
<1>2. Within(towards, n) = chosen[n]
  BY DEF Within, IsNear
<1> HIDE DEF chosen
<1>4. chosen[0] = {asked.root} /\ \A k \in 1 .. n : chosen[k] = Nearer(towards, chosen[k - 1])
  BY <1>1, NearSteps
<1>5. QED
  BY <1>2, <1>4

\* What the root leads to within the depth limit is within it.
LEMMA LedIsWithin ==
    ASSUME QueryTyped, asked.depth # NoDepth, NEW towards, NEW id, Led(reads, towards, id)
    PROVE  id \in Within(towards, asked.depth)
<1> DEFINE d == asked.depth
<1>1. d \in Nat
  BY AskedTyped
<1>2. PICK n \in Nat : n <= d /\ \E c : Chain(reads, towards, c, n, id)
  BY DEF Led
<1>3. PICK c : Chain(reads, towards, c, n, id)
  BY <1>2
<1>4. /\ c[0] = asked.root /\ c[n] = id
      /\ \A i \in 1 .. n : c[i] \in KnownBeside(reads, c[i - 1], towards)
  BY <1>3 DEF Chain
<1>5. PICK near : /\ near[0] = {asked.root}
                  /\ \A k \in 1 .. d : near[k] = Nearer(towards, near[k - 1])
                  /\ Within(towards, d) = near[d]
  BY <1>1, WithinIsNear
<1> HIDE DEF d
<1> DEFINE S == {k \in Nat : k <= d => /\ k <= n => c[k] \in near[k]
                                       /\ n <= k => id \in near[k]}
<1>6. 0 \in S
  <2>1. c[0] \in near[0] /\ (n <= 0 => id \in near[0])
    BY <1>4, <1>5
  <2>2. QED
    BY <2>1
<1>7. ASSUME NEW k \in S PROVE k + 1 \in S
  <2>1. k \in Nat
    BY <1>7
  <2>2. SUFFICES ASSUME k + 1 <= d
                 PROVE  /\ k + 1 <= n => c[k + 1] \in near[k + 1]
                        /\ n <= k + 1 => id \in near[k + 1]
    BY <2>1
  <2>3. /\ k + 1 \in 1 .. d /\ (k + 1) - 1 = k
        /\ k <= n => c[k] \in near[k]
        /\ n <= k => id \in near[k]
    BY <1>1, <1>7, <2>1, <2>2
  <2>4. near[k + 1] = near[k] \cup UNION {VisibleBeside(one, towards) : one \in near[k]}
    BY <1>5, <2>3 DEF Nearer
  <2>5. ASSUME k + 1 <= n PROVE c[k + 1] \in near[k + 1]
    <3>1. k + 1 \in 1 .. n /\ k <= n
      BY <2>1, <2>5
    <3>2. c[k + 1] \in KnownBeside(reads, c[k], towards)
      BY <1>4, <2>3, <3>1
    <3>3. c[k + 1] \in VisibleBeside(c[k], towards) /\ c[k] \in near[k]
      BY <2>3, <3>1, <3>2, KnownIsVisible
    <3>4. QED
      BY <2>4, <3>3
  <2>6. ASSUME n <= k + 1 PROVE id \in near[k + 1]
    <3>1. CASE n = k + 1
      BY <1>4, <2>5, <3>1
    <3>2. CASE n # k + 1
      <4>1. n <= k
        BY <2>1, <2>6, <3>2
      <4>2. QED
        BY <2>3, <2>4, <4>1
    <3>3. QED
      BY <3>1, <3>2
  <2>7. QED
    BY <2>5, <2>6
<1> HIDE DEF S
<1>8. S = Nat
  BY <1>6, <1>7, Counting DEF S
<1>9. d \in S
  BY <1>1, <1>8
<1>10. id \in near[d]
  BY <1>1, <1>2, <1>9 DEF S
<1>11. QED
  BY <1>5, <1>10 DEF d

\* Nothing is shown but what the root leads to.
LEMMA ShownIsLed ==
    ASSUME GraphInv
    PROVE  /\ \A id \in ShownTasks : \E towards \in asked.directions : Led(reads, towards, id)
           /\ ShownEdges \subseteq UNION {EdgesOf(towards) : towards \in asked.directions}
<1>1. NodesKept(reads, nodes) /\ EdgesKept(reads, nodes, edges)
  BY BeforeStep DEF SearchKept
<1>2. \A id \in ShownTasks : \E towards \in asked.directions : Led(reads, towards, id)
  BY <1>1 DEF ShownTasks, NodesKept
<1>3. ASSUME NEW e \in edges, e[1].kind # "limit", e[2].kind # "limit"
      PROVE  \E towards \in asked.directions : <<e[1].id, e[2].id>> \in EdgesOf(towards)
  <2>1. PICK towards \in asked.directions : LinkRead(reads, towards, e[1].id, e[2].id)
    BY <1>1, <1>3 DEF EdgesKept, EdgeKept
  <2>2. CASE towards = "blocked_by"
    <3>1. e[2].id \in Connected(towards) /\ e[1].id \in VisibleBeside(e[2].id, towards)
      BY <2>1, <2>2, LedConnects, KnownIsVisible DEF LinkRead
    <3>2. QED
      BY <2>2, <3>1 DEF EdgesOf
  <2>3. CASE towards # "blocked_by"
    <3>1. e[1].id \in Connected(towards) /\ e[2].id \in VisibleBeside(e[1].id, towards)
      BY <2>1, <2>3, LedConnects, KnownIsVisible DEF LinkRead
    <3>2. QED
      BY <2>3, <3>1 DEF EdgesOf
  <2>4. QED
    BY <2>2, <2>3
<1>4. ShownEdges \subseteq UNION {EdgesOf(towards) : towards \in asked.directions}
  BY <1>3 DEF ShownEdges
<1>5. QED
  BY <1>2, <1>4

\* Without a depth limit, all that is connected in a settled direction is shown.
LEMMA SettledIsShown ==
    ASSUME GraphInv, NEW towards \in Directions, NEW visited,
           Settled(reads, towards, nodes, edges, visited), RootKept(reads, nodes, edges)
    PROVE  Connected(towards) \subseteq ShownTasks /\ EdgesOf(towards) \subseteq ShownEdges
<1> DEFINE shown == {id \in TaskIds : /\ TaskNode(reads, id) \in nodes
                                      /\ Resolved(reads, id) = "found" => id \in visited}
<1>1. ReadsKept(reads) /\ asked.root \in TaskIds
  BY BeforeStep, AskedTyped
<1>2. asked.root \in shown
  BY <1>1 DEF Settled, RootKept, RootLeads
<1>3. ASSUME NEW id \in shown, NEW other \in VisibleBeside(id, towards)
      PROVE  /\ other \in shown /\ other \in TaskIds
             /\ EdgeOf(reads, towards, id, other) \in edges
  <2>1. id \in TaskIds /\ Resolved(reads, id) = "found" /\ id \in visited
        /\ other \in Adjacent(reads, id, towards) /\ Visible(reads, other)
    BY <1>3 DEF VisibleBeside
  <2>2. other \in TaskIds
    BY <1>1, <2>1, BeforeStep, AdjacentStays
  <2>3. Met(reads, towards, id, other, nodes, edges, visited)
    BY <2>1 DEF Settled
  <2>4. QED
    BY <2>1, <2>2, <2>3 DEF Met
<1>4. shown \in SUBSET TaskIds /\ \A one \in shown : VisibleBeside(one, towards) \subseteq shown
  BY <1>3
<1>5. Connected(towards) \subseteq shown
  <2> HIDE DEF shown
  <2>1. QED
    BY <1>2, <1>4 DEF Connected
<1>6. ASSUME NEW id \in shown PROVE id \in ShownTasks
  <2>1. /\ TaskNode(reads, id) \in nodes /\ TaskNode(reads, id).kind # "limit"
        /\ TaskNode(reads, id).id = id
    BY <1>1, <1>6, TaskNodeTyped
  <2> DEFINE n == TaskNode(reads, id)
  <2> HIDE DEF n
  <2>2. n \in nodes /\ n.kind # "limit" /\ n.id = id
    BY <2>1 DEF n
  <2>3. QED
    BY <2>2 DEF ShownTasks
<1>7. ASSUME NEW id \in shown, NEW other \in VisibleBeside(id, towards)
      PROVE  (IF towards = "blocked_by" THEN <<other, id>> ELSE <<id, other>>) \in ShownEdges
  <2> DEFINE n == TaskNode(reads, id)
             m == TaskNode(reads, other)
  <2>1. id \in TaskIds /\ other \in TaskIds /\ EdgeOf(reads, towards, id, other) \in edges
    BY <1>3
  <2>2. n.kind # "limit" /\ n.id = id /\ m.kind # "limit" /\ m.id = other
    BY <1>1, <2>1, TaskNodeTyped
  <2>3. (IF towards = "blocked_by" THEN <<m, n>> ELSE <<n, m>>) \in edges
    BY <2>1 DEF EdgeOf
  <2> HIDE DEF n, m
  <2>4. CASE towards = "blocked_by"
    <3> DEFINE e == <<m, n>>
    <3>1. e \in edges /\ e[1] = m /\ e[2] = n
      BY <2>3, <2>4
    <3> HIDE DEF e
    <3>2. <<e[1].id, e[2].id>> \in ShownEdges
      BY <2>2, <3>1 DEF ShownEdges
    <3>3. QED
      BY <2>2, <2>4, <3>1, <3>2
  <2>5. CASE towards # "blocked_by"
    <3> DEFINE e == <<n, m>>
    <3>1. e \in edges /\ e[1] = n /\ e[2] = m
      BY <2>3, <2>5
    <3> HIDE DEF e
    <3>2. <<e[1].id, e[2].id>> \in ShownEdges
      BY <2>2, <3>1 DEF ShownEdges
    <3>3. QED
      BY <2>2, <2>5, <3>1, <3>2
  <2>6. QED
    BY <2>4, <2>5
<1> HIDE DEF shown
<1>8. EdgesOf(towards) \subseteq ShownEdges
  <2> SUFFICES ASSUME NEW e \in EdgesOf(towards) PROVE e \in ShownEdges
    OBVIOUS
  <2>1. PICK id \in Connected(towards) : \E other \in VisibleBeside(id, towards) :
           e = IF towards = "blocked_by" THEN <<other, id>> ELSE <<id, other>>
    BY DEF EdgesOf
  <2>2. PICK other \in VisibleBeside(id, towards) :
           e = IF towards = "blocked_by" THEN <<other, id>> ELSE <<id, other>>
    BY <2>1
  <2>3. id \in shown
    BY <1>5
  <2>4. QED
    BY <1>7, <2>2, <2>3
<1>9. QED
  BY <1>5, <1>6, <1>8

\* An answer shows nothing but what is connected to its root within the depth
\* limit, and all of it when there is no limit.
THEOREM AnswersShowWhatWasRead == GraphSpec => []GraphShowsWhatWasRead
<1>1. ASSUME GraphInv PROVE GraphShowsWhatWasRead
  <2> SUFFICES ASSUME phase = "answered" PROVE GraphShowsWhatWasRead
    BY DEF GraphShowsWhatWasRead
  <2> DEFINE tasks == UNION {Connected(towards) : towards \in asked.directions}
             links == UNION {EdgesOf(towards) : towards \in asked.directions}
  <2>1. ShownTasks \subseteq tasks
    BY <1>1, ShownIsLed, LedConnects
  <2>2. ShownEdges \subseteq links
    BY <1>1, ShownIsLed
  <2>3. ASSUME asked.depth = NoDepth, NEW towards \in asked.directions
        PROVE  Connected(towards) \subseteq ShownTasks /\ EdgesOf(towards) \subseteq ShownEdges
    <3>1. RootKept(reads, nodes, edges) /\ towards \in Directions
      BY <1>1, BeforeStep, AskedTyped DEF GraphInv, QueryKept
    <3>2. PICK visited \in SUBSET TaskIds : Settled(reads, towards, nodes, edges, visited)
      BY <1>1, <2>3 DEF GraphInv, QueryKept
    <3>3. QED
      BY <1>1, <3>1, <3>2, SettledIsShown
  <2>4. ASSUME asked.depth # NoDepth, NEW id \in ShownTasks
        PROVE  \E towards \in asked.directions : id \in Within(towards, asked.depth)
    BY <1>1, <2>4, BeforeStep, ShownIsLed, LedIsWithin
  <2>5. asked.depth = NoDepth => ShownTasks = tasks /\ ShownEdges = links
    BY <2>1, <2>2, <2>3
  <2>6. asked.depth # NoDepth =>
           ShownTasks \subseteq UNION {Within(towards, asked.depth) : towards \in asked.directions}
    BY <2>4
  <2> HIDE DEF tasks, links
  <2>7. QED
    BY <2>1, <2>2, <2>5, <2>6 DEF GraphShowsWhatWasRead, tasks, links
<1>2. QED
  BY <1>1, GraphSafe, PTL

-----------------------------------------------------------------------------
(* Sums of numbers.                                                        *)

SumsTo(sum, numbers, n) ==
    sum = [m \in 0 .. n |-> IF m = 0 THEN 0 ELSE sum[m - 1] + numbers[m]]

LEMMA SumsSteps ==
    ASSUME NEW sum, NEW numbers, NEW n \in Nat, SumsTo(sum, numbers, n)
    PROVE  /\ sum[0] = 0
           /\ \A m \in 1 .. n : sum[m] = sum[m - 1] + numbers[m]
<1>1. sum[0] = 0
  BY DEF SumsTo
<1>2. ASSUME NEW m \in 1 .. n PROVE sum[m] = sum[m - 1] + numbers[m]
  <2>1. m \in 0 .. n /\ m # 0
    OBVIOUS
  <2>2. QED
    BY <2>1 DEF SumsTo
<1>3. QED
  BY <1>1, <1>2

LEMMA SumsExist ==
    ASSUME NEW numbers, NEW n \in Nat
    PROVE  \E sum : SumsTo(sum, numbers, n)
<1> DEFINE S == {m \in Nat : \E sum : SumsTo(sum, numbers, m)}
<1>1. 0 \in S
  <2> DEFINE sum == [m \in 0 .. 0 |-> 0]
  <2>1. SumsTo(sum, numbers, 0)
    BY DEF SumsTo
  <2>2. QED
    BY <2>1
<1>2. ASSUME NEW m \in S PROVE m + 1 \in S
  <2>1. m \in Nat
    BY <1>2
  <2>2. PICK sum : SumsTo(sum, numbers, m)
    BY <1>2
  <2>3. sum[0] = 0 /\ \A k \in 1 .. m : sum[k] = sum[k - 1] + numbers[k]
    BY <2>1, <2>2, SumsSteps
  <2> DEFINE longer == [k \in 0 .. m + 1 |->
                          IF k = m + 1 THEN sum[m] + numbers[m + 1] ELSE sum[k]]
  <2>4. ASSUME NEW k \in 0 .. m + 1
        PROVE  longer[k] = IF k = 0 THEN 0 ELSE longer[k - 1] + numbers[k]
    <3>1. CASE k = 0
      BY <2>1, <2>3, <3>1
    <3>2. CASE k \in 1 .. m
      <4>1. longer[k] = sum[k] /\ longer[k - 1] = sum[k - 1] /\ k # 0
        BY <2>1, <3>2
      <4>2. QED
        BY <2>3, <3>2, <4>1
    <3>3. CASE k = m + 1
      <4>1. longer[k] = sum[m] + numbers[m + 1] /\ longer[k - 1] = sum[m] /\ k # 0
        BY <2>1, <3>3
      <4>2. QED
        BY <3>3, <4>1
    <3>4. QED
      BY <2>1, <3>1, <3>2, <3>3
  <2>5. SumsTo(longer, numbers, m + 1)
    BY <2>4 DEF SumsTo
  <2>6. QED
    BY <2>1, <2>5
<1> HIDE DEF S
<1>3. S = Nat
  BY <1>1, <1>2, Counting DEF S
<1>4. QED
  BY <1>3 DEF S

\* What holds of zero and, up to a bound, of every successor holds up to it.
LEMMA CountingTo ==
    ASSUME NEW n \in Nat, NEW S, 0 \in S, \A m \in 0 .. n : m \in S /\ m < n => m + 1 \in S
    PROVE  \A m \in 0 .. n : m \in S
<1> DEFINE T == {m \in Nat : m <= n => m \in S}
<1>1. 0 \in T
  OBVIOUS
<1>2. ASSUME NEW m \in T PROVE m + 1 \in T
  <2>1. m \in Nat
    OBVIOUS
  <2>2. CASE m < n
    BY <2>1, <2>2
  <2>3. CASE ~(m < n)
    BY <2>1, <2>3
  <2>4. QED
    BY <2>2, <2>3
<1> HIDE DEF T
<1>3. T = Nat
  BY <1>1, <1>2, Counting DEF T
<1>4. QED
  BY <1>3 DEF T

\* A total is what the numbers add up to, one after the other.
LEMMA TotalSums ==
    ASSUME NEW numbers \in Seq(Nat)
    PROVE  \E sum \in [0 .. Len(numbers) -> Nat] :
              /\ sum[0] = 0
              /\ \A m \in 1 .. Len(numbers) : sum[m] = sum[m - 1] + numbers[m]
              /\ Total(numbers) = sum[Len(numbers)]
<1> DEFINE n == Len(numbers)
           sum == CHOOSE f : SumsTo(f, numbers, n)
<1>1. n \in Nat
  OBVIOUS
<1>2. SumsTo(sum, numbers, n)
  BY <1>1, SumsExist
<1>3. Total(numbers) = sum[n]
  BY DEF Total, SumsTo
<1>4. DOMAIN sum = 0 .. n /\ sum = [m \in 0 .. n |-> sum[m]]
  <2> HIDE DEF sum
  <2>1. QED
    BY <1>2 DEF SumsTo
<1> HIDE DEF sum
<1>5. sum[0] = 0 /\ \A m \in 1 .. n : sum[m] = sum[m - 1] + numbers[m]
  BY <1>1, <1>2, SumsSteps
<1>6. \A m \in 1 .. n : numbers[m] \in Nat
  OBVIOUS
<1> HIDE DEF n
<1>7. \A m \in 0 .. n : sum[m] \in Nat
  <2> DEFINE S == {m \in 0 .. n : sum[m] \in Nat}
  <2>1. 0 \in S
    BY <1>1, <1>5
  <2>2. ASSUME NEW m \in 0 .. n, m \in S, m < n PROVE m + 1 \in S
    <3>1. m + 1 \in 1 .. n /\ (m + 1) - 1 = m
      BY <1>1, <2>2
    <3>2. sum[m + 1] = sum[m] + numbers[m + 1] /\ numbers[m + 1] \in Nat
      BY <1>5, <1>6, <3>1
    <3>3. QED
      BY <2>2, <3>1, <3>2
  <2> HIDE DEF S
  <2>3. \A m \in 0 .. n : m \in S
    BY <1>1, <2>1, <2>2, CountingTo
  <2>4. QED
    BY <2>3 DEF S
<1>8. sum \in [0 .. n -> Nat]
  BY <1>4, <1>7
<1>9. QED
  BY <1>3, <1>5, <1>8 DEF n

LEMMA TotalTyped ==
    ASSUME NEW numbers \in Seq(Nat) PROVE Total(numbers) \in Nat
<1>1. PICK sum \in [0 .. Len(numbers) -> Nat] : Total(numbers) = sum[Len(numbers)]
  BY TotalSums
<1>2. Len(numbers) \in 0 .. Len(numbers)
  OBVIOUS
<1>3. QED
  BY <1>1, <1>2

LEMMA TotalOfNone == Total(<<>>) = 0
<1>1. <<>> \in Seq(Nat) /\ Len(<<>>) = 0
  OBVIOUS
<1>2. QED
  BY <1>1, TotalSums

\* One more number adds itself to the total.
LEMMA TotalAppends ==
    ASSUME NEW numbers \in Seq(Nat), NEW last \in Nat
    PROVE  Total(Append(numbers, last)) = Total(numbers) + last
<1> DEFINE n == Len(numbers)
           longer == Append(numbers, last)
<1>1. n \in Nat /\ longer \in Seq(Nat) /\ Len(longer) = n + 1 /\ longer[n + 1] = last
  OBVIOUS
<1>2. \A m \in 1 .. n : longer[m] = numbers[m]
  OBVIOUS
<1> HIDE DEF longer
<1>3. PICK f \in [0 .. n -> Nat] :
         /\ f[0] = 0
         /\ \A m \in 1 .. n : f[m] = f[m - 1] + numbers[m]
         /\ Total(numbers) = f[n]
  BY TotalSums
<1>4. PICK g \in [0 .. n + 1 -> Nat] :
         /\ g[0] = 0
         /\ \A m \in 1 .. n + 1 : g[m] = g[m - 1] + longer[m]
         /\ Total(longer) = g[n + 1]
  BY <1>1, TotalSums
<1> DEFINE S == {m \in 0 .. n : f[m] = g[m]}
<1> HIDE DEF n
<1>5. 0 \in S
  BY <1>1, <1>3, <1>4
<1>6. ASSUME NEW m \in 0 .. n, m \in S, m < n PROVE m + 1 \in S
  <2>1. m + 1 \in 1 .. n /\ m + 1 \in 1 .. n + 1 /\ m + 1 \in 0 .. n /\ (m + 1) - 1 = m
    BY <1>1, <1>6
  <2>2. f[m + 1] = f[m] + numbers[m + 1]
    BY <1>3, <2>1
  <2>3. g[m + 1] = g[m] + longer[m + 1]
    BY <1>4, <2>1
  <2>4. QED
    BY <1>2, <1>6, <2>1, <2>2, <2>3
<1> HIDE DEF S
<1>7. \A m \in 0 .. n : m \in S
  BY <1>1, <1>5, <1>6, CountingTo
<1>8. f[n] = g[n]
  BY <1>1, <1>7 DEF S
<1>9. g[n + 1] = g[n] + longer[n + 1]
  <2>1. n + 1 \in 1 .. n + 1 /\ (n + 1) - 1 = n
    BY <1>1
  <2>2. QED
    BY <1>4, <2>1
<1>10. QED
  BY <1>1, <1>3, <1>4, <1>8, <1>9 DEF longer

\* What remains when the first numbers go is no more than before.
LEMMA TotalOfLast ==
    ASSUME NEW numbers \in Seq(Nat), NEW gone \in 0 .. Len(numbers)
    PROVE  Total(SubSeq(numbers, gone + 1, Len(numbers))) <= Total(numbers)
<1> DEFINE n == Len(numbers)
           rest == SubSeq(numbers, gone + 1, n)
<1>1. n \in Nat /\ gone \in 0 .. n
  OBVIOUS
<1>2. /\ rest \in Seq(Nat) /\ Len(rest) = n - gone
      /\ \A m \in 1 .. n - gone : rest[m] = numbers[m + gone]
  <2>1. \A i \in gone + 1 .. n : numbers[i] \in Nat
    OBVIOUS
  <2>2. rest \in Seq(Nat)
    BY <2>1
  <2>3. QED
    BY <2>2, SMTT(30)
<1> HIDE DEF rest
<1>3. PICK f \in [0 .. n -> Nat] :
         /\ f[0] = 0
         /\ \A m \in 1 .. n : f[m] = f[m - 1] + numbers[m]
         /\ Total(numbers) = f[n]
  BY TotalSums
<1>4. \A m \in 1 .. n : numbers[m] \in Nat
  OBVIOUS
<1> HIDE DEF n
<1>5. n - gone \in Nat
  BY <1>1
<1>6. PICK g \in [0 .. n - gone -> Nat] :
         /\ g[0] = 0
         /\ \A m \in 1 .. n - gone : g[m] = g[m - 1] + rest[m]
         /\ Total(rest) = g[n - gone]
  BY <1>2, TotalSums
<1> DEFINE S == {m \in 0 .. n - gone : g[m] <= f[m + gone]}
<1>7. 0 \in S
  <2>1. 0 + gone \in 0 .. n
    BY <1>1
  <2>2. f[0 + gone] \in Nat
    BY <1>3, <2>1
  <2>3. QED
    BY <1>5, <1>6, <2>2
<1>8. ASSUME NEW m \in 0 .. n - gone, m \in S, m < n - gone PROVE m + 1 \in S
  <2>1. /\ m + 1 \in 1 .. n - gone /\ m + 1 \in 0 .. n - gone /\ (m + 1) - 1 = m
        /\ m + 1 + gone \in 1 .. n /\ (m + 1 + gone) - 1 = m + gone
        /\ m + gone \in 0 .. n
    BY <1>1, <1>8
  <2>2. g[m + 1] = g[m] + rest[m + 1]
    BY <1>6, <2>1
  <2>3. f[m + 1 + gone] = f[m + gone] + numbers[m + 1 + gone]
    BY <1>3, <2>1
  <2>4. g[m] \in Nat /\ f[m + gone] \in Nat /\ numbers[m + 1 + gone] \in Nat
    BY <1>3, <1>4, <1>6, <2>1
  <2>5. rest[m + 1] = numbers[m + 1 + gone]
    BY <1>2, <2>1
  <2>6. QED
    BY <1>8, <2>1, <2>2, <2>3, <2>4, <2>5
<1> HIDE DEF S
<1>9. \A m \in 0 .. n - gone : m \in S
  BY <1>5, <1>7, <1>8, CountingTo
<1>10. g[n - gone] <= f[n]
  <2>1. n - gone \in 0 .. n - gone /\ (n - gone) + gone = n
    BY <1>1
  <2>2. QED
    BY <1>9, <2>1 DEF S
<1>11. QED
  BY <1>3, <1>6, <1>10 DEF rest, n

-----------------------------------------------------------------------------
(* Listings in their order.                                                *)

\* Two items with the same id are the same.
OnePerId(items) == \A a, b \in items : a.id = b.id => a = b

LEMMA ListedTyped ==
    ASSUME NEW a \in ListedTasks
    PROVE  /\ a.id \in Nat /\ a.id \in TaskIds
           /\ a.task \in TaskContents
           /\ a.task.text \in Nat
<1>1. a.id \in TaskIds /\ a.task \in TaskContents
  BY DEF ListedTasks
<1>2. a.task.text \in Texts
  BY <1>1 DEF TaskContents
<1>3. QED
  BY <1>1, <1>2, IdsAreNumbers, TitlesAssumption

LEMMA PrecedesOneWay ==
    ASSUME NEW q, NEW a \in ListedTasks, NEW b \in ListedTasks, Precedes(q, a, b)
    PROVE  ~Precedes(q, b, a) /\ a # b
<1>1. a.id \in Nat /\ b.id \in Nat /\ a.task.text \in Nat /\ b.task.text \in Nat
  BY ListedTyped
<1>2. QED
  BY <1>1 DEF Precedes

LEMMA PrecedesSomeWay ==
    ASSUME NEW q, NEW a \in ListedTasks, NEW b \in ListedTasks, a.id # b.id
    PROVE  Precedes(q, a, b) \/ Precedes(q, b, a)
<1>1. a.id \in Nat /\ b.id \in Nat /\ a.task.text \in Nat /\ b.task.text \in Nat
  BY ListedTyped
<1>2. QED
  BY <1>1 DEF Precedes

LEMMA PrecedesOnwards ==
    ASSUME NEW q, NEW a \in ListedTasks, NEW b \in ListedTasks, NEW d \in ListedTasks,
           Precedes(q, a, b), Precedes(q, b, d)
    PROVE  Precedes(q, a, d)
<1>1. /\ a.id \in Nat /\ b.id \in Nat /\ d.id \in Nat
      /\ a.task.text \in Nat /\ b.task.text \in Nat /\ d.task.text \in Nat
  BY ListedTyped
<1>2. QED
  BY <1>1 DEF Precedes

LEMMA OneFewer ==
    ASSUME NEW items, IsFiniteSet(items), NEW m \in items, NEW n \in Nat,
           Cardinality(items) = n + 1
    PROVE  IsFiniteSet(items \ {m}) /\ Cardinality(items \ {m}) = n
<1>1. IsFiniteSet(items \ {m}) /\ Cardinality(items \ {m}) = Cardinality(items) - 1
  BY FS_RemoveElement
<1>2. QED
  BY <1>1

\* Some item is listed after all others.
LEMMA LastListed ==
    ASSUME NEW q, NEW items \in SUBSET ListedTasks, IsFiniteSet(items), OnePerId(items),
           items # {}
    PROVE  \E m \in items : \A a \in items : a # m => Precedes(q, a, m)
<1> DEFINE Ends(some) == \E m \in some : \A a \in some : a # m => Precedes(q, a, m)
           S == {n \in Nat : \A some \in SUBSET items :
                    IsFiniteSet(some) /\ Cardinality(some) = n /\ some # {} => Ends(some)}
<1>1. 0 \in S
  BY FS_EmptySet
<1>2. ASSUME NEW n \in S PROVE n + 1 \in S
  <2>1. n \in Nat
    BY <1>2
  <2>2. SUFFICES ASSUME NEW some \in SUBSET items, IsFiniteSet(some),
                        Cardinality(some) = n + 1, some # {}
                 PROVE  Ends(some)
    BY <2>1
  <2>3. PICK first \in some : TRUE
    BY <2>2
  <2> DEFINE others == some \ {first}
  <2>4. IsFiniteSet(others) /\ Cardinality(others) = n
    BY <2>1, <2>2, OneFewer
  <2>5. CASE others = {}
    BY <2>5
  <2>6. CASE others # {}
    <3>1. Ends(others)
      BY <1>2, <2>4, <2>6
    <3>2. PICK m \in others : \A a \in others : a # m => Precedes(q, a, m)
      BY <3>1
    <3>3. first \in ListedTasks /\ m \in ListedTasks /\ first \in items /\ m \in items /\ first # m
      OBVIOUS
    <3>4. Precedes(q, first, m) \/ Precedes(q, m, first)
      <4>1. first.id # m.id
        BY <3>3 DEF OnePerId
      <4>2. QED
        BY <3>3, <4>1, PrecedesSomeWay
    <3>5. CASE Precedes(q, first, m)
      BY <3>2, <3>5
    <3>6. CASE Precedes(q, m, first)
      <4>1. ASSUME NEW a \in some, a # first PROVE Precedes(q, a, first)
        <5>1. a \in others /\ a \in ListedTasks
          BY <4>1
        <5>2. CASE a = m
          BY <3>6, <5>2
        <5>3. CASE a # m
          BY <3>2, <3>3, <3>6, <5>1, <5>3, PrecedesOnwards
        <5>4. QED
          BY <5>2, <5>3
      <4>2. QED
        BY <4>1
    <3>7. QED
      BY <3>4, <3>5, <3>6
  <2>7. QED
    BY <2>5, <2>6
<1> HIDE DEF S
<1>3. S = Nat
  BY <1>1, <1>2, Counting DEF S
<1>4. Cardinality(items) \in Nat
  BY FS_CardinalityType
<1>5. QED
  BY <1>3, <1>4 DEF S

\* Items have an order.
LEMMA OrderListed ==
    ASSUME NEW q, NEW items \in SUBSET ListedTasks, IsFiniteSet(items), OnePerId(items)
    PROVE  /\ Cardinality(items) \in Nat
           /\ Sorted(q, items) \in [1 .. Cardinality(items) -> items]
           /\ \A i, j \in 1 .. Cardinality(items) :
                 i < j => Precedes(q, Sorted(q, items)[i], Sorted(q, items)[j])
<1> DEFINE InTurn(s, n) == \A i, j \in 1 .. n : i < j => Precedes(q, s[i], s[j])
           S == {n \in Nat : \A some \in SUBSET items :
                    IsFiniteSet(some) /\ Cardinality(some) = n =>
                       \E s \in [1 .. n -> some] : InTurn(s, n)}
<1>1. 0 \in S
  <2>1. ASSUME NEW some \in SUBSET items PROVE \E s \in [1 .. 0 -> some] : InTurn(s, 0)
    <3>1. [i \in 1 .. 0 |-> 0] \in [1 .. 0 -> some]
      OBVIOUS
    <3>2. InTurn([i \in 1 .. 0 |-> 0], 0)
      OBVIOUS
    <3>3. QED
      BY <3>1, <3>2
  <2>2. QED
    BY <2>1
<1>2. ASSUME NEW n \in S PROVE n + 1 \in S
  <2>1. n \in Nat
    BY <1>2
  <2>2. SUFFICES ASSUME NEW some \in SUBSET items, IsFiniteSet(some), Cardinality(some) = n + 1
                 PROVE  \E s \in [1 .. n + 1 -> some] : InTurn(s, n + 1)
    BY <2>1
  <2>3. some # {}
    BY <2>1, <2>2, FS_EmptySet
  <2>4. OnePerId(some) /\ some \in SUBSET ListedTasks
    BY DEF OnePerId
  <2>5. PICK m \in some : \A a \in some : a # m => Precedes(q, a, m)
    BY <2>2, <2>3, <2>4, LastListed
  <2>6. IsFiniteSet(some \ {m}) /\ Cardinality(some \ {m}) = n
    BY <2>1, <2>2, OneFewer
  <2>7. PICK t \in [1 .. n -> some \ {m}] : InTurn(t, n)
    BY <1>2, <2>6
  <2> DEFINE s == [i \in 1 .. n + 1 |-> IF i = n + 1 THEN m ELSE t[i]]
  <2>8. s \in [1 .. n + 1 -> some]
    BY <2>1, <2>7
  <2>9. ASSUME NEW i \in 1 .. n + 1, NEW j \in 1 .. n + 1, i < j PROVE Precedes(q, s[i], s[j])
    <3>1. i \in 1 .. n /\ s[i] = t[i] /\ t[i] \in some \ {m}
      BY <2>1, <2>7, <2>9
    <3>2. CASE j = n + 1
      <4>1. s[j] = m
        BY <3>2
      <4>2. QED
        BY <2>5, <3>1, <4>1
    <3>3. CASE j # n + 1
      <4>1. j \in 1 .. n /\ s[j] = t[j]
        BY <2>1, <3>3
      <4>2. QED
        BY <2>7, <2>9, <3>1, <4>1
    <3>4. QED
      BY <3>2, <3>3
  <2>10. QED
    BY <2>8, <2>9
<1> HIDE DEF S
<1>3. S = Nat
  BY <1>1, <1>2, Counting DEF S
<1>4. Cardinality(items) \in Nat
  BY FS_CardinalityType
<1>5. \E s \in [1 .. Cardinality(items) -> items] : InTurn(s, Cardinality(items))
  BY <1>3, <1>4 DEF S
<1>6. QED
  BY <1>4, <1>5 DEF Sorted

LEMMA MatchingTyped ==
    ASSUME NEW q, NEW vault \in Vaults
    PROVE  /\ Matching(q, vault) \in SUBSET ListedTasks
           /\ IsFiniteSet(Matching(q, vault))
           /\ OnePerId(Matching(q, vault))
<1> DEFINE all == {[id |-> id, task |-> vault[id]] : id \in Existing(vault)}
<1>1. \A id \in Existing(vault) : id \in TaskIds /\ vault[id] \in TaskContents
  BY DEF Existing, Vaults
<1>2. all \in SUBSET ListedTasks
  BY <1>1 DEF ListedTasks
<1>3. IsFiniteSet(all)
  <2>1. IsFiniteSet(TaskIds)
    BY FS_Interval, MaxTaskNumberAssumption DEF TaskIds
  <2>2. IsFiniteSet(Existing(vault))
    BY <2>1, FS_Subset DEF Existing
  <2> DEFINE f == [id \in Existing(vault) |-> [id |-> id, task |-> vault[id]]]
  <2>3. f \in Surjection(Existing(vault), all)
    BY DEF Surjection
  <2>4. QED
    BY <2>2, <2>3, FS_Surjection
<1>4. OnePerId(all)
  BY DEF OnePerId
<1>5. Matching(q, vault) \subseteq all
  BY DEF Matching
<1> HIDE DEF all
<1>6. IsFiniteSet(Matching(q, vault))
  BY <1>3, <1>5, FS_Subset
<1>7. QED
  BY <1>2, <1>4, <1>5, <1>6 DEF OnePerId

\* No task is listed twice, and a listing by the ids is in their order.
Listed(q, tasks) ==
    \A i, j \in 1 .. Len(tasks) : i < j =>
        /\ tasks[i].id # tasks[j].id
        /\ q.field = "id" => Precedes(q, tasks[i], tasks[j])

\* What is read from a board is a listing (list_tasks.rs materialize_tasks).
LEMMA MaterializedListed ==
    ASSUME NEW q \in Queries, NEW vault \in Vaults
    PROVE  /\ Materialized(q, vault) \in Seq(ListedTasks)
           /\ Listed(q, Materialized(q, vault))
<1> DEFINE items == Matching(q, vault)
           n == Cardinality(items)
           s == Sorted(q, items)
<1>1. items \in SUBSET ListedTasks /\ IsFiniteSet(items) /\ OnePerId(items)
  BY MatchingTyped
<1> HIDE DEF items
<1>2. /\ n \in Nat /\ s \in [1 .. n -> items]
      /\ \A i, j \in 1 .. n : i < j => Precedes(q, s[i], s[j])
  BY <1>1, OrderListed
<1> HIDE DEF n, s
<1>3. s \in Seq(ListedTasks) /\ Len(s) = n
  BY <1>1, <1>2
<1>4. Listed(q, s)
  <2>1. ASSUME NEW i \in 1 .. Len(s), NEW j \in 1 .. Len(s), i < j
        PROVE  s[i].id # s[j].id /\ Precedes(q, s[i], s[j])
    <3>1. Precedes(q, s[i], s[j]) /\ s[i] \in items /\ s[j] \in items
      BY <1>2, <1>3, <2>1
    <3>2. s[i] # s[j]
      BY <1>1, <3>1, PrecedesOneWay
    <3>3. QED
      BY <1>1, <3>1, <3>2 DEF OnePerId
  <2>2. QED
    BY <2>1 DEF Listed
<1>5. CASE q.cap = NoLimit \/ Len(s) <= q.cap
  BY <1>3, <1>4, <1>5 DEF Materialized, Capped, s, items
<1>6. CASE ~(q.cap = NoLimit \/ Len(s) <= q.cap)
  <2> DEFINE k == q.cap
             r == SubSeq(s, 1, k)
  <2>1. q.cap \in (Nat \ {0}) \cup {NoLimit}
    BY QueriesAssumption
  <2>2. k \in Nat /\ k < Len(s)
    BY <1>3, <1>6, <2>1
  <2> HIDE DEF k
  <2>3. r \in Seq(ListedTasks) /\ Len(r) = k /\ \A i \in 1 .. k : r[i] = s[i]
    <3>1. \A i \in 1 .. k : s[i] \in ListedTasks
      BY <1>3, <2>2
    <3>2. r \in Seq(ListedTasks)
      BY <2>2, <3>1
    <3>3. QED
      BY <1>3, <2>2, <3>2
  <2> HIDE DEF r
  <2>4. Listed(q, r)
    <3>1. \A i \in 1 .. k : i \in 1 .. Len(s)
      BY <1>3, <2>2
    <3>2. QED
      BY <1>4, <2>3, <3>1 DEF Listed
  <2>5. Materialized(q, vault) = r
    BY <1>6 DEF Materialized, Capped, r, s, items, k
  <2>6. QED
    BY <2>3, <2>4, <2>5
<1>7. QED
  BY <1>5, <1>6

-----------------------------------------------------------------------------
(* The snapshots that are kept.                                            *)

Entries(last) == [id: 1 .. last, binding: Queries, tasks: Seq(ListedTasks)]

\* The entries are the last snapshots made.
NumberedTo(entries, last, bytes) ==
    /\ last \in Nat
    /\ bytes \in Seq(Nat)
    /\ Len(bytes) = last
    /\ entries \in Seq(Entries(last))
    /\ Len(entries) <= last
    /\ \A i \in 1 .. Len(entries) :
          /\ entries[i].id = last - Len(entries) + i
          /\ bytes[entries[i].id] = Bytes(entries[i].binding, entries[i].tasks)

\* A snapshot within its lifetime that is not among them gave way.
GivenWay(entries, last, bytes) ==
    \A k \in 1 .. last :
        k > expired /\ k <= last - Len(entries) =>
            \/ last - k >= MaxSnapshots
            \/ Total(SubSeq(bytes, k, last)) > MaxBytes

LEMMA BytesTyped ==
    ASSUME NEW q, NEW tasks \in Seq(ListedTasks)
    PROVE  Bytes(q, tasks) \in Nat
<1>1. Len(tasks) \in Nat
  OBVIOUS
<1>2. CASE q.detailed
  BY <1>1, <1>2 DEF Bytes
<1>3. CASE ~q.detailed
  BY <1>1, <1>3 DEF Bytes
<1>4. QED
  BY <1>2, <1>3

LEMMA SmallestIs ==
    ASSUME NEW numbers \in SUBSET Nat, numbers # {}
    PROVE  /\ Smallest(numbers) \in numbers
           /\ \A m \in numbers : Smallest(numbers) <= m
<1>1. PICK n \in numbers : \A m \in numbers : ~(m < n)
  BY Least
<1>2. \A m \in numbers : n <= m
  BY <1>1
<1>3. QED
  BY <1>2 DEF Smallest

\* What the last numbers are.
LEMMA LastOf ==
    ASSUME NEW S, NEW s \in Seq(S), NEW gone \in 0 .. Len(s)
    PROVE  /\ SubSeq(s, gone + 1, Len(s)) \in Seq(S)
           /\ Len(SubSeq(s, gone + 1, Len(s))) = Len(s) - gone
           /\ Len(s) - gone \in Nat
           /\ \A i \in 1 .. Len(s) - gone : /\ gone + i \in 1 .. Len(s)
                                            /\ SubSeq(s, gone + 1, Len(s))[i] = s[gone + i]
<1> DEFINE n == Len(s)
           rest == SubSeq(s, gone + 1, n)
<1>1. n \in Nat /\ gone \in 0 .. n /\ gone \in Nat
  OBVIOUS
<1>2. \A i \in gone + 1 .. n : s[i] \in S
  OBVIOUS
<1>3. rest \in Seq(S)
  BY <1>1, <1>2, SubSeqProperties
<1>4. Len(rest) = n - gone
  BY <1>1
<1>5. ASSUME NEW i \in 1 .. n - gone PROVE gone + i \in 1 .. n /\ rest[i] = s[gone + i]
  BY <1>1
<1> HIDE DEF n
<1>6. n - gone \in Nat
  BY <1>1
<1>7. QED
  BY <1>3, <1>4, <1>5, <1>6 DEF n

\* When the oldest entries go the others are still the last snapshots made, and
\* cost what the last of them cost.
LEMMA RestNumbered ==
    ASSUME NEW entries, NEW last, NEW bytes, NumberedTo(entries, last, bytes),
           NEW gone \in 0 .. Len(entries)
    PROVE  /\ NumberedTo(SubSeq(entries, gone + 1, Len(entries)), last, bytes)
           /\ Len(SubSeq(entries, gone + 1, Len(entries))) = Len(entries) - gone
           /\ Len(entries) - gone \in Nat
           /\ \A i \in 1 .. Len(entries) - gone :
                 /\ gone + i \in 1 .. Len(entries)
                 /\ SubSeq(entries, gone + 1, Len(entries))[i] = entries[gone + i]
<1> DEFINE n == Len(entries)
           rest == SubSeq(entries, gone + 1, n)
<1>1. /\ rest \in Seq(Entries(last)) /\ Len(rest) = n - gone /\ n - gone \in Nat
      /\ \A i \in 1 .. n - gone : gone + i \in 1 .. n /\ rest[i] = entries[gone + i]
  BY LastOf DEF NumberedTo
<1>2. n \in Nat /\ gone \in 0 .. n
  BY DEF NumberedTo
<1> HIDE DEF rest
<1>3. /\ last \in Nat /\ bytes \in Seq(Nat) /\ Len(bytes) = last /\ n <= last
      /\ \A i \in 1 .. n :
          /\ entries[i].id = last - n + i
          /\ bytes[entries[i].id] = Bytes(entries[i].binding, entries[i].tasks)
  BY DEF NumberedTo
<1> HIDE DEF n
<1>4. ASSUME NEW i \in 1 .. Len(rest)
      PROVE  /\ rest[i].id = last - Len(rest) + i
             /\ bytes[rest[i].id] = Bytes(rest[i].binding, rest[i].tasks)
  <2>1. i \in 1 .. n - gone
    BY <1>1
  <2>2. gone + i \in 1 .. n /\ rest[i] = entries[gone + i]
    BY <1>1, <2>1
  <2>3. last - n + (gone + i) = last - Len(rest) + i
    BY <1>1, <1>2, <1>3, <2>1
  <2>4. QED
    BY <1>3, <2>2, <2>3
<1>5. Len(rest) <= last
  BY <1>1, <1>2, <1>3
<1>6. NumberedTo(rest, last, bytes)
  BY <1>1, <1>3, <1>4, <1>5 DEF NumberedTo
<1>7. QED
  BY <1>1, <1>6 DEF rest, n

LEMMA BytesOfTyped ==
    ASSUME NEW entries, NEW last, NEW bytes, NumberedTo(entries, last, bytes)
    PROVE  /\ BytesOf(entries) \in Seq(Nat)
           /\ Len(BytesOf(entries)) = Len(entries)
<1>1. /\ Len(entries) \in Nat
      /\ \A i \in 1 .. Len(entries) : entries[i] \in Entries(last)
  BY DEF NumberedTo
<1>2. \A i \in 1 .. Len(entries) : Bytes(entries[i].binding, entries[i].tasks) \in Nat
  BY <1>1, BytesTyped DEF Entries
<1>3. BytesOf(entries) \in [1 .. Len(entries) -> Nat]
  BY <1>2 DEF BytesOf
<1>4. QED
  BY <1>1, <1>3

\* The entries cost what the sizes of the last snapshots say.
LEMMA BytesOfNumbered ==
    ASSUME NEW entries, NEW last, NEW bytes, NumberedTo(entries, last, bytes)
    PROVE  BytesOf(entries) = SubSeq(bytes, last - Len(entries) + 1, last)
<1> DEFINE n == Len(entries)
           gone == last - n
           rest == SubSeq(bytes, gone + 1, last)
<1>1. /\ n \in Nat /\ last \in Nat /\ n <= last
      /\ bytes \in Seq(Nat) /\ Len(bytes) = last
      /\ \A i \in 1 .. n :
          /\ entries[i].id = gone + i
          /\ bytes[entries[i].id] = Bytes(entries[i].binding, entries[i].tasks)
  BY DEF NumberedTo
<1> HIDE DEF n
<1>2. gone \in 0 .. Len(bytes) /\ last - gone = n
  BY <1>1
<1> HIDE DEF gone
<1>3. /\ rest \in Seq(Nat) /\ Len(rest) = n
      /\ \A i \in 1 .. n : rest[i] = bytes[gone + i]
  BY <1>1, <1>2, LastOf, ZenonT(40)
<1> HIDE DEF rest
<1>4. \A i \in 1 .. n : rest[i] = Bytes(entries[i].binding, entries[i].tasks)
  BY <1>1, <1>3
<1>5. rest = [i \in 1 .. n |-> rest[i]]
  BY <1>3
<1>6. QED
  BY <1>4, <1>5 DEF BytesOf, rest, gone, n

\* The snapshots kept are the last ones made, within their number and their
\* bytes, and only newer ones made others give way.
StoreKept(entries, last, bytes) ==
    /\ NumberedTo(entries, last, bytes)
    /\ Len(entries) <= MaxSnapshots
    /\ TotalBytes(entries) <= MaxBytes
    /\ GivenWay(entries, last, bytes)

LEMMA PruneDrops ==
    ASSUME NEW entries, NEW last, NEW bytes, NumberedTo(entries, last, bytes), expired \in Nat
    PROVE  \E gone \in 0 .. Len(entries) :
              /\ Prune(entries) = SubSeq(entries, gone + 1, Len(entries))
              /\ \A i \in 1 .. gone : entries[i].id <= expired
<1> DEFINE n == Len(entries)
           Living(m) == \A i \in m + 1 .. n : entries[i].id > expired
           enough == {m \in 0 .. n : Living(m)}
           gone == Smallest(enough)
<1>1. n \in Nat /\ last \in Nat /\ n <= last /\ \A i \in 1 .. n : entries[i].id = last - n + i
  BY DEF NumberedTo
<1>2. Prune(entries) = SubSeq(entries, gone + 1, n)
  BY DEF Prune
<1> HIDE DEF n
<1>3. n \in enough
  BY <1>1
<1>4. gone \in enough /\ \A m \in enough : gone <= m
  <2>1. enough \in SUBSET Nat
    BY <1>1
  <2> HIDE DEF enough
  <2>2. QED
    BY <1>3, <2>1, SmallestIs
<1> HIDE DEF gone
<1>5. gone \in 0 .. n /\ Living(gone)
  BY <1>4
<1>6. ASSUME NEW i \in 1 .. gone PROVE entries[i].id <= expired
  <2>1. gone - 1 \in 0 .. n /\ gone \in 1 .. n
    BY <1>1, <1>5, <1>6
  <2>2. ~Living(gone - 1)
    BY <1>4, <1>5, <2>1
  <2>3. PICK j \in (gone - 1) + 1 .. n : ~(entries[j].id > expired)
    BY <2>2
  <2>4. j = gone
    <3>1. j \notin gone + 1 .. n
      BY <1>5, <2>3
    <3>2. QED
      BY <1>1, <1>5, <2>3, <3>1
  <2>5. entries[gone].id = last - n + gone /\ entries[i].id = last - n + i
    BY <1>1, <1>5, <2>1
  <2>6. QED
    BY <1>1, <1>5, <2>3, <2>4, <2>5
<1>7. QED
  BY <1>2, <1>5, <1>6 DEF n

\* Entries whose lifetime is over go, and what remains is kept as before.
LEMMA PruneKeeps ==
    ASSUME NEW entries, NEW last, NEW bytes, StoreKept(entries, last, bytes), expired \in Nat
    PROVE  /\ StoreKept(Prune(entries), last, bytes)
           /\ \E gone \in 0 .. Len(entries) :
                 /\ Len(Prune(entries)) = Len(entries) - gone
                 /\ \A i \in 1 .. Len(Prune(entries)) :
                       /\ gone + i \in 1 .. Len(entries)
                       /\ Prune(entries)[i] = entries[gone + i]
<1> DEFINE n == Len(entries)
           rest == Prune(entries)
<1>1. NumberedTo(entries, last, bytes)
  BY DEF StoreKept
<1>2. PICK gone \in 0 .. n : /\ rest = SubSeq(entries, gone + 1, n)
                             /\ \A i \in 1 .. gone : entries[i].id <= expired
  BY <1>1, PruneDrops
<1>3. /\ NumberedTo(rest, last, bytes) /\ Len(rest) = n - gone
      /\ n - gone \in Nat
      /\ \A i \in 1 .. n - gone : gone + i \in 1 .. n /\ rest[i] = entries[gone + i]
  BY <1>1, <1>2, RestNumbered
<1>4. /\ n \in Nat /\ last \in Nat /\ n <= last
      /\ \A i \in 1 .. n : entries[i].id = last - n + i
  BY <1>1 DEF NumberedTo
<1>5. BytesOf(entries) \in Seq(Nat) /\ Len(BytesOf(entries)) = n
  BY <1>1, BytesOfTyped
<1>6. BytesOf(rest) = SubSeq(BytesOf(entries), gone + 1, n)
  <2> DEFINE all == BytesOf(entries)
             part == SubSeq(all, gone + 1, n)
  <2>1. /\ part \in Seq(Nat) /\ Len(part) = n - gone
        /\ \A i \in 1 .. n - gone : part[i] = all[gone + i]
    BY <1>5, LastOf
  <2>2. BytesOf(rest) \in Seq(Nat) /\ Len(BytesOf(rest)) = n - gone
    BY <1>3, BytesOfTyped
  <2>3. ASSUME NEW i \in 1 .. n - gone PROVE BytesOf(rest)[i] = part[i]
    <3>1. BytesOf(rest)[i] = Bytes(rest[i].binding, rest[i].tasks)
      BY <1>3, <2>3 DEF BytesOf
    <3>2. gone + i \in 1 .. n /\ rest[i] = entries[gone + i]
      BY <1>3, <2>3
    <3>3. all[gone + i] = Bytes(entries[gone + i].binding, entries[gone + i].tasks)
      BY <3>2 DEF BytesOf
    <3>4. QED
      BY <2>1, <2>3, <3>1, <3>2, <3>3
  <2> HIDE DEF part
  <2>4. BytesOf(rest) = part
    BY <2>1, <2>2, <2>3, SeqEqual
  <2>5. QED
    BY <2>4 DEF part
<1> HIDE DEF n, rest
<1>7. TotalBytes(rest) <= MaxBytes
  <2>1. Total(SubSeq(BytesOf(entries), gone + 1, n)) <= Total(BytesOf(entries))
    BY <1>5, TotalOfLast
  <2>2. Total(BytesOf(rest)) \in Nat /\ Total(BytesOf(entries)) \in Nat
    BY <1>1, <1>3, BytesOfTyped, TotalTyped
  <2>3. Total(BytesOf(entries)) <= MaxBytes
    BY DEF StoreKept, TotalBytes
  <2>4. QED
    BY <1>6, <2>1, <2>2, <2>3, LimitsAssumption DEF TotalBytes
<1>8. Len(rest) <= MaxSnapshots
  <2>1. n <= MaxSnapshots
    BY DEF StoreKept, n
  <2>2. QED
    BY <1>2, <1>3, <1>4, <2>1, LimitsAssumption
<1>9. GivenWay(rest, last, bytes)
  <2>1. SUFFICES ASSUME NEW k \in 1 .. last, k > expired, k <= last - Len(rest)
                 PROVE  \/ last - k >= MaxSnapshots
                        \/ Total(SubSeq(bytes, k, last)) > MaxBytes
    BY DEF GivenWay
  <2>2. CASE k <= last - n
    BY <2>1, <2>2 DEF StoreKept, GivenWay, n
  <2>3. CASE ~(k <= last - n)
    <3>1. k - (last - n) \in 1 .. gone /\ k - (last - n) \in 1 .. n
      BY <1>2, <1>3, <1>4, <2>1, <2>3
    <3>2. entries[k - (last - n)].id = k
      <4>1. entries[k - (last - n)].id = last - n + (k - (last - n))
        BY <1>4, <3>1
      <4>2. QED
        BY <1>4, <4>1
    <3>3. QED
      BY <1>2, <2>1, <3>1, <3>2
  <2>4. QED
    BY <2>2, <2>3
<1>10. QED
  BY <1>2, <1>3, <1>7, <1>8, <1>9 DEF StoreKept, n, rest

LEMMA RoomDrops ==
    ASSUME NEW entries, NEW last, NEW bytes, NumberedTo(entries, last, bytes),
           NEW more \in Nat, more <= MaxBytes
    PROVE  \E gone \in 0 .. Len(entries) :
              /\ Room(entries, more) = SubSeq(entries, gone + 1, Len(entries))
              /\ FitsBeside(Room(entries, more), more)
              /\ \A m \in 0 .. Len(entries) :
                    m < gone => ~FitsBeside(SubSeq(entries, m + 1, Len(entries)), more)
<1> DEFINE n == Len(entries)
           Fit(m) == FitsBeside(SubSeq(entries, m + 1, n), more)
           fitting == {m \in 0 .. n : Fit(m)}
           gone == Smallest(fitting)
<1>1. n \in Nat
  BY DEF NumberedTo
<1>2. Room(entries, more) = SubSeq(entries, gone + 1, n)
  BY DEF Room
<1>3. n \in fitting
  <2>1. SubSeq(entries, n + 1, n) = <<>>
    <3>1. entries \in Seq(Entries(last))
      BY DEF NumberedTo
    <3>2. Len(SubSeq(entries, n + 1, n)) = n - n /\ SubSeq(entries, n + 1, n) \in Seq(Entries(last))
      <4>1. n \in 0 .. Len(entries)
        BY <1>1
      <4>2. QED
        BY <3>1, <4>1, LastOf
    <3>3. QED
      BY <1>1, <3>2, EmptySeq
  <2>2. BytesOf(<<>>) = <<>>
    BY DEF BytesOf
  <2>3. FitsBeside(<<>>, more)
    BY <2>2, TotalOfNone, LimitsAssumption DEF FitsBeside, TotalBytes
  <2>4. Fit(n)
    BY <2>1, <2>3
  <2> HIDE DEF n, Fit
  <2>5. QED
    BY <1>1, <2>4
<1> HIDE DEF n, Fit
<1>4. gone \in fitting /\ \A m \in fitting : gone <= m
  <2>1. fitting \in SUBSET Nat
    BY <1>1
  <2> HIDE DEF fitting
  <2>2. QED
    BY <1>3, <2>1, SmallestIs
<1> HIDE DEF gone
<1>5. gone \in 0 .. n /\ Fit(gone)
  BY <1>4
<1>6. ASSUME NEW m \in 0 .. n, m < gone PROVE ~Fit(m)
  BY <1>1, <1>4, <1>5, <1>6
<1>7. FitsBeside(Room(entries, more), more)
  BY <1>2, <1>5 DEF Fit
<1>8. QED
  BY <1>2, <1>5, <1>6, <1>7 DEF n, Fit

\* A new snapshot is kept beside those that leave it room, and only it makes
\* them give way.
LEMMA RoomKeeps ==
    ASSUME NEW entries, NEW last, NEW bytes, StoreKept(entries, last, bytes),
           NEW q \in Queries, NEW tasks \in Seq(ListedTasks), Bytes(q, tasks) <= MaxBytes
    PROVE  LET entry == [id |-> last + 1, binding |-> q, tasks |-> tasks]
               room == Room(entries, Bytes(q, tasks))
           IN  /\ StoreKept(Append(room, entry), last + 1, Append(bytes, Bytes(q, tasks)))
               /\ \E gone \in 0 .. Len(entries) :
                     /\ Len(room) = Len(entries) - gone
                     /\ \A i \in 1 .. Len(room) :
                           gone + i \in 1 .. Len(entries) /\ room[i] = entries[gone + i]
<1> DEFINE n == Len(entries)
           more == Bytes(q, tasks)
           room == Room(entries, more)
           entry == [id |-> last + 1, binding |-> q, tasks |-> tasks]
           next == Append(room, entry)
           grown == Append(bytes, more)
<1>1. NumberedTo(entries, last, bytes)
  BY DEF StoreKept
<1>2. more \in Nat
  BY BytesTyped
<1> HIDE DEF more
<1>3. PICK gone \in 0 .. n :
         /\ room = SubSeq(entries, gone + 1, n)
         /\ FitsBeside(room, more)
         /\ \A m \in 0 .. n : m < gone => ~FitsBeside(SubSeq(entries, m + 1, n), more)
  BY <1>1, <1>2, RoomDrops DEF more
<1>4. /\ NumberedTo(room, last, bytes) /\ Len(room) = n - gone /\ n - gone \in Nat
      /\ \A i \in 1 .. n - gone : gone + i \in 1 .. n /\ room[i] = entries[gone + i]
  BY <1>1, <1>3, RestNumbered
<1>5. n \in Nat /\ last \in Nat /\ n <= last /\ bytes \in Seq(Nat) /\ Len(bytes) = last
  BY <1>1 DEF NumberedTo
<1> HIDE DEF n, room
<1>6. /\ grown \in Seq(Nat) /\ Len(grown) = last + 1 /\ grown[last + 1] = more
      /\ \A i \in 1 .. last : grown[i] = bytes[i]
  BY <1>2, <1>5
<1>7. room \in Seq(Entries(last)) /\ Len(room) \in Nat
  BY <1>4 DEF NumberedTo
<1>8. entry \in Entries(last + 1)
  BY <1>5 DEF Entries
<1>9. room \in Seq(Entries(last + 1))
  <2>1. Entries(last) \subseteq Entries(last + 1)
    BY <1>5 DEF Entries
  <2>2. QED
    BY <1>7, <2>1
<1>10. /\ next \in Seq(Entries(last + 1)) /\ Len(next) = Len(room) + 1
       /\ next[Len(room) + 1] = entry
       /\ \A i \in 1 .. Len(room) : next[i] = room[i]
  <2> HIDE DEF entry
  <2>1. QED
    BY <1>7, <1>8, <1>9
<1>11. entry.id = last + 1 /\ entry.binding = q /\ entry.tasks = tasks
  OBVIOUS
<1>12. \A i \in 1 .. Len(room) :
          /\ room[i].id = last - Len(room) + i
          /\ bytes[room[i].id] = Bytes(room[i].binding, room[i].tasks)
          /\ room[i].id \in 1 .. last
  <2>1. ASSUME NEW i \in 1 .. Len(room) PROVE room[i].id \in 1 .. last
    <3>1. room[i] \in Entries(last)
      BY <1>7
    <3>2. QED
      BY <3>1 DEF Entries
  <2>2. QED
    BY <1>4, <2>1 DEF NumberedTo
<1> HIDE DEF next, entry, grown
<1>13. NumberedTo(next, last + 1, grown)
  <2>0. last \in Nat /\ Len(room) \in Nat /\ Len(next) = Len(room) + 1
    BY <1>5, <1>7, <1>10
  <2>1. ASSUME NEW i \in 1 .. Len(next)
        PROVE  /\ next[i].id = last + 1 - Len(next) + i
               /\ grown[next[i].id] = Bytes(next[i].binding, next[i].tasks)
    <3>1. CASE i \in 1 .. Len(room)
      <4>1. /\ next[i] = room[i] /\ room[i].id = last - Len(room) + i
            /\ bytes[room[i].id] = Bytes(room[i].binding, room[i].tasks)
            /\ room[i].id \in 1 .. last
        BY <1>10, <1>12, <3>1
      <4>2. last - Len(room) + i = last + 1 - Len(next) + i
        BY <2>0, <3>1
      <4>3. grown[room[i].id] = bytes[room[i].id]
        BY <1>6, <4>1
      <4>4. QED
        BY <4>1, <4>2, <4>3
    <3>2. CASE i = Len(room) + 1
      <4>1. next[i].id = last + 1 /\ next[i].binding = q /\ next[i].tasks = tasks
        BY <1>10, <1>11, <3>2
      <4>2. last + 1 = last + 1 - Len(next) + i
        BY <2>0, <3>2
      <4>3. QED
        BY <1>6, <4>1, <4>2 DEF more
    <3>3. QED
      BY <2>0, <2>1, <3>1, <3>2
  <2>2. Len(next) <= last + 1
    <3>1. Len(room) <= last
      BY <1>4 DEF NumberedTo
    <3>2. QED
      BY <2>0, <3>1
  <2>3. QED
    BY <1>5, <1>6, <1>10, <2>1, <2>2 DEF NumberedTo
<1>14. BytesOf(next) = Append(BytesOf(room), more)
  <2>1. BytesOf(room) \in Seq(Nat) /\ Len(BytesOf(room)) = Len(room)
    BY <1>4, BytesOfTyped
  <2>2. BytesOf(next) \in Seq(Nat) /\ Len(BytesOf(next)) = Len(room) + 1
    BY <1>10, <1>13, BytesOfTyped
  <2> DEFINE other == Append(BytesOf(room), more)
  <2>3. /\ other \in Seq(Nat) /\ Len(other) = Len(room) + 1 /\ other[Len(room) + 1] = more
        /\ \A i \in 1 .. Len(room) : other[i] = BytesOf(room)[i]
    BY <1>2, <2>1
  <2> HIDE DEF other
  <2>4. ASSUME NEW i \in 1 .. Len(room) + 1 PROVE BytesOf(next)[i] = other[i]
    <3>1. BytesOf(next)[i] = Bytes(next[i].binding, next[i].tasks)
      BY <1>10 DEF BytesOf
    <3>2. CASE i \in 1 .. Len(room)
      <4>1. BytesOf(room)[i] = Bytes(room[i].binding, room[i].tasks)
        BY <3>2 DEF BytesOf
      <4>2. QED
        BY <1>10, <2>3, <3>1, <3>2, <4>1
    <3>3. CASE i = Len(room) + 1
      <4>1. next[i].binding = q /\ next[i].tasks = tasks
        BY <1>10, <1>11, <3>3
      <4>2. QED
        BY <2>3, <3>1, <3>3, <4>1 DEF more
    <3>4. QED
      BY <1>7, <3>2, <3>3
  <2>5. BytesOf(next) = other
    BY <2>2, <2>3, <2>4, SeqEqual
  <2>6. QED
    BY <2>5 DEF other
<1>15. TotalBytes(next) <= MaxBytes
  <2>1. BytesOf(room) \in Seq(Nat)
    BY <1>4, BytesOfTyped
  <2>2. Total(Append(BytesOf(room), more)) = Total(BytesOf(room)) + more
    BY <1>2, <2>1, TotalAppends
  <2>3. QED
    BY <1>3, <1>14, <2>2 DEF FitsBeside, TotalBytes
<1>16. Len(next) <= MaxSnapshots
  BY <1>3, <1>7, <1>10, LimitsAssumption DEF FitsBeside
<1>17. GivenWay(next, last + 1, grown)
  <2>1. SUFFICES ASSUME NEW k \in 1 .. last + 1, k > expired, k <= (last + 1) - Len(next)
                 PROVE  \/ (last + 1) - k >= MaxSnapshots
                        \/ Total(SubSeq(grown, k, last + 1)) > MaxBytes
    BY DEF GivenWay
  <2>2. k \in 1 .. last /\ k <= last - Len(room)
    BY <1>5, <1>7, <1>10, <2>1
  <2> DEFINE since == SubSeq(bytes, k, last)
  <2>3. since \in Seq(Nat) /\ Len(since) = last + 1 - k
        /\ \A i \in 1 .. last + 1 - k : since[i] = bytes[k - 1 + i]
    <3>1. k - 1 \in 0 .. Len(bytes) /\ (k - 1) + 1 = k /\ Len(bytes) - (k - 1) = last + 1 - k
      BY <1>5, <2>2
    <3>2. QED
      BY <1>5, <3>1, LastOf
  <2>4. SubSeq(grown, k, last + 1) = Append(since, more)
    <3> DEFINE one == SubSeq(grown, k, last + 1)
               two == Append(since, more)
    <3>1. last + 1 - k \in Nat
      BY <1>5, <2>2
    <3>2. /\ one \in Seq(Nat) /\ Len(one) = last + 2 - k
          /\ \A i \in 1 .. last + 2 - k : one[i] = grown[k - 1 + i]
      <4>0. Len(grown) = last + 1 /\ last \in Nat
        BY <1>5, <1>6
      <4>1. k - 1 \in 0 .. Len(grown) /\ (k - 1) + 1 = k /\ Len(grown) - (k - 1) = last + 2 - k
        BY <2>2, <4>0
      <4> DEFINE g == k - 1
      <4>2. g \in 0 .. Len(grown) /\ g + 1 = k /\ Len(grown) - g = last + 2 - k /\ Len(grown) = last + 1
        BY <1>6, <4>1
      <4> HIDE DEF g
      <4>3. /\ SubSeq(grown, g + 1, Len(grown)) \in Seq(Nat)
            /\ Len(SubSeq(grown, g + 1, Len(grown))) = Len(grown) - g
            /\ \A i \in 1 .. Len(grown) - g : SubSeq(grown, g + 1, Len(grown))[i] = grown[g + i]
        BY <1>6, <4>2, LastOf
      <4>4. QED
        BY <4>2, <4>3 DEF g
    <3> HIDE DEF since
    <3>3. /\ two \in Seq(Nat) /\ Len(two) = last + 2 - k
          /\ \A i \in 1 .. last + 1 - k : two[i] = since[i]
          /\ two[last + 2 - k] = more
      <4>1. two \in Seq(Nat) /\ Len(two) = Len(since) + 1 /\ two[Len(since) + 1] = more
            /\ \A i \in 1 .. Len(since) : two[i] = since[i]
        BY <1>2, <2>3
      <4>2. Len(since) + 1 = last + 2 - k
        BY <1>5, <2>2, <2>3
      <4>3. QED
        BY <2>3, <4>1, <4>2
    <3> HIDE DEF one, two
    <3>4. ASSUME NEW i \in 1 .. last + 2 - k PROVE one[i] = two[i]
      <4>1. CASE i \in 1 .. last + 1 - k
        <5>1. k - 1 + i \in 1 .. last
          BY <1>5, <2>2, <4>1
        <5>2. grown[k - 1 + i] = bytes[k - 1 + i]
          BY <1>6, <5>1
        <5>3. QED
          BY <2>3, <3>2, <3>3, <3>4, <4>1, <5>2
      <4>2. CASE i = last + 2 - k
        <5>1. k - 1 + i = last + 1
          BY <1>5, <2>2, <4>2
        <5>2. QED
          BY <1>6, <3>2, <3>3, <3>4, <4>2, <5>1
      <4>3. QED
        BY <1>5, <2>2, <3>4, <4>1, <4>2
    <3>5. one = two
      BY <3>2, <3>3, <3>4, SeqEqual
    <3>6. QED
      BY <3>5 DEF one, two
  <2>5. Total(SubSeq(grown, k, last + 1)) = Total(since) + more /\ Total(since) \in Nat
    BY <1>2, <2>3, <2>4, TotalAppends, TotalTyped
  <2>6. CASE k <= last - n
    <3>1. last - k >= MaxSnapshots \/ Total(since) > MaxBytes
      BY <2>1, <2>2, <2>6 DEF StoreKept, GivenWay, n
    <3>2. QED
      BY <1>2, <1>5, <2>2, <2>5, <3>1, LimitsAssumption
  <2>7. CASE ~(k <= last - n)
    <3> DEFINE m == k - (last - n) - 1
               part == SubSeq(entries, m + 1, n)
    <3>1. m \in 0 .. n /\ m < gone /\ n - m = last + 1 - k /\ last - (n - m) + 1 = k
      BY <1>3, <1>4, <1>5, <2>2, <2>7
    <3> HIDE DEF m
    <3>2. ~FitsBeside(part, more)
      BY <1>3, <3>1
    <3>3. NumberedTo(part, last, bytes) /\ Len(part) = n - m
      BY <1>1, <3>1, RestNumbered DEF n
    <3> HIDE DEF part
    <3>4. BytesOf(part) = since
      BY <3>1, <3>3, BytesOfNumbered
    <3>5. QED
      BY <1>2, <1>5, <2>2, <2>5, <3>1, <3>2, <3>3, <3>4, LimitsAssumption, SMTT(30) DEF FitsBeside, TotalBytes
  <2>8. QED
    BY <2>6, <2>7
<1>18. StoreKept(next, last + 1, grown)
  BY <1>13, <1>15, <1>16, <1>17 DEF StoreKept
<1>19. QED
  BY <1>3, <1>4, <1>18 DEF next, entry, grown, room, more, n

-----------------------------------------------------------------------------
(* Pages.                                                                  *)

\* Every item is listed before those that follow it.
IdOrdered(q, tasks) ==
    \A i, j \in 1 .. Len(tasks) : i < j => Precedes(q, tasks[i], tasks[j])

\* A listing by the ids reaches the id after the other one.
Beyond(q, after, id) == IF q.ascending THEN after < id ELSE after > id

LEMMA PrecedesIsBeyond ==
    ASSUME NEW q, q.field = "id", NEW a, NEW b
    PROVE  Precedes(q, a, b) <=> Beyond(q, a.id, b.id)
BY DEF Precedes, Beyond

\* A page is what follows its start, as far as its end.
LEMMA PageIs ==
    ASSUME NEW q \in Queries, q.size # NoLimit,
           NEW tasks \in Seq(ListedTasks), NEW start \in 0 .. Len(tasks)
    PROVE  LET end == PageEnd(q, tasks, start)
               page == Page(q, tasks, start)
           IN  /\ end \in start .. Len(tasks)
               /\ end < Len(tasks) => end > start
               /\ page \in Seq(ListedTasks)
               /\ Len(page) = end - start
               /\ \A i \in 1 .. end - start :
                     start + i \in 1 .. end /\ page[i] = tasks[start + i]
<1> DEFINE n == Len(tasks)
           end == PageEnd(q, tasks, start)
           page == Page(q, tasks, start)
<1>1. q.size \in Nat \ {0}
  BY QueriesAssumption
<1>2. n \in Nat /\ start \in 0 .. n
  OBVIOUS
<1>3. end \in start .. n /\ (end < n => end > start)
  BY <1>1, <1>2 DEF PageEnd
<1>4. page = SubSeq(tasks, start + 1, end)
  BY DEF Page
<1> HIDE DEF n, end, page
<1>5. \A i \in start + 1 .. end : tasks[i] \in ListedTasks
  <2>1. \A i \in 1 .. n : tasks[i] \in ListedTasks
    BY DEF n
  <2>2. \A i \in start + 1 .. end : i \in 1 .. n
    BY <1>2, <1>3
  <2>3. QED
    BY <2>1, <2>2
<1>6. page \in Seq(ListedTasks)
  BY <1>2, <1>3, <1>4, <1>5, SubSeqProperties
<1>7. Len(page) = end - start /\ \A i \in 1 .. end - start : page[i] = tasks[start + i]
  BY <1>2, <1>3, <1>4
<1>8. \A i \in 1 .. end - start : start + i \in 1 .. end
  BY <1>2, <1>3
<1>9. QED
  BY <1>3, <1>6, <1>7, <1>8 DEF n, end, page

\* There is a token for the next page as long as the page is not the last.
LEMMA NextTokenIs ==
    ASSUME NEW q \in Queries, q.size # NoLimit,
           NEW tasks \in Seq(ListedTasks), NEW start \in 0 .. Len(tasks), NEW snapshot \in Nat
    PROVE  LET end == PageEnd(q, tasks, start)
               next == NextToken(q, tasks, start, snapshot)
           IN  /\ next \in Tokens \cup {NoToken}
               /\ next # NoToken <=> end < Len(tasks)
               /\ next # NoToken => /\ next.binding = q
                                    /\ next.after = tasks[end].id
                                    /\ next.snapshot = snapshot
<1> DEFINE n == Len(tasks)
           end == PageEnd(q, tasks, start)
           next == NextToken(q, tasks, start, snapshot)
<1>1. /\ n \in Nat /\ start \in 0 .. n /\ end \in start .. n /\ (end < n => end > start)
  BY PageIs
<1> HIDE DEF end
<1>2. CASE end < n
  <2>1. next = [binding |-> q, after |-> tasks[end].id, snapshot |-> snapshot]
    BY <1>2 DEF NextToken, end
  <2>2. tasks[end].id \in TaskIds
    <3>1. end \in 1 .. n
      BY <1>1, <1>2
    <3>2. tasks[end] \in ListedTasks
      BY <3>1
    <3>3. QED
      BY <3>2, ListedTyped
  <2>3. next \in Tokens
    BY <2>1, <2>2 DEF Tokens
  <2>4. QED
    BY <1>2, <2>1, <2>3, NoTokenAssumption DEF end
<1>3. CASE ~(end < n)
  <2>1. next = NoToken
    BY <1>3 DEF NextToken, end
  <2>2. QED
    BY <1>3, <2>1 DEF end
<1>4. QED
  BY <1>2, <1>3

\* A page after the beginning of a listing makes a longer beginning of it.
LEMMA PrefixGrows ==
    ASSUME NEW q \in Queries, q.size # NoLimit,
           NEW tasks \in Seq(ListedTasks), NEW start \in 0 .. Len(tasks)
    PROVE  SubSeq(tasks, 1, start) \o Page(q, tasks, start)
             = SubSeq(tasks, 1, PageEnd(q, tasks, start))
<1> DEFINE end == PageEnd(q, tasks, start)
           page == Page(q, tasks, start)
           front == SubSeq(tasks, 1, start)
           one == front \o page
           two == SubSeq(tasks, 1, end)
<1>0. Len(tasks) \in Nat /\ start \in Nat
  OBVIOUS
<1> HIDE DEF end, page
<1>1. /\ Len(tasks) \in Nat /\ end \in start .. Len(tasks) /\ start \in Nat
      /\ page \in Seq(ListedTasks) /\ Len(page) = end - start
      /\ \A i \in 1 .. end - start : page[i] = tasks[start + i]
  BY <1>0, PageIs DEF end, page
<1>2. \A k \in 0 .. Len(tasks) :
         /\ SubSeq(tasks, 1, k) \in Seq(ListedTasks) /\ Len(SubSeq(tasks, 1, k)) = k
         /\ \A i \in 1 .. k : SubSeq(tasks, 1, k)[i] = tasks[i]
  <2>1. TAKE k \in 0 .. Len(tasks)
  <2>2. \A i \in 1 .. k : tasks[i] \in ListedTasks
    BY <1>1
  <2>3. SubSeq(tasks, 1, k) \in Seq(ListedTasks)
    BY <1>1, <2>1, <2>2, SubSeqProperties
  <2>4. QED
    BY <1>1, <2>1, <2>3
<1>3. /\ two \in Seq(ListedTasks) /\ Len(two) = end
      /\ \A i \in 1 .. end : two[i] = tasks[i]
  BY <1>1, <1>2
<1>4. /\ front \in Seq(ListedTasks) /\ Len(front) = start
      /\ \A i \in 1 .. start : front[i] = tasks[i]
  BY <1>2
<1> HIDE DEF front, two
<1>5. /\ one \in Seq(ListedTasks) /\ Len(one) = start + (end - start)
      /\ \A i \in 1 .. start : one[i] = front[i]
      /\ \A i \in 1 .. end - start : one[start + i] = page[i]
  BY <1>1, <1>4
<1>6. Len(one) = end
  BY <1>1, <1>5
<1> HIDE DEF one
<1>7. ASSUME NEW i \in 1 .. end PROVE one[i] = two[i]
  <2>1. CASE i \in 1 .. start
    BY <1>3, <1>4, <1>5, <1>7, <2>1
  <2>2. CASE i \notin 1 .. start
    <3>1. i - start \in 1 .. end - start /\ start + (i - start) = i
      BY <1>1, <1>7, <2>2
    <3>2. QED
      BY <1>1, <1>3, <1>5, <1>7, <3>1, ZenonT(40)
  <2>3. QED
    BY <2>1, <2>2
<1>8. one = two
  BY <1>3, <1>5, <1>6, <1>7, SeqEqual
<1>9. QED
  BY <1>8 DEF one, two, front, page, end

\* The items of a listing are in their places once.
LEMMA OnePlace ==
    ASSUME NEW q, NEW tasks \in Seq(ListedTasks), Listed(q, tasks),
           NEW i \in 1 .. Len(tasks), NEW j \in 1 .. Len(tasks), tasks[i].id = tasks[j].id
    PROVE  i = j
<1>1. i \in Nat /\ j \in Nat
  OBVIOUS
<1>2. ~(i < j) /\ ~(j < i)
  BY DEF Listed
<1>3. QED
  BY <1>1, <1>2

\* What was shown and the page behind it.
LEMMA ShownGrows ==
    ASSUME NEW q \in Queries, q.size # NoLimit,
           NEW tasks \in Seq(ListedTasks), NEW start \in 0 .. Len(tasks),
           NEW shown \in Seq(ListedTasks)
    PROVE  LET end == PageEnd(q, tasks, start)
               more == shown \o Page(q, tasks, start)
           IN  /\ more \in Seq(ListedTasks)
               /\ Len(more) = Len(shown) + (end - start)
               /\ \A i \in 1 .. Len(shown) : more[i] = shown[i]
               /\ \A i \in 1 .. end - start : more[Len(shown) + i] = tasks[start + i]
               /\ end < Len(tasks) => Len(more) > 0 /\ more[Len(more)].id = tasks[end].id
<1> DEFINE end == PageEnd(q, tasks, start)
           page == Page(q, tasks, start)
           more == shown \o page
<1>0. Len(tasks) \in Nat /\ start \in Nat /\ Len(shown) \in Nat
  OBVIOUS
<1> HIDE DEF end, page
<1>1. /\ end \in start .. Len(tasks) /\ (end < Len(tasks) => end > start)
      /\ page \in Seq(ListedTasks) /\ Len(page) = end - start
      /\ \A i \in 1 .. end - start : page[i] = tasks[start + i]
  BY <1>0, PageIs DEF end, page
<1>2. /\ more \in Seq(ListedTasks) /\ Len(more) = Len(shown) + (end - start)
      /\ \A i \in 1 .. Len(shown) : more[i] = shown[i]
      /\ \A i \in 1 .. end - start : more[Len(shown) + i] = page[i]
  <2>0. more \in Seq(ListedTasks)
    BY <1>1, ConcatProperties
  <2>1. Len(more) = Len(shown) + (end - start)
    <3>1. page \in Seq(ListedTasks) /\ Len(page) = end - start
      BY <1>1
    <3>2. Len(more) = Len(shown) + Len(page)
      BY <3>1, ConcatProperties
    <3>3. QED
      BY <3>1, <3>2
  <2>2. \A i \in 1 .. Len(shown) : more[i] = shown[i]
    BY <1>0, <1>1
  <2>3. ASSUME NEW i \in 1 .. end - start PROVE more[Len(shown) + i] = page[i]
    <3>1. Len(shown) + i \in Len(shown) + 1 .. Len(shown) + Len(page)
      BY <1>0, <1>1
    <3>2. QED
      BY <1>0, <1>1, <3>1, ConcatProperties
  <2>4. QED
    BY <2>0, <2>1, <2>2, <2>3
<1> HIDE DEF more
<1>3. ASSUME end < Len(tasks) PROVE Len(more) > 0 /\ more[Len(more)].id = tasks[end].id
  <2>1. end - start \in 1 .. end - start /\ start + (end - start) = end
    BY <1>0, <1>1, <1>3
  <2>2. more[Len(shown) + (end - start)] = tasks[end]
    BY <1>1, <1>2, <2>1
  <2>3. QED
    BY <1>0, <1>1, <1>2, <2>1, <2>2
<1>4. QED
  BY <1>1, <1>2, <1>3 DEF more, page, end

LEMMA BeyondOnwards ==
    ASSUME NEW q, NEW a \in Nat, NEW b \in Nat, NEW d \in Nat, Beyond(q, a, b), Beyond(q, b, d)
    PROVE  Beyond(q, a, d)
BY DEF Beyond

\* A page of a listing by the ids goes on behind the last task shown and leaves
\* out none that is listed, even if the listing is not the one it was shown from.
LEMMA OrderGrows ==
    ASSUME NEW q \in Queries, q.field = "id", q.size # NoLimit,
           NEW tasks \in Seq(ListedTasks), Listed(q, tasks), NEW start \in 0 .. Len(tasks),
           NEW shown \in Seq(ListedTasks), IdOrdered(q, shown),
           start = 0 => shown = <<>>,
           start # 0 => Len(shown) > 0 /\ shown[Len(shown)].id = tasks[start].id,
           NEW ids \in SUBSET ListedIds(tasks),
           \A id \in ids :
               start # 0 => id \in ListedIds(shown) \/ Beyond(q, tasks[start].id, id)
    PROVE  LET end == PageEnd(q, tasks, start)
               more == shown \o Page(q, tasks, start)
           IN  /\ IdOrdered(q, more)
               /\ \A id \in ids :
                     \/ id \in ListedIds(more)
                     \/ end < Len(tasks) /\ Beyond(q, tasks[end].id, id)
<1> DEFINE end == PageEnd(q, tasks, start)
           more == shown \o Page(q, tasks, start)
           n == Len(tasks)
           k == Len(shown)
<1>0. n \in Nat /\ start \in 0 .. n /\ k \in Nat
  OBVIOUS
<1>1. end \in start .. n /\ (end < n => end > start)
  BY PageIs
<1>2. /\ more \in Seq(ListedTasks) /\ Len(more) = k + (end - start)
      /\ \A i \in 1 .. k : more[i] = shown[i]
      /\ \A i \in 1 .. end - start : more[k + i] = tasks[start + i]
  BY ShownGrows, ZenonT(40)
<1> HIDE DEF end, more
<1>3. \A i \in 1 .. n : tasks[i] \in ListedTasks /\ tasks[i].id \in Nat
  BY ListedTyped
<1>4. \A i \in 1 .. k : shown[i] \in ListedTasks /\ shown[i].id \in Nat
  BY ListedTyped
<1>5. \A i, j \in 1 .. n : i < j => Beyond(q, tasks[i].id, tasks[j].id)
  BY PrecedesIsBeyond DEF Listed
<1>6. \A i, j \in 1 .. k : i < j => Beyond(q, shown[i].id, shown[j].id)
  BY PrecedesIsBeyond DEF IdOrdered
<1>7. start = 0 => k = 0
  OBVIOUS
<1>8. start # 0 => k > 0 /\ shown[k].id = tasks[start].id
  OBVIOUS
<1> HIDE DEF n, k
\* Everything shown is before everything on the page.
<1>9. ASSUME NEW i \in 1 .. k, NEW j \in start + 1 .. n
      PROVE  Beyond(q, shown[i].id, tasks[j].id)
  <2>1. start # 0 /\ start \in 1 .. n /\ j \in 1 .. n /\ start < j /\ k \in 1 .. k
    BY <1>0, <1>7, <1>9
  <2>2. Beyond(q, tasks[start].id, tasks[j].id)
    BY <1>5, <2>1
  <2>3. CASE i = k
    BY <1>8, <2>1, <2>2, <2>3
  <2>4. CASE i # k
    <3>1. i < k
      BY <1>0, <2>4
    <3>2. Beyond(q, shown[i].id, tasks[start].id)
      BY <1>6, <1>8, <2>1, <3>1
    <3>3. shown[i].id \in Nat /\ tasks[start].id \in Nat /\ tasks[j].id \in Nat
      BY <1>3, <1>4, <2>1
    <3>4. QED
      BY <2>2, <3>2, <3>3, BeyondOnwards
  <2>5. QED
    BY <2>3, <2>4
<1>10. ASSUME NEW i \in 1 .. Len(more), NEW j \in 1 .. Len(more), i < j
       PROVE  Precedes(q, more[i], more[j])
  <2>1. CASE j \in 1 .. k
    <3>1. i \in 1 .. k /\ more[i] = shown[i] /\ more[j] = shown[j]
      BY <1>0, <1>2, <1>10, <2>1
    <3>2. QED
      BY <1>10, <2>1, <3>1 DEF IdOrdered, k
  <2>2. CASE j \notin 1 .. k
    <3>1. /\ j - k \in 1 .. end - start /\ k + (j - k) = j
          /\ start + (j - k) \in start + 1 .. n /\ start + (j - k) \in 1 .. n
      BY <1>0, <1>1, <1>2, <1>10, <2>2
    <3>2. more[j] = tasks[start + (j - k)]
      BY <1>2, <3>1
    <3>3. CASE i \in 1 .. k
      <4>1. Beyond(q, shown[i].id, tasks[start + (j - k)].id) /\ more[i] = shown[i]
        BY <1>2, <1>9, <3>1, <3>3
      <4>2. QED
        BY <3>2, <4>1, PrecedesIsBeyond
    <3>4. CASE i \notin 1 .. k
      <4>1. /\ i - k \in 1 .. end - start /\ k + (i - k) = i
            /\ start + (i - k) \in 1 .. n /\ start + (i - k) < start + (j - k)
        BY <1>0, <1>1, <1>2, <1>10, <3>1, <3>4
      <4>2. more[i] = tasks[start + (i - k)]
        BY <1>2, <4>1
      <4>3. Beyond(q, tasks[start + (i - k)].id, tasks[start + (j - k)].id)
        BY <1>5, <3>1, <4>1
      <4>4. QED
        BY <3>2, <4>2, <4>3, PrecedesIsBeyond
    <3>5. QED
      BY <3>3, <3>4
  <2>3. QED
    BY <2>1, <2>2
<1>11. ASSUME NEW id \in ids
       PROVE  id \in ListedIds(more) \/ (end < n /\ Beyond(q, tasks[end].id, id))
  <2>1. PICK j \in 1 .. n : tasks[j].id = id
    BY DEF ListedIds, n
  <2>2. CASE j \in start + 1 .. end
    <3>1. /\ j - start \in 1 .. end - start /\ start + (j - start) = j
          /\ k + (j - start) \in 1 .. Len(more)
      BY <1>0, <1>1, <1>2, <2>2
    <3>2. more[k + (j - start)].id = id
      BY <1>2, <2>1, <3>1
    <3>3. QED
      BY <3>1, <3>2 DEF ListedIds
  <2>3. CASE j > end
    <3>1. CASE end = 0
      BY <1>0, <1>1, <2>1, <2>3, <3>1, <1>11
    <3>2. CASE end # 0
      <4>1. end \in 1 .. n /\ end < j /\ end < n
        BY <1>0, <1>1, <2>1, <2>3, <3>2
      <4>2. QED
        BY <1>5, <2>1, <4>1
    <3>3. QED
      BY <3>1, <3>2
  <2>4. CASE j <= start
    <3>1. start # 0 /\ start \in 1 .. n
      BY <1>0, <2>1, <2>4
    <3>2. CASE id \in ListedIds(shown)
      <4>1. PICK i \in 1 .. k : shown[i].id = id
        BY <3>2 DEF ListedIds, k
      <4>2. i \in 1 .. Len(more) /\ more[i].id = id
        BY <1>0, <1>1, <1>2, <4>1
      <4>3. QED
        BY <4>2 DEF ListedIds
    <3>3. CASE Beyond(q, tasks[start].id, id)
      <4>1. tasks[start].id \in Nat /\ id \in Nat
        BY <1>3, <2>1, <3>1
      <4>2. j = start \/ Beyond(q, id, tasks[start].id)
        BY <1>0, <1>5, <2>1, <2>4, <3>1
      <4>3. QED
        BY <2>1, <3>3, <4>1, <4>2 DEF Beyond
    <3>4. QED
      BY <3>1, <3>2, <3>3
  <2>5. QED
    BY <1>0, <1>1, <2>1, <2>2, <2>3, <2>4
<1>12. QED
  BY <1>10, <1>11 DEF IdOrdered, end, more, n

-----------------------------------------------------------------------------
(* What holds of every client.                                             *)

\* A token goes on behind the last task shown, for the query it was made for.
TokenOK(a, q, t, g) ==
    /\ a = "paging" => t # NoToken
    /\ t # NoToken =>
          /\ a \in {"paging", "reading", "collected"}
          /\ t.binding = q
          /\ q.size # NoLimit
          /\ Len(g) > 0
          /\ g[Len(g)].id = t.after

\* What was shown of a listing by the ids is in their order, and what was listed
\* all the while has been shown or follows.
OrderOK(a, q, t, g, s) ==
    q.field = "id" /\ (t # NoToken \/ a = "done") =>
        /\ IdOrdered(q, g)
        /\ \A id \in s :
              \/ id \in ListedIds(g)
              \/ t # NoToken /\ Beyond(q, t.after, id)

KeptAs(entries, snapshot, l) ==
    \A i \in 1 .. Len(entries) : entries[i].id = snapshot => entries[i].tasks = l

\* What was shown of a listing that is kept is its beginning, and its snapshot
\* is the listing.
KeptOK(a, q, t, g, l, s, entries, last) ==
    /\ t # NoToken /\ t.snapshot = 0 => Bytes(q, l) > MaxBytes
    /\ t # NoToken /\ t.snapshot # 0 =>
          /\ a = "paging"
          /\ t.snapshot <= last
          /\ Listed(q, l)
          /\ Len(g) < Len(l)
          /\ g = SubSeq(l, 1, Len(g))
          /\ KeptAs(entries, t.snapshot, l)
    /\ a = "done" /\ (q.size = NoLimit \/ Bytes(q, l) <= MaxBytes) => g = l
    /\ s \subseteq ListedIds(l)

CollectedOK(a, q, t, o, g) ==
    /\ a = "collected" => Listed(q, o)
    /\ a \in {"reading", "collected"} /\ t = NoToken => g = <<>>

ClientTyped(a, q, t, o, g, l, s) ==
    /\ a \in Steps
    /\ q \in Queries
    /\ t \in Tokens \cup {NoToken}
    /\ o \in Seq(ListedTasks)
    /\ g \in Seq(ListedTasks)
    /\ l \in Seq(ListedTasks)
    /\ s \in SUBSET TaskIds

ClientOK(a, q, t, o, g, l, s, entries, last) ==
    /\ TokenOK(a, q, t, g)
    /\ OrderOK(a, q, t, g, s)
    /\ KeptOK(a, q, t, g, l, s, entries, last)
    /\ CollectedOK(a, q, t, o, g)

ClientInv(c) ==
    ClientOK(at[c], query[c], token[c], collected[c], got[c], listing[c], steady[c],
             store, sequence)

PagesInv ==
    /\ BoardInv
    /\ PagesTypeOK
    /\ StoreKept(store, sequence, sizes)
    /\ \A c \in Clients : ClientInv(c)

\* Entries that were there before are among those that were.
Remain(old, last, new) ==
    \A i \in 1 .. Len(new) :
        new[i].id <= last => \E j \in 1 .. Len(old) : old[j] = new[i]

\* Snapshots that come and go leave a client that does nothing as it is.
LEMMA OthersStay ==
    ASSUME NEW a, NEW q, NEW t \in Tokens \cup {NoToken}, NEW o, NEW g, NEW l, NEW s,
           NEW old, NEW last \in Nat, NEW new, NEW next \in Nat, last <= next,
           Remain(old, last, new), ClientOK(a, q, t, o, g, l, s, old, last)
    PROVE  ClientOK(a, q, t, o, g, l, s, new, next)
<1>1. KeptOK(a, q, t, g, l, s, new, next)
  <2>1. KeptOK(a, q, t, g, l, s, old, last)
    BY DEF ClientOK
  <2>2. ASSUME t # NoToken, t.snapshot # 0
        PROVE  t.snapshot <= next /\ KeptAs(new, t.snapshot, l)
    <3>1. t.snapshot \in Nat
      BY <2>2 DEF Tokens
    <3>2. t.snapshot <= last /\ KeptAs(old, t.snapshot, l)
      BY <2>1, <2>2 DEF KeptOK
    <3>3. ASSUME NEW i \in 1 .. Len(new), new[i].id = t.snapshot PROVE new[i].tasks = l
      <4>1. PICK j \in 1 .. Len(old) : old[j] = new[i]
        BY <3>2, <3>3 DEF Remain
      <4>2. QED
        BY <3>2, <3>3, <4>1 DEF KeptAs
    <3>4. QED
      BY <3>1, <3>2, <3>3 DEF KeptAs
  <2>3. QED
    BY <2>1, <2>2 DEF KeptOK
<1>2. QED
  BY <1>1 DEF ClientOK

ClientsTyped ==
    /\ at \in [Clients -> Steps]
    /\ query \in [Clients -> Queries]
    /\ token \in [Clients -> Tokens \cup {NoToken}]
    /\ collected \in [Clients -> Seq(ListedTasks)]
    /\ got \in [Clients -> Seq(ListedTasks)]
    /\ listing \in [Clients -> Seq(ListedTasks)]
    /\ steady \in [Clients -> SUBSET TaskIds]

ReadingTyped ==
    /\ scanned \in [Clients -> 0 .. Len(Scan) - 1]
    /\ taken \in [Clients -> Vaults]

LEMMA TypesApart ==
    PagesTypeOK <=>
        /\ TypeOK
        /\ ClientsTyped
        /\ ReadingTyped
        /\ store \in Seq(Entries(sequence)) /\ sequence \in Nat /\ expired \in 0 .. sequence
        /\ sizes \in Seq(Nat) /\ Len(sizes) = sequence
        /\ listings \in 0 .. MaxListings
        /\ changes \in 0 .. MaxChanges
BY DEF PagesTypeOK, ClientsTyped, ReadingTyped, Entries

LEMMA ReadingStays ==
    ASSUME PagesInv, UNCHANGED <<scanned, taken>> PROVE ReadingTyped'
BY TypesApart DEF PagesInv, ReadingTyped

\* A client's own state changes, and the snapshots do.
Becomes(c, a, q, t, o, g, l, s) ==
    /\ at' = [at EXCEPT ![c] = a]
    /\ query' = [query EXCEPT ![c] = q]
    /\ token' = [token EXCEPT ![c] = t]
    /\ collected' = [collected EXCEPT ![c] = o]
    /\ got' = [got EXCEPT ![c] = g]
    /\ listing' = [listing EXCEPT ![c] = l]
    /\ steady' = [steady EXCEPT ![c] = s]

LEMMA ClientStep ==
    ASSUME PagesInv, NEW c \in Clients,
           NEW a, NEW q, NEW t, NEW o, NEW g, NEW l, NEW s,
           ClientTyped(a, q, t, o, g, l, s), Becomes(c, a, q, t, o, g, l, s),
           NEW next \in Nat, sequence' = next, sequence <= next,
           NEW kept, store' = kept, Remain(store, sequence, kept),
           NEW bytes, sizes' = bytes, StoreKept(kept, next, bytes),
           ClientOK(a, q, t, o, g, l, s, kept, next), ReadingTyped',
           UNCHANGED <<board, expired, changes>>, listings' \in 0 .. MaxListings
    PROVE  PagesInv'
<1>1. /\ TypeOK /\ ClientsTyped /\ sequence \in Nat /\ expired \in 0 .. sequence
      /\ changes \in 0 .. MaxChanges
  BY TypesApart DEF PagesInv
<1>2. TypeOK' /\ BoardInv'
  <2>1. board' = board
    OBVIOUS
  <2>2. TypeOK /\ BoardInv
    BY <1>1 DEF PagesInv
  <2>3. TypeOK'
    BY <2>1, <2>2 DEF TypeOK
  <2>4. BoardInv'
    BY <2>1, <2>2, <2>3 DEF BoardInv, DependenciesAcyclic, BlockersExist, CompletionMatchesStatus, BoardConsistent
  <2>5. QED
    BY <2>3, <2>4
<1>3. ClientsTyped'
  BY <1>1 DEF ClientsTyped, ClientTyped, Becomes
<1>4. StoreKept(store, sequence, sizes)'
  BY DEF StoreKept, NumberedTo, GivenWay, TotalBytes
<1>5. /\ (store \in Seq(Entries(sequence)) /\ sequence \in Nat)'
      /\ (sizes \in Seq(Nat) /\ Len(sizes) = sequence)'
  BY <1>4 DEF StoreKept, NumberedTo
<1>6. (expired \in 0 .. sequence)'
  BY <1>1
<1>7. PagesTypeOK'
  <2>1. (changes \in 0 .. MaxChanges)' /\ (listings \in 0 .. MaxListings)'
    BY <1>1
  <2>2. QED
    BY <1>2, <1>3, <1>5, <1>6, <2>1 DEF PagesTypeOK, ClientsTyped, ReadingTyped, Entries
<1>8. ASSUME NEW d \in Clients PROVE ClientInv(d)'
  <2>1. CASE d = c
    <3>1. /\ at'[d] = a /\ query'[d] = q /\ token'[d] = t /\ collected'[d] = o
          /\ got'[d] = g /\ listing'[d] = l /\ steady'[d] = s
      BY <1>1, <2>1 DEF ClientsTyped, Becomes
    <3>2. QED
      BY <3>1 DEF ClientInv
  <2>2. CASE d # c
    <3>1. /\ at'[d] = at[d] /\ query'[d] = query[d] /\ token'[d] = token[d]
          /\ collected'[d] = collected[d]
          /\ got'[d] = got[d] /\ listing'[d] = listing[d] /\ steady'[d] = steady[d]
      BY <1>1, <2>2 DEF ClientsTyped, Becomes
    <3>2. token[d] \in Tokens \cup {NoToken}
      BY <1>1 DEF ClientsTyped
    <3>3. ClientOK(at[d], query[d], token[d], collected[d], got[d], listing[d], steady[d],
                   store, sequence)
      BY DEF PagesInv, ClientInv
    <3>4. ClientOK(at[d], query[d], token[d], collected[d], got[d], listing[d], steady[d],
                   kept, next)
      BY <1>1, <3>2, <3>3, OthersStay
    <3>5. QED
      BY <3>1, <3>4 DEF ClientInv
  <2>3. QED
    BY <2>1, <2>2
<1>9. QED
  BY <1>2, <1>4, <1>7, <1>8 DEF PagesInv

-----------------------------------------------------------------------------
(* The steps.                                                              *)

\* What the invariant says of one client.
LEMMA OfClient ==
    ASSUME PagesInv, NEW c \in Clients
    PROVE  /\ at[c] \in Steps
           /\ query[c] \in Queries
           /\ token[c] \in Tokens \cup {NoToken}
           /\ collected[c] \in Seq(ListedTasks)
           /\ got[c] \in Seq(ListedTasks)
           /\ listing[c] \in Seq(ListedTasks)
           /\ steady[c] \in SUBSET TaskIds
           /\ ClientInv(c)
BY TypesApart DEF PagesInv, ClientsTyped

LEMMA OfServer ==
    ASSUME PagesInv
    PROVE  /\ board \in Vaults
           /\ sequence \in Nat
           /\ expired \in Nat
           /\ expired <= sequence
           /\ listings \in 0 .. MaxListings
           /\ changes \in 0 .. MaxChanges
           /\ StoreKept(store, sequence, sizes)
           /\ store \in Seq(Entries(sequence))
           /\ Remain(store, sequence, store)
<1>1. /\ TypeOK /\ sequence \in Nat /\ expired \in 0 .. sequence
      /\ store \in Seq(Entries(sequence))
      /\ listings \in 0 .. MaxListings /\ changes \in 0 .. MaxChanges
  BY TypesApart DEF PagesInv
<1>2. QED
  BY <1>1 DEF PagesInv, TypeOK, Remain

\* What of a client does not change.
LEMMA StaysItself ==
    ASSUME PagesInv, NEW c \in Clients
    PROVE  /\ at = [at EXCEPT ![c] = at[c]]
           /\ query = [query EXCEPT ![c] = query[c]]
           /\ token = [token EXCEPT ![c] = token[c]]
           /\ collected = [collected EXCEPT ![c] = collected[c]]
           /\ got = [got EXCEPT ![c] = got[c]]
           /\ listing = [listing EXCEPT ![c] = listing[c]]
           /\ steady = [steady EXCEPT ![c] = steady[c]]
<1>1. ClientsTyped
  BY TypesApart DEF PagesInv
<1>2. QED
  BY <1>1 DEF ClientsTyped

LEMMA NoneShown == \A q : /\ IdOrdered(q, <<>>) /\ Listed(q, <<>>) /\ ListedIds(<<>>) = {}
                          /\ <<>> \in Seq(ListedTasks)
BY DEF IdOrdered, Listed, ListedIds

LEMMA BeginKeeps ==
    ASSUME PagesInv, NEW c \in Clients, NEW q \in Queries, Begin(c, q)
    PROVE  PagesInv'
<1>1. ClientTyped("reading", q, NoToken, collected[c], <<>>, <<>>, {})
  BY OfClient DEF ClientTyped, Steps
<1>2. Becomes(c, "reading", q, NoToken, collected[c], <<>>, <<>>, {})
  BY StaysItself DEF Begin, Becomes
<1>3. ClientOK("reading", q, NoToken, collected[c], <<>>, <<>>, {}, store, sequence)
  BY DEF ClientOK, TokenOK, OrderOK, KeptOK, CollectedOK
<1>4. /\ UNCHANGED <<board, store, sequence, expired, sizes, changes>>
      /\ UNCHANGED <<scanned, taken>>
      /\ listings < MaxListings /\ listings' = listings + 1
  BY DEF Begin, snapshots
<1>5. listings' \in 0 .. MaxListings
  BY <1>4, OfServer, LimitsAssumption
<1>6. sequence <= sequence /\ ReadingTyped'
  BY <1>4, OfServer, ReadingStays
<1>7. QED
  BY <1>1, <1>2, <1>3, <1>4, <1>5, <1>6, OfServer, ClientStep

\* What is read of the projects is a board, of as many moments as were read.
LEMMA ReadProjectKeeps ==
    ASSUME PagesInv, NEW c \in Clients, ReadProject(c)
    PROVE  PagesInv'
<1>1. /\ at[c] = "reading"
      /\ UNCHANGED <<board, query, token, got, listing, steady, listings, changes>>
      /\ UNCHANGED <<store, sequence, expired, sizes>>
  BY DEF ReadProject, snapshots
<1>2. ReadingTyped /\ board \in Vaults
  BY TypesApart, OfServer DEF PagesInv
<1> DEFINE vault == WithNext(c)
<1>3. vault \in Vaults
  <2>1. taken[c] \in Vaults
    BY <1>2 DEF ReadingTyped
  <2>2. QED
    BY <1>2, <2>1 DEF WithNext, Vaults
<1> HIDE DEF vault
<1>4. /\ TokenOK(at[c], query[c], token[c], got[c])
      /\ OrderOK(at[c], query[c], token[c], got[c], steady[c])
      /\ KeptOK(at[c], query[c], token[c], got[c], listing[c], steady[c], store, sequence)
      /\ CollectedOK(at[c], query[c], token[c], collected[c], got[c])
  BY OfClient DEF ClientInv, ClientOK
<1>5. /\ sequence <= sequence /\ sequence \in Nat /\ listings \in 0 .. MaxListings
      /\ StoreKept(store, sequence, sizes) /\ Remain(store, sequence, store)
      /\ store' = store /\ sizes' = sizes /\ sequence' = sequence
  BY <1>1, OfServer
<1>6. Len(Scan) \in Nat \ {0}
  BY ScanAssumption, EmptySeq
<1>7. ASSUME scanned[c] + 1 < Len(Scan), scanned' = [scanned EXCEPT ![c] = @ + 1],
             taken' = [taken EXCEPT ![c] = vault], UNCHANGED <<at, collected>>
      PROVE  PagesInv'
  <2>1. ReadingTyped'
    <3>1. scanned[c] + 1 \in 0 .. Len(Scan) - 1
      BY <1>2, <1>6, <1>7 DEF ReadingTyped
    <3>2. QED
      BY <1>2, <1>3, <1>7, <3>1 DEF ReadingTyped
  <2>2. ClientTyped("reading", query[c], token[c], collected[c], got[c], listing[c], steady[c])
    BY OfClient DEF ClientTyped, Steps
  <2>3. Becomes(c, "reading", query[c], token[c], collected[c], got[c], listing[c], steady[c])
    BY <1>1, <1>7, StaysItself DEF Becomes
  <2>4. ClientOK("reading", query[c], token[c], collected[c], got[c], listing[c], steady[c],
                 store, sequence)
    BY <1>1, OfClient DEF ClientInv
  <2>5. QED
    BY <1>1, <1>5, <2>1, <2>2, <2>3, <2>4, ClientStep
<1>8. ASSUME scanned' = [scanned EXCEPT ![c] = 0], taken' = [taken EXCEPT ![c] = NothingFound],
             collected' = [collected EXCEPT ![c] = Materialized(query[c], vault)],
             at' = [at EXCEPT ![c] = "collected"]
      PROVE  PagesInv'
  <2> DEFINE o == Materialized(query[c], vault)
  <2>1. o \in Seq(ListedTasks) /\ Listed(query[c], o)
    BY <1>3, OfClient, MaterializedListed
  <2>2. collected' = [collected EXCEPT ![c] = o]
    BY <1>8
  <2> HIDE DEF o
  <2>3. ReadingTyped'
    <3>1. NothingFound \in Vaults /\ 0 \in 0 .. Len(Scan) - 1
      BY <1>6 DEF NothingFound, Vaults
    <3>2. QED
      BY <1>2, <1>8, <3>1 DEF ReadingTyped
  <2>4. ClientTyped("collected", query[c], token[c], o, got[c], listing[c], steady[c])
    BY <2>1, OfClient DEF ClientTyped, Steps
  <2>5. Becomes(c, "collected", query[c], token[c], o, got[c], listing[c], steady[c])
    BY <1>1, <1>8, <2>2, StaysItself DEF Becomes
  <2>6. ClientOK("collected", query[c], token[c], o, got[c], listing[c], steady[c],
                 store, sequence)
    BY <1>1, <1>4, <2>1 DEF ClientOK, TokenOK, OrderOK, KeptOK, CollectedOK
  <2>7. QED
    BY <1>1, <1>5, <2>3, <2>4, <2>5, <2>6, ClientStep
<1>9. QED
  BY <1>7, <1>8 DEF ReadProject, vault

\* An invalid token: nothing is shown any more.
LEMMA RefuseKeeps ==
    ASSUME PagesInv, NEW c \in Clients, NEW q \in Queries, NEW kept, NEW o, NEW s,
           RefuseToken(c), query' = [query EXCEPT ![c] = q],
           o \in Seq(ListedTasks), collected' = [collected EXCEPT ![c] = o],
           s \in SUBSET steady[c], steady' = [steady EXCEPT ![c] = s],
           store' = kept, StoreKept(kept, sequence, sizes), Remain(store, sequence, kept),
           UNCHANGED <<board, scanned, taken, listing, sequence, expired, sizes, listings, changes>>
    PROVE  PagesInv'
<1>1. ClientTyped("refused", q, NoToken, o, <<>>, listing[c], s)
  BY OfClient DEF ClientTyped, Steps
<1>2. Becomes(c, "refused", q, NoToken, o, <<>>, listing[c], s)
  BY StaysItself DEF RefuseToken, Becomes
<1>3. ClientOK("refused", q, NoToken, o, <<>>, listing[c], s, kept, sequence)
  <2>1. steady[c] \subseteq ListedIds(listing[c])
    BY OfClient DEF ClientInv, ClientOK, KeptOK
  <2>2. QED
    BY <2>1 DEF ClientOK, TokenOK, OrderOK, KeptOK, CollectedOK
<1>4. /\ sequence <= sequence /\ sequence \in Nat /\ listings \in 0 .. MaxListings
      /\ ReadingTyped'
  BY OfServer, ReadingStays
<1>5. QED
  BY <1>1, <1>2, <1>3, <1>4, ClientStep

LEMMA CollectAgainKeeps ==
    ASSUME PagesInv, NEW c \in Clients, NEW q \in Queries, at[c] = "paging",
           token[c].binding = q, token[c].snapshot = 0, query' = [query EXCEPT ![c] = q],
           CollectAgain(c),
           UNCHANGED <<board, scanned, taken, listing, steady, sequence, expired, sizes,
                       listings, changes>>
    PROVE  PagesInv'
<1> DEFINE o == collected[c]
<1>1. /\ TokenOK(at[c], query[c], token[c], got[c])
      /\ OrderOK(at[c], query[c], token[c], got[c], steady[c])
      /\ KeptOK(at[c], query[c], token[c], got[c], listing[c], steady[c], store, sequence)
  BY OfClient DEF ClientInv, ClientOK
<1>2. token[c] # NoToken /\ query[c] = q
  BY <1>1 DEF TokenOK
<1>3. ClientTyped("reading", q, token[c], o, got[c], listing[c], steady[c])
  BY OfClient DEF ClientTyped, Steps
<1>4. Becomes(c, "reading", q, token[c], o, got[c], listing[c], steady[c])
  BY StaysItself DEF CollectAgain, Becomes
<1>5. ClientOK("reading", q, token[c], o, got[c], listing[c], steady[c], store, sequence)
  BY <1>1, <1>2 DEF ClientOK, TokenOK, OrderOK, KeptOK, CollectedOK
<1>6. /\ sequence <= sequence /\ sequence \in Nat /\ listings \in 0 .. MaxListings
      /\ StoreKept(store, sequence, sizes) /\ Remain(store, sequence, store)
      /\ ReadingTyped'
  BY OfServer, ReadingStays
<1>7. store' = store
  BY DEF CollectAgain
<1>8. QED
  BY <1>3, <1>4, <1>5, <1>6, <1>7, ClientStep

After(t) == IF t = NoToken THEN "done" ELSE "paging"

\* The beginning of a sequence.
LEMMA FrontOf ==
    ASSUME NEW tasks \in Seq(ListedTasks), NEW k \in 0 .. Len(tasks)
    PROVE  /\ SubSeq(tasks, 1, k) \in Seq(ListedTasks)
           /\ Len(SubSeq(tasks, 1, k)) = k
           /\ \A i \in 1 .. k : SubSeq(tasks, 1, k)[i] = tasks[i]
           /\ \A i \in 1 .. k : i \in 1 .. Len(tasks)
           /\ k = Len(tasks) => SubSeq(tasks, 1, k) = tasks
<1> DEFINE front == SubSeq(tasks, 1, k)
<1>1. Len(tasks) \in Nat /\ k \in Nat /\ \A i \in 1 .. k : i \in 1 .. Len(tasks)
  OBVIOUS
<1>2. \A i \in 1 .. k : tasks[i] \in ListedTasks
  BY <1>1
<1>3. front \in Seq(ListedTasks)
  BY <1>1, <1>2, SubSeqProperties
<1>4. Len(front) = k /\ \A i \in 1 .. k : front[i] = tasks[i]
  BY <1>1
<1> HIDE DEF front
<1>5. k = Len(tasks) => front = tasks
  BY <1>3, <1>4, SeqEqual
<1>6. QED
  BY <1>1, <1>3, <1>4, <1>5 DEF front

\* A page of a listing that is kept.
LEMMA KeptPageOK ==
    ASSUME NEW q \in Queries, q.size # NoLimit,
           NEW l \in Seq(ListedTasks), Listed(q, l), NEW start \in 0 .. Len(l),
           NEW s \in SUBSET ListedIds(l), NEW snapshot \in Nat, snapshot # 0,
           NEW entries, NEW last \in Nat, snapshot <= last, KeptAs(entries, snapshot, l), NEW o
    PROVE  LET g == SubSeq(l, 1, PageEnd(q, l, start))
               t == NextToken(q, l, start, snapshot)
           IN  /\ g \in Seq(ListedTasks)
               /\ ClientOK(After(t), q, t, o, g, l, s, entries, last)
<1> DEFINE end == PageEnd(q, l, start)
           g == SubSeq(l, 1, end)
           t == NextToken(q, l, start, snapshot)
<1>0. Len(l) \in Nat /\ start \in Nat
  OBVIOUS
<1>1. end \in start .. Len(l) /\ (end < Len(l) => end > start)
  BY PageIs
<1>2. /\ t # NoToken <=> end < Len(l)
      /\ t # NoToken => t.binding = q /\ t.after = l[end].id /\ t.snapshot = snapshot
  BY NextTokenIs
<1> HIDE DEF end, t
<1>3. /\ g \in Seq(ListedTasks) /\ Len(g) = end
      /\ \A i \in 1 .. end : g[i] = l[i] /\ i \in 1 .. Len(l)
      /\ end = Len(l) => g = l
  <2>1. end \in 0 .. Len(l)
    BY <1>0, <1>1
  <2>2. QED
    BY <2>1, FrontOf
<1>4. g = SubSeq(l, 1, Len(g))
  BY <1>3
<1> HIDE DEF g
<1>5. TokenOK(After(t), q, t, g)
  <2>1. CASE t = NoToken
    BY <2>1 DEF TokenOK, After
  <2>2. CASE t # NoToken
    <3>1. end \in 1 .. end
      BY <1>0, <1>1, <1>2, <2>2
    <3>2. g[Len(g)].id = t.after /\ Len(g) > 0
      BY <1>2, <1>3, <2>2, <3>1
    <3>3. QED
      BY <1>2, <2>2, <3>2 DEF TokenOK, After
  <2>3. QED
    BY <2>1, <2>2
<1>6. OrderOK(After(t), q, t, g, s)
  <2> SUFFICES ASSUME q.field = "id"
               PROVE  /\ IdOrdered(q, g)
                      /\ \A id \in s : \/ id \in ListedIds(g)
                                       \/ t # NoToken /\ Beyond(q, t.after, id)
    BY DEF OrderOK
  <2>1. IdOrdered(q, g)
    BY <1>3 DEF IdOrdered, Listed
  <2>2. ASSUME NEW id \in s, id \notin ListedIds(g)
        PROVE  t # NoToken /\ Beyond(q, t.after, id)
    <3>1. PICK j \in 1 .. Len(l) : l[j].id = id
      BY DEF ListedIds
    <3>2. j \notin 1 .. end
      BY <1>3, <2>2, <3>1 DEF ListedIds
    <3>3. end < Len(l) /\ end \in 1 .. Len(l) /\ end < j
      BY <1>0, <1>1, <3>1, <3>2
    <3>4. Beyond(q, l[end].id, l[j].id)
      BY <3>1, <3>3, PrecedesIsBeyond DEF Listed
    <3>5. QED
      BY <1>2, <3>1, <3>3, <3>4
  <2>3. QED
    BY <2>1, <2>2
<1>7. KeptOK(After(t), q, t, g, l, s, entries, last)
  <2>1. CASE t = NoToken
    <3>1. end = Len(l)
      BY <1>0, <1>1, <1>2, <2>1
    <3>2. QED
      BY <1>3, <2>1, <3>1 DEF KeptOK, After
  <2>2. CASE t # NoToken
    <3>1. t.snapshot = snapshot /\ Len(g) < Len(l)
      BY <1>2, <1>3, <2>2
    <3>2. QED
      BY <1>4, <2>2, <3>1 DEF KeptOK, After
  <2>3. QED
    BY <2>1, <2>2
<1>8. CollectedOK(After(t), q, t, o, g)
  BY DEF CollectedOK, After
<1>9. QED
  BY <1>3, <1>5, <1>6, <1>7, <1>8 DEF ClientOK, g, t, end

\* A page of a listing that is collected for every page.
LEMMA CollectedPageOK ==
    ASSUME NEW q \in Queries, q.size # NoLimit,
           NEW tasks \in Seq(ListedTasks), Listed(q, tasks), NEW start \in 0 .. Len(tasks),
           NEW shown \in Seq(ListedTasks), q.field = "id" => IdOrdered(q, shown),
           start = 0 => shown = <<>>,
           start # 0 => Len(shown) > 0 /\ shown[Len(shown)].id = tasks[start].id,
           NEW l, Bytes(q, l) > MaxBytes, l \in Seq(ListedTasks),
           NEW s \in SUBSET ListedIds(tasks), s \in SUBSET ListedIds(l),
           q.field = "id" => \A id \in s :
               start # 0 => id \in ListedIds(shown) \/ Beyond(q, tasks[start].id, id),
           NEW entries, NEW last, NEW o
    PROVE  LET g == shown \o Page(q, tasks, start)
               t == NextToken(q, tasks, start, 0)
           IN  /\ g \in Seq(ListedTasks)
               /\ ClientOK(After(t), q, t, o, g, l, s, entries, last)
<1> DEFINE end == PageEnd(q, tasks, start)
           g == shown \o Page(q, tasks, start)
           t == NextToken(q, tasks, start, 0)
<1>1. /\ t # NoToken <=> end < Len(tasks)
      /\ t # NoToken => t.binding = q /\ t.after = tasks[end].id /\ t.snapshot = 0
  BY NextTokenIs
<1>2. /\ g \in Seq(ListedTasks)
      /\ end < Len(tasks) => Len(g) > 0 /\ g[Len(g)].id = tasks[end].id
  BY ShownGrows, ZenonT(40)
<1>3. q.field = "id" =>
         /\ IdOrdered(q, g)
         /\ \A id \in s : \/ id \in ListedIds(g)
                          \/ end < Len(tasks) /\ Beyond(q, tasks[end].id, id)
  BY OrderGrows
<1> HIDE DEF end, g, t
<1>4. TokenOK(After(t), q, t, g)
  BY <1>1, <1>2 DEF TokenOK, After
<1>5. OrderOK(After(t), q, t, g, s)
  BY <1>1, <1>3 DEF OrderOK
<1>6. KeptOK(After(t), q, t, g, l, s, entries, last)
  <2>1. Bytes(q, l) \in Nat /\ ~(Bytes(q, l) <= MaxBytes)
    BY BytesTyped, LimitsAssumption
  <2>2. QED
    BY <1>1, <2>1 DEF KeptOK
<1>7. CollectedOK(After(t), q, t, o, g)
  BY DEF CollectedOK, After
<1>8. QED
  BY <1>2, <1>4, <1>5, <1>6, <1>7 DEF ClientOK, g, t

LEMMA PruneStore ==
    ASSUME PagesInv
    PROVE  StoreKept(Prune(store), sequence, sizes) /\ Remain(store, sequence, Prune(store))
<1>1. StoreKept(store, sequence, sizes) /\ expired \in Nat
  BY OfServer
<1>2. StoreKept(Prune(store), sequence, sizes)
  BY <1>1, PruneKeeps
<1>3. PICK gone \in 0 .. Len(store) :
         \A i \in 1 .. Len(Prune(store)) :
            gone + i \in 1 .. Len(store) /\ Prune(store)[i] = store[gone + i]
  BY <1>1, PruneKeeps
<1>4. QED
  BY <1>2, <1>3 DEF Remain

LEMMA SnapshotPageKeeps ==
    ASSUME PagesInv, NEW c \in Clients, NEW q \in Queries, at[c] = "paging",
           token[c].binding = q, token[c].snapshot # 0, query' = [query EXCEPT ![c] = q],
           SnapshotPage(c, q),
           UNCHANGED <<board, scanned, taken, listing, steady, sequence, expired, sizes,
                       listings, changes>>
    PROVE  PagesInv'
<1> DEFINE kept == Prune(store)
           snapshot == token[c].snapshot
           l == listing[c]
           k == Len(got[c])
<1>1. StoreKept(kept, sequence, sizes) /\ Remain(store, sequence, kept) /\ store' = kept
  BY PruneStore DEF SnapshotPage
<1> HIDE DEF kept
<1>2. collected' = [collected EXCEPT ![c] = collected[c]]
  BY StaysItself DEF SnapshotPage
<1>3. steady' = [steady EXCEPT ![c] = steady[c]]
  BY StaysItself
<1>4. CASE RefuseToken(c)
  <2>1. collected[c] \in Seq(ListedTasks) /\ steady[c] \in SUBSET steady[c]
    BY OfClient
  <2>2. QED
    BY <1>1, <1>2, <1>3, <1>4, <2>1, RefuseKeeps
<1>5. ASSUME NEW i \in Named(kept, snapshot),
             NEW start \in Positions(kept[i].tasks, token[c].after),
             Answer(c, Page(q, kept[i].tasks, start), NextToken(q, kept[i].tasks, start, snapshot))
      PROVE  PagesInv'
  <2>1. /\ TokenOK(at[c], query[c], token[c], got[c])
        /\ KeptOK(at[c], query[c], token[c], got[c], l, steady[c], store, sequence)
    BY OfClient DEF ClientInv, ClientOK
  <2>2. token[c] # NoToken /\ token[c] \in Tokens
    BY <2>1, OfClient DEF TokenOK
  <2>3. /\ query[c] = q /\ q.size # NoLimit /\ k > 0 /\ got[c][k].id = token[c].after
    BY <2>1, <2>2 DEF TokenOK
  <2>4. /\ snapshot <= sequence /\ Listed(q, l) /\ k < Len(l) /\ got[c] = SubSeq(l, 1, k)
        /\ KeptAs(store, snapshot, l)
    BY <2>1, <2>2, <2>3 DEF KeptOK
  <2>5. /\ snapshot \in Nat /\ l \in Seq(ListedTasks) /\ k \in Nat /\ got[c] \in Seq(ListedTasks)
        /\ steady[c] \in SUBSET ListedIds(l)
    <3>1. snapshot \in Nat
      BY <2>2 DEF Tokens
    <3>2. l \in Seq(ListedTasks) /\ got[c] \in Seq(ListedTasks)
      BY OfClient
    <3>3. QED
      BY <2>1, <3>1, <3>2 DEF KeptOK
  <2> HIDE DEF snapshot, l, k
  <2>6. KeptAs(kept, snapshot, l)
    <3>1. ASSUME NEW m \in 1 .. Len(kept), kept[m].id = snapshot PROVE kept[m].tasks = l
      <4>1. PICK j \in 1 .. Len(store) : store[j] = kept[m]
        BY <1>1, <2>4, <3>1 DEF Remain
      <4>2. QED
        BY <2>4, <3>1, <4>1 DEF KeptAs
    <3>2. QED
      BY <3>1 DEF KeptAs
  <2>7. kept[i].tasks = l
    BY <2>6 DEF Named, KeptAs
  <2>8. start = k
    <3>1. start \in 1 .. Len(l) /\ l[start].id = token[c].after
      BY <1>5, <2>7 DEF Positions
    <3>2. k \in 1 .. Len(l) /\ k \in 0 .. Len(l) /\ k \in 1 .. k
      BY <2>3, <2>4, <2>5
    <3>3. got[c][k] = l[k]
      BY <2>4, <2>5, <3>2, FrontOf
    <3>4. QED
      BY <2>3, <2>4, <2>5, <3>1, <3>2, <3>3, OnePlace
  <2> DEFINE t == NextToken(q, l, k, snapshot)
             g == SubSeq(l, 1, PageEnd(q, l, k))
  <2>9. k \in 0 .. Len(l)
    BY <2>4, <2>5
  <2>10. got[c] \o Page(q, l, k) = g
    BY <2>3, <2>4, <2>5, <2>9, PrefixGrows
  <2>11. t \in Tokens \cup {NoToken}
    BY <2>3, <2>5, <2>9, NextTokenIs
  <2>12. g \in Seq(ListedTasks)
         /\ ClientOK(After(t), q, t, collected[c], g, l, steady[c], kept, sequence)
    <3>1. snapshot # 0 /\ sequence \in Nat
      BY OfServer DEF snapshot
    <3>2. QED
      BY <2>3, <2>4, <2>5, <2>6, <2>9, <3>1, KeptPageOK
  <2> HIDE DEF t, g
  <2>13. ClientTyped(After(t), q, t, collected[c], g, l, steady[c])
    BY <2>5, <2>11, <2>12, OfClient DEF ClientTyped, After, Steps
  <2>14. Becomes(c, After(t), q, t, collected[c], g, l, steady[c])
    <3>1. Answer(c, Page(q, l, k), t)
      BY <1>5, <2>7, <2>8 DEF t
    <3>2. got' = [got EXCEPT ![c] = g]
      BY <2>10, <3>1 DEF Answer
    <3>3. listing' = [listing EXCEPT ![c] = l]
      BY StaysItself DEF l
    <3>4. QED
      BY <1>2, <1>3, <3>1, <3>2, <3>3 DEF Answer, After, Becomes
  <2>15. /\ sequence <= sequence /\ sequence \in Nat /\ listings \in 0 .. MaxListings
         /\ ReadingTyped'
    BY OfServer, ReadingStays
  <2>16. QED
    BY <1>1, <2>12, <2>13, <2>14, <2>15, ClientStep
<1>6. QED
  BY <1>1, <1>4, <1>5 DEF SnapshotPage

LEMMA ContinueKeeps ==
    ASSUME PagesInv, NEW c \in Clients, NEW q \in Queries, Continue(c, q)
    PROVE  PagesInv'
<1>1. /\ at[c] = "paging" /\ query' = [query EXCEPT ![c] = q]
      /\ UNCHANGED <<board, scanned, taken, listing, steady, sequence, expired, sizes,
                     listings, changes>>
  BY DEF Continue
<1>2. CASE RefuseToken(c) /\ UNCHANGED <<collected, store>>
  <2>1. /\ collected' = [collected EXCEPT ![c] = collected[c]]
        /\ steady' = [steady EXCEPT ![c] = steady[c]]
    BY <1>1, <1>2, StaysItself
  <2>2. collected[c] \in Seq(ListedTasks) /\ steady[c] \in SUBSET steady[c]
    BY OfClient
  <2>3. /\ StoreKept(store, sequence, sizes) /\ Remain(store, sequence, store)
        /\ store' = store
    BY <1>2, OfServer
  <2>4. QED
    BY <1>1, <1>2, <2>1, <2>2, <2>3, RefuseKeeps
<1>3. CASE token[c].binding = q /\ token[c].snapshot = 0 /\ CollectAgain(c)
  BY <1>1, <1>3, CollectAgainKeeps
<1>4. CASE token[c].binding = q /\ token[c].snapshot # 0 /\ SnapshotPage(c, q)
  BY <1>1, <1>4, SnapshotPageKeeps
<1>5. QED
  BY <1>2, <1>3, <1>4 DEF Continue

\* How a first page is answered, with its listing remembered.
LEMMA AnswerBecomes ==
    ASSUME PagesInv, NEW c \in Clients, NEW items, NEW t, NEW l, NEW s,
           Answer(c, items, t), UNCHANGED query,
           collected' = [collected EXCEPT ![c] = <<>>],
           listing' = [listing EXCEPT ![c] = l], steady' = [steady EXCEPT ![c] = s]
    PROVE  Becomes(c, After(t), query[c], t, <<>>, got[c] \o items, l, s)
<1>1. got' = [got EXCEPT ![c] = got[c] \o items]
  BY DEF Answer
<1>2. at' = [at EXCEPT ![c] = After(t)] /\ token' = [token EXCEPT ![c] = t]
  BY DEF Answer, After
<1>3. query' = [query EXCEPT ![c] = query[c]]
  BY StaysItself
<1>4. QED
  BY <1>1, <1>2, <1>3 DEF Becomes

LEMMA ListedIdsTyped ==
    ASSUME NEW tasks \in Seq(ListedTasks) PROVE ListedIds(tasks) \in SUBSET TaskIds
<1>1. \A i \in 1 .. Len(tasks) : tasks[i] \in ListedTasks
  OBVIOUS
<1>2. QED
  BY <1>1, ListedTyped DEF ListedIds

LEMMA FirstPageKeeps ==
    ASSUME PagesInv, NEW c \in Clients, FirstPage(c)
    PROVE  PagesInv'
<1> DEFINE q == query[c]
           tasks == collected[c]
           ids == ListedIds(tasks)
           bytes == Bytes(q, tasks)
           paged == q.size # NoLimit /\ Len(tasks) > q.size
<1>1. /\ at[c] = "collected" /\ token[c] = NoToken
      /\ listing' = [listing EXCEPT ![c] = tasks] /\ steady' = [steady EXCEPT ![c] = ids]
      /\ collected' = [collected EXCEPT ![c] = <<>>]
      /\ UNCHANGED <<board, query, scanned, taken, listings, changes>>
  BY DEF FirstPage
<1>2. /\ q \in Queries /\ tasks \in Seq(ListedTasks) /\ got[c] \in Seq(ListedTasks)
      /\ ids \in SUBSET TaskIds
  BY OfClient, ListedIdsTyped
<1>3. Listed(q, tasks) /\ got[c] = <<>>
  BY <1>1, OfClient DEF ClientInv, ClientOK, CollectedOK
<1>4. /\ sequence \in Nat /\ sequence <= sequence /\ sequence <= sequence + 1
      /\ listings \in 0 .. MaxListings
      /\ StoreKept(store, sequence, sizes) /\ Remain(store, sequence, store)
      /\ ReadingTyped'
  BY <1>1, OfServer, ReadingStays
<1>5. bytes \in Nat /\ MaxBytes \in Nat
  BY <1>2, BytesTyped, LimitsAssumption
<1>6. <<>> \o tasks = tasks
  BY <1>2
<1>7. CASE ~paged /\ Answer(c, tasks, NoToken) /\ UNCHANGED snapshots
  <2>1. Becomes(c, "done", q, NoToken, <<>>, tasks, tasks, ids)
    <3>1. Becomes(c, After(NoToken), q, NoToken, <<>>, got[c] \o tasks, tasks, ids)
      BY <1>1, <1>7, AnswerBecomes
    <3>2. QED
      BY <1>3, <1>6, <3>1 DEF After
  <2>2. ClientTyped("done", q, NoToken, <<>>, tasks, tasks, ids)
    BY <1>2 DEF ClientTyped, Steps
  <2>3. ClientOK("done", q, NoToken, <<>>, tasks, tasks, ids, store, sequence)
    <3>1. q.field = "id" => IdOrdered(q, tasks)
      BY <1>3 DEF Listed, IdOrdered
    <3>2. QED
      BY <3>1 DEF ClientOK, TokenOK, OrderOK, KeptOK, CollectedOK
  <2>4. UNCHANGED <<store, sequence, expired, sizes>>
    BY <1>7 DEF snapshots
  <2>5. QED
    BY <1>1, <1>4, <2>1, <2>2, <2>3, <2>4, ClientStep
<1>8. ASSUME paged, bytes > MaxBytes, AnswerPage(c, tasks, 0, 0), UNCHANGED snapshots
      PROVE  PagesInv'
  <2> DEFINE t == NextToken(q, tasks, 0, 0)
             g == <<>> \o Page(q, tasks, 0)
  <2>1. q.size # NoLimit /\ 0 \in 0 .. Len(tasks)
    BY <1>2, <1>8
  <2>2. t \in Tokens \cup {NoToken}
    BY <1>2, <2>1, NextTokenIs
  <2>3. Becomes(c, After(t), q, t, <<>>, g, tasks, ids)
    <3>1. Answer(c, Page(q, tasks, 0), t)
      BY <1>8, <2>1 DEF AnswerPage
    <3> HIDE DEF t
    <3>2. QED
      BY <1>1, <1>3, <3>1, AnswerBecomes
  <2>4. /\ g \in Seq(ListedTasks)
        /\ ClientOK(After(t), q, t, <<>>, g, tasks, ids, store, sequence)
    <3>1. IdOrdered(q, <<>>) /\ <<>> \in Seq(ListedTasks)
      BY NoneShown
    <3>2. ids \in SUBSET ListedIds(tasks)
      OBVIOUS
    <3> HIDE DEF ids
    <3>3. QED
      BY <1>2, <1>3, <1>8, <2>1, <3>1, <3>2, CollectedPageOK
  <2> HIDE DEF t, g
  <2>5. ClientTyped(After(t), q, t, <<>>, g, tasks, ids)
    BY <1>2, <2>2, <2>4 DEF ClientTyped, After, Steps
  <2>6. UNCHANGED <<store, sequence, expired, sizes>>
    BY <1>8 DEF snapshots
  <2>7. QED
    BY <1>1, <1>4, <2>3, <2>4, <2>5, <2>6, ClientStep
<1>9. ASSUME paged, bytes <= MaxBytes, sequence' = sequence + 1,
             store' = Append(Room(Prune(store), bytes),
                             [id |-> sequence + 1, binding |-> q, tasks |-> tasks]),
             sizes' = Append(sizes, bytes), AnswerPage(c, tasks, 0, sequence + 1),
             UNCHANGED expired
      PROVE  PagesInv'
  <2> DEFINE last == sequence + 1
             room == Room(Prune(store), bytes)
             entry == [id |-> last, binding |-> q, tasks |-> tasks]
             kept == Append(room, entry)
             t == NextToken(q, tasks, 0, last)
             g == SubSeq(tasks, 1, PageEnd(q, tasks, 0))
  <2>1. q.size # NoLimit /\ 0 \in 0 .. Len(tasks) /\ last \in Nat /\ last # 0 /\ last <= last
    BY <1>2, <1>4, <1>9
  <2>2. StoreKept(Prune(store), sequence, sizes) /\ Remain(store, sequence, Prune(store))
    BY PruneStore
  <2>3. StoreKept(kept, last, Append(sizes, bytes))
    BY <1>2, <1>9, <2>2, RoomKeeps
  <2>4. PICK gone \in 0 .. Len(Prune(store)) :
           /\ Len(room) = Len(Prune(store)) - gone
           /\ \A i \in 1 .. Len(room) :
                 gone + i \in 1 .. Len(Prune(store)) /\ room[i] = Prune(store)[gone + i]
    <3> HIDE DEF q, tasks
    <3>1. QED
      BY <1>2, <1>9, <2>2, RoomKeeps, SMTT(30)
  <2>5. room \in Seq(Entries(last)) /\ entry \in Entries(last)
    <3>1. entry \in Entries(last)
      BY <1>2, <2>1 DEF Entries
    <3>2. NumberedTo(Prune(store), sequence, sizes)
      BY <2>2 DEF StoreKept
    <3>3. \E n \in 0 .. Len(Prune(store)) :
             room = SubSeq(Prune(store), n + 1, Len(Prune(store)))
      BY <1>5, <1>9, <3>2, RoomDrops
    <3>4. room \in Seq(Entries(sequence))
      BY <3>2, <3>3, LastOf DEF NumberedTo
    <3>5. Entries(sequence) \subseteq Entries(last)
      BY <1>4 DEF Entries
    <3>6. QED
      BY <3>1, <3>4, <3>5
  <2>6. /\ Len(kept) = Len(room) + 1 /\ kept[Len(room) + 1] = entry /\ Len(room) \in Nat
        /\ \A i \in 1 .. Len(room) : kept[i] = room[i]
    <3> HIDE DEF entry, room
    <3>1. QED
      BY <2>5
  <2>7. entry.id = last /\ entry.tasks = tasks
    OBVIOUS
  <2>8. ASSUME NEW i \in 1 .. Len(kept)
        PROVE  \/ kept[i] = entry
               \/ /\ \E j \in 1 .. Len(store) : store[j] = kept[i]
                  /\ kept[i].id # last
    <3>1. CASE i = Len(room) + 1
      BY <2>6, <3>1
    <3>2. CASE i \in 1 .. Len(room)
      <4>1. /\ gone + i \in 1 .. Len(Prune(store)) /\ kept[i] = Prune(store)[gone + i]
        BY <2>4, <2>6, <3>2
      <4>2. Prune(store)[gone + i] \in Entries(sequence)
        <5>1. Prune(store) \in Seq(Entries(sequence))
          BY <2>2 DEF StoreKept, NumberedTo
        <5>2. QED
          BY <4>1, <5>1
      <4>3. kept[i].id <= sequence /\ kept[i].id # last
        BY <1>4, <4>1, <4>2 DEF Entries
      <4>4. QED
        BY <2>2, <4>1, <4>3 DEF Remain
    <3>3. QED
      BY <2>6, <2>8, <3>1, <3>2
  <2>9. store' = kept /\ sizes' = Append(sizes, bytes) /\ sequence' = last
    BY <1>9
  <2> HIDE DEF kept, entry, room, last
  <2>10. Remain(store, sequence, kept)
    <3>1. ASSUME NEW i \in 1 .. Len(kept), kept[i].id <= sequence
          PROVE  \E j \in 1 .. Len(store) : store[j] = kept[i]
      <4>1. ~(last <= sequence)
        BY <1>4 DEF last
      <4>2. QED
        BY <2>7, <2>8, <3>1, <4>1
    <3>2. QED
      BY <3>1 DEF Remain
  <2>11. KeptAs(kept, last, tasks)
    BY <2>7, <2>8 DEF KeptAs
  <2>12. t \in Tokens \cup {NoToken}
    BY <1>2, <2>1, NextTokenIs
  <2>13. Becomes(c, After(t), q, t, <<>>, g, tasks, ids)
    <3>1. Answer(c, Page(q, tasks, 0), t)
      BY <1>9, <2>1 DEF AnswerPage, last
    <3>2. SubSeq(tasks, 1, 0) = <<>>
      OBVIOUS
    <3>3. got[c] \o Page(q, tasks, 0) = g
      <4>1. SubSeq(tasks, 1, 0) \o Page(q, tasks, 0) = g
        BY <1>2, <2>1, PrefixGrows
      <4>2. QED
        BY <1>3, <3>2, <4>1
    <3> HIDE DEF t, g
    <3>4. QED
      BY <1>1, <3>1, <3>3, AnswerBecomes
  <2>14. /\ g \in Seq(ListedTasks)
         /\ ClientOK(After(t), q, t, <<>>, g, tasks, ids, kept, last)
    <3>1. ids \in SUBSET ListedIds(tasks)
      OBVIOUS
    <3> HIDE DEF ids
    <3>2. QED
      BY <1>2, <1>3, <2>1, <2>11, <3>1, KeptPageOK
  <2> HIDE DEF t, g
  <2>15. ClientTyped(After(t), q, t, <<>>, g, tasks, ids)
    BY <1>2, <2>12, <2>14 DEF ClientTyped, After, Steps
  <2>16. sequence <= last
    BY <1>4 DEF last
  <2>17. /\ UNCHANGED <<board, expired, changes>> /\ listings' \in 0 .. MaxListings
         /\ ReadingTyped'
    BY <1>1, <1>4, <1>9
  <2> DEFINE more == Append(sizes, bytes)
  <2> HIDE DEF more, ids, q, tasks
  <2>18. StoreKept(kept, last, more) /\ sizes' = more
    BY <2>3, <2>9 DEF more, q, tasks
  <2>19. QED
    BY <2>1, <2>9, <2>10, <2>13, <2>14, <2>15, <2>16, <2>17, <2>18, ClientStep
<1>10. QED
  BY <1>5, <1>7, <1>8, <1>9 DEF FirstPage

LEMMA LaterPageKeeps ==
    ASSUME PagesInv, NEW c \in Clients, LaterPage(c)
    PROVE  PagesInv'
<1> DEFINE q == query[c]
           tasks == collected[c]
           l == listing[c]
           ids == steady[c] \cap ListedIds(tasks)
           k == Len(got[c])
<1>1. /\ at[c] = "collected" /\ token[c] # NoToken
      /\ steady' = [steady EXCEPT ![c] = ids]
      /\ collected' = [collected EXCEPT ![c] = <<>>]
      /\ UNCHANGED <<board, query, scanned, taken, listing, store, sequence, expired, sizes,
                     listings, changes>>
  BY DEF LaterPage, snapshots
<1>2. /\ q \in Queries /\ tasks \in Seq(ListedTasks) /\ got[c] \in Seq(ListedTasks)
      /\ l \in Seq(ListedTasks) /\ steady[c] \in SUBSET TaskIds /\ token[c] \in Tokens
  BY <1>1, OfClient
<1>3. /\ TokenOK(at[c], q, token[c], got[c])
      /\ OrderOK(at[c], q, token[c], got[c], steady[c])
      /\ KeptOK(at[c], q, token[c], got[c], l, steady[c], store, sequence)
      /\ CollectedOK(at[c], q, token[c], tasks, got[c])
  BY OfClient DEF ClientInv, ClientOK
<1>4. /\ sequence \in Nat /\ sequence <= sequence /\ listings \in 0 .. MaxListings
      /\ StoreKept(store, sequence, sizes) /\ Remain(store, sequence, store)
      /\ ReadingTyped'
  BY <1>1, OfServer, ReadingStays
<1>5. CASE RefuseToken(c)
  <2>1. /\ query' = [query EXCEPT ![c] = q] /\ <<>> \in Seq(ListedTasks)
    BY <1>1, StaysItself
  <2>2. ids \in SUBSET steady[c]
    OBVIOUS
  <2> HIDE DEF ids
  <2>3. QED
    BY <1>1, <1>2, <1>4, <1>5, <2>1, <2>2, RefuseKeeps
<1>6. ASSUME NEW start \in Positions(tasks, token[c].after), AnswerPage(c, tasks, start, 0)
      PROVE  PagesInv'
  <2>1. /\ q.size # NoLimit /\ k > 0 /\ got[c][k].id = token[c].after
    BY <1>1, <1>3 DEF TokenOK
  <2>2. Listed(q, tasks)
    BY <1>1, <1>3 DEF CollectedOK
  <2>3. token[c].snapshot = 0 /\ Bytes(q, l) > MaxBytes /\ steady[c] \subseteq ListedIds(l)
    BY <1>1, <1>3 DEF KeptOK
  <2>4. /\ start \in 1 .. Len(tasks) /\ start \in 0 .. Len(tasks) /\ start # 0
        /\ tasks[start].id = token[c].after
    <3>1. start \in 1 .. Len(tasks) /\ tasks[start].id = token[c].after
      BY <1>6 DEF Positions
    <3>2. Len(tasks) \in Nat
      BY <1>2
    <3>3. QED
      BY <3>1, <3>2
  <2>5. q.field = "id" =>
           /\ IdOrdered(q, got[c])
           /\ \A id \in ids : id \in ListedIds(got[c]) \/ Beyond(q, tasks[start].id, id)
    BY <1>1, <1>3, <2>4 DEF OrderOK
  <2>6. ids \in SUBSET ListedIds(tasks) /\ ids \in SUBSET ListedIds(l) /\ ids \in SUBSET TaskIds
    BY <1>2, <2>3
  <2> DEFINE t == NextToken(q, tasks, start, 0)
             g == got[c] \o Page(q, tasks, start)
  <2>7. t \in Tokens \cup {NoToken}
    BY <1>2, <2>1, <2>4, NextTokenIs
  <2>8. Becomes(c, After(t), q, t, <<>>, g, l, ids)
    <3>1. Answer(c, Page(q, tasks, start), t)
      BY <1>6, <2>1 DEF AnswerPage
    <3>2. listing' = [listing EXCEPT ![c] = l]
      BY <1>1, StaysItself
    <3> HIDE DEF t
    <3>3. QED
      BY <1>1, <3>1, <3>2, AnswerBecomes
  <2>9. g \in Seq(ListedTasks) /\ ClientOK(After(t), q, t, <<>>, g, l, ids, store, sequence)
    <3>1. start # 0 => Len(got[c]) > 0 /\ got[c][Len(got[c])].id = tasks[start].id
      BY <2>1, <2>4
    <3> HIDE DEF ids, l
    <3>2. QED
      BY <1>2, <2>1, <2>2, <2>3, <2>4, <2>5, <2>6, <3>1, CollectedPageOK
  <2> HIDE DEF t, g
  <2>10. ClientTyped(After(t), q, t, <<>>, g, l, ids)
    <3>1. After(t) \in Steps
      BY DEF After, Steps
    <3>2. QED
      BY <1>2, <2>6, <2>7, <2>9, <3>1 DEF ClientTyped
  <2>11. QED
    BY <1>1, <1>4, <2>8, <2>9, <2>10, ClientStep
<1>7. QED
  BY <1>5, <1>6 DEF LaterPage

LEMMA ExpireKeeps ==
    ASSUME PagesInv, Expire
    PROVE  PagesInv'
<1>1. /\ expired < sequence /\ expired' = expired + 1
      /\ UNCHANGED <<board, clients, store, sequence, sizes, listings, changes>>
      /\ sequence \in Nat /\ expired \in Nat
  BY OfServer DEF Expire
<1>2. BoardInv'
  BY <1>1 DEF PagesInv, BoardInv, TypeOK
<1>3. PagesTypeOK'
  BY <1>1 DEF PagesInv, PagesTypeOK, TypeOK, clients
<1>4. StoreKept(store, sequence, sizes)'
  <2>1. StoreKept(store, sequence, sizes)
    BY OfServer
  <2>2. GivenWay(store, sequence, sizes)'
    BY <1>1, <2>1 DEF StoreKept, GivenWay
  <2>3. QED
    BY <1>1, <2>1, <2>2 DEF StoreKept, NumberedTo, TotalBytes
<1>5. ASSUME NEW c \in Clients PROVE ClientInv(c)'
  BY <1>1 DEF PagesInv, ClientInv, clients
<1>6. QED
  BY <1>2, <1>3, <1>4, <1>5 DEF PagesInv

LEMMA RestartKeeps ==
    ASSUME PagesInv, Restart
    PROVE  PagesInv'
<1>1. /\ store' = <<>> /\ expired' = sequence
      /\ UNCHANGED <<board, query, got, listing, steady, sequence, sizes, listings, changes>>
      /\ sequence \in Nat /\ StoreKept(store, sequence, sizes)
  BY OfServer DEF Restart
<1>2. BoardInv'
  BY <1>1 DEF PagesInv, BoardInv, TypeOK
<1>3. StoreKept(store, sequence, sizes)'
  <2>1. /\ <<>> \in Seq(Entries(sequence)) /\ Len(<<>>) = 0 /\ BytesOf(<<>>) = <<>>
        /\ sizes \in Seq(Nat) /\ Len(sizes) = sequence
    BY <1>1 DEF BytesOf, StoreKept, NumberedTo
  <2>2. NumberedTo(<<>>, sequence, sizes)
    BY <1>1, <2>1 DEF NumberedTo
  <2>3. TotalBytes(<<>>) = 0
    BY <2>1, TotalOfNone DEF TotalBytes
  <2>4. \A k \in 1 .. sequence : ~(k > sequence)
    BY <1>1
  <2>5. QED
    BY <1>1, <2>1, <2>2, <2>3, <2>4, LimitsAssumption DEF StoreKept, NumberedTo, GivenWay, TotalBytes
<1>4. ClientsTyped
  BY TypesApart DEF PagesInv
<1>5. ASSUME NEW c \in Clients
      PROVE  /\ at'[c] = IF at[c] \in {"reading", "collected"} THEN "refused" ELSE at[c]
             /\ token'[c] = IF at[c] \in {"reading", "collected", "refused"} THEN NoToken ELSE token[c]
             /\ collected'[c] = <<>>
  BY DEF Restart
<1>6. ClientsTyped'
  <2>1. at' \in [Clients -> Steps]
    BY <1>4 DEF Restart, ClientsTyped, Steps
  <2>2. token' \in [Clients -> Tokens \cup {NoToken}]
    BY <1>4 DEF Restart, ClientsTyped
  <2>3. collected' \in [Clients -> Seq(ListedTasks)]
    BY DEF Restart
  <2>4. QED
    BY <1>1, <1>4, <2>1, <2>2, <2>3 DEF ClientsTyped
<1>7. PagesTypeOK'
  <2>1. /\ TypeOK /\ listings \in 0 .. MaxListings /\ changes \in 0 .. MaxChanges
    BY TypesApart DEF PagesInv
  <2>2. TypeOK'
    BY <1>1, <2>1 DEF TypeOK
  <2>3. ReadingTyped'
    <3>1. NothingFound \in Vaults /\ 0 \in 0 .. Len(Scan) - 1
      BY ScanAssumption, EmptySeq DEF NothingFound, Vaults
    <3>2. QED
      BY <3>1 DEF Restart, ReadingTyped
  <2>4. QED
    BY <1>1, <1>3, <1>6, <2>1, <2>2, <2>3
       DEF PagesTypeOK, ClientsTyped, ReadingTyped, Entries, StoreKept, NumberedTo
<1>8. ASSUME NEW c \in Clients PROVE ClientInv(c)'
  <2> DEFINE a == at'[c]
             t == token'[c]
             q == query[c]
             g == got[c]
             l == listing[c]
             s == steady[c]
  <2>1. /\ TokenOK(at[c], q, token[c], g) /\ OrderOK(at[c], q, token[c], g, s)
        /\ KeptOK(at[c], q, token[c], g, l, s, store, sequence)
    BY DEF PagesInv, ClientInv, ClientOK
  <2>2. /\ a = IF at[c] \in {"reading", "collected"} THEN "refused" ELSE at[c]
        /\ t = IF at[c] \in {"reading", "collected", "refused"} THEN NoToken ELSE token[c]
        /\ collected'[c] = <<>>
    BY <1>5
  <2> HIDE DEF a, t
  <2>3. ClientOK(a, q, t, <<>>, g, l, s, <<>>, sequence)
    <3>1. CASE at[c] \in {"reading", "collected", "refused"}
      <4>1. a = "refused" /\ t = NoToken
        BY <2>2, <3>1
      <4>2. s \subseteq ListedIds(l)
        BY <2>1 DEF KeptOK
      <4>3. QED
        BY <4>1, <4>2 DEF ClientOK, TokenOK, OrderOK, KeptOK, CollectedOK
    <3>2. CASE at[c] \notin {"reading", "collected", "refused"}
      <4>1. a = at[c] /\ t = token[c] /\ a \notin {"reading", "collected"}
        BY <2>2, <3>2
      <4>2. \A snapshot : KeptAs(<<>>, snapshot, l)
        BY DEF KeptAs
      <4>3. KeptOK(a, q, t, g, l, s, <<>>, sequence)
        BY <2>1, <4>1, <4>2 DEF KeptOK
      <4>4. QED
        BY <2>1, <4>1, <4>3 DEF ClientOK, CollectedOK
    <3>3. QED
      BY <3>1, <3>2
  <2>4. QED
    BY <1>1, <2>2, <2>3 DEF ClientInv, a, t
<1>9. QED
  BY <1>2, <1>3, <1>7, <1>8 DEF PagesInv

LEMMA ChangeBoardKeeps ==
    ASSUME PagesInv, ChangeBoard
    PROVE  PagesInv'
<1>1. /\ Next /\ changes < MaxChanges /\ changes' = changes + 1
      /\ UNCHANGED <<clients, snapshots, listings>>
  BY DEF ChangeBoard
<1>2. BoardInv'
  BY <1>1, BoardStep DEF PagesInv
<1>3. (changes \in 0 .. MaxChanges)'
  BY <1>1, OfServer, LimitsAssumption
<1>4. PagesTypeOK'
  BY <1>1, <1>2, <1>3 DEF PagesInv, PagesTypeOK, BoardInv, clients, snapshots
<1>5. StoreKept(store, sequence, sizes)'
  BY <1>1 DEF PagesInv, StoreKept, NumberedTo, GivenWay, TotalBytes, snapshots
<1>6. ASSUME NEW c \in Clients PROVE ClientInv(c)'
  BY <1>1 DEF PagesInv, ClientInv, clients, snapshots
<1>7. QED
  BY <1>2, <1>4, <1>5, <1>6 DEF PagesInv

LEMMA PagesStart == PagesInit => PagesInv
<1> SUFFICES ASSUME PagesInit PROVE PagesInv
  OBVIOUS
<1>1. BoardInv
  BY BoardStart DEF PagesInit
<1>2. /\ at = [c \in Clients |-> "idle"]
      /\ query \in [Clients -> {q \in Queries : q.size = NoLimit}]
      /\ token = [c \in Clients |-> NoToken]
      /\ scanned = [c \in Clients |-> 0]
      /\ taken = [c \in Clients |-> NothingFound]
      /\ collected = [c \in Clients |-> <<>>]
      /\ store = <<>> /\ sequence = 0 /\ expired = 0 /\ listings = 0 /\ changes = 0
      /\ got = [c \in Clients |-> <<>>]
      /\ listing = [c \in Clients |-> <<>>]
      /\ steady = [c \in Clients |-> {}]
      /\ sizes = <<>>
  BY DEF PagesInit
<1>3. ClientsTyped
  BY <1>2 DEF ClientsTyped, Steps
<1>4. PagesTypeOK
  <2>1. 0 \in 0 .. MaxListings /\ 0 \in 0 .. MaxChanges
    BY LimitsAssumption
  <2>2. NothingFound \in Vaults /\ 0 \in 0 .. Len(Scan) - 1
    BY ScanAssumption, EmptySeq DEF NothingFound, Vaults
  <2>3. QED
    BY <1>1, <1>2, <1>3, <2>1, <2>2 DEF PagesTypeOK, ClientsTyped, BoardInv
<1>5. StoreKept(store, sequence, sizes)
  <2>1. /\ <<>> \in Seq(Entries(0)) /\ Len(<<>>) = 0 /\ BytesOf(<<>>) = <<>> /\ <<>> \in Seq(Nat)
    BY DEF BytesOf
  <2>2. NumberedTo(<<>>, 0, <<>>)
    BY <2>1 DEF NumberedTo
  <2>3. TotalBytes(<<>>) = 0
    BY <2>1, TotalOfNone DEF TotalBytes
  <2>4. QED
    BY <1>2, <2>1, <2>2, <2>3, LimitsAssumption DEF StoreKept, GivenWay
<1>6. ASSUME NEW c \in Clients PROVE ClientInv(c)
  <2>1. at[c] = "idle" /\ token[c] = NoToken /\ steady[c] = {}
    BY <1>2
  <2>2. QED
    BY <2>1 DEF ClientInv, ClientOK, TokenOK, OrderOK, KeptOK, CollectedOK
<1>7. QED
  BY <1>1, <1>4, <1>5, <1>6 DEF PagesInv

LEMMA PagesStill == PagesInv /\ UNCHANGED vars => PagesInv'
<1> SUFFICES ASSUME PagesInv, UNCHANGED vars PROVE PagesInv'
  OBVIOUS
<1>1. BoardInv'
  BY DEF PagesInv, BoardInv, TypeOK, vars
<1>2. PagesTypeOK'
  BY DEF PagesInv, PagesTypeOK, TypeOK, vars, clients, snapshots
<1>3. StoreKept(store, sequence, sizes)'
  BY DEF PagesInv, StoreKept, NumberedTo, GivenWay, TotalBytes, vars, snapshots
<1>4. ASSUME NEW c \in Clients PROVE ClientInv(c)'
  BY DEF PagesInv, ClientInv, vars, clients, snapshots
<1>5. QED
  BY <1>1, <1>2, <1>3, <1>4 DEF PagesInv

\* However the board, the clients and the server go on, the invariant holds.
THEOREM PagesSafe == PagesSpec => []PagesInv
<1>1. PagesInv /\ [PagesNext]_vars => PagesInv'
  <2> SUFFICES ASSUME PagesInv, [PagesNext]_vars PROVE PagesInv'
    OBVIOUS
  <2>1. ASSUME NEW c \in Clients, NEW q \in Queries, Begin(c, q) PROVE PagesInv'
    BY <2>1, BeginKeeps
  <2>2. ASSUME NEW c \in Clients, NEW q \in Queries, Continue(c, q) PROVE PagesInv'
    BY <2>2, ContinueKeeps
  <2>3. ASSUME NEW c \in Clients, ReadProject(c) PROVE PagesInv'
    BY <2>3, ReadProjectKeeps
  <2>4. ASSUME NEW c \in Clients, FirstPage(c) PROVE PagesInv'
    BY <2>4, FirstPageKeeps
  <2>5. ASSUME NEW c \in Clients, LaterPage(c) PROVE PagesInv'
    BY <2>5, LaterPageKeeps
  <2>6. CASE Expire
    BY <2>6, ExpireKeeps
  <2>7. CASE Restart
    BY <2>7, RestartKeeps
  <2>8. CASE ChangeBoard
    BY <2>8, ChangeBoardKeeps
  <2>9. CASE UNCHANGED vars
    BY <2>9, PagesStill
  <2>10. QED
    BY <2>1, <2>2, <2>3, <2>4, <2>5, <2>6, <2>7, <2>8, <2>9 DEF PagesNext
<1>2. QED
  BY <1>1, PagesStart, PTL DEF PagesSpec

\* The requests, tokens and snapshots of listings keep their types, for any
\* number of clients and tasks (snapshots.rs ListTasksSnapshots).
THEOREM PagesTypeCorrect == PagesSpec => []PagesTypeOK
<1>1. PagesInv => PagesTypeOK
  BY DEF PagesInv
<1>2. QED
  BY <1>1, PagesSafe, PTL

\* The snapshots never exceed their number and their bytes, whatever these are
\* (snapshots.rs first_page).
THEOREM SnapshotsStayBounded == PagesSpec => []SnapshotsBounded
<1>1. PagesInv => SnapshotsBounded
  BY DEF PagesInv, StoreKept, SnapshotsBounded
<1>2. QED
  BY <1>1, PagesSafe, PTL

\* The pages of a listing add up to it, for any number of clients, listings,
\* board changes, limits and restarts (list_tasks.rs apply_page, snapshots.rs
\* page).
THEOREM ListingsAreWhole == PagesSpec => []PagesAddUp
<1>1. ASSUME PagesInv PROVE PagesAddUp
  <2>1. ASSUME NEW c \in Clients, at[c] \in {"paging", "done"}, query[c].field = "id"
        PROVE  /\ \A i, j \in 1 .. Len(got[c]) :
                     i < j => Precedes(query[c], got[c][i], got[c][j])
               /\ at[c] = "done" => steady[c] \subseteq ListedIds(got[c])
    <3>1. TokenOK(at[c], query[c], token[c], got[c])
          /\ OrderOK(at[c], query[c], token[c], got[c], steady[c])
      BY <1>1 DEF PagesInv, ClientInv, ClientOK
    <3>2. IdOrdered(query[c], got[c])
      BY <2>1, <3>1 DEF TokenOK, OrderOK
    <3>3. ASSUME at[c] = "done" PROVE steady[c] \subseteq ListedIds(got[c])
      <4>1. token[c] = NoToken
        BY <3>1, <3>3 DEF TokenOK
      <4>2. QED
        BY <2>1, <3>1, <3>3, <4>1 DEF OrderOK
    <3>4. QED
      BY <3>2, <3>3 DEF IdOrdered
  <2>2. IdsAdvance
    BY <2>1 DEF IdsAdvance
  <2>3. ASSUME NEW c \in Clients, at[c] = "paging", token[c].snapshot # 0
        PROVE  /\ Len(got[c]) \in 1 .. Len(listing[c]) - 1
               /\ got[c] = SubSeq(listing[c], 1, Len(got[c]))
               /\ got[c][Len(got[c])].id = token[c].after
               /\ token[c].binding = query[c]
    <3>1. TokenOK(at[c], query[c], token[c], got[c])
          /\ KeptOK(at[c], query[c], token[c], got[c], listing[c], steady[c], store, sequence)
      BY <1>1 DEF PagesInv, ClientInv, ClientOK
    <3>2. /\ token[c] # NoToken /\ token[c].binding = query[c]
          /\ Len(got[c]) > 0 /\ got[c][Len(got[c])].id = token[c].after
      BY <2>3, <3>1 DEF TokenOK
    <3>3. Len(got[c]) < Len(listing[c]) /\ got[c] = SubSeq(listing[c], 1, Len(got[c]))
      BY <2>3, <3>1, <3>2 DEF KeptOK
    <3>4. Len(got[c]) \in Nat /\ Len(listing[c]) \in Nat
      BY <1>1, OfClient
    <3>5. QED
      BY <3>2, <3>3, <3>4
  <2>4. ASSUME NEW c \in Clients, at[c] = "done",
               query[c].size = NoLimit \/ Bytes(query[c], listing[c]) <= MaxBytes
        PROVE  got[c] = listing[c]
    BY <1>1, <2>4 DEF PagesInv, ClientInv, ClientOK, KeptOK
  <2>5. QED
    BY <2>2, <2>3, <2>4 DEF PagesAddUp
<1>2. QED
  BY <1>1, PagesSafe, PTL

\* A token within its minute is refused only when newer listings took the place
\* of its snapshot, for any limits (snapshots.rs first_page, prune).
THEOREM NewerListingsEvict == PagesSpec => []OnlyNewerListingsEvict
<1>1. ASSUME PagesInv PROVE OnlyNewerListingsEvict
  <2>1. SUFFICES ASSUME NEW c \in Clients, at[c] = "paging", token[c].snapshot > expired
                 PROVE  \/ \E i \in 1 .. Len(store) : store[i].id = token[c].snapshot
                        \/ sequence - token[c].snapshot >= MaxSnapshots
                        \/ Total(SubSeq(sizes, token[c].snapshot, sequence)) > MaxBytes
    BY DEF OnlyNewerListingsEvict
  <2> DEFINE snapshot == token[c].snapshot
             n == Len(store)
  <2>2. /\ TokenOK(at[c], query[c], token[c], got[c])
        /\ KeptOK(at[c], query[c], token[c], got[c], listing[c], steady[c], store, sequence)
    BY <1>1 DEF PagesInv, ClientInv, ClientOK
  <2>3. token[c] # NoToken /\ token[c] \in Tokens
    BY <1>1, <2>1, <2>2, OfClient DEF TokenOK
  <2>4. snapshot \in Nat
    BY <2>3 DEF Tokens
  <2>5. expired \in Nat /\ sequence \in Nat /\ StoreKept(store, sequence, sizes)
    BY <1>1, OfServer
  <2>6. snapshot # 0 /\ snapshot > expired
    BY <2>1, <2>4, <2>5
  <2>7. snapshot <= sequence
    BY <2>2, <2>3, <2>6 DEF KeptOK
  <2>8. n \in Nat /\ n <= sequence /\ \A i \in 1 .. n : store[i].id = sequence - n + i
    BY <2>5 DEF StoreKept, NumberedTo
  <2> HIDE DEF snapshot, n
  <2>9. CASE snapshot <= sequence - n
    <3>1. snapshot \in 1 .. sequence
      BY <2>4, <2>5, <2>6, <2>7
    <3>2. QED
      BY <2>5, <2>6, <2>9, <3>1 DEF StoreKept, GivenWay, snapshot, n
  <2>10. CASE ~(snapshot <= sequence - n)
    <3> DEFINE i == snapshot - (sequence - n)
    <3>1. i \in 1 .. n /\ sequence - n + i = snapshot
      BY <2>4, <2>5, <2>7, <2>8, <2>10
    <3>2. store[i].id = snapshot
      BY <2>8, <3>1
    <3>3. QED
      BY <3>1, <3>2 DEF n, snapshot
  <2>11. QED
    BY <2>9, <2>10
<1>2. QED
  BY <1>1, PagesSafe, PTL

\* What is asked of the board has its types and stays within its bounds: the
\* stored listings and the graphs under construction (snapshots.rs first_page,
\* get_task_dag.rs add_node and add_directional_edge).
THEOREM QueriesAreTyped == PagesSpec /\ GraphSpec => []QueriesTypeOK
<1>1. PagesTypeOK /\ GraphTypeOK /\ SnapshotsBounded => QueriesTypeOK
  BY DEF QueriesTypeOK
<1>2. QED
  BY <1>1, PagesTypeCorrect, SnapshotsStayBounded, GraphTypeCorrect, PTL

=============================================================================
