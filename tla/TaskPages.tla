------------------------------ MODULE TaskPages ------------------------------
(***************************************************************************)
(* Listings of tasks in pages.  The first page of a listing that does not  *)
(* fit on it keeps the whole listing as a snapshot, and the token for the  *)
(* next page names that snapshot; a listing that is too large to keep is   *)
(* collected again for every page.  Snapshots are bounded, the oldest one  *)
(* gives way, and each of them ends after a minute.  The board changes all *)
(* the while.                                                              *)
(***************************************************************************)
EXTENDS TaskBoard, Sequences

CONSTANTS
    Clients,
    Scan,          \* the tasks of every active project, in the order of their names
    Queries,       \* resolved queries, settings included
    NoLimit,       \* a query without a cap, or without a page size
    NoToken,
    MaxSnapshots,  \* SNAPSHOT_COUNT_MAX, 16 in the code
    MaxBytes,      \* SNAPSHOT_BYTES_MAX, 16 MiB in the code
    MaxListings,   \* how many listings are begun
    MaxChanges     \* how often the board changes

\* No task is in two projects.
ASSUME ScanAssumption ==
    /\ Scan \in Seq(SUBSET TaskIds) /\ Scan # <<>>
    /\ \A i, j \in 1 .. Len(Scan) : i # j => Scan[i] \cap Scan[j] = {}
\* A page holds at least one task (TaskPageSize).
ASSUME QueriesAssumption ==
    Queries \subseteq
        [status: Statuses \cup {"all"}, field: {"id", "title"}, ascending: BOOLEAN,
         detailed: BOOLEAN, cap: (Nat \ {0}) \cup {NoLimit}, size: (Nat \ {0}) \cup {NoLimit}]
ASSUME LimitsAssumption ==
    /\ MaxSnapshots \in Nat \ {0} /\ MaxBytes \in Nat
    /\ MaxListings \in Nat /\ MaxChanges \in Nat
\* Titles are in an order.
ASSUME TitlesAssumption == Texts \subseteq Nat

VARIABLES
    at,        \* how far the request of each client is
    query,     \* what it asks for
    token,     \* the token it continues with
    scanned,   \* how many projects its request has read
    taken,     \* the tasks it has found in them
    collected, \* the listing its request has read from the board
    store,     \* SnapshotState.entries, the oldest one first
    sequence,  \* SnapshotState.sequence: the last snapshot made
    expired,   \* the last snapshot whose lifetime is over
    listings,
    changes,
    got,       \* history: what the pages of its listing showed a client so far
    listing,   \* history: what its first page was cut from
    steady,    \* history: the tasks of it that every later page was cut from
    sizes      \* history: the bytes of every snapshot made

clients == <<at, query, token, scanned, taken, collected, got, listing, steady>>
snapshots == <<store, sequence, expired, sizes>>
vars == <<board, clients, snapshots, listings, changes>>

Steps == {"idle", "reading", "collected", "paging", "done", "refused"}

ListedTasks == [id: TaskIds, task: TaskContents]
Tokens == [binding: Queries, after: TaskIds, snapshot: Nat]

ASSUME NoTokenAssumption == NoToken \notin Tokens

PagesTypeOK ==
    /\ TypeOK
    /\ at \in [Clients -> Steps]
    /\ query \in [Clients -> Queries]
    /\ token \in [Clients -> Tokens \cup {NoToken}]
    /\ scanned \in [Clients -> 0 .. Len(Scan) - 1]
    /\ taken \in [Clients -> Vaults]
    /\ collected \in [Clients -> Seq(ListedTasks)]
    /\ store \in Seq([id: 1 .. sequence, binding: Queries, tasks: Seq(ListedTasks)])
    /\ sequence \in Nat
    /\ expired \in 0 .. sequence
    /\ listings \in 0 .. MaxListings
    /\ changes \in 0 .. MaxChanges
    /\ got \in [Clients -> Seq(ListedTasks)]
    /\ listing \in [Clients -> Seq(ListedTasks)]
    /\ steady \in [Clients -> SUBSET TaskIds]
    /\ sizes \in Seq(Nat)
    /\ Len(sizes) = sequence

NothingFound == [id \in TaskIds |-> NoTask]

PagesInit ==
    /\ Init
    /\ at = [c \in Clients |-> "idle"]
    /\ query \in [Clients -> {q \in Queries : q.size = NoLimit}]
    /\ token = [c \in Clients |-> NoToken]
    /\ scanned = [c \in Clients |-> 0]
    /\ taken = [c \in Clients |-> NothingFound]
    /\ collected = [c \in Clients |-> <<>>]
    /\ store = <<>>
    /\ sequence = 0
    /\ expired = 0
    /\ listings = 0
    /\ changes = 0
    /\ got = [c \in Clients |-> <<>>]
    /\ listing = [c \in Clients |-> <<>>]
    /\ steady = [c \in Clients |-> {}]
    /\ sizes = <<>>

-----------------------------------------------------------------------------
Included(q, task) == q.status \in {"all", task.status}

\* Tasks with the same title are in the descending order of their ids, whatever
\* the direction of the titles.
Precedes(q, a, b) ==
    IF q.field = "title" /\ a.task.text # b.task.text
    THEN IF q.ascending THEN a.task.text < b.task.text ELSE a.task.text > b.task.text
    ELSE IF q.field = "id" /\ q.ascending THEN a.id < b.id ELSE a.id > b.id

Matching(q, vault) ==
    {item \in {[id |-> id, task |-> vault[id]] : id \in Existing(vault)} : Included(q, item.task)}

Sorted(q, items) ==
    CHOOSE s \in [1 .. Cardinality(items) -> items] :
        \A i, j \in 1 .. Cardinality(items) : i < j => Precedes(q, s[i], s[j])

Capped(q, tasks) ==
    IF q.cap = NoLimit \/ Len(tasks) <= q.cap THEN tasks ELSE SubSeq(tasks, 1, q.cap)

Materialized(q, vault) == Capped(q, Sorted(q, Matching(q, vault)))

\* What a kept listing costs: details come with the body of the task.
Bytes(q, tasks) == Len(tasks) * (IF q.detailed THEN 2 ELSE 1)

Total(numbers) ==
    LET sum[n \in 0 .. Len(numbers)] == IF n = 0 THEN 0 ELSE sum[n - 1] + numbers[n]
    IN  sum[Len(numbers)]

BytesOf(entries) ==
    [i \in 1 .. Len(entries) |-> Bytes(entries[i].binding, entries[i].tasks)]

TotalBytes(entries) == Total(BytesOf(entries))

ListedIds(tasks) == {tasks[i].id : i \in 1 .. Len(tasks)}

Positions(tasks, id) == {i \in 1 .. Len(tasks) : tasks[i].id = id}

PageEnd(q, tasks, start) ==
    IF start + q.size < Len(tasks) THEN start + q.size ELSE Len(tasks)

\* Mutant: a page begins with the last task of the page before.
PageAtCursor(q, tasks, start) ==
    SubSeq(tasks, IF start = 0 THEN 1 ELSE start, PageEnd(q, tasks, start))

Page(q, tasks, start) == SubSeq(tasks, start + 1, PageEnd(q, tasks, start))

\* The token for what follows the page that begins after start, if anything does.
NextToken(q, tasks, start, snapshot) ==
    IF PageEnd(q, tasks, start) < Len(tasks)
    THEN [binding |-> q, after |-> tasks[PageEnd(q, tasks, start)].id, snapshot |-> snapshot]
    ELSE NoToken

\* The client gets a page and the token for the next one.
Answer(c, items, next) ==
    /\ got' = [got EXCEPT ![c] = @ \o items]
    /\ token' = [token EXCEPT ![c] = next]
    /\ at' = [at EXCEPT ![c] = IF next = NoToken THEN "done" ELSE "paging"]

AnswerPage(c, tasks, start, snapshot) ==
    Answer(c, IF query[c].size = NoLimit THEN tasks ELSE Page(query[c], tasks, start),
           IF query[c].size = NoLimit THEN NoToken
           ELSE NextToken(query[c], tasks, start, snapshot))

\* The token is invalid: the client has to begin again.
RefuseToken(c) ==
    /\ at' = [at EXCEPT ![c] = "refused"]
    /\ token' = [token EXCEPT ![c] = NoToken]
    /\ got' = [got EXCEPT ![c] = <<>>]

-----------------------------------------------------------------------------
\* A listing without a token begins.
Begin(c, q) ==
    /\ at[c] \in {"idle", "paging", "done", "refused"}
    /\ listings < MaxListings
    /\ listings' = listings + 1
    /\ at' = [at EXCEPT ![c] = "reading"]
    /\ query' = [query EXCEPT ![c] = q]
    /\ token' = [token EXCEPT ![c] = NoToken]
    /\ got' = [got EXCEPT ![c] = <<>>]
    /\ listing' = [listing EXCEPT ![c] = <<>>]
    /\ steady' = [steady EXCEPT ![c] = {}]
    /\ UNCHANGED <<board, scanned, taken, collected, snapshots, changes>>

\* Beside what was found, the tasks the next project holds now.
WithNext(c) ==
    [id \in TaskIds |-> IF id \in Scan[scanned[c] + 1] THEN board[id] ELSE taken[c][id]]

\* The projects are read one after another; once the last one is, the tasks are
\* filtered, sorted and capped.
ReadProject(c) ==
    /\ at[c] = "reading"
    /\ \/ /\ scanned[c] + 1 < Len(Scan)
          /\ scanned' = [scanned EXCEPT ![c] = @ + 1]
          /\ taken' = [taken EXCEPT ![c] = WithNext(c)]
          /\ UNCHANGED <<at, collected>>
       \/ /\ scanned[c] + 1 = Len(Scan)
          /\ scanned' = [scanned EXCEPT ![c] = 0]
          /\ taken' = [taken EXCEPT ![c] = NothingFound]
          /\ collected' = [collected EXCEPT ![c] = Materialized(query[c], WithNext(c))]
          /\ at' = [at EXCEPT ![c] = "collected"]
    /\ UNCHANGED <<board, query, token, got, listing, steady, snapshots, listings, changes>>

Smallest(numbers) == CHOOSE n \in numbers : \A m \in numbers : n <= m

\* Entries are in the order of their age: the ones that go are the first.
Prune(entries) ==
    LET enough == {n \in 0 .. Len(entries) :
                      \A i \in n + 1 .. Len(entries) : entries[i].id > expired}
    IN  SubSeq(entries, Smallest(enough) + 1, Len(entries))

Named(entries, snapshot) == {i \in 1 .. Len(entries) : entries[i].id = snapshot}

\* The listing was too large to keep: it is collected anew.
CollectAgain(c) ==
    /\ at' = [at EXCEPT ![c] = "reading"]
    /\ UNCHANGED <<token, got, collected, store>>

\* The page after the token's task, from the snapshot the token names.
SnapshotPage(c, q) ==
    /\ store' = Prune(store)
    /\ \/ Named(store', token[c].snapshot) = {} /\ RefuseToken(c)
       \/ \E i \in Named(store', token[c].snapshot) :
            \E start \in Positions(store'[i].tasks, token[c].after) :
               Answer(c, Page(q, store'[i].tasks, start),
                      NextToken(q, store'[i].tasks, start, token[c].snapshot))
    /\ UNCHANGED collected

\* The next page of a listing.  The query may have changed since its first page:
\* the settings of the user take part in it.
Continue(c, q) ==
    /\ at[c] = "paging"
    /\ query' = [query EXCEPT ![c] = q]
    /\ \/ token[c].binding # q /\ RefuseToken(c) /\ UNCHANGED <<collected, store>>
       \/ token[c].binding = q /\ token[c].snapshot = 0 /\ CollectAgain(c)
       \/ token[c].binding = q /\ token[c].snapshot # 0 /\ SnapshotPage(c, q)
    /\ UNCHANGED <<board, scanned, taken, listing, steady, sequence, expired, sizes,
                  listings, changes>>

FitsBeside(entries, bytes) ==
    Len(entries) < MaxSnapshots /\ TotalBytes(entries) + bytes <= MaxBytes

\* Mutant: one snapshot takes the place of all others.
RoomForOne(entries, bytes) == IF FitsBeside(entries, bytes) THEN entries ELSE <<>>

\* The entries that stay when the oldest ones go until there is room.
Room(entries, bytes) ==
    LET fitting == {n \in 0 .. Len(entries) :
                       FitsBeside(SubSeq(entries, n + 1, Len(entries)), bytes)}
    IN  SubSeq(entries, Smallest(fitting) + 1, Len(entries))

\* The first page, with the listing kept as a snapshot when more pages follow
\* and it is not too large.
FirstPage(c) ==
    /\ at[c] = "collected"
    /\ token[c] = NoToken
    /\ LET q == query[c]
           tasks == collected[c]
           bytes == Bytes(q, tasks)
           paged == q.size # NoLimit /\ Len(tasks) > q.size
       IN  \/ /\ ~paged
              /\ Answer(c, tasks, NoToken)
              /\ UNCHANGED snapshots
           \/ /\ paged
              /\ bytes > MaxBytes
              /\ AnswerPage(c, tasks, 0, 0)
              /\ UNCHANGED snapshots
           \/ /\ paged
              /\ bytes <= MaxBytes
              /\ sequence' = sequence + 1
              /\ store' = Append(Room(Prune(store), bytes),
                                 [id |-> sequence', binding |-> q, tasks |-> tasks])
              /\ sizes' = Append(sizes, bytes)
              /\ AnswerPage(c, tasks, 0, sequence')
              /\ UNCHANGED expired
    /\ listing' = [listing EXCEPT ![c] = collected[c]]
    /\ steady' = [steady EXCEPT ![c] = ListedIds(collected[c])]
    /\ collected' = [collected EXCEPT ![c] = <<>>]
    /\ UNCHANGED <<board, query, scanned, taken, listings, changes>>

\* A later page of a listing that was too large to keep: it goes on after the
\* last task shown, if that is still listed.
LaterPage(c) ==
    /\ at[c] = "collected"
    /\ token[c] # NoToken
    /\ LET places == Positions(collected[c], token[c].after)
       IN  \/ places = {} /\ RefuseToken(c)
           \/ \E start \in places : AnswerPage(c, collected[c], start, 0)
    /\ steady' = [steady EXCEPT ![c] = @ \cap ListedIds(collected[c])]
    /\ collected' = [collected EXCEPT ![c] = <<>>]
    /\ UNCHANGED <<board, query, scanned, taken, listing, snapshots, listings, changes>>

\* A minute has passed since the oldest snapshot that still lived was made.
Expire ==
    /\ expired < sequence
    /\ expired' = expired + 1
    /\ UNCHANGED <<board, clients, store, sequence, sizes, listings, changes>>

\* The server restarts: the snapshots are gone, and its new ones have names that
\* no token carries.  Requests in progress fail.
Restart ==
    /\ sequence > 0
    /\ store' = <<>>
    /\ expired' = sequence
    /\ at' = [c \in Clients |->
                IF at[c] \in {"reading", "collected"} THEN "refused" ELSE at[c]]
    /\ token' = [c \in Clients |-> IF at'[c] = "refused" THEN NoToken ELSE token[c]]
    /\ scanned' = [c \in Clients |-> 0]
    /\ taken' = [c \in Clients |-> NothingFound]
    /\ collected' = [c \in Clients |-> <<>>]
    /\ UNCHANGED <<board, query, got, listing, steady, sequence, sizes, listings, changes>>

\* A task command changes the board.
ChangeBoard ==
    /\ changes < MaxChanges
    /\ changes' = changes + 1
    /\ Next
    /\ UNCHANGED <<clients, snapshots, listings>>

PagesNext ==
    \/ \E c \in Clients :
         \/ \E q \in Queries : Begin(c, q) \/ Continue(c, q)
         \/ ReadProject(c)
         \/ FirstPage(c)
         \/ LaterPage(c)
    \/ Expire
    \/ Restart
    \/ ChangeBoard

PagesSpec == PagesInit /\ [][PagesNext]_vars

-----------------------------------------------------------------------------
\* A listing in the order of the ids never goes back, and misses no task that is
\* listed all the while, even when it is collected anew for every page of a
\* changing board (list_tasks.rs apply_page).
IdsAdvance ==
    \A c \in Clients : at[c] \in {"paging", "done"} /\ query[c].field = "id" =>
        /\ \A i, j \in 1 .. Len(got[c]) : i < j => Precedes(query[c], got[c][i], got[c][j])
        /\ at[c] = "done" => steady[c] \subseteq ListedIds(got[c])

\* The pages of a listing that is kept add up to what was read for its first
\* page, for the query it was made for: no task is left out or shown twice and
\* none was read later than that, however the board changes, other listings come
\* and go, and the settings change (snapshots.rs ListTasksSnapshots::page).
PagesAddUp ==
    /\ IdsAdvance
    /\ \A c \in Clients :
        /\ at[c] = "paging" /\ token[c].snapshot # 0 =>
             /\ Len(got[c]) \in 1 .. Len(listing[c]) - 1
             /\ got[c] = SubSeq(listing[c], 1, Len(got[c]))
             /\ got[c][Len(got[c])].id = token[c].after
             /\ token[c].binding = query[c]
        /\ at[c] = "done" /\ (query[c].size = NoLimit \/ Bytes(query[c], listing[c]) <= MaxBytes) =>
             got[c] = listing[c]

\* The snapshots never exceed their number and their bytes.
SnapshotsBounded == Len(store) <= MaxSnapshots /\ TotalBytes(store) <= MaxBytes

\* A token that is refused before its minute is over gave way to newer listings:
\* as many as are kept, or so large that it does not fit beside them
\* (snapshots.rs first_page).
OnlyNewerListingsEvict ==
    \A c \in Clients : at[c] = "paging" /\ token[c].snapshot > expired =>
        \/ \E i \in 1 .. Len(store) : store[i].id = token[c].snapshot
        \/ sequence - token[c].snapshot >= MaxSnapshots
        \/ Total(SubSeq(sizes, token[c].snapshot, sequence)) > MaxBytes

=============================================================================
