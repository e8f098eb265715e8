---------------------------- MODULE TaskIndexProofs ----------------------------
(***************************************************************************)
(* The task index for any directories, any number of writes and any limit  *)
(* of the cache: its watches match its entries, a read never shows less    *)
(* than it promised, and no entry is outdated for good.                    *)
(* The first fact carries the other two: an entry that is kept has both    *)
(* its watches, so whatever happens to it tells the index.                 *)
(***************************************************************************)
EXTENDS TaskIndex, FiniteSetTheorems, TLAPS

-----------------------------------------------------------------------------
(* The users of a path. *)

LEMMA DirectoriesFinite ==
    ASSUME NEW S \in SUBSET Directories
    PROVE  IsFiniteSet(S) /\ Cardinality(S) \in Nat
BY IndexAssumption, FS_Subset, FS_CardinalityType

LEMMA PathsOfDirectories ==
    ASSUME NEW d \in Directories
    PROVE  d \in WatchPaths /\ Parent[d] \in WatchPaths /\ Parent[d] # d /\ d # None
BY IndexAssumption DEF WatchPaths

LEMMA UsersOfUnion ==
    ASSUME NEW p, NEW S \in SUBSET Directories, NEW T \in SUBSET Directories, S \cap T = {}
    PROVE  /\ Users(p, S) \in Nat /\ Users(p, T) \in Nat
           /\ Users(p, S \cup T) = Users(p, S) + Users(p, T)
<1> DEFINE Self(U) == {d \in U : d = p}
           Child(U) == {d \in U : Parent[d] = p}
<1>1. \A U \in SUBSET Directories :
        /\ IsFiniteSet(Self(U)) /\ Cardinality(Self(U)) \in Nat
        /\ IsFiniteSet(Child(U)) /\ Cardinality(Child(U)) \in Nat
  BY DirectoriesFinite
<1>2. Self(S \cup T) = Self(S) \cup Self(T) /\ Self(S) \cap Self(T) = {}
  OBVIOUS
<1>3. Child(S \cup T) = Child(S) \cup Child(T) /\ Child(S) \cap Child(T) = {}
  OBVIOUS
<1>4. Cardinality({}) = 0
  BY FS_EmptySet
<1>5. Users(p, S) = Cardinality(Self(S)) + Cardinality(Child(S))
      /\ Users(p, T) = Cardinality(Self(T)) + Cardinality(Child(T))
      /\ Users(p, S \cup T) = Cardinality(Self(S \cup T)) + Cardinality(Child(S \cup T))
  BY DEF Users
<1> HIDE DEF Self, Child
<1>6. Cardinality(Self(S \cup T)) = Cardinality(Self(S)) + Cardinality(Self(T))
  <2>1. Cardinality(Self(S) \cup Self(T))
          = Cardinality(Self(S)) + Cardinality(Self(T)) - Cardinality(Self(S) \cap Self(T))
    BY <1>1, FS_Union
  <2>2. Cardinality(Self(S)) \in Nat /\ Cardinality(Self(T)) \in Nat
    BY <1>1
  <2>3. /\ Cardinality(Self(S \cup T)) = Cardinality(Self(S) \cup Self(T))
        /\ Cardinality(Self(S) \cap Self(T)) = 0
    BY <1>2, <1>4, Zenon
  <2>4. QED
    BY <2>1, <2>2, <2>3
<1>7. Cardinality(Child(S \cup T)) = Cardinality(Child(S)) + Cardinality(Child(T))
  <2>1. Cardinality(Child(S) \cup Child(T))
          = Cardinality(Child(S)) + Cardinality(Child(T)) - Cardinality(Child(S) \cap Child(T))
    BY <1>1, FS_Union
  <2>2. Cardinality(Child(S)) \in Nat /\ Cardinality(Child(T)) \in Nat
    BY <1>1
  <2>3. /\ Cardinality(Child(S \cup T)) = Cardinality(Child(S) \cup Child(T))
        /\ Cardinality(Child(S) \cap Child(T)) = 0
    BY <1>3, <1>4, Zenon
  <2>4. QED
    BY <2>1, <2>2, <2>3
<1>8. /\ Cardinality(Self(S)) \in Nat /\ Cardinality(Child(S)) \in Nat
      /\ Cardinality(Self(T)) \in Nat /\ Cardinality(Child(T)) \in Nat
  BY <1>1
<1>9. QED
  BY <1>5, <1>6, <1>7, <1>8

LEMMA UsersOfNone == \A p : Users(p, {}) = 0
<1> SUFFICES ASSUME NEW p PROVE Users(p, {}) = 0
  OBVIOUS
<1>1. {d \in {} : d = p} = {} /\ {d \in {} : Parent[d] = p} = {}
  OBVIOUS
<1>2. QED
  BY <1>1, FS_EmptySet DEF Users

LEMMA UsersLeft ==
    ASSUME NEW p, NEW S \in SUBSET Directories, NEW R \in SUBSET S
    PROVE  /\ Users(p, S \ R) \in Nat /\ Users(p, R) \in Nat /\ Users(p, S) \in Nat
           /\ Users(p, S \ R) = Users(p, S) - Users(p, R)
<1>1. (S \ R) \cap R = {} /\ (S \ R) \cup R = S
  OBVIOUS
<1>2. /\ Users(p, S \ R) \in Nat /\ Users(p, R) \in Nat
      /\ Users(p, (S \ R) \cup R) = Users(p, S \ R) + Users(p, R)
  BY <1>1, UsersOfUnion
<1>3. Users(p, S) = Users(p, S \ R) + Users(p, R)
  BY <1>1, <1>2
<1>4. QED
  BY <1>2, <1>3

LEMMA UsersOfOne ==
    ASSUME NEW p, NEW d \in Directories
    PROVE  Users(p, {d}) = IF p = d \/ p = Parent[d] THEN 1 ELSE 0
<1>1. {e \in {d} : e = p} = (IF p = d THEN {d} ELSE {})
  OBVIOUS
<1>2. {e \in {d} : Parent[e] = p} = (IF p = Parent[d] THEN {d} ELSE {})
  OBVIOUS
<1>3. Cardinality({d}) = 1 /\ Cardinality({}) = 0
  BY FS_Singleton, FS_EmptySet
<1>4. Users(p, {d}) = Cardinality(IF p = d THEN {d} ELSE {})
                      + Cardinality(IF p = Parent[d] THEN {d} ELSE {})
  BY <1>1, <1>2 DEF Users
<1>5. Parent[d] # d
  BY PathsOfDirectories
<1>6. CASE p = d
  BY <1>3, <1>4, <1>5, <1>6
<1>7. CASE p = Parent[d]
  BY <1>3, <1>4, <1>5, <1>7
<1>8. CASE p # d /\ p # Parent[d]
  BY <1>3, <1>4, <1>8
<1>9. QED
  BY <1>6, <1>7, <1>8

LEMMA UsersExist ==
    ASSUME NEW p, NEW S \in SUBSET Directories
    PROVE  Users(p, S) > 0 <=> p \in S \/ \E d \in S : Parent[d] = p
<1> DEFINE Self == {d \in S : d = p}
           Child == {d \in S : Parent[d] = p}
<1>1. /\ IsFiniteSet(Self) /\ Cardinality(Self) \in Nat
      /\ IsFiniteSet(Child) /\ Cardinality(Child) \in Nat
  BY DirectoriesFinite
<1>2. (Cardinality(Self) = 0 <=> Self = {}) /\ (Cardinality(Child) = 0 <=> Child = {})
  BY <1>1, FS_EmptySet
<1>3. (Self = {} <=> p \notin S) /\ (Child = {} <=> ~\E d \in S : Parent[d] = p)
  OBVIOUS
<1> HIDE DEF Self, Child
<1>4. Users(p, S) = Cardinality(Self) + Cardinality(Child)
  BY DEF Users, Self, Child
<1>5. Users(p, S) > 0 <=> Cardinality(Self) # 0 \/ Cardinality(Child) # 0
  BY <1>1, <1>4
<1>6. QED
  BY <1>2, <1>3, <1>5

\* A set of entries uses at most two paths each.
LEMMA UsedPaths ==
    ASSUME NEW S \in SUBSET Directories
    PROVE  /\ IsFiniteSet({p \in WatchPaths : Users(p, S) > 0})
           /\ Cardinality({p \in WatchPaths : Users(p, S) > 0}) <= 2 * Cardinality(S)
<1> DEFINE Above == {Parent[d] : d \in S}
           f == [d \in S |-> Parent[d]]
<1>1. IsFiniteSet(S) /\ Cardinality(S) \in Nat
  BY DirectoriesFinite
<1>2. f \in Surjection(S, Above)
  BY DEF Surjection
<1>3. IsFiniteSet(Above) /\ Cardinality(Above) <= Cardinality(S)
  BY <1>1, <1>2, FS_Surjection
<1>4. {p \in WatchPaths : Users(p, S) > 0} = S \cup Above
  <2>1. \A p \in WatchPaths : Users(p, S) > 0 <=> p \in S \cup Above
    BY UsersExist
  <2>2. S \cup Above \subseteq WatchPaths
    BY PathsOfDirectories
  <2>3. QED
    BY <2>1, <2>2
<1>5. IsFiniteSet(S \cup Above) /\ IsFiniteSet(S \cap Above)
      /\ Cardinality(S \cup Above) = Cardinality(S) + Cardinality(Above) - Cardinality(S \cap Above)
  BY <1>1, <1>3, FS_Union, FS_Intersection
<1>6. Cardinality(Above) \in Nat /\ Cardinality(S \cap Above) \in Nat
  BY <1>3, <1>5, FS_CardinalityType
<1> HIDE DEF Above
<1>7. Cardinality(S \cup Above) <= 2 * Cardinality(S)
  BY <1>1, <1>3, <1>5, <1>6
<1>8. QED
  BY <1>4, <1>5, <1>7

-----------------------------------------------------------------------------
(* The watches match the entries. *)

\* The stages of a read that holds both watches, and those of one that will
\* have an entry.
Holding == {"checking", "scanning", "retaining"}
Fetching == {"watching_parent", "watching_directory"} \cup Holding

\* What the read itself uses of a path.
Held(p) ==
    IF reader.stage = "watching_directory"
    THEN IF p = Parent[reader.directory] THEN 1 ELSE 0
    ELSE IF reader.stage \in Holding THEN Users(p, {reader.directory}) ELSE 0

Counted == \A p \in WatchPaths : watches[p] = Users(p, Entries) + Held(p)

\* A read that fetches a directory has made room for its entry.
RoomMade ==
    /\ Cardinality(Entries) <= MaxDirectories
    /\ reader.stage \in Fetching =>
         /\ reader.directory \notin Entries
         /\ Cardinality(Entries) < MaxDirectories
         /\ reader.stage # "watching_parent" => watching

\* The directory of a read, and the generations in their order.
Ordered ==
    /\ reader.stage # "idle" => reader.directory \in Directories
    /\ reader.before <= generation
    /\ applied <= ready
    /\ pending # "none" => ready < generation

VersionsCounted == \A d \in Directories : version[d] <= writes

IndexInv == TypeOK /\ Counted /\ RoomMade /\ Ordered /\ VersionsCounted

LEMMA HeldType ==
    ASSUME IndexInv, NEW p \in WatchPaths
    PROVE  /\ Held(p) \in {0, 1}
           /\ reader.stage \in Holding => Held(p) = Users(p, {reader.directory})
           /\ reader.stage \notin Holding \cup {"watching_directory"} => Held(p) = 0
<1>1. reader.stage \in Holding => reader.directory \in Directories
  BY DEF IndexInv, Ordered, Holding
<1>2. reader.stage \in Holding => Users(p, {reader.directory}) \in {0, 1}
  BY <1>1, UsersOfOne
<1>3. QED
  BY <1>2 DEF Held, Holding

LEMMA EntriesAreDirectories ==
    /\ Entries \in SUBSET Directories
    /\ IsFiniteSet(Entries) /\ Cardinality(Entries) \in Nat
BY DirectoriesFinite DEF Entries

\* The entries that are left, their watches and the watches that still tell.
LEMMA RemoveKeeps ==
    ASSUME IndexInv, NEW removed \in SUBSET Entries, NEW released \in SUBSET Directories,
           released = {} \/ (reader.stage \in Holding /\ released = {reader.directory}),
           RemoveWatched(removed, released)
    PROVE  /\ Entries' = Entries \ removed
           /\ entries' \in [Directories -> Versions \cup {None}]
           /\ \A d \in Entries' : entries'[d] = entries[d]
           /\ expired' \subseteq Entries'
           /\ watches' \in [WatchPaths -> Nat]
           /\ live' \subseteq {p \in WatchPaths : watches'[p] > 0}
           /\ \A p \in WatchPaths : watches'[p] =
                Users(p, Entries') + (IF released = {} THEN Held(p) ELSE 0)
           /\ \A p \in WatchPaths : watches'[p] > 0 /\ p \notin live' =>
                watches[p] > 0 /\ p \notin live
           /\ watching' = watching
           /\ Cardinality(Entries') <= Cardinality(Entries)
<1> USE DEF RemoveWatched
<1>1. Entries' = Entries \ removed
  BY DEF Entries, IndexInv, TypeOK
<1>2. /\ entries' \in [Directories -> Versions \cup {None}]
      /\ \A d \in Entries' : entries'[d] = entries[d]
      /\ expired' \subseteq Entries'
  BY <1>1 DEF Entries, IndexInv, TypeOK
<1>3. ASSUME NEW p \in WatchPaths
      PROVE  /\ watches'[p] \in Nat
             /\ watches'[p] = Users(p, Entries') + (IF released = {} THEN Held(p) ELSE 0)
             /\ watches'[p] <= watches[p]
  <2>1. watches'[p] = watches[p] - Users(p, removed) - Users(p, released)
    OBVIOUS
  <2>2. watches[p] = Users(p, Entries) + Held(p) /\ watches[p] \in Nat
    BY DEF IndexInv, Counted, TypeOK
  <2>3. /\ Users(p, Entries \ removed) \in Nat /\ Users(p, removed) \in Nat
        /\ Users(p, Entries) \in Nat
        /\ Users(p, Entries \ removed) = Users(p, Entries) - Users(p, removed)
    BY UsersLeft, EntriesAreDirectories
  <2>4. Held(p) \in {0, 1}
    BY HeldType
  <2>5. Users(p, released) = IF released = {} THEN 0 ELSE Held(p)
    BY UsersOfNone, HeldType
  <2>6. Users(p, Entries') = Users(p, Entries \ removed)
    BY <1>1, Zenon
  <2>7. QED
    BY <2>1, <2>2, <2>3, <2>4, <2>5, <2>6
<1>4. watches' = [p \in WatchPaths |-> watches'[p]]
  OBVIOUS
<1>5. watches' \in [WatchPaths -> Nat]
  BY <1>3, <1>4
<1>6. /\ live' \subseteq {p \in WatchPaths : watches'[p] > 0}
      /\ \A p \in WatchPaths : watches'[p] > 0 /\ p \notin live' => watches[p] > 0 /\ p \notin live
  BY <1>3 DEF IndexInv, TypeOK
<1>7. Cardinality(Entries') <= Cardinality(Entries)
  BY <1>1, EntriesAreDirectories, FS_Subset
<1>8. QED
  BY <1>1, <1>2, <1>3, <1>5, <1>6, <1>7

LEMMA DisableEmpties ==
    ASSUME Disable
    PROVE  /\ Entries' = {} /\ expired' = {} /\ live' = {} /\ watching' = FALSE
           /\ entries' \in [Directories -> Versions \cup {None}]
           /\ watches' \in [WatchPaths -> Nat]
           /\ \A p \in WatchPaths : watches'[p] = 0 /\ watches'[p] = Users(p, Entries')
           /\ Cardinality(Entries') = 0
<1>1. Entries' = {}
  BY DEF Disable, Entries
<1>2. QED
  BY <1>1, UsersOfNone, FS_EmptySet DEF Disable

\* What every removal leaves behind.
LEMMA RemovalKeeps ==
    ASSUME IndexInv, NEW removed \in SUBSET Entries, NEW released \in SUBSET Directories,
           released = {} \/ (reader.stage \in Holding /\ released = {reader.directory}),
           reader.stage \notin Holding \cup {"watching_directory"} \/ released # {},
           Remove(removed, released)
    PROVE  /\ Entries' \subseteq Entries \ removed
           /\ entries' \in [Directories -> Versions \cup {None}]
           /\ \A d \in Entries' : entries'[d] = entries[d]
           /\ expired' \subseteq Entries'
           /\ watches' \in [WatchPaths -> Nat]
           /\ live' \subseteq {p \in WatchPaths : watches'[p] > 0}
           /\ \A p \in WatchPaths : watches'[p] = Users(p, Entries')
           /\ \A p \in WatchPaths : watches'[p] > 0 /\ p \notin live' =>
                watches[p] > 0 /\ p \notin live
           /\ watching' \in BOOLEAN
           /\ Cardinality(Entries') <= Cardinality(Entries)
<1>1. CASE Disable
  BY <1>1, DisableEmpties, EntriesAreDirectories
<1>2. CASE RemoveWatched(removed, released)
  <2>1. \A p \in WatchPaths : watches'[p] = Users(p, Entries')
    <3> SUFFICES ASSUME NEW p \in WatchPaths PROVE watches'[p] = Users(p, Entries')
      OBVIOUS
    <3>1. watches'[p] = Users(p, Entries') + (IF released = {} THEN Held(p) ELSE 0)
      BY <1>2, RemoveKeeps
    <3>2. (IF released = {} THEN Held(p) ELSE 0) = 0
      BY HeldType
    <3>3. Users(p, Entries') \in Nat
      BY <1>2, RemoveKeeps, UsersLeft, EntriesAreDirectories
    <3>4. QED
      BY <3>1, <3>2, <3>3
  <2>2. QED
    BY <1>2, <2>1, RemoveKeeps DEF IndexInv, TypeOK
<1>3. QED
  BY <1>1, <1>2 DEF Remove

LEMMA IndexInit == Init => IndexInv
<1> SUFFICES ASSUME Init PROVE IndexInv
  OBVIOUS
<1>1. Entries = {} /\ 0 \in Versions
  BY IndexAssumption DEF Init, Entries, Versions
<1>2. TypeOK
  <2>1. reader \in [stage: Stages, directory: Directories \cup {None}, before: Nat,
                    found: Versions, floor: Versions]
    BY <1>1 DEF Init, Idle, Stages
  <2>2. events \in Seq(FileEvents) /\ ready \in 0 .. generation
    BY DEF Init
  <2>3. returned \in [floor: Versions, version: Versions]
    BY <1>1 DEF Init
  <2>4. version \in [Directories -> Versions] /\ entries \in [Directories -> Versions \cup {None}]
    BY <1>1 DEF Init
  <2>5. QED
    BY <1>1, <2>1, <2>2, <2>3, <2>4 DEF Init, TypeOK
<1>3. Counted
  BY <1>1, UsersOfNone, FS_EmptySet DEF Init, Counted, Held, Idle, Holding
<1>4. RoomMade
  BY <1>1, IndexAssumption, FS_EmptySet DEF Init, RoomMade, Idle, Fetching, Holding
<1>5. Ordered /\ VersionsCounted
  BY DEF Init, Ordered, VersionsCounted, Idle
<1>6. QED
  BY <1>2, <1>3, <1>4, <1>5 DEF IndexInv

-----------------------------------------------------------------------------
(* Steps of a read. *)

\* The types of what a read and the removals change.
IndexTypes ==
    /\ entries \in [Directories -> Versions \cup {None}]
    /\ expired \subseteq Entries
    /\ watches \in [WatchPaths -> Nat]
    /\ watching \in BOOLEAN
    /\ live \subseteq {p \in WatchPaths : watches[p] > 0}
    /\ applied \in Nat
    /\ reader \in [stage: Stages, directory: Directories \cup {None}, before: Nat,
                   found: Versions, floor: Versions]

ChangeTypes ==
    /\ events \in Seq(FileEvents)
    /\ generation \in Nat
    /\ ready \in 0 .. generation
    /\ pending \in {"none", "young", "old"}
    /\ failed \in BOOLEAN

LEMMA TypesTogether ==
    ASSUME IndexInv, UNCHANGED disk, UNCHANGED <<seen, promised>>,
           returned' \in [floor: Versions, version: Versions], IndexTypes', ChangeTypes'
    PROVE  TypeOK'
BY DEF IndexInv, TypeOK, IndexTypes, ChangeTypes, disk, Entries

LEMMA SettleKeepsTypes ==
    ASSUME IndexInv, Settle
    PROVE  /\ ChangeTypes' /\ ready' \in {ready, generation} /\ applied <= ready'
           /\ generation' = generation /\ failed' = failed /\ ready' <= generation
           /\ pending' # "none" => ready' < generation'
           /\ ready' # ready => pending = "old" /\ applied < ready'
BY DEF IndexInv, TypeOK, ChangeTypes, Ordered, Settle

LEMMA ChangesStay ==
    ASSUME IndexInv, UNCHANGED changes
    PROVE  /\ ChangeTypes' /\ generation' = generation /\ failed' = failed /\ ready' = ready
           /\ pending' = pending /\ applied <= ready' /\ ready' <= generation
           /\ pending' # "none" => ready' < generation'
BY DEF IndexInv, TypeOK, ChangeTypes, Ordered, changes

LEMMA BeginKeepsIndex ==
    ASSUME IndexInv, NEW d \in Directories, Begin(d)
    PROVE  IndexInv'
<1> USE DEF Begin
<1>1. d \in Directories /\ promised[d] \in Versions /\ 0 \in Versions
  BY IndexAssumption DEF IndexInv, TypeOK, Versions
<1>2. reader.stage \notin Holding \cup {"watching_directory"} /\ UNCHANGED <<seen, promised, returned>>
  BY DEF Holding, history
<1>3. VersionsCounted' /\ returned' \in [floor: Versions, version: Versions]
  BY <1>2 DEF IndexInv, VersionsCounted, TypeOK, disk
<1>4. CASE failed
  <2>1. reader' = [stage |-> "scanning_uncached", directory |-> d, before |-> 0, found |-> 0,
                   floor |-> promised[d]]
    BY <1>4 DEF Idle
  <2>2. IndexTypes'
    BY <1>1, <1>4, <2>1, DisableEmpties DEF IndexTypes, Stages, IndexInv, TypeOK
  <2>3. Counted'
    BY <1>4, <2>1, DisableEmpties, UsersOfNone DEF Counted, Held, Holding
  <2>4. RoomMade'
    BY <1>4, <2>1, DisableEmpties, IndexAssumption DEF RoomMade, Fetching, Holding
  <2>5. Ordered'
    BY <1>1, <1>4, <2>1, ChangesStay DEF Ordered, ChangeTypes
  <2>6. QED
    BY <1>2, <1>3, <1>4, <2>2, <2>3, <2>4, <2>5, ChangesStay, TypesTogether DEF IndexInv
<1>5. CASE ~failed
  <2>1. reader' = [stage |-> "looking_up", directory |-> d, before |-> 0, found |-> 0,
                   floor |-> promised[d]]
    BY <1>5 DEF Idle
  <2> DEFINE removed == IF applied # ready' THEN Entries ELSE {}
  <2>2. Settle /\ applied' = ready' /\ Remove(removed, {}) /\ removed \in SUBSET Entries
    BY <1>5 DEF Applies
  <2>3. /\ Entries' \subseteq Entries
        /\ entries' \in [Directories -> Versions \cup {None}]
        /\ expired' \subseteq Entries'
        /\ watches' \in [WatchPaths -> Nat]
        /\ live' \subseteq {p \in WatchPaths : watches'[p] > 0}
        /\ \A p \in WatchPaths : watches'[p] = Users(p, Entries')
        /\ watching' \in BOOLEAN
        /\ Cardinality(Entries') <= Cardinality(Entries)
    <3> HIDE DEF removed
    <3>1. {} \in SUBSET Directories
      OBVIOUS
    <3>2. QED
      BY <1>2, <2>2, <3>1, RemovalKeeps
  <2>4. IndexTypes'
    BY <1>1, <2>1, <2>2, <2>3, SettleKeepsTypes DEF IndexTypes, ChangeTypes, Stages
  <2>5. Counted'
    <3>1. \A p \in WatchPaths : Held(p)' = 0 /\ Users(p, Entries') \in Nat
      BY <2>1, <2>3, EntriesAreDirectories, UsersLeft DEF Held, Holding
    <3>2. QED
      BY <2>3, <3>1 DEF Counted
  <2>6. RoomMade'
    <3>1. Cardinality(Entries') \in Nat /\ Cardinality(Entries) \in Nat
      BY <2>3, EntriesAreDirectories, DirectoriesFinite
    <3>2. QED
      BY <2>1, <2>3, <3>1, IndexAssumption DEF IndexInv, RoomMade, Fetching, Holding
  <2>7. Ordered'
    BY <1>1, <2>1, <2>2, SettleKeepsTypes DEF Ordered, ChangeTypes
  <2>8. QED
    BY <1>2, <1>3, <2>2, <2>4, <2>5, <2>6, <2>7, SettleKeepsTypes, TypesTogether DEF IndexInv
<1>6. QED
  BY <1>4, <1>5

\* A read goes on with its directory.
LEMMA ReaderMoves ==
    ASSUME IndexInv, NEW stage \in Stages, reader' = [reader EXCEPT !.stage = stage]
    PROVE  /\ reader' \in [stage: Stages, directory: Directories \cup {None}, before: Nat,
                           found: Versions, floor: Versions]
           /\ reader'.stage = stage /\ reader'.directory = reader.directory
           /\ reader'.before = reader.before /\ reader'.found = reader.found
           /\ reader'.floor = reader.floor
BY DEF IndexInv, TypeOK

LEMMA MissKeepsIndex ==
    ASSUME IndexInv, Miss
    PROVE  IndexInv'
<1> USE DEF Miss, GoTo
<1> DEFINE own == Entries \cap {reader.directory}
           others == Entries \ {reader.directory}
<1>1. /\ reader.stage = "looking_up" /\ reader.directory \in Directories
      /\ reader.stage \notin Holding \cup {"watching_directory"}
      /\ UNCHANGED <<disk, changes, applied, seen, promised, returned>>
  BY DEF IndexInv, Ordered, Holding, history
<1>2. /\ reader' \in [stage: Stages, directory: Directories \cup {None}, before: Nat,
                      found: Versions, floor: Versions]
      /\ reader'.stage = "watching_parent" /\ reader'.directory = reader.directory
      /\ reader'.before = reader.before
  BY ReaderMoves DEF Stages
<1>3. PICK removed \in SUBSET Entries :
        /\ own \subseteq removed
        /\ Cardinality(others) = MaxDirectories => \E oldest \in others : oldest \in removed
        /\ Remove(removed, {})
  <2>1. CASE Cardinality(others) = MaxDirectories
    <3>1. PICK oldest \in others : Remove(own \cup {oldest}, {})
      BY <2>1
    <3>2. WITNESS own \cup {oldest} \in SUBSET Entries
    <3>3. QED
      BY <3>1
  <2>2. CASE Cardinality(others) # MaxDirectories
    <3>1. Remove(own, {})
      BY <2>2
    <3>2. WITNESS own \in SUBSET Entries
    <3>3. QED
      BY <2>2, <3>1
  <2>3. QED
    BY <2>1, <2>2
<1>4. /\ Entries' \subseteq Entries \ removed
      /\ entries' \in [Directories -> Versions \cup {None}]
      /\ expired' \subseteq Entries'
      /\ watches' \in [WatchPaths -> Nat]
      /\ live' \subseteq {p \in WatchPaths : watches'[p] > 0}
      /\ \A p \in WatchPaths : watches'[p] = Users(p, Entries')
      /\ watching' \in BOOLEAN
  BY <1>1, <1>3, RemovalKeeps
<1>5. IndexTypes'
  BY <1>1, <1>2, <1>4 DEF IndexTypes, IndexInv, TypeOK
<1>6. Counted'
  <2>1. \A p \in WatchPaths : Held(p)' = 0 /\ Users(p, Entries') \in Nat
    BY <1>2, <1>4, EntriesAreDirectories, UsersLeft DEF Held, Holding
  <2>2. QED
    BY <1>4, <2>1 DEF Counted
<1>7. Cardinality(Entries') < MaxDirectories /\ reader.directory \notin Entries'
  <2>1. reader.directory \notin Entries' /\ Entries' \subseteq others
    BY <1>3, <1>4
  <2>2. IsFiniteSet(others) /\ Cardinality(others) \in Nat /\ Cardinality(others) <= MaxDirectories
    BY EntriesAreDirectories, FS_Subset, FS_CardinalityType, IndexAssumption DEF IndexInv, RoomMade
  <2>3. IsFiniteSet(Entries') /\ Cardinality(Entries') \in Nat
        /\ Cardinality(Entries') <= Cardinality(others)
        /\ (Cardinality(others) = Cardinality(Entries') => others = Entries')
    BY <2>1, <2>2, FS_Subset, FS_CardinalityType
  <2>4. Cardinality(others) = MaxDirectories => others # Entries'
    BY <1>3, <1>4
  <2>5. QED
    BY <2>1, <2>2, <2>3, <2>4, IndexAssumption
<1>8. RoomMade' /\ Ordered' /\ VersionsCounted'
  <2>1. RoomMade'
    <3>1. Cardinality(Entries') \in Nat
      BY <1>4, EntriesAreDirectories, DirectoriesFinite
    <3>2. QED
      BY <1>2, <1>7, <3>1, IndexAssumption DEF RoomMade, Fetching
  <2>2. Ordered' /\ VersionsCounted'
    BY <1>1, <1>2 DEF IndexInv, Ordered, VersionsCounted, changes, disk
  <2>3. QED
    BY <2>1, <2>2
<1>9. TypeOK'
  BY <1>1, <1>5, ChangesStay, TypesTogether DEF IndexInv, TypeOK
<1>10. QED
  BY <1>6, <1>8, <1>9 DEF IndexInv

\* A step that leaves entries and watches alone keeps what a read holds, unless
\* it moves the read to another stage.
LEMMA StillCounted ==
    ASSUME IndexInv, UNCHANGED <<entries, watches, watching>>,
           reader'.directory = reader.directory \/ reader'.stage = "idle",
           \/ reader'.stage = reader.stage
           \/ reader.stage \in Holding /\ reader'.stage \in Holding
           \/ reader.stage \notin Holding \cup {"watching_directory"}
              /\ reader'.stage \notin Fetching
    PROVE  Counted' /\ RoomMade'
<1>1. Entries' = Entries
  BY DEF Entries
<1>2. \A p \in WatchPaths : Held(p)' = Held(p)
  BY DEF Held, Holding, Fetching
<1>3. \A p \in WatchPaths : Users(p, Entries)' = Users(p, Entries)
  BY <1>1
<1>4. QED
  BY <1>1, <1>2, <1>3, Zenon DEF IndexInv, Counted, RoomMade, Fetching, Holding

LEMMA HitKeepsIndex ==
    ASSUME IndexInv, Hit
    PROVE  IndexInv'
<1> USE DEF Hit
<1>1. /\ reader.directory \in Directories /\ entries[reader.directory] \in Versions
      /\ reader.stage = "looking_up"
  BY DEF IndexInv, TypeOK, Entries
<1>2. /\ reader' \in [stage: Stages, directory: Directories \cup {None}, before: Nat,
                      found: Versions, floor: Versions]
      /\ reader'.stage = "returning" /\ reader'.directory = reader.directory
      /\ reader'.before = reader.before
  BY <1>1 DEF IndexInv, TypeOK, Stages
<1>3. Counted' /\ RoomMade'
  BY <1>1, <1>2, StillCounted DEF index, Holding, Fetching
<1>4. TypeOK'
  BY <1>2 DEF IndexInv, TypeOK, disk, changes, index, history
<1>5. Ordered' /\ VersionsCounted'
  BY <1>1, <1>2 DEF IndexInv, Ordered, VersionsCounted, disk, changes, index
<1>6. QED
  BY <1>3, <1>4, <1>5 DEF IndexInv

LEMMA ScanKeepsIndex ==
    ASSUME IndexInv, Scan
    PROVE  IndexInv'
<1> USE DEF Scan
<1>1. /\ reader.directory \in Directories /\ version[reader.directory] \in Versions
      /\ reader.stage \in {"scanning", "scanning_uncached"}
  BY DEF IndexInv, TypeOK, Ordered
<1>2. /\ reader' \in [stage: Stages, directory: Directories \cup {None}, before: Nat,
                      found: Versions, floor: Versions]
      /\ reader'.stage = (IF reader.stage = "scanning" THEN "retaining" ELSE "returning")
      /\ reader'.directory = reader.directory
      /\ reader'.before = reader.before
  BY <1>1 DEF IndexInv, TypeOK, Stages
<1>3. Counted' /\ RoomMade'
  BY <1>1, <1>2, StillCounted DEF index, Holding, Fetching
<1>4. TypeOK'
  BY <1>2 DEF IndexInv, TypeOK, disk, changes, index, history
<1>5. Ordered' /\ VersionsCounted'
  BY <1>1, <1>2 DEF IndexInv, Ordered, VersionsCounted, disk, changes, index
<1>6. QED
  BY <1>3, <1>4, <1>5 DEF IndexInv

LEMMA ReturnKeepsIndex ==
    ASSUME IndexInv, Return
    PROVE  IndexInv'
<1> USE DEF Return
<1>1. reader' = [stage |-> "idle", directory |-> None, before |-> 0, found |-> 0, floor |-> 0]
      /\ reader.stage = "returning" /\ 0 \in Versions
  BY IndexAssumption DEF Idle, Versions
<1>2. reader' \in [stage: Stages, directory: Directories \cup {None}, before: Nat,
                   found: Versions, floor: Versions]
      /\ returned' \in [floor: Versions, version: Versions]
  BY <1>1 DEF IndexInv, TypeOK, Stages
<1>3. Counted' /\ RoomMade'
  BY <1>1, StillCounted DEF index, Holding, Fetching
<1>4. TypeOK'
  BY <1>2 DEF IndexInv, TypeOK, disk, changes, index
<1>5. Ordered' /\ VersionsCounted'
  BY <1>1 DEF IndexInv, TypeOK, Ordered, VersionsCounted, disk, changes, index
<1>6. QED
  BY <1>3, <1>4, <1>5 DEF IndexInv

LEMMA CheckKeepsIndex ==
    ASSUME IndexInv, Check
    PROVE  IndexInv'
<1> USE DEF Check, GoTo
<1>1. reader.stage = "checking" /\ reader.directory \in Directories
  BY DEF IndexInv, Ordered
<1>2. VersionsCounted' /\ UNCHANGED <<disk, seen, promised, returned, applied>>
  BY DEF IndexInv, VersionsCounted, disk, history
<1>3. CASE failed
  <2>1. /\ reader' \in [stage: Stages, directory: Directories \cup {None}, before: Nat,
                        found: Versions, floor: Versions]
        /\ reader'.stage = "scanning_uncached" /\ reader'.directory = reader.directory
        /\ reader'.before = reader.before
    BY <1>3, ReaderMoves DEF Stages
  <2>2. IndexTypes'
    BY <1>2, <1>3, <2>1, DisableEmpties DEF IndexTypes, IndexInv, TypeOK
  <2>3. Counted' /\ RoomMade'
    BY <1>3, <2>1, DisableEmpties, UsersOfNone, IndexAssumption
       DEF Counted, Held, RoomMade, Fetching, Holding
  <2>4. Ordered'
    BY <1>1, <1>2, <1>3, <2>1 DEF IndexInv, Ordered, changes
  <2>5. TypeOK'
    BY <1>2, <1>3, <2>2, ChangesStay, TypesTogether DEF IndexInv, TypeOK
  <2>6. QED
    BY <1>2, <2>3, <2>4, <2>5 DEF IndexInv
<1>4. CASE ~failed
  <2>1. /\ reader' \in [stage: Stages, directory: Directories \cup {None}, before: Nat,
                        found: Versions, floor: Versions]
        /\ reader'.stage = "scanning" /\ reader'.directory = reader.directory
        /\ reader'.before = generation
    BY <1>4 DEF IndexInv, TypeOK, Stages
  <2>2. Counted' /\ RoomMade'
    BY <1>1, <1>4, <2>1, StillCounted DEF Holding
  <2>3. IndexTypes'
    BY <1>2, <1>4, <2>1 DEF IndexTypes, IndexInv, TypeOK, Entries
  <2>4. Ordered'
    BY <1>1, <1>2, <1>4, <2>1, SettleKeepsTypes DEF Ordered, ChangeTypes
  <2>5. TypeOK'
    BY <1>2, <1>4, <2>3, SettleKeepsTypes, TypesTogether DEF IndexInv, TypeOK
  <2>6. QED
    BY <1>2, <2>2, <2>4, <2>5 DEF IndexInv
<1>5. QED
  BY <1>3, <1>4

\* One more user of a path that must be watched first, or that is watched.
LEMMA WatchKeepsIndex ==
    ASSUME IndexInv, WatchBoth
    PROVE  IndexInv'
<1> USE DEF WatchBoth, GoTo
<1> DEFINE path == IF reader.stage = "watching_parent" THEN Parent[reader.directory]
                   ELSE reader.directory
<1>1. /\ reader.stage \in {"watching_parent", "watching_directory"}
      /\ reader.directory \in Directories /\ path \in WatchPaths
      /\ reader.directory \notin Entries /\ Cardinality(Entries) < MaxDirectories
      /\ UNCHANGED <<disk, changes, applied, seen, promised, returned>>
  BY PathsOfDirectories DEF IndexInv, Ordered, RoomMade, Fetching, history
<1>2. VersionsCounted'
  BY <1>1 DEF IndexInv, VersionsCounted, disk
<1>3. CASE Disable /\ GoTo("scanning_uncached")
  <2>1. /\ reader' \in [stage: Stages, directory: Directories \cup {None}, before: Nat,
                        found: Versions, floor: Versions]
        /\ reader'.stage = "scanning_uncached" /\ reader'.directory = reader.directory
        /\ reader'.before = reader.before
    BY <1>3, ReaderMoves DEF Stages
  <2>2. IndexTypes'
    BY <1>1, <1>3, <2>1, DisableEmpties DEF IndexTypes, IndexInv, TypeOK
  <2>3. Counted' /\ RoomMade'
    BY <1>3, <2>1, DisableEmpties, UsersOfNone, IndexAssumption
       DEF Counted, Held, RoomMade, Fetching, Holding
  <2>4. Ordered'
    BY <1>1, <2>1 DEF IndexInv, Ordered, changes
  <2>5. TypeOK'
    BY <1>1, <2>2, ChangesStay, TypesTogether DEF IndexInv, TypeOK
  <2>6. QED
    BY <1>2, <2>3, <2>4, <2>5 DEF IndexInv
<1>4. CASE ~(Disable /\ GoTo("scanning_uncached"))
  <2> DEFINE Left(dropped) == [p \in WatchPaths |-> watches[p] - Users(p, dropped)]
  <2>1. /\ watching /\ watching' = watching
        /\ GoTo(IF reader.stage = "watching_parent" THEN "watching_directory" ELSE "checking")
    BY <1>4 DEF Watch
  <2>2. PICK dropped \in SUBSET Entries :
          /\ entries' = [d \in Directories |-> IF d \in dropped THEN None ELSE entries[d]]
          /\ expired' = expired \ dropped
          /\ watches' = [Left(dropped) EXCEPT ![path] = @ + 1]
          /\ live' = {p \in live : Left(dropped)[p] > 0}
                     \cup (IF watches[path] = 0 THEN {path} ELSE {})
    BY <1>4 DEF Watch
  <2> HIDE DEF path
  <2>3. /\ reader' \in [stage: Stages, directory: Directories \cup {None}, before: Nat,
                        found: Versions, floor: Versions]
        /\ reader'.stage = (IF reader.stage = "watching_parent" THEN "watching_directory"
                            ELSE "checking")
        /\ reader'.directory = reader.directory /\ reader'.before = reader.before
    BY <1>1, <2>1, ReaderMoves DEF Stages
  <2>4. Entries' = Entries \ dropped
    BY <2>2 DEF Entries, IndexInv, TypeOK
  <2>5. ASSUME NEW p \in WatchPaths
        PROVE  /\ Left(dropped)[p] = Users(p, Entries') + Held(p)
               /\ Left(dropped)[p] \in Nat
               /\ watches'[p] = Left(dropped)[p] + (IF p = path THEN 1 ELSE 0)
               /\ watches[p] = 0 => Left(dropped)[p] = 0
    <3>1. watches[p] = Users(p, Entries) + Held(p) /\ watches[p] \in Nat
      BY DEF IndexInv, Counted, TypeOK
    <3>2. /\ Users(p, Entries \ dropped) \in Nat /\ Users(p, dropped) \in Nat
          /\ Users(p, Entries) \in Nat
          /\ Users(p, Entries \ dropped) = Users(p, Entries) - Users(p, dropped)
      BY UsersLeft, EntriesAreDirectories
    <3>3. Held(p) \in {0, 1}
      BY HeldType
    <3>4. Users(p, Entries') = Users(p, Entries \ dropped)
      BY <2>4, Zenon
    <3>5. Left(dropped)[p] = watches[p] - Users(p, dropped)
      OBVIOUS
    <3>6. watches'[p] = Left(dropped)[p] + (IF p = path THEN 1 ELSE 0)
      <4>1. Left(dropped)[p] \in Nat
        BY <3>1, <3>2, <3>3, <3>5
      <4>2. watches'[p] = IF p = path THEN Left(dropped)[p] + 1 ELSE Left(dropped)[p]
        BY <1>1, <2>2
      <4>3. QED
        BY <4>1, <4>2
    <3> HIDE DEF Left
    <3>7. QED
      BY <3>1, <3>2, <3>3, <3>4, <3>5, <3>6
  <2>6. Counted'
    <3> SUFFICES ASSUME NEW p \in WatchPaths PROVE watches'[p] = Users(p, Entries') + Held(p)'
      BY DEF Counted
    <3>1. Held(p)' = Held(p) + (IF p = path THEN 1 ELSE 0)
      <4>1. CASE reader.stage = "watching_parent"
        BY <1>1, <2>3, <4>1 DEF path, Held, Holding
      <4>2. CASE reader.stage = "watching_directory"
        <5>1. Users(p, {reader.directory}) = IF p = reader.directory \/ p = Parent[reader.directory]
                                             THEN 1 ELSE 0
          BY <1>1, UsersOfOne
        <5>2. Held(p)' = Users(p, {reader.directory})
          BY <2>3, <4>2 DEF Held, Holding
        <5>3. Parent[reader.directory] # reader.directory
          BY <1>1, PathsOfDirectories
        <5>4. QED
          BY <4>2, <5>1, <5>2, <5>3 DEF path, Held
      <4>3. QED
        BY <1>1, <4>1, <4>2
    <3>2. Users(p, Entries') \in Nat /\ Held(p) \in {0, 1}
      BY <2>4, HeldType, UsersLeft, EntriesAreDirectories
    <3> HIDE DEF Left
    <3>3. QED
      BY <2>5, <3>1, <3>2
  <2>7. RoomMade'
    <3>1. Cardinality(Entries') \in Nat /\ Cardinality(Entries') <= Cardinality(Entries)
          /\ Cardinality(Entries) \in Nat
      BY <2>4, EntriesAreDirectories, FS_Subset, FS_CardinalityType
    <3>2. QED
      BY <1>1, <2>1, <2>3, <2>4, <3>1, IndexAssumption DEF RoomMade, Fetching, Holding
  <2>8. IndexTypes'
    <3>1. watches' = [p \in WatchPaths |-> watches'[p]] /\ \A p \in WatchPaths : watches'[p] \in Nat
      BY <2>2, <2>5
    <3>2. watches' \in [WatchPaths -> Nat]
      BY <3>1
    <3>3. live' \subseteq {p \in WatchPaths : watches'[p] > 0}
      BY <1>1, <2>2, <2>5 DEF IndexInv, TypeOK
    <3>4. entries' \in [Directories -> Versions \cup {None}] /\ expired' \subseteq Entries'
      BY <2>2, <2>4 DEF IndexInv, TypeOK, Entries
    <3>5. QED
      BY <1>1, <2>1, <2>3, <3>2, <3>3, <3>4 DEF IndexTypes, IndexInv, TypeOK
  <2>9. Ordered'
    BY <1>1, <2>3 DEF IndexInv, Ordered, changes
  <2>10. TypeOK'
    BY <1>1, <2>8, ChangesStay, TypesTogether DEF IndexInv, TypeOK
  <2>11. QED
    BY <1>2, <2>6, <2>7, <2>9, <2>10 DEF IndexInv
<1>5. QED
  BY <1>3, <1>4

LEMMA RetainKeepsIndex ==
    ASSUME IndexInv, RetainScan
    PROVE  IndexInv'
<1> USE DEF RetainScan, GoTo
<1>1. /\ reader.stage = "retaining" /\ reader.directory \in Directories
      /\ reader.directory \notin Entries /\ Cardinality(Entries) < MaxDirectories
      /\ reader.found \in Versions /\ reader.found # None
      /\ UNCHANGED <<disk, applied, watching, seen, promised, returned>>
  BY IndexAssumption DEF IndexInv, TypeOK, Ordered, RoomMade, Fetching, Holding, history, Versions
<1>2. /\ reader' \in [stage: Stages, directory: Directories \cup {None}, before: Nat,
                      found: Versions, floor: Versions]
      /\ reader'.stage = "returning" /\ reader'.directory = reader.directory
      /\ reader'.before = reader.before
  BY ReaderMoves DEF Stages
<1>3. PICK dropped \in SUBSET (Entries \ {reader.directory}) :
        /\ entries' = [d \in Directories |-> IF d = reader.directory THEN reader.found
                                             ELSE IF d \in dropped THEN None ELSE entries[d]]
        /\ expired' = expired \ dropped
        /\ watches' = [p \in WatchPaths |-> watches[p] - Users(p, dropped)]
        /\ live' = {p \in live : watches'[p] > 0}
  OBVIOUS
<1>4. Entries' = (Entries \ dropped) \cup {reader.directory}
  BY <1>1, <1>3 DEF Entries, IndexInv, TypeOK
<1>5. ASSUME NEW p \in WatchPaths
      PROVE  watches'[p] = Users(p, Entries') /\ watches'[p] \in Nat
  <2>1. watches[p] = Users(p, Entries) + Held(p) /\ Held(p) = Users(p, {reader.directory})
    BY <1>1, HeldType DEF IndexInv, Counted, Holding
  <2>2. /\ Users(p, Entries \ dropped) \in Nat /\ Users(p, dropped) \in Nat
        /\ Users(p, Entries) \in Nat
        /\ Users(p, Entries \ dropped) = Users(p, Entries) - Users(p, dropped)
    BY UsersLeft, EntriesAreDirectories
  <2>3. /\ Users(p, {reader.directory}) \in Nat
        /\ Users(p, (Entries \ dropped) \cup {reader.directory})
             = Users(p, Entries \ dropped) + Users(p, {reader.directory})
    <3>1. (Entries \ dropped) \cap {reader.directory} = {}
          /\ Entries \ dropped \in SUBSET Directories /\ {reader.directory} \in SUBSET Directories
      BY <1>1, EntriesAreDirectories
    <3>2. QED
      BY <3>1, UsersOfUnion
  <2>4. Users(p, Entries') = Users(p, (Entries \ dropped) \cup {reader.directory})
    BY <1>4, Zenon
  <2>5. watches'[p] = watches[p] - Users(p, dropped)
    BY <1>3
  <2>6. QED
    BY <2>1, <2>2, <2>3, <2>4, <2>5
<1>6. Counted'
  <2>1. \A p \in WatchPaths : Held(p)' = 0
    BY <1>2 DEF Held, Holding
  <2>2. \A p \in WatchPaths : watches'[p] = Users(p, Entries') + 0
    BY <1>5
  <2>3. QED
    BY <2>1, <2>2 DEF Counted
<1>7. RoomMade'
  <2>1. /\ IsFiniteSet(Entries \ dropped) /\ Cardinality(Entries \ dropped) \in Nat
        /\ Cardinality(Entries \ dropped) <= Cardinality(Entries)
        /\ reader.directory \notin Entries \ dropped
    BY <1>1, EntriesAreDirectories, FS_Subset, FS_CardinalityType
  <2>2. Cardinality((Entries \ dropped) \cup {reader.directory}) = Cardinality(Entries \ dropped) + 1
    BY <2>1, FS_AddElement
  <2>3. Cardinality(Entries') = Cardinality(Entries \ dropped) + 1
    BY <1>4, <2>2
  <2>4. QED
    BY <1>1, <1>2, <2>1, <2>3, EntriesAreDirectories, IndexAssumption
       DEF RoomMade, Fetching, Holding
<1>8. IndexTypes'
  <2>1. watches' \in [WatchPaths -> Nat]
    BY <1>3, <1>5
  <2>2. live' \subseteq {p \in WatchPaths : watches'[p] > 0}
    BY <1>3 DEF IndexInv, TypeOK
  <2>3. entries' \in [Directories -> Versions \cup {None}] /\ expired' \subseteq Entries'
    BY <1>1, <1>3, <1>4 DEF IndexInv, TypeOK, Entries
  <2>4. QED
    BY <1>1, <1>2, <2>1, <2>2, <2>3 DEF IndexTypes, IndexInv, TypeOK
<1>9. Ordered' /\ VersionsCounted'
  BY <1>1, <1>2, SettleKeepsTypes DEF IndexInv, Ordered, VersionsCounted, ChangeTypes, disk
<1>10. TypeOK'
  BY <1>1, <1>8, SettleKeepsTypes, TypesTogether DEF IndexInv, TypeOK
<1>11. QED
  BY <1>6, <1>7, <1>9, <1>10 DEF IndexInv

LEMMA DropKeepsIndex ==
    ASSUME IndexInv, DropScan
    PROVE  IndexInv'
<1> USE DEF DropScan, GoTo
<1>1. /\ reader.stage = "retaining" /\ reader.stage \in Holding /\ watching
      /\ reader.directory \in Directories
      /\ UNCHANGED <<disk, applied, seen, promised, returned>>
  BY DEF IndexInv, Ordered, RoomMade, Fetching, Holding, history
<1>2. /\ reader' \in [stage: Stages, directory: Directories \cup {None}, before: Nat,
                      found: Versions, floor: Versions]
      /\ reader'.stage = "returning" /\ reader'.directory = reader.directory
      /\ reader'.before = reader.before
  BY ReaderMoves DEF Stages
<1>3. /\ Entries' \subseteq Entries
      /\ entries' \in [Directories -> Versions \cup {None}]
      /\ expired' \subseteq Entries'
      /\ watches' \in [WatchPaths -> Nat]
      /\ live' \subseteq {p \in WatchPaths : watches'[p] > 0}
      /\ \A p \in WatchPaths : watches'[p] = Users(p, Entries')
      /\ watching' \in BOOLEAN
      /\ Cardinality(Entries') <= Cardinality(Entries)
  <2>1. CASE failed
    BY <2>1, DisableEmpties, EntriesAreDirectories
  <2>2. CASE ~failed
    <3>1. Remove({}, {reader.directory})
      BY <1>1, <2>2
    <3>2. {} \in SUBSET Entries /\ {reader.directory} \in SUBSET Directories
          /\ {reader.directory} # {}
      BY <1>1
    <3>3. QED
      BY <1>1, <3>1, <3>2, RemovalKeeps
  <2>3. QED
    BY <2>1, <2>2
<1>4. ChangeTypes' /\ Ordered'
  <2>1. CASE failed
    BY <1>1, <1>2, <2>1, ChangesStay DEF Ordered, ChangeTypes, IndexInv, TypeOK
  <2>2. CASE ~failed
    BY <1>1, <1>2, <2>2, SettleKeepsTypes DEF Ordered, ChangeTypes, IndexInv, TypeOK
  <2>3. QED
    BY <2>1, <2>2
<1>5. Counted'
  <2>1. \A p \in WatchPaths : Held(p)' = 0 /\ Users(p, Entries') \in Nat
    BY <1>2, <1>3, EntriesAreDirectories, UsersLeft DEF Held, Holding
  <2>2. QED
    BY <1>3, <2>1 DEF Counted
<1>6. RoomMade'
  <2>1. Cardinality(Entries') \in Nat /\ Cardinality(Entries) \in Nat
    BY <1>3, EntriesAreDirectories, DirectoriesFinite
  <2>2. QED
    BY <1>2, <1>3, <2>1, IndexAssumption DEF IndexInv, RoomMade, Fetching, Holding
<1>7. IndexTypes'
  BY <1>1, <1>2, <1>3 DEF IndexTypes, IndexInv, TypeOK
<1>8. TypeOK' /\ VersionsCounted'
  BY <1>1, <1>4, <1>7, TypesTogether DEF IndexInv, TypeOK, VersionsCounted, disk
<1>9. QED
  BY <1>4, <1>5, <1>6, <1>8 DEF IndexInv

LEMMA InvalidateKeepsIndex ==
    ASSUME IndexInv, NEW d \in Directories, Invalidate(d)
    PROVE  IndexInv'
<1> USE DEF Invalidate
<1>1. reader.stage = "idle" /\ reader' = reader
      /\ reader.stage \notin Holding \cup {"watching_directory"}
  BY DEF Holding
<1>2. {d} \cap Entries \in SUBSET Entries /\ {} \in SUBSET Directories
  OBVIOUS
<1>3. /\ Entries' \subseteq Entries
      /\ entries' \in [Directories -> Versions \cup {None}]
      /\ expired' \subseteq Entries'
      /\ watches' \in [WatchPaths -> Nat]
      /\ live' \subseteq {p \in WatchPaths : watches'[p] > 0}
      /\ \A p \in WatchPaths : watches'[p] = Users(p, Entries')
      /\ watching' \in BOOLEAN
      /\ Cardinality(Entries') <= Cardinality(Entries)
  BY <1>1, <1>2, RemovalKeeps
<1>4. promised' \in [Directories -> Versions] /\ dirty' \subseteq Directories
  BY DEF IndexInv, TypeOK, Later, Versions
<1>5. TypeOK'
  BY <1>1, <1>3, <1>4 DEF IndexInv, TypeOK, changes, Entries
<1>6. Counted'
  <2>1. \A p \in WatchPaths : Held(p)' = 0 /\ Users(p, Entries') \in Nat
    BY <1>1, <1>3, EntriesAreDirectories, UsersLeft DEF Held, Holding
  <2>2. QED
    BY <1>3, <2>1 DEF Counted
<1>7. RoomMade'
  <2>1. Cardinality(Entries') \in Nat /\ Cardinality(Entries) \in Nat
    BY <1>3, EntriesAreDirectories, DirectoriesFinite
  <2>2. QED
    BY <1>1, <1>3, <2>1, IndexAssumption DEF IndexInv, RoomMade, Fetching, Holding
<1>8. Ordered' /\ VersionsCounted'
  BY <1>1 DEF IndexInv, Ordered, VersionsCounted, changes
<1>9. QED
  BY <1>5, <1>6, <1>7, <1>8 DEF IndexInv

-----------------------------------------------------------------------------
(* The world. *)

LEMMA WriteTypes ==
    ASSUME IndexInv, NEW directories \in SUBSET Directories, NEW tellers, Write(directories, tellers)
    PROVE  /\ version' \in [Directories -> Versions] /\ writes' \in Versions
           /\ events' \in Seq(FileEvents) /\ VersionsCounted'
<1> USE DEF Write
<1>1. writes \in Nat /\ writes' = writes + 1 /\ writes' \in Versions /\ MaxWrites \in Nat
  BY IndexAssumption DEF IndexInv, TypeOK, Versions
<1>2. \A d \in Directories : version[d] \in Nat /\ version[d] + 1 <= writes'
  BY <1>1 DEF IndexInv, TypeOK, VersionsCounted, Versions
<1>3. version' \in [Directories -> Versions] /\ \A d \in Directories : version'[d] <= writes'
  BY <1>1, <1>2 DEF Versions
<1>4. {<<d, version'[d]>> : d \in directories} \in FileEvents
  BY <1>3 DEF FileEvents
<1>5. events' \in Seq(FileEvents)
  BY <1>4 DEF IndexInv, TypeOK
<1>6. QED
  BY <1>1, <1>3, <1>5 DEF VersionsCounted

LEMMA WritesKeepIndex ==
    ASSUME IndexInv, NEW d \in Directories, OwnWrite(d) \/ EditorWrite(d) \/ ReplaceDirectory(d)
    PROVE  IndexInv'
<1> USE DEF OwnWrite, EditorWrite, ReplaceDirectory
<1>1. /\ version' \in [Directories -> Versions] /\ writes' \in Versions
      /\ events' \in Seq(FileEvents) /\ VersionsCounted'
  <2>1. {d} \in SUBSET Directories
        /\ {d} \cup {other \in Directories : Parent[other] = d} \in SUBSET Directories
    OBVIOUS
  <2>2. QED
    BY <2>1, WriteTypes
<1>2. /\ UNCHANGED <<generation, ready, pending, failed, entries, expired, applied, watches,
                     watching, reader, seen, promised, returned>>
      /\ live' \subseteq live /\ dirty' \subseteq Directories
  BY DEF IndexInv, TypeOK, index, history
<1>3. written' \in [Directories -> Versions]
  BY <1>1 DEF IndexInv, TypeOK
<1>4. TypeOK'
  BY <1>1, <1>2, <1>3 DEF IndexInv, TypeOK
<1>5. Counted' /\ RoomMade'
  BY <1>2, StillCounted
<1>6. Ordered'
  BY <1>2 DEF IndexInv, Ordered
<1>7. QED
  BY <1>1, <1>4, <1>5, <1>6 DEF IndexInv

\* What an event tells is a version that was written.
LEMMA SeenTypes ==
    ASSUME IndexInv, NEW d \in Directories, NEW event \in FileEvents,
           NEW new, new = IF \E v \in Versions : <<d, v>> \in event /\ v > seen[d]
                          THEN CHOOSE v \in Versions : <<d, v>> \in event
                          ELSE seen[d]
    PROVE  new \in Versions /\ (new = seen[d] \/ <<d, new>> \in event)
<1>1. CASE \E v \in Versions : <<d, v>> \in event /\ v > seen[d]
  <2>1. \E v \in Versions : <<d, v>> \in event
    BY <1>1
  <2>2. new = CHOOSE v \in Versions : <<d, v>> \in event
    BY <1>1
  <2>3. QED
    BY <2>1, <2>2
<1>2. CASE ~\E v \in Versions : <<d, v>> \in event /\ v > seen[d]
  BY <1>2 DEF IndexInv, TypeOK
<1>3. QED
  BY <1>1, <1>2

LEMMA LaterType ==
    ASSUME NEW a \in Versions, NEW b \in Versions
    PROVE  Later(a, b) \in {a, b} /\ a <= Later(a, b) /\ b <= Later(a, b) /\ Later(a, b) \in Versions
BY IndexAssumption DEF Later, Versions

LEMMA ObserveKeepsIndex ==
    ASSUME IndexInv, Observe
    PROVE  IndexInv' /\ seen' \in [Directories -> Versions]
<1> USE DEF Observe
<1>1. /\ Head(events) \in FileEvents /\ events' \in Seq(FileEvents)
      /\ generation' = generation + 1 /\ generation' \in Nat /\ ready' \in 0 .. generation'
      /\ applied <= ready' /\ (pending' # "none" => ready' < generation')
      /\ pending' \in {"none", "young", "old"}
  BY DEF IndexInv, TypeOK, Ordered, Debounce
<1>2. UNCHANGED <<disk, failed, index, reader, returned>>
  OBVIOUS
<1>3. seen' \in [Directories -> Versions]
  <2>1. CASE Head(events) = Rescan
    BY <2>1 DEF IndexInv, TypeOK
  <2>2. CASE Head(events) # Rescan
    BY <1>1, <2>2, SeenTypes
  <2>3. QED
    BY <2>1, <2>2
<1>4. promised' \in [Directories -> Versions]
  <2>1. promised' = promised \/ PromiseSeen
    OBVIOUS
  <2>2. QED
    BY <1>3, <2>1, LaterType DEF PromiseSeen, IndexInv, TypeOK
<1>5. TypeOK'
  BY <1>1, <1>2, <1>3, <1>4 DEF IndexInv, TypeOK, disk, index
<1>6. Counted' /\ RoomMade'
  BY <1>2, StillCounted DEF index
<1>7. Ordered' /\ VersionsCounted'
  BY <1>1, <1>2 DEF IndexInv, TypeOK, Ordered, VersionsCounted, disk, index
<1>8. QED
  BY <1>3, <1>5, <1>6, <1>7 DEF IndexInv

LEMMA OtherStepsKeepIndex ==
    ASSUME IndexInv, Overflow \/ Elapse \/ WatcherFails \/ (\E d \in Directories : Age(d))
    PROVE  IndexInv'
<1> USE DEF Overflow, Elapse, WatcherFails, Age
<1>1. UNCHANGED <<disk, generation, ready, entries, applied, watches, watching, live, reader,
                  seen, returned>>
  BY DEF index, history, changes
<1>2. /\ events' \in Seq(FileEvents) /\ pending' \in {"none", "young", "old"}
      /\ failed' \in BOOLEAN /\ expired' \subseteq Entries
      /\ (pending' # "none" => pending # "none")
  <2>1. <<Rescan>> \in Seq(FileEvents)
    BY DEF FileEvents, Rescan
  <2>2. events' = events \/ events' = <<Rescan>>
    BY DEF changes
  <2>3. expired' = expired \/ \E d \in Entries : expired' = expired \cup {d}
    BY DEF index
  <2>4. expired' \subseteq Entries /\ events' \in Seq(FileEvents)
    BY <2>1, <2>2, <2>3 DEF IndexInv, TypeOK, Entries
  <2>5. QED
    BY <2>4 DEF IndexInv, TypeOK, changes
<1>3. promised' \in [Directories -> Versions]
  BY LaterType DEF IndexInv, TypeOK, history
<1>4. TypeOK'
  BY <1>1, <1>2, <1>3 DEF IndexInv, TypeOK, disk, Entries
<1>5. Counted' /\ RoomMade'
  BY <1>1, StillCounted
<1>6. Ordered' /\ VersionsCounted'
  BY <1>1, <1>2 DEF IndexInv, Ordered, VersionsCounted, disk
<1>7. QED
  BY <1>4, <1>5, <1>6 DEF IndexInv

LEMMA NextKeepsIndex ==
    ASSUME IndexInv, [Next]_vars
    PROVE  IndexInv'
<1>1. CASE Read
  BY <1>1, BeginKeepsIndex, HitKeepsIndex, MissKeepsIndex, WatchKeepsIndex, CheckKeepsIndex,
     ScanKeepsIndex, RetainKeepsIndex, DropKeepsIndex, ReturnKeepsIndex DEF Read
<1>2. ASSUME NEW d \in Directories,
             Invalidate(d) \/ OwnWrite(d) \/ EditorWrite(d) \/ ReplaceDirectory(d)
      PROVE  IndexInv'
  BY <1>2, InvalidateKeepsIndex, WritesKeepIndex
<1>3. CASE Observe
  BY <1>3, ObserveKeepsIndex
<1>4. CASE Overflow \/ Elapse \/ WatcherFails \/ \E d \in Directories : Age(d)
  BY <1>4, OtherStepsKeepIndex
<1>5. CASE UNCHANGED vars
  <2>1. Counted' /\ RoomMade'
    BY <1>5, StillCounted DEF vars, index
  <2>2. TypeOK' /\ Ordered' /\ VersionsCounted'
    BY <1>5 DEF IndexInv, TypeOK, Ordered, VersionsCounted, vars, disk, changes, index, history
  <2>3. QED
    BY <2>1, <2>2 DEF IndexInv
<1>6. QED
  BY <1>1, <1>2, <1>3, <1>4, <1>5 DEF Next

LEMMA IndexInvariance == Spec => []IndexInv
<1>1. IndexInv /\ [Next]_vars => IndexInv'
  BY NextKeepsIndex
<1>2. QED
  BY IndexInit, <1>1, PTL DEF Spec

\* With at most as many entries as the index may have, and a read that has made
\* room for its own, the table of watches is never full (task_index.rs:20).
LEMMA TableHasRoom ==
    ASSUME IndexInv, reader.stage \in {"watching_parent", "watching_directory"}
    PROVE  Cardinality(Watched(watches)) < MaxWatches
<1>1. reader.directory \in Directories /\ Cardinality(Entries) < MaxDirectories
  BY DEF IndexInv, Ordered, RoomMade, Fetching
<1> DEFINE Used == {p \in WatchPaths : Users(p, Entries) > 0}
           own == {Parent[reader.directory]}
<1>2. IsFiniteSet(Used) /\ Cardinality(Used) <= 2 * Cardinality(Entries) /\ Cardinality(Used) \in Nat
  BY EntriesAreDirectories, UsedPaths, FS_CardinalityType
<1>3. Watched(watches) \subseteq Used \cup own
  <2> SUFFICES ASSUME NEW p \in WatchPaths, watches[p] > 0, p \notin own
               PROVE  Users(p, Entries) > 0
    BY DEF Watched
  <2>1. Held(p) = 0
    BY DEF Held, Holding
  <2>2. Users(p, Entries) \in Nat
    BY EntriesAreDirectories, UsersLeft
  <2>3. QED
    BY <2>1, <2>2 DEF IndexInv, Counted
<1>4. IsFiniteSet(Used \cup own) /\ Cardinality(Used \cup own) <= Cardinality(Used) + 1
  BY <1>2, FS_AddElement
<1>5. Cardinality(Watched(watches)) <= Cardinality(Used \cup own)
      /\ Cardinality(Watched(watches)) \in Nat /\ Cardinality(Used \cup own) \in Nat
  BY <1>3, <1>4, FS_Subset, FS_CardinalityType
<1> HIDE DEF Used, own
<1>6. QED
  BY <1>1, <1>2, <1>4, <1>5, EntriesAreDirectories, IndexAssumption

\* Between reads every entry has its two watches and nothing else is watched,
\* and a watch always finds room in the table (task_index.rs watch, unwatch,
\* remove).
THEOREM WatchesAreCounted == Spec => []WatchesMatchEntries
<1>1. IndexInv => WatchesMatchEntries
  <2> SUFFICES ASSUME IndexInv PROVE WatchesMatchEntries
    OBVIOUS
  <2>1. ASSUME reader.stage \in {"idle", "returning"}, NEW p \in WatchPaths
        PROVE  watches[p] = Users(p, Entries)
    <3>1. Held(p) = 0 /\ Users(p, Entries) \in Nat
      BY <2>1, EntriesAreDirectories, UsersLeft DEF Held, Holding
    <3>2. QED
      BY <3>1 DEF IndexInv, Counted
  <2>2. QED
    BY <2>1, TableHasRoom DEF WatchesMatchEntries
<1>2. QED
  BY <1>1, IndexInvariance, PTL

\* The index's variables keep their types and its watches match its entries
\* (task_index.rs IndexState, Changes).
THEOREM IndexIsConsistent == Spec => []IndexTypeOK
<1>1. IndexInv => TypeOK
  BY DEF IndexInv
<1>2. TypeOK /\ WatchesMatchEntries => IndexTypeOK
  BY DEF IndexTypeOK
<1>3. QED
  BY <1>1, <1>2, IndexInvariance, WatchesAreCounted, PTL

-----------------------------------------------------------------------------
(* What a read promises. *)

\* Nothing is promised or observed that was not written, and an entry is older
\* than a promise only if the next read will not use it.
EntriesFresh ==
    \A d \in Entries :
        /\ entries[d] < promised[d] => failed \/ pending = "old" \/ applied # ready
        /\ entries[d] < seen[d] => failed \/ pending # "none" \/ applied # ready

\* A read's entry, scan and result are not older than its promise; a scan that
\* may be kept is not older than any promise.
ReaderFresh ==
    LET d == reader.directory
    IN  /\ reader.stage # "idle" => reader.floor <= version[d]
        /\ reader.stage = "looking_up" /\ d \in Entries => reader.floor <= entries[d]
        /\ reader.stage \in {"retaining", "returning"} => reader.floor <= reader.found
        /\ reader.stage = "retaining" /\ reader.before = generation =>
             seen[d] <= reader.found /\ promised[d] <= reader.found

\* History and events know only versions that were written.
EventsTrue ==
    /\ \A d \in Directories :
         seen[d] <= version[d] /\ promised[d] <= version[d] /\ written[d] <= version[d]
    /\ \A i \in 1 .. Len(events) : \A d \in Directories, v \in Versions :
         <<d, v>> \in events[i] => v <= version[d]

FreshInv == EntriesFresh /\ ReaderFresh /\ EventsTrue /\ ReadsAreFresh

LEMMA VersionsAreNumbers == \A v \in Versions : v \in Nat
BY DEF Versions

LEMMA FreshInit == Init => FreshInv
<1>1. ASSUME Init PROVE EntriesFresh /\ ReaderFresh /\ EventsTrue /\ ReadsAreFresh
  BY <1>1 DEF Init, Idle, Entries, EntriesFresh, ReaderFresh, EventsTrue, ReadsAreFresh
<1>2. QED
  BY <1>1 DEF FreshInv

\* Steps that neither write nor observe.
LEMMA EventsStayTrue ==
    ASSUME IndexInv, EventsTrue, UNCHANGED <<version, written, seen, promised, events>>
    PROVE  EventsTrue'
BY DEF EventsTrue

\* What an index step leaves of the entries.
Shrinks == \A d \in Entries' : d \in Entries /\ entries'[d] = entries[d]

LEMMA RemovalShrinks ==
    ASSUME IndexInv, NEW removed \in SUBSET Entries, NEW released \in SUBSET Directories,
           released = {} \/ (reader.stage \in Holding /\ released = {reader.directory}),
           reader.stage \notin Holding \cup {"watching_directory"} \/ released # {},
           Remove(removed, released)
    PROVE  Shrinks /\ Entries' \subseteq Entries \ removed
BY RemovalKeeps DEF Shrinks

LEMMA DisableShrinks ==
    ASSUME Disable
    PROVE  Shrinks /\ Entries' = {}
BY DisableEmpties DEF Shrinks

\* Entries stay as fresh as they were while the changes are settled.
LEMMA EntriesStayFresh ==
    ASSUME IndexInv, EntriesFresh, Shrinks, UNCHANGED <<seen, promised, applied>>,
           Settle \/ UNCHANGED changes
    PROVE  EntriesFresh'
<1> SUFFICES ASSUME NEW d \in Entries'
             PROVE  /\ entries'[d] < promised'[d] => failed' \/ pending' = "old" \/ applied' # ready'
                    /\ entries'[d] < seen'[d] => failed' \/ pending' # "none" \/ applied' # ready'
  BY DEF EntriesFresh
<1>1. d \in Entries /\ entries'[d] = entries[d]
  BY DEF Shrinks
<1>2. applied <= ready /\ ready <= generation /\ applied \in Nat /\ ready \in Nat /\ generation \in Nat
      /\ (pending # "none" => ready < generation)
  BY DEF IndexInv, TypeOK, Ordered
<1>3. CASE Settle
  BY <1>1, <1>2, <1>3 DEF EntriesFresh, Settle
<1>4. CASE UNCHANGED changes
  BY <1>1, <1>4 DEF EntriesFresh, changes
<1>5. QED
  BY <1>3, <1>4

LEMMA BeginIsFresh ==
    ASSUME IndexInv, FreshInv, NEW d \in Directories, Begin(d)
    PROVE  FreshInv'
<1> USE DEF Begin
<1>1. /\ promised[d] \in Versions /\ promised[d] <= version[d]
      /\ UNCHANGED <<version, written, seen, promised, returned>>
  BY DEF IndexInv, TypeOK, FreshInv, EventsTrue, disk, history
<1>2. CASE failed
  <2>1. reader' = [stage |-> "scanning_uncached", directory |-> d, before |-> 0, found |-> 0,
                   floor |-> promised[d]]
    BY <1>2 DEF Idle
  <2>2. EntriesFresh'
    BY <1>2, DisableShrinks DEF EntriesFresh
  <2>3. ReaderFresh' /\ EventsTrue' /\ ReadsAreFresh'
    BY <1>1, <1>2, <2>1 DEF FreshInv, ReaderFresh, EventsTrue, ReadsAreFresh, changes
  <2>4. QED
    BY <2>2, <2>3 DEF FreshInv
<1>3. CASE ~failed
  <2>1. reader' = [stage |-> "looking_up", directory |-> d, before |-> 0, found |-> 0,
                   floor |-> promised[d]]
    BY <1>3 DEF Idle
  <2>2. Settle /\ applied' = ready' /\ failed' = FALSE
        /\ Remove(IF applied # ready' THEN Entries ELSE {}, {})
    BY <1>3 DEF Applies, Settle, IndexInv, TypeOK
  <2>3. Shrinks /\ (applied # ready' => Entries' = {})
    <3>1. reader.stage \notin Holding \cup {"watching_directory"}
      BY DEF Holding
    <3>2. CASE applied # ready'
      BY <2>2, <3>1, <3>2, RemovalShrinks
    <3>3. CASE applied = ready'
      BY <2>2, <3>1, <3>3, RemovalShrinks
    <3>4. QED
      BY <3>2, <3>3
  \* What is left of the entries fulfils every promise.
  <2>4. ASSUME NEW e \in Entries'
        PROVE  /\ ~(entries'[e] < promised[e])
               /\ entries'[e] < seen[e] => pending' # "none"
    <3>1. e \in Entries /\ entries'[e] = entries[e] /\ applied = ready'
      BY <2>3 DEF Shrinks
    <3>2. ready = applied /\ pending # "old" /\ pending' = pending
      BY <2>2, <3>1, SettleKeepsTypes DEF Settle, IndexInv, Ordered, TypeOK
    <3>3. QED
      BY <1>3, <3>1, <3>2 DEF FreshInv, EntriesFresh
  <2>5. EntriesFresh'
    BY <1>1, <2>4 DEF EntriesFresh
  <2>6. ReaderFresh'
    <3>1. d \in Entries' => promised[d] <= entries'[d]
      <4>1. d \in Entries' => entries'[d] \in Versions
        BY <2>3 DEF Shrinks, IndexInv, TypeOK, Entries
      <4>2. QED
        BY <1>1, <2>4, <4>1, VersionsAreNumbers
    <3>2. QED
      BY <1>1, <2>1, <3>1 DEF ReaderFresh
  <2>7. EventsTrue' /\ ReadsAreFresh'
    BY <1>1, <2>2 DEF FreshInv, EventsTrue, ReadsAreFresh, Settle
  <2>8. QED
    BY <2>5, <2>6, <2>7 DEF FreshInv
<1>4. QED
  BY <1>2, <1>3

\* What a step of a read does to the index and to the promises.
LEMMA ReadStepShape ==
    ASSUME IndexInv, Hit \/ Miss \/ WatchBoth \/ Check \/ Scan \/ DropScan \/ Return
    PROVE  /\ Shrinks /\ UNCHANGED <<version, written, seen, promised, applied, events, generation>>
           /\ Settle \/ UNCHANGED changes
<1>1. CASE Hit \/ Scan \/ Return
  BY <1>1 DEF Hit, Scan, Return, Shrinks, Entries, disk, changes, index, history
<1>2. CASE Miss
  <2>1. reader.stage \notin Holding \cup {"watching_directory"} /\ UNCHANGED changes
        /\ UNCHANGED <<version, written, seen, promised, applied, events, generation>>
    BY <1>2 DEF Miss, Holding, disk, changes, history
  <2>2. \E removed \in SUBSET Entries : Remove(removed, {})
    BY <1>2, Zenon DEF Miss
  <2>3. QED
    BY <2>1, <2>2, RemovalShrinks
<1>3. CASE WatchBoth
  <2>1. Shrinks
    <3>1. CASE Disable
      BY <3>1, DisableShrinks
    <3>2. CASE ~Disable
      <4>1. PICK dropped \in SUBSET Entries :
              entries' = [d \in Directories |-> IF d \in dropped THEN None ELSE entries[d]]
        BY <1>3, <3>2 DEF WatchBoth, Watch
      <4>2. QED
        BY <4>1 DEF Shrinks, Entries
    <3>3. QED
      BY <3>1, <3>2
  <2>2. QED
    BY <1>3, <2>1 DEF WatchBoth, disk, changes, history
<1>4. CASE Check
  <2>1. CASE failed
    BY <1>4, <2>1, DisableShrinks DEF Check, disk, history, changes
  <2>2. CASE ~failed
    BY <1>4, <2>2 DEF Check, Shrinks, Entries, disk, history, Settle
  <2>3. QED
    BY <2>1, <2>2
<1>5. CASE DropScan
  <2>1. CASE failed
    BY <1>5, <2>1, DisableShrinks DEF DropScan, disk, history, changes
  <2>2. CASE ~failed
    <3>1. watching /\ reader.directory \in Directories /\ reader.stage \in Holding
      BY <1>5 DEF DropScan, IndexInv, RoomMade, Ordered, Fetching, Holding
    <3>2. Remove({}, {reader.directory}) /\ Settle
      BY <1>5, <2>2, <3>1 DEF DropScan
    <3>3. {reader.directory} # {} /\ {reader.directory} \in SUBSET Directories
          /\ {} \in SUBSET Entries
      BY <3>1
    <3>4. Shrinks
      BY <3>1, <3>2, <3>3, RemovalShrinks
    <3>5. QED
      BY <1>5, <3>2, <3>4 DEF DropScan, disk, history, Settle
  <2>3. QED
    BY <2>1, <2>2
<1>6. QED
  BY <1>1, <1>2, <1>3, <1>4, <1>5

LEMMA ReadStepsAreFresh ==
    ASSUME IndexInv, FreshInv, Hit \/ Miss \/ WatchBoth \/ Check \/ Scan \/ DropScan \/ Return
    PROVE  FreshInv'
<1>1. /\ Shrinks /\ UNCHANGED <<version, written, seen, promised, applied, events, generation>>
      /\ Settle \/ UNCHANGED changes
  BY ReadStepShape
<1>2. EntriesFresh' /\ EventsTrue'
  BY <1>1, EntriesStayFresh, EventsStayTrue DEF FreshInv
<1>3. /\ reader \in [stage: Stages, directory: Directories \cup {None}, before: Nat,
                     found: Versions, floor: Versions]
      /\ reader.stage # "idle" => reader.directory \in Directories
      /\ reader.stage # "idle" => reader.floor <= version[reader.directory]
      /\ reader.stage = "looking_up" /\ reader.directory \in Entries =>
           reader.floor <= entries[reader.directory]
      /\ reader.stage \in {"retaining", "returning"} => reader.floor <= reader.found
      /\ \A d \in Directories : seen[d] <= version[d] /\ promised[d] <= version[d]
  BY DEF IndexInv, TypeOK, Ordered, FreshInv, ReaderFresh, EventsTrue
<1>4. ReaderFresh' /\ ReadsAreFresh'
  <2>1. CASE Hit
    BY <1>1, <1>3, <2>1 DEF Hit, ReaderFresh, FreshInv, ReadsAreFresh, history
  <2>2. CASE Miss
    BY <1>1, <1>3, <2>2 DEF Miss, GoTo, ReaderFresh, FreshInv, ReadsAreFresh, history
  <2>3. CASE WatchBoth
    <3>1. \E stage \in {"watching_directory", "checking", "scanning_uncached"} :
            reader' = [reader EXCEPT !.stage = stage]
      BY <2>3 DEF WatchBoth, Watch, GoTo
    <3>2. UNCHANGED returned /\ reader.stage # "idle"
      BY <2>3 DEF WatchBoth, history
    <3>3. QED
      BY <1>1, <1>3, <3>1, <3>2 DEF ReaderFresh, FreshInv, ReadsAreFresh
  <2>4. CASE Check
    <3>1. reader'.stage \in {"scanning", "scanning_uncached"} /\ reader'.floor = reader.floor
          /\ reader'.directory = reader.directory /\ reader.stage = "checking"
      BY <1>3, <2>4 DEF Check, GoTo
    <3>2. UNCHANGED returned
      BY <2>4 DEF Check, history
    <3>3. QED
      BY <1>1, <1>3, <3>1, <3>2 DEF ReaderFresh, FreshInv, ReadsAreFresh
  <2>5. CASE Scan
    <3>1. reader'.stage \in {"retaining", "returning"} /\ reader'.floor = reader.floor
          /\ reader'.directory = reader.directory /\ reader'.found = version[reader.directory]
          /\ reader.stage # "idle"
      BY <1>3, <2>5 DEF Scan
    <3>2. UNCHANGED returned
      BY <2>5 DEF Scan, history
    <3>3. QED
      BY <1>1, <1>3, <3>1, <3>2 DEF ReaderFresh, FreshInv, ReadsAreFresh
  <2>6. CASE DropScan
    <3>1. reader'.stage = "returning" /\ reader'.floor = reader.floor
          /\ reader'.directory = reader.directory /\ reader'.found = reader.found
          /\ reader.stage = "retaining"
      BY <1>3, <2>6 DEF DropScan, GoTo
    <3>2. UNCHANGED returned
      BY <2>6 DEF DropScan, history
    <3>3. QED
      BY <1>1, <1>3, <3>1, <3>2 DEF ReaderFresh, FreshInv, ReadsAreFresh
  <2>7. CASE Return
    <3>1. reader'.stage = "idle" /\ returned'.floor <= returned'.version
      BY <1>3, <2>7 DEF Return, Idle
    <3>2. returned'.floor \in Nat /\ returned'.version \in Nat
      BY <1>3, <2>7, VersionsAreNumbers DEF Return
    <3>3. QED
      BY <3>1, <3>2 DEF ReaderFresh, ReadsAreFresh
  <2>8. QED
    BY <2>1, <2>2, <2>3, <2>4, <2>5, <2>6, <2>7
<1>5. QED
  BY <1>2, <1>4 DEF FreshInv

LEMMA RetainIsFresh ==
    ASSUME IndexInv, FreshInv, RetainScan
    PROVE  FreshInv'
<1> USE DEF RetainScan, GoTo
<1>1. /\ reader.stage = "retaining" /\ reader.directory \in Directories
      /\ reader.before = generation /\ ~failed /\ Settle
      /\ UNCHANGED <<version, written, seen, promised, returned, applied, failed, events>>
  BY DEF IndexInv, Ordered, KeepsScan, Settle, disk, history
<1>2. /\ reader.floor <= version[reader.directory] /\ reader.floor <= reader.found
      /\ seen[reader.directory] <= reader.found /\ promised[reader.directory] <= reader.found
  BY <1>1 DEF FreshInv, ReaderFresh
<1>3. reader'.stage = "returning" /\ reader'.directory = reader.directory
      /\ reader'.floor = reader.floor /\ reader'.found = reader.found
  BY DEF IndexInv, TypeOK
<1>4. ASSUME NEW d \in Entries'
      PROVE  \/ d = reader.directory /\ entries'[d] = reader.found
             \/ d \in Entries /\ entries'[d] = entries[d]
  BY <1>1 DEF Entries, IndexInv, TypeOK
<1>5. EntriesFresh'
  <2> SUFFICES ASSUME NEW d \in Entries'
               PROVE  /\ entries'[d] < promised[d] => pending' = "old" \/ applied # ready'
                      /\ entries'[d] < seen[d] => pending' # "none" \/ applied # ready'
    BY <1>1 DEF EntriesFresh
  <2>1. CASE d = reader.directory /\ entries'[d] = reader.found
    <3>1. reader.found \in Nat /\ seen[d] \in Nat /\ promised[d] \in Nat
      BY <1>1, <2>1, VersionsAreNumbers DEF IndexInv, TypeOK
    <3>2. QED
      BY <1>2, <2>1, <3>1
  <2>2. CASE d \in Entries /\ entries'[d] = entries[d]
    BY <1>1, <2>2 DEF FreshInv, EntriesFresh, Settle, IndexInv, TypeOK, Ordered
  <2>3. QED
    BY <1>4, <2>1, <2>2
<1>6. ReaderFresh' /\ EventsTrue' /\ ReadsAreFresh'
  BY <1>1, <1>2, <1>3 DEF FreshInv, ReaderFresh, EventsTrue, ReadsAreFresh
<1>7. QED
  BY <1>5, <1>6 DEF FreshInv

LEMMA InvalidateIsFresh ==
    ASSUME IndexInv, FreshInv, NEW d \in Directories, Invalidate(d)
    PROVE  FreshInv'
<1> USE DEF Invalidate
<1>1. reader.stage = "idle" /\ UNCHANGED <<version, written, seen, returned, reader, applied>>
      /\ UNCHANGED changes
  OBVIOUS
<1>2. Shrinks /\ d \notin Entries'
  <2>1. {d} \cap Entries \in SUBSET Entries /\ reader.stage \notin Holding \cup {"watching_directory"}
    BY DEF Holding
  <2>2. QED
    BY <2>1, RemovalShrinks
<1>3. \A e \in Directories \ {d} : promised'[e] = promised[e]
  BY DEF IndexInv, TypeOK
<1>4. promised'[d] \in {promised[d], written[d]}
  BY LaterType DEF IndexInv, TypeOK
<1>5. EntriesFresh'
  <2> SUFFICES ASSUME NEW e \in Entries'
               PROVE  /\ entries'[e] < promised'[e] => failed \/ pending = "old" \/ applied # ready
                      /\ entries'[e] < seen[e] => failed \/ pending # "none" \/ applied # ready
    BY <1>1 DEF EntriesFresh, changes
  <2>1. e \in Entries /\ e # d /\ entries'[e] = entries[e] /\ promised'[e] = promised[e]
    BY <1>2, <1>3 DEF Shrinks, Entries
  <2>2. QED
    BY <2>1 DEF FreshInv, EntriesFresh
<1>6. ReaderFresh' /\ EventsTrue' /\ ReadsAreFresh'
  BY <1>1, <1>3, <1>4 DEF FreshInv, ReaderFresh, EventsTrue, ReadsAreFresh, changes
<1>7. QED
  BY <1>5, <1>6 DEF FreshInv

LEMMA WritesAreFresh ==
    ASSUME IndexInv, FreshInv, NEW d \in Directories,
           OwnWrite(d) \/ EditorWrite(d) \/ ReplaceDirectory(d)
    PROVE  FreshInv'
<1>1. PICK directories \in SUBSET Directories, tellers \in SUBSET WatchPaths :
        /\ Write(directories, tellers) /\ d \in directories
        /\ \/ written' = [written EXCEPT ![d] = version'[d]]
           \/ written' = written
  <2>1. {d} \in SUBSET Directories /\ {d} \in SUBSET WatchPaths /\ {d, Parent[d]} \in SUBSET WatchPaths
        /\ {d} \cup {other \in Directories : Parent[other] = d} \in SUBSET Directories
    BY PathsOfDirectories
  <2>2. CASE OwnWrite(d) \/ EditorWrite(d)
    BY <2>1, <2>2 DEF OwnWrite, EditorWrite
  <2>3. CASE ReplaceDirectory(d)
    <3>1. Write({d} \cup {other \in Directories : Parent[other] = d}, {d, Parent[d]})
          /\ written' = written
      BY <2>3 DEF ReplaceDirectory
    <3>2. QED
      BY <2>1, <3>1
  <2>4. QED
    BY <2>2, <2>3
<1>2. UNCHANGED <<generation, ready, pending, failed, entries, applied, reader, seen, promised,
                  returned>>
  BY DEF OwnWrite, EditorWrite, ReplaceDirectory, index, history
<1>3. \A e \in Directories : version[e] \in Nat /\ version'[e] \in Nat /\ version[e] <= version'[e]
  <2>1. \A e \in Directories : version[e] \in Nat
    BY VersionsAreNumbers DEF IndexInv, TypeOK
  <2>2. \A e \in Directories : version'[e] \in {version[e], version[e] + 1}
    BY <1>1 DEF Write
  <2>3. QED
    BY <2>1, <2>2
<1>4. EntriesFresh'
  BY <1>2 DEF FreshInv, EntriesFresh, Entries
<1>5. ReaderFresh' /\ ReadsAreFresh'
  <2>1. reader.stage # "idle" => reader.floor <= version'[reader.directory]
    BY <1>3, VersionsAreNumbers DEF FreshInv, ReaderFresh, IndexInv, TypeOK, Ordered
  <2>2. QED
    BY <1>2, <2>1 DEF FreshInv, ReaderFresh, ReadsAreFresh, Entries
<1>6. EventsTrue'
  <2>1. ASSUME NEW e \in Directories
        PROVE  seen[e] <= version'[e] /\ promised[e] <= version'[e] /\ written'[e] <= version'[e]
    <3>1. seen[e] \in Nat /\ promised[e] \in Nat /\ written[e] \in Nat
          /\ seen[e] <= version[e] /\ promised[e] <= version[e] /\ written[e] <= version[e]
      BY VersionsAreNumbers DEF IndexInv, TypeOK, FreshInv, EventsTrue
    <3>2. written'[e] \in {written[e], version'[e]}
      BY <1>1 DEF IndexInv, TypeOK
    <3>3. QED
      BY <1>3, <3>1, <3>2
  <2>2. ASSUME NEW i \in 1 .. Len(events'), NEW e \in Directories, NEW v \in Versions,
               <<e, v>> \in events'[i]
        PROVE  v <= version'[e]
    <3>1. events \in Seq(FileEvents)
      BY DEF IndexInv, TypeOK
    <3>2. CASE events'[i] = {<<f, version'[f]>> : f \in directories}
      BY <1>3, <2>2, <3>2
    <3>3. CASE i \in 1 .. Len(events) /\ events'[i] = events[i]
      <4>1. v <= version[e]
        BY <2>2, <3>3 DEF FreshInv, EventsTrue
      <4>2. QED
        BY <1>3, <4>1, VersionsAreNumbers
    <3>4. \/ events'[i] = {<<f, version'[f]>> : f \in directories}
          \/ i \in 1 .. Len(events) /\ events'[i] = events[i]
      <4>1. CASE events' = events
        BY <4>1
      <4>2. CASE events' = Append(events, {<<f, version'[f]>> : f \in directories})
        <5> DEFINE event == {<<f, version'[f]>> : f \in directories}
        <5>1. event \in FileEvents
          BY <1>1, WriteTypes DEF FileEvents
        <5> HIDE DEF event
        <5>2. QED
          BY <3>1, <4>2, <5>1 DEF event
      <4>3. QED
        BY <1>1, <4>1, <4>2 DEF Write
    <3>5. QED
      BY <3>2, <3>3, <3>4
  <2>3. QED
    BY <1>2, <2>1, <2>2 DEF EventsTrue
<1>7. QED
  BY <1>4, <1>5, <1>6 DEF FreshInv

LEMMA ObserveIsFresh ==
    ASSUME IndexInv, FreshInv, Observe
    PROVE  FreshInv'
<1> USE DEF Observe
<1>1. /\ events \in Seq(FileEvents) /\ events # <<>> /\ Head(events) = events[1]
      /\ Head(events) \in FileEvents /\ 1 \in 1 .. Len(events)
      /\ \A i \in 1 .. Len(events') : i + 1 \in 1 .. Len(events) /\ events'[i] = events[i + 1]
  BY DEF IndexInv, TypeOK
<1>2. /\ UNCHANGED <<version, written, failed, entries, applied, reader, returned>>
      /\ generation' = generation + 1
  BY DEF disk, index
<1>3. seen' \in [Directories -> Versions]
      /\ \A d \in Directories : seen'[d] = seen[d] \/ <<d, seen'[d]>> \in events[1]
  <2>1. CASE Head(events) = Rescan
    BY <2>1 DEF IndexInv, TypeOK
  <2>2. CASE Head(events) # Rescan
    <3>1. ASSUME NEW d \in Directories
          PROVE  seen'[d] \in Versions /\ (seen'[d] = seen[d] \/ <<d, seen'[d]>> \in Head(events))
      <4>1. seen'[d] = IF \E v \in Versions : <<d, v>> \in Head(events) /\ v > seen[d]
                       THEN CHOOSE v \in Versions : <<d, v>> \in Head(events)
                       ELSE seen[d]
        BY <2>2
      <4>2. QED
        BY <1>1, <4>1, SeenTypes
    <3>2. QED
      BY <1>1, <3>1, ObserveKeepsIndex
  <2>3. QED
    BY <2>1, <2>2
<1>4. \A d \in Directories : seen'[d] <= version[d]
  BY <1>1, <1>3 DEF FreshInv, EventsTrue
<1>5. /\ promised' = promised \/ \A d \in Directories : promised'[d] \in {promised[d], seen'[d]}
      /\ promised' = promised \/ pending' = "old" \/ ready' = generation'
  <2>1. /\ promised' = promised \/ PromiseSeen
        /\ promised' = promised \/ pending' = "old" \/ ready' = generation'
    BY DEF Debounce
  <2>2. QED
    BY <1>3, <2>1, LaterType DEF PromiseSeen, IndexInv, TypeOK
<1>6. \/ ready' = ready /\ pending' # "none" /\ (pending = "old" => pending' = "old")
      \/ ready' = generation' /\ applied # ready'
  <2>1. CASE Head(events) = Rescan
    BY <2>1 DEF IndexInv, TypeOK, Ordered
  <2>2. CASE Head(events) # Rescan
    BY <2>2 DEF Debounce, IndexInv, TypeOK
  <2>3. QED
    BY <2>1, <2>2
<1>7. EntriesFresh'
  <2> SUFFICES ASSUME NEW d \in Entries
               PROVE  /\ entries[d] < promised'[d] => failed \/ pending' = "old" \/ applied # ready'
                      /\ entries[d] < seen'[d] => failed \/ pending' # "none" \/ applied # ready'
    BY <1>2 DEF EntriesFresh, Entries
  <2>1. ready \in Nat /\ generation \in Nat /\ ready <= generation /\ applied <= ready /\ applied \in Nat
    BY DEF IndexInv, TypeOK, Ordered
  <2>2. QED
    BY <1>2, <1>5, <1>6, <2>1 DEF FreshInv, EntriesFresh
<1>8. ReaderFresh'
  <2>1. reader.before # generation'
    BY <1>2 DEF IndexInv, TypeOK, Ordered
  <2>2. QED
    BY <1>2, <2>1 DEF FreshInv, ReaderFresh, Entries
<1>9. EventsTrue' /\ ReadsAreFresh'
  <2>1. \A d \in Directories : promised'[d] <= version[d]
    BY <1>4, <1>5 DEF FreshInv, EventsTrue
  <2>2. \A i \in 1 .. Len(events') : \A d \in Directories, v \in Versions :
          <<d, v>> \in events'[i] => v <= version[d]
    BY <1>1 DEF FreshInv, EventsTrue
  <2>3. QED
    BY <1>2, <1>4, <2>1, <2>2 DEF FreshInv, EventsTrue, ReadsAreFresh
<1>10. QED
  BY <1>7, <1>8, <1>9 DEF FreshInv

LEMMA OtherStepsAreFresh ==
    ASSUME IndexInv, FreshInv, Overflow \/ Elapse \/ WatcherFails \/ (\E d \in Directories : Age(d))
    PROVE  FreshInv'
<1>1. UNCHANGED <<version, written, generation, ready, entries, applied, reader, seen, returned>>
  BY DEF Overflow, Elapse, WatcherFails, Age, disk, index, history, changes
<1>2. CASE Elapse
  <2>1. \A d \in Directories : promised'[d] \in {promised[d], seen[d]}
    BY <1>2, LaterType DEF Elapse, IndexInv, TypeOK
  <2>2. pending' = "old" /\ events' = events
    BY <1>2 DEF Elapse
  <2>3. EntriesFresh' /\ ReadsAreFresh'
    BY <1>1, <2>2 DEF FreshInv, EntriesFresh, ReadsAreFresh, Entries
  <2>4. ReaderFresh'
    BY <1>1, <2>1 DEF FreshInv, ReaderFresh, Entries, IndexInv, Ordered
  <2>5. EventsTrue'
    BY <1>1, <2>1, <2>2 DEF FreshInv, EventsTrue
  <2>6. QED
    BY <2>3, <2>4, <2>5 DEF FreshInv
<1>3. CASE Overflow \/ WatcherFails \/ \E d \in Directories : Age(d)
  <2>1. /\ promised' = promised /\ pending' = pending /\ (failed => failed')
        /\ events' = events \/ events' = <<Rescan>>
    BY <1>3 DEF Overflow, WatcherFails, Age, history, changes, IndexInv, TypeOK
  <2>2. EntriesFresh' /\ ReaderFresh' /\ ReadsAreFresh'
    BY <1>1, <2>1 DEF FreshInv, EntriesFresh, ReaderFresh, ReadsAreFresh, Entries
  <2>3. EventsTrue'
    <3>1. CASE events' = events
      BY <1>1, <2>1, <3>1 DEF FreshInv, EventsTrue
    <3>2. CASE events' = <<Rescan>>
      <4>1. \A i \in 1 .. Len(events') : events'[i] = {}
        BY <3>2 DEF Rescan
      <4>2. QED
        BY <1>1, <2>1, <4>1 DEF FreshInv, EventsTrue
    <3>3. QED
      BY <2>1, <3>1, <3>2
  <2>4. QED
    BY <2>2, <2>3 DEF FreshInv
<1>4. QED
  BY <1>2, <1>3

LEMMA NextIsFresh ==
    ASSUME IndexInv, FreshInv, [Next]_vars
    PROVE  FreshInv'
<1>1. CASE Read
  BY <1>1, BeginIsFresh, ReadStepsAreFresh, RetainIsFresh DEF Read
<1>2. ASSUME NEW d \in Directories,
             Invalidate(d) \/ OwnWrite(d) \/ EditorWrite(d) \/ ReplaceDirectory(d)
      PROVE  FreshInv'
  BY <1>2, InvalidateIsFresh, WritesAreFresh
<1>3. CASE Observe
  BY <1>3, ObserveIsFresh
<1>4. CASE Overflow \/ Elapse \/ WatcherFails \/ \E d \in Directories : Age(d)
  BY <1>4, OtherStepsAreFresh
<1>5. CASE UNCHANGED vars
  BY <1>5 DEF FreshInv, EntriesFresh, ReaderFresh, EventsTrue, ReadsAreFresh, Entries,
              vars, disk, changes, index, history
<1>6. QED
  BY <1>1, <1>2, <1>3, <1>4, <1>5 DEF Next

\* A read shows at least what commands wrote before it began, and what events
\* told whose batch is older than the debounce (task_index.rs read).
THEOREM ReadsShowWhatWasPromised == Spec => []ReadsAreFresh
<1>1. IndexInv /\ FreshInv /\ [Next]_vars => FreshInv'
  BY NextIsFresh
<1>2. FreshInv => ReadsAreFresh
  BY DEF FreshInv
<1>3. QED
  BY FreshInit, IndexInvariance, <1>1, <1>2, PTL DEF Spec

-----------------------------------------------------------------------------
(* No entry is outdated for good. *)

\* Directories of tasks may lie in one another, but not three deep: what is
\* replaced above a watched parent nobody tells, and only the age of an entry
\* ends that.
NestedOnce == \A d \in Directories : Parent[d] \in Directories => Parent[Parent[d]] \notin Directories

\* The index will hear that a directory may have changed, or has heard it.
Announced(d) ==
    \/ \E i \in 1 .. Len(events) : events[i] = Rescan \/ \E v \in Versions : <<d, v>> \in events[i]
    \/ generation # applied
    \/ failed

\* A watch that is used and lost was lost with an event for the directory and
\* for those in it.
LostWatchesTold ==
    \A p \in WatchPaths : watches[p] > 0 /\ p \notin live =>
        \A d \in Directories : d = p \/ Parent[d] = p => Announced(d)

EntriesTold == \A d \in Entries : Announced(d) \/ entries[d] = version[d]

ScanTold ==
    reader.stage = "retaining" /\ reader.before = generation =>
        Announced(reader.directory) \/ reader.found = version[reader.directory]

ToldInv == LostWatchesTold /\ EntriesTold /\ ScanTold

\* What is kept, or is about to be kept, has both its watches.
LEMMA BothWatched ==
    ASSUME IndexInv, NEW d, d \in Entries \/ (reader.stage \in Holding /\ d = reader.directory)
    PROVE  /\ d \in Directories /\ d \in WatchPaths /\ Parent[d] \in WatchPaths
           /\ watches[d] > 0 /\ watches[Parent[d]] > 0
<1>1. d \in Directories
  BY DEF IndexInv, Ordered, Entries, Holding
<1>2. ASSUME NEW p \in WatchPaths, p = d \/ p = Parent[d]
      PROVE  watches[p] > 0
  <2>1. watches[p] = Users(p, Entries) + Held(p) /\ Users(p, Entries) \in Nat /\ Held(p) \in {0, 1}
    BY EntriesAreDirectories, UsersLeft, HeldType DEF IndexInv, Counted
  <2>2. CASE d \in Entries
    <3>1. Users(p, Entries) > 0
      BY <1>2, <2>2, EntriesAreDirectories, UsersExist
    <3>2. QED
      BY <2>1, <3>1
  <2>3. CASE reader.stage \in Holding /\ d = reader.directory
    <3>1. Held(p) = 1
      BY <1>1, <1>2, <2>3, HeldType, UsersOfOne
    <3>2. QED
      BY <2>1, <3>1
  <2>4. QED
    BY <2>2, <2>3
<1>3. QED
  BY <1>1, <1>2, PathsOfDirectories

LEMMA ToldInit == Init => ToldInv
BY DEF Init, ToldInv, LostWatchesTold, EntriesTold, ScanTold, Entries, Idle

LEMMA AnnouncedStays ==
    ASSUME IndexInv, UNCHANGED <<generation, applied>>, failed => failed',
           \/ events' = events \/ events' = <<Rescan>>
           \/ \E event \in FileEvents : events' = Append(events, event)
    PROVE  \A d \in Directories : Announced(d) => Announced(d)'
<1> SUFFICES ASSUME NEW d \in Directories, Announced(d) PROVE Announced(d)'
  OBVIOUS
<1>1. CASE generation # applied \/ failed
  BY <1>1 DEF Announced
<1>2. CASE events' = <<Rescan>>
  <2>1. 1 \in 1 .. Len(events') /\ events'[1] = Rescan
    BY <1>2
  <2>2. QED
    BY <2>1 DEF Announced
<1>3. CASE /\ events' = events \/ \E event \in FileEvents : events' = Append(events, event)
           /\ \E i \in 1 .. Len(events) : events[i] = Rescan \/ \E v \in Versions : <<d, v>> \in events[i]
  <2>1. PICK i \in 1 .. Len(events) : events[i] = Rescan \/ \E v \in Versions : <<d, v>> \in events[i]
    BY <1>3
  <2>2. i \in 1 .. Len(events') /\ events'[i] = events[i]
    BY <1>3, <2>1 DEF IndexInv, TypeOK
  <2>3. QED
    BY <2>1, <2>2 DEF Announced
<1>4. QED
  BY <1>1, <1>2, <1>3 DEF Announced

\* A step that drops watches loses none that is still used.
NoWatchLost ==
    \A p \in WatchPaths : watches'[p] > 0 /\ p \notin live' => watches[p] > 0 /\ p \notin live

LEMMA StillTold ==
    ASSUME IndexInv, ToldInv, Shrinks, NoWatchLost, UNCHANGED version,
           \A d \in Directories : Announced(d) => Announced(d)'
    PROVE  LostWatchesTold' /\ EntriesTold'
BY DEF ToldInv, LostWatchesTold, EntriesTold, Shrinks, NoWatchLost, Entries

LEMMA RemovalLosesNone ==
    ASSUME IndexInv, NEW removed \in SUBSET Entries, NEW released \in SUBSET Directories,
           released = {} \/ (reader.stage \in Holding /\ released = {reader.directory}),
           reader.stage \notin Holding \cup {"watching_directory"} \/ released # {},
           Remove(removed, released)
    PROVE  NoWatchLost
BY RemovalKeeps DEF NoWatchLost

LEMMA DisableLosesNone ==
    ASSUME Disable
    PROVE  NoWatchLost
BY DisableEmpties DEF NoWatchLost

LEMMA BeginTells ==
    ASSUME IndexInv, ToldInv, NEW d \in Directories, Begin(d)
    PROVE  ToldInv'
<1> USE DEF Begin
<1>1. reader'.stage # "retaining" /\ UNCHANGED <<version, generation, failed, events>>
  BY DEF Idle, Settle, disk, changes
<1>2. ScanTold'
  BY <1>1 DEF ScanTold
<1>3. CASE Disable
  BY <1>2, <1>3, DisableEmpties DEF ToldInv, LostWatchesTold, EntriesTold
<1>4. CASE ~Disable
  <2>1. /\ Settle /\ applied' = ready' /\ ~failed
        /\ RemoveWatched(IF applied # ready' THEN Entries ELSE {}, {})
    BY <1>4 DEF Applies, Remove
  <2>2. reader.stage \notin Holding \cup {"watching_directory"} /\ {} \in SUBSET Directories
    BY DEF Holding
  <2>3. CASE applied # ready'
    <3>1. /\ Entries' = {} /\ \A p \in WatchPaths : watches'[p] = 0
      <4>1. Remove(Entries, {})
        BY <2>1, <2>3 DEF Remove
      <4>2. Entries' = {} /\ \A p \in WatchPaths : watches'[p] = Users(p, Entries')
        BY <2>2, <4>1, RemovalKeeps
      <4>3. QED
        BY <4>2, UsersOfNone
    <3>2. QED
      BY <1>2, <3>1 DEF ToldInv, LostWatchesTold, EntriesTold
  <2>4. CASE applied = ready'
    <3>1. Remove({}, {})
      BY <2>1, <2>4 DEF Remove
    <3>2. Shrinks /\ NoWatchLost
      BY <2>2, <3>1, RemovalShrinks, RemovalLosesNone
    <3>3. \A e \in Directories : Announced(e) => Announced(e)'
      BY <1>1, <2>1, <2>4, AnnouncedStays
    <3>4. QED
      BY <1>1, <1>2, <3>2, <3>3, StillTold DEF ToldInv
  <2>5. QED
    BY <2>3, <2>4
<1>5. QED
  BY <1>3, <1>4

LEMMA ReadStepsTell ==
    ASSUME IndexInv, ToldInv, Hit \/ Miss \/ WatchBoth \/ Check \/ Scan \/ DropScan \/ Return
    PROVE  ToldInv'
<1>1. /\ Shrinks /\ UNCHANGED <<version, written, seen, promised, applied, events, generation>>
      /\ Settle \/ UNCHANGED changes
  BY ReadStepShape
<1>2. \A d \in Directories : Announced(d) => Announced(d)'
  BY <1>1, AnnouncedStays DEF Settle, changes
<1>3. NoWatchLost
  <2>1. CASE Hit \/ Scan \/ Return
    BY <2>1 DEF Hit, Scan, Return, NoWatchLost, index
  <2>2. CASE Miss
    <3>1. reader.stage \notin Holding \cup {"watching_directory"}
      BY <2>2 DEF Miss, Holding
    <3>2. \E removed \in SUBSET Entries : Remove(removed, {})
      BY <2>2, Zenon DEF Miss
    <3>3. QED
      BY <3>1, <3>2, RemovalLosesNone
  <2>3. CASE WatchBoth
    <3>1. CASE Disable
      BY <3>1, DisableLosesNone
    <3>2. CASE ~Disable
      <4> DEFINE path == IF reader.stage = "watching_parent" THEN Parent[reader.directory]
                         ELSE reader.directory
                 Left(dropped) == [p \in WatchPaths |-> watches[p] - Users(p, dropped)]
      <4>1. PICK dropped \in SUBSET Entries :
              /\ watches' = [Left(dropped) EXCEPT ![path] = @ + 1]
              /\ watches[path] > 0 => dropped = {}
              /\ live' = {p \in live : Left(dropped)[p] > 0}
                         \cup (IF watches[path] = 0 THEN {path} ELSE {})
        BY <2>3, <3>2 DEF WatchBoth, Watch
      <4> HIDE DEF path
      <4>2. ASSUME NEW p \in WatchPaths, watches'[p] > 0, p \notin live'
            PROVE  watches[p] > 0 /\ p \notin live
        <5>1. watches[p] \in Nat /\ Users(p, dropped) \in Nat
          BY EntriesAreDirectories, UsersLeft DEF IndexInv, TypeOK
        <5>2. Left(dropped)[p] = watches[p] - Users(p, dropped)
          OBVIOUS
        <5>3. watches'[p] = IF p = path THEN Left(dropped)[p] + 1 ELSE Left(dropped)[p]
          BY <4>1
        <5>4. p = path => watches[p] # 0
          BY <4>1, <4>2
        <5>5. p \in live => ~(Left(dropped)[p] > 0)
          BY <4>1, <4>2
        <5>6. p = path => Left(dropped)[p] = watches[p]
          <6>1. p = path => dropped = {}
            BY <4>1, <5>1, <5>4
          <6>2. QED
            BY <5>1, <5>2, <6>1, UsersOfNone
        <5> HIDE DEF Left
        <5>7. QED
          BY <4>2, <5>1, <5>2, <5>3, <5>4, <5>5, <5>6
      <4>3. QED
        BY <4>2 DEF NoWatchLost
    <3>3. QED
      BY <3>1, <3>2
  <2>4. CASE Check
    BY <2>4, DisableLosesNone DEF Check, NoWatchLost
  <2>5. CASE DropScan
    <3>1. CASE failed
      BY <2>5, <3>1, DisableLosesNone DEF DropScan
    <3>2. CASE ~failed
      <4>1. watching /\ reader.directory \in Directories /\ reader.stage \in Holding
        BY <2>5 DEF DropScan, IndexInv, RoomMade, Ordered, Fetching, Holding
      <4>2. Remove({}, {reader.directory})
        BY <2>5, <3>2, <4>1 DEF DropScan
      <4>3. {reader.directory} # {} /\ {reader.directory} \in SUBSET Directories
            /\ {} \in SUBSET Entries
        BY <4>1
      <4>4. QED
        BY <4>1, <4>2, <4>3, RemovalLosesNone
    <3>3. QED
      BY <3>1, <3>2
  <2>6. QED
    BY <2>1, <2>2, <2>3, <2>4, <2>5
<1>4. ScanTold'
  <2>1. CASE Scan
    <3>1. reader'.found = version[reader.directory] /\ reader'.directory = reader.directory
      BY <2>1 DEF Scan, IndexInv, TypeOK
    <3>2. QED
      BY <1>1, <3>1 DEF ScanTold
  <2>2. CASE ~Scan
    <3>1. reader'.stage # "retaining"
      <4>1. CASE Hit \/ Miss \/ DropScan \/ Return
        <5>1. CASE Hit
          BY <5>1 DEF Hit, IndexInv, TypeOK
        <5>2. CASE Return
          BY <5>2 DEF Return, Idle
        <5>3. CASE Miss \/ DropScan
          <6>1. \E stage \in {"watching_parent", "returning"} :
                  reader' = [reader EXCEPT !.stage = stage]
            BY <5>3, Zenon DEF Miss, DropScan, GoTo
          <6>2. QED
            BY <6>1 DEF IndexInv, TypeOK
        <5>4. QED
          BY <4>1, <5>1, <5>2, <5>3
      <4>2. CASE WatchBoth
        <5>1. \E stage \in {"watching_directory", "checking", "scanning_uncached"} :
                reader' = [reader EXCEPT !.stage = stage]
          BY <4>2 DEF WatchBoth, Watch, GoTo
        <5>2. QED
          BY <5>1 DEF IndexInv, TypeOK
      <4>3. CASE Check
        BY <4>3 DEF Check, GoTo, IndexInv, TypeOK
      <4>4. QED
        BY <2>2, <4>1, <4>2, <4>3
    <3>2. QED
      BY <3>1 DEF ScanTold
  <2>3. QED
    BY <2>1, <2>2
<1>5. QED
  BY <1>1, <1>2, <1>3, <1>4, StillTold DEF ToldInv

LEMMA RetainTells ==
    ASSUME IndexInv, ToldInv, RetainScan
    PROVE  ToldInv'
<1> USE DEF RetainScan, GoTo
<1>1. /\ reader.stage = "retaining" /\ reader.directory \in Directories
      /\ reader.before = generation
      /\ UNCHANGED <<version, generation, applied, failed, events>>
  BY DEF IndexInv, Ordered, KeepsScan, Settle, disk
<1>2. \A d \in Directories : Announced(d) => Announced(d)'
  BY <1>1, AnnouncedStays
<1>3. ScanTold'
  <2>1. reader'.stage = "returning"
    BY DEF IndexInv, TypeOK
  <2>2. QED
    BY <2>1 DEF ScanTold
<1>4. EntriesTold'
  <2> SUFFICES ASSUME NEW d \in Entries' PROVE Announced(d)' \/ entries'[d] = version[d]
    BY <1>1 DEF EntriesTold
  <2>1. \/ d = reader.directory /\ entries'[d] = reader.found
        \/ d \in Entries /\ entries'[d] = entries[d]
    BY <1>1 DEF Entries, IndexInv, TypeOK
  <2>2. d \in Directories
    BY DEF Entries
  <2>3. QED
    BY <1>1, <1>2, <2>1, <2>2 DEF ToldInv, EntriesTold, ScanTold
<1>5. NoWatchLost
  <2> SUFFICES ASSUME NEW p \in WatchPaths, watches'[p] > 0, p \notin live'
               PROVE  watches[p] > 0 /\ p \notin live
    BY DEF NoWatchLost
  <2>1. PICK dropped \in SUBSET (Entries \ {reader.directory}) :
          /\ watches' = [q \in WatchPaths |-> watches[q] - Users(q, dropped)]
          /\ live' = {q \in live : watches'[q] > 0}
    OBVIOUS
  <2>2. Users(p, dropped) \in Nat /\ watches[p] \in Nat
    <3>1. dropped \in SUBSET Entries
      OBVIOUS
    <3>2. QED
      BY <3>1, EntriesAreDirectories, UsersLeft DEF IndexInv, TypeOK
  <2>3. watches'[p] = watches[p] - Users(p, dropped)
    BY <2>1
  <2>4. QED
    BY <2>1, <2>2, <2>3
<1>6. LostWatchesTold'
  BY <1>2, <1>5 DEF ToldInv, LostWatchesTold, NoWatchLost
<1>7. QED
  BY <1>3, <1>4, <1>6 DEF ToldInv

LEMMA InvalidateTells ==
    ASSUME IndexInv, ToldInv, NEW d \in Directories, Invalidate(d)
    PROVE  ToldInv'
<1>1. reader.stage = "idle" /\ UNCHANGED <<version, reader, applied, changes>>
      /\ Remove({d} \cap Entries, {})
  BY DEF Invalidate
<1>2. Shrinks /\ NoWatchLost
  <2>1. {d} \cap Entries \in SUBSET Entries /\ reader.stage \notin Holding \cup {"watching_directory"}
    BY <1>1 DEF Holding
  <2>2. QED
    BY <1>1, <2>1, RemovalShrinks, RemovalLosesNone
<1>3. \A e \in Directories : Announced(e) => Announced(e)'
  BY <1>1, AnnouncedStays DEF changes
<1>4. ScanTold'
  BY <1>1 DEF ScanTold
<1>5. QED
  BY <1>1, <1>2, <1>3, <1>4, StillTold DEF ToldInv

\* A write that some live watch tells announces every directory it changes.
LEMMA WriteAnnounces ==
    ASSUME IndexInv, NEW directories \in SUBSET Directories, NEW tellers,
           Write(directories, tellers), UNCHANGED <<generation, applied, failed>>
    PROVE  /\ \A d \in Directories : Announced(d) => Announced(d)'
           /\ tellers \cap live # {} => \A d \in directories : Announced(d)'
           /\ \A d \in Directories \ directories : version'[d] = version[d]
<1> DEFINE event == {<<d, version'[d]>> : d \in directories}
<1>1. event \in FileEvents /\ version' \in [Directories -> Versions]
  BY WriteTypes DEF FileEvents
<1>2. events' = IF tellers \cap live = {} THEN events ELSE Append(events, event)
  BY DEF Write
<1>3. \A d \in Directories : Announced(d) => Announced(d)'
  <2> HIDE DEF event
  <2>1. events' = events \/ \E e \in FileEvents : events' = Append(events, e)
    BY <1>1, <1>2
  <2>2. QED
    BY <2>1, AnnouncedStays
<1>4. ASSUME tellers \cap live # {}, NEW d \in directories
      PROVE  Announced(d)'
  <2>1. <<d, version'[d]>> \in event /\ version'[d] \in Versions
    BY <1>1
  <2> HIDE DEF event
  <2>2. Len(events') \in 1 .. Len(events') /\ events'[Len(events')] = event
    BY <1>1, <1>2, <1>4 DEF IndexInv, TypeOK
  <2>3. QED
    BY <2>1, <2>2 DEF Announced
<1>5. \A d \in Directories \ directories : version'[d] = version[d]
  BY DEF Write
<1>6. QED
  BY <1>3, <1>4, <1>5

LEMMA WritesTell ==
    ASSUME IndexInv, ToldInv, NEW d \in Directories, OwnWrite(d) \/ EditorWrite(d)
    PROVE  ToldInv'
<1>1. Write({d}, {d}) /\ UNCHANGED <<generation, failed, entries, applied, watches, live, reader>>
  BY DEF OwnWrite, EditorWrite, index
<1>2. /\ \A e \in Directories : Announced(e) => Announced(e)'
      /\ d \in live => Announced(d)'
      /\ \A e \in Directories \ {d} : version'[e] = version[e]
  <2>1. {d} \in SUBSET Directories
    OBVIOUS
  <2>2. QED
    BY <1>1, <2>1, WriteAnnounces
\* What is kept or about to be kept has a watch that tells.
<1>3. d \in Entries \/ (reader.stage \in Holding /\ d = reader.directory) => Announced(d)'
  BY <1>2, BothWatched DEF ToldInv, LostWatchesTold
<1>4. LostWatchesTold'
  BY <1>1, <1>2 DEF ToldInv, LostWatchesTold
<1>5. EntriesTold'
  BY <1>1, <1>2, <1>3 DEF ToldInv, EntriesTold, Entries
<1>6. ScanTold'
  BY <1>1, <1>2, <1>3 DEF ToldInv, ScanTold, Holding, IndexInv, Ordered
<1>7. QED
  BY <1>4, <1>5, <1>6 DEF ToldInv

LEMMA ReplaceTells ==
    ASSUME NestedOnce, IndexInv, ToldInv, NEW d \in Directories, ReplaceDirectory(d)
    PROVE  ToldInv'
<1> DEFINE inside == {d} \cup {other \in Directories : Parent[other] = d}
<1>1. /\ Write(inside, {d, Parent[d]}) /\ live' = live \ inside
      /\ UNCHANGED <<generation, failed, entries, applied, watches, reader>>
  BY DEF ReplaceDirectory
<1>2. inside \in SUBSET Directories /\ d \in WatchPaths
  BY PathsOfDirectories
<1>3. /\ \A e \in Directories : Announced(e) => Announced(e)'
      /\ {d, Parent[d]} \cap live # {} => \A e \in inside : Announced(e)'
      /\ \A e \in Directories \ inside : version'[e] = version[e]
  <2> HIDE DEF inside
  <2>1. QED
    BY <1>1, <1>2, WriteAnnounces
<1>4. \A e \in inside : e \in Directories /\ (e = d \/ Parent[e] = d)
  OBVIOUS
<1>5. \A e \in Directories : e = d \/ Parent[e] = d => e \in inside
  OBVIOUS
<1> HIDE DEF inside
\* A used watch of the directory itself announces what is inside.
<1>6. watches[d] > 0 => \A e \in inside : Announced(e)'
  BY <1>2, <1>3, <1>4 DEF ToldInv, LostWatchesTold
<1>7. ASSUME NEW e \in inside, e \in Entries \/ (reader.stage \in Holding /\ e = reader.directory)
      PROVE  Announced(e)'
  <2>1. watches[e] > 0 /\ watches[Parent[e]] > 0
    BY <1>7, BothWatched
  <2>2. QED
    BY <1>4, <1>6, <2>1
<1>8. LostWatchesTold'
  <2> SUFFICES ASSUME NEW p \in WatchPaths, watches[p] > 0, p \notin live',
                      NEW e \in Directories, e = p \/ Parent[e] = p
               PROVE  Announced(e)'
    BY <1>1 DEF LostWatchesTold
  <2>1. CASE p \notin live
    BY <1>3, <2>1 DEF ToldInv, LostWatchesTold
  <2>2. CASE p = d
    BY <1>5, <1>6, <2>2
  <2>3. CASE p \in live /\ p # d
    <3>1. p \in inside /\ p \in Directories /\ Parent[p] = d
      BY <1>1, <1>4, <2>3
    <3>2. \A f \in Directories : Parent[f] # p
      BY <3>1 DEF NestedOnce
    <3>3. p \in Entries \/ (reader.stage \in Holding /\ p = reader.directory)
      <4>1. watches[p] = Users(p, Entries) + Held(p) /\ Users(p, Entries) \in Nat
            /\ Held(p) \in {0, 1}
        BY EntriesAreDirectories, UsersLeft, HeldType DEF IndexInv, Counted
      <4>2. Users(p, Entries) > 0 => p \in Entries
        BY <3>2, EntriesAreDirectories, UsersExist
      <4>3. ASSUME Held(p) = 1
            PROVE  reader.stage \in Holding /\ p = reader.directory
        <5>1. reader.stage \in Holding \cup {"watching_directory"}
              /\ reader.directory \in Directories
          BY <4>3, HeldType DEF IndexInv, Ordered, Holding
        <5>2. reader.stage # "watching_directory"
          BY <3>2, <4>3, <5>1 DEF Held
        <5>3. Users(p, {reader.directory}) = 1
          BY <4>3, <5>1, <5>2, HeldType
        <5>4. QED
          BY <3>2, <5>1, <5>2, <5>3, UsersOfOne
      <4>4. QED
        BY <4>1, <4>2, <4>3
    <3>4. Announced(p)'
      BY <1>7, <3>1, <3>3
    <3>5. QED
      BY <3>2, <3>4
  <2>4. QED
    BY <2>1, <2>2, <2>3
<1>9. EntriesTold'
  BY <1>1, <1>3, <1>7 DEF ToldInv, EntriesTold, Entries
<1>10. ScanTold'
  BY <1>1, <1>3, <1>7 DEF ToldInv, ScanTold, Holding, IndexInv, Ordered
<1>11. QED
  BY <1>8, <1>9, <1>10 DEF ToldInv

LEMMA OtherStepsTell ==
    ASSUME IndexInv, ToldInv,
           Observe \/ Overflow \/ Elapse \/ WatcherFails \/ (\E d \in Directories : Age(d))
    PROVE  ToldInv'
<1>1. UNCHANGED <<version, entries, watches, live, reader, applied>>
  BY DEF Observe, Overflow, Elapse, WatcherFails, Age, disk, index
<1>2. \A d \in Directories : Announced(d) => Announced(d)'
  <2>1. CASE Observe
    BY <1>1, <2>1 DEF Observe, Announced, IndexInv, TypeOK, Ordered
  <2>2. CASE ~Observe
    <3>1. /\ UNCHANGED generation /\ (failed => failed')
          /\ events' = events \/ events' = <<Rescan>>
      BY <2>2 DEF Overflow, Elapse, WatcherFails, Age, changes
    <3>2. QED
      BY <1>1, <3>1, AnnouncedStays
  <2>3. QED
    BY <2>1, <2>2
<1>3. generation' = generation \/ \A d \in Directories : Announced(d)'
  <2>1. CASE Observe
    BY <1>1, <2>1 DEF Observe, Announced, IndexInv, TypeOK, Ordered
  <2>2. CASE ~Observe
    BY <2>2 DEF Overflow, Elapse, WatcherFails, Age, changes
  <2>3. QED
    BY <2>1, <2>2
<1>4. LostWatchesTold' /\ EntriesTold'
  BY <1>1, <1>2 DEF ToldInv, LostWatchesTold, EntriesTold, Entries
<1>5. ScanTold'
  BY <1>1, <1>2, <1>3 DEF ToldInv, ScanTold, IndexInv, Ordered
<1>6. QED
  BY <1>4, <1>5 DEF ToldInv

LEMMA NextTells ==
    ASSUME NestedOnce, IndexInv, ToldInv, [Next]_vars
    PROVE  ToldInv'
<1>1. CASE Read
  BY <1>1, BeginTells, ReadStepsTell, RetainTells DEF Read
<1>2. ASSUME NEW d \in Directories,
             Invalidate(d) \/ OwnWrite(d) \/ EditorWrite(d) \/ ReplaceDirectory(d)
      PROVE  ToldInv'
  BY <1>2, InvalidateTells, WritesTell, ReplaceTells
<1>3. CASE Observe \/ Overflow \/ Elapse \/ WatcherFails \/ \E d \in Directories : Age(d)
  BY <1>3, OtherStepsTell
<1>4. CASE UNCHANGED vars
  <2>1. \A d \in Directories : Announced(d) => Announced(d)'
    BY <1>4, AnnouncedStays DEF vars, changes, index
  <2>2. UNCHANGED <<version, generation, entries, watches, live, reader>>
    BY <1>4 DEF vars, disk, changes, index
  <2>3. LostWatchesTold' /\ EntriesTold'
    BY <2>1, <2>2 DEF ToldInv, LostWatchesTold, EntriesTold, Entries
  <2>4. ScanTold'
    BY <2>1, <2>2 DEF ToldInv, ScanTold, IndexInv, Ordered
  <2>5. QED
    BY <2>3, <2>4 DEF ToldInv
<1>5. QED
  BY <1>1, <1>2, <1>3, <1>4 DEF Next

\* An entry that is outdated is one the index will hear of, or has heard of and
\* removes at the next read (task_index.rs read, retain, observe).
THEOREM OutdatedEntriesAreTold == ASSUME NestedOnce PROVE Spec => []OutdatedEntriesGo
<1>1. IndexInv /\ ToldInv /\ [Next]_vars => ToldInv'
  BY NextTells
<1>2. ASSUME IndexInv, ToldInv PROVE OutdatedEntriesGo
  <2> SUFFICES ASSUME NEW d \in Entries, entries[d] < version[d] PROVE Announced(d)
    BY DEF OutdatedEntriesGo, Announced
  <2>1. entries[d] \in Nat /\ version[d] \in Nat
    <3>1. entries[d] \in Versions /\ version[d] \in Versions
      BY <1>2 DEF IndexInv, TypeOK, Entries
    <3>2. QED
      BY <3>1, VersionsAreNumbers
  <2>2. entries[d] # version[d]
    BY <2>1
  <2>3. QED
    BY <1>2, <2>2 DEF ToldInv, EntriesTold
<1>3. QED
  BY ToldInit, IndexInvariance, <1>1, <1>2, PTL DEF Spec
=============================================================================
