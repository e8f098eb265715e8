----------------------------- MODULE TextsProofs -----------------------------
(***************************************************************************)
(* Edits of the texts in the files of users change what was asked for and  *)
(* nothing else, for texts of any length: front matter keeps its other     *)
(* properties and its body, the sections of a task keep what they said,    *)
(* and reports come off again.                                             *)
(*                                                                         *)
(* Both arguments are the same.  A text is cut where the edit is; what a   *)
(* reader finds in the parts is what it finds in the whole, because each   *)
(* part starts with a line that nothing above it goes on to (SaidOfBoth,   *)
(* Fresh, OutBoth, RestBoth); and the part that the edit puts in the       *)
(* middle says what was asked for (PutFacts, ItemLinesReady).              *)
(***************************************************************************)
EXTENDS Texts, SequenceTheorems, WellFoundedInduction, TLAPS

-----------------------------------------------------------------------------
(* Counting, and the first and the last of some positions. *)

\* The order that Least takes its minimum in.
Smaller == {pair \in Nat \X Nat : pair[1] < pair[2]}

\* A set of numbers has a least one.
LEMMA Least ==
    ASSUME NEW T \in SUBSET Nat, T # {}
    PROVE  \E n \in T : \A m \in T : n <= m
<1>1. IsWellFoundedOn(Smaller, Nat)
  BY NatLessThanWellFounded DEF OpToRel, Smaller
<1>2. PICK n \in T : \A m \in T : ~(<<m, n>> \in Smaller)
  BY <1>1, WFMin
<1>3. ASSUME NEW m \in T
      PROVE  n <= m
  <2>1. m \in Nat /\ n \in Nat /\ ~(<<m, n>> \in Smaller)
    BY <1>2
  <2>2. ~(m < n)
    BY <2>1 DEF Smaller
  <2>3. QED
    BY <2>1, <2>2
<1>4. QED
  BY <1>3

\* Induction, for a set of numbers: an operator cannot be given to the provers.
LEMMA Counting ==
    ASSUME NEW S \in SUBSET Nat, 0 \in S, \A n \in S : n + 1 \in S
    PROVE  S = Nat
<1>1. SUFFICES ASSUME Nat \ S # {} PROVE FALSE
  OBVIOUS
<1>2. PICK n \in Nat \ S : \A m \in Nat \ S : n <= m
  BY <1>1, Least
<1>3. n # 0 /\ n - 1 \in Nat /\ n - 1 \in S
  BY <1>2
<1>4. QED
  BY <1>2, <1>3

\* First and Last are what they are called.
LEMMA FirstExists ==
    ASSUME NEW S \in SUBSET Nat, S # {}
    PROVE  First(S) \in S /\ \A j \in S : First(S) <= j
BY Least DEF First

LEMMA LastExists ==
    ASSUME NEW S \in SUBSET Nat, S # {}, NEW n \in Nat, \A j \in S : j <= n
    PROVE  Last(S) \in S /\ \A j \in S : j <= Last(S)
<1> DEFINE T == {m \in Nat : \A j \in S : j <= m}
<1>1. PICK top \in T : \A m \in T : top <= m
  <2>1. n \in T
    OBVIOUS
  <2>2. T \in SUBSET Nat /\ T # {}
    BY <2>1
  <2> HIDE DEF T
  <2>3. QED
    BY <2>2, Least
<1>2. top \in S
  <2>1. SUFFICES ASSUME top \notin S PROVE FALSE
    OBVIOUS
  <2>2. PICK s \in S : TRUE
    OBVIOUS
  <2>3. \A j \in S : j <= top /\ j # top /\ j \in Nat
    BY <1>1, <2>1
  <2>4. top \in Nat /\ s < top
    BY <1>1, <2>2, <2>3
  <2>5. top - 1 \in Nat /\ \A j \in S : j <= top - 1
    BY <2>3, <2>4
  <2>6. QED
    BY <1>1, <2>4, <2>5
<1>3. \E m \in S : \A j \in S : j <= m
  BY <1>1, <1>2
<1>4. QED
  BY <1>3 DEF Last

LEMMA LastIs ==
    ASSUME NEW S \in SUBSET Nat, NEW i \in S, \A j \in S : j <= i
    PROVE  Last(S) = i
<1>1. Last(S) \in S /\ \A j \in S : j <= Last(S)
  BY DEF Last
<1>2. Last(S) <= i /\ i <= Last(S) /\ Last(S) \in Nat
  BY <1>1
<1>3. QED
  BY <1>2

-----------------------------------------------------------------------------
(* One step after the other. *)

\* f starts at the base and takes each step from the result before it.
StepsFrom(f, base, n, step) ==
    /\ f[0] = base
    /\ \A m \in 1 .. n : f[m] = step[<<m, f[m - 1]>>]

\* Steps from a base, each from the result before it, have a function.
LEMMA StepsExist ==
    ASSUME NEW A, NEW base \in A, NEW n \in Nat, NEW step \in [(1 .. n) \X A -> A]
    PROVE  \E f \in [0 .. n -> A] : StepsFrom(f, base, n, step)
<1> DEFINE Good(f, k) == f \in [0 .. k -> A] /\ \A m \in 0 .. k :
               f[m] = IF m = 0 THEN base ELSE step[<<m, f[m - 1]>>]
           S == {k \in Nat : k <= n => \E f : Good(f, k)}
<1>1. 0 \in S
  <2>1. Good([m \in 0 .. 0 |-> base], 0)
    OBVIOUS
  <2>2. QED
    BY <2>1
<1>2. ASSUME NEW k \in S
      PROVE  k + 1 \in S
  <2>1. SUFFICES ASSUME k + 1 <= n PROVE \E f : Good(f, k + 1)
    BY <1>2
  <2>2. k \in Nat /\ k + 1 \in 1 .. n
    BY <1>2, <2>1
  <2>3. PICK f : Good(f, k)
    BY <1>2, <2>1
  <2> DEFINE top == step[<<k + 1, f[k]>>]
             g == [m \in 0 .. k + 1 |-> IF m = k + 1 THEN top ELSE f[m]]
  <2>4. f[k] \in A /\ top \in A
    BY <2>2, <2>3
  <2>5. g \in [0 .. k + 1 -> A]
    BY <2>2, <2>3, <2>4
  <2>6. ASSUME NEW m \in 0 .. k + 1
        PROVE  g[m] = IF m = 0 THEN base ELSE step[<<m, g[m - 1]>>]
    <3>1. CASE m = k + 1
      <4>1. g[m] = top /\ m - 1 = k /\ g[m - 1] = f[k] /\ m # 0
        BY <2>2, <3>1
      <4>2. QED
        BY <3>1, <4>1
    <3>2. CASE m = 0
      <4>1. g[m] = f[m] /\ 0 \in 0 .. k
        BY <2>2, <3>2
      <4>3. f[0] = base
        BY <2>3, <4>1
      <4>2. QED
        BY <3>2, <4>1, <4>3
    <3>3. CASE m \in 1 .. k
      <4>1. g[m] = f[m] /\ g[m - 1] = f[m - 1] /\ m # 0 /\ m \in 0 .. k
        BY <2>2, <3>3
      <4>2. f[m] = step[<<m, f[m - 1]>>]
        BY <2>3, <4>1
      <4>3. QED
        BY <4>1, <4>2
    <3>4. QED
      BY <2>2, <3>1, <3>2, <3>3
  <2> HIDE DEF g
  <2>7. Good(g, k + 1)
    BY <2>5, <2>6
  <2>8. QED
    BY <2>7
<1> HIDE DEF S
<1>3. S = Nat
  BY <1>1, <1>2, Counting DEF S
<1>4. PICK f : Good(f, n)
  BY <1>3 DEF S
<1>5. f[0] = base
  <2>1. 0 \in 0 .. n
    OBVIOUS
  <2>2. f[0] = IF 0 = 0 THEN base ELSE step[<<0, f[0 - 1]>>]
    BY <1>4, <2>1, ZenonT(30)
  <2>3. QED
    BY <2>2
<1>6. ASSUME NEW m \in 1 .. n
      PROVE  f[m] = step[<<m, f[m - 1]>>]
  BY <1>4, <1>6
<1>7. QED
  BY <1>4, <1>5, <1>6 DEF StepsFrom

\* f and g start alike, and step alike from what is alike.
Alike(f, g, n) ==
    /\ f[0] = g[0]
    /\ \A m \in 1 .. n : f[m - 1] = g[m - 1] => f[m] = g[m]

\* Two of them that take the same steps agree.
LEMMA StepsAgree ==
    ASSUME NEW n \in Nat, NEW f, NEW g, Alike(f, g, n)
    PROVE  \A m \in 0 .. n : f[m] = g[m]
<1> USE DEF Alike
<1> DEFINE S == {m \in Nat : m <= n => f[m] = g[m]}
<1>1. 0 \in S
  OBVIOUS
<1>2. ASSUME NEW m \in S
      PROVE  m + 1 \in S
  <2>1. m \in Nat /\ (m + 1) - 1 = m
    BY <1>2
  <2>2. ASSUME m + 1 <= n
        PROVE  f[m + 1] = g[m + 1]
    <3>1. m <= n /\ m + 1 \in 1 .. n
      BY <2>1, <2>2
    <3>2. QED
      BY <1>2, <2>1, <3>1
  <2>3. QED
    BY <2>1, <2>2
<1> HIDE DEF S
<1>3. S = Nat
  BY <1>1, <1>2, Counting DEF S
<1>4. QED
  BY <1>3 DEF S

\* Sequences are made by appending.
LEMMA Appending ==
    ASSUME NEW T, NEW G \in SUBSET Seq(T), <<>> \in G,
           \A s \in G, e \in T : Append(s, e) \in G
    PROVE  G = Seq(T)
<1> DEFINE S == {n \in Nat : \A s \in Seq(T) : Len(s) = n => s \in G}
<1>1. 0 \in S
  <2>1. \A s \in Seq(T) : Len(s) = 0 => s = <<>>
    BY EmptySeq
  <2>2. QED
    BY <2>1
<1>2. ASSUME NEW n \in S
      PROVE  n + 1 \in S
  <2>1. ASSUME NEW s \in Seq(T), Len(s) = n + 1
        PROVE  s \in G
    <3>1. s # <<>> /\ n \in Nat
      BY <1>2, <2>1, EmptySeq
    <3>2. PICK r \in Seq(T), e \in T : s = Append(r, e)
      BY <3>1, SequenceEmptyOrAppend
    <3>3. Len(r) = n
      BY <2>1, <3>1, <3>2, AppendProperties, LenProperties
    <3>4. QED
      BY <1>2, <3>2, <3>3
  <2>2. QED
    BY <1>2, <2>1
<1> HIDE DEF S
<1>3. S = Nat
  BY <1>1, <1>2, Counting DEF S
<1>4. \A s \in Seq(T) : Len(s) \in Nat
  BY LenProperties
<1>5. QED
  BY <1>3, <1>4 DEF S

\* The grouping of texts that are put together does not matter.
Assoc(a, b, c) == (a \o b) \o c = a \o (b \o c)

LEMMA Associates ==
    ASSUME NEW S, NEW a \in Seq(S), NEW b \in Seq(S), NEW c \in Seq(S)
    PROVE  Assoc(a, b, c)
BY ConcatAssociative DEF Assoc

-----------------------------------------------------------------------------
(* Parts put together. *)

\* The function that Joined defines.
IsJoined(f, parts) ==
    f = [n \in 0 .. Len(parts) |-> IF n = 0 THEN <<>> ELSE f[n - 1] \o parts[n]]

\* What is put together, after each part.
LEMMA JoinedIs ==
    ASSUME NEW T, NEW parts \in Seq(Seq(T))
    PROVE  \E f \in [0 .. Len(parts) -> Seq(T)] :
              /\ f[0] = <<>>
              /\ \A n \in 1 .. Len(parts) : f[n] = f[n - 1] \o parts[n]
              /\ Joined(parts) = f[Len(parts)]
<1> DEFINE n == Len(parts)
           A == Seq(T)
           step == [pair \in (1 .. n) \X A |-> pair[2] \o parts[pair[1]]]
<1>1. n \in Nat /\ \A m \in 1 .. n : parts[m] \in A
  BY LenProperties, ElementOfSeq
<1>2. ASSUME NEW m \in 1 .. n, NEW a \in A
      PROVE  a \o parts[m] \in A
  BY <1>1, <1>2, ConcatProperties
<1>3. step \in [(1 .. n) \X A -> A]
  BY <1>2
<1>4. <<>> \in A
  BY EmptySeq
<1>5. \A m \in 1 .. n, a \in A : step[<<m, a>>] = a \o parts[m]
  OBVIOUS
<1> HIDE DEF step, n, A
<1>6. PICK f \in [0 .. n -> A] : StepsFrom(f, <<>>, n, step)
  BY <1>1, <1>3, <1>4, StepsExist
<1>7. ASSUME NEW m \in 0 .. n
      PROVE  f[m] = IF m = 0 THEN <<>> ELSE f[m - 1] \o parts[m]
  <2>1. CASE m = 0
    BY <1>6, <2>1 DEF StepsFrom
  <2>2. CASE m # 0
    <3>1. m \in 1 .. n /\ m - 1 \in 0 .. n
      BY <1>1, <2>2
    <3>2. f[m - 1] \in A
      BY <3>1
    <3>3. QED
      BY <1>5, <1>6, <2>2, <3>1, <3>2 DEF StepsFrom
  <2>3. QED
    BY <2>1, <2>2
<1>8. IsJoined(f, parts)
  BY <1>7 DEF IsJoined, n
<1> DEFINE chosen == CHOOSE g : IsJoined(g, parts)
<1>9. IsJoined(chosen, parts)
  BY <1>8
<1>10. Joined(parts) = chosen[n]
  BY DEF Joined, IsJoined, n
<1> HIDE DEF chosen
<1>11. \A m \in 0 .. n : chosen[m] = IF m = 0 THEN <<>> ELSE chosen[m - 1] \o parts[m]
  BY <1>9 DEF IsJoined, n
<1>12. /\ f[0] = <<>> /\ chosen[0] = <<>>
       /\ \A m \in 1 .. n : f[m] = f[m - 1] \o parts[m]
       /\ \A m \in 1 .. n : chosen[m] = chosen[m - 1] \o parts[m]
  <2>1. 0 \in 0 .. n /\ \A m \in 1 .. n : m \in 0 .. n /\ m # 0
    BY <1>1
  <2>2. QED
    BY <1>7, <1>11, <2>1, ZenonT(30)
<1>13. \A m \in 0 .. n : f[m] = chosen[m]
  <2>1. Alike(f, chosen, n)
    BY <1>12, ZenonT(30) DEF Alike
  <2>2. QED
    BY <1>1, <2>1, StepsAgree
<1>14. f[n] = Joined(parts)
  BY <1>1, <1>10, <1>13
<1>15. QED
  BY <1>12, <1>14 DEF n, A

\* Texts put together are a text.
LEMMA JoinedType ==
    ASSUME NEW T, NEW parts \in Seq(Seq(T))
    PROVE  Joined(parts) \in Seq(T)
<1>1. PICK f \in [0 .. Len(parts) -> Seq(T)] : Joined(parts) = f[Len(parts)]
  BY JoinedIs
<1>2. Len(parts) \in 0 .. Len(parts)
  BY LenProperties
<1>3. QED
  BY <1>1, <1>2

LEMMA JoinedNone == Joined(<<>>) = <<>>
<1> DEFINE none == <<>>
<1>1. none \in Seq(Seq({})) /\ Len(none) = 0
  BY EmptySeq
<1> HIDE DEF none
<1>2. PICK f \in [0 .. Len(none) -> Seq({})] : f[0] = <<>> /\ Joined(none) = f[Len(none)]
  BY <1>1, JoinedIs
<1>3. QED
  BY <1>1, <1>2 DEF none

\* One more part comes after the others.
LEMMA JoinedMore ==
    ASSUME NEW T, NEW parts \in Seq(Seq(T)), NEW part \in Seq(T)
    PROVE  Joined(Append(parts, part)) = Joined(parts) \o part
<1> DEFINE n == Len(parts)
           more == Append(parts, part)
<1>1. /\ n \in Nat /\ more \in Seq(Seq(T)) /\ Len(more) = n + 1
      /\ \A i \in 1 .. n : more[i] = parts[i]
      /\ more[n + 1] = part
  BY AppendProperties, LenProperties
<1>2. PICK f \in [0 .. n -> Seq(T)] :
         /\ f[0] = <<>>
         /\ \A m \in 1 .. n : f[m] = f[m - 1] \o parts[m]
         /\ Joined(parts) = f[n]
  BY JoinedIs
<1> HIDE DEF n, more
<1>3. PICK g \in [0 .. Len(more) -> Seq(T)] :
         /\ g[0] = <<>>
         /\ \A m \in 1 .. Len(more) : g[m] = g[m - 1] \o more[m]
         /\ Joined(more) = g[Len(more)]
  BY <1>1, JoinedIs
<1>4. \A m \in 0 .. n : f[m] = g[m]
  <2>1. \A m \in 1 .. n : m \in 1 .. Len(more) /\ more[m] = parts[m]
    BY <1>1
  <2>2. Alike(f, g, n)
    BY <1>2, <1>3, <2>1, ZenonT(30) DEF Alike
  <2>3. n \in Nat
    BY <1>1
  <2>4. QED
    BY <2>2, <2>3, StepsAgree, ZenonT(30)
<1>5. g[n + 1] = g[n] \o part
  <2>1. n + 1 \in 1 .. Len(more) /\ (n + 1) - 1 = n
    BY <1>1
  <2>2. QED
    BY <1>1, <1>3, <2>1
<1>6. f[n] = g[n]
  BY <1>1, <1>4
<1>7. QED
  BY <1>1, <1>2, <1>3, <1>5, <1>6 DEF more

\* Parts after parts.
LEMMA JoinedBoth ==
    ASSUME NEW T, NEW a \in Seq(Seq(T)), NEW b \in Seq(Seq(T))
    PROVE  Joined(a \o b) = Joined(a) \o Joined(b)
<1> DEFINE P == Seq(T)
           G == {s \in Seq(P) : Joined(a \o s) = Joined(a) \o Joined(s)}
<1>1. <<>> \in G
  <2>1. a \o <<>> = a /\ <<>> \in Seq(P)
    BY ConcatEmptySeq, EmptySeq
  <2>2. Joined(a) \in Seq(T)
    BY JoinedType
  <2>3. Joined(a) \o <<>> = Joined(a)
    BY <2>2, ConcatEmptySeq
  <2>4. QED
    BY <2>1, <2>3, JoinedNone
<1>2. ASSUME NEW s \in G, NEW e \in P
      PROVE  Append(s, e) \in G
  <2>1. s \in Seq(P) /\ Joined(a \o s) = Joined(a) \o Joined(s)
    OBVIOUS
  <2>2. Append(s, e) \in Seq(P) /\ a \o s \in Seq(P)
    BY <2>1, AppendProperties, ConcatProperties
  <2>3. a \o Append(s, e) = Append(a \o s, e)
    <3>1. Append(s, e) = s \o <<e>> /\ Append(a \o s, e) = (a \o s) \o <<e>>
      BY <2>1, <2>2, AppendIsConcat
    <3>2. <<e>> \in Seq(P)
      OBVIOUS
    <3>3. Assoc(a, s, <<e>>)
      BY <2>1, <3>2, Associates
    <3>4. QED
      BY <3>1, <3>3 DEF Assoc
  <2>4. /\ Joined(Append(a \o s, e)) = Joined(a \o s) \o e
        /\ Joined(Append(s, e)) = Joined(s) \o e
    BY <2>1, <2>2, JoinedMore
  <2>5. Joined(a) \in Seq(T) /\ Joined(s) \in Seq(T) /\ e \in Seq(T)
    BY <2>1, JoinedType
  <2>6. (Joined(a) \o Joined(s)) \o e = Joined(a) \o (Joined(s) \o e)
    <3> DEFINE x == Joined(a)
               y == Joined(s)
    <3> HIDE DEF x, y, G, P
    <3>1. x \in Seq(T) /\ y \in Seq(T) /\ e \in Seq(T)
      BY <2>5 DEF x, y, P
    <3>2. Assoc(x, y, e)
      BY <3>1, Associates
    <3>3. QED
      BY <3>2 DEF x, y, Assoc
  <2>7. QED
    BY <2>1, <2>2, <2>3, <2>4, <2>6
<1> HIDE DEF G
<1>3. G = Seq(P)
  BY <1>1, <1>2, Appending DEF G
<1>4. QED
  BY <1>3 DEF G, P

\* Parts with nothing in them.
LEMMA JoinedEmpty ==
    ASSUME NEW parts \in Seq({<<>>})
    PROVE  Joined(parts) = <<>>
<1> DEFINE P == {<<>>}
           G == {s \in Seq(P) : Joined(s) = <<>>}
<1>1. <<>> \in G
  BY JoinedNone, EmptySeq
<1>2. ASSUME NEW s \in G, NEW e \in P
      PROVE  Append(s, e) \in G
  <2>1. s \in Seq({<<>>}) /\ Joined(s) = <<>> /\ e = <<>>
    OBVIOUS
  <2>2. Append(s, e) \in Seq({<<>>})
    BY <2>1, AppendProperties
  <2>3. {<<>>} \subseteq Seq({})
    BY EmptySeq
  <2>4. s \in Seq(Seq({})) /\ e \in Seq({})
    BY <2>1, <2>3, SeqMonotonic
  <2>5. Joined(Append(s, e)) = <<>> \o e
    BY <2>1, <2>4, JoinedMore
  <2>6. QED
    BY <2>1, <2>2, <2>4, <2>5, ConcatEmptySeq
<1> HIDE DEF G, P
<1>3. G = Seq(P)
  BY <1>1, <1>2, Appending DEF G
<1>4. QED
  BY <1>3 DEF G, P

LEMMA JoinedOne ==
    ASSUME NEW T, NEW part \in Seq(T)
    PROVE  Joined(<<part>>) = part
<1>1. <<>> \in Seq(Seq(T)) /\ <<part>> = Append(<<>>, part)
  BY EmptySeq
<1>2. Joined(<<part>>) = <<>> \o part
  BY <1>1, JoinedMore, JoinedNone
<1>3. QED
  BY <1>2, ConcatEmptySeq

-----------------------------------------------------------------------------
(* Lines of front matter, and what owns them. *)

\* Lines that can be between the fences.
Plain == Lines \ {Fence}

\* The kind of a line tells whether it starts a property, and whether it is a fence.
LEMMA LineKinds ==
    ASSUME NEW line \in Lines
    PROVE  /\ line \in Starts <=> line.kind \in {"plain", "block", "new"}
           /\ line \in Starts => line.name \in PropertyNames
           /\ line = Fence <=> line.kind = "fence"
<1>1. CASE line \in Starts
  <2>1. PICK name \in PropertyNames, kind \in {"plain", "block", "new"} : line = Property(name, kind)
    BY <1>1 DEF Starts
  <2>2. line.kind = kind /\ line.name = name
    BY <2>1 DEF Property
  <2>3. Fence.kind = "fence"
    BY DEF Fence
  <2>4. QED
    BY <1>1, <2>1, <2>2, <2>3
<1>2. CASE line \in Others
  <2>1. PICK kind \in {"indented", "item", "comment", "blank"} : line = [kind |-> kind]
    BY <1>2 DEF Others
  <2>2. line.kind = kind /\ Fence.kind = "fence"
    BY <2>1 DEF Fence
  <2>3. ASSUME line \in Starts PROVE FALSE
    <3>1. PICK name \in PropertyNames, k \in {"plain", "block", "new"} : line = Property(name, k)
      BY <2>3 DEF Starts
    <3>2. line.kind = k
      BY <3>1 DEF Property
    <3>3. QED
      BY <2>2, <3>2
  <2>4. QED
    BY <2>1, <2>2, <2>3
<1>3. CASE line = Fence
  <2>1. line.kind = "fence"
    BY <1>3 DEF Fence
  <2>2. ASSUME line \in Starts PROVE FALSE
    <3>1. PICK name \in PropertyNames, k \in {"plain", "block", "new"} : line = Property(name, k)
      BY <2>2 DEF Starts
    <3>2. line.kind = k
      BY <3>1 DEF Property
    <3>3. QED
      BY <2>1, <3>2
  <2>3. QED
    BY <1>3, <2>1, <2>2
<1>4. QED
  BY <1>1, <1>2, <1>3 DEF Lines

LEMMA PlainKinds ==
    ASSUME NEW block \in Seq(Plain), NEW i \in 1 .. Len(block)
    PROVE  /\ block[i] \in Plain /\ block[i] \in Lines
           /\ block[i].kind \in {"plain", "block", "new"} <=> block[i] \in Starts
           /\ block[i] \in Starts => block[i].name \in PropertyNames
<1>1. block[i] \in Plain
  BY ElementOfSeq
<1>2. block[i] \in Lines
  BY <1>1 DEF Plain
<1>3. QED
  BY <1>1, <1>2, LineKinds

LEMMA PropertyIsPlain ==
    ASSUME NEW name \in PropertyNames, NEW kind \in {"plain", "block", "new"}
    PROVE  /\ Property(name, kind) \in Starts /\ Property(name, kind) \in Plain
           /\ Property(name, kind).name = name /\ Property(name, kind).kind = kind
<1>1. Property(name, kind) \in Starts
  BY DEF Starts
<1>2. Property(name, kind).name = name /\ Property(name, kind).kind = kind
  BY DEF Property
<1>3. Property(name, kind) \in Lines
  BY <1>1 DEF Lines
<1>4. Property(name, kind) # Fence
  BY <1>2, <1>3, LineKinds
<1>5. QED
  BY <1>1, <1>2, <1>3, <1>4 DEF Plain

\* The last start at or above a line.
Owns(block, j, i) ==
    /\ j \in 1 .. i
    /\ block[j] \in Starts
    /\ \A k \in j + 1 .. i : block[k] \notin Starts

\* The owner of a line is the last start at or above it, if there is one.
LEMMA OwnerFound ==
    ASSUME NEW block \in Seq(Plain), NEW i \in 1 .. Len(block), NEW j, Owns(block, j, i)
    PROVE  OwnerOf(block, i) = j
<1> DEFINE S == {k \in 1 .. i : block[k].kind \in {"plain", "block", "new"}}
<1>1. Len(block) \in Nat /\ \A k \in 1 .. i : k \in 1 .. Len(block)
  BY LenProperties
<1>2. \A k \in 1 .. i : k \in S <=> block[k] \in Starts
  BY <1>1, PlainKinds
<1>3. j \in S /\ S \in SUBSET Nat
  BY <1>1, <1>2 DEF Owns
<1>4. \A k \in S : k <= j
  BY <1>1, <1>2 DEF Owns
<1> HIDE DEF S
<1>5. Last(S) = j
  BY <1>3, <1>4, LastIs
<1>6. QED
  BY <1>3, <1>5 DEF OwnerOf, S

LEMMA OwnerKnown ==
    ASSUME NEW block \in Seq(Plain), NEW i \in 1 .. Len(block)
    PROVE  \/ OwnerOf(block, i) = 0 /\ \A k \in 1 .. i : block[k] \notin Starts
           \/ Owns(block, OwnerOf(block, i), i) /\ OwnerOf(block, i) # 0
<1> DEFINE S == {k \in 1 .. i : block[k].kind \in {"plain", "block", "new"}}
<1>1. Len(block) \in Nat /\ i \in Nat /\ \A k \in 1 .. i : k \in 1 .. Len(block)
  BY LenProperties
<1>2. \A k \in 1 .. i : k \in S <=> block[k] \in Starts
  BY <1>1, PlainKinds
<1>3. S \in SUBSET (1 .. i) /\ S \in SUBSET Nat /\ \A k \in S : k <= i
  BY <1>1
<1>4. OwnerOf(block, i) = IF S = {} THEN 0 ELSE Last(S)
  BY DEF OwnerOf
<1> HIDE DEF S
<1>5. CASE S = {}
  BY <1>2, <1>4, <1>5
<1>6. CASE S # {}
  <2>1. Last(S) \in S /\ \A k \in S : k <= Last(S)
    BY <1>1, <1>3, <1>6, LastExists
  <2>2. Last(S) \in 1 .. i /\ block[Last(S)] \in Starts
    BY <1>2, <1>3, <2>1
  <2>3. ASSUME NEW k \in Last(S) + 1 .. i
        PROVE  block[k] \notin Starts
    <3>1. k \in 1 .. i /\ ~(k <= Last(S))
      BY <1>1, <2>2, <2>3
    <3>2. QED
      BY <1>2, <2>1, <3>1
  <2>4. QED
    BY <1>1, <1>4, <1>6, <2>2, <2>3 DEF Owns
<1>7. QED
  BY <1>5, <1>6

-----------------------------------------------------------------------------
(* Blocks that are put together. *)

\* Whatever a block says belongs to a property of its own.
Settled(block) ==
    \A i \in 1 .. Len(block) : Said(block[i]) => \E j \in 1 .. i : block[j] \in Starts

\* What each line adds to what a block says of a name.
Pieces(block, name) ==
    [i \in DOMAIN block |->
        IF Said(block[i]) /\ OwnerOf(block, i) # 0 /\ block[OwnerOf(block, i)].name = name
        THEN <<block[i]>> ELSE <<>>]

LEMMA PiecesType ==
    ASSUME NEW block \in Seq(Plain), NEW name
    PROVE  /\ Pieces(block, name) \in Seq(Seq(Plain))
           /\ Len(Pieces(block, name)) = Len(block)
           /\ SaidOf(block, name) = Joined(Pieces(block, name))
           /\ \A i \in 1 .. Len(block) : Pieces(block, name)[i] =
                IF Said(block[i]) /\ OwnerOf(block, i) # 0 /\ block[OwnerOf(block, i)].name = name
                THEN <<block[i]>> ELSE <<>>
<1> DEFINE n == Len(block)
           P == Pieces(block, name)
           A == Seq(Plain)
<1>1. n \in Nat /\ DOMAIN block = 1 .. n
  BY LenProperties
<1>2. \A i \in 1 .. n : P[i] =
        IF Said(block[i]) /\ OwnerOf(block, i) # 0 /\ block[OwnerOf(block, i)].name = name
        THEN <<block[i]>> ELSE <<>>
  BY <1>1 DEF Pieces
<1>3. ASSUME NEW i \in 1 .. n
      PROVE  P[i] \in A
  <2>1. block[i] \in Plain
    BY <1>3, PlainKinds
  <2>2. <<block[i]>> \in A /\ <<>> \in A
    BY <2>1
  <2> HIDE DEF P, A
  <2>3. QED
    BY <1>2, <2>2
<1>4. DOMAIN P = 1 .. n /\ P = [i \in 1 .. n |-> P[i]]
  BY <1>1 DEF Pieces
<1> HIDE DEF P, n, A
<1>5. P \in [1 .. n -> A]
  BY <1>3, <1>4
<1>6. P \in Seq(A) /\ Len(P) = n
  BY <1>1, <1>5
<1>7. SaidOf(block, name) = Joined(P)
  BY DEF SaidOf, P, Pieces
<1>8. QED
  BY <1>2, <1>6, <1>7 DEF P, n, A

\* Owners above and below a place where two blocks meet.
LEMMA OwnsAbove ==
    ASSUME NEW a \in Seq(Plain), NEW b \in Seq(Plain), NEW i \in 1 .. Len(a), NEW j
    PROVE  Owns(a \o b, j, i) <=> Owns(a, j, i)
<1>1. Len(a) \in Nat /\ \A k \in 1 .. i : (a \o b)[k] = a[k]
  BY ConcatProperties, LenProperties
<1>2. QED
  BY <1>1 DEF Owns

LEMMA OwnsBelow ==
    ASSUME NEW a \in Seq(Plain), NEW b \in Seq(Plain), NEW i \in 1 .. Len(b), NEW j \in 1 .. i
    PROVE  Owns(a \o b, Len(a) + j, Len(a) + i) <=> Owns(b, j, i)
<1>1. Len(a) \in Nat /\ Len(b) \in Nat /\ Len(a \o b) = Len(a) + Len(b)
  BY ConcatProperties, LenProperties
<1>2. ASSUME NEW k \in 1 .. Len(b)
      PROVE  (a \o b)[Len(a) + k] = b[k]
  <2>1. Len(a) + k \in 1 .. Len(a) + Len(b) /\ ~(Len(a) + k <= Len(a)) /\ (Len(a) + k) - Len(a) = k
    BY <1>1, <1>2
  <2>2. QED
    BY <2>1, ConcatProperties
<1>3. ASSUME Owns(a \o b, Len(a) + j, Len(a) + i)
      PROVE  Owns(b, j, i)
  <2>1. \A k \in j + 1 .. i : Len(a) + k \in (Len(a) + j) + 1 .. Len(a) + i /\ k \in 1 .. Len(b)
    BY <1>1
  <2>2. j \in 1 .. Len(b)
    BY <1>1
  <2>3. QED
    BY <1>2, <1>3, <2>1, <2>2 DEF Owns
<1>4. ASSUME Owns(b, j, i)
      PROVE  Owns(a \o b, Len(a) + j, Len(a) + i)
  <2>1. \A k \in (Len(a) + j) + 1 .. Len(a) + i :
           k - Len(a) \in j + 1 .. i /\ k - Len(a) \in 1 .. Len(b) /\ Len(a) + (k - Len(a)) = k
    BY <1>1
  <2>2. \A k \in (Len(a) + j) + 1 .. Len(a) + i : (a \o b)[k] \notin Starts
    BY <1>2, <1>4, <2>1 DEF Owns
  <2>3. j \in 1 .. Len(b) /\ Len(a) + j \in 1 .. Len(a) + i
    BY <1>1
  <2>4. QED
    BY <1>2, <1>4, <2>2, <2>3 DEF Owns
<1>5. QED
  BY <1>3, <1>4

\* What the lines of two blocks add, when nothing in the second one belongs to
\* the first.
LEMMA PiecesBoth ==
    ASSUME NEW a \in Seq(Plain), NEW b \in Seq(Plain), Settled(b), NEW name
    PROVE  Pieces(a \o b, name) = Pieces(a, name) \o Pieces(b, name)
<1> DEFINE both == a \o b
           A == Seq(Plain)
           pa == Pieces(a, name)
           pb == Pieces(b, name)
           one == pa \o pb
<1>1. /\ Len(a) \in Nat /\ Len(b) \in Nat /\ both \in Seq(Plain) /\ Len(both) = Len(a) + Len(b)
      /\ \A i \in 1 .. Len(a) + Len(b) : both[i] = IF i <= Len(a) THEN a[i] ELSE b[i - Len(a)]
  BY ConcatProperties, LenProperties
<1>2. /\ Pieces(a, name) \in Seq(A) /\ Len(Pieces(a, name)) = Len(a)
      /\ Pieces(b, name) \in Seq(A) /\ Len(Pieces(b, name)) = Len(b)
      /\ Pieces(both, name) \in Seq(A) /\ Len(Pieces(both, name)) = Len(both)
  BY <1>1, PiecesType
<1>21. \A m \in 1 .. Len(both) : Pieces(both, name)[m] =
            IF Said(both[m]) /\ OwnerOf(both, m) # 0 /\ both[OwnerOf(both, m)].name = name
            THEN <<both[m]>> ELSE <<>>
  <2> HIDE DEF both
  <2>1. both \in Seq(Plain)
    BY <1>1
  <2>2. QED
    BY <2>1, PiecesType
<1> HIDE DEF pa, pb, A
<1>3. /\ one \in Seq(A) /\ Len(one) = Len(a) + Len(b)
      /\ \A i \in 1 .. Len(a) + Len(b) :
           one[i] = IF i <= Len(a) THEN pa[i] ELSE pb[i - Len(a)]
  <2>1. pa \in Seq(A) /\ pb \in Seq(A) /\ Len(pa) = Len(a) /\ Len(pb) = Len(b)
    BY <1>2 DEF pa, pb
  <2>2. /\ one \in Seq(A) /\ Len(one) = Len(pa) + Len(pb)
        /\ \A i \in 1 .. Len(pa) + Len(pb) :
             one[i] = IF i <= Len(pa) THEN pa[i] ELSE pb[i - Len(pa)]
    BY <2>1, ConcatProperties
  <2>3. QED
    BY <2>1, <2>2
<1> HIDE DEF both, one
<1>4. ASSUME NEW i \in 1 .. Len(a)
      PROVE  Pieces(both, name)[i] = one[i]
  <2>1. i \in 1 .. Len(both) /\ i \in 1 .. Len(a) + Len(b) /\ i <= Len(a)
    BY <1>1, <1>4
  <2>2. OwnerOf(both, i) = OwnerOf(a, i) /\ (OwnerOf(a, i) # 0 => OwnerOf(a, i) \in 1 .. i)
    <3>1. CASE OwnerOf(a, i) # 0
      <4>1. Owns(a, OwnerOf(a, i), i)
        BY <3>1, OwnerKnown
      <4>2. Owns(both, OwnerOf(a, i), i)
        BY <4>1, OwnsAbove DEF both
      <4>3. OwnerOf(both, i) = OwnerOf(a, i)
        BY <1>1, <2>1, <4>2, OwnerFound
      <4>4. QED
        BY <4>1, <4>3 DEF Owns
    <3>2. CASE OwnerOf(a, i) = 0
      <4>1. \A k \in 1 .. i : a[k] \notin Starts
        BY <3>2, OwnerKnown DEF Owns
      <4>2. \A k \in 1 .. i : both[k] = a[k]
        BY <1>1
      <4>3. ~Owns(both, OwnerOf(both, i), i)
        BY <4>1, <4>2 DEF Owns
      <4>4. QED
        BY <1>1, <2>1, <3>2, <4>3, OwnerKnown
    <3>3. QED
      BY <3>1, <3>2
  <2>3. both[i] = a[i] /\ (OwnerOf(a, i) # 0 => both[OwnerOf(a, i)] = a[OwnerOf(a, i)])
    BY <1>1, <2>1, <2>2
  <2> DEFINE p == Pieces(both, name)[i]
             q == pa[i]
  <2>4. p = IF Said(both[i]) /\ OwnerOf(both, i) # 0 /\ both[OwnerOf(both, i)].name = name
            THEN <<both[i]>> ELSE <<>>
    BY <1>21, <2>1
  <2>5. q = IF Said(a[i]) /\ OwnerOf(a, i) # 0 /\ a[OwnerOf(a, i)].name = name
            THEN <<a[i]>> ELSE <<>>
    BY <1>4, PiecesType DEF pa
  <2>6. one[i] = q
    BY <1>3, <2>1
  <2> HIDE DEF p, q
  <2>7. p = q
    BY <2>2, <2>3, <2>4, <2>5
  <2>8. QED
    BY <2>6, <2>7 DEF p
<1>5. ASSUME NEW i \in 1 .. Len(b)
      PROVE  Pieces(both, name)[Len(a) + i] = one[Len(a) + i]
  <2> DEFINE k == Len(a) + i
  <2>1. /\ k \in 1 .. Len(both) /\ k \in 1 .. Len(a) + Len(b) /\ ~(k <= Len(a))
        /\ k - Len(a) = i /\ k \in Nat
    BY <1>1, <1>5
  <2>2. both[k] = b[i]
    BY <1>1, <2>1
  <2> DEFINE p == Pieces(both, name)[k]
             q == pb[i]
  <2>3. p = IF Said(both[k]) /\ OwnerOf(both, k) # 0 /\ both[OwnerOf(both, k)].name = name
            THEN <<both[k]>> ELSE <<>>
    BY <1>21, <2>1
  <2>4. q = IF Said(b[i]) /\ OwnerOf(b, i) # 0 /\ b[OwnerOf(b, i)].name = name
            THEN <<b[i]>> ELSE <<>>
    BY PiecesType DEF pb
  <2>5. one[k] = q
    BY <1>3, <2>1
  <2> HIDE DEF k, p, q
  <2>6. p = q
    <3>1. CASE ~Said(b[i])
      BY <2>2, <2>3, <2>4, <3>1
    <3>2. CASE Said(b[i])
      <4>1. PICK j \in 1 .. i : b[j] \in Starts
        BY <3>2 DEF Settled
      <4> DEFINE o == OwnerOf(b, i)
      <4>2. Owns(b, o, i) /\ o # 0
        BY <4>1, OwnerKnown
      <4> HIDE DEF o
      <4>3. o \in 1 .. i
        BY <4>2 DEF Owns
      <4>4. Owns(both, Len(a) + o, Len(a) + i)
        BY <4>2, <4>3, OwnsBelow DEF both
      <4>5. OwnerOf(both, k) = Len(a) + o
        BY <1>1, <2>1, <4>4, OwnerFound DEF k
      <4>6. both[Len(a) + o] = b[o] /\ Len(a) + o # 0
        <5>1. Len(a) + o \in 1 .. Len(a) + Len(b) /\ ~(Len(a) + o <= Len(a)) /\ (Len(a) + o) - Len(a) = o
              /\ Len(a) + o # 0
          BY <1>1, <4>3
        <5>2. QED
          BY <1>1, <5>1
      <4>7. QED
        BY <2>2, <2>3, <2>4, <4>2, <4>5, <4>6 DEF o
    <3>3. QED
      BY <3>1, <3>2
  <2>7. QED
    BY <2>5, <2>6 DEF p, k
<1>6. Len(Pieces(both, name)) = Len(one)
  BY <1>1, <1>2, <1>3
<1>7. ASSUME NEW i \in 1 .. Len(Pieces(both, name))
      PROVE  Pieces(both, name)[i] = one[i]
  <2>1. i \in 1 .. Len(a) \/ (i - Len(a) \in 1 .. Len(b) /\ Len(a) + (i - Len(a)) = i)
    BY <1>1, <1>2, <1>7
  <2>2. CASE i \in 1 .. Len(a)
    BY <1>4, <2>2
  <2>3. CASE i - Len(a) \in 1 .. Len(b) /\ Len(a) + (i - Len(a)) = i
    BY <1>5, <2>3
  <2>4. QED
    BY <2>1, <2>2, <2>3
<1>8. Pieces(both, name) = one
  BY <1>2, <1>3, <1>6, <1>7, SeqEqual
<1>9. QED
  BY <1>8 DEF both, one, pa, pb

SaidBoth(a, b, name) == SaidOf(a \o b, name) = SaidOf(a, name) \o SaidOf(b, name)

\* What two blocks say, the second one settled, is what the first says and then
\* what the second says.
LEMMA SaidOfBoth ==
    ASSUME NEW a \in Seq(Plain), NEW b \in Seq(Plain), Settled(b), NEW name
    PROVE  SaidOf(a \o b, name) = SaidOf(a, name) \o SaidOf(b, name)
<1>1. a \o b \in Seq(Plain)
  BY ConcatProperties
<1>2. Pieces(a \o b, name) = Pieces(a, name) \o Pieces(b, name)
  BY PiecesBoth
<1>3. Pieces(a, name) \in Seq(Seq(Plain)) /\ Pieces(b, name) \in Seq(Seq(Plain))
  BY PiecesType
<1>4. Joined(Pieces(a, name) \o Pieces(b, name)) = Joined(Pieces(a, name)) \o Joined(Pieces(b, name))
  BY <1>3, JoinedBoth
<1>5. QED
  BY <1>1, <1>2, <1>4, PiecesType

\* The same, under one name, as the prover needs it for blocks in blocks.
LEMMA BothSaid ==
    ASSUME NEW a \in Seq(Plain), NEW b \in Seq(Plain), Settled(b), NEW name
    PROVE  SaidBoth(a, b, name)
BY SaidOfBoth DEF SaidBoth

\* A block without the property says nothing of it.
LEMMA SaidOfNone ==
    ASSUME NEW block \in Seq(Plain), NEW name,
           \A i \in 1 .. Len(block) : block[i] \in Starts => block[i].name # name
    PROVE  SaidOf(block, name) = <<>>
<1> DEFINE P == Pieces(block, name)
           n == Len(block)
<1>1. /\ P \in Seq(Seq(Plain)) /\ Len(P) = n /\ n \in Nat
      /\ SaidOf(block, name) = Joined(P)
      /\ \A i \in 1 .. n : P[i] =
            IF Said(block[i]) /\ OwnerOf(block, i) # 0 /\ block[OwnerOf(block, i)].name = name
            THEN <<block[i]>> ELSE <<>>
  BY PiecesType, LenProperties
<1>2. ASSUME NEW i \in 1 .. n
      PROVE  P[i] = <<>>
  <2>1. CASE OwnerOf(block, i) = 0
    BY <1>1, <2>1
  <2>2. CASE OwnerOf(block, i) # 0
    <3>1. OwnerOf(block, i) \in 1 .. n /\ block[OwnerOf(block, i)] \in Starts
      BY <1>1, <2>2, OwnerKnown DEF Owns
    <3>2. block[OwnerOf(block, i)].name # name
      BY <3>1
    <3>3. QED
      BY <1>1, <3>2
  <2>3. QED
    BY <2>1, <2>2
<1> HIDE DEF P, n
<1>3. P = [i \in 1 .. n |-> P[i]]
  BY <1>1, LenProperties
<1>4. P \in [1 .. n -> {<<>>}]
  BY <1>2, <1>3
<1>5. P \in Seq({<<>>})
  BY <1>1, <1>4
<1>6. QED
  BY <1>1, <1>5, JoinedEmpty

-----------------------------------------------------------------------------
(* Blocks that read well. *)

\* No name starts twice.
Distinct(block) ==
    \A i, j \in 1 .. Len(block) :
        i # j /\ block[i] \in Starts /\ block[j] \in Starts => block[i].name # block[j].name

\* Whatever a line says belongs to a property that goes on to it.
Reaches(block, j, i) ==
    /\ Owns(block, j, i)
    /\ block[j].kind = "block" \/ \A k \in j + 1 .. i : block[k].kind = "indented"

\* Whatever is said is in the reach of a property.
Proper(block) == \A i \in 1 .. Len(block) : Said(block[i]) => \E j \in 1 .. i : Reaches(block, j, i)

\* Reading well is both.
LEMMA ReadsWellIs ==
    ASSUME NEW block \in Seq(Plain)
    PROVE  ReadsWell(block) <=> Distinct(block) /\ Proper(block)
<1>1. Len(block) \in Nat /\ DOMAIN block = 1 .. Len(block)
  BY LenProperties
<1>2. ASSUME NEW i \in 1 .. Len(block)
      PROVE  OwnerOf(block, i) = i <=> block[i] \in Starts
  <2>1. i \in 1 .. i /\ i # 0
    OBVIOUS
  <2>2. ASSUME block[i] \in Starts PROVE OwnerOf(block, i) = i
    <3>1. Owns(block, i, i)
      BY <2>1, <2>2 DEF Owns
    <3>2. QED
      BY <3>1, OwnerFound
  <2>3. ASSUME OwnerOf(block, i) = i PROVE block[i] \in Starts
    BY <2>1, <2>3, OwnerKnown DEF Owns
  <2>4. QED
    BY <2>2, <2>3
<1>3. ASSUME NEW i \in 1 .. Len(block)
      PROVE  (\E j \in 1 .. i : Reaches(block, j, i)) <=>
             /\ OwnerOf(block, i) # 0
             /\ block[OwnerOf(block, i)].kind = "block" \/
                \A j \in OwnerOf(block, i) + 1 .. i : block[j].kind = "indented"
  <2>1. ASSUME NEW j \in 1 .. i, Reaches(block, j, i)
        PROVE  /\ OwnerOf(block, i) # 0
               /\ block[OwnerOf(block, i)].kind = "block" \/
                  \A k \in OwnerOf(block, i) + 1 .. i : block[k].kind = "indented"
    <3>1. OwnerOf(block, i) = j /\ j # 0
      BY <2>1, OwnerFound DEF Reaches
    <3>2. QED
      BY <2>1, <3>1 DEF Reaches
  <2>2. ASSUME OwnerOf(block, i) # 0,
               block[OwnerOf(block, i)].kind = "block" \/
                 \A j \in OwnerOf(block, i) + 1 .. i : block[j].kind = "indented"
        PROVE  \E j \in 1 .. i : Reaches(block, j, i)
    <3>1. Owns(block, OwnerOf(block, i), i)
      BY <2>2, OwnerKnown
    <3>2. OwnerOf(block, i) \in 1 .. i /\ Reaches(block, OwnerOf(block, i), i)
      BY <2>2, <3>1 DEF Owns, Reaches
    <3>3. QED
      BY <3>2
  <2>3. QED
    BY <2>1, <2>2
<1> DEFINE Second(block_) == \A i \in 1 .. Len(block) : Said(block[i]) =>
              /\ OwnerOf(block, i) # 0
              /\ block[OwnerOf(block, i)].kind = "block" \/
                 \A j \in OwnerOf(block, i) + 1 .. i : block[j].kind = "indented"
<1>4. Second(block) <=> Proper(block)
  BY <1>3, ZenonT(30) DEF Proper
<1>5. (\A i, j \in 1 .. Len(block) :
          i # j /\ OwnerOf(block, i) = i /\ OwnerOf(block, j) = j => block[i].name # block[j].name)
       <=> Distinct(block)
  BY <1>2, ZenonT(30) DEF Distinct
<1>6. QED
  BY <1>1, <1>4, <1>5 DEF ReadsWell

LEMMA ReachesAbove ==
    ASSUME NEW a \in Seq(Plain), NEW b \in Seq(Plain), NEW i \in 1 .. Len(a), NEW j
    PROVE  Reaches(a \o b, j, i) <=> Reaches(a, j, i)
<1>1. Len(a) \in Nat /\ \A k \in 1 .. i : (a \o b)[k] = a[k]
  BY ConcatProperties, LenProperties
<1>2. Owns(a \o b, j, i) <=> Owns(a, j, i)
  BY OwnsAbove
<1>3. Owns(a, j, i) => j \in 1 .. i /\ \A k \in j + 1 .. i : k \in 1 .. i
  BY DEF Owns
<1>4. QED
  BY <1>1, <1>2, <1>3, ZenonT(30) DEF Reaches

LEMMA ReachesBelow ==
    ASSUME NEW a \in Seq(Plain), NEW b \in Seq(Plain), NEW i \in 1 .. Len(b), NEW j \in 1 .. i
    PROVE  Reaches(a \o b, Len(a) + j, Len(a) + i) <=> Reaches(b, j, i)
<1>1. Len(a) \in Nat /\ Len(b) \in Nat /\ Len(a \o b) = Len(a) + Len(b)
  BY ConcatProperties, LenProperties
<1>2. ASSUME NEW k \in 1 .. Len(b)
      PROVE  (a \o b)[Len(a) + k] = b[k]
  <2>1. Len(a) + k \in 1 .. Len(a) + Len(b) /\ ~(Len(a) + k <= Len(a)) /\ (Len(a) + k) - Len(a) = k
    BY <1>1, <1>2
  <2>2. QED
    BY <2>1, ConcatProperties
<1>3. Owns(a \o b, Len(a) + j, Len(a) + i) <=> Owns(b, j, i)
  BY OwnsBelow
<1>4. (a \o b)[Len(a) + j].kind = b[j].kind
  BY <1>1, <1>2
<1>5. \A k \in j + 1 .. i : /\ Len(a) + k \in (Len(a) + j) + 1 .. Len(a) + i
                            /\ (a \o b)[Len(a) + k] = b[k]
  BY <1>1, <1>2
<1>6. \A k \in (Len(a) + j) + 1 .. Len(a) + i :
           k - Len(a) \in j + 1 .. i /\ Len(a) + (k - Len(a)) = k
  BY <1>1
<1> DEFINE X == \A k \in (Len(a) + j) + 1 .. Len(a) + i : (a \o b)[k].kind = "indented"
           Y == \A k \in j + 1 .. i : b[k].kind = "indented"
<1>7. X => Y
  BY <1>5
<1>8. Y => X
  BY <1>5, <1>6
<1>9. Reaches(a \o b, Len(a) + j, Len(a) + i) <=>
        Owns(a \o b, Len(a) + j, Len(a) + i) /\ ((a \o b)[Len(a) + j].kind = "block" \/ X)
  BY DEF Reaches
<1>10. Reaches(b, j, i) <=> Owns(b, j, i) /\ (b[j].kind = "block" \/ Y)
  BY DEF Reaches
<1> HIDE DEF X, Y
<1>11. QED
  BY <1>3, <1>4, <1>7, <1>8, <1>9, <1>10

\* Both can be told of two blocks, one after the other.
LEMMA ProperBoth ==
    ASSUME NEW a \in Seq(Plain), NEW b \in Seq(Plain)
    PROVE  /\ Proper(a) /\ Proper(b) => Proper(a \o b)
           /\ Proper(a \o b) => Proper(a)
           /\ Proper(a \o b) /\ Settled(b) => Proper(b)
<1> DEFINE n == Len(a)
           both == a \o b
<1>1. /\ n \in Nat /\ Len(b) \in Nat /\ both \in Seq(Plain) /\ Len(both) = n + Len(b)
      /\ \A i \in 1 .. n + Len(b) : both[i] = IF i <= n THEN a[i] ELSE b[i - n]
  BY ConcatProperties, LenProperties
<1>2. \A i \in 1 .. n : \A j : Reaches(both, j, i) <=> Reaches(a, j, i)
  BY ReachesAbove
<1>3. \A i \in 1 .. Len(b) : \A j \in 1 .. i : Reaches(both, n + j, n + i) <=> Reaches(b, j, i)
  BY ReachesBelow
<1> HIDE DEF both, n
<1>4. \A i \in 1 .. n : i \in 1 .. Len(both) /\ both[i] = a[i]
  BY <1>1
<1>5. \A i \in 1 .. Len(b) : n + i \in 1 .. Len(both) /\ both[n + i] = b[i]
  <2>1. \A i \in 1 .. Len(b) : n + i \in 1 .. n + Len(b) /\ ~(n + i <= n) /\ (n + i) - n = i
    BY <1>1
  <2>2. QED
    BY <1>1, <2>1
<1>6. ASSUME Proper(both) PROVE Proper(a)
  BY <1>2, <1>4, <1>6 DEF Proper, n
<1>7. ASSUME Proper(a), Proper(b) PROVE Proper(both)
  <2>1. ASSUME NEW i \in 1 .. Len(both), Said(both[i])
        PROVE  \E j \in 1 .. i : Reaches(both, j, i)
    <3>1. i \in 1 .. n \/ (i - n \in 1 .. Len(b) /\ n + (i - n) = i)
      BY <1>1
    <3>2. CASE i \in 1 .. n
      BY <1>2, <1>4, <1>7, <2>1, <3>2 DEF Proper, n
    <3>3. CASE i - n \in 1 .. Len(b) /\ n + (i - n) = i
      <4>1. both[i] = b[i - n]
        BY <1>5, <3>3
      <4>2. PICK j \in 1 .. i - n : Reaches(b, j, i - n)
        BY <1>7, <2>1, <3>3, <4>1 DEF Proper
      <4>3. Reaches(both, n + j, i) /\ n + j \in 1 .. i
        <5>1. Reaches(both, n + j, n + (i - n))
          BY <1>3, <3>3, <4>2
        <5>2. n + j \in 1 .. i
          BY <1>1, <3>3, <4>2
        <5>3. QED
          BY <3>3, <5>1, <5>2
      <4>4. QED
        BY <4>3
    <3>4. QED
      BY <3>1, <3>2, <3>3
  <2>2. QED
    BY <2>1 DEF Proper
<1>8. ASSUME Proper(both), Settled(b) PROVE Proper(b)
  <2>1. ASSUME NEW i \in 1 .. Len(b), Said(b[i])
        PROVE  \E j \in 1 .. i : Reaches(b, j, i)
    <3>1. both[n + i] = b[i] /\ n + i \in 1 .. Len(both)
      BY <1>5
    <3>2. PICK j \in 1 .. n + i : Reaches(both, j, n + i)
      BY <1>8, <2>1, <3>1 DEF Proper
    <3>3. PICK s \in 1 .. i : b[s] \in Starts
      BY <1>8, <2>1 DEF Settled
    <3>4. j > n
      <4>1. SUFFICES ASSUME ~(j > n) PROVE FALSE
        OBVIOUS
      <4>2. n + s \in j + 1 .. n + i /\ s \in 1 .. Len(b)
        BY <1>1, <3>2, <3>3, <4>1
      <4>3. both[n + s] \in Starts
        BY <1>5, <3>3, <4>2
      <4>4. QED
        BY <3>2, <4>2, <4>3 DEF Reaches, Owns
    <3>5. j - n \in 1 .. i /\ n + (j - n) = j
      BY <1>1, <3>2, <3>4
    <3>6. Reaches(b, j - n, i)
      BY <1>3, <3>2, <3>5
    <3>7. QED
      BY <3>5, <3>6
  <2>2. QED
    BY <2>1 DEF Proper
<1>9. QED
  BY <1>6, <1>7, <1>8 DEF both

\* Two blocks start different names.
Apart(a, b) ==
    \A i \in 1 .. Len(a), j \in 1 .. Len(b) :
        a[i] \in Starts /\ b[j] \in Starts => a[i].name # b[j].name

LEMMA DistinctBoth ==
    ASSUME NEW a \in Seq(Plain), NEW b \in Seq(Plain)
    PROVE  Distinct(a \o b) <=> Distinct(a) /\ Distinct(b) /\ Apart(a, b)
<1> DEFINE n == Len(a)
           both == a \o b
<1>1. /\ n \in Nat /\ Len(b) \in Nat /\ both \in Seq(Plain) /\ Len(both) = n + Len(b)
      /\ \A i \in 1 .. n + Len(b) : both[i] = IF i <= n THEN a[i] ELSE b[i - n]
  BY ConcatProperties, LenProperties
<1> HIDE DEF both, n
<1>2. \A i \in 1 .. n : i \in 1 .. Len(both) /\ both[i] = a[i] /\ i \in Nat /\ i <= n
  BY <1>1
<1>3. \A i \in 1 .. Len(b) : n + i \in 1 .. Len(both) /\ both[n + i] = b[i]
  <2>1. \A i \in 1 .. Len(b) : n + i \in 1 .. n + Len(b) /\ ~(n + i <= n) /\ (n + i) - n = i
    BY <1>1
  <2>2. QED
    BY <1>1, <2>1
<1>4. \A i \in 1 .. Len(both) :
         i \in 1 .. n \/ (i - n \in 1 .. Len(b) /\ both[i] = b[i - n])
  BY <1>1
<1>5. \A i, j \in 1 .. Len(b) : i # j => n + i # n + j
  BY <1>1
<1>6. \A i \in 1 .. n, j \in 1 .. Len(b) : i # n + j
  BY <1>1
<1>7. ASSUME Distinct(both) PROVE Distinct(a) /\ Distinct(b) /\ Apart(a, b)
  <2>1. Distinct(a)
    BY <1>2, <1>7 DEF Distinct, n
  <2>2. Distinct(b)
    BY <1>3, <1>5, <1>7 DEF Distinct
  <2>3. Apart(a, b)
    <3>1. ASSUME NEW i \in 1 .. Len(a), NEW j \in 1 .. Len(b), a[i] \in Starts, b[j] \in Starts
          PROVE  a[i].name # b[j].name
      <4>1. i \in 1 .. Len(both) /\ both[i] = a[i]
        BY <1>2 DEF n
      <4>2. n + j \in 1 .. Len(both) /\ both[n + j] = b[j]
        BY <1>3
      <4>3. i # n + j
        BY <1>6 DEF n
      <4>4. QED
        BY <1>7, <3>1, <4>1, <4>2, <4>3 DEF Distinct
    <3>2. QED
      BY <3>1 DEF Apart
  <2>4. QED
    BY <2>1, <2>2, <2>3
<1>8. ASSUME Distinct(a), Distinct(b), Apart(a, b) PROVE Distinct(both)
  <2>1. ASSUME NEW i \in 1 .. Len(both), NEW j \in 1 .. Len(both), i # j,
               both[i] \in Starts, both[j] \in Starts
        PROVE  both[i].name # both[j].name
    <3>1. CASE i \in 1 .. n /\ j \in 1 .. n
      BY <1>2, <1>8, <2>1, <3>1 DEF Distinct, n
    <3>2. CASE i \in 1 .. n /\ j \notin 1 .. n
      BY <1>2, <1>4, <1>8, <2>1, <3>2 DEF Apart, n
    <3>3. CASE i \notin 1 .. n /\ j \in 1 .. n
      BY <1>2, <1>4, <1>8, <2>1, <3>3 DEF Apart, n
    <3>4. CASE i \notin 1 .. n /\ j \notin 1 .. n
      <4>1. i - n # j - n
        BY <1>1, <2>1
      <4>2. QED
        BY <1>4, <1>8, <2>1, <3>4, <4>1 DEF Distinct
    <3>5. QED
      BY <3>1, <3>2, <3>3, <3>4
  <2>2. QED
    BY <2>1 DEF Distinct
<1>9. QED
  BY <1>7, <1>8 DEF both

LEMMA SettledBoth ==
    ASSUME NEW a \in Seq(Plain), NEW b \in Seq(Plain), Settled(a), Settled(b)
    PROVE  Settled(a \o b)
<1> DEFINE n == Len(a)
           both == a \o b
<1>1. /\ n \in Nat /\ Len(b) \in Nat /\ both \in Seq(Plain) /\ Len(both) = n + Len(b)
      /\ \A i \in 1 .. n + Len(b) : both[i] = IF i <= n THEN a[i] ELSE b[i - n]
  BY ConcatProperties, LenProperties
<1> HIDE DEF both, n
<1>2. ASSUME NEW i \in 1 .. Len(both), Said(both[i])
      PROVE  \E j \in 1 .. i : both[j] \in Starts
  <2>1. CASE i \in 1 .. n
    <3>1. \A k \in 1 .. i : both[k] = a[k]
      BY <1>1, <2>1
    <3>2. QED
      BY <1>2, <2>1, <3>1 DEF Settled, n
  <2>2. CASE i \notin 1 .. n
    <3>1. i - n \in 1 .. Len(b) /\ both[i] = b[i - n]
      BY <1>1, <2>2
    <3>2. PICK j \in 1 .. i - n : b[j] \in Starts
      BY <1>2, <3>1 DEF Settled
    <3>3. n + j \in 1 .. n + Len(b) /\ ~(n + j <= n) /\ (n + j) - n = j /\ n + j \in 1 .. i
      BY <1>1, <3>1, <3>2
    <3>4. both[n + j] = b[j]
      BY <1>1, <3>3
    <3>5. QED
      BY <3>2, <3>3, <3>4
  <2>3. QED
    BY <2>1, <2>2
<1>3. QED
  BY <1>2 DEF Settled, both

-----------------------------------------------------------------------------
(* Replacing the lines of one property. *)

\* An edit puts nothing or one line in place of a property.
Put(name) == {<<>>, <<Property(name, "new")>>}

\* What is put in place of a property: nothing, or one line that says itself.
LEMMA PutFacts ==
    ASSUME NEW name \in PropertyNames, NEW put \in Put(name)
    PROVE  /\ put \in Seq(Plain)
           /\ Proper(put) /\ Distinct(put) /\ Settled(put)
           /\ \A i \in 1 .. Len(put) : put[i] \in Starts => put[i].name = name
           /\ SaidOf(put, name) = put
<1>1. CASE put = <<>>
  <2>1. put \in Seq(Plain) /\ Len(put) = 0
    BY <1>1, EmptySeq
  <2>2. SaidOf(put, name) = <<>>
    <3>1. \A i \in 1 .. Len(put) : put[i] \in Starts => put[i].name # name
      BY <2>1
    <3>2. QED
      BY <2>1, <3>1, SaidOfNone
  <2>3. QED
    BY <1>1, <2>1, <2>2 DEF Proper, Distinct, Settled
<1>2. CASE put = <<Property(name, "new")>>
  <2> DEFINE line == Property(name, "new")
  <2>1. line \in Starts /\ line \in Plain /\ line.name = name /\ line.kind = "new"
    BY PropertyIsPlain
  <2> HIDE DEF line
  <2>2. put \in Seq(Plain) /\ Len(put) = 1 /\ put[1] = line
    BY <1>2, <2>1 DEF line
  <2>3. Owns(put, 1, 1)
    BY <2>1, <2>2 DEF Owns
  <2>4. Reaches(put, 1, 1)
    BY <2>3 DEF Reaches
  <2>5. Proper(put) /\ Distinct(put) /\ Settled(put)
    <3>1. \A i \in 1 .. Len(put) : i = 1
      BY <2>2
    <3>2. QED
      BY <2>1, <2>2, <2>4, <3>1 DEF Proper, Distinct, Settled
  <2>6. OwnerOf(put, 1) = 1
    BY <2>2, <2>3, OwnerFound
  <2>7. Said(line)
    BY <2>1 DEF Said
  <2> DEFINE P == Pieces(put, name)
  <2>8. P \in Seq(Seq(Plain)) /\ Len(P) = 1 /\ P[1] = <<line>> /\ SaidOf(put, name) = Joined(P)
    BY <2>1, <2>2, <2>6, <2>7, PiecesType
  <2> HIDE DEF P
  <2>9. P = << <<line>> >>
    BY <2>8
  <2>10. Joined(P) = <<line>>
    <3>1. <<line>> \in Seq(Plain)
      BY <2>1
    <3>2. QED
      BY <2>9, <3>1, JoinedOne
  <2>11. QED
    BY <1>2, <2>1, <2>2, <2>5, <2>8, <2>10 DEF line
<1>3. QED
  BY <1>1, <1>2 DEF Put

\* All starts of a part have the name, or none has.
Named(part, name) == \A i \in 1 .. Len(part) : part[i] \in Starts => part[i].name = name
Unnamed(part, name) == \A i \in 1 .. Len(part) : part[i] \in Starts => part[i].name # name

\* The block still reads well, and says something else only of the name.
Rewritten(block, after, name, put) ==
    /\ ReadsWell(after)
    /\ \A m : SaidOf(after, m) = IF m = name THEN put ELSE SaidOf(block, m)

\* Putting lines in place of those of one property changes what is said of it.
LEMMA BlockEdit ==
    ASSUME NEW pre \in Seq(Plain), NEW own \in Seq(Plain), NEW post \in Seq(Plain),
           NEW name \in PropertyNames, NEW put \in Put(name),
           ReadsWell(pre \o (own \o post)), Settled(own), Settled(post),
           Named(own, name), Unnamed(pre, name), Unnamed(post, name)
    PROVE  Rewritten(pre \o (own \o post), pre \o (put \o post), name, put)
<1>0. /\ \A i \in 1 .. Len(own) : own[i] \in Starts => own[i].name = name
      /\ \A i \in 1 .. Len(pre) : pre[i] \in Starts => pre[i].name # name
      /\ \A i \in 1 .. Len(post) : post[i] \in Starts => post[i].name # name
  BY DEF Named, Unnamed
<1>1. /\ put \in Seq(Plain) /\ Proper(put) /\ Distinct(put) /\ Settled(put)
      /\ \A i \in 1 .. Len(put) : put[i] \in Starts => put[i].name = name
      /\ SaidOf(put, name) = put
  BY PutFacts
<1>2. /\ own \o post \in Seq(Plain) /\ put \o post \in Seq(Plain)
      /\ pre \o (own \o post) \in Seq(Plain) /\ pre \o (put \o post) \in Seq(Plain)
  <2>1. own \o post \in Seq(Plain) /\ put \o post \in Seq(Plain)
    BY <1>1, ConcatProperties
  <2>2. QED
    BY <2>1, ConcatProperties
<1>3. Settled(own \o post) /\ Settled(put \o post)
  BY <1>1, SettledBoth
<1>4. Distinct(pre \o (own \o post)) /\ Proper(pre \o (own \o post))
  BY <1>2, ReadsWellIs
<1>5. Proper(pre) /\ Proper(own \o post)
  BY <1>2, <1>3, <1>4, ProperBoth
<1>6. Proper(post)
  BY <1>5, ProperBoth
<1>7. Proper(pre \o (put \o post))
  <2>1. Proper(put \o post)
    BY <1>1, <1>6, ProperBoth
  <2>2. QED
    BY <1>2, <1>5, <2>1, ProperBoth
<1>8. Distinct(pre) /\ Distinct(own \o post) /\ Apart(pre, own \o post)
  BY <1>2, <1>4, DistinctBoth
<1>9. Distinct(post)
  BY <1>8, DistinctBoth
<1>10. Apart(put, post)
  BY <1>0, <1>1 DEF Apart
<1>11. Distinct(put \o post)
  BY <1>1, <1>9, <1>10, DistinctBoth
<1>12. Apart(pre, put \o post)
  <2>1. ASSUME NEW i \in 1 .. Len(pre), NEW j \in 1 .. Len(put \o post),
               pre[i] \in Starts, (put \o post)[j] \in Starts
        PROVE  pre[i].name # (put \o post)[j].name
    <3>1. /\ Len(put) \in Nat /\ Len(post) \in Nat /\ Len(own) \in Nat
          /\ Len(put \o post) = Len(put) + Len(post)
          /\ Len(own \o post) = Len(own) + Len(post)
          /\ (put \o post)[j] = IF j <= Len(put) THEN put[j] ELSE post[j - Len(put)]
      BY <1>1, ConcatProperties, LenProperties
    <3>2. CASE j <= Len(put)
      BY <1>0, <1>1, <2>1, <3>1, <3>2
    <3>3. CASE ~(j <= Len(put))
      <4> DEFINE k == j - Len(put)
      <4>1. k \in 1 .. Len(post) /\ (put \o post)[j] = post[k]
        BY <2>1, <3>1, <3>3
      <4> HIDE DEF k
      <4>2. Len(own) + k \in 1 .. Len(own) + Len(post) /\ ~(Len(own) + k <= Len(own))
            /\ (Len(own) + k) - Len(own) = k
        BY <3>1, <4>1
      <4>3. (own \o post)[Len(own) + k] = post[k]
        BY <4>2, ConcatProperties
      <4>4. QED
        BY <1>8, <2>1, <3>1, <4>1, <4>2, <4>3 DEF Apart
    <3>4. QED
      BY <3>2, <3>3
  <2>2. QED
    BY <2>1 DEF Apart
<1>13. Distinct(pre \o (put \o post))
  BY <1>2, <1>8, <1>11, <1>12, DistinctBoth
<1>14. ReadsWell(pre \o (put \o post))
  BY <1>2, <1>7, <1>13, ReadsWellIs
<1>15. ASSUME NEW m
       PROVE  SaidOf(pre \o (put \o post), m) =
                IF m = name THEN put ELSE SaidOf(pre \o (own \o post), m)
  <2>1. /\ SaidOf(pre \o (put \o post), m) = SaidOf(pre, m) \o (SaidOf(put, m) \o SaidOf(post, m))
        /\ SaidOf(pre \o (own \o post), m) = SaidOf(pre, m) \o (SaidOf(own, m) \o SaidOf(post, m))
    <3>1. /\ SaidOf(pre \o (put \o post), m) = SaidOf(pre, m) \o SaidOf(put \o post, m)
          /\ SaidOf(pre \o (own \o post), m) = SaidOf(pre, m) \o SaidOf(own \o post, m)
      <4> DEFINE x == put \o post
                 y == own \o post
      <4>1. x \in Seq(Plain) /\ y \in Seq(Plain) /\ Settled(x) /\ Settled(y)
        BY <1>2, <1>3
      <4> HIDE DEF x, y
      <4>2. SaidBoth(pre, x, m) /\ SaidBoth(pre, y, m)
        BY <4>1, BothSaid
      <4>3. QED
        BY <4>2 DEF x, y, SaidBoth
    <3>2. /\ SaidOf(put \o post, m) = SaidOf(put, m) \o SaidOf(post, m)
          /\ SaidOf(own \o post, m) = SaidOf(own, m) \o SaidOf(post, m)
      <4>1. SaidBoth(put, post, m) /\ SaidBoth(own, post, m)
        BY <1>1, BothSaid
      <4>2. QED
        BY <4>1 DEF SaidBoth
    <3>3. QED
      BY <3>1, <3>2
  <2>2. CASE m = name
    <3>1. SaidOf(pre, m) = <<>> /\ SaidOf(post, m) = <<>>
      BY <1>0, <2>2, SaidOfNone
    <3>2. <<>> \o (put \o <<>>) = put
      BY <1>1, ConcatEmptySeq
    <3>3. QED
      BY <1>1, <2>1, <2>2, <3>1, <3>2
  <2>3. CASE m # name
    <3>1. SaidOf(put, m) = <<>> /\ SaidOf(own, m) = <<>>
      BY <1>0, <1>1, <2>3, SaidOfNone
    <3>2. QED
      BY <2>1, <2>3, <3>1
  <2>4. QED
    BY <2>2, <2>3
<1>16. QED
  <2> DEFINE after == pre \o (put \o post)
             block == pre \o (own \o post)
  <2>1. /\ ReadsWell(after)
        /\ \A m : SaidOf(after, m) = IF m = name THEN put ELSE SaidOf(block, m)
    BY <1>14, <1>15
  <2> HIDE DEF after, block
  <2>2. Rewritten(block, after, name, put)
    BY <2>1 DEF Rewritten
  <2>3. QED
    BY <2>2 DEF block, after

-----------------------------------------------------------------------------
(* Documents with a block, and the place of a property in them. *)

\* A document with a block and what follows it.
Frame(block, rest) == <<Fence>> \o (block \o (<<Fence>> \o rest))

LEMMA FenceIsLine == Fence \in Lines /\ <<Fence>> \in Seq(Lines) /\ Plain \subseteq Lines
BY DEF Lines, Plain

\* The closing fence is the first one after the opening one.
LEMMA ClosingFacts ==
    ASSUME NEW doc \in Seq(Lines)
    PROVE  \/ Closing(doc) = 0 /\ \A j \in 2 .. Len(doc) : doc[j] # Fence
           \/ /\ Closing(doc) \in 2 .. Len(doc) /\ doc[Closing(doc)] = Fence
              /\ \A j \in 2 .. Closing(doc) - 1 : doc[j] # Fence
<1> DEFINE S == {i \in 2 .. Len(doc) : doc[i] = Fence}
<1>1. Len(doc) \in Nat
  BY LenProperties
<1>2. Closing(doc) = IF S = {} THEN 0 ELSE First(S)
  BY DEF Closing
<1>3. S \in SUBSET Nat /\ \A j \in 2 .. Len(doc) : j \in S <=> doc[j] = Fence
  BY <1>1
<1>4. S \subseteq 2 .. Len(doc)
  OBVIOUS
<1> HIDE DEF S
<1>5. CASE S = {}
  BY <1>2, <1>3, <1>5
<1>6. CASE S # {}
  <2>1. First(S) \in S /\ \A j \in S : First(S) <= j
    BY <1>3, <1>6, FirstExists
  <2>2. First(S) \in 2 .. Len(doc) /\ doc[First(S)] = Fence
    BY <1>3, <1>4, <2>1
  <2>3. ASSUME NEW j \in 2 .. First(S) - 1
        PROVE  doc[j] # Fence
    <3>1. j \in 2 .. Len(doc) /\ ~(First(S) <= j)
      BY <1>1, <2>2, <2>3
    <3>2. QED
      BY <1>3, <2>1, <3>1
  <2>4. QED
    BY <1>2, <1>6, <2>2, <2>3
<1>7. QED
  BY <1>5, <1>6

LEMMA ClosingIs ==
    ASSUME NEW doc \in Seq(Lines), NEW c \in 2 .. Len(doc), doc[c] = Fence,
           \A j \in 2 .. c - 1 : doc[j] # Fence
    PROVE  Closing(doc) = c
<1>1. Len(doc) \in Nat /\ c \in Nat
  BY LenProperties
<1>2. Closing(doc) \in 2 .. Len(doc) /\ doc[Closing(doc)] = Fence
      /\ \A j \in 2 .. Closing(doc) - 1 : doc[j] # Fence
  BY ClosingFacts
<1>3. ~(Closing(doc) < c)
  <2>1. ASSUME Closing(doc) < c PROVE Closing(doc) \in 2 .. c - 1
    BY <1>1, <1>2, <2>1
  <2>2. QED
    BY <1>2, <2>1
<1>4. ~(c < Closing(doc))
  <2>1. ASSUME c < Closing(doc) PROVE c \in 2 .. Closing(doc) - 1
    BY <1>1, <1>2, <2>1
  <2>2. QED
    BY <1>2, <2>1
<1>5. QED
  BY <1>1, <1>2, <1>3, <1>4

\* A document that is put together from a block and the rest reads as them.
LEMMA FrameReads ==
    ASSUME NEW block \in Seq(Plain), NEW rest \in Seq(Lines)
    PROVE  /\ Frame(block, rest) \in Seq(Lines)
           /\ HasBlock(Frame(block, rest))
           /\ Block(Frame(block, rest)) = block
           /\ Body(Frame(block, rest)) = rest
<1> DEFINE fence == <<Fence>>
           tail == fence \o rest
           middle == block \o tail
           doc == fence \o middle
           n == Len(block)
           m == Len(rest)
<1>1. block \in Seq(Lines) /\ fence \in Seq(Lines) /\ Len(fence) = 1 /\ fence[1] = Fence
  BY FenceIsLine, SeqMonotonic
<1> HIDE DEF fence
<1>2. n \in Nat /\ m \in Nat
  BY LenProperties
<1>3. /\ tail \in Seq(Lines) /\ Len(tail) = 1 + m
      /\ \A i \in 1 .. 1 + m : tail[i] = IF i <= 1 THEN fence[i] ELSE rest[i - 1]
  <2>1. /\ tail \in Seq(Lines) /\ Len(tail) = Len(fence) + Len(rest)
        /\ \A i \in 1 .. Len(fence) + Len(rest) :
             tail[i] = IF i <= Len(fence) THEN fence[i] ELSE rest[i - Len(fence)]
    BY <1>1, ConcatProperties
  <2> HIDE DEF tail
  <2>2. QED
    BY <1>1, <2>1
<1> HIDE DEF tail
<1>4. /\ middle \in Seq(Lines) /\ Len(middle) = n + (1 + m)
      /\ \A i \in 1 .. n + (1 + m) : middle[i] = IF i <= n THEN block[i] ELSE tail[i - n]
  <2>1. tail \in Seq(Lines) /\ block \in Seq(Lines)
    BY <1>1, <1>3
  <2>2. /\ middle \in Seq(Lines) /\ Len(middle) = Len(block) + Len(tail)
        /\ \A i \in 1 .. Len(block) + Len(tail) :
             middle[i] = IF i <= Len(block) THEN block[i] ELSE tail[i - Len(block)]
    BY <2>1, ConcatProperties
  <2> HIDE DEF middle
  <2>3. QED
    BY <1>3, <2>2
<1> HIDE DEF middle
<1>5. /\ doc \in Seq(Lines) /\ Len(doc) = 1 + (n + (1 + m))
      /\ \A i \in 1 .. 1 + (n + (1 + m)) : doc[i] = IF i <= 1 THEN fence[i] ELSE middle[i - 1]
  <2>1. middle \in Seq(Lines) /\ fence \in Seq(Lines)
    BY <1>1, <1>4
  <2>2. /\ doc \in Seq(Lines) /\ Len(doc) = Len(fence) + Len(middle)
        /\ \A i \in 1 .. Len(fence) + Len(middle) :
             doc[i] = IF i <= Len(fence) THEN fence[i] ELSE middle[i - Len(fence)]
    BY <2>1, ConcatProperties
  <2> HIDE DEF doc
  <2>3. QED
    BY <1>1, <1>4, <2>2
<1> HIDE DEF doc
<1>6. doc[1] = Fence /\ doc # <<>>
  <2>1. 1 \in 1 .. 1 + (n + (1 + m)) /\ Len(doc) # 0
    BY <1>2, <1>5
  <2>2. QED
    BY <1>1, <1>5, <2>1
<1>7. \A i \in 2 .. n + 1 : doc[i] = block[i - 1] /\ i - 1 \in 1 .. n
  <2>1. \A i \in 2 .. n + 1 : i \in 1 .. 1 + (n + (1 + m)) /\ ~(i <= 1)
                              /\ i - 1 \in 1 .. n + (1 + m) /\ i - 1 <= n /\ i - 1 \in 1 .. n
    BY <1>2
  <2>2. QED
    BY <1>4, <1>5, <2>1
<1>8. doc[n + 2] = Fence
  <2>1. n + 2 \in 1 .. 1 + (n + (1 + m)) /\ ~(n + 2 <= 1) /\ (n + 2) - 1 = n + 1
        /\ n + 1 \in 1 .. n + (1 + m) /\ ~(n + 1 <= n) /\ (n + 1) - n = 1 /\ 1 \in 1 .. 1 + m
    BY <1>2
  <2>2. doc[n + 2] = middle[n + 1]
    BY <1>5, <2>1
  <2>3. middle[n + 1] = tail[1]
    BY <1>4, <2>1
  <2>4. QED
    BY <1>1, <1>3, <2>1, <2>2, <2>3
<1>9. \A i \in 1 .. m : doc[(n + 2) + i] = rest[i]
  <2>1. ASSUME NEW i \in 1 .. m
        PROVE  doc[(n + 2) + i] = rest[i]
    <3>1. /\ (n + 2) + i \in 1 .. 1 + (n + (1 + m)) /\ ~((n + 2) + i <= 1)
          /\ ((n + 2) + i) - 1 = (n + 1) + i
          /\ (n + 1) + i \in 1 .. n + (1 + m) /\ ~((n + 1) + i <= n) /\ ((n + 1) + i) - n = 1 + i
          /\ 1 + i \in 1 .. 1 + m /\ ~(1 + i <= 1) /\ (1 + i) - 1 = i
      BY <1>2, <2>1
    <3>2. doc[(n + 2) + i] = middle[(n + 1) + i]
      BY <1>5, <3>1
    <3>3. middle[(n + 1) + i] = tail[1 + i]
      BY <1>4, <3>1
    <3>4. QED
      BY <1>3, <3>1, <3>2, <3>3
  <2>2. QED
    BY <2>1
<1>10. Closing(doc) = n + 2
  <2>1. n + 2 \in 2 .. Len(doc) /\ (n + 2) - 1 = n + 1
    BY <1>2, <1>5
  <2>2. \A i \in 1 .. n : block[i] # Fence
    BY PlainKinds DEF Plain
  <2>3. \A j \in 2 .. (n + 2) - 1 : doc[j] # Fence
    BY <1>7, <2>1, <2>2
  <2>4. QED
    BY <1>5, <1>8, <2>1, <2>3, ClosingIs
<1>11. HasBlock(doc)
  BY <1>6 DEF HasBlock
<1>12. Block(doc) = block
  <2> DEFINE cut == SubSeq(doc, 2, Closing(doc) - 1)
  <2>1. Closing(doc) - 1 = n + 1 /\ n + 1 \in Int /\ (n + 1) - 2 + 1 = n
    BY <1>2, <1>10
  <2>2. cut = SubSeq(doc, 2, n + 1)
    BY <2>1
  <2>3. \A i \in 2 .. n + 1 : doc[i] \in Plain
    BY <1>7, PlainKinds
  <2>4. /\ SubSeq(doc, 2, n + 1) \in Seq(Plain)
        /\ Len(SubSeq(doc, 2, n + 1)) = IF 2 <= n + 1 THEN ((n + 1) - 2) + 1 ELSE 0
        /\ \A i \in 1 .. ((n + 1) - 2) + 1 : SubSeq(doc, 2, n + 1)[i] = doc[(2 + i) - 1]
    BY <2>1, <2>3, SubSeqProperties
  <2>5. cut \in Seq(Plain) /\ Len(cut) = n
    <3>1. (IF 2 <= n + 1 THEN ((n + 1) - 2) + 1 ELSE 0) = n
      BY <1>2
    <3>2. QED
      BY <2>2, <2>4, <3>1
  <2>6. ASSUME NEW i \in 1 .. n
        PROVE  cut[i] = block[i]
    <3>1. i \in 1 .. ((n + 1) - 2) + 1 /\ (2 + i) - 1 = i + 1 /\ i + 1 \in 2 .. n + 1 /\ (i + 1) - 1 = i
      BY <1>2
    <3>2. QED
      BY <1>7, <2>2, <2>4, <3>1
  <2> HIDE DEF cut
  <2>7. cut = block
    BY <2>5, <2>6, SeqEqual
  <2>8. QED
    BY <1>11, <2>7 DEF Block, cut
<1>13. Body(doc) = rest
  <2> DEFINE cut == SubSeq(doc, (n + 2) + 1, Len(doc))
  <2>1. (n + 2) + 1 \in Int /\ Len(doc) \in Int /\ Len(doc) = (n + 2) + m
    BY <1>2, <1>5
  <2>2. \A i \in (n + 2) + 1 .. Len(doc) : doc[i] \in Lines
    <3>1. \A i \in (n + 2) + 1 .. Len(doc) : i \in 1 .. Len(doc)
      BY <1>2
    <3>2. QED
      BY <1>5, <3>1, ElementOfSeq
  <2>3. /\ cut \in Seq(Lines)
        /\ Len(cut) = IF (n + 2) + 1 <= Len(doc) THEN (Len(doc) - ((n + 2) + 1)) + 1 ELSE 0
        /\ \A i \in 1 .. (Len(doc) - ((n + 2) + 1)) + 1 : cut[i] = doc[(((n + 2) + 1) + i) - 1]
    BY <2>1, <2>2, SubSeqProperties
  <2> HIDE DEF cut
  <2>4. Len(cut) = m
    BY <1>2, <2>1, <2>3
  <2>5. ASSUME NEW i \in 1 .. m
        PROVE  cut[i] = rest[i]
    <3>1. i \in 1 .. (Len(doc) - ((n + 2) + 1)) + 1 /\ (((n + 2) + 1) + i) - 1 = (n + 2) + i
      BY <1>2, <2>1
    <3>2. QED
      BY <1>9, <2>3, <3>1
  <2>6. cut = rest
    BY <2>3, <2>4, <2>5, SeqEqual
  <2>7. QED
    BY <1>10, <1>11, <2>6 DEF Body, cut
<1>14. Frame(block, rest) = doc
  BY DEF Frame, doc, middle, tail, fence
<1>15. QED
  BY <1>5, <1>11, <1>12, <1>13, <1>14

Regrouped(x, p, q, r, t) == ((x \o p) \o q) \o (r \o t) = x \o ((p \o (q \o r)) \o t)

LEMMA Regroup ==
    ASSUME NEW S, NEW x \in Seq(S), NEW p \in Seq(S), NEW q \in Seq(S), NEW r \in Seq(S), NEW t \in Seq(S)
    PROVE  Regrouped(x, p, q, r, t)
<1> DEFINE xp == x \o p
           rt == r \o t
           qr == q \o r
           qrt == q \o rt
           pqr == p \o qr
<1>1. xp \in Seq(S) /\ rt \in Seq(S) /\ qr \in Seq(S)
  BY ConcatProperties
<1> HIDE DEF xp, rt, qr
<1>2. qrt \in Seq(S) /\ pqr \in Seq(S)
  BY <1>1, ConcatProperties
<1> HIDE DEF qrt, pqr
<1>3. /\ Assoc(q, r, t) /\ Assoc(xp, q, rt) /\ Assoc(x, p, qrt) /\ Assoc(p, qr, t)
  BY <1>1, <1>2, Associates
<1>4. qrt = qr \o t
  BY <1>3 DEF Assoc, qrt, qr, rt
<1>5. (xp \o q) \o rt = xp \o qrt
  BY <1>3 DEF Assoc, qrt
<1>6. xp \o qrt = x \o (p \o qrt)
  BY <1>3 DEF Assoc, xp
<1>7. p \o (qr \o t) = pqr \o t
  BY <1>3 DEF Assoc, pqr
<1>8. (xp \o q) \o rt = x \o (pqr \o t)
  BY <1>4, <1>5, <1>6, <1>7
<1>9. QED
  BY <1>8 DEF Regrouped, xp, rt, pqr, qr

\* Lines of the block are replaced in the block, and the rest stays.
LEMMA DocParts ==
    ASSUME NEW doc \in Seq(Lines), HasBlock(doc), NEW c, c = Closing(doc), c # 0,
           NEW f \in 2 .. c, NEW l \in f - 1 .. c - 1, NEW put \in Seq(Plain)
    PROVE  /\ SubSeq(doc, 2, f - 1) \in Seq(Plain)
           /\ SubSeq(doc, f, l) \in Seq(Plain)
           /\ SubSeq(doc, l + 1, c - 1) \in Seq(Plain)
           /\ SubSeq(doc, c + 1, Len(doc)) \in Seq(Lines)
           /\ doc = Frame(SubSeq(doc, 2, f - 1) \o (SubSeq(doc, f, l) \o SubSeq(doc, l + 1, c - 1)),
                          SubSeq(doc, c + 1, Len(doc)))
           /\ Replaced(doc, f, l, put) =
                Frame(SubSeq(doc, 2, f - 1) \o (put \o SubSeq(doc, l + 1, c - 1)),
                      SubSeq(doc, c + 1, Len(doc)))
<1> DEFINE pre == SubSeq(doc, 2, f - 1)
           own == SubSeq(doc, f, l)
           post == SubSeq(doc, l + 1, c - 1)
           rest == SubSeq(doc, c + 1, Len(doc))
           end == Len(doc)
<1>1. /\ c \in 2 .. end /\ doc[c] = Fence /\ \A j \in 2 .. c - 1 : doc[j] # Fence
      /\ end \in Nat /\ doc[1] = Fence
  BY ClosingFacts, LenProperties DEF HasBlock
<1>2. \A j \in 1 .. end : doc[j] \in Lines
  BY ElementOfSeq
<1>3. \A j \in 2 .. c - 1 : doc[j] \in Plain
  BY <1>1, <1>2 DEF Plain
<1>4. c \in Int /\ f \in Int /\ l \in Int /\ f <= c /\ 2 <= f /\ f - 1 <= l /\ l <= c - 1
  BY <1>1
<1> HIDE DEF end
<1>5. pre \in Seq(Plain)
  <2>1. \A j \in 2 .. f - 1 : doc[j] \in Plain
    BY <1>3, <1>4
  <2>2. QED
    BY <1>4, <2>1, SubSeqProperties
<1>6. own \in Seq(Plain)
  <2>1. \A j \in f .. l : doc[j] \in Plain
    BY <1>3, <1>4
  <2>2. QED
    BY <1>4, <2>1, SubSeqProperties
<1>7. post \in Seq(Plain)
  <2>1. \A j \in l + 1 .. c - 1 : doc[j] \in Plain
    BY <1>3, <1>4
  <2>2. QED
    BY <1>4, <2>1, SubSeqProperties
<1>8. rest \in Seq(Lines)
  <2>1. \A j \in c + 1 .. end : doc[j] \in Lines
    BY <1>1, <1>2
  <2>2. QED
    BY <1>1, <1>4, <2>1, SubSeqProperties DEF end
<1>9. SubSeq(doc, 1, 1) = <<Fence>> /\ SubSeq(doc, c, c) = <<Fence>>
  <2>1. /\ SubSeq(doc, 1, 1) \in Seq(Lines) /\ Len(SubSeq(doc, 1, 1)) = 1
        /\ SubSeq(doc, 1, 1)[1] = Fence
    <3>1. 1 \in 1 .. end /\ \A j \in 1 .. 1 : doc[j] \in Lines
      BY <1>1, <1>2
    <3>2. /\ SubSeq(doc, 1, 1) \in Seq(Lines)
          /\ Len(SubSeq(doc, 1, 1)) = IF 1 <= 1 THEN (1 - 1) + 1 ELSE 0
          /\ \A i \in 1 .. (1 - 1) + 1 : SubSeq(doc, 1, 1)[i] = doc[(1 + i) - 1]
      BY <3>1, SubSeqProperties
    <3>3. QED
      BY <1>1, <3>2
  <2>2. /\ SubSeq(doc, c, c) \in Seq(Lines) /\ Len(SubSeq(doc, c, c)) = 1
        /\ SubSeq(doc, c, c)[1] = Fence
    <3>1. c \in 1 .. end /\ \A j \in c .. c : doc[j] \in Lines
      BY <1>1, <1>2
    <3>2. c \in Int /\ \A j \in c .. c : doc[j] \in Lines
      BY <1>4, <3>1
    <3> DEFINE y == SubSeq(doc, c, c)
               here == c
    <3>8. here \in Int /\ \A j \in here .. here : doc[j] \in Lines
      BY <3>2
    <3> HIDE DEF here
    <3>9. /\ SubSeq(doc, here, here) \in Seq(Lines)
          /\ Len(SubSeq(doc, here, here)) = IF here <= here THEN (here - here) + 1 ELSE 0
          /\ \A i \in 1 .. (here - here) + 1 : SubSeq(doc, here, here)[i] = doc[(here + i) - 1]
      BY <3>8, SubSeqProperties
    <3>3. /\ y \in Seq(Lines)
          /\ Len(y) = IF c <= c THEN (c - c) + 1 ELSE 0
          /\ \A i \in 1 .. (c - c) + 1 : y[i] = doc[(c + i) - 1]
      BY <3>9 DEF here
    <3> HIDE DEF y
    <3>4. c <= c /\ (c - c) + 1 = 1 /\ (c + 1) - 1 = c
      BY <1>4
    <3>5. Len(y) = 1
      BY <3>3, <3>4
    <3>6. y[1] = doc[(c + 1) - 1]
      BY <3>3, <3>4
    <3>7. QED
      BY <1>1, <3>3, <3>4, <3>5, <3>6 DEF y
  <2> DEFINE x == SubSeq(doc, 1, 1)
             y == SubSeq(doc, c, c)
             z == <<Fence>>
  <2>3. z \in Seq(Lines) /\ Len(z) = 1 /\ z[1] = Fence
    BY FenceIsLine
  <2>4. x \in Seq(Lines) /\ Len(x) = 1 /\ x[1] = Fence
    BY <2>1
  <2>5. y \in Seq(Lines) /\ Len(y) = 1 /\ y[1] = Fence
    BY <2>2
  <2> HIDE DEF x, y, z
  <2>6. x = z /\ y = z
    BY <2>3, <2>4, <2>5, SeqEqual
  <2>7. QED
    BY <2>6 DEF x, y, z
<1>10. doc = <<Fence>> \o SubSeq(doc, 2, end)
  <2>1. 1 \in 1 .. end + 1 /\ 1 \in 1 - 1 .. end /\ end \in 1 .. end
    BY <1>1
  <2>2. SubSeq(doc, 1, 1) \o SubSeq(doc, 1 + 1, end) = SubSeq(doc, 1, end)
    BY <2>1, ConcatAdjacentSubSeq DEF end
  <2>3. SubSeq(doc, 1, end) = doc
    BY SubSeqFull DEF end
  <2>5. 1 + 1 = 2
    OBVIOUS
  <2>4. QED
    BY <1>9, <2>2, <2>3, <2>5
<1>11. SubSeq(doc, 2, end) = SubSeq(doc, 2, c - 1) \o SubSeq(doc, c, end)
  <2>1. 2 \in 1 .. end + 1 /\ c - 1 \in 2 - 1 .. end /\ end \in c - 1 .. end /\ (c - 1) + 1 = c
    BY <1>1
  <2>2. SubSeq(doc, 2, c - 1) \o SubSeq(doc, (c - 1) + 1, end) = SubSeq(doc, 2, end)
    BY <2>1, ConcatAdjacentSubSeq DEF end
  <2>3. QED
    BY <2>1, <2>2
<1>12. SubSeq(doc, c, end) = <<Fence>> \o rest
  <2>1. c \in 1 .. end + 1 /\ c \in c - 1 .. end /\ end \in c .. end
    BY <1>1
  <2>2. SubSeq(doc, c, c) \o SubSeq(doc, c + 1, end) = SubSeq(doc, c, end)
    BY <2>1, ConcatAdjacentSubSeq DEF end
  <2>3. QED
    BY <1>9, <2>2 DEF end
<1>13. SubSeq(doc, 2, c - 1) = pre \o SubSeq(doc, f, c - 1)
  <2>1. 2 \in 1 .. end + 1 /\ f - 1 \in 2 - 1 .. end /\ c - 1 \in f - 1 .. end /\ (f - 1) + 1 = f
    BY <1>1, <1>4
  <2>2. SubSeq(doc, 2, f - 1) \o SubSeq(doc, (f - 1) + 1, c - 1) = SubSeq(doc, 2, c - 1)
    BY <2>1, ConcatAdjacentSubSeq DEF end
  <2>3. QED
    BY <2>1, <2>2
<1>14. SubSeq(doc, f, c - 1) = own \o post
  <2>1. f \in 1 .. end + 1 /\ l \in f - 1 .. end /\ c - 1 \in l .. end
    BY <1>1, <1>4
  <2>2. QED
    BY <2>1, ConcatAdjacentSubSeq DEF end
<1>15. SubSeq(doc, 1, f - 1) = <<Fence>> \o pre
  <2>1. 1 \in 1 .. end + 1 /\ 1 \in 1 - 1 .. end /\ f - 1 \in 1 .. end /\ 1 + 1 = 2
    BY <1>1, <1>4
  <2>2. SubSeq(doc, 1, 1) \o SubSeq(doc, 1 + 1, f - 1) = SubSeq(doc, 1, f - 1)
    BY <2>1, ConcatAdjacentSubSeq DEF end
  <2>3. QED
    BY <1>9, <2>1, <2>2
<1>16. SubSeq(doc, l + 1, end) = post \o SubSeq(doc, c, end)
  <2>1. l + 1 \in 1 .. end + 1 /\ c - 1 \in (l + 1) - 1 .. end /\ end \in c - 1 .. end /\ (c - 1) + 1 = c
    BY <1>1, <1>4
  <2>2. SubSeq(doc, l + 1, c - 1) \o SubSeq(doc, (c - 1) + 1, end) = SubSeq(doc, l + 1, end)
    BY <2>1, ConcatAdjacentSubSeq DEF end
  <2>3. QED
    BY <2>1, <2>2
<1>17. doc = Frame(pre \o (own \o post), rest)
  BY <1>10, <1>11, <1>12, <1>13, <1>14 DEF Frame
<1>18. Replaced(doc, f, l, put) = Frame(pre \o (put \o post), rest)
  <2> DEFINE fence == <<Fence>>
             tail == fence \o rest
  <2>1. Replaced(doc, f, l, put) = (SubSeq(doc, 1, f - 1) \o put) \o SubSeq(doc, l + 1, end)
    BY DEF Replaced, end
  <2>2. SubSeq(doc, 1, f - 1) = fence \o pre /\ SubSeq(doc, l + 1, end) = post \o tail
    BY <1>12, <1>15, <1>16
  <2>3. Frame(pre \o (put \o post), rest) = fence \o ((pre \o (put \o post)) \o tail)
    BY DEF Frame
  <2>4. /\ fence \in Seq(Lines) /\ pre \in Seq(Lines) /\ put \in Seq(Lines) /\ post \in Seq(Lines)
        /\ rest \in Seq(Lines)
    BY <1>5, <1>7, <1>8, FenceIsLine, SeqMonotonic
  <2> HIDE DEF fence, pre, post, rest
  <2>5. tail \in Seq(Lines)
    BY <2>4, ConcatProperties
  <2> HIDE DEF tail
  <2> DEFINE one == ((fence \o pre) \o put) \o (post \o tail)
             other == fence \o ((pre \o (put \o post)) \o tail)
  <2>6. one = other
    <3>1. Regrouped(fence, pre, put, post, tail)
      BY <2>4, <2>5, Regroup
    <3>2. QED
      BY <3>1 DEF Regrouped
  <2>7. Replaced(doc, f, l, put) = one
    BY <2>1, <2>2
  <2>8. Frame(pre \o (put \o post), rest) = other
    BY <2>3
  <2> HIDE DEF one, other
  <2>9. QED
    BY <2>6, <2>7, <2>8
<1>19. QED
  BY <1>5, <1>6, <1>7, <1>8, <1>17, <1>18 DEF end

-----------------------------------------------------------------------------
(* Where the properties of a document are. *)

\* The block of a document, line by line.
LEMMA BlockIs ==
    ASSUME NEW doc \in Seq(Lines), HasBlock(doc), Closing(doc) # 0
    PROVE  /\ Closing(doc) \in 2 .. Len(doc)
           /\ Block(doc) \in Seq(Plain) /\ Len(Block(doc)) = Closing(doc) - 2
           /\ \A i \in 1 .. Closing(doc) - 2 : Block(doc)[i] = doc[i + 1]
<1> DEFINE c == Closing(doc)
           block == Block(doc)
<1>1. /\ c \in 2 .. Len(doc) /\ \A j \in 2 .. c - 1 : doc[j] # Fence
      /\ Len(doc) \in Nat
  BY ClosingFacts, LenProperties
<1>2. block = SubSeq(doc, 2, c - 1)
  BY DEF Block
<1>3. \A j \in 2 .. c - 1 : doc[j] \in Plain
  <2>1. \A j \in 2 .. c - 1 : j \in 1 .. Len(doc)
    BY <1>1
  <2>2. QED
    BY <1>1, <2>1, ElementOfSeq DEF Plain
<1> HIDE DEF c, block
<1>4. 2 \in Int /\ c - 1 \in Int
  BY <1>1
<1> DEFINE e == c - 1
<1>5. e \in Int /\ \A j \in 2 .. e : doc[j] \in Plain
  BY <1>3, <1>4
<1> HIDE DEF e
<1>6. /\ SubSeq(doc, 2, e) \in Seq(Plain)
      /\ Len(SubSeq(doc, 2, e)) = IF 2 <= e THEN (e - 2) + 1 ELSE 0
      /\ \A i \in 1 .. (e - 2) + 1 : SubSeq(doc, 2, e)[i] = doc[(2 + i) - 1]
  BY <1>5, SubSeqProperties
<1>7. block \in Seq(Plain) /\ Len(block) = IF 2 <= e THEN (e - 2) + 1 ELSE 0
  BY <1>2, <1>6 DEF e
<1>8. (IF 2 <= e THEN (e - 2) + 1 ELSE 0) = c - 2
  BY <1>1 DEF e
<1>9. ASSUME NEW i \in 1 .. c - 2
      PROVE  block[i] = doc[i + 1]
  <2>1. i \in 1 .. (e - 2) + 1 /\ (2 + i) - 1 = i + 1
    BY <1>1 DEF e
  <2>2. QED
    BY <1>2, <1>6, <2>1 DEF e
<1>10. QED
  BY <1>1, <1>7, <1>8, <1>9 DEF c, block

\* What is said in the block of a document is under a start that goes on to it.
Under(doc, s, k) ==
    /\ s \in 2 .. k /\ doc[s] \in Starts
    /\ \A m \in s + 1 .. k : doc[m] \notin Starts
    /\ doc[s].kind = "block" \/ \A m \in s + 1 .. k : doc[m].kind = "indented"

\* What a well-formed document says is under a start.
LEMMA SaidIsUnder ==
    ASSUME NEW doc \in Seq(Lines), HasBlock(doc), Closing(doc) # 0, WellFormed(doc),
           NEW k \in 2 .. Closing(doc) - 1, Said(doc[k])
    PROVE  \E s \in 2 .. k : Under(doc, s, k)
<1> DEFINE c == Closing(doc)
           block == Block(doc)
<1>1. /\ c \in 2 .. Len(doc) /\ block \in Seq(Plain) /\ Len(block) = c - 2
      /\ \A i \in 1 .. c - 2 : block[i] = doc[i + 1]
      /\ Len(doc) \in Nat
  BY BlockIs, LenProperties
<1>2. Proper(block)
  BY <1>1, ReadsWellIs DEF WellFormed
<1>3. k \in 2 .. c - 1
  OBVIOUS
<1> HIDE DEF c, block
<1>4. k - 1 \in 1 .. Len(block) /\ k - 1 \in 1 .. c - 2 /\ (k - 1) + 1 = k /\ k \in Nat
  BY <1>1, <1>3
<1>5. block[k - 1] = doc[k]
  BY <1>1, <1>4
<1>6. PICK j \in 1 .. k - 1 : Reaches(block, j, k - 1)
  BY <1>2, <1>4, <1>5 DEF Proper
<1>7. j \in 1 .. c - 2 /\ j + 1 \in 2 .. k
  BY <1>1, <1>3
<1>8. \A m \in (j + 1) + 1 .. k : m - 1 \in j + 1 .. k - 1 /\ m - 1 \in 1 .. c - 2 /\ (m - 1) + 1 = m
  BY <1>1, <1>3, <1>7
<1>9. \A m \in (j + 1) + 1 .. k : m - 1 \in j + 1 .. k - 1 /\ doc[m] = block[m - 1]
  BY <1>1, <1>8
<1>10. doc[j + 1] = block[j]
  BY <1>1, <1>7
<1>11. Under(doc, j + 1, k)
  BY <1>6, <1>7, <1>9, <1>10 DEF Under, Reaches, Owns
<1>12. QED
  BY <1>7, <1>11

\* The lines of a property, and what comes after them.
LEMMA LastOfFacts ==
    ASSUME NEW doc \in Seq(Lines), HasBlock(doc), Closing(doc) # 0,
           NEW f \in 2 .. Closing(doc) - 1, doc[f] \in Starts
    PROVE  /\ LastOf(doc, f) \in f .. Closing(doc) - 1
           /\ \A j \in f + 1 .. LastOf(doc, f) : doc[j] \notin Starts
           /\ \A k \in LastOf(doc, f) + 1 .. Closing(doc) - 1 : Said(doc[k]) => ~Under(doc, f, k)
<1> DEFINE c == Closing(doc)
           S == {i \in f + 1 .. c - 1 :
                  /\ \A j \in f + 1 .. i : Continues(doc[f], doc[j])
                  /\ doc[i].kind \notin {"comment", "blank"}}
           l == LastOf(doc, f)
<1>1. c \in 2 .. Len(doc) /\ Len(doc) \in Nat /\ f \in Nat /\ c \in Nat /\ f \in 2 .. c - 1
  BY BlockIs, LenProperties
<1>2. l = IF S = {} THEN f ELSE Last(S)
  BY DEF LastOf
<1>3. /\ S \subseteq f + 1 .. c - 1
      /\ \A i \in f + 1 .. c - 1 : i \in S <=>
           (\A j \in f + 1 .. i : Continues(doc[f], doc[j])) /\ doc[i].kind \notin {"comment", "blank"}
  OBVIOUS
<1> HIDE DEF c, S, l
<1>4. S \in SUBSET Nat /\ c - 1 \in Nat /\ \A i \in S : i <= c - 1
  BY <1>1, <1>3
<1>5. S # {} => Last(S) \in S /\ \A j \in S : j <= Last(S)
  BY <1>4, LastExists
<1>6. \A i \in S : i <= l
  BY <1>2, <1>5
<1>7. l \in f .. c - 1 /\ (l = f \/ l \in S)
  BY <1>1, <1>2, <1>3, <1>5
<1>8. \A j \in 2 .. c - 1 : doc[j] \in Lines
  <2>1. \A j \in 2 .. c - 1 : j \in 1 .. Len(doc)
    BY <1>1
  <2>2. QED
    BY <2>1, ElementOfSeq
<1>9. ASSUME NEW j \in f + 1 .. l
      PROVE  doc[j] \notin Starts
  <2>1. l \in S /\ j \in 2 .. c - 1 /\ l \in f + 1 .. c - 1
    BY <1>1, <1>7, <1>9
  <2>2. Continues(doc[f], doc[j])
    BY <1>3, <1>9, <2>1
  <2>3. doc[j] \in Starts => doc[j].kind \in {"plain", "block", "new"}
    BY <1>8, <2>1, LineKinds
  <2>4. QED
    BY <2>2, <2>3 DEF Continues, StartsProperty
<1>10. ASSUME NEW k \in l + 1 .. c - 1, Said(doc[k]), Under(doc, f, k)
       PROVE  FALSE
  <2>1. k \in f + 1 .. c - 1 /\ ~(k <= l)
    BY <1>1, <1>7, <1>10
  <2>2. ASSUME NEW m \in f + 1 .. k
        PROVE  Continues(doc[f], doc[m])
    BY <1>10, <2>2 DEF Under, Continues, StartsProperty
  <2>3. k \in S
    BY <1>3, <1>10, <2>1, <2>2 DEF Said
  <2>4. QED
    BY <1>6, <2>1, <2>3
<1>11. QED
  BY <1>7, <1>9, <1>10 DEF c, l

\* A part of the lines between the fences.
LEMMA PartIs ==
    ASSUME NEW doc \in Seq(Lines), HasBlock(doc), Closing(doc) # 0,
           NEW m \in 2 .. Closing(doc), NEW n \in m - 1 .. Closing(doc) - 1
    PROVE  /\ SubSeq(doc, m, n) \in Seq(Plain)
           /\ Len(SubSeq(doc, m, n)) = (n - m) + 1
           /\ \A i \in 1 .. (n - m) + 1 : /\ SubSeq(doc, m, n)[i] = doc[(m + i) - 1]
                                          /\ (m + i) - 1 \in m .. n
<1>1. /\ Closing(doc) \in 2 .. Len(doc) /\ Len(doc) \in Nat
      /\ \A j \in 2 .. Closing(doc) - 1 : doc[j] # Fence
  BY ClosingFacts, LenProperties
<1>2. /\ m \in Int /\ n \in Int /\ m - 1 <= n
      /\ \A j \in m .. n : j \in 2 .. Closing(doc) - 1 /\ j \in 1 .. Len(doc)
  BY <1>1
<1>3. \A j \in m .. n : doc[j] \in Plain
  BY <1>1, <1>2, ElementOfSeq DEF Plain
<1> DEFINE part == SubSeq(doc, m, n)
<1>4. /\ part \in Seq(Plain)
      /\ Len(part) = IF m <= n THEN (n - m) + 1 ELSE 0
      /\ \A i \in 1 .. (n - m) + 1 : part[i] = doc[(m + i) - 1]
  BY <1>2, <1>3, SubSeqProperties
<1> HIDE DEF part
<1>5. Len(part) = (n - m) + 1
  BY <1>2, <1>4
<1>6. \A i \in 1 .. (n - m) + 1 : (m + i) - 1 \in m .. n
  BY <1>2
<1>7. QED
  BY <1>4, <1>5, <1>6 DEF part

\* What comes after a property is settled.
LEMMA AfterIsSettled ==
    ASSUME NEW doc \in Seq(Lines), HasBlock(doc), Closing(doc) # 0, WellFormed(doc),
           NEW f \in 2 .. Closing(doc) - 1, doc[f] \in Starts
    PROVE  Settled(SubSeq(doc, LastOf(doc, f) + 1, Closing(doc) - 1))
<1> DEFINE c == Closing(doc)
           l == LastOf(doc, f)
           post == SubSeq(doc, l + 1, c - 1)
<1>1. c \in 2 .. Len(doc) /\ Len(doc) \in Nat /\ f \in Nat /\ f \in 2 .. c - 1
  BY BlockIs, LenProperties
<1>2. /\ l \in f .. c - 1 /\ \A j \in f + 1 .. l : doc[j] \notin Starts
      /\ \A k \in l + 1 .. c - 1 : Said(doc[k]) => ~Under(doc, f, k)
  BY LastOfFacts
<1>3. /\ Len(post) = ((c - 1) - (l + 1)) + 1
      /\ \A i \in 1 .. ((c - 1) - (l + 1)) + 1 : /\ post[i] = doc[((l + 1) + i) - 1]
                                                 /\ ((l + 1) + i) - 1 \in l + 1 .. c - 1
  <2>1. l + 1 \in 2 .. c /\ c - 1 \in (l + 1) - 1 .. c - 1
    BY <1>1, <1>2
  <2>2. QED
    BY <2>1, PartIs
<1>4. \A k \in 2 .. c - 1 : Said(doc[k]) => \E s \in 2 .. k : Under(doc, s, k)
  BY SaidIsUnder
<1> HIDE DEF c, l, post
<1>5. ASSUME NEW i \in 1 .. Len(post), Said(post[i])
      PROVE  \E j \in 1 .. i : post[j] \in Starts
  <2> DEFINE k == l + i
  <2>1. /\ i \in 1 .. ((c - 1) - (l + 1)) + 1 /\ ((l + 1) + i) - 1 = k
        /\ k \in l + 1 .. c - 1 /\ k \in 2 .. c - 1 /\ k \in Nat /\ k > l /\ i = k - l
    BY <1>1, <1>2, <1>3
  <2>2. post[i] = doc[k]
    BY <1>3, <2>1
  <2> HIDE DEF k
  <2>3. PICK s \in 2 .. k : Under(doc, s, k)
    BY <1>4, <1>5, <2>1, <2>2
  <2>4. s # f
    BY <1>2, <1>5, <2>1, <2>2, <2>3
  <2>5. ~(s < f)
    <3>1. s < f => f \in s + 1 .. k
      BY <1>1, <1>2, <2>1, <2>3
    <3>2. QED
      BY <2>3, <3>1 DEF Under
  <2>6. ~(s <= l)
    <3>1. s <= l => s \in f + 1 .. l
      BY <1>1, <1>2, <2>4, <2>5
    <3>2. QED
      BY <1>2, <2>3, <3>1 DEF Under
  <2>7. /\ s - l \in 1 .. i /\ s - l \in 1 .. ((c - 1) - (l + 1)) + 1
        /\ ((l + 1) + (s - l)) - 1 = s
    BY <1>1, <1>2, <2>1, <2>6
  <2>8. post[s - l] = doc[s]
    BY <1>3, <2>7
  <2>9. QED
    BY <2>3, <2>7, <2>8 DEF Under
<1>6. QED
  BY <1>5 DEF Settled, c, l, post

-----------------------------------------------------------------------------
(* Edits of documents. *)

\* Only what the document says of the name has changed.
Changed(doc, new, name, put) ==
    /\ WellFormed(new)
    /\ \A m : SaidOf(Block(new), m) = IF m = name THEN put ELSE SaidOf(Block(doc), m)

\* Replacing lines of the block leaves the body alone.
LEMMA ReplacedType ==
    ASSUME NEW doc \in Seq(Lines), HasBlock(doc), Closing(doc) # 0,
           NEW f \in 2 .. Closing(doc), NEW l \in f - 1 .. Closing(doc) - 1,
           NEW name \in PropertyNames, NEW put \in Put(name)
    PROVE  /\ Replaced(doc, f, l, put) \in Seq(Lines)
           /\ Body(Replaced(doc, f, l, put)) = Body(doc)
<1> DEFINE c == Closing(doc)
           pre == SubSeq(doc, 2, f - 1)
           own == SubSeq(doc, f, l)
           post == SubSeq(doc, l + 1, c - 1)
           rest == SubSeq(doc, c + 1, Len(doc))
           block == pre \o (own \o post)
           after == pre \o (put \o post)
<1>1. put \in Seq(Plain)
  BY PutFacts
<1>2. /\ pre \in Seq(Plain) /\ own \in Seq(Plain) /\ post \in Seq(Plain) /\ rest \in Seq(Lines)
      /\ doc = Frame(block, rest) /\ Replaced(doc, f, l, put) = Frame(after, rest)
  BY <1>1, DocParts
<1> HIDE DEF pre, own, post, rest
<1>3. own \o post \in Seq(Plain) /\ put \o post \in Seq(Plain)
  BY <1>1, <1>2, ConcatProperties
<1>4. block \in Seq(Plain) /\ after \in Seq(Plain)
  BY <1>2, <1>3, ConcatProperties
<1> HIDE DEF block, after
<1>5. /\ Body(Frame(block, rest)) = rest
      /\ Body(Frame(after, rest)) = rest /\ Frame(after, rest) \in Seq(Lines)
  BY <1>2, <1>4, FrameReads
<1>6. QED
  BY <1>2, <1>5

\* Replacing the lines of a name, and of nothing else, changes what is said of it.
LEMMA ReplacedKeeps ==
    ASSUME NEW doc \in Seq(Lines), HasBlock(doc), Closing(doc) # 0, WellFormed(doc),
           NEW f \in 2 .. Closing(doc), NEW l \in f - 1 .. Closing(doc) - 1,
           NEW name \in PropertyNames, NEW put \in Put(name),
           Settled(SubSeq(doc, f, l)), Settled(SubSeq(doc, l + 1, Closing(doc) - 1)),
           \A j \in f .. l : doc[j] \in Starts => doc[j].name = name,
           \A j \in 2 .. f - 1 : doc[j] \in Starts => doc[j].name # name,
           \A j \in l + 1 .. Closing(doc) - 1 : doc[j] \in Starts => doc[j].name # name
    PROVE  Changed(doc, Replaced(doc, f, l, put), name, put)
<1> DEFINE c == Closing(doc)
           pre == SubSeq(doc, 2, f - 1)
           own == SubSeq(doc, f, l)
           post == SubSeq(doc, l + 1, c - 1)
           rest == SubSeq(doc, c + 1, Len(doc))
           block == pre \o (own \o post)
           after == pre \o (put \o post)
           new == Replaced(doc, f, l, put)
<1>1. put \in Seq(Plain)
  BY PutFacts
<1>2. /\ pre \in Seq(Plain) /\ own \in Seq(Plain) /\ post \in Seq(Plain) /\ rest \in Seq(Lines)
      /\ doc = Frame(block, rest) /\ new = Frame(after, rest)
  BY <1>1, DocParts
<1>3. /\ c \in 2 .. Len(doc) /\ Len(doc) \in Nat
      /\ f \in 2 .. c /\ l \in f - 1 .. c - 1
  BY BlockIs, LenProperties
<1>4. \A i \in 1 .. Len(own) : own[i] \in Starts => own[i].name = name
  <2>1. /\ Len(own) = (l - f) + 1
        /\ \A i \in 1 .. (l - f) + 1 : own[i] = doc[(f + i) - 1] /\ (f + i) - 1 \in f .. l
    BY PartIs
  <2> HIDE DEF own
  <2>2. QED
    BY <2>1
<1>5. \A i \in 1 .. Len(pre) : pre[i] \in Starts => pre[i].name # name
  <2>1. f - 1 \in 2 - 1 .. c - 1 /\ 2 \in 2 .. c
    BY <1>3
  <2>2. /\ Len(pre) = ((f - 1) - 2) + 1
        /\ \A i \in 1 .. ((f - 1) - 2) + 1 : pre[i] = doc[(2 + i) - 1] /\ (2 + i) - 1 \in 2 .. f - 1
    BY <2>1, PartIs
  <2> HIDE DEF pre
  <2>3. QED
    BY <2>2
<1>6. \A i \in 1 .. Len(post) : post[i] \in Starts => post[i].name # name
  <2>1. l + 1 \in 2 .. c /\ c - 1 \in (l + 1) - 1 .. c - 1
    BY <1>3
  <2>2. /\ Len(post) = ((c - 1) - (l + 1)) + 1
        /\ \A i \in 1 .. ((c - 1) - (l + 1)) + 1 :
              post[i] = doc[((l + 1) + i) - 1] /\ ((l + 1) + i) - 1 \in l + 1 .. c - 1
    BY <2>1, PartIs
  <2>3. \A j \in l + 1 .. c - 1 : doc[j] \in Starts => doc[j].name # name
    OBVIOUS
  <2> HIDE DEF post, c
  <2>4. QED
    BY <2>2, <2>3
<1>7. Settled(own) /\ Settled(post)
  OBVIOUS
<1> HIDE DEF pre, own, post, rest, c, new
<1>8. own \o post \in Seq(Plain) /\ put \o post \in Seq(Plain)
  BY <1>1, <1>2, ConcatProperties
<1>9. block \in Seq(Plain) /\ after \in Seq(Plain)
  BY <1>2, <1>8, ConcatProperties
<1>10. Block(doc) = block /\ Block(new) = after
  <2> HIDE DEF block, after
  <2>1. Block(Frame(block, rest)) = block /\ Block(Frame(after, rest)) = after
    BY <1>2, <1>9, FrameReads
  <2>2. QED
    BY <1>2, <2>1
<1>11. ReadsWell(block)
  BY <1>10 DEF WellFormed
<1>12. /\ ReadsWell(after)
       /\ \A m : SaidOf(after, m) = IF m = name THEN put ELSE SaidOf(block, m)
  <2>1. Named(own, name) /\ Unnamed(pre, name) /\ Unnamed(post, name)
    BY <1>4, <1>5, <1>6 DEF Named, Unnamed
  <2>2. Rewritten(pre \o (own \o post), pre \o (put \o post), name, put)
    BY <1>2, <1>7, <1>11, <2>1, BlockEdit
  <2>3. Rewritten(block, after, name, put)
    BY <2>2
  <2> HIDE DEF block, after
  <2>4. QED
    BY <1>11, <2>3 DEF Rewritten
<1>13. QED
  BY <1>10, <1>12 DEF Changed, WellFormed, new

\* What an edit puts.
LEMMA EditTypes ==
    ASSUME NEW edit \in Edits
    PROVE  /\ edit.name \in PropertyNames
           /\ edit.kind = "set" => DOMAIN edit.after \subseteq Nat
           /\ (IF edit.kind = "set" THEN <<Property(edit.name, "new")>> ELSE <<>>) \in Put(edit.name)
<1>1. edit.name \in PropertyNames
  BY DEF Edits
<1>2. ASSUME edit.kind = "set" PROVE DOMAIN edit.after \subseteq Nat
  <2>1. edit \in [kind: {"set"}, name: PropertyNames, after: {<<>>} \cup (PropertyNames \X PropertyNames)]
    BY <1>2 DEF Edits
  <2>2. edit.after = <<>> \/ edit.after \in PropertyNames \X PropertyNames
    BY <2>1
  <2>3. QED
    BY <2>2
<1>3. QED
  BY <1>1, <1>2 DEF Put

\* What was not there is not said.
LEMMA AbsentSaysNothing ==
    ASSUME NEW doc \in Seq(Lines), HasBlock(doc), Closing(doc) # 0,
           NEW name, Positions(doc, name) = {}
    PROVE  SaidOf(Block(doc), name) = <<>>
<1> DEFINE c == Closing(doc)
           block == Block(doc)
<1>1. /\ c \in 2 .. Len(doc) /\ Len(doc) \in Nat
      /\ block \in Seq(Plain) /\ Len(block) = c - 2
      /\ \A i \in 1 .. c - 2 : block[i] = doc[i + 1]
  BY BlockIs, LenProperties
<1>2. \A k \in 2 .. c - 1 : doc[k] \in Starts => doc[k].name # name
  BY DEF Positions, StartsProperty
<1> HIDE DEF block, c
<1>3. \A i \in 1 .. Len(block) : block[i] = doc[i + 1] /\ i + 1 \in 2 .. c - 1
  BY <1>1
<1>4. \A i \in 1 .. Len(block) : block[i] \in Starts => block[i].name # name
  BY <1>2, <1>3
<1>5. QED
  BY <1>1, <1>4, SaidOfNone DEF block

\* The place of a property that is there.
LEMMA OwnPlace ==
    ASSUME NEW doc \in Seq(Lines), HasBlock(doc), Closing(doc) # 0,
           NEW name, Positions(doc, name) # {}
    PROVE  LET f == First(Positions(doc, name))
           IN  /\ f \in 2 .. Closing(doc) - 1 /\ doc[f] \in Starts /\ doc[f].name = name
               /\ f \in Positions(doc, name)
               /\ \A j \in 2 .. f - 1 : doc[j] \in Starts => doc[j].name # name
<1> DEFINE S == Positions(doc, name)
           f == First(S)
<1>1. Closing(doc) \in 2 .. Len(doc) /\ Len(doc) \in Nat
  BY BlockIs, LenProperties
<1>2. /\ S \subseteq 2 .. Closing(doc) - 1
      /\ \A j \in 2 .. Closing(doc) - 1 : j \in S <=> doc[j] \in Starts /\ doc[j].name = name
  BY DEF Positions, StartsProperty
<1>3. S \in SUBSET Nat /\ S # {}
  BY <1>1, <1>2
<1> HIDE DEF S
<1>4. First(S) \in S /\ \A j \in S : First(S) <= j
  BY <1>3, FirstExists
<1>5. f \in 2 .. Closing(doc) - 1 /\ doc[f] \in Starts /\ doc[f].name = name
  BY <1>2, <1>4
<1>6. ASSUME NEW j \in 2 .. f - 1, doc[j] \in Starts, doc[j].name = name
      PROVE  FALSE
  <2>1. j \in 2 .. Closing(doc) - 1 /\ ~(f <= j)
    BY <1>1, <1>5, <1>6
  <2>2. QED
    BY <1>2, <1>4, <1>6, <2>1
<1>7. QED
  BY <1>4, <1>5, <1>6 DEF S

\* The lines of a property start it, and nothing else.
LEMMA OwnIsSettled ==
    ASSUME NEW doc \in Seq(Lines), HasBlock(doc), Closing(doc) # 0,
           NEW f \in 2 .. Closing(doc) - 1, doc[f] \in Starts
    PROVE  Settled(SubSeq(doc, f, LastOf(doc, f)))
<1> DEFINE c == Closing(doc)
           l == LastOf(doc, f)
           own == SubSeq(doc, f, l)
<1>1. c \in 2 .. Len(doc) /\ Len(doc) \in Nat /\ l \in f .. c - 1 /\ f \in Nat /\ f \in 2 .. c - 1
  BY BlockIs, LastOfFacts, LenProperties
<1>2. /\ Len(own) = (l - f) + 1
      /\ \A i \in 1 .. (l - f) + 1 : own[i] = doc[(f + i) - 1]
  <2>1. f \in 2 .. c /\ l \in f - 1 .. c - 1
    BY <1>1
  <2>2. QED
    BY <2>1, PartIs
<1> HIDE DEF c, l, own
<1>3. own[1] = doc[f]
  <2>1. 1 \in 1 .. (l - f) + 1 /\ (f + 1) - 1 = f
    BY <1>1
  <2>2. own[1] = doc[(f + 1) - 1]
    BY <1>2, <2>1
  <2>3. QED
    BY <2>1, <2>2
<1>4. \A i \in 1 .. Len(own) : 1 \in 1 .. i
  BY <1>1, <1>2
<1>5. QED
  BY <1>3, <1>4 DEF Settled, own, l

\* An edit keeps what the other properties say, and the body.
Kept(doc, edit, new) ==
    /\ WellFormed(new)
    /\ Says(new) = [Says(doc) EXCEPT ![edit.name] =
                      IF edit.kind = "set" THEN <<Property(edit.name, "new")>> ELSE <<>>]
    /\ \/ Body(new) = Body(doc)
       \/ ~HasBlock(doc) /\ Body(new) = <<[kind |-> "blank"]>> \o doc

\* The change of a name is all that a document shows of an edit.
LEMMA ChangedIsKept ==
    ASSUME NEW doc, NEW edit, NEW new, NEW put,
           put = IF edit.kind = "set" THEN <<Property(edit.name, "new")>> ELSE <<>>,
           Changed(doc, new, edit.name, put),
           \/ Body(new) = Body(doc)
           \/ ~HasBlock(doc) /\ Body(new) = <<[kind |-> "blank"]>> \o doc
    PROVE  Kept(doc, edit, new)
<1>1. \A m \in PropertyNames : Says(new)[m] = IF m = edit.name THEN put ELSE Says(doc)[m]
  BY DEF Says, Changed
<1>2. /\ Says(new) = [m \in PropertyNames |-> Says(new)[m]]
      /\ DOMAIN Says(doc) = PropertyNames
  BY DEF Says
<1> DEFINE other == [Says(doc) EXCEPT ![edit.name] = put]
<1>3. other = [m \in PropertyNames |-> IF m = edit.name THEN put ELSE Says(doc)[m]]
  <2>1. other = [m \in DOMAIN Says(doc) |-> IF m = edit.name THEN put ELSE Says(doc)[m]]
    OBVIOUS
  <2>2. QED
    BY <1>2, <2>1
<1>4. Says(new) = other
  BY <1>1, <1>2, <1>3
<1>5. WellFormed(new)
  BY DEF Changed
<1>6. QED
  BY <1>4, <1>5 DEF Kept

\* Nothing is done to a document that does not say it.
LEMMA UnchangedIsKept ==
    ASSUME NEW doc, NEW name, WellFormed(doc), SaidOf(Block(doc), name) = <<>>
    PROVE  Changed(doc, doc, name, <<>>)
BY DEF Changed

\* A document without a block gets one.
LEMMA NewBlock ==
    ASSUME NEW doc \in Seq(Lines), ~HasBlock(doc), NEW name \in PropertyNames,
           NEW put, put = <<Property(name, "new")>>
    PROVE  LET new == <<Fence>> \o put \o <<Fence, [kind |-> "blank"]>> \o doc
           IN  /\ new \in Seq(Lines)
               /\ Changed(doc, new, name, put)
               /\ Body(new) = <<[kind |-> "blank"]>> \o doc
<1> DEFINE blank == [kind |-> "blank"]
           f == <<Fence>>
           b == <<blank>>
           fb == f \o b
           rest == b \o doc
           new == ((f \o put) \o <<Fence, blank>>) \o doc
<1>1. put \in Put(name)
  BY DEF Put
<1>2. put \in Seq(Plain) /\ Proper(put) /\ Distinct(put)
      /\ Named(put, name) /\ SaidOf(put, name) = put
  BY <1>1, PutFacts DEF Named
<1>3. f \in Seq(Lines) /\ b \in Seq(Lines) /\ put \in Seq(Lines)
  <2>1. blank \in Others
    BY DEF Others
  <2>2. blank \in Lines
    BY <2>1 DEF Lines
  <2> HIDE DEF blank
  <2>3. b \in Seq(Lines)
    BY <2>2
  <2>4. QED
    BY <1>2, <2>3, FenceIsLine, SeqMonotonic
<1>4. <<Fence, blank>> = fb
  <2> HIDE DEF blank
  <2>1. QED
    OBVIOUS
<1> HIDE DEF f, b
<1>5. rest \in Seq(Lines) /\ fb \in Seq(Lines) /\ f \o put \in Seq(Lines)
  BY <1>3, ConcatProperties
<1> DEFINE fp == f \o put
           fbd == fb \o doc
<1>6. fp \in Seq(Lines)
  BY <1>5
<1> HIDE DEF fp, fb, rest
<1>7. fbd \in Seq(Lines)
  BY <1>5, ConcatProperties
<1> HIDE DEF fbd
<1>8. Assoc(fp, fb, doc) /\ Assoc(f, put, fbd) /\ Assoc(f, b, doc)
  BY <1>3, <1>5, <1>6, <1>7, Associates
<1>9. fbd = f \o rest
  BY <1>8 DEF Assoc, fbd, fb, rest
<1>10. (fp \o fb) \o doc = f \o (put \o fbd)
  <2>1. (fp \o fb) \o doc = fp \o fbd
    BY <1>8 DEF Assoc, fbd
  <2>2. fp \o fbd = f \o (put \o fbd)
    BY <1>8 DEF Assoc, fp
  <2>3. QED
    BY <2>1, <2>2
<1>11. new = Frame(put, rest)
  <2>1. new = (fp \o fb) \o doc
    BY <1>4 DEF fp
  <2>2. Frame(put, rest) = f \o (put \o (f \o rest))
    BY DEF Frame, f
  <2> HIDE DEF new
  <2>3. QED
    BY <1>9, <1>10, <2>1, <2>2
<1> HIDE DEF new
<1>12. /\ new \in Seq(Lines) /\ Block(new) = put /\ Body(new) = rest
  BY <1>2, <1>5, <1>11, FrameReads
<1>13. WellFormed(new)
  BY <1>2, <1>12, ReadsWellIs DEF WellFormed
<1>14. ASSUME NEW m
       PROVE  SaidOf(Block(new), m) = IF m = name THEN put ELSE SaidOf(Block(doc), m)
  <2>1. CASE m = name
    BY <1>2, <1>12, <2>1
  <2>2. CASE m # name
    <3>1. Block(doc) = <<>> /\ <<>> \in Seq(Plain) /\ Len(<<>>) = 0
      BY EmptySeq DEF Block
    <3> DEFINE none == <<>>
    <3>2. none \in Seq(Plain) /\ Len(none) = 0
      BY <3>1
    <3>3. SaidOf(none, m) = <<>>
      <4> HIDE DEF none
      <4>1. \A i \in 1 .. Len(none) : none[i] \in Starts => none[i].name # m
        BY <3>2
      <4>2. QED
        BY <3>2, <4>1, SaidOfNone
    <3>4. SaidOf(put, m) = <<>>
      <4>1. \A i \in 1 .. Len(put) : put[i] \in Starts => put[i].name # m
        BY <1>2, <2>2 DEF Named
      <4>2. QED
        BY <1>2, <4>1, SaidOfNone
    <3>5. QED
      BY <1>12, <2>2, <3>1, <3>3, <3>4
  <2>3. QED
    BY <2>1, <2>2
<1>15. Changed(doc, new, name, put)
  BY <1>13, <1>14 DEF Changed
<1>16. QED
  BY <1>12, <1>15 DEF new, rest, b, f

\* Where a property that is not there goes.
LEMMA InsertionPlace ==
    ASSUME NEW doc \in Seq(Lines), HasBlock(doc), Closing(doc) # 0, NEW edit \in Edits, edit.kind = "set"
    PROVE  LET point == InsertionPoint(doc, edit.after)
           IN  /\ point \in 1 .. Closing(doc) - 1
               /\ WellFormed(doc) => Settled(SubSeq(doc, point + 1, Closing(doc) - 1))
<1> DEFINE after == edit.after
           found == {i \in DOMAIN after : Positions(doc, after[i]) # {}}
           point == InsertionPoint(doc, after)
           c == Closing(doc)
<1>1. c \in 2 .. Len(doc) /\ Len(doc) \in Nat
  BY BlockIs, LenProperties
<1>2. CASE found = {}
  <2>1. point = c - 1
    BY <1>2 DEF InsertionPoint
  <2>2. /\ Len(SubSeq(doc, c, c - 1)) = ((c - 1) - c) + 1
    <3>1. c \in 2 .. c /\ c - 1 \in c - 1 .. c - 1
      BY <1>1
    <3>2. QED
      BY <3>1, PartIs
  <2>3. (c - 1) + 1 = c /\ ((c - 1) - c) + 1 = 0
    BY <1>1
  <2>4. Settled(SubSeq(doc, c, c - 1))
    <3> DEFINE part == SubSeq(doc, c, c - 1)
    <3>1. Len(part) = 0
      BY <2>2, <2>3
    <3> HIDE DEF part
    <3>2. Settled(part)
      BY <3>1 DEF Settled
    <3>3. QED
      BY <3>2 DEF part
  <2>5. QED
    BY <1>1, <2>1, <2>3, <2>4
<1>3. CASE found # {}
  <2> DEFINE name == after[First(found)]
             f == First(Positions(doc, name))
  <2>1. First(found) \in found
    <3>1. found \in SUBSET Nat
      BY EditTypes
    <3> HIDE DEF found
    <3>2. QED
      BY <1>3, <3>1, FirstExists
  <2>2. Positions(doc, name) # {}
    BY <2>1
  <2>3. point = LastOf(doc, f)
    BY <1>3 DEF InsertionPoint
  <2> HIDE DEF name
  <2>4. f \in 2 .. c - 1 /\ doc[f] \in Starts
    BY <2>2, OwnPlace
  <2> HIDE DEF f
  <2>5. LastOf(doc, f) \in f .. c - 1
    BY <2>4, LastOfFacts
  <2>6. WellFormed(doc) => Settled(SubSeq(doc, LastOf(doc, f) + 1, c - 1))
    BY <2>4, AfterIsSettled
  <2>7. QED
    BY <1>1, <2>3, <2>4, <2>5, <2>6
<1>4. QED
  BY <1>2, <1>3

\* Every edit that is not refused keeps the rest.
LEMMA EditedKept ==
    ASSUME NEW doc \in Seq(Lines), NEW edit \in Edits,
           ~Malformed(doc), ~(HasBlock(doc) /\ Duplicated(doc))
    PROVE  /\ Edited(doc, edit) \in Seq(Lines)
           /\ WellFormed(doc) => Kept(doc, edit, Edited(doc, edit))
<1> DEFINE name == edit.name
           put == IF edit.kind = "set" THEN <<Property(name, "new")>> ELSE <<>>
           own == Positions(doc, name)
           c == Closing(doc)
           new == Edited(doc, edit)
<1>1. name \in PropertyNames /\ put \in Put(name)
  BY EditTypes
<1>2. put = <<>> <=> edit.kind # "set"
  <2>1. <<Property(name, "new")>> # <<>>
    OBVIOUS
  <2>2. QED
    BY <2>1
<1>3. ~HasBlock(doc) \/ (HasBlock(doc) /\ c # 0)
  BY DEF Malformed
<1>4. CASE ~HasBlock(doc) /\ put = <<>>
  <2>1. new = doc
    BY <1>4 DEF Edited
  <2>2. SaidOf(Block(doc), name) = <<>>
    <3>1. SaidOf(<<>>, name) = <<>>
      <4> DEFINE none == <<>>
      <4>1. none \in Seq(Plain) /\ Len(none) = 0
        BY EmptySeq
      <4> HIDE DEF none
      <4>2. \A i \in 1 .. Len(none) : none[i] \in Starts => none[i].name # name
        BY <4>1
      <4>3. SaidOf(none, name) = <<>>
        BY <4>1, <4>2, SaidOfNone
      <4>4. QED
        BY <4>3 DEF none
    <3>2. QED
      BY <1>4, <3>1 DEF Block
  <2>3. ASSUME WellFormed(doc) PROVE Kept(doc, edit, new)
    <3>1. Changed(doc, doc, name, put)
      BY <1>4, <2>2, <2>3, UnchangedIsKept
    <3>2. QED
      BY <2>1, <3>1, ChangedIsKept
  <2>4. QED
    BY <2>1, <2>3
<1>5. CASE ~HasBlock(doc) /\ put # <<>>
  <2>1. put = <<Property(name, "new")>>
    BY <1>2, <1>5
  <2> DEFINE made == <<Fence>> \o put \o <<Fence, [kind |-> "blank"]>> \o doc
  <2>2. new = made
    BY <1>5 DEF Edited
  <2>3. made \in Seq(Lines) /\ Changed(doc, made, name, put) /\ Body(made) = <<[kind |-> "blank"]>> \o doc
    BY <1>1, <1>5, <2>1, NewBlock, ZenonT(30)
  <2> HIDE DEF made
  <2>4. Kept(doc, edit, made)
    BY <1>5, <2>3, ChangedIsKept
  <2>5. QED
    BY <2>2, <2>3, <2>4
<1>6. CASE HasBlock(doc) /\ c # 0 /\ own = {} /\ put = <<>>
  <2>1. new = doc
    BY <1>6 DEF Edited
  <2>2. SaidOf(Block(doc), name) = <<>>
    BY <1>6, AbsentSaysNothing
  <2>3. ASSUME WellFormed(doc) PROVE Kept(doc, edit, new)
    <3>1. Changed(doc, doc, name, put)
      BY <1>6, <2>2, <2>3, UnchangedIsKept
    <3>2. QED
      BY <2>1, <3>1, ChangedIsKept
  <2>4. QED
    BY <2>1, <2>3
<1>7. CASE HasBlock(doc) /\ c # 0 /\ own = {} /\ put # <<>>
  <2> DEFINE point == InsertionPoint(doc, edit.after)
  <2>1. new = Replaced(doc, point + 1, point, put)
    BY <1>7 DEF Edited
  <2>2. /\ point \in 1 .. c - 1
        /\ WellFormed(doc) => Settled(SubSeq(doc, point + 1, c - 1))
    BY <1>2, <1>7, InsertionPlace
  <2>3. c \in 2 .. Len(doc) /\ Len(doc) \in Nat
    BY <1>7, BlockIs, LenProperties
  <2>4. point + 1 \in 2 .. c /\ point \in (point + 1) - 1 .. c - 1
    BY <2>2, <2>3
  <2>5. new \in Seq(Lines) /\ Body(new) = Body(doc)
    BY <1>1, <1>7, <2>1, <2>4, ReplacedType
  <2>6. \A j \in 2 .. c - 1 : doc[j] \in Starts => doc[j].name # name
    BY <1>7 DEF Positions, StartsProperty
  <2>7. ASSUME WellFormed(doc) PROVE Kept(doc, edit, new)
    <3>1. Settled(SubSeq(doc, point + 1, point))
      <4> DEFINE part == SubSeq(doc, point + 1, point)
      <4>1. Len(part) = (point - (point + 1)) + 1
        BY <1>7, <2>4, PartIs
      <4>2. (point - (point + 1)) + 1 = 0
        BY <2>2, <2>3
      <4> HIDE DEF part
      <4>3. Settled(part)
        BY <4>1, <4>2 DEF Settled
      <4>4. QED
        BY <4>3 DEF part
    <3>2. \A j \in point + 1 .. point : doc[j] \in Starts => doc[j].name = name
      BY <2>2, <2>3
    <3>3. \A j \in 2 .. (point + 1) - 1 : doc[j] \in Starts => doc[j].name # name
      BY <2>2, <2>3, <2>6
    <3>4. \A j \in point + 1 .. c - 1 : doc[j] \in Starts => doc[j].name # name
      BY <2>2, <2>3, <2>6
    <3>5. Settled(SubSeq(doc, point + 1, c - 1))
      BY <2>2, <2>7
    <3> HIDE DEF point
    <3>6. Changed(doc, Replaced(doc, point + 1, point, put), name, put)
      <4> DEFINE f == point + 1
      <4>1. /\ f \in 2 .. c /\ point \in f - 1 .. c - 1
            /\ Settled(SubSeq(doc, f, point)) /\ Settled(SubSeq(doc, point + 1, c - 1))
            /\ \A j \in f .. point : doc[j] \in Starts => doc[j].name = name
            /\ \A j \in 2 .. f - 1 : doc[j] \in Starts => doc[j].name # name
            /\ \A j \in point + 1 .. c - 1 : doc[j] \in Starts => doc[j].name # name
        BY <2>4, <3>1, <3>2, <3>3, <3>4, <3>5
      <4> HIDE DEF f, put, name
      <4>2. Changed(doc, Replaced(doc, f, point, put), name, put)
        BY <1>1, <1>7, <2>7, <4>1, ReplacedKeeps
      <4>3. QED
        BY <4>2 DEF f
    <3>7. Changed(doc, new, name, put)
      BY <2>1, <3>6 DEF point
    <3>8. QED
      BY <2>5, <3>7, ChangedIsKept
  <2>8. QED
    BY <2>5, <2>7
<1>8. CASE HasBlock(doc) /\ c # 0 /\ own # {}
  <2> DEFINE f == First(own)
             l == LastOf(doc, f)
  <2>1. new = Replaced(doc, f, l, put)
    BY <1>8 DEF Edited
  <2>2. /\ f \in 2 .. c - 1 /\ doc[f] \in Starts /\ doc[f].name = name /\ f \in own
        /\ \A j \in 2 .. f - 1 : doc[j] \in Starts => doc[j].name # name
    BY <1>8, OwnPlace
  <2>3. c \in 2 .. Len(doc) /\ Len(doc) \in Nat
    BY <1>8, BlockIs, LenProperties
  <2>4. \A j \in 2 .. c - 1 : j # f /\ doc[j] \in Starts => doc[j].name # name
    <3>1. \A j \in 2 .. c - 1 : doc[j] \in Starts /\ doc[j].name = name => j \in own
      BY DEF Positions, StartsProperty
    <3>2. \A i, j \in own : i = j
      BY <1>1, <1>8 DEF Duplicated
    <3> HIDE DEF own, f
    <3>3. QED
      BY <2>2, <3>1, <3>2
  <2> HIDE DEF f
  <2>5. l \in f .. c - 1 /\ \A j \in f + 1 .. l : doc[j] \notin Starts
    BY <1>8, <2>2, LastOfFacts
  <2>6. f \in 2 .. c /\ l \in f - 1 .. c - 1
    BY <2>2, <2>3, <2>5
  <2>7. new \in Seq(Lines) /\ Body(new) = Body(doc)
    BY <1>1, <1>8, <2>1, <2>6, ReplacedType
  <2>8. ASSUME WellFormed(doc) PROVE Kept(doc, edit, new)
    <3>1. Settled(SubSeq(doc, f, l))
      BY <1>8, <2>2, OwnIsSettled
    <3>2. Settled(SubSeq(doc, l + 1, c - 1))
      BY <1>8, <2>2, <2>8, AfterIsSettled
    <3>3. \A j \in f .. l : doc[j] \in Starts => doc[j].name = name
      <4>1. \A j \in f .. l : j = f \/ j \in f + 1 .. l
        BY <2>2, <2>3, <2>5
      <4>2. QED
        BY <2>2, <2>5, <4>1
    <3>4. \A j \in l + 1 .. c - 1 : doc[j] \in Starts => doc[j].name # name
      <4>1. \A j \in l + 1 .. c - 1 : j \in 2 .. c - 1 /\ j # f
        BY <2>2, <2>3, <2>5
      <4>2. QED
        BY <2>4, <4>1
    <3> HIDE DEF l, put, name
    <3>5. Changed(doc, Replaced(doc, f, l, put), name, put)
      BY <1>1, <1>8, <2>2, <2>6, <2>8, <3>1, <3>2, <3>3, <3>4, ReplacedKeeps
    <3>6. Changed(doc, new, name, put)
      BY <2>1, <3>5
    <3>7. QED
      BY <2>7, <3>6, ChangedIsKept DEF put, name
  <2>9. QED
    BY <2>7, <2>8
<1>9. QED
  BY <1>3, <1>4, <1>5, <1>6, <1>7, <1>8

\* The inductive invariant of front matter: well-formedness is not part of it,
\* because users may write what is not.
FrontOK == FrontTypeOK /\ EditsStayInPlace

\* An edit, also a refused one, keeps the invariant.
LEMMA EditKeeps ==
    ASSUME FrontOK, NEW edit \in Edits, Edit(edit)
    PROVE  FrontOK'
<1>1. document \in Seq(Lines) /\ edits \in 0 .. MaxEdits
  BY DEF FrontOK, FrontTypeOK
<1>2. edits' \in 0 .. MaxEdits
  BY <1>1, LinesAssumption DEF Edit
<1>3. CASE Malformed(document) \/ (HasBlock(document) /\ Duplicated(document))
  <2>1. UNCHANGED <<document, edited>>
    BY <1>3 DEF Edit
  <2>2. FrontTypeOK'
    BY <1>2, <2>1 DEF FrontOK, FrontTypeOK
  <2>3. EditsStayInPlace'
    BY <2>1 DEF FrontOK, EditsStayInPlace
  <2>4. QED
    BY <2>2, <2>3 DEF FrontOK
<1>4. CASE ~(Malformed(document) \/ (HasBlock(document) /\ Duplicated(document)))
  <2>1. /\ document' = Edited(document, edit)
        /\ edited' = [edit |-> edit, before |-> document]
    BY <1>4 DEF Edit
  <2>2. edited'.edit = edit /\ edited'.before = document
    BY <2>1
  <2>3. /\ Edited(document, edit) \in Seq(Lines)
        /\ WellFormed(document) => Kept(document, edit, Edited(document, edit))
    BY <1>1, <1>4, EditedKept
  <2>4. FrontTypeOK'
    BY <1>1, <1>2, <2>1, <2>2, <2>3 DEF FrontTypeOK
  <2>5. EditsStayInPlace'
    BY <2>1, <2>2, <2>3 DEF EditsStayInPlace, Kept
  <2>6. QED
    BY <2>4, <2>5 DEF FrontOK
<1>5. QED
  BY <1>3, <1>4

LEMMA FrontStarts == FrontInit => FrontOK
<1>1. SUFFICES ASSUME FrontInit PROVE FrontOK
  OBVIOUS
<1>2. PICK n \in 0 .. MaxLines : \E lines \in [1 .. n -> FirstLines], rest \in Bodies :
         document \in {<<Fence>> \o lines \o <<Fence>> \o rest, <<Fence>> \o lines, lines}
  BY <1>1 DEF FrontInit
<1>3. PICK lines \in [1 .. n -> FirstLines], rest \in Bodies :
         document \in {<<Fence>> \o lines \o <<Fence>> \o rest, <<Fence>> \o lines, lines}
  BY <1>2
<1>4. lines \in Seq(Lines)
  <2>1. n \in Nat /\ FirstLines \subseteq Lines
    BY LinesAssumption DEF FirstLines, Lines
  <2>2. lines \in [1 .. n -> Lines]
    BY <2>1
  <2>3. QED
    BY <2>1, <2>2
<1>5. rest \in Seq(Lines)
  <2>1. [kind |-> "indented"] \in Others
    BY DEF Others
  <2> DEFINE line == [kind |-> "indented"]
  <2>2. line \in Lines /\ Fence \in Lines
    BY <2>1 DEF Lines
  <2> HIDE DEF line
  <2>3. rest = <<>> \/ rest = <<line, Fence>>
    BY <1>3 DEF Bodies, line
  <2>4. <<line, Fence>> \in Seq(Lines)
    BY <2>2
  <2>5. <<>> \in Seq(Lines)
    BY EmptySeq
  <2>6. QED
    BY <2>3, <2>4, <2>5
<1>6. document \in Seq(Lines)
  <2> DEFINE f == <<Fence>>
             a == f \o lines
             b == a \o f
  <2>1. f \in Seq(Lines)
    BY FenceIsLine
  <2>2. document \in {b \o rest, a, lines}
    BY <1>3
  <2> HIDE DEF f
  <2>3. a \in Seq(Lines)
    BY <1>4, <2>1, ConcatProperties
  <2> HIDE DEF a
  <2>4. b \in Seq(Lines)
    BY <2>1, <2>3, ConcatProperties
  <2> HIDE DEF b
  <2>5. b \o rest \in Seq(Lines)
    BY <1>5, <2>4, ConcatProperties
  <2>6. QED
    BY <1>4, <2>2, <2>3, <2>5
<1>7. edits = 0 /\ edited = NoEdit
  BY <1>1 DEF FrontInit
<1>8. 0 \in 0 .. MaxEdits
  BY LinesAssumption
<1>9. QED
  BY <1>6, <1>7, <1>8 DEF FrontOK, FrontTypeOK, EditsStayInPlace

\* Edits of front matter change what their own property says, and nothing else.
THEOREM FrontSafe == FrontSpec => [](FrontTypeOK /\ EditsStayInPlace)
<1>1. FrontInit => FrontOK
  BY FrontStarts
<1>2. FrontOK /\ [FrontNext]_frontVars => FrontOK'
  <2>1. SUFFICES ASSUME FrontOK, [FrontNext]_frontVars PROVE FrontOK'
    OBVIOUS
  <2>2. CASE FrontNext
    <3>1. PICK edit \in Edits : Edit(edit)
      BY <2>2 DEF FrontNext
    <3>2. QED
      BY <2>1, <3>1, EditKeeps
  <2>3. CASE UNCHANGED frontVars
    BY <2>1, <2>3 DEF frontVars, FrontOK, FrontTypeOK, EditsStayInPlace
  <2>4. QED
    BY <2>1, <2>2, <2>3
<1>3. QED
  BY <1>1, <1>2, PTL DEF FrontSpec, FrontOK

-----------------------------------------------------------------------------
(* Lines of bodies, and blocks. *)

\* Words, texts and blocks of any length.
AnyWord == Words \cup AnyHeader
AnyText == Seq(AnyWord)
BlockKinds == {"heading", "bullet", "number", "paragraph", "code"}
AnyBlock == {b \in [kind: BlockKinds, texts: Seq(AnyText)] : b.texts # <<>>}

\* The last block.
Top(blocks) == IF blocks = <<>> THEN NoBlock ELSE blocks[Len(blocks)]
Scan(b, c, g) == [blocks |-> b, code |-> c, gap |-> g]
\* What a scan can be: code that is open is the last block.
Scans ==
    {scan \in [blocks: Seq(AnyBlock), code: BOOLEAN, gap: BOOLEAN] :
        scan.code => Top(scan.blocks).kind = "code"}

\* A new block, a last block with other texts, and texts with a longer last one.
Opened(blocks, kind, text) == Append(blocks, [kind |-> kind, texts |-> <<text>>])
Longer(blocks, texts) ==
    [blocks EXCEPT ![Len(blocks)] = [kind |-> Top(blocks).kind, texts |-> texts]]
Tailed(texts, text) == [texts EXCEPT ![Len(texts)] = @ \o text]

\* What a line can be.
LEMMA BodyLineKinds ==
    ASSUME NEW line \in BodyLines
    PROVE  /\ line.kind \in {"blank", "fence", "heading", "bullet", "number", "paragraph"}
           /\ line.text \in AnyText
           /\ line.kind \in {"blank", "fence"} => line.text = <<>>
           /\ line.kind = "heading" => \E h \in AnyHeader : line = Heading(h) /\ line.text = <<h>>
           /\ line.kind = "blank" => line = Blank
<1> DEFINE K1 == [kind: {"blank", "fence"}, text: {<<>>}]
           K2 == [kind: {"heading"}, text: {<<h>> : h \in AnyHeader}]
           K3 == [kind: {"bullet", "number", "paragraph"}, text: Text]
<1>1. line \in K1 \/ line \in K2 \/ line \in K3
  BY DEF BodyLines
<1>2. <<>> \in AnyText /\ \A h \in AnyHeader : <<h>> \in AnyText
  BY DEF AnyText, AnyWord
<1>3. Text \subseteq AnyText
  <2>1. Words \subseteq AnyWord
    BY DEF AnyWord
  <2>2. QED
    BY <2>1, SeqMonotonic DEF Text, AnyText
<1> HIDE DEF K1, K2, K3
<1>4. CASE line \in K1
  <2>1. line.kind \in {"blank", "fence"} /\ line.text = <<>> /\ line = [kind |-> line.kind, text |-> line.text]
    BY <1>4 DEF K1
  <2>2. QED
    BY <1>2, <2>1 DEF Blank, Line
<1>5. CASE line \in K2
  <2>1. line.kind = "heading" /\ line = [kind |-> line.kind, text |-> line.text]
        /\ line.text \in {<<h>> : h \in AnyHeader}
    BY <1>5 DEF K2
  <2>2. PICK h \in AnyHeader : line.text = <<h>>
    BY <2>1
  <2>3. line = Heading(h)
    BY <2>1, <2>2 DEF Heading, Line
  <2>4. QED
    BY <1>2, <2>1, <2>2, <2>3
<1>6. CASE line \in K3
  <2>1. line.kind \in {"bullet", "number", "paragraph"} /\ line.text \in Text
    BY <1>6 DEF K3
  <2>2. QED
    BY <1>3, <2>1
<1>7. QED
  BY <1>1, <1>4, <1>5, <1>6

LEMMA LinesAreLines ==
    /\ Blank \in BodyLines /\ Blank.kind = "blank"
    /\ \A h \in AnyHeader : Heading(h) \in BodyLines /\ Heading(h).kind = "heading" /\ Heading(h).text = <<h>>
    /\ \A style \in {"bullet", "number", "paragraph"}, text \in Text :
          /\ Line(style, text) \in BodyLines
          /\ Line(style, text).kind = style /\ Line(style, text).text = text
<1>1. Blank \in BodyLines /\ Blank.kind = "blank"
  BY DEF Blank, Line, BodyLines
<1>2. ASSUME NEW h \in AnyHeader
      PROVE  Heading(h) \in BodyLines /\ Heading(h).kind = "heading" /\ Heading(h).text = <<h>>
  BY DEF Heading, Line, BodyLines
<1>3. ASSUME NEW style \in {"bullet", "number", "paragraph"}, NEW text \in Text
      PROVE  /\ Line(style, text) \in BodyLines
             /\ Line(style, text).kind = style /\ Line(style, text).text = text
  BY DEF Line, BodyLines
<1>4. QED
  BY <1>1, <1>2, <1>3

\* The parts of a scan.
LEMMA ScanFacts ==
    ASSUME NEW scan \in Scans
    PROVE  /\ scan.blocks \in Seq(AnyBlock) /\ scan.code \in BOOLEAN /\ scan.gap \in BOOLEAN
           /\ scan = Scan(scan.blocks, scan.code, scan.gap)
           /\ Len(scan.blocks) \in Nat
           /\ scan.blocks # <<>> => /\ Len(scan.blocks) \in 1 .. Len(scan.blocks)
                                    /\ Top(scan.blocks) = scan.blocks[Len(scan.blocks)]
                                    /\ Top(scan.blocks) \in AnyBlock
                                    /\ Top(scan.blocks).kind \in BlockKinds
                                    /\ Top(scan.blocks).texts \in Seq(AnyText)
                                    /\ Top(scan.blocks).texts # <<>>
           /\ scan.code => scan.blocks # <<>> /\ Top(scan.blocks).kind = "code"
           /\ scan.blocks = <<>> => Top(scan.blocks) = NoBlock /\ Top(scan.blocks).kind = "none"
<1> DEFINE blocks == scan.blocks
<1>1. /\ blocks \in Seq(AnyBlock) /\ scan.code \in BOOLEAN /\ scan.gap \in BOOLEAN
      /\ scan = Scan(scan.blocks, scan.code, scan.gap)
      /\ scan.code => Top(blocks).kind = "code"
  BY DEF Scans, Scan
<1> HIDE DEF blocks
<1>2. Len(blocks) \in Nat /\ (blocks # <<>> => Len(blocks) \in 1 .. Len(blocks))
  BY <1>1, EmptySeq, LenProperties
<1>3. blocks # <<>> => Top(blocks) = blocks[Len(blocks)] /\ Top(blocks) \in AnyBlock
  <2>1. SUFFICES ASSUME blocks # <<>>
                 PROVE  Top(blocks) = blocks[Len(blocks)] /\ Top(blocks) \in AnyBlock
    OBVIOUS
  <2>2. Len(blocks) \in 1 .. Len(blocks) /\ blocks \in Seq(AnyBlock)
    BY <1>1, <1>2, <2>1
  <2>3. blocks[Len(blocks)] \in AnyBlock
    BY <2>2, ElementOfSeq
  <2>4. Top(blocks) = blocks[Len(blocks)]
    BY <2>1 DEF Top
  <2>5. QED
    BY <2>3, <2>4
<1>4. blocks = <<>> => Top(blocks) = NoBlock /\ Top(blocks).kind = "none"
  BY DEF Top, NoBlock
<1>5. Top(blocks) \in AnyBlock => /\ Top(blocks).kind \in BlockKinds
                                  /\ Top(blocks).texts \in Seq(AnyText) /\ Top(blocks).texts # <<>>
  BY DEF AnyBlock
<1>6. blocks # <<>> => /\ Len(blocks) \in 1 .. Len(blocks)
                       /\ Top(blocks) = blocks[Len(blocks)]
                       /\ Top(blocks) \in AnyBlock
                       /\ Top(blocks).kind \in BlockKinds
                       /\ Top(blocks).texts \in Seq(AnyText)
                       /\ Top(blocks).texts # <<>>
  BY <1>2, <1>3, <1>5
<1>7. scan.code => blocks # <<>> /\ Top(blocks).kind = "code"
  <2>1. "code" # "none"
    OBVIOUS
  <2>2. QED
    BY <1>1, <1>4, <2>1, ZenonT(30)
<1>8. QED
  BY <1>1, <1>2, <1>4, <1>6, <1>7, ZenonT(30) DEF blocks

WithCode(scan, v) == [scan EXCEPT !.code = v]
WithGap(scan, v) == [scan EXCEPT !.gap = v]

LEMMA ScanExcept ==
    ASSUME NEW b, NEW c, NEW g, NEW v
    PROVE  /\ WithCode(Scan(b, c, g), v) = Scan(b, v, g)
           /\ WithGap(Scan(b, c, g), v) = Scan(b, c, v)
BY DEF Scan, WithCode, WithGap

\* What one more line does.
LEMMA ObserveIs ==
    ASSUME NEW scan \in Scans, NEW x \in BodyLines
    PROVE  LET B == scan.blocks
               T == Top(scan.blocks)
               new == Observe(scan, x)
           IN  /\ x.kind = "fence" /\ scan.code => new = Scan(B, FALSE, scan.gap)
               /\ x.kind = "fence" /\ ~scan.code => new = Scan(Opened(B, "code", <<>>), TRUE, FALSE)
               /\ x.kind # "fence" /\ scan.code => new = Scan(Longer(B, Tailed(T.texts, x.text)), TRUE, FALSE)
               /\ x.kind = "blank" /\ ~scan.code => new = Scan(B, FALSE, TRUE)
               /\ x.kind = "heading" /\ ~scan.code => new = Scan(Opened(B, "heading", x.text), FALSE, FALSE)
               /\ x.kind \in {"bullet", "number"} /\ ~scan.code /\ T.kind = x.kind =>
                    new = Scan(Longer(B, Append(T.texts, x.text)), FALSE, FALSE)
               /\ x.kind \in {"bullet", "number"} /\ ~scan.code /\ T.kind # x.kind =>
                    new = Scan(Opened(B, x.kind, x.text), FALSE, FALSE)
               /\ x.kind = "paragraph" /\ ~scan.code /\ T.kind \in {"bullet", "number", "paragraph"} /\ ~scan.gap =>
                    new = Scan(Longer(B, Tailed(T.texts, x.text)), FALSE, FALSE)
               /\ x.kind = "paragraph" /\ ~scan.code /\ ~(T.kind \in {"bullet", "number", "paragraph"} /\ ~scan.gap) =>
                    new = Scan(Opened(B, "paragraph", x.text), FALSE, FALSE)
<1> DEFINE B == scan.blocks
           T == Top(B)
           new == Observe(scan, x)
<1>1. scan = Scan(B, scan.code, scan.gap) /\ scan.code \in BOOLEAN
  BY ScanFacts
<1>2. /\ [scan EXCEPT !.code = FALSE] = Scan(B, FALSE, scan.gap)
      /\ ~scan.code => [scan EXCEPT !.gap = TRUE] = Scan(B, FALSE, TRUE)
  <2> DEFINE no == FALSE
             yes == TRUE
  <2> HIDE DEF no, yes
  <2>1. /\ WithCode(Scan(B, scan.code, scan.gap), no) = Scan(B, no, scan.gap)
        /\ WithGap(Scan(B, scan.code, scan.gap), yes) = Scan(B, scan.code, yes)
    BY ScanExcept
  <2>2. ~scan.code => scan.code = FALSE
    BY <1>1
  <2>3. QED
    BY <1>1, <2>1, <2>2 DEF no, yes, WithCode, WithGap
<1>3. ASSUME x.kind = "fence", scan.code PROVE new = Scan(B, FALSE, scan.gap)
  BY <1>2, <1>3 DEF Observe
<1>4. ASSUME x.kind = "fence", ~scan.code PROVE new = Scan(Opened(B, "code", <<>>), TRUE, FALSE)
  BY <1>4 DEF Observe, Scan, Opened
<1>5. ASSUME x.kind # "fence", scan.code
      PROVE  new = Scan(Longer(B, Tailed(T.texts, x.text)), TRUE, FALSE)
  BY <1>1, <1>5 DEF Observe, Scan, Longer, Tailed, Top
<1>6. ASSUME x.kind = "blank", ~scan.code PROVE new = Scan(B, FALSE, TRUE)
  BY <1>2, <1>6 DEF Observe
<1>7. ASSUME x.kind = "heading", ~scan.code
      PROVE  new = Scan(Opened(B, "heading", x.text), FALSE, FALSE)
  BY <1>7 DEF Observe, Scan, Opened
<1>8. ASSUME x.kind \in {"bullet", "number"}, ~scan.code, T.kind = x.kind
      PROVE  new = Scan(Longer(B, Append(T.texts, x.text)), FALSE, FALSE)
  BY <1>1, <1>8 DEF Observe, Scan, Longer, Top
<1>9. ASSUME x.kind \in {"bullet", "number"}, ~scan.code, T.kind # x.kind
      PROVE  new = Scan(Opened(B, x.kind, x.text), FALSE, FALSE)
  BY <1>9 DEF Observe, Scan, Opened, Top
<1>10. ASSUME x.kind = "paragraph", ~scan.code, T.kind \in {"bullet", "number", "paragraph"}, ~scan.gap
       PROVE  new = Scan(Longer(B, Tailed(T.texts, x.text)), FALSE, FALSE)
  BY <1>1, <1>10 DEF Observe, Scan, Longer, Tailed, Top
<1>11. ASSUME x.kind = "paragraph", ~scan.code, ~(T.kind \in {"bullet", "number", "paragraph"} /\ ~scan.gap)
       PROVE  new = Scan(Opened(B, "paragraph", x.text), FALSE, FALSE)
  BY <1>11 DEF Observe, Scan, Opened, Top
<1> HIDE DEF B, T, new
<1>12. /\ x.kind = "fence" /\ scan.code => new = Scan(B, FALSE, scan.gap)
       /\ x.kind = "fence" /\ ~scan.code => new = Scan(Opened(B, "code", <<>>), TRUE, FALSE)
       /\ x.kind # "fence" /\ scan.code => new = Scan(Longer(B, Tailed(T.texts, x.text)), TRUE, FALSE)
       /\ x.kind = "blank" /\ ~scan.code => new = Scan(B, FALSE, TRUE)
       /\ x.kind = "heading" /\ ~scan.code => new = Scan(Opened(B, "heading", x.text), FALSE, FALSE)
  BY <1>3, <1>4, <1>5, <1>6, <1>7
<1>13. /\ x.kind \in {"bullet", "number"} /\ ~scan.code /\ T.kind = x.kind =>
            new = Scan(Longer(B, Append(T.texts, x.text)), FALSE, FALSE)
       /\ x.kind \in {"bullet", "number"} /\ ~scan.code /\ T.kind # x.kind =>
            new = Scan(Opened(B, x.kind, x.text), FALSE, FALSE)
  BY <1>8, <1>9
<1>14. /\ x.kind = "paragraph" /\ ~scan.code /\ T.kind \in {"bullet", "number", "paragraph"} /\ ~scan.gap =>
            new = Scan(Longer(B, Tailed(T.texts, x.text)), FALSE, FALSE)
       /\ x.kind = "paragraph" /\ ~scan.code /\ ~(T.kind \in {"bullet", "number", "paragraph"} /\ ~scan.gap) =>
            new = Scan(Opened(B, "paragraph", x.text), FALSE, FALSE)
  BY <1>10, <1>11
<1>15. QED
  BY <1>12, <1>13, <1>14 DEF B, T, new

BlockOf(kind, texts) == [kind |-> kind, texts |-> texts]

\* A block is its kind and its texts.
LEMMA BlockOfFacts ==
    ASSUME NEW kind \in BlockKinds, NEW texts \in Seq(AnyText), texts # <<>>
    PROVE  /\ BlockOf(kind, texts) \in AnyBlock
           /\ BlockOf(kind, texts).kind = kind /\ BlockOf(kind, texts).texts = texts
BY DEF BlockOf, AnyBlock

LEMMA AnyBlockFacts ==
    ASSUME NEW b \in AnyBlock
    PROVE  /\ b.kind \in BlockKinds /\ b.texts \in Seq(AnyText) /\ b.texts # <<>>
           /\ b = BlockOf(b.kind, b.texts)
BY DEF BlockOf, AnyBlock

LEMMA OneText ==
    ASSUME NEW text \in AnyText
    PROVE  <<text>> \in Seq(AnyText) /\ <<text>> # <<>>
OBVIOUS

LEMMA TopFacts ==
    ASSUME NEW blocks \in Seq(AnyBlock), blocks # <<>>
    PROVE  /\ Len(blocks) \in Nat /\ Len(blocks) \in 1 .. Len(blocks)
           /\ Top(blocks) = blocks[Len(blocks)] /\ Top(blocks) \in AnyBlock
<1>1. Len(blocks) \in Nat /\ Len(blocks) \in 1 .. Len(blocks)
  BY EmptySeq, LenProperties
<1>2. blocks[Len(blocks)] \in AnyBlock
  BY <1>1, ElementOfSeq
<1>3. QED
  BY <1>1, <1>2 DEF Top

\* What one more block, or a longer one, does to the last one.
LEMMA OpenedFacts ==
    ASSUME NEW blocks \in Seq(AnyBlock), NEW kind \in BlockKinds, NEW text \in AnyText
    PROVE  /\ Opened(blocks, kind, text) \in Seq(AnyBlock) /\ Opened(blocks, kind, text) # <<>>
           /\ Opened(blocks, kind, text) = Append(blocks, BlockOf(kind, <<text>>))
           /\ Opened(blocks, kind, text) = blocks \o <<BlockOf(kind, <<text>>)>>
           /\ BlockOf(kind, <<text>>) \in AnyBlock
           /\ Top(Opened(blocks, kind, text)) = BlockOf(kind, <<text>>)
           /\ Top(Opened(blocks, kind, text)).kind = kind
<1> DEFINE new == Opened(blocks, kind, text)
           b == BlockOf(kind, <<text>>)
<1>1. b \in AnyBlock /\ b.kind = kind
  BY OneText, BlockOfFacts
<1>2. new = Append(blocks, b)
  BY DEF Opened, BlockOf
<1> HIDE DEF b, new
<1>3. /\ Append(blocks, b) \in Seq(AnyBlock)
      /\ Len(Append(blocks, b)) = Len(blocks) + 1
      /\ Append(blocks, b)[Len(blocks) + 1] = b
      /\ Len(blocks) \in Nat
  BY <1>1, AppendProperties, LenProperties
<1>4. new # <<>>
  BY <1>2, <1>3, EmptySeq
<1>5. Top(new) = b
  BY <1>2, <1>3, <1>4 DEF Top
<1>6. Append(blocks, b) = blocks \o <<b>>
  BY <1>1, AppendIsConcat
<1>7. QED
  BY <1>1, <1>2, <1>3, <1>4, <1>5, <1>6 DEF b, new

LEMMA LongerFacts ==
    ASSUME NEW blocks \in Seq(AnyBlock), blocks # <<>>,
           NEW texts \in Seq(AnyText), texts # <<>>
    PROVE  /\ Longer(blocks, texts) \in Seq(AnyBlock) /\ Longer(blocks, texts) # <<>>
           /\ Len(Longer(blocks, texts)) = Len(blocks)
           /\ \A i \in 1 .. Len(blocks) : Longer(blocks, texts)[i] =
                IF i = Len(blocks) THEN BlockOf(Top(blocks).kind, texts) ELSE blocks[i]
           /\ BlockOf(Top(blocks).kind, texts) \in AnyBlock
           /\ Top(Longer(blocks, texts)) = BlockOf(Top(blocks).kind, texts)
           /\ Top(Longer(blocks, texts)).kind = Top(blocks).kind
<1> DEFINE n == Len(blocks)
           b == BlockOf(Top(blocks).kind, texts)
           new == Longer(blocks, texts)
<1>1. n \in Nat /\ n \in 1 .. n /\ Top(blocks) \in AnyBlock
  BY TopFacts
<1>2. b \in AnyBlock /\ b.kind = Top(blocks).kind
  BY <1>1, AnyBlockFacts, BlockOfFacts
<1>3. new = [blocks EXCEPT ![n] = b]
  BY DEF Longer, BlockOf
<1> HIDE DEF n, b, new
<1>4. blocks \in [1 .. n -> AnyBlock]
  BY LenProperties DEF n
<1>5. new \in [1 .. n -> AnyBlock]
  BY <1>2, <1>3, <1>4
<1>6. \A i \in 1 .. n : new[i] = IF i = n THEN b ELSE blocks[i]
  BY <1>3, <1>4
<1>7. new \in Seq(AnyBlock) /\ Len(new) = n
  BY <1>1, <1>5
<1>8. new # <<>>
  BY <1>1, <1>7, EmptySeq
<1>9. Top(new) = b
  BY <1>1, <1>6, <1>7, <1>8 DEF Top
<1>10. QED
  BY <1>2, <1>6, <1>7, <1>8, <1>9 DEF n, b, new

LEMMA TailedFacts ==
    ASSUME NEW texts \in Seq(AnyText), texts # <<>>, NEW text \in AnyText
    PROVE  Tailed(texts, text) \in Seq(AnyText) /\ Tailed(texts, text) # <<>>
<1> DEFINE n == Len(texts)
           last == texts[n] \o text
           new == Tailed(texts, text)
<1>1. n \in Nat /\ n \in 1 .. n
  BY EmptySeq, LenProperties
<1>2. texts[n] \in AnyText
  BY <1>1, ElementOfSeq
<1>3. last \in AnyText
  BY <1>2, ConcatProperties DEF AnyText
<1>4. texts \in [1 .. n -> AnyText]
  BY LenProperties
<1>5. new = [texts EXCEPT ![n] = last]
  BY DEF Tailed
<1> HIDE DEF n, last, new
<1>6. new \in [1 .. n -> AnyText]
  BY <1>3, <1>4, <1>5
<1>7. new \in Seq(AnyText) /\ Len(new) = n
  BY <1>1, <1>6
<1>8. new # <<>>
  BY <1>1, <1>7, EmptySeq
<1>9. QED
  BY <1>7, <1>8 DEF new

LEMMA MoreFacts ==
    ASSUME NEW texts \in Seq(AnyText), NEW text \in AnyText
    PROVE  Append(texts, text) \in Seq(AnyText) /\ Append(texts, text) # <<>>
<1>1. /\ Append(texts, text) \in Seq(AnyText) /\ Len(Append(texts, text)) = Len(texts) + 1
      /\ Len(texts) \in Nat
  BY AppendProperties, LenProperties
<1> DEFINE new == Append(texts, text)
<1> HIDE DEF new
<1>2. new # <<>>
  BY <1>1, EmptySeq DEF new
<1>3. QED
  BY <1>1, <1>2 DEF new

\* What a line can do to the blocks.
Same(scan, new) == new.blocks = scan.blocks
Opens(scan, new, x) ==
    \E kind \in BlockKinds, text \in AnyText :
        /\ new.blocks = Opened(scan.blocks, kind, text)
        /\ kind = "heading" <=> x.kind = "heading" /\ ~scan.code
        /\ kind = "heading" => text = x.text
GoesOn(scan, new) ==
    \E texts \in Seq(AnyText) :
        /\ texts # <<>> /\ scan.blocks # <<>> /\ Top(scan.blocks).kind # "heading"
        /\ new.blocks = Longer(scan.blocks, texts)

LEMMA ScanType ==
    ASSUME NEW b \in Seq(AnyBlock), NEW c \in BOOLEAN, NEW g \in BOOLEAN,
           c = TRUE => Top(b).kind = "code"
    PROVE  /\ Scan(b, c, g) \in Scans
           /\ Scan(b, c, g).blocks = b /\ Scan(b, c, g).code = c /\ Scan(b, c, g).gap = g
BY DEF Scan, Scans

\* A line opens a block, goes on with the last one that is no heading, or does
\* neither; only a heading outside of code opens a heading.
LEMMA ObserveForms ==
    ASSUME NEW scan \in Scans, NEW x \in BodyLines
    PROVE  /\ Observe(scan, x) \in Scans
           /\ \/ x.kind # "heading" /\ Same(scan, Observe(scan, x))
              \/ Opens(scan, Observe(scan, x), x)
              \/ (x.kind # "heading" \/ scan.code) /\ GoesOn(scan, Observe(scan, x))
           /\ Observe(scan, x).code = (IF x.kind = "fence" THEN ~scan.code ELSE scan.code)
<1> DEFINE B == scan.blocks
           T == Top(B)
           new == Observe(scan, x)
<1>1. /\ B \in Seq(AnyBlock) /\ scan.code \in BOOLEAN /\ scan.gap \in BOOLEAN
      /\ B # <<>> => T.kind \in BlockKinds /\ T.texts \in Seq(AnyText) /\ T.texts # <<>>
      /\ scan.code => B # <<>> /\ T.kind = "code"
      /\ B = <<>> => T.kind = "none"
  BY ScanFacts
<1>2. /\ x.kind \in {"blank", "fence", "heading", "bullet", "number", "paragraph"}
      /\ x.text \in AnyText /\ <<>> \in AnyText
  BY BodyLineKinds, EmptySeq DEF AnyText
<1> HIDE DEF B, T, new
<1>3. CASE x.kind = "fence" /\ scan.code
  <2>1. new = Scan(B, FALSE, scan.gap)
    BY <1>3, ObserveIs DEF new, B
  <2>2. new \in Scans /\ new.blocks = B /\ new.code = FALSE
    BY <1>1, <2>1, ScanType
  <2>3. QED
    BY <1>1, <1>3, <2>2 DEF Same, new, B
<1>4. CASE x.kind = "fence" /\ ~scan.code
  <2>1. new = Scan(Opened(B, "code", <<>>), TRUE, FALSE)
    BY <1>4, ObserveIs DEF new, B
  <2>2. "code" \in BlockKinds
    BY DEF BlockKinds
  <2>3. Opened(B, "code", <<>>) \in Seq(AnyBlock) /\ Top(Opened(B, "code", <<>>)).kind = "code"
    BY <1>1, <1>2, <2>2, OpenedFacts
  <2>4. new \in Scans /\ new.blocks = Opened(B, "code", <<>>) /\ new.code = TRUE
    BY <2>1, <2>3, ScanType
  <2>5. Opens(scan, new, x)
    BY <1>2, <1>4, <2>2, <2>4 DEF Opens, B
  <2>6. QED
    BY <1>1, <1>4, <2>4, <2>5 DEF new
<1>5. CASE x.kind # "fence" /\ scan.code
  <2> DEFINE texts == Tailed(T.texts, x.text)
  <2>1. new = Scan(Longer(B, texts), TRUE, FALSE)
    BY <1>5, ObserveIs DEF new, B, T
  <2>2. texts \in Seq(AnyText) /\ texts # <<>> /\ B # <<>>
    BY <1>1, <1>2, <1>5, TailedFacts
  <2> HIDE DEF texts
  <2>3. Longer(B, texts) \in Seq(AnyBlock) /\ Top(Longer(B, texts)).kind = "code"
    BY <1>1, <1>5, <2>2, LongerFacts DEF T
  <2>4. new \in Scans /\ new.blocks = Longer(B, texts) /\ new.code = TRUE
    BY <2>1, <2>3, ScanType
  <2>5. GoesOn(scan, new)
    BY <1>1, <1>5, <2>2, <2>4 DEF GoesOn, B, T
  <2>6. QED
    BY <1>1, <1>5, <2>4, <2>5 DEF new
<1>6. CASE x.kind = "blank" /\ ~scan.code
  <2>1. new = Scan(B, FALSE, TRUE)
    BY <1>6, ObserveIs DEF new, B
  <2>2. new \in Scans /\ new.blocks = B /\ new.code = FALSE
    BY <1>1, <2>1, ScanType
  <2>3. QED
    BY <1>1, <1>6, <2>2 DEF Same, new, B
<1>7. ASSUME NEW kind \in BlockKinds, ~scan.code, kind = "heading" <=> x.kind = "heading", kind # "code",
             new = Scan(Opened(B, kind, x.text), FALSE, FALSE), x.kind # "fence"
      PROVE  new \in Scans /\ Opens(scan, new, x) /\ new.code = FALSE
  <2>1. Opened(B, kind, x.text) \in Seq(AnyBlock)
    BY <1>1, <1>2, OpenedFacts
  <2>2. new \in Scans /\ new.blocks = Opened(B, kind, x.text) /\ new.code = FALSE
    BY <1>7, <2>1, ScanType
  <2>3. Opens(scan, new, x)
    BY <1>2, <1>7, <2>2 DEF Opens, B
  <2>4. QED
    BY <2>2, <2>3
<1>8. ASSUME NEW texts \in Seq(AnyText), texts # <<>>, ~scan.code, B # <<>>, T.kind # "heading",
             new = Scan(Longer(B, texts), FALSE, FALSE)
      PROVE  new \in Scans /\ GoesOn(scan, new) /\ new.code = FALSE
  <2>1. Longer(B, texts) \in Seq(AnyBlock)
    BY <1>1, <1>8, LongerFacts
  <2>2. new \in Scans /\ new.blocks = Longer(B, texts) /\ new.code = FALSE
    BY <1>8, <2>1, ScanType
  <2>3. GoesOn(scan, new)
    BY <1>8, <2>2 DEF GoesOn, B, T
  <2>4. QED
    BY <2>2, <2>3
<1>9. CASE x.kind = "heading" /\ ~scan.code
  <2>1. new = Scan(Opened(B, "heading", x.text), FALSE, FALSE)
    BY <1>9, ObserveIs DEF new, B
  <2>2. "heading" \in BlockKinds
    BY DEF BlockKinds
  <2>3. new \in Scans /\ Opens(scan, new, x) /\ new.code = FALSE
    BY <1>7, <1>9, <2>1, <2>2
  <2>4. QED
    BY <1>1, <1>9, <2>3 DEF new
<1>10. CASE x.kind \in {"bullet", "number"} /\ ~scan.code /\ T.kind = x.kind
  <2>1. new = Scan(Longer(B, Append(T.texts, x.text)), FALSE, FALSE)
    BY <1>10, ObserveIs DEF new, B, T
  <2>2. B # <<>> /\ T.kind # "heading" /\ T.texts \in Seq(AnyText)
    BY <1>1, <1>10
  <2>3. Append(T.texts, x.text) \in Seq(AnyText) /\ Append(T.texts, x.text) # <<>>
    BY <1>2, <2>2, MoreFacts
  <2>4. new \in Scans /\ GoesOn(scan, new) /\ new.code = FALSE
    BY <1>8, <1>10, <2>1, <2>2, <2>3
  <2>5. QED
    BY <1>1, <1>10, <2>4 DEF new
<1>11. CASE x.kind \in {"bullet", "number"} /\ ~scan.code /\ T.kind # x.kind
  <2>1. new = Scan(Opened(B, x.kind, x.text), FALSE, FALSE)
    BY <1>11, ObserveIs DEF new, B, T
  <2>2. x.kind \in BlockKinds
    BY <1>11 DEF BlockKinds
  <2>3. new \in Scans /\ Opens(scan, new, x) /\ new.code = FALSE
    BY <1>7, <1>11, <2>1, <2>2
  <2>4. QED
    BY <1>1, <1>11, <2>3 DEF new
<1>12. CASE x.kind = "paragraph" /\ ~scan.code /\ T.kind \in {"bullet", "number", "paragraph"} /\ ~scan.gap
  <2>1. new = Scan(Longer(B, Tailed(T.texts, x.text)), FALSE, FALSE)
    BY <1>12, ObserveIs DEF new, B, T
  <2>2. B # <<>> /\ T.kind # "heading" /\ T.texts \in Seq(AnyText) /\ T.texts # <<>>
    BY <1>1, <1>12
  <2>3. Tailed(T.texts, x.text) \in Seq(AnyText) /\ Tailed(T.texts, x.text) # <<>>
    BY <1>2, <2>2, TailedFacts
  <2>4. new \in Scans /\ GoesOn(scan, new) /\ new.code = FALSE
    BY <1>8, <1>12, <2>1, <2>2, <2>3
  <2>5. QED
    BY <1>1, <1>12, <2>4 DEF new
<1>13. CASE x.kind = "paragraph" /\ ~scan.code /\ ~(T.kind \in {"bullet", "number", "paragraph"} /\ ~scan.gap)
  <2>1. new = Scan(Opened(B, "paragraph", x.text), FALSE, FALSE)
    BY <1>13, ObserveIs DEF new, B, T
  <2>2. "paragraph" \in BlockKinds
    BY DEF BlockKinds
  <2>3. new \in Scans /\ Opens(scan, new, x) /\ new.code = FALSE
    BY <1>7, <1>13, <2>1, <2>2
  <2>4. QED
    BY <1>1, <1>13, <2>3 DEF new
<1>14. QED
  BY <1>2, <1>3, <1>4, <1>5, <1>6, <1>9, <1>10, <1>11, <1>12, <1>13

-----------------------------------------------------------------------------
(* Code, line by line. *)

\* A fence opens code or closes it.
CodeStep(f, lines, m) == f[m] = (IF lines[m].kind = "fence" THEN ~f[m - 1] ELSE f[m - 1])

IsOpen(f, lines, i) ==
    f = [n \in 0 .. i - 1 |->
          IF n = 0 THEN FALSE ELSE IF lines[n].kind = "fence" THEN ~f[n - 1] ELSE f[n - 1]]

\* Code, as the steps of a function.
LEMMA InCodeIs ==
    ASSUME NEW lines, NEW i \in Nat, i > 0
    PROVE  \E f \in [0 .. i - 1 -> BOOLEAN] :
              /\ f[0] = FALSE
              /\ \A m \in 1 .. i - 1 : CodeStep(f, lines, m)
              /\ InCode(lines, i) = f[i - 1]
<1> DEFINE n == i - 1
           step == [pair \in (1 .. n) \X BOOLEAN |->
                      IF lines[pair[1]].kind = "fence" THEN ~pair[2] ELSE pair[2]]
<1>1. n \in Nat
  OBVIOUS
<1>2. step \in [(1 .. n) \X BOOLEAN -> BOOLEAN]
  OBVIOUS
<1>3. \A m \in 1 .. n, a \in BOOLEAN : step[<<m, a>>] = (IF lines[m].kind = "fence" THEN ~a ELSE a)
  OBVIOUS
<1> HIDE DEF step, n
<1>4. FALSE \in BOOLEAN
  OBVIOUS
<1>5. PICK f \in [0 .. n -> BOOLEAN] : StepsFrom(f, FALSE, n, step)
  BY <1>1, <1>2, <1>4, StepsExist
<1>6. f[0] = FALSE
  BY <1>5 DEF StepsFrom
<1>7. ASSUME NEW m \in 1 .. n
      PROVE  CodeStep(f, lines, m)
  <2>1. m - 1 \in 0 .. n
    BY <1>1
  <2>2. f[m - 1] \in BOOLEAN
    BY <2>1
  <2>3. f[m] = step[<<m, f[m - 1]>>]
    BY <1>5 DEF StepsFrom
  <2>4. QED
    BY <1>3, <2>2, <2>3, ZenonT(30) DEF CodeStep
<1>8. ASSUME NEW m \in 0 .. n
      PROVE  f[m] = (IF m = 0 THEN FALSE ELSE IF lines[m].kind = "fence" THEN ~f[m - 1] ELSE f[m - 1])
  <2>1. CASE m = 0
    BY <1>6, <2>1
  <2>2. CASE m # 0
    <3>1. m \in 1 .. n
      BY <1>1, <2>2
    <3>2. CodeStep(f, lines, m)
      BY <1>7, <3>1
    <3>3. QED
      BY <2>2, <3>2, ZenonT(30) DEF CodeStep
  <2>3. QED
    BY <2>1, <2>2
<1> DEFINE value(m) == IF m = 0 THEN FALSE ELSE IF lines[m].kind = "fence" THEN ~f[m - 1] ELSE f[m - 1]
<1>9. IsOpen(f, lines, i)
  <2>1. \A m \in 0 .. n : f[m] = value(m)
    BY <1>8
  <2> HIDE DEF value
  <2>2. f = [m \in 0 .. n |-> value(m)]
    BY <2>1
  <2>3. QED
    BY <2>2 DEF IsOpen, value, n
<1> DEFINE chosen == CHOOSE g : IsOpen(g, lines, i)
<1>10. IsOpen(chosen, lines, i)
  BY <1>9
<1>11. InCode(lines, i) = chosen[n]
  BY DEF InCode, IsOpen, n
<1> HIDE DEF chosen
<1>12. \A m \in 0 .. n : chosen[m] =
          (IF m = 0 THEN FALSE ELSE IF lines[m].kind = "fence" THEN ~chosen[m - 1] ELSE chosen[m - 1])
  BY <1>10 DEF IsOpen, n
<1>13. chosen[0] = FALSE
  <2>1. 0 \in 0 .. n
    BY <1>1
  <2>2. QED
    BY <1>12, <2>1, ZenonT(30)
<1>14. ASSUME NEW m \in 1 .. n
       PROVE  CodeStep(chosen, lines, m)
  <2>1. m \in 0 .. n /\ m # 0
    BY <1>1
  <2>2. QED
    BY <1>12, <2>1, ZenonT(30) DEF CodeStep
<1>15. Alike(f, chosen, n)
  <2>1. ASSUME NEW m \in 1 .. n, f[m - 1] = chosen[m - 1]
        PROVE  f[m] = chosen[m]
    BY <1>7, <1>14, <2>1, ZenonT(30) DEF CodeStep
  <2>2. QED
    BY <1>6, <1>13, <2>1, ZenonT(30) DEF Alike
<1>16. f[n] = chosen[n]
  <2>1. n \in 0 .. n
    BY <1>1
  <2>2. QED
    BY <1>1, <1>15, <2>1, StepsAgree
<1>17. InCode(lines, i) = f[n]
  BY <1>11, <1>16
<1>18. QED
  BY <1>6, <1>7, <1>17 DEF n

LEMMA InCodeFirst == \A lines : InCode(lines, 1) = FALSE
<1>1. SUFFICES ASSUME NEW lines PROVE InCode(lines, 1) = FALSE
  OBVIOUS
<1> DEFINE one == 1
<1>2. one \in Nat /\ one > 0 /\ one - 1 = 0
  OBVIOUS
<1> HIDE DEF one
<1>3. PICK f \in [0 .. one - 1 -> BOOLEAN] : f[0] = FALSE /\ InCode(lines, one) = f[one - 1]
  BY <1>2, InCodeIs
<1>4. InCode(lines, one) = FALSE
  BY <1>2, <1>3
<1>5. QED
  BY <1>4 DEF one

\* Only the lines above count.
LEMMA InCodeAgree ==
    ASSUME NEW one, NEW other, NEW i \in Nat, i > 0, \A m \in 1 .. i - 1 : one[m] = other[m]
    PROVE  InCode(one, i) = InCode(other, i)
<1>1. PICK f \in [0 .. i - 1 -> BOOLEAN] :
         /\ f[0] = FALSE /\ \A m \in 1 .. i - 1 : CodeStep(f, one, m)
         /\ InCode(one, i) = f[i - 1]
  BY InCodeIs
<1>2. PICK g \in [0 .. i - 1 -> BOOLEAN] :
         /\ g[0] = FALSE /\ \A m \in 1 .. i - 1 : CodeStep(g, other, m)
         /\ InCode(other, i) = g[i - 1]
  BY InCodeIs
<1> DEFINE n == i - 1
<1>3. n \in Nat /\ n \in 0 .. n
  OBVIOUS
<1>4. ASSUME NEW m \in 1 .. n, f[m - 1] = g[m - 1]
      PROVE  f[m] = g[m]
  <2>1. CodeStep(f, one, m) /\ CodeStep(g, other, m) /\ one[m] = other[m]
    BY <1>1, <1>2
  <2>2. QED
    BY <1>4, <2>1, ZenonT(30) DEF CodeStep
<1>5. Alike(f, g, n)
  BY <1>1, <1>2, <1>4, ZenonT(30) DEF Alike
<1> HIDE DEF n
<1>6. f[n] = g[n]
  BY <1>3, <1>5, StepsAgree
<1>7. QED
  BY <1>1, <1>2, <1>6 DEF n

\* Whether a line is in code depends on the line above it.
LEMMA InCodeNext ==
    ASSUME NEW lines, NEW i \in Nat, i > 0
    PROVE  InCode(lines, i + 1) = (IF lines[i].kind = "fence" THEN ~InCode(lines, i) ELSE InCode(lines, i))
<1>1. PICK f \in [0 .. i - 1 -> BOOLEAN] :
         /\ f[0] = FALSE /\ \A m \in 1 .. i - 1 : CodeStep(f, lines, m)
         /\ InCode(lines, i) = f[i - 1]
  BY InCodeIs
<1>2. (i + 1) - 1 = i /\ i + 1 \in Nat /\ i + 1 > 0 /\ i \in 1 .. i
  OBVIOUS
<1>3. PICK g \in [0 .. (i + 1) - 1 -> BOOLEAN] :
         /\ g[0] = FALSE /\ \A m \in 1 .. (i + 1) - 1 : CodeStep(g, lines, m)
         /\ InCode(lines, i + 1) = g[(i + 1) - 1]
  BY <1>2, InCodeIs
<1> DEFINE n == i - 1
<1>4. n \in Nat /\ n \in 0 .. n /\ \A m \in 1 .. n : m \in 1 .. i
  OBVIOUS
<1>51. \A m \in 1 .. n : CodeStep(f, lines, m) /\ CodeStep(g, lines, m)
  BY <1>1, <1>2, <1>3, <1>4
<1> HIDE DEF n
<1>5. ASSUME NEW m \in 1 .. n, f[m - 1] = g[m - 1]
      PROVE  f[m] = g[m]
  <2>1. CodeStep(f, lines, m) /\ CodeStep(g, lines, m)
    BY <1>51
  <2> DEFINE a == f[m]
             b == g[m]
             c == f[m - 1]
             d == g[m - 1]
  <2>2. /\ a = (IF lines[m].kind = "fence" THEN ~c ELSE c)
        /\ b = (IF lines[m].kind = "fence" THEN ~d ELSE d)
        /\ c = d
    BY <1>5, <2>1 DEF CodeStep
  <2> HIDE DEF a, b, c, d
  <2>3. a = b
    BY <2>2
  <2>4. QED
    BY <2>3 DEF a, b
<1>6. Alike(f, g, n)
  BY <1>1, <1>3, <1>5, ZenonT(30) DEF Alike
<1>7. CodeStep(g, lines, i)
  BY <1>2, <1>3
<1>8. InCode(lines, i + 1) = g[i]
  BY <1>2, <1>3
<1>9. f[n] = g[n]
  BY <1>4, <1>6, StepsAgree
<1>10. InCode(lines, i) = g[i - 1]
  BY <1>1, <1>9 DEF n
<1>11. QED
  BY <1>7, <1>8, <1>10, ZenonT(30) DEF CodeStep

-----------------------------------------------------------------------------
(* Scans, line by line. *)

\* The function that Scanned defines.
IsScan(f, lines) ==
    f = [n \in 0 .. Len(lines) |-> IF n = 0 THEN NothingScanned ELSE Observe(f[n - 1], lines[n])]

LEMMA NothingScannedIs ==
    /\ NothingScanned \in Scans /\ NothingScanned = Scan(<<>>, FALSE, FALSE)
    /\ NothingScanned.blocks = <<>> /\ NothingScanned.code = FALSE
<1> DEFINE none == <<>>
<1>1. none \in Seq(AnyBlock)
  BY EmptySeq
<1>2. NothingScanned = Scan(none, FALSE, FALSE)
  BY DEF NothingScanned, Scan
<1> HIDE DEF none
<1>3. Scan(none, FALSE, FALSE) \in Scans /\ Scan(none, FALSE, FALSE).blocks = none
      /\ Scan(none, FALSE, FALSE).code = FALSE
  BY <1>1, ScanType
<1>4. QED
  BY <1>2, <1>3 DEF none

\* A scan, as the steps of a function.
LEMMA ScannedIs ==
    ASSUME NEW lines \in Seq(BodyLines)
    PROVE  \E f \in [0 .. Len(lines) -> Scans] :
              /\ f[0] = NothingScanned
              /\ \A m \in 1 .. Len(lines) : f[m] = Observe(f[m - 1], lines[m])
              /\ Scanned(lines) = f[Len(lines)]
<1> DEFINE n == Len(lines)
           step == [pair \in (1 .. n) \X Scans |-> Observe(pair[2], lines[pair[1]])]
<1>1. n \in Nat /\ \A m \in 1 .. n : lines[m] \in BodyLines
  BY LenProperties, ElementOfSeq
<1>2. \A m \in 1 .. n, a \in Scans : Observe(a, lines[m]) \in Scans
  BY <1>1, ObserveForms
<1>3. step \in [(1 .. n) \X Scans -> Scans]
  BY <1>2
<1>4. \A m \in 1 .. n, a \in Scans : step[<<m, a>>] = Observe(a, lines[m])
  OBVIOUS
<1> HIDE DEF step, n
<1>5. PICK f \in [0 .. n -> Scans] : StepsFrom(f, NothingScanned, n, step)
  BY <1>1, <1>3, NothingScannedIs, StepsExist
<1>6. f[0] = NothingScanned /\ \A m \in 1 .. n : f[m] = Observe(f[m - 1], lines[m])
  <2>1. \A m \in 1 .. n : m - 1 \in 0 .. n
    BY <1>1
  <2>2. QED
    BY <1>4, <1>5, <2>1 DEF StepsFrom
<1>7. ASSUME NEW m \in 0 .. n
      PROVE  f[m] = IF m = 0 THEN NothingScanned ELSE Observe(f[m - 1], lines[m])
  <2>1. m = 0 \/ m \in 1 .. n
    BY <1>1
  <2>2. QED
    BY <1>6, <2>1
<1>8. IsScan(f, lines)
  BY <1>7 DEF IsScan, n
<1> DEFINE chosen == CHOOSE g : IsScan(g, lines)
<1>9. IsScan(chosen, lines)
  BY <1>8
<1>10. Scanned(lines) = chosen[n]
  BY DEF Scanned, IsScan, n
<1> HIDE DEF chosen
<1>11. \A m \in 0 .. n : chosen[m] = IF m = 0 THEN NothingScanned ELSE Observe(chosen[m - 1], lines[m])
  BY <1>9 DEF IsScan, n
<1>12. chosen[0] = NothingScanned /\ \A m \in 1 .. n : chosen[m] = Observe(chosen[m - 1], lines[m])
  <2>1. 0 \in 0 .. n /\ \A m \in 1 .. n : m \in 0 .. n /\ m # 0
    BY <1>1
  <2>2. QED
    BY <1>11, <2>1, ZenonT(30)
<1>13. Alike(f, chosen, n)
  BY <1>6, <1>12, ZenonT(30) DEF Alike
<1>14. f[n] = chosen[n]
  <2>1. n \in 0 .. n
    BY <1>1
  <2>2. QED
    BY <1>1, <1>13, <2>1, StepsAgree
<1>15. QED
  BY <1>6, <1>10, <1>14 DEF n

LEMMA ScannedNone == Scanned(<<>>) = NothingScanned
<1> DEFINE none == <<>>
<1>1. none \in Seq(BodyLines) /\ Len(none) = 0
  BY EmptySeq
<1> HIDE DEF none
<1>2. PICK f \in [0 .. Len(none) -> Scans] : f[0] = NothingScanned /\ Scanned(none) = f[Len(none)]
  BY <1>1, ScannedIs
<1>3. QED
  BY <1>1, <1>2 DEF none

LEMMA ScannedType ==
    ASSUME NEW lines \in Seq(BodyLines)
    PROVE  /\ Scanned(lines) \in Scans
           /\ Blocks(lines) = Scanned(lines).blocks /\ Blocks(lines) \in Seq(AnyBlock)
<1>1. PICK f \in [0 .. Len(lines) -> Scans] : Scanned(lines) = f[Len(lines)]
  BY ScannedIs
<1>2. Len(lines) \in 0 .. Len(lines)
  BY LenProperties
<1>3. Scanned(lines) \in Scans
  BY <1>1, <1>2
<1>4. QED
  BY <1>3, ScanFacts DEF Blocks

\* One more line is observed after the others.
LEMMA ScannedMore ==
    ASSUME NEW lines \in Seq(BodyLines), NEW x \in BodyLines
    PROVE  Scanned(Append(lines, x)) = Observe(Scanned(lines), x)
<1> DEFINE n == Len(lines)
           more == Append(lines, x)
<1>1. /\ n \in Nat /\ more \in Seq(BodyLines) /\ Len(more) = n + 1
      /\ \A i \in 1 .. n : more[i] = lines[i]
      /\ more[n + 1] = x
  BY AppendProperties, LenProperties
<1>2. PICK f \in [0 .. n -> Scans] :
         /\ f[0] = NothingScanned
         /\ \A m \in 1 .. n : f[m] = Observe(f[m - 1], lines[m])
         /\ Scanned(lines) = f[n]
  BY ScannedIs
<1> HIDE DEF n, more
<1>3. PICK g \in [0 .. Len(more) -> Scans] :
         /\ g[0] = NothingScanned
         /\ \A m \in 1 .. Len(more) : g[m] = Observe(g[m - 1], more[m])
         /\ Scanned(more) = g[Len(more)]
  BY <1>1, ScannedIs
<1>4. f[n] = g[n]
  <2>1. \A m \in 1 .. n : m \in 1 .. Len(more) /\ more[m] = lines[m]
    BY <1>1
  <2>2. Alike(f, g, n)
    BY <1>2, <1>3, <2>1, ZenonT(30) DEF Alike
  <2>3. n \in Nat /\ n \in 0 .. n
    BY <1>1
  <2>4. QED
    BY <2>2, <2>3, StepsAgree
<1>5. g[n + 1] = Observe(g[n], x)
  <2>1. n + 1 \in 1 .. Len(more) /\ (n + 1) - 1 = n
    BY <1>1
  <2>2. QED
    BY <1>1, <1>3, <2>1
<1>6. QED
  BY <1>1, <1>2, <1>3, <1>4, <1>5 DEF more

\* A body ends in code when its scan does.
LEMMA CodeIs ==
    ASSUME NEW lines \in Seq(BodyLines)
    PROVE  EndsInCode(lines) <=> Scanned(lines).code
<1> DEFINE G == {l \in Seq(BodyLines) : EndsInCode(l) = Scanned(l).code}
<1>1. <<>> \in G
  <2> DEFINE none == <<>>
  <2>1. none \in Seq(BodyLines) /\ Len(none) = 0
    BY EmptySeq
  <2>2. Scanned(none).code = FALSE
    BY ScannedNone, NothingScannedIs
  <2> HIDE DEF none
  <2>3. EndsInCode(none) = InCode(none, 1)
    BY <2>1 DEF EndsInCode
  <2>4. EndsInCode(none) = Scanned(none).code
    BY <2>2, <2>3, InCodeFirst
  <2>5. QED
    BY <2>1, <2>4 DEF none
<1>2. ASSUME NEW l \in G, NEW x \in BodyLines
      PROVE  Append(l, x) \in G
  <2> DEFINE n == Len(l)
             more == Append(l, x)
  <2>1. /\ l \in Seq(BodyLines) /\ EndsInCode(l) = Scanned(l).code
    OBVIOUS
  <2>2. /\ n \in Nat /\ more \in Seq(BodyLines) /\ Len(more) = n + 1
        /\ \A i \in 1 .. n : more[i] = l[i]
        /\ more[n + 1] = x
    BY <2>1, AppendProperties, LenProperties
  <2>3. Scanned(more).code = (IF x.kind = "fence" THEN ~Scanned(l).code ELSE Scanned(l).code)
    BY <2>1, ScannedMore, ScannedType, ObserveForms
  <2>4. EndsInCode(l) = InCode(l, n + 1)
    BY DEF EndsInCode
  <2> HIDE DEF n, more, G
  <2>5. EndsInCode(more) = InCode(more, (n + 1) + 1)
    BY <2>2 DEF EndsInCode
  <2>6. InCode(more, (n + 1) + 1) = (IF x.kind = "fence" THEN ~InCode(more, n + 1) ELSE InCode(more, n + 1))
    <3>1. n + 1 \in Nat /\ n + 1 > 0
      BY <2>2
    <3>2. InCode(more, (n + 1) + 1) =
            (IF more[n + 1].kind = "fence" THEN ~InCode(more, n + 1) ELSE InCode(more, n + 1))
      BY <3>1, InCodeNext
    <3>3. QED
      BY <2>2, <3>2
  <2>7. InCode(more, n + 1) = InCode(l, n + 1)
    <3>1. n + 1 \in Nat /\ n + 1 > 0 /\ (n + 1) - 1 = n
      BY <2>2
    <3>2. \A m \in 1 .. (n + 1) - 1 : more[m] = l[m]
      BY <2>2, <3>1
    <3>3. QED
      BY <3>1, <3>2, InCodeAgree
  <2>8. EndsInCode(more) = Scanned(more).code
    BY <2>1, <2>3, <2>4, <2>5, <2>6, <2>7, ZenonT(30)
  <2>9. QED
    BY <2>2, <2>8 DEF G, more
<1> HIDE DEF G
<1>3. G = Seq(BodyLines)
  BY <1>1, <1>2, Appending DEF G
<1>4. EndsInCode(lines) = Scanned(lines).code
  BY <1>3 DEF G
<1>5. QED
  BY <1>4

-----------------------------------------------------------------------------
(* Blocks that come before a scan stay where they are. *)

\* A scan with other blocks before its own.
Shift(pre, scan) == Scan(pre \o scan.blocks, scan.code, scan.gap)

LEMMA ShiftScan ==
    ASSUME NEW pre, NEW b, NEW c, NEW g
    PROVE  Shift(pre, Scan(b, c, g)) = Scan(pre \o b, c, g)
<1>1. Scan(b, c, g).blocks = b /\ Scan(b, c, g).code = c /\ Scan(b, c, g).gap = g
  BY DEF Scan
<1>2. QED
  BY <1>1 DEF Shift

LEMMA PreTop ==
    ASSUME NEW pre \in Seq(AnyBlock), NEW b \in Seq(AnyBlock)
    PROVE  /\ pre \o b \in Seq(AnyBlock)
           /\ b # <<>> => pre \o b # <<>> /\ Top(pre \o b) = Top(b)
           /\ b = <<>> => pre \o b = pre
<1> DEFINE both == pre \o b
<1>1. /\ both \in Seq(AnyBlock) /\ Len(both) = Len(pre) + Len(b)
      /\ \A i \in 1 .. Len(pre) + Len(b) : both[i] = IF i <= Len(pre) THEN pre[i] ELSE b[i - Len(pre)]
      /\ Len(pre) \in Nat /\ Len(b) \in Nat
  BY ConcatProperties, LenProperties
<1>2. b = <<>> => both = pre
  BY ConcatEmptySeq
<1> HIDE DEF both
<1>3. ASSUME b # <<>>
      PROVE  both # <<>> /\ Top(both) = Top(b)
  <2>1. Len(b) \in 1 .. Len(b) /\ Top(b) = b[Len(b)]
    BY <1>3, TopFacts
  <2>2. /\ Len(both) # 0 /\ Len(both) \in 1 .. Len(pre) + Len(b) /\ ~(Len(both) <= Len(pre))
        /\ Len(both) - Len(pre) = Len(b)
    BY <1>1, <2>1
  <2>3. both # <<>>
    BY <1>1, <2>2, EmptySeq
  <2>4. both[Len(both)] = b[Len(b)]
    BY <1>1, <2>2
  <2>5. QED
    BY <2>1, <2>3, <2>4 DEF Top
<1>4. QED
  BY <1>1, <1>2, <1>3 DEF both

\* Putting blocks first commutes with opening a block and with going on.
LEMMA PreOpened ==
    ASSUME NEW pre \in Seq(AnyBlock), NEW b \in Seq(AnyBlock), NEW kind \in BlockKinds, NEW text \in AnyText
    PROVE  pre \o Opened(b, kind, text) = Opened(pre \o b, kind, text)
<1> DEFINE one == <<BlockOf(kind, <<text>>)>>
           both == pre \o b
<1>1. both \in Seq(AnyBlock)
  BY ConcatProperties
<1>2. Opened(b, kind, text) = b \o one /\ BlockOf(kind, <<text>>) \in AnyBlock
  BY OpenedFacts
<1>3. one \in Seq(AnyBlock)
  BY <1>2
<1> HIDE DEF both
<1>4. Opened(both, kind, text) = both \o one
  BY <1>1, OpenedFacts
<1> HIDE DEF one
<1>5. Assoc(pre, b, one)
  BY <1>3, Associates
<1>6. QED
  BY <1>2, <1>4, <1>5 DEF Assoc, both

LEMMA PreLonger ==
    ASSUME NEW pre \in Seq(AnyBlock), NEW b \in Seq(AnyBlock), b # <<>>,
           NEW texts \in Seq(AnyText), texts # <<>>
    PROVE  pre \o Longer(b, texts) = Longer(pre \o b, texts)
<1> DEFINE both == pre \o b
           new == Longer(b, texts)
           one == pre \o new
           other == Longer(both, texts)
           block == BlockOf(Top(b).kind, texts)
<1>1. /\ new \in Seq(AnyBlock) /\ Len(new) = Len(b)
      /\ \A i \in 1 .. Len(b) : new[i] = IF i = Len(b) THEN block ELSE b[i]
  BY LongerFacts
<1>2. both \in Seq(AnyBlock) /\ both # <<>> /\ Top(both) = Top(b)
  BY PreTop
<1>3. /\ Len(both) = Len(pre) + Len(b)
      /\ \A i \in 1 .. Len(pre) + Len(b) : both[i] = IF i <= Len(pre) THEN pre[i] ELSE b[i - Len(pre)]
      /\ Len(pre) \in Nat /\ Len(b) \in Nat /\ Len(b) \in 1 .. Len(b)
  BY ConcatProperties, LenProperties, TopFacts
<1> HIDE DEF both, block
<1>4. /\ other \in Seq(AnyBlock) /\ Len(other) = Len(both)
      /\ \A i \in 1 .. Len(both) : other[i] = IF i = Len(both) THEN block ELSE both[i]
  BY <1>2, LongerFacts DEF block
<1> HIDE DEF new, other
<1>5. /\ one \in Seq(AnyBlock) /\ Len(one) = Len(pre) + Len(new)
      /\ \A i \in 1 .. Len(pre) + Len(new) : one[i] = IF i <= Len(pre) THEN pre[i] ELSE new[i - Len(pre)]
  BY <1>1, ConcatProperties
<1> HIDE DEF one
<1>6. Len(one) = Len(other)
  BY <1>1, <1>3, <1>4, <1>5
<1>7. ASSUME NEW i \in 1 .. Len(one)
      PROVE  one[i] = other[i]
  <2>1. i \in 1 .. Len(pre) + Len(b) /\ i \in 1 .. Len(pre) + Len(new) /\ i \in 1 .. Len(both)
    BY <1>1, <1>3, <1>5
  <2>2. CASE i <= Len(pre)
    <3>1. i # Len(both)
      BY <1>3, <2>1, <2>2
    <3>2. QED
      BY <1>3, <1>4, <1>5, <2>1, <2>2, <3>1
  <2>3. CASE ~(i <= Len(pre))
    <3>1. i - Len(pre) \in 1 .. Len(b) /\ (i - Len(pre) = Len(b) <=> i = Len(both))
      BY <1>3, <2>1, <2>3
    <3>2. one[i] = new[i - Len(pre)]
      BY <1>5, <2>1, <2>3
    <3>3. new[i - Len(pre)] = IF i = Len(both) THEN block ELSE b[i - Len(pre)]
      BY <1>1, <3>1
    <3>4. both[i] = b[i - Len(pre)]
      BY <1>3, <2>1, <2>3
    <3>5. other[i] = IF i = Len(both) THEN block ELSE both[i]
      BY <1>4, <2>1
    <3>6. QED
      BY <3>2, <3>3, <3>4, <3>5
  <2>4. QED
    BY <2>2, <2>3
<1>8. one = other
  BY <1>4, <1>5, <1>6, <1>7, SeqEqual
<1>9. QED
  BY <1>8 DEF one, other, new, both

LEMMA ShiftIs ==
    ASSUME NEW pre, NEW b, NEW b2, NEW g, NEW new, NEW new2, pre \o b = b2
    PROVE  /\ new = Scan(b, FALSE, g) /\ new2 = Scan(b2, FALSE, g) => new2 = Shift(pre, new)
           /\ new = Scan(b, TRUE, FALSE) /\ new2 = Scan(b2, TRUE, FALSE) => new2 = Shift(pre, new)
           /\ new = Scan(b, FALSE, TRUE) /\ new2 = Scan(b2, FALSE, TRUE) => new2 = Shift(pre, new)
           /\ new = Scan(b, FALSE, FALSE) /\ new2 = Scan(b2, FALSE, FALSE) => new2 = Shift(pre, new)
<1> DEFINE yes == TRUE
           no == FALSE
<1> HIDE DEF yes, no
<1>1. \A c, h : Shift(pre, Scan(b, c, h)) = Scan(pre \o b, c, h)
  BY ShiftScan
<1>2. \A c, h : new = Scan(b, c, h) /\ new2 = Scan(b2, c, h) => new2 = Shift(pre, new)
  BY <1>1
<1>3. /\ new = Scan(b, no, g) /\ new2 = Scan(b2, no, g) => new2 = Shift(pre, new)
      /\ new = Scan(b, yes, no) /\ new2 = Scan(b2, yes, no) => new2 = Shift(pre, new)
      /\ new = Scan(b, no, yes) /\ new2 = Scan(b2, no, yes) => new2 = Shift(pre, new)
      /\ new = Scan(b, no, no) /\ new2 = Scan(b2, no, no) => new2 = Shift(pre, new)
  BY <1>2
<1>4. QED
  BY <1>3 DEF yes, no

\* Kinds of blocks that nothing goes on with.
Loose == {"heading", "none"}

\* What one more line does to a scan, part by part.
Reads(B, code, gap, x, new) ==
    /\ x.kind = "fence" /\ code => new = Scan(B, FALSE, gap)
    /\ x.kind = "fence" /\ ~code => new = Scan(Opened(B, "code", <<>>), TRUE, FALSE)
    /\ x.kind # "fence" /\ code => new = Scan(Longer(B, Tailed(Top(B).texts, x.text)), TRUE, FALSE)
    /\ x.kind = "blank" /\ ~code => new = Scan(B, FALSE, TRUE)
    /\ x.kind = "heading" /\ ~code => new = Scan(Opened(B, "heading", x.text), FALSE, FALSE)
    /\ x.kind \in {"bullet", "number"} /\ ~code /\ Top(B).kind = x.kind =>
         new = Scan(Longer(B, Append(Top(B).texts, x.text)), FALSE, FALSE)
    /\ x.kind \in {"bullet", "number"} /\ ~code /\ Top(B).kind # x.kind =>
         new = Scan(Opened(B, x.kind, x.text), FALSE, FALSE)
    /\ x.kind = "paragraph" /\ ~code /\ Top(B).kind \in {"bullet", "number", "paragraph"} /\ ~gap =>
         new = Scan(Longer(B, Tailed(Top(B).texts, x.text)), FALSE, FALSE)
    /\ x.kind = "paragraph" /\ ~code /\ ~(Top(B).kind \in {"bullet", "number", "paragraph"} /\ ~gap) =>
         new = Scan(Opened(B, "paragraph", x.text), FALSE, FALSE)

LEMMA ObserveReads ==
    ASSUME NEW scan \in Scans, NEW x \in BodyLines
    PROVE  Reads(scan.blocks, scan.code, scan.gap, x, Observe(scan, x))
<1> DEFINE B == scan.blocks
           new == Observe(scan, x)
<1>1. /\ x.kind = "fence" /\ scan.code => new = Scan(B, FALSE, scan.gap)
      /\ x.kind = "fence" /\ ~scan.code => new = Scan(Opened(B, "code", <<>>), TRUE, FALSE)
      /\ x.kind # "fence" /\ scan.code => new = Scan(Longer(B, Tailed(Top(B).texts, x.text)), TRUE, FALSE)
      /\ x.kind = "blank" /\ ~scan.code => new = Scan(B, FALSE, TRUE)
      /\ x.kind = "heading" /\ ~scan.code => new = Scan(Opened(B, "heading", x.text), FALSE, FALSE)
  BY ObserveIs
<1>2. /\ x.kind \in {"bullet", "number"} /\ ~scan.code /\ Top(B).kind = x.kind =>
           new = Scan(Longer(B, Append(Top(B).texts, x.text)), FALSE, FALSE)
      /\ x.kind \in {"bullet", "number"} /\ ~scan.code /\ Top(B).kind # x.kind =>
           new = Scan(Opened(B, x.kind, x.text), FALSE, FALSE)
      /\ x.kind = "paragraph" /\ ~scan.code /\ Top(B).kind \in {"bullet", "number", "paragraph"} /\ ~scan.gap =>
           new = Scan(Longer(B, Tailed(Top(B).texts, x.text)), FALSE, FALSE)
      /\ x.kind = "paragraph" /\ ~scan.code /\ ~(Top(B).kind \in {"bullet", "number", "paragraph"} /\ ~scan.gap) =>
           new = Scan(Opened(B, "paragraph", x.text), FALSE, FALSE)
  BY ObserveIs
<1> HIDE DEF new, B
<1>3. Reads(B, scan.code, scan.gap, x, new)
  BY <1>1, <1>2 DEF Reads
<1>4. QED
  BY <1>3 DEF new, B

\* Blocks before a scan do not change what a line does to it, when the scan has
\* a block of its own or the last one before it is loose.
LEMMA ObserveAfter ==
    ASSUME NEW pre \in Seq(AnyBlock), NEW scan \in Scans, NEW x \in BodyLines,
           scan.blocks # <<>> \/ Top(pre).kind \in Loose
    PROVE  /\ Shift(pre, scan) \in Scans
           /\ Observe(Shift(pre, scan), x) = Shift(pre, Observe(scan, x))
<1> DEFINE B == scan.blocks
           T == Top(B)
           c == scan.code
           g == scan.gap
           new == Observe(scan, x)
           B2 == pre \o B
           T2 == Top(B2)
           scan2 == Shift(pre, scan)
           new2 == Observe(scan2, x)
<1>1. /\ B \in Seq(AnyBlock) /\ c \in BOOLEAN /\ g \in BOOLEAN
      /\ B # <<>> => T.kind \in BlockKinds /\ T.texts \in Seq(AnyText) /\ T.texts # <<>>
      /\ c => B # <<>> /\ T.kind = "code"
      /\ B = <<>> => T.kind = "none"
  BY ScanFacts
<1>52. c \in BOOLEAN /\ g \in BOOLEAN
  BY <1>1
<1>2. /\ x.kind \in {"blank", "fence", "heading", "bullet", "number", "paragraph"}
      /\ x.text \in AnyText /\ <<>> \in AnyText
  BY BodyLineKinds, EmptySeq DEF AnyText
<1>3. /\ B2 \in Seq(AnyBlock)
      /\ B # <<>> => B2 # <<>> /\ T2 = T
      /\ B = <<>> => B2 = pre
  BY <1>1, PreTop
<1>4. B = <<>> => T2.kind \in Loose
  BY <1>3
<1>51. scan2 = Scan(B2, c, g)
  BY DEF Shift
<1>61. Reads(B, c, g, x, new)
  BY ObserveReads
<1>6. \A kind \in BlockKinds, text \in AnyText : pre \o Opened(B, kind, text) = Opened(B2, kind, text)
  BY <1>1, PreOpened
<1>7. \A texts \in Seq(AnyText) : texts # <<>> /\ B # <<>> => pre \o Longer(B, texts) = Longer(B2, texts)
  BY <1>1, PreLonger
<1>71. pre \o B = B2
  OBVIOUS
<1> HIDE DEF B, T, c, g, new, B2, T2, scan2
<1>5. scan2 \in Scans /\ scan2.blocks = B2 /\ scan2.code = c /\ scan2.gap = g
  <2>1. c = TRUE => Top(B2).kind = "code"
    BY <1>1, <1>3 DEF T2
  <2>2. /\ Scan(B2, c, g) \in Scans
        /\ Scan(B2, c, g).blocks = B2 /\ Scan(B2, c, g).code = c /\ Scan(B2, c, g).gap = g
    BY <1>52, <1>3, <2>1, ScanType, ZenonT(30)
  <2>3. QED
    BY <1>51, <2>2
<1>62. Reads(B2, c, g, x, new2)
  BY <1>5, ObserveReads
<1> HIDE DEF new2
<1>72. SUFFICES new2 = Shift(pre, new)
  BY <1>5 DEF scan2, new2, new
<1>8. CASE x.kind = "fence" /\ c
  <2>1. new = Scan(B, FALSE, g) /\ new2 = Scan(B2, FALSE, g)
    BY <1>61, <1>62, <1>8 DEF Reads
  <2>2. QED
    BY <1>71, <2>1 DEF Shift, Scan
<1>9. CASE x.kind = "fence" /\ ~c
  <2>1. /\ new = Scan(Opened(B, "code", <<>>), TRUE, FALSE)
        /\ new2 = Scan(Opened(B2, "code", <<>>), TRUE, FALSE)
    BY <1>61, <1>62, <1>9 DEF Reads
  <2>2. "code" \in BlockKinds
    BY DEF BlockKinds
  <2>3. pre \o Opened(B, "code", <<>>) = Opened(B2, "code", <<>>)
    BY <1>2, <1>6, <2>2
  <2>4. QED
    BY <2>1, <2>3, ShiftIs
<1>10. CASE x.kind # "fence" /\ c
  <2> DEFINE texts == Tailed(T.texts, x.text)
  <2>1. B # <<>> /\ T2 = T
    BY <1>1, <1>3, <1>10
  <2>2. /\ new = Scan(Longer(B, texts), TRUE, FALSE)
        /\ new2 = Scan(Longer(B2, Tailed(T2.texts, x.text)), TRUE, FALSE)
    BY <1>61, <1>62, <1>10 DEF Reads, T, T2
  <2>3. texts \in Seq(AnyText) /\ texts # <<>>
    BY <1>1, <1>2, <2>1, TailedFacts
  <2>6. new2 = Scan(Longer(B2, texts), TRUE, FALSE)
    BY <2>1, <2>2
  <2> HIDE DEF texts
  <2>4. pre \o Longer(B, texts) = Longer(B2, texts)
    BY <1>7, <2>1, <2>3
  <2>5. QED
    BY <2>2, <2>6, <2>4 DEF Shift, Scan
<1>11. CASE x.kind = "blank" /\ ~c
  <2>1. new = Scan(B, FALSE, TRUE) /\ new2 = Scan(B2, FALSE, TRUE)
    BY <1>61, <1>62, <1>11 DEF Reads
  <2>2. QED
    BY <1>71, <2>1 DEF Shift, Scan
<1>12. ASSUME NEW kind \in BlockKinds,
              new = Scan(Opened(B, kind, x.text), FALSE, FALSE),
              new2 = Scan(Opened(B2, kind, x.text), FALSE, FALSE)
       PROVE  new2 = Shift(pre, new)
  <2>1. pre \o Opened(B, kind, x.text) = Opened(B2, kind, x.text)
    BY <1>2, <1>6
  <2>2. QED
    BY <1>12, <2>1 DEF Shift, Scan
<1>13. ASSUME NEW texts \in Seq(AnyText), texts # <<>>, B # <<>>,
              new = Scan(Longer(B, texts), FALSE, FALSE),
              new2 = Scan(Longer(B2, texts), FALSE, FALSE)
       PROVE  new2 = Shift(pre, new)
  <2>1. pre \o Longer(B, texts) = Longer(B2, texts)
    BY <1>7, <1>13
  <2>2. QED
    BY <1>13, <2>1, ShiftIs
<1>14. /\ \A kind \in {"bullet", "number", "paragraph"} : T2.kind = kind <=> T.kind = kind
       /\ T.kind \in {"bullet", "number", "paragraph"} => B # <<>> /\ T2 = T
  BY <1>1, <1>3, <1>4 DEF Loose
<1>15. CASE x.kind = "heading" /\ ~c
  <2>1. /\ new = Scan(Opened(B, "heading", x.text), FALSE, FALSE)
        /\ new2 = Scan(Opened(B2, "heading", x.text), FALSE, FALSE)
    BY <1>61, <1>62, <1>15 DEF Reads
  <2>2. "heading" \in BlockKinds
    BY DEF BlockKinds
  <2>3. QED
    BY <1>12, <2>1, <2>2
<1>16. CASE x.kind \in {"bullet", "number"} /\ ~c /\ T.kind = x.kind
  <2>1. B # <<>> /\ T2 = T /\ T2.kind = x.kind
    BY <1>14, <1>16
  <2> DEFINE texts == Append(T.texts, x.text)
  <2>2. /\ new = Scan(Longer(B, texts), FALSE, FALSE)
        /\ new2 = Scan(Longer(B2, Append(T2.texts, x.text)), FALSE, FALSE)
    BY <1>61, <1>62, <1>16, <2>1 DEF Reads, T, T2
  <2>5. new2 = Scan(Longer(B2, texts), FALSE, FALSE)
    BY <2>1, <2>2
  <2>3. texts \in Seq(AnyText) /\ texts # <<>>
    BY <1>1, <1>2, <2>1, MoreFacts
  <2> HIDE DEF texts
  <2>4. QED
    BY <1>13, <2>1, <2>2, <2>3, <2>5
<1>17. CASE x.kind \in {"bullet", "number"} /\ ~c /\ T.kind # x.kind
  <2>1. T2.kind # x.kind
    BY <1>14, <1>17
  <2>2. /\ new = Scan(Opened(B, x.kind, x.text), FALSE, FALSE)
        /\ new2 = Scan(Opened(B2, x.kind, x.text), FALSE, FALSE)
    BY <1>61, <1>62, <1>17, <2>1 DEF Reads, T, T2
  <2>3. x.kind \in BlockKinds
    BY <1>17 DEF BlockKinds
  <2>4. QED
    BY <1>12, <2>2, <2>3
<1>18. CASE x.kind = "paragraph" /\ ~c /\ T.kind \in {"bullet", "number", "paragraph"} /\ ~g
  <2>1. B # <<>> /\ T2 = T /\ T2.kind \in {"bullet", "number", "paragraph"}
    BY <1>14, <1>18
  <2> DEFINE texts == Tailed(T.texts, x.text)
  <2>2. /\ new = Scan(Longer(B, texts), FALSE, FALSE)
        /\ new2 = Scan(Longer(B2, Tailed(T2.texts, x.text)), FALSE, FALSE)
    BY <1>61, <1>62, <1>18, <2>1 DEF Reads, T, T2
  <2>5. new2 = Scan(Longer(B2, texts), FALSE, FALSE)
    BY <2>1, <2>2
  <2>3. texts \in Seq(AnyText) /\ texts # <<>>
    BY <1>1, <1>2, <2>1, TailedFacts
  <2> HIDE DEF texts
  <2>4. QED
    BY <1>13, <2>1, <2>2, <2>3, <2>5
<1>19. CASE x.kind = "paragraph" /\ ~c /\ ~(T.kind \in {"bullet", "number", "paragraph"} /\ ~g)
  <2>1. ~(T2.kind \in {"bullet", "number", "paragraph"} /\ ~g)
    BY <1>14, <1>19
  <2>2. /\ new = Scan(Opened(B, "paragraph", x.text), FALSE, FALSE)
        /\ new2 = Scan(Opened(B2, "paragraph", x.text), FALSE, FALSE)
    BY <1>61, <1>62, <1>19, <2>1 DEF Reads, T, T2
  <2>3. "paragraph" \in BlockKinds
    BY DEF BlockKinds
  <2>4. QED
    BY <1>12, <2>2, <2>3
<1>20. QED
  BY <1>2, <1>8, <1>9, <1>10, <1>11, <1>15, <1>16, <1>17, <1>18, <1>19

-----------------------------------------------------------------------------
(* Lines after lines. *)

\* Lines after lines have their own blocks.
Continued(a, b) == Scanned(a \o b) = Shift(Blocks(a), Scanned(b))

LEMMA ShiftNone ==
    ASSUME NEW a \in Seq(BodyLines), Scanned(a) = Scan(Blocks(a), FALSE, FALSE)
    PROVE  Continued(a, <<>>)
<1> DEFINE none == <<>>
           B == Blocks(a)
<1>1. B \in Seq(AnyBlock)
  BY ScannedType
<1>2. a \o none = a /\ B \o none = B
  BY <1>1, ConcatEmptySeq
<1>3. Scanned(none) = Scan(none, FALSE, FALSE)
  BY ScannedNone, NothingScannedIs
<1> HIDE DEF none, B
<1> DEFINE no == FALSE
<1>4. Scanned(none) = Scan(none, no, no) /\ Scanned(a) = Scan(B, no, no)
  BY <1>3 DEF B
<1> HIDE DEF no
<1>5. Shift(B, Scan(none, no, no)) = Scan(B \o none, no, no)
  BY ShiftScan
<1>6. Scanned(a \o none) = Shift(B, Scanned(none))
  BY <1>2, <1>4, <1>5
<1>7. QED
  BY <1>6 DEF Continued, none, B

\* Lines that go on where nothing can go on start afresh.
LEMMA AfterLoose ==
    ASSUME NEW a \in Seq(BodyLines), NEW b \in Seq(BodyLines),
           Scanned(a) = Scan(Blocks(a), FALSE, FALSE), Top(Blocks(a)).kind \in Loose
    PROVE  Continued(a, b)
<1> DEFINE G == {l \in Seq(BodyLines) : Continued(a, l)}
<1>1. <<>> \in G
  BY ShiftNone, EmptySeq
<1>2. ASSUME NEW l \in G, NEW x \in BodyLines
      PROVE  Append(l, x) \in G
  <2> DEFINE more == Append(l, x)
             both == a \o l
             one == <<x>>
             B == Blocks(a)
  <2>1. l \in Seq(BodyLines) /\ Scanned(both) = Shift(B, Scanned(l))
    BY DEF Continued
  <2>2. more \in Seq(BodyLines) /\ more = l \o one
    BY <2>1, AppendProperties, AppendIsConcat
  <2>3. both \in Seq(BodyLines) /\ one \in Seq(BodyLines)
    BY <2>1, ConcatProperties
  <2>4. Assoc(a, l, one)
    BY <2>1, <2>3, Associates
  <2>5. Append(both, x) = both \o one
    BY <2>3, AppendIsConcat
  <2>6. a \o more = Append(both, x)
    BY <2>2, <2>4, <2>5 DEF Assoc
  <2>7. Scanned(l) \in Scans /\ B \in Seq(AnyBlock)
    BY <2>1, ScannedType
  <2> HIDE DEF both, G, B
  <2>8. Scanned(Append(both, x)) = Observe(Scanned(both), x) /\ Scanned(more) = Observe(Scanned(l), x)
    BY <2>1, <2>3, ScannedMore
  <2>9. Observe(Shift(B, Scanned(l)), x) = Shift(B, Observe(Scanned(l), x))
    BY <2>7, ObserveAfter DEF B
  <2> HIDE DEF more
  <2>10. Scanned(a \o more) = Shift(B, Scanned(more))
    BY <2>1, <2>6, <2>8, <2>9
  <2>11. QED
    BY <2>2, <2>10 DEF G, Continued, B, more
<1> HIDE DEF G
<1>3. G = Seq(BodyLines)
  BY <1>1, <1>2, Appending DEF G
<1>4. QED
  BY <1>3 DEF G

\* The block of a heading.
HeadBlock(h) == BlockOf("heading", << <<h>> >>)

LEMMA HeadBlockFacts ==
    ASSUME NEW h \in AnyHeader
    PROVE  /\ HeadBlock(h) \in AnyBlock /\ HeadBlock(h).kind = "heading"
           /\ <<HeadBlock(h)>> \in Seq(AnyBlock) /\ <<HeadBlock(h)>> # <<>>
           /\ <<h>> \in AnyText
<1>1. <<h>> \in AnyText
  BY DEF AnyText, AnyWord
<1>2. "heading" \in BlockKinds
  BY DEF BlockKinds
<1>3. HeadBlock(h) \in AnyBlock /\ HeadBlock(h).kind = "heading"
  BY <1>1, <1>2, OneText, BlockOfFacts DEF HeadBlock
<1> DEFINE b == HeadBlock(h)
<1> HIDE DEF b
<1>4. <<b>> \in Seq(AnyBlock) /\ <<b>> # <<>>
  BY <1>3 DEF b
<1>5. QED
  BY <1>1, <1>3, <1>4 DEF b

\* A heading outside of code is a block of its own, and nothing goes on with it.
LEMMA HeadingOpens ==
    ASSUME NEW a \in Seq(BodyLines), ~Scanned(a).code, NEW h \in AnyHeader
    PROVE  /\ a \o <<Heading(h)>> \in Seq(BodyLines)
           /\ Scanned(a \o <<Heading(h)>>) = Scan(Blocks(a \o <<Heading(h)>>), FALSE, FALSE)
           /\ Blocks(a \o <<Heading(h)>>) = Blocks(a) \o <<HeadBlock(h)>>
           /\ Top(Blocks(a \o <<Heading(h)>>)) = HeadBlock(h)
<1> DEFINE x == Heading(h)
           new == Append(a, x)
           B == Blocks(a)
           B2 == Opened(B, "heading", <<h>>)
<1>1. x \in BodyLines /\ x.kind = "heading" /\ x.text = <<h>>
  BY LinesAreLines
<1>2. new \in Seq(BodyLines) /\ new = a \o <<x>>
  BY <1>1, AppendProperties, AppendIsConcat
<1>3. Scanned(a) \in Scans /\ B = Scanned(a).blocks /\ B \in Seq(AnyBlock)
  BY ScannedType
<1> HIDE DEF x, new
<1>4. Scanned(new) = Observe(Scanned(a), x)
  BY <1>1, ScannedMore DEF new
<1>5. Observe(Scanned(a), x) = Scan(Opened(Scanned(a).blocks, "heading", x.text), FALSE, FALSE)
  BY <1>1, <1>3, ObserveIs
<1>6. Scanned(new) = Scan(B2, FALSE, FALSE)
  BY <1>1, <1>3, <1>4, <1>5
<1>7. "heading" \in BlockKinds /\ <<h>> \in AnyText
  BY HeadBlockFacts DEF BlockKinds
<1> HIDE DEF B
<1>8. /\ B2 \in Seq(AnyBlock) /\ B2 = B \o <<HeadBlock(h)>> /\ Top(B2) = HeadBlock(h)
  BY <1>3, <1>7, OpenedFacts DEF HeadBlock
<1> HIDE DEF B2
<1>9. Scan(B2, FALSE, FALSE).blocks = B2
  BY DEF Scan
<1>10. Blocks(new) = B2
  BY <1>6, <1>9 DEF Blocks
<1>11. QED
  BY <1>2, <1>6, <1>8, <1>10 DEF B, x

\* The blocks of lines around a heading.
LEMMA AroundHeading ==
    ASSUME NEW a \in Seq(BodyLines), ~Scanned(a).code, NEW h \in AnyHeader, NEW c \in Seq(BodyLines)
    PROVE  /\ (a \o <<Heading(h)>>) \o c \in Seq(BodyLines)
           /\ Blocks((a \o <<Heading(h)>>) \o c) = (Blocks(a) \o <<HeadBlock(h)>>) \o Blocks(c)
           /\ Scanned((a \o <<Heading(h)>>) \o c).code = Scanned(c).code
<1> DEFINE ah == a \o <<Heading(h)>>
           B == Blocks(ah)
           S == Scanned(c)
<1>1. /\ ah \in Seq(BodyLines) /\ Scanned(ah) = Scan(B, FALSE, FALSE)
      /\ B = Blocks(a) \o <<HeadBlock(h)>>
      /\ Top(B) = HeadBlock(h)
  BY HeadingOpens
<1> HIDE DEF ah
<1>2. Top(B).kind \in Loose
  BY <1>1, HeadBlockFacts DEF Loose
<1>3. Scanned(ah \o c) = Shift(B, S)
  BY <1>1, <1>2, AfterLoose DEF Continued
<1>4. Shift(B, S).blocks = B \o S.blocks /\ Shift(B, S).code = S.code
  BY DEF Shift, Scan
<1>5. ah \o c \in Seq(BodyLines)
  BY <1>1, ConcatProperties
<1>6. Blocks(ah \o c) = B \o Blocks(c)
  BY <1>3, <1>4 DEF Blocks
<1>7. QED
  BY <1>1, <1>3, <1>4, <1>5, <1>6 DEF ah

-----------------------------------------------------------------------------
(* Lines cut in two. *)

\* A text that is cut after a line is its parts.
CutAt(l, n) ==
    /\ Len(SubSeq(l, 1, n)) = n /\ \A i \in 1 .. n : SubSeq(l, 1, n)[i] = l[i]
    /\ Len(SubSeq(l, n + 1, Len(l))) = Len(l) - n
    /\ SubSeq(l, 1, n) \o SubSeq(l, n + 1, Len(l)) = l

LEMMA Cut ==
    ASSUME NEW T, NEW l \in Seq(T), NEW n \in 0 .. Len(l)
    PROVE  /\ SubSeq(l, 1, n) \in Seq(T) /\ Len(SubSeq(l, 1, n)) = n
           /\ \A i \in 1 .. n : SubSeq(l, 1, n)[i] = l[i]
           /\ SubSeq(l, n + 1, Len(l)) \in Seq(T) /\ Len(SubSeq(l, n + 1, Len(l))) = Len(l) - n
           /\ \A i \in 1 .. Len(l) - n : SubSeq(l, n + 1, Len(l))[i] = l[n + i]
           /\ SubSeq(l, 1, n) \o SubSeq(l, n + 1, Len(l)) = l
<1> DEFINE len == Len(l)
           one == 1
           m == n + 1
<1>1. /\ len \in Nat /\ n \in Nat /\ n <= len /\ one \in Int /\ n \in Int /\ m \in Int /\ len \in Int
      /\ \A i \in 1 .. len : l[i] \in T
  BY ElementOfSeq, LenProperties
<1>2. /\ \A i \in one .. n : l[i] \in T
      /\ \A i \in m .. len : l[i] \in T
  BY <1>1
<1>3. /\ one = 1 /\ m = n + 1
  OBVIOUS
<1> HIDE DEF one, m, len
<1> DEFINE a == SubSeq(l, one, n)
           b == SubSeq(l, m, len)
<1>4. /\ a \in Seq(T) /\ Len(a) = IF one <= n THEN n - one + 1 ELSE 0
      /\ \A i \in 1 .. n - one + 1 : a[i] = l[one + i - 1]
  BY <1>1, <1>2, SubSeqProperties
<1>5. /\ b \in Seq(T) /\ Len(b) = IF m <= len THEN len - m + 1 ELSE 0
      /\ \A i \in 1 .. len - m + 1 : b[i] = l[m + i - 1]
  BY <1>1, <1>2, SubSeqProperties
<1> HIDE DEF a, b
<1>6. Len(a) = n /\ \A i \in 1 .. n : a[i] = l[i]
  <2>1. Len(a) = n
    BY <1>1, <1>3, <1>4
  <2>2. ASSUME NEW i \in 1 .. n
        PROVE  a[i] = l[i]
    <3>1. i \in 1 .. n - one + 1 /\ one + i - 1 = i
      BY <1>1, <1>3
    <3>2. QED
      BY <1>4, <3>1
  <2>3. QED
    BY <2>1, <2>2
<1>7. Len(b) = len - n /\ \A i \in 1 .. len - n : b[i] = l[n + i]
  <2>1. Len(b) = len - n
    BY <1>1, <1>3, <1>5
  <2>2. ASSUME NEW i \in 1 .. len - n
        PROVE  b[i] = l[n + i]
    <3>1. i \in 1 .. len - m + 1 /\ m + i - 1 = n + i
      BY <1>1, <1>3
    <3>2. QED
      BY <1>5, <3>1
  <2>3. QED
    BY <2>1, <2>2
<1>8. a \o b = l
  <2> DEFINE both == a \o b
  <2>1. /\ both \in Seq(T) /\ Len(both) = Len(a) + Len(b)
        /\ \A i \in 1 .. Len(a) + Len(b) : both[i] = IF i <= Len(a) THEN a[i] ELSE b[i - Len(a)]
    BY <1>4, <1>5, ConcatProperties
  <2> HIDE DEF both
  <2>2. Len(both) = Len(l)
    BY <1>1, <1>6, <1>7, <2>1 DEF len
  <2>3. ASSUME NEW i \in 1 .. Len(both)
        PROVE  both[i] = l[i]
    <3>1. i \in 1 .. Len(a) + Len(b)
      BY <2>1
    <3>2. both[i] = IF i <= n THEN a[i] ELSE b[i - n]
      BY <1>6, <2>1, <3>1
    <3>3. CASE i <= n
      <4>1. i \in 1 .. n
        BY <1>1, <3>3
      <4>2. QED
        BY <1>6, <3>2, <3>3, <4>1
    <3>4. CASE ~(i <= n)
      <4>1. i - n \in 1 .. len - n /\ n + (i - n) = i
        BY <1>1, <1>6, <1>7, <3>1, <3>4
      <4>2. QED
        BY <1>7, <3>2, <3>4, <4>1
    <3>5. QED
      BY <3>3, <3>4
  <2>4. QED
    BY <2>1, <2>2, <2>3, SeqEqual DEF both
<1>9. QED
  BY <1>4, <1>5, <1>6, <1>7, <1>8 DEF a, b, one, m, len

LEMMA IsCut ==
    ASSUME NEW T, NEW l \in Seq(T), NEW n \in 0 .. Len(l)
    PROVE  CutAt(l, n) /\ SubSeq(l, 1, n) \in Seq(T) /\ SubSeq(l, n + 1, Len(l)) \in Seq(T)
BY Cut DEF CutAt

LEMMA CutAround ==
    ASSUME NEW T, NEW l \in Seq(T), NEW i \in 1 .. Len(l)
    PROVE  /\ SubSeq(l, 1, i - 1) \in Seq(T) /\ SubSeq(l, i + 1, Len(l)) \in Seq(T)
           /\ SubSeq(l, 1, i) = SubSeq(l, 1, i - 1) \o <<l[i]>>
           /\ SubSeq(l, i, Len(l)) = <<l[i]>> \o SubSeq(l, i + 1, Len(l))
           /\ l = (SubSeq(l, 1, i - 1) \o <<l[i]>>) \o SubSeq(l, i + 1, Len(l))
<1>1. Len(l) \in Nat /\ i - 1 \in 0 .. Len(l) /\ i \in 0 .. Len(l) /\ i \in Nat /\ 1 \in 1 .. Len(l)
      /\ i \in 1 .. Len(l) /\ Len(l) \in i .. Len(l)
  BY LenProperties
<1>2. SubSeq(l, 1, i - 1) \in Seq(T)
  BY <1>1, Cut
<1>3. /\ SubSeq(l, i + 1, Len(l)) \in Seq(T)
      /\ SubSeq(l, 1, i) \o SubSeq(l, i + 1, Len(l)) = l
  BY <1>1, Cut
<1>4. SubSeq(l, 1, i) = SubSeq(l, 1, i - 1) \o <<l[i]>>
  BY <1>1, SubSeqRecursiveSecond
<1>5. SubSeq(l, i, Len(l)) = <<l[i]>> \o SubSeq(l, i + 1, Len(l))
  BY <1>1, SubSeqRecursiveFirst
<1>6. QED
  BY <1>2, <1>3, <1>4, <1>5

\* A text from a line on is that line and the others.
FirstApart(l, i) == SubSeq(l, i, Len(l)) = <<l[i]>> \o SubSeq(l, i + 1, Len(l))

LEMMA CutFirst ==
    ASSUME NEW T, NEW l \in Seq(T), NEW i \in 1 .. Len(l)
    PROVE  FirstApart(l, i) /\ SubSeq(l, i + 1, Len(l)) \in Seq(T)
BY CutAround DEF FirstApart

-----------------------------------------------------------------------------
(* Headings, in lines and in blocks. *)

\* A line is in code when the scan of the lines above it is.
LEMMA CodeAt ==
    ASSUME NEW l \in Seq(BodyLines), NEW i \in 1 .. Len(l) + 1
    PROVE  InCode(l, i) <=> Scanned(SubSeq(l, 1, i - 1)).code
<1> DEFINE n == i - 1
           a == SubSeq(l, 1, n)
<1>1. Len(l) \in Nat /\ n \in 0 .. Len(l) /\ n + 1 = i /\ i \in Nat /\ i > 0
  BY LenProperties
<1> HIDE DEF n
<1>2. a \in Seq(BodyLines) /\ Len(a) = n /\ \A j \in 1 .. n : a[j] = l[j]
  BY <1>1, Cut
<1> HIDE DEF a
<1>3. EndsInCode(a) = InCode(a, i)
  BY <1>1, <1>2 DEF EndsInCode
<1>4. InCode(a, i) = InCode(l, i)
  <2>1. \A j \in 1 .. i - 1 : a[j] = l[j]
    BY <1>2 DEF n
  <2>2. QED
    BY <1>1, <2>1, InCodeAgree
<1>5. EndsInCode(a) <=> Scanned(a).code
  BY <1>2, CodeIs
<1>6. QED
  BY <1>3, <1>4, <1>5 DEF a, n

\* Headings are outside of code.
LEMMA HeadingFacts ==
    ASSUME NEW l \in Seq(BodyLines), NEW i \in Headings(l)
    PROVE  /\ i \in 1 .. Len(l) /\ l[i].kind = "heading" /\ l[i] \in BodyLines
           /\ ~InCode(l, i)
           /\ \E h \in AnyHeader : l[i] = Heading(h) /\ l[i].text = <<h>>
           /\ ~Scanned(SubSeq(l, 1, i - 1)).code
<1>1. i \in 1 .. Len(l) /\ l[i].kind = "heading" /\ ~InCode(l, i)
  BY LenProperties DEF Headings
<1>2. l[i] \in BodyLines
  BY <1>1, ElementOfSeq
<1>3. \E h \in AnyHeader : l[i] = Heading(h) /\ l[i].text = <<h>>
  BY <1>1, <1>2, BodyLineKinds
<1>4. i \in 1 .. Len(l) + 1
  BY <1>1, LenProperties
<1>5. ~Scanned(SubSeq(l, 1, i - 1)).code
  BY <1>1, <1>4, CodeAt
<1>6. QED
  BY <1>1, <1>2, <1>3, <1>5

\* Headings among the blocks come from headings among the lines.
FromLine(l, b) == \E j \in Headings(l) : b = BlockOf("heading", <<l[j].text>>)
HeadsKnown(l) ==
    \A i \in 1 .. Len(Blocks(l)) : Blocks(l)[i].kind = "heading" => FromLine(l, Blocks(l)[i])

LEMMA HeadsFrom ==
    ASSUME NEW lines \in Seq(BodyLines)
    PROVE  HeadsKnown(lines)
<1> DEFINE G == {l \in Seq(BodyLines) : HeadsKnown(l)}
<1>1. <<>> \in G
  <2> DEFINE none == <<>>
  <2>1. none \in Seq(BodyLines)
    BY EmptySeq
  <2>2. Blocks(none) = none
    BY ScannedNone, NothingScannedIs DEF Blocks
  <2>3. Len(none) = 0
    OBVIOUS
  <2> HIDE DEF none
  <2>4. HeadsKnown(none)
    BY <2>2, <2>3 DEF HeadsKnown
  <2>5. QED
    BY <2>1, <2>4 DEF none
<1>2. ASSUME NEW l \in G, NEW x \in BodyLines
      PROVE  Append(l, x) \in G
  <2> DEFINE n == Len(l)
             more == Append(l, x)
             B == Blocks(l)
             B2 == Blocks(more)
             scan == Scanned(l)
             new == Scanned(more)
  <2>1. l \in Seq(BodyLines) /\ HeadsKnown(l)
    OBVIOUS
  <2>2. /\ n \in Nat /\ more \in Seq(BodyLines) /\ Len(more) = n + 1
        /\ \A i \in 1 .. n : more[i] = l[i]
        /\ more[n + 1] = x
    BY <2>1, AppendProperties, LenProperties
  <2>3. new = Observe(scan, x)
    BY <2>1, ScannedMore
  <2>4. /\ scan \in Scans /\ scan.blocks = B /\ B \in Seq(AnyBlock)
        /\ new.blocks = B2
    BY <2>1, <2>2, ScannedType
  <2>5. scan.code <=> InCode(l, n + 1)
    BY <2>1, CodeIs DEF EndsInCode
  <2>51. DOMAIN l = 1 .. n /\ DOMAIN more = 1 .. n + 1
    BY <2>1, <2>2, LenProperties
  <2> HIDE DEF more, n, B, B2, scan, new
  <2>6. ASSUME NEW i \in 1 .. n + 1
        PROVE  InCode(more, i) = InCode(l, i)
    <3>1. i \in Nat /\ i > 0 /\ \A m \in 1 .. i - 1 : m \in 1 .. n
      BY <2>2
    <3>2. \A m \in 1 .. i - 1 : more[m] = l[m]
      BY <2>2, <3>1
    <3>3. QED
      BY <3>1, <3>2, InCodeAgree
  <2>7. \A b : FromLine(l, b) => FromLine(more, b)
    <3>1. SUFFICES ASSUME NEW b, NEW j \in Headings(l), b = BlockOf("heading", <<l[j].text>>)
                   PROVE  FromLine(more, b)
      BY DEF FromLine
    <3>2. j \in 1 .. n /\ l[j].kind = "heading" /\ ~InCode(l, j)
      BY <2>51 DEF Headings
    <3>3. j \in 1 .. n + 1 /\ more[j] = l[j]
      BY <2>2, <3>2
    <3>4. j \in Headings(more)
      BY <2>51, <2>6, <3>2, <3>3 DEF Headings
    <3>5. QED
      BY <3>1, <3>3, <3>4 DEF FromLine
  <2>8. \A i \in 1 .. Len(B) : B[i].kind = "heading" => FromLine(more, B[i])
    BY <2>1, <2>7 DEF HeadsKnown, B
  <2>9. ASSUME NEW i \in 1 .. Len(B2), B2[i].kind = "heading"
        PROVE  FromLine(more, B2[i])
    <3>1. \/ Same(scan, new) \/ Opens(scan, new, x) \/ GoesOn(scan, new)
      BY <2>3, <2>4, ObserveForms
    <3>2. CASE Same(scan, new)
      BY <2>4, <2>8, <2>9, <3>2 DEF Same
    <3>3. CASE Opens(scan, new, x)
      <4>1. PICK kind \in BlockKinds, text \in AnyText :
               /\ B2 = Opened(B, kind, text)
               /\ kind = "heading" <=> x.kind = "heading" /\ ~scan.code
               /\ kind = "heading" => text = x.text
        BY <2>4, <3>3 DEF Opens
      <4> DEFINE b == BlockOf(kind, <<text>>)
      <4>2. B2 = Append(B, b) /\ b \in AnyBlock /\ b.kind = kind
        <5>1. B \in Seq(AnyBlock) /\ kind \in BlockKinds /\ text \in AnyText
          BY <2>4, <4>1
        <5>2. <<text>> \in Seq(AnyText) /\ <<text>> # <<>>
          BY <4>1, OneText
        <5>3. b \in AnyBlock /\ b.kind = kind
          BY <4>1, <5>2, BlockOfFacts
        <5>4. Opened(B, kind, text) = Append(B, b)
          BY <5>1, OpenedFacts
        <5>5. QED
          BY <4>1, <5>3, <5>4
      <4> HIDE DEF b
      <4>3. /\ Len(B2) = Len(B) + 1 /\ Len(B) \in Nat
            /\ \A k \in 1 .. Len(B) : B2[k] = B[k]
            /\ B2[Len(B) + 1] = b
        BY <2>4, <4>2, AppendProperties, LenProperties
      <4>4. CASE i \in 1 .. Len(B)
        BY <2>8, <2>9, <4>3, <4>4
      <4>5. CASE i = Len(B) + 1
        <5>1. B2[i] = b /\ kind = "heading"
          BY <2>9, <4>2, <4>3, <4>5
        <5>2. x.kind = "heading" /\ ~InCode(l, n + 1) /\ text = x.text
          BY <2>5, <4>1, <5>1
        <5>3. n + 1 \in 1 .. n + 1
          BY <2>2
        <5>4. n + 1 \in Headings(more)
          BY <2>2, <2>51, <2>6, <5>2, <5>3 DEF Headings
        <5>5. b = BlockOf("heading", <<more[n + 1].text>>)
          BY <2>2, <5>1, <5>2 DEF b
        <5>6. QED
          BY <5>1, <5>4, <5>5 DEF FromLine
      <4>6. QED
        BY <4>3, <4>4, <4>5
    <3>4. CASE GoesOn(scan, new)
      <4>1. PICK texts \in Seq(AnyText) :
               /\ texts # <<>> /\ B # <<>> /\ Top(B).kind # "heading"
               /\ B2 = Longer(B, texts)
        BY <2>4, <3>4 DEF GoesOn
      <4> DEFINE b == BlockOf(Top(B).kind, texts)
      <4>2. /\ Len(B2) = Len(B)
            /\ \A k \in 1 .. Len(B) : B2[k] = IF k = Len(B) THEN b ELSE B[k]
        BY <2>4, <4>1, LongerFacts
      <4>3. b.kind # "heading"
        BY <4>1 DEF BlockOf
      <4> HIDE DEF b
      <4>4. i \in 1 .. Len(B) /\ i # Len(B)
        BY <2>9, <4>2, <4>3
      <4>5. QED
        BY <2>8, <2>9, <4>2, <4>4
    <3>5. QED
      BY <3>1, <3>2, <3>3, <3>4
  <2> HIDE DEF G
  <2>10. HeadsKnown(more)
    BY <2>9 DEF HeadsKnown, B2
  <2>11. QED
    BY <2>2, <2>10 DEF G, more
<1> HIDE DEF G
<1>3. G = Seq(BodyLines)
  BY <1>1, <1>2, Appending DEF G
<1>4. QED
  BY <1>3 DEF G

-----------------------------------------------------------------------------
(* A section in a body. *)

LEMMA CutMiddle ==
    ASSUME NEW T, NEW l \in Seq(T), NEW m \in 0 .. Len(l), NEW n \in m .. Len(l)
    PROVE  /\ SubSeq(l, m + 1, n) \in Seq(T) /\ Len(SubSeq(l, m + 1, n)) = n - m
           /\ \A i \in 1 .. n - m : SubSeq(l, m + 1, n)[i] = l[m + i]
           /\ SubSeq(l, 1, n) = SubSeq(l, 1, m) \o SubSeq(l, m + 1, n)
<1> DEFINE k == m + 1
           one == 1
<1>1. /\ Len(l) \in Nat /\ one \in 1 .. Len(l) + 1 /\ m \in one - 1 .. Len(l) /\ n \in m .. Len(l)
      /\ k \in Int /\ n \in Int /\ m \in Int /\ k = m + 1 /\ one = 1
  BY LenProperties
<1>2. \A i \in k .. n : l[i] \in T
  <2>1. \A i \in k .. n : i \in 1 .. Len(l)
    BY <1>1
  <2>2. QED
    BY <2>1, ElementOfSeq
<1> HIDE DEF k, one
<1>3. SubSeq(l, one, m) \o SubSeq(l, m + 1, n) = SubSeq(l, one, n)
  BY <1>1, ConcatAdjacentSubSeq
<1> DEFINE b == SubSeq(l, k, n)
<1>4. /\ b \in Seq(T) /\ Len(b) = IF k <= n THEN n - k + 1 ELSE 0
      /\ \A i \in 1 .. n - k + 1 : b[i] = l[k + i - 1]
  BY <1>1, <1>2, SubSeqProperties
<1> HIDE DEF b
<1>5. Len(b) = n - m
  BY <1>1, <1>4
<1>6. ASSUME NEW i \in 1 .. n - m
      PROVE  b[i] = l[m + i]
  <2>1. i \in 1 .. n - k + 1 /\ k + i - 1 = m + i
    BY <1>1
  <2>2. QED
    BY <1>4, <2>1
<1>7. QED
  BY <1>3, <1>4, <1>5, <1>6 DEF b, k, one

\* Lines, and their blocks, that begin with a heading.
StartsAfresh(d) ==
    \/ d = <<>>
    \/ \E y \in AnyHeader, c \in Seq(BodyLines) : d = <<Heading(y)>> \o c

HeadFirst(b) == b = <<>> \/ (Len(b) \in Nat \ {0} /\ b[1].kind = "heading")
NoHead(b) == \A i \in 1 .. Len(b) : b[i].kind # "heading"

\* Lines that start with a heading make blocks of their own.
LEMMA Fresh ==
    ASSUME NEW a \in Seq(BodyLines), ~Scanned(a).code, NEW d \in Seq(BodyLines), StartsAfresh(d)
    PROVE  /\ a \o d \in Seq(BodyLines)
           /\ Blocks(a \o d) = Blocks(a) \o Blocks(d)
           /\ Scanned(a \o d).code = Scanned(d).code
           /\ HeadFirst(Blocks(d))
<1> DEFINE none == <<>>
<1>1. CASE d = <<>>
  <2>1. a \o none = a /\ Blocks(a) \o none = Blocks(a)
    BY ScannedType, ConcatEmptySeq
  <2>2. Blocks(none) = none /\ Scanned(none).code = FALSE
    BY ScannedNone, NothingScannedIs DEF Blocks
  <2>3. Scanned(a).code \in BOOLEAN
    BY ScannedType, ScanFacts
  <2>4. d = none
    BY <1>1
  <2> HIDE DEF none
  <2>5. a \o d = a /\ Blocks(a) \o Blocks(d) = Blocks(a) /\ Scanned(d).code = FALSE /\ Blocks(d) = none
    BY <2>1, <2>2, <2>4
  <2>6. Scanned(a \o d).code = Scanned(d).code
    BY <2>3, <2>5
  <2>7. QED
    BY <2>5, <2>6 DEF HeadFirst, none
<1>2. CASE d # <<>>
  <2>1. PICK y \in AnyHeader, c \in Seq(BodyLines) : d = <<Heading(y)>> \o c
    BY <1>2 DEF StartsAfresh
  <2> DEFINE x == <<Heading(y)>>
             hb == <<HeadBlock(y)>>
             B == Blocks(a)
             C == Blocks(c)
  <2>2. /\ (a \o x) \o c \in Seq(BodyLines)
        /\ Blocks((a \o x) \o c) = (B \o hb) \o C
        /\ Scanned((a \o x) \o c).code = Scanned(c).code
    BY AroundHeading
  <2>3. none \in Seq(BodyLines) /\ ~Scanned(none).code /\ Blocks(none) = none
    BY ScannedNone, NothingScannedIs, EmptySeq DEF Blocks
  <2>4. x \in Seq(BodyLines) /\ hb \in Seq(AnyBlock) /\ hb # none
    <3>1. Heading(y) \in BodyLines
      BY LinesAreLines
    <3>2. x \in Seq(BodyLines)
      BY <3>1
    <3>3. QED
      BY <3>2, HeadBlockFacts
  <2>5. B \in Seq(AnyBlock) /\ C \in Seq(AnyBlock)
    BY ScannedType
  <2>6. none \o x = x /\ none \o hb = hb
    BY <2>4, ConcatEmptySeq
  <2>7. /\ Blocks((none \o x) \o c) = (Blocks(none) \o hb) \o C
        /\ Scanned((none \o x) \o c).code = Scanned(c).code
    <3> HIDE DEF none, x, hb, C
    <3>1. none \in Seq(BodyLines) /\ ~Scanned(none).code
      BY <2>3
    <3>2. /\ Blocks((none \o <<Heading(y)>>) \o c) = (Blocks(none) \o <<HeadBlock(y)>>) \o Blocks(c)
          /\ Scanned((none \o <<Heading(y)>>) \o c).code = Scanned(c).code
      BY <3>1, AroundHeading
    <3>3. QED
      BY <3>2 DEF x, hb, C
  <2>8. Assoc(a, x, c) /\ Assoc(B, hb, C)
    BY <2>4, <2>5, Associates
  <2>9. hb[1] = HeadBlock(y) /\ Len(hb) = 1 /\ Len(C) \in Nat
    BY <2>5, LenProperties
  <2> DEFINE D == hb \o C
  <2>10. /\ Len(D) = 1 + Len(C) /\ D[1] = HeadBlock(y)
    <3> DEFINE one == 1
    <3>1. /\ Len(D) = Len(hb) + Len(C)
          /\ \A i \in 1 .. Len(hb) + Len(C) : D[i] = IF i <= Len(hb) THEN hb[i] ELSE C[i - Len(hb)]
      BY <2>4, <2>5, ConcatProperties
    <3> HIDE DEF D, hb, C, one
    <3>2. one \in 1 .. Len(hb) + Len(C) /\ one <= Len(hb) /\ one = 1
      BY <2>9 DEF one
    <3>3. D[one] = hb[one]
      BY <3>1, <3>2
    <3>4. QED
      BY <2>9, <3>1, <3>2, <3>3
  <2> HIDE DEF none, x, hb, B, C, D
  <2>11. Blocks(d) = hb \o C /\ Scanned(d).code = Scanned(c).code
    BY <2>1, <2>3, <2>6, <2>7 DEF x
  <2>12. a \o d = (a \o x) \o c
    BY <2>1, <2>8 DEF Assoc, x
  <2>13. (B \o hb) \o C = B \o (hb \o C)
    BY <2>8 DEF Assoc
  <2>14. /\ a \o d \in Seq(BodyLines)
         /\ Blocks(a \o d) = B \o Blocks(d)
         /\ Scanned(a \o d).code = Scanned(d).code
    BY <2>2, <2>11, <2>12, <2>13
  <2>15. HeadFirst(Blocks(d))
    <3>3. HeadBlock(y).kind = "heading"
      BY HeadBlockFacts
    <3>4. Len(D) \in Nat \ {0}
      BY <2>9, <2>10
    <3>1. Blocks(d) = D /\ D[1].kind = "heading" /\ Len(D) \in Nat \ {0}
      BY <2>10, <2>11, <3>3, <3>4 DEF D
    <3>2. QED
      BY <3>1 DEF HeadFirst
  <2>16. QED
    BY <2>14, <2>15 DEF B
<1>3. QED
  BY <1>1, <1>2

\* A section ends at the next heading, or at the end.
LEMMA EndIs ==
    ASSUME NEW lines \in Seq(BodyLines), NEW h \in Headings(lines), NEW e, e = SectionEnd(lines, h)
    PROVE  /\ h \in 1 .. Len(lines) /\ e \in h + 1 .. Len(lines) + 1
           /\ e # Len(lines) + 1 => e \in Headings(lines)
           /\ \A j \in Headings(lines) : j > h => e <= j
<1> DEFINE S == {i \in Headings(lines) : i > h} \cup {Len(lines) + 1}
<1>1. Len(lines) \in Nat /\ h \in 1 .. Len(lines) /\ Headings(lines) \subseteq 1 .. Len(lines)
  BY LenProperties, HeadingFacts
<1>2. S \in SUBSET Nat /\ Len(lines) + 1 \in S
  BY <1>1
<1>3. e = First(S)
  BY DEF SectionEnd
<1> HIDE DEF S
<1>4. e \in S /\ \A j \in S : e <= j
  BY <1>2, <1>3, FirstExists
<1>5. QED
  BY <1>1, <1>4 DEF S

\* A body around a section: what is above it, its heading, its own lines, and
\* what is below.
SectionCut(lines, h, e) ==
    /\ h \in 1 .. Len(lines) /\ e \in h + 1 .. Len(lines) + 1
    /\ SubSeq(lines, 1, h - 1) \in Seq(BodyLines) /\ SubSeq(lines, h + 1, e - 1) \in Seq(BodyLines)
    /\ SubSeq(lines, e, Len(lines)) \in Seq(BodyLines)
    /\ ~Scanned(SubSeq(lines, 1, h - 1)).code
    /\ SubSeq(lines, 1, e - 1) = (SubSeq(lines, 1, h - 1) \o <<lines[h]>>) \o SubSeq(lines, h + 1, e - 1)
    /\ lines = SubSeq(lines, 1, e - 1) \o SubSeq(lines, e, Len(lines))
    /\ NoHead(Blocks(SubSeq(lines, h + 1, e - 1)))
    /\ StartsAfresh(SubSeq(lines, e, Len(lines)))
    /\ SubSeq(lines, e, Len(lines)) # <<>> => ~Scanned(SubSeq(lines, 1, e - 1)).code

LEMMA SectionParts ==
    ASSUME NEW lines \in Seq(BodyLines), NEW h \in Headings(lines), NEW e, e = SectionEnd(lines, h)
    PROVE  SectionCut(lines, h, e)
<1> DEFINE len == Len(lines)
           A == SubSeq(lines, 1, h - 1)
           C == SubSeq(lines, h + 1, e - 1)
           D == SubSeq(lines, e, len)
           P == SubSeq(lines, 1, e - 1)
<1>1. /\ len \in Nat /\ h \in 1 .. len /\ e \in h + 1 .. len + 1
      /\ e # len + 1 => e \in Headings(lines)
      /\ \A j \in Headings(lines) : j > h => e <= j
  BY EndIs, LenProperties
<1>2. /\ h \in 0 .. len /\ e - 1 \in h .. len /\ e - 1 \in 0 .. len /\ (e - 1) + 1 = e
  BY <1>1
<1>3. PICK x \in AnyHeader : lines[h] = Heading(x)
  BY HeadingFacts
<1>4. A \in Seq(BodyLines) /\ ~Scanned(A).code /\ SubSeq(lines, 1, h) = A \o <<lines[h]>>
  BY <1>1, HeadingFacts, CutAround
<1>5. /\ C \in Seq(BodyLines) /\ Len(C) = (e - 1) - h
      /\ \A i \in 1 .. (e - 1) - h : C[i] = lines[h + i]
      /\ P = SubSeq(lines, 1, h) \o C
  <2> DEFINE n == e - 1
  <2>1. h \in 0 .. Len(lines) /\ n \in h .. Len(lines)
    BY <1>2
  <2> HIDE DEF n
  <2>2. /\ SubSeq(lines, h + 1, n) \in Seq(BodyLines) /\ Len(SubSeq(lines, h + 1, n)) = n - h
        /\ \A i \in 1 .. n - h : SubSeq(lines, h + 1, n)[i] = lines[h + i]
        /\ SubSeq(lines, 1, n) = SubSeq(lines, 1, h) \o SubSeq(lines, h + 1, n)
    BY <2>1, CutMiddle
  <2>3. QED
    BY <2>2 DEF n
<1>6. /\ D \in Seq(BodyLines) /\ P \o D = lines /\ Len(D) = len - (e - 1)
  <2> DEFINE n == e - 1
  <2>1. n \in 0 .. Len(lines) /\ n + 1 = e
    BY <1>2
  <2> HIDE DEF n
  <2>2. CutAt(lines, n) /\ SubSeq(lines, n + 1, Len(lines)) \in Seq(BodyLines)
    BY <2>1, IsCut
  <2>3. QED
    BY <2>1, <2>2 DEF n, CutAt
<1> HIDE DEF A, C, D, P, len
<1>7. NoHead(Blocks(C))
  <2>1. SUFFICES ASSUME NEW i \in 1 .. Len(Blocks(C)), Blocks(C)[i].kind = "heading"
                 PROVE  FALSE
    BY DEF NoHead
  <2>2. PICK j \in Headings(C) : TRUE
    BY <1>5, <2>1, HeadsFrom DEF HeadsKnown, FromLine
  <2>3. j \in 1 .. Len(C) /\ C[j].kind = "heading" /\ ~Scanned(SubSeq(C, 1, j - 1)).code
    BY <1>5, HeadingFacts
  <2> DEFINE k == h + j
             n == k - 1
             Q == SubSeq(C, 1, j - 1)
             R == SubSeq(lines, h + 1, n)
  <2>4. /\ k \in 1 .. len /\ k > h /\ k < e /\ lines[k] = C[j] /\ k \in 1 .. len + 1
        /\ n \in h .. len /\ j - 1 \in 0 .. Len(C) /\ n - h = j - 1 /\ j - 1 \in Nat
    <3>1. lines[k] = C[j] /\ Len(C) = (e - 1) - h
      BY <1>5, <2>3
    <3>2. /\ len \in Nat /\ h \in Nat /\ e \in Nat /\ j \in Nat
          /\ 1 <= h /\ h < e /\ e <= len + 1 /\ 1 <= j /\ j <= (e - 1) - h
      <4>1. Len(C) \in Nat /\ j \in Nat /\ 1 <= j /\ j <= Len(C)
        BY <1>5, <2>3, LenProperties
      <4>2. len \in Nat /\ h \in Nat /\ e \in Nat /\ 1 <= h /\ h < e /\ e <= len + 1
        BY <1>1
      <4>3. QED
        BY <3>1, <4>1, <4>2
    <3>3. QED
      BY <3>1, <3>2
  <2>5. /\ Q \in Seq(BodyLines) /\ Len(Q) = j - 1 /\ \A m \in 1 .. j - 1 : Q[m] = C[m]
    <3> DEFINE p == j - 1
    <3>1. p \in 0 .. Len(C)
      BY <2>4
    <3>2. CutAt(C, p) /\ SubSeq(C, 1, p) \in Seq(BodyLines)
      BY <1>5, <3>1, IsCut
    <3>3. QED
      BY <3>2 DEF CutAt
  <2>6. /\ R \in Seq(BodyLines) /\ Len(R) = n - h /\ \A m \in 1 .. n - h : R[m] = lines[h + m]
        /\ SubSeq(lines, 1, n) = SubSeq(lines, 1, h) \o R
    <3>1. h \in 0 .. Len(lines) /\ n \in h .. Len(lines)
      BY <1>2, <2>4 DEF len
    <3> HIDE DEF n
    <3>2. QED
      BY <3>1, CutMiddle
  <2> HIDE DEF Q, R, k, n
  <2>7. Q = R
    <3>1. Len(Q) = Len(R)
      BY <2>4, <2>5, <2>6
    <3>2. ASSUME NEW m \in 1 .. Len(Q)
          PROVE  Q[m] = R[m]
      <4>1. m \in 1 .. j - 1 /\ m \in 1 .. n - h /\ m \in 1 .. (e - 1) - h
        <5>1. Len(C) = (e - 1) - h /\ j \in 1 .. Len(C) /\ Len(Q) = j - 1 /\ n - h = j - 1
          BY <1>5, <2>3, <2>4, <2>5
        <5>2. e \in Int /\ h \in Int
          BY <1>1
        <5>3. QED
          BY <5>1, <5>2
      <4>2. QED
        BY <1>5, <2>5, <2>6, <4>1
    <3>3. QED
      BY <2>5, <2>6, <3>1, <3>2, SeqEqual
  <2>8. SubSeq(lines, 1, n) = (A \o <<Heading(x)>>) \o Q
    BY <1>3, <1>4, <2>6, <2>7
  <2>9. Scanned(SubSeq(lines, 1, n)).code = Scanned(Q).code
    <3>1. Scanned((A \o <<Heading(x)>>) \o Q).code = Scanned(Q).code
      BY <1>4, <2>5, AroundHeading
    <3>2. QED
      BY <2>8, <3>1
  <2>10. ~Scanned(SubSeq(lines, 1, k - 1)).code
    BY <2>3, <2>9 DEF Q, n
  <2>11. ~InCode(lines, k)
    BY <2>4, <2>10, CodeAt DEF len
  <2>12. k \in Headings(lines)
    <3>1. DOMAIN lines = 1 .. len
      BY LenProperties DEF len
    <3>2. QED
      BY <2>3, <2>4, <2>11, <3>1 DEF Headings
  <2>13. QED
    BY <1>1, <2>4, <2>12
<1>8. CASE e = len + 1
  <2>1. Len(D) = 0
    BY <1>1, <1>6, <1>8
  <2>2. D = <<>>
    BY <1>6, <2>1, EmptySeq
  <2>3. StartsAfresh(D)
    BY <2>2 DEF StartsAfresh
  <2>4. lines = P \o D /\ P = (A \o <<lines[h]>>) \o C
    BY <1>4, <1>5, <1>6
  <2> HIDE DEF NoHead, StartsAfresh
  <2>5. QED
    BY <1>1, <1>4, <1>5, <1>6, <1>7, <2>2, <2>3, <2>4 DEF SectionCut, A, C, D, P, len
<1>9. CASE e # len + 1
  <2>1. e \in Headings(lines) /\ e \in 1 .. len
    BY <1>1, <1>9
  <2>2. PICK y \in AnyHeader : lines[e] = Heading(y)
    BY <2>1, HeadingFacts
  <2>3. ~Scanned(P).code
    BY <2>1, HeadingFacts DEF P
  <2>4. /\ SubSeq(lines, e + 1, len) \in Seq(BodyLines)
        /\ D = <<lines[e]>> \o SubSeq(lines, e + 1, len)
    <3>1. e \in 1 .. Len(lines)
      BY <2>1 DEF len
    <3>2. FirstApart(lines, e) /\ SubSeq(lines, e + 1, Len(lines)) \in Seq(BodyLines)
      BY <3>1, CutFirst
    <3>3. QED
      BY <3>2 DEF D, len, FirstApart
  <2>5. StartsAfresh(D)
    BY <2>2, <2>4 DEF StartsAfresh
  <2>6. lines = P \o D /\ P = (A \o <<lines[h]>>) \o C
    BY <1>4, <1>5, <1>6
  <2> HIDE DEF NoHead, StartsAfresh
  <2>7. QED
    BY <1>1, <1>4, <1>5, <1>6, <1>7, <2>3, <2>5, <2>6 DEF SectionCut, A, C, D, P, len
<1>10. QED
  BY <1>8, <1>9

-----------------------------------------------------------------------------
(* Blank lines at the end. *)

LEMMA BlankAfter ==
    ASSUME NEW l \in Seq(BodyLines)
    PROVE  /\ Append(l, Blank) \in Seq(BodyLines)
           /\ Scanned(Append(l, Blank)).code = Scanned(l).code
           /\ ~Scanned(l).code => /\ Blocks(Append(l, Blank)) = Blocks(l)
                                  /\ Scanned(Append(l, Blank)).gap = TRUE
<1> DEFINE more == Append(l, Blank)
           s == Scanned(l)
<1>1. Blank \in BodyLines /\ Blank.kind = "blank"
  BY LinesAreLines
<1>2. more \in Seq(BodyLines) /\ Scanned(more) = Observe(s, Blank)
  BY <1>1, AppendProperties, ScannedMore
<1>3. s \in Scans /\ Blocks(l) = s.blocks
  BY ScannedType
<1> HIDE DEF more, s
<1>4. Observe(s, Blank).code = s.code
  BY <1>1, <1>3, ObserveForms
<1>5. ~s.code => Observe(s, Blank) = Scan(s.blocks, FALSE, TRUE)
  BY <1>1, <1>3, ObserveIs
<1>6. Scan(s.blocks, FALSE, TRUE).blocks = s.blocks /\ Scan(s.blocks, FALSE, TRUE).gap = TRUE
  BY DEF Scan
<1>7. ~s.code => Blocks(more) = Blocks(l) /\ Scanned(more).gap = TRUE
  BY <1>2, <1>3, <1>5, <1>6 DEF Blocks
<1>8. QED
  BY <1>2, <1>4, <1>7 DEF more, s

LEMMA Blanks ==
    ASSUME NEW l \in Seq(BodyLines), NEW b \in Seq({Blank})
    PROVE  /\ l \o b \in Seq(BodyLines)
           /\ Scanned(l \o b).code = Scanned(l).code
           /\ ~Scanned(l).code => Blocks(l \o b) = Blocks(l)
<1> DEFINE Good(c) == /\ l \o c \in Seq(BodyLines)
                      /\ Scanned(l \o c).code = Scanned(l).code
                      /\ ~Scanned(l).code => Blocks(l \o c) = Blocks(l)
           G == {c \in Seq({Blank}) : Good(c)}
<1>1. <<>> \in G
  <2> DEFINE none == <<>>
  <2>1. none \in Seq({Blank}) /\ l \o none = l
    BY ConcatEmptySeq, EmptySeq
  <2> HIDE DEF none
  <2>2. Good(none)
    BY <2>1
  <2>3. QED
    BY <2>1, <2>2 DEF none
<1>2. ASSUME NEW c \in G, NEW x \in {Blank}
      PROVE  Append(c, x) \in G
  <2> DEFINE more == Append(c, x)
             both == l \o c
             one == <<x>>
  <2>1. c \in Seq({Blank}) /\ Good(c) /\ x = Blank
    OBVIOUS
  <2>2. Blank \in BodyLines
    BY LinesAreLines
  <2>3. {Blank} \subseteq BodyLines
    BY <2>2
  <2>4. c \in Seq(BodyLines) /\ one \in Seq(BodyLines)
    <3>1. c \in Seq(BodyLines)
      BY <2>1, <2>3, SeqMonotonic
    <3>2. one \in Seq(BodyLines)
      BY <2>1, <2>2
    <3>3. QED
      BY <3>1, <3>2
  <2>5. more \in Seq({Blank}) /\ more = c \o one
    BY <2>1, AppendProperties, AppendIsConcat
  <2>6. both \in Seq(BodyLines) /\ Append(both, x) = both \o one
    BY <2>1, <2>2, AppendIsConcat
  <2>7. Assoc(l, c, one)
    BY <2>4, Associates
  <2>8. l \o more = Append(both, x)
    BY <2>5, <2>6, <2>7 DEF Assoc
  <2> HIDE DEF more, one
  <2>9. /\ Append(both, Blank) \in Seq(BodyLines)
        /\ Scanned(Append(both, Blank)).code = Scanned(both).code
        /\ ~Scanned(both).code => Blocks(Append(both, Blank)) = Blocks(both)
    <3> HIDE DEF both
    <3>1. QED
      BY <2>6, BlankAfter
  <2>10. /\ Scanned(both).code = Scanned(l).code
         /\ ~Scanned(l).code => Blocks(both) = Blocks(l)
    BY <2>1
  <2> HIDE DEF both
  <2>11. Good(more)
    BY <2>1, <2>8, <2>9, <2>10
  <2> HIDE DEF Good
  <2>12. QED
    BY <2>5, <2>11 DEF more
<1> HIDE DEF Good
<1>3. G = Seq({Blank})
  <2> HIDE DEF G
  <2>1. G \in SUBSET Seq({Blank})
    BY DEF G
  <2>2. QED
    BY <1>1, <1>2, <2>1, Appending
<1>4. Good(b)
  BY <1>3
<1>5. QED
  BY <1>4 DEF Good

LEMMA TrimFacts ==
    ASSUME NEW l \in Seq(BodyLines), l # <<>>
    PROVE  /\ Trimmed(l) \in Seq(BodyLines) /\ Trimmed(l) # <<>>
           /\ Len(Trimmed(l)) \in 1 .. Len(l)
           /\ \A i \in 1 .. Len(Trimmed(l)) : Trimmed(l)[i] = l[i]
           /\ \E b \in Seq({Blank}) : l = Trimmed(l) \o b
           /\ Len(Trimmed(l)) # 1 => Trimmed(l)[Len(Trimmed(l))].kind # "blank"
           /\ Scanned(Trimmed(l)).code = Scanned(l).code
           /\ ~Scanned(l).code => Blocks(Trimmed(l)) = Blocks(l)
<1> DEFINE len == Len(l)
           S == {1} \cup {i \in DOMAIN l : l[i].kind # "blank"}
           n == Last(S)
           T == SubSeq(l, 1, n)
           b == SubSeq(l, n + 1, len)
<1>1. len \in Nat /\ len # 0 /\ DOMAIN l = 1 .. len
  BY EmptySeq, LenProperties
<1>2. S \in SUBSET Nat /\ S # {} /\ \A j \in S : j <= len /\ j >= 1
  BY <1>1
<1>3. Trimmed(l) = T
  BY DEF Trimmed
<1> HIDE DEF S
<1>4. n \in S /\ \A j \in S : j <= n
  BY <1>1, <1>2, LastExists
<1> HIDE DEF n, len
<1>50. n \in Nat /\ n <= len /\ n >= 1
  BY <1>2, <1>4
<1>51. n \in 1 .. len /\ n \in 0 .. len /\ n \in Nat
  BY <1>1, <1>50
<1>5. n \in 1 .. len /\ n \in 0 .. Len(l) /\ n \in Nat
  BY <1>51 DEF len
<1> USE DEF len
<1>6. /\ T \in Seq(BodyLines) /\ Len(T) = n /\ \A i \in 1 .. n : T[i] = l[i]
      /\ b \in Seq(BodyLines) /\ Len(b) = len - n /\ \A i \in 1 .. len - n : b[i] = l[n + i]
      /\ T \o b = l
  BY <1>5, Cut
<1> HIDE DEF T, b
<1>7. b \in Seq({Blank})
  <2>1. ASSUME NEW i \in 1 .. Len(b)
        PROVE  b[i] \in {Blank}
    <3>1. i \in 1 .. len - n /\ n + i \in 1 .. len /\ n + i > n
      BY <1>1, <1>5, <1>6
    <3>2. b[i] = l[n + i] /\ l[n + i] \in BodyLines
      BY <1>6, <3>1, ElementOfSeq DEF len
    <3>3. n + i \notin S
      BY <1>4, <1>5, <3>1
    <3>4. l[n + i].kind = "blank"
      BY <1>1, <3>1, <3>3 DEF S
    <3>5. l[n + i] = Blank
      BY <3>2, <3>4, BodyLineKinds
    <3>6. QED
      BY <3>2, <3>5
  <2>2. b \in [1 .. Len(b) -> BodyLines] /\ Len(b) \in Nat
    BY <1>6, LenProperties
  <2>3. b \in [1 .. Len(b) -> {Blank}]
    BY <2>1, <2>2
  <2>4. QED
    BY <2>2, <2>3
<1>8. T # <<>>
  BY <1>5, <1>6, EmptySeq
<1>9. n # 1 => T[n].kind # "blank"
  BY <1>4, <1>5, <1>6 DEF S
<1>10. /\ Scanned(T \o b).code = Scanned(T).code
       /\ ~Scanned(T).code => Blocks(T \o b) = Blocks(T)
  BY <1>6, <1>7, Blanks
<1>11. /\ Scanned(T).code = Scanned(l).code
       /\ ~Scanned(l).code => Blocks(T) = Blocks(l)
  BY <1>6, <1>10
<1>12. \E c \in Seq({Blank}) : l = T \o c
  BY <1>6, <1>7
<1>13. QED
  BY <1>3, <1>5, <1>6, <1>8, <1>9, <1>11, <1>12 DEF len

-----------------------------------------------------------------------------
(* The texts of blocks. *)

TextsOf(blocks) == Joined([i \in DOMAIN blocks |-> blocks[i].texts])

LEMMA TextParts ==
    ASSUME NEW b \in Seq(AnyBlock)
    PROVE  /\ [i \in DOMAIN b |-> b[i].texts] \in Seq(Seq(AnyText))
           /\ Len([i \in DOMAIN b |-> b[i].texts]) = Len(b)
           /\ \A i \in 1 .. Len(b) : [j \in DOMAIN b |-> b[j].texts][i] = b[i].texts
           /\ TextsOf(b) \in Seq(AnyText)
<1> DEFINE n == Len(b)
           parts == [i \in DOMAIN b |-> b[i].texts]
<1>1. n \in Nat /\ DOMAIN b = 1 .. n
  BY LenProperties
<1>2. \A i \in 1 .. n : b[i] \in AnyBlock
  BY ElementOfSeq
<1>3. \A i \in 1 .. n : b[i].texts \in Seq(AnyText)
  BY <1>2, AnyBlockFacts
<1> HIDE DEF n
<1>4. parts \in [1 .. n -> Seq(AnyText)] /\ \A i \in 1 .. n : parts[i] = b[i].texts
  BY <1>1, <1>3
<1> HIDE DEF parts
<1>5. parts \in Seq(Seq(AnyText)) /\ Len(parts) = n
  BY <1>1, <1>4
<1>6. Joined(parts) \in Seq(AnyText)
  BY <1>5, JoinedType
<1>7. TextsOf(b) = Joined(parts)
  BY DEF TextsOf, parts
<1>8. QED
  BY <1>4, <1>5, <1>6, <1>7 DEF parts, n

LEMMA NoTexts == TextsOf(<<>>) = <<>>
<1> DEFINE none == <<>>
           parts == [i \in DOMAIN none |-> none[i].texts]
<1>1. none \in Seq(AnyBlock) /\ Len(none) = 0
  BY EmptySeq
<1>2. TextsOf(none) = Joined(parts)
  BY DEF TextsOf
<1> HIDE DEF none
<1>3. parts \in Seq(Seq(AnyText)) /\ Len(parts) = 0
  BY <1>1, TextParts
<1> HIDE DEF parts
<1>4. parts = <<>>
  BY <1>3, EmptySeq
<1>5. QED
  BY <1>2, <1>4, JoinedNone DEF none

LEMMA TextsOfMore ==
    ASSUME NEW b \in Seq(AnyBlock), NEW c \in AnyBlock
    PROVE  TextsOf(Append(b, c)) = TextsOf(b) \o c.texts
<1> DEFINE n == Len(b)
           more == Append(b, c)
           old == [i \in DOMAIN b |-> b[i].texts]
           new == [i \in DOMAIN more |-> more[i].texts]
           longer == Append(old, c.texts)
<1>1. /\ n \in Nat /\ more \in Seq(AnyBlock) /\ Len(more) = n + 1
      /\ \A i \in 1 .. n : more[i] = b[i]
      /\ more[n + 1] = c
  BY AppendProperties, LenProperties
<1>2. c.texts \in Seq(AnyText)
  BY AnyBlockFacts
<1>3. old \in Seq(Seq(AnyText)) /\ Len(old) = n /\ \A i \in 1 .. n : old[i] = b[i].texts
  BY TextParts
<1>9. TextsOf(more) = Joined(new) /\ TextsOf(b) = Joined(old)
  BY DEF TextsOf
<1> HIDE DEF more
<1>4. new \in Seq(Seq(AnyText)) /\ Len(new) = n + 1 /\ \A i \in 1 .. n + 1 : new[i] = more[i].texts
  BY <1>1, TextParts
<1> HIDE DEF old, new
<1>5. /\ longer \in Seq(Seq(AnyText)) /\ Len(longer) = n + 1
      /\ \A i \in 1 .. n : longer[i] = old[i]
      /\ longer[n + 1] = c.texts
  BY <1>2, <1>3, AppendProperties
<1>6. Joined(longer) = Joined(old) \o c.texts
  BY <1>2, <1>3, JoinedMore
<1> HIDE DEF longer, n
<1>7. \A i \in 1 .. Len(new) : new[i] = longer[i]
  <2>1. SUFFICES ASSUME NEW i \in 1 .. n + 1 PROVE new[i] = longer[i]
    BY <1>4
  <2>2. CASE i = n + 1
    BY <1>1, <1>4, <1>5, <2>2
  <2>3. CASE i # n + 1
    <3>1. i \in 1 .. n
      BY <1>1, <2>3
    <3>2. QED
      BY <1>1, <1>3, <1>4, <1>5, <3>1
  <2>4. QED
    BY <2>2, <2>3
<1>8. new = longer
  BY <1>4, <1>5, <1>7, SeqEqual
<1>10. QED
  BY <1>6, <1>8, <1>9 DEF more

\* The last block and those before it.
LEMMA LastBlock ==
    ASSUME NEW b \in Seq(AnyBlock), b # <<>>
    PROVE  \E front \in Seq(AnyBlock) :
              /\ b = Append(front, Top(b))
              /\ \A texts \in Seq(AnyText) : texts # <<>> =>
                    Longer(b, texts) = Append(front, BlockOf(Top(b).kind, texts))
<1>1. PICK front \in Seq(AnyBlock), last \in AnyBlock : b = Append(front, last)
  BY SequenceEmptyOrAppend
<1>2. /\ Len(b) = Len(front) + 1 /\ Len(front) \in Nat
      /\ \A i \in 1 .. Len(front) : b[i] = front[i]
      /\ b[Len(front) + 1] = last
  BY <1>1, AppendProperties, LenProperties
<1>3. Top(b) = last
  BY <1>2 DEF Top
<1>4. ASSUME NEW texts \in Seq(AnyText), texts # <<>>
      PROVE  Longer(b, texts) = Append(front, BlockOf(Top(b).kind, texts))
  <2> DEFINE c == BlockOf(Top(b).kind, texts)
             one == Longer(b, texts)
             other == Append(front, c)
  <2>1. /\ one \in Seq(AnyBlock) /\ Len(one) = Len(b) /\ c \in AnyBlock
        /\ \A i \in 1 .. Len(b) : one[i] = IF i = Len(b) THEN c ELSE b[i]
    BY <1>4, LongerFacts
  <2> HIDE DEF c, one
  <2>2. /\ other \in Seq(AnyBlock) /\ Len(other) = Len(front) + 1
        /\ \A i \in 1 .. Len(front) : other[i] = front[i]
        /\ other[Len(front) + 1] = c
    BY <2>1, AppendProperties
  <2> HIDE DEF other
  <2>3. ASSUME NEW i \in 1 .. Len(one)
        PROVE  one[i] = other[i]
    <3>1. CASE i = Len(front) + 1
      BY <1>2, <2>1, <2>2, <3>1
    <3>2. CASE i # Len(front) + 1
      <4>1. i \in 1 .. Len(front) /\ i # Len(b) /\ i \in 1 .. Len(b)
        BY <1>2, <2>1, <3>2
      <4>2. QED
        BY <1>2, <2>1, <2>2, <4>1
    <3>3. QED
      BY <3>1, <3>2
  <2>4. one = other
    BY <1>2, <2>1, <2>2, <2>3, SeqEqual
  <2>5. QED
    BY <2>4 DEF one, other, c
<1>5. QED
  BY <1>1, <1>3, <1>4

LEMMA TextsOfLonger ==
    ASSUME NEW b \in Seq(AnyBlock), b # <<>>, NEW text \in AnyText
    PROVE  TextsOf(Longer(b, Append(Top(b).texts, text))) = Append(TextsOf(b), text)
<1> DEFINE old == Top(b).texts
           texts == Append(old, text)
           last == BlockOf(Top(b).kind, texts)
           one == <<text>>
<1>1. PICK front \in Seq(AnyBlock) :
         /\ b = Append(front, Top(b))
         /\ \A more \in Seq(AnyText) : more # <<>> =>
               Longer(b, more) = Append(front, BlockOf(Top(b).kind, more))
  BY LastBlock
<1>2. Top(b) \in AnyBlock
  BY TopFacts
<1>3. old \in Seq(AnyText) /\ Top(b).kind \in BlockKinds
  BY <1>2, AnyBlockFacts
<1>4. texts \in Seq(AnyText) /\ texts # <<>> /\ texts = old \o one
  BY <1>3, MoreFacts, AppendIsConcat
<1>5. one \in Seq(AnyText)
  BY OneText
<1>12. TextsOf(front) \in Seq(AnyText) /\ TextsOf(b) \in Seq(AnyText)
  BY TextParts
<1> HIDE DEF texts, one
<1>6. last \in AnyBlock /\ last.texts = texts
  BY <1>3, <1>4, BlockOfFacts
<1>7. Longer(b, texts) = Append(front, last)
  BY <1>1, <1>4
<1> HIDE DEF last
<1>8. TextsOf(Append(front, last)) = TextsOf(front) \o texts
  BY <1>6, TextsOfMore
<1>9. TextsOf(b) = TextsOf(front) \o old
  BY <1>1, <1>2, TextsOfMore
<1> HIDE DEF old
<1>10. Assoc(TextsOf(front), old, one)
  BY <1>3, <1>5, <1>12, Associates
<1>11. Append(TextsOf(b), text) = TextsOf(b) \o one
  BY <1>12, AppendIsConcat DEF one
<1>13. TextsOf(Longer(b, texts)) = Append(TextsOf(b), text)
  BY <1>4, <1>7, <1>8, <1>9, <1>10, <1>11 DEF Assoc
<1>14. QED
  BY <1>13 DEF texts, old

LEMMA TextsOfOpened ==
    ASSUME NEW b \in Seq(AnyBlock), NEW kind \in BlockKinds, NEW text \in AnyText
    PROVE  TextsOf(Opened(b, kind, text)) = Append(TextsOf(b), text)
<1> DEFINE c == BlockOf(kind, <<text>>)
<1>1. Opened(b, kind, text) = Append(b, c) /\ c \in AnyBlock /\ c.texts = <<text>>
  BY OpenedFacts, OneText, BlockOfFacts
<1>2. TextsOf(b) \in Seq(AnyText)
  BY TextParts
<1> HIDE DEF c
<1>3. TextsOf(Append(b, c)) = TextsOf(b) \o c.texts
  BY <1>1, TextsOfMore
<1>4. Append(TextsOf(b), text) = TextsOf(b) \o <<text>>
  BY <1>2, AppendIsConcat
<1>5. QED
  BY <1>1, <1>3, <1>4

-----------------------------------------------------------------------------
(* Items at the end of a section. *)

Heads == {b \in Seq(AnyBlock) : b # <<>> /\ Top(b).kind = "heading"}

\* The lines end in a section that says these texts, and not in code.
Ready(l, pre, texts) ==
    /\ l \in Seq(BodyLines) /\ ~Scanned(l).code
    /\ \E own \in Seq(AnyBlock) : Blocks(l) = pre \o own /\ NoHead(own) /\ TextsOf(own) = texts

Styles == {"bullet", "number", "paragraph"}

LEMMA ReadyBlank ==
    ASSUME NEW l, NEW pre, NEW texts, Ready(l, pre, texts)
    PROVE  Ready(Append(l, Blank), pre, texts) /\ Scanned(Append(l, Blank)).gap = TRUE
<1>1. /\ l \in Seq(BodyLines) /\ ~Scanned(l).code
      /\ \E own \in Seq(AnyBlock) : Blocks(l) = pre \o own /\ NoHead(own) /\ TextsOf(own) = texts
  BY DEF Ready
<1> DEFINE more == Append(l, Blank)
<1>2. /\ more \in Seq(BodyLines) /\ ~Scanned(more).code /\ Blocks(more) = Blocks(l)
      /\ Scanned(more).gap = TRUE
  BY <1>1, BlankAfter
<1> HIDE DEF more
<1>3. \E own \in Seq(AnyBlock) : Blocks(more) = pre \o own /\ NoHead(own) /\ TextsOf(own) = texts
  BY <1>1, <1>2
<1>4. Ready(more, pre, texts)
  BY <1>2, <1>3 DEF Ready
<1>5. QED
  BY <1>2, <1>4 DEF more

LEMMA OpenedAfter ==
    ASSUME NEW pre \in Seq(AnyBlock), NEW own \in Seq(AnyBlock), NoHead(own),
           NEW kind \in Styles, NEW text \in AnyText
    PROVE  \E new \in Seq(AnyBlock) :
              /\ Opened(pre \o own, kind, text) = pre \o new
              /\ NoHead(new) /\ TextsOf(new) = Append(TextsOf(own), text)
<1> DEFINE new == Opened(own, kind, text)
           b == BlockOf(kind, <<text>>)
<1>1. kind \in BlockKinds /\ kind # "heading"
  BY DEF Styles, BlockKinds
<1>2. /\ new \in Seq(AnyBlock) /\ new = Append(own, b) /\ b \in AnyBlock /\ b.kind = kind
  BY <1>1, OpenedFacts, OneText, BlockOfFacts
<1>3. TextsOf(new) = Append(TextsOf(own), text)
  BY <1>1, TextsOfOpened
<1>4. Opened(pre \o own, kind, text) = pre \o new
  BY <1>1, PreOpened
<1> HIDE DEF new, b
<1>5. /\ Len(new) = Len(own) + 1 /\ Len(own) \in Nat
      /\ \A i \in 1 .. Len(own) : new[i] = own[i]
      /\ new[Len(own) + 1] = b
  BY <1>2, AppendProperties, LenProperties
<1>6. NoHead(new)
  <2>1. ASSUME NEW i \in 1 .. Len(new)
        PROVE  new[i].kind # "heading"
    <3>1. CASE i = Len(own) + 1
      BY <1>1, <1>2, <1>5, <3>1
    <3>2. CASE i # Len(own) + 1
      <4>1. i \in 1 .. Len(own)
        BY <1>5, <3>2
      <4>2. QED
        BY <1>5, <4>1 DEF NoHead
    <3>3. QED
      BY <3>1, <3>2
  <2>2. QED
    BY <2>1 DEF NoHead
<1>7. QED
  BY <1>2, <1>3, <1>4, <1>6

LEMMA LongerAfter ==
    ASSUME NEW pre \in Seq(AnyBlock), NEW own \in Seq(AnyBlock), own # <<>>, NoHead(own), NEW text \in AnyText
    PROVE  \E new \in Seq(AnyBlock) :
              /\ Longer(pre \o own, Append(Top(pre \o own).texts, text)) = pre \o new
              /\ NoHead(new) /\ TextsOf(new) = Append(TextsOf(own), text)
<1> DEFINE texts == Append(Top(own).texts, text)
           new == Longer(own, texts)
           b == BlockOf(Top(own).kind, texts)
<1>1. Top(pre \o own) = Top(own)
  BY PreTop
<1>2. Top(own) \in AnyBlock /\ Len(own) \in Nat /\ Len(own) \in 1 .. Len(own) /\ Top(own) = own[Len(own)]
  BY TopFacts
<1>3. texts \in Seq(AnyText) /\ texts # <<>>
  BY <1>2, AnyBlockFacts, MoreFacts
<1>4. TextsOf(new) = Append(TextsOf(own), text)
  BY TextsOfLonger
<1> HIDE DEF texts
<1>5. pre \o new = Longer(pre \o own, texts)
  BY <1>3, PreLonger
<1>6. /\ new \in Seq(AnyBlock) /\ Len(new) = Len(own)
      /\ \A i \in 1 .. Len(own) : new[i] = IF i = Len(own) THEN b ELSE own[i]
  BY <1>3, LongerFacts
<1>7. b.kind # "heading"
  BY <1>2 DEF BlockOf, NoHead
<1> HIDE DEF new, b
<1>8. NoHead(new)
  BY <1>6, <1>7 DEF NoHead
<1>9. QED
  BY <1>1, <1>4, <1>5, <1>6, <1>8 DEF texts

\* An item is a text of its own.
LEMMA ReadyItem ==
    ASSUME NEW pre \in Heads, NEW texts, NEW l, Ready(l, pre, texts),
           NEW style \in {"bullet", "number"}, NEW text \in Text
    PROVE  Ready(Append(l, Line(style, text)), pre, Append(texts, text))
<1> DEFINE x == Line(style, text)
           more == Append(l, x)
           s == Scanned(l)
           new == Scanned(more)
<1>1. x \in BodyLines /\ x.kind = style /\ x.text = text
  BY LinesAreLines
<1>2. text \in AnyText
  BY <1>1, BodyLineKinds
<1>3. /\ l \in Seq(BodyLines) /\ ~s.code
      /\ \E own \in Seq(AnyBlock) : Blocks(l) = pre \o own /\ NoHead(own) /\ TextsOf(own) = texts
  BY DEF Ready
<1>4. PICK own \in Seq(AnyBlock) : Blocks(l) = pre \o own /\ NoHead(own) /\ TextsOf(own) = texts
  BY <1>3
<1>5. /\ more \in Seq(BodyLines) /\ new = Observe(s, x)
  BY <1>1, <1>3, AppendProperties, ScannedMore
<1>6. s \in Scans /\ s.blocks = Blocks(l) /\ Blocks(l) \in Seq(AnyBlock)
  BY <1>3, ScannedType
<1>7. Blocks(more) = new.blocks
  BY DEF Blocks
<1>8. pre \in Seq(AnyBlock) /\ Top(pre).kind = "heading"
  BY DEF Heads
<1> DEFINE B == Blocks(l)
<1> HIDE DEF x, more, s, new, B
<1>9. x.kind \in {"bullet", "number"} /\ style \in Styles /\ style # "heading" /\ x.kind # "fence"
  BY <1>1 DEF Styles
<1>10. ~new.code
  <2>1. new.code = (IF x.kind = "fence" THEN ~s.code ELSE s.code)
    BY <1>1, <1>5, <1>6, ObserveForms
  <2>2. QED
    BY <1>3, <1>9, <2>1
<1>11. \E more2 \in Seq(AnyBlock) :
          new.blocks = pre \o more2 /\ NoHead(more2) /\ TextsOf(more2) = Append(TextsOf(own), text)
  <2>1. CASE Top(B).kind = style
    <3>1. new = Scan(Longer(B, Append(Top(B).texts, x.text)), FALSE, FALSE)
      BY <1>1, <1>3, <1>5, <1>6, <1>9, <2>1, ObserveIs DEF B
    <3>2. new.blocks = Longer(B, Append(Top(B).texts, text))
      BY <1>1, <3>1 DEF Scan
    <3>3. own # <<>>
      <4>1. own = <<>> => pre \o own = pre
        BY <1>8, PreTop
      <4>2. Top(B) = Top(pre \o own)
        BY <1>4 DEF B
      <4>3. QED
        BY <1>8, <1>9, <2>1, <4>1, <4>2
    <3>4. PICK more2 \in Seq(AnyBlock) :
             /\ Longer(pre \o own, Append(Top(pre \o own).texts, text)) = pre \o more2
             /\ NoHead(more2) /\ TextsOf(more2) = Append(TextsOf(own), text)
      BY <1>2, <1>4, <1>8, <3>3, LongerAfter
    <3>5. B = pre \o own
      BY <1>4 DEF B
    <3>6. new.blocks = pre \o more2
      BY <3>2, <3>4, <3>5
    <3>7. QED
      BY <3>4, <3>6
  <2>2. CASE Top(B).kind # style
    <3>1. new = Scan(Opened(B, x.kind, x.text), FALSE, FALSE)
      BY <1>1, <1>3, <1>5, <1>6, <1>9, <2>2, ObserveIs DEF B
    <3>2. new.blocks = Opened(B, style, text)
      BY <1>1, <3>1 DEF Scan
    <3>3. PICK more2 \in Seq(AnyBlock) :
             /\ Opened(pre \o own, style, text) = pre \o more2
             /\ NoHead(more2) /\ TextsOf(more2) = Append(TextsOf(own), text)
      BY <1>2, <1>4, <1>8, <1>9, OpenedAfter
    <3>4. B = pre \o own
      BY <1>4 DEF B
    <3>5. new.blocks = pre \o more2
      BY <3>2, <3>3, <3>4
    <3>6. QED
      BY <3>3, <3>5
  <2>3. QED
    BY <2>1, <2>2
<1>12. \E more2 \in Seq(AnyBlock) :
          Blocks(more) = pre \o more2 /\ NoHead(more2) /\ TextsOf(more2) = Append(texts, text)
  BY <1>4, <1>7, <1>11
<1>13. Ready(more, pre, Append(texts, text))
  BY <1>5, <1>10, <1>12 DEF Ready, new
<1>14. QED
  BY <1>13 DEF more, x

\* So is a paragraph after a blank line.
LEMMA ReadyParagraph ==
    ASSUME NEW pre \in Heads, NEW texts, NEW l, Ready(l, pre, texts), Scanned(l).gap = TRUE, NEW text \in Text
    PROVE  Ready(Append(l, Line("paragraph", text)), pre, Append(texts, text))
<1> DEFINE x == Line("paragraph", text)
           more == Append(l, x)
           s == Scanned(l)
           new == Scanned(more)
           B == Blocks(l)
<1>1. x \in BodyLines /\ x.kind = "paragraph" /\ x.text = text
  BY LinesAreLines
<1>2. text \in AnyText
  BY <1>1, BodyLineKinds
<1>3. /\ l \in Seq(BodyLines) /\ ~s.code /\ s.gap = TRUE
      /\ \E own \in Seq(AnyBlock) : B = pre \o own /\ NoHead(own) /\ TextsOf(own) = texts
  BY DEF Ready
<1>4. PICK own \in Seq(AnyBlock) : B = pre \o own /\ NoHead(own) /\ TextsOf(own) = texts
  BY <1>3
<1>5. /\ more \in Seq(BodyLines) /\ new = Observe(s, x)
  BY <1>1, <1>3, AppendProperties, ScannedMore
<1>6. s \in Scans /\ s.blocks = B /\ B \in Seq(AnyBlock)
  BY <1>3, ScannedType
<1>7. Blocks(more) = new.blocks
  BY DEF Blocks
<1>8. pre \in Seq(AnyBlock)
  BY DEF Heads
<1> HIDE DEF x, more, s, new, B
<1>9. new = Scan(Opened(B, "paragraph", x.text), FALSE, FALSE)
  BY <1>1, <1>3, <1>5, <1>6, ObserveIs
<1>10. new.blocks = Opened(B, "paragraph", text) /\ ~new.code
  BY <1>1, <1>9 DEF Scan
<1>11. "paragraph" \in Styles
  BY DEF Styles
<1>12. PICK more2 \in Seq(AnyBlock) :
          /\ Opened(pre \o own, "paragraph", text) = pre \o more2
          /\ NoHead(more2) /\ TextsOf(more2) = Append(TextsOf(own), text)
  BY <1>2, <1>4, <1>8, <1>11, OpenedAfter
<1>13. Blocks(more) = pre \o more2 /\ TextsOf(more2) = Append(texts, text)
  BY <1>4, <1>7, <1>10, <1>12
<1>14. Ready(more, pre, Append(texts, text))
  BY <1>5, <1>10, <1>12, <1>13 DEF Ready, new
<1>15. QED
  BY <1>14 DEF more, x

Pushed(a, b, e) == a \o Append(b, e) = Append(a \o b, e)

LEMMA Pushes ==
    ASSUME NEW T, NEW a \in Seq(T), NEW b \in Seq(T), NEW e \in T
    PROVE  Pushed(a, b, e)
<1> DEFINE one == <<e>>
           both == a \o b
<1>1. one \in Seq(T) /\ both \in Seq(T)
  BY ConcatProperties
<1>2. Append(b, e) = b \o one /\ Append(both, e) = both \o one
  BY <1>1, AppendIsConcat
<1>3. Assoc(a, b, one)
  BY <1>1, Associates
<1> HIDE DEF one
<1>4. QED
  BY <1>2, <1>3 DEF Assoc, Pushed

Listed(style, items) == [i \in DOMAIN items |-> Line(style, items[i])]

LEMMA ListedType ==
    ASSUME NEW style \in Styles, NEW items \in Seq(Text)
    PROVE  /\ Listed(style, items) \in Seq(BodyLines) /\ Len(Listed(style, items)) = Len(items)
           /\ \A i \in 1 .. Len(items) : Listed(style, items)[i] = Line(style, items[i])
<1> DEFINE n == Len(items)
           new == Listed(style, items)
<1>1. n \in Nat /\ DOMAIN items = 1 .. n /\ \A i \in 1 .. n : items[i] \in Text
  BY ElementOfSeq, LenProperties
<1>2. \A i \in 1 .. n : Line(style, items[i]) \in BodyLines
  BY <1>1, LinesAreLines DEF Styles
<1> HIDE DEF n
<1>3. new \in [1 .. n -> BodyLines] /\ \A i \in 1 .. n : new[i] = Line(style, items[i])
  BY <1>1, <1>2 DEF Listed
<1> HIDE DEF new
<1>4. new \in Seq(BodyLines) /\ Len(new) = n
  BY <1>1, <1>3
<1>5. QED
  BY <1>3, <1>4 DEF new, n

LEMMA ListedMore ==
    ASSUME NEW style \in Styles, NEW items \in Seq(Text), NEW text \in Text
    PROVE  Listed(style, Append(items, text)) = Append(Listed(style, items), Line(style, text))
<1> DEFINE more == Append(items, text)
           old == Listed(style, items)
           new == Listed(style, more)
           x == Line(style, text)
           longer == Append(old, x)
           n == Len(items)
<1>1. /\ n \in Nat /\ more \in Seq(Text) /\ Len(more) = n + 1
      /\ \A i \in 1 .. n : more[i] = items[i]
      /\ more[n + 1] = text
  BY AppendProperties, LenProperties
<1>2. x \in BodyLines
  BY LinesAreLines DEF Styles
<1>3. old \in Seq(BodyLines) /\ Len(old) = n /\ \A i \in 1 .. n : old[i] = Line(style, items[i])
  BY ListedType
<1> HIDE DEF more, old
<1>4. new \in Seq(BodyLines) /\ Len(new) = n + 1 /\ \A i \in 1 .. n + 1 : new[i] = Line(style, more[i])
  BY <1>1, ListedType
<1> HIDE DEF new, n
<1>5. /\ longer \in Seq(BodyLines) /\ Len(longer) = n + 1
      /\ \A i \in 1 .. n : longer[i] = old[i]
      /\ longer[n + 1] = x
  BY <1>2, <1>3, AppendProperties
<1> HIDE DEF longer
<1>6. ASSUME NEW i \in 1 .. Len(new)
      PROVE  new[i] = longer[i]
  <2>1. CASE i = n + 1
    BY <1>1, <1>4, <1>5, <2>1
  <2>2. CASE i # n + 1
    <3>1. i \in 1 .. n
      BY <1>1, <1>4, <2>2
    <3>2. QED
      BY <1>1, <1>3, <1>4, <1>5, <3>1
  <2>3. QED
    BY <2>1, <2>2
<1>7. new = longer
  BY <1>4, <1>5, <1>6, SeqEqual
<1>8. QED
  BY <1>7 DEF new, longer, more, old, x

LEMMA TextIsText ==
    /\ Text \subseteq AnyText
    /\ \A items \in Seq(Text) : items \in Seq(AnyText)
<1>1. Words \subseteq AnyWord
  BY DEF AnyWord
<1>2. \A text \in Text : text \in AnyText
  BY <1>1, SeqMonotonic DEF Text, AnyText
<1>3. Text \subseteq AnyText
  BY <1>2
<1>4. QED
  BY <1>3, SeqMonotonic

LEMMA ReadyTexts ==
    ASSUME NEW l, NEW pre, NEW texts, Ready(l, pre, texts)
    PROVE  l \in Seq(BodyLines) /\ texts \in Seq(AnyText)
BY TextParts DEF Ready

LEMMA ListedReady ==
    ASSUME NEW pre \in Heads, NEW l, NEW texts, Ready(l, pre, texts),
           NEW style \in {"bullet", "number"}, NEW items \in Seq(Text)
    PROVE  Ready(l \o Listed(style, items), pre, texts \o items)
<1> DEFINE Good(c) == Ready(l \o Listed(style, c), pre, texts \o c)
           G == {c \in Seq(Text) : Good(c)}
<1>0. style \in Styles /\ l \in Seq(BodyLines) /\ texts \in Seq(AnyText)
  BY ReadyTexts DEF Styles
<1>1. <<>> \in G
  <2> DEFINE none == <<>>
             L == Listed(style, none)
  <2>1. none \in Seq(Text) /\ Len(none) = 0
    BY EmptySeq
  <2> HIDE DEF none
  <2>2. L \in Seq(BodyLines) /\ Len(L) = 0
    BY <1>0, <2>1, ListedType
  <2> HIDE DEF L
  <2>3. L = <<>>
    BY <2>2, EmptySeq
  <2>4. l \o L = l /\ texts \o none = texts
    BY <1>0, <2>3, ConcatEmptySeq DEF none
  <2>5. Good(none)
    BY <2>4 DEF L
  <2>6. QED
    BY <2>1, <2>5 DEF none
<1>2. ASSUME NEW c \in G, NEW e \in Text
      PROVE  Append(c, e) \in G
  <2> DEFINE more == Append(c, e)
             L == Listed(style, c)
             x == Line(style, e)
             L2 == Listed(style, more)
             both == l \o L
             said == texts \o c
  <2>1. c \in Seq(Text) /\ Ready(both, pre, said)
    OBVIOUS
  <2>2. more \in Seq(Text)
    BY <2>1, AppendProperties
  <2>3. L2 = Append(L, x) /\ L \in Seq(BodyLines) /\ x \in BodyLines
    BY <1>0, <2>1, ListedMore, ListedType, LinesAreLines DEF Styles
  <2>4. Pushed(l, L, x)
    BY <1>0, <2>3, Pushes
  <2>5. Pushed(texts, c, e)
    BY <1>0, <2>1, TextIsText, Pushes
  <2> HIDE DEF more, L, L2, both, said, x, G, Good
  <2>6. Ready(Append(both, x), pre, Append(said, e))
    BY <2>1, ReadyItem DEF x
  <2>7. l \o L2 = Append(both, x) /\ texts \o more = Append(said, e)
    BY <2>3, <2>4, <2>5 DEF Pushed, more, both, said
  <2>8. Ready(l \o L2, pre, texts \o more)
    BY <2>6, <2>7
  <2>9. Good(more)
    BY <2>8 DEF Good, L2
  <2>10. QED
    BY <2>2, <2>9 DEF G, more
<1> HIDE DEF Good
<1>3. G = Seq(Text)
  <2>1. G \in SUBSET Seq(Text)
    OBVIOUS
  <2> HIDE DEF G
  <2>2. QED
    BY <1>1, <1>2, <2>1, Appending
<1>4. Good(items)
  BY <1>3
<1>5. QED
  BY <1>4 DEF Good

ParagraphParts(items) == [i \in DOMAIN items |-> <<Blank, Line("paragraph", items[i])>>]

LEMMA ParagraphPartsType ==
    ASSUME NEW items \in Seq(Text)
    PROVE  /\ ParagraphParts(items) \in Seq(Seq(BodyLines)) /\ Len(ParagraphParts(items)) = Len(items)
           /\ \A i \in 1 .. Len(items) : ParagraphParts(items)[i] = <<Blank, Line("paragraph", items[i])>>
<1> DEFINE n == Len(items)
           new == ParagraphParts(items)
<1>1. n \in Nat /\ DOMAIN items = 1 .. n /\ \A i \in 1 .. n : items[i] \in Text
  BY ElementOfSeq, LenProperties
<1>2. \A i \in 1 .. n : Line("paragraph", items[i]) \in BodyLines
  BY <1>1, LinesAreLines
<1>3. \A x \in BodyLines : <<Blank, x>> \in Seq(BodyLines)
  BY LinesAreLines
<1> HIDE DEF n
<1>4. new \in [1 .. n -> Seq(BodyLines)]
      /\ \A i \in 1 .. n : new[i] = <<Blank, Line("paragraph", items[i])>>
  BY <1>1, <1>2, <1>3 DEF ParagraphParts
<1> HIDE DEF new
<1>5. new \in Seq(Seq(BodyLines)) /\ Len(new) = n
  BY <1>1, <1>4
<1>6. QED
  BY <1>4, <1>5 DEF new, n

LEMMA ParagraphPartsMore ==
    ASSUME NEW items \in Seq(Text), NEW text \in Text
    PROVE  ParagraphParts(Append(items, text)) = Append(ParagraphParts(items), <<Blank, Line("paragraph", text)>>)
<1> DEFINE more == Append(items, text)
           old == ParagraphParts(items)
           new == ParagraphParts(more)
           x == <<Blank, Line("paragraph", text)>>
           longer == Append(old, x)
           n == Len(items)
<1>1. /\ n \in Nat /\ more \in Seq(Text) /\ Len(more) = n + 1
      /\ \A i \in 1 .. n : more[i] = items[i]
      /\ more[n + 1] = text
  BY AppendProperties, LenProperties
<1>2. x \in Seq(BodyLines)
  BY LinesAreLines
<1>3. /\ old \in Seq(Seq(BodyLines)) /\ Len(old) = n
      /\ \A i \in 1 .. n : old[i] = <<Blank, Line("paragraph", items[i])>>
  BY ParagraphPartsType
<1> HIDE DEF more, old
<1>4. /\ new \in Seq(Seq(BodyLines)) /\ Len(new) = n + 1
      /\ \A i \in 1 .. n + 1 : new[i] = <<Blank, Line("paragraph", more[i])>>
  BY <1>1, ParagraphPartsType
<1>9. new[n + 1] = x
  BY <1>1, <1>4
<1> HIDE DEF new, n, x
<1>5. /\ longer \in Seq(Seq(BodyLines)) /\ Len(longer) = n + 1
      /\ \A i \in 1 .. n : longer[i] = old[i]
      /\ longer[n + 1] = x
  BY <1>2, <1>3, AppendProperties
<1> HIDE DEF longer
<1>6. ASSUME NEW i \in 1 .. Len(new)
      PROVE  new[i] = longer[i]
  <2>1. CASE i = n + 1
    BY <1>5, <1>9, <2>1
  <2>2. CASE i # n + 1
    <3>1. i \in 1 .. n /\ i \in 1 .. n + 1
      BY <1>1, <1>4, <2>2
    <3>2. new[i] = <<Blank, Line("paragraph", more[i])>> /\ more[i] = items[i]
      BY <1>1, <1>4, <3>1
    <3>3. longer[i] = <<Blank, Line("paragraph", items[i])>>
      BY <1>3, <1>5, <3>1
    <3>4. QED
      BY <3>2, <3>3
  <2>3. QED
    BY <2>1, <2>2
<1>7. new = longer
  BY <1>4, <1>5, <1>6, SeqEqual
<1>8. QED
  BY <1>7 DEF new, longer, more, old, x

LEMMA ParagraphsReady ==
    ASSUME NEW pre \in Heads, NEW l, NEW texts, Ready(l, pre, texts), NEW items \in Seq(Text)
    PROVE  Ready(l \o Joined(ParagraphParts(items)), pre, texts \o items)
<1> DEFINE Good(c) == Ready(l \o Joined(ParagraphParts(c)), pre, texts \o c)
           G == {c \in Seq(Text) : Good(c)}
<1>0. l \in Seq(BodyLines) /\ texts \in Seq(AnyText)
  BY ReadyTexts
<1>1. <<>> \in G
  <2> DEFINE none == <<>>
             L == ParagraphParts(none)
  <2>1. none \in Seq(Text) /\ Len(none) = 0
    BY EmptySeq
  <2> HIDE DEF none
  <2>2. L \in Seq(Seq(BodyLines)) /\ Len(L) = 0
    BY <2>1, ParagraphPartsType
  <2> HIDE DEF L
  <2>3. L = <<>>
    BY <2>2, EmptySeq
  <2>4. Joined(L) = none
    BY <2>3, JoinedNone DEF none
  <2>5. l \o none = l /\ texts \o none = texts
    BY <1>0, ConcatEmptySeq DEF none
  <2>6. Good(none)
    BY <2>4, <2>5 DEF L
  <2>7. QED
    BY <2>1, <2>6 DEF none
<1>2. ASSUME NEW c \in G, NEW e \in Text
      PROVE  Append(c, e) \in G
  <2> DEFINE more == Append(c, e)
             L == Joined(ParagraphParts(c))
             x == Line("paragraph", e)
             two == <<Blank, x>>
             L2 == Joined(ParagraphParts(more))
             both == l \o L
             said == texts \o c
  <2>1. c \in Seq(Text) /\ Ready(both, pre, said)
    OBVIOUS
  <2>2. more \in Seq(Text)
    BY <2>1, AppendProperties
  <2>3. x \in BodyLines /\ Blank \in BodyLines
    BY LinesAreLines
  <2>4. two \in Seq(BodyLines) /\ <<Blank>> \in Seq(BodyLines) /\ two = Append(<<Blank>>, x)
    BY <2>3
  <2>5. L \in Seq(BodyLines) /\ ParagraphParts(c) \in Seq(Seq(BodyLines))
    BY <2>1, ParagraphPartsType, JoinedType
  <2>6. ParagraphParts(more) = Append(ParagraphParts(c), two)
    BY <2>1, ParagraphPartsMore
  <2> HIDE DEF two
  <2>7. L2 = L \o two
    BY <2>4, <2>5, <2>6, JoinedMore
  <2>8. Pushed(texts, c, e)
    BY <1>0, <2>1, TextIsText, Pushes
  <2> HIDE DEF more, L, L2, both, said, x, G, Good
  <2>9. both \in Seq(BodyLines) /\ both = l \o L
    BY <1>0, <2>5, ConcatProperties DEF both
  <2>10. Append(both, Blank) = both \o <<Blank>> /\ Append(both, Blank) \in Seq(BodyLines)
    BY <2>3, <2>9, AppendIsConcat, AppendProperties
  <2>11. Pushed(both, <<Blank>>, x)
    BY <2>3, <2>4, <2>9, Pushes
  <2>12. Assoc(l, L, two)
    BY <1>0, <2>4, <2>5, Associates
  <2>13. l \o L2 = both \o two
    BY <2>7, <2>9, <2>12 DEF Assoc
  <2>14. both \o two = Append(Append(both, Blank), x)
    BY <2>4, <2>10, <2>11 DEF Pushed
  <2>15. Ready(Append(both, Blank), pre, said) /\ Scanned(Append(both, Blank)).gap = TRUE
    BY <2>1, ReadyBlank
  <2>16. Ready(Append(Append(both, Blank), x), pre, Append(said, e))
    BY <2>15, ReadyParagraph DEF x
  <2>17. texts \o more = Append(said, e)
    BY <2>8 DEF Pushed, more, said
  <2>18. Ready(l \o L2, pre, texts \o more)
    BY <2>13, <2>14, <2>16, <2>17
  <2>19. Good(more)
    BY <2>18 DEF Good, L2
  <2>20. QED
    BY <2>2, <2>19 DEF G, more
<1> HIDE DEF Good
<1>3. G = Seq(Text)
  <2>1. G \in SUBSET Seq(Text)
    OBVIOUS
  <2> HIDE DEF G
  <2>2. QED
    BY <1>1, <1>2, <2>1, Appending
<1>4. Good(items)
  BY <1>3
<1>5. QED
  BY <1>4 DEF Good

\* Items are texts of their own, however they are separated.
LEMMA ItemLinesReady ==
    ASSUME NEW pre \in Heads, NEW l, NEW texts, Ready(l, pre, texts),
           NEW style \in Styles, NEW items \in Seq(Text), NEW newBlock \in BOOLEAN
    PROVE  /\ ItemLines(style, items, newBlock) \in Seq(BodyLines)
           /\ Ready(l \o ItemLines(style, items, newBlock), pre, texts \o items)
<1>1. l \in Seq(BodyLines)
  BY ReadyTexts
<1>2. CASE style = "paragraph"
  <2>1. ItemLines(style, items, newBlock) = Joined(ParagraphParts(items))
    BY <1>2 DEF ItemLines, ParagraphParts
  <2>2. Joined(ParagraphParts(items)) \in Seq(BodyLines)
    BY ParagraphPartsType, JoinedType
  <2>3. QED
    BY <2>1, <2>2, ParagraphsReady
<1>3. CASE style # "paragraph"
  <2> DEFINE L == Listed(style, items)
             gap == IF newBlock THEN <<Blank>> ELSE <<>>
  <2>1. style \in {"bullet", "number"}
    BY <1>3 DEF Styles
  <2>2. ItemLines(style, items, newBlock) = gap \o L
    BY <1>3 DEF ItemLines, Listed
  <2>3. L \in Seq(BodyLines) /\ Blank \in BodyLines
    BY ListedType, LinesAreLines
  <2>4. gap \in Seq(BodyLines)
    BY <2>3, EmptySeq
  <2>5. gap \o L \in Seq(BodyLines)
    BY <2>3, <2>4, ConcatProperties
  <2>6. Assoc(l, gap, L)
    BY <1>1, <2>3, <2>4, Associates
  <2>7. Ready(l \o gap, pre, texts)
    <3> DEFINE none == <<>>
    <3>1. Append(l, Blank) = l \o <<Blank>> /\ l \o none = l
      BY <1>1, <2>3, AppendIsConcat, ConcatEmptySeq
    <3>2. Ready(Append(l, Blank), pre, texts)
      BY ReadyBlank
    <3>3. gap = <<Blank>> \/ gap = none
      OBVIOUS
    <3> HIDE DEF gap, none
    <3>4. QED
      BY <3>1, <3>2, <3>3
  <2> HIDE DEF gap
  <2>8. Ready((l \o gap) \o L, pre, texts \o items)
    BY <2>1, <2>7, ListedReady
  <2>9. QED
    BY <2>2, <2>5, <2>6, <2>8 DEF Assoc
<1>4. QED
  BY <1>2, <1>3

-----------------------------------------------------------------------------
(* Sections, in blocks. *)

\* Sections that are among some blocks.
In(blocks) == {s \in Sections : \E i \in 1 .. Len(blocks) : blocks[i] = HeadingBlock(s)}

\* A block is in a section when the first heading of it is above and no other
\* heading is in between.
Opener(blocks, s, h, i) ==
    /\ blocks[h] = HeadingBlock(s)
    /\ \A g \in 1 .. h - 1 : blocks[g] # HeadingBlock(s)
    /\ \A j \in h + 1 .. i : blocks[j].kind # "heading"

\* Sections differ in their headings.
LEMMA SectionHeads ==
    /\ \A s \in Sections : /\ Headers[s] \in AnyHeader /\ HeadingBlock(s) = HeadBlock(Headers[s])
                           /\ HeadingBlock(s) \in AnyBlock /\ HeadingBlock(s).kind = "heading"
    /\ \A s, t \in Sections : HeadingBlock(s) = HeadingBlock(t) => s = t
<1>1. ASSUME NEW s \in Sections
      PROVE  /\ Headers[s] \in AnyHeader /\ HeadingBlock(s) = HeadBlock(Headers[s])
             /\ HeadingBlock(s) \in AnyBlock /\ HeadingBlock(s).kind = "heading"
  <2>1. Headers[s] \in AnyHeader
    BY DEF AnyHeader
  <2>2. HeadingBlock(s) = HeadBlock(Headers[s])
    BY DEF HeadingBlock, HeadBlock, BlockOf
  <2>3. QED
    BY <2>1, <2>2, HeadBlockFacts
<1>2. ASSUME NEW s \in Sections, NEW t \in Sections, HeadingBlock(s) = HeadingBlock(t)
      PROVE  s = t
  <2>1. HeadingBlock(s).texts = << <<Headers[s]>> >> /\ HeadingBlock(t).texts = << <<Headers[t]>> >>
    BY DEF HeadingBlock
  <2>2. Headers[s] = Headers[t]
    BY <1>2, <2>1
  <2>3. QED
    BY <2>2, StylesAssumption
<1>3. QED
  BY <1>1, <1>2

LEMMA OwnIs ==
    ASSUME NEW b \in Seq(AnyBlock), NEW s \in Sections, NEW i \in 1 .. Len(b)
    PROVE  i \in OwnBlocks(b, s) <=> \E h \in 1 .. i - 1 : Opener(b, s, h, i)
<1>1. DOMAIN b = 1 .. Len(b)
  BY LenProperties
<1>2. QED
  BY <1>1 DEF OwnBlocks, Opener

LEMMA InBoth ==
    ASSUME NEW a \in Seq(AnyBlock), NEW b \in Seq(AnyBlock)
    PROVE  In(a \o b) = In(a) \cup In(b)
<1> DEFINE both == a \o b
<1>1. /\ Len(both) = Len(a) + Len(b) /\ Len(a) \in Nat /\ Len(b) \in Nat
      /\ \A i \in 1 .. Len(a) + Len(b) : both[i] = IF i <= Len(a) THEN a[i] ELSE b[i - Len(a)]
  BY ConcatProperties, LenProperties
<1> HIDE DEF both
<1>2. ASSUME NEW s \in In(both) PROVE s \in In(a) \cup In(b)
  <2>1. PICK i \in 1 .. Len(both) : both[i] = HeadingBlock(s) /\ s \in Sections
    BY DEF In
  <2>2. CASE i <= Len(a)
    <3>1. i \in 1 .. Len(a) /\ a[i] = HeadingBlock(s)
      BY <1>1, <2>1, <2>2
    <3>2. QED
      BY <2>1, <3>1 DEF In
  <2>3. CASE ~(i <= Len(a))
    <3>1. i - Len(a) \in 1 .. Len(b) /\ b[i - Len(a)] = HeadingBlock(s)
      BY <1>1, <2>1, <2>3
    <3>2. QED
      BY <2>1, <3>1 DEF In
  <2>4. QED
    BY <2>2, <2>3
<1>3. ASSUME NEW s \in In(a) PROVE s \in In(both)
  <2>1. PICK i \in 1 .. Len(a) : a[i] = HeadingBlock(s) /\ s \in Sections
    BY DEF In
  <2>2. i \in 1 .. Len(both) /\ both[i] = HeadingBlock(s)
    BY <1>1, <2>1
  <2>3. QED
    BY <2>1, <2>2 DEF In
<1>4. ASSUME NEW s \in In(b) PROVE s \in In(both)
  <2>1. PICK i \in 1 .. Len(b) : b[i] = HeadingBlock(s) /\ s \in Sections
    BY DEF In
  <2>2. /\ Len(a) + i \in 1 .. Len(both) /\ Len(a) + i \in 1 .. Len(a) + Len(b)
        /\ ~(Len(a) + i <= Len(a)) /\ (Len(a) + i) - Len(a) = i
    BY <1>1
  <2>3. both[Len(a) + i] = HeadingBlock(s)
    BY <1>1, <2>1, <2>2
  <2>4. QED
    BY <2>1, <2>2, <2>3 DEF In
<1>5. QED
  BY <1>2, <1>3, <1>4 DEF both

\* Blocks that start with a heading do not go on with a section above them,
\* and a section that is already there does not start again.
LEMMA OwnBoth ==
    ASSUME NEW a \in Seq(AnyBlock), NEW b \in Seq(AnyBlock), HeadFirst(b), NEW s \in Sections
    PROVE  /\ \A i \in 1 .. Len(a) : i \in OwnBlocks(a \o b, s) <=> i \in OwnBlocks(a, s)
           /\ \A j \in 1 .. Len(b) : Len(a) + j \in OwnBlocks(a \o b, s) <=> s \notin In(a) /\ j \in OwnBlocks(b, s)
<1> DEFINE both == a \o b
           m == Len(a)
           n == Len(b)
<1>1. /\ both \in Seq(AnyBlock) /\ Len(both) = m + n /\ m \in Nat /\ n \in Nat
      /\ \A i \in 1 .. m + n : both[i] = IF i <= m THEN a[i] ELSE b[i - m]
  BY ConcatProperties, LenProperties
<1> HIDE DEF both, m, n
<1>2. /\ \A i \in 1 .. m : i \in 1 .. m + n /\ both[i] = a[i]
      /\ \A j \in 1 .. n : m + j \in 1 .. m + n /\ both[m + j] = b[j]
  <2>1. \A i \in 1 .. m : i \in 1 .. m + n /\ i <= m
    BY <1>1
  <2>2. \A j \in 1 .. n : m + j \in 1 .. m + n /\ ~(m + j <= m) /\ (m + j) - m = j
    BY <1>1
  <2>3. QED
    BY <1>1, <2>1, <2>2
<1>3. ASSUME NEW i \in 1 .. m
      PROVE  i \in OwnBlocks(both, s) <=> i \in OwnBlocks(a, s)
  <2>1. i \in 1 .. Len(both) /\ i \in 1 .. Len(a)
    BY <1>1, <1>2 DEF m
  <2>2. ASSUME NEW h \in 1 .. i - 1
        PROVE  Opener(both, s, h, i) <=> Opener(a, s, h, i)
    <3>1. /\ h \in 1 .. m
          /\ \A g \in 1 .. h - 1 : g \in 1 .. m
          /\ \A j \in h + 1 .. i : j \in 1 .. m
      BY <1>1
    <3>2. QED
      BY <1>2, <3>1 DEF Opener
  <2>3. QED
    BY <1>1, <2>1, <2>2, OwnIs
<1>4. ASSUME NEW j \in 1 .. n
      PROVE  m + j \in OwnBlocks(both, s) <=> s \notin In(a) /\ j \in OwnBlocks(b, s)
  <2>1. /\ m + j \in 1 .. Len(both) /\ j \in 1 .. Len(b) /\ n \in Nat \ {0}
    BY <1>1 DEF n
  <2>2. b[1].kind = "heading"
    <3>1. b # <<>>
      BY <2>1, EmptySeq DEF n
    <3>2. QED
      BY <3>1 DEF HeadFirst
  <2>3. s \in In(a) <=> \E g \in 1 .. m : a[g] = HeadingBlock(s)
    BY DEF In, m
  <2>4. ASSUME NEW h \in 1 .. (m + j) - 1, Opener(both, s, h, m + j)
        PROVE  s \notin In(a) /\ j \in OwnBlocks(b, s)
    <3>1. h > m
      <4>1. SUFFICES ASSUME ~(h > m) PROVE FALSE
        OBVIOUS
      <4>2. m + 1 \in h + 1 .. m + j /\ 1 \in 1 .. n
        BY <1>1, <2>1, <4>1
      <4>3. both[m + 1] = b[1]
        BY <1>2, <4>2
      <4>4. QED
        BY <2>2, <2>4, <4>2, <4>3 DEF Opener
    <3> DEFINE k == h - m
    <3>2. k \in 1 .. j - 1 /\ h = m + k /\ k \in 1 .. n /\ k \in Nat
      BY <1>1, <3>1
    <3> HIDE DEF k
    <3>3. /\ \A g \in 1 .. m : g \in 1 .. h - 1
          /\ \A g \in 1 .. k - 1 : m + g \in 1 .. h - 1 /\ g \in 1 .. n
          /\ \A i \in k + 1 .. j : m + i \in h + 1 .. m + j /\ i \in 1 .. n
      BY <1>1, <3>1, <3>2
    <3>4. s \notin In(a)
      <4>1. \A g \in 1 .. m : a[g] # HeadingBlock(s)
        BY <1>2, <2>4, <3>3 DEF Opener
      <4>2. QED
        BY <2>3, <4>1
    <3>5. Opener(b, s, k, j)
      <4>1. b[k] = HeadingBlock(s)
        BY <1>2, <2>4, <3>2 DEF Opener
      <4>2. \A g \in 1 .. k - 1 : b[g] # HeadingBlock(s)
        BY <1>2, <2>4, <3>3 DEF Opener
      <4>3. \A i \in k + 1 .. j : b[i].kind # "heading"
        BY <1>2, <2>4, <3>3 DEF Opener
      <4>4. QED
        BY <4>1, <4>2, <4>3 DEF Opener
    <3>6. QED
      BY <2>1, <3>2, <3>4, <3>5, OwnIs
  <2>5. ASSUME s \notin In(a), NEW k \in 1 .. j - 1, Opener(b, s, k, j)
        PROVE  Opener(both, s, m + k, m + j) /\ m + k \in 1 .. (m + j) - 1
    <3>1. m + k \in 1 .. (m + j) - 1 /\ k \in 1 .. n
      BY <1>1
    <3>2. both[m + k] = HeadingBlock(s)
      BY <1>2, <2>5, <3>1 DEF Opener
    <3>3. ASSUME NEW g \in 1 .. (m + k) - 1
          PROVE  both[g] # HeadingBlock(s)
      <4>1. CASE g <= m
        <5>1. g \in 1 .. m
          BY <1>1, <4>1
        <5>2. QED
          BY <1>2, <2>3, <2>5, <5>1
      <4>2. CASE ~(g <= m)
        <5>1. g - m \in 1 .. k - 1 /\ g - m \in 1 .. n /\ m + (g - m) = g
          BY <1>1, <3>1, <4>2
        <5>2. both[g] = b[g - m]
          BY <1>2, <5>1
        <5>3. QED
          BY <2>5, <5>1, <5>2 DEF Opener
      <4>3. QED
        BY <4>1, <4>2
    <3>4. ASSUME NEW i \in (m + k) + 1 .. m + j
          PROVE  both[i].kind # "heading"
      <4>1. i - m \in k + 1 .. j /\ i - m \in 1 .. n /\ m + (i - m) = i
        BY <1>1, <3>1
      <4>2. both[i] = b[i - m]
        BY <1>2, <4>1
      <4>3. QED
        BY <2>5, <4>1, <4>2 DEF Opener
    <3>5. QED
      BY <3>1, <3>2, <3>3, <3>4 DEF Opener
  <2>6. m + j \in OwnBlocks(both, s) <=> \E h \in 1 .. (m + j) - 1 : Opener(both, s, h, m + j)
    BY <1>1, <2>1, OwnIs
  <2>7. j \in OwnBlocks(b, s) <=> \E k \in 1 .. j - 1 : Opener(b, s, k, j)
    BY <2>1, OwnIs
  <2>8. QED
    BY <2>4, <2>5, <2>6, <2>7
<1>5. QED
  BY <1>3, <1>4 DEF both, m, n

\* Parts that are those of two texts, one after the other.
LEMMA JoinedSplit ==
    ASSUME NEW T, NEW p \in Seq(Seq(T)), NEW q \in Seq(Seq(T)), NEW r \in Seq(Seq(T)),
           Len(p) = Len(q) + Len(r),
           \A i \in 1 .. Len(q) : p[i] = q[i],
           \A j \in 1 .. Len(r) : p[Len(q) + j] = r[j]
    PROVE  Joined(p) = Joined(q) \o Joined(r)
<1> DEFINE both == q \o r
           S == Seq(T)
<1>1. p \in Seq(S) /\ q \in Seq(S) /\ r \in Seq(S)
  OBVIOUS
<1>4. Joined(both) = Joined(q) \o Joined(r)
  BY JoinedBoth
<1> HIDE DEF S
<1>2. /\ both \in Seq(S) /\ Len(both) = Len(q) + Len(r)
      /\ \A i \in 1 .. Len(q) + Len(r) : both[i] = IF i <= Len(q) THEN q[i] ELSE r[i - Len(q)]
      /\ Len(q) \in Nat /\ Len(r) \in Nat
  BY <1>1, ConcatProperties, LenProperties
<1> HIDE DEF both
<1>3. ASSUME NEW i \in 1 .. Len(p)
      PROVE  p[i] = both[i]
  <2>1. CASE i <= Len(q)
    <3>1. i \in 1 .. Len(q) /\ i \in 1 .. Len(q) + Len(r)
      BY <1>2, <2>1
    <3>2. QED
      BY <1>2, <2>1, <3>1
  <2>2. CASE ~(i <= Len(q))
    <3> DEFINE j == i - Len(q)
    <3>1. j \in 1 .. Len(r) /\ Len(q) + j = i /\ i \in 1 .. Len(q) + Len(r)
      BY <1>2, <2>2
    <3>2. both[i] = r[j]
      BY <1>2, <2>2, <3>1
    <3> HIDE DEF j
    <3>3. p[i] = r[j]
      BY <3>1
    <3>4. QED
      BY <3>2, <3>3
  <2>3. QED
    BY <2>1, <2>2
<1>5. p = both
  BY <1>1, <1>2, <1>3, SeqEqual
<1>6. QED
  BY <1>4, <1>5

LEMMA JoinedNothing ==
    ASSUME NEW T, NEW p \in Seq(Seq(T)), \A i \in 1 .. Len(p) : p[i] = <<>>
    PROVE  Joined(p) = <<>>
<1> DEFINE none == <<>>
<1>1. \A i \in 1 .. Len(p) : p[i] = none
  OBVIOUS
<1> HIDE DEF none
<1>2. p \in [1 .. Len(p) -> Seq(T)] /\ Len(p) \in Nat
  BY LenProperties
<1>3. p \in [1 .. Len(p) -> {none}]
  BY <1>1, <1>2
<1>4. p \in Seq({none})
  BY <1>2, <1>3
<1>5. p \in Seq({<<>>})
  BY <1>4 DEF none
<1>6. QED
  BY <1>5, JoinedEmpty

-----------------------------------------------------------------------------
(* What a section says, and what is elsewhere, in blocks. *)

\* What a section says, and what is not in any section, of blocks.
OutParts(b, s) == [i \in DOMAIN b |-> IF i \in OwnBlocks(b, s) THEN b[i].texts ELSE <<>>]
Out(b, s) == Joined(OutParts(b, s))
RestParts(b, X) ==
    [i \in DOMAIN b |-> IF \E s \in Sections \ X : i \in OwnBlocks(b, s) THEN <<>> ELSE <<b[i]>>]
Rest(b, X) == Joined(RestParts(b, X))

\* Readers of a body read its blocks.
LEMMA LinesSay ==
    /\ \A lines, s : SectionTexts(lines, s) = Out(Blocks(lines), s)
    /\ \A lines : Elsewhere(lines) = Rest(Blocks(lines), {})
<1>1. \A lines, s : SectionTexts(lines, s) = Out(Blocks(lines), s)
  BY DEF SectionTexts, Out, OutParts
<1>2. Sections \ {} = Sections
  OBVIOUS
<1>3. \A lines : Elsewhere(lines) = Rest(Blocks(lines), {})
  BY <1>2 DEF Elsewhere, Rest, RestParts
<1>4. QED
  BY <1>1, <1>3

LEMMA OutPartsType ==
    ASSUME NEW b \in Seq(AnyBlock), NEW s
    PROVE  /\ OutParts(b, s) \in Seq(Seq(AnyText)) /\ Len(OutParts(b, s)) = Len(b)
           /\ \A i \in 1 .. Len(b) : OutParts(b, s)[i] = IF i \in OwnBlocks(b, s) THEN b[i].texts ELSE <<>>
           /\ Out(b, s) \in Seq(AnyText)
<1> DEFINE n == Len(b)
           parts == OutParts(b, s)
           none == <<>>
<1>1. n \in Nat /\ DOMAIN b = 1 .. n /\ \A i \in 1 .. n : b[i] \in AnyBlock
  BY ElementOfSeq, LenProperties
<1>2. \A i \in 1 .. n : b[i].texts \in Seq(AnyText)
  BY <1>1, AnyBlockFacts
<1>3. none \in Seq(AnyText)
  BY EmptySeq
<1>9. parts = [i \in DOMAIN b |-> IF i \in OwnBlocks(b, s) THEN b[i].texts ELSE none]
  BY DEF OutParts
<1> HIDE DEF n, parts, none
<1>4. parts \in [1 .. n -> Seq(AnyText)]
      /\ \A i \in 1 .. n : parts[i] = IF i \in OwnBlocks(b, s) THEN b[i].texts ELSE none
  BY <1>1, <1>2, <1>3, <1>9
<1>5. parts \in Seq(Seq(AnyText)) /\ Len(parts) = n
  BY <1>1, <1>4
<1>6. Joined(parts) \in Seq(AnyText)
  BY <1>5, JoinedType
<1>7. QED
  BY <1>4, <1>5, <1>6 DEF parts, n, Out, none

LEMMA RestPartsType ==
    ASSUME NEW b \in Seq(AnyBlock), NEW X
    PROVE  /\ RestParts(b, X) \in Seq(Seq(AnyBlock)) /\ Len(RestParts(b, X)) = Len(b)
           /\ \A i \in 1 .. Len(b) : RestParts(b, X)[i] =
                IF \E s \in Sections \ X : i \in OwnBlocks(b, s) THEN <<>> ELSE <<b[i]>>
           /\ Rest(b, X) \in Seq(AnyBlock)
<1> DEFINE n == Len(b)
           parts == RestParts(b, X)
           none == <<>>
           Own(i) == \E s \in Sections \ X : i \in OwnBlocks(b, s)
<1>1. n \in Nat /\ DOMAIN b = 1 .. n /\ \A i \in 1 .. n : b[i] \in AnyBlock
  BY ElementOfSeq, LenProperties
<1>2. \A c \in AnyBlock : <<c>> \in Seq(AnyBlock)
  OBVIOUS
<1>3. none \in Seq(AnyBlock)
  BY EmptySeq
<1>9. parts = [i \in DOMAIN b |-> IF Own(i) THEN none ELSE <<b[i]>>]
  BY DEF RestParts
<1> HIDE DEF n, parts, none, Own
<1>4. parts \in [1 .. n -> Seq(AnyBlock)]
      /\ \A i \in 1 .. n : parts[i] = IF Own(i) THEN none ELSE <<b[i]>>
  BY <1>1, <1>2, <1>3, <1>9
<1>5. parts \in Seq(Seq(AnyBlock)) /\ Len(parts) = n
  BY <1>1, <1>4
<1>6. Joined(parts) \in Seq(AnyBlock)
  BY <1>5, JoinedType
<1>7. QED
  BY <1>4, <1>5, <1>6 DEF parts, n, Rest, none, Own

\* A section that is not there says nothing.
LEMMA OutAbsent ==
    ASSUME NEW b \in Seq(AnyBlock), NEW s \in Sections, s \notin In(b)
    PROVE  Out(b, s) = <<>>
<1> DEFINE parts == OutParts(b, s)
<1>1. /\ parts \in Seq(Seq(AnyText)) /\ Len(parts) = Len(b) /\ Len(b) \in Nat
      /\ \A i \in 1 .. Len(b) : parts[i] = IF i \in OwnBlocks(b, s) THEN b[i].texts ELSE <<>>
  BY OutPartsType, LenProperties
<1>2. ASSUME NEW i \in 1 .. Len(b)
      PROVE  i \notin OwnBlocks(b, s)
  <2>1. SUFFICES ASSUME NEW h \in 1 .. i - 1, Opener(b, s, h, i) PROVE FALSE
    BY OwnIs
  <2>2. h \in 1 .. Len(b) /\ b[h] = HeadingBlock(s)
    BY <1>1, <2>1 DEF Opener
  <2>3. QED
    BY <2>2 DEF In
<1> HIDE DEF parts
<1>3. \A i \in 1 .. Len(parts) : parts[i] = <<>>
  BY <1>1, <1>2
<1>4. QED
  BY <1>1, <1>3, JoinedNothing DEF parts, Out

\* What a section says in blocks that are cut at a heading.
LEMMA OutBoth ==
    ASSUME NEW a \in Seq(AnyBlock), NEW b \in Seq(AnyBlock), HeadFirst(b), NEW s \in Sections
    PROVE  /\ s \notin In(a) => Out(a \o b, s) = Out(b, s)
           /\ s \in In(a) => Out(a \o b, s) = Out(a, s)
<1> DEFINE both == a \o b
           m == Len(a)
           n == Len(b)
           p == OutParts(both, s)
           q == OutParts(a, s)
           none == <<>>
<1>1. /\ both \in Seq(AnyBlock) /\ Len(both) = m + n /\ m \in Nat /\ n \in Nat
      /\ \A i \in 1 .. m + n : both[i] = IF i <= m THEN a[i] ELSE b[i - m]
  BY ConcatProperties, LenProperties
<1>2. /\ \A i \in 1 .. m : i \in OwnBlocks(both, s) <=> i \in OwnBlocks(a, s)
      /\ \A j \in 1 .. n : m + j \in OwnBlocks(both, s) <=> s \notin In(a) /\ j \in OwnBlocks(b, s)
  BY OwnBoth
<1> HIDE DEF both, none
<1>3. /\ p \in Seq(Seq(AnyText)) /\ Len(p) = m + n
      /\ \A i \in 1 .. m + n : p[i] = IF i \in OwnBlocks(both, s) THEN both[i].texts ELSE none
  BY <1>1, OutPartsType DEF none
<1>4. /\ q \in Seq(Seq(AnyText)) /\ Len(q) = m
      /\ \A i \in 1 .. m : q[i] = IF i \in OwnBlocks(a, s) THEN a[i].texts ELSE none
  BY OutPartsType DEF none
<1>5. /\ \A i \in 1 .. m : i \in 1 .. m + n /\ both[i] = a[i]
      /\ \A j \in 1 .. n : m + j \in 1 .. m + n /\ both[m + j] = b[j]
  <2> HIDE DEF m, n
  <2>1. \A i \in 1 .. m : i \in 1 .. m + n /\ i <= m
    BY <1>1
  <2>2. \A j \in 1 .. n : m + j \in 1 .. m + n /\ ~(m + j <= m) /\ (m + j) - m = j
    BY <1>1
  <2>3. QED
    BY <1>1, <2>1, <2>2
<1>6. Joined(q) = Out(a, s) /\ Joined(p) = Out(both, s) /\ Out(b, s) \in Seq(AnyText) /\ Out(a, s) \in Seq(AnyText)
  BY OutPartsType DEF Out
<1> HIDE DEF m, n, p, q
<1>7. \A i \in 1 .. Len(q) : p[i] = q[i]
  BY <1>2, <1>3, <1>4, <1>5
<1>8. CASE s \notin In(a)
  <2> DEFINE r == OutParts(b, s)
  <2>1. /\ r \in Seq(Seq(AnyText)) /\ Len(r) = n
        /\ \A j \in 1 .. n : r[j] = IF j \in OwnBlocks(b, s) THEN b[j].texts ELSE none
    BY OutPartsType DEF n, none
  <2>2. Joined(r) = Out(b, s)
    BY DEF Out
  <2> HIDE DEF r
  <2>3. ASSUME NEW j \in 1 .. Len(r)
        PROVE  p[Len(q) + j] = r[j]
    <3> DEFINE k == m + j
    <3>1. j \in 1 .. n /\ Len(q) + j = k
      BY <1>4, <2>1
    <3>2. /\ k \in 1 .. m + n /\ both[k] = b[j]
          /\ k \in OwnBlocks(both, s) <=> j \in OwnBlocks(b, s)
      BY <1>2, <1>5, <1>8, <3>1
    <3> HIDE DEF k
    <3>3. p[k] = IF k \in OwnBlocks(both, s) THEN both[k].texts ELSE none
      BY <1>3, <3>2
    <3>4. r[j] = IF j \in OwnBlocks(b, s) THEN b[j].texts ELSE none
      BY <2>1, <3>1
    <3>5. p[k] = r[j]
      BY <3>2, <3>3, <3>4
    <3>6. QED
      BY <3>1, <3>5
  <2>4. Joined(p) = Joined(q) \o Joined(r)
    BY <1>3, <1>4, <1>7, <2>1, <2>3, JoinedSplit
  <2>5. Out(a, s) = none
    BY <1>8, OutAbsent DEF none
  <2>6. none \o Out(b, s) = Out(b, s)
    BY <1>6, ConcatEmptySeq DEF none
  <2>7. Out(both, s) = Out(b, s)
    BY <1>6, <2>2, <2>4, <2>5, <2>6
  <2>8. QED
    BY <1>8, <2>7 DEF both
<1>9. CASE s \in In(a)
  <2> DEFINE r == [j \in 1 .. n |-> none]
  <2>0. none \in Seq(AnyText)
    BY EmptySeq DEF none
  <2>1. r \in Seq(Seq(AnyText)) /\ Len(r) = n /\ \A j \in 1 .. n : r[j] = none
    BY <1>1, <2>0
  <2> HIDE DEF r
  <2>3. \A j \in 1 .. Len(r) : p[Len(q) + j] = r[j]
    BY <1>2, <1>3, <1>4, <1>5, <1>9, <2>1
  <2>4. Joined(p) = Joined(q) \o Joined(r)
    BY <1>3, <1>4, <1>7, <2>1, <2>3, JoinedSplit
  <2>5. Joined(r) = none
    BY <2>1, JoinedNothing DEF none
  <2>6. Out(a, s) \o none = Out(a, s)
    BY <1>6, ConcatEmptySeq DEF none
  <2>7. Out(both, s) = Out(a, s)
    BY <1>6, <2>4, <2>5, <2>6
  <2>8. QED
    BY <1>9, <2>7 DEF both
<1>10. QED
  BY <1>8, <1>9

\* What is elsewhere in blocks that are cut at a heading.
LEMMA RestBoth ==
    ASSUME NEW a \in Seq(AnyBlock), NEW b \in Seq(AnyBlock), HeadFirst(b), NEW X
    PROVE  Rest(a \o b, X) = Rest(a, X) \o Rest(b, X \cup In(a))
<1> DEFINE both == a \o b
           m == Len(a)
           n == Len(b)
           Y == X \cup In(a)
           p == RestParts(both, X)
           q == RestParts(a, X)
           r == RestParts(b, Y)
           Own1(i) == \E s \in Sections \ X : i \in OwnBlocks(both, s)
           Own2(i) == \E s \in Sections \ X : i \in OwnBlocks(a, s)
           Own3(i) == \E s \in Sections \ Y : i \in OwnBlocks(b, s)
<1>1. /\ both \in Seq(AnyBlock) /\ Len(both) = m + n /\ m \in Nat /\ n \in Nat
      /\ \A i \in 1 .. m + n : both[i] = IF i <= m THEN a[i] ELSE b[i - m]
  BY ConcatProperties, LenProperties
<1>2. /\ \A s \in Sections : \A i \in 1 .. m : i \in OwnBlocks(both, s) <=> i \in OwnBlocks(a, s)
      /\ \A s \in Sections : \A j \in 1 .. n :
            m + j \in OwnBlocks(both, s) <=> s \notin In(a) /\ j \in OwnBlocks(b, s)
  BY OwnBoth
<1> HIDE DEF both
<1>3. /\ p \in Seq(Seq(AnyBlock)) /\ Len(p) = m + n
      /\ \A i \in 1 .. m + n : p[i] = IF Own1(i) THEN <<>> ELSE <<both[i]>>
  BY <1>1, RestPartsType
<1>4. /\ q \in Seq(Seq(AnyBlock)) /\ Len(q) = m
      /\ \A i \in 1 .. m : q[i] = IF Own2(i) THEN <<>> ELSE <<a[i]>>
  BY RestPartsType
<1>41. /\ r \in Seq(Seq(AnyBlock)) /\ Len(r) = n
       /\ \A i \in 1 .. n : r[i] = IF Own3(i) THEN <<>> ELSE <<b[i]>>
  BY RestPartsType
<1>5. /\ \A i \in 1 .. m : i \in 1 .. m + n /\ both[i] = a[i]
      /\ \A j \in 1 .. n : m + j \in 1 .. m + n /\ both[m + j] = b[j]
  <2> HIDE DEF m, n
  <2>1. \A i \in 1 .. m : i \in 1 .. m + n /\ i <= m
    BY <1>1
  <2>2. \A j \in 1 .. n : m + j \in 1 .. m + n /\ ~(m + j <= m) /\ (m + j) - m = j
    BY <1>1
  <2>3. QED
    BY <1>1, <2>1, <2>2
<1>6. Joined(q) = Rest(a, X) /\ Joined(p) = Rest(both, X) /\ Joined(r) = Rest(b, Y)
  BY DEF Rest
<1>7. \A i \in 1 .. m : Own1(i) <=> Own2(i)
  BY <1>2
<1>8. \A j \in 1 .. n : Own1(m + j) <=> Own3(j)
  BY <1>2
<1> HIDE DEF m, n, p, q, r, Own1, Own2, Own3, Y
<1>9. \A i \in 1 .. Len(q) : p[i] = q[i]
  BY <1>3, <1>4, <1>5, <1>7
<1>10. ASSUME NEW j \in 1 .. Len(r)
       PROVE  p[Len(q) + j] = r[j]
  <2> DEFINE k == m + j
  <2>1. j \in 1 .. n /\ Len(q) + j = k
    BY <1>4, <1>41
  <2>2. k \in 1 .. m + n /\ both[k] = b[j] /\ (Own1(k) <=> Own3(j))
    BY <1>5, <1>8, <2>1
  <2> HIDE DEF k
  <2>3. p[k] = IF Own1(k) THEN <<>> ELSE <<both[k]>>
    BY <1>3, <2>2
  <2>4. r[j] = IF Own3(j) THEN <<>> ELSE <<b[j]>>
    BY <1>41, <2>1
  <2>5. p[k] = r[j]
    BY <2>2, <2>3, <2>4
  <2>6. QED
    BY <2>1, <2>5
<1>11. Joined(p) = Joined(q) \o Joined(r)
  BY <1>3, <1>4, <1>41, <1>9, <1>10, JoinedSplit
<1>12. QED
  BY <1>6, <1>11 DEF both, Y

LEMMA NoHeadNoSection ==
    ASSUME NEW b \in Seq(AnyBlock), NoHead(b)
    PROVE  In(b) = {}
<1>1. SUFFICES ASSUME NEW s \in In(b) PROVE FALSE
  OBVIOUS
<1>2. PICK i \in 1 .. Len(b) : b[i] = HeadingBlock(s) /\ s \in Sections
  BY DEF In
<1>3. b[i].kind = "heading"
  BY <1>2, SectionHeads
<1>4. QED
  BY <1>3 DEF NoHead

\* The heading of a section and its own blocks.
SectionOf(s, own) == <<HeadingBlock(s)>> \o own

LEMMA SectionOfFacts ==
    ASSUME NEW s \in Sections, NEW own \in Seq(AnyBlock)
    PROVE  /\ SectionOf(s, own) \in Seq(AnyBlock) /\ Len(SectionOf(s, own)) = 1 + Len(own)
           /\ Len(own) \in Nat
           /\ SectionOf(s, own)[1] = HeadingBlock(s)
           /\ \A j \in 1 .. Len(own) : SectionOf(s, own)[1 + j] = own[j]
           /\ HeadFirst(SectionOf(s, own))
           /\ <<HeadingBlock(s)>> \in Seq(AnyBlock) /\ <<HeadingBlock(s)>> \in Heads
<1> DEFINE hb == HeadingBlock(s)
           a == <<hb>>
           sec == a \o own
           one == 1
           n == Len(own)
<1>1. hb \in AnyBlock /\ hb.kind = "heading"
  BY SectionHeads
<1> HIDE DEF hb
<1>2. a \in Seq(AnyBlock) /\ Len(a) = one /\ a[one] = hb /\ a # <<>>
  BY <1>1
<1>3. Top(a) = hb
  BY <1>2 DEF Top
<1>4. a \in Heads
  BY <1>1, <1>2, <1>3 DEF Heads
<1> HIDE DEF a
<1>5. /\ sec \in Seq(AnyBlock) /\ Len(sec) = Len(a) + n /\ n \in Nat
      /\ \A i \in 1 .. Len(a) + n : sec[i] = IF i <= Len(a) THEN a[i] ELSE own[i - Len(a)]
  BY <1>2, ConcatProperties, LenProperties
<1> HIDE DEF sec, n
<1>6. one \in 1 .. Len(a) + n /\ one <= Len(a) /\ one = 1
  BY <1>2, <1>5
<1> HIDE DEF one
<1>7. sec[one] = hb
  BY <1>2, <1>5, <1>6
<1>8. ASSUME NEW j \in 1 .. n
      PROVE  sec[1 + j] = own[j]
  <2> DEFINE k == 1 + j
  <2>1. k \in 1 .. Len(a) + n /\ ~(k <= Len(a)) /\ k - Len(a) = j
    BY <1>2, <1>5, <1>6
  <2> HIDE DEF k
  <2>2. sec[k] = own[j]
    BY <1>5, <2>1
  <2>3. QED
    BY <2>2 DEF k
<1>9. Len(sec) = 1 + n /\ Len(sec) \in Nat \ {0}
  BY <1>2, <1>5, <1>6
<1>10. sec[1] = hb
  BY <1>6, <1>7
<1>11. HeadFirst(sec)
  BY <1>1, <1>9, <1>10 DEF HeadFirst
<1>12. QED
  BY <1>2, <1>4, <1>5, <1>8, <1>9, <1>10, <1>11 DEF SectionOf, sec, a, hb, n

\* A section alone says the texts of its blocks.
LEMMA SectionAlone ==
    ASSUME NEW s \in Sections, NEW own \in Seq(AnyBlock), NoHead(own)
    PROVE  /\ In(SectionOf(s, own)) = {s}
           /\ \A t \in Sections : Out(SectionOf(s, own), t) = IF t = s THEN TextsOf(own) ELSE <<>>
           /\ \A X : s \notin X => Rest(SectionOf(s, own), X) = <<HeadingBlock(s)>>
<1> DEFINE sec == SectionOf(s, own)
           n == Len(own)
           hb == HeadingBlock(s)
<1>1. /\ sec \in Seq(AnyBlock) /\ Len(sec) = 1 + n /\ n \in Nat
      /\ sec[1] = hb
      /\ \A j \in 1 .. n : sec[1 + j] = own[j]
      /\ hb \in AnyBlock /\ hb.kind = "heading"
  BY SectionOfFacts, SectionHeads
<1> HIDE DEF sec, n
<1>2. \A j \in 1 .. n : sec[1 + j].kind # "heading"
  BY <1>1 DEF NoHead, n
<1>3. ASSUME NEW i \in 1 .. 1 + n, NEW t \in Sections, sec[i] = HeadingBlock(t)
      PROVE  i = 1 /\ t = s
  <2>1. sec[i].kind = "heading"
    BY <1>3, SectionHeads
  <2>2. i = 1
    <3>1. SUFFICES ASSUME i # 1 PROVE FALSE
      OBVIOUS
    <3>2. i - 1 \in 1 .. n /\ 1 + (i - 1) = i
      BY <1>1, <3>1
    <3>3. sec[i].kind # "heading"
      BY <1>2, <3>2
    <3>4. QED
      BY <2>1, <3>3
  <2>3. QED
    BY <1>1, <1>3, <2>2, SectionHeads
<1>4. In(sec) = {s}
  <2>1. 1 \in 1 .. Len(sec)
    BY <1>1
  <2>2. s \in In(sec)
    BY <1>1, <2>1 DEF In
  <2>3. ASSUME NEW t \in In(sec) PROVE t = s
    BY <1>1, <1>3 DEF In
  <2>4. QED
    BY <2>2, <2>3
<1>5. ASSUME NEW t \in Sections
      PROVE  1 \notin OwnBlocks(sec, t)
  <2>1. 1 \in 1 .. Len(sec)
    BY <1>1
  <2> DEFINE one == 1
  <2>2. one \in 1 .. Len(sec) /\ 1 .. one - 1 = {}
    BY <2>1
  <2> HIDE DEF one
  <2>3. one \in OwnBlocks(sec, t) <=> \E h \in 1 .. one - 1 : Opener(sec, t, h, one)
    BY <1>1, <2>2, OwnIs
  <2>4. one \notin OwnBlocks(sec, t)
    BY <2>2, <2>3
  <2>5. QED
    BY <2>4 DEF one
<1>6. ASSUME NEW j \in 1 .. n
      PROVE  1 + j \in OwnBlocks(sec, s)
  <2>1. 1 + j \in 1 .. Len(sec) /\ 1 \in 1 .. (1 + j) - 1 /\ 1 .. 1 - 1 = {}
    BY <1>1
  <2>2. ASSUME NEW i \in 1 + 1 .. 1 + j PROVE sec[i].kind # "heading"
    <3>1. i - 1 \in 1 .. n /\ 1 + (i - 1) = i
      BY <1>1
    <3>2. QED
      BY <1>2, <3>1
  <2>3. Opener(sec, s, 1, 1 + j)
    BY <1>1, <2>1, <2>2 DEF Opener
  <2>4. QED
    BY <1>1, <2>1, <2>3, OwnIs
<1>7. Out(sec, s) = TextsOf(own)
  <2> DEFINE p == OutParts(sec, s)
             r == [i \in DOMAIN own |-> own[i].texts]
             none == <<>>
             q == <<none>>
  <2>1. /\ p \in Seq(Seq(AnyText)) /\ Len(p) = 1 + n
        /\ \A i \in 1 .. 1 + n : p[i] = IF i \in OwnBlocks(sec, s) THEN sec[i].texts ELSE none
    <3>1. /\ p \in Seq(Seq(AnyText)) /\ Len(p) = Len(sec)
          /\ \A i \in 1 .. Len(sec) : p[i] = IF i \in OwnBlocks(sec, s) THEN sec[i].texts ELSE <<>>
      BY <1>1, OutPartsType
    <3> HIDE DEF p
    <3>2. Len(sec) = 1 + n
      BY <1>1
    <3>3. QED
      BY <3>1, <3>2
  <2>2. r \in Seq(Seq(AnyText)) /\ Len(r) = n /\ \A i \in 1 .. n : r[i] = own[i].texts
    BY TextParts DEF n
  <2>3. none \in Seq(AnyText)
    BY EmptySeq
  <2>4. Joined(q) = none /\ none \o TextsOf(own) = TextsOf(own)
    BY <2>3, JoinedOne, TextParts, ConcatEmptySeq
  <2>5. Joined(p) = Out(sec, s) /\ Joined(r) = TextsOf(own)
    BY DEF Out, TextsOf
  <2> HIDE DEF p, r, none
  <2>6. q \in Seq(Seq(AnyText)) /\ Len(q) = 1 /\ q[1] = none
    BY <2>3
  <2> HIDE DEF q
  <2>7. \A i \in 1 .. Len(q) : p[i] = q[i]
    <3>1. \A i \in 1 .. Len(q) : i = 1
      BY <2>6
    <3>2. 1 \in 1 .. 1 + n
      BY <1>1
    <3>3. p[1] = none
      BY <1>5, <2>1, <3>2
    <3>4. QED
      BY <2>6, <3>1, <3>3
  <2>8. ASSUME NEW j \in 1 .. Len(r)
        PROVE  p[Len(q) + j] = r[j]
    <3> DEFINE k == 1 + j
    <3>1. k \in 1 .. 1 + n /\ Len(q) + j = k /\ j \in 1 .. n
      BY <1>1, <2>2, <2>6
    <3>2. k \in OwnBlocks(sec, s) /\ sec[k] = own[j]
      BY <1>1, <1>6, <3>1
    <3> HIDE DEF k
    <3>3. p[k] = own[j].texts
      BY <2>1, <3>1, <3>2
    <3>4. p[k] = r[j]
      BY <2>2, <3>1, <3>3
    <3>5. QED
      BY <3>1, <3>4
  <2>9. Len(p) = Len(q) + Len(r)
    BY <2>1, <2>2, <2>6
  <2>10. Joined(p) = Joined(q) \o Joined(r)
    BY <2>1, <2>2, <2>6, <2>7, <2>8, <2>9, JoinedSplit
  <2>11. QED
    BY <2>4, <2>5, <2>10
<1>8. ASSUME NEW t \in Sections, t # s
      PROVE  Out(sec, t) = <<>>
  BY <1>1, <1>4, <1>8, OutAbsent
<1>9. ASSUME NEW X, s \notin X
      PROVE  Rest(sec, X) = <<hb>>
  <2> DEFINE p == RestParts(sec, X)
             none == <<>>
             r == [j \in 1 .. n |-> none]
             one == <<hb>>
             q == <<one>>
             Own(i) == \E t \in Sections \ X : i \in OwnBlocks(sec, t)
  <2>1. /\ p \in Seq(Seq(AnyBlock)) /\ Len(p) = 1 + n
        /\ \A i \in 1 .. 1 + n : p[i] = IF Own(i) THEN none ELSE <<sec[i]>>
    BY <1>1, RestPartsType
  <2>2. none \in Seq(AnyBlock)
    BY EmptySeq
  <2>3. one \in Seq(AnyBlock)
    BY <1>1
  <2>4. Joined(q) = one /\ one \o none = one
    BY <2>3, JoinedOne, ConcatEmptySeq
  <2>5. Joined(p) = Rest(sec, X)
    BY DEF Rest
  <2>6. ~Own(1)
    BY <1>5
  <2>7. \A j \in 1 .. n : Own(1 + j)
    BY <1>6, <1>9
  <2>12. <<sec[1]>> = one
    BY <1>1
  <2> HIDE DEF p, none, one, Own
  <2>13. r \in Seq(Seq(AnyBlock)) /\ Len(r) = n /\ \A j \in 1 .. n : r[j] = none
    BY <1>1, <2>2
  <2> HIDE DEF r
  <2>14. q \in Seq(Seq(AnyBlock)) /\ Len(q) = 1 /\ q[1] = one
    BY <2>3
  <2> HIDE DEF q
  <2>15. \A i \in 1 .. Len(q) : p[i] = q[i]
    <3>1. \A i \in 1 .. Len(q) : i = 1
      BY <2>14
    <3>2. 1 \in 1 .. 1 + n
      BY <1>1
    <3>3. p[1] = one
      BY <2>1, <2>6, <2>12, <3>2
    <3>4. QED
      BY <2>14, <3>1, <3>3
  <2>8. ASSUME NEW j \in 1 .. Len(r)
        PROVE  p[Len(q) + j] = r[j]
    <3> DEFINE k == 1 + j
    <3>1. k \in 1 .. 1 + n /\ Len(q) + j = k /\ j \in 1 .. n
      BY <1>1, <2>13, <2>14
    <3>2. Own(k)
      BY <2>7, <3>1
    <3> HIDE DEF k
    <3>3. p[k] = r[j]
      BY <2>1, <2>13, <3>1, <3>2
    <3>4. QED
      BY <3>1, <3>3
  <2>9. Len(p) = Len(q) + Len(r)
    BY <2>1, <2>13, <2>14
  <2>10. Joined(p) = Joined(q) \o Joined(r)
    BY <2>1, <2>13, <2>14, <2>15, <2>8, <2>9, JoinedSplit
  <2>11. Joined(r) = none
    BY <2>13, JoinedNothing DEF none
  <2>16. Rest(sec, X) = one
    BY <2>4, <2>5, <2>10, <2>11
  <2>17. QED
    BY <2>16 DEF one
<1>10. QED
  BY <1>4, <1>7, <1>8, <1>9 DEF sec, hb

\* A section after blocks that do not have it.
LEMMA SectionAfter ==
    ASSUME NEW b \in Seq(AnyBlock), NEW s \in Sections, s \notin In(b),
           NEW own \in Seq(AnyBlock), NoHead(own)
    PROVE  /\ b \o SectionOf(s, own) \in Seq(AnyBlock)
           /\ In(b \o SectionOf(s, own)) = In(b) \cup {s}
           /\ Out(b \o SectionOf(s, own), s) = TextsOf(own)
           /\ \A t \in Sections : t # s => Out(b \o SectionOf(s, own), t) = Out(b, t)
           /\ Rest(b \o SectionOf(s, own), {}) = Rest(b, {}) \o <<HeadingBlock(s)>>
<1> DEFINE sec == SectionOf(s, own)
           both == b \o sec
           none == {}
<1>1. sec \in Seq(AnyBlock) /\ HeadFirst(sec)
  BY SectionOfFacts
<1>2. /\ In(sec) = {s}
      /\ \A t \in Sections : Out(sec, t) = IF t = s THEN TextsOf(own) ELSE <<>>
      /\ \A X : s \notin X => Rest(sec, X) = <<HeadingBlock(s)>>
  BY SectionAlone
<1> HIDE DEF sec
<1>3. both \in Seq(AnyBlock)
  BY <1>1, ConcatProperties
<1>4. In(both) = In(b) \cup {s}
  BY <1>1, <1>2, InBoth
<1>5. Out(both, s) = TextsOf(own)
  BY <1>1, <1>2, OutBoth
<1>6. ASSUME NEW t \in Sections, t # s
      PROVE  Out(both, t) = Out(b, t)
  <2>1. CASE t \in In(b)
    BY <1>1, <2>1, OutBoth
  <2>2. CASE t \notin In(b)
    <3>1. Out(both, t) = Out(sec, t)
      BY <1>1, <2>2, OutBoth
    <3>2. QED
      BY <1>2, <1>6, <2>2, <3>1, OutAbsent
  <2>3. QED
    BY <2>1, <2>2
<1>7. Rest(both, none) = Rest(b, none) \o <<HeadingBlock(s)>>
  <2>1. s \notin none \cup In(b)
    OBVIOUS
  <2> HIDE DEF none
  <2>2. Rest(both, none) = Rest(b, none) \o Rest(sec, none \cup In(b))
    BY <1>1, RestBoth
  <2>3. Rest(sec, none \cup In(b)) = <<HeadingBlock(s)>>
    BY <1>2, <2>1
  <2>4. QED
    BY <2>2, <2>3
<1>8. QED
  BY <1>3, <1>4, <1>5, <1>6, <1>7 DEF both, sec, none

\* Another text in one section leaves the others and the rest alone.
LEMMA SameSections ==
    ASSUME NEW b \in Seq(AnyBlock), NEW s \in Sections, s \notin In(b),
           NEW old \in Seq(AnyBlock), NoHead(old), NEW new \in Seq(AnyBlock), NoHead(new),
           NEW d \in Seq(AnyBlock), HeadFirst(d)
    PROVE  LET one == (b \o SectionOf(s, old)) \o d
               other == (b \o SectionOf(s, new)) \o d
           IN  /\ Out(one, s) = TextsOf(old) /\ Out(other, s) = TextsOf(new)
               /\ \A t \in Sections : t # s => Out(other, t) = Out(one, t)
               /\ Rest(other, {}) = Rest(one, {})
               /\ In(other) = In(one) /\ s \in In(one)
<1> DEFINE x == b \o SectionOf(s, old)
           y == b \o SectionOf(s, new)
           none == {}
<1>1. /\ x \in Seq(AnyBlock) /\ In(x) = In(b) \cup {s} /\ Out(x, s) = TextsOf(old)
      /\ \A t \in Sections : t # s => Out(x, t) = Out(b, t)
      /\ Rest(x, none) = Rest(b, none) \o <<HeadingBlock(s)>>
  BY SectionAfter
<1>2. /\ y \in Seq(AnyBlock) /\ In(y) = In(b) \cup {s} /\ Out(y, s) = TextsOf(new)
      /\ \A t \in Sections : t # s => Out(y, t) = Out(b, t)
      /\ Rest(y, none) = Rest(b, none) \o <<HeadingBlock(s)>>
  BY SectionAfter
<1> HIDE DEF x, y, none
<1> DEFINE one == x \o d
           other == y \o d
<1>3. s \in In(x) /\ s \in In(y) /\ In(x) = In(y)
  BY <1>1, <1>2
<1>4. Out(one, s) = TextsOf(old) /\ Out(other, s) = TextsOf(new)
  BY <1>1, <1>2, <1>3, OutBoth
<1>5. ASSUME NEW t \in Sections, t # s
      PROVE  Out(other, t) = Out(one, t)
  <2>1. /\ t \notin In(x) => Out(one, t) = Out(d, t)
        /\ t \in In(x) => Out(one, t) = Out(x, t)
    BY <1>1, OutBoth
  <2>2. /\ t \notin In(y) => Out(other, t) = Out(d, t)
        /\ t \in In(y) => Out(other, t) = Out(y, t)
    BY <1>2, OutBoth
  <2>3. Out(x, t) = Out(y, t)
    BY <1>1, <1>2, <1>5
  <2> HIDE DEF one, other
  <2>4. QED
    BY <1>3, <2>1, <2>2, <2>3
<1>6. Rest(other, none) = Rest(one, none)
  <2>1. Rest(one, none) = Rest(x, none) \o Rest(d, none \cup In(x))
    BY <1>1, RestBoth
  <2>2. Rest(other, none) = Rest(y, none) \o Rest(d, none \cup In(y))
    BY <1>2, RestBoth
  <2>3. Rest(x, none) = Rest(y, none)
    BY <1>1, <1>2
  <2> HIDE DEF one, other
  <2>4. QED
    BY <1>3, <2>1, <2>2, <2>3
<1>7. In(other) = In(one) /\ s \in In(one)
  <2>1. In(one) = In(x) \cup In(d) /\ In(other) = In(y) \cup In(d)
    BY <1>1, <1>2, InBoth
  <2>2. QED
    BY <1>3, <2>1
<1>8. QED
  BY <1>4, <1>5, <1>6, <1>7 DEF one, other, x, y, none

\* Lines have a section when their blocks do.
LEMMA SectionIn ==
    ASSUME NEW lines \in Seq(BodyLines), NEW s \in Sections
    PROVE  HasSection(lines, s) <=> s \in In(Blocks(lines))
<1> DEFINE B == Blocks(lines)
           x == Headers[s]
<1>0. B \in Seq(AnyBlock)
  BY ScannedType
<1>1. ASSUME HasSection(lines, s)
      PROVE  s \in In(B)
  <2>1. PICK j \in Headings(lines) : lines[j] = Heading(x)
    BY <1>1 DEF HasSection
  <2> DEFINE a == SubSeq(lines, 1, j - 1)
             c == SubSeq(lines, j + 1, Len(lines))
  <2>2. j \in 1 .. Len(lines) /\ ~Scanned(a).code
    BY HeadingFacts
  <2>3. /\ a \in Seq(BodyLines) /\ c \in Seq(BodyLines) /\ lines = (a \o <<lines[j]>>) \o c
    BY <2>2, CutAround
  <2> HIDE DEF a, c
  <2>4. x \in AnyHeader /\ HeadingBlock(s) = HeadBlock(x)
    BY SectionHeads
  <2>5. Blocks((a \o <<Heading(x)>>) \o c) = (Blocks(a) \o <<HeadBlock(x)>>) \o Blocks(c)
    BY <2>2, <2>3, <2>4, AroundHeading
  <2> DEFINE p == Blocks(a)
             q == <<HeadBlock(x)>>
             r == Blocks(c)
  <2>6. B = (p \o q) \o r
    BY <2>1, <2>3, <2>5
  <2>7. p \in Seq(AnyBlock) /\ q \in Seq(AnyBlock) /\ r \in Seq(AnyBlock)
    BY <2>3, <2>4, ScannedType, HeadBlockFacts
  <2>8. Len(q) = 1 /\ q[1] = HeadingBlock(s)
    BY <2>4
  <2> HIDE DEF p, q, r, B
  <2>9. p \o q \in Seq(AnyBlock)
    BY <2>7, ConcatProperties
  <2>10. In(B) = (In(p) \cup In(q)) \cup In(r)
    BY <2>6, <2>7, <2>9, InBoth
  <2>11. s \in In(q)
    <3>1. 1 \in 1 .. Len(q)
      BY <2>8
    <3>2. QED
      BY <2>8, <3>1 DEF In
  <2>12. QED
    BY <2>10, <2>11
<1>2. ASSUME s \in In(B)
      PROVE  HasSection(lines, s)
  <2>1. PICK i \in 1 .. Len(B) : B[i] = HeadingBlock(s)
    BY <1>2 DEF In
  <2>2. B[i].kind = "heading"
    BY <2>1, SectionHeads
  <2>3. PICK j \in Headings(lines) : B[i] = BlockOf("heading", <<lines[j].text>>)
    BY <2>2, HeadsFrom DEF HeadsKnown, FromLine
  <2>4. PICK h \in AnyHeader : lines[j] = Heading(h) /\ lines[j].text = <<h>>
    BY HeadingFacts
  <2>5. B[i].texts = <<lines[j].text>> /\ B[i].texts = << <<x>> >>
    BY <2>1, <2>3 DEF BlockOf, HeadingBlock
  <2>6. h = x
    <3>1. << <<h>> >> = << <<x>> >>
      BY <2>4, <2>5
    <3>2. QED
      BY <3>1
  <2>7. QED
    BY <2>4, <2>6 DEF HasSection
<1>3. QED
  BY <1>1, <1>2

\* Items are at the end of their section, which is made where it is missing,
\* and nothing else changed.
Grown(old, new, s, items) ==
    /\ In(new) = In(old) \cup (IF items # <<>> THEN {s} ELSE {})
    /\ Out(new, s) = Out(old, s) \o items
    /\ \A t \in Sections : t # s => Out(new, t) = Out(old, t)
    /\ Rest(new, {}) =
         Rest(old, {}) \o (IF items # <<>> /\ s \notin In(old) THEN <<HeadingBlock(s)>> ELSE <<>>)

LEMMA GrownNot ==
    ASSUME NEW b \in Seq(AnyBlock), NEW s \in Sections
    PROVE  Grown(b, b, s, <<>>)
<1>1. Out(b, s) \in Seq(AnyText) /\ Rest(b, {}) \in Seq(AnyBlock)
  BY OutPartsType, RestPartsType
<1> DEFINE o == Out(b, s)
           r == Rest(b, {})
<1> HIDE DEF o, r
<1>2. o \o <<>> = o /\ r \o <<>> = r
  BY <1>1 DEF o, r
<1>3. QED
  BY <1>2 DEF Grown, o, r

\* With the section.
LEMMA GrownNew ==
    ASSUME NEW b \in Seq(AnyBlock), NEW s \in Sections, s \notin In(b),
           NEW own \in Seq(AnyBlock), NoHead(own), NEW items \in Seq(AnyText), items # <<>>,
           TextsOf(own) = items
    PROVE  Grown(b, b \o SectionOf(s, own), s, items)
<1> DEFINE new == b \o SectionOf(s, own)
           r == Rest(b, {})
           none == <<>>
<1>1. /\ In(new) = In(b) \cup {s}
      /\ Out(new, s) = items
      /\ \A t \in Sections : t # s => Out(new, t) = Out(b, t)
      /\ Rest(new, {}) = r \o <<HeadingBlock(s)>>
  BY SectionAfter
<1>2. Out(b, s) = none
  BY OutAbsent
<1>3. none \o items = items
  OBVIOUS
<1> HIDE DEF none, new, r
<1>4. Out(new, s) = Out(b, s) \o items
  BY <1>1, <1>2, <1>3
<1>5. QED
  BY <1>1, <1>4 DEF Grown, new, r

\* In a section that is there.
LEMMA GrownOld ==
    ASSUME NEW b \in Seq(AnyBlock), NEW s \in Sections, s \notin In(b),
           NEW old \in Seq(AnyBlock), NoHead(old), NEW new \in Seq(AnyBlock), NoHead(new),
           NEW d \in Seq(AnyBlock), HeadFirst(d), NEW items \in Seq(AnyText),
           TextsOf(new) = TextsOf(old) \o items
    PROVE  Grown((b \o SectionOf(s, old)) \o d, (b \o SectionOf(s, new)) \o d, s, items)
<1> DEFINE one == (b \o SectionOf(s, old)) \o d
           other == (b \o SectionOf(s, new)) \o d
           r == Rest(one, {})
           none == <<>>
<1>1. /\ Out(one, s) = TextsOf(old) /\ Out(other, s) = TextsOf(new)
      /\ \A t \in Sections : t # s => Out(other, t) = Out(one, t)
      /\ Rest(other, {}) = r
      /\ In(other) = In(one) /\ s \in In(one)
  BY SameSections
<1>2. one \in Seq(AnyBlock)
  <2>1. SectionOf(s, old) \in Seq(AnyBlock)
    BY SectionOfFacts
  <2>2. b \o SectionOf(s, old) \in Seq(AnyBlock)
    BY <2>1, ConcatProperties
  <2>3. QED
    BY <2>2, ConcatProperties
<1> HIDE DEF one, other
<1>3. r \in Seq(AnyBlock)
  BY <1>2, RestPartsType
<1>4. r \o none = r
  BY <1>3
<1> HIDE DEF none
<1>5. Rest(other, {}) = r \o none
  BY <1>1, <1>4
<1>6. Out(other, s) = Out(one, s) \o items
  BY <1>1
<1> HIDE DEF r
<1>7. QED
  BY <1>1, <1>5, <1>6 DEF Grown, one, other, r, none

-----------------------------------------------------------------------------
(* Items added to a body. *)

\* Blocks and the heading of a section.
Headed(b, s) == b \o <<HeadingBlock(s)>>

\* Lines end in a section with these texts.
Told(l, b, s, texts) ==
    \E own \in Seq(AnyBlock) : Blocks(l) = b \o SectionOf(s, own) /\ NoHead(own) /\ TextsOf(own) = texts

\* What lines say that end in a section and its items.
LEMMA SectionReady ==
    ASSUME NEW b \in Seq(AnyBlock), NEW s \in Sections, NEW l, NEW texts,
           Ready(l, Headed(b, s), texts)
    PROVE  /\ l \in Seq(BodyLines) /\ ~Scanned(l).code /\ texts \in Seq(AnyText)
           /\ Told(l, b, s, texts)
<1> DEFINE hb == <<HeadingBlock(s)>>
<1>1. PICK own \in Seq(AnyBlock) : Blocks(l) = (b \o hb) \o own /\ NoHead(own) /\ TextsOf(own) = texts
  BY DEF Ready, Headed
<1>2. hb \in Seq(AnyBlock)
  BY SectionOfFacts
<1>3. SectionOf(s, own) = hb \o own
  BY DEF SectionOf
<1> HIDE DEF hb
<1>4. Assoc(b, hb, own)
  BY <1>2, Associates
<1>5. Blocks(l) = b \o (hb \o own)
  BY <1>1, <1>4 DEF Assoc
<1>6. l \in Seq(BodyLines) /\ ~Scanned(l).code /\ texts \in Seq(AnyText)
  BY ReadyTexts DEF Ready
<1>7. QED
  BY <1>1, <1>3, <1>5, <1>6 DEF Told

\* A section that starts here says nothing so far.
LEMMA SectionStarts ==
    ASSUME NEW l \in Seq(BodyLines), ~Scanned(l).code, NEW s \in Sections
    PROVE  /\ Headed(Blocks(l), s) \in Heads
           /\ Ready(l \o <<Heading(Headers[s])>>, Headed(Blocks(l), s), <<>>)
<1> DEFINE x == Headers[s]
           new == l \o <<Heading(x)>>
           pre == Blocks(l) \o <<HeadingBlock(s)>>
<1>1. x \in AnyHeader /\ HeadingBlock(s) = HeadBlock(x) /\ HeadingBlock(s).kind = "heading"
  BY SectionHeads
<1>2. /\ new \in Seq(BodyLines) /\ Scanned(new) = Scan(Blocks(new), FALSE, FALSE)
      /\ Blocks(new) = pre /\ Top(Blocks(new)) = HeadingBlock(s)
  BY <1>1, HeadingOpens
<1>3. Blocks(new) \in Seq(AnyBlock)
  BY <1>2, ScannedType
<1>4. <<HeadingBlock(s)>> \in Seq(AnyBlock) /\ Blocks(l) \in Seq(AnyBlock)
  BY ScannedType, SectionOfFacts
<1> DEFINE hb == <<HeadingBlock(s)>>
           b == Blocks(l)
<1>5. Len(hb) = 1
  OBVIOUS
<1> HIDE DEF hb, b
<1>6. b \o hb # <<>>
  <2>1. Len(b \o hb) = Len(b) + Len(hb) /\ Len(b) \in Nat
    BY <1>4, ConcatProperties, LenProperties DEF hb, b
  <2>2. Len(<<>>) = 0
    OBVIOUS
  <2>3. QED
    BY <1>5, <2>1, <2>2
<1>7. pre \in Heads
  BY <1>1, <1>2, <1>3, <1>6 DEF Heads, hb, b
<1>8. ~Scanned(new).code
  <2>1. Scan(Blocks(new), FALSE, FALSE).code = FALSE
    BY DEF Scan
  <2>2. QED
    BY <1>2, <2>1
<1> HIDE DEF new, pre
<1>9. pre \o <<>> = pre /\ <<>> \in Seq(AnyBlock)
  BY <1>2, <1>3
<1> DEFINE none == <<>>
<1>10. NoHead(none) /\ TextsOf(none) = <<>> /\ none \in Seq(AnyBlock) /\ pre \o none = pre
  BY <1>9, NoTexts DEF NoHead
<1> HIDE DEF none
<1>11. Ready(new, pre, <<>>)
  BY <1>2, <1>8, <1>10 DEF Ready
<1>12. QED
  BY <1>7, <1>11 DEF new, pre, Headed

LEMMA TwoMore ==
    ASSUME NEW S, NEW l \in Seq(S), NEW a \in S, NEW b \in S
    PROVE  l \o <<a, b>> = Append(l, a) \o <<b>>
OBVIOUS

\* Items of a section that is not there yet.
LEMMA ItemsInNewSection ==
    ASSUME NEW lines \in Seq(BodyLines), lines # <<>>, ~Scanned(lines).code,
           NEW s \in Sections, s \notin In(Blocks(lines)),
           NEW style \in Styles, NEW items \in Seq(Text), items # <<>>,
           NEW new, new = Trimmed(lines) \o <<Blank, Heading(Headers[s])>> \o ItemLines(style, items, TRUE)
    PROVE  /\ new \in Seq(BodyLines) /\ new # <<>> /\ ~Scanned(new).code
           /\ Grown(Blocks(lines), Blocks(new), s, items)
<1> DEFINE T == Trimmed(lines)
           H == Heading(Headers[s])
           b == Blocks(lines)
           l1 == Append(T, Blank)
           yes == TRUE
           L == ItemLines(style, items, yes)
           pre == Headed(b, s)
<1>1. T \in Seq(BodyLines) /\ T # <<>> /\ ~Scanned(T).code /\ Blocks(T) = b
  BY TrimFacts
<1>2. l1 \in Seq(BodyLines) /\ ~Scanned(l1).code /\ Blocks(l1) = b
  <2> HIDE DEF T
  <2>1. QED
    BY <1>1, BlankAfter
<1>3. H \in BodyLines
  BY SectionHeads, LinesAreLines
<1>4. T \o <<Blank, H>> = l1 \o <<H>>
  <2>1. Blank \in BodyLines
    BY LinesAreLines
  <2> HIDE DEF T, H
  <2>2. QED
    BY <1>1, <1>3, <2>1, TwoMore
<1>5. pre \in Heads /\ Ready(l1 \o <<H>>, pre, <<>>)
  <2> HIDE DEF l1
  <2>1. Headed(Blocks(l1), s) \in Heads /\ Ready(l1 \o <<H>>, Headed(Blocks(l1), s), <<>>)
    BY <1>2, SectionStarts
  <2>2. QED
    BY <1>2, <2>1
<1> DEFINE none == <<>>
           head == l1 \o <<H>>
<1>6. none \o items = items
  OBVIOUS
<1>7. new = head \o L
  BY <1>4 DEF T, H
<1>8. head \in Seq(BodyLines)
  BY <1>5 DEF Ready
<1>9. yes \in BOOLEAN
  OBVIOUS
<1> HIDE DEF none, yes, head, pre
<1>10. L \in Seq(BodyLines) /\ Ready(head \o L, pre, none \o items)
  BY <1>5, <1>9, ItemLinesReady DEF none, head
<1>11. Ready(new, pre, items)
  BY <1>6, <1>7, <1>10
<1>12. b \in Seq(AnyBlock)
  BY ScannedType
<1> HIDE DEF b
<1>13. PICK own \in Seq(AnyBlock) : Blocks(new) = b \o SectionOf(s, own) /\ NoHead(own) /\ TextsOf(own) = items
  <2>1. Ready(new, Headed(b, s), items)
    BY <1>11 DEF pre
  <2>2. Told(new, b, s, items)
    BY <1>12, <2>1, SectionReady
  <2>3. QED
    BY <2>2 DEF Told
<1>14. new \in Seq(BodyLines) /\ ~Scanned(new).code /\ items \in Seq(AnyText)
  BY <1>11, ReadyTexts DEF Ready
<1>15. Grown(b, Blocks(new), s, items)
  BY <1>12, <1>13, <1>14, GrownNew DEF b
<1>16. new # <<>>
  <2>1. Len(T) \in Nat /\ Len(T) # 0 /\ Len(l1) = Len(T) + 1
    <3>1. Len(T) \in Nat /\ Len(T) # 0
      <4> HIDE DEF T
      <4>1. QED
        BY <1>1
    <3> HIDE DEF T
    <3>2. QED
      BY <1>1, <3>1
  <2> HIDE DEF l1, T, H, L
  <2>2. Len(head) = Len(l1) + 1
    BY <1>2, <1>3 DEF head
  <2>3. Len(new) = Len(head) + Len(L) /\ Len(L) \in Nat
    BY <1>7, <1>8, <1>10, ConcatProperties, LenProperties
  <2> DEFINE n == Len(new)
  <2>4. n = Len(head) + Len(L)
    BY <2>3
  <2> HIDE DEF n
  <2>5. n # 0
    BY <2>1, <2>2, <2>3, <2>4
  <2>6. Len(<<>>) = 0
    OBVIOUS
  <2>7. QED
    BY <2>5, <2>6 DEF n
<1>17. QED
  BY <1>14, <1>15, <1>16 DEF b

\* The headings of a section among lines.
HeadingsWith(lines, s) == {i \in Headings(lines) : lines[i] = Heading(Headers[s])}

\* Where the section is.
LEMMA FoundSection ==
    ASSUME NEW lines \in Seq(BodyLines), NEW s \in Sections, HeadingsWith(lines, s) # {},
           NEW h, h = First(HeadingsWith(lines, s))
    PROVE  /\ h \in Headings(lines) /\ lines[h] = Heading(Headers[s])
           /\ h \in 1 .. Len(lines)
           /\ s \notin In(Blocks(SubSeq(lines, 1, h - 1)))
<1> DEFINE A == SubSeq(lines, 1, h - 1)
           H == Heading(Headers[s])
           found == HeadingsWith(lines, s)
<1>1. found \in SUBSET Nat
  <2>1. \A i \in found : i \in 1 .. Len(lines)
    BY HeadingFacts DEF HeadingsWith
  <2>2. QED
    BY <2>1
<1>2. h \in found /\ \A j \in found : h <= j
  BY <1>1, FirstExists
<1>3. h \in Headings(lines) /\ lines[h] = H /\ h \in 1 .. Len(lines)
  BY <1>2, HeadingFacts DEF HeadingsWith
<1>4. /\ A \in Seq(BodyLines) /\ Len(A) = h - 1
      /\ \A i \in 1 .. h - 1 : A[i] = lines[i]
  <2>1. h - 1 \in 0 .. Len(lines)
    BY <1>3
  <2>2. QED
    BY <2>1, Cut
<1>5. ASSUME s \in In(Blocks(A))
      PROVE  FALSE
  <2> HIDE DEF A
  <2>1. HasSection(A, s)
    BY <1>4, <1>5, SectionIn
  <2>2. PICK i \in Headings(A) : A[i] = H
    BY <2>1 DEF HasSection
  <2>3. i \in 1 .. Len(A) /\ A[i].kind = "heading" /\ ~InCode(A, i)
    BY <1>4, <2>2, HeadingFacts
  <2>4. i \in 1 .. h - 1
    BY <1>4, <2>3
  <2>5. InCode(A, i) = InCode(lines, i)
    <3>0. h \in Nat /\ i \in Nat /\ i > 0 /\ i < h
      BY <1>3, <2>4
    <3>1. \A m \in 1 .. i - 1 : m \in 1 .. h - 1
      BY <3>0
    <3>2. \A m \in 1 .. i - 1 : A[m] = lines[m]
      BY <1>4, <3>1
    <3>3. QED
      BY <3>0, <3>2, InCodeAgree
  <2>6. lines[i] = A[i] /\ lines[i].kind = "heading" /\ i \in DOMAIN lines
    <3>1. i \in 1 .. Len(lines)
      BY <1>3, <2>4
    <3>2. QED
      BY <1>4, <2>3, <2>4, <3>1
  <2>7. i \in Headings(lines)
    BY <2>3, <2>5, <2>6 DEF Headings
  <2>8. i \in found
    BY <2>2, <2>6, <2>7 DEF HeadingsWith
  <2>9. h <= i
    BY <1>2, <2>8
  <2>10. QED
    BY <1>3, <2>4, <2>9
<1>6. QED
  BY <1>3, <1>5

\* The section, before and after.
SplitAt(lines, s, h, e) ==
    LET P == SubSeq(lines, 1, e - 1)
        D == SubSeq(lines, e, Len(lines))
        b == Blocks(SubSeq(lines, 1, h - 1))
    IN  /\ P \in Seq(BodyLines) /\ P # <<>> /\ ~Scanned(P).code
        /\ D \in Seq(BodyLines) /\ StartsAfresh(D) /\ ~Scanned(D).code
        /\ Blocks(lines) = Blocks(P) \o Blocks(D) /\ HeadFirst(Blocks(D))
        /\ Headed(b, s) \in Heads /\ b \in Seq(AnyBlock)
        /\ \E old \in Seq(AnyBlock) :
              /\ NoHead(old) /\ Blocks(P) = b \o SectionOf(s, old)
              /\ Blocks(P) = Headed(b, s) \o old

\* A body cut at the first heading of a section.
LEMMA SectionSplit ==
    ASSUME NEW lines \in Seq(BodyLines), ~Scanned(lines).code, NEW s \in Sections,
           NEW h \in Headings(lines), lines[h] = Heading(Headers[s]),
           NEW e, e = SectionEnd(lines, h)
    PROVE  SplitAt(lines, s, h, e)
<1> DEFINE P == SubSeq(lines, 1, e - 1)
           D == SubSeq(lines, e, Len(lines))
           b == Blocks(SubSeq(lines, 1, h - 1))
           A == SubSeq(lines, 1, h - 1)
           C == SubSeq(lines, h + 1, e - 1)
           x == Headers[s]
           H == Heading(x)
<1>1. /\ h \in 1 .. Len(lines) /\ e \in h + 1 .. Len(lines) + 1
      /\ A \in Seq(BodyLines) /\ C \in Seq(BodyLines) /\ D \in Seq(BodyLines)
      /\ ~Scanned(A).code
      /\ P = (A \o <<lines[h]>>) \o C
      /\ lines = P \o D
      /\ NoHead(Blocks(C))
      /\ StartsAfresh(D)
      /\ D # <<>> => ~Scanned(P).code
  <2>1. SectionCut(lines, h, e)
    BY SectionParts
  <2>2. QED
    BY <2>1 DEF SectionCut
<1>2. x \in AnyHeader /\ HeadingBlock(s) = HeadBlock(x)
  BY SectionHeads
<1>12. P # <<>>
  <2>0. h \in Nat /\ h > 0 /\ Len(lines) \in Nat /\ e \in Nat /\ h < e /\ e <= Len(lines) + 1
    <3>1. h \in 1 .. Len(lines) /\ e \in h + 1 .. Len(lines) + 1
      BY EndIs
    <3>2. QED
      BY <3>1, LenProperties
  <2>1. e - 1 \in 0 .. Len(lines) /\ e - 1 # 0
    BY <2>0
  <2>2. Len(P) = e - 1
    BY <2>1, Cut
  <2>3. Len(<<>>) = 0
    OBVIOUS
  <2> HIDE DEF P
  <2>4. QED
    BY <2>1, <2>2, <2>3
<1>14. b = Blocks(A)
  OBVIOUS
<1> HIDE DEF P, D, b, A, C, H
<1>3. /\ (A \o <<H>>) \o C \in Seq(BodyLines)
      /\ Blocks((A \o <<H>>) \o C) = (Blocks(A) \o <<HeadBlock(x)>>) \o Blocks(C)
  BY <1>1, <1>2, AroundHeading DEF H
<1>4. P = (A \o <<H>>) \o C
  BY <1>1 DEF H
<1> DEFINE old == Blocks(C)
           hb == <<HeadingBlock(s)>>
<1>5. P \in Seq(BodyLines) /\ Blocks(P) = (b \o hb) \o old
  BY <1>2, <1>3, <1>4, <1>14
<1>6. b \in Seq(AnyBlock) /\ old \in Seq(AnyBlock) /\ hb \in Seq(AnyBlock)
  BY <1>1, <1>14, ScannedType, SectionOfFacts
<1>7. Headed(b, s) \in Heads
  BY <1>1, <1>14, SectionStarts
<1>8. Blocks(P) = b \o SectionOf(s, old) /\ Blocks(P) = Headed(b, s) \o old
  <2>1. SectionOf(s, old) = hb \o old
    BY DEF SectionOf
  <2>2. Headed(b, s) = b \o hb
    BY DEF Headed
  <2> HIDE DEF hb, old
  <2>3. Assoc(b, hb, old)
    BY <1>6, Associates
  <2>4. (b \o hb) \o old = b \o (hb \o old)
    BY <2>3 DEF Assoc
  <2>5. QED
    BY <1>5, <2>1, <2>2, <2>4
<1>9. ~Scanned(P).code
  <2>1. CASE D = <<>>
    <3>1. P \o <<>> = P
      BY <1>5
    <3>2. lines = P
      BY <1>1, <2>1, <3>1
    <3>3. QED
      BY <3>2
  <2>2. QED
    BY <1>1, <2>1
<1>10. /\ Blocks(P \o D) = Blocks(P) \o Blocks(D)
       /\ Scanned(P \o D).code = Scanned(D).code
       /\ HeadFirst(Blocks(D))
  BY <1>1, <1>5, <1>9, Fresh
<1>11. Blocks(lines) = Blocks(P) \o Blocks(D) /\ ~Scanned(D).code
  BY <1>1, <1>10
<1>13. QED
  BY <1>1, <1>5, <1>6, <1>7, <1>8, <1>9, <1>10, <1>11, <1>12 DEF SplitAt, P, D, b

\* Items at the end of a section that ends at a line.
WithItems(lines, e, style, items, newBlock) ==
    Trimmed(SubSeq(lines, 1, e - 1))
        \o ItemLines(style, items, newBlock)
        \o (IF SubSeq(lines, e, Len(lines)) = <<>> THEN <<>> ELSE <<Blank>> \o SubSeq(lines, e, Len(lines)))

\* Items go to the end of the section that is there.
LEMMA ItemsInOldSection ==
    ASSUME NEW lines \in Seq(BodyLines), ~Scanned(lines).code, NEW s \in Sections,
           NEW h \in Headings(lines), lines[h] = Heading(Headers[s]),
           s \notin In(Blocks(SubSeq(lines, 1, h - 1))),
           NEW e, e = SectionEnd(lines, h),
           NEW style \in Styles, NEW items \in Seq(Text), NEW newBlock \in BOOLEAN,
           NEW new, new = WithItems(lines, e, style, items, newBlock)
    PROVE  /\ new \in Seq(BodyLines) /\ new # <<>> /\ ~Scanned(new).code
           /\ Grown(Blocks(lines), Blocks(new), s, items)
<1> DEFINE P == SubSeq(lines, 1, e - 1)
           D == SubSeq(lines, e, Len(lines))
           b == Blocks(SubSeq(lines, 1, h - 1))
           T == Trimmed(P)
           L == ItemLines(style, items, newBlock)
           TL == T \o L
           M == IF D = <<>> THEN TL ELSE Append(TL, Blank)
<1>0. new = TL \o (IF D = <<>> THEN <<>> ELSE <<Blank>> \o D)
  BY DEF WithItems
<1>1. /\ P \in Seq(BodyLines) /\ P # <<>> /\ ~Scanned(P).code
      /\ D \in Seq(BodyLines) /\ StartsAfresh(D) /\ ~Scanned(D).code
      /\ Blocks(lines) = Blocks(P) \o Blocks(D) /\ HeadFirst(Blocks(D))
      /\ Headed(b, s) \in Heads /\ b \in Seq(AnyBlock)
      /\ \E old \in Seq(AnyBlock) :
            /\ NoHead(old) /\ Blocks(P) = b \o SectionOf(s, old)
            /\ Blocks(P) = Headed(b, s) \o old
  <2>1. SplitAt(lines, s, h, e)
    BY SectionSplit
  <2>2. QED
    BY <2>1 DEF SplitAt
<1>2. s \notin In(b)
  OBVIOUS
<1> HIDE DEF P, D, b
<1>3. PICK old \in Seq(AnyBlock) :
            /\ NoHead(old) /\ Blocks(P) = b \o SectionOf(s, old)
            /\ Blocks(P) = Headed(b, s) \o old
  BY <1>1
<1>4. /\ T \in Seq(BodyLines) /\ T # <<>> /\ ~Scanned(T).code /\ Blocks(T) = Blocks(P)
  BY <1>1, TrimFacts
<1> HIDE DEF T
<1> DEFINE texts == TextsOf(old)
<1>5. Ready(T, Headed(b, s), texts)
  BY <1>3, <1>4 DEF Ready
<1>6. texts \in Seq(AnyText) /\ items \in Seq(AnyText)
  BY TextParts, TextIsText
<1> HIDE DEF texts
<1>7. L \in Seq(BodyLines) /\ Ready(TL, Headed(b, s), texts \o items)
  BY <1>1, <1>5, ItemLinesReady
<1> HIDE DEF L
<1>8. TL \in Seq(BodyLines) /\ ~Scanned(TL).code /\ Told(TL, b, s, texts \o items)
  BY <1>1, <1>7, SectionReady
<1>9. PICK own \in Seq(AnyBlock) :
         Blocks(TL) = b \o SectionOf(s, own) /\ NoHead(own) /\ TextsOf(own) = texts \o items
  BY <1>8 DEF Told
<1>10. TL # <<>>
  BY <1>4, <1>7
<1> HIDE DEF TL
<1>11. M \in Seq(BodyLines) /\ ~Scanned(M).code /\ Blocks(M) = Blocks(TL) /\ M # <<>>
  <2>1. CASE D = <<>>
    BY <1>8, <1>10, <2>1
  <2>2. CASE D # <<>>
    <3>1. Append(TL, Blank) \in Seq(BodyLines) /\ ~Scanned(Append(TL, Blank)).code
          /\ Blocks(Append(TL, Blank)) = Blocks(TL)
      BY <1>8, BlankAfter
    <3>2. Append(TL, Blank) # <<>>
      <4>1. Blank \in BodyLines
        BY LinesAreLines
      <4>2. QED
        BY <1>8, <4>1, AppendProperties
    <3>3. M = Append(TL, Blank)
      BY <2>2
    <3> HIDE DEF M
    <3>4. QED
      BY <3>1, <3>2, <3>3
  <2>3. QED
    BY <2>1, <2>2
<1>12. new = M \o D
  <2>1. CASE D = <<>>
    BY <1>0, <2>1
  <2>2. CASE D # <<>>
    <3>1. Blank \in BodyLines /\ <<Blank>> \in Seq(BodyLines)
      BY LinesAreLines
    <3>2. Assoc(TL, <<Blank>>, D)
      BY <1>1, <1>8, <3>1, Associates
    <3>3. Append(TL, Blank) = TL \o <<Blank>>
      BY <1>8, <3>1, AppendIsConcat
    <3>4. TL \o (<<Blank>> \o D) = Append(TL, Blank) \o D
      BY <3>2, <3>3 DEF Assoc
    <3>5. QED
      BY <1>0, <2>2, <3>4
  <2>3. QED
    BY <2>1, <2>2
<1> HIDE DEF M
<1>13. /\ M \o D \in Seq(BodyLines)
       /\ Blocks(M \o D) = Blocks(M) \o Blocks(D)
       /\ Scanned(M \o D).code = Scanned(D).code
  BY <1>1, <1>11, Fresh
<1>14. new # <<>>
  <2>1. M \o D # <<>>
    BY <1>1, <1>11
  <2>2. QED
    BY <1>12, <2>1
<1>15. Grown(Blocks(lines), Blocks(new), s, items)
  <2> DEFINE d == Blocks(D)
             sold == SectionOf(s, old)
             sown == SectionOf(s, own)
  <2>1. d \in Seq(AnyBlock) /\ HeadFirst(d)
    BY <1>1, ScannedType
  <2>2. TextsOf(own) = TextsOf(old) \o items
    BY <1>9 DEF texts
  <2> HIDE DEF d
  <2>3. Grown((b \o SectionOf(s, old)) \o d, (b \o SectionOf(s, own)) \o d, s, items)
    BY <1>1, <1>2, <1>3, <1>6, <1>9, <2>1, <2>2, GrownOld
  <2>4. Blocks(lines) = (b \o SectionOf(s, old)) \o d /\ Blocks(new) = (b \o SectionOf(s, own)) \o d
    BY <1>1, <1>3, <1>9, <1>11, <1>12, <1>13 DEF d
  <2>5. QED
    BY <2>3, <2>4
<1>16. QED
  BY <1>1, <1>12, <1>13, <1>14, <1>15

\* Items take up the style of the last ones that are there, or else their own.
LEMMA StyleOfItems ==
    ASSUME NEW b \in Seq(AnyBlock), NEW s \in Sections, styles \in [Sections -> Styles],
           NEW item, item = LastItemBlock(b)
    PROVE  (IF item = 0 THEN styles[s] ELSE b[item].kind) \in Styles
<1> DEFINE some == {i \in DOMAIN b : b[i].kind \in {"bullet", "number", "paragraph"}}
           S == {0} \cup some
<1>1. DOMAIN b = 1 .. Len(b) /\ Len(b) \in Nat
  OBVIOUS
<1>2. S \in SUBSET Nat /\ S # {} /\ \A j \in S : j <= Len(b)
  BY <1>1
<1>3. item = Last(S)
  BY DEF LastItemBlock
<1> HIDE DEF S
<1>4. item \in S
  BY <1>1, <1>2, <1>3, LastExists
<1>5. QED
  BY <1>4 DEF S, Styles

\* Adding items to a section changes nothing else that a body says.
LEMMA AppendedItems ==
    ASSUME NEW lines \in Seq(BodyLines), lines # <<>>, ~Scanned(lines).code,
           NEW s \in Sections, styles \in [Sections -> Styles], NEW items \in Seq(Text)
    PROVE  /\ AppendItems(lines, s, items) \in Seq(BodyLines) /\ AppendItems(lines, s, items) # <<>>
           /\ ~Scanned(AppendItems(lines, s, items)).code
           /\ Grown(Blocks(lines), Blocks(AppendItems(lines, s, items)), s, items)
<1> DEFINE new == AppendItems(lines, s, items)
           found == {i \in Headings(lines) : lines[i] = Heading(Headers[s])}
           h == First(found)
           e == SectionEnd(lines, h)
           b == Blocks(SubSeq(lines, h + 1, e - 1))
           item == LastItemBlock(b)
           style == IF item = 0 THEN styles[s] ELSE b[item].kind
           newBlock == item = 0 \/ item # Len(b)
<1>0. Blocks(lines) \in Seq(AnyBlock) /\ styles[s] \in Styles
  BY ScannedType
<1>1. CASE items = <<>>
  <2>1. new = lines
    BY <1>1 DEF AppendItems
  <2> HIDE DEF new
  <2>2. Grown(Blocks(lines), Blocks(new), s, items)
    BY <1>0, <1>1, <2>1, GrownNot
  <2>3. QED
    BY <2>1, <2>2 DEF new
<1>2. CASE items # <<>> /\ found = {}
  <2>1. new = Trimmed(lines) \o <<Blank, Heading(Headers[s])>> \o ItemLines(styles[s], items, TRUE)
    BY <1>2 DEF AppendItems
  <2>2. s \notin In(Blocks(lines))
    <3>1. ~HasSection(lines, s)
      BY <1>2 DEF HasSection
    <3>2. QED
      BY <3>1, SectionIn
  <2> HIDE DEF new
  <2>3. new \in Seq(BodyLines) /\ new # <<>> /\ ~Scanned(new).code /\ Grown(Blocks(lines), Blocks(new), s, items)
    BY <1>0, <1>2, <2>1, <2>2, ItemsInNewSection
  <2>4. QED
    BY <2>3 DEF new
<1>3. CASE items # <<>> /\ found # {}
  <2>1. new = WithItems(lines, e, style, items, newBlock)
    BY <1>3 DEF AppendItems, WithItems
  <2> HIDE DEF new
  <2>2. /\ h \in Headings(lines) /\ lines[h] = Heading(Headers[s]) /\ h \in 1 .. Len(lines)
        /\ s \notin In(Blocks(SubSeq(lines, 1, h - 1)))
    <3>1. h = First(HeadingsWith(lines, s)) /\ HeadingsWith(lines, s) # {}
      BY <1>3 DEF HeadingsWith
    <3> HIDE DEF h, found
    <3>2. QED
      BY <3>1, FoundSection
  <2> HIDE DEF h, found
  <2>3. SubSeq(lines, h + 1, e - 1) \in Seq(BodyLines)
    BY <2>2, SectionParts DEF SectionCut
  <2>4. b \in Seq(AnyBlock)
    BY <2>3, ScannedType
  <2> HIDE DEF b, e
  <2>5. style \in Styles
    BY <2>4, StyleOfItems
  <2>6. newBlock \in BOOLEAN
    OBVIOUS
  <2> HIDE DEF style, newBlock
  <2>7. new \in Seq(BodyLines) /\ new # <<>> /\ ~Scanned(new).code /\ Grown(Blocks(lines), Blocks(new), s, items)
    BY <2>1, <2>2, <2>5, <2>6, ItemsInOldSection DEF e
  <2>8. QED
    BY <2>7 DEF new
<1>4. QED
  BY <1>1, <1>2, <1>3

-----------------------------------------------------------------------------
(* One section after the other. *)

\* As Grown, for sections that are made whether or not they have items.
Grows(old, new, s, items, made) ==
    /\ In(new) = In(old) \cup (IF s \in made THEN {s} ELSE {})
    /\ Out(new, s) = Out(old, s) \o items
    /\ \A t \in Sections : t # s => Out(new, t) = Out(old, t)
    /\ Rest(new, {}) =
         Rest(old, {}) \o (IF s \in made /\ s \notin In(old) THEN <<HeadingBlock(s)>> ELSE <<>>)

\* A body that grows by items, when the sections with items are those to be made.
LEMMA GrownGrows ==
    ASSUME NEW old, NEW new, NEW s, NEW items, NEW made, Grown(old, new, s, items),
           s \in made <=> items # <<>>
    PROVE  Grows(old, new, s, items, made)
BY Zenon DEF Grown, Grows

\* Headings of sections, in order.
HeadParts(made) == [s \in Sections |-> IF s \in made THEN <<HeadingBlock(s)>> ELSE <<>>]

LEMMA HeadPartsType ==
    ASSUME NEW made
    PROVE  /\ HeadParts(made) \in Seq(Seq(AnyBlock)) /\ Len(HeadParts(made)) = Len(Headers)
           /\ Len(Headers) \in Nat
           /\ \A s \in Sections : HeadParts(made)[s] = IF s \in made THEN <<HeadingBlock(s)>> ELSE <<>>
           /\ HeadingsOf(made) = Joined(HeadParts(made))
<1> DEFINE P == HeadParts(made)
           n == Len(Headers)
<1>1. n \in Nat
  BY StylesAssumption
<1>2. \A s \in Sections : <<HeadingBlock(s)>> \in Seq(AnyBlock)
  BY SectionOfFacts, EmptySeq
<1>3. ASSUME NEW s \in Sections
      PROVE  (IF s \in made THEN <<HeadingBlock(s)>> ELSE <<>>) \in Seq(AnyBlock)
  <2>1. <<>> \in Seq(AnyBlock)
    BY EmptySeq
  <2>2. QED
    BY <1>2, <1>3, <2>1
<1>4. P \in [1 .. n -> Seq(AnyBlock)]
  BY <1>3 DEF HeadParts, Sections
<1>5. \A s \in Sections : P[s] = IF s \in made THEN <<HeadingBlock(s)>> ELSE <<>>
  BY DEF HeadParts
<1>6. HeadingsOf(made) = Joined(P)
  BY DEF HeadingsOf, HeadParts
<1> HIDE DEF P
<1>7. P \in Seq(Seq(AnyBlock)) /\ Len(P) = n
  <2> HIDE DEF n
  <2>1. QED
    BY <1>1, <1>4
<1>8. QED
  BY <1>1, <1>5, <1>6, <1>7 DEF P

\* What the first sections did.
Until(k, first, now, items, made, heads) ==
    /\ In(now) = In(first) \cup {s \in Sections : s \in made /\ s <= k}
    /\ \A t \in Sections : Out(now, t) = IF t <= k THEN Out(first, t) \o items[t] ELSE Out(first, t)
    /\ Rest(now, {}) = Rest(first, {}) \o heads

LEMMA UntilNext ==
    ASSUME NEW items, NEW made \in SUBSET Sections,
           NEW first \in Seq(AnyBlock), NEW old, NEW new, NEW heads \in Seq(AnyBlock), NEW more,
           NEW k \in Nat, k + 1 \in Sections, Until(k, first, old, items, made, heads),
           Grows(old, new, k + 1, items[k + 1], made),
           more = heads \o (IF k + 1 \in made \ In(first) THEN <<HeadingBlock(k + 1)>> ELSE <<>>)
    PROVE  Until(k + 1, first, new, items, made, more)
<1> DEFINE s == k + 1
<1>1. s \in Sections /\ s \in Nat /\ k < s /\ ~(s <= k) /\ s <= s
  OBVIOUS
<1>2. \A t \in Sections : t \in Nat
  BY DEF Sections
<1>3. \A t \in Sections : t <= s <=> t = s \/ t <= k
  BY <1>2
<1>4. \A t \in Sections : t = s => ~(t <= k)
  BY <1>1
<1> HIDE DEF s
<1>5. Grows(old, new, s, items[s], made)
  BY DEF s
<1>6. In(new) = In(first) \cup {t \in Sections : t \in made /\ t <= s}
  <2>1. In(old) = In(first) \cup {t \in Sections : t \in made /\ t <= k}
    BY DEF Until
  <2>2. In(new) = In(old) \cup (IF s \in made THEN {s} ELSE {})
    BY <1>5 DEF Grows
  <2>3. QED
    BY <1>1, <1>3, <2>1, <2>2
<1>7. ASSUME NEW t \in Sections
      PROVE  Out(new, t) = IF t <= s THEN Out(first, t) \o items[t] ELSE Out(first, t)
  <2>1. Out(old, t) = IF t <= k THEN Out(first, t) \o items[t] ELSE Out(first, t)
    BY <1>7 DEF Until
  <2>2. CASE t = s
    <3>1. Out(old, t) = Out(first, t)
      BY <1>1, <2>1, <2>2
    <3>2. Out(new, t) = Out(old, t) \o items[t]
      BY <1>5, <2>2 DEF Grows
    <3>3. QED
      BY <1>1, <2>2, <3>1, <3>2
  <2>3. CASE t # s
    <3>1. Out(new, t) = Out(old, t)
      BY <1>5, <1>7, <2>3 DEF Grows
    <3>2. QED
      BY <1>3, <1>7, <2>1, <2>3, <3>1
  <2>4. QED
    BY <2>2, <2>3
<1>8. Rest(new, {}) = Rest(first, {}) \o more
  <2> DEFINE part == IF s \in made \ In(first) THEN <<HeadingBlock(s)>> ELSE <<>>
             r == Rest(first, {})
  <2>1. s \in In(old) <=> s \in In(first)
    BY <1>1 DEF Until
  <2>2. Rest(old, {}) = r \o heads
    BY DEF Until
  <2>3. Rest(new, {}) = Rest(old, {}) \o part
    <3>1. Rest(new, {}) =
            Rest(old, {}) \o (IF s \in made /\ s \notin In(old) THEN <<HeadingBlock(s)>> ELSE <<>>)
      BY <1>5 DEF Grows
    <3>2. (IF s \in made /\ s \notin In(old) THEN <<HeadingBlock(s)>> ELSE <<>>) = part
      BY <2>1
    <3>3. QED
      BY <3>1, <3>2
  <2>4. more = heads \o part
    BY DEF s
  <2>5. part \in Seq(AnyBlock) /\ r \in Seq(AnyBlock)
    <3>1. <<HeadingBlock(s)>> \in Seq(AnyBlock) /\ <<>> \in Seq(AnyBlock)
      BY <1>1, SectionOfFacts, EmptySeq
    <3>2. r \in Seq(AnyBlock)
      BY RestPartsType
    <3>3. QED
      BY <3>1, <3>2
  <2> HIDE DEF part, r
  <2>6. Assoc(r, heads, part)
    BY <2>5, Associates
  <2>7. QED
    BY <2>2, <2>3, <2>4, <2>6 DEF Assoc, r
<1>9. QED
  BY <1>6, <1>7, <1>8 DEF Until, s

\* All of them.
LEMMA GrowsAll ==
    ASSUME NEW items \in [Sections -> Seq(AnyText)], NEW made \in SUBSET Sections,
           NEW B \in [0 .. Len(Headers) -> Seq(AnyBlock)],
           \A m \in Sections : Grows(B[m - 1], B[m], m, items[m], made)
    PROVE  /\ \A t \in Sections : Out(B[Len(Headers)], t) = Out(B[0], t) \o items[t]
           /\ Rest(B[Len(Headers)], {}) = Rest(B[0], {}) \o HeadingsOf(made \ In(B[0]))
<1> DEFINE n == Len(Headers)
           first == B[0]
           X == made \ In(first)
           P == HeadParts(X)
<1>1. /\ P \in Seq(Seq(AnyBlock)) /\ Len(P) = n /\ n \in Nat
      /\ \A s \in Sections : P[s] = IF s \in X THEN <<HeadingBlock(s)>> ELSE <<>>
      /\ HeadingsOf(X) = Joined(P)
  BY HeadPartsType
<1> HIDE DEF P
<1>2. PICK f \in [0 .. Len(P) -> Seq(AnyBlock)] :
         /\ f[0] = <<>>
         /\ \A m \in 1 .. Len(P) : f[m] = f[m - 1] \o P[m]
         /\ Joined(P) = f[Len(P)]
  BY <1>1, JoinedIs
<1>3. f \in [0 .. n -> Seq(AnyBlock)] /\ (\A m \in 1 .. n : f[m] = f[m - 1] \o P[m]) /\ Joined(P) = f[n]
  BY <1>1, <1>2
<1>4. Sections = 1 .. n
  BY DEF Sections
<1> HIDE DEF n
<1>5. first \in Seq(AnyBlock)
  <2>1. 0 \in 0 .. Len(Headers)
    BY <1>1 DEF n
  <2>2. QED
    BY <2>1
<1>6. Until(0, first, B[0], items, made, f[0])
  <2>1. \A t \in Sections : ~(t <= 0)
    BY <1>1, <1>4
  <2>2. Rest(first, {}) \in Seq(AnyBlock)
    BY <1>5, RestPartsType
  <2> DEFINE r == Rest(first, {})
             none == <<>>
  <2>3. r \o none = r
    BY <2>2
  <2>4. f[0] = none
    BY <1>2
  <2> HIDE DEF r, none
  <2>5. Rest(B[0], {}) = Rest(first, {}) \o f[0]
    BY <2>3, <2>4 DEF r
  <2>6. In(B[0]) = In(first) \cup {s \in Sections : s \in made /\ s <= 0}
    BY <2>1
  <2>7. \A t \in Sections : Out(B[0], t) = IF t <= 0 THEN Out(first, t) \o items[t] ELSE Out(first, t)
    BY <2>1
  <2>8. QED
    BY <2>5, <2>6, <2>7 DEF Until
<1>7. ASSUME NEW k \in Nat, k + 1 \in 0 .. n, Until(k, first, B[k], items, made, f[k])
      PROVE  Until(k + 1, first, B[k + 1], items, made, f[k + 1])
  <2>1. k + 1 \in 1 .. n /\ k \in 0 .. n /\ (k + 1) - 1 = k
    BY <1>1, <1>7
  <2> DEFINE s == k + 1
  <2>2. s \in Sections /\ s - 1 = k /\ s \in 1 .. n
    BY <1>4, <2>1
  <2> HIDE DEF s
  <2>3. Grows(B[k], B[s], s, items[s], made)
    <3>1. Grows(B[s - 1], B[s], s, items[s], made)
      BY <2>2
    <3>2. QED
      BY <2>2, <3>1
  <2>4. f[s] = f[k] \o P[s]
    BY <1>3, <2>2
  <2>5. f[s] = f[k] \o (IF s \in made \ In(first) THEN <<HeadingBlock(s)>> ELSE <<>>)
    BY <1>1, <2>2, <2>4
  <2>6. f[k] \in Seq(AnyBlock)
    BY <1>3, <2>1
  <2> DEFINE old == B[k]
             new == B[k + 1]
             heads == f[k]
             more == f[k + 1]
  <2>7. /\ k + 1 \in Sections /\ Grows(old, new, k + 1, items[k + 1], made)
        /\ more = heads \o (IF k + 1 \in made \ In(first) THEN <<HeadingBlock(k + 1)>> ELSE <<>>)
    BY <2>2, <2>3, <2>5 DEF s
  <2>8. Until(k, first, old, items, made, heads) /\ heads \in Seq(AnyBlock)
    BY <1>7, <2>6
  <2> HIDE DEF old, new, heads, more, first
  <2>9. Until(k + 1, first, new, items, made, more)
    BY <1>5, <2>7, <2>8, UntilNext
  <2>10. QED
    BY <2>9 DEF new, more
<1> HIDE DEF first
<1>8. \A k \in Nat : k \in 0 .. n => Until(k, first, B[k], items, made, f[k])
  <2> DEFINE S == {k \in Nat : k \in 0 .. n => Until(k, first, B[k], items, made, f[k])}
  <2>1. 0 \in S
    BY <1>6
  <2>2. ASSUME NEW k \in S
        PROVE  k + 1 \in S
    <3>1. k \in Nat /\ k + 1 \in Nat
      BY <2>2
    <3>2. ASSUME k + 1 \in 0 .. n
          PROVE  Until(k + 1, first, B[k + 1], items, made, f[k + 1])
      <4>1. k \in 0 .. n
        BY <1>1, <3>1, <3>2
      <4>2. Until(k, first, B[k], items, made, f[k])
        BY <2>2, <4>1
      <4>3. QED
        BY <1>7, <3>1, <3>2, <4>2
    <3>3. QED
      BY <3>1, <3>2
  <2>3. S = Nat
    <3>1. S \in SUBSET Nat
      OBVIOUS
    <3> HIDE DEF S
    <3>2. QED
      BY <2>1, <2>2, <3>1, Counting
  <2>4. QED
    BY <2>3
<1>9. Until(n, first, B[n], items, made, f[n])
  BY <1>1, <1>8
<1>10. \A t \in Sections : t <= n
  BY <1>1, <1>4
<1>11. QED
  BY <1>1, <1>3, <1>9, <1>10 DEF Until, n, first

LEMMA LongerStill ==
    ASSUME NEW S, NEW a \in Seq(S), a # <<>>, NEW b \in Seq(S), NEW c \in Seq(S), NEW new, new = a \o b \o c
    PROVE  new \in Seq(S) /\ new # <<>>
OBVIOUS

\* Items are lines of a body.
LEMMA ItemLinesType ==
    ASSUME NEW style \in Styles, NEW items \in Seq(Text), NEW newBlock \in BOOLEAN
    PROVE  ItemLines(style, items, newBlock) \in Seq(BodyLines)
<1> DEFINE none == <<>>
           l == none \o <<Heading(Headers[1])>>
           pre == Headed(Blocks(none), 1)
<1>1. 1 \in Sections
  <2>1. Len(Headers) \in Nat \ {0}
    BY StylesAssumption
  <2> DEFINE n == Len(Headers)
  <2>2. n \in Nat \ {0}
    BY <2>1
  <2> HIDE DEF n
  <2>3. 1 \in 1 .. n
    BY <2>2
  <2>4. QED
    BY <2>3 DEF n, Sections
<1>2. none \in Seq(BodyLines) /\ ~Scanned(none).code
  <2>1. none \in Seq(BodyLines)
    BY EmptySeq
  <2>2. Scanned(none) = NothingScanned
    BY ScannedNone
  <2> HIDE DEF none
  <2>3. QED
    BY <2>1, <2>2, NothingScannedIs
<1> DEFINE one == 1
           no == <<>>
<1>3. pre \in Heads /\ Ready(l, pre, no)
  <2>1. one \in Sections
    BY <1>1
  <2> HIDE DEF none, one
  <2>2. Headed(Blocks(none), one) \in Heads /\ Ready(none \o <<Heading(Headers[one])>>, Headed(Blocks(none), one), <<>>)
    BY <1>2, <2>1, SectionStarts
  <2>3. QED
    BY <2>2 DEF one
<1> HIDE DEF pre, l, no
<1>4. QED
  BY <1>3, ItemLinesReady

\* The parts of a section that is there, in lines that may end in code.
LEMMA OldSection ==
    ASSUME NEW lines \in Seq(BodyLines), NEW h \in Headings(lines), NEW e, e = SectionEnd(lines, h)
    PROVE  /\ SubSeq(lines, 1, e - 1) \in Seq(BodyLines) /\ SubSeq(lines, 1, e - 1) # <<>>
           /\ SubSeq(lines, h + 1, e - 1) \in Seq(BodyLines)
           /\ SubSeq(lines, e, Len(lines)) \in Seq(BodyLines)
<1>1. h \in 1 .. Len(lines) /\ e \in h + 1 .. Len(lines) + 1
  BY EndIs
<1>2. h \in Nat /\ h > 0 /\ Len(lines) \in Nat /\ e \in Nat /\ h < e /\ e <= Len(lines) + 1
  BY <1>1, LenProperties
<1>3. e - 1 \in 0 .. Len(lines) /\ e - 1 # 0
  BY <1>2
<1> DEFINE P == SubSeq(lines, 1, e - 1)
<1>4. P \in Seq(BodyLines) /\ Len(P) = e - 1
  BY <1>3, Cut
<1>5. P # <<>>
  <2>1. Len(<<>>) = 0
    OBVIOUS
  <2> HIDE DEF P
  <2>2. QED
    BY <1>3, <1>4, <2>1
<1>6. /\ SubSeq(lines, h + 1, e - 1) \in Seq(BodyLines)
      /\ SubSeq(lines, e, Len(lines)) \in Seq(BodyLines)
  BY SectionParts DEF SectionCut
<1>7. QED
  BY <1>4, <1>5, <1>6

\* Appending keeps a body a body, also one that ends in code.
LEMMA AppendItemsType ==
    ASSUME NEW lines \in Seq(BodyLines), lines # <<>>,
           NEW s \in Sections, styles \in [Sections -> Styles], NEW items \in Seq(Text)
    PROVE  AppendItems(lines, s, items) \in Seq(BodyLines) /\ AppendItems(lines, s, items) # <<>>
<1> DEFINE new == AppendItems(lines, s, items)
           found == HeadingsWith(lines, s)
           h == First(found)
           e == SectionEnd(lines, h)
           b == Blocks(SubSeq(lines, h + 1, e - 1))
           item == LastItemBlock(b)
           style == IF item = 0 THEN styles[s] ELSE b[item].kind
           newBlock == item = 0 \/ item # Len(b)
<1>0. styles[s] \in Styles
  OBVIOUS
<1>1. CASE items = <<>>
  <2>1. new = lines
    BY <1>1 DEF AppendItems
  <2> HIDE DEF new
  <2>2. QED
    BY <2>1 DEF new
<1>2. CASE items # <<>> /\ found = {}
  <2> DEFINE yes == TRUE
             T == Trimmed(lines)
             M == <<Blank, Heading(Headers[s])>>
             L == ItemLines(styles[s], items, yes)
  <2>1. new = T \o M \o L
    BY <1>2 DEF AppendItems, HeadingsWith
  <2>2. yes \in BOOLEAN
    OBVIOUS
  <2> HIDE DEF yes
  <2>3. L \in Seq(BodyLines)
    BY <1>0, <2>2, ItemLinesType
  <2>4. M \in Seq(BodyLines)
    <3>1. Blank \in BodyLines /\ Heading(Headers[s]) \in BodyLines
      BY SectionHeads, LinesAreLines
    <3>2. QED
      BY <3>1
  <2>5. T \in Seq(BodyLines) /\ T # <<>>
    BY TrimFacts
  <2> HIDE DEF T, M, L, new
  <2>6. new \in Seq(BodyLines) /\ new # <<>>
    BY <2>1, <2>3, <2>4, <2>5, LongerStill
  <2>7. QED
    BY <2>6 DEF new
<1>3. CASE items # <<>> /\ found # {}
  <2> DEFINE P == SubSeq(lines, 1, e - 1)
             D == SubSeq(lines, e, Len(lines))
             T == Trimmed(P)
             L == ItemLines(style, items, newBlock)
             M == IF D = <<>> THEN <<>> ELSE <<Blank>> \o D
  <2>1. new = T \o L \o M
    BY <1>3 DEF AppendItems, HeadingsWith
  <2> HIDE DEF new
  <2>2. h \in Headings(lines)
    <3> HIDE DEF found
    <3>1. QED
      BY <1>3, FoundSection DEF found
  <2> HIDE DEF h, found
  <2>3. P \in Seq(BodyLines) /\ P # <<>> /\ SubSeq(lines, h + 1, e - 1) \in Seq(BodyLines) /\ D \in Seq(BodyLines)
    BY <2>2, OldSection
  <2>4. b \in Seq(AnyBlock)
    BY <2>3, ScannedType
  <2> HIDE DEF b, e
  <2>5. style \in Styles
    BY <2>4, StyleOfItems
  <2>6. newBlock \in BOOLEAN
    OBVIOUS
  <2> HIDE DEF style, newBlock, P, D
  <2>7. L \in Seq(BodyLines)
    BY <2>5, <2>6, ItemLinesType
  <2>8. T \in Seq(BodyLines) /\ T # <<>>
    BY <2>3, TrimFacts
  <2>9. M \in Seq(BodyLines)
    <3>1. Blank \in BodyLines
      BY LinesAreLines
    <3>2. QED
      BY <2>3, <3>1
  <2> HIDE DEF T, L, M
  <2>10. new \in Seq(BodyLines) /\ new # <<>>
    BY <2>1, <2>7, <2>8, <2>9, LongerStill
  <2>11. QED
    BY <2>10 DEF new
<1>4. QED
  BY <1>1, <1>2, <1>3

-----------------------------------------------------------------------------
(* Shorthand added to a body. *)

\* The function that AppendMarkerSections defines.
IsGrown(f, lines, parsed) ==
    f = [s \in 0 .. Len(Headers) |->
          IF s = 0 THEN lines ELSE AppendItems(f[s - 1], s, ItemsToAppend(parsed, s))]

\* Bodies have a line.
AnyBody == {l \in Seq(BodyLines) : l # <<>>}

\* What is asked of what was parsed.
Itemised(parsed) == \A s \in Sections : ItemsToAppend(parsed, s) \in Seq(Text)

\* Appending to the sections, as the steps of a function.
LEMMA GrownIs ==
    ASSUME NEW lines \in AnyBody, NEW parsed, Itemised(parsed), styles \in [Sections -> Styles]
    PROVE  \E f \in [0 .. Len(Headers) -> AnyBody] :
              /\ f[0] = lines
              /\ \A m \in Sections : f[m] = AppendItems(f[m - 1], m, ItemsToAppend(parsed, m))
              /\ AppendMarkerSections(lines, parsed) = f[Len(Headers)]
<1> DEFINE n == Len(Headers)
           step == [pair \in (1 .. n) \X AnyBody |->
                     AppendItems(pair[2], pair[1], ItemsToAppend(parsed, pair[1]))]
<1>1. n \in Nat /\ Sections = 1 .. n
  BY StylesAssumption DEF Sections
<1>2. \A m \in 1 .. n, a \in AnyBody : AppendItems(a, m, ItemsToAppend(parsed, m)) \in AnyBody
  BY <1>1, AppendItemsType DEF Itemised, AnyBody
<1>3. step \in [(1 .. n) \X AnyBody -> AnyBody]
  BY <1>2
<1>4. \A m \in 1 .. n, a \in AnyBody : step[<<m, a>>] = AppendItems(a, m, ItemsToAppend(parsed, m))
  OBVIOUS
<1> HIDE DEF step, n
<1>5. PICK f \in [0 .. n -> AnyBody] : StepsFrom(f, lines, n, step)
  BY <1>1, <1>3, StepsExist
<1>6. f[0] = lines /\ \A m \in 1 .. n : f[m] = AppendItems(f[m - 1], m, ItemsToAppend(parsed, m))
  <2>1. \A m \in 1 .. n : m - 1 \in 0 .. n
    BY <1>1
  <2>2. QED
    BY <1>4, <1>5, <2>1 DEF StepsFrom
<1>7. ASSUME NEW m \in 0 .. n
      PROVE  f[m] = IF m = 0 THEN lines ELSE AppendItems(f[m - 1], m, ItemsToAppend(parsed, m))
  <2>1. m = 0 \/ m \in 1 .. n
    BY <1>1
  <2>2. QED
    BY <1>6, <2>1
<1>8. IsGrown(f, lines, parsed)
  BY <1>7 DEF IsGrown, n
<1> DEFINE chosen == CHOOSE g : IsGrown(g, lines, parsed)
<1>9. IsGrown(chosen, lines, parsed)
  BY <1>8
<1>10. AppendMarkerSections(lines, parsed) = chosen[n]
  BY DEF AppendMarkerSections, IsGrown, n
<1> HIDE DEF chosen
<1>11. \A m \in 0 .. n : chosen[m] = IF m = 0 THEN lines ELSE AppendItems(chosen[m - 1], m, ItemsToAppend(parsed, m))
  BY <1>9 DEF IsGrown, n
<1>12. chosen[0] = lines /\ \A m \in 1 .. n : chosen[m] = AppendItems(chosen[m - 1], m, ItemsToAppend(parsed, m))
  <2>1. 0 \in 0 .. n /\ \A m \in 1 .. n : m \in 0 .. n /\ m # 0
    BY <1>1
  <2>2. QED
    BY <1>11, <2>1, ZenonT(30)
<1>13. Alike(f, chosen, n)
  BY <1>6, <1>12, ZenonT(30) DEF Alike
<1>14. f[n] = chosen[n]
  <2>1. n \in 0 .. n
    BY <1>1
  <2>2. QED
    BY <1>1, <1>13, <2>1, StepsAgree
<1>15. QED
  BY <1>1, <1>6, <1>10, <1>14 DEF n

LEMMA AppendedType ==
    ASSUME NEW lines \in AnyBody, NEW parsed, Itemised(parsed), styles \in [Sections -> Styles]
    PROVE  AppendMarkerSections(lines, parsed) \in AnyBody
<1>1. PICK f \in [0 .. Len(Headers) -> AnyBody] : AppendMarkerSections(lines, parsed) = f[Len(Headers)]
  BY GrownIs
<1>2. Len(Headers) \in 0 .. Len(Headers)
  BY StylesAssumption
<1>3. QED
  BY <1>1, <1>2

\* Every section has its items, and nothing else has changed.
Appended(lines, new, parsed) ==
    /\ \A s \in Sections : SectionTexts(new, s) = SectionTexts(lines, s) \o ItemsToAppend(parsed, s)
    /\ Elsewhere(new) = Elsewhere(lines) \o HeadingsOf({s \in Sections :
          ItemsToAppend(parsed, s) # <<>> /\ ~HasSection(lines, s)})

\* Every section says what it said and then its items, and everything else is
\* as it was, with the headings that were missing at the end.
LEMMA AppendedSections ==
    ASSUME NEW lines \in AnyBody, ~Scanned(lines).code, NEW parsed, Itemised(parsed),
           styles \in [Sections -> Styles], NEW new, new = AppendMarkerSections(lines, parsed)
    PROVE  Appended(lines, new, parsed)
<1> DEFINE n == Len(Headers)
           items == [s \in Sections |-> ItemsToAppend(parsed, s)]
           made == {s \in Sections : items[s] # <<>>}
<1>1. n \in Nat /\ Sections = 1 .. n
  BY StylesAssumption DEF Sections
<1>2. PICK f \in [0 .. n -> AnyBody] :
         /\ f[0] = lines
         /\ \A m \in Sections : f[m] = AppendItems(f[m - 1], m, ItemsToAppend(parsed, m))
         /\ new = f[n]
  BY GrownIs
<1> HIDE DEF n
<1>3. \A s \in Sections : items[s] = ItemsToAppend(parsed, s) /\ items[s] \in Seq(Text)
  BY DEF Itemised
<1>4. items \in [Sections -> Seq(AnyText)]
  BY <1>3, TextIsText
<1> HIDE DEF items
<1>5. ASSUME NEW m \in Sections, ~Scanned(f[m - 1]).code
      PROVE  ~Scanned(f[m]).code /\ Grown(Blocks(f[m - 1]), Blocks(f[m]), m, items[m])
  <2>1. m - 1 \in 0 .. n
    BY <1>1
  <2>2. f[m - 1] \in Seq(BodyLines) /\ f[m - 1] # <<>>
    BY <1>2, <2>1 DEF AnyBody
  <2> DEFINE old == f[m - 1]
             it == items[m]
  <2>3. f[m] = AppendItems(old, m, it) /\ it \in Seq(Text)
    BY <1>2, <1>3
  <2> HIDE DEF old, it
  <2>4. old \in Seq(BodyLines) /\ old # <<>> /\ ~Scanned(old).code
    BY <1>5, <2>2 DEF old
  <2>5. ~Scanned(AppendItems(old, m, it)).code /\ Grown(Blocks(old), Blocks(AppendItems(old, m, it)), m, it)
    BY <2>3, <2>4, AppendedItems
  <2>6. QED
    BY <2>3, <2>5 DEF old, it
<1>6. \A k \in Nat : k \in 0 .. n => ~Scanned(f[k]).code
  <2> DEFINE S == {k \in Nat : k \in 0 .. n => ~Scanned(f[k]).code}
  <2>1. 0 \in S
    BY <1>2
  <2>2. ASSUME NEW k \in S
        PROVE  k + 1 \in S
    <3>1. k \in Nat /\ k + 1 \in Nat /\ (k + 1) - 1 = k
      BY <2>2
    <3>2. ASSUME k + 1 \in 0 .. n
          PROVE  ~Scanned(f[k + 1]).code
      <4>1. k \in 0 .. n /\ k + 1 \in Sections
        BY <1>1, <3>1, <3>2
      <4>2. ~Scanned(f[k]).code
        BY <2>2, <4>1
      <4>3. QED
        BY <1>5, <3>1, <4>1, <4>2
    <3>3. QED
      BY <3>1, <3>2
  <2>3. S \in SUBSET Nat
    OBVIOUS
  <2> HIDE DEF S
  <2>4. S = Nat
    BY <2>1, <2>2, <2>3, Counting
  <2>5. QED
    BY <2>4 DEF S
<1> DEFINE B == [k \in 0 .. n |-> Blocks(f[k])]
<1>7. B \in [0 .. n -> Seq(AnyBlock)] /\ \A k \in 0 .. n : B[k] = Blocks(f[k])
  <2>1. \A k \in 0 .. n : Blocks(f[k]) \in Seq(AnyBlock)
    BY <1>2, ScannedType DEF AnyBody
  <2>2. QED
    BY <2>1
<1> HIDE DEF B
<1>8. ASSUME NEW m \in Sections
      PROVE  Grows(B[m - 1], B[m], m, items[m], made)
  <2>1. m - 1 \in 0 .. n /\ m - 1 \in Nat /\ m \in 0 .. n
    BY <1>1
  <2>2. Grown(Blocks(f[m - 1]), Blocks(f[m]), m, items[m])
    BY <1>5, <1>6, <2>1
  <2> DEFINE it == items[m]
             old == B[m - 1]
             now == B[m]
  <2>3. Grown(old, now, m, it)
    BY <1>7, <2>1, <2>2
  <2>4. m \in made <=> it # <<>>
    OBVIOUS
  <2> HIDE DEF it, made, old, now
  <2>5. Grows(old, now, m, it, made)
    BY <2>3, <2>4, GrownGrows
  <2>6. QED
    BY <2>5 DEF it, old, now
<1>9. made \in SUBSET Sections
  OBVIOUS
<1> HIDE DEF made
<1>10. /\ \A t \in Sections : Out(B[n], t) = Out(B[0], t) \o items[t]
       /\ Rest(B[n], {}) = Rest(B[0], {}) \o HeadingsOf(made \ In(B[0]))
  BY <1>4, <1>7, <1>8, <1>9, GrowsAll DEF n
<1>11. B[n] = Blocks(new) /\ B[0] = Blocks(lines)
  BY <1>1, <1>2, <1>7
<1>12. made \ In(B[0]) = {s \in Sections : ItemsToAppend(parsed, s) # <<>> /\ ~HasSection(lines, s)}
  <2>1. \A s \in Sections : HasSection(lines, s) <=> s \in In(B[0])
    BY <1>11, SectionIn DEF AnyBody
  <2>2. QED
    BY <1>3, <2>1 DEF made
<1>13. \A s \in Sections : SectionTexts(new, s) = SectionTexts(lines, s) \o ItemsToAppend(parsed, s)
  <2>1. ASSUME NEW s \in Sections
        PROVE  SectionTexts(new, s) = SectionTexts(lines, s) \o ItemsToAppend(parsed, s)
    <3>1. Out(B[n], s) = Out(B[0], s) \o items[s]
      BY <1>10
    <3>2. SectionTexts(new, s) = Out(B[n], s) /\ SectionTexts(lines, s) = Out(B[0], s)
      BY <1>11, LinesSay
    <3>3. QED
      BY <1>3, <3>1, <3>2
  <2>2. QED
    BY <2>1
<1>14. Elsewhere(new) = Rest(B[n], {}) /\ Elsewhere(lines) = Rest(B[0], {})
  BY <1>11, LinesSay
<1>15. QED
  BY <1>10, <1>12, <1>13, <1>14 DEF Appended

-----------------------------------------------------------------------------
(* What is parsed. *)

\* What shorthand can be parsed to.
Parseds ==
    [title: Text, items: [Sections -> Seq(Text)], present: SUBSET Sections,
     current: Sections, text: Text, marked: BOOLEAN]

LEMMA FirstSection == 1 \in Sections
<1> DEFINE n == Len(Headers)
<1>1. n \in Nat \ {0}
  BY StylesAssumption
<1> HIDE DEF n
<1>2. 1 \in 1 .. n
  BY <1>1
<1>3. QED
  BY <1>2 DEF n, Sections

LEMMA NothingParsedType == NothingParsed \in Parseds
<1>1. <<>> \in Text /\ <<>> \in Seq(Text)
  BY EmptySeq DEF Text
<1>2. 1 \in Sections
  BY FirstSection
<1> DEFINE none == <<>>
           one == 1
<1> HIDE DEF none, one
<1>3. [s \in Sections |-> none] \in [Sections -> Seq(Text)]
  BY <1>1 DEF none
<1>4. NothingParsed = [title |-> none, items |-> [s \in Sections |-> none], present |-> {},
                       current |-> one, text |-> none, marked |-> FALSE]
  BY DEF NothingParsed, none, one
<1> DEFINE it == [s \in Sections |-> none]
<1> HIDE DEF it
<1>5. it \in [Sections -> Seq(Text)] /\ none \in Text /\ one \in Sections
  BY <1>1, <1>2, <1>3 DEF it, none, one
<1>6. [title |-> none, items |-> it, present |-> {}, current |-> one, text |-> none, marked |-> FALSE]
        \in Parseds
  BY <1>5 DEF Parseds
<1>7. QED
  BY <1>4, <1>6 DEF it

LEMMA FlushType ==
    ASSUME NEW parsed \in Parseds
    PROVE  Flush(parsed) \in Parseds
<1>1. <<>> \in Text
  BY EmptySeq DEF Text
<1> DEFINE none == <<>>
<1> HIDE DEF none
<1>2. /\ parsed.text \in Text /\ parsed.current \in Sections
      /\ parsed.items \in [Sections -> Seq(Text)]
      /\ parsed.items[parsed.current] \in Seq(Text)
  BY DEF Parseds
<1>3. Append(parsed.items[parsed.current], parsed.text) \in Seq(Text)
  BY <1>2, AppendProperties
<1> DEFINE more == Append(parsed.items[parsed.current], parsed.text)
<1> HIDE DEF more
<1>4. [parsed EXCEPT !.marked = TRUE] \in Parseds
  BY DEF Parseds
<1>5. [parsed EXCEPT !.items[parsed.current] = more, !.text = none] \in Parseds
  BY <1>1, <1>2, <1>3 DEF Parseds, more, none
<1>6. [parsed EXCEPT !.title = parsed.text, !.text = none, !.marked = TRUE] \in Parseds
  BY <1>1, <1>2 DEF Parseds, none
<1>7. QED
  BY <1>4, <1>5, <1>6 DEF Flush, more, none

\* Each token keeps it so.
LEMMA TakeType ==
    ASSUME NEW parsed \in Parseds, NEW token \in Tokens
    PROVE  Take(parsed, token) \in Parseds
<1>1. CASE token \in Words
  <2>1. Append(parsed.text, token) \in Text
    BY <1>1, AppendProperties DEF Parseds, Text
  <2> DEFINE more == Append(parsed.text, token)
  <2> HIDE DEF more
  <2>2. [parsed EXCEPT !.text = more] \in Parseds
    BY <2>1 DEF Parseds, more
  <2>3. Take(parsed, token) = [parsed EXCEPT !.text = more]
    BY <1>1 DEF Take, more
  <2>4. QED
    BY <2>2, <2>3
<1>2. CASE token \notin Words /\ token = ItemMarker
  BY <1>2, FlushType DEF Take
<1>3. CASE token \notin Words /\ token # ItemMarker
  <2>1. token \in Sections
    BY <1>3 DEF Tokens
  <2> DEFINE flushed == Flush(parsed)
  <2>2. flushed \in Parseds
    BY FlushType
  <2>3. Take(parsed, token) = [flushed EXCEPT !.current = token, !.present = @ \cup {token}]
    BY <1>3 DEF Take
  <2> HIDE DEF flushed
  <2>4. [flushed EXCEPT !.current = token, !.present = @ \cup {token}] \in Parseds
    BY <2>1, <2>2 DEF Parseds
  <2>5. QED
    BY <2>3, <2>4
<1>4. QED
  BY <1>1, <1>2, <1>3

\* The function that Parse defines.
IsTaken(f, shorthand) ==
    f = [n \in 0 .. Len(shorthand) |-> IF n = 0 THEN NothingParsed ELSE Take(f[n - 1], shorthand[n])]

LEMMA ParseType ==
    ASSUME NEW shorthand \in Seq(Tokens)
    PROVE  Parse(shorthand) \in Parseds
<1> DEFINE n == Len(shorthand)
           step == [pair \in (1 .. n) \X Parseds |-> Take(pair[2], shorthand[pair[1]])]
<1>1. n \in Nat /\ \A m \in 1 .. n : shorthand[m] \in Tokens
  BY LenProperties, ElementOfSeq
<1>2. \A m \in 1 .. n, a \in Parseds : Take(a, shorthand[m]) \in Parseds
  BY <1>1, TakeType
<1>3. step \in [(1 .. n) \X Parseds -> Parseds]
  BY <1>2
<1>4. \A m \in 1 .. n, a \in Parseds : step[<<m, a>>] = Take(a, shorthand[m])
  OBVIOUS
<1> HIDE DEF step, n
<1>5. PICK f \in [0 .. n -> Parseds] : StepsFrom(f, NothingParsed, n, step)
  BY <1>1, <1>3, NothingParsedType, StepsExist
<1>6. f[0] = NothingParsed /\ \A m \in 1 .. n : f[m] = Take(f[m - 1], shorthand[m])
  <2>1. \A m \in 1 .. n : m - 1 \in 0 .. n
    BY <1>1
  <2>2. QED
    BY <1>4, <1>5, <2>1 DEF StepsFrom
<1>7. ASSUME NEW m \in 0 .. n
      PROVE  f[m] = IF m = 0 THEN NothingParsed ELSE Take(f[m - 1], shorthand[m])
  <2>1. m = 0 \/ m \in 1 .. n
    BY <1>1
  <2>2. QED
    BY <1>6, <2>1
<1>8. IsTaken(f, shorthand)
  BY <1>7 DEF IsTaken, n
<1> DEFINE chosen == CHOOSE g : IsTaken(g, shorthand)
<1>9. IsTaken(chosen, shorthand)
  BY <1>8
<1> DEFINE last == chosen[n]
<1>10. Parse(shorthand) = IF last.marked THEN Flush(last) ELSE [last EXCEPT !.title = last.text]
  BY DEF Parse, IsTaken, n
<1> HIDE DEF chosen
<1>11. \A m \in 0 .. n : chosen[m] = IF m = 0 THEN NothingParsed ELSE Take(chosen[m - 1], shorthand[m])
  BY <1>9 DEF IsTaken, n
<1>12. chosen[0] = NothingParsed /\ \A m \in 1 .. n : chosen[m] = Take(chosen[m - 1], shorthand[m])
  <2>1. 0 \in 0 .. n /\ \A m \in 1 .. n : m \in 0 .. n /\ m # 0
    BY <1>1
  <2>2. QED
    BY <1>11, <2>1, ZenonT(30)
<1>13. Alike(f, chosen, n)
  BY <1>6, <1>12, ZenonT(30) DEF Alike
<1>14. last \in Parseds
  <2>1. n \in 0 .. n
    BY <1>1
  <2>2. f[n] = chosen[n]
    BY <1>1, <1>13, <2>1, StepsAgree
  <2>3. QED
    BY <1>5, <2>1, <2>2
<1> HIDE DEF last
<1>15. [last EXCEPT !.title = last.text] \in Parseds
  BY <1>14 DEF Parseds
<1>16. QED
  BY <1>10, <1>14, <1>15, FlushType

LEMMA ShorthandType == \A shorthand \in Shorthands : shorthand \in Seq(Tokens)
<1>1. ASSUME NEW shorthand \in Shorthands
      PROVE  shorthand \in Seq(Tokens)
  <2>1. PICK n \in 1 .. MaxTokens : shorthand \in [1 .. n -> Tokens]
    BY <1>1 DEF Shorthands
  <2>2. n \in Nat
    BY <2>1, ShorthandAssumption
  <2>3. QED
    BY <2>1, <2>2
<1>2. QED
  BY <1>1

LEMMA ParsedItems ==
    ASSUME NEW parsed \in Parseds
    PROVE  /\ parsed.items \in [Sections -> Seq(Text)] /\ parsed.title \in Text
           /\ parsed.present \in SUBSET Sections /\ Itemised(parsed)
<1>1. parsed.items \in [Sections -> Seq(Text)] /\ parsed.title \in Text /\ parsed.present \in SUBSET Sections
  BY DEF Parseds
<1>2. ASSUME NEW s \in Sections
      PROVE  ItemsToAppend(parsed, s) \in Seq(Text)
  <2> DEFINE it == parsed.items[s]
             t == parsed.title
  <2>1. it \in Seq(Text) /\ t \in Text
    BY <1>1
  <2> HIDE DEF it, t
  <2>2. <<t>> \o it \in Seq(Text)
    BY <2>1
  <2>3. ItemsToAppend(parsed, s) = it \/ ItemsToAppend(parsed, s) = <<t>> \o it
    BY DEF ItemsToAppend, it, t
  <2>4. QED
    BY <2>1, <2>2, <2>3
<1>3. QED
  BY <1>1, <1>2 DEF Itemised

-----------------------------------------------------------------------------
(* Rendering. *)

\* A section that is made, whether or not it has items.
LEMMA GrowsNew ==
    ASSUME NEW b \in Seq(AnyBlock), NEW s \in Sections, s \notin In(b),
           NEW own \in Seq(AnyBlock), NoHead(own), NEW items \in Seq(AnyText),
           TextsOf(own) = items, NEW made, s \in made
    PROVE  Grows(b, b \o SectionOf(s, own), s, items, made)
<1> DEFINE new == b \o SectionOf(s, own)
           r == Rest(b, {})
           none == <<>>
<1>1. /\ In(new) = In(b) \cup {s}
      /\ Out(new, s) = items
      /\ \A t \in Sections : t # s => Out(new, t) = Out(b, t)
      /\ Rest(new, {}) = r \o <<HeadingBlock(s)>>
  BY SectionAfter
<1>2. Out(b, s) = none
  BY OutAbsent
<1>3. none \o items = items
  OBVIOUS
<1> HIDE DEF none, new, r
<1>4. Out(new, s) = Out(b, s) \o items
  BY <1>1, <1>2, <1>3
<1>5. QED
  BY <1>1, <1>4 DEF Grows, new, r

\* What follows the heading of a section.
UnderHeading(s, items) == IF items = <<>> THEN <<Blank>> ELSE ItemLines(styles[s], items, TRUE)

\* A section at the end, after at most a blank line.
LEMMA SectionRendered ==
    ASSUME NEW l \in Seq(BodyLines), ~Scanned(l).code, NEW s \in Sections, s \notin In(Blocks(l)),
           NEW items \in Seq(Text), styles \in [Sections -> Styles], NEW made, s \in made,
           NEW gap \in {<<>>, <<Blank>>}, NEW new, new = l \o (gap \o RenderedSection(s, items))
    PROVE  /\ gap \o RenderedSection(s, items) \in Seq(BodyLines)
           /\ new \in Seq(BodyLines) /\ new # <<>> /\ ~Scanned(new).code
           /\ Grows(Blocks(l), Blocks(new), s, items, made)
<1> DEFINE l1 == l \o gap
           H == Heading(Headers[s])
           R == UnderHeading(s, items)
           b == Blocks(l)
           head == l1 \o <<H>>
           pre == Headed(b, s)
           none == <<>>
<1>1. Blank \in BodyLines /\ H \in BodyLines
  BY SectionHeads, LinesAreLines
<1>2. gap \in Seq({Blank}) /\ gap \in Seq(BodyLines)
  <2>1. <<>> \in Seq({Blank}) /\ <<>> \in Seq(BodyLines)
    BY EmptySeq
  <2> DEFINE e == Blank
  <2>2. e \in {Blank} /\ e \in BodyLines
    BY <1>1
  <2> HIDE DEF e
  <2>3. <<e>> \in Seq({Blank}) /\ <<e>> \in Seq(BodyLines)
    BY <2>2
  <2>4. gap = <<>> \/ gap = <<e>>
    BY DEF e
  <2>5. QED
    BY <2>1, <2>3, <2>4
<1>3. l1 \in Seq(BodyLines) /\ ~Scanned(l1).code /\ Blocks(l1) = b
  BY <1>2, Blanks
<1> HIDE DEF H
<1>4. RenderedSection(s, items) = <<H>> \o R
  BY DEF RenderedSection, UnderHeading, H
<1>5. pre \in Heads /\ Ready(head, pre, none)
  <2> HIDE DEF l1
  <2>1. Headed(Blocks(l1), s) \in Heads /\ Ready(l1 \o <<H>>, Headed(Blocks(l1), s), <<>>)
    BY <1>3, SectionStarts DEF H
  <2>2. QED
    BY <1>3, <2>1
<1> HIDE DEF b, pre, head
<1>6. R \in Seq(BodyLines) /\ Ready(head \o R, pre, items)
  <2>1. CASE items = <<>>
    <3>1. R = <<Blank>>
      BY <2>1 DEF UnderHeading
    <3>2. Ready(Append(head, Blank), pre, none)
      BY <1>5, ReadyBlank
    <3>3. head \in Seq(BodyLines)
      BY <1>5, ReadyTexts
    <3>4. Append(head, Blank) = head \o <<Blank>>
      BY <1>1, <3>3, AppendIsConcat
    <3>5. items = none
      BY <2>1
    <3>6. <<Blank>> \in Seq(BodyLines)
      BY <1>1
    <3> HIDE DEF none, R
    <3>7. QED
      BY <3>1, <3>2, <3>4, <3>5, <3>6
  <2>2. CASE items # <<>>
    <3> DEFINE yes == TRUE
               style == styles[s]
    <3>1. R = ItemLines(style, items, yes)
      BY <2>2 DEF UnderHeading
    <3>2. yes \in BOOLEAN /\ style \in Styles
      OBVIOUS
    <3>3. none \o items = items
      OBVIOUS
    <3> HIDE DEF none, yes, style, R
    <3>4. ItemLines(style, items, yes) \in Seq(BodyLines)
          /\ Ready(head \o ItemLines(style, items, yes), pre, none \o items)
      BY <1>5, <3>2, ItemLinesReady
    <3>5. QED
      BY <3>1, <3>3, <3>4
  <2>3. QED
    BY <2>1, <2>2
<1> HIDE DEF R
<1>7. new = head \o R
  <2>1. <<H>> \in Seq(BodyLines)
    BY <1>1
  <2> DEFINE hh == <<H>>
             hr == hh \o R
  <2>2. hh \in Seq(BodyLines)
    BY <2>1
  <2> HIDE DEF hh
  <2>3. hr \in Seq(BodyLines)
    BY <1>6, <2>2, ConcatProperties
  <2>4. new = l \o (gap \o hr)
    BY <1>4 DEF hh
  <2> HIDE DEF hr
  <2>5. Assoc(l, gap, hr) /\ Assoc(l1, hh, R)
    BY <1>2, <1>3, <1>6, <2>2, <2>3, Associates
  <2>6. l1 \o hr = (l1 \o hh) \o R
    BY <2>5 DEF Assoc, hr
  <2>7. new = l1 \o hr
    BY <2>4, <2>5 DEF Assoc
  <2>8. QED
    BY <2>6, <2>7 DEF head, hh
<1>8. gap \o RenderedSection(s, items) \in Seq(BodyLines)
  BY <1>1, <1>2, <1>4, <1>6
<1>9. Ready(new, pre, items)
  BY <1>6, <1>7
<1>10. b \in Seq(AnyBlock)
  BY ScannedType DEF b
<1>11. new \in Seq(BodyLines) /\ ~Scanned(new).code /\ items \in Seq(AnyText) /\ Told(new, b, s, items)
  <2>1. Ready(new, Headed(b, s), items)
    BY <1>9 DEF pre
  <2>2. QED
    BY <1>10, <2>1, SectionReady
<1>12. PICK own \in Seq(AnyBlock) : Blocks(new) = b \o SectionOf(s, own) /\ NoHead(own) /\ TextsOf(own) = items
  BY <1>11 DEF Told
<1>13. Grows(b, Blocks(new), s, items, made)
  <2>1. s \notin In(b)
    BY DEF b
  <2>2. Grows(b, b \o SectionOf(s, own), s, items, made)
    BY <1>10, <1>11, <1>12, <2>1, GrowsNew
  <2>3. QED
    BY <1>12, <2>2
<1>14. new # <<>>
  <2>1. Len(head) = Len(l1) + 1 /\ Len(l1) \in Nat
    <3> HIDE DEF l1
    <3>1. QED
      BY <1>1, <1>3 DEF head
  <2> DEFINE n == Len(head \o R)
  <2>2. n = Len(head) + Len(R) /\ Len(R) \in Nat
    <3>1. head \in Seq(BodyLines)
      BY <1>5, ReadyTexts
    <3>2. QED
      BY <1>6, <3>1, ConcatProperties, LenProperties
  <2> HIDE DEF n
  <2>3. n # 0
    BY <2>1, <2>2
  <2>4. Len(<<>>) = 0
    OBVIOUS
  <2>5. QED
    BY <1>7, <2>3, <2>4 DEF n
<1>15. QED
  BY <1>8, <1>11, <1>13, <1>14 DEF b

\* The parts of a rendered body.
Wanted(parsed, present) == {s \in Sections : s = 1 \/ s \in present \/ parsed.items[s] # <<>>}
GapBefore(s) == IF s = 1 THEN <<>> ELSE <<Blank>>
\* A rendered body, section by section.
RenderedParts(parsed, present) ==
    [s \in Sections |->
        IF s = 1 THEN RenderedSection(s, parsed.items[s])
        ELSE IF s \in present \/ parsed.items[s] # <<>>
        THEN <<Blank>> \o RenderedSection(s, parsed.items[s])
        ELSE <<>>]

\* Rendering puts the sections together.
LEMMA RenderedIs ==
    \A parsed, present : Rendered(parsed, present) = Joined(RenderedParts(parsed, present))
BY DEF Rendered, RenderedParts

IsPart(part, s, items, made) ==
    /\ part \in Seq(BodyLines)
    /\ s \notin made => part = <<>> /\ items = <<>>
    /\ s \in made => part = GapBefore(s) \o RenderedSection(s, items)

LEMMA RenderedPart ==
    ASSUME NEW items \in [Sections -> Seq(Text)], styles \in [Sections -> Styles],
           NEW parsed, parsed.items = items, NEW present, NEW s \in Sections
    PROVE  IsPart(RenderedParts(parsed, present)[s], s, items[s], Wanted(parsed, present))
<1> DEFINE it == items[s]
           section == RenderedSection(s, it)
           none == <<>>
           part == RenderedParts(parsed, present)[s]
<1>1. part = IF s = 1 THEN section ELSE IF s \in present \/ it # <<>> THEN <<Blank>> \o section ELSE none
  BY DEF RenderedParts
<1>2. s \in Wanted(parsed, present) <=> s = 1 \/ s \in present \/ it # <<>>
  BY DEF Wanted
<1>3. it \in Seq(Text) /\ Blank \in BodyLines /\ <<Blank>> \in Seq(BodyLines) /\ none \in Seq(BodyLines)
  BY LinesAreLines
<1>4. section \in Seq(BodyLines)
  <2> DEFINE H == Heading(Headers[s])
             R == UnderHeading(s, it)
             yes == TRUE
             style == styles[s]
  <2>1. section = <<H>> \o R
    BY DEF RenderedSection, UnderHeading
  <2>2. H \in BodyLines
    BY SectionHeads, LinesAreLines
  <2>3. R = <<Blank>> \/ R = ItemLines(style, it, yes)
    BY DEF UnderHeading
  <2>4. style \in Styles /\ yes \in BOOLEAN
    OBVIOUS
  <2> HIDE DEF H, R, yes, style, it, section
  <2>5. ItemLines(style, it, yes) \in Seq(BodyLines)
    BY <1>3, <2>4, ItemLinesType
  <2>6. R \in Seq(BodyLines)
    BY <1>3, <2>3, <2>5
  <2>7. QED
    BY <2>1, <2>2, <2>6
<1> HIDE DEF section
<1>5. none \o section = section
  BY <1>4
<1>6. <<Blank>> \o section \in Seq(BodyLines)
  BY <1>3, <1>4, ConcatProperties
<1>7. part \in Seq(BodyLines)
  <2> DEFINE long == <<Blank>> \o section
  <2> HIDE DEF long, part, it, none
  <2>1. part = IF s = 1 THEN section ELSE IF s \in present \/ it # <<>> THEN long ELSE none
    BY <1>1 DEF long
  <2>2. long \in Seq(BodyLines)
    BY <1>6 DEF long
  <2>3. QED
    BY <1>3, <1>4, <2>1, <2>2
<1>8. GapBefore(s) \o section = IF s = 1 THEN section ELSE <<Blank>> \o section
  <2>1. CASE s = 1
    BY <1>5, <2>1 DEF GapBefore
  <2>2. CASE s # 1
    BY <2>2 DEF GapBefore
  <2>3. QED
    BY <2>1, <2>2
<1>9. s \notin Wanted(parsed, present) => part = none /\ it = <<>>
  <2> HIDE DEF part, it, none
  <2>1. QED
    BY <1>1, <1>2
<1>10. s \in Wanted(parsed, present) => part = GapBefore(s) \o section
  <2> DEFINE long == <<Blank>> \o section
             gapped == GapBefore(s) \o section
  <2>1. part = IF s = 1 THEN section ELSE IF s \in present \/ it # <<>> THEN long ELSE none
    BY <1>1
  <2>2. gapped = IF s = 1 THEN section ELSE long
    BY <1>8
  <2> HIDE DEF long, gapped, part, it, none
  <2>3. s \in Wanted(parsed, present) => part = gapped
    BY <1>2, <2>1, <2>2
  <2>4. QED
    BY <2>3 DEF gapped
<1>11. QED
  BY <1>7, <1>9, <1>10 DEF IsPart, section, none

\* What the blocks of nothing say.
LEMMA NothingSays ==
    /\ <<>> \in Seq(AnyBlock) /\ In(<<>>) = {} /\ Rest(<<>>, {}) = <<>>
    /\ \A s \in Sections : Out(<<>>, s) = <<>>
<1> DEFINE none == <<>>
<1>1. none \in Seq(AnyBlock) /\ NoHead(none)
  BY EmptySeq DEF NoHead
<1>2. In(none) = {}
  <2> HIDE DEF none
  <2>1. QED
    BY <1>1, NoHeadNoSection
<1>3. RestParts(none, {}) = <<>>
  BY DEF RestParts
<1>4. Rest(none, {}) = <<>>
  BY <1>3, JoinedNone DEF Rest
<1>5. \A s \in Sections : Out(none, s) = <<>>
  <2> HIDE DEF none
  <2>1. QED
    BY <1>1, <1>2, OutAbsent
<1>6. QED
  BY <1>1, <1>2, <1>4, <1>5

\* A rendered body, so far.
SoFar(l, k) ==
    /\ l \in Seq(BodyLines) /\ ~Scanned(l).code
    /\ \A s \in Sections : s \in In(Blocks(l)) => s <= k
    /\ k > 0 => l # <<>>

\* One more section of a rendered body has its items.
LEMMA RenderedNext ==
    ASSUME NEW items \in [Sections -> Seq(Text)], styles \in [Sections -> Styles],
           NEW parsed, parsed.items = items, NEW present, NEW s \in Sections,
           NEW k \in Nat, s = k + 1, NEW l, SoFar(l, k), NEW made, made = Wanted(parsed, present),
           NEW new, new = l \o RenderedParts(parsed, present)[s]
    PROVE  SoFar(new, s) /\ Grows(Blocks(l), Blocks(new), s, items[s], made)
<1> DEFINE part == RenderedParts(parsed, present)[s]
           b == Blocks(l)
           it == items[s]
<1>1. /\ part \in Seq(BodyLines)
      /\ s \notin made => part = <<>> /\ it = <<>>
      /\ s \in made => part = GapBefore(s) \o RenderedSection(s, it)
  <2>1. IsPart(RenderedParts(parsed, present)[s], s, items[s], Wanted(parsed, present))
    BY RenderedPart
  <2> HIDE DEF part
  <2>2. IsPart(part, s, it, made)
    BY <2>1 DEF part
  <2>3. QED
    BY <2>2 DEF IsPart
<1>2. l \in Seq(BodyLines) /\ ~Scanned(l).code /\ b \in Seq(AnyBlock) /\ s \notin In(b)
  <2>1. ~(s <= k)
    OBVIOUS
  <2>2. QED
    BY <2>1, ScannedType DEF SoFar
<1>3. \A t \in Sections : t <= k => t <= s
  <2>1. \A t \in Sections : t \in Nat
    BY DEF Sections
  <2>2. QED
    BY <2>1
<1>4. s > 0 /\ s <= s
  OBVIOUS
<1>5. 1 \in Wanted(parsed, present)
  BY FirstSection DEF Wanted
<1>6. CASE s \notin made
  <2>1. new = l
    <3>1. l \o <<>> = l
      BY <1>2
    <3>2. part = <<>>
      BY <1>1, <1>6
    <3>3. QED
      BY <3>1, <3>2
  <2>2. k > 0
    <3>1. s # 1
      BY <1>5, <1>6
    <3>2. QED
      BY <3>1
  <2>3. SoFar(new, s)
    BY <1>3, <2>1, <2>2 DEF SoFar
  <2> HIDE DEF b, it
  <2>4. Grown(b, b, s, it)
    BY <1>1, <1>2, <1>6, GrownNot
  <2>5. s \in made <=> it # <<>>
    BY <1>1, <1>6
  <2>6. Grows(b, b, s, it, made)
    BY <2>4, <2>5, GrownGrows
  <2>7. QED
    BY <2>1, <2>3, <2>6 DEF b, it
<1>7. CASE s \in made
  <2> DEFINE gap == GapBefore(s)
  <2>1. gap \in {<<>>, <<Blank>>}
    BY DEF GapBefore
  <2>2. it \in Seq(Text)
    OBVIOUS
  <2>3. new = l \o (gap \o RenderedSection(s, it))
    BY <1>1, <1>7
  <2> HIDE DEF gap, it
  <2>4. new \in Seq(BodyLines) /\ new # <<>> /\ ~Scanned(new).code /\ Grows(b, Blocks(new), s, it, made)
    BY <1>2, <1>7, <2>1, <2>2, <2>3, SectionRendered
  <2>5. \A t \in Sections : t \in In(Blocks(new)) => t <= s
    <3>1. In(Blocks(new)) \subseteq In(b) \cup {s}
      BY <2>4 DEF Grows
    <3>2. \A t \in Sections : t \in In(b) => t <= s
      BY <1>3 DEF SoFar
    <3>3. QED
      BY <1>4, <3>1, <3>2
  <2>6. SoFar(new, s)
    BY <2>4, <2>5 DEF SoFar
  <2>7. QED
    BY <2>4, <2>6 DEF it
<1>8. QED
  BY <1>6, <1>7

\* A rendered body has the items in their sections and the headings that were
\* asked for.
LEMMA RenderedSections ==
    ASSUME NEW items \in [Sections -> Seq(Text)], styles \in [Sections -> Styles],
           NEW parsed, parsed.items = items, NEW present, NEW new, new = Rendered(parsed, present)
    PROVE  /\ new \in AnyBody /\ ~Scanned(new).code
           /\ \A s \in Sections : SectionTexts(new, s) = items[s]
           /\ Elsewhere(new) = HeadingsOf(Wanted(parsed, present))
<1> DEFINE n == Len(Headers)
           P == RenderedParts(parsed, present)
           made == Wanted(parsed, present)
<1>1. n \in Nat /\ n > 0 /\ Sections = 1 .. n
  <2>1. Len(Headers) \in Nat \ {0}
    BY StylesAssumption
  <2>2. Sections = 1 .. n
    BY DEF Sections
  <2> HIDE DEF n
  <2>3. n \in Nat \ {0}
    BY <2>1 DEF n
  <2>4. QED
    BY <2>2, <2>3
<1> HIDE DEF n
<1>2. P \in Seq(Seq(BodyLines)) /\ Len(P) = n
  <2>1. \A s \in Sections : P[s] \in Seq(BodyLines)
    BY RenderedPart DEF IsPart
  <2>2. DOMAIN P = Sections /\ P = [s \in Sections |-> P[s]]
    BY DEF RenderedParts
  <2> HIDE DEF P
  <2>3. P \in [1 .. n -> Seq(BodyLines)]
    BY <1>1, <2>1, <2>2
  <2>4. QED
    BY <1>1, <2>3
<1>3. new = Joined(P)
  BY RenderedIs
<1> HIDE DEF P
<1>4. PICK g \in [0 .. Len(P) -> Seq(BodyLines)] :
         /\ g[0] = <<>>
         /\ \A m \in 1 .. Len(P) : g[m] = g[m - 1] \o P[m]
         /\ Joined(P) = g[Len(P)]
  BY <1>2, JoinedIs
<1>5. /\ g \in [0 .. n -> Seq(BodyLines)] /\ g[0] = <<>> /\ new = g[n]
      /\ \A m \in Sections : g[m] = g[m - 1] \o P[m]
  BY <1>1, <1>2, <1>3, <1>4
<1>6. SoFar(g[0], 0)
  <2>1. <<>> \in Seq(BodyLines) /\ ~Scanned(<<>>).code /\ Blocks(<<>>) = <<>>
    <3>1. Scanned(<<>>) = NothingScanned
      BY ScannedNone
    <3>2. QED
      BY <3>1, EmptySeq, NothingScannedIs DEF Blocks
  <2>2. In(Blocks(<<>>)) = {}
    BY <2>1, NothingSays
  <2> DEFINE none == <<>>
  <2>3. none \in Seq(BodyLines) /\ ~Scanned(none).code /\ In(Blocks(none)) = {}
    BY <2>1, <2>2
  <2> HIDE DEF none
  <2>4. SoFar(none, 0)
    BY <2>3 DEF SoFar
  <2>5. QED
    BY <1>5, <2>4 DEF none
<1>7. ASSUME NEW s \in Sections, NEW k \in Nat, s = k + 1, SoFar(g[k], k)
      PROVE  SoFar(g[s], s) /\ Grows(Blocks(g[k]), Blocks(g[s]), s, items[s], made)
  <2>1. s - 1 = k
    BY <1>7
  <2> DEFINE l == g[k]
             now == g[s]
  <2>2. now = l \o RenderedParts(parsed, present)[s]
    BY <1>5, <2>1 DEF P
  <2>3. SoFar(l, k)
    BY <1>7
  <2> HIDE DEF l, now, made
  <2>4. SoFar(now, s) /\ Grows(Blocks(l), Blocks(now), s, items[s], made)
    BY <1>7, <2>2, <2>3, RenderedNext DEF made
  <2>5. QED
    BY <2>4 DEF l, now
<1>8. \A k \in Nat : k \in 0 .. n => SoFar(g[k], k)
  <2> DEFINE S == {k \in Nat : k \in 0 .. n => SoFar(g[k], k)}
  <2>1. 0 \in S
    BY <1>6
  <2>2. ASSUME NEW k \in S
        PROVE  k + 1 \in S
    <3>1. k \in Nat /\ k + 1 \in Nat
      BY <2>2
    <3>2. ASSUME k + 1 \in 0 .. n
          PROVE  SoFar(g[k + 1], k + 1)
      <4>1. k \in 0 .. n /\ k + 1 \in Sections
        BY <1>1, <3>1, <3>2
      <4>2. SoFar(g[k], k)
        BY <2>2, <4>1
      <4> DEFINE s == k + 1
      <4>3. s \in Sections /\ s = k + 1
        BY <4>1
      <4> HIDE DEF s
      <4>4. SoFar(g[s], s)
        BY <1>7, <3>1, <4>2, <4>3
      <4>5. QED
        BY <4>4 DEF s
    <3>3. QED
      BY <3>1, <3>2
  <2>3. S \in SUBSET Nat
    OBVIOUS
  <2> HIDE DEF S
  <2>4. S = Nat
    BY <2>1, <2>2, <2>3, Counting
  <2>5. QED
    BY <2>4 DEF S
<1> DEFINE B == [k \in 0 .. n |-> Blocks(g[k])]
<1>9. B \in [0 .. n -> Seq(AnyBlock)] /\ \A k \in 0 .. n : B[k] = Blocks(g[k])
  <2>1. \A k \in 0 .. n : Blocks(g[k]) \in Seq(AnyBlock)
    BY <1>5, ScannedType
  <2>2. QED
    BY <2>1
<1> HIDE DEF B
<1>10. ASSUME NEW m \in Sections
       PROVE  Grows(B[m - 1], B[m], m, items[m], made)
  <2> DEFINE k == m - 1
  <2>1. k \in 0 .. n /\ k \in Nat /\ m \in 0 .. n /\ m = k + 1
    BY <1>1
  <2> HIDE DEF k
  <2>2. SoFar(g[k], k)
    BY <1>8, <2>1
  <2>3. Grows(Blocks(g[k]), Blocks(g[m]), m, items[m], made)
    BY <1>7, <2>1, <2>2
  <2>4. Blocks(g[k]) = B[k] /\ Blocks(g[m]) = B[m]
    BY <1>9, <2>1
  <2>5. QED
    BY <2>3, <2>4 DEF k
<1>11. made \in SUBSET Sections
  BY DEF Wanted
<1>12. items \in [Sections -> Seq(AnyText)]
  BY TextIsText
<1> HIDE DEF made
<1>13. /\ \A t \in Sections : Out(B[n], t) = Out(B[0], t) \o items[t]
       /\ Rest(B[n], {}) = Rest(B[0], {}) \o HeadingsOf(made \ In(B[0]))
  BY <1>9, <1>10, <1>11, <1>12, GrowsAll DEF n
<1>14. B[n] = Blocks(new) /\ B[0] = <<>>
  <2>1. n \in 0 .. n /\ 0 \in 0 .. n
    BY <1>1
  <2>2. Blocks(<<>>) = <<>>
    BY ScannedNone, NothingScannedIs DEF Blocks
  <2>3. QED
    BY <1>5, <1>9, <2>1, <2>2
<1>15. \A s \in Sections : SectionTexts(new, s) = items[s]
  <2>1. ASSUME NEW s \in Sections
        PROVE  SectionTexts(new, s) = items[s]
    <3> DEFINE none == <<>>
    <3>1. Out(B[0], s) = none
      BY <1>14, NothingSays
    <3>2. none \o items[s] = items[s]
      BY <1>12
    <3> HIDE DEF none
    <3>3. Out(B[n], s) = items[s]
      BY <1>13, <3>1, <3>2
    <3>4. SectionTexts(new, s) = Out(Blocks(new), s)
      BY LinesSay
    <3>5. QED
      BY <1>14, <3>3, <3>4
  <2>2. QED
    BY <2>1
<1>16. Elsewhere(new) = HeadingsOf(made)
  <2> DEFINE none == <<>>
  <2>1. Rest(B[0], {}) = none
    BY <1>14, NothingSays
  <2>2. made \ In(B[0]) = made
    BY <1>14, NothingSays
  <2>3. HeadingsOf(made) \in Seq(AnyBlock)
    BY HeadPartsType, JoinedType
  <2>4. none \o HeadingsOf(made) = HeadingsOf(made)
    <3> DEFINE hs == HeadingsOf(made)
    <3>1. hs \in Seq(AnyBlock)
      BY <2>3
    <3> HIDE DEF hs
    <3>2. none \o hs = hs
      BY <3>1
    <3>3. QED
      BY <3>2 DEF hs
  <2> HIDE DEF none
  <2>5. Rest(B[n], {}) = HeadingsOf(made)
    BY <1>13, <2>1, <2>2, <2>4
  <2>6. Elsewhere(new) = Rest(Blocks(new), {})
    BY LinesSay
  <2>7. QED
    BY <1>14, <2>5, <2>6
<1>17. new \in AnyBody /\ ~Scanned(new).code
  <2>1. n \in 0 .. n /\ n \in Nat
    BY <1>1
  <2>2. SoFar(new, n)
    BY <1>5, <1>8, <2>1
  <2>3. QED
    BY <1>1, <2>2 DEF SoFar, AnyBody
<1>18. QED
  BY <1>15, <1>16, <1>17 DEF made

-----------------------------------------------------------------------------
(* Reports. *)

\* Nothing is left to trim.
LEMMA TrimmedOnce ==
    ASSUME NEW l \in AnyBody
    PROVE  Trimmed(Trimmed(l)) = Trimmed(l)
<1> DEFINE T == Trimmed(l)
           n == Len(T)
           said == {i \in DOMAIN T : T[i].kind # "blank"}
           S == {1} \cup said
<1>1. T \in Seq(BodyLines) /\ T # <<>> /\ (n # 1 => T[n].kind # "blank")
  BY TrimFacts DEF AnyBody
<1> HIDE DEF T
<1>2. n \in Nat /\ n # 0 /\ DOMAIN T = 1 .. n
  BY <1>1
<1>3. n \in S /\ S \in SUBSET Nat /\ \A j \in S : j <= n
  <2> HIDE DEF n
  <2>1. n \in S
    <3>1. CASE n = 1
      BY <3>1
    <3>2. CASE n # 1
      BY <1>1, <1>2, <3>2 DEF n
    <3>3. QED
      BY <3>1, <3>2
  <2>2. \A j \in said : j \in 1 .. n
    BY <1>2
  <2>3. QED
    BY <1>2, <2>1, <2>2
<1>4. Trimmed(T) = SubSeq(T, 1, Last(S))
  BY DEF Trimmed
<1> HIDE DEF S, n
<1>5. Last(S) = n
  BY <1>3, LastIs
<1>6. SubSeq(T, 1, n) = T
  <2>1. n \in 0 .. Len(T)
    BY <1>2 DEF n
  <2> DEFINE U == SubSeq(T, 1, n)
  <2>2. U \in Seq(BodyLines) /\ Len(U) = n /\ \A i \in 1 .. n : U[i] = T[i]
    BY <1>1, <2>1, Cut
  <2> HIDE DEF U
  <2>3. U = T
    BY <1>1, <2>2, SeqEqual DEF n
  <2>4. QED
    BY <2>3 DEF U
<1>7. Trimmed(T) = T
  BY <1>4, <1>5, <1>6
<1>8. QED
  BY <1>7 DEF T

ReportHeading == Heading(Report)
\* The report that closing appends, without the words in it.
ReportLines == <<Blank, ReportHeading, Blank, Line("paragraph", <<>>)>>

\* A body and a report.
LEMMA AppendedReport ==
    ASSUME NEW l \in AnyBody, NEW r, r = AppendReport(l)
    PROVE  /\ r \in AnyBody
           /\ Len(r) = Len(Trimmed(l)) + 4 /\ Len(Trimmed(l)) \in Nat \ {0}
           /\ SubSeq(r, 1, Len(Trimmed(l))) = Trimmed(l)
           /\ r[Len(Trimmed(l)) + 1] = Blank /\ r[Len(Trimmed(l)) + 2] = ReportHeading
           /\ r[Len(Trimmed(l)) + 3] = Blank
<1> DEFINE T == Trimmed(l)
           n == Len(T)
           R == ReportLines
<1>1. T \in Seq(BodyLines) /\ T # <<>>
  BY TrimFacts DEF AnyBody
<1>2. r = T \o R
  BY DEF AppendReport, ReportLines, ReportHeading
<1>3. R \in Seq(BodyLines) /\ Len(R) = 4 /\ R[1] = Blank /\ R[2] = ReportHeading /\ R[3] = Blank
  <2>1. Report \in AnyHeader
    BY DEF AnyHeader
  <2>2. Blank \in BodyLines /\ ReportHeading \in BodyLines
    BY <2>1, LinesAreLines DEF ReportHeading
  <2> DEFINE par == Line("paragraph", <<>>)
  <2>3. par \in BodyLines
    <3>1. <<>> \in Text
      BY EmptySeq DEF Text
    <3> DEFINE none == <<>>
    <3>2. none \in Text
      BY <3>1
    <3> HIDE DEF none
    <3>3. Line("paragraph", none) \in BodyLines
      BY <3>2, LinesAreLines
    <3>4. QED
      BY <3>3 DEF none
  <2> HIDE DEF par
  <2>4. R = <<Blank, ReportHeading, Blank, par>>
    BY DEF ReportLines, par
  <2> HIDE DEF R
  <2>5. QED
    BY <2>2, <2>3, <2>4
<1> HIDE DEF T, R
<1>4. n \in Nat /\ n # 0 /\ n \in Nat \ {0}
  BY <1>1
<1>5. /\ r \in Seq(BodyLines) /\ Len(r) = n + 4
      /\ \A i \in 1 .. n : r[i] = T[i]
      /\ \A i \in 1 .. 4 : r[n + i] = R[i]
  <2> DEFINE both == T \o R
  <2>1. /\ both \in Seq(BodyLines) /\ Len(both) = Len(T) + Len(R)
        /\ \A i \in 1 .. Len(T) : both[i] = T[i]
        /\ \A i \in 1 .. Len(R) : both[Len(T) + i] = R[i]
    <3>1. /\ both \in Seq(BodyLines) /\ Len(both) = Len(T) + Len(R)
          /\ \A i \in 1 .. Len(T) + Len(R) : both[i] = IF i <= Len(T) THEN T[i] ELSE R[i - Len(T)]
      BY <1>1, <1>3, ConcatProperties
    <3>2. Len(T) \in Nat /\ Len(R) \in Nat
      BY <1>1, <1>3, LenProperties
    <3> DEFINE a == Len(T)
               b == Len(R)
    <3> HIDE DEF both, a, b
    <3>3. a \in Nat /\ b \in Nat /\ \A i \in 1 .. a + b : both[i] = IF i <= a THEN T[i] ELSE R[i - a]
      BY <3>1, <3>2 DEF a, b
    <3>4. \A i \in 1 .. a : i \in 1 .. a + b /\ i <= a
      BY <3>3
    <3>5. \A i \in 1 .. b : a + i \in 1 .. a + b /\ ~(a + i <= a) /\ (a + i) - a = i
      BY <3>3
    <3>6. /\ \A i \in 1 .. a : both[i] = T[i]
          /\ \A i \in 1 .. b : both[a + i] = R[i]
      BY <3>3, <3>4, <3>5
    <3>7. QED
      BY <3>1, <3>6 DEF a, b
  <2>2. r = both
    BY <1>2
  <2> HIDE DEF both
  <2>3. QED
    BY <1>3, <2>1, <2>2
<1>6. r[n + 1] = Blank /\ r[n + 2] = ReportHeading /\ r[n + 3] = Blank
  <2>1. 1 \in 1 .. 4 /\ 2 \in 1 .. 4 /\ 3 \in 1 .. 4
    OBVIOUS
  <2>2. r[n + 1] = R[1] /\ r[n + 2] = R[2] /\ r[n + 3] = R[3]
    BY <1>5, <2>1
  <2>3. QED
    BY <1>3, <2>2
<1>7. SubSeq(r, 1, n) = T
  <2> DEFINE U == SubSeq(r, 1, n)
  <2>0. n \in 0 .. Len(r)
    BY <1>4, <1>5
  <2>1. U \in Seq(BodyLines) /\ Len(U) = n /\ \A i \in 1 .. n : U[i] = r[i]
    <3> HIDE DEF n
    <3>1. QED
      BY <1>5, <2>0, Cut
  <2> HIDE DEF U
  <2>2. U = T
    BY <1>1, <1>5, <2>1, SeqEqual
  <2>3. QED
    BY <2>2 DEF U
<1>8. r # <<>>
  <2>1. Len(r) # 0 /\ Len(<<>>) = 0
    BY <1>4, <1>5
  <2>2. QED
    BY <2>1
<1>9. QED
  BY <1>4, <1>5, <1>6, <1>7, <1>8 DEF T, AnyBody

\* A heading of a report between blank lines.
SeparatorAt(l, i) == l[i] = ReportHeading /\ l[i - 1] = Blank /\ l[i + 1] = Blank

LEMMA SeparatorsAre ==
    \A l : Separators(l) = {i \in 3 .. Len(l) - 2 : SeparatorAt(l, i)}
BY DEF Separators, SeparatorAt, ReportHeading

\* Removing a report leaves a body.
LEMMA RemovedReport ==
    ASSUME NEW l \in AnyBody
    PROVE  RemoveReport(l) \in AnyBody
<1>1. CASE Separators(l) = {}
  BY <1>1 DEF RemoveReport
<1>2. CASE Separators(l) # {}
  <2> DEFINE S == Separators(l)
             i == Last(S)
             P == SubSeq(l, 1, i - 2)
  <2>0. Len(l) \in Nat /\ l \in Seq(BodyLines)
    BY DEF AnyBody
  <2>1. S \subseteq 3 .. Len(l) - 2
    BY SeparatorsAre
  <2> DEFINE n == Len(l)
  <2> HIDE DEF n, S
  <2>2. S \in SUBSET Nat /\ S # {} /\ \A j \in S : j <= n
    BY <1>2, <2>0, <2>1 DEF n, S
  <2>3. i \in S
    BY <2>0, <2>2, LastExists DEF n
  <2>4. i \in 3 .. n - 2
    BY <2>1, <2>3 DEF n
  <2> HIDE DEF i
  <2>5. i - 2 \in 0 .. n /\ i - 2 # 0
    BY <2>0, <2>4 DEF n
  <2>6. P \in Seq(BodyLines) /\ Len(P) = i - 2
    BY <2>0, <2>5, Cut DEF n
  <2> HIDE DEF P
  <2>7. P # <<>>
    <3>1. Len(<<>>) = 0
      OBVIOUS
    <3>2. QED
      BY <2>5, <2>6, <3>1
  <2>8. Trimmed(P) \in AnyBody
    BY <2>6, <2>7, TrimFacts DEF AnyBody
  <2>9. RemoveReport(l) = Trimmed(P)
    BY <1>2 DEF RemoveReport, S, i, P
  <2>10. QED
    BY <2>8, <2>9
<1>3. QED
  BY <1>1, <1>2

\* The last report is the one that was appended.
LEMMA ReportRemoved ==
    ASSUME NEW l \in AnyBody
    PROVE  RemoveReport(AppendReport(l)) = Trimmed(l)
<1> DEFINE T == Trimmed(l)
           n == Len(T)
           r == AppendReport(l)
           S == Separators(r)
           i == n + 2
<1>1. /\ r \in AnyBody
      /\ Len(r) = n + 4 /\ n \in Nat \ {0}
      /\ SubSeq(r, 1, n) = T
      /\ r[n + 1] = Blank /\ r[n + 2] = ReportHeading /\ r[n + 3] = Blank
  BY AppendedReport
<1>2. S = {j \in 3 .. Len(r) - 2 : SeparatorAt(r, j)}
  BY SeparatorsAre
<1>3. Trimmed(T) = T
  BY TrimmedOnce
<1>4. RemoveReport(r) = IF S = {} THEN r ELSE Trimmed(SubSeq(r, 1, Last(S) - 2))
  BY DEF RemoveReport
<1> HIDE DEF n, r, S, T
<1>5. i \in 3 .. Len(r) - 2 /\ i \in Nat /\ i - 1 = n + 1 /\ i + 1 = n + 3 /\ i - 2 = n
  BY <1>1
<1>6. SeparatorAt(r, i)
  BY <1>1, <1>5 DEF SeparatorAt
<1> HIDE DEF i
<1>7. i \in S
  BY <1>2, <1>5, <1>6
<1>8. Len(r) - 2 = i
  BY <1>1 DEF i
<1>9. S \in SUBSET Nat /\ \A j \in S : j <= i
  <2>1. \A j \in S : j \in 3 .. i
    BY <1>2, <1>8
  <2>2. QED
    BY <1>5, <2>1
<1>10. Last(S) = i
  BY <1>7, <1>9, LastIs
<1>11. RemoveReport(r) = Trimmed(SubSeq(r, 1, n))
  BY <1>4, <1>5, <1>7, <1>10
<1>12. RemoveReport(r) = T
  BY <1>1, <1>3, <1>11
<1>13. QED
  BY <1>12 DEF r, T

-----------------------------------------------------------------------------
(* What is true of a body. *)

\* A closed task has the body that it was closed with, and its report.
ClosedAsAsked ==
    closed => /\ asked = NotAsked
              /\ body = IF reported THEN AppendReport(atClosing) ELSE atClosing

\* The inductive invariant of bodies.  What was asked for is told of the step that
\* answered it; ClosedAsAsked carries the body from closing to reopening.
BodyInv ==
    /\ body \in AnyBody /\ atClosing \in AnyBody /\ styles \in [Sections -> Styles]
    /\ closed \in BOOLEAN /\ reported \in BOOLEAN /\ shorthands \in 0 .. MaxShorthands
    /\ ClosedAsAsked
    /\ AppendedToSections /\ RenderedAsParsed /\ ReportsComeOff

LEMMA NothingAsked ==
    /\ NotAsked.kind = "none" /\ NotAsked.kind # "append"
    /\ NotAsked.kind \notin {"create", "replace"}
BY DEF NotAsked

\* It holds of a new task.
LEMMA BodyInitInv == BodyInit => BodyInv
<1> SUFFICES ASSUME BodyInit
             PROVE  BodyInv
  OBVIOUS
<1>1. body \in AnyBody /\ atClosing \in AnyBody
  BY BodiesAssumption DEF BodyInit, AnyBody
<1>2. styles \in [Sections -> Styles]
  BY StylesAssumption DEF BodyInit, Styles
<1>3. closed = FALSE /\ reported = FALSE /\ shorthands = 0 /\ asked = NotAsked /\ atClosing = body
  BY DEF BodyInit
<1>4. shorthands \in 0 .. MaxShorthands
  BY <1>3, ShorthandAssumption
<1>5. AppendedToSections /\ RenderedAsParsed
  BY <1>3, NothingAsked DEF AppendedToSections, RenderedAsParsed
<1>6. ReportsComeOff
  BY <1>3 DEF ReportsComeOff
<1>7. ClosedAsAsked
  BY <1>3 DEF ClosedAsAsked
<1>8. QED
  BY <1>1, <1>2, <1>3, <1>4, <1>5, <1>6, <1>7 DEF BodyInv

\* What asking leaves alone.
LEMMA AskKeeps ==
    ASSUME BodyInv, NEW kind \in {"append", "create", "replace"}, NEW parsed, Ask(kind, parsed)
    PROVE  /\ asked' = [kind |-> kind, parsed |-> parsed, before |-> body]
           /\ asked'.kind = kind /\ asked'.parsed = parsed /\ asked'.before = body
           /\ atClosing' \in AnyBody /\ styles' \in [Sections -> Styles]
           /\ closed' \in BOOLEAN /\ reported' \in BOOLEAN /\ shorthands' \in 0 .. MaxShorthands
           /\ ClosedAsAsked' /\ ReportsComeOff'
<1>1. asked' = [kind |-> kind, parsed |-> parsed, before |-> body]
  BY DEF Ask
<1>2. asked'.kind = kind /\ asked'.parsed = parsed /\ asked'.before = body
  BY <1>1
<1>3. asked' # NotAsked
  BY <1>2, NothingAsked
<1>4. ~closed /\ closed' = closed /\ atClosing' = atClosing /\ styles' = styles /\ reported' = reported
  BY DEF Ask
<1>5. shorthands' \in 0 .. MaxShorthands
  <2>1. shorthands \in 0 .. MaxShorthands /\ MaxShorthands \in Nat
    BY ShorthandAssumption DEF BodyInv
  <2>2. shorthands < MaxShorthands /\ shorthands' = shorthands + 1
    BY DEF Ask
  <2>3. QED
    BY <2>1, <2>2
<1>6. ClosedAsAsked'
  BY <1>4 DEF ClosedAsAsked
<1>7. ReportsComeOff'
  BY <1>3 DEF ReportsComeOff, NotAsked
<1>8. QED
  BY <1>1, <1>2, <1>4, <1>5, <1>6, <1>7 DEF BodyInv

\* Every action keeps it.
LEMMA AppendInv ==
    ASSUME BodyInv, NEW parsed \in Parseds, AppendShorthand(parsed)
    PROVE  BodyInv'
<1>1. Ask("append", parsed) /\ body' = AppendMarkerSections(body, parsed)
  BY DEF AppendShorthand
<1>2. /\ asked'.kind = "append" /\ asked'.parsed = parsed /\ asked'.before = body
      /\ atClosing' \in AnyBody /\ styles' \in [Sections -> Styles]
      /\ closed' \in BOOLEAN /\ reported' \in BOOLEAN /\ shorthands' \in 0 .. MaxShorthands
      /\ ClosedAsAsked' /\ ReportsComeOff'
  BY <1>1, AskKeeps
<1>3. body \in AnyBody /\ styles \in [Sections -> Styles] /\ Itemised(parsed)
  BY ParsedItems DEF BodyInv
<1>4. body' \in AnyBody
  BY <1>1, <1>3, AppendedType
<1>5. RenderedAsParsed'
  BY <1>2 DEF RenderedAsParsed
<1>6. AppendedToSections'
  <2>1. ASSUME ~EndsInCode(body)
        PROVE  Appended(body, body', parsed)
    <3>1. ~Scanned(body).code
      BY <1>3, <2>1, CodeIs DEF AnyBody
    <3> DEFINE new == body'
               old == body
    <3>2. new = AppendMarkerSections(old, parsed) /\ old \in AnyBody /\ ~Scanned(old).code
      BY <1>1, <1>3, <3>1
    <3> HIDE DEF new, old
    <3>3. Appended(old, new, parsed)
      BY <1>3, <3>2, AppendedSections
    <3>4. QED
      BY <3>3 DEF new, old
  <2>2. QED
    BY <1>2, <2>1 DEF AppendedToSections, Appended
<1>7. QED
  BY <1>2, <1>4, <1>5, <1>6 DEF BodyInv

\* Both ways to render a body.
LEMMA RenderInv ==
    ASSUME BodyInv, NEW parsed \in Parseds, NEW kind \in {"create", "replace"}, NEW present,
           present = (IF kind = "create" THEN parsed.present ELSE {}),
           Ask(kind, parsed), body' = Rendered(parsed, present)
    PROVE  BodyInv'
<1>1. /\ asked'.kind = kind /\ asked'.parsed = parsed
      /\ atClosing' \in AnyBody /\ styles' \in [Sections -> Styles]
      /\ closed' \in BOOLEAN /\ reported' \in BOOLEAN /\ shorthands' \in 0 .. MaxShorthands
      /\ ClosedAsAsked' /\ ReportsComeOff'
  BY AskKeeps
<1>2. styles \in [Sections -> Styles] /\ parsed.items \in [Sections -> Seq(Text)]
  BY ParsedItems DEF BodyInv
<1> DEFINE new == body'
           items == parsed.items
<1>3. new = Rendered(parsed, present) /\ parsed.items = items /\ items \in [Sections -> Seq(Text)]
  BY <1>2
<1> HIDE DEF new, items
<1>4. /\ new \in AnyBody
      /\ \A s \in Sections : SectionTexts(new, s) = items[s]
      /\ Elsewhere(new) = HeadingsOf(Wanted(parsed, present))
  BY <1>2, <1>3, RenderedSections
<1>5. Wanted(parsed, present) = {s \in Sections :
         \/ s = 1
         \/ parsed.items[s] # <<>>
         \/ kind = "create" /\ s \in parsed.present}
  BY DEF Wanted
<1>6. RenderedAsParsed'
  BY <1>1, <1>4, <1>5 DEF RenderedAsParsed, new, items
<1>7. AppendedToSections'
  BY <1>1 DEF AppendedToSections
<1>8. body' \in AnyBody
  BY <1>4 DEF new
<1>9. QED
  BY <1>1, <1>6, <1>7, <1>8 DEF BodyInv

LEMMA CloseInv ==
    ASSUME BodyInv, NEW report \in BOOLEAN, CloseWith(report)
    PROVE  BodyInv'
<1>1. /\ closed' = TRUE /\ atClosing' = body /\ reported' = report /\ asked' = NotAsked
      /\ body' = (IF report THEN AppendReport(body) ELSE body)
      /\ styles' = styles /\ shorthands' = shorthands
  BY DEF CloseWith
<1>2. body \in AnyBody /\ styles \in [Sections -> Styles] /\ shorthands \in 0 .. MaxShorthands
  BY DEF BodyInv
<1>3. AppendReport(body) \in AnyBody
  BY <1>2, AppendedReport
<1>4. body' \in AnyBody
  BY <1>1, <1>2, <1>3
<1>5. ClosedAsAsked'
  BY <1>1 DEF ClosedAsAsked, NotAsked
<1>6. asked'.kind = "none"
  BY <1>1, NothingAsked
<1>7. AppendedToSections' /\ RenderedAsParsed' /\ ReportsComeOff'
  BY <1>1, <1>6 DEF AppendedToSections, RenderedAsParsed, ReportsComeOff
<1>8. QED
  BY <1>1, <1>2, <1>4, <1>5, <1>7 DEF BodyInv

LEMMA ReopenInv ==
    ASSUME BodyInv, Reopen
    PROVE  BodyInv'
<1>1. /\ closed /\ closed' = FALSE /\ body' = RemoveReport(body)
      /\ styles' = styles /\ atClosing' = atClosing /\ reported' = reported
      /\ asked' = asked /\ shorthands' = shorthands
  BY DEF Reopen
<1>2. /\ body \in AnyBody /\ styles \in [Sections -> Styles] /\ shorthands \in 0 .. MaxShorthands
      /\ atClosing \in AnyBody /\ reported \in BOOLEAN
      /\ asked = NotAsked
      /\ body = IF reported THEN AppendReport(atClosing) ELSE atClosing
  BY <1>1 DEF BodyInv, ClosedAsAsked
<1>3. body' \in AnyBody
  BY <1>1, <1>2, RemovedReport
<1>4. asked'.kind = "none"
  BY <1>1, <1>2, NothingAsked
<1>5. AppendedToSections' /\ RenderedAsParsed'
  BY <1>4 DEF AppendedToSections, RenderedAsParsed
<1>6. ASSUME reported \/ Separators(atClosing) = {}
      PROVE  Trimmed(body') = Trimmed(atClosing)
  <2>1. CASE reported
    <3>1. body' = Trimmed(atClosing)
      BY <1>1, <1>2, <2>1, ReportRemoved
    <3>2. QED
      BY <1>2, <3>1, TrimmedOnce
  <2>2. CASE ~reported
    <3>1. body = atClosing /\ Separators(atClosing) = {}
      BY <1>2, <1>6, <2>2
    <3>2. body' = atClosing
      BY <1>1, <3>1 DEF RemoveReport
    <3>3. QED
      BY <3>2
  <2>3. QED
    BY <2>1, <2>2
<1>7. ReportsComeOff'
  BY <1>1, <1>6 DEF ReportsComeOff
<1>8. ClosedAsAsked'
  BY <1>1 DEF ClosedAsAsked
<1>9. QED
  BY <1>1, <1>2, <1>3, <1>5, <1>7, <1>8 DEF BodyInv

\* Every step keeps it.
LEMMA BodyNextInv == BodyInv /\ [BodyNext]_bodyVars => BodyInv'
<1> SUFFICES ASSUME BodyInv, [BodyNext]_bodyVars
             PROVE  BodyInv'
  OBVIOUS
<1>1. ASSUME NEW parsed \in Parseds, AppendShorthand(parsed) \/ ReplaceShorthand(parsed) \/ CreateFrom(parsed)
      PROVE  BodyInv'
  <2>1. CASE AppendShorthand(parsed)
    BY <2>1, AppendInv
  <2>2. CASE ReplaceShorthand(parsed)
    <3> DEFINE kind == "replace"
               present == {}
    <3>1. /\ Ask(kind, parsed) /\ body' = Rendered(parsed, present) /\ kind \in {"create", "replace"}
          /\ present = (IF kind = "create" THEN parsed.present ELSE {})
      BY <2>2 DEF ReplaceShorthand
    <3> HIDE DEF kind, present
    <3>2. QED
      BY <3>1, RenderInv
  <2>3. CASE CreateFrom(parsed)
    <3> DEFINE kind == "create"
               present == parsed.present
    <3>1. /\ Ask(kind, parsed) /\ body' = Rendered(parsed, present) /\ kind \in {"create", "replace"}
          /\ present = (IF kind = "create" THEN parsed.present ELSE {})
      BY <2>3 DEF CreateFrom
    <3> HIDE DEF kind, present
    <3>2. QED
      BY <3>1, RenderInv
  <2>4. QED
    BY <1>1, <2>1, <2>2, <2>3
<1>2. CASE \E shorthand \in Shorthands :
             LET parsed == Parse(shorthand)
             IN  AppendShorthand(parsed) \/ ReplaceShorthand(parsed) \/ CreateFrom(parsed)
  <2>1. PICK shorthand \in Shorthands :
           AppendShorthand(Parse(shorthand)) \/ ReplaceShorthand(Parse(shorthand)) \/ CreateFrom(Parse(shorthand))
    BY <1>2
  <2>2. Parse(shorthand) \in Parseds
    BY ShorthandType, ParseType
  <2>3. QED
    BY <1>1, <2>1, <2>2
<1>3. CASE \E report \in BOOLEAN : CloseWith(report)
  BY <1>3, CloseInv
<1>4. CASE Reopen
  BY <1>4, ReopenInv
<1>5. CASE UNCHANGED bodyVars
  BY <1>5 DEF BodyInv, bodyVars, ClosedAsAsked, AppendedToSections, RenderedAsParsed, ReportsComeOff
<1>6. QED
  BY <1>2, <1>3, <1>4, <1>5 DEF BodyNext

\* Bodies say what they said, but for what was asked for (content.rs).
THEOREM BodiesSafe == BodySpec => [](BodyTypeOK /\ AppendedToSections /\ RenderedAsParsed /\ ReportsComeOff)
<1>1. BodyInv => BodyTypeOK /\ AppendedToSections /\ RenderedAsParsed /\ ReportsComeOff
  BY DEF BodyInv, BodyTypeOK, AnyBody
<1>2. QED
  BY <1>1, BodyInitInv, BodyNextInv, PTL DEF BodySpec

\* Texts of any length change as asked, when users edit front matter and bodies in
\* any order (markdown_file.rs, content.rs, marker_sections.rs).
THEOREM TextsSafe == FrontSpec /\ BodySpec => []TextsChangeAsAsked
<1>1. (FrontTypeOK /\ EditsStayInPlace) /\ (BodyTypeOK /\ AppendedToSections /\ RenderedAsParsed /\ ReportsComeOff)
        => TextsChangeAsAsked
  BY DEF TextsChangeAsAsked
<1>2. QED
  BY <1>1, FrontSafe, BodiesSafe, PTL

=============================================================================
