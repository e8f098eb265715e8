------------------------------ MODULE TextLines ------------------------------
(* What the models of text share: the first and the last of some positions,  *)
(* and texts put together one after the other.                               *)
EXTENDS Naturals, Sequences

\* The empty set has neither.
First(positions) == CHOOSE i \in positions : \A j \in positions : i <= j
Last(positions) == CHOOSE i \in positions : \A j \in positions : j <= i

\* The parts one after the other.
Joined(parts) ==
    LET joined[n \in 0 .. Len(parts)] == IF n = 0 THEN <<>> ELSE joined[n - 1] \o parts[n]
    IN  joined[Len(parts)]

=============================================================================
