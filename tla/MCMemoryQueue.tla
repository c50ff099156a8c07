--------------------------- MODULE MCMemoryQueue ---------------------------
(* Instances of MemoryQueue for TLC. *)
EXTENDS MemoryQueue, TLC

CONSTANTS p1, p2, s1, s2, m1, m2, m3, m4, m5, m6

\* The argument of Sub: out of range, so clamped to MaxInFlight, in two ways.
TooMany == [s \in Subs |-> MaxInFlight + 1]
Zero == [s \in Subs |-> 0]

\* Subscribers that ask for the same limit are interchangeable.
Symmetry == Permutations(Subs) \cup Permutations(Msgs)
=============================================================================
