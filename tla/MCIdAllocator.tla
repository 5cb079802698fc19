--------------------------- MODULE MCIdAllocator ----------------------------
(* Instances of IdAllocator for TLC: two papers of one counter, one of another. *)
EXTENDS IdAllocator

CONSTANTS p1, p2, p3, cs, math

Categories == [p \in Papers |-> IF p = p3 THEN math ELSE cs]
=============================================================================
