-------------------------- MODULE MCSubmissionSaga --------------------------
(* Instances of SubmissionSaga for TLC. *)
EXTENDS SubmissionSaga, TLC

CONSTANTS p1, w1, w2, m1, m2, r1, cs

OneSubject == [p \in Papers |-> cs]
Slots == Permutations(Workers) \cup Permutations(Decisions)
=============================================================================
