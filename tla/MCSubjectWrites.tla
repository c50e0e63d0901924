-------------------------- MODULE MCSubjectWrites --------------------------
(* Instances of SubjectWrites for TLC. *)
EXTENDS SubjectWrites, TLC

\* A resource and two children of one import identity.
Family == [s \in Subjects |-> IF s = 1 THEN None ELSE 1]
Twins == [s \in Subjects |-> IF s = 1 THEN None ELSE 1]

Symmetry == Permutations(Writers) \cup Permutations(Ops)
=============================================================================
