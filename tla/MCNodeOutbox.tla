---------------------------- MODULE MCNodeOutbox ----------------------------
(* NodeOutbox on small instances: one resource, or a parent and its child. *)
EXTENDS NodeOutbox, TLC

CONSTANTS parent, child, d1, d2

OneSubject == {parent}
Family == {parent, child}
FamilyParent == [s \in Subjects |-> IF s = parent THEN None ELSE parent]
FamilyDepth == [s \in Subjects |-> IF s = parent THEN 0 ELSE 1]

\* Drains are interchangeable: no action and no property tells them apart.
DrainSymmetry == Permutations(Drains)
=============================================================================
