--------------------------- MODULE MCOutboxDrain ---------------------------
(* OutboxDrain on small instances: a parent and two children, or one child. *)
EXTENDS OutboxDrain

CONSTANTS parent, child, sibling

Family == {parent, child, sibling}
FamilyTier == [s \in Family |-> IF s = parent THEN 0 ELSE 1]
OneSubject == {child}
OneTier == [s \in OneSubject |-> 0]
=============================================================================
