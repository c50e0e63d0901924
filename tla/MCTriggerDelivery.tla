------------------------- MODULE MCTriggerDelivery -------------------------
(* TriggerDelivery with one plugin on a drive. *)
EXTENDS TriggerDelivery

CONSTANTS s, t  \* two resources of the drive

\* Plans of nothing, of one write, and of one or two.
NoWrites == {<<>>}
OneWrite == {<<s>>}
TwoWrites == {<<s>>, <<s, t>>}
=============================================================================
