-------------------------- MODULE MCPluginSchedule --------------------------
(* PluginSchedule with one plugin on a drive. *)
EXTENDS PluginSchedule

CONSTANT w  \* what a run writes

\* A plan of one write, and a plan of nothing.
SmallPlans == {<<>>, <<w>>}
OneWrite == {<<w>>}
=============================================================================
