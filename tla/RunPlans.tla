------------------------------ MODULE RunPlans ------------------------------
(***************************************************************************)
(* What a plugin's answer can plan to write (server/src/plugins/plan.rs):  *)
(* an ordered list of changes, or a plan the planner refused.              *)
(***************************************************************************)
EXTENDS Naturals, Sequences

CONSTANTS
  Places,   \* positions of the writes in a plan
  Plans,    \* the plans that write: sequences of what they write
  Blocked,  \* a plan the planner refused
  None      \* no plan

ASSUME PlansAssumption == /\ Places \subseteq Nat
                          /\ \A plan \in Plans : /\ Len(plan) \in Nat
                                                /\ DOMAIN plan = 1 .. Len(plan)
                                                /\ DOMAIN plan \subseteq Places
                          /\ Blocked \notin Plans
                          /\ None \notin Plans \cup {Blocked}
=============================================================================
