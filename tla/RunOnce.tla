------------------------------ MODULE RunOnce ------------------------------
(***************************************************************************)
(* What a recorded run promises whoever granted it, whatever crashes,      *)
(* retries and edits happen around it: its plan is chosen once, each write *)
(* of the plan is made at most once, it counts as finished only when every *)
(* write was made, and once finished or abandoned it writes nothing more.  *)
(***************************************************************************)
EXTENDS Naturals

CONSTANTS Runs,     \* the identities a journal is kept under
          Places,   \* positions of the writes in a plan
          Plans,    \* the plans that write: sequences of what they write
          Blocked,  \* a plan the planner refused
          None      \* no plan was recorded yet

VARIABLES plan, made, end

vars == <<plan, made, end>>

Init == /\ plan = [r \in Runs |-> None]
        /\ made = [r \in Runs |-> [k \in Places |-> 0]]
        /\ end = [r \in Runs |-> "open"]

Choose(r) == /\ plan[r] = None
             /\ end[r] = "open"
             /\ plan'[r] \in Plans \cup {Blocked}
             /\ plan' = [plan EXCEPT ![r] = plan'[r]]
             /\ UNCHANGED <<made, end>>

Write(r, k) == /\ plan[r] \in Plans
               /\ k \in DOMAIN plan[r]
               /\ end[r] = "open"
               /\ made[r][k] = 0
               /\ made' = [made EXCEPT ![r][k] = 1]
               /\ UNCHANGED <<plan, end>>

Finish(r) == /\ plan[r] \in Plans
             /\ end[r] = "open"
             /\ \A k \in DOMAIN plan[r] : made[r][k] = 1
             /\ end' = [end EXCEPT ![r] = "finished"]
             /\ UNCHANGED <<plan, made>>

Abandon(r) == /\ end[r] = "open"
              /\ end' = [end EXCEPT ![r] = "abandoned"]
              /\ UNCHANGED <<plan, made>>

Next == \E r \in Runs : \/ Choose(r)
                        \/ \E k \in Places : Write(r, k)
                        \/ Finish(r)
                        \/ Abandon(r)

Spec == Init /\ [][Next]_vars
=============================================================================
