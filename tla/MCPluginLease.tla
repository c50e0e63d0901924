--------------------------- MODULE MCPluginLease ---------------------------
(* PluginLease on two nodes, the clock of one ahead of the other's. *)
EXTENDS PluginLease

CONSTANTS Ahead  \* the node whose clock is ahead by one unit

OneAhead == [n \in Nodes |-> IF n = Ahead THEN 1 ELSE 0]

\* A verdict that ran out is no verdict, and a head that changed a renewal or
\* more ago changed long ago: no action or property tells them apart.
Recent ==
  <<now, lease, db, peers, call, lost,
    [n \in Nodes |-> IF Runs(n) THEN held[n] ELSE 0],
    [n \in Nodes |-> IF since[n] + TTL - RenewBefore <= Clock(n)
                       THEN None ELSE since[n]]>>
=============================================================================
