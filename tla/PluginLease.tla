---------------------------- MODULE PluginLease ----------------------------
(***************************************************************************)
(* Which node runs an Installation's background work when several nodes    *)
(* sync one drive (server/src/plugins/lease.rs).                           *)
(*                                                                         *)
(* A lease is a resource that syncs like any other: a holder and a         *)
(* generation that never change, and an expiry its holder pushes forward.  *)
(* The head of the leases a node has decides; Leases::holds renews its own *)
(* head, takes over an expired one, and caches its verdict.  The schedule  *)
(* and the trigger worker of a node both ask, each in a task of its own.   *)
(*                                                                         *)
(* One Installation is modelled.  Each node reads its own clock, ahead of  *)
(* the slowest by Skew.  A call of holds is three steps (read, write,      *)
(* remember) that take no time: leases may arrive between them.            *)
(***************************************************************************)
EXTENDS Naturals, FiniteSets

CONSTANTS
  Nodes,        \* Iroh node ids, compared as numbers
  Subjects,     \* subjects of leases, hashes compared as numbers
  Callers,      \* tasks of a node that call holds
  TTL,          \* TTL_MS
  RenewBefore,  \* RENEW_BEFORE_MS
  SoloRecheck,  \* SOLO_RECHECK_MS
  Skew,         \* how far each node's clock is ahead
  MaxTime,      \* bound: the latest time explored
  None,         \* no lease
  Gone          \* the copy of a lease that was destroyed

ASSUME LeaseAssumption ==
  /\ Nodes \subseteq Nat /\ Subjects \subseteq Nat
  /\ IsFiniteSet(Subjects)
  /\ TTL \in Nat /\ RenewBefore \in Nat \ {0} /\ SoloRecheck \in Nat
  /\ 2 * RenewBefore <= TTL /\ SoloRecheck <= RenewBefore
  /\ Skew \in [Nodes -> 0..TTL]
  /\ MaxTime \in Nat
  /\ None \notin Nat /\ Gone \notin Nat /\ None # Gone
  /\ None \notin [holder : Nodes, generation : Nat]

VARIABLES
  now,    \* time on the slowest clock
  lease,  \* what was signed under each subject, never rewritten
  db,     \* each node's copies: the expiry it knows, or None or Gone
  peers,  \* whether a node knows a peer for the drive
  held,   \* until when a node's cached verdict stands, 0 when it has none
  call,   \* each node's calls of holds
  since,  \* history: a node's clock when its head last changed
  lost    \* history: nodes whose head was destroyed under them

vars == <<now, lease, db, peers, held, call, since, lost>>

Lease == [holder : Nodes, generation : Nat]

Call == [step : {"idle", "read", "decided"}, at : Nat,
         head : Subjects \cup {None}, expires : Nat, old : SUBSET Subjects,
         until : Nat]

Idle == [step |-> "idle", at |-> 0, head |-> None, expires |-> 0,
         old |-> {}, until |-> 0]

-----------------------------------------------------------------------------
(* Which leases count, and the head *)

Clock(n) == now + Skew[n]

\* A generation needs the lease before it to have run out.
MaxGeneration(time) == time \div TTL + 2

\* The leases a node has whose generation is plausible by its clock.
Counted(n) ==
  {s \in Subjects : /\ db[n][s] \in Nat
                    /\ lease[s].generation <= MaxGeneration(Clock(n))}

\* Lease::rank: higher generation, then lower node id, then lower subject.
Outranks(s, t) ==
  \/ lease[s].generation > lease[t].generation
  \/ /\ lease[s].generation = lease[t].generation
     /\ \/ lease[s].holder < lease[t].holder
        \/ lease[s].holder = lease[t].holder /\ s < t

Head(S) == CHOOSE s \in S : \A t \in S \ {s} : Outranks(s, t)

HeadOf(n) == IF Counted(n) = {} THEN None ELSE Head(Counted(n))

\* Leases more than one takeover behind the newest.
Old(S) ==
  {s \in S : \E t \in S : lease[s].generation + 1 < lease[t].generation}

-----------------------------------------------------------------------------
(* A call of Leases::holds.  While now < held[n] it returns true at once. *)

\* A lease with this expiry is renewed from here on; a verdict is cached no
\* longer.
UntilExpiry(expires) == expires
TooEarly(expires) == expires - TTL - RenewBefore
RenewalPoint(expires) == expires - RenewBefore

\* Every step notes when a node's head changes, and whose is destroyed.
NoteHeads ==
  /\ since' = [n \in Nodes |-> IF HeadOf(n)' = HeadOf(n) THEN since[n]
                                                         ELSE Clock(n)']
  /\ lost' = lost \cup
       {n \in Nodes : HeadOf(n) # None /\ db'[n][HeadOf(n)] = Gone}

Read(n, c) ==
  LET h == HeadOf(n) IN
  /\ call[n][c].step = "idle" /\ Clock(n) >= held[n]
  /\ call' = [call EXCEPT ![n][c] =
       [step |-> "read", at |-> Clock(n), head |-> h,
        expires |-> IF h = None THEN 0 ELSE db[n][h],
        old |-> Old(Counted(n)), until |-> 0]]
  /\ UNCHANGED <<now, lease, db, peers, held, since, lost>>

\* The verdict: cached until `until`, once the old leases are collected.
Decides(n, c, until) ==
  call' = [call EXCEPT ![n][c].step = "decided", ![n][c].until = until]

\* The verdict is false, and the cached one is dropped.
Refuses(n, c) ==
  /\ call' = [call EXCEPT ![n][c] = Idle]
  /\ held' = [held EXCEPT ![n] = 0]

\* Nobody to share the work with, and no lease was ever synced.
Solo(n, c) ==
  LET k == call[n][c] IN
  /\ k.step = "read" /\ k.head = None /\ ~peers[n]
  /\ held' = [held EXCEPT ![n] = k.at + SoloRecheck]
  /\ call' = [call EXCEPT ![n][c] = Idle]
  /\ UNCHANGED <<now, lease, db, peers, since, lost>>

\* Leases::write: a lease of this node's own, under a fresh subject.
Writes(n, c, generation) ==
  \E s \in Subjects :
    /\ lease[s] = None
    /\ lease' = [lease EXCEPT ![s] = [holder |-> n, generation |-> generation]]
    /\ db' = [db EXCEPT ![n][s] = call[n][c].at + TTL]

First(n, c) ==
  LET k == call[n][c] IN
  /\ k.step = "read" /\ k.head = None /\ peers[n]
  /\ Writes(n, c, 0)
  /\ Decides(n, c, k.at + RenewBefore)
  /\ UNCHANGED <<now, peers, held>>
  /\ NoteHeads

Mine(n, c) == call[n][c].head # None /\ lease[call[n][c].head].holder = n

Keep(n, c) ==
  LET k == call[n][c] IN
  /\ k.step = "read" /\ Mine(n, c) /\ k.expires > k.at + RenewBefore
  /\ Decides(n, c, RenewalPoint(k.expires))
  /\ UNCHANGED <<now, lease, db, peers, held, since, lost>>

\* Leases::renew rewrites the copy it has now, and fails without one.
Renew(n, c) ==
  LET k == call[n][c] IN
  /\ k.step = "read" /\ Mine(n, c) /\ k.expires <= k.at + RenewBefore
  /\ db[n][k.head] \in Nat
  /\ db' = [db EXCEPT ![n][k.head] = k.at + TTL]
  /\ Decides(n, c, RenewalPoint(k.at + TTL))
  /\ UNCHANGED <<now, lease, peers, held>>
  /\ NoteHeads

Theirs(n, c) == call[n][c].head # None /\ lease[call[n][c].head].holder # n

HeldElsewhere(n, c) ==
  LET k == call[n][c] IN
  /\ k.step = "read" /\ Theirs(n, c) /\ k.at < k.expires
  /\ Refuses(n, c)
  /\ UNCHANGED <<now, lease, db, peers, since, lost>>

WithoutWaiting(k) == TRUE
Expired(k) == k.expires <= k.at

TakeOver(n, c) ==
  LET k == call[n][c] IN
  /\ k.step = "read" /\ Theirs(n, c) /\ Expired(k)
  /\ Writes(n, c, lease[k.head].generation + 1)
  /\ Decides(n, c, RenewalPoint(k.at + TTL))
  /\ UNCHANGED <<now, peers, held>>
  /\ NoteHeads

\* The leases could not be read, or the lease could not be written.
Fails(n, c) ==
  /\ call[n][c].step = "read"
  /\ held' \in {held, [held EXCEPT ![n] = 0]}
  /\ call' = [call EXCEPT ![n][c] = Idle]
  /\ UNCHANGED <<now, lease, db, peers, since, lost>>

\* collect_old, which may fail for any of them, and remember.
Remember(n, c) ==
  LET k == call[n][c] IN
  /\ k.step = "decided"
  /\ \E collected \in SUBSET k.old :
       db' = [db EXCEPT ![n] = [s \in Subjects |->
                IF s \in collected /\ db[n][s] \in Nat THEN Gone ELSE @[s]]]
  /\ held' = [held EXCEPT ![n] = k.until]
  /\ call' = [call EXCEPT ![n][c] = Idle]
  /\ UNCHANGED <<now, lease, peers>>
  /\ NoteHeads

-----------------------------------------------------------------------------
(* The rest of the node, the sync between nodes, and time *)

\* What n has of a lease once it received m's copy: the later expiry (only the
\* holder writes it); a deletion of a lease it has; of one it destroyed, a bulk
\* sync changes nothing and a live update brings it back.
Received(mine, theirs) ==
  IF theirs = Gone THEN {IF mine = None THEN None ELSE Gone}
  ELSE IF mine = None THEN {theirs}
  ELSE IF mine = Gone THEN {Gone, theirs}
  ELSE {IF mine < theirs THEN theirs ELSE mine}

\* Any lease, in any order, over any link.
Sync(m, n, s) ==
  /\ m # n /\ db[m][s] # None
  /\ \E copy \in Received(db[n][s], db[m][s]) :
       /\ copy # db[n][s]
       /\ db' = [db EXCEPT ![n][s] = copy]
  /\ UNCHANGED <<now, lease, peers, held, call>>
  /\ NoteHeads

LearnPeer(n) ==
  /\ ~peers[n]
  /\ peers' = [peers EXCEPT ![n] = TRUE]
  /\ UNCHANGED <<now, lease, db, held, call, since, lost>>

\* The cached verdict and the calls under way live in memory.
Restart(n) ==
  /\ held[n] # 0 \/ call[n] # [c \in Callers |-> Idle]
  /\ held' = [held EXCEPT ![n] = 0]
  /\ call' = [call EXCEPT ![n] = [c \in Callers |-> Idle]]
  /\ UNCHANGED <<now, lease, db, peers, since, lost>>

\* A call takes no time.
Tick ==
  /\ now < MaxTime
  /\ \A n \in Nodes, c \in Callers : call[n][c].step = "idle"
  /\ now' = now + 1
  /\ UNCHANGED <<lease, db, peers, held, call>>
  /\ NoteHeads

-----------------------------------------------------------------------------

Init ==
  /\ now = 0
  /\ lease = [s \in Subjects |-> None]
  /\ db = [n \in Nodes |-> [s \in Subjects |-> None]]
  /\ peers \in [Nodes -> BOOLEAN]
  /\ held = [n \in Nodes |-> 0]
  /\ call = [n \in Nodes |-> [c \in Callers |-> Idle]]
  /\ since = [n \in Nodes |-> 0]
  /\ lost = {}

Holds(n, c) ==
  \/ Read(n, c) \/ Solo(n, c) \/ First(n, c) \/ Keep(n, c) \/ Renew(n, c)
  \/ HeldElsewhere(n, c) \/ TakeOver(n, c) \/ Fails(n, c) \/ Remember(n, c)

Next ==
  \/ \E n \in Nodes, c \in Callers : Holds(n, c)
  \/ \E m, n \in Nodes, s \in Subjects : Sync(m, n, s)
  \/ \E n \in Nodes : LearnPeer(n) \/ Restart(n)
  \/ Tick

Spec == Init /\ [][Next]_vars

-----------------------------------------------------------------------------
(* Properties *)

\* Every variable stays within its shape.
TypeOK ==
  /\ now \in Nat
  /\ lease \in [Subjects -> Lease \cup {None}]
  /\ db \in [Nodes -> [Subjects -> Nat \cup {None, Gone}]]
  /\ peers \in [Nodes -> BOOLEAN]
  /\ held \in [Nodes -> Nat]
  /\ call \in [Nodes -> [Callers -> Call]]
  /\ since \in [Nodes -> Nat]
  /\ lost \subseteq Nodes
  /\ \A n \in Nodes, s \in Subjects : db[n][s] # None => lease[s] # None
  /\ \A n \in Nodes, c \in Callers :
       call[n][c].head # None => lease[call[n][c].head] # None

\* The node runs the background work without looking at its leases.
Runs(n) == Clock(n) < held[n]

\* max_generation never hides a lease a node following the protocol wrote, for
\* clocks that differ by less than a lease: at most one takeover per TTL.
PlausibleGenerations ==
  \A n \in Nodes, s \in Subjects :
    db[n][s] \in Nat => lease[s].generation <= MaxGeneration(Clock(n))

\* "The overlap after losing is bounded by RENEW_BEFORE_MS plus sync latency"
\* (lease.rs): once a node's own leases name another holder, the verdict it
\* cached outlives that by at most one renewal.
BoundedOverlap ==
  \A n \in Nodes :
    Runs(n) /\ HeadOf(n) # None /\ lease[HeadOf(n)].holder # n =>
      Clock(n) < since[n] + (TTL - RenewBefore)

\* A holder renews before its lease runs out: a node that is about to take a
\* lease over, that knows the holder's last renewal, and whose clock is less than
\* RENEW_BEFORE_MS ahead, finds that the holder has stopped running - unless
\* somebody's collect_old took the holder's own head from it.
TakeoverFindsItStopped ==
  \A n \in Nodes, c \in Callers :
    LET k == call[n][c] IN
    k.step = "read" /\ Theirs(n, c) /\ Expired(k) =>
      LET m == lease[k.head].holder IN
      /\ HeadOf(m) = k.head /\ db[m][k.head] = k.expires /\ m \notin lost
      /\ Skew[n] < Skew[m] + RenewBefore
      => ~Runs(m)

=============================================================================
