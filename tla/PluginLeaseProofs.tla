------------------------- MODULE PluginLeaseProofs -------------------------
(***************************************************************************)
(* What PluginLease guarantees for any nodes, clocks and lease length.     *)
(*                                                                         *)
(* A lease dates its generation: its n-th holder can have taken it over    *)
(* only after n leases ran out (Dated), which bounds generations           *)
(* (Plausible).  A cached verdict and the time a node's head last changed  *)
(* move together (HeldInv, CallInv), which bounds the overlap (Overlap).   *)
(* A verdict never outlives the head it came from less a renewal, as long  *)
(* as that head is not destroyed (StopInv), which is what a node that      *)
(* takes over relies on (HolderHasStopped).                                *)
(***************************************************************************)
EXTENDS PluginLease, TLAPS, WellFoundedInduction

-----------------------------------------------------------------------------
(* Numbers *)

LEMMA NatMin ==
  ASSUME NEW S, S \subseteq Nat, S # {}
  PROVE  \E x \in S : \A y \in S : x <= y
<1> DEFINE R == OpToRel(<, Nat)
<1>1. IsWellFoundedOn(R, Nat)
  BY NatLessThanWellFounded, Zenon
<1>2. \A x, y \in Nat : y < x => <<y, x>> \in R
  BY DEF OpToRel
<1> HIDE DEF R
<1>3. PICK x \in S : \A y \in S : ~(<<y, x>> \in R)
  BY <1>1, WFMin, Zenon
<1>4. ASSUME NEW y \in S PROVE x <= y
  <2>1. x \in Nat /\ y \in Nat /\ <<y, x>> \notin R
    BY <1>3
  <2>2. ~(y < x)
    BY <1>2, <2>1
  <2> QED BY <2>1, <2>2
<1> QED
  BY <1>4

LEMMA Successor ==
  ASSUME NEW a \in Nat, NEW t \in Nat
  PROVE  a * t \in Nat /\ (a + 1) * t = a * t + t
  BY SMT

\* A generation that took so long is plausible.
LEMMA DividesOut ==
  ASSUME NEW a \in Nat, NEW b \in Nat, NEW t \in Nat \ {0}, a * t <= b + t
  PROVE  b \div t \in Nat /\ a <= b \div t + 1
<1> DEFINE q == b \div t
<1>1. q \in Nat /\ b < (q + 1) * t
  BY SMT
<1>2. SUFFICES ASSUME a >= q + 2 PROVE FALSE
  BY <1>1
<1>3. PICK d \in Nat : a = q + 2 + d
  <2>1. a - q - 2 \in Nat /\ a = q + 2 + (a - q - 2)
    BY <1>1, <1>2
  <2> QED BY <2>1
<1>4. a * t = (q + 1) * t + t + d * t /\ d * t \in Nat
  BY <1>1, <1>3, SMT
<1> HIDE DEF q
<1> QED
  BY <1>1, <1>4

LEMMA Times ==
  /\ TTL \in Nat \ {0} /\ RenewBefore \in Nat /\ TTL - RenewBefore \in Nat
  /\ SoloRecheck \in Nat /\ SoloRecheck <= TTL - RenewBefore
  /\ RenewBefore <= TTL - RenewBefore
  BY LeaseAssumption

-----------------------------------------------------------------------------
(* The head of a node's leases *)

\* What HeadOf promises: the one lease that outranks all others.
HeadWins(n) ==
  Counted(n) # {} =>
    /\ HeadOf(n) \in Counted(n)
    /\ \A t \in Counted(n) \ {HeadOf(n)} : Outranks(HeadOf(n), t)

LEMMA HeadExists == TypeOK => \A n \in Nodes : HeadWins(n)
<1> SUFFICES ASSUME TypeOK, NEW n \in Nodes, Counted(n) # {}
             PROVE  /\ HeadOf(n) \in Counted(n)
                    /\ \A t \in Counted(n) \ {HeadOf(n)} : Outranks(HeadOf(n), t)
  BY DEF HeadWins
<1> DEFINE S == Counted(n)
           top == MaxGeneration(Clock(n))
<1>1. /\ S \subseteq Subjects /\ Subjects \subseteq Nat /\ top \in Nat
      /\ \A s \in S : /\ lease[s].generation \in Nat /\ lease[s].holder \in Nat
                      /\ lease[s].generation <= top
  <2>1. Clock(n) \in Nat
    BY LeaseAssumption DEF TypeOK, Clock
  <2>2. top \in Nat
    BY <2>1, Times, DividesOut, SMT DEF MaxGeneration
  <2>3. \A s \in S : lease[s] \in Lease /\ lease[s].generation <= top
    BY LeaseAssumption DEF TypeOK, Counted
  <2> QED
    BY <2>2, <2>3, LeaseAssumption DEF Lease, Counted
<1> DEFINE G == {top - lease[s].generation : s \in S}
<1>2. PICK p \in S : \A t \in S : lease[t].generation <= lease[p].generation
  <2>1. G \subseteq Nat /\ G # {}
    BY <1>1
  <2>2. PICK g \in G : \A y \in G : g <= y
    <3> HIDE DEF G
    <3> QED BY <2>1, NatMin
  <2>3. PICK p \in S : g = top - lease[p].generation
    BY <2>2
  <2> HIDE DEF top, S
  <2>4. ASSUME NEW t \in S PROVE lease[t].generation <= lease[p].generation
    <3>1. top - lease[p].generation <= top - lease[t].generation
      BY <2>2, <2>3
    <3> QED BY <3>1, <1>1
  <2> QED BY <2>4
<1> DEFINE S1 == {s \in S : lease[s].generation = lease[p].generation}
           H == {lease[s].holder : s \in S1}
<1>3. PICK q \in S1 : \A t \in S1 : lease[q].holder <= lease[t].holder
  <2>1. H \subseteq Nat /\ H # {}
    BY <1>1
  <2>2. PICK h \in H : \A y \in H : h <= y
    <3> HIDE DEF H
    <3> QED BY <2>1, NatMin
  <2> QED BY <2>2
<1> DEFINE S2 == {s \in S1 : lease[s].holder = lease[q].holder}
<1>4. PICK r \in S2 : \A t \in S2 : r <= t
  <2>1. S2 \subseteq Nat /\ S2 # {}
    BY <1>1
  <2> HIDE DEF S2
  <2> QED BY <2>1, NatMin
<1>5. r \in S /\ \A t \in S \ {r} : Outranks(r, t)
  <2>1. r \in S /\ r \in Nat /\ lease[r].generation = lease[p].generation
        /\ lease[r].holder = lease[q].holder
    BY <1>1, <1>4
  <2> SUFFICES ASSUME NEW t \in S, t # r PROVE Outranks(r, t)
    BY <2>1
  <2>2. CASE lease[t].generation # lease[p].generation
    BY <1>1, <1>2, <2>1, <2>2 DEF Outranks
  <2>3. CASE t \in S1 /\ lease[t].holder # lease[q].holder
    BY <1>1, <1>3, <2>1, <2>3 DEF Outranks
  <2>4. CASE t \in S2
    <3>1. r < t
      BY <1>1, <1>4, <2>1, <2>4
    <3> QED BY <3>1, <2>1, <2>4 DEF Outranks
  <2> QED BY <2>2, <2>3, <2>4
<1> QED
  <2>1. HeadOf(n) = CHOOSE s \in S : \A t \in S \ {s} : Outranks(s, t)
    BY DEF HeadOf, Head
  <2> HIDE DEF S
  <2>2. HeadOf(n) \in S /\ \A t \in S \ {HeadOf(n)} : Outranks(HeadOf(n), t)
    BY <1>5, <2>1
  <2> QED BY <2>2 DEF S

\* The head is a lease somebody signed, that the node has.
LEMMA HeadIs ==
  ASSUME TypeOK, NEW n \in Nodes, HeadOf(n) # None
  PROVE  /\ HeadOf(n) \in Subjects /\ db[n][HeadOf(n)] \in Nat
         /\ lease[HeadOf(n)] # None /\ lease[HeadOf(n)] \in Lease
<1>1. Counted(n) # {}
  BY DEF HeadOf
<1>2. HeadOf(n) \in Counted(n)
  BY <1>1, HeadExists DEF HeadWins
<1>3. HeadOf(n) \in Subjects /\ db[n][HeadOf(n)] \in Nat
  BY <1>2 DEF Counted
<1>4. lease[HeadOf(n)] # None
  BY <1>3, LeaseAssumption DEF TypeOK
<1> QED
  BY <1>3, <1>4 DEF TypeOK

LEMMA HeadExistsNext == TypeOK' => \A n \in Nodes : HeadWins(n)'
<1>1. (TypeOK => \A n \in Nodes : HeadWins(n))'
  BY HeadExists, PTL
<1> QED
  BY <1>1

-----------------------------------------------------------------------------
(* Types *)

LEMMA NotedType ==
  ASSUME TypeOK, NoteHeads, now' \in Nat
  PROVE  since' \in [Nodes -> Nat] /\ lost' \subseteq Nodes
<1>1. since' \in [Nodes -> Nat]
  BY LeaseAssumption DEF TypeOK, NoteHeads, Clock
<1>2. lost' \subseteq Nodes
  BY Zenon DEF TypeOK, NoteHeads
<1> QED
  BY <1>1, <1>2

\* Writing a lease of one's own.
LEMMA WritesType ==
  ASSUME TypeOK, NEW n \in Nodes, NEW c \in Callers, NEW g \in Nat, Writes(n, c, g)
  PROVE  /\ lease' \in [Subjects -> Lease \cup {None}]
         /\ db' \in [Nodes -> [Subjects -> Nat \cup {None, Gone}]]
         /\ \A m \in Nodes, s \in Subjects : db'[m][s] # None => lease'[s] # None
         /\ \A s \in Subjects : lease[s] # None => lease'[s] # None
<1>1. PICK s \in Subjects :
        /\ lease' = [lease EXCEPT ![s] = [holder |-> n, generation |-> g]]
        /\ db' = [db EXCEPT ![n][s] = call[n][c].at + TTL]
  BY DEF Writes
<1>2. call[n][c].at + TTL \in Nat
  BY Times DEF TypeOK, Call
<1>3. [holder |-> n, generation |-> g] \in Lease /\ [holder |-> n, generation |-> g] # None
  BY LeaseAssumption DEF Lease
<1>4. \A t \in Subjects : lease[t] # None => lease'[t] # None
  BY <1>1, <1>3 DEF TypeOK
<1> QED
  BY <1>1, <1>2, <1>3, <1>4 DEF TypeOK

LEMMA HoldsType ==
  ASSUME TypeOK, NEW n \in Nodes, NEW c \in Callers, Holds(n, c)
  PROVE  TypeOK'
<1> DEFINE k == call[n][c]
<1>1. k \in Call /\ k.at \in Nat /\ k.expires \in Nat /\ k.until \in Nat
      /\ k.head \in Subjects \cup {None} /\ k.old \subseteq Subjects
  BY DEF TypeOK, Call
<1>2. Idle \in Call /\ Idle.head = None
  BY DEF Idle, Call
<1>3. ASSUME NEW u \in Nat, Decides(n, c, u)
      PROVE  /\ call' \in [Nodes -> [Callers -> Call]]
             /\ \A m \in Nodes, d \in Callers : call'[m][d].head = call[m][d].head
  BY <1>1, <1>3 DEF Decides, TypeOK, Call
<1>heads. \A m \in Nodes, d \in Callers :
         call[m][d].head # None => lease[call[m][d].head] # None
  BY Zenon DEF TypeOK
<1>4. CASE Read(n, c)
  <2>1. /\ HeadOf(n) \in Subjects \cup {None}
        /\ HeadOf(n) # None =>
             db[n][HeadOf(n)] \in Nat /\ lease[HeadOf(n)] # None
    BY HeadIs
  <2>2. Clock(n) \in Nat /\ Old(Counted(n)) \subseteq Subjects
    BY LeaseAssumption DEF TypeOK, Clock, Old, Counted
  <2> QED BY <1>4, <2>1, <2>2 DEF Read, TypeOK, Call
<1>5. CASE Solo(n, c)
  BY <1>1, <1>2, <1>5, Times DEF Solo, TypeOK
<1>6. CASE First(n, c)
  <2>1. /\ call' \in [Nodes -> [Callers -> Call]]
        /\ \A m \in Nodes, d \in Callers : call'[m][d].head = call[m][d].head
    BY <1>1, <1>3, <1>6, Times DEF First
  <2>2. since' \in [Nodes -> Nat] /\ lost' \subseteq Nodes
    BY <1>6, NotedType DEF First, TypeOK
  <2>3. /\ lease' \in [Subjects -> Lease \cup {None}]
        /\ db' \in [Nodes -> [Subjects -> Nat \cup {None, Gone}]]
        /\ \A m \in Nodes, s \in Subjects : db'[m][s] # None => lease'[s] # None
        /\ \A s \in Subjects : lease[s] # None => lease'[s] # None
    BY <1>6, WritesType DEF First
  <2>4. \A m \in Nodes, d \in Callers :
         call'[m][d].head # None => lease'[call'[m][d].head] # None
    BY <2>1, <2>3 DEF TypeOK, Call
  <2> QED BY <1>6, <2>1, <2>2, <2>3, <2>4 DEF First, TypeOK
<1>7. CASE Keep(n, c)
  <2>1. RenewalPoint(k.expires) \in Nat
    BY <1>1, <1>7, Times DEF Keep, RenewalPoint
  <2>2. /\ call' \in [Nodes -> [Callers -> Call]]
        /\ \A m \in Nodes, d \in Callers : call'[m][d].head = call[m][d].head
    BY <1>3, <1>7, <2>1 DEF Keep
  <2>3. UNCHANGED <<now, lease, db, peers, held, since, lost>>
    BY <1>7 DEF Keep
  <2>4. \A m \in Nodes, d \in Callers :
         call'[m][d].head # None => lease'[call'[m][d].head] # None
    BY Zenon, <1>heads, <2>2, <2>3
  <2> QED BY <2>2, <2>3, <2>4 DEF TypeOK
<1>8. CASE Renew(n, c)
  <2>1. RenewalPoint(k.at + TTL) \in Nat /\ k.at + TTL \in Nat
    BY <1>1, Times DEF RenewalPoint
  <2>2. /\ call' \in [Nodes -> [Callers -> Call]]
        /\ \A m \in Nodes, d \in Callers : call'[m][d].head = call[m][d].head
    BY <1>3, <1>8, <2>1 DEF Renew
  <2>3. since' \in [Nodes -> Nat] /\ lost' \subseteq Nodes
    BY <1>8, NotedType DEF Renew, TypeOK
  <2>4. k.head \in Subjects /\ db[n][k.head] # None
    BY <1>1, <1>8, LeaseAssumption DEF Renew, Mine
  <2>5. UNCHANGED <<now, lease, peers, held>> /\ db' = [db EXCEPT ![n][k.head] = k.at + TTL]
    BY <1>8 DEF Renew
  <2>6. db' \in [Nodes -> [Subjects -> Nat \cup {None, Gone}]]
    BY <2>1, <2>4, <2>5 DEF TypeOK
  <2>7. \A m \in Nodes, s \in Subjects : db'[m][s] # None => lease'[s] # None
    BY <2>4, <2>5 DEF TypeOK
  <2>8. \A m \in Nodes, d \in Callers :
         call'[m][d].head # None => lease'[call'[m][d].head] # None
    BY Zenon, <1>heads, <2>2, <2>5
  <2> QED BY <2>2, <2>3, <2>5, <2>6, <2>7, <2>8 DEF TypeOK
<1>9. CASE HeldElsewhere(n, c)
  BY <1>2, <1>9 DEF HeldElsewhere, Refuses, TypeOK
<1>10. CASE TakeOver(n, c)
  <2>1. lease[k.head].generation + 1 \in Nat
    <3>1. k.head \in Subjects
      BY <1>1, <1>10 DEF TakeOver, Theirs
    <3>2. lease[k.head] \in Lease
      BY <1>10, <3>1 DEF TakeOver, Theirs, TypeOK
    <3> QED BY <3>2 DEF Lease
  <2>2. RenewalPoint(k.at + TTL) \in Nat
    BY <1>1, Times DEF RenewalPoint
  <2>3. /\ call' \in [Nodes -> [Callers -> Call]]
        /\ \A m \in Nodes, d \in Callers : call'[m][d].head = call[m][d].head
    BY <1>3, <1>10, <2>2 DEF TakeOver
  <2>4. since' \in [Nodes -> Nat] /\ lost' \subseteq Nodes
    BY <1>10, NotedType DEF TakeOver, TypeOK
  <2>5. /\ lease' \in [Subjects -> Lease \cup {None}]
        /\ db' \in [Nodes -> [Subjects -> Nat \cup {None, Gone}]]
        /\ \A m \in Nodes, s \in Subjects : db'[m][s] # None => lease'[s] # None
        /\ \A s \in Subjects : lease[s] # None => lease'[s] # None
    BY <1>10, <2>1, WritesType DEF TakeOver
  <2>6. \A m \in Nodes, d \in Callers :
         call'[m][d].head # None => lease'[call'[m][d].head] # None
    BY <2>3, <2>5 DEF TypeOK, Call
  <2> QED BY <1>10, <2>3, <2>4, <2>5, <2>6 DEF TakeOver, TypeOK
<1>11. CASE Fails(n, c)
  <2>1. held' \in [Nodes -> Nat]
    <3>1. held \in [Nodes -> Nat] /\ [held EXCEPT ![n] = 0] \in [Nodes -> Nat]
      BY DEF TypeOK
    <3>2. held' = held \/ held' = [held EXCEPT ![n] = 0]
      BY <1>11 DEF Fails
    <3> QED BY <3>1, <3>2
  <2> QED BY <1>2, <1>11, <2>1 DEF Fails, TypeOK
<1>12. CASE Remember(n, c)
  <2>1. since' \in [Nodes -> Nat] /\ lost' \subseteq Nodes
    BY <1>12, NotedType DEF Remember, TypeOK
  <2>2. /\ db' \in [Nodes -> [Subjects -> Nat \cup {None, Gone}]]
        /\ \A m \in Nodes, s \in Subjects : db'[m][s] # None => db[m][s] # None
    <3>1. PICK collected \in SUBSET k.old :
            db' = [db EXCEPT ![n] = [s \in Subjects |->
                     IF s \in collected /\ db[n][s] \in Nat THEN Gone ELSE db[n][s]]]
      BY <1>12 DEF Remember
    <3>2. \A s \in Subjects :
            db'[n][s] = IF s \in collected /\ db[n][s] \in Nat THEN Gone ELSE db[n][s]
      BY <3>1 DEF TypeOK
    <3>3. \A s \in Subjects : db'[n][s] # None => db[n][s] # None
      BY <3>2, LeaseAssumption
    <3>4. \A m \in Nodes \ {n} : db'[m] = db[m]
      BY <3>1 DEF TypeOK
    <3>5. db' \in [Nodes -> [Subjects -> Nat \cup {None, Gone}]]
      BY <3>1 DEF TypeOK
    <3> QED BY <3>3, <3>4, <3>5
  <2>3. held' \in [Nodes -> Nat] /\ call' \in [Nodes -> [Callers -> Call]]
    BY <1>1, <1>2, <1>12 DEF Remember, TypeOK
  <2>4. \A m \in Nodes, d \in Callers :
         call'[m][d].head # None => call'[m][d].head = call[m][d].head
    BY <1>2, <1>12 DEF Remember, TypeOK
  <2> QED BY <1>12, <2>1, <2>2, <2>3, <2>4 DEF Remember, TypeOK
<1> QED
  BY <1>4, <1>5, <1>6, <1>7, <1>8, <1>9, <1>10, <1>11, <1>12 DEF Holds

LEMMA SyncType ==
  ASSUME TypeOK, NEW m \in Nodes, NEW n \in Nodes, NEW s \in Subjects, Sync(m, n, s)
  PROVE  TypeOK'
<1>1. PICK copy \in Received(db[n][s], db[m][s]) : db' = [db EXCEPT ![n][s] = copy]
  BY DEF Sync
<1>2. copy \in Nat \cup {None, Gone} /\ lease[s] # None
  BY <1>1 DEF Sync, Received, TypeOK
<1>3. since' \in [Nodes -> Nat] /\ lost' \subseteq Nodes
  BY NotedType DEF Sync, TypeOK
<1> QED
  BY <1>1, <1>2, <1>3 DEF Sync, TypeOK

LEMMA TickType ==
  ASSUME TypeOK, Tick
  PROVE  TypeOK'
<1>1. now' \in Nat
  BY DEF Tick, TypeOK
<1>2. since' \in [Nodes -> Nat] /\ lost' \subseteq Nodes
  BY <1>1, NotedType DEF Tick
<1> QED
  BY <1>1, <1>2 DEF Tick, TypeOK

LEMMA TypeNext == TypeOK /\ [Next]_vars => TypeOK'
<1> SUFFICES ASSUME TypeOK, [Next]_vars PROVE TypeOK'
  OBVIOUS
<1>1. CASE UNCHANGED vars
  BY <1>1 DEF vars, TypeOK
<1>2. ASSUME NEW n \in Nodes, NEW c \in Callers, Holds(n, c) PROVE TypeOK'
  BY <1>2, HoldsType
<1>3. ASSUME NEW m \in Nodes, NEW n \in Nodes, NEW s \in Subjects, Sync(m, n, s)
      PROVE  TypeOK'
  BY <1>3, SyncType
<1>4. ASSUME NEW n \in Nodes, LearnPeer(n) PROVE TypeOK'
  BY <1>4 DEF LearnPeer, TypeOK
<1>5. ASSUME NEW n \in Nodes, Restart(n) PROVE TypeOK'
  <2>1. Idle \in Call /\ Idle.head = None
    BY DEF Idle, Call
  <2> QED BY <1>5, <2>1 DEF Restart, TypeOK
<1>6. CASE Tick
  BY <1>6, TickType
<1> QED
  BY <1>1, <1>2, <1>3, <1>4, <1>5, <1>6 DEF Next

LEMMA TypeInit == Init => TypeOK
<1>1. Idle \in Call /\ Idle.head = None
  BY DEF Idle, Call
<1> QED
  BY <1>1 DEF Init, TypeOK

\* Every variable stays within its shape; a lease a node has or a call works from
\* was signed by somebody.
THEOREM TypeCorrect == Spec => []TypeOK
  BY TypeInit, TypeNext, PTL DEF Spec

-----------------------------------------------------------------------------
(* A generation tells the time *)

\* The earliest reading of its holder's clock a lease can have begun at.
Began(l) == l.generation * TTL

\* The expiries a lease can have while the slowest clock reads t.
Within(l, t, e) == Began(l) + TTL <= e /\ e <= t + Skew[l.holder] + TTL

Ages ==
  \A s \in Subjects : lease[s] # None => Began(lease[s]) <= Clock(lease[s].holder)

Copies ==
  \A n \in Nodes, s \in Subjects : db[n][s] \in Nat => Within(lease[s], now, db[n][s])

\* A call takes no time, and works from an expiry its lease could have.
Working ==
  \A n \in Nodes, c \in Callers :
    LET k == call[n][c] IN
    k.step # "idle" =>
      /\ k.at = Clock(n)
      /\ k.step = "read" /\ k.head # None => Within(lease[k.head], now, k.expires)

Dated == Ages /\ Copies /\ Working

LEMMA Clocks ==
  ASSUME TypeOK, NEW n \in Nodes
  PROVE  Skew[n] \in Nat /\ Skew[n] <= TTL /\ Clock(n) \in Nat
  BY LeaseAssumption DEF TypeOK, Clock

LEMMA LeaseFields ==
  ASSUME NEW l \in Lease
  PROVE  /\ l.holder \in Nodes /\ Skew[l.holder] \in Nat
         /\ l.generation \in Nat /\ Began(l) \in Nat
<1>1. l.holder \in Nodes /\ l.generation \in Nat
  BY DEF Lease
<1>2. Began(l) \in Nat
  BY <1>1, Successor, Times DEF Began
<1>3. Skew[l.holder] \in 0..TTL
  BY <1>1, LeaseAssumption
<1> QED
  BY <1>1, <1>2, <1>3, Times

\* Time and the other leases leave what holds of a lease alone.
LEMMA WithinLater ==
  ASSUME NEW l \in Lease, NEW t \in Nat, NEW u \in Nat, t <= u,
         NEW e \in Nat, Within(l, t, e)
  PROVE  Within(l, u, e)
  BY LeaseFields, Times DEF Within

LEMMA Signed ==
  ASSUME TypeOK, NEW s \in Subjects, lease[s] # None
  PROVE  lease[s] \in Lease
  BY DEF TypeOK

\* What every step does to leases and time.
Grows ==
  /\ now' \in Nat /\ now <= now'
  /\ \A s \in Subjects : lease[s] # None => lease'[s] = lease[s]

LEMMA StepGrows == TypeOK /\ [Next]_vars => Grows
<1> SUFFICES ASSUME TypeOK, [Next]_vars PROVE Grows
  OBVIOUS
<1>1. ASSUME NEW n \in Nodes, NEW c \in Callers, NEW g, Writes(n, c, g)
      PROVE  \A s \in Subjects : lease[s] # None => lease'[s] = lease[s]
  BY <1>1 DEF Writes, TypeOK
<1>2. ASSUME NEW n \in Nodes, NEW c \in Callers, Holds(n, c) PROVE Grows
  <2>1. CASE First(n, c)
    BY <2>1, <1>1 DEF First, Grows, TypeOK
  <2>2. CASE TakeOver(n, c)
    BY <2>2, <1>1 DEF TakeOver, Grows, TypeOK
  <2> QED
    BY <1>2, <2>1, <2>2 DEF Holds, Read, Solo, Keep, Renew, HeldElsewhere, Fails,
       Remember, Grows, TypeOK
<1>3. CASE UNCHANGED vars
  BY <1>3 DEF vars, Grows, TypeOK
<1>4. ASSUME NEW m \in Nodes, NEW n \in Nodes, NEW s \in Subjects,
             Sync(m, n, s)
      PROVE  Grows
  BY <1>4 DEF Sync, Grows, TypeOK
<1>5. ASSUME NEW n \in Nodes, LearnPeer(n) \/ Restart(n) PROVE Grows
  BY <1>5 DEF LearnPeer, Restart, Grows, TypeOK
<1>6. CASE Tick
  BY <1>6 DEF Tick, Grows, TypeOK
<1> QED
  BY <1>2, <1>3, <1>4, <1>5, <1>6 DEF Next

\* A lease nobody wrote keeps its bounds, in the database and in a call.
LEMMA Carried ==
  ASSUME TypeOK, TypeOK', Dated, Grows, NEW s \in Subjects, lease[s] # None
  PROVE  /\ Began(lease'[s]) <= now' + Skew[lease'[s].holder]
         /\ \A e \in Nat : Within(lease[s], now, e) => Within(lease'[s], now', e)
<1>1. lease[s] \in Lease /\ lease'[s] = lease[s]
  BY Signed DEF Grows
<1>2. Began(lease[s]) \in Nat /\ Skew[lease[s].holder] \in Nat
  BY <1>1, LeaseFields
<1>3. Began(lease[s]) <= now + Skew[lease[s].holder]
  BY DEF Dated, Ages, Clock
<1>4. now \in Nat /\ now' \in Nat /\ now <= now'
  BY DEF TypeOK, Grows
<1> QED
  BY <1>1, <1>2, <1>3, <1>4, WithinLater

\* A copy or a call that was there before, or that shows what a call wrote.
LEMMA DatedWrites ==
  ASSUME TypeOK, TypeOK', Dated, Grows, now' = now,
         NEW n \in Nodes, NEW c \in Callers, NEW g \in Nat,
         Writes(n, c, g), call[n][c].at = Clock(n), g * TTL <= Clock(n)
  PROVE  Ages' /\ Copies'
<1>1. PICK s \in Subjects :
        /\ lease[s] = None
        /\ lease' = [lease EXCEPT ![s] = [holder |-> n, generation |-> g]]
        /\ db' = [db EXCEPT ![n][s] = call[n][c].at + TTL]
  BY DEF Writes
<1>2. lease'[s] = [holder |-> n, generation |-> g]
      /\ \A t \in Subjects \ {s} : lease'[t] = lease[t]
  BY <1>1 DEF TypeOK
<1>3. Began(lease'[s]) <= now + Skew[lease'[s].holder]
  BY <1>2 DEF Began, Clock
<1>4. Ages'
  <2> SUFFICES ASSUME NEW t \in Subjects, lease'[t] # None
               PROVE  Began(lease'[t]) <= now' + Skew[lease'[t].holder]
    BY DEF Ages, Clock
  <2> QED BY <1>2, <1>3, Carried
<1>5. Copies'
  <2> SUFFICES ASSUME NEW m \in Nodes, NEW t \in Subjects, db'[m][t] \in Nat
               PROVE  Within(lease'[t], now', db'[m][t])
    BY DEF Copies
  <2>1. CASE t = s /\ m = n
    <3>1. db'[n][s] = now + Skew[n] + TTL
      BY <1>1 DEF TypeOK, Clock
    <3>2. lease'[s] \in Lease /\ Began(lease'[s]) \in Nat /\ lease'[s].holder = n
      BY <1>2, LeaseFields DEF Lease
    <3> QED
      BY <1>3, <2>1, <3>1, <3>2, Clocks, Times DEF Within, TypeOK
  <2>2. CASE t = s /\ m # n
    BY <1>1, <2>2, LeaseAssumption DEF TypeOK
  <2>3. CASE t # s
    <3>1. db'[m][t] = db[m][t] /\ lease[t] # None
      BY <1>1, <2>3, LeaseAssumption DEF TypeOK
    <3>2. Within(lease[t], now, db[m][t])
      BY <3>1 DEF Dated, Copies
    <3> QED BY <3>1, <3>2, Carried
  <2> QED BY <2>1, <2>2, <2>3
<1> QED
  BY <1>4, <1>5

LEMMA DatedKept ==
  ASSUME TypeOK, TypeOK', Dated, Grows, UNCHANGED lease
  PROVE  /\ Ages'
         /\ (\A n \in Nodes, s \in Subjects :
                db'[n][s] \in Nat =>
                  \/ \E m \in Nodes : db'[n][s] = db[m][s]
                  \/ Within(lease[s], now, db'[n][s]))
            => Copies'
<1>1. Ages'
  <2> SUFFICES ASSUME NEW t \in Subjects, lease'[t] # None
               PROVE  Began(lease'[t]) <= now' + Skew[lease'[t].holder]
    BY DEF Ages, Clock
  <2> QED BY Carried
<1>2. ASSUME NEW n \in Nodes, NEW s \in Subjects, db'[n][s] \in Nat,
             \/ \E m \in Nodes : db'[n][s] = db[m][s]
             \/ Within(lease[s], now, db'[n][s])
      PROVE  Within(lease'[s], now', db'[n][s])
  <2>1. lease[s] # None
    BY <1>2, LeaseAssumption DEF TypeOK
  <2>2. Within(lease[s], now, db'[n][s])
    BY <1>2 DEF Dated, Copies
  <2> QED BY <1>2, <2>1, <2>2, Carried
<1> QED
  BY <1>1, <1>2 DEF Copies

\* The calls a step leaves as they were, or ends.
LEMMA WorkingKept ==
  ASSUME TypeOK, TypeOK', Dated, Grows,
         NEW n \in Nodes, NEW c \in Callers,
         \/ call'[n][c] = call[n][c] /\ now' = now
         \/ call'[n][c].step = "idle"
         \/ /\ call'[n][c].step = "decided" /\ call[n][c].step # "idle"
            /\ call'[n][c].at = call[n][c].at /\ now' = now
  PROVE  call'[n][c].step # "idle" =>
           /\ call'[n][c].at = Clock(n)'
           /\ call'[n][c].step = "read" /\ call'[n][c].head # None =>
                Within(lease'[call'[n][c].head], now', call'[n][c].expires)
<1>1. CASE call'[n][c] = call[n][c] /\ now' = now
  <2> DEFINE k == call[n][c]
  <2>1. k.head \in Subjects \cup {None} /\ k.expires \in Nat
        /\ (k.head # None => lease[k.head] # None)
    BY DEF TypeOK, Call
  <2>2. k.step # "idle" =>
          /\ k.at = Clock(n)
          /\ k.step = "read" /\ k.head # None => Within(lease[k.head], now, k.expires)
    BY DEF Dated, Working
  <2> QED BY <1>1, <2>1, <2>2, Carried DEF Clock
<1>2. CASE call'[n][c].step # "idle" /\ call'[n][c].step # "read" /\ now' = now
           /\ call[n][c].step # "idle" /\ call'[n][c].at = call[n][c].at
  BY <1>2 DEF Dated, Working, Clock
<1> QED
  BY <1>1, <1>2

LEMMA DatedHolds ==
  ASSUME TypeOK, TypeOK', Dated, Grows, NEW n \in Nodes, NEW c \in Callers, Holds(n, c)
  PROVE  Dated'
<1> DEFINE k == call[n][c]
           Ended(u, d) == \/ call'[u][d] = call[u][d] /\ now' = now
                          \/ call'[u][d].step = "idle"
                          \/ /\ call'[u][d].step = "decided" /\ call[u][d].step # "idle"
                             /\ call'[u][d].at = call[u][d].at /\ now' = now
<1>1. k.at \in Nat /\ k.expires \in Nat /\ k.head \in Subjects \cup {None}
      /\ (k.head # None => lease[k.head] # None)
  BY DEF TypeOK, Call
<1>2. k.step # "idle" => k.at = Clock(n)
  BY DEF Dated, Working
<1>3. ASSUME \A u \in Nodes, d \in Callers : Ended(u, d) PROVE Working'
  BY <1>3, WorkingKept DEF Working
<1>4. ASSUME NEW u, k.step = "read", now' = now, Decides(n, c, u) PROVE Working'
  <2>1. \A m \in Nodes, d \in Callers : Ended(m, d)
    BY <1>4 DEF Decides, TypeOK, Call
  <2> QED BY <1>3, <2>1
<1>5. ASSUME now' = now, call' = [call EXCEPT ![n][c] = Idle] PROVE Working'
  <2>1. \A m \in Nodes, d \in Callers : Ended(m, d)
    BY <1>5 DEF Idle, TypeOK
  <2> QED BY <1>3, <2>1
<1>6. ASSUME UNCHANGED <<lease, db>> PROVE Ages' /\ Copies'
  BY <1>6, DatedKept
<1>7. CASE Read(n, c)
  <2>1. Working'
    <3> SUFFICES ASSUME NEW m \in Nodes, NEW d \in Callers, call'[m][d].step # "idle"
        PROVE  /\ call'[m][d].at = Clock(m)'
               /\ call'[m][d].step = "read" /\ call'[m][d].head # None =>
                    Within(lease'[call'[m][d].head], now', call'[m][d].expires)
      BY DEF Working
    <3>1. CASE m = n /\ d = c
      <4>1. /\ call'[n][c].at = Clock(n) /\ call'[n][c].head = HeadOf(n)
            /\ HeadOf(n) # None => call'[n][c].expires = db[n][HeadOf(n)]
        BY <1>7 DEF Read, TypeOK
      <4>2. HeadOf(n) # None => HeadOf(n) \in Subjects /\ db[n][HeadOf(n)] \in Nat
        BY HeadExists DEF HeadWins, HeadOf, Counted
      <4>3. HeadOf(n) # None => Within(lease[HeadOf(n)], now, db[n][HeadOf(n)])
        BY <4>2 DEF Dated, Copies
      <4> QED BY <1>7, <3>1, <4>1, <4>3 DEF Read, Clock
    <3>2. CASE ~(m = n /\ d = c)
      <4>1. call'[m][d] = call[m][d] /\ now' = now
        BY <1>7, <3>2 DEF Read, TypeOK
      <4> QED BY <4>1, WorkingKept
    <3> QED BY <3>1, <3>2
  <2> QED BY <1>6, <1>7, <2>1 DEF Read, Dated
<1>8. CASE Solo(n, c)
  BY <1>5, <1>6, <1>8 DEF Solo, Dated
<1>9. CASE First(n, c)
  <2>1. 0 * TTL <= Clock(n)
    BY Clocks, Times
  <2>2. Ages' /\ Copies'
    BY <1>2, <1>9, <2>1, DatedWrites DEF First
  <2> QED BY <1>4, <1>9, <2>2 DEF First, Dated
<1>10. CASE Keep(n, c)
  BY <1>4, <1>6, <1>10 DEF Keep, Dated
<1>11. CASE Renew(n, c)
  <2>1. /\ k.head \in Subjects /\ lease[k.head] \in Lease
        /\ lease[k.head].holder = n /\ lease[k.head] # None
    BY <1>1, <1>11, Signed DEF Renew, Mine
  <2>2. Began(lease[k.head]) \in Nat /\ Began(lease[k.head]) <= Clock(n)
    BY <1>1, <2>1, LeaseFields DEF Dated, Ages
  <2>3. Within(lease[k.head], now, k.at + TTL)
    BY <1>2, <1>11, <2>1, <2>2, Clocks, Times DEF Renew, Within, Clock, TypeOK
  <2>4. \A m \in Nodes, s \in Subjects :
          db'[m][s] = db[m][s] \/ (s = k.head /\ db'[m][s] = k.at + TTL)
    BY <1>11 DEF Renew, TypeOK
  <2>5. Ages' /\ Copies'
    BY <1>11, <2>3, <2>4, DatedKept DEF Renew
  <2> QED BY <1>4, <1>11, <2>5 DEF Renew, Dated
<1>12. CASE HeldElsewhere(n, c)
  BY <1>5, <1>6, <1>12 DEF HeldElsewhere, Refuses, Dated
<1>13. CASE TakeOver(n, c)
  <2> DEFINE g == lease[k.head].generation
  <2>1. k.head \in Subjects /\ lease[k.head] \in Lease /\ k.head # None
    BY <1>1, <1>13, Signed DEF TakeOver, Theirs
  <2>2. g \in Nat /\ Began(lease[k.head]) = g * TTL /\ g * TTL \in Nat
        /\ (g + 1) * TTL = g * TTL + TTL
    BY <2>1, LeaseFields, Successor, Times DEF Began
  <2>3. g * TTL + TTL <= k.expires
    BY <1>13, <2>1, <2>2 DEF TakeOver, Dated, Working, Within
  <2>4. k.expires <= Clock(n)
    BY <1>2, <1>13 DEF TakeOver, Expired
  <2>5. (g + 1) * TTL <= Clock(n) /\ g + 1 \in Nat
    BY <1>1, <2>2, <2>3, <2>4, Clocks, Times
  <2>6. Ages' /\ Copies'
    <3> HIDE DEF g
    <3> QED BY <1>2, <1>13, <2>5, DatedWrites DEF TakeOver, g
  <2> QED BY <1>4, <1>13, <2>6 DEF TakeOver, Dated
<1>14. CASE Fails(n, c)
  BY <1>5, <1>6, <1>14 DEF Fails, Dated
<1>15. CASE Remember(n, c)
  <2>1. \A m \in Nodes, s \in Subjects : db'[m][s] = db[m][s] \/ db'[m][s] = Gone
    <3>1. PICK collected \in SUBSET k.old :
            db' = [db EXCEPT ![n] = [s \in Subjects |->
                     IF s \in collected /\ db[n][s] \in Nat THEN Gone ELSE db[n][s]]]
      BY <1>15 DEF Remember
    <3>2. \A s \in Subjects : db'[n][s] = db[n][s] \/ db'[n][s] = Gone
      BY <3>1 DEF TypeOK
    <3>3. \A m \in Nodes \ {n} : db'[m] = db[m]
      BY <3>1 DEF TypeOK
    <3> QED BY <3>2, <3>3
  <2>2. Ages' /\ Copies'
    BY <1>15, <2>1, DatedKept, LeaseAssumption DEF Remember
  <2> QED BY <1>5, <1>15, <2>2 DEF Remember, Dated
<1> QED
  BY <1>7, <1>8, <1>9, <1>10, <1>11, <1>12, <1>13, <1>14, <1>15 DEF Holds

LEMMA DatedSync ==
  ASSUME TypeOK, TypeOK', Dated, Grows,
         NEW m \in Nodes, NEW n \in Nodes, NEW s \in Subjects, Sync(m, n, s)
  PROVE  Dated'
<1>1. PICK copy \in Received(db[n][s], db[m][s]) : db' = [db EXCEPT ![n][s] = copy]
  BY DEF Sync
<1>2. copy \in {None, Gone} \/ copy = db[n][s] \/ copy = db[m][s]
  BY <1>1 DEF Received
<1>3. ASSUME NEW u \in Nodes, NEW t \in Subjects, db'[u][t] \in Nat
      PROVE  \E v \in Nodes : db'[u][t] = db[v][t]
  <2>1. CASE u = n /\ t = s
    <3>1. db'[u][t] = copy
      BY <1>1, <2>1 DEF TypeOK
    <3> QED BY <1>2, <1>3, <2>1, <3>1, LeaseAssumption
  <2>2. CASE ~(u = n /\ t = s)
    <3>1. db'[u][t] = db[u][t]
      BY <1>1, <2>2 DEF TypeOK
    <3> QED BY <3>1
  <2> QED BY <2>1, <2>2
<1>4. Ages' /\ Copies'
  BY <1>3, DatedKept DEF Sync
<1>5. Working'
  BY WorkingKept DEF Sync, Working
<1> QED
  BY <1>4, <1>5 DEF Dated

LEMMA DatedNext == TypeOK /\ Dated /\ [Next]_vars => Dated'
<1> SUFFICES ASSUME TypeOK, Dated, [Next]_vars PROVE Dated'
  OBVIOUS
<1>1. TypeOK' /\ Grows
  BY TypeNext, StepGrows
<1>2. ASSUME UNCHANGED <<lease, db>>,
             \A n \in Nodes, c \in Callers :
               (call'[n][c] = call[n][c] /\ now' = now) \/ call'[n][c].step = "idle"
      PROVE  Dated'
  <2>1. Ages' /\ Copies'
    BY <1>1, <1>2, DatedKept
  <2>2. Working'
    BY <1>1, <1>2, WorkingKept DEF Working
  <2> QED BY <2>1, <2>2 DEF Dated
<1>3. CASE UNCHANGED vars
  BY <1>2, <1>3 DEF vars
<1>4. ASSUME NEW n \in Nodes, NEW c \in Callers, Holds(n, c) PROVE Dated'
  BY <1>1, <1>4, DatedHolds
<1>5. ASSUME NEW m \in Nodes, NEW n \in Nodes, NEW s \in Subjects, Sync(m, n, s)
      PROVE  Dated'
  BY <1>1, <1>5, DatedSync
<1>6. ASSUME NEW n \in Nodes, LearnPeer(n) PROVE Dated'
  BY <1>2, <1>6 DEF LearnPeer
<1>7. ASSUME NEW n \in Nodes, Restart(n) PROVE Dated'
  <2>1. \A m \in Nodes, c \in Callers :
          call'[m][c] = call[m][c] \/ call'[m][c].step = "idle"
    BY <1>7 DEF Restart, Idle, TypeOK
  <2> QED BY <1>2, <1>7, <2>1 DEF Restart
<1>8. CASE Tick
  BY <1>2, <1>8 DEF Tick
<1> QED
  BY <1>3, <1>4, <1>5, <1>6, <1>7, <1>8 DEF Next

LEMMA DatedInit == Init => Dated
<1> SUFFICES ASSUME Init PROVE Dated
  OBVIOUS
<1>1. \A s \in Subjects : lease[s] = None
  BY DEF Init
<1>2. \A n \in Nodes, s \in Subjects : db[n][s] \notin Nat
  BY LeaseAssumption DEF Init
<1>3. \A n \in Nodes, c \in Callers : call[n][c].step = "idle"
  BY DEF Init, Idle
<1> QED
  BY <1>1, <1>2, <1>3 DEF Dated, Ages, Copies, Working

\* A lease with its dates is plausible by any node's clock: clocks differ by at
\* most TTL, so its n-th generation began at most one lease ahead.
LEMMA DatedIsPlausible == TypeOK /\ Dated => PlausibleGenerations
<1> SUFFICES ASSUME TypeOK, Dated, NEW n \in Nodes, NEW s \in Subjects, db[n][s] \in Nat
             PROVE  lease[s].generation <= MaxGeneration(Clock(n))
  BY DEF PlausibleGenerations
<1> DEFINE g == lease[s].generation
<1>1. lease[s] # None /\ lease[s] \in Lease
  BY LeaseAssumption, Signed DEF TypeOK
<1>2. g \in Nat /\ g * TTL \in Nat /\ Began(lease[s]) = g * TTL
      /\ lease[s].holder \in Nodes
  BY <1>1, LeaseFields DEF Began
<1>3. g * TTL <= Clock(lease[s].holder)
  BY <1>1, <1>2 DEF Dated, Ages
<1>4. Clock(lease[s].holder) <= Clock(n) + TTL
  BY <1>2, Clocks, Times DEF Clock, TypeOK
<1>5. g * TTL <= Clock(n) + TTL
  BY <1>2, <1>3, <1>4, Clocks, Times
<1> HIDE DEF g
<1>6. Clock(n) \div TTL \in Nat /\ g <= Clock(n) \div TTL + 1
  BY <1>2, <1>5, Clocks, Times, DividesOut
<1> QED
  BY <1>2, <1>6 DEF MaxGeneration, g

\* max_generation never hides a lease that a node following the protocol wrote, for
\* any lease length and any clocks that differ by at most a lease (lease.rs:357).
THEOREM Plausible == Spec => []PlausibleGenerations
<1>1. Init => TypeOK /\ Dated
  BY TypeInit, DatedInit
<1>2. TypeOK /\ Dated /\ [Next]_vars => TypeOK' /\ Dated'
  BY TypeNext, DatedNext
<1> QED
  BY <1>1, <1>2, DatedIsPlausible, PTL DEF Spec

-----------------------------------------------------------------------------
(* A verdict outlives its lease by at most one renewal *)

\* A node's own leases name another holder.
Foreign(n) == HeadOf(n) # None /\ lease[HeadOf(n)].holder # n

Renewal == TTL - RenewBefore

\* A verdict of now is not contradicted by leases the node had before now.
Settled(n) == ~Foreign(n) \/ since[n] = Clock(n)

HeldOK(n) ==
  /\ since[n] <= Clock(n) /\ held[n] <= Clock(n) + Renewal
  /\ Foreign(n) => held[n] <= since[n] + Renewal

HeldInv == \A n \in Nodes : HeldOK(n)

CallOK(n, c) ==
  /\ call[n][c].step = "read" => call[n][c].head = HeadOf(n) \/ since[n] = Clock(n)
  /\ call[n][c].step = "decided" => call[n][c].until <= Clock(n) + Renewal /\ Settled(n)

CallInv == \A n \in Nodes, c \in Callers : CallOK(n, c)

Inv == TypeOK /\ Dated /\ HeldInv /\ CallInv

\* A step moves a node's head only with the note of when.
Noted(n) ==
  \/ since'[n] = Clock(n)'
  \/ /\ since'[n] = since[n] /\ HeadOf(n)' = HeadOf(n)
     /\ Foreign(n)' => Foreign(n)

LEMMA HeadsNoted == TypeOK /\ [Next]_vars => \A n \in Nodes : Noted(n)
<1> SUFFICES ASSUME TypeOK, [Next]_vars, NEW n \in Nodes PROVE Noted(n)
  OBVIOUS
<1>1. Grows
  BY StepGrows
<1>2. HeadOf(n)' = HeadOf(n) => (Foreign(n)' => Foreign(n))
  <2>1. HeadOf(n) # None => HeadOf(n) \in Subjects /\ lease[HeadOf(n)] # None
    BY HeadIs
  <2> QED BY <1>1, <2>1 DEF Foreign, Grows
<1>3. ASSUME UNCHANGED <<now, lease, db, since>> PROVE Noted(n)
  <2>1. HeadOf(n)' = HeadOf(n)
    BY <1>3 DEF HeadOf, Head, Outranks, Counted, Clock
  <2> QED BY <1>2, <1>3, <2>1 DEF Noted
<1>4. ASSUME NoteHeads PROVE Noted(n)
  BY <1>2, <1>4 DEF NoteHeads, Noted, TypeOK
<1>5. CASE UNCHANGED vars
  BY <1>3, <1>5 DEF vars
<1>6. ASSUME NEW m \in Nodes, NEW c \in Callers, Holds(m, c) PROVE Noted(n)
  BY <1>3, <1>4, <1>6 DEF Holds, Read, Solo, First, Keep, Renew, HeldElsewhere,
     TakeOver, Fails, Remember
<1>7. ASSUME NEW l \in Nodes, NEW m \in Nodes, NEW s \in Subjects, Sync(l, m, s)
      PROVE  Noted(n)
  BY <1>4, <1>7 DEF Sync
<1>8. ASSUME NEW m \in Nodes, LearnPeer(m) \/ Restart(m) PROVE Noted(n)
  BY <1>3, <1>8 DEF LearnPeer, Restart
<1>9. CASE Tick
  BY <1>4, <1>9 DEF Tick
<1> QED
  BY <1>5, <1>6, <1>7, <1>8, <1>9 DEF Next

LEMMA PlausibleNext == TypeOK' /\ Dated' => PlausibleGenerations'
<1>1. (TypeOK /\ Dated => PlausibleGenerations)'
  BY DatedIsPlausible, PTL
<1> QED
  BY <1>1

\* The lease a takeover writes is plausible to its writer, and outranks the one it
\* takes over.
LEMMA TakeOverMovesHead ==
  ASSUME TypeOK, TypeOK', Dated, Dated', NEW n \in Nodes, NEW c \in Callers, TakeOver(n, c)
  PROVE  HeadOf(n)' # call[n][c].head
<1>1. PICK h \in Subjects : h = call[n][c].head /\ lease[h] # None /\ lease[h] \in Lease
  BY Signed DEF TakeOver, Theirs, TypeOK, Call
<1>2. PICK s \in Subjects :
        /\ lease[s] = None
        /\ lease' = [lease EXCEPT ![s] =
                       [holder |-> n, generation |-> lease[h].generation + 1]]
        /\ db' = [db EXCEPT ![n][s] = call[n][c].at + TTL]
  BY <1>1 DEF TakeOver, Writes
<1>3. lease'[s].generation = lease[h].generation + 1 /\ lease'[h] = lease[h] /\ s # h
  BY <1>1, <1>2 DEF TypeOK
<1>4. db'[n][s] \in Nat
  BY <1>2, Times DEF TypeOK, Call
<1>5. PlausibleGenerations'
  BY PlausibleNext
<1>6. s \in Counted(n)'
  BY <1>4, <1>5 DEF PlausibleGenerations, Counted
<1>7. HeadWins(n)'
  BY HeadExistsNext
<1>8. ASSUME HeadOf(n)' = h PROVE FALSE
  <2>1. \/ lease'[h].generation > lease'[s].generation
        \/ lease'[h].generation = lease'[s].generation
    <3>1. \A t \in Counted(n)' \ {HeadOf(n)'} :
            \/ lease'[HeadOf(n)'].generation > lease'[t].generation
            \/ lease'[HeadOf(n)'].generation = lease'[t].generation
      BY <1>6, <1>7 DEF HeadWins, Outranks
    <3>2. s \in Counted(n)' \ {HeadOf(n)'}
      BY <1>3, <1>6, <1>8
    <3> QED BY <1>8, <3>1, <3>2
  <2>2. lease[h].generation \in Nat
    BY <1>1 DEF Lease
  <2> QED BY <1>3, <2>1, <2>2
<1> QED
  BY <1>1, <1>8

\* A call's verdict, or the head it read, stays right until the head moves.
LEMMA CallKept ==
  ASSUME Inv, NEW n \in Nodes, NEW c \in Callers, Noted(n), now' = now,
         call'[n][c] = call[n][c]
  PROVE  CallOK(n, c)'
<1>1. Noted(n) /\ Clock(n)' = Clock(n)
  BY DEF Clock
<1> QED
  BY <1>1 DEF Inv, CallInv, CallOK, Noted, Settled

\* What a step must show of each cached verdict.
LEMMA HeldKept ==
  ASSUME Inv, TypeOK', Grows, NEW n \in Nodes, Noted(n),
         \/ held'[n] = held[n]
         \/ held'[n] = 0
         \/ now' = now /\ Settled(n) /\ held'[n] <= Clock(n) + Renewal
  PROVE  HeldOK(n)'
<1>1. /\ Clock(n) \in Nat /\ Clock(n)' \in Nat /\ Clock(n) <= Clock(n)'
      /\ now' = now => Clock(n)' = Clock(n)
  BY Clocks DEF Inv, Clock, Grows, TypeOK
<1>2. /\ Renewal \in Nat /\ held[n] \in Nat /\ held'[n] \in Nat
      /\ since[n] \in Nat /\ since'[n] \in Nat
  BY Times DEF Renewal, Inv, TypeOK
<1>3. /\ since[n] <= Clock(n) /\ held[n] <= Clock(n) + Renewal
      /\ Foreign(n) => held[n] <= since[n] + Renewal
  BY DEF Inv, HeldInv, HeldOK
<1>4. /\ held'[n] <= Clock(n) + Renewal
      /\ Foreign(n) => held'[n] <= since[n] + Renewal
  BY <1>1, <1>2, <1>3 DEF Settled
<1> QED
  BY <1>1, <1>2, <1>3, <1>4 DEF Noted, HeldOK

\* The steps of a call.
LEMMA HoldsCall ==
  ASSUME Inv, TypeOK', Dated', Grows, \A m \in Nodes : Noted(m),
         NEW n \in Nodes, NEW c \in Callers, Holds(n, c)
  PROVE  CallOK(n, c)' /\ now' = now
         /\ \A m \in Nodes, d \in Callers :
              ~(m = n /\ d = c) => call'[m][d] = call[m][d]
<1> DEFINE k == call[n][c]
<1>1. /\ k.at \in Nat /\ k.expires \in Nat /\ k.head \in Subjects \cup {None}
      /\ Clock(n) \in Nat /\ Skew[n] \in Nat
  BY Clocks DEF Inv, TypeOK, Call
<1>2. /\ k.step # "idle" => k.at = Clock(n)
      /\ k.step = "read" => k.head = HeadOf(n) \/ since[n] = Clock(n)
      /\ k.step = "read" /\ k.head # None => Within(lease[k.head], now, k.expires)
  BY DEF Inv, Dated, Working, CallInv, CallOK
<1>3. Noted(n)
  OBVIOUS
<1>4. ASSUME NEW u, Decides(n, c, u)
      PROVE  /\ call'[n][c].step = "decided" /\ call'[n][c].until = u
             /\ \A m \in Nodes, d \in Callers :
                  ~(m = n /\ d = c) => call'[m][d] = call[m][d]
  BY <1>4 DEF Decides, Inv, TypeOK, Call
<1>5. ASSUME call' = [call EXCEPT ![n][c] = Idle], now' = now
      PROVE  CallOK(n, c)' /\ now' = now
             /\ \A m \in Nodes, d \in Callers :
                  ~(m = n /\ d = c) => call'[m][d] = call[m][d]
  BY <1>5 DEF Idle, Inv, TypeOK, CallOK
<1>6. ASSUME NEW u \in Nat, Decides(n, c, u), now' = now, u <= Clock(n) + Renewal, Settled(n)'
      PROVE  CallOK(n, c)' /\ now' = now
             /\ \A m \in Nodes, d \in Callers :
                  ~(m = n /\ d = c) => call'[m][d] = call[m][d]
  BY <1>4, <1>6 DEF CallOK, Clock
\* The head the call read is none of another node's, or it has moved.
<1>7. ASSUME k.step = "read", now' = now,
             k.head = None \/ (k.head \in Subjects /\ lease[k.head].holder = n
                              /\ lease[k.head] # None)
      PROVE  Settled(n)'
  <2>1. k.head = HeadOf(n) => ~Foreign(n)
    BY <1>7 DEF Foreign
  <2>2. since[n] = Clock(n) \/ ~Foreign(n)
    BY <1>2, <1>7, <2>1
  <2> QED BY <1>3, <1>7, <2>2 DEF Noted, Settled, Clock
<1>8. CASE Read(n, c)
  <2>1. /\ call'[n][c].step = "read" /\ call'[n][c].head = HeadOf(n)
        /\ \A m \in Nodes, d \in Callers :
             ~(m = n /\ d = c) => call'[m][d] = call[m][d]
    BY <1>8 DEF Read, Inv, TypeOK
  <2>2. HeadOf(n)' = HeadOf(n) \/ since'[n] = Clock(n)'
    BY <1>3 DEF Noted
  <2> QED BY <1>8, <2>1, <2>2 DEF Read, CallOK
<1>9. CASE Solo(n, c)
  BY <1>5, <1>9 DEF Solo
<1>10. CASE First(n, c)
  <2>1. k.at + RenewBefore \in Nat /\ k.at + RenewBefore <= Clock(n) + Renewal
    BY <1>1, <1>2, <1>10, Times DEF First, Renewal
  <2> QED BY <1>6, <1>7, <1>10, <2>1 DEF First
<1>11. CASE Keep(n, c) \/ Renew(n, c)
  <2>1. /\ k.head \in Subjects /\ lease[k.head].holder = n /\ lease[k.head] # None
        /\ k.step = "read" /\ now' = now
    BY <1>1, <1>11 DEF Keep, Renew, Mine, Inv, TypeOK
  <2>2. k.expires <= Clock(n) + TTL
    BY <1>2, <2>1, LeaseAssumption DEF Within, Clock, Inv, TypeOK
  <2>3. CASE Keep(n, c)
    <3>1. RenewalPoint(k.expires) \in Nat /\ RenewalPoint(k.expires) <= Clock(n) + Renewal
      BY <1>1, <2>2, <2>3, Times DEF Keep, RenewalPoint, Renewal
    <3> QED BY <1>6, <1>7, <2>1, <2>3, <3>1 DEF Keep
  <2>4. CASE Renew(n, c)
    <3>1. RenewalPoint(k.at + TTL) \in Nat /\ RenewalPoint(k.at + TTL) <= Clock(n) + Renewal
      BY <1>1, <1>2, <2>1, Times DEF RenewalPoint, Renewal
    <3> QED BY <1>6, <1>7, <2>1, <2>4, <3>1 DEF Renew
  <2> QED BY <1>11, <2>3, <2>4
<1>12. CASE HeldElsewhere(n, c)
  BY <1>5, <1>12 DEF HeldElsewhere, Refuses
<1>13. CASE TakeOver(n, c)
  <2>1. RenewalPoint(k.at + TTL) \in Nat /\ RenewalPoint(k.at + TTL) <= Clock(n) + Renewal
    BY <1>1, <1>2, <1>13, Times DEF TakeOver, RenewalPoint, Renewal
  <2>2. HeadOf(n)' # k.head
    BY <1>13, TakeOverMovesHead DEF Inv
  <2>3. Settled(n)'
    <3>1. since'[n] = Clock(n)' \/ since[n] = Clock(n)
      BY <1>2, <1>3, <1>13, <2>2 DEF Noted, TakeOver
    <3> QED BY <1>3, <1>13, <3>1 DEF Noted, TakeOver, Settled, Clock
  <2> QED BY <1>6, <1>13, <2>1, <2>3 DEF TakeOver
<1>14. CASE Fails(n, c)
  BY <1>5, <1>14 DEF Fails
<1>15. CASE Remember(n, c)
  BY <1>5, <1>15 DEF Remember
<1> QED
  BY <1>8, <1>9, <1>10, <1>11, <1>12, <1>13, <1>14, <1>15 DEF Holds

LEMMA HoldsHeld ==
  ASSUME Inv, NEW n \in Nodes, NEW c \in Callers, Holds(n, c), NEW m \in Nodes
  PROVE  \/ held'[m] = held[m]
         \/ held'[m] = 0
         \/ now' = now /\ Settled(m) /\ held'[m] <= Clock(m) + Renewal
<1> DEFINE k == call[n][c]
<1>1. /\ k.at \in Nat /\ Clock(n) \in Nat
      /\ k.step # "idle" => k.at = Clock(n)
      /\ k.step = "read" => k.head = HeadOf(n) \/ since[n] = Clock(n)
      /\ k.step = "decided" => k.until <= Clock(n) + Renewal /\ Settled(n)
  BY Clocks DEF Inv, TypeOK, Call, Dated, Working, CallInv, CallOK
<1>2. \A x : [held EXCEPT ![n] = x][m] = IF m = n THEN x ELSE held[m]
  BY DEF Inv, TypeOK
<1>3. CASE Solo(n, c)
  <2>1. Settled(n)
    BY <1>1, <1>3 DEF Solo, Settled, Foreign
  <2>2. k.at + SoloRecheck <= Clock(n) + Renewal
    BY <1>1, <1>3, Times DEF Solo, Renewal
  <2> QED BY <1>2, <1>3, <2>1, <2>2 DEF Solo
<1>4. CASE Remember(n, c)
  BY <1>1, <1>2, <1>4 DEF Remember
<1>5. CASE HeldElsewhere(n, c) \/ Fails(n, c)
  BY <1>2, <1>5 DEF HeldElsewhere, Refuses, Fails
<1> QED
  BY <1>3, <1>4, <1>5 DEF Holds, Read, First, Keep, Renew, TakeOver

LEMMA InvNext == Inv /\ [Next]_vars => Inv'
<1> SUFFICES ASSUME Inv, [Next]_vars PROVE Inv'
  OBVIOUS
<1>1. /\ TypeOK' /\ Dated' /\ Grows
      /\ \A n \in Nodes : Noted(n)
  BY TypeNext, DatedNext, StepGrows, HeadsNoted DEF Inv
<1>2. ASSUME \A n \in Nodes :
               \/ held'[n] = held[n]
               \/ held'[n] = 0
               \/ now' = now /\ Settled(n) /\ held'[n] <= Clock(n) + Renewal
      PROVE  HeldInv'
  BY <1>1, <1>2, HeldKept DEF HeldInv, HeldOK
<1>3. ASSUME now' = now,
             \A n \in Nodes, c \in Callers :
               call'[n][c] = call[n][c] \/ call'[n][c].step = "idle"
      PROVE  CallInv'
  BY <1>1, <1>3, CallKept DEF CallInv, CallOK
<1>4. CASE UNCHANGED vars
  BY <1>1, <1>2, <1>3, <1>4 DEF vars, Inv
<1>5. ASSUME NEW n \in Nodes, NEW c \in Callers, Holds(n, c) PROVE Inv'
  <2>1. HeldInv'
    BY <1>2, <1>5, HoldsHeld
  <2>2. /\ CallOK(n, c)' /\ now' = now
        /\ \A m \in Nodes, d \in Callers :
             ~(m = n /\ d = c) => call'[m][d] = call[m][d]
    BY <1>1, <1>5, HoldsCall
  <2>3. CallInv'
    <3> SUFFICES ASSUME NEW m \in Nodes, NEW d \in Callers PROVE CallOK(m, d)'
      BY DEF CallInv, CallOK
    <3>1. CASE m = n /\ d = c
      BY <2>2, <3>1
    <3>2. CASE ~(m = n /\ d = c)
      BY <1>1, <2>2, <3>2, CallKept DEF CallOK
    <3> QED BY <3>1, <3>2
  <2> QED BY <1>1, <2>1, <2>3 DEF Inv
<1>6. ASSUME NEW m \in Nodes, NEW n \in Nodes, NEW s \in Subjects, Sync(m, n, s) PROVE Inv'
  BY <1>1, <1>2, <1>3, <1>6 DEF Sync, Inv
<1>7. ASSUME NEW n \in Nodes, LearnPeer(n) PROVE Inv'
  BY <1>1, <1>2, <1>3, <1>7 DEF LearnPeer, Inv
<1>8. ASSUME NEW n \in Nodes, Restart(n) PROVE Inv'
  <2>1. \A m \in Nodes : held'[m] = held[m] \/ held'[m] = 0
    BY <1>8 DEF Restart, Inv, TypeOK
  <2>2. \A m \in Nodes, c \in Callers :
          call'[m][c] = call[m][c] \/ call'[m][c].step = "idle"
    BY <1>8 DEF Restart, Idle, Inv, TypeOK
  <2> QED BY <1>1, <1>2, <1>3, <1>8, <2>1, <2>2 DEF Restart, Inv
<1>9. CASE Tick
  <2>1. HeldInv'
    BY <1>2, <1>9 DEF Tick
  <2>2. CallInv'
    BY <1>9 DEF Tick, CallInv, CallOK
  <2> QED BY <1>1, <2>1, <2>2 DEF Inv
<1> QED
  BY <1>4, <1>5, <1>6, <1>7, <1>8, <1>9 DEF Next

LEMMA InvInit == Init => Inv
<1> SUFFICES ASSUME Init PROVE Inv
  OBVIOUS
<1>1. TypeOK /\ Dated
  BY TypeInit, DatedInit
<1>2. \A n \in Nodes, c \in Callers : call[n][c].step = "idle"
  BY DEF Init, Idle
<1>3. CallInv
  BY <1>2 DEF CallInv, CallOK
<1>4. ASSUME NEW n \in Nodes PROVE HeldOK(n)
  <2>1. since[n] = 0 /\ held[n] = 0 /\ Renewal \in Nat
    BY Times DEF Init, Renewal
  <2> QED BY <1>1, <2>1, Clocks DEF HeldOK
<1> QED
  BY <1>1, <1>3, <1>4 DEF Inv, HeldInv

\* Once a node's own leases name another holder it stops within TTL minus
\* RENEW_BEFORE_MS of its own clock, for any number of nodes, leases and tasks of a
\* node, whatever arrives while it decides (lease.rs:24, :209, :253).
THEOREM Overlap == Spec => []BoundedOverlap
<1>1. Inv => BoundedOverlap
  <2> SUFFICES ASSUME Inv, NEW n \in Nodes, Clock(n) < held[n], Foreign(n)
               PROVE  Clock(n) < since[n] + Renewal
    BY DEF BoundedOverlap, Runs, Foreign, Renewal
  <2>1. held[n] <= since[n] + Renewal
    BY DEF Inv, HeldInv, HeldOK
  <2>2. Clock(n) \in Nat /\ held[n] \in Nat /\ since[n] \in Nat /\ Renewal \in Nat
    BY Clocks, Times DEF Inv, TypeOK, Renewal
  <2> QED BY <2>1, <2>2
<1> QED
  BY <1>1, InvInit, InvNext, PTL DEF Spec

-----------------------------------------------------------------------------
(* A takeover finds that the holder has stopped *)

\* Rank is a strict order.
LEMMA RankOrder ==
  ASSUME TypeOK, NEW a \in Subjects, NEW b \in Subjects, NEW c \in Subjects,
         lease[a] # None, lease[b] # None, lease[c] # None
  PROVE  /\ Outranks(a, b) /\ Outranks(b, c) => Outranks(a, c)
         /\ ~(Outranks(a, b) /\ Outranks(b, a))
<1>1. \A x \in {a, b, c} : /\ x \in Nat /\ lease[x].generation \in Nat
                           /\ lease[x].holder \in Nat
  BY Signed, LeaseAssumption DEF Lease
<1> QED
  BY <1>1 DEF Outranks

RankTransitive ==
  \A a, b, c \in Subjects :
    lease[a] # None /\ lease[b] # None /\ lease[c] # None
    => (Outranks(a, b) /\ Outranks(b, c) => Outranks(a, c))

HeadsSigned ==
  \A n \in Nodes : HeadOf(n) # None =>
    /\ HeadOf(n) \in Subjects /\ db[n][HeadOf(n)] \in Nat
    /\ lease[HeadOf(n)] # None

LEMMA HeadFacts == TypeOK => RankTransitive /\ HeadsSigned
<1> SUFFICES ASSUME TypeOK PROVE RankTransitive /\ HeadsSigned
  OBVIOUS
<1>1. RankTransitive
  BY RankOrder DEF RankTransitive
<1>2. HeadsSigned
  BY HeadIs DEF HeadsSigned
<1> QED
  BY <1>1, <1>2

LEMMA HeadFactsNext == TypeOK' => RankTransitive' /\ HeadsSigned'
<1>1. (TypeOK => RankTransitive /\ HeadsSigned)'
  BY HeadFacts, PTL
<1> QED
  BY <1>1

LEMMA RankOrderNext ==
  ASSUME TypeOK', NEW a \in Subjects, NEW b \in Subjects, NEW c \in Subjects,
         lease'[a] # None, lease'[b] # None, lease'[c] # None
  PROVE  Outranks(a, b)' /\ Outranks(b, c)' => Outranks(a, c)'
BY HeadFactsNext DEF RankTransitive

LEMMA HeadIsNext ==
  ASSUME TypeOK', NEW n \in Nodes, HeadOf(n)' # None
  PROVE  /\ HeadOf(n)' \in Subjects /\ db'[n][HeadOf(n)'] \in Nat
         /\ lease'[HeadOf(n)'] # None
BY HeadFactsNext DEF HeadsSigned

\* The head of n is s or outranks it.
Above(n, s) == HeadOf(n) # None /\ (HeadOf(n) = s \/ Outranks(HeadOf(n), s))

\* A node whose head was never destroyed keeps to the highest lease it wrote.
OwnBelow(n) ==
  \A s \in Subjects : lease[s] # None /\ lease[s].holder = n => Above(n, s)

OwnHead(n) == HeadOf(n) # None /\ lease[HeadOf(n)].holder = n

\* A verdict until u ends before the node's own head runs out.
Covers(n, u) == OwnHead(n) => u + RenewBefore <= db[n][HeadOf(n)]

\* While a call decides, the head it read is the head still, or what this node
\* wrote meanwhile is good for a lease from now.
CallCovers(n, c) ==
  LET k == call[n][c] IN
  /\ k.head # None => Above(n, k.head)
  /\ OwnHead(n) => HeadOf(n) = k.head \/ db[n][HeadOf(n)] >= k.at + TTL
  /\ k.step = "read" /\ k.head # None /\ HeadOf(n) = k.head =>
       k.expires <= db[n][k.head]
  /\ k.step = "decided" => Covers(n, k.until)

Keeper(n) ==
  /\ OwnBelow(n) /\ Covers(n, held[n])
  /\ \A c \in Callers : call[n][c].step # "idle" => CallCovers(n, c)

StopInv == \A n \in Nodes \ lost : Keeper(n)

LEMMA LostNoted ==
  ASSUME TypeOK, [Next]_vars
  PROVE  /\ lost \subseteq lost'
         /\ \A n \in Nodes \ lost' :
              HeadOf(n) # None => db'[n][HeadOf(n)] # Gone
<1>1. CASE UNCHANGED <<db, lost>>
  BY <1>1, HeadIs, LeaseAssumption
<1>2. CASE NoteHeads
  <2>1. lost' = lost \cup {n \in Nodes : HeadOf(n) # None /\ db'[n][HeadOf(n)] = Gone}
    BY <1>2 DEF NoteHeads
  <2> QED BY <2>1, Zenon
<1>3. ASSUME NEW n \in Nodes, NEW c \in Callers, Holds(n, c)
      PROVE  UNCHANGED <<db, lost>> \/ NoteHeads
  BY <1>3 DEF Holds, Read, Solo, First, Keep, Renew, HeldElsewhere, TakeOver,
     Fails, Remember
<1> QED
  BY <1>1, <1>2, <1>3 DEF Next, vars, Sync, LearnPeer, Restart, Tick

\* What a step does to a copy of a lease.
LEMMA CopyMoves ==
  ASSUME TypeOK, Dated, [Next]_vars,
         NEW n \in Nodes, NEW s \in Subjects, db[n][s] \in Nat
  PROVE  db'[n][s] = Gone \/ (db'[n][s] \in Nat /\ db'[n][s] >= db[n][s])
<1> DEFINE Goal == db'[n][s] = Gone \/ (db'[n][s] \in Nat /\ db'[n][s] >= db[n][s])
<1>1. CASE UNCHANGED db
  BY <1>1
<1>2. lease[s] # None
  BY LeaseAssumption DEF TypeOK
<1>3. ASSUME NEW m \in Nodes, NEW c \in Callers, NEW g, Writes(m, c, g) PROVE Goal
  <2>1. PICK t \in Subjects :
          /\ lease[t] = None /\ db' = [db EXCEPT ![m][t] = call[m][c].at + TTL]
    BY <1>3 DEF Writes
  <2>2. db'[n][s] = db[n][s]
    BY <1>2, <2>1 DEF TypeOK
  <2> QED BY <2>2
<1>4. ASSUME NEW m \in Nodes, NEW c \in Callers, Renew(m, c) PROVE Goal
  <2> DEFINE k == call[m][c]
  <2>1. /\ k.at = Clock(m) /\ lease[k.head].holder = m
        /\ db' = [db EXCEPT ![m][k.head] = k.at + TTL]
    BY <1>4 DEF Renew, Mine, Dated, Working
  <2>2. CASE m = n /\ k.head = s
    <3>1. db'[n][s] = now + Skew[n] + TTL
      BY <2>1, <2>2 DEF TypeOK, Clock
    <3>2. db[n][s] <= now + Skew[n] + TTL
      BY <2>1, <2>2 DEF Dated, Copies, Within
    <3>3. now + Skew[n] + TTL \in Nat
      BY Clocks, Times DEF TypeOK
    <3> QED BY <3>1, <3>2, <3>3
  <2>3. CASE ~(m = n /\ k.head = s)
    <3>1. db'[n][s] = db[n][s]
      BY <2>1, <2>3 DEF TypeOK
    <3> QED BY <3>1
  <2> QED BY <2>2, <2>3
<1>5. ASSUME NEW m \in Nodes, NEW c \in Callers, Remember(m, c) PROVE Goal
  <2>1. PICK collected \in SUBSET call[m][c].old :
          db' = [db EXCEPT ![m] = [t \in Subjects |->
                   IF t \in collected /\ db[m][t] \in Nat THEN Gone ELSE db[m][t]]]
    BY <1>5 DEF Remember
  <2>2. db'[n][s] = db[n][s] \/ db'[n][s] = Gone
    BY <2>1 DEF TypeOK
  <2> QED BY <2>2
<1>6. ASSUME NEW l \in Nodes, NEW m \in Nodes, NEW t \in Subjects, Sync(l, m, t)
      PROVE  Goal
  <2>1. PICK copy \in Received(db[m][t], db[l][t]) : db' = [db EXCEPT ![m][t] = copy]
    BY <1>6 DEF Sync
  <2>2. CASE m = n /\ t = s
    <3>1. db'[n][s] = copy
      BY <2>1, <2>2 DEF TypeOK
    <3>2. db[l][s] \in Nat \/ db[l][s] = Gone
      BY <1>6, <2>2 DEF Sync, TypeOK
    <3> QED BY <2>1, <2>2, <3>1, <3>2, LeaseAssumption DEF Received
  <2>3. CASE ~(m = n /\ t = s)
    <3>1. db'[n][s] = db[n][s]
      BY <2>1, <2>3 DEF TypeOK
    <3> QED BY <3>1
  <2> QED BY <2>2, <2>3
<1>7. ASSUME NEW m \in Nodes, NEW c \in Callers, Holds(m, c) PROVE Goal
  BY <1>1, <1>3, <1>4, <1>5, <1>7 DEF Holds, Read, Solo, First, Keep, HeldElsewhere,
     TakeOver, Fails
<1> QED
  BY <1>1, <1>6, <1>7 DEF Next, vars, LearnPeer, Restart, Tick

\* A step's facts, and that somebody's head was never destroyed.
Steady(n) ==
  /\ Inv /\ Inv' /\ Grows /\ [Next]_vars
  /\ n \in Nodes /\ n \notin lost' /\ OwnBelow(n)

\* What a node has counts, once it counted.
LEMMA CountedNext ==
  ASSUME Inv', NEW n \in Nodes, NEW s \in Subjects, db'[n][s] \in Nat
  PROVE  Above(n, s)'
<1>1. PlausibleGenerations'
  BY PlausibleNext DEF Inv
<1>2. s \in Counted(n)'
  BY <1>1 DEF PlausibleGenerations, Counted
<1>3. HeadWins(n)'
  BY HeadExistsNext DEF Inv
<1>4. Counted(n)' # {} /\ HeadOf(n)' \in Counted(n)'
  BY <1>2, <1>3 DEF HeadWins
<1>5. HeadOf(n)' # None
  BY <1>4, LeaseAssumption DEF Counted
<1>6. HeadOf(n)' = s \/ Outranks(HeadOf(n), s)'
  BY <1>2, <1>3, <1>4 DEF HeadWins
<1> QED
  BY <1>5, <1>6 DEF Above

\* The head only rises, and its expiry with it.
LEMMA HeadRises ==
  ASSUME NEW n \in Nodes, Steady(n), NEW h \in Subjects, HeadOf(n) = h
  PROVE  Above(n, h)' /\ db'[n][h] >= db[n][h]
<1>1. TypeOK /\ Dated /\ [Next]_vars
  BY DEF Steady, Inv
<1>2. h # None
  BY LeaseAssumption
<1>3. db[n][h] \in Nat
  BY <1>1, <1>2, HeadIs
<1>4. db'[n][h] # Gone
  BY <1>1, <1>2, LostNoted DEF Steady
<1>5. db'[n][h] \in Nat /\ db'[n][h] >= db[n][h]
  BY <1>1, <1>3, <1>4, CopyMoves
<1> QED
  BY <1>5, CountedNext DEF Steady

LEMMA AboveStays ==
  ASSUME NEW n \in Nodes, Steady(n), NEW s \in Subjects, lease[s] # None, Above(n, s)
  PROVE  Above(n, s)'
<1>1. TypeOK /\ TypeOK' /\ Grows
  BY DEF Steady, Inv
<1>2. PICK h \in Subjects : h = HeadOf(n) /\ lease[h] # None
  BY <1>1, HeadIs DEF Above
<1>3. Above(n, h)'
  BY <1>2, HeadRises
<1>4. PICK g \in Subjects : g = HeadOf(n)' /\ lease'[g] # None
  <2>1. HeadOf(n)' # None
    BY <1>3 DEF Above
  <2>2. (HeadOf(n) # None => HeadOf(n) \in Subjects /\ lease[HeadOf(n)] # None)'
    BY <1>1, HeadIsNext
  <2> QED BY <2>1, <2>2
<1>5. g = h \/ Outranks(g, h)'
  BY <1>3, <1>4 DEF Above
<1>6. h = s \/ Outranks(h, s)'
  <2>1. h = s \/ Outranks(h, s)
    BY <1>2 DEF Above
  <2>2. lease'[h] = lease[h] /\ lease'[s] = lease[s]
    BY <1>1, <1>2 DEF Grows
  <2> QED BY <2>1, <2>2 DEF Outranks
<1>7. g = s \/ Outranks(g, s)'
  <2>1. lease'[s] # None /\ lease'[h] # None
    BY <1>1, <1>2 DEF Grows
  <2>2. Outranks(g, h)' /\ Outranks(h, s)' => Outranks(g, s)'
    BY <1>1, <1>4, <2>1, RankOrderNext
  <2> QED BY <1>5, <1>6, <2>2
<1> QED
  BY <1>4, <1>7, LeaseAssumption DEF Above

\* A lease of one's own appears only by one's own call, good for a lease.
LEMMA OwnWrites ==
  ASSUME Inv, [Next]_vars, NEW n \in Nodes, NEW s \in Subjects,
         lease[s] = None, lease'[s] # None, lease'[s].holder = n
  PROVE  db'[n][s] = Clock(n) + TTL /\ now' = now
<1>1. TypeOK /\ Dated
  BY DEF Inv
<1>2. PICK m \in Nodes, c \in Callers : First(m, c) \/ TakeOver(m, c)
  BY DEF Next, vars, Holds, Read, Solo, Keep, Renew, HeldElsewhere, Fails, Remember,
     Sync, LearnPeer, Restart, Tick
<1>3. PICK g : Writes(m, c, g)
  BY <1>2 DEF First, TakeOver
<1>4. now' = now /\ call[m][c].at = Clock(m)
  BY <1>1, <1>2 DEF First, TakeOver, Dated, Working
<1>5. PICK t \in Subjects :
        /\ lease' = [lease EXCEPT ![t] = [holder |-> m, generation |-> g]]
        /\ db' = [db EXCEPT ![m][t] = call[m][c].at + TTL]
  BY <1>3 DEF Writes
<1>6. t = s /\ m = n
  BY <1>1, <1>5 DEF TypeOK
<1> QED
  BY <1>1, <1>4, <1>5, <1>6 DEF TypeOK

\* An own lease at the head was there before, renewed since or not, or is new.
LEMMA OwnHeadMoves ==
  ASSUME NEW n \in Nodes, Steady(n), NEW g \in Subjects, g = HeadOf(n)',
         lease'[g].holder = n
  PROVE  \/ HeadOf(n) = g /\ OwnHead(n) /\ db'[n][g] >= db[n][g]
         \/ lease[g] = None /\ db'[n][g] = Clock(n) + TTL /\ now' = now
<1>1. TypeOK /\ TypeOK' /\ Grows /\ Inv /\ [Next]_vars
  BY DEF Steady, Inv
<1>2. g # None /\ lease'[g] # None
  <2>1. (HeadOf(n) # None => HeadOf(n) \in Subjects /\ lease[HeadOf(n)] # None)'
    BY <1>1, HeadIsNext
  <2> QED BY <2>1, LeaseAssumption
<1>3. CASE lease[g] = None
  BY <1>1, <1>2, <1>3, OwnWrites
<1>4. CASE lease[g] # None
  <2>1. lease'[g] = lease[g]
    BY <1>1, <1>4 DEF Grows
  <2>2. Above(n, g)
    BY <1>4, <2>1 DEF Steady, OwnBelow
  <2>3. PICK h \in Subjects : h = HeadOf(n) /\ lease[h] # None /\ h # None
    BY <1>1, <2>2, HeadIs DEF Above
  <2>4. Above(n, h)' /\ db'[n][h] >= db[n][h]
    BY <2>3, HeadRises
  <2>5. g = h \/ Outranks(g, h)'
    BY <2>4 DEF Above
  <2>6. h = g \/ Outranks(h, g)
    BY <2>2, <2>3 DEF Above
  <2>7. Outranks(g, h)' => Outranks(g, h)
    BY <1>1, <2>1, <2>3 DEF Outranks, Grows
  <2>8. g = h
    BY <1>1, <1>4, <2>3, <2>5, <2>6, <2>7, RankOrder
  <2> QED BY <2>1, <2>3, <2>4, <2>8 DEF OwnHead
<1> QED
  BY <1>3, <1>4

LEMMA OwnBelowStays ==
  ASSUME NEW n \in Nodes, Steady(n)
  PROVE  OwnBelow(n)'
<1>1. TypeOK /\ TypeOK' /\ Grows /\ Inv /\ Inv' /\ [Next]_vars
  BY DEF Steady, Inv
<1> SUFFICES ASSUME NEW s \in Subjects, lease'[s] # None, lease'[s].holder = n
             PROVE  Above(n, s)'
  BY DEF OwnBelow
<1>2. CASE lease[s] = None
  <2>1. db'[n][s] = Clock(n) + TTL /\ Clock(n) + TTL \in Nat
    BY <1>1, <1>2, OwnWrites, Clocks, Times
  <2> QED BY <1>1, <2>1, CountedNext
<1>3. CASE lease[s] # None
  <2>1. Above(n, s)
    BY <1>1, <1>3 DEF Steady, OwnBelow, Grows
  <2> QED BY <1>3, <2>1, AboveStays
<1> QED
  BY <1>2, <1>3

\* A verdict that was covered stays so: a later head of one's own is good for a
\* lease, and no verdict is cached for longer than that less a renewal.
LEMMA CoversStays ==
  ASSUME NEW n \in Nodes, Steady(n), NEW u \in Nat, Covers(n, u),
         u <= Clock(n) + Renewal
  PROVE  Covers(n, u)'
<1>1. TypeOK /\ TypeOK'
  BY DEF Steady, Inv
<1> SUFFICES ASSUME OwnHead(n)' PROVE u + RenewBefore <= db'[n][HeadOf(n)']
  BY DEF Covers
<1>2. PICK g \in Subjects : g = HeadOf(n)' /\ lease'[g].holder = n /\ db'[n][g] \in Nat
  <2>1. (HeadOf(n) # None => HeadOf(n) \in Subjects /\ db[n][HeadOf(n)] \in Nat)'
    BY <1>1, HeadIsNext
  <2> QED BY <2>1 DEF OwnHead
<1>3. CASE HeadOf(n) = g /\ OwnHead(n) /\ db'[n][g] >= db[n][g]
  <2>1. u + RenewBefore <= db[n][g] /\ db[n][g] \in Nat
    BY <1>1, <1>3, HeadIs DEF Covers, OwnHead
  <2> QED BY <1>2, <1>3, <2>1, Times
<1>4. CASE db'[n][g] = Clock(n) + TTL
  BY <1>1, <1>2, <1>4, Times, Clocks DEF Renewal
<1> QED
  BY <1>2, <1>3, <1>4, OwnHeadMoves

\* What a call's decision must show.
LEMMA CallCoversNext ==
  ASSUME NEW n \in Nodes, NEW c \in Callers, Steady(n), now' = now,
         call[n][c].step # "idle", CallCovers(n, c),
         call'[n][c].head = call[n][c].head, call'[n][c].at = call[n][c].at,
         call'[n][c].step = "read" =>
           call[n][c].step = "read" /\ call'[n][c].expires = call[n][c].expires,
         NEW u, u = call'[n][c].until,
         call'[n][c].step = "decided" => Covers(n, u)'
  PROVE  CallCovers(n, c)'
<1> DEFINE k == call[n][c]
<1>1. TypeOK /\ TypeOK' /\ Grows
  BY DEF Steady, Inv
<1>2. /\ k.at = Clock(n) /\ k.at \in Nat /\ k.expires \in Nat
      /\ k.head # None => k.head \in Subjects /\ lease[k.head] # None
  BY DEF Steady, Inv, Dated, Working, TypeOK, Call
<1>3. ASSUME NEW h \in Subjects, h = k.head PROVE Above(n, h)'
  BY <1>2, <1>3, AboveStays, LeaseAssumption DEF CallCovers
<1>4. (k.head # None => Above(n, k.head))'
  <2>1. PICK h : h = k.head /\ call'[n][c].head = h
    OBVIOUS
  <2>2. h # None => Above(n, h)'
    BY <1>2, <1>3, <2>1
  <2> QED BY <2>1, <2>2 DEF Above
<1>7. (k.step = "decided" => Covers(n, k.until))'
  <2>1. k.step' = "decided" => u = k.until' /\ Covers(n, u)'
    OBVIOUS
  <2> QED BY <2>1 DEF Covers
<1>5. ASSUME OwnHead(n)'
      PROVE  HeadOf(n)' = k.head \/ db'[n][HeadOf(n)'] >= k.at + TTL
  <2>1. PICK g \in Subjects : g = HeadOf(n)' /\ lease'[g].holder = n /\ db'[n][g] \in Nat
    <3>1. (HeadOf(n) # None => HeadOf(n) \in Subjects /\ db[n][HeadOf(n)] \in Nat)'
      BY <1>1, HeadIsNext
    <3> QED BY <1>5, <3>1 DEF OwnHead
  <2>2. CASE HeadOf(n) = g /\ OwnHead(n) /\ db'[n][g] >= db[n][g]
    <3>1. db[n][g] \in Nat
      BY <1>1, <2>2, HeadIs DEF OwnHead
    <3>2. g = k.head \/ db[n][g] >= k.at + TTL
      BY <2>2 DEF CallCovers
    <3> QED BY <1>2, <2>1, <2>2, <3>1, <3>2, Times
  <2>3. CASE db'[n][g] = Clock(n) + TTL
    BY <1>2, <2>1, <2>3, Times
  <2> QED BY <2>1, <2>2, <2>3, OwnHeadMoves
<1>6. ASSUME k.step = "read", k.head # None, HeadOf(n)' = k.head
      PROVE  k.expires <= db'[n][k.head]
  <2>1. PICK h \in Subjects : h = k.head /\ lease[h] # None
    BY <1>2, <1>6
  <2>2. PICK g \in Subjects : g = HeadOf(n) /\ lease[g] # None /\ db[n][g] \in Nat
    BY <1>1, <1>6, HeadIs DEF CallCovers, Above
  <2>3. Above(n, g)' /\ db'[n][g] >= db[n][g]
    BY <2>2, HeadRises
  <2>4. g = h
    <3>1. g = h \/ Outranks(g, h)
      BY <1>6, <2>1, <2>2 DEF CallCovers, Above
    <3>2. h = g \/ Outranks(h, g)'
      BY <1>6, <2>1, <2>3 DEF Above
    <3>3. Outranks(h, g)' => Outranks(h, g)
      BY <1>1, <2>1, <2>2 DEF Outranks, Grows
    <3> QED BY <1>1, <2>1, <2>2, <3>1, <3>2, <3>3, RankOrder
  <2>5. k.expires <= db[n][g]
    BY <1>6, <2>1, <2>2, <2>4 DEF CallCovers
  <2>6. db'[n][g] \in Nat
    BY <1>1, <1>6, <2>1, <2>4, HeadIsNext, LeaseAssumption
  <2> QED BY <1>2, <2>1, <2>2, <2>3, <2>4, <2>5, <2>6
<1>8. (OwnHead(n) => HeadOf(n) = k.head \/ db[n][HeadOf(n)] >= k.at + TTL)'
  BY <1>5
<1>9. (k.step = "read" /\ k.head # None /\ HeadOf(n) = k.head => k.expires <= db[n][k.head])'
  BY <1>6
<1> QED
  BY <1>4, <1>7, <1>8, <1>9 DEF CallCovers

\* A call that decides, and what its verdict rests on.
LEMMA CallDecides ==
  ASSUME NEW n \in Nodes, NEW c \in Callers, Steady(n), now' = now,
         call[n][c].step = "read", CallCovers(n, c), NEW u \in Nat, Decides(n, c, u),
         u + RenewBefore <= Clock(n) + TTL,
         NEW h, h = call[n][c].head,
         HeadOf(n) = h /\ OwnHead(n) /\ HeadOf(n)' = h => u + RenewBefore <= db'[n][h]
  PROVE  CallCovers(n, c)'
<1> DEFINE k == call[n][c]
<1>1. TypeOK /\ TypeOK'
  BY DEF Steady, Inv
<1>2. k.at = Clock(n) /\ k.at \in Nat
  BY DEF Steady, Inv, Dated, Working, TypeOK, Call
<1>3. /\ call'[n][c].head = k.head /\ call'[n][c].at = k.at
      /\ call'[n][c].step = "decided" /\ call'[n][c].until = u
  BY <1>1 DEF Decides, TypeOK, Call
<1>4. Covers(n, u)'
  <2> SUFFICES ASSUME OwnHead(n)' PROVE u + RenewBefore <= db'[n][HeadOf(n)']
    BY DEF Covers
  <2>1. PICK g \in Subjects : g = HeadOf(n)' /\ lease'[g].holder = n /\ db'[n][g] \in Nat
    BY <1>1, HeadIsNext DEF OwnHead
  <2>2. CASE HeadOf(n) = g /\ OwnHead(n) /\ db'[n][g] >= db[n][g]
    <3>1. db[n][g] \in Nat
      BY <1>1, <2>2, HeadIs DEF OwnHead
    <3>2. CASE g = h
      BY <2>1, <2>2, <3>2
    <3>3. CASE db[n][g] >= k.at + TTL
      BY <1>2, <2>1, <2>2, <3>1, <3>3, Times
    <3> QED BY <2>2, <3>2, <3>3 DEF CallCovers
  <2>3. CASE db'[n][g] = Clock(n) + TTL
    BY <2>1, <2>3
  <2> QED BY <2>1, <2>2, <2>3, OwnHeadMoves
<1> QED
  BY <1>3, <1>4, CallCoversNext

LEMMA HoldsCovers ==
  ASSUME NEW n \in Nodes, NEW c \in Callers, Steady(n), Keeper(n), Holds(n, c),
         call'[n][c].step # "idle"
  PROVE  CallCovers(n, c)'
<1> DEFINE k == call[n][c]
<1>1. TypeOK /\ TypeOK' /\ Dated
  BY DEF Steady, Inv
<1>2. /\ k.step # "idle" => k.at = Clock(n)
      /\ k.step = "read" /\ k.head # None => Within(lease[k.head], now, k.expires)
      /\ k.at \in Nat /\ k.expires \in Nat /\ k.head \in Subjects \cup {None}
      /\ Clock(n) \in Nat
  BY <1>1, Clocks DEF Dated, Working, TypeOK, Call
<1>3. k.step # "idle" => CallCovers(n, c)
  BY DEF Keeper
<1>4. CASE Read(n, c)
  <2>1. /\ call'[n][c].step = "read" /\ call'[n][c].head = HeadOf(n)
        /\ HeadOf(n) # None => call'[n][c].expires = db[n][HeadOf(n)]
        /\ HeadOf(n)' = HeadOf(n) /\ UNCHANGED <<lease, db>>
    <3>1. /\ call'[n][c].step = "read" /\ call'[n][c].head = HeadOf(n)
          /\ HeadOf(n) # None => call'[n][c].expires = db[n][HeadOf(n)]
      BY <1>1, <1>4 DEF Read, TypeOK
    <3>2. HeadOf(n)' = HeadOf(n) /\ UNCHANGED <<lease, db>>
      BY <1>4 DEF Read, HeadOf, Head, Outranks, Counted, Clock
    <3> QED BY <3>1, <3>2
  <2>2. HeadOf(n) # None => db[n][HeadOf(n)] \in Nat
    BY <1>1, HeadIs
  <2> QED BY <2>1, <2>2 DEF CallCovers, Above
<1>5. CASE First(n, c)
  <2>1. /\ k.step = "read" /\ now' = now /\ Decides(n, c, k.at + RenewBefore)
        /\ k.head = None
    BY <1>5 DEF First
  <2>2. k.at + RenewBefore \in Nat /\ (k.at + RenewBefore) + RenewBefore <= Clock(n) + TTL
    BY <1>2, <2>1, LeaseAssumption
  <2> QED BY <1>3, <2>1, <2>2, CallDecides DEF OwnHead
<1>6. CASE Keep(n, c)
  <2>1. /\ k.step = "read" /\ now' = now /\ Decides(n, c, RenewalPoint(k.expires))
        /\ k.head # None /\ lease[k.head].holder = n /\ k.expires > k.at + RenewBefore
        /\ db' = db
    BY <1>6 DEF Keep, Mine
  <2>2. k.expires <= Clock(n) + TTL
    BY <1>1, <1>2, <2>1, Times, LeaseAssumption DEF Within, Clock, TypeOK
  <2>3. RenewalPoint(k.expires) \in Nat /\ RenewalPoint(k.expires) + RenewBefore = k.expires
    BY <1>2, <2>1, Times DEF RenewalPoint
  <2>4. HeadOf(n) = k.head => k.expires <= db'[n][k.head]
    BY <1>3, <2>1 DEF CallCovers
  <2> QED BY <1>3, <2>1, <2>2, <2>3, <2>4, CallDecides
<1>7. CASE Renew(n, c)
  <2>1. /\ k.step = "read" /\ now' = now /\ Decides(n, c, RenewalPoint(k.at + TTL))
        /\ k.head \in Subjects /\ db'[n][k.head] = k.at + TTL
    BY <1>1, <1>2, <1>7 DEF Renew, Mine, TypeOK
  <2>2. /\ RenewalPoint(k.at + TTL) \in Nat
        /\ RenewalPoint(k.at + TTL) + RenewBefore = k.at + TTL
    BY <1>2, Times DEF RenewalPoint
  <2>3. k.at + TTL \in Nat /\ k.at + TTL = Clock(n) + TTL
    BY <1>2, <2>1, Times
  <2>4. /\ RenewalPoint(k.at + TTL) + RenewBefore <= Clock(n) + TTL
        /\ RenewalPoint(k.at + TTL) + RenewBefore <= k.at + TTL
    BY <2>2, <2>3
  <2>5. k.step # "idle"
    BY <2>1
  <2> QED BY <1>3, <2>1, <2>2, <2>4, <2>5, CallDecides
<1>8. CASE TakeOver(n, c)
  <2>1. /\ k.step = "read" /\ now' = now /\ Decides(n, c, RenewalPoint(k.at + TTL))
        /\ k.head # None /\ lease[k.head].holder # n
    BY <1>8 DEF TakeOver, Theirs
  <2>2. /\ RenewalPoint(k.at + TTL) \in Nat
        /\ RenewalPoint(k.at + TTL) + RenewBefore = k.at + TTL
    BY <1>2, Times DEF RenewalPoint
  <2>3. k.at + TTL \in Nat /\ k.at + TTL = Clock(n) + TTL
    BY <1>2, <2>1, Times
  <2>4. /\ RenewalPoint(k.at + TTL) + RenewBefore <= Clock(n) + TTL
        /\ RenewalPoint(k.at + TTL) + RenewBefore <= k.at + TTL
    BY <2>2, <2>3
  <2>5. k.step # "idle"
    BY <2>1
  <2> QED BY <1>3, <2>1, <2>2, <2>4, <2>5, CallDecides DEF OwnHead
<1>9. CASE Solo(n, c) \/ HeldElsewhere(n, c) \/ Fails(n, c) \/ Remember(n, c)
  BY <1>1, <1>9 DEF Solo, HeldElsewhere, Refuses, Fails, Remember, Idle, TypeOK
<1> QED
  BY <1>4, <1>5, <1>6, <1>7, <1>8, <1>9 DEF Holds

\* No verdict is covered by any lease.
LEMMA CoversNone ==
  ASSUME TypeOK, Dated, NEW n \in Nodes
  PROVE  Covers(n, 0)
<1> SUFFICES ASSUME OwnHead(n) PROVE 0 + RenewBefore <= db[n][HeadOf(n)]
  BY DEF Covers
<1>1. PICK h \in Subjects : h = HeadOf(n) /\ db[n][h] \in Nat /\ lease[h] \in Lease
  BY HeadIs DEF OwnHead
<1>2. Began(lease[h]) \in Nat /\ Began(lease[h]) + TTL <= db[n][h]
  BY <1>1, LeaseFields DEF Dated, Copies, Within
<1> QED
  BY <1>1, <1>2, Times

\* Where a cached verdict comes from.
LEMMA HoldsHeldCovered ==
  ASSUME NEW n \in Nodes, NEW c \in Callers, Steady(n), Keeper(n), Holds(n, c)
  PROVE  Covers(n, held'[n]) /\ held'[n] <= Clock(n) + Renewal
<1> DEFINE k == call[n][c]
<1>1. TypeOK /\ Dated
  BY DEF Steady, Inv
<1>2. /\ k.step # "idle" => k.at = Clock(n) /\ CallCovers(n, c)
      /\ k.at \in Nat /\ k.until \in Nat /\ Clock(n) \in Nat
  BY <1>1, Clocks DEF Keeper, Dated, Working, TypeOK, Call
<1>3. Covers(n, 0)
  BY <1>1, CoversNone
<1>4. \A x : [held EXCEPT ![n] = x][n] = x
  BY <1>1 DEF TypeOK
<1>5. held[n] \in Nat /\ Covers(n, held[n]) /\ held[n] <= Clock(n) + Renewal
      /\ Renewal \in Nat
  BY <1>1, Times DEF Keeper, Steady, Inv, HeldInv, HeldOK, TypeOK, Renewal
<1>6. CASE Solo(n, c)
  <2>1. held'[n] = k.at + SoloRecheck /\ k.step = "read" /\ k.head = None
    BY <1>4, <1>6 DEF Solo
  <2>2. k.at + SoloRecheck <= Clock(n) + Renewal
    BY <1>2, <2>1, Times DEF Renewal
  <2>3. Covers(n, k.at + SoloRecheck)
    <3> SUFFICES ASSUME OwnHead(n)
                 PROVE  (k.at + SoloRecheck) + RenewBefore <= db[n][HeadOf(n)]
      BY DEF Covers
    <3>1. PICK h \in Subjects : h = HeadOf(n) /\ db[n][h] \in Nat
      BY <1>1, HeadIs DEF OwnHead
    <3>2. db[n][h] >= k.at + TTL
      BY <1>2, <2>1, <3>1, LeaseAssumption DEF CallCovers
    <3> QED BY <1>2, <3>1, <3>2, Times
  <2> QED BY <2>1, <2>2, <2>3
<1>7. CASE Remember(n, c)
  <2>1. held'[n] = k.until /\ k.step = "decided"
    BY <1>4, <1>7 DEF Remember
  <2>2. k.until <= Clock(n) + Renewal
    BY <2>1 DEF Steady, Inv, CallInv, CallOK
  <2>3. Covers(n, k.until)
    BY <1>2, <2>1 DEF CallCovers
  <2> QED BY <2>1, <2>2, <2>3
<1>8. CASE HeldElsewhere(n, c) \/ Fails(n, c)
  <2>1. held'[n] = held[n] \/ held'[n] = 0
    BY <1>4, <1>8 DEF HeldElsewhere, Refuses, Fails
  <2>2. 0 <= Clock(n) + Renewal
    BY <1>2, <1>5
  <2> QED BY <1>3, <1>5, <2>1, <2>2
<1>9. CASE held' = held
  BY <1>5, <1>9
<1> QED
  BY <1>6, <1>7, <1>8, <1>9 DEF Holds, Read, First, Keep, Renew, TakeOver

LEMMA CallsSteady ==
  ASSUME NEW n \in Nodes, Steady(n), Keeper(n), NEW c \in Callers,
         call'[n][c].step # "idle"
  PROVE  CallCovers(n, c)'
<1>1. TypeOK /\ TypeOK'
  BY DEF Steady, Inv
<1>2. ASSUME now' = now, call'[n][c] = call[n][c] PROVE CallCovers(n, c)'
  <2>1. CallCovers(n, c)
    BY <1>2 DEF Keeper
  <2>2. PICK u : u = call'[n][c].until
    OBVIOUS
  <2>3. call[n][c].step = "decided" => Covers(n, u)'
    <3>1. call[n][c].step = "decided" =>
            u \in Nat /\ Covers(n, u) /\ u <= Clock(n) + Renewal
      BY <1>1, <1>2, <2>1, <2>2 DEF CallCovers, Steady, Inv, CallInv, CallOK, TypeOK, Call
    <3> QED BY <3>1, CoversStays
  <2> QED BY <1>2, <2>1, <2>2, <2>3, CallCoversNext
<1>3. CASE UNCHANGED vars
  BY <1>2, <1>3 DEF vars
<1>4. ASSUME NEW m \in Nodes, NEW d \in Callers, Holds(m, d) PROVE CallCovers(n, c)'
  <2>1. CASE m = n /\ d = c
    BY <1>4, <2>1, HoldsCovers
  <2>2. CASE ~(m = n /\ d = c)
    <3>1. now' = now /\ call'[n][c] = call[n][c]
      BY <1>1, <1>4, <2>2, HeadsNoted, HoldsCall DEF Steady, Inv
    <3> QED BY <1>2, <3>1
  <2> QED BY <2>1, <2>2
<1>5. ASSUME NEW l \in Nodes, NEW m \in Nodes, NEW s \in Subjects, Sync(l, m, s)
      PROVE  CallCovers(n, c)'
  BY <1>2, <1>5 DEF Sync
<1>6. ASSUME NEW m \in Nodes, LearnPeer(m) \/ Restart(m) PROVE CallCovers(n, c)'
  <2>1. now' = now /\ (call'[n][c] = call[n][c] \/ call'[n][c] = Idle)
    BY <1>1, <1>6 DEF LearnPeer, Restart, TypeOK
  <2>2. Idle.step = "idle"
    BY DEF Idle
  <2> QED BY <1>2, <2>1, <2>2
<1>7. CASE Tick
  BY <1>7 DEF Tick
<1> QED
  BY <1>3, <1>4, <1>5, <1>6, <1>7 DEF Steady, Next

LEMMA HeldSteady ==
  ASSUME NEW n \in Nodes, Steady(n), Keeper(n)
  PROVE  Covers(n, held[n])'
<1>1. TypeOK /\ TypeOK'
  BY DEF Steady, Inv
<1>2. PICK u \in Nat : u = held'[n]
  BY <1>1 DEF TypeOK
<1>3. Covers(n, u) /\ u <= Clock(n) + Renewal
  <2>1. Covers(n, held[n]) /\ held[n] <= Clock(n) + Renewal
    BY DEF Keeper, Steady, Inv, HeldInv, HeldOK
  <2>2. ASSUME NEW m \in Nodes, NEW d \in Callers, Holds(m, d)
        PROVE  Covers(n, u) /\ u <= Clock(n) + Renewal
    <3>1. CASE m = n
      BY <1>2, <2>2, <3>1, HoldsHeldCovered
    <3>2. CASE m # n
      <4>1. held'[n] = held[n]
        BY <1>1, <2>2, <3>2 DEF Holds, Read, Solo, First, Keep, Renew, HeldElsewhere,
           Refuses, TakeOver, Fails, Remember, TypeOK
      <4> QED BY <1>2, <2>1, <4>1
    <3> QED BY <3>1, <3>2
  <2>3. ASSUME NEW m \in Nodes, Restart(m) PROVE Covers(n, u) /\ u <= Clock(n) + Renewal
    <3>1. u = held[n] \/ u = 0
      BY <1>1, <1>2, <2>3 DEF Restart, TypeOK
    <3>2. 0 <= Clock(n) + Renewal
      BY <1>1, Clocks, Times DEF Renewal
    <3> QED BY <1>2, <2>1, <3>1, <3>2, CoversNone DEF Steady, Inv
  <2>4. CASE held' = held
    BY <1>2, <2>1, <2>4
  <2> QED BY <2>2, <2>3, <2>4 DEF Steady, Next, vars, Sync, LearnPeer, Tick
<1>4. Covers(n, u)'
  BY <1>3, CoversStays
<1> QED
  BY <1>2, <1>4 DEF Covers

LEMMA StopNext == Inv /\ Inv' /\ StopInv /\ [Next]_vars => StopInv'
<1> SUFFICES ASSUME Inv, Inv', StopInv, [Next]_vars, NEW n \in Nodes, n \notin lost'
             PROVE  Keeper(n)'
  BY DEF StopInv
<1>1. n \notin lost /\ Keeper(n)
  BY LostNoted DEF Inv, StopInv
<1>2. Steady(n)
  BY <1>1, StepGrows DEF Steady, Inv, Keeper
<1>3. OwnBelow(n)'
  BY <1>2, OwnBelowStays
<1>4. Covers(n, held[n])'
  BY <1>1, <1>2, HeldSteady
<1>5. \A c \in Callers : call'[n][c].step # "idle" => CallCovers(n, c)'
  BY <1>1, <1>2, CallsSteady
<1> QED
  BY <1>3, <1>4, <1>5 DEF Keeper

LEMMA StopInit == Init => StopInv
<1> SUFFICES ASSUME Init, NEW n \in Nodes PROVE Keeper(n)
  BY DEF StopInv
<1>1. \A s \in Subjects : lease[s] = None /\ db[n][s] = None
  BY DEF Init
<1>2. HeadOf(n) = None
  BY <1>1, LeaseAssumption DEF HeadOf, Counted
<1>3. \A c \in Callers : call[n][c].step = "idle"
  BY DEF Init, Idle
<1> QED
  BY <1>1, <1>2, <1>3 DEF Keeper, OwnBelow, Covers, OwnHead

\* A node that knows the holder's last renewal and finds it run out finds that
\* the holder has stopped, for any number of nodes, leases and tasks and any
\* lease length, unless the holder's own head was collected (Leases::holds caches
\* a verdict until RENEW_BEFORE_MS before the expiry it wrote or read).
THEOREM HolderHasStopped == Spec => []TakeoverFindsItStopped
<1>1. ASSUME Inv, StopInv PROVE TakeoverFindsItStopped
  <2> SUFFICES ASSUME NEW n \in Nodes, NEW c \in Callers, call[n][c].step = "read",
                      Theirs(n, c), Expired(call[n][c]),
                      NEW h, h = call[n][c].head, NEW m, m = lease[h].holder,
                      HeadOf(m) = h, db[m][h] = call[n][c].expires, m \notin lost,
                      Skew[n] < Skew[m] + RenewBefore
               PROVE  ~Runs(m)
    BY DEF TakeoverFindsItStopped
  <2>1. h \in Subjects /\ lease[h] \in Lease /\ h # None
    BY <1>1, Signed DEF Theirs, Inv, TypeOK, Call
  <2>2. m \in Nodes
    BY <2>1, LeaseFields
  <2>3. held[m] + RenewBefore <= db[m][h]
    BY <1>1, <2>1, <2>2 DEF StopInv, Keeper, Covers, OwnHead
  <2>4. db[m][h] <= Clock(n)
    BY <1>1 DEF Expired, Inv, Dated, Working
  <2>5. /\ held[m] \in Nat /\ now \in Nat /\ Skew[n] \in Nat /\ Skew[m] \in Nat
        /\ db[m][h] \in Nat /\ Clock(n) = now + Skew[n] /\ Clock(m) = now + Skew[m]
    BY <1>1, <2>1, <2>2, Clocks, HeadIs DEF Clock, Inv, TypeOK
  <2> QED BY <2>3, <2>4, <2>5, Times DEF Runs
<1>2. Inv /\ StopInv /\ [Next]_vars => Inv' /\ StopInv'
  BY InvNext, StopNext
<1> QED
  BY <1>1, <1>2, InvInit, StopInit, PTL DEF Spec
=============================================================================
