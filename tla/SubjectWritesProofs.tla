------------------------ MODULE SubjectWritesProofs ------------------------
(***************************************************************************)
(* For every set of resources, identities and tasks: the store stays well  *)
(* typed, no write made under the subject locks is lost, tasks never wait  *)
(* for each other in a circle, a tombstone stands for what is gone and     *)
(* keeps it gone, and one imported record is held by one resource.         *)
(***************************************************************************)
EXTENDS SubjectWrites, FiniteSetTheorems, WellFoundedInduction, TLAPS

USE WritesAssumption, NoneAssumption

-----------------------------------------------------------------------------
(* Keys: a first and a last of every finite set *)

Extremes(T) == /\ \E x \in T : \A y \in T : x <= y
               /\ \E x \in T : \A y \in T : y <= x

\* Adding a key leaves a first and a last.
LEMMA OneMore ==
  ASSUME NEW T \in SUBSET Nat, NEW x \in T, T \ {x} # {} => Extremes(T \ {x})
  PROVE  Extremes(T)
<1>1. CASE T \ {x} = {}
  <2>1. \A y \in T : y = x
    BY <1>1
  <2>. QED
    BY <2>1 DEF Extremes
<1>2. CASE T \ {x} # {}
  <2>1. PICK least \in T \ {x} : \A y \in T \ {x} : least <= y
    BY <1>2 DEF Extremes
  <2>2. PICK greatest \in T \ {x} : \A y \in T \ {x} : y <= greatest
    BY <1>2 DEF Extremes
  <2>3. \A y \in T : y \in Nat /\ (y = x \/ (least <= y /\ y <= greatest))
    BY <2>1, <2>2
  <2>4. x \in Nat /\ least \in Nat /\ greatest \in Nat /\ least \in T /\ greatest \in T
    BY <2>1, <2>2
  <2>5. \E z \in T : \A y \in T : z <= y
    <3>1. CASE x <= least
      BY <2>3, <2>4, <3>1
    <3>2. CASE least <= x
      BY <2>3, <2>4, <3>2
    <3>. QED
      BY <2>4, <3>1, <3>2
  <2>6. \E z \in T : \A y \in T : y <= z
    <3>1. CASE x <= greatest
      BY <2>3, <2>4, <3>1
    <3>2. CASE greatest <= x
      BY <2>3, <2>4, <3>2
    <3>. QED
      BY <2>4, <3>1, <3>2
  <2>. QED
    BY <2>5, <2>6 DEF Extremes
<1>. QED
  BY <1>1, <1>2

\* A finite set of keys has a first and a last: a smallest set without them would be
\* one key more than a set that has them.
LEMMA FirstAndLast ==
  ASSUME NEW S \in SUBSET Nat, IsFiniteSet(S), S # {}
  PROVE  Extremes(S)
<1>. DEFINE Bad == {T \in SUBSET S : T # {} /\ ~Extremes(T)}
<1>1. SUFFICES ASSUME Bad # {} PROVE FALSE
  OBVIOUS
<1>2. \A T \in SUBSET S : IsFiniteSet(T)
  BY FS_Subset
<1>3. Bad \subseteq FiniteSubsetsOf(S)
  BY <1>2 DEF FiniteSubsetsOf
<1>4. IsWellFoundedOn(StrictSubsetOrdering(S), FiniteSubsetsOf(S))
  BY FS_StrictSubsetOrderingWellFounded
<1>5. PICK T \in Bad : \A U \in Bad : <<U, T>> \notin StrictSubsetOrdering(S)
  BY <1>1, <1>3, <1>4, WFMin
<1>6. PICK x \in T : TRUE
  BY <1>5
<1>7. <<T \ {x}, T>> \in StrictSubsetOrdering(S)
  BY <1>5, <1>6 DEF StrictSubsetOrdering
<1>8. T \ {x} # {} => Extremes(T \ {x})
  BY <1>5, <1>7
<1>. QED
  BY <1>5, <1>6, <1>8, OneMore

\* Of a set of keys, the one that is locked next.
LEMMA LeastIn ==
  ASSUME NEW S, S \subseteq Subjects \/ S \subseteq Imports, S # {}
  PROVE  Least(S) \in S /\ \A y \in S : Least(S) <= y
<1>1. S \in SUBSET Nat /\ IsFiniteSet(S)
  BY FS_Subset
<1>2. PICK x \in S : \A y \in S : x <= y
  BY <1>1, FirstAndLast DEF Extremes
<1>. QED
  BY <1>2 DEF Least

-----------------------------------------------------------------------------
(* The inductive invariant, task by task *)

\* Requests whose task locks the subjects it writes.
Locking == Commits \cup {"update", "push"}

StepsOf(kind) ==
  CASE kind \in Edits \cup {"update", "push"} -> {"lock", "read", "land"}
    [] kind = "destroy" -> {"lock", "read", "collect", "erase", "bury"}
    [] kind = "remove" -> {"collect", "erase", "bury", "again"}
    [] kind = "restore" -> {"read", "land", "clear"}
    [] OTHER -> {"read", "land"}

\* A request and what is staged for it.
Shape(r) ==
  /\ r.at \in StepsOf(r.kind)
  /\ r.kind \notin {"destroy", "remove"} => r.op \in Ops
  /\ r.kind \notin {"push", "batch"} /\ r.at \in {"lock", "read"} => r.left = {r.subject}
  /\ (r.kind \in Commits /\ r.at \in {"lock", "read"}) \/ (r.kind = "push" /\ r.at = "lock") =>
       \A t \in Subjects : r.staged[t] = {}
  /\ r.kind = "update" /\ r.at \in {"lock", "read"} =>
       /\ r.op \in r.staged[r.subject]
       /\ \A t \in Subjects : r.staged[t] # {} => t = r.subject
  /\ \A t \in Subjects : r.staged[t] # {} => r.op \in r.staged[t]

Shaped(w) == writers[w] # None => Shape(writers[w])

\* The subjects a task has locked: in order while it locks them, and what it writes after.
Locks(w) ==
  LET r == writers[w] IN
  /\ r = None => \A s \in Subjects : lock[s] # w
  /\ r # None /\ r.kind \notin Locking => \A s \in Subjects : lock[s] # w
  /\ r # None /\ r.at = "lock" =>
       /\ \A t \in Subjects : r.staged[t] # {} => t \in r.left
       /\ \E t \in r.left : lock[t] # w
       /\ \A s \in Subjects : lock[s] = w =>
            s \in r.left /\ \A t \in r.left : lock[t] # w => s < t
  /\ r # None /\ r.kind \in Locking /\ r.at \in {"read", "land"} =>
       \A t \in Subjects : t \in r.left \/ r.staged[t] # {} => lock[t] = w

\* The identities a task has locked, in order.
Identities(w) ==
  LET r == writers[w] IN
  /\ r = None \/ r.at # "land" => \A i \in Imports : importLock[i] # w
  /\ r # None /\ r.at = "land" =>
       \A i \in Imports : importLock[i] = w => \A j \in Unlocked(w) : i < j

\* What a task is about to write holds what was written before.
Fresh(w) ==
  LET r == writers[w] IN
  r # None /\ r.kind \in Locking /\ (r.at = "land" \/ (r.at = "read" /\ r.kind = "push")) =>
    \A t \in Subjects \ unlocked : r.staged[t] # {} => accepted[t] \subseteq r.staged[t]

TaskOK(w) == Shaped(w) /\ Locks(w) /\ Identities(w) /\ Fresh(w)

Inv == TypeOK /\ OperationsSurvive /\ \A w \in Writers : TaskOK(w)

-----------------------------------------------------------------------------
(* Frames *)

LEMMA ImportsType ==
  ASSUME NEW S \in SUBSET Subjects
  PROVE  ImportsOf(S) \subseteq Imports
BY DEF ImportsOf

LEMMA WriterFields ==
  ASSUME NEW r \in Writer
  PROVE  /\ r.at \in Steps /\ r.kind \in AllKinds /\ r.subject \in Subjects
         /\ r.left \in SUBSET Subjects /\ r.op \in Ops \cup {None}
         /\ r.staged \in [Subjects -> SUBSET Ops] /\ r.removed \in SUBSET Subjects
         /\ r # None
BY DEF Writer

\* Another task's step leaves a task alone: its request and its locks are the same,
\* and no resource it has locked gained an operation.
LEMMA OthersStay ==
  ASSUME TypeOK, NEW v \in Writers, TaskOK(v),
         writers'[v] = writers[v],
         \A s \in Subjects : lock'[s] = v <=> lock[s] = v,
         \A i \in Imports : importLock'[i] = v <=> importLock[i] = v,
         unlocked \subseteq unlocked',
         \A s \in Subjects : lock[s] = v =>
           s \in unlocked' \/ accepted'[s] \subseteq accepted[s]
  PROVE  TaskOK(v)'
<1>0. writers[v] # None => writers[v].left \in SUBSET Subjects
  BY WriterFields DEF TypeOK
<1>1. Shaped(v)'
  BY DEF TaskOK, Shaped
<1>2. Locks(v)'
  BY <1>0 DEF TaskOK, Locks
<1>3. Identities(v)'
  <2>1. Unlocked(v)' = Unlocked(v)
    <3>1. Staged(v)' = Staged(v) /\ Staged(v) \in SUBSET Subjects
      BY DEF Staged
    <3>2. ImportsOf(Staged(v))' = ImportsOf(Staged(v))
      BY <3>1 DEF ImportsOf
    <3>. QED
      BY <3>1, <3>2, ImportsType DEF Unlocked
  <2>. QED
    BY <2>1 DEF TaskOK, Identities
<1>4. Fresh(v)'
  BY DEF TaskOK, Fresh, Locks
<1>. QED
  BY <1>1, <1>2, <1>3, <1>4 DEF TaskOK

\* A task that is done holds nothing; the others keep what they hold.
LEMMA FreesFrame ==
  ASSUME TypeOK, NEW w \in Writers, Frees(w)
  PROVE  /\ lock' \in [Subjects -> Writers \cup {None}]
         /\ importLock' \in [Imports -> Writers \cup {None}]
         /\ \A s \in Subjects : lock'[s] # w
         /\ \A i \in Imports : importLock'[i] # w
         /\ \A v \in Writers \ {w} :
              /\ \A s \in Subjects : lock'[s] = v <=> lock[s] = v
              /\ \A i \in Imports : importLock'[i] = v <=> importLock[i] = v
BY DEF TypeOK, Frees

\* So it is after a release, whatever else the step does to resources locked by nobody else.
LEMMA IdleTask ==
  ASSUME NEW w \in Writers, writers'[w] = None,
         \A s \in Subjects : lock'[s] # w, \A i \in Imports : importLock'[i] # w
  PROVE  TaskOK(w)'
BY DEF TaskOK, Shaped, Locks, Identities, Fresh

\* A step of one task keeps the invariant when it keeps what is said of that task and
\* of the store, and leaves the other tasks alone.
LEMMA OneTask ==
  ASSUME Inv, NEW w \in Writers, TypeOK', OperationsSurvive', TaskOK(w)',
         \A v \in Writers \ {w} :
           /\ writers'[v] = writers[v]
           /\ \A s \in Subjects : lock'[s] = v <=> lock[s] = v
           /\ \A i \in Imports : importLock'[i] = v <=> importLock[i] = v,
         unlocked \subseteq unlocked',
         \A s \in Subjects :
           \/ lock[s] = w
           \/ s \in unlocked'
           \/ accepted'[s] \subseteq accepted[s]
  PROVE  Inv'
<1>1. ASSUME NEW v \in Writers \ {w} PROVE TaskOK(v)'
  BY <1>1, OthersStay DEF Inv
<1>. QED
  BY <1>1 DEF Inv

LEMMA Replaces ==
  ASSUME TypeOK, NEW w \in Writers, NEW r \in Writer, writers' = [writers EXCEPT ![w] = r]
  PROVE  /\ writers' \in [Writers -> Writer \cup {None}]
         /\ writers'[w] = r
         /\ \A v \in Writers \ {w} : writers'[v] = writers[v]
BY DEF TypeOK

-----------------------------------------------------------------------------
(* Initial states and requests *)

LEMMA InitInv == Init => Inv
<1>. SUFFICES ASSUME Init PROVE Inv
  OBVIOUS
<1>1. docs \in [Subjects -> SUBSET Ops]
  BY DEF Init
<1>2. TypeOK
  BY <1>1 DEF Init, TypeOK, Stored
<1>3. OperationsSurvive
  BY DEF Init, OperationsSurvive
<1>4. \A w \in Writers : TaskOK(w)
  BY DEF Init, TaskOK, Shaped, Locks, Identities, Fresh
<1>. QED
  BY <1>2, <1>3, <1>4 DEF Inv

LEMMA BeginsInv ==
  ASSUME Inv, NEW w \in Writers, NEW r \in Writer, Begins(w, r), Shape(r),
         r.at # "land",
         r.kind \in Locking => r.at = "lock",
         r.at = "lock" => r.left # {} /\ \A t \in Subjects : r.staged[t] # {} => t \in r.left
  PROVE  Inv'
<1>. USE DEF Begins
<1>1. writers'[w] = r /\ writers' \in [Writers -> Writer \cup {None}]
      /\ \A v \in Writers \ {w} : writers'[v] = writers[v]
  BY Replaces DEF Inv
<1>2. /\ \A s \in Subjects : lock[s] # w
      /\ \A i \in Imports : importLock[i] # w
  BY DEF Inv, TaskOK, Locks, Identities
<1>3. requests' \in 0..MaxRequests
  BY DEF Inv, TypeOK
<1>4. TypeOK'
  BY <1>1, <1>3 DEF Inv, TypeOK, history
<1>5. TaskOK(w)'
  <2>1. Shaped(w)'
    BY <1>1 DEF Shaped
  <2>2. r.left \in SUBSET Subjects /\ r # None
    BY WriterFields
  <2>3. Locks(w)'
    BY <1>1, <1>2, <2>2 DEF Locks
  <2>4. Identities(w)'
    BY <1>1, <1>2 DEF Identities
  <2>5. Fresh(w)'
    BY <1>1 DEF Fresh
  <2>. QED
    BY <2>1, <2>3, <2>4, <2>5 DEF TaskOK
<1>6. OperationsSurvive'
  BY DEF Inv, OperationsSurvive, history
<1>. QED
  BY <1>1, <1>4, <1>5, <1>6, OneTask DEF history

\* The fields of a request as it is made.
LEMMA RequestFields ==
  ASSUME NEW step \in Steps, NEW kind \in AllKinds, NEW s \in Subjects, NEW o \in Ops \cup {None}
  PROVE  /\ Request(step, kind, s, o) \in Writer
         /\ Request(step, kind, s, o).at = step
         /\ Request(step, kind, s, o).kind = kind
         /\ Request(step, kind, s, o).subject = s
         /\ Request(step, kind, s, o).left = {s}
         /\ Request(step, kind, s, o).op = o
         /\ \A t \in Subjects : Request(step, kind, s, o).staged[t] = {}
<1>1. Nothing \in [Subjects -> SUBSET Ops] /\ \A t \in Subjects : Nothing[t] = {}
  BY DEF Nothing
<1>2. PICK n \in [Subjects -> SUBSET Ops] : n = Nothing /\ \A t \in Subjects : n[t] = {}
  BY <1>1
<1>3. PICK r : r = [at |-> step, kind |-> kind, subject |-> s, left |-> {s}, op |-> o,
                    staged |-> n, removed |-> {}]
  OBVIOUS
<1>4. r = Request(step, kind, s, o)
  BY <1>2, <1>3 DEF Request
<1>5. /\ r.at = step /\ r.kind = kind /\ r.subject = s /\ r.left = {s}
      /\ r.op = o /\ r.staged = n
  BY <1>3
<1>6. r \in Writer
  <2>1. {s} \in SUBSET Subjects /\ {} \in SUBSET Subjects
    OBVIOUS
  <2>. QED
    BY <1>3, <2>1, Zenon DEF Writer
<1>7. \A t \in Subjects : r.staged[t] = {}
  BY <1>2, <1>5
<1>. QED
  BY <1>4, <1>5, <1>6, <1>7, Zenon

LEMMA CommitInv ==
  ASSUME Inv, NEW w \in Writers, NEW k \in Edits, NEW s \in Subjects, NEW o \in Ops,
         Commit(w, k, s, o)
  PROVE  Inv'
<1>1. "lock" \in Steps /\ k \in AllKinds /\ o \in Ops \cup {None}
  BY DEF Steps, AllKinds, Commits, Edits
<1>2. PICK r : r = Request("lock", k, s, o)
  OBVIOUS
<1>3. /\ r \in Writer /\ r.at = "lock" /\ r.kind = k /\ r.subject = s /\ r.left = {s}
      /\ r.op = o /\ \A t \in Subjects : r.staged[t] = {}
  BY <1>1, <1>2, RequestFields
<1>4. Shape(r)
  BY <1>3 DEF Shape, StepsOf, Edits, Commits
<1>5. Begins(w, r)
  BY <1>2 DEF Commit
<1>. QED
  BY <1>3, <1>4, <1>5, BeginsInv

LEMMA DestroyInv ==
  ASSUME Inv, NEW w \in Writers, NEW s \in Subjects, Destroy(w, s)
  PROVE  Inv'
<1>. DEFINE r == Request("lock", "destroy", s, None)
<1>1. "lock" \in Steps /\ "destroy" \in AllKinds
  BY DEF Steps, AllKinds, Commits
<1>2. /\ r \in Writer /\ r.at = "lock" /\ r.kind = "destroy" /\ r.left = {s}
      /\ r.subject = s /\ \A t \in Subjects : r.staged[t] = {}
  BY <1>1, RequestFields
<1>. HIDE DEF r
<1>3. Shape(r)
  BY <1>2 DEF Shape, StepsOf, Edits, Commits
<1>4. Begins(w, r)
  BY DEF Destroy, r
<1>. QED
  BY <1>2, <1>3, <1>4, BeginsInv

LEMMA RemoveInv ==
  ASSUME Inv, NEW w \in Writers, NEW s \in Subjects, Remove(w, s)
  PROVE  Inv'
<1>. DEFINE r == Request("collect", "remove", s, None)
<1>1. "collect" \in Steps /\ "remove" \in AllKinds
  BY DEF Steps, AllKinds, Commits
<1>2. /\ r \in Writer /\ r.at = "collect" /\ r.kind = "remove"
      /\ \A t \in Subjects : r.staged[t] = {}
  BY <1>1, RequestFields
<1>. HIDE DEF r
<1>3. Shape(r) /\ r.kind \notin Locking
  BY <1>2 DEF Shape, StepsOf, Edits, Commits, Locking
<1>4. Begins(w, r)
  BY DEF Remove, r
<1>. QED
  BY <1>2, <1>3, <1>4, BeginsInv

LEMMA RestoreInv ==
  ASSUME Inv, NEW w \in Writers, NEW s \in Subjects, NEW o \in Ops, Restore(w, s, o)
  PROVE  Inv'
<1>. DEFINE r == Request("read", "restore", s, o)
<1>1. "read" \in Steps /\ "restore" \in AllKinds
  BY DEF Steps, AllKinds, Commits
<1>2. /\ r \in Writer /\ r.at = "read" /\ r.kind = "restore" /\ r.left = {s}
      /\ r.subject = s /\ r.op = o /\ \A t \in Subjects : r.staged[t] = {}
  BY <1>1, RequestFields
<1>. HIDE DEF r
<1>3. Shape(r) /\ r.kind \notin Locking
  BY <1>2 DEF Shape, StepsOf, Edits, Commits, Locking
<1>4. Begins(w, r)
  BY DEF Restore, r
<1>. QED
  BY <1>2, <1>3, <1>4, BeginsInv

LEMMA UpdateInv ==
  ASSUME Inv, NEW w \in Writers, NEW s \in Subjects, NEW o \in Ops, Update(w, s, o)
  PROVE  Inv'
<1>. DEFINE q == Request("lock", "update", s, o)
            r == [q EXCEPT !.staged[s] = docs[s] \cup {o}]
<1>1. "lock" \in Steps /\ "update" \in AllKinds
  BY DEF Steps, AllKinds, Commits
<1>2. /\ q \in Writer /\ q.at = "lock" /\ q.kind = "update" /\ q.left = {s}
      /\ q.subject = s /\ q.op = o /\ \A t \in Subjects : q.staged[t] = {}
  BY <1>1, RequestFields
<1>3. docs[s] \cup {o} \in SUBSET Ops
  BY DEF Inv, TypeOK
<1>4. PICK d \in SUBSET Ops : d = docs[s] \cup {o}
  BY <1>3
<1>5. Begins(w, [q EXCEPT !.staged[s] = d])
  BY <1>4 DEF Update
<1>. HIDE DEF q, r
<1>6. PICK x : x = [q EXCEPT !.staged[s] = d]
  OBVIOUS
<1>7. /\ x \in Writer /\ x.at = "lock" /\ x.kind = "update" /\ x.left = {s}
      /\ x.subject = s /\ x.op = o
      /\ \A t \in Subjects : x.staged[t] = IF t = s THEN d ELSE {}
  BY <1>2, <1>6 DEF Writer
<1>8. Shape(x)
  BY <1>4, <1>7 DEF Shape, StepsOf, Edits, Commits
<1>. QED
  BY <1>5, <1>6, <1>7, <1>8, BeginsInv

\* A push or a batch takes several subjects.
LEMMA ManyInv ==
  ASSUME Inv, NEW w \in Writers, NEW S \in (SUBSET Subjects) \ {{}}, NEW o \in Ops,
         Push(w, S, o) \/ Batch(w, S, o)
  PROVE  Inv'
<1>1. S \subseteq Subjects /\ S # {}
  OBVIOUS
<1>2. PICK s \in Subjects : s = Least(S)
  BY <1>1, LeastIn
<1>3. PICK kind \in {"push", "batch"}, step \in {"lock", "read"} :
        /\ kind = "push" => step = "lock"
        /\ kind = "batch" => step = "read"
        /\ Begins(w, [Request(step, kind, s, o) EXCEPT !.left = S])
  <2>1. CASE Push(w, S, o)
    BY <1>2, <2>1 DEF Push
  <2>2. CASE Batch(w, S, o)
    BY <1>2, <2>2 DEF Batch
  <2>. QED
    BY <2>1, <2>2
<1>4. PICK q : q = Request(step, kind, s, o)
  OBVIOUS
<1>5. step \in Steps /\ kind \in AllKinds
  BY DEF Steps, AllKinds, Commits
<1>6. /\ q \in Writer /\ q.at = step /\ q.kind = kind /\ q.op = o
      /\ \A t \in Subjects : q.staged[t] = {}
  BY <1>4, <1>5, RequestFields
<1>7. PICK x : x = [q EXCEPT !.left = S]
  OBVIOUS
<1>8. /\ x \in Writer /\ x.at = step /\ x.kind = kind /\ x.op = o /\ x.left = S
      /\ \A t \in Subjects : x.staged[t] = {}
  BY <1>1, <1>6, <1>7 DEF Writer
<1>9. Shape(x)
  <2>1. kind \notin Commits /\ kind # "update" /\ step \in StepsOf(kind)
    BY <1>3 DEF StepsOf, Edits, Commits
  <2>. QED
    BY <1>8, <2>1 DEF Shape
<1>10. x.kind \in Locking => x.at = "lock"
  BY <1>3, <1>8 DEF Locking, Commits, Edits
<1>11. Begins(w, x)
  BY <1>3, <1>4, <1>7
<1>12. x.at # "land" /\ x.left # {}
  BY <1>1, <1>8
<1>. QED
  BY <1>8, <1>9, <1>10, <1>11, <1>12, BeginsInv

-----------------------------------------------------------------------------
(* Locks *)

LEMMA GoesFields ==
  ASSUME TypeOK, NEW w \in Writers, writers[w] # None, NEW step \in Steps, Goes(w, step)
  PROVE  /\ writers' \in [Writers -> Writer \cup {None}]
         /\ writers[w] \in Writer /\ writers'[w] \in Writer /\ writers'[w] # None
         /\ writers'[w].at = step
         /\ writers'[w].kind = writers[w].kind
         /\ writers'[w].subject = writers[w].subject
         /\ writers'[w].left = writers[w].left
         /\ writers'[w].op = writers[w].op
         /\ writers'[w].staged = writers[w].staged
         /\ \A v \in Writers \ {w} : writers'[v] = writers[v]
<1>1. writers[w] \in Writer
  BY DEF TypeOK
<1>2. PICK r : r = [writers[w] EXCEPT !.at = step]
  OBVIOUS
<1>3. /\ r \in Writer /\ r.at = step /\ r.kind = writers[w].kind
      /\ r.subject = writers[w].subject /\ r.left = writers[w].left
      /\ r.op = writers[w].op /\ r.staged = writers[w].staged
  BY <1>1, <1>2 DEF Writer
<1>4. writers' = [writers EXCEPT ![w] = r]
  BY <1>2 DEF Goes
<1>. QED
  BY <1>1, <1>3, <1>4, Replaces, WriterFields

LEMMA TakesInv ==
  ASSUME Inv, NEW w \in Writers, At(w, "lock"), NEW s \in writers[w].left, lock[s] # w,
         \A t \in writers[w].left : lock[t] # w => s <= t,
         Takes(w, s)
  PROVE  Inv'
<1>. DEFINE r == writers[w]
            step == IF \A t \in r.left \ {s} : lock[t] = w THEN "read" ELSE "lock"
<1>1. r \in Writer /\ r # None /\ r.at = "lock" /\ s \in Subjects /\ r.left \in SUBSET Subjects
  BY WriterFields DEF Inv, TypeOK, At
<1>2. step \in Steps /\ Goes(w, step)
  BY DEF Takes, Steps
<1>3. PICK at \in {"read", "lock"} :
        /\ at = step /\ at \in Steps /\ Goes(w, at)
        /\ at = "read" => \A t \in r.left \ {s} : lock[t] = w
        /\ at = "lock" => \E t \in r.left \ {s} : lock[t] # w
  BY <1>2
<1>4. /\ writers' \in [Writers -> Writer \cup {None}]
      /\ writers'[w] # None /\ writers'[w].at = at
      /\ writers'[w].kind = r.kind /\ writers'[w].subject = r.subject
      /\ writers'[w].left = r.left /\ writers'[w].op = r.op /\ writers'[w].staged = r.staged
      /\ \A v \in Writers \ {w} : writers'[v] = writers[v]
  BY <1>1, <1>3, GoesFields DEF Inv
<1>. HIDE DEF step
<1>5. /\ lock' \in [Subjects -> Writers \cup {None}]
      /\ lock'[s] = w
      /\ \A t \in Subjects \ {s} : lock'[t] = lock[t]
  BY <1>1 DEF Takes, Inv, TypeOK
<1>6. TypeOK'
  BY <1>4, <1>5 DEF Takes, Inv, TypeOK, history
<1>7. r.kind \in Locking \ {"destroy"} \/ r.kind = "destroy"
  BY <1>1 DEF Inv, TaskOK, Shaped, Shape, StepsOf, Locking, Commits, Edits
<1>8. r.kind \in Locking
  BY <1>7 DEF Locking, Commits
<1>9. Shape(r) /\ Locks(w) /\ Identities(w)
  BY <1>1 DEF Inv, TaskOK, Shaped
<1>10. Shaped(w)'
  <2>1. r.at \in {"lock", "read"} /\ at \in StepsOf(r.kind)
    BY <1>1, <1>3, <1>8, <1>9 DEF Shape, StepsOf, Locking, Commits, Edits
  <2>. QED
    BY <1>1, <1>4, <1>9, <2>1 DEF Shaped, Shape
<1>11. Locks(w)'
  <2>1. \A t \in Subjects : lock'[t] = w <=> t = s \/ lock[t] = w
    BY <1>5
  <2>2. CASE at = "read"
    BY <1>1, <1>3, <1>4, <1>8, <1>9, <2>1, <2>2 DEF Locks
  <2>3. CASE at = "lock"
    <3>1. \E t \in r.left : lock'[t] # w
      BY <1>1, <1>3, <1>5, <2>3
    <3>2. ASSUME NEW t \in r.left, lock'[t] # w PROVE lock[t] # w /\ s < t
      <4>1. t \in Subjects /\ t # s /\ lock[t] # w
        BY <1>1, <2>1, <3>2
      <4>2. s <= t /\ s \in Nat /\ t \in Nat
        BY <1>1, <4>1
      <4>. QED
        BY <4>1, <4>2
    <3>3. ASSUME NEW x \in Subjects, lock'[x] = w
          PROVE  x \in r.left /\ \A t \in r.left : lock'[t] # w => x < t
      BY <1>1, <1>9, <2>1, <3>2, <3>3 DEF Locks
    <3>. QED
      BY <1>1, <1>4, <1>8, <1>9, <2>3, <3>1, <3>3 DEF Locks
  <2>. QED
    BY <2>2, <2>3
<1>12. Identities(w)'
  BY <1>1, <1>3, <1>4, <1>9 DEF Identities, Takes
<1>13. Fresh(w)'
  BY <1>1, <1>3, <1>4, <1>9 DEF Fresh, Shape
<1>14. OperationsSurvive'
  BY DEF Inv, OperationsSurvive, Takes, history
<1>15. \A v \in Writers \ {w} : \A t \in Subjects : lock'[t] = v <=> lock[t] = v
  <2>1. lock[s] = None
    BY DEF Takes
  <2>. QED
    BY <1>5, <2>1
<1>. QED
  BY <1>4, <1>6, <1>10, <1>11, <1>12, <1>13, <1>14, <1>15, OneTask DEF TaskOK, Takes, history

LEMMA LocksSubjectInv ==
  ASSUME Inv, NEW w \in Writers, LocksSubject(w)
  PROVE  Inv'
<1>1. At(w, "lock") /\ Takes(w, NextSubject(w))
  BY DEF LocksSubject
<1>. DEFINE S == {t \in writers[w].left : lock[t] # w}
<1>2. S # {} /\ S \subseteq Subjects
  BY <1>1, WriterFields DEF Inv, TypeOK, TaskOK, Locks, At
<1>3. PICK s \in S : s = NextSubject(w) /\ \A t \in S : s <= t
  BY <1>2, LeastIn DEF NextSubject
<1>. QED
  BY <1>1, <1>3, TakesInv

LEMMA LocksImportInv ==
  ASSUME Inv, NEW w \in Writers, LocksImport(w)
  PROVE  Inv'
<1>1. writers[w] # None /\ writers[w].at = "land" /\ Unlocked(w) # {}
  BY DEF LocksImport, At
<1>2. Staged(w) \in SUBSET Subjects
  BY DEF Staged
<1>3. Unlocked(w) \subseteq Imports
  BY <1>2, ImportsType DEF Unlocked
<1>4. PICK i \in Unlocked(w) : i = Least(Unlocked(w)) /\ \A j \in Unlocked(w) : i <= j
  BY <1>1, <1>3, LeastIn
<1>5. importLock[i] = None /\ importLock' = [importLock EXCEPT ![i] = w]
      /\ UNCHANGED <<docs, tombs, lock, writers, requests, crashes, history>>
  BY <1>4 DEF LocksImport
<1>6. importLock \in [Imports -> Writers \cup {None}] /\ i \in Imports
  BY <1>3, <1>4 DEF Inv, TypeOK
<1>7. /\ importLock' \in [Imports -> Writers \cup {None}]
      /\ \A j \in Imports : importLock'[j] = IF j = i THEN w ELSE importLock[j]
  BY <1>5, <1>6
<1>8. TypeOK'
  BY <1>5, <1>7 DEF Inv, TypeOK, history
<1>9. Unlocked(w)' = Unlocked(w) \ {i}
  <2>1. Staged(w)' = Staged(w)
    BY <1>5 DEF Staged
  <2>2. ImportsOf(Staged(w))' = ImportsOf(Staged(w)) /\ ImportsOf(Staged(w)) \subseteq Imports
    BY <1>2, <2>1, ImportsType DEF ImportsOf
  <2>. QED
    BY <1>6, <1>7, <2>2 DEF Unlocked
<1>10. Identities(w)'
  <2>1. ASSUME NEW k \in Imports, importLock'[k] = w, NEW j \in Unlocked(w) \ {i}
        PROVE  k < j
    <3>1. i < j
      BY <1>3, <1>4, <1>6
    <3>2. CASE k = i
      BY <3>1, <3>2
    <3>3. CASE k # i
      BY <1>1, <1>7, <2>1, <3>3 DEF Inv, TaskOK, Identities
    <3>. QED
      BY <3>2, <3>3
  <2>. QED
    BY <1>1, <1>5, <1>9, <2>1 DEF Identities
<1>11. Shaped(w)' /\ Locks(w)' /\ Fresh(w)'
  BY <1>5 DEF Inv, TaskOK, Shaped, Locks, Fresh, history
<1>12. OperationsSurvive'
  BY <1>5 DEF Inv, OperationsSurvive, history
<1>. QED
  BY <1>5, <1>6, <1>7, <1>8, <1>10, <1>11, <1>12, OneTask DEF TaskOK, history

-----------------------------------------------------------------------------
(* Reading and merging *)

\* A locked writer stages what it merged into what is stored.
LEMMA StagesInv ==
  ASSUME Inv, NEW w \in Writers, At(w, "read"),
         writers[w].kind \in Edits \cup {"update"},
         NEW ops \in SUBSET Ops, docs[writers[w].subject] \cup {writers[w].op} \subseteq ops,
         Stages(w, writers[w].subject, ops),
         tombs' \subseteq tombs,
         UNCHANGED <<docs, lock, importLock, requests, crashes, history>>
  PROVE  Inv'
<1>. DEFINE r == writers[w]
            s == r.subject
<1>1. /\ r \in Writer /\ r # None /\ r.at = "read" /\ s \in Subjects
      /\ r.staged \in [Subjects -> SUBSET Ops]
  BY WriterFields DEF Inv, TypeOK, At
<1>2. PICK q : q = [r EXCEPT !.at = "land", !.left = {}, !.staged[s] = ops]
  OBVIOUS
<1>3. /\ q.at = "land" /\ q.kind = r.kind /\ q.left = {} /\ q.op = r.op /\ q.subject = s
      /\ q.staged = [r.staged EXCEPT ![s] = ops]
  BY <1>1, <1>2 DEF Writer
<1>4. q \in Writer
  <2>1. [r.staged EXCEPT ![s] = ops] \in [Subjects -> SUBSET Ops] /\ {} \in SUBSET Subjects
    BY <1>1
  <2>. QED
    BY <1>1, <1>2, <2>1 DEF Writer, Steps
<1>5. writers' = [writers EXCEPT ![w] = q]
  BY <1>2 DEF Stages
<1>6. /\ writers' \in [Writers -> Writer \cup {None}] /\ writers'[w] = q /\ q # None
      /\ \A v \in Writers \ {w} : writers'[v] = writers[v]
  BY <1>4, <1>5, Replaces DEF Inv
<1>7. TypeOK'
  BY <1>6 DEF Inv, TypeOK, history
<1>8. Shape(r) /\ Locks(w) /\ Identities(w)
  BY <1>1 DEF Inv, TaskOK, Shaped
<1>9. r.kind \in Locking /\ r.kind # "push" /\ r.left = {s} /\ lock[s] = w
      /\ r.kind \notin {"push", "batch", "destroy", "remove"}
  BY <1>1, <1>8 DEF Shape, Locks, Locking, Commits, Edits
<1>10. \A t \in Subjects : q.staged[t] # {} => t = s /\ q.staged[t] = ops
  <2>1. \A t \in Subjects : r.staged[t] # {} => t = s
    BY <1>1, <1>8 DEF Shape, Commits, Edits
  <2>. QED
    BY <1>1, <1>3, <2>1
<1>11. Shaped(w)'
  <2>1. "land" \in StepsOf(q.kind)
    BY <1>3 DEF StepsOf, Edits
  <2>2. r.op \in ops
    OBVIOUS
  <2>. QED
    BY <1>1, <1>3, <1>6, <1>8, <1>9, <1>10, <2>1, <2>2 DEF Shaped, Shape
<1>12. Locks(w)'
  BY <1>3, <1>6, <1>9, <1>10 DEF Locks
<1>13. Identities(w)'
  BY <1>1, <1>6, <1>8 DEF Identities
<1>14. Fresh(w)'
  BY <1>1, <1>6, <1>10 DEF Fresh, Inv, OperationsSurvive, history
<1>15. OperationsSurvive'
  BY DEF Inv, OperationsSurvive, history
<1>. QED
  BY <1>6, <1>7, <1>11, <1>12, <1>13, <1>14, <1>15, OneTask DEF TaskOK, history

LEMMA ReadsForCommitInv ==
  ASSUME Inv, NEW w \in Writers, ReadsForCommit(w)
  PROVE  Inv'
<1>1. /\ At(w, "read") /\ writers[w].kind \in Edits
      /\ Stages(w, writers[w].subject, docs[writers[w].subject] \cup {writers[w].op})
      /\ tombs' \subseteq tombs
      /\ UNCHANGED <<docs, lock, importLock, requests, crashes, history>>
  BY DEF ReadsForCommit, Is
<1>2. writers[w] \in Writer /\ writers[w].subject \in Subjects /\ writers[w].op \in Ops
  <2>1. writers[w] \in Writer /\ Shape(writers[w])
    BY <1>1 DEF Inv, TypeOK, TaskOK, Shaped, At
  <2>. QED
    BY <1>1, <2>1, WriterFields DEF Shape, Edits
<1>3. PICK ops \in SUBSET Ops : ops = docs[writers[w].subject] \cup {writers[w].op}
  BY <1>2 DEF Inv, TypeOK
<1>. QED
  BY <1>1, <1>3, StagesInv

LEMMA MergesUpdateInv ==
  ASSUME Inv, NEW w \in Writers, MergesUpdate(w)
  PROVE  Inv'
<1>. DEFINE s == writers[w].subject
<1>1. /\ At(w, "read") /\ writers[w].kind = "update"
      /\ Stages(w, s, docs[s] \cup writers[w].staged[s])
      /\ UNCHANGED <<docs, tombs, lock, importLock, requests, crashes, history>>
  BY DEF MergesUpdate, Is
<1>2. /\ writers[w] \in Writer /\ s \in Subjects
      /\ writers[w].staged[s] \in SUBSET Ops /\ writers[w].op \in writers[w].staged[s]
  <2>1. writers[w] \in Writer /\ Shape(writers[w]) /\ writers[w].at = "read"
    BY <1>1 DEF Inv, TypeOK, TaskOK, Shaped, At
  <2>2. s \in Subjects /\ writers[w].staged \in [Subjects -> SUBSET Ops]
    BY <2>1, WriterFields
  <2>3. writers[w].op \in writers[w].staged[s]
    BY <1>1, <2>1 DEF Shape
  <2>. QED
    BY <2>1, <2>2, <2>3
<1>3. PICK ops \in SUBSET Ops : ops = docs[s] \cup writers[w].staged[s]
  BY <1>2 DEF Inv, TypeOK
<1>4. docs[s] \cup {writers[w].op} \subseteq ops
  BY <1>2, <1>3
<1>. QED
  BY <1>1, <1>3, <1>4, StagesInv

LEMMA ReadsForDestroyInv ==
  ASSUME Inv, NEW w \in Writers, ReadsForDestroy(w)
  PROVE  Inv'
<1>1. /\ writers[w] # None /\ writers[w].at = "read" /\ writers[w].kind = "destroy"
      /\ Goes(w, "collect")
      /\ UNCHANGED <<docs, tombs, lock, importLock, requests, crashes, history>>
  BY DEF ReadsForDestroy, At, Is
<1>2. /\ writers' \in [Writers -> Writer \cup {None}]
      /\ writers'[w] # None /\ writers'[w].at = "collect"
      /\ writers'[w].kind = "destroy" /\ writers'[w].staged = writers[w].staged
      /\ \A v \in Writers \ {w} : writers'[v] = writers[v]
      /\ writers'[w].op = writers[w].op
  BY <1>1, GoesFields DEF Inv, Steps
<1>3. TypeOK'
  BY <1>1, <1>2 DEF Inv, TypeOK, history
<1>4. Shape(writers[w]) /\ Identities(w)
  BY <1>1 DEF Inv, TaskOK, Shaped
<1>5. Shaped(w)'
  <2>1. "collect" \in StepsOf("destroy")
    BY DEF StepsOf, Edits
  <2>. QED
    BY <1>1, <1>2, <1>4, <2>1 DEF Shaped, Shape, Commits
<1>6. Locks(w)' /\ Identities(w)' /\ Fresh(w)'
  BY <1>1, <1>2, <1>4 DEF Locks, Identities, Fresh, Locking, Commits
<1>7. OperationsSurvive'
  BY <1>1 DEF Inv, OperationsSurvive, history
<1>. QED
  BY <1>1, <1>2, <1>3, <1>5, <1>6, <1>7, OneTask DEF TaskOK, history

LEMMA ReadsEntryInv ==
  ASSUME Inv, NEW w \in Writers, NEW s \in Subjects, ReadsEntry(w, s)
  PROVE  Inv'
<1>. DEFINE r == writers[w]
<1>1. /\ r \in Writer /\ r # None /\ r.at = "read" /\ r.kind \in {"push", "batch", "restore"}
      /\ r.staged \in [Subjects -> SUBSET Ops] /\ r.left \in SUBSET Subjects /\ s \in r.left
      /\ UNCHANGED <<docs, tombs, lock, importLock, requests, crashes, history>>
  BY WriterFields DEF ReadsEntry, Is, Inv, TypeOK, At
<1>2. Shape(r) /\ Locks(w) /\ Identities(w) /\ Fresh(w)
  BY <1>1 DEF Inv, TaskOK, Shaped
<1>3. r.op \in Ops
  BY <1>1, <1>2 DEF Shape
<1>4. PICK ops \in SUBSET Ops, at \in {"land", "read"} :
        /\ ops = {} \/ ops = docs[s] \cup {r.op}
        /\ at = IF r.left = {s} THEN "land" ELSE "read"
        /\ writers' = [writers EXCEPT ![w] = [@ EXCEPT
             !.left = r.left \ {s}, !.at = at, !.staged[s] = ops]]
  <2>1. docs[s] \cup {r.op} \in SUBSET Ops /\ {} \in SUBSET Ops
    BY <1>3 DEF Inv, TypeOK
  <2>. QED
    BY <2>1 DEF ReadsEntry
<1>5. PICK q : q = [r EXCEPT !.left = r.left \ {s}, !.at = at, !.staged[s] = ops]
  OBVIOUS
<1>6. /\ q.at = at /\ q.kind = r.kind /\ q.left = r.left \ {s} /\ q.op = r.op
      /\ q.subject = r.subject /\ q.staged = [r.staged EXCEPT ![s] = ops]
  BY <1>1, <1>5 DEF Writer
<1>7. q \in Writer
  <2>1. [r.staged EXCEPT ![s] = ops] \in [Subjects -> SUBSET Ops]
        /\ r.left \ {s} \in SUBSET Subjects
    BY <1>1
  <2>. QED
    BY <1>1, <1>5, <2>1 DEF Writer, Steps
<1>8. writers' = [writers EXCEPT ![w] = q]
  BY <1>1, <1>4, <1>5 DEF Inv, TypeOK
<1>9. /\ writers' \in [Writers -> Writer \cup {None}] /\ writers'[w] = q /\ q # None
      /\ \A v \in Writers \ {w} : writers'[v] = writers[v]
  BY <1>7, <1>8, Replaces DEF Inv
<1>10. TypeOK'
  BY <1>1, <1>9 DEF Inv, TypeOK, history
<1>11. \A t \in Subjects : q.staged[t] = IF t = s THEN ops ELSE r.staged[t]
  BY <1>1, <1>6
<1>12. Shaped(w)'
  <2>1. at \in StepsOf(q.kind)
    BY <1>1, <1>6 DEF StepsOf, Edits
  <2>2. q.kind = "restore" => at = "land"
    BY <1>1, <1>2, <1>4, <1>6 DEF Shape
  <2>3. \A t \in Subjects : q.staged[t] # {} => q.op \in q.staged[t]
    BY <1>2, <1>4, <1>6, <1>11 DEF Shape
  <2>. QED
    BY <1>1, <1>3, <1>6, <1>9, <2>1, <2>2, <2>3 DEF Shaped, Shape, Commits, Edits
<1>13. Locks(w)'
  BY <1>1, <1>2, <1>6, <1>9, <1>11 DEF Locks
<1>14. Identities(w)'
  BY <1>1, <1>2, <1>9 DEF Identities
<1>15. Fresh(w)'
  <2>1. accepted[s] \subseteq docs[s] \/ s \in unlocked
    BY DEF Inv, OperationsSurvive
  <2>2. ASSUME r.kind \in Locking, NEW t \in Subjects \ unlocked, q.staged[t] # {}
        PROVE  accepted[t] \subseteq q.staged[t]
    <3>1. r.kind = "push"
      BY <1>1, <2>2 DEF Locking, Commits, Edits
    <3>2. CASE t = s
      BY <1>4, <1>11, <2>1, <2>2, <3>2
    <3>3. CASE t # s
      BY <1>1, <1>2, <1>11, <2>2, <3>1, <3>3 DEF Fresh
    <3>. QED
      BY <3>2, <3>3
  <2>. QED
    BY <1>1, <1>6, <1>9, <2>2 DEF Fresh, history
<1>16. OperationsSurvive'
  BY <1>1 DEF Inv, OperationsSurvive, history
<1>. QED
  BY <1>1, <1>9, <1>10, <1>12, <1>13, <1>14, <1>15, <1>16, OneTask DEF TaskOK, history

-----------------------------------------------------------------------------
(* What is stored *)

\* A task that ends.
LEMMA EndsInv ==
  ASSUME Inv, NEW w \in Writers, Releases(w),
         docs' \in [Subjects -> SUBSET Ops], tombs' \subseteq Subjects,
         accepted' \in [Subjects -> SUBSET Ops],
         authored' \subseteq Subjects, gone' \subseteq Subjects, loose' \subseteq Subjects,
         unlocked' \subseteq Subjects, unlocked \subseteq unlocked',
         OperationsSurvive',
         \A s \in Subjects :
           \/ lock[s] = w
           \/ s \in unlocked'
           \/ accepted'[s] \subseteq accepted[s],
         UNCHANGED <<requests, crashes>>
  PROVE  Inv'
<1>1. Frees(w) /\ writers' = [writers EXCEPT ![w] = None]
  BY DEF Releases
<1>2. /\ lock' \in [Subjects -> Writers \cup {None}]
      /\ importLock' \in [Imports -> Writers \cup {None}]
      /\ \A s \in Subjects : lock'[s] # w
      /\ \A i \in Imports : importLock'[i] # w
      /\ \A v \in Writers \ {w} :
           /\ \A s \in Subjects : lock'[s] = v <=> lock[s] = v
           /\ \A i \in Imports : importLock'[i] = v <=> importLock[i] = v
  BY <1>1, FreesFrame DEF Inv
<1>3. /\ writers' \in [Writers -> Writer \cup {None}] /\ writers'[w] = None
      /\ \A v \in Writers \ {w} : writers'[v] = writers[v]
  BY <1>1 DEF Inv, TypeOK
<1>4. TypeOK'
  BY <1>2, <1>3 DEF Inv, TypeOK
<1>5. TaskOK(w)'
  BY <1>2, <1>3, IdleTask
<1>. QED
  BY <1>2, <1>3, <1>4, <1>5, OneTask

LEMMA RefusesInv ==
  ASSUME Inv, NEW w \in Writers, Refuses(w)
  PROVE  Inv'
<1>1. writers[w] \in Writer /\ writers[w].subject \in Subjects
  BY WriterFields DEF Refuses, Inv, TypeOK
<1>2. loose' \subseteq Subjects
  BY <1>1 DEF Refuses, Inv, TypeOK
<1>3. /\ Releases(w)
      /\ UNCHANGED <<docs, tombs, requests, crashes, accepted, authored, unlocked, gone>>
  BY DEF Refuses
<1>4. OperationsSurvive'
  BY <1>3 DEF Inv, OperationsSurvive
<1>. QED
  BY <1>2, <1>3, <1>4, EndsInv DEF Inv, TypeOK

LEMMA LandsInv ==
  ASSUME Inv, NEW w \in Writers, Lands(w)
  PROVE  Inv'
<1>. DEFINE r == writers[w]
            new == {s \in Staged(w) : docs[s] = {}}
<1>1. /\ r \in Writer /\ r # None /\ r.at = "land"
      /\ r.staged \in [Subjects -> SUBSET Ops]
  BY WriterFields DEF Lands, Inv, TypeOK, At
<1>2. Shape(r) /\ Locks(w) /\ Fresh(w)
  BY <1>1 DEF Inv, TaskOK, Shaped
<1>3. r.op \in Ops
  BY <1>1, <1>2 DEF Shape, StepsOf, Edits
<1>4. Staged(w) \subseteq Subjects /\ new \subseteq Subjects
  BY DEF Staged
<1>5. \A s \in Staged(w) : r.op \in r.staged[s] /\ r.staged[s] \in SUBSET Ops
  BY <1>1, <1>2 DEF Shape, Staged
<1>6. /\ docs' = [s \in Subjects |-> IF s \in Staged(w) THEN r.staged[s] ELSE docs[s]]
      /\ accepted' = [s \in Subjects |->
           IF s \in Staged(w)
             THEN {r.op} \cup (IF s \in new THEN {} ELSE accepted[s])
             ELSE accepted[s]]
      /\ unlocked' = unlocked \cup {s \in Staged(w) : lock[s] # w}
      /\ UNCHANGED <<tombs, requests, crashes>>
  BY DEF Lands
<1>7. authored' \subseteq Subjects /\ gone' \subseteq Subjects /\ loose' \subseteq Subjects
  BY <1>4 DEF Lands, Inv, TypeOK
<1>8. docs' \in [Subjects -> SUBSET Ops] /\ accepted' \in [Subjects -> SUBSET Ops]
      /\ tombs' \subseteq Subjects /\ unlocked' \subseteq Subjects
  BY <1>3, <1>4, <1>5, <1>6 DEF Inv, TypeOK
<1>9. \A s \in Subjects :
        lock[s] = w \/ s \in unlocked' \/ accepted'[s] \subseteq accepted[s]
  BY <1>6
<1>10. OperationsSurvive'
  <2>1. ASSUME NEW s \in Subjects \ unlocked' PROVE accepted'[s] \subseteq docs'[s]
    <3>1. s \notin unlocked
      BY <1>6, <2>1
    <3>2. CASE s \notin Staged(w)
      BY <1>6, <3>1, <3>2 DEF Inv, OperationsSurvive
    <3>3. CASE s \in Staged(w)
      <4>1. lock[s] = w /\ r.kind \in Locking
        BY <1>1, <1>2, <1>6, <2>1, <3>3 DEF Locks
      <4>2. r.staged[s] # {}
        BY <3>3 DEF Staged
      <4>3. accepted[s] \subseteq r.staged[s]
        BY <1>1, <1>2, <3>1, <4>1, <4>2 DEF Fresh
      <4>. QED
        BY <1>5, <1>6, <3>3, <4>3
    <3>. QED
      BY <3>2, <3>3
  <2>. QED
    BY <2>1 DEF OperationsSurvive
<1>. HIDE DEF new
<1>11. CASE Is(w, {"restore"})
  <2>1. Frees(w) /\ Goes(w, "clear")
    BY <1>11 DEF Lands
  <2>2. /\ lock' \in [Subjects -> Writers \cup {None}]
        /\ importLock' \in [Imports -> Writers \cup {None}]
        /\ \A s \in Subjects : lock'[s] # w
        /\ \A i \in Imports : importLock'[i] # w
        /\ \A v \in Writers \ {w} :
             /\ \A s \in Subjects : lock'[s] = v <=> lock[s] = v
             /\ \A i \in Imports : importLock'[i] = v <=> importLock[i] = v
    BY <2>1, FreesFrame DEF Inv
  <2>3. /\ writers' \in [Writers -> Writer \cup {None}]
        /\ writers'[w] # None /\ writers'[w].at = "clear"
        /\ writers'[w].kind = r.kind /\ writers'[w].op = r.op /\ writers'[w].staged = r.staged
        /\ \A v \in Writers \ {w} : writers'[v] = writers[v]
    BY <1>1, <2>1, GoesFields DEF Inv, Steps
  <2>4. TypeOK'
    BY <1>6, <1>7, <1>8, <2>2, <2>3 DEF Inv, TypeOK
  <2>5. r.kind = "restore" /\ "clear" \in StepsOf("restore")
    BY <1>11 DEF Is, StepsOf, Edits
  <2>6. Shaped(w)'
    BY <1>2, <1>3, <2>3, <2>5 DEF Shaped, Shape
  <2>7. Locks(w)' /\ Identities(w)' /\ Fresh(w)'
    BY <2>2, <2>3, <2>5 DEF Locks, Identities, Fresh, Locking, Commits, Edits
  <2>. QED
    BY <1>6, <1>9, <1>10, <2>2, <2>3, <2>4, <2>6, <2>7, OneTask DEF TaskOK
<1>12. CASE ~Is(w, {"restore"})
  <2>1. Releases(w)
    BY <1>12 DEF Lands
  <2>. QED
    BY <1>6, <1>7, <1>8, <1>9, <1>10, <2>1, EndsInv
<1>. QED
  BY <1>11, <1>12

LEMMA ClearsInv ==
  ASSUME Inv, NEW w \in Writers, Clears(w)
  PROVE  Inv'
<1>1. /\ Releases(w) /\ tombs' \subseteq Subjects
      /\ loose' \subseteq Subjects
      /\ UNCHANGED <<docs, requests, crashes, accepted, authored, unlocked, gone>>
  BY DEF Clears, Inv, TypeOK
<1>2. OperationsSurvive'
  BY <1>1 DEF Inv, OperationsSurvive
<1>. QED
  BY <1>1, <1>2, EndsInv DEF Inv, TypeOK

-----------------------------------------------------------------------------
(* Removals *)

\* A removal that goes on: it stages nothing and holds the locks it held.
LEMMA RemovalInv ==
  ASSUME Inv, NEW w \in Writers, writers[w] # None, writers[w].kind \in {"destroy", "remove"},
         NEW at \in StepsOf(writers[w].kind) \ {"lock", "read", "land"},
         writers' \in [Writers -> Writer \cup {None}],
         writers'[w] # None, writers'[w].at = at,
         writers'[w].kind = writers[w].kind, writers'[w].staged = writers[w].staged,
         writers'[w].op = writers[w].op,
         \A v \in Writers \ {w} : writers'[v] = writers[v],
         writers[w].at # "land",
         docs' \in [Subjects -> SUBSET Ops], tombs' \subseteq Subjects,
         accepted' \in [Subjects -> SUBSET Ops],
         gone' \subseteq Subjects, loose' \subseteq Subjects,
         OperationsSurvive',
         \A s \in Subjects : accepted'[s] \subseteq accepted[s],
         UNCHANGED <<lock, importLock, requests, crashes, authored, unlocked>>
  PROVE  Inv'
<1>1. TypeOK'
  BY DEF Inv, TypeOK
<1>2. Shape(writers[w]) /\ Locks(w) /\ Identities(w)
  BY DEF Inv, TaskOK, Shaped
<1>3. Shaped(w)'
  <2>1. \A t \in Subjects : writers[w].staged[t] # {} => writers[w].op \in writers[w].staged[t]
    BY <1>2 DEF Shape
  <2>2. at \in StepsOf(writers'[w].kind) /\ at \notin {"lock", "read"}
    OBVIOUS
  <2>. QED
    BY <2>1, <2>2 DEF Shaped, Shape, Commits
<1>4. Locks(w)' /\ Identities(w)' /\ Fresh(w)'
  BY <1>2 DEF Locks, Identities, Fresh
<1>. QED
  BY <1>1, <1>3, <1>4, OneTask DEF TaskOK

LEMMA SubtreeType == \A s \in Subjects : Subtree(s) \in SUBSET Subjects
BY DEF Subtree

LEMMA CollectsInv ==
  ASSUME Inv, NEW w \in Writers, Collects(w)
  PROVE  Inv'
<1>. DEFINE r == writers[w]
<1>1. r \in Writer /\ r # None /\ r.at = "collect" /\ r.subject \in Subjects
  BY WriterFields DEF Collects, Inv, TypeOK, At
<1>2. r.kind \in {"destroy", "remove"}
  <2>1. Shape(r)
    BY <1>1 DEF Inv, TaskOK, Shaped
  <2>. QED
    BY <1>1, <2>1 DEF Shape, StepsOf
<1>3. UNCHANGED <<docs, tombs, requests, crashes, history>>
  BY DEF Collects
<1>4. OperationsSurvive'
  BY <1>3 DEF Inv, OperationsSurvive, history
<1>5. CASE docs[r.subject] # {}
  <2>1. PICK R \in SUBSET Subjects : R = Subtree(r.subject)
    BY <1>1, SubtreeType
  <2>2. PICK q : q = [r EXCEPT !.at = "erase", !.removed = R]
    OBVIOUS
  <2>3. q \in Writer /\ q.at = "erase" /\ q.kind = r.kind /\ q.staged = r.staged /\ q.op = r.op
    BY <1>1, <2>2 DEF Writer, Steps
  <2>4. writers' = [writers EXCEPT ![w] = q] /\ UNCHANGED <<lock, importLock>>
    BY <1>5, <2>1, <2>2 DEF Collects
  <2>5. /\ writers' \in [Writers -> Writer \cup {None}] /\ writers'[w] = q /\ q # None
        /\ \A v \in Writers \ {w} : writers'[v] = writers[v]
    BY <2>3, <2>4, Replaces DEF Inv
  <2>6. "erase" \in StepsOf(r.kind) \ {"lock", "read", "land"}
    BY <1>2 DEF StepsOf, Edits
  <2>. QED
    BY <1>1, <1>2, <1>3, <1>4, <2>3, <2>4, <2>5, <2>6, RemovalInv DEF Inv, TypeOK, history
<1>6. CASE docs[r.subject] = {} /\ Is(w, {"remove"})
  <2>1. Goes(w, "again") /\ UNCHANGED <<lock, importLock>>
    BY <1>6 DEF Collects
  <2>2. /\ writers' \in [Writers -> Writer \cup {None}]
        /\ writers'[w] # None /\ writers'[w].at = "again"
        /\ writers'[w].kind = r.kind /\ writers'[w].op = r.op /\ writers'[w].staged = r.staged
        /\ \A v \in Writers \ {w} : writers'[v] = writers[v]
    BY <1>1, <2>1, GoesFields DEF Inv, Steps
  <2>3. "again" \in StepsOf(r.kind) \ {"lock", "read", "land"}
    BY <1>6 DEF StepsOf, Edits, Is
  <2>. QED
    BY <1>1, <1>2, <1>3, <1>4, <2>1, <2>2, <2>3, RemovalInv DEF Inv, TypeOK, history
<1>7. CASE docs[r.subject] = {} /\ ~Is(w, {"remove"})
  <2>1. Releases(w)
    BY <1>7 DEF Collects
  <2>. QED
    BY <1>3, <1>4, <2>1, EndsInv DEF Inv, TypeOK, history
<1>. QED
  BY <1>5, <1>6, <1>7

LEMMA ErasesInv ==
  ASSUME Inv, NEW w \in Writers, Erases(w)
  PROVE  Inv'
<1>. DEFINE r == writers[w]
<1>1. r \in Writer /\ r # None /\ r.at = "erase" /\ r.removed \in SUBSET Subjects
  BY WriterFields DEF Erases, Inv, TypeOK, At
<1>2. r.kind \in {"destroy", "remove"}
  <2>1. Shape(r)
    BY <1>1 DEF Inv, TaskOK, Shaped
  <2>. QED
    BY <1>1, <2>1 DEF Shape, StepsOf
<1>3. PICK R \in SUBSET Subjects :
        /\ docs' = [s \in Subjects |-> IF s \in R THEN {} ELSE docs[s]]
        /\ accepted' = [s \in Subjects |-> IF s \in R THEN {} ELSE accepted[s]]
        /\ gone' = gone \cup R
        /\ loose' = loose \cup {s \in R : lock[s] # w}
  BY <1>1 DEF Erases
<1>4. Goes(w, "bury")
      /\ UNCHANGED <<tombs, lock, importLock, requests, crashes, authored, unlocked>>
  BY DEF Erases
<1>5. /\ writers' \in [Writers -> Writer \cup {None}]
      /\ writers'[w] # None /\ writers'[w].at = "bury"
      /\ writers'[w].kind = r.kind /\ writers'[w].op = r.op /\ writers'[w].staged = r.staged
      /\ \A v \in Writers \ {w} : writers'[v] = writers[v]
  BY <1>1, <1>4, GoesFields DEF Inv, Steps
<1>6. "bury" \in StepsOf(r.kind) \ {"lock", "read", "land"}
  BY <1>2 DEF StepsOf, Edits
<1>7. /\ docs' \in [Subjects -> SUBSET Ops] /\ accepted' \in [Subjects -> SUBSET Ops]
      /\ gone' \subseteq Subjects /\ loose' \subseteq Subjects
      /\ \A s \in Subjects : accepted'[s] \subseteq accepted[s]
  BY <1>3 DEF Inv, TypeOK
<1>8. OperationsSurvive'
  BY <1>3, <1>4 DEF Inv, OperationsSurvive
<1>. QED
  BY <1>1, <1>2, <1>4, <1>5, <1>6, <1>7, <1>8, RemovalInv DEF Inv, TypeOK

LEMMA BuriesInv ==
  ASSUME Inv, NEW w \in Writers, NEW s \in Subjects, Buries(w, s)
  PROVE  Inv'
<1>. DEFINE r == writers[w]
<1>1. r \in Writer /\ r # None /\ r.at = "bury" /\ r.removed \in SUBSET Subjects
  BY WriterFields DEF Buries, Inv, TypeOK, At
<1>2. r.kind \in {"destroy", "remove"}
  <2>1. Shape(r)
    BY <1>1 DEF Inv, TaskOK, Shaped
  <2>. QED
    BY <1>1, <2>1 DEF Shape, StepsOf
<1>3. tombs' \subseteq Subjects /\ UNCHANGED <<docs, requests, crashes, history>>
  BY DEF Buries, Buried, Inv, TypeOK
<1>4. OperationsSurvive'
  BY <1>3 DEF Inv, OperationsSurvive, history
<1>5. CASE r.removed # {s}
  <2>1. PICK q : q = [r EXCEPT !.removed = r.removed \ {s}]
    OBVIOUS
  <2>2. q \in Writer /\ q.at = "bury" /\ q.kind = r.kind /\ q.staged = r.staged /\ q.op = r.op
    <3>1. r.removed \ {s} \in SUBSET Subjects
      BY <1>1
    <3>. QED
      BY <1>1, <2>1, <3>1 DEF Writer, Steps
  <2>3. writers' = [writers EXCEPT ![w] = q] /\ UNCHANGED <<lock, importLock>>
    BY <1>5, <2>1 DEF Buries
  <2>4. /\ writers' \in [Writers -> Writer \cup {None}] /\ writers'[w] = q /\ q # None
        /\ \A v \in Writers \ {w} : writers'[v] = writers[v]
    BY <2>2, <2>3, Replaces DEF Inv
  <2>5. "bury" \in StepsOf(r.kind) \ {"lock", "read", "land"}
    BY <1>2 DEF StepsOf, Edits
  <2>. QED
    BY <1>1, <1>2, <1>3, <1>4, <2>2, <2>3, <2>4, <2>5, RemovalInv DEF Inv, TypeOK, history
<1>6. CASE r.removed = {s} /\ Is(w, {"remove"})
  <2>1. Goes(w, "again") /\ UNCHANGED <<lock, importLock>>
    BY <1>6 DEF Buries
  <2>2. /\ writers' \in [Writers -> Writer \cup {None}]
        /\ writers'[w] # None /\ writers'[w].at = "again"
        /\ writers'[w].kind = r.kind /\ writers'[w].op = r.op /\ writers'[w].staged = r.staged
        /\ \A v \in Writers \ {w} : writers'[v] = writers[v]
    BY <1>1, <2>1, GoesFields DEF Inv, Steps
  <2>3. "again" \in StepsOf(r.kind) \ {"lock", "read", "land"}
    BY <1>6 DEF StepsOf, Edits, Is
  <2>. QED
    BY <1>1, <1>2, <1>3, <1>4, <2>1, <2>2, <2>3, RemovalInv DEF Inv, TypeOK, history
<1>7. CASE r.removed = {s} /\ ~Is(w, {"remove"})
  <2>1. Releases(w)
    BY <1>7 DEF Buries
  <2>. QED
    BY <1>3, <1>4, <2>1, EndsInv DEF Inv, TypeOK, history
<1>. QED
  BY <1>5, <1>6, <1>7

LEMMA BuriesAgainInv ==
  ASSUME Inv, NEW w \in Writers, BuriesAgain(w)
  PROVE  Inv'
<1>1. writers[w].subject \in Subjects
  BY WriterFields DEF BuriesAgain, Inv, TypeOK, At
<1>2. /\ Releases(w) /\ tombs' \subseteq Subjects /\ loose' \subseteq Subjects
      /\ UNCHANGED <<docs, requests, crashes, accepted, authored, unlocked, gone>>
  BY <1>1 DEF BuriesAgain, Inv, TypeOK
<1>3. OperationsSurvive'
  BY <1>2 DEF Inv, OperationsSurvive
<1>. QED
  BY <1>2, <1>3, EndsInv DEF Inv, TypeOK

LEMMA CrashInv == ASSUME Inv, Crash PROVE Inv'
<1>1. loose' \subseteq loose \cup gone
  BY DEF Crash
<1>2. loose' \subseteq Subjects
  BY <1>1 DEF Inv, TypeOK
<1>3. TypeOK'
  BY <1>2 DEF Crash, Inv, TypeOK
<1>4. \A w \in Writers : TaskOK(w)'
  BY IdleTask DEF Crash
<1>5. OperationsSurvive'
  BY DEF Crash, Inv, OperationsSurvive
<1>. QED
  BY <1>3, <1>4, <1>5 DEF Inv

-----------------------------------------------------------------------------
(* What follows for every behaviour *)

LEMMA AskedInv == ASSUME Inv, NEW w \in Writers, Asked(w) PROVE Inv'
BY CommitInv, DestroyInv, UpdateInv, ManyInv, RemoveInv, RestoreInv DEF Asked

LEMMA StepInv == ASSUME Inv, NEW w \in Writers, Step(w) PROVE Inv'
BY LocksSubjectInv, LocksImportInv, ReadsForCommitInv, ReadsForDestroyInv, MergesUpdateInv,
   RefusesInv, LandsInv, ClearsInv, CollectsInv, ErasesInv, BuriesAgainInv, ReadsEntryInv,
   BuriesInv
DEF Step

LEMMA StutterInv == ASSUME Inv, UNCHANGED vars PROVE Inv'
<1>1. UNCHANGED <<docs, tombs, lock, importLock, writers, requests, crashes, accepted, authored,
                  unlocked, gone, loose>>
  BY DEF vars, history
<1>2. TypeOK' /\ OperationsSurvive'
  BY <1>1 DEF Inv, TypeOK, OperationsSurvive
<1>3. ASSUME NEW v \in Writers PROVE TaskOK(v)'
  BY <1>1, OthersStay DEF Inv
<1>. QED
  BY <1>2, <1>3 DEF Inv

\* The inductive invariant holds throughout.
THEOREM Invariance == Spec => []Inv
<1>1. Inv /\ [Next]_vars => Inv'
  BY CrashInv, AskedInv, StepInv, StutterInv DEF Next
<1>. QED
  BY <1>1, InitInv, PTL DEF Spec

\* Every variable keeps its type (db.rs:4997).
THEOREM TypeCorrect == Spec => []TypeOK
<1>1. Inv => TypeOK
  BY DEF Inv
<1>. QED
  BY <1>1, Invariance, PTL

\* No operation written under the subject locks is lost, whoever writes beside
\* (db.rs:5004, ws_apply.rs:236).
THEOREM WritesSurvive == Spec => []OperationsSurvive
<1>1. Inv => OperationsSurvive
  BY DEF Inv
<1>. QED
  BY <1>1, Invariance, PTL

\* A task that waits for an identity waits for one whose own next identity comes later.
LEMMA IdentityOrder ==
  ASSUME Inv, NEW v \in Writers, NEW i \in Imports, importLock[i] = v
  PROVE  /\ ~At(v, "lock")
         /\ Unlocked(v) # {} => Least(Unlocked(v)) \in Imports /\ i < Least(Unlocked(v))
<1>1. writers[v] # None /\ writers[v].at = "land"
  BY DEF Inv, TaskOK, Identities
<1>2. \A j \in Unlocked(v) : i < j
  BY <1>1 DEF Inv, TaskOK, Identities
<1>3. Unlocked(v) \subseteq Imports
  <2>1. Staged(v) \in SUBSET Subjects
    BY DEF Staged
  <2>. QED
    BY <2>1, ImportsType DEF Unlocked
<1>4. ASSUME Unlocked(v) # {} PROVE Least(Unlocked(v)) \in Unlocked(v)
  BY <1>3, <1>4, LeastIn
<1>. QED
  BY <1>1, <1>2, <1>3, <1>4 DEF At

\* A task that waits for a subject waits for one whose own next subject comes later, or that
\* has all of its subjects.
LEMMA SubjectOrder ==
  ASSUME Inv, NEW v \in Writers, At(v, "lock")
  PROVE  /\ NextSubject(v) \in Subjects
         /\ \A s \in Subjects : lock[s] = v => s < NextSubject(v)
<1>. DEFINE S == {t \in writers[v].left : lock[t] # v}
<1>1. writers[v] # None /\ writers[v].at = "lock"
  BY DEF At
<1>2. S # {} /\ S \subseteq Subjects
  BY <1>1, WriterFields DEF Inv, TypeOK, TaskOK, Locks
<1>3. NextSubject(v) \in S
  BY <1>2, LeastIn DEF NextSubject
<1>. QED
  BY <1>1, <1>2, <1>3 DEF Inv, TaskOK, Locks

\* Of tasks that all wait, one waits for the last key anybody waits for; its holder waits for
\* a later one.
LEMMA NoCircle == ASSUME Inv PROVE NoCircularWait
<1>1. SUFFICES ASSUME NEW W \in (SUBSET Writers) \ {{}},
                      \A w \in W : \E v \in W : WaitsFor(w, v)
               PROVE  FALSE
  BY DEF NoCircularWait
<1>2. None \notin W
  OBVIOUS
<1>. DEFINE ForIdentity(w) == At(w, "land") /\ Unlocked(w) # {}
            I == {i \in Imports : \E w \in W : ForIdentity(w) /\ i = Least(Unlocked(w))}
            S == {s \in Subjects : \E w \in W : At(w, "lock") /\ s = NextSubject(w)}
<1>3. ASSUME NEW w \in W, ForIdentity(w) PROVE FALSE
  <2>1. ASSUME NEW u \in W, ForIdentity(u)
        PROVE  /\ Least(Unlocked(u)) \in I
               /\ importLock[Least(Unlocked(u))] \in W
    <3>1. Staged(u) \in SUBSET Subjects
      BY DEF Staged
    <3>2. Unlocked(u) \subseteq Imports
      BY <3>1, ImportsType DEF Unlocked
    <3>3. Least(Unlocked(u)) \in Imports
      BY <2>1, <3>2, LeastIn
    <3>4. ~At(u, "lock")
      BY <2>1 DEF At
    <3>5. importLock[Least(Unlocked(u))] \in W
      BY <1>1, <3>4 DEF WaitsFor
    <3>. QED
      BY <2>1, <3>3, <3>5
  <2>2. I \in SUBSET Nat /\ IsFiniteSet(I) /\ I # {}
    <3>1. I \subseteq Imports /\ I # {}
      BY <1>3, <2>1
    <3>. QED
      BY <3>1, FS_Subset
  <2>3. PICK i \in I : \A j \in I : j <= i
    BY <2>2, FirstAndLast DEF Extremes
  <2>4. PICK u \in W : ForIdentity(u) /\ i = Least(Unlocked(u))
    BY <2>3
  <2>5. PICK v \in W : importLock[i] = v
    BY <2>1, <2>4
  <2>6. ~At(v, "lock") /\ (Unlocked(v) # {} => i < Least(Unlocked(v)))
    BY <2>3, <2>5, IdentityOrder
  <2>7. ForIdentity(v)
    BY <1>1, <2>6 DEF WaitsFor
  <2>8. Least(Unlocked(v)) \in I /\ i < Least(Unlocked(v))
    BY <2>1, <2>6, <2>7
  <2>. QED
    BY <2>2, <2>3, <2>8
<1>4. \A w \in W : At(w, "lock") /\ lock[NextSubject(w)] \in W
  BY <1>1, <1>3 DEF WaitsFor
<1>5. \A w \in W : NextSubject(w) \in S
  BY <1>4, SubjectOrder
<1>6. S \in SUBSET Nat /\ IsFiniteSet(S) /\ S # {}
  <2>1. S \subseteq Subjects /\ S # {}
    BY <1>1, <1>5
  <2>. QED
    BY <2>1, FS_Subset
<1>7. PICK s \in S : \A t \in S : t <= s
  BY <1>6, FirstAndLast DEF Extremes
<1>8. PICK w \in W : s = NextSubject(w)
  BY <1>7
<1>9. PICK v \in W : lock[s] = v
  BY <1>4, <1>8
<1>10. s < NextSubject(v) /\ NextSubject(v) \in S
  BY <1>4, <1>5, <1>7, <1>9, SubjectOrder
<1>. QED
  BY <1>6, <1>7, <1>10

\* Tasks never wait for each other's locks in a circle, however many subjects and identities
\* a push or a batch takes (engine.rs:2033, db.rs:882).
THEOREM LocksAreOrdered == Spec => []NoCircularWait
<1>1. Inv => NoCircularWait
  BY NoCircle
<1>. QED
  BY <1>1, Invariance, PTL

-----------------------------------------------------------------------------
(* What is about to be said of a resource, and by whom *)

\* A removal that has not recorded the tombstone yet.
Burying(w, s) == At(w, "bury") /\ s \in writers[w].removed

\* A commit that lifted the tombstone for a resource it has not written yet.
Lifting(w, s) == At(w, "land") /\ Is(w, {"genesis"}) /\ s \in Staged(w)

Pending(w, s) == Burying(w, s) \/ Lifting(w, s)

\* What was removed has its tombstone, or a task that will see to it.
GoneIsKnown == \A s \in gone \ loose : s \in tombs \/ \E w \in Writers : Pending(w, s)

\* A removal keeps what it removed from coming back until the tombstone is there.
Guards(w) ==
  \A s \in Subjects : Burying(w, s) => s \in loose \/ (docs[s] = {} /\ lock[s] = w)

\* Tasks that looked at the tombstones before they staged.
Looked(w) ==
  \/ At(w, "land") /\ Is(w, Edits \cup {"push"})
  \/ At(w, "read") /\ Is(w, {"push"})

\* What such a task stages is still not tombstoned, and only a genesis brings back what was
\* removed.
Admits(w) ==
  Looked(w) => \A s \in Staged(w) :
    s \in loose \/ (s \notin tombs /\ (s \in gone => Is(w, {"genesis"})))

\* A commit or a restore writes one resource, and has the identity to itself.
Claims(w) ==
  writers[w] # None /\ Is(w, Checked) =>
    /\ Staged(w) \subseteq {writers[w].subject}
    /\ \A i \in Imports : importLock[i] = w =>
         \A t \in Stored \cap authored : ImportOf[t] = i => t = writers[w].subject

Tidy(w) == Guards(w) /\ Admits(w) /\ Claims(w)

Records ==
  /\ TombstonesAreForTheGone /\ DeletedStaysDeleted /\ OneRecordPerImport
  /\ GoneIsKnown
  /\ \A w \in Writers : Tidy(w)

-----------------------------------------------------------------------------
(* Frames *)

\* Another task's step leaves a task tidy: what it has locked is not disturbed.
LEMMA OthersTidy ==
  ASSUME NEW v \in Writers, Tidy(v), Locks(v),
         writers'[v] = writers[v], loose \subseteq loose',
         \A s \in Subjects : lock'[s] = v <=> lock[s] = v,
         \A i \in Imports : importLock'[i] = v <=> importLock[i] = v,
         \A s \in Subjects : lock[s] = v =>
           \/ s \in loose'
           \/ /\ docs[s] = {} => docs'[s] = {}
              /\ s \in tombs' => s \in tombs
              /\ s \in gone' => s \in gone,
         \A t \in Stored' \cap authored' :
           \/ t \in Stored \cap authored
           \/ ImportOf[t] = None
           \/ importLock[ImportOf[t]] # v
  PROVE  Tidy(v)'
<1>1. Guards(v)'
  BY DEF Tidy, Guards, Burying, At
<1>2. Admits(v)'
  <2>1. Staged(v)' = Staged(v) /\ Staged(v) \subseteq Subjects
    BY DEF Staged
  <2>2. Looked(v)' <=> Looked(v)
    BY DEF Looked, At, Is
  <2>3. ASSUME Looked(v), NEW s \in Staged(v) PROVE lock[s] = v
    <3>1. s \in Subjects /\ writers[v].staged[s] # {}
      BY DEF Staged
    <3>2. writers[v] # None /\ writers[v].kind \in Locking /\ writers[v].at \in {"read", "land"}
      BY <2>3 DEF Looked, At, Is, Locking, Commits
    <3>. QED
      BY <3>1, <3>2 DEF Locks
  <2>4. ASSUME Looked(v), NEW s \in Staged(v)
        PROVE  s \in loose' \/ (s \notin tombs' /\ (s \in gone' => Is(v, {"genesis"})'))
    <3>1. s \in Subjects /\ lock[s] = v
      BY <2>1, <2>3, <2>4
    <3>2. s \in loose \/ (s \notin tombs /\ (s \in gone => Is(v, {"genesis"})))
      BY <2>4 DEF Tidy, Admits
    <3>3. Is(v, {"genesis"})' <=> Is(v, {"genesis"})
      BY DEF Is
    <3>. QED
      BY <3>1, <3>2, <3>3
  <2>. QED
    BY <2>1, <2>2, <2>4 DEF Admits
<1>3. Claims(v)'
  <2>1. Staged(v)' = Staged(v)
    BY DEF Staged
  <2>2. ASSUME writers[v] # None, Is(v, Checked), NEW i \in Imports, importLock'[i] = v,
               NEW t \in Stored' \cap authored', ImportOf[t] = i
        PROVE  t = writers[v].subject
    <3>1. importLock[i] = v /\ i # None
      BY <2>2
    <3>2. t \in Stored \cap authored
      BY <2>2, <3>1
    <3>. QED
      BY <2>2, <3>1, <3>2 DEF Tidy, Claims
  <2>. QED
    BY <2>1, <2>2 DEF Tidy, Claims, At, Is
<1>. QED
  BY <1>1, <1>2, <1>3 DEF Tidy

\* A step of one task keeps the records when it keeps what is said of that task and of the
\* store, leaves the others' locked resources alone, and leaves no removal unknown.
LEMMA OneTaskRecords ==
  ASSUME Inv, Records, NEW w \in Writers,
         TombstonesAreForTheGone', DeletedStaysDeleted', OneRecordPerImport', Tidy(w)',
         loose \subseteq loose',
         \A v \in Writers \ {w} :
           /\ writers'[v] = writers[v]
           /\ \A s \in Subjects : lock'[s] = v <=> lock[s] = v
           /\ \A i \in Imports : importLock'[i] = v <=> importLock[i] = v,
         \A s \in Subjects :
           \/ lock[s] = w
           \/ s \in loose'
           \/ /\ docs[s] = {} => docs'[s] = {}
              /\ s \in tombs' => s \in tombs
              /\ s \in gone' => s \in gone,
         \A t \in Stored' \cap authored' :
           \/ t \in Stored \cap authored
           \/ ImportOf[t] = None
           \/ importLock[ImportOf[t]] = w,
         \A s \in gone' \ loose' :
           \/ s \in tombs' \/ Pending(w, s)'
           \/ s \in gone /\ s \notin tombs /\ ~Pending(w, s)
  PROVE  Records'
<1>1. ASSUME NEW v \in Writers \ {w} PROVE Tidy(v)'
  BY <1>1, OthersTidy DEF Inv, TaskOK, Records
<1>2. GoneIsKnown'
  <2>1. ASSUME NEW s \in gone' \ loose', s \notin tombs', ~Pending(w, s)'
        PROVE  \E v \in Writers : Pending(v, s)'
    <3>1. s \in gone \ loose /\ s \notin tombs /\ ~Pending(w, s)
      BY <2>1
    <3>2. PICK v \in Writers : Pending(v, s)
      BY <3>1 DEF Records, GoneIsKnown
    <3>3. v # w /\ writers'[v] = writers[v]
      BY <3>1, <3>2
    <3>4. Pending(v, s)'
      BY <3>2, <3>3 DEF Pending, Burying, Lifting, At, Is, Staged
    <3>. QED
      BY <3>4
  <2>. QED
    BY <2>1 DEF GoneIsKnown
<1>. QED
  BY <1>1, <1>2 DEF Records

\* A step that stores nothing.
LEMMA QuietStep ==
  ASSUME Inv, Records, NEW w \in Writers, Tidy(w)',
         UNCHANGED <<docs, tombs, gone, authored>>, loose \subseteq loose',
         \A v \in Writers \ {w} :
           /\ writers'[v] = writers[v]
           /\ \A s \in Subjects : lock'[s] = v <=> lock[s] = v
           /\ \A i \in Imports : importLock'[i] = v <=> importLock[i] = v,
         \A s \in gone : Pending(w, s) => s \in loose' \/ Pending(w, s)'
  PROVE  Records'
<1>1. Stored' = Stored
  BY DEF Stored
<1>2. TombstonesAreForTheGone' /\ DeletedStaysDeleted' /\ OneRecordPerImport'
  BY <1>1 DEF Records, TombstonesAreForTheGone, DeletedStaysDeleted, OneRecordPerImport
<1>3. \A s \in gone' \ loose' :
        \/ s \in tombs' \/ Pending(w, s)'
        \/ s \in gone /\ s \notin tombs /\ ~Pending(w, s)
  OBVIOUS
<1>. QED
  BY <1>1, <1>2, <1>3, OneTaskRecords

\* A task that is done, or neither removes nor has looked at tombstones, is tidy.
LEMMA Elsewhere ==
  ASSUME Inv', NEW w \in Writers,
         writers'[w] # None =>
           /\ writers'[w].at \notin {"land", "bury"}
           /\ writers'[w].at = "read" => writers'[w].kind # "push"
           /\ Is(w, Checked)' => Staged(w)' \subseteq {writers'[w].subject}
  PROVE  Tidy(w)'
<1>1. \A i \in Imports : importLock'[i] # w
  BY DEF Inv, TaskOK, Identities
<1>. QED
  BY <1>1 DEF Tidy, Guards, Burying, Admits, Looked, Claims, At, Is

-----------------------------------------------------------------------------
(* Initial states and requests *)

LEMMA InitRecords == Init => Records
<1>. SUFFICES ASSUME Init PROVE Records
  OBVIOUS
<1>1. TombstonesAreForTheGone /\ DeletedStaysDeleted /\ GoneIsKnown
  BY DEF Init, TombstonesAreForTheGone, DeletedStaysDeleted, GoneIsKnown
<1>2. OneRecordPerImport
  BY DEF Init, OneRecordPerImport
<1>3. \A w \in Writers : Tidy(w)
  BY DEF Init, Tidy, Guards, Burying, Admits, Looked, Claims, At
<1>. QED
  BY <1>1, <1>2, <1>3 DEF Records

LEMMA BeginsRecords ==
  ASSUME Inv, Inv', Records, NEW w \in Writers, NEW r, Begins(w, r),
         r.at \notin {"land", "bury"}, r.at = "read" => r.kind # "push",
         r.kind \in Checked => \A t \in Subjects : r.staged[t] = {}
  PROVE  Records'
<1>1. /\ writers'[w] = r /\ writers[w] = None
      /\ \A v \in Writers \ {w} : writers'[v] = writers[v]
      /\ UNCHANGED <<docs, tombs, lock, importLock, crashes, history>>
  BY DEF Begins, Inv, TypeOK
<1>2. Tidy(w)'
  BY <1>1, Elsewhere DEF Is, Staged
<1>3. \A s \in gone : ~Pending(w, s)
  BY <1>1 DEF Pending, Burying, Lifting, At
<1>. QED
  BY <1>1, <1>2, <1>3, QuietStep DEF history

\* What is asked begins at a lock or, without one, at a read or at the subtree to remove.
LEMMA AskedRecords == ASSUME Inv, Inv', Records, NEW w \in Writers, Asked(w) PROVE Records'
<1>. DEFINE Fit(r) == Begins(w, r) /\ r.at \notin {"land", "bury"}
                        /\ (r.at = "read" => r.kind # "push")
                        /\ (r.kind \in Checked => \A t \in Subjects : r.staged[t] = {})
<1>0. {"destroy", "remove", "update", "push", "batch"} \cap Checked = {}
  BY DEF Checked, Edits
<1>1. ASSUME NEW s \in Subjects, Destroy(w, s) \/ Remove(w, s) PROVE \E r : Fit(r)
  <2>1. CASE Destroy(w, s)
    BY <1>0, <2>1 DEF Destroy, Request
  <2>2. CASE Remove(w, s)
    BY <1>0, <2>2 DEF Remove, Request
  <2>. QED
    BY <1>1, <2>1, <2>2
<1>2. ASSUME NEW kind \in Edits, NEW s \in Subjects, NEW o \in Ops, Commit(w, kind, s, o)
      PROVE  \E r : Fit(r)
  BY <1>2 DEF Commit, Request, Nothing
<1>3. ASSUME NEW s \in Subjects, NEW o \in Ops, Update(w, s, o) PROVE \E r : Fit(r)
  <2>1. PICK q : q = Request("lock", "update", s, o)
    OBVIOUS
  <2>2. PICK r : r = [q EXCEPT !.staged[s] = docs[s] \cup {o}]
    OBVIOUS
  <2>3. q.at = "lock" /\ q.kind = "update"
    BY <2>1 DEF Request
  <2>4. r.at = "lock" /\ r.kind = "update"
    <3>1. {"at", "kind"} \subseteq DOMAIN q
      BY <2>1 DEF Request
    <3>. QED
      BY <2>2, <2>3, <3>1
  <2>5. Begins(w, r)
    BY <1>3, <2>1, <2>2 DEF Update
  <2>. QED
    BY <1>0, <2>4, <2>5
<1>4. ASSUME NEW s \in Subjects, NEW o \in Ops, Restore(w, s, o) PROVE \E r : Fit(r)
  BY <1>4 DEF Restore, Request, Nothing
<1>5. ASSUME NEW S \in (SUBSET Subjects) \ {{}}, NEW o \in Ops, Push(w, S, o) \/ Batch(w, S, o)
      PROVE  \E r : Fit(r)
  <2>1. CASE Push(w, S, o)
    BY <1>0, <2>1 DEF Push, Request
  <2>2. CASE Batch(w, S, o)
    BY <1>0, <2>2 DEF Batch, Request
  <2>. QED
    BY <1>5, <2>1, <2>2
<1>6. \E r : Fit(r)
  BY <1>1, <1>2, <1>3, <1>4, <1>5 DEF Asked
<1>. QED
  BY <1>6, BeginsRecords

-----------------------------------------------------------------------------
(* Locks *)

LEMMA LocksSubjectRecords ==
  ASSUME Inv, Inv', Records, NEW w \in Writers, LocksSubject(w) PROVE Records'
<1>1. At(w, "lock") /\ Takes(w, NextSubject(w))
  BY DEF LocksSubject
<1>2. NextSubject(w) \in Subjects
  BY <1>1, SubjectOrder
<1>3. PICK s \in Subjects :
        /\ lock[s] = None /\ lock' = [lock EXCEPT ![s] = w]
        /\ UNCHANGED <<docs, tombs, importLock, requests, crashes, history>>
  BY <1>1, <1>2 DEF Takes
<1>4. PICK at \in {"read", "lock"} : Goes(w, at)
  BY <1>1 DEF Takes
<1>5. /\ writers[w] # None /\ writers[w].at = "lock"
      /\ writers'[w] # None /\ writers'[w].at = at
      /\ writers'[w].kind = writers[w].kind /\ writers'[w].staged = writers[w].staged
      /\ writers'[w].subject = writers[w].subject
      /\ \A v \in Writers \ {w} : writers'[v] = writers[v]
  BY <1>1, <1>4, GoesFields DEF Inv, Steps, At
<1>6. \A v \in Writers \ {w} : \A t \in Subjects : lock'[t] = v <=> lock[t] = v
  BY <1>3 DEF Inv, TypeOK
<1>7. Tidy(w)'
  <2>1. \A i \in Imports : importLock'[i] # w
    BY <1>5 DEF Inv, TaskOK, Identities
  <2>2. Guards(w)' /\ Claims(w)'
    BY <1>5, <2>1 DEF Guards, Burying, Records, Tidy, Claims, At, Is, Staged
  <2>3. Admits(w)'
    <3>1. ASSUME writers[w].kind = "push" PROVE Staged(w)' = {}
      <4>1. \A t \in Subjects : writers[w].staged[t] = {}
        BY <1>5, <3>1 DEF Inv, TaskOK, Shaped, Shape
      <4>. QED
        BY <1>5, <4>1 DEF Staged
    <3>. QED
      BY <1>5, <3>1 DEF Admits, Looked, At, Is
  <2>. QED
    BY <2>2, <2>3 DEF Tidy
<1>8. \A t \in gone : ~Pending(w, t)
  BY <1>5 DEF Pending, Burying, Lifting, At
<1>. QED
  BY <1>3, <1>5, <1>6, <1>7, <1>8, QuietStep DEF history

\* The identity is taken by a task that saw nobody else hold it.
LEMMA LocksImportRecords ==
  ASSUME Inv, Inv', Records, NEW w \in Writers, LocksImport(w) PROVE Records'
<1>1. /\ At(w, "land") /\ Unlocked(w) # {} /\ MayImport(w)
      /\ importLock[Least(Unlocked(w))] = None
      /\ importLock' = [importLock EXCEPT ![Least(Unlocked(w))] = w]
      /\ UNCHANGED <<docs, tombs, lock, writers, requests, crashes, history>>
  BY DEF LocksImport
<1>2. Staged(w) \in SUBSET Subjects
  BY DEF Staged
<1>3. Unlocked(w) \subseteq Imports
  BY <1>2, ImportsType DEF Unlocked
<1>4. PICK i \in Unlocked(w) : i = Least(Unlocked(w))
  BY <1>1, <1>3, LeastIn
<1>5. /\ i \in Imports /\ importLock[i] = None
      /\ \A j \in Imports : importLock'[j] = IF j = i THEN w ELSE importLock[j]
  BY <1>1, <1>3, <1>4 DEF Inv, TypeOK
<1>6. Stored' = Stored /\ Staged(w)' = Staged(w) /\ authored' = authored
  BY <1>1 DEF Stored, Staged, history
<1>7. Claims(w)'
  <2>1. Staged(w) \subseteq {writers[w].subject} \/ ~Is(w, Checked)
    BY <1>1 DEF Records, Tidy, Claims, At
  <2>2. ASSUME Is(w, Checked), NEW t \in Stored, ImportOf[t] = i
        PROVE  t = writers[w].subject
    <3>1. i = ImportOf[writers[w].subject]
      BY <2>1, <2>2 DEF Unlocked, ImportsOf
    <3>. QED
      BY <1>1, <2>2, <3>1 DEF MayImport
  <2>3. ASSUME Is(w, Checked), NEW j \in Imports, importLock'[j] = w,
               NEW t \in Stored \cap authored, ImportOf[t] = j
        PROVE  t = writers[w].subject
    <3>1. CASE j = i
      BY <2>2, <2>3, <3>1
    <3>2. CASE j # i
      <4>1. importLock[j] = w /\ writers[w] # None
        BY <1>1, <1>5, <2>3, <3>2 DEF At
      <4>. QED
        BY <2>3, <4>1 DEF Records, Tidy, Claims
    <3>. QED
      BY <3>1, <3>2
  <2>. QED
    BY <1>1, <1>6, <2>1, <2>3 DEF Claims, Is
<1>8. Guards(w)' /\ Admits(w)'
  <2>1. Guards(w) /\ Admits(w)
    BY DEF Records, Tidy
  <2>. QED
    BY <1>1, <1>6, <2>1 DEF Guards, Burying, Admits, Looked, At, Is, history
<1>9. \A s \in gone : Pending(w, s) => Pending(w, s)'
  BY <1>1, <1>6 DEF Pending, Burying, Lifting, At, Is
<1>. QED
  BY <1>1, <1>5, <1>7, <1>8, <1>9, QuietStep DEF Tidy, history

-----------------------------------------------------------------------------
(* Reading and merging *)

LEMMA StagesFields ==
  ASSUME TypeOK, NEW w \in Writers, writers[w] # None, NEW s \in Subjects,
         NEW ops \in SUBSET Ops, Stages(w, s, ops)
  PROVE  /\ writers'[w] # None /\ writers'[w].at = "land"
         /\ writers'[w].kind = writers[w].kind /\ writers'[w].subject = writers[w].subject
         /\ \A t \in Subjects :
              writers'[w].staged[t] = IF t = s THEN ops ELSE writers[w].staged[t]
         /\ \A v \in Writers \ {w} : writers'[v] = writers[v]
<1>. DEFINE r == writers[w]
<1>1. r \in Writer /\ r.staged \in [Subjects -> SUBSET Ops]
  BY WriterFields DEF TypeOK
<1>2. PICK q : q = [r EXCEPT !.at = "land", !.left = {}, !.staged[s] = ops]
  OBVIOUS
<1>3. /\ q.at = "land" /\ q.kind = r.kind /\ q.subject = r.subject
      /\ q.staged = [r.staged EXCEPT ![s] = ops]
  BY <1>1, <1>2 DEF Writer
<1>4. q \in Writer
  <2>1. [r.staged EXCEPT ![s] = ops] \in [Subjects -> SUBSET Ops] /\ {} \in SUBSET Subjects
    BY <1>1
  <2>. QED
    BY <1>1, <1>2, <2>1 DEF Writer, Steps
<1>5. writers' = [writers EXCEPT ![w] = q]
  BY <1>2 DEF Stages
<1>6. writers'[w] = q /\ q # None /\ \A v \in Writers \ {w} : writers'[v] = writers[v]
  BY <1>4, <1>5, Replaces, WriterFields
<1>7. \A t \in Subjects : q.staged[t] = IF t = s THEN ops ELSE r.staged[t]
  BY <1>1, <1>3
<1>. QED
  BY <1>3, <1>6, <1>7

\* A commit looks at the tombstone of its resource when it has the lock.
LEMMA ReadsForCommitRecords ==
  ASSUME Inv, Inv', Records, NEW w \in Writers, ReadsForCommit(w) PROVE Records'
<1>. DEFINE r == writers[w]
<1>1. /\ r # None /\ r \in Writer /\ r.at = "read" /\ r.kind \in Edits
      /\ r.subject \in Subjects /\ Shape(r) /\ Locks(w)
  BY WriterFields DEF ReadsForCommit, At, Is, Inv, TypeOK, TaskOK, Shaped
<1>2. PICK s \in Subjects : s = r.subject
  BY <1>1
<1>3. r.op \in Ops /\ lock[s] = w /\ \A t \in Subjects : r.staged[t] = {}
  BY <1>1, <1>2 DEF Shape, Locks, Commits, Edits, Locking
<1>4. PICK ops \in SUBSET Ops : ops = docs[s] \cup {r.op}
  BY <1>3 DEF Inv, TypeOK
<1>5. /\ r.kind = "edit" => docs[s] # {}
      /\ Stages(w, s, ops)
      /\ tombs' = IF docs[s] = {} THEN tombs \ {s} ELSE tombs
      /\ UNCHANGED <<docs, lock, importLock, requests, crashes, history>>
  BY <1>2, <1>4 DEF ReadsForCommit, Is
<1>6. /\ writers'[w] # None /\ writers'[w].at = "land"
      /\ writers'[w].kind = r.kind /\ writers'[w].subject = s
      /\ \A t \in Subjects : writers'[w].staged[t] = IF t = s THEN ops ELSE {}
      /\ \A v \in Writers \ {w} : writers'[v] = writers[v]
  <2>1. TypeOK /\ writers[w] # None /\ Stages(w, s, ops)
    BY <1>1, <1>5 DEF Inv
  <2>2. /\ writers'[w] # None /\ writers'[w].at = "land"
        /\ writers'[w].kind = writers[w].kind /\ writers'[w].subject = writers[w].subject
        /\ \A t \in Subjects :
             writers'[w].staged[t] = IF t = s THEN ops ELSE writers[w].staged[t]
        /\ \A v \in Writers \ {w} : writers'[v] = writers[v]
    BY <2>1, StagesFields
  <2>. QED
    BY <1>2, <1>3, <2>2
<1>7. Staged(w)' = {s} /\ Stored' = Stored
  <2>1. ops # {}
    BY <1>4
  <2>2. \A t \in Subjects : writers'[w].staged[t] # {} <=> t = s
    BY <1>6, <2>1
  <2>3. Staged(w)' = {s}
    BY <2>2 DEF Staged
  <2>4. Stored' = Stored
    BY <1>5 DEF Stored
  <2>. QED
    BY <2>3, <2>4
<1>8. r.kind \in {"genesis", "edit"}
  BY <1>1 DEF Edits
<1>9. Tidy(w)'
  <2>1. Guards(w)'
    BY <1>6 DEF Guards, Burying, At
  <2>2. \A i \in Imports : importLock'[i] # w
    BY <1>1, <1>5 DEF Inv, TaskOK, Identities
  <2>3. Claims(w)'
    BY <1>6, <1>7, <2>2 DEF Claims
  <2>4. s \in loose' \/ (s \notin tombs' /\ (s \in gone' => r.kind = "genesis"))
    <3>1. CASE docs[s] = {}
      BY <1>5, <1>8, <3>1
    <3>2. CASE docs[s] # {}
      BY <1>5, <3>2 DEF Records, TombstonesAreForTheGone, DeletedStaysDeleted, Stored, history
    <3>. QED
      BY <3>1, <3>2
  <2>5. Admits(w)'
    BY <1>6, <1>7, <2>4 DEF Admits, Is
  <2>. QED
    BY <2>1, <2>3, <2>5 DEF Tidy
<1>10. TombstonesAreForTheGone' /\ DeletedStaysDeleted' /\ OneRecordPerImport'
  BY <1>5, <1>7 DEF Records, TombstonesAreForTheGone, DeletedStaysDeleted, OneRecordPerImport,
                    history
<1>11. ASSUME NEW t \in gone' \ loose', t \notin tombs', ~Pending(w, t)'
       PROVE  t \in gone /\ t \notin tombs /\ ~Pending(w, t)
  <2>1. ~Pending(w, t)
    BY <1>1 DEF Pending, Burying, Lifting, At
  <2>2. t = s /\ docs[s] = {} => Pending(w, t)'
    BY <1>5, <1>6, <1>7, <1>8 DEF Pending, Lifting, At, Is
  <2>. QED
    BY <1>5, <1>11, <2>1, <2>2 DEF history
<1>. QED
  BY <1>5, <1>6, <1>7, <1>9, <1>10, <1>11, OneTaskRecords DEF history

LEMMA ReadsForDestroyRecords ==
  ASSUME Inv, Inv', Records, NEW w \in Writers, ReadsForDestroy(w) PROVE Records'
<1>1. /\ writers[w] # None /\ writers[w].at = "read" /\ writers[w].kind = "destroy"
      /\ Goes(w, "collect")
      /\ UNCHANGED <<docs, tombs, lock, importLock, requests, crashes, history>>
  BY DEF ReadsForDestroy, At, Is
<1>2. /\ writers'[w] # None /\ writers'[w].at = "collect" /\ writers'[w].kind = "destroy"
      /\ \A v \in Writers \ {w} : writers'[v] = writers[v]
  BY <1>1, GoesFields DEF Inv, Steps
<1>3. Tidy(w)'
  BY <1>2, Elsewhere DEF Is, Checked, Edits
<1>4. \A s \in gone : ~Pending(w, s)
  BY <1>1 DEF Pending, Burying, Lifting, At
<1>. QED
  BY <1>1, <1>2, <1>3, <1>4, QuietStep DEF history

LEMMA MergesUpdateRecords ==
  ASSUME Inv, Inv', Records, NEW w \in Writers, MergesUpdate(w) PROVE Records'
<1>. DEFINE r == writers[w]
<1>1. /\ r # None /\ r \in Writer /\ r.at = "read" /\ r.kind = "update"
      /\ r.subject \in Subjects /\ r.staged \in [Subjects -> SUBSET Ops]
  BY WriterFields DEF MergesUpdate, At, Is, Inv, TypeOK
<1>2. PICK ops \in SUBSET Ops : ops = docs[r.subject] \cup r.staged[r.subject]
  BY <1>1 DEF Inv, TypeOK
<1>3. /\ Stages(w, r.subject, ops)
      /\ UNCHANGED <<docs, tombs, lock, importLock, requests, crashes, history>>
  BY <1>2 DEF MergesUpdate
<1>4. /\ writers'[w] # None /\ writers'[w].at = "land" /\ writers'[w].kind = "update"
      /\ \A v \in Writers \ {w} : writers'[v] = writers[v]
  BY <1>1, <1>3, StagesFields DEF Inv
<1>5. Tidy(w)'
  BY <1>4 DEF Tidy, Guards, Burying, Admits, Looked, Claims, Checked, At, Is, Edits
<1>6. \A s \in gone : ~Pending(w, s)
  BY <1>1 DEF Pending, Burying, Lifting, At
<1>. QED
  BY <1>3, <1>4, <1>5, <1>6, QuietStep DEF history

\* An entry of a push is skipped when it is tombstoned; one that is not, and was removed, is
\* being created or removed by a task that has its lock.
LEMMA ReadsEntryRecords ==
  ASSUME Inv, Inv', Records, NEW w \in Writers, NEW s \in Subjects, ReadsEntry(w, s)
  PROVE  Records'
<1>. DEFINE r == writers[w]
<1>1. /\ r \in Writer /\ r # None /\ r.at = "read" /\ r.kind \in {"push", "batch", "restore"}
      /\ r.staged \in [Subjects -> SUBSET Ops] /\ r.left \in SUBSET Subjects /\ s \in r.left
      /\ UNCHANGED <<docs, tombs, lock, importLock, requests, crashes, history>>
  BY WriterFields DEF ReadsEntry, Is, Inv, TypeOK, At
<1>2. Shape(r) /\ Locks(w) /\ Identities(w)
  BY <1>1 DEF Inv, TaskOK, Shaped
<1>3. r.op \in Ops
  BY <1>1, <1>2 DEF Shape
<1>4. PICK ops \in SUBSET Ops, at \in {"land", "read"} :
        /\ r.kind = "push" /\ s \in tombs => ops = {}
        /\ writers' = [writers EXCEPT ![w] = [@ EXCEPT
             !.left = r.left \ {s}, !.at = at, !.staged[s] = ops]]
  <2>1. docs[s] \cup {r.op} \in SUBSET Ops /\ {} \in SUBSET Ops
    BY <1>3 DEF Inv, TypeOK
  <2>. QED
    BY <2>1 DEF ReadsEntry, Skips, Is
<1>5. PICK q : q = [r EXCEPT !.left = r.left \ {s}, !.at = at, !.staged[s] = ops]
  OBVIOUS
<1>6. /\ q.at = at /\ q.kind = r.kind /\ q.subject = r.subject
      /\ q.staged = [r.staged EXCEPT ![s] = ops]
  BY <1>1, <1>5 DEF Writer
<1>7. q \in Writer
  <2>1. [r.staged EXCEPT ![s] = ops] \in [Subjects -> SUBSET Ops]
        /\ r.left \ {s} \in SUBSET Subjects
    BY <1>1
  <2>. QED
    BY <1>1, <1>5, <2>1 DEF Writer, Steps
<1>8. writers' = [writers EXCEPT ![w] = q]
  BY <1>1, <1>4, <1>5 DEF Inv, TypeOK
<1>9. writers'[w] = q /\ q # None /\ \A v \in Writers \ {w} : writers'[v] = writers[v]
  BY <1>7, <1>8, Replaces DEF Inv
<1>10. \A t \in Subjects : q.staged[t] = IF t = s THEN ops ELSE r.staged[t]
  BY <1>1, <1>6
<1>11. Staged(w)' \subseteq Staged(w) \cup {t \in {s} : ops # {}}
  BY <1>9, <1>10 DEF Staged
<1>12. Guards(w)'
  BY <1>6, <1>9 DEF Guards, Burying, At
<1>13. Admits(w)'
  <2>1. ASSUME r.kind = "push", ops # {}
        PROVE  s \in loose \/ (s \notin tombs /\ s \notin gone)
    <3>1. s \notin tombs /\ lock[s] = w
      BY <1>1, <1>2, <1>4, <2>1 DEF Locks, Locking, Commits
    <3>2. ASSUME s \in gone \ loose PROVE FALSE
      <4>1. PICK v \in Writers : Pending(v, s)
        BY <3>1, <3>2 DEF Records, GoneIsKnown
      <4>2. CASE Burying(v, s)
        <5>1. lock[s] = v
          BY <3>2, <4>2 DEF Records, Tidy, Guards
        <5>. QED
          BY <1>1, <3>1, <4>2, <5>1 DEF Burying, At
      <4>3. CASE Lifting(v, s)
        <5>1. /\ writers[v] # None /\ writers[v].at = "land" /\ writers[v].kind \in Locking
              /\ writers[v].staged[s] # {}
          BY <4>3 DEF Lifting, At, Is, Staged, Locking, Commits, Edits
        <5>2. lock[s] = v
          BY <5>1 DEF Inv, TaskOK, Locks
        <5>. QED
          BY <1>1, <3>1, <5>1, <5>2
      <4>. QED
        BY <4>1, <4>2, <4>3 DEF Pending
    <3>. QED
      BY <3>1, <3>2
  <2>2. ASSUME Looked(w)', NEW t \in Staged(w)'
        PROVE  t \in loose \/ (t \notin tombs /\ t \notin gone)
    <3>1. r.kind = "push"
      BY <1>1, <1>6, <1>9, <2>2 DEF Looked, Is, Edits
    <3>2. CASE t = s /\ ops # {}
      BY <2>1, <3>1, <3>2
    <3>3. CASE t \in Staged(w)
      BY <1>1, <3>1, <3>3 DEF Records, Tidy, Admits, Looked, At, Is
    <3>. QED
      BY <1>11, <2>2, <3>2, <3>3
  <2>. QED
    BY <1>1, <2>2 DEF Admits, history
<1>14. Claims(w)'
  <2>1. ASSUME r.kind = "restore" PROVE Staged(w)' \subseteq {q.subject}
    <3>1. s = r.subject
      BY <1>1, <1>2, <2>1 DEF Shape
    <3>2. Staged(w) \subseteq {r.subject}
      BY <1>1, <2>1 DEF Records, Tidy, Claims, Is, Checked
    <3>. QED
      BY <1>6, <1>11, <3>1, <3>2
  <2>2. \A i \in Imports : importLock'[i] # w
    BY <1>1, <1>2 DEF Identities
  <2>. QED
    BY <1>1, <1>6, <1>9, <2>1, <2>2 DEF Claims, Is, Checked, Edits
<1>15. \A t \in gone : ~Pending(w, t)
  BY <1>1 DEF Pending, Burying, Lifting, At
<1>. QED
  BY <1>1, <1>9, <1>12, <1>13, <1>14, <1>15, QuietStep DEF Tidy, history

-----------------------------------------------------------------------------
(* What is stored *)

LEMMA EndsFrame ==
  ASSUME Inv, Inv', NEW w \in Writers, Releases(w)
  PROVE  /\ writers'[w] = None /\ Tidy(w)'
         /\ \A v \in Writers \ {w} :
              /\ writers'[v] = writers[v]
              /\ \A s \in Subjects : lock'[s] = v <=> lock[s] = v
              /\ \A i \in Imports : importLock'[i] = v <=> importLock[i] = v
<1>1. Frees(w) /\ writers' = [writers EXCEPT ![w] = None]
  BY DEF Releases
<1>2. writers'[w] = None /\ \A v \in Writers \ {w} : writers'[v] = writers[v]
  BY <1>1 DEF Inv, TypeOK
<1>. QED
  BY <1>1, <1>2, FreesFrame, Elsewhere DEF Inv

\* A commit that is refused after it lifted a tombstone leaves it lifted.
LEMMA RefusesRecords ==
  ASSUME Inv, Inv', Records, NEW w \in Writers, Refuses(w) PROVE Records'
<1>1. /\ writers[w] # None /\ writers[w].at \in {"read", "land", "collect"} /\ Releases(w)
      /\ loose' = IF At(w, "land") /\ Is(w, {"genesis"}) /\ docs[writers[w].subject] = {}
                    THEN loose \cup ({writers[w].subject} \cap gone) ELSE loose
      /\ UNCHANGED <<docs, tombs, requests, crashes, accepted, authored, unlocked, gone>>
  BY DEF Refuses
<1>2. ASSUME NEW s \in gone, Pending(w, s) PROVE s \in loose'
  <2>1. Lifting(w, s)
    BY <1>1, <1>2 DEF Pending, Burying, At
  <2>2. s = writers[w].subject /\ s \in Subjects
    BY <1>1, <2>1 DEF Lifting, Records, Tidy, Claims, Is, Checked, Edits, Staged
  <2>3. CASE docs[s] = {}
    BY <1>1, <1>2, <2>1, <2>2, <2>3 DEF Lifting
  <2>4. CASE docs[s] # {}
    BY <1>1, <1>2, <2>2, <2>4 DEF Records, DeletedStaysDeleted, Stored
  <2>. QED
    BY <2>3, <2>4
<1>. QED
  BY <1>1, <1>2, EndsFrame, QuietStep

LEMMA LandsRecords ==
  ASSUME Inv, Inv', Records, NEW w \in Writers, Lands(w) PROVE Records'
<1>. DEFINE r == writers[w]
<1>1. /\ r \in Writer /\ r # None /\ r.at = "land"
      /\ Shape(r) /\ Locks(w) /\ Claims(w) /\ Admits(w)
  BY WriterFields DEF Lands, At, Inv, TypeOK, TaskOK, Shaped, Records, Tidy
<1>2. PICK new \in SUBSET Subjects : new = {s \in Staged(w) : docs[s] = {}}
  BY DEF Staged
<1>3. r.kind \in {"genesis", "edit", "push", "update", "batch", "restore"}
  BY <1>1, WriterFields DEF Shape, StepsOf, AllKinds, Commits, Edits
<1>4. /\ Unlocked(w) = {}
      /\ docs' = [s \in Subjects |-> IF s \in Staged(w) THEN r.staged[s] ELSE docs[s]]
      /\ authored' = IF Is(w, Checked) THEN authored \cup new ELSE authored \ new
      /\ gone' = IF Is(w, {"genesis", "restore"}) THEN gone \ new ELSE gone
      /\ loose' = IF Is(w, {"update", "batch", "restore"}) THEN loose \cup new ELSE loose
      /\ tombs' = tombs
  BY <1>2 DEF Lands
<1>5. Stored' = Stored \cup new
  BY <1>2, <1>4 DEF Stored, Staged
<1>6. ASSUME NEW s \in new
      PROVE  s \in loose' \/ (s \notin tombs /\ s \notin gone' /\ lock[s] = w)
  <2>1. s \in Subjects /\ s \in Staged(w) /\ r.staged[s] # {}
    BY <1>2 DEF Staged
  <2>2. CASE r.kind \in {"update", "batch", "restore"}
    BY <1>4, <2>2 DEF Is
  <2>3. CASE r.kind \in {"genesis", "edit", "push"}
    <3>1. lock[s] = w
      BY <1>1, <2>1, <2>3 DEF Locks, Locking, Commits, Edits
    <3>2. s \in loose \/ (s \notin tombs /\ (s \in gone => r.kind = "genesis"))
      BY <1>1, <2>1, <2>3 DEF Admits, Looked, At, Is, Edits
    <3>. QED
      BY <1>4, <3>1, <3>2 DEF Is
  <2>. QED
    BY <1>3, <2>2, <2>3
<1>7. loose \subseteq loose' /\ gone' \subseteq gone
  BY <1>4
<1>8. TombstonesAreForTheGone'
  BY <1>4, <1>5, <1>6, <1>7 DEF Records, TombstonesAreForTheGone
<1>9. DeletedStaysDeleted'
  BY <1>5, <1>6, <1>7 DEF Records, DeletedStaysDeleted
<1>10. ASSUME NEW t \in Stored' \cap authored', t \notin Stored \cap authored
       PROVE  /\ Is(w, Checked) /\ t = r.subject
              /\ ImportOf[t] = None \/ (ImportOf[t] \in Imports /\ importLock[ImportOf[t]] = w)
  <2>1. Is(w, Checked) /\ t \in Staged(w) /\ t \in Subjects
    <3>1. t \in new \/ t \in authored
      BY <1>4, <1>10
    <3>2. t \in new
      BY <1>5, <1>10, <3>1
    <3>. QED
      BY <1>2, <1>4, <3>2, <1>10
  <2>2. t = r.subject
    BY <1>1, <2>1 DEF Claims
  <2>3. ASSUME ImportOf[t] # None
        PROVE  ImportOf[t] \in Imports /\ importLock[ImportOf[t]] = w
    <3>1. ImportOf[t] \in ImportsOf(Staged(w))
      BY <2>1, <2>3 DEF ImportsOf
    <3>2. ImportOf[t] \in Imports
      BY <2>1, <2>3
    <3>. QED
      BY <1>4, <3>1, <3>2 DEF Unlocked
  <2>. QED
    BY <2>1, <2>2, <2>3
<1>11. OneRecordPerImport'
  <2>1. ASSUME NEW s \in Stored' \cap authored', NEW t \in Stored' \cap authored',
               ImportOf[s] = ImportOf[t], ImportOf[s] # None, s \notin Stored \cap authored
        PROVE  s = t
    <3>1. /\ Is(w, Checked) /\ s = r.subject
          /\ ImportOf[s] \in Imports /\ importLock[ImportOf[s]] = w
      BY <1>10, <2>1
    <3>2. CASE t \in Stored \cap authored
      BY <1>1, <2>1, <3>1, <3>2 DEF Claims
    <3>3. CASE t \notin Stored \cap authored
      BY <1>10, <3>1, <3>3
    <3>. QED
      BY <3>2, <3>3
  <2>2. ASSUME NEW s \in Stored \cap authored, NEW t \in Stored \cap authored,
               ImportOf[s] = ImportOf[t], ImportOf[s] # None
        PROVE  s = t
    BY <2>2 DEF Records, OneRecordPerImport
  <2>3. ASSUME NEW s \in Stored' \cap authored', NEW t \in Stored' \cap authored',
               ImportOf[s] = ImportOf[t], ImportOf[s] # None
        PROVE  s = t
    <3>1. CASE s \notin Stored \cap authored
      BY <2>1, <2>3, <3>1
    <3>2. CASE t \notin Stored \cap authored
      BY <2>1, <2>3, <3>2
    <3>3. CASE s \in Stored \cap authored /\ t \in Stored \cap authored
      BY <2>2, <2>3, <3>3
    <3>. QED
      BY <3>1, <3>2, <3>3
  <2>. QED
    BY <2>3 DEF OneRecordPerImport
<1>12. ASSUME NEW s \in Subjects
       PROVE  \/ lock[s] = w
              \/ s \in loose'
              \/ /\ docs[s] = {} => docs'[s] = {}
                 /\ s \in tombs' => s \in tombs
                 /\ s \in gone' => s \in gone
  BY <1>2, <1>4, <1>6, <1>7
<1>13. ASSUME NEW s \in gone' \ loose', s \notin tombs
       PROVE  s \in gone /\ ~Pending(w, s)
  <2>1. ~Burying(w, s)
    BY <1>1 DEF Burying, At
  <2>2. ASSUME Lifting(w, s) PROVE FALSE
    <3>1. s \in Staged(w) /\ Is(w, {"genesis", "restore"}) /\ s \in Subjects
      BY <2>2 DEF Lifting, Is, Staged
    <3>2. docs[s] # {}
      BY <1>2, <1>4, <1>13, <3>1
    <3>3. s \in Stored /\ s \in gone /\ s \notin loose
      BY <1>7, <1>13, <3>1, <3>2 DEF Stored
    <3>. QED
      BY <3>3 DEF Records, DeletedStaysDeleted
  <2>. QED
    BY <1>7, <1>13, <2>1, <2>2 DEF Pending
<1>14. /\ Tidy(w)'
       /\ \A v \in Writers \ {w} :
            /\ writers'[v] = writers[v]
            /\ \A s \in Subjects : lock'[s] = v <=> lock[s] = v
            /\ \A i \in Imports : importLock'[i] = v <=> importLock[i] = v
  <2>1. CASE Is(w, {"restore"})
    <3>1. Frees(w) /\ Goes(w, "clear")
      BY <2>1 DEF Lands
    <3>2. /\ writers'[w] # None /\ writers'[w].at = "clear"
          /\ writers'[w].subject = r.subject /\ writers'[w].staged = r.staged
          /\ \A v \in Writers \ {w} : writers'[v] = writers[v]
      BY <1>1, <3>1, GoesFields DEF Inv, Steps
    <3>3. Staged(w)' \subseteq {r.subject}
      BY <1>1, <2>1, <3>2 DEF Claims, Is, Checked, Staged
    <3>4. Tidy(w)'
      BY <3>2, <3>3, Elsewhere
    <3>. QED
      BY <3>1, <3>2, <3>4, FreesFrame DEF Inv
  <2>2. CASE ~Is(w, {"restore"})
    BY <2>2, EndsFrame DEF Lands
  <2>. QED
    BY <2>1, <2>2
<1>15. \A t \in Stored' \cap authored' :
         t \in Stored \cap authored \/ ImportOf[t] = None \/ importLock[ImportOf[t]] = w
  BY <1>10
<1>. QED
  BY <1>4, <1>7, <1>8, <1>9, <1>11, <1>12, <1>13, <1>14, <1>15, OneTaskRecords

LEMMA ClearsRecords ==
  ASSUME Inv, Inv', Records, NEW w \in Writers, Clears(w) PROVE Records'
<1>1. /\ writers[w] # None /\ writers[w].at = "clear" /\ Releases(w)
      /\ tombs' = tombs \ {writers[w].subject}
      /\ loose' = loose \cup ({writers[w].subject} \cap gone)
      /\ UNCHANGED <<docs, requests, crashes, accepted, authored, unlocked, gone>>
  BY DEF Clears, At
<1>2. Stored' = Stored
  BY <1>1 DEF Stored
<1>3. TombstonesAreForTheGone' /\ DeletedStaysDeleted' /\ OneRecordPerImport'
  BY <1>1, <1>2 DEF Records, TombstonesAreForTheGone, DeletedStaysDeleted, OneRecordPerImport
<1>4. \A s \in gone' \ loose' : s \in tombs' \/ (s \in gone /\ s \notin tombs /\ ~Pending(w, s))
  BY <1>1 DEF Pending, Burying, Lifting, At
<1>. QED
  BY <1>1, <1>2, <1>3, <1>4, EndsFrame, OneTaskRecords

-----------------------------------------------------------------------------
(* Removals *)

LEMMA RemovalKinds ==
  ASSUME Inv, NEW w \in Writers, writers[w] # None,
         writers[w].at \in {"collect", "erase", "bury", "again"}
  PROVE  /\ writers[w] \in Writer /\ writers[w].kind \in {"destroy", "remove"}
         /\ ~Is(w, Checked) /\ ~Is(w, Edits \cup {"push"})
<1>1. writers[w] \in Writer /\ Shape(writers[w])
  BY DEF Inv, TypeOK, TaskOK, Shaped
<1>2. writers[w].kind \in {"destroy", "remove"}
  BY <1>1 DEF Shape, StepsOf
<1>. QED
  BY <1>1, <1>2 DEF Is, Checked, Edits

LEMMA CollectsRecords ==
  ASSUME Inv, Inv', Records, NEW w \in Writers, Collects(w) PROVE Records'
<1>. DEFINE r == writers[w]
<1>1. /\ r # None /\ r.at = "collect" /\ r \in Writer /\ r.kind \in {"destroy", "remove"}
      /\ UNCHANGED <<docs, tombs, requests, crashes, history>>
  BY RemovalKinds DEF Collects, At
<1>2. /\ Tidy(w)'
      /\ \A v \in Writers \ {w} :
           /\ writers'[v] = writers[v]
           /\ \A s \in Subjects : lock'[s] = v <=> lock[s] = v
           /\ \A i \in Imports : importLock'[i] = v <=> importLock[i] = v
  <2>1. CASE docs[r.subject] # {}
    <3>1. PICK R \in SUBSET Subjects : R = Subtree(r.subject)
      BY <1>1, SubtreeType, WriterFields
    <3>2. PICK q : q = [r EXCEPT !.at = "erase", !.removed = R]
      OBVIOUS
    <3>3. q \in Writer /\ q.at = "erase" /\ q.kind = r.kind
      BY <1>1, <3>2 DEF Writer, Steps
    <3>4. writers' = [writers EXCEPT ![w] = q] /\ UNCHANGED <<lock, importLock>>
      BY <2>1, <3>1, <3>2 DEF Collects
    <3>5. writers'[w] = q /\ \A v \in Writers \ {w} : writers'[v] = writers[v]
      BY <3>3, <3>4, Replaces DEF Inv
    <3>6. Tidy(w)'
      BY <1>1, <3>3, <3>5, Elsewhere DEF Is, Checked, Edits
    <3>. QED
      BY <3>4, <3>5, <3>6
  <2>2. CASE docs[r.subject] = {} /\ Is(w, {"remove"})
    <3>1. Goes(w, "again") /\ UNCHANGED <<lock, importLock>>
      BY <2>2 DEF Collects
    <3>2. /\ writers'[w] # None /\ writers'[w].at = "again" /\ writers'[w].kind = r.kind
          /\ \A v \in Writers \ {w} : writers'[v] = writers[v]
      BY <1>1, <3>1, GoesFields DEF Inv, Steps
    <3>3. Tidy(w)'
      BY <1>1, <3>2, Elsewhere DEF Is, Checked, Edits
    <3>. QED
      BY <3>1, <3>2, <3>3
  <2>3. CASE docs[r.subject] = {} /\ ~Is(w, {"remove"})
    BY <2>3, EndsFrame DEF Collects
  <2>. QED
    BY <2>1, <2>2, <2>3
<1>3. \A s \in gone : ~Pending(w, s)
  BY <1>1 DEF Pending, Burying, Lifting, At
<1>. QED
  BY <1>1, <1>2, <1>3, QuietStep DEF history

\* What is removed without its lock comes apart from its tombstone; the rest stays locked.
LEMMA ErasesRecords ==
  ASSUME Inv, Inv', Records, NEW w \in Writers, Erases(w) PROVE Records'
<1>. DEFINE r == writers[w]
<1>1. /\ r # None /\ r.at = "erase" /\ r \in Writer /\ r.kind \in {"destroy", "remove"}
  BY RemovalKinds DEF Erases, At
<1>2. PICK R \in SUBSET Subjects : R = r.removed
  BY <1>1, WriterFields
<1>3. /\ docs' = [s \in Subjects |-> IF s \in R THEN {} ELSE docs[s]]
      /\ gone' = gone \cup R
      /\ loose' = loose \cup {s \in R : lock[s] # w}
      /\ Goes(w, "bury")
      /\ UNCHANGED <<tombs, lock, importLock, requests, crashes, authored, unlocked>>
  BY <1>2 DEF Erases
<1>4. /\ writers'[w] # None /\ writers'[w].at = "bury" /\ writers'[w].kind = r.kind
      /\ writers'[w].removed = R
      /\ \A v \in Writers \ {w} : writers'[v] = writers[v]
  <2>1. PICK q : q = [r EXCEPT !.at = "bury"]
    OBVIOUS
  <2>2. q \in Writer /\ q.at = "bury" /\ q.kind = r.kind /\ q.removed = R
    BY <1>1, <1>2, <2>1 DEF Writer, Steps
  <2>3. writers' = [writers EXCEPT ![w] = q]
    BY <1>3, <2>1 DEF Goes
  <2>. QED
    BY <2>2, <2>3, Replaces, WriterFields DEF Inv
<1>5. Stored' = Stored \ R
  BY <1>3 DEF Stored
<1>6. TombstonesAreForTheGone' /\ DeletedStaysDeleted' /\ OneRecordPerImport'
  BY <1>3, <1>5 DEF Records, TombstonesAreForTheGone, DeletedStaysDeleted, OneRecordPerImport
<1>7. Tidy(w)'
  <2>1. Guards(w)'
    BY <1>3, <1>4 DEF Guards, Burying, At
  <2>2. Admits(w)' /\ Claims(w)'
    BY <1>1, <1>4 DEF Admits, Looked, Claims, At, Is, Checked, Edits
  <2>. QED
    BY <2>1, <2>2 DEF Tidy
<1>8. \A s \in Subjects :
        \/ lock[s] = w
        \/ s \in loose'
        \/ /\ docs[s] = {} => docs'[s] = {}
           /\ s \in tombs' => s \in tombs
           /\ s \in gone' => s \in gone
  BY <1>3
<1>9. \A s \in gone' \ loose' :
        \/ s \in tombs' \/ Pending(w, s)'
        \/ s \in gone /\ s \notin tombs /\ ~Pending(w, s)
  BY <1>1, <1>3, <1>4 DEF Pending, Burying, Lifting, At
<1>10. \A t \in Stored' \cap authored' : t \in Stored \cap authored
  BY <1>3, <1>5
<1>. QED
  BY <1>3, <1>4, <1>6, <1>7, <1>8, <1>9, <1>10, OneTaskRecords

LEMMA BuriesRecords ==
  ASSUME Inv, Inv', Records, NEW w \in Writers, NEW s \in Subjects, Buries(w, s) PROVE Records'
<1>. DEFINE r == writers[w]
<1>1. /\ r # None /\ r.at = "bury" /\ r \in Writer /\ r.kind \in {"destroy", "remove"}
      /\ tombs' = tombs \cup {s}
      /\ UNCHANGED <<docs, requests, crashes, history>>
  BY RemovalKinds DEF Buries, Buried, At
<1>2. PICK R \in SUBSET Subjects : R = r.removed /\ s \in R
  BY <1>1, WriterFields DEF Buries
<1>3. s \in loose \/ (docs[s] = {} /\ lock[s] = w)
  BY <1>1, <1>2 DEF Records, Tidy, Guards, Burying, At
<1>4. Stored' = Stored
  BY <1>1 DEF Stored
<1>5. TombstonesAreForTheGone' /\ DeletedStaysDeleted' /\ OneRecordPerImport'
  BY <1>1, <1>3, <1>4 DEF Records, TombstonesAreForTheGone, DeletedStaysDeleted,
                          OneRecordPerImport, Stored, history
<1>6. /\ Tidy(w)'
      /\ \A v \in Writers \ {w} :
           /\ writers'[v] = writers[v]
           /\ \A t \in Subjects : lock'[t] = v <=> lock[t] = v
           /\ \A i \in Imports : importLock'[i] = v <=> importLock[i] = v
      /\ \A t \in R \ {s} : Burying(w, t)'
  <2>1. CASE R # {s}
    <3>1. PICK q : q = [r EXCEPT !.removed = R \ {s}]
      OBVIOUS
    <3>2. q \in Writer /\ q.at = "bury" /\ q.kind = r.kind /\ q.removed = R \ {s}
      <4>1. R \ {s} \in SUBSET Subjects
        OBVIOUS
      <4>. QED
        BY <1>1, <3>1, <4>1 DEF Writer
    <3>3. writers' = [writers EXCEPT ![w] = q] /\ UNCHANGED <<lock, importLock>>
      BY <1>2, <2>1, <3>1 DEF Buries
    <3>4. writers'[w] = q /\ q # None /\ \A v \in Writers \ {w} : writers'[v] = writers[v]
      BY <3>2, <3>3, Replaces, WriterFields DEF Inv
    <3>5. Guards(w)'
      <4>1. \A t \in R \ {s} : t \in loose \/ (docs[t] = {} /\ lock[t] = w)
        BY <1>1, <1>2 DEF Records, Tidy, Guards, Burying, At
      <4>. QED
        BY <1>1, <3>2, <3>3, <3>4, <4>1 DEF Guards, Burying, At, history
    <3>6. Admits(w)' /\ Claims(w)'
      BY <1>1, <3>2, <3>4 DEF Admits, Looked, Claims, At, Is, Checked, Edits
    <3>7. \A t \in R \ {s} : Burying(w, t)'
      BY <3>2, <3>4 DEF Burying, At
    <3>. QED
      BY <3>3, <3>4, <3>5, <3>6, <3>7 DEF Tidy
  <2>2. CASE R = {s} /\ Is(w, {"remove"})
    <3>1. Goes(w, "again") /\ UNCHANGED <<lock, importLock>>
      BY <1>2, <2>2 DEF Buries
    <3>2. /\ writers'[w] # None /\ writers'[w].at = "again" /\ writers'[w].kind = r.kind
          /\ \A v \in Writers \ {w} : writers'[v] = writers[v]
      BY <1>1, <3>1, GoesFields DEF Inv, Steps
    <3>3. Tidy(w)'
      BY <1>1, <3>2, Elsewhere DEF Is, Checked, Edits
    <3>. QED
      BY <2>2, <3>1, <3>2, <3>3
  <2>3. CASE R = {s} /\ ~Is(w, {"remove"})
    <3>1. Releases(w)
      BY <1>2, <2>3 DEF Buries
    <3>. QED
      BY <2>3, <3>1, EndsFrame
  <2>. QED
    BY <2>1, <2>2, <2>3
<1>7. ASSUME NEW t \in gone' \ loose', t \notin tombs', ~Pending(w, t)'
      PROVE  t \in gone /\ t \notin tombs /\ ~Pending(w, t)
  <2>1. t \notin R
    BY <1>1, <1>6, <1>7 DEF Pending
  <2>. QED
    BY <1>1, <1>2, <1>7, <2>1 DEF Pending, Burying, Lifting, At, history
<1>8. /\ loose \subseteq loose'
      /\ \A t \in Stored' \cap authored' : t \in Stored \cap authored
  BY <1>1, <1>4 DEF history
<1>9. \A t \in Subjects :
        \/ lock[t] = w
        \/ t \in loose'
        \/ /\ docs[t] = {} => docs'[t] = {}
           /\ t \in tombs' => t \in tombs
           /\ t \in gone' => t \in gone
  BY <1>1, <1>3 DEF history
<1>. QED
  BY <1>1, <1>4, <1>5, <1>6, <1>7, <1>8, <1>9, OneTaskRecords

LEMMA BuriesAgainRecords ==
  ASSUME Inv, Inv', Records, NEW w \in Writers, BuriesAgain(w) PROVE Records'
<1>1. /\ writers[w] # None /\ writers[w].at = "again" /\ Releases(w)
      /\ tombs' = tombs \cup {writers[w].subject}
      /\ loose' = loose \cup {writers[w].subject}
      /\ UNCHANGED <<docs, requests, crashes, accepted, authored, unlocked, gone>>
  BY DEF BuriesAgain, At
<1>2. Stored' = Stored
  BY <1>1 DEF Stored
<1>3. TombstonesAreForTheGone' /\ DeletedStaysDeleted' /\ OneRecordPerImport'
  BY <1>1, <1>2 DEF Records, TombstonesAreForTheGone, DeletedStaysDeleted, OneRecordPerImport
<1>4. \A s \in gone' \ loose' : s \in tombs' \/ (s \in gone /\ s \notin tombs /\ ~Pending(w, s))
  BY <1>1 DEF Pending, Burying, Lifting, At
<1>. QED
  BY <1>1, <1>2, <1>3, <1>4, EndsFrame, OneTaskRecords

\* What was pending when the process was killed has come apart.
LEMMA CrashRecords == ASSUME Inv, Inv', Records, Crash PROVE Records'
<1>1. /\ writers' = [w \in Writers |-> None]
      /\ loose' = loose \cup (Interrupted \cap gone)
      /\ UNCHANGED <<docs, tombs, requests, accepted, authored, unlocked, gone>>
  BY DEF Crash
<1>2. Stored' = Stored
  BY <1>1 DEF Stored
<1>3. TombstonesAreForTheGone' /\ DeletedStaysDeleted' /\ OneRecordPerImport'
  BY <1>1, <1>2 DEF Records, TombstonesAreForTheGone, DeletedStaysDeleted, OneRecordPerImport
<1>4. \A w \in Writers : Tidy(w)'
  BY <1>1, Elsewhere
<1>5. \A v \in Writers, s \in Subjects : Pending(v, s) => s \in Interrupted
  BY DEF Pending, Burying, Lifting, At, Interrupted
<1>6. GoneIsKnown'
  <2>1. ASSUME NEW s \in gone \ loose', s \notin tombs PROVE FALSE
    <3>1. s \in Subjects /\ s \notin Interrupted /\ s \notin loose
      BY <1>1, <2>1 DEF Inv, TypeOK
    <3>. QED
      BY <1>5, <2>1, <3>1 DEF Records, GoneIsKnown
  <2>. QED
    BY <1>1, <2>1 DEF GoneIsKnown
<1>. QED
  BY <1>3, <1>4, <1>6 DEF Records

-----------------------------------------------------------------------------
(* What follows for every behaviour *)

LEMMA StepRecords == ASSUME Inv, Inv', Records, NEW w \in Writers, Step(w) PROVE Records'
BY LocksSubjectRecords, LocksImportRecords, ReadsForCommitRecords, ReadsForDestroyRecords,
   MergesUpdateRecords, RefusesRecords, LandsRecords, ClearsRecords, CollectsRecords,
   ErasesRecords, BuriesAgainRecords, ReadsEntryRecords, BuriesRecords
DEF Step

LEMMA StutterRecords == ASSUME Inv, Records, UNCHANGED vars PROVE Records'
<1>1. UNCHANGED <<docs, tombs, lock, importLock, writers, authored, gone, loose>>
  BY DEF vars, history
<1>2. Stored' = Stored
  BY <1>1 DEF Stored
<1>3. TombstonesAreForTheGone' /\ DeletedStaysDeleted' /\ OneRecordPerImport'
  BY <1>1, <1>2 DEF Records, TombstonesAreForTheGone, DeletedStaysDeleted, OneRecordPerImport
<1>4. ASSUME NEW v \in Writers PROVE Tidy(v)'
  <2>1. Tidy(v) /\ Locks(v)
    BY DEF Inv, TaskOK, Records
  <2>. QED
    BY <1>1, <1>2, <2>1, OthersTidy
<1>5. GoneIsKnown'
  <2>1. \A v \in Writers : \A s : Pending(v, s) => Pending(v, s)'
    BY <1>1 DEF Pending, Burying, Lifting, At, Is, Staged
  <2>. QED
    BY <1>1, <2>1 DEF Records, GoneIsKnown
<1>. QED
  BY <1>3, <1>4, <1>5 DEF Records

\* What is said of tombstones, deletions and identities holds throughout.
THEOREM RecordsInvariance == Spec => []Records
<1>1. Inv /\ Inv' /\ Records /\ [Next]_vars => Records'
  BY CrashRecords, AskedRecords, StepRecords, StutterRecords DEF Next
<1>. QED
  BY <1>1, InitRecords, Invariance, PTL DEF Spec

\* A tombstone never stands for a resource that is there, which would keep it from every later
\* push (db.rs:5309), unless the process was killed or a writer without the lock came between.
THEOREM TombstonesStand == Spec => []TombstonesAreForTheGone
<1>1. Records => TombstonesAreForTheGone
  BY DEF Records
<1>. QED
  BY <1>1, RecordsInvariance, PTL

\* A push that raced the deletion of a resource does not bring it back, whichever of them looks
\* at the tombstone first (engine.rs:2053).
THEOREM DeletionsHold == Spec => []DeletedStaysDeleted
<1>1. Records => DeletedStaysDeleted
  BY DEF Records
<1>. QED
  BY <1>1, RecordsInvariance, PTL

\* Commits and restores that run at once never make two resources of one imported record
\* (import_identity.rs:116).
THEOREM ImportsAreOne == Spec => []OneRecordPerImport
<1>1. Records => OneRecordPerImport
  BY DEF Records
<1>. QED
  BY <1>1, RecordsInvariance, PTL
=============================================================================
