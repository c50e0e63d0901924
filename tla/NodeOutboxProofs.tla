------------------------- MODULE NodeOutboxProofs -------------------------
(***************************************************************************)
(* For every set of resources, tree, number of drains and bound, with      *)
(* either kind of request ids: the node's outbox keeps its types, sends no *)
(* delta before its genesis, starts no delta past what the hub holds and   *)
(* forgets no write, but for the windows NodeOutbox names.                 *)
(***************************************************************************)
EXTENDS NodeOutbox, TLAPS

-----------------------------------------------------------------------------
(* What a well-typed state keeps to *)

\* The ops commits of a resource lead from are apart, below its version, and
\* a destroy is the last commit: what MarkDirty's order rests on.
WriteOK(w) ==
  /\ doc[w.subject].state # "none"
  /\ w.kind = "genesis" => w.from = 0
  /\ w.kind # "destroy" => w.from < doc[w.subject].version
  /\ w.kind = "destroy" =>
       w.from = doc[w.subject].version /\ doc[w.subject].state = "gone"
  /\ \A v \in unmarked : v.subject = w.subject /\ v.from = w.from => v = w

UnmarkedOK == \A w \in unmarked : WriteOK(w)

\* A copy of an entry is in the outbox, in a mark_dirty that has read it, or in
\* a drain that captured it or read it again.
Captured(x, s, e) ==
  \/ \E c \in x.todo : c.subject = s /\ c.entry = e
  \/ x.subject = s /\ x.entry = e

Holds(s, e) ==
  \/ entries[s] = e
  \/ e \in found[s]
  \/ \E d \in Drains : Captured(drains[d], s, e)

\* An entry has counted no more commits than were made, and none that is
\* still to be marked.
EntryOK(s, e) ==
  /\ doc[s].state # "none"
  /\ e.generation <= doc[s].version + 1
  /\ doc[s].state = "live" => e.generation <= doc[s].version
  /\ \A w \in unmarked : w.subject = s => e.generation <= w.from
  /\ e.envelope = "destroy" =>
       doc[s].state = "gone" /\ \A w \in unmarked : w.subject # s

EntriesOK == \A s \in Subjects, e \in Entry : Holds(s, e) => EntryOK(s, e)

\* A drain is at one of the subjects it captured, by way of its envelope.
AtWork == {"snapshot", "generation", "genesis", "delta", "destroy"}
Busy == AtWork \cup {"settle"}

DrainOK(x) ==
  /\ x.step = "idle" => x.todo = {}
  /\ x.step = "between" => x.answer = "none"
  /\ x.step \in AtWork => x.subject \in Subjects /\ x.entry \in Entry
  /\ x.step = "settle" => x.subject \in Subjects
  /\ x.step \notin Busy => x.subject = None /\ x.entry = None
  /\ x.step \in {"genesis", "destroy"} => x.entry.envelope = x.step
  /\ x.step \in {"snapshot", "generation", "delta"} => x.entry.envelope = "none"

DrainsOK == \A d \in Drains : DrainOK(drains[d])

\* A frame is of a resource there was; a destroy's, of one that is gone here.
FrameOK(r) ==
  /\ doc[r.subject].state # "none"
  /\ r.kind = "destroy" => doc[r.subject].state = "gone"

FramesOK == \A r \in requests : FrameOK(r)

TInv == TypeOK /\ UnmarkedOK /\ EntriesOK /\ DrainsOK /\ FramesOK

-----------------------------------------------------------------------------
(* Records, field by field *)

LEMMA EntryFields ==
  ASSUME NEW e \in Entry
  PROVE  /\ e # None
         /\ e.generation \in Generations /\ e.base \in Versions \cup {None}
         /\ e.envelope \in {"none", "genesis", "destroy"}
         /\ e.failures \in 0..BlockAfter
         /\ e.waiting \in BOOLEAN /\ e.blocked \in BOOLEAN
BY NoneAssumption DEF Entry

LEMMA DrainFields ==
  ASSUME NEW x \in Drain
  PROVE  /\ x.step \in Busy \cup {"idle", "between"}
         /\ x.todo \in SUBSET Candidate /\ x.subject \in Subjects \cup {None}
         /\ x.entry \in Entry \cup {None} /\ x.upto \in Versions
         /\ x.generation \in Generations \cup {None}
         /\ x.id \in Nat /\ x.posts \in Nat /\ x.answer \in Answers
BY DEF Drain, AtWork, Busy

LEMMA RequestFields ==
  ASSUME NEW r \in Request
  PROVE  /\ r.subject \in Subjects /\ r.kind \in {"genesis", "delta", "destroy"}
         /\ r.upto \in Versions /\ r.base \in Versions /\ r.id \in Nat
BY DEF Request

LEMMA IdleFields ==
  /\ Idle.step = "idle" /\ Idle.todo = {} /\ Idle.subject = None
  /\ Idle.entry = None /\ Idle.upto = 0 /\ Idle.generation = None
  /\ Idle.id = 0 /\ Idle.posts = 0 /\ Idle.answer = "none"
BY DEF Idle

LEMMA NoneNot == None \notin Subjects /\ None \notin Entry /\ None \notin Nat
BY NoneAssumption

LEMMA VersionsAre ==
  /\ MaxEdits \in Nat /\ MaxEdits >= 1 /\ BlockAfter \in Nat /\ BlockAfter >= 1
  /\ 0 \in Versions /\ 1 \in Versions /\ Versions \subseteq Nat
  /\ Generations \subseteq Nat /\ 1 \in Generations
  /\ \A n \in Nat : n <= MaxEdits <=> n \in Versions
BY BoundsAssumption DEF Versions, Generations

LEMMA VersionsIn ==
  ASSUME TInv, NEW s \in Subjects
  PROVE  /\ doc[s].version \in Nat /\ hub[s].version \in Nat
         /\ doc[s].state \in {"none", "live", "gone"}
         /\ hub[s].state \in {"none", "live", "gone"}
BY VersionsAre DEF TInv, TypeOK, Copy

LEMMA WritesIn ==
  ASSUME TInv, NEW w \in unmarked
  PROVE  /\ w \in Write /\ w.subject \in Subjects /\ w.from \in Nat
         /\ w.kind \in {"genesis", "edit", "destroy"}
BY VersionsAre DEF TInv, TypeOK, Write

LEMMA FramesIn ==
  ASSUME TInv, NEW r \in requests
  PROVE  /\ r \in Request /\ r.subject \in Subjects /\ r.upto \in Versions
         /\ r.kind \in {"genesis", "delta", "destroy"} /\ FrameOK(r)
BY RequestFields DEF TInv, TypeOK, FramesOK

LEMMA FoundIn ==
  ASSUME TInv, NEW s \in Subjects, NEW e \in found[s]
  PROVE  e \in Entry \cup {None} /\ Holds(s, e)
BY DEF TInv, TypeOK, Holds

LEMMA IdleIsDrain == Idle \in Drain /\ DrainOK(Idle)
<1>1. Idle \in Drain
  BY VersionsAre DEF Idle, Drain, Answers
<1>2. DrainOK(Idle)
  BY IdleFields DEF DrainOK, AtWork, Busy
<1>3. QED BY <1>1, <1>2

LEMMA IdleCaptures == \A s \in Subjects : \A e : ~Captured(Idle, s, e)
BY IdleFields, NoneNot DEF Captured

LEMMA DrainIs ==
  ASSUME TInv, NEW d \in Drains
  PROVE  drains[d] \in Drain /\ DrainOK(drains[d])
BY DEF TInv, TypeOK, DrainsOK

\* The entry of a drain at work is held, and of a resource there was.
LEMMA WorkHolds ==
  ASSUME TInv, NEW d \in Drains, drains[d].step \in AtWork
  PROVE  /\ drains[d].subject \in Subjects /\ drains[d].entry \in Entry
         /\ Holds(drains[d].subject, drains[d].entry)
         /\ EntryOK(drains[d].subject, drains[d].entry)
         /\ drains[d].entry.envelope = IF drains[d].step \in {"genesis", "destroy"}
                                         THEN drains[d].step ELSE "none"
<1>1. /\ drains[d].subject \in Subjects /\ drains[d].entry \in Entry
      /\ drains[d].entry.envelope = IF drains[d].step \in {"genesis", "destroy"}
                                      THEN drains[d].step ELSE "none"
  BY DrainIs DEF DrainOK, AtWork, Busy
<1>2. Holds(drains[d].subject, drains[d].entry)
  BY DEF Holds, Captured
<1>3. QED BY <1>1, <1>2 DEF TInv, EntriesOK

-----------------------------------------------------------------------------
(* The drain records a step leaves, of the record it finds *)

\* A step of one drain leaves the captures of the others alone.
LEMMA OneMoves ==
  ASSUME TypeOK, NEW d \in Drains, NEW y, drains' = [drains EXCEPT ![d] = y]
  PROVE  /\ drains'[d] = y
         /\ \A o \in Drains : o # d => drains'[o] = drains[o]
         /\ \A s, e : Holds(s, e)' =>
              \/ entries'[s] = e
              \/ e \in found'[s]
              \/ Captured(y, s, e)
              \/ \E o \in Drains : Captured(drains[o], s, e)
<1>1. /\ drains'[d] = y
      /\ \A o \in Drains : o # d => drains'[o] = drains[o]
  BY DEF TypeOK
<1>2. ASSUME NEW s, NEW e, Holds(s, e)', entries'[s] # e, e \notin found'[s]
      PROVE  \/ Captured(y, s, e)
             \/ \E o \in Drains : Captured(drains[o], s, e)
  <2>1. PICK o \in Drains : Captured(drains[o], s, e)'
    BY <1>2 DEF Holds
  <2>2. PICK z : z = drains'[o]
    OBVIOUS
  <2>3. Captured(z, s, e)
    BY <2>1, <2>2 DEF Captured
  <2>4. QED BY <1>1, <2>2, <2>3
<1>3. QED BY <1>1, <1>2

ToBetween(x) ==
  [x EXCEPT !.step = "between", !.subject = None, !.entry = None, !.upto = 0,
            !.generation = None, !.id = 0, !.answer = "none"]
ToTaken(x, c, k) ==
  [x EXCEPT !.todo = x.todo \ {c}, !.subject = c.subject, !.entry = c.entry,
            !.step = IF k = "none" THEN "snapshot" ELSE k]
ToAnswered(x, a) == [x EXCEPT !.answer = a]
ToGeneration(x, v) == [x EXCEPT !.step = "generation", !.upto = v]
ToSnapshot(x, f) == [x EXCEPT !.step = "snapshot", !.entry = f, !.id = 0]
ToSettle(x, f) == [x EXCEPT !.step = "settle", !.entry = f, !.id = 0]
ToDelta(x, g) == [x EXCEPT !.step = "delta", !.answer = "none", !.generation = g]
ToPosted(x, n, k) == [x EXCEPT !.id = n, !.posts = k]

\* drain_subject is done: what the drain still holds is what it has to do.
LEMMA BetweenIsDrain ==
  ASSUME NEW x \in Drain, DrainOK(x), x.step \in Busy, NEW y, y = ToBetween(x)
  PROVE  /\ y \in Drain /\ DrainOK(y) /\ y.step = "between"
         /\ \A s \in Subjects : \A e : Captured(y, s, e) => Captured(x, s, e)
<1>1. y \in Drain
  BY VersionsAre DEF Drain, Answers, ToBetween
<1>2. /\ y.step = "between" /\ y.subject = None /\ y.entry = None
      /\ y.todo = x.todo /\ y.answer = "none"
  BY DEF Drain, ToBetween
<1>3. DrainOK(y)
  BY <1>2 DEF DrainOK, AtWork, Busy
<1>4. \A s \in Subjects : \A e : Captured(y, s, e) => Captured(x, s, e)
  BY <1>2, NoneNot DEF Captured
<1>5. QED BY <1>1, <1>2, <1>3, <1>4

\* An answer changes nothing else.
LEMMA AnsweredIsDrain ==
  ASSUME NEW x \in Drain, DrainOK(x), x.step # "between", NEW a \in Answers,
         NEW y, y = ToAnswered(x, a)
  PROVE  /\ y \in Drain /\ DrainOK(y)
         /\ y.answer = a /\ y.step = x.step /\ y.subject = x.subject
         /\ y.entry = x.entry /\ y.upto = x.upto /\ y.todo = x.todo
         /\ y.generation = x.generation
         /\ \A s, e : Captured(y, s, e) => Captured(x, s, e)
<1>1. y \in Drain
  BY DEF Drain, ToAnswered
<1>2. /\ y.answer = a /\ y.step = x.step /\ y.subject = x.subject
      /\ y.entry = x.entry /\ y.upto = x.upto /\ y.todo = x.todo
      /\ y.generation = x.generation
  BY DEF Drain, ToAnswered
<1>3. DrainOK(y)
  BY <1>2 DEF DrainOK
<1>4. \A s, e : Captured(y, s, e) => Captured(x, s, e)
  BY <1>2 DEF Captured
<1>5. QED BY <1>1, <1>2, <1>3, <1>4

\* The snapshot is read for the entry the drain is at.
LEMMA SnapshotIsDrain ==
  ASSUME NEW x \in Drain, DrainOK(x), x.step = "snapshot", NEW v \in Versions,
         NEW y, y = ToGeneration(x, v)
  PROVE  /\ y \in Drain /\ DrainOK(y)
         /\ y.step = "generation" /\ y.subject = x.subject
         /\ y.entry = x.entry /\ y.upto = v
         /\ \A s, e : Captured(y, s, e) => Captured(x, s, e)
<1>1. y \in Drain
  BY DEF Drain, ToGeneration
<1>2. /\ y.step = "generation" /\ y.subject = x.subject
      /\ y.entry = x.entry /\ y.upto = v /\ y.todo = x.todo
  BY DEF Drain, ToGeneration
<1>3. DrainOK(y)
  BY <1>2 DEF DrainOK, AtWork, Busy
<1>4. \A s, e : Captured(y, s, e) => Captured(x, s, e)
  BY <1>2 DEF Captured
<1>5. QED BY <1>1, <1>2, <1>3, <1>4

\* The delta is signed for the generation just read.
LEMMA DeltaIsDrain ==
  ASSUME NEW x \in Drain, DrainOK(x), x.step = "generation",
         NEW g \in Generations \cup {None}, NEW y, y = ToDelta(x, g)
  PROVE  /\ y \in Drain /\ DrainOK(y)
         /\ y.step = "delta" /\ y.subject = x.subject /\ y.entry = x.entry
         /\ y.upto = x.upto /\ y.generation = g /\ y.answer = "none"
         /\ \A s, e : Captured(y, s, e) => Captured(x, s, e)
<1>1. y \in Drain
  BY DEF Drain, Answers, ToDelta
<1>2. /\ y.step = "delta" /\ y.subject = x.subject /\ y.entry = x.entry
      /\ y.upto = x.upto /\ y.todo = x.todo /\ y.generation = g
      /\ y.answer = "none"
  BY DEF Drain, ToDelta
<1>3. DrainOK(y)
  BY <1>2 DEF DrainOK, AtWork, Busy
<1>4. \A s, e : Captured(y, s, e) => Captured(x, s, e)
  BY <1>2 DEF Captured
<1>5. QED BY <1>1, <1>2, <1>3, <1>4

\* A genesis is acknowledged: the same entry, its envelope cleared.
LEMMA GenesisIsDrain ==
  ASSUME NEW x \in Drain, DrainOK(x), x.step = "genesis",
         NEW f \in Entry, f.envelope = "none", NEW y, y = ToSnapshot(x, f)
  PROVE  /\ y \in Drain /\ DrainOK(y)
         /\ y.step = "snapshot" /\ y.subject = x.subject /\ y.entry = f
         /\ \A s, e : Captured(y, s, e) =>
              Captured(x, s, e) \/ (s = x.subject /\ e = f)
<1>1. y \in Drain
  BY DEF Drain, ToSnapshot
<1>2. /\ y.step = "snapshot" /\ y.subject = x.subject /\ y.entry = f
      /\ y.todo = x.todo
  BY DEF Drain, ToSnapshot
<1>3. DrainOK(y)
  BY <1>2 DEF DrainOK, AtWork, Busy
<1>4. \A s, e : Captured(y, s, e) =>
        Captured(x, s, e) \/ (s = x.subject /\ e = f)
  BY <1>2 DEF Captured
<1>5. QED BY <1>1, <1>2, <1>3, <1>4

\* A delta is acknowledged: the drain goes on with what the outbox has now.
LEMMA SettleIsDrain ==
  ASSUME NEW x \in Drain, DrainOK(x), x.step = "delta",
         NEW f \in Entry \cup {None}, NEW y, y = ToSettle(x, f)
  PROVE  /\ y \in Drain /\ DrainOK(y)
         /\ y.step = "settle" /\ y.subject = x.subject /\ y.entry = f
         /\ y.upto = x.upto /\ y.generation = x.generation
         /\ \A s, e : Captured(y, s, e) =>
              Captured(x, s, e) \/ (s = x.subject /\ e = f)
<1>1. y \in Drain
  BY DEF Drain, ToSettle
<1>2. /\ y.step = "settle" /\ y.subject = x.subject /\ y.entry = f
      /\ y.todo = x.todo /\ y.upto = x.upto /\ y.generation = x.generation
  BY DEF Drain, ToSettle
<1>3. DrainOK(y)
  BY <1>2 DEF DrainOK, AtWork, Busy
<1>4. \A s, e : Captured(y, s, e) =>
        Captured(x, s, e) \/ (s = x.subject /\ e = f)
  BY <1>2 DEF Captured
<1>5. QED BY <1>1, <1>2, <1>3, <1>4

\* The next captured entry.
LEMMA TakenIsDrain ==
  ASSUME NEW x \in Drain, DrainOK(x), x.step = "between", NEW c \in x.todo,
         NEW k, k = c.entry.envelope, NEW y, y = ToTaken(x, c, k)
  PROVE  /\ y \in Drain /\ DrainOK(y)
         /\ y.step = IF k = "none" THEN "snapshot" ELSE k
         /\ y.subject = c.subject /\ y.entry = c.entry /\ y.answer = "none"
         /\ c.subject \in Subjects /\ c.entry \in Entry
         /\ k \in {"none", "genesis", "destroy"}
         /\ \A s, e : Captured(y, s, e) => Captured(x, s, e)
<1>1. /\ c.subject \in Subjects /\ c.entry \in Entry
      /\ k \in {"none", "genesis", "destroy"}
  BY DEF Drain, Candidate, Entry
<1>2. y \in Drain
  BY <1>1 DEF Drain, ToTaken
<1>3. /\ y.step = IF k = "none" THEN "snapshot" ELSE k
      /\ y.subject = c.subject /\ y.entry = c.entry
      /\ y.todo = x.todo \ {c} /\ y.answer = "none"
  BY DEF Drain, DrainOK, ToTaken
<1>4. DrainOK(y)
  BY <1>1, <1>3 DEF DrainOK, AtWork, Busy
<1>5. \A s, e : Captured(y, s, e) => Captured(x, s, e)
  BY <1>3 DEF Captured
<1>6. QED BY <1>1, <1>2, <1>3, <1>4, <1>5

\* A frame goes out: nothing else of the drain changes.
LEMMA PostedIsDrain ==
  ASSUME NEW x \in Drain, DrainOK(x), x.step \in {"genesis", "delta", "destroy"},
         NEW n \in Nat, NEW k \in Nat, NEW y, y = ToPosted(x, n, k)
  PROVE  /\ y \in Drain /\ DrainOK(y)
         /\ y.answer = x.answer /\ y.step = x.step /\ y.subject = x.subject
         /\ y.entry = x.entry /\ y.upto = x.upto
         /\ y.generation = x.generation
         /\ Frame(y) \in Request /\ Frame(y).subject = x.subject
         /\ Frame(y).kind = x.step
         /\ \A s, e : Captured(y, s, e) => Captured(x, s, e)
<1>1. y \in Drain
  BY DEF Drain, ToPosted
<1>2. /\ y.answer = x.answer /\ y.step = x.step /\ y.subject = x.subject
      /\ y.entry = x.entry /\ y.upto = x.upto /\ y.todo = x.todo
      /\ y.generation = x.generation /\ y.id = n
  BY DEF Drain, ToPosted
<1>3. DrainOK(y)
  BY <1>2 DEF DrainOK
<1>4. \A s, e : Captured(y, s, e) => Captured(x, s, e)
  BY <1>2 DEF Captured
<1>5. y.subject \in Subjects /\ y.entry \in Entry /\ y.upto \in Versions
  BY <1>1, <1>2, DrainFields DEF DrainOK, AtWork
<1>6. PICK b : b = IF y.entry.base = None THEN 0 ELSE y.entry.base
  OBVIOUS
<1>7. PICK u : u = IF y.step = "delta" THEN y.upto ELSE 1
  OBVIOUS
<1>8. b \in Versions /\ u \in Versions
  BY <1>5, <1>6, <1>7, EntryFields, VersionsAre
<1>9. Frame(y) = [id |-> n, subject |-> y.subject, kind |-> y.step,
                  base |-> b, upto |-> u]
  BY <1>2, <1>6, <1>7 DEF Frame
<1>10. /\ Frame(y) \in Request /\ Frame(y).subject = x.subject
       /\ Frame(y).kind = x.step
  BY <1>2, <1>5, <1>8, <1>9 DEF Request
<1>11. QED BY <1>1, <1>2, <1>3, <1>4, <1>10


-----------------------------------------------------------------------------
(* The entries a step may leave *)

LEMMA SentIs ==
  ASSUME NEW e \in Entry, NEW f, f = Sent(e)
  PROVE  /\ f \in Entry /\ f.envelope = "none"
         /\ f.generation = e.generation /\ f.base = e.base
<1>1. f = [e EXCEPT !.envelope = "none", !.failures = 0, !.waiting = FALSE]
  BY DEF Sent
<1>2. 0 \in 0..BlockAfter
  BY VersionsAre
<1>3. QED BY <1>1, <1>2 DEF Entry

Kept(e, v) == [Sent(e) EXCEPT !.base = v]

LEMMA KeptIs ==
  ASSUME NEW e \in Entry, NEW v \in Versions, NEW f, f = Kept(e, v)
  PROVE  /\ f \in Entry /\ f.envelope = "none"
         /\ f.generation = e.generation /\ f.base = v
<1>1. PICK g : g = Sent(e)
  OBVIOUS
<1>2. /\ g \in Entry /\ g.envelope = "none" /\ g.generation = e.generation
  BY <1>1, SentIs
<1>3. f = [g EXCEPT !.base = v]
  BY <1>1 DEF Kept
<1>4. QED BY <1>2, <1>3 DEF Entry

LEMMA RefusedIs ==
  ASSUME NEW e \in Entry, NEW a, NEW f, f = RefusedEntry(e, a)
  PROVE  /\ f \in Entry /\ f.envelope = e.envelope
         /\ f.generation = e.generation /\ f.base = e.base
<1>1. PICK n : n = IF e.failures + 1 >= BlockAfter THEN BlockAfter ELSE e.failures + 1
  OBVIOUS
<1>2. PICK b : b = (e.failures + 1 >= BlockAfter /\ a = "blocking")
  OBVIOUS
<1>3. n \in 0..BlockAfter /\ b \in BOOLEAN
  BY <1>1, <1>2, EntryFields, VersionsAre
<1>4. f = [e EXCEPT !.failures = n, !.waiting = TRUE, !.blocked = b]
  BY <1>1, <1>2 DEF RefusedEntry
<1>5. QED BY <1>3, <1>4 DEF Entry

LEMMA ElapsedIs ==
  ASSUME NEW e \in Entry, NEW f, f = [e EXCEPT !.waiting = FALSE]
  PROVE  /\ f \in Entry /\ f.envelope = e.envelope
         /\ f.generation = e.generation /\ f.base = e.base
BY DEF Entry

\* What mark_dirty makes of the entry there was, or of none.
LEMMA MarkedIs ==
  ASSUME NEW e \in Entry \cup {None}, NEW w \in Write,
         NEW n, n = IF e = None THEN 1 ELSE e.generation + 1,
         n \in Generations, w.kind = "genesis" => w.from + 1 \in Versions,
         NEW f, f = Marked(e, w)
  PROVE  /\ f \in Entry /\ f.generation = n
         /\ f.envelope = IF w.kind # "edit" THEN w.kind
                         ELSE IF e = None THEN "none" ELSE e.envelope
         /\ f.base = IF w.kind = "genesis" THEN w.from + 1
                     ELSE IF e # None THEN e.base
                     ELSE IF w.kind = "destroy" THEN None ELSE w.from
<1>1. PICK old : old = IF e = None THEN NewEntry(w) ELSE e
  OBVIOUS
<1>2. PICK v : v = IF w.kind = "edit" THEN old.envelope ELSE w.kind
  OBVIOUS
<1>3. PICK b : b = IF w.kind = "genesis" THEN w.from + 1 ELSE old.base
  OBVIOUS
<1>4. f = [old EXCEPT !.generation = @ + 1, !.failures = 0, !.waiting = FALSE,
                      !.blocked = FALSE, !.envelope = v, !.base = b]
  BY <1>1, <1>2, <1>3 DEF Marked, Envelope
<1>5. /\ w.kind \in {"genesis", "edit", "destroy"} /\ w.from \in Versions
  BY DEF Write
<1>6. CASE e = None
  <2>1. old = [generation |-> 0, base |-> BaseBefore(w), envelope |-> "none",
               failures |-> 0, waiting |-> FALSE, blocked |-> FALSE]
    BY <1>1, <1>6 DEF NewEntry
  <2>2. f = [generation |-> 0 + 1, base |-> b, envelope |-> v,
             failures |-> 0, waiting |-> FALSE, blocked |-> FALSE]
    BY <1>4, <2>1
  <2>3. v = IF w.kind = "edit" THEN "none" ELSE w.kind
    BY <1>2, <2>1
  <2>4. b = IF w.kind = "genesis" THEN w.from + 1
            ELSE IF w.kind = "destroy" THEN None ELSE w.from
    BY <1>3, <2>1 DEF BaseBefore
  <2>5. /\ 0 \in 0..BlockAfter /\ 0 + 1 \in Generations
        /\ v \in {"none", "genesis", "destroy"} /\ b \in Versions \cup {None}
    BY <1>5, <1>6, <2>3, <2>4, VersionsAre
  <2>6. f \in Entry
    BY <2>2, <2>5 DEF Entry
  <2>7. QED BY <1>5, <1>6, <2>2, <2>3, <2>4, <2>6
<1>7. CASE e # None
  <2>1. old = e /\ e \in Entry
    BY <1>1, <1>7
  <2>2. /\ v \in {"none", "genesis", "destroy"}
        /\ b \in Versions \cup {None}
    BY <1>2, <1>3, <1>5, <2>1, EntryFields
  <2>3. e.generation + 1 \in Generations /\ 0 \in 0..BlockAfter
    BY <1>7, VersionsAre
  <2>4. /\ f \in Entry /\ f.generation = e.generation + 1
        /\ f.envelope = v /\ f.base = b
    BY <1>4, <2>1, <2>2, <2>3 DEF Entry
  <2>5. QED BY <1>2, <1>3, <1>7, <2>1, <2>4
<1>8. QED BY <1>6, <1>7

\* Whatever keeps the generation, and the envelope or none, is as good.
LEMMA EntryLike ==
  ASSUME NEW s, NEW e, NEW f, EntryOK(s, e), f.generation = e.generation,
         f.envelope \in {e.envelope, "none"}
  PROVE  EntryOK(s, f)
BY DEF EntryOK

\* Each copy of an entry is one there was, or what was put in place of one.
AsHeld ==
  \A s \in Subjects, e \in Entry : Holds(s, e)' =>
    \E f \in Entry : /\ Holds(s, f) /\ e.generation = f.generation
                     /\ e.envelope \in {f.envelope, "none"}

Shrinks == \A s \in Subjects, e \in Entry : Holds(s, e)' => Holds(s, e)

LEMMA EntriesStay ==
  ASSUME TInv, UNCHANGED <<doc, unmarked>>, AsHeld
  PROVE  UnmarkedOK' /\ EntriesOK'
<1>1. UnmarkedOK'
  BY DEF TInv, UnmarkedOK, WriteOK
<1>2. ASSUME NEW s \in Subjects, NEW e \in Entry, Holds(s, e)'
      PROVE  EntryOK(s, e)'
  <2>1. PICK f \in Entry : /\ Holds(s, f) /\ e.generation = f.generation
                           /\ e.envelope \in {f.envelope, "none"}
    BY <1>2 DEF AsHeld
  <2>2. EntryOK(s, e)
    BY <2>1, EntryLike DEF TInv, EntriesOK
  <2>3. QED BY <2>2 DEF EntryOK
<1>3. QED BY <1>1, <1>2 DEF EntriesOK

\* A frame was in flight before, perhaps with somebody to wait for it, or is
\* sent for an entry that is held.
SameFrame(r, q) == r.subject = q.subject /\ r.kind = q.kind /\ r.upto = q.upto
NewFrame(r) ==
  \E e \in Entry : /\ Holds(r.subject, e)
                   /\ r.kind = IF e.envelope = "none" THEN "delta" ELSE e.envelope
FramesFrom ==
  /\ requests' \subseteq Request
  /\ \A r \in requests' : (\E q \in requests : SameFrame(r, q)) \/ NewFrame(r)

LEMMA FramesStay ==
  ASSUME TInv, doc' = doc, FramesFrom PROVE FramesOK'
<1>1. ASSUME NEW r \in requests', NEW q \in requests, SameFrame(r, q)
      PROVE  FrameOK(r)'
  BY <1>1 DEF TInv, FramesOK, FrameOK, SameFrame
<1>2. ASSUME NEW r \in requests', NewFrame(r) PROVE FrameOK(r)'
  <2>1. PICK e \in Entry :
          /\ Holds(r.subject, e)
          /\ r.kind = IF e.envelope = "none" THEN "delta" ELSE e.envelope
    BY <1>2 DEF NewFrame
  <2>2. r.subject \in Subjects
    BY RequestFields DEF FramesFrom
  <2>3. EntryOK(r.subject, e)
    BY <2>1, <2>2 DEF TInv, EntriesOK
  <2>4. QED BY <2>1, <2>3 DEF EntryOK, FrameOK
<1>3. QED BY <1>1, <1>2 DEF FramesFrom, FramesOK

LEMMA FewerFrames ==
  ASSUME TInv, requests' \subseteq requests PROVE FramesFrom
BY DEF FramesFrom, SameFrame, TInv, TypeOK

LEMMA OneFrame ==
  ASSUME TInv, NEW r \in Request, requests' = requests \cup {r}, NewFrame(r)
  PROVE  FramesFrom
BY DEF FramesFrom, SameFrame, TInv, TypeOK

-----------------------------------------------------------------------------
(* The steps of a drain, with what they leave *)

LEMMA DrainStep ==
  ASSUME TypeOK, DrainsOK, NEW d \in Drains, NEW y \in Drain, DrainOK(y),
         drains' = [drains EXCEPT ![d] = y]
  PROVE  drains' \in [Drains -> Drain] /\ DrainsOK'
<1>1. drains' \in [Drains -> Drain]
  BY DEF TypeOK
<1>2. ASSUME NEW o \in Drains PROVE DrainOK(drains[o])'
  <2>1. PICK z : z = drains'[o]
    OBVIOUS
  <2>2. DrainOK(z)
    BY <2>1, OneMoves DEF DrainsOK
  <2>3. QED BY <2>1, <2>2 DEF DrainOK, AtWork, Busy
<1>3. QED BY <1>1, <1>2 DEF DrainsOK

\* The captures of one drain shrink, and no entry but a cleared one moves.
LEMMA HoldsShrink ==
  ASSUME TypeOK, NEW d \in Drains, NEW y,
         drains' = [drains EXCEPT ![d] = y], found' = found,
         \A s \in Subjects : \A e : Captured(y, s, e) => Captured(drains[d], s, e),
         \A s \in Subjects : entries'[s] \in {entries[s], None}
  PROVE  Shrinks
<1> SUFFICES ASSUME NEW s \in Subjects, NEW e \in Entry, Holds(s, e)'
             PROVE  Holds(s, e)
  BY DEF Shrinks
<1>1. \/ entries'[s] = e
      \/ e \in found'[s]
      \/ Captured(y, s, e)
      \/ \E o \in Drains : Captured(drains[o], s, e)
  BY OneMoves
<1>2. e # None
  BY NoneNot
<1>3. QED BY <1>1, <1>2 DEF Holds

LEMMA IdsAre == \A d \in Drains : TInv => NextIds(d) \subseteq Nat
BY DrainIs, DrainFields DEF NextIds

\* A frame is sent for what a drain is at.
LEMMA PostEffect ==
  ASSUME TInv, NEW d \in Drains, NEW p \in Drain, DrainOK(p),
         p.step \in {"genesis", "delta", "destroy"}, Post(d, p)
  PROVE  \E y \in Drain :
    /\ drains' = [drains EXCEPT ![d] = y] /\ DrainOK(y)
    /\ y.answer = p.answer /\ y.step = p.step /\ y.subject = p.subject
    /\ y.entry = p.entry /\ y.upto = p.upto
    /\ y.generation = p.generation
    /\ requests' = requests \cup {Frame(y)} /\ Frame(y) \in Request
    /\ Frame(y).subject = p.subject /\ Frame(y).kind = p.step
    /\ \A s, e : Captured(y, s, e) => Captured(p, s, e)
<1>1. PICK k : k = IF UniqueIds THEN 0 ELSE drains[d].posts + 1
  OBVIOUS
<1>2. PICK n \in NextIds(d) :
        /\ drains' = [drains EXCEPT ![d] = ToPosted(p, n, k)]
        /\ requests' = requests \cup {Frame(ToPosted(p, n, k))}
  BY <1>1 DEF Post, ToPosted
<1>3. n \in Nat /\ k \in Nat
  BY <1>1, IdsAre, DrainIs, DrainFields
<1>4. PICK y : y = ToPosted(p, n, k)
  OBVIOUS
<1>5. /\ y \in Drain /\ DrainOK(y)
      /\ y.answer = p.answer /\ y.step = p.step /\ y.subject = p.subject
      /\ y.entry = p.entry /\ y.upto = p.upto
      /\ y.generation = p.generation
      /\ Frame(y) \in Request /\ Frame(y).subject = p.subject
      /\ Frame(y).kind = p.step
      /\ \A s, e : Captured(y, s, e) => Captured(p, s, e)
  BY <1>3, <1>4, PostedIsDrain
<1>6. QED BY <1>2, <1>4, <1>5

LEMMA TakeEffect ==
  ASSUME TInv, NEW d \in Drains, TakeEntry(d)
  PROVE  \E c \in drains[d].todo, y \in Drain :
    /\ drains' = [drains EXCEPT ![d] = y] /\ DrainOK(y)
    /\ y.step = IF c.entry.envelope = "none" THEN "snapshot" ELSE c.entry.envelope
    /\ y.subject = c.subject /\ y.entry = c.entry /\ y.answer = "none"
    /\ c.subject \in Subjects /\ c.entry \in Entry
    /\ Holds(c.subject, c.entry)
    /\ \A s, e : Captured(y, s, e) => Captured(drains[d], s, e)
    /\ FramesFrom
<1>1. PICK x : x = drains[d]
  OBVIOUS
<1>2. PICK c \in x.todo :
        IF c.entry.envelope # "none" THEN Post(d, ToTaken(x, c, c.entry.envelope))
        ELSE /\ drains' = [drains EXCEPT ![d] = ToTaken(x, c, c.entry.envelope)]
             /\ requests' = requests
  BY <1>1 DEF TakeEntry, ToTaken
<1>3. PICK k : k = c.entry.envelope
  OBVIOUS
<1>4. PICK p : p = ToTaken(x, c, k)
  OBVIOUS
<1>5. x \in Drain /\ DrainOK(x) /\ x.step = "between"
  BY <1>1, DrainIs DEF TakeEntry
<1>6. /\ p \in Drain /\ DrainOK(p)
      /\ p.step = IF k = "none" THEN "snapshot" ELSE k
      /\ p.subject = c.subject /\ p.entry = c.entry /\ p.answer = "none"
      /\ c.subject \in Subjects /\ c.entry \in Entry
      /\ k \in {"none", "genesis", "destroy"}
      /\ \A s, e : Captured(p, s, e) => Captured(x, s, e)
  BY <1>3, <1>4, <1>5, TakenIsDrain
<1>7. Holds(c.subject, c.entry)
  BY <1>1 DEF Holds, Captured
<1>8. CASE k = "none"
  <2>1. drains' = [drains EXCEPT ![d] = p] /\ requests' = requests
    BY <1>2, <1>3, <1>4, <1>8
  <2>2. FramesFrom
    BY <2>1, FewerFrames
  <2>3. QED BY <1>1, <1>3, <1>6, <1>7, <1>8, <2>1, <2>2
<1>9. CASE k # "none"
  <2>1. Post(d, p)
    BY <1>2, <1>3, <1>4, <1>9
  <2>2. PICK y \in Drain :
          /\ drains' = [drains EXCEPT ![d] = y] /\ DrainOK(y)
          /\ y.answer = p.answer /\ y.step = p.step /\ y.subject = p.subject
          /\ y.entry = p.entry
          /\ requests' = requests \cup {Frame(y)} /\ Frame(y) \in Request
          /\ Frame(y).subject = p.subject /\ Frame(y).kind = p.step
          /\ \A s, e : Captured(y, s, e) => Captured(p, s, e)
    BY <1>6, <1>9, <2>1, PostEffect
  <2>3. FramesFrom
    <3>1. NewFrame(Frame(y))
      BY <1>3, <1>6, <1>7, <1>9, <2>2 DEF NewFrame
    <3>2. QED BY <2>2, <3>1, OneFrame
  <2>4. QED BY <1>1, <1>3, <1>6, <1>7, <1>9, <2>2, <2>3
<1>10. QED BY <1>8, <1>9

LEMMA SnapshotEffect ==
  ASSUME TInv, NEW d \in Drains, ReadSnapshot(d)
  PROVE  \E y \in Drain :
    /\ drains' = [drains EXCEPT ![d] = y] /\ DrainOK(y)
    /\ drains[d].subject \in Subjects
    /\ \A s \in Subjects : \A e : Captured(y, s, e) => Captured(drains[d], s, e)
    /\ IF doc[drains[d].subject].state = "live"
         THEN /\ y.step = "generation" /\ y.subject = drains[d].subject
              /\ y.entry = drains[d].entry
              /\ y.upto = doc[drains[d].subject].version
              /\ entries' = entries
         ELSE /\ y.step = "between"
              /\ entries' = [entries EXCEPT ![drains[d].subject] = None]
<1>1. PICK x : x = drains[d]
  OBVIOUS
<1>2. /\ x \in Drain /\ DrainOK(x) /\ x.step = "snapshot"
      /\ x.subject \in Subjects
  BY <1>1, DrainIs DEF ReadSnapshot, DrainOK, AtWork
<1>3. CASE doc[x.subject].state = "live"
  <2>1. PICK y : y = ToGeneration(x, doc[x.subject].version)
    OBVIOUS
  <2>2. doc[x.subject].version \in Versions
    BY <1>2 DEF TInv, TypeOK, Copy
  <2>3. drains' = [drains EXCEPT ![d] = y] /\ entries' = entries
    BY <1>1, <1>3, <2>1 DEF ReadSnapshot, ToGeneration, TInv, TypeOK
  <2>4. /\ y \in Drain /\ DrainOK(y)
        /\ y.step = "generation" /\ y.subject = x.subject /\ y.entry = x.entry
        /\ y.upto = doc[x.subject].version
        /\ \A s, e : Captured(y, s, e) => Captured(x, s, e)
    BY <1>2, <2>1, <2>2, SnapshotIsDrain
  <2>5. QED BY <1>1, <1>2, <1>3, <2>3, <2>4
<1>4. CASE doc[x.subject].state # "live"
  <2>1. PICK y : y = ToBetween(x)
    OBVIOUS
  <2>2. /\ drains' = [drains EXCEPT ![d] = y]
        /\ entries' = [entries EXCEPT ![x.subject] = None]
    BY <1>1, <1>4, <2>1 DEF ReadSnapshot, Between, ToBetween
  <2>3. /\ y \in Drain /\ DrainOK(y) /\ y.step = "between"
        /\ \A s \in Subjects : \A e : Captured(y, s, e) => Captured(x, s, e)
    BY <1>2, <2>1, BetweenIsDrain DEF AtWork, Busy
  <2>4. QED BY <1>1, <1>2, <1>4, <2>2, <2>3
<1>5. QED BY <1>1, <1>3, <1>4

\* What drain_subject does last: Between, for whatever it makes of the entry.
LEMMA BetweenEffect ==
  ASSUME TInv, NEW d \in Drains, drains[d].step \in Busy, drains' = Between(d)
  PROVE  \E y \in Drain :
    /\ drains' = [drains EXCEPT ![d] = y] /\ DrainOK(y)
    /\ drains[d].subject \in Subjects /\ y.step = "between"
    /\ \A s \in Subjects : \A e : Captured(y, s, e) => Captured(drains[d], s, e)
<1>1. PICK x : x = drains[d]
  OBVIOUS
<1>2. /\ x \in Drain /\ DrainOK(x) /\ x.step \in Busy /\ x.subject \in Subjects
  BY <1>1, DrainIs DEF DrainOK, Busy
<1>3. PICK y : y = ToBetween(x)
  OBVIOUS
<1>4. drains' = [drains EXCEPT ![d] = y]
  BY <1>1, <1>3 DEF Between, ToBetween
<1>5. /\ y \in Drain /\ DrainOK(y) /\ y.step = "between"
      /\ \A s \in Subjects : \A e : Captured(y, s, e) => Captured(x, s, e)
  BY <1>2, <1>3, BetweenIsDrain
<1>6. QED BY <1>1, <1>2, <1>4, <1>5

\* An empty export: the entry is cleared at once.
ExportsNothing(d) ==
  /\ drains[d].entry.base = drains[d].upto /\ drains' = Between(d)
  /\ entries' = [entries EXCEPT ![drains[d].subject] = None]
  /\ requests' = requests

LEMMA ExportEffect ==
  ASSUME TInv, NEW d \in Drains, Export(d), ~ExportsNothing(d)
  PROVE  \E y \in Drain :
    /\ drains' = [drains EXCEPT ![d] = y] /\ DrainOK(y)
    /\ entries' = entries
    /\ drains[d].subject \in Subjects /\ drains[d].entry \in Entry
    /\ \A s \in Subjects : \A e : Captured(y, s, e) => Captured(drains[d], s, e)
    /\ FramesFrom
    /\ \/ /\ doc[drains[d].subject].state = "live"
          /\ y.step = "delta" /\ y.subject = drains[d].subject
          /\ y.entry = drains[d].entry /\ y.upto = drains[d].upto
          /\ y.generation = ExportedGeneration(drains[d].subject)
          /\ y.answer = "none"
       \/ y = Idle
<1>1. PICK x : x = drains[d]
  OBVIOUS
<1>2. PICK g : g = ExportedGeneration(x.subject)
  OBVIOUS
<1>3. PICK p : p = ToDelta(x, g)
  OBVIOUS
<1>4. drains[d].step = "generation"
  BY DEF Export
<1>5. /\ x \in Drain /\ DrainOK(x) /\ x.step = "generation"
      /\ x.subject \in Subjects /\ x.entry \in Entry
      /\ Holds(x.subject, x.entry) /\ x.entry.envelope = "none"
  BY <1>1, <1>4, DrainIs, WorkHolds DEF AtWork
<1>6. CASE /\ doc[x.subject].state = "live" /\ Post(d, p) /\ entries' = entries
  <2>1. g \in Generations \cup {None}
    BY <1>2, <1>5, EntryFields DEF ExportedGeneration, TInv, TypeOK
  <2>2. /\ p \in Drain /\ DrainOK(p)
        /\ p.step = "delta" /\ p.subject = x.subject /\ p.entry = x.entry
        /\ p.upto = x.upto /\ p.generation = g /\ p.answer = "none"
        /\ \A s, e : Captured(p, s, e) => Captured(x, s, e)
    BY <1>3, <1>5, <2>1, DeltaIsDrain
  <2>3. PICK y \in Drain :
          /\ drains' = [drains EXCEPT ![d] = y] /\ DrainOK(y)
          /\ y.answer = p.answer /\ y.step = p.step /\ y.subject = p.subject
          /\ y.entry = p.entry /\ y.upto = p.upto
          /\ y.generation = p.generation
          /\ requests' = requests \cup {Frame(y)} /\ Frame(y) \in Request
          /\ Frame(y).subject = p.subject /\ Frame(y).kind = p.step
          /\ \A s, e : Captured(y, s, e) => Captured(p, s, e)
    BY <1>6, <2>2, PostEffect
  <2>4. NewFrame(Frame(y))
    BY <1>5, <2>2, <2>3 DEF NewFrame
  <2>5. FramesFrom
    BY <2>3, <2>4, OneFrame
  <2>6. QED BY <1>1, <1>2, <1>5, <1>6, <2>2, <2>3, <2>5
<1>7. CASE /\ drains' = [drains EXCEPT ![d] = Idle]
           /\ entries' = entries /\ requests' = requests
  <2>1. FramesFrom
    BY <1>7, FewerFrames
  <2>2. QED BY <1>1, <1>5, <1>7, <2>1, IdleCaptures, IdleIsDrain
<1>8. \/ /\ doc[x.subject].state = "live" /\ Post(d, p) /\ entries' = entries
      \/ /\ drains' = [drains EXCEPT ![d] = Idle]
         /\ entries' = entries /\ requests' = requests
  BY <1>1, <1>2, <1>3 DEF Export, ExportsNothing, ToDelta
<1>9. QED BY <1>6, <1>7, <1>8

LEMMA StartEffect ==
  ASSUME TInv, NEW d \in Drains, StartDrain(d)
  PROVE  \E y \in Drain :
    /\ drains' = [drains EXCEPT ![d] = y] /\ DrainOK(y)
    /\ y.step = "between"
    /\ \A s \in Subjects : \A e : Captured(y, s, e) => entries[s] = e
<1>1. PICK due : due = {s \in Subjects : Due(entries[s])}
  OBVIOUS
<1>2. PICK T : T = {[subject |-> s, depth |-> TierOf(s), entry |-> entries[s]] :
                      s \in due}
  OBVIOUS
<1>3. PICK y : y = [Idle EXCEPT !.step = "between", !.todo = T]
  OBVIOUS
<1>4. drains' = [drains EXCEPT ![d] = y]
  BY <1>1, <1>2, <1>3 DEF StartDrain
<1>5. y = [step |-> "between", todo |-> T, subject |-> None, entry |-> None,
           upto |-> 0, generation |-> None, id |-> 0, posts |-> 0,
           answer |-> "none"]
  BY <1>3 DEF Idle
<1>6. \A s \in due : s \in Subjects /\ entries[s] \in Entry /\ TierOf(s) \in Nat
  <2>1. \A s \in Subjects : TierOf(s) \in Nat
    BY TreeAssumption DEF TierOf
  <2>2. QED BY <1>1, <2>1 DEF Due, TInv, TypeOK
<1>7. \A c \in T : /\ c.subject \in due /\ c.entry = entries[c.subject]
  BY <1>2
<1>8. T \in SUBSET Candidate
  BY <1>2, <1>6 DEF Candidate
<1>9. y \in Drain
  BY <1>5, <1>8, VersionsAre DEF Drain, Answers
<1>10. DrainOK(y)
  BY <1>5 DEF DrainOK, AtWork, Busy
<1>11. \A s \in Subjects : \A e : Captured(y, s, e) => entries[s] = e
  BY <1>5, <1>7, NoneNot DEF Captured
<1>12. QED BY <1>4, <1>5, <1>9, <1>10, <1>11

\* What a put makes of the outbox; and that another drain's delta which it
\* blinds is a race, but where the generation was there before.
LEMMA PutsEffect ==
  ASSUME TInv, NEW d \in Drains, drains[d].subject \in Subjects,
         NEW f \in Entry, Puts(d, f)
  PROVE  /\ entries' = [entries EXCEPT ![drains[d].subject] = f]
         /\ raced \subseteq raced' /\ raced' \subseteq Subjects
         /\ \A o \in Drains :
              /\ o # d /\ drains[o].step = "delta"
              /\ drains[o].subject = drains[d].subject
              /\ drains[o].generation = f.generation
              => \/ drains[d].subject \in raced'
                 \/ /\ entries[drains[d].subject] # None
                    /\ entries[drains[d].subject].generation = f.generation
BY DEF Puts, Blinded, TInv, TypeOK

LEMMA GenesisEffect ==
  ASSUME TInv, NEW d \in Drains, GenesisAcked(d)
  PROVE  \E y \in Drain, f \in Entry :
    /\ drains' = [drains EXCEPT ![d] = y] /\ DrainOK(y)
    /\ drains[d].subject \in Subjects /\ drains[d].entry \in Entry
    /\ drains[d].entry.envelope = "genesis"
    /\ f.envelope = "none" /\ f.generation = drains[d].entry.generation
    /\ f.base = drains[d].entry.base
    /\ Puts(d, f)
    /\ y.step = "snapshot" /\ y.subject = drains[d].subject /\ y.entry = f
    /\ \A s, e : Captured(y, s, e) =>
         Captured(drains[d], s, e) \/ (s = drains[d].subject /\ e = f)
<1>1. PICK x : x = drains[d]
  OBVIOUS
<1>2. /\ x \in Drain /\ DrainOK(x) /\ x.step = "genesis"
      /\ x.subject \in Subjects /\ x.entry \in Entry
      /\ x.entry.envelope = "genesis"
  BY <1>1, DrainIs DEF GenesisAcked, DrainOK, AtWork
<1>3. PICK f : f = Sent(x.entry)
  OBVIOUS
<1>4. /\ f \in Entry /\ f.envelope = "none"
      /\ f.generation = x.entry.generation /\ f.base = x.entry.base
  BY <1>2, <1>3, SentIs
<1>5. PICK y : y = ToSnapshot(x, f)
  OBVIOUS
<1>6. drains' = [drains EXCEPT ![d] = y] /\ Puts(d, f)
  BY <1>1, <1>3, <1>5 DEF GenesisAcked, ToSnapshot
<1>7. /\ y \in Drain /\ DrainOK(y)
      /\ y.step = "snapshot" /\ y.subject = x.subject /\ y.entry = f
      /\ \A s, e : Captured(y, s, e) =>
           Captured(x, s, e) \/ (s = x.subject /\ e = f)
  BY <1>2, <1>4, <1>5, GenesisIsDrain
<1>8. QED BY <1>1, <1>2, <1>4, <1>6, <1>7

\* The delta was acknowledged: the drain reads the entry again.
LEMMA RereadEffect ==
  ASSUME TInv, NEW d \in Drains, DeltaAcked(d)
  PROVE  \E y \in Drain :
    /\ drains' = [drains EXCEPT ![d] = y] /\ DrainOK(y)
    /\ drains[d].subject \in Subjects
    /\ y.step = "settle" /\ y.subject = drains[d].subject
    /\ y.entry = entries[drains[d].subject]
    /\ y.upto = drains[d].upto /\ y.generation = drains[d].generation
    /\ \A s, e : Captured(y, s, e) => Captured(drains[d], s, e) \/ entries[s] = e
<1>1. PICK x : x = drains[d]
  OBVIOUS
<1>2. x \in Drain /\ DrainOK(x) /\ x.step = "delta" /\ x.subject \in Subjects
  BY <1>1, DrainIs DEF DeltaAcked, DrainOK, AtWork
<1>3. PICK y : y = ToSettle(x, entries[x.subject])
  OBVIOUS
<1>4. entries[x.subject] \in Entry \cup {None}
  BY <1>2 DEF TInv, TypeOK
<1>5. drains' = [drains EXCEPT ![d] = y]
  BY <1>1, <1>3 DEF DeltaAcked, ToSettle
<1>6. /\ y \in Drain /\ DrainOK(y)
      /\ y.step = "settle" /\ y.subject = x.subject /\ y.entry = entries[x.subject]
      /\ y.upto = x.upto /\ y.generation = x.generation
      /\ \A s, e : Captured(y, s, e) =>
           Captured(x, s, e) \/ (s = x.subject /\ e = entries[x.subject])
  BY <1>2, <1>3, <1>4, SettleIsDrain
<1>7. \A s, e : Captured(y, s, e) => Captured(drains[d], s, e) \/ entries[s] = e
  BY <1>1, <1>6
<1>8. QED BY <1>1, <1>2, <1>5, <1>6, <1>7

\* Every other answer ends in Between; the entry is cleared, or put back like
\* the captured one, or like the one read again with what was sent taken off.
Ends(d) == DestroyAcked(d) \/ Settle(d) \/ Refused(d) \/ Dropped(d)

LEMMA EndsEffect ==
  ASSUME TInv, NEW d \in Drains, Ends(d)
  PROVE  /\ drains' = Between(d) /\ drains[d].step \in Busy
         /\ drains[d].subject \in Subjects
         /\ \/ /\ DestroyAcked(d) \/ Dropped(d) \/ (Settle(d) /\ ~EditedSince(d))
               /\ entries' = [entries EXCEPT ![drains[d].subject] = None]
               /\ raced' = raced
            \/ \E f \in Entry :
                 /\ Puts(d, f)
                 /\ \/ /\ Settle(d) /\ EditedSince(d)
                       /\ drains[d].entry \in Entry
                       /\ f.envelope = "none" /\ f.base = drains[d].upto
                       /\ f.generation = drains[d].entry.generation
                    \/ /\ Refused(d) /\ drains[d].entry \in Entry
                       /\ drains[d].step \in AtWork
                       /\ f.envelope = drains[d].entry.envelope
                       /\ f.base = drains[d].entry.base
                       /\ f.generation = drains[d].entry.generation
<1>1. PICK x : x = drains[d]
  OBVIOUS
<1>2. drains' = Between(d) /\ drains[d].step \in Busy
  BY DEF Ends, DestroyAcked, Settle, Refused, Dropped, Posted, AtWork, Busy
<1>3. /\ x \in Drain /\ DrainOK(x) /\ x.subject \in Subjects
      /\ x.entry \in Entry \cup {None} /\ x.upto \in Versions
  <2>1. x \in Drain /\ DrainOK(x) /\ x.step \in Busy
    BY <1>1, <1>2, DrainIs
  <2>2. x.subject \in Subjects
    BY <2>1 DEF DrainOK, Busy
  <2>3. QED BY <2>1, <2>2, DrainFields
<1>4. CASE DestroyAcked(d)
  BY <1>1, <1>2, <1>3, <1>4 DEF DestroyAcked, history
<1>5. CASE Dropped(d)
  BY <1>1, <1>2, <1>3, <1>5 DEF Dropped
<1>6. CASE Settle(d) /\ ~EditedSince(d)
  BY <1>1, <1>2, <1>3, <1>6 DEF Settle
<1>7. CASE Settle(d) /\ EditedSince(d)
  <2>1. x.entry \in Entry
    BY <1>1, <1>3, <1>7 DEF EditedSince
  <2>2. PICK f : f = Kept(x.entry, x.upto)
    OBVIOUS
  <2>3. /\ f \in Entry /\ f.envelope = "none"
        /\ f.generation = x.entry.generation /\ f.base = x.upto
    BY <1>3, <2>1, <2>2, KeptIs
  <2>4. Puts(d, f)
    BY <1>1, <1>7, <2>2 DEF Settle, ExportedVersion, Kept
  <2>5. QED BY <1>1, <1>2, <1>3, <1>7, <2>1, <2>3, <2>4
<1>8. CASE Refused(d)
  <2>1. PICK f : f = RefusedEntry(x.entry, x.answer)
    OBVIOUS
  <2>2. x.step \in AtWork /\ x.entry \in Entry
    BY <1>1, <1>3, <1>8 DEF Refused, Posted, AtWork, DrainOK
  <2>3. /\ f \in Entry /\ f.envelope = x.entry.envelope
        /\ f.generation = x.entry.generation /\ f.base = x.entry.base
    BY <2>1, <2>2, RefusedIs
  <2>4. Puts(d, f)
    BY <1>1, <1>8, <2>1 DEF Refused
  <2>5. QED BY <1>1, <1>2, <1>3, <1>8, <2>2, <2>3, <2>4
<1>9. QED BY <1>4, <1>5, <1>6, <1>7, <1>8 DEF Ends

\* What a request may be told.
LEMMA AnswerIs ==
  ASSUME TInv, NEW r \in requests, NEW a, a \in Refusals(r) \cup {Verdict(r)}
  PROVE  /\ a \in {"ok", "transient", "blocking", "terminal"}
         /\ a = "ok" => Verdict(r) = "ok"
         /\ a = "terminal" => r.kind # "destroy"
<1>1. r.kind \in {"genesis", "delta", "destroy"}
  BY FramesIn
<1>2. Verdict(r) \in {"ok", "transient", "blocking"}
  BY <1>1 DEF Verdict
<1>3. QED BY <1>2 DEF Refusals

\* A drain that is the same but for the answer it was given.
SameWork(y, x) ==
  /\ y.step = x.step /\ y.subject = x.subject /\ y.entry = x.entry
  /\ y.upto = x.upto /\ y.generation = x.generation

\* An answer is for whoever hears it, and changes nothing else of the drains;
\* who hears another's is crossed, and what is below it.
LEMMA HubEffect ==
  ASSUME TInv, NEW r \in requests, NEW a, HubAnswers(r, a)
  PROVE  /\ drains' \in [Drains -> Drain] /\ DrainsOK' /\ Shrinks
         /\ \A o \in Drains :
              /\ SameWork(drains'[o], drains[o])
              /\ drains'[o].answer = IF Hears(o, r) THEN a ELSE drains[o].answer
              /\ Hears(o, r) => /\ drains[o].step \in AtWork
                                /\ \/ Frame(drains[o]) = r
                                   \/ Under(drains[o].subject) \subseteq crossed'
<1>1. a \in Answers
  BY AnswerIs DEF HubAnswers, Answers
<1>2. ASSUME NEW o \in Drains
      PROVE  /\ drains'[o] \in Drain /\ DrainOK(drains[o])'
             /\ SameWork(drains'[o], drains[o])
             /\ \A s, e : Captured(drains[o], s, e)' => Captured(drains[o], s, e)
             /\ drains'[o].answer = IF Hears(o, r) THEN a ELSE drains[o].answer
  <2>1. PICK x : x = drains[o]
    OBVIOUS
  <2>2. PICK y : y = drains'[o]
    OBVIOUS
  <2>3. x \in Drain /\ DrainOK(x)
    BY <2>1, DrainIs
  <2>4. y = IF Hears(o, r) THEN ToAnswered(x, a) ELSE x
    BY <2>1, <2>2 DEF HubAnswers, ToAnswered
  <2>5. Hears(o, r) => x.step # "between"
    BY <2>1 DEF Hears, Waits, Posted
  <2>6. /\ y \in Drain /\ DrainOK(y)
        /\ y.answer = IF Hears(o, r) THEN a ELSE x.answer
        /\ y.step = x.step /\ y.subject = x.subject /\ y.entry = x.entry
        /\ y.upto = x.upto /\ y.generation = x.generation
        /\ \A s, e : Captured(y, s, e) => Captured(x, s, e)
    BY <1>1, <2>3, <2>4, <2>5, AnsweredIsDrain
  <2>7. DrainOK(drains[o])'
    BY <2>2, <2>6 DEF DrainOK, AtWork, Busy
  <2>8. \A s, e : Captured(drains[o], s, e)' => Captured(drains[o], s, e)
    BY <2>1, <2>2, <2>6 DEF Captured
  <2>9. QED BY <2>1, <2>2, <2>6, <2>7, <2>8 DEF SameWork
<1>3. drains' \in [Drains -> Drain] /\ DrainsOK'
  <2>1. drains' = [o \in Drains |-> drains'[o]]
    BY DEF HubAnswers
  <2>2. QED BY <1>2, <2>1 DEF DrainsOK
<1>4. Shrinks
  BY <1>2 DEF Shrinks, Holds, HubAnswers, local
<1>5. ASSUME NEW o \in Drains, Hears(o, r)
      PROVE  /\ drains[o].step \in AtWork
             /\ Frame(drains[o]) = r \/ Under(drains[o].subject) \subseteq crossed'
  <2>1. drains[o].step \in AtWork
    BY <1>5 DEF Hears, Waits, Posted, AtWork
  <2>2. Frame(drains[o]) # r => drains[o].subject \in Misled(r)
    BY <1>5 DEF Misled
  <2>3. QED BY <2>1, <2>2 DEF HubAnswers
<1>6. QED BY <1>2, <1>3, <1>4, <1>5

LEMMA GiveUpEffect ==
  ASSUME TInv, NEW d \in Drains, GiveUp(d)
  PROVE  \E y \in Drain :
    /\ drains' = [drains EXCEPT ![d] = y] /\ DrainOK(y)
    /\ SameWork(y, drains[d]) /\ y.answer = "transient"
    /\ \A s, e : Captured(y, s, e) => Captured(drains[d], s, e)
<1>1. PICK x : x = drains[d]
  OBVIOUS
<1>2. x \in Drain /\ DrainOK(x) /\ x.step # "between"
  BY <1>1, DrainIs DEF GiveUp, Posted
<1>3. PICK y : y = ToAnswered(x, "transient")
  OBVIOUS
<1>4. drains' = [drains EXCEPT ![d] = y]
  BY <1>1, <1>3 DEF GiveUp, ToAnswered, TInv, TypeOK
<1>5. "transient" \in Answers
  BY DEF Answers
<1>6. /\ y \in Drain /\ DrainOK(y)
      /\ y.answer = "transient" /\ y.step = x.step
      /\ y.subject = x.subject /\ y.upto = x.upto
      /\ y.generation = x.generation /\ y.entry = x.entry
      /\ \A s, e : Captured(y, s, e) => Captured(x, s, e)
  BY <1>2, <1>3, <1>5, AnsweredIsDrain
<1>7. QED BY <1>1, <1>4, <1>6 DEF SameWork

\* A frame that was given up is lost, or left without anyone to hear of it.
LEMMA GiveUpFrames ==
  ASSUME TInv, NEW d \in Drains, GiveUp(d) PROVE FramesFrom
<1>1. PICK late, left :
        /\ requests' = (requests \ (requests \cap {Frame(drains[d])})) \cup left
        /\ late \subseteq UNION {StillSent(r) : r \in requests \cap {Frame(drains[d])}}
        /\ left \in {{}} \cup {{r} : r \in late}
  BY DEF GiveUp
<1>2. ASSUME NEW q \in requests, NEW r \in StillSent(q)
      PROVE  r \in Request /\ SameFrame(r, q)
  <2>1. q \in Request
    BY FramesIn
  <2>2. Unheard(q) \in Request /\ SameFrame(Unheard(q), q)
    BY <2>1 DEF Unheard, Request, SameFrame
  <2>3. r = Unheard(q) \/ r = q
    BY <1>2 DEF StillSent
  <2>4. QED BY <2>1, <2>2, <2>3 DEF SameFrame
<1>3. \A r \in requests' : r \in requests \/ \E q \in requests : r \in StillSent(q)
  BY <1>1
<1>4. ASSUME NEW r \in requests'
      PROVE  r \in Request /\ \E q \in requests : SameFrame(r, q)
  BY <1>2, <1>3, FramesIn DEF SameFrame
<1>5. QED BY <1>4 DEF FramesFrom

-----------------------------------------------------------------------------
(* The tree *)

LEMMA UnderFacts ==
  ASSUME NEW s \in Subjects
  PROVE  /\ Under(s) \subseteq Subjects /\ s \in Under(s)
         /\ \A c \in Subjects : Parent[c] \in Under(s) => c \in Under(s)
BY DEF Under

\* What holds of a resource and passes to children holds of all below it.
LEMMA UnderLeast ==
  ASSUME NEW s \in Subjects, NEW S \in SUBSET Subjects, s \in S,
         \A c \in Subjects : Parent[c] \in S => c \in S
  PROVE  Under(s) \subseteq S
BY DEF Under

\* Everything below a resource other than itself is the child of something
\* below it.
LEMMA UnderHasParent ==
  ASSUME NEW s \in Subjects, NEW c \in Under(s), c # s
  PROVE  Parent[c] \in Under(s)
<1>1. PICK S : S = {t \in Under(s) : t = s \/ Parent[t] \in Under(s)}
  OBVIOUS
<1>2. S \in SUBSET Subjects /\ s \in S /\ S \subseteq Under(s)
  BY <1>1, UnderFacts
<1>3. ASSUME NEW t \in Subjects, Parent[t] \in S PROVE t \in S
  <2>1. Parent[t] \in Under(s) /\ t \in Under(s)
    BY <1>2, <1>3, UnderFacts
  <2>2. QED BY <1>1, <2>1
<1>4. Under(s) \subseteq S
  BY <1>2, <1>3, UnderLeast
<1>5. QED BY <1>1, <1>4

-----------------------------------------------------------------------------
(* Types: local writes *)

LEMMA HoldsOnly ==
  ASSUME UNCHANGED <<entries, found, drains>>
  PROVE  \A s, e : Holds(s, e)' <=> Holds(s, e)
BY DEF Holds, Captured

LEMMA DrainsSame ==
  ASSUME DrainsOK, UNCHANGED drains PROVE DrainsOK'
BY DEF DrainsOK, DrainOK, AtWork, Busy

\* No resource's frame comes before it, and what is gone stays so.
LEMMA FramesSame ==
  ASSUME TInv, UNCHANGED requests,
         \A s \in Subjects : doc[s].state # "none" => doc'[s].state # "none",
         \A s \in Subjects : doc[s].state = "gone" => doc'[s].state = "gone"
  PROVE  FramesOK'
<1>1. ASSUME NEW r \in requests PROVE FrameOK(r)'
  <2>1. r.subject \in Subjects /\ FrameOK(r)
    BY FramesIn
  <2>2. QED BY <2>1 DEF FrameOK
<1>2. QED BY <1>1 DEF FramesOK

LEMMA InitTyped == Init => TInv
<1> SUFFICES ASSUME Init PROVE TInv
  OBVIOUS
<1>1. PICK synced \in SUBSET Subjects :
        doc = [s \in Subjects |->
                [state |-> IF s \in synced THEN "live" ELSE "none", version |-> 0]]
        /\ hub = doc
  BY DEF Init
<1>2. doc \in [Subjects -> Copy] /\ hub \in [Subjects -> Copy]
  BY <1>1, VersionsAre DEF Copy
<1>3. crashes \in 0..MaxCrashes
  BY BoundsAssumption DEF Init
<1>4. TypeOK
  BY <1>2, <1>3, IdleIsDrain DEF Init, TypeOK
<1>5. UnmarkedOK
  BY DEF Init, UnmarkedOK
<1>6. \A s \in Subjects, e \in Entry : ~Holds(s, e)
  BY IdleFields, NoneNot DEF Init, Holds, Captured
<1>7. DrainsOK /\ FramesOK
  BY IdleIsDrain DEF Init, DrainsOK, FramesOK
<1>8. QED BY <1>4, <1>5, <1>6, <1>7 DEF TInv, EntriesOK

LEMMA CreateTyped ==
  ASSUME TInv, NEW s \in Subjects, Create(s) PROVE TInv'
<1>1. PICK w : w = [subject |-> s, kind |-> "genesis", from |-> 0]
  OBVIOUS
<1>2. w \in Write /\ w.subject = s /\ w.kind = "genesis" /\ w.from = 0
  BY <1>1, VersionsAre DEF Write
<1>3. /\ unmarked' = unmarked \cup {w}
      /\ doc[s].state = "none" /\ doc \in [Subjects -> Copy]
      /\ doc' = [doc EXCEPT ![s] = [state |-> "live", version |-> 1]]
      /\ unmarked \subseteq Write
  BY <1>1 DEF Create, TInv, TypeOK, history
<1>4. /\ doc'[s].state = "live" /\ doc'[s].version = 1
      /\ \A t \in Subjects : t # s => doc'[t] = doc[t]
      /\ \A v \in unmarked : v.subject \in Subjects /\ v.subject # s
  BY <1>3 DEF TInv, UnmarkedOK, WriteOK, Write
<1>5. TypeOK'
  <2>1. doc' \in [Subjects -> Copy]
    BY <1>3, VersionsAre DEF Copy
  <2>2. QED BY <1>2, <1>3, <2>1 DEF Create, TInv, TypeOK, history
<1>6. UnmarkedOK'
  <2>1. ASSUME NEW v \in unmarked PROVE WriteOK(v)'
    BY <1>2, <1>3, <1>4 DEF TInv, UnmarkedOK, WriteOK
  <2>2. WriteOK(w)'
    BY <1>2, <1>3, <1>4 DEF WriteOK
  <2>3. QED BY <1>3, <2>1, <2>2 DEF UnmarkedOK
<1>7. EntriesOK'
  <2>1. ASSUME NEW t \in Subjects, NEW e \in Entry, Holds(t, e)'
        PROVE  EntryOK(t, e)'
    <3>1. EntryOK(t, e) /\ t # s
      BY <1>3, <2>1, HoldsOnly DEF Create, TInv, EntriesOK, EntryOK
    <3>2. QED BY <1>2, <1>3, <1>4, <3>1 DEF EntryOK
  <2>2. QED BY <2>1 DEF EntriesOK
<1>8. FramesOK'
  BY <1>3, <1>4, FramesSame DEF Create
<1>9. QED BY <1>5, <1>6, <1>7, <1>8, DrainsSame DEF Create, TInv

LEMMA EditTyped ==
  ASSUME TInv, NEW s \in Subjects, Edit(s) PROVE TInv'
<1>1. PICK w : w = [subject |-> s, kind |-> "edit", from |-> doc[s].version]
  OBVIOUS
<1>2. /\ doc[s].state = "live" /\ doc \in [Subjects -> Copy]
      /\ doc[s].version \in Versions /\ doc[s].version < MaxEdits
      /\ doc' = [doc EXCEPT ![s].version = @ + 1]
      /\ unmarked' = unmarked \cup {w} /\ unmarked \subseteq Write
  BY <1>1 DEF Edit, TInv, TypeOK, Copy
<1>3. w \in Write /\ w.subject = s /\ w.kind = "edit" /\ w.from = doc[s].version
  BY <1>1, <1>2 DEF Write
<1>4. /\ doc'[s].state = "live" /\ doc'[s].version = doc[s].version + 1
      /\ doc[s].version \in Nat
      /\ \A t \in Subjects : t # s => doc'[t] = doc[t]
      /\ \A v \in unmarked : v.subject \in Subjects /\ v.from \in Nat
  BY <1>2, VersionsAre DEF Write, Copy
<1>5. TypeOK'
  <2>1. doc[s].version + 1 \in Versions
    BY <1>2, <1>4, VersionsAre
  <2>2. doc' \in [Subjects -> Copy]
    BY <1>2, <2>1 DEF Copy
  <2>3. QED BY <1>2, <1>3, <2>2 DEF Edit, TInv, TypeOK, history
<1>6. \A v \in unmarked : v.subject = s => v.kind # "destroy" /\ v.from < doc[s].version
  BY <1>2 DEF TInv, UnmarkedOK, WriteOK
<1>7. UnmarkedOK'
  <2>1. ASSUME NEW v \in unmarked PROVE WriteOK(v)'
    BY <1>2, <1>3, <1>4, <1>6 DEF TInv, UnmarkedOK, WriteOK
  <2>2. WriteOK(w)'
    BY <1>2, <1>3, <1>4, <1>6 DEF WriteOK
  <2>3. QED BY <1>2, <2>1, <2>2 DEF UnmarkedOK
<1>8. EntriesOK'
  <2>1. ASSUME NEW t \in Subjects, NEW e \in Entry, Holds(t, e)'
        PROVE  EntryOK(t, e)'
    <3>1. EntryOK(t, e) /\ e.generation \in Nat
      BY <2>1, HoldsOnly, EntryFields, VersionsAre DEF Edit, TInv, EntriesOK
    <3>2. CASE t = s
      BY <1>2, <1>3, <1>4, <3>1, <3>2 DEF EntryOK
    <3>3. CASE t # s
      BY <1>2, <1>3, <1>4, <3>1, <3>3 DEF EntryOK
    <3>4. QED BY <3>2, <3>3
  <2>2. QED BY <2>1 DEF EntriesOK
<1>9. FramesOK'
  BY <1>2, <1>4, FramesSame DEF Edit
<1>10. QED BY <1>5, <1>7, <1>8, <1>9, DrainsSame DEF Edit, TInv

LEMMA DestroyTyped ==
  ASSUME TInv, NEW s \in Subjects, Destroy(s) PROVE TInv'
<1>1. PICK w : w = [subject |-> s, kind |-> "destroy", from |-> doc[s].version]
  OBVIOUS
<1>2. /\ doc[s].state = "live" /\ doc \in [Subjects -> Copy]
      /\ doc[s].version \in Versions
      /\ doc' = [t \in Subjects |->
           IF t \in Under(s) /\ doc[t].state = "live"
             THEN [doc[t] EXCEPT !.state = "gone"] ELSE doc[t]]
      /\ unmarked' = unmarked \cup {w} /\ unmarked \subseteq Write
  BY <1>1 DEF Destroy, TInv, TypeOK, Copy
<1>3. w \in Write /\ w.subject = s /\ w.kind = "destroy" /\ w.from = doc[s].version
  BY <1>1, <1>2 DEF Write
<1>4. \A t \in Subjects :
        /\ doc'[t] \in Copy /\ doc'[t].version = doc[t].version
        /\ doc'[t].state = IF t \in Under(s) /\ doc[t].state = "live"
                             THEN "gone" ELSE doc[t].state
        /\ doc[t].version \in Nat
  BY <1>2, VersionsAre DEF Copy
<1>5. /\ doc'[s].state = "gone"
      /\ \A v \in unmarked : v.subject \in Subjects /\ v.from \in Nat
  BY <1>2, <1>4, UnderFacts, VersionsAre DEF Write
<1>6. TypeOK'
  <2>1. doc' \in [Subjects -> Copy]
    BY <1>2, <1>4
  <2>2. QED BY <1>2, <1>3, <2>1 DEF Destroy, TInv, TypeOK, history
<1>7. \A v \in unmarked : v.subject = s => v.kind # "destroy" /\ v.from < doc[s].version
  BY <1>2 DEF TInv, UnmarkedOK, WriteOK
<1>8. UnmarkedOK'
  <2>1. ASSUME NEW v \in unmarked PROVE WriteOK(v)'
    <3>1. WriteOK(v)
      BY DEF TInv, UnmarkedOK
    <3>2. /\ doc'[v.subject].version = doc[v.subject].version
          /\ doc[v.subject].state = "gone" => doc'[v.subject].state = "gone"
          /\ doc[v.subject].state # "none" => doc'[v.subject].state # "none"
      BY <1>4, <1>5
    <3>3. v.subject = s => v.from < doc[s].version /\ v.from \in Nat
      BY <1>5, <1>7
    <3>4. doc[s].version \in Nat
      BY <1>4
    <3>5. \A u \in unmarked' : u.subject = v.subject /\ u.from = v.from => u = v
      BY <1>2, <1>3, <3>1, <3>3, <3>4 DEF WriteOK
    <3>6. QED BY <3>1, <3>2, <3>5 DEF WriteOK
  <2>2. WriteOK(w)'
    BY <1>2, <1>3, <1>4, <1>5, <1>7 DEF WriteOK
  <2>3. QED BY <1>2, <2>1, <2>2 DEF UnmarkedOK
<1>9. EntriesOK'
  <2>1. ASSUME NEW t \in Subjects, NEW e \in Entry, Holds(t, e)'
        PROVE  EntryOK(t, e)'
    <3>1. EntryOK(t, e) /\ e.generation \in Nat
      BY <2>1, HoldsOnly, EntryFields, VersionsAre DEF Destroy, TInv, EntriesOK
    <3>2. CASE t = s
      BY <1>2, <1>3, <1>4, <1>5, <3>1, <3>2 DEF EntryOK
    <3>3. CASE t # s
      BY <1>2, <1>3, <1>4, <3>1, <3>3 DEF EntryOK
    <3>4. QED BY <3>2, <3>3
  <2>2. QED BY <2>1 DEF EntriesOK
<1>10. FramesOK'
  BY <1>4, FramesSame DEF Destroy
<1>11. QED BY <1>6, <1>8, <1>9, <1>10, DrainsSame DEF Destroy, TInv

-----------------------------------------------------------------------------
(* Types: mark_dirty *)

\* What a commit leaves of the entry that was found, or of none.
MarkedAs(e, old, w) ==
  /\ e.generation = IF old = None THEN 1 ELSE old.generation + 1
  /\ e.envelope = IF w.kind # "edit" THEN w.kind
                  ELSE IF old = None THEN "none" ELSE old.envelope
  /\ e.base = IF w.kind = "genesis" THEN w.from + 1
              ELSE IF old # None THEN old.base
              ELSE IF w.kind = "destroy" THEN None ELSE w.from

LEMMA FindTyped ==
  ASSUME TInv, NEW w \in unmarked, FindEntry(w)
  PROVE  TInv' /\ Shrinks /\ FramesFrom
<1>1. w.subject \in Subjects
  BY WritesIn
<1>2. /\ found' = [found EXCEPT ![w.subject] = {entries[w.subject]}]
      /\ UNCHANGED <<doc, hub, unmarked, entries, drains, requests, crashes>>
      /\ UNCHANGED <<forsaken, raced, crossed>>
  BY DEF FindEntry, history
<1>3. TypeOK'
  BY <1>1, <1>2 DEF TInv, TypeOK
<1>4. Shrinks
  BY <1>1, <1>2 DEF Shrinks, Holds, Captured, TInv, TypeOK
<1>5. UnmarkedOK' /\ EntriesOK'
  BY <1>2, <1>4, EntriesStay DEF Shrinks, AsHeld
<1>6. FramesFrom
  BY <1>2, FewerFrames
<1>7. QED BY <1>2, <1>3, <1>4, <1>5, <1>6, FramesStay, DrainsSame DEF TInv

\* What mark_dirty writes, and why it is in order.
LEMMA MarkEffect ==
  ASSUME TInv, NEW w \in unmarked, MarkDirty(w)
  PROVE  \E f \in Entry, e \in found[w.subject] :
    /\ w.subject \in Subjects /\ e \in Entry \cup {None}
    /\ entries' = [entries EXCEPT ![w.subject] = f]
    /\ found' = [found EXCEPT ![w.subject] = {}]
    /\ raced' = raced \cup Unseen(w.subject, f) \cup Undone(w)
    /\ \A s \in Subjects, g \in Entry : Holds(s, g)' =>
         Holds(s, g) \/ (s = w.subject /\ g = f)
    /\ MarkedAs(f, e, w)
    /\ EntryOK(w.subject, f)'
<1>1. PICK s : s = w.subject
  OBVIOUS
<1>2. PICK e \in found[s] :
        /\ entries' = [entries EXCEPT ![s] = Marked(e, w)]
        /\ raced' = raced \cup Unseen(s, Marked(e, w)) \cup Undone(w)
  BY <1>1 DEF MarkDirty
<1>3. PICK n : n = IF e = None THEN 1 ELSE e.generation + 1
  OBVIOUS
<1>4. PICK v : v = doc[s].version
  OBVIOUS
<1>5. /\ w \in Write /\ s \in Subjects /\ w.from \in Nat
      /\ w.kind \in {"genesis", "edit", "destroy"}
      /\ e \in Entry \cup {None} /\ v \in Nat /\ v <= MaxEdits
  <2>1. w \in Write /\ s \in Subjects
    BY <1>1, WritesIn
  <2>2. doc[s].version \in Versions /\ w.from \in Versions
    BY <2>1 DEF TInv, TypeOK, Copy, Write
  <2>3. w.from \in Nat /\ w.kind \in {"genesis", "edit", "destroy"}
    BY WritesIn
  <2>4. e \in Entry \cup {None}
    BY <2>1, FoundIn
  <2>5. QED BY <1>4, <2>1, <2>2, <2>3, <2>4, VersionsAre
<1>6. /\ doc[s].state # "none"
      /\ w.kind = "genesis" => w.from = 0
      /\ w.kind # "destroy" => w.from < v
      /\ w.kind = "destroy" => w.from = v /\ doc[s].state = "gone"
      /\ \A u \in unmarked : u.subject = s /\ u.from = w.from => u = w
  BY <1>1, <1>4 DEF TInv, UnmarkedOK, WriteOK
<1>7. e # None => EntryOK(s, e) /\ e.generation \in Nat
  <2>1. Holds(s, e)
    BY <1>5, FoundIn
  <2>2. QED BY <1>5, <2>1, EntryFields, VersionsAre DEF TInv, EntriesOK
<1>8. n \in Nat /\ n >= 1 /\ n <= w.from + 1
  <2>1. e # None => e.generation <= w.from
    BY <1>1, <1>7 DEF EntryOK
  <2>2. QED BY <1>3, <1>5, <1>7, <2>1
<1>9. n \in Generations /\ (w.kind = "genesis" => w.from + 1 \in Versions)
  <2>1. n <= MaxEdits + 1
    BY <1>5, <1>6, <1>8, VersionsAre
  <2>2. w.kind = "genesis" => w.from + 1 <= MaxEdits
    BY <1>5, <1>6, VersionsAre
  <2>3. QED BY <1>5, <1>8, <2>1, <2>2, VersionsAre DEF Generations
<1>10. PICK f : f = Marked(e, w)
  OBVIOUS
<1>11. /\ f \in Entry /\ f.generation = n
       /\ f.envelope = IF w.kind # "edit" THEN w.kind
                       ELSE IF e = None THEN "none" ELSE e.envelope
       /\ f.base = IF w.kind = "genesis" THEN w.from + 1
                   ELSE IF e # None THEN e.base
                   ELSE IF w.kind = "destroy" THEN None ELSE w.from
  BY <1>3, <1>5, <1>9, <1>10, MarkedIs
<1>12. /\ entries' = [entries EXCEPT ![s] = f]
       /\ found' = [found EXCEPT ![s] = {}]
       /\ raced' = raced \cup Unseen(s, f) \cup Undone(w)
  BY <1>1, <1>2, <1>10 DEF MarkDirty
<1>13. \A t \in Subjects, g \in Entry : Holds(t, g)' =>
         Holds(t, g) \/ (t = s /\ g = f)
  <2>1. drains' = drains
    BY DEF MarkDirty
  <2>2. QED BY <1>5, <1>12, <2>1 DEF Holds, Captured, TInv, TypeOK
<1>14. \A u \in unmarked' :
         /\ u \in unmarked /\ u # w /\ u.from \in Nat
         /\ u.subject = s => w.from < u.from
  <2>1. ASSUME NEW u \in unmarked' PROVE u \in unmarked /\ u # w /\ u.from \in Nat
    BY WritesIn DEF MarkDirty
  <2>2. ASSUME NEW u \in unmarked', u.subject = s PROVE w.from < u.from
    <3>1. w.from <= u.from /\ u.from # w.from
      BY <1>1, <1>6, <2>1, <2>2 DEF MarkDirty, InOrder
    <3>2. QED BY <1>5, <2>1, <3>1
  <2>3. QED BY <2>1, <2>2
<1>15. f.envelope = "destroy" =>
         doc[s].state = "gone" /\ \A u \in unmarked' : u.subject # s
  <2>1. CASE w.kind = "destroy"
    <3>1. ASSUME NEW u \in unmarked', u.subject = s PROVE FALSE
      <4>1. /\ u \in unmarked /\ w.from < u.from /\ u.from \in Nat
        BY <1>14, <3>1
      <4>2. u.from <= v
        BY <1>4, <1>5, <3>1, <4>1 DEF TInv, UnmarkedOK, WriteOK
      <4>3. QED BY <1>5, <1>6, <2>1, <4>1, <4>2
    <3>2. QED BY <1>6, <2>1, <3>1
  <2>2. CASE w.kind = "edit" /\ e # None /\ e.envelope = "destroy"
    BY <1>1, <1>7, <2>2 DEF EntryOK
  <2>3. QED BY <1>5, <1>11, <2>1, <2>2
<1>16. EntryOK(s, f)'
  <2>1. doc' = doc
    BY DEF MarkDirty
  <2>2. n <= v + 1 /\ (doc[s].state = "live" => n <= v)
    BY <1>5, <1>6, <1>8
  <2>3. \A u \in unmarked' : u.subject = s => n <= u.from
    BY <1>5, <1>8, <1>14
  <2>4. QED BY <1>4, <1>6, <1>11, <1>15, <2>1, <2>2, <2>3 DEF EntryOK
<1>17. MarkedAs(f, e, w)
  BY <1>3, <1>11 DEF MarkedAs
<1>18. QED BY <1>1, <1>5, <1>11, <1>12, <1>13, <1>16, <1>17

LEMMA MarkTyped ==
  ASSUME TInv, NEW w \in unmarked, MarkDirty(w)
  PROVE  TInv' /\ FramesFrom
<1>1. PICK f \in Entry :
        /\ w.subject \in Subjects
        /\ entries' = [entries EXCEPT ![w.subject] = f]
        /\ found' = [found EXCEPT ![w.subject] = {}]
        /\ raced' = raced \cup Unseen(w.subject, f) \cup Undone(w)
        /\ \A s \in Subjects, e \in Entry : Holds(s, e)' =>
             Holds(s, e) \/ (s = w.subject /\ e = f)
        /\ EntryOK(w.subject, f)'
  BY MarkEffect
<1>2. raced' \subseteq Subjects
  BY <1>1 DEF Unseen, Undone, Under, TInv, TypeOK
<1>3. TypeOK'
  BY <1>1, <1>2 DEF MarkDirty, TInv, TypeOK
<1>4. doc' = doc /\ unmarked' \subseteq unmarked
  BY DEF MarkDirty
<1>5. UnmarkedOK'
  BY <1>4 DEF TInv, UnmarkedOK, WriteOK
<1>6. EntriesOK'
  <2>1. ASSUME NEW s \in Subjects, NEW e \in Entry, Holds(s, e) PROVE EntryOK(s, e)'
    BY <1>4, <2>1 DEF TInv, EntriesOK, EntryOK
  <2>2. QED BY <1>1, <2>1 DEF EntriesOK
<1>7. FramesFrom
  BY FewerFrames DEF MarkDirty
<1>8. QED BY <1>3, <1>4, <1>5, <1>6, <1>7, FramesStay, DrainsSame DEF MarkDirty, TInv

-----------------------------------------------------------------------------
(* Types: the drains *)

\* A step of one drain that leaves entries and frames like those it found.
LEMMA DrainTyped ==
  ASSUME TInv, NEW d \in Drains, NEW y \in Drain, DrainOK(y),
         drains' = [drains EXCEPT ![d] = y],
         UNCHANGED <<doc, hub, unmarked, found, crashes>>,
         entries' \in [Subjects -> Entry \cup {None}],
         forsaken' \subseteq Subjects, raced' \subseteq Subjects,
         crossed' \subseteq Subjects, FramesFrom, AsHeld
  PROVE  TInv'
<1>1. drains' \in [Drains -> Drain] /\ DrainsOK'
  BY DrainStep DEF TInv
<1>2. UnmarkedOK' /\ EntriesOK'
  BY EntriesStay
<1>3. TypeOK'
  BY <1>1 DEF TInv, TypeOK, FramesFrom
<1>4. FramesOK'
  BY FramesStay
<1>5. QED BY <1>1, <1>2, <1>3, <1>4 DEF TInv

LEMMA ShrinkIsLike == ASSUME Shrinks PROVE AsHeld
BY DEF Shrinks, AsHeld

\* The common case: captures shrink and at most one entry is cleared.
LEMMA ShrinkTyped ==
  ASSUME TInv, NEW d \in Drains, NEW y \in Drain, DrainOK(y),
         drains' = [drains EXCEPT ![d] = y],
         UNCHANGED <<doc, hub, unmarked, found, crashes>>,
         \A s \in Subjects : \A e : Captured(y, s, e) => Captured(drains[d], s, e),
         entries' \in [Subjects -> Entry \cup {None}],
         \A s \in Subjects : entries'[s] \in {entries[s], None},
         UNCHANGED history, FramesFrom
  PROVE  TInv' /\ Shrinks
<1>1. Shrinks
  BY HoldsShrink DEF TInv
<1>2. /\ forsaken' \subseteq Subjects /\ raced' \subseteq Subjects
      /\ crossed' \subseteq Subjects
  BY DEF history, TInv, TypeOK
<1>3. QED BY <1>1, <1>2, ShrinkIsLike, DrainTyped

LEMMA ClearedIs ==
  ASSUME TInv, NEW s \in Subjects, entries' = [entries EXCEPT ![s] = None]
  PROVE  /\ entries' \in [Subjects -> Entry \cup {None}]
         /\ \A t \in Subjects : entries'[t] \in {entries[t], None}
         /\ entries'[s] = None /\ \A t \in Subjects : t # s => entries'[t] = entries[t]
BY DEF TInv, TypeOK

LEMMA SameEntries ==
  ASSUME TInv, entries' = entries
  PROVE  /\ entries' \in [Subjects -> Entry \cup {None}]
         /\ \A t \in Subjects : entries'[t] \in {entries[t], None}
BY DEF TInv, TypeOK

LEMMA StartTyped ==
  ASSUME TInv, NEW d \in Drains, StartDrain(d)
  PROVE  TInv' /\ Shrinks /\ FramesFrom
<1>1. PICK y \in Drain :
        /\ drains' = [drains EXCEPT ![d] = y] /\ DrainOK(y)
        /\ \A s \in Subjects : \A e : Captured(y, s, e) => entries[s] = e
  BY StartEffect
<1>2. /\ UNCHANGED <<doc, hub, unmarked, found, entries, crashes>>
      /\ UNCHANGED <<forsaken, raced, crossed, requests>>
  BY DEF StartDrain, local, history
<1>3. Shrinks
  BY <1>1, <1>2, OneMoves DEF Shrinks, Holds, TInv
<1>4. FramesFrom
  BY <1>2, FewerFrames
<1>5. TInv'
  BY <1>1, <1>2, <1>3, <1>4, ShrinkIsLike, DrainTyped DEF TInv, TypeOK
<1>6. QED BY <1>3, <1>4, <1>5

LEMMA TakeTyped ==
  ASSUME TInv, NEW d \in Drains, TakeEntry(d)
  PROVE  TInv' /\ Shrinks /\ FramesFrom
<1>1. PICK c \in drains[d].todo, y \in Drain :
        /\ drains' = [drains EXCEPT ![d] = y] /\ DrainOK(y)
        /\ \A s, e : Captured(y, s, e) => Captured(drains[d], s, e)
        /\ FramesFrom
  BY TakeEffect
<1>2. /\ UNCHANGED <<doc, hub, unmarked, found, crashes>> /\ entries' = entries
      /\ UNCHANGED history
  BY DEF TakeEntry, local
<1>3. QED BY <1>1, <1>2, SameEntries, ShrinkTyped

LEMMA EndTyped ==
  ASSUME TInv, NEW d \in Drains, EndDrain(d)
  PROVE  TInv' /\ Shrinks /\ FramesFrom
<1>1. /\ UNCHANGED <<doc, hub, unmarked, found, crashes>> /\ entries' = entries
      /\ UNCHANGED history /\ requests' = requests
      /\ drains' = [drains EXCEPT ![d] = Idle]
  BY DEF EndDrain, local
<1>2. FramesFrom
  BY <1>1, FewerFrames
<1>3. QED BY <1>1, <1>2, IdleCaptures, IdleIsDrain, SameEntries, ShrinkTyped

LEMMA SnapshotTyped ==
  ASSUME TInv, NEW d \in Drains, ReadSnapshot(d)
  PROVE  TInv' /\ Shrinks /\ FramesFrom
<1>1. PICK y \in Drain :
        /\ drains' = [drains EXCEPT ![d] = y] /\ DrainOK(y)
        /\ drains[d].subject \in Subjects
        /\ \A s \in Subjects : \A e : Captured(y, s, e) => Captured(drains[d], s, e)
        /\ \/ entries' = entries
           \/ entries' = [entries EXCEPT ![drains[d].subject] = None]
  BY SnapshotEffect
<1>2. /\ entries' \in [Subjects -> Entry \cup {None}]
      /\ \A s \in Subjects : entries'[s] \in {entries[s], None}
  BY <1>1, ClearedIs, SameEntries
<1>3. /\ UNCHANGED <<doc, hub, unmarked, found, crashes>>
      /\ UNCHANGED history /\ requests' = requests
  BY DEF ReadSnapshot, local
<1>4. FramesFrom
  BY <1>3, FewerFrames
<1>5. QED BY <1>1, <1>2, <1>3, <1>4, ShrinkTyped

LEMMA ExportTyped ==
  ASSUME TInv, NEW d \in Drains, Export(d)
  PROVE  TInv' /\ Shrinks /\ FramesFrom
<1>1. /\ UNCHANGED <<doc, hub, unmarked, found, crashes>>
      /\ UNCHANGED history /\ drains[d].step = "generation"
  BY DEF Export, local
<1>2. CASE ~ExportsNothing(d)
  <2>1. PICK y \in Drain :
          /\ drains' = [drains EXCEPT ![d] = y] /\ DrainOK(y)
          /\ entries' = entries
          /\ \A s \in Subjects : \A e : Captured(y, s, e) => Captured(drains[d], s, e)
          /\ FramesFrom
    BY <1>2, ExportEffect
  <2>2. QED BY <1>1, <2>1, SameEntries, ShrinkTyped
<1>3. CASE ExportsNothing(d)
  <2>1. PICK y \in Drain :
          /\ drains' = [drains EXCEPT ![d] = y] /\ DrainOK(y)
          /\ drains[d].subject \in Subjects
          /\ \A s \in Subjects : \A e : Captured(y, s, e) => Captured(drains[d], s, e)
    BY <1>1, <1>3, BetweenEffect DEF AtWork, Busy, ExportsNothing
  <2>2. /\ entries' \in [Subjects -> Entry \cup {None}]
        /\ \A s \in Subjects : entries'[s] \in {entries[s], None}
    BY <1>3, <2>1, ClearedIs DEF ExportsNothing
  <2>3. FramesFrom
    BY <1>3, FewerFrames DEF ExportsNothing
  <2>4. QED BY <1>1, <2>1, <2>2, <2>3, ShrinkTyped
<1>4. QED BY <1>2, <1>3

LEMMA GiveUpTyped ==
  ASSUME TInv, NEW d \in Drains, GiveUp(d)
  PROVE  TInv' /\ Shrinks /\ FramesFrom
<1>1. PICK y \in Drain :
        /\ drains' = [drains EXCEPT ![d] = y] /\ DrainOK(y)
        /\ \A s, e : Captured(y, s, e) => Captured(drains[d], s, e)
  BY GiveUpEffect
<1>2. /\ UNCHANGED <<doc, hub, unmarked, found, crashes>> /\ entries' = entries
      /\ UNCHANGED history
  BY DEF GiveUp, local
<1>3. QED BY <1>1, <1>2, GiveUpFrames, SameEntries, ShrinkTyped

LEMMA HubTyped ==
  ASSUME TInv, NEW r \in requests, NEW a, HubAnswers(r, a)
  PROVE  TInv' /\ Shrinks /\ FramesFrom
<1>1. drains' \in [Drains -> Drain] /\ DrainsOK' /\ Shrinks
  BY HubEffect
<1>2. hub' \in [Subjects -> Copy]
  <2>1. CASE hub' = hub
    BY <2>1 DEF TInv, TypeOK
  <2>2. CASE hub' = Applied(r)
    <3>1. PICK h : h = hub
      OBVIOUS
    <3>2. PICK s : s = r.subject
      OBVIOUS
    <3>3. /\ r.kind \in {"genesis", "delta", "destroy"} /\ s \in Subjects
          /\ r.upto \in Versions /\ h \in [Subjects -> Copy]
      BY <3>1, <3>2, FramesIn DEF TInv, TypeOK
    <3>4. CASE r.kind = "genesis"
      <4>1. Applied(r) = [h EXCEPT ![s] = IF h[s].state = "live" THEN h[s]
                                          ELSE [state |-> "live", version |-> 1]]
        BY <3>1, <3>2, <3>4 DEF Applied
      <4>2. [state |-> "live", version |-> 1] \in Copy
        BY VersionsAre DEF Copy
      <4>3. QED BY <2>2, <3>3, <4>1, <4>2
    <3>5. CASE r.kind = "delta"
      <4>1. Applied(r) = [h EXCEPT ![s].version =
                            IF h[s].version < r.upto THEN r.upto ELSE h[s].version]
        BY <3>1, <3>2, <3>5 DEF Applied
      <4>2. QED BY <2>2, <3>3, <4>1 DEF Copy
    <3>6. CASE r.kind = "destroy"
      <4>1. Applied(r) = [t \in Subjects |-> IF t \in Under(s) /\ h[t].state = "live"
                            THEN [h[t] EXCEPT !.state = "gone"] ELSE h[t]]
        BY <3>1, <3>2, <3>6 DEF Applied
      <4>2. QED BY <2>2, <3>3, <4>1 DEF Copy
    <3>7. QED BY <3>3, <3>4, <3>5, <3>6
  <2>3. QED BY <2>1, <2>2 DEF HubAnswers
<1>3. /\ UNCHANGED <<doc, unmarked, found, entries, crashes, forsaken, raced>>
      /\ requests' \subseteq requests
  BY DEF HubAnswers, local
<1>4. crossed' \subseteq Subjects
  BY DEF HubAnswers, Under, TInv, TypeOK
<1>5. TypeOK'
  BY <1>1, <1>2, <1>3, <1>4 DEF TInv, TypeOK
<1>6. UnmarkedOK' /\ EntriesOK'
  BY <1>1, <1>3, ShrinkIsLike, EntriesStay
<1>7. FramesFrom /\ FramesOK'
  BY <1>3, FewerFrames, FramesStay
<1>8. QED BY <1>1, <1>5, <1>6, <1>7 DEF TInv

\* The acknowledged genesis: one new copy of an entry, in both places.
LEMMA GenesisHolds ==
  ASSUME TInv, NEW d \in Drains, GenesisAcked(d)
  PROVE  \E f \in Entry :
    /\ drains[d].subject \in Subjects /\ drains[d].entry \in Entry
    /\ f.envelope = "none" /\ f.generation = drains[d].entry.generation
    /\ f.base = drains[d].entry.base /\ Puts(d, f)
    /\ \A s \in Subjects, e \in Entry : Holds(s, e)' =>
         Holds(s, e) \/ (s = drains[d].subject /\ e = f)
<1>1. PICK y \in Drain, f \in Entry :
        /\ drains' = [drains EXCEPT ![d] = y]
        /\ drains[d].subject \in Subjects /\ drains[d].entry \in Entry
        /\ f.envelope = "none" /\ f.generation = drains[d].entry.generation
        /\ f.base = drains[d].entry.base /\ Puts(d, f)
        /\ \A s, e : Captured(y, s, e) =>
             Captured(drains[d], s, e) \/ (s = drains[d].subject /\ e = f)
  BY GenesisEffect
<1>2. /\ found' = found
      /\ entries' = [entries EXCEPT ![drains[d].subject] = f]
  BY <1>1, PutsEffect DEF GenesisAcked, local
<1>3. ASSUME NEW s \in Subjects, NEW e \in Entry, Holds(s, e)'
      PROVE  Holds(s, e) \/ (s = drains[d].subject /\ e = f)
  <2>1. \/ entries'[s] = e
        \/ e \in found'[s]
        \/ Captured(y, s, e)
        \/ \E o \in Drains : Captured(drains[o], s, e)
    BY <1>1, <1>3, OneMoves DEF TInv
  <2>2. entries'[s] = e => entries[s] = e \/ (s = drains[d].subject /\ e = f)
    BY <1>1, <1>2 DEF TInv, TypeOK
  <2>3. QED BY <1>1, <1>2, <2>1, <2>2 DEF Holds
<1>4. QED BY <1>1, <1>3

\* After the steps that end a subject a copy of an entry was held before, or is
\* the one the outbox now holds of it.
LEMMA EndsHolds ==
  ASSUME TInv, NEW d \in Drains, Ends(d), NEW f \in Entry \cup {None},
         entries' = [entries EXCEPT ![drains[d].subject] = f]
  PROVE  \A s \in Subjects, e \in Entry : Holds(s, e)' =>
           Holds(s, e) \/ (s = drains[d].subject /\ e = f)
<1>1. drains' = Between(d) /\ drains[d].step \in Busy
  BY EndsEffect
<1>2. PICK y \in Drain :
        /\ drains' = [drains EXCEPT ![d] = y]
        /\ \A s \in Subjects : \A e : Captured(y, s, e) => Captured(drains[d], s, e)
  BY <1>1, BetweenEffect
<1>3. found' = found
  BY DEF Ends, DestroyAcked, Settle, Refused, Dropped, local
<1>4. ASSUME NEW s \in Subjects, NEW e \in Entry, Holds(s, e)'
      PROVE  Holds(s, e) \/ (s = drains[d].subject /\ e = f)
  <2>1. \/ entries'[s] = e
        \/ e \in found'[s]
        \/ Captured(y, s, e)
        \/ \E o \in Drains : Captured(drains[o], s, e)
    BY <1>2, <1>4, OneMoves DEF TInv
  <2>2. entries'[s] = e => entries[s] = e \/ (s = drains[d].subject /\ e = f)
    BY DEF TInv, TypeOK
  <2>3. QED BY <1>2, <1>3, <2>1, <2>2 DEF Holds
<1>5. QED BY <1>4

LEMMA DrainHolds ==
  ASSUME TInv, NEW d \in Drains
  PROVE  Holds(drains[d].subject, drains[d].entry)
BY DEF Holds, Captured

LEMMA GenesisTyped ==
  ASSUME TInv, NEW d \in Drains, GenesisAcked(d) PROVE TInv' /\ FramesFrom
<1>1. PICK y \in Drain : drains' = [drains EXCEPT ![d] = y] /\ DrainOK(y)
  BY GenesisEffect
<1>2. PICK f \in Entry :
        /\ drains[d].subject \in Subjects /\ drains[d].entry \in Entry
        /\ f.envelope = "none" /\ f.generation = drains[d].entry.generation
        /\ Puts(d, f)
        /\ \A s \in Subjects, e \in Entry : Holds(s, e)' =>
             Holds(s, e) \/ (s = drains[d].subject /\ e = f)
  BY GenesisHolds
<1>3. AsHeld
  BY <1>2, DrainHolds DEF AsHeld
<1>4. /\ UNCHANGED <<doc, hub, unmarked, found, crashes>> /\ requests' = requests
      /\ forsaken' \subseteq Subjects /\ crossed' \subseteq Subjects
  BY DEF GenesisAcked, local, TInv, TypeOK
<1>5. /\ entries' \in [Subjects -> Entry \cup {None}] /\ raced' \subseteq Subjects
  BY <1>2, PutsEffect DEF TInv, TypeOK
<1>6. FramesFrom
  BY <1>4, FewerFrames
<1>7. QED BY <1>1, <1>3, <1>4, <1>5, <1>6, DrainTyped

LEMMA RereadTyped ==
  ASSUME TInv, NEW d \in Drains, DeltaAcked(d)
  PROVE  TInv' /\ Shrinks /\ FramesFrom
<1>1. PICK y \in Drain :
        /\ drains' = [drains EXCEPT ![d] = y] /\ DrainOK(y)
        /\ \A s, e : Captured(y, s, e) => Captured(drains[d], s, e) \/ entries[s] = e
  BY RereadEffect
<1>2. /\ UNCHANGED <<doc, hub, unmarked, found, entries, crashes>>
      /\ UNCHANGED <<forsaken, raced, crossed, requests>>
  BY DEF DeltaAcked, local, history
<1>3. Shrinks
  BY <1>1, <1>2, OneMoves DEF Shrinks, Holds, TInv
<1>4. FramesFrom
  BY <1>2, FewerFrames
<1>5. TInv'
  BY <1>1, <1>2, <1>3, <1>4, ShrinkIsLike, DrainTyped DEF TInv, TypeOK
<1>6. QED BY <1>3, <1>4, <1>5

LEMMA EndsTyped ==
  ASSUME TInv, NEW d \in Drains, Ends(d) PROVE TInv' /\ FramesFrom
<1>1. drains' = Between(d) /\ drains[d].step \in Busy /\ drains[d].subject \in Subjects
  BY EndsEffect
<1>2. PICK y \in Drain : drains' = [drains EXCEPT ![d] = y] /\ DrainOK(y)
  BY <1>1, BetweenEffect
<1>3. /\ UNCHANGED <<doc, hub, unmarked, found, crashes>> /\ requests' = requests
      /\ forsaken' \subseteq Subjects /\ crossed' \subseteq Subjects
  <2>1. /\ UNCHANGED <<doc, hub, unmarked, found, crashes>> /\ requests' = requests
        /\ crossed' = crossed
        /\ forsaken' \in {forsaken, forsaken \cup {drains[d].subject}}
    BY DEF Ends, DestroyAcked, Settle, Refused, Dropped, local, history
  <2>2. QED BY <1>1, <2>1 DEF TInv, TypeOK
<1>4. /\ entries' \in [Subjects -> Entry \cup {None}] /\ raced' \subseteq Subjects
      /\ AsHeld
  <2>1. CASE /\ entries' = [entries EXCEPT ![drains[d].subject] = None]
             /\ raced' = raced
    <3>1. Shrinks
      BY <2>1, EndsHolds, NoneNot DEF Shrinks
    <3>2. QED BY <1>1, <2>1, <3>1, ClearedIs, ShrinkIsLike DEF TInv, TypeOK
  <2>2. ASSUME NEW f \in Entry, Puts(d, f), drains[d].entry \in Entry,
               f.generation = drains[d].entry.generation,
               f.envelope \in {drains[d].entry.envelope, "none"}
        PROVE  /\ entries' \in [Subjects -> Entry \cup {None}]
               /\ raced' \subseteq Subjects /\ AsHeld
    <3>1. /\ entries' = [entries EXCEPT ![drains[d].subject] = f]
          /\ raced' \subseteq Subjects
      BY <1>1, <2>2, PutsEffect
    <3>2. \A s \in Subjects, e \in Entry : Holds(s, e)' =>
            Holds(s, e) \/ (s = drains[d].subject /\ e = f)
      BY <3>1, EndsHolds
    <3>3. AsHeld
      BY <2>2, <3>2, DrainHolds DEF AsHeld
    <3>4. QED BY <3>1, <3>3 DEF TInv, TypeOK
  <2>3. QED BY <2>1, <2>2, EndsEffect
<1>5. FramesFrom
  BY <1>3, FewerFrames
<1>6. QED BY <1>2, <1>3, <1>4, <1>5, DrainTyped

-----------------------------------------------------------------------------
(* Types: the rest *)

LEMMA ElapseEffect ==
  ASSUME TInv, NEW s \in Subjects, Elapse(s)
  PROVE  \E f \in Entry :
    /\ entries[s] \in Entry /\ entries' = [entries EXCEPT ![s] = f]
    /\ f.envelope = entries[s].envelope /\ f.base = entries[s].base
    /\ f.generation = entries[s].generation
    /\ \A t \in Subjects, e \in Entry : Holds(t, e)' =>
         Holds(t, e) \/ (t = s /\ e = f)
<1>1. PICK g : g = entries[s]
  OBVIOUS
<1>2. g \in Entry
  BY <1>1 DEF Elapse, TInv, TypeOK
<1>3. PICK f : f = [g EXCEPT !.waiting = FALSE]
  OBVIOUS
<1>4. /\ f \in Entry /\ f.envelope = g.envelope
      /\ f.base = g.base /\ f.generation = g.generation
  BY <1>2, <1>3 DEF Entry
<1>5. entries' = [entries EXCEPT ![s] = f]
  BY <1>1, <1>3 DEF Elapse, TInv, TypeOK
<1>6. \A t \in Subjects, e \in Entry : Holds(t, e)' => Holds(t, e) \/ (t = s /\ e = f)
  <2>1. drains' = drains /\ found' = found
    BY DEF Elapse, local
  <2>2. QED BY <1>5, <2>1 DEF Holds, Captured, TInv, TypeOK
<1>7. QED BY <1>1, <1>2, <1>4, <1>5, <1>6

LEMMA ElapseTyped ==
  ASSUME TInv, NEW s \in Subjects, Elapse(s) PROVE TInv' /\ FramesFrom
<1>1. PICK f \in Entry :
        /\ entries[s] \in Entry /\ entries' = [entries EXCEPT ![s] = f]
        /\ f.envelope = entries[s].envelope
        /\ f.generation = entries[s].generation
        /\ \A t \in Subjects, e \in Entry : Holds(t, e)' =>
             Holds(t, e) \/ (t = s /\ e = f)
  BY ElapseEffect
<1>2. Holds(s, entries[s])
  BY DEF Holds
<1>3. AsHeld
  BY <1>1, <1>2 DEF AsHeld
<1>4. UnmarkedOK' /\ EntriesOK'
  BY <1>3, EntriesStay DEF Elapse, local
<1>5. TypeOK'
  BY <1>1 DEF Elapse, local, history, TInv, TypeOK
<1>6. FramesFrom
  BY FewerFrames DEF Elapse
<1>7. QED BY <1>4, <1>5, <1>6, FramesStay, DrainsSame DEF Elapse, local, TInv

LEMMA CrashTyped ==
  ASSUME TInv, Crash
  PROVE  /\ TInv' /\ FramesFrom
         /\ \A s \in Subjects, e \in Entry : Holds(s, e)' => entries[s] = e
<1>1. \A d \in Drains : drains'[d] = Idle
  BY DEF Crash
<1>2. \A s \in Subjects, e \in Entry : Holds(s, e)' => entries[s] = e
  <2>1. \A s \in Subjects, e \in Entry : Holds(s, e)' =>
          entries'[s] = e \/ e \in found'[s] \/ Captured(Idle, s, e)
    BY <1>1 DEF Holds, Captured
  <2>2. \A s \in Subjects : found'[s] = {}
    BY DEF Crash
  <2>3. QED BY <2>1, <2>2, IdleCaptures DEF Crash
<1>3. UnmarkedOK'
  BY DEF Crash, UnmarkedOK
<1>4. EntriesOK'
  <2>1. ASSUME NEW s \in Subjects, NEW e \in Entry, Holds(s, e)'
        PROVE  EntryOK(s, e)'
    <3>1. EntryOK(s, e)
      BY <1>2, <2>1 DEF TInv, EntriesOK, Holds
    <3>2. doc' = doc /\ unmarked' = {}
      BY DEF Crash
    <3>3. QED BY <3>1, <3>2 DEF EntryOK
  <2>2. QED BY <2>1 DEF EntriesOK
<1>5. DrainsOK'
  BY <1>1, IdleIsDrain DEF DrainsOK, DrainOK, AtWork, Busy
<1>6. FramesFrom
  <2>1. PICK sent \in SUBSET requests : requests' = {Unheard(r) : r \in sent}
    BY DEF Crash
  <2>2. ASSUME NEW q \in requests
        PROVE  Unheard(q) \in Request /\ SameFrame(Unheard(q), q)
    BY FramesIn DEF Unheard, Request, SameFrame
  <2>3. QED BY <2>1, <2>2 DEF FramesFrom
<1>7. TypeOK'
  <2>1. drains' \in [Drains -> Drain]
    BY IdleIsDrain DEF Crash
  <2>2. forsaken' \subseteq Subjects
    BY DEF Crash, Under, TInv, TypeOK
  <2>3. crashes' \in 0..MaxCrashes
    BY BoundsAssumption DEF Crash, TInv, TypeOK
  <2>4. QED BY <1>6, <2>1, <2>2, <2>3 DEF Crash, FramesFrom, TInv, TypeOK
<1>8. FramesOK'
  BY <1>6, FramesStay DEF Crash
<1>9. QED BY <1>2, <1>3, <1>4, <1>5, <1>6, <1>7, <1>8 DEF TInv

LEMMA StepTyped == TInv /\ [Next]_vars => TInv' /\ FramesFrom
<1> SUFFICES ASSUME TInv, [Next]_vars PROVE TInv' /\ FramesFrom
  OBVIOUS
<1>1. CASE UNCHANGED vars
  <2>1. UNCHANGED <<doc, unmarked, found, entries, drains, requests>>
    BY <1>1 DEF vars
  <2>2. TypeOK'
    BY <1>1 DEF vars, TInv, TypeOK
  <2>3. UnmarkedOK' /\ EntriesOK'
    BY <2>1, HoldsOnly DEF TInv, EntriesOK, EntryOK, UnmarkedOK, WriteOK
  <2>4. FramesFrom
    BY <2>1, FewerFrames
  <2>5. QED BY <2>1, <2>2, <2>3, <2>4, DrainsSame, FramesStay DEF TInv
<1>2. ASSUME NEW s \in Subjects, Create(s) \/ Edit(s) \/ Destroy(s)
      PROVE  TInv' /\ FramesFrom
  <2>1. requests' = requests
    BY <1>2 DEF Create, Edit, Destroy
  <2>2. QED BY <1>2, <2>1, CreateTyped, EditTyped, DestroyTyped, FewerFrames
<1>3. ASSUME NEW s \in Subjects, Elapse(s) PROVE TInv' /\ FramesFrom
  BY <1>3, ElapseTyped
<1>4. ASSUME NEW w \in unmarked, Marks(w) PROVE TInv' /\ FramesFrom
  BY <1>4, MarkTyped, FindTyped DEF Marks
<1>5. ASSUME NEW d \in Drains,
             StartDrain(d) \/ Sends(d) \/ GiveUp(d) \/ Answered(d) \/ Export(d)
             \/ Settle(d)
      PROVE  TInv' /\ FramesFrom
  BY <1>5, StartTyped, TakeTyped, SnapshotTyped, EndTyped, GiveUpTyped, GenesisTyped,
     RereadTyped, EndsTyped, ExportTyped DEF Sends, Answered, Ends
<1>6. ASSUME NEW r \in requests, NEW a \in Answers, HubAnswers(r, a)
      PROVE  TInv' /\ FramesFrom
  BY <1>6, HubTyped
<1>7. CASE Crash
  BY <1>7, CrashTyped
<1>8. QED BY <1>1, <1>2, <1>3, <1>4, <1>5, <1>6, <1>7 DEF Next

LEMMA TypeStep == TInv /\ [Next]_vars => TInv'
BY StepTyped

LEMMA TypeInvariance == Spec => []TInv
BY InitTyped, TypeStep, PTL DEF Spec

\* Every reachable state of the outbox is well typed: a commit's ops stay in
\* the range of the resource, and a count of commits (OutboxEntry.generation)
\* in that of the commits made, however marks, drains, late frames and crashes
\* interleave.
THEOREM TypeCorrect == Spec => []TypeOK
<1>1. TInv => TypeOK
  BY DEF TInv
<1>2. QED BY <1>1, TypeInvariance, PTL

-----------------------------------------------------------------------------
(* What a step makes of each variable *)

Like(e, f) ==
  e.envelope = f.envelope /\ e.base = f.base /\ e.generation = f.generation

\* The entry after its genesis was acknowledged, or a delta while it was edited.
AckedAs(e, d) ==
  \/ /\ GenesisAcked(d)
     /\ e.envelope = "none" /\ e.base = drains[d].entry.base
     /\ e.generation = drains[d].entry.generation
  \/ /\ Settle(d) /\ EditedSince(d) /\ drains[d].entry \in Entry
     /\ e.envelope = "none" /\ e.base = drains[d].upto
     /\ e.generation = drains[d].entry.generation

\* A step by which a drain is done with the entry of its subject.
Clears(d) ==
  \/ ReadSnapshot(d) /\ doc[drains[d].subject].state # "live"
  \/ Export(d) /\ ExportsNothing(d)
  \/ DestroyAcked(d)
  \/ Settle(d) /\ ~EditedSince(d)
  \/ Dropped(d)

\* mark_dirty will find no entry, or has found none.
Missing(s) == entries[s] = None \/ None \in found[s]

LEMMA ClearsIs ==
  ASSUME TInv, NEW d \in Drains, Clears(d)
  PROVE  /\ drains[d].subject \in Subjects /\ drains[d].step \in Busy
         /\ drains[d].step # "settle" => drains[d].step \in AtWork
<1>1. drains[d].step \in Busy
  BY DEF Clears, ReadSnapshot, Export, DestroyAcked, Settle, Dropped, Posted,
         AtWork, Busy
<1>2. QED BY <1>1, DrainIs DEF DrainOK, Busy

\* A copy of an entry was held before, or is like one that was, or is what a
\* commit or an acknowledgement made of one.
LEMMA CopyFrom ==
  ASSUME TInv, [Next]_vars, NEW s \in Subjects, NEW e \in Entry, Holds(s, e)'
  PROVE  \/ \E f \in Entry : Holds(s, f) /\ Like(e, f)
         \/ \E w \in unmarked : /\ MarkDirty(w) /\ w.subject = s
                                /\ \E g \in found[s] : MarkedAs(e, g, w)
         \/ \E d \in Drains : drains[d].subject = s /\ AckedAs(e, d)
<1>1. Holds(s, e) => \E f \in Entry : Holds(s, f) /\ Like(e, f)
  BY DEF Like
<1>2. ASSUME UNCHANGED <<entries, found, drains>> PROVE Holds(s, e)
  BY <1>2, HoldsOnly
<1>3. ASSUME NEW t \in Subjects, Create(t) \/ Edit(t) \/ Destroy(t)
      PROVE  UNCHANGED <<entries, found, drains>>
  BY <1>3 DEF Create, Edit, Destroy
<1>4. UNCHANGED vars => UNCHANGED <<entries, found, drains>>
  BY DEF vars
<1>5. ASSUME NEW t \in Subjects, Elapse(t)
      PROVE  \E f \in Entry : Holds(s, f) /\ Like(e, f)
  <2>1. PICK f \in Entry :
          /\ entries[t] \in Entry
          /\ Like(f, entries[t])
          /\ \A u \in Subjects, g \in Entry : Holds(u, g)' =>
               Holds(u, g) \/ (u = t /\ g = f)
    BY <1>5, ElapseEffect DEF Like
  <2>2. Holds(t, entries[t])
    BY DEF Holds
  <2>3. QED BY <1>1, <2>1, <2>2
<1>6. ASSUME NEW w \in unmarked, MarkDirty(w)
      PROVE  \/ Holds(s, e)
             \/ w.subject = s /\ \E g \in found[s] : MarkedAs(e, g, w)
  BY <1>6, MarkEffect
<1>7. ASSUME NEW w \in unmarked, FindEntry(w) PROVE Holds(s, e)
  BY <1>7, FindTyped DEF Shrinks
<1>8. ASSUME NEW d \in Drains,
             StartDrain(d) \/ Sends(d) \/ GiveUp(d) \/ Export(d) \/ DeltaAcked(d)
      PROVE  Holds(s, e)
  BY <1>8, StartTyped, TakeTyped, SnapshotTyped, EndTyped, GiveUpTyped,
     ExportTyped, RereadTyped DEF Sends, Shrinks
<1>9. ASSUME NEW d \in Drains, GenesisAcked(d)
      PROVE  Holds(s, e) \/ (drains[d].subject = s /\ AckedAs(e, d))
  BY <1>9, GenesisHolds DEF AckedAs
<1>10. ASSUME NEW d \in Drains, Ends(d)
       PROVE  \/ \E f \in Entry : Holds(s, f) /\ Like(e, f)
              \/ drains[d].subject = s /\ AckedAs(e, d)
  <2>1. CASE entries' = [entries EXCEPT ![drains[d].subject] = None]
    <3>1. Holds(s, e)
      BY <1>10, <2>1, EndsHolds, NoneNot
    <3>2. QED BY <1>1, <3>1
  <2>2. ASSUME NEW f \in Entry, Puts(d, f), AckedAs(f, d) \/ Like(f, drains[d].entry),
               drains[d].entry \in Entry
        PROVE  \/ \E g \in Entry : Holds(s, g) /\ Like(e, g)
               \/ drains[d].subject = s /\ AckedAs(e, d)
    <3>1. entries' = [entries EXCEPT ![drains[d].subject] = f]
      BY <1>10, <2>2, EndsEffect, PutsEffect
    <3>2. Holds(s, e) \/ (s = drains[d].subject /\ e = f)
      BY <1>10, <3>1, EndsHolds
    <3>3. QED BY <1>1, <2>2, <3>2, DrainHolds
  <2>3. \/ entries' = [entries EXCEPT ![drains[d].subject] = None]
        \/ \E f \in Entry : /\ Puts(d, f) /\ drains[d].entry \in Entry
                            /\ AckedAs(f, d) \/ Like(f, drains[d].entry)
    BY <1>10, EndsEffect DEF AckedAs, Like
  <2>4. QED BY <2>1, <2>2, <2>3
<1>11. ASSUME NEW r \in requests, NEW a, HubAnswers(r, a) PROVE Holds(s, e)
  BY <1>11, HubTyped DEF Shrinks
<1>12. ASSUME Crash PROVE Holds(s, e)
  BY <1>12, CrashTyped DEF Holds
<1>13. QED
  BY <1>1, <1>2, <1>3, <1>4, <1>5, <1>6, <1>7, <1>8, <1>9, <1>10, <1>11, <1>12
  DEF Next, Marks, Answered, Ends

\* The outbox's own copy: what a step may make of it.
LEMMA EntryTo ==
  ASSUME TInv, [Next]_vars, NEW s \in Subjects, entries'[s] # entries[s]
  PROVE  \/ /\ entries[s] \in Entry /\ entries'[s] \in Entry
            /\ Like(entries'[s], entries[s])
         \/ \E w \in unmarked :
              /\ MarkDirty(w) /\ w.subject = s /\ entries'[s] \in Entry
              /\ raced' = raced \cup Unseen(s, entries'[s]) \cup Undone(w)
         \/ \E d \in Drains :
              /\ drains[d].subject = s
              /\ \/ Clears(d) /\ entries'[s] = None
                 \/ /\ Puts(d, entries'[s]) /\ entries'[s] \in Entry
                    /\ drains'[d].step # "delta"
<1>1. UNCHANGED vars => entries' = entries
  BY DEF vars
<1>2. ASSUME NEW t \in Subjects, Create(t) \/ Edit(t) \/ Destroy(t)
      PROVE  entries' = entries
  BY <1>2 DEF Create, Edit, Destroy
<1>3. ASSUME NEW t \in Subjects, Elapse(t)
      PROVE  /\ entries[s] \in Entry /\ entries'[s] \in Entry
             /\ Like(entries'[s], entries[s])
  BY <1>3, ElapseEffect DEF Like, TInv, TypeOK
<1>4. ASSUME NEW w \in unmarked, MarkDirty(w)
      PROVE  /\ w.subject = s /\ entries'[s] \in Entry
             /\ raced' = raced \cup Unseen(s, entries'[s]) \cup Undone(w)
  <2>1. PICK f \in Entry :
          /\ entries' = [entries EXCEPT ![w.subject] = f]
          /\ raced' = raced \cup Unseen(w.subject, f) \cup Undone(w)
          /\ w.subject \in Subjects
    BY <1>4, MarkEffect
  <2>2. w.subject = s /\ entries'[s] = f
    BY <2>1 DEF TInv, TypeOK
  <2>3. QED BY <2>1, <2>2
<1>5. ASSUME NEW w \in unmarked, FindEntry(w) PROVE entries' = entries
  BY <1>5 DEF FindEntry
<1>6. ASSUME NEW d \in Drains,
             StartDrain(d) \/ TakeEntry(d) \/ EndDrain(d) \/ GiveUp(d) \/ DeltaAcked(d)
      PROVE  entries' = entries
  BY <1>6 DEF StartDrain, TakeEntry, EndDrain, GiveUp, DeltaAcked
<1>7. ASSUME NEW d \in Drains, entries' = [entries EXCEPT ![drains[d].subject] = None]
      PROVE  drains[d].subject = s /\ entries'[s] = None
  BY <1>7 DEF TInv, TypeOK
<1>8. ASSUME NEW d \in Drains, ReadSnapshot(d)
      PROVE  drains[d].subject = s /\ Clears(d) /\ entries'[s] = None
  <2>1. \/ entries' = entries
        \/ /\ doc[drains[d].subject].state # "live"
           /\ entries' = [entries EXCEPT ![drains[d].subject] = None]
    BY <1>8 DEF ReadSnapshot
  <2>2. QED BY <1>7, <1>8, <2>1 DEF Clears
<1>9. ASSUME NEW d \in Drains, Export(d)
      PROVE  drains[d].subject = s /\ Clears(d) /\ entries'[s] = None
  <2>1. ~ExportsNothing(d) => entries' = entries
    BY <1>9, ExportEffect
  <2>2. QED BY <1>7, <1>9, <2>1 DEF Clears, ExportsNothing
<1>10. ASSUME NEW d \in Drains, NEW f \in Entry, Puts(d, f),
              drains[d].subject \in Subjects
       PROVE  drains[d].subject = s /\ Puts(d, entries'[s]) /\ entries'[s] \in Entry
  <2>1. entries' = [entries EXCEPT ![drains[d].subject] = f]
    BY <1>10, PutsEffect
  <2>2. drains[d].subject = s /\ entries'[s] = f
    BY <2>1 DEF TInv, TypeOK
  <2>3. QED BY <1>10, <2>2
<1>11. ASSUME NEW d \in Drains, GenesisAcked(d)
       PROVE  /\ drains[d].subject = s /\ Puts(d, entries'[s]) /\ entries'[s] \in Entry
              /\ drains'[d].step # "delta"
  <2>1. drains[d].subject = s /\ Puts(d, entries'[s]) /\ entries'[s] \in Entry
    BY <1>10, <1>11, GenesisHolds
  <2>2. PICK z \in Drain :
          drains' = [drains EXCEPT ![d] = z] /\ z.step = "snapshot"
    BY <1>11, GenesisEffect
  <2>3. drains'[d] = z
    BY <2>2, OneMoves DEF TInv
  <2>4. QED BY <2>1, <2>2, <2>3
<1>12. ASSUME NEW d \in Drains, Ends(d)
       PROVE  /\ drains[d].subject = s
              /\ \/ Clears(d) /\ entries'[s] = None
                 \/ /\ Puts(d, entries'[s]) /\ entries'[s] \in Entry
                    /\ drains'[d].step # "delta"
  <2>1. \/ /\ Clears(d)
           /\ entries' = [entries EXCEPT ![drains[d].subject] = None]
        \/ \E f \in Entry : Puts(d, f)
    BY <1>12, EndsEffect DEF Clears
  <2>2. drains[d].subject \in Subjects
    BY <1>12, EndsEffect
  <2>3. PICK z \in Drain : drains' = [drains EXCEPT ![d] = z] /\ z.step = "between"
    BY <1>12, EndsEffect, BetweenEffect
  <2>4. drains'[d].step # "delta"
    BY <2>3, OneMoves DEF TInv
  <2>5. QED BY <1>7, <1>10, <2>1, <2>2, <2>4
<1>13. ASSUME NEW r \in requests, NEW a, HubAnswers(r, a) PROVE entries' = entries
  BY <1>13 DEF HubAnswers
<1>14. Crash => entries' = entries
  BY DEF Crash
<1>15. QED
  BY <1>1, <1>2, <1>3, <1>4, <1>5, <1>6, <1>8, <1>9, <1>11, <1>12, <1>13, <1>14
  DEF Next, Marks, Sends, Answered, Ends

\* What mark_dirty has read: nothing, or the entry there is.
LEMMA FoundTo ==
  ASSUME TInv, [Next]_vars, NEW s \in Subjects
  PROVE  \/ found'[s] = found[s]
         \/ found'[s] = {}
         \/ found'[s] = {entries[s]} /\ entries' = entries
<1>1. \/ found' = found
      \/ Crash
      \/ \E w \in unmarked : FindEntry(w) \/ MarkDirty(w)
  BY DEF vars, Next, Create, Edit, Destroy, Elapse, Marks, StartDrain, Sends,
         TakeEntry, ReadSnapshot, EndDrain, GiveUp, Answered, GenesisAcked,
         DestroyAcked, DeltaAcked, Settle, Refused, Dropped, Export, HubAnswers, local
<1>2. Crash => found'[s] = {}
  BY DEF Crash
<1>3. ASSUME NEW w \in unmarked, FindEntry(w)
      PROVE  \/ found'[s] = found[s]
             \/ found'[s] = {entries[s]} /\ entries' = entries
  BY <1>3, WritesIn DEF FindEntry, TInv, TypeOK
<1>4. ASSUME NEW w \in unmarked, MarkDirty(w)
      PROVE  found'[s] = found[s] \/ found'[s] = {}
  BY <1>4, WritesIn DEF MarkDirty, TInv, TypeOK
<1>5. QED BY <1>1, <1>2, <1>3, <1>4


\* A step leaves a subject without its entry by being done with it.
LEMMA MissingTo ==
  ASSUME TInv, [Next]_vars, NEW s \in Subjects, Missing(s)', ~Missing(s)
  PROVE  \E d \in Drains : drains[d].subject = s /\ Clears(d) /\ entries'[s] = None
<1>1. entries[s] # None /\ None \notin found[s]
  BY DEF Missing
<1>2. None \notin found'[s]
  BY <1>1, FoundTo
<1>3. entries'[s] = None
  BY <1>2 DEF Missing
<1>4. QED BY <1>1, <1>3, EntryTo, NoneNot

\* mark_dirty leaves an entry.
LEMMA MarkedIsThere ==
  ASSUME TInv, NEW w \in unmarked, MarkDirty(w) PROVE ~Missing(w.subject)'
<1>1. PICK f \in Entry :
        /\ w.subject \in Subjects
        /\ entries' = [entries EXCEPT ![w.subject] = f]
        /\ found' = [found EXCEPT ![w.subject] = {}]
  BY MarkEffect
<1>2. QED BY <1>1, NoneNot DEF Missing, TInv, TypeOK

\* What a step makes of a drain.
LEMMA DrainTo ==
  ASSUME TInv, [Next]_vars, NEW o \in Drains, NEW x, x = drains[o],
         NEW y, y = drains'[o]
  PROVE  \/ y = x
         \/ y.step \notin Busy
         \/ \E c \in x.todo :
              /\ TakeEntry(o) /\ y.answer = "none"
              /\ y.subject = c.subject /\ y.entry = c.entry
              /\ y.subject \in Subjects /\ y.entry \in Entry
              /\ Holds(y.subject, y.entry)
              /\ y.step = IF c.entry.envelope = "none" THEN "snapshot"
                          ELSE c.entry.envelope
         \/ /\ ReadSnapshot(o) /\ doc[x.subject].state = "live"
            /\ y.step = "generation" /\ y.subject = x.subject
            /\ y.upto = doc[x.subject].version
         \/ /\ Export(o) /\ doc[x.subject].state = "live"
            /\ y.step = "delta" /\ y.subject = x.subject
            /\ y.upto = x.upto /\ y.answer = "none"
            /\ y.generation = ExportedGeneration(x.subject)
            /\ entries' = entries
         \/ GiveUp(o) /\ SameWork(y, x) /\ y.answer = "transient"
         \/ GenesisAcked(o) /\ y.step = "snapshot" /\ y.subject = x.subject
         \/ /\ DeltaAcked(o) /\ y.step = "settle" /\ y.subject = x.subject
            /\ y.entry = entries[x.subject] /\ y.upto = x.upto
            /\ y.generation = x.generation
         \/ \E r \in requests :
              /\ HubAnswers(r, y.answer) /\ Hears(o, r) /\ SameWork(y, x)
              /\ x.step \in AtWork
              /\ Frame(x) = r \/ Under(x.subject) \subseteq crossed'
<1>1. UNCHANGED vars => drains' = drains
  BY DEF vars
<1>2. ASSUME NEW t \in Subjects, Create(t) \/ Edit(t) \/ Destroy(t) \/ Elapse(t)
      PROVE  drains' = drains
  BY <1>2 DEF Create, Edit, Destroy, Elapse
<1>3. ASSUME NEW w \in unmarked, Marks(w) PROVE drains' = drains
  BY <1>3 DEF Marks, FindEntry, MarkDirty
<1>4. ASSUME Crash PROVE y.step \notin Busy
  BY <1>4, IdleFields DEF Crash, AtWork, Busy
<1>5. ASSUME NEW d \in Drains, NEW z, drains' = [drains EXCEPT ![d] = z]
      PROVE  y = x \/ (d = o /\ y = z)
  BY <1>5, OneMoves DEF TInv
<1>6. ASSUME NEW d \in Drains, StartDrain(d) \/ EndDrain(d)
      PROVE  y = x \/ y.step \notin Busy
  <2>1. PICK z : drains' = [drains EXCEPT ![d] = z] /\ z.step \notin Busy
    BY <1>6, StartEffect, IdleFields DEF EndDrain, AtWork, Busy
  <2>2. QED BY <1>5, <2>1
<1>7. ASSUME NEW d \in Drains, TakeEntry(d), y # x
      PROVE  \E c \in x.todo :
              /\ TakeEntry(o) /\ y.answer = "none"
              /\ y.subject = c.subject /\ y.entry = c.entry
              /\ y.subject \in Subjects /\ y.entry \in Entry
              /\ Holds(y.subject, y.entry)
              /\ y.step = IF c.entry.envelope = "none" THEN "snapshot"
                          ELSE c.entry.envelope
  <2>1. PICK c \in drains[d].todo, z \in Drain :
          /\ drains' = [drains EXCEPT ![d] = z]
          /\ z.step = IF c.entry.envelope = "none" THEN "snapshot"
                      ELSE c.entry.envelope
          /\ z.subject = c.subject /\ z.entry = c.entry /\ z.answer = "none"
          /\ c.subject \in Subjects /\ c.entry \in Entry
          /\ Holds(c.subject, c.entry)
    BY <1>7, TakeEffect
  <2>2. d = o /\ y = z
    BY <1>5, <1>7, <2>1
  <2>3. QED BY <1>7, <2>1, <2>2
<1>8. ASSUME NEW d \in Drains, ReadSnapshot(d), y # x
      PROVE  \/ y.step \notin Busy
             \/ /\ ReadSnapshot(o) /\ doc[x.subject].state = "live"
                /\ y.step = "generation" /\ y.subject = x.subject
                /\ y.upto = doc[x.subject].version
  <2>1. PICK z \in Drain :
          /\ drains' = [drains EXCEPT ![d] = z]
          /\ IF doc[drains[d].subject].state = "live"
               THEN /\ z.step = "generation" /\ z.subject = drains[d].subject
                    /\ z.upto = doc[drains[d].subject].version
               ELSE z.step = "between"
    BY <1>8, SnapshotEffect
  <2>2. d = o /\ y = z
    BY <1>5, <1>8, <2>1
  <2>3. QED BY <1>8, <2>1, <2>2 DEF AtWork, Busy
<1>9. ASSUME NEW d \in Drains, Export(d), y # x
      PROVE  \/ y.step \notin Busy
             \/ /\ Export(o) /\ doc[x.subject].state = "live"
                /\ y.step = "delta" /\ y.subject = x.subject
                /\ y.upto = x.upto /\ y.answer = "none"
                /\ y.generation = ExportedGeneration(x.subject)
                /\ entries' = entries
  <2>1. CASE ExportsNothing(d)
    <3>1. drains[d].step \in Busy
      BY <1>9 DEF Export, AtWork, Busy
    <3>2. PICK z \in Drain : drains' = [drains EXCEPT ![d] = z] /\ z.step = "between"
      BY <2>1, <3>1, BetweenEffect DEF ExportsNothing
    <3>3. QED BY <1>5, <1>9, <3>2 DEF AtWork, Busy
  <2>2. CASE ~ExportsNothing(d)
    <3>1. PICK z \in Drain :
            /\ drains' = [drains EXCEPT ![d] = z] /\ entries' = entries
            /\ \/ /\ doc[drains[d].subject].state = "live"
                  /\ z.step = "delta" /\ z.subject = drains[d].subject
                  /\ z.upto = drains[d].upto /\ z.answer = "none"
                  /\ z.generation = ExportedGeneration(drains[d].subject)
               \/ z = Idle
      BY <1>9, <2>2, ExportEffect
    <3>2. d = o /\ y = z
      BY <1>5, <1>9, <3>1
    <3>3. QED BY <1>9, <3>1, <3>2, IdleFields DEF AtWork, Busy
  <2>3. QED BY <2>1, <2>2
<1>10. ASSUME NEW d \in Drains, GiveUp(d), y # x
       PROVE  GiveUp(o) /\ SameWork(y, x) /\ y.answer = "transient"
  <2>1. PICK z \in Drain :
          /\ drains' = [drains EXCEPT ![d] = z] /\ z.answer = "transient"
          /\ SameWork(z, drains[d])
    BY <1>10, GiveUpEffect
  <2>2. d = o /\ y = z
    BY <1>5, <1>10, <2>1
  <2>3. QED BY <1>10, <2>1, <2>2
<1>11. ASSUME NEW d \in Drains, GenesisAcked(d), y # x
       PROVE  GenesisAcked(o) /\ y.step = "snapshot" /\ y.subject = x.subject
  <2>1. PICK z \in Drain :
          /\ drains' = [drains EXCEPT ![d] = z] /\ z.step = "snapshot"
          /\ z.subject = drains[d].subject
    BY <1>11, GenesisEffect
  <2>2. d = o /\ y = z
    BY <1>5, <1>11, <2>1
  <2>3. QED BY <1>11, <2>1, <2>2
<1>12. ASSUME NEW d \in Drains, DeltaAcked(d), y # x
       PROVE  /\ DeltaAcked(o) /\ y.step = "settle" /\ y.subject = x.subject
              /\ y.entry = entries[x.subject] /\ y.upto = x.upto
              /\ y.generation = x.generation
  <2>1. PICK z \in Drain :
          /\ drains' = [drains EXCEPT ![d] = z]
          /\ z.step = "settle" /\ z.subject = drains[d].subject
          /\ z.entry = entries[drains[d].subject] /\ z.upto = drains[d].upto
          /\ z.generation = drains[d].generation
    BY <1>12, RereadEffect
  <2>2. d = o /\ y = z
    BY <1>5, <1>12, <2>1
  <2>3. QED BY <1>12, <2>1, <2>2
<1>13. ASSUME NEW d \in Drains, Ends(d) PROVE y = x \/ y.step \notin Busy
  <2>1. PICK z \in Drain : drains' = [drains EXCEPT ![d] = z] /\ z.step = "between"
    BY <1>13, EndsEffect, BetweenEffect
  <2>2. QED BY <1>5, <2>1 DEF AtWork, Busy
<1>14. ASSUME NEW r \in requests, NEW a, HubAnswers(r, a), y # x
       PROVE  /\ HubAnswers(r, y.answer) /\ Hears(o, r) /\ SameWork(y, x)
              /\ x.step \in AtWork
              /\ Frame(x) = r \/ Under(x.subject) \subseteq crossed'
  <2>1. /\ SameWork(y, x)
        /\ y.answer = IF Hears(o, r) THEN a ELSE x.answer
        /\ Hears(o, r) => /\ x.step \in AtWork
                          /\ Frame(x) = r \/ Under(x.subject) \subseteq crossed'
    BY <1>14, HubEffect
  <2>2. Hears(o, r)
    BY <1>14 DEF HubAnswers
  <2>3. QED BY <1>14, <2>1, <2>2
<1>15. QED
  BY <1>1, <1>2, <1>3, <1>4, <1>6, <1>7, <1>8, <1>9, <1>10, <1>11, <1>12, <1>13, <1>14
  DEF Next, Answered, Sends, Ends

\* Nothing that happened is taken back.
LEMMA HistoryGrows ==
  ASSUME [Next]_vars
  PROVE  /\ forsaken \subseteq forsaken' /\ raced \subseteq raced'
         /\ crossed \subseteq crossed' /\ Excused \subseteq Excused'
<1>1. forsaken \subseteq forsaken' /\ crossed \subseteq crossed'
  BY DEF vars, history, Next, Create, Edit, Destroy, Elapse, Marks, FindEntry,
         MarkDirty, StartDrain, Sends, TakeEntry, ReadSnapshot, EndDrain, GiveUp,
         Answered, GenesisAcked, DestroyAcked, DeltaAcked, Settle, Refused, Dropped,
         Export, HubAnswers, Crash
<1>2. raced \subseteq raced'
  BY DEF vars, history, Next, Create, Edit, Destroy, Elapse, Marks, FindEntry,
         MarkDirty, StartDrain, Sends, TakeEntry, ReadSnapshot, EndDrain, GiveUp,
         Answered, GenesisAcked, DestroyAcked, DeltaAcked, Settle, Refused, Dropped,
         Export, HubAnswers, Crash, Puts
<1>3. QED BY <1>1, <1>2 DEF Excused

\* The resource changes by a write, the hub by an answer.
LEMMA DocMoves ==
  ASSUME [Next]_vars
  PROVE  \/ doc' = doc
         \/ \E s \in Subjects : Create(s) \/ Edit(s) \/ Destroy(s)
BY DEF vars, local, Next, Elapse, Marks, FindEntry, MarkDirty, StartDrain, Sends,
       TakeEntry, ReadSnapshot, EndDrain, GiveUp, Answered, GenesisAcked,
       DestroyAcked, DeltaAcked, Settle, Refused, Dropped, Export, HubAnswers, Crash

LEMMA HubMoves ==
  ASSUME [Next]_vars
  PROVE  hub' = hub \/ \E r \in requests : HubAnswers(r, "ok") /\ hub' = Applied(r)
BY DEF vars, Next, Create, Edit, Destroy, Elapse, Marks, FindEntry, MarkDirty,
       StartDrain, Sends, TakeEntry, ReadSnapshot, EndDrain, GiveUp, Answered,
       GenesisAcked, DestroyAcked, DeltaAcked, Settle, Refused, Dropped, Export,
       HubAnswers, Crash

\* What a write makes of one resource.
LEMMA DocTo ==
  ASSUME TInv, [Next]_vars, NEW s \in Subjects
  PROVE  \/ doc'[s] = doc[s]
         \/ /\ Create(s) /\ doc[s].state = "none"
            /\ doc'[s].state = "live" /\ doc'[s].version = 1
         \/ /\ Edit(s) /\ doc[s].state = "live" /\ doc'[s].state = "live"
            /\ doc'[s].version = doc[s].version + 1
         \/ /\ doc[s].state = "live" /\ doc'[s].state = "gone"
            /\ doc'[s].version = doc[s].version
            /\ \E t \in Subjects : Destroy(t) /\ s \in Under(t)
<1>1. doc \in [Subjects -> Copy]
  BY DEF TInv, TypeOK
<1>2. ASSUME NEW t \in Subjects, Create(t)
      PROVE  \/ doc'[s] = doc[s]
             \/ /\ Create(s) /\ doc[s].state = "none"
                /\ doc'[s].state = "live" /\ doc'[s].version = 1
  BY <1>1, <1>2 DEF Create
<1>3. ASSUME NEW t \in Subjects, Edit(t)
      PROVE  \/ doc'[s] = doc[s]
             \/ /\ Edit(s) /\ doc[s].state = "live" /\ doc'[s].state = "live"
                /\ doc'[s].version = doc[s].version + 1
  BY <1>1, <1>3 DEF Edit, Copy
<1>4. ASSUME NEW t \in Subjects, Destroy(t)
      PROVE  \/ doc'[s] = doc[s]
             \/ /\ doc[s].state = "live" /\ doc'[s].state = "gone"
                /\ doc'[s].version = doc[s].version /\ s \in Under(t)
  BY <1>1, <1>4 DEF Destroy, Copy
<1>5. QED BY <1>2, <1>3, <1>4, DocMoves

\* What lives after a step did before, or was just made.
LEMMA LiveBefore ==
  ASSUME TInv, [Next]_vars, NEW s \in Subjects, doc'[s].state = "live"
  PROVE  doc[s].state = "live" \/ Create(s)
BY DocTo

\* What an accepted commit makes of one resource.
BecomesOf(g, h, s, r) ==
  \/ /\ r.kind = "genesis" /\ r.subject = s /\ h.state # "live"
     /\ g.state = "live" /\ g.version = 1
  \/ /\ r.kind = "delta" /\ r.subject = s /\ h.state = "live" /\ g.state = "live"
     /\ g.version = IF h.version < r.upto THEN r.upto ELSE h.version
  \/ /\ r.kind = "destroy" /\ s \in Under(r.subject) /\ h.state = "live"
     /\ g.state = "gone" /\ g.version = h.version

LEMMA HubTo ==
  ASSUME TInv, [Next]_vars, NEW s \in Subjects, hub'[s] # hub[s]
  PROVE  \E r \in requests :
           /\ HubAnswers(r, "ok") /\ BecomesOf(hub'[s], hub[s], s, r)
           /\ Verdict(r) = "ok" /\ r \in Request
           /\ r.subject \in Subjects /\ r.upto \in Nat /\ FrameOK(r)
<1>1. PICK r \in requests : HubAnswers(r, "ok") /\ hub' = Applied(r)
  BY HubMoves
<1>2. /\ r \in Request /\ r.subject \in Subjects /\ r.upto \in Nat
      /\ r.kind \in {"genesis", "delta", "destroy"} /\ FrameOK(r)
  BY FramesIn, VersionsAre
<1>3. Verdict(r) = "ok"
  BY <1>1, AnswerIs DEF HubAnswers
<1>4. PICK h : h = hub
  OBVIOUS
<1>5. PICK t : t = r.subject
  OBVIOUS
<1>6. h \in [Subjects -> Copy] /\ t \in Subjects
  BY <1>2, <1>4, <1>5 DEF TInv, TypeOK
<1>7. CASE r.kind = "genesis"
  <2>1. hub' = [h EXCEPT ![t] = IF h[t].state = "live" THEN h[t]
                                ELSE [state |-> "live", version |-> 1]]
    BY <1>1, <1>4, <1>5, <1>7 DEF Applied
  <2>2. BecomesOf(hub'[s], hub[s], s, r)
    BY <1>4, <1>5, <1>6, <1>7, <2>1 DEF BecomesOf
  <2>3. QED BY <1>1, <1>2, <1>3, <2>2
<1>8. CASE r.kind = "delta"
  <2>1. hub' = [h EXCEPT ![t].version =
                  IF h[t].version < r.upto THEN r.upto ELSE h[t].version]
    BY <1>1, <1>4, <1>5, <1>8 DEF Applied
  <2>2. h[t].state = "live"
    BY <1>3, <1>4, <1>5, <1>8 DEF Verdict
  <2>3. BecomesOf(hub'[s], hub[s], s, r)
    BY <1>4, <1>5, <1>6, <1>8, <2>1, <2>2 DEF BecomesOf, Copy
  <2>4. QED BY <1>1, <1>2, <1>3, <2>3
<1>9. CASE r.kind = "destroy"
  <2>1. hub' = [u \in Subjects |-> IF u \in Under(t) /\ h[u].state = "live"
                  THEN [h[u] EXCEPT !.state = "gone"] ELSE h[u]]
    BY <1>1, <1>4, <1>5, <1>9 DEF Applied
  <2>2. BecomesOf(hub'[s], hub[s], s, r)
    BY <1>4, <1>5, <1>6, <1>9, <2>1 DEF BecomesOf, Copy
  <2>3. QED BY <1>1, <1>2, <1>3, <2>2
<1>10. QED BY <1>2, <1>7, <1>8, <1>9

\* The hub does not lose what it has heard of.
LEMMA HubRemembers ==
  ASSUME TInv, [Next]_vars, NEW s \in Subjects, hub[s].state # "none"
  PROVE  hub'[s].state # "none"
BY HubTo DEF BecomesOf

\* The commit that was accepted has been applied.
LEMMA GenesisApplied ==
  ASSUME TInv, NEW r \in requests, r.kind = "genesis", HubAnswers(r, "ok")
  PROVE  hub'[r.subject].state = "live"
<1>1. hub' = [hub EXCEPT ![r.subject] =
                IF @.state = "live" THEN @ ELSE [state |-> "live", version |-> 1]]
  BY DEF HubAnswers, Applied
<1>2. QED BY <1>1, FramesIn DEF TInv, TypeOK

LEMMA DeltaApplied ==
  ASSUME TInv, NEW r \in requests, r.kind = "delta", HubAnswers(r, "ok")
  PROVE  hub'[r.subject].state = "live" /\ hub'[r.subject].version >= r.upto
<1>1. Verdict(r) = "ok" /\ r.subject \in Subjects /\ r.upto \in Versions
  BY AnswerIs, FramesIn DEF HubAnswers
<1>2. hub' = [hub EXCEPT ![r.subject].version = IF @ < r.upto THEN r.upto ELSE @]
  BY DEF HubAnswers, Applied
<1>3. hub[r.subject].state = "live" /\ hub[r.subject] \in Copy
  BY <1>1 DEF Verdict, TInv, TypeOK
<1>4. QED BY <1>1, <1>2, <1>3, VersionsAre DEF TInv, TypeOK, Copy

LEMMA DestroyApplied ==
  ASSUME TInv, NEW r \in requests, r.kind = "destroy", HubAnswers(r, "ok")
  PROVE  \A c \in Under(r.subject) : hub'[c].state # "live"
<1>1. r.subject \in Subjects
  BY FramesIn
<1>2. hub' = [s \in Subjects |-> IF s \in Under(r.subject) /\ hub[s].state = "live"
                THEN [hub[s] EXCEPT !.state = "gone"] ELSE hub[s]]
  BY DEF HubAnswers, Applied
<1>3. QED BY <1>1, <1>2, UnderFacts DEF TInv, TypeOK, Copy

\* A commit still to be marked was there before, or is being made.
LEMMA UnmarkedFrom ==
  ASSUME TInv, [Next]_vars, NEW w \in unmarked'
  PROVE  \/ w \in unmarked
         \/ \E s \in Subjects :
              /\ w.subject = s
              /\ \/ Create(s) /\ w.kind = "genesis" /\ w.from = 0
                 \/ Edit(s) /\ w.kind = "edit" /\ w.from = doc[s].version
                 \/ Destroy(s) /\ w.kind = "destroy" /\ w.from = doc[s].version
<1>1. \/ unmarked' \subseteq unmarked
      \/ \E s \in Subjects : Create(s) \/ Edit(s) \/ Destroy(s)
  BY DEF vars, local, Next, Elapse, Marks, FindEntry, MarkDirty, StartDrain, Sends,
         TakeEntry, ReadSnapshot, EndDrain, GiveUp, Answered, GenesisAcked,
         DestroyAcked, DeltaAcked, Settle, Refused, Dropped, Export, HubAnswers, Crash
<1>2. ASSUME NEW s \in Subjects, Create(s), w \notin unmarked
      PROVE  w.subject = s /\ w.kind = "genesis" /\ w.from = 0
  BY <1>2 DEF Create
<1>3. ASSUME NEW s \in Subjects, Edit(s), w \notin unmarked
      PROVE  w.subject = s /\ w.kind = "edit" /\ w.from = doc[s].version
  BY <1>3 DEF Edit
<1>4. ASSUME NEW s \in Subjects, Destroy(s), w \notin unmarked
      PROVE  w.subject = s /\ w.kind = "destroy" /\ w.from = doc[s].version
  BY <1>4 DEF Destroy
<1>5. QED BY <1>1, <1>2, <1>3, <1>4

\* It stays until it is marked or the app is killed.
LEMMA UnmarkedTo ==
  ASSUME TInv, [Next]_vars, NEW w \in unmarked
  PROVE  w \in unmarked' \/ MarkDirty(w) \/ Crash
BY DEF vars, local, Next, Create, Edit, Destroy, Elapse, Marks, FindEntry,
       MarkDirty, StartDrain, Sends, TakeEntry, ReadSnapshot, EndDrain, GiveUp,
       Answered, GenesisAcked, DestroyAcked, DeltaAcked, Settle, Refused, Dropped,
       Export, HubAnswers, Crash

\* A kill gives up what was to be marked, and what is below it.
LEMMA KilledIsForsaken ==
  ASSUME TInv, NEW w \in unmarked, Crash
  PROVE  w.subject \in forsaken' /\ Under(w.subject) \subseteq forsaken'
<1>1. Under(w.subject) \subseteq forsaken'
  BY DEF Crash
<1>2. QED BY <1>1, WritesIn, UnderFacts

-----------------------------------------------------------------------------
(* No delta before its genesis *)

\* A live resource is known to the hub, or what should have told it was lost.
Known(s) ==
  doc[s].state = "live" => hub[s].state # "none" \/ s \in forsaken \cup crossed

GenesisPending(s) == \E w \in unmarked : w.subject = s /\ w.kind = "genesis"

\* What a drain was told of a genesis, and what it sends a delta after.
Announces(x) ==
  x.step \in {"delta", "settle"} \/ (x.step = "genesis" /\ x.answer = "ok") =>
    hub[x.subject].state # "none" \/ x.subject \in forsaken \cup crossed

\* Without an entry, and without a genesis in it, a resource is known.
Announced ==
  /\ \A s \in Subjects : Missing(s) => Known(s) \/ GenesisPending(s)
  /\ \A s \in Subjects, e \in Entry :
       Holds(s, e) /\ e.envelope # "genesis" => Known(s)
  /\ \A d \in Drains : Announces(drains[d])

LEMMA KnownStays ==
  ASSUME TInv, [Next]_vars, NEW s \in Subjects, Known(s), doc[s].state # "none"
  PROVE  Known(s)'
<1>1. doc'[s].state = "live" => doc[s].state = "live"
  BY LiveBefore DEF Create
<1>2. QED BY <1>1, HubRemembers, HistoryGrows DEF Known

\* A drain at a subject is at one the hub knows, or that is gone here, once its
\* genesis is acknowledged.
LEMMA WorkKnown ==
  ASSUME TInv, Announced, NEW d \in Drains, drains[d].step \in Busy,
         drains[d].step = "genesis" => drains[d].answer = "ok"
  PROVE  Known(drains[d].subject)
<1>1. CASE drains[d].step \in {"genesis", "settle"}
  BY <1>1 DEF Announced, Announces, Known
<1>2. CASE drains[d].step \notin {"genesis", "settle"}
  <2>1. drains[d].step \in AtWork
    BY <1>2 DEF Busy
  <2>2. /\ drains[d].subject \in Subjects /\ drains[d].entry \in Entry
        /\ Holds(drains[d].subject, drains[d].entry)
        /\ drains[d].entry.envelope # "genesis"
    BY <1>2, <2>1, WorkHolds
  <2>3. QED BY <2>2 DEF Announced
<1>3. QED BY <1>1, <1>2

\* An edit is marked after the genesis it follows.
LEMMA GenesisMarkedFirst ==
  ASSUME TInv, NEW w \in unmarked, MarkDirty(w), w.kind # "genesis",
         NEW v \in unmarked, v.subject = w.subject
  PROVE  v.kind # "genesis"
<1>1. ASSUME v.kind = "genesis" PROVE FALSE
  <2>1. v.from = 0 /\ w.from <= v.from /\ w.from \in Nat
    BY <1>1, WritesIn DEF MarkDirty, InOrder, TInv, UnmarkedOK, WriteOK
  <2>2. w.from = v.from
    BY <2>1
  <2>3. w = v
    BY <2>2 DEF TInv, UnmarkedOK, WriteOK
  <2>4. QED BY <1>1, <2>3
<1>2. QED BY <1>1

\* A drain that is done with an entry is done with one the hub knows of.
LEMMA ClearsKnown ==
  ASSUME TInv, Announced, [Next]_vars, NEW d \in Drains, Clears(d),
         NEW s, s = drains[d].subject
  PROVE  Known(s)'
<1>1. s \in Subjects /\ drains[d].step \in Busy
  BY ClearsIs
<1>2. doc' = doc
  BY DEF Clears, ReadSnapshot, Export, DestroyAcked, Settle, Dropped, local
<1>3. CASE ReadSnapshot(d) /\ doc[s].state # "live"
  BY <1>2, <1>3 DEF Known
<1>4. CASE Dropped(d)
  BY <1>4 DEF Dropped, Known
<1>5. CASE (Export(d) /\ ExportsNothing(d)) \/ DestroyAcked(d) \/ Settle(d)
  <2>1. drains[d].step # "genesis"
    BY <1>5 DEF Export, DestroyAcked, Settle
  <2>2. Known(s)
    BY <1>1, <2>1, WorkKnown
  <2>3. hub' = hub
    BY <1>5 DEF Export, DestroyAcked, Settle
  <2>4. QED BY <1>2, <2>2, <2>3, HistoryGrows DEF Known
<1>6. QED BY <1>3, <1>4, <1>5 DEF Clears

LEMMA StepMissing ==
  ASSUME TInv, Announced, [Next]_vars, NEW s \in Subjects, Missing(s)'
  PROVE  Known(s)' \/ GenesisPending(s)'
<1>1. CASE Create(s)
  <2>1. PICK w : w = [subject |-> s, kind |-> "genesis", from |-> 0]
    OBVIOUS
  <2>2. w \in unmarked' /\ w.subject = s /\ w.kind = "genesis"
    BY <1>1, <2>1 DEF Create
  <2>3. QED BY <2>2 DEF GenesisPending
<1>2. CASE ~Create(s) /\ doc[s].state = "none"
  BY <1>2, LiveBefore DEF Known
<1>3. CASE doc[s].state # "none" /\ Known(s)
  BY <1>3, KnownStays
<1>4. CASE Missing(s) /\ ~Known(s)
  <2>1. PICK w \in unmarked : w.subject = s /\ w.kind = "genesis"
    BY <1>4 DEF Announced, GenesisPending
  <2>2. ~MarkDirty(w)
    BY <2>1, MarkedIsThere
  <2>3. Crash => Known(s)'
    BY <2>1, KilledIsForsaken DEF Known
  <2>4. w \in unmarked' => GenesisPending(s)'
    BY <2>1 DEF GenesisPending
  <2>5. QED BY <2>2, <2>3, <2>4, UnmarkedTo
<1>5. CASE ~Missing(s)
  <2>1. PICK d \in Drains : drains[d].subject = s /\ Clears(d)
    BY <1>5, MissingTo
  <2>2. QED BY <2>1, ClearsKnown
<1>6. QED BY <1>1, <1>2, <1>3, <1>4, <1>5

LEMMA StepHeldKnown ==
  ASSUME TInv, Announced, [Next]_vars, NEW s \in Subjects, NEW e \in Entry,
         Holds(s, e)', e.envelope # "genesis"
  PROVE  Known(s)'
<1>1. ASSUME NEW f \in Entry, Holds(s, f), f.envelope # "genesis"
      PROVE  Known(s) /\ doc[s].state # "none"
  BY <1>1 DEF Announced, TInv, EntriesOK, EntryOK
<1>2. ASSUME NEW w \in unmarked, MarkDirty(w), w.subject = s,
             NEW g \in found[s], MarkedAs(e, g, w)
      PROVE  Known(s) /\ doc[s].state # "none"
  <2>1. doc[s].state # "none" /\ (w.kind = "destroy" => doc[s].state = "gone")
    BY <1>2 DEF TInv, UnmarkedOK, WriteOK
  <2>2. w.kind # "genesis"
    BY <1>2 DEF MarkedAs
  <2>3. CASE w.kind = "destroy"
    BY <2>1, <2>3 DEF Known
  <2>4. CASE w.kind # "destroy" /\ g = None
    <3>1. Missing(s)
      BY <2>4 DEF Missing
    <3>2. ~GenesisPending(s)
      BY <1>2, <2>2, GenesisMarkedFirst DEF GenesisPending
    <3>3. QED BY <2>1, <3>1, <3>2 DEF Announced
  <2>5. CASE w.kind # "destroy" /\ g # None
    <3>1. g \in Entry /\ Holds(s, g)
      BY <2>5, FoundIn
    <3>2. w.kind = "edit"
      BY <2>2, <2>5, WritesIn
    <3>3. e.envelope = g.envelope
      BY <1>2, <2>5, <3>2 DEF MarkedAs
    <3>4. QED BY <1>1, <3>1, <3>3
  <2>6. QED BY <2>3, <2>4, <2>5
<1>3. ASSUME NEW d \in Drains, drains[d].subject = s, AckedAs(e, d)
      PROVE  Known(s) /\ doc[s].state # "none"
  <2>1. CASE GenesisAcked(d)
    <3>1. /\ drains[d].step \in AtWork /\ drains[d].step \in Busy
          /\ drains[d].step = "genesis" => drains[d].answer = "ok"
      BY <2>1 DEF GenesisAcked, AtWork, Busy
    <3>2. Known(drains[d].subject)
      BY <3>1, WorkKnown
    <3>3. QED BY <1>3, <3>1, <3>2, WorkHolds DEF EntryOK
  <2>2. CASE Settle(d) /\ EditedSince(d) /\ drains[d].entry \in Entry
    <3>1. drains[d].step = "settle" /\ drains[d].step \in Busy
      BY <2>2 DEF Settle, Busy
    <3>2. Known(drains[d].subject)
      BY <3>1, WorkKnown
    <3>3. EntryOK(s, drains[d].entry)
      BY <1>3, <2>2, DrainHolds DEF TInv, EntriesOK
    <3>4. QED BY <1>3, <3>2, <3>3 DEF EntryOK
  <2>3. QED BY <1>3, <2>1, <2>2 DEF AckedAs
<1>4. Known(s) /\ doc[s].state # "none"
  BY <1>1, <1>2, <1>3, CopyFrom DEF Like
<1>5. QED BY <1>4, KnownStays

LEMMA StepAnnounces ==
  ASSUME TInv, Announced, [Next]_vars, NEW o \in Drains
  PROVE  Announces(drains[o])'
<1>1. PICK x : x = drains[o]
  OBVIOUS
<1>2. PICK y : y = drains'[o]
  OBVIOUS
<1>3. Announces(x) /\ (x.step \in Busy => x.subject \in Subjects)
  BY <1>1, DrainIs DEF Announced, DrainOK, Busy
<1>4. SUFFICES ASSUME y.step \in {"delta", "settle"}
                      \/ (y.step = "genesis" /\ y.answer = "ok")
               PROVE  hub'[y.subject].state # "none"
                      \/ y.subject \in forsaken' \cup crossed'
  BY <1>2 DEF Announces
<1>5. ASSUME NEW s \in Subjects,
             hub[s].state # "none" \/ s \in forsaken \cup crossed
      PROVE  hub'[s].state # "none" \/ s \in forsaken' \cup crossed'
  BY <1>5, HubRemembers, HistoryGrows
<1>6. ASSUME x.step \in {"delta", "settle"} \/ (x.step = "genesis" /\ x.answer = "ok"),
             y.subject = x.subject
      PROVE  hub'[y.subject].state # "none" \/ y.subject \in forsaken' \cup crossed'
  <2>1. x.subject \in Subjects
    BY <1>3, <1>6 DEF AtWork, Busy
  <2>2. QED BY <1>3, <1>5, <1>6, <2>1 DEF Announces
<1>7. CASE y = x
  BY <1>4, <1>6, <1>7
<1>8. CASE y.step \notin Busy
  BY <1>4, <1>8 DEF AtWork, Busy
<1>9. ASSUME NEW c \in x.todo, y.entry \in Entry, y.entry = c.entry, y.answer = "none",
             y.step = IF c.entry.envelope = "none" THEN "snapshot" ELSE c.entry.envelope
      PROVE  FALSE
  BY <1>4, <1>9, EntryFields
<1>10. CASE Export(o) /\ doc[x.subject].state = "live" /\ y.subject = x.subject
  <2>1. x.step \in Busy /\ x.step # "genesis"
    BY <1>1, <1>10 DEF Export, AtWork, Busy
  <2>2. x.subject \in Subjects /\ Known(x.subject)
    BY <1>1, <1>3, <2>1, WorkKnown
  <2>3. QED BY <1>5, <1>10, <2>2 DEF Known
<1>11. CASE SameWork(y, x) /\ y.answer = "transient"
  <2>1. x.step \in {"delta", "settle"} /\ y.subject = x.subject
    BY <1>4, <1>11 DEF SameWork
  <2>2. QED BY <1>6, <2>1
<1>12. CASE DeltaAcked(o) /\ y.subject = x.subject
  <2>1. x.step = "delta"
    BY <1>1, <1>12 DEF DeltaAcked
  <2>2. QED BY <1>6, <1>12, <2>1
<1>13. ASSUME NEW r \in requests, HubAnswers(r, y.answer), SameWork(y, x),
              x.step \in AtWork, Frame(x) = r \/ Under(x.subject) \subseteq crossed'
       PROVE  hub'[y.subject].state # "none" \/ y.subject \in forsaken' \cup crossed'
  <2>1. y.subject = x.subject /\ y.step = x.step /\ x.subject \in Subjects
    BY <1>3, <1>13 DEF SameWork, Busy
  <2>2. CASE x.step \in {"delta", "settle"}
    BY <1>6, <2>1, <2>2
  <2>3. CASE Frame(x) = r /\ x.step = "genesis" /\ y.answer = "ok"
    <3>1. r.kind = "genesis" /\ r.subject = x.subject
      BY <2>3 DEF Frame
    <3>2. QED BY <1>13, <2>1, <2>3, <3>1, GenesisApplied
  <2>4. CASE Under(x.subject) \subseteq crossed'
    BY <2>1, <2>4, UnderFacts
  <2>5. QED BY <1>4, <1>13, <2>1, <2>2, <2>3, <2>4
<1>14. y.step = "generation" \/ y.step = "snapshot" => FALSE
  BY <1>4
<1>15. QED
  BY <1>1, <1>2, <1>7, <1>8, <1>9, <1>10, <1>11, <1>12, <1>13, <1>14, DrainTo

LEMMA StepAnnounced == TInv /\ Announced /\ [Next]_vars => Announced'
<1> SUFFICES ASSUME TInv, Announced, [Next]_vars PROVE Announced'
  OBVIOUS
<1>1. \A s \in Subjects : Missing(s)' => Known(s)' \/ GenesisPending(s)'
  BY StepMissing
<1>2. \A s \in Subjects, e \in Entry :
        Holds(s, e)' /\ e.envelope # "genesis" => Known(s)'
  BY StepHeldKnown
<1>3. \A d \in Drains : Announces(drains[d])'
  BY StepAnnounces
<1>4. QED BY <1>1, <1>2, <1>3 DEF Announced

LEMMA InitHolds ==
  ASSUME Init PROVE \A s \in Subjects, e \in Entry : ~Holds(s, e)
BY IdleFields, NoneNot DEF Init, Holds, Captured

LEMMA InitAnnounced == Init => Announced
<1> SUFFICES ASSUME Init PROVE Announced
  OBVIOUS
<1>1. \A s \in Subjects : Known(s)
  BY DEF Init, Known
<1>2. \A d \in Drains : Announces(drains[d])
  BY IdleFields DEF Init, Announces
<1>3. QED BY <1>1, <1>2 DEF Announced

LEMMA AnnouncedInvariance == Spec => []Announced
BY InitAnnounced, StepAnnounced, TypeInvariance, PTL DEF Spec

\* No delta goes out for a resource whose genesis the hub has not had, unless
\* that genesis was given up or another answer taken for its own, however many
\* drains send captured entries, late frames and lost answers (drain_subject
\* sends the genesis envelope first and clears it only on an acknowledgement).
THEOREM GenesisGoesFirst == Spec => []DeltaHasGenesis
<1>1. Announced => DeltaHasGenesis
  BY DEF Announced, Announces, DeltaHasGenesis
<1>2. QED BY <1>1, AnnouncedInvariance, PTL

-----------------------------------------------------------------------------
(* What the hub has, against what lives here *)

\* A resource lives as long as its parent; what lives here is not gone there,
\* and the hub has not heard of what was never made.
TreeOK ==
  \A s \in Subjects :
    /\ doc[s].state = "live" /\ Parent[s] # None => doc[Parent[s]].state = "live"
    /\ doc[s].state = "live" => hub[s].state # "gone"
    /\ doc[s].state = "none" => hub[s].state = "none"

\* The hub starts a resource at no version.
HubFresh == \A s \in Subjects : hub[s].state = "none" => hub[s].version = 0

\* Where it lives at the hub, the hub has the commit that created it.
Born(s) == hub[s].state = "live" => hub[s].version >= 1

BornOK ==
  /\ \A w \in unmarked : w.kind = "genesis" => Born(w.subject)
  /\ \A s \in Subjects, e \in Entry :
       Holds(s, e) /\ e.envelope = "genesis" => Born(s) /\ e.base = 1

\* Nothing lives below what is gone.
LEMMA GoneBelow ==
  ASSUME TreeOK, NEW s \in Subjects, doc[s].state # "live"
  PROVE  \A c \in Under(s) : doc[c].state # "live"
<1>1. PICK S : S = {t \in Subjects : doc[t].state # "live"}
  OBVIOUS
<1>2. ASSUME NEW c \in Subjects, Parent[c] \in S PROVE c \in S
  BY <1>1, <1>2, NoneNot DEF TreeOK
<1>3. Under(s) \subseteq S
  BY <1>1, <1>2, UnderLeast
<1>4. QED BY <1>1, <1>3

LEMMA StepTree == ASSUME TreeOK, TInv, [Next]_vars PROVE TreeOK'
<1>1. ASSUME NEW s \in Subjects, doc'[s].state = "live", Parent[s] # None
      PROVE  doc'[Parent[s]].state = "live"
  <2>1. Parent[s] \in Subjects
    BY <1>1, TreeAssumption
  <2>2. doc[Parent[s]].state = "live"
    BY <1>1, LiveBefore DEF TreeOK, Create
  <2>3. ASSUME NEW t \in Subjects, Destroy(t), Parent[s] \in Under(t) PROVE FALSE
    <3>1. s \in Under(t)
      BY <2>3, UnderFacts
    <3>2. doc'[s].state # "live"
      BY <2>3, <3>1 DEF Destroy, TInv, TypeOK, Copy
    <3>3. QED BY <1>1, <3>2
  <2>4. QED BY <2>1, <2>2, <2>3, DocTo
<1>2. ASSUME NEW s \in Subjects, doc'[s].state = "live" PROVE hub'[s].state # "gone"
  <2>1. hub[s].state # "gone"
    BY <1>2, LiveBefore DEF TreeOK, Create
  <2>2. CASE hub'[s] = hub[s]
    BY <2>1, <2>2
  <2>3. CASE hub'[s] # hub[s]
    <3>1. PICK r \in requests :
            /\ HubAnswers(r, "ok") /\ BecomesOf(hub'[s], hub[s], s, r)
            /\ r.subject \in Subjects /\ FrameOK(r)
      BY <2>3, HubTo
    <3>2. doc' = doc
      BY <3>1 DEF HubAnswers, local
    <3>3. r.kind # "destroy" \/ s \notin Under(r.subject)
      BY <1>2, <3>1, <3>2, GoneBelow DEF FrameOK
    <3>4. QED BY <2>1, <3>1, <3>3 DEF BecomesOf
  <2>4. QED BY <2>2, <2>3
<1>3. ASSUME NEW s \in Subjects, doc'[s].state = "none" PROVE hub'[s].state = "none"
  <2>1. doc[s].state = "none"
    BY <1>3, DocTo
  <2>2. hub[s].state = "none"
    BY <2>1 DEF TreeOK
  <2>3. CASE hub'[s] = hub[s]
    BY <2>2, <2>3
  <2>4. CASE hub'[s] # hub[s]
    <3>1. PICK r \in requests : BecomesOf(hub'[s], hub[s], s, r) /\ FrameOK(r)
      BY <2>4, HubTo
    <3>2. QED BY <2>1, <2>2, <3>1 DEF BecomesOf, FrameOK
  <2>5. QED BY <2>3, <2>4
<1>4. QED BY <1>1, <1>2, <1>3 DEF TreeOK

\* What lives here does not lose a version at the hub.
LEMMA HubNoLess ==
  ASSUME TInv, [Next]_vars, TreeOK, HubFresh, NEW s \in Subjects,
         doc[s].state = "live"
  PROVE  hub[s].version \in Nat /\ hub'[s].version \in Nat
         /\ hub[s].version <= hub'[s].version
<1>1. hub[s].version \in Nat /\ hub[s].state \in {"none", "live", "gone"}
  BY VersionsIn
<1>2. CASE hub'[s] = hub[s]
  BY <1>1, <1>2
<1>3. CASE hub'[s] # hub[s]
  <2>1. PICK r \in requests :
          BecomesOf(hub'[s], hub[s], s, r) /\ r.upto \in Nat
    BY <1>3, HubTo
  <2>2. r.kind = "genesis" => hub[s].version = 0
    BY <1>1, <2>1 DEF BecomesOf, TreeOK, HubFresh
  <2>3. QED BY <1>1, <2>1, <2>2 DEF BecomesOf
<1>4. QED BY <1>2, <1>3

LEMMA StepFresh == ASSUME TInv, [Next]_vars, HubFresh PROVE HubFresh'
<1> SUFFICES ASSUME NEW s \in Subjects, hub'[s].state = "none" PROVE hub'[s].version = 0
  BY DEF HubFresh
<1>1. hub'[s] # hub[s] => \E r \in requests : BecomesOf(hub'[s], hub[s], s, r)
  BY HubTo
<1>2. QED BY <1>1 DEF BecomesOf, HubFresh

LEMMA BornStays ==
  ASSUME TInv, [Next]_vars, NEW s \in Subjects, Born(s)
  PROVE  Born(s)'
<1>1. CASE hub'[s] = hub[s]
  BY <1>1 DEF Born
<1>2. CASE hub'[s] # hub[s]
  <2>1. PICK r \in requests :
          BecomesOf(hub'[s], hub[s], s, r) /\ r.upto \in Nat
    BY <1>2, HubTo
  <2>2. hub[s].version \in Nat
    BY VersionsIn
  <2>3. QED BY <2>1, <2>2 DEF BecomesOf, Born
<1>3. QED BY <1>1, <1>2

LEMMA StepBorn == ASSUME TInv, [Next]_vars, TreeOK, BornOK PROVE BornOK'
<1>1. ASSUME NEW w \in unmarked', w.kind = "genesis" PROVE Born(w.subject)'
  <2>1. w.subject \in Subjects /\ Born(w.subject)
    <3>1. CASE w \in unmarked
      BY <1>1, <3>1, WritesIn DEF BornOK
    <3>2. CASE \E s \in Subjects : w.subject = s /\ Create(s)
      BY <3>2 DEF Create, TreeOK, Born
    <3>3. QED BY <1>1, <3>1, <3>2, UnmarkedFrom
  <2>2. QED BY <2>1, BornStays
<1>2. ASSUME NEW s \in Subjects, NEW e \in Entry, Holds(s, e)', e.envelope = "genesis"
      PROVE  Born(s)' /\ e.base = 1
  <2>1. ASSUME NEW f \in Entry, Holds(s, f), Like(e, f)
        PROVE  Born(s) /\ e.base = 1
    BY <1>2, <2>1 DEF BornOK, Like
  <2>2. ASSUME NEW w \in unmarked, MarkDirty(w), w.subject = s,
               NEW g \in found[s], MarkedAs(e, g, w)
        PROVE  Born(s) /\ e.base = 1
    <3>1. CASE w.kind = "genesis"
      BY <2>2, <3>1 DEF MarkedAs, BornOK, TInv, UnmarkedOK, WriteOK
    <3>2. CASE w.kind = "edit"
      <4>1. g \in Entry /\ Holds(s, g)
        BY <1>2, <2>2, <3>2, FoundIn DEF MarkedAs
      <4>2. g.envelope = "genesis" /\ e.base = g.base
        BY <1>2, <2>2, <3>2, <4>1, NoneNot DEF MarkedAs
      <4>3. QED BY <4>1, <4>2 DEF BornOK
    <3>3. QED BY <1>2, <2>2, <3>1, <3>2 DEF MarkedAs
  <2>3. Born(s) /\ e.base = 1
    BY <1>2, <2>1, <2>2, CopyFrom DEF AckedAs
  <2>4. QED BY <2>3, BornStays
<1>3. QED BY <1>1, <1>2 DEF BornOK

-----------------------------------------------------------------------------
(* What the hub has, against what is queued *)

\* Outside the windows that are known: what the properties below are about.
Live(s) == doc[s].state = "live" /\ s \notin Excused

\* Every copy of an entry starts at a version the hub holds.
BaseOK(s, e) ==
  e.envelope = "none" /\ e.base # None /\ Live(s) => e.base <= hub[s].version

BasesOK == \A s \in Subjects, e \in Entry : Holds(s, e) => BaseOK(s, e)

\* The resource has no commit past version v, but for one still to be marked.
Pending(s, v) == \E w \in unmarked : w.subject = s /\ w.from <= v
UpTo(s, v) == doc[s].version <= v \/ Pending(s, v)

\* Where mark_dirty would find no entry, the hub has all there is.
Caught == \A s \in Subjects : Live(s) /\ Missing(s) => UpTo(s, hub[s].version)

\* What a drain exported is all there is, for as long as the generation it
\* read says so; what it was told of, the hub has.
Unedited(x) == x.entry # None => x.entry.generation = x.generation

ExportOK(x) ==
  LET s == x.subject IN
  Live(s) =>
    /\ x.step = "generation" => UpTo(s, x.upto)
    /\ /\ x.step = "delta"
       /\ entries[s] # None /\ entries[s].generation = x.generation
       => UpTo(s, x.upto)
    /\ x.step = "settle" \/ (x.step = "delta" /\ x.answer = "ok") =>
         x.upto <= hub[s].version
    /\ x.step = "settle" /\ Unedited(x) => UpTo(s, hub[s].version)

Queue ==
  /\ TreeOK /\ HubFresh /\ BornOK /\ BasesOK /\ Caught
  /\ \A d \in Drains : ExportOK(drains[d])

LEMMA LiveWas ==
  ASSUME TInv, [Next]_vars, NEW s \in Subjects, Live(s)', doc[s].state # "none"
  PROVE  Live(s)
BY LiveBefore, HistoryGrows DEF Live, Create

LEMMA UpToMore ==
  ASSUME TInv, NEW s \in Subjects, NEW v \in Nat, NEW u \in Nat, v <= u, UpTo(s, v)
  PROVE  UpTo(s, u)
<1>1. CASE doc[s].version <= v
  BY <1>1, VersionsIn DEF UpTo
<1>2. CASE Pending(s, v)
  <2>1. PICK w \in unmarked : w.subject = s /\ w.from <= v
    BY <1>2 DEF Pending
  <2>2. w.from <= u
    BY <2>1, WritesIn
  <2>3. QED BY <2>1, <2>2 DEF UpTo, Pending
<1>3. QED BY <1>1, <1>2 DEF UpTo

\* It changes where a commit is marked, and nowhere else.
LEMMA UpToStays ==
  ASSUME TInv, [Next]_vars, NEW s \in Subjects, NEW v \in Nat,
         Live(s)', doc[s].state = "live", UpTo(s, v),
         \A w \in unmarked : w.subject = s => ~MarkDirty(w)
  PROVE  UpTo(s, v)'
<1>1. doc[s].version \in Nat
  BY VersionsIn
<1>2. CASE Pending(s, v)
  <2>1. PICK w \in unmarked : w.subject = s /\ w.from <= v
    BY <1>2 DEF Pending
  <2>2. ~Crash
    BY <2>1, KilledIsForsaken DEF Live, Excused
  <2>3. w \in unmarked'
    BY <2>1, <2>2, UnmarkedTo
  <2>4. QED BY <2>1, <2>3 DEF UpTo, Pending
<1>3. CASE doc[s].version <= v /\ Edit(s)
  <2>1. PICK w : w = [subject |-> s, kind |-> "edit", from |-> doc[s].version]
    OBVIOUS
  <2>2. w \in unmarked' /\ w.subject = s /\ w.from = doc[s].version
    BY <1>3, <2>1 DEF Edit
  <2>3. QED BY <1>3, <2>2 DEF UpTo, Pending
<1>4. CASE doc[s].version <= v /\ ~Edit(s)
  <2>1. doc'[s] = doc[s]
    BY <1>4, DocTo DEF Live
  <2>2. QED BY <1>4, <2>1 DEF UpTo
<1>5. QED BY <1>2, <1>3, <1>4 DEF UpTo

\* A drain that was told of its genesis, or of its delta, is at a resource the
\* hub has as far.
LEMMA AckedHas ==
  ASSUME TInv, Announced, Queue, NEW d \in Drains, NEW e, AckedAs(e, d),
         NEW s, s = drains[d].subject, Live(s)
  PROVE  s \in Subjects /\ e.base \in Nat /\ e.base <= hub[s].version
<1>1. CASE GenesisAcked(d) /\ e.base = drains[d].entry.base
  <2>1. /\ drains[d].step = "genesis" /\ drains[d].answer = "ok"
        /\ drains[d].step \in AtWork
    BY <1>1 DEF GenesisAcked, AtWork
  <2>2. /\ s \in Subjects /\ drains[d].entry \in Entry /\ Holds(s, drains[d].entry)
        /\ drains[d].entry.envelope = "genesis"
    BY <2>1, WorkHolds
  <2>3. Born(s) /\ e.base = 1
    BY <1>1, <2>2 DEF Queue, BornOK
  <2>4. hub[s].state # "none" /\ hub[s].state # "gone"
    BY <2>1, <2>2 DEF Announced, Announces, Queue, TreeOK, Live, Excused
  <2>5. hub[s].state = "live"
    BY <2>2, <2>4, VersionsIn
  <2>6. QED BY <2>2, <2>3, <2>5 DEF Born
<1>2. CASE Settle(d) /\ e.base = drains[d].upto
  <2>1. drains[d].step = "settle"
    BY <1>2 DEF Settle
  <2>2. s \in Subjects /\ drains[d].upto \in Nat
    BY <2>1, DrainIs, DrainFields, VersionsAre DEF DrainOK
  <2>3. drains[d].upto <= hub[s].version
    BY <2>1 DEF Queue, ExportOK
  <2>4. QED BY <1>2, <2>2, <2>3
<1>3. QED BY <1>1, <1>2 DEF AckedAs

LEMMA StepBases == ASSUME TInv, Announced, [Next]_vars, Queue PROVE BasesOK'
<1>1. ASSUME NEW s \in Subjects, NEW e \in Entry, Holds(s, e)',
             e.envelope = "none", e.base # None, Live(s)'
      PROVE  e.base <= hub'[s].version
  <2>1. hub[s].version \in Nat /\ e.base \in Nat /\ doc[s].version \in Nat
    BY <1>1, VersionsIn, EntryFields, VersionsAre
  <2>2. ASSUME NEW f \in Entry, Holds(s, f), Like(e, f)
        PROVE  Live(s) /\ e.base <= hub[s].version
    <3>1. doc[s].state # "none"
      BY <2>2 DEF TInv, EntriesOK, EntryOK
    <3>2. Live(s)
      BY <1>1, <3>1, LiveWas
    <3>3. QED BY <1>1, <2>2, <3>2 DEF Queue, BasesOK, BaseOK, Like
  <2>3. ASSUME NEW w \in unmarked, MarkDirty(w), w.subject = s,
               NEW g \in found[s], MarkedAs(e, g, w)
        PROVE  Live(s) /\ e.base <= hub[s].version
    <3>1. /\ w.kind = "edit" /\ w.from \in Nat
          /\ w.from < doc[s].version /\ doc[s].state # "none"
      BY <1>1, <2>3, WritesIn DEF MarkedAs, TInv, UnmarkedOK, WriteOK
    <3>2. Live(s)
      BY <1>1, <3>1, LiveWas
    <3>3. CASE g = None
      <4>1. e.base = w.from
        BY <2>3, <3>1, <3>3 DEF MarkedAs
      <4>2. UpTo(s, hub[s].version)
        BY <3>2, <3>3 DEF Queue, Caught, Missing
      <4>3. ASSUME NEW v \in unmarked, v.subject = s, v.from <= hub[s].version
            PROVE  w.from <= hub[s].version
        <5>1. w.from <= v.from /\ v.from \in Nat
          BY <2>3, <4>3, WritesIn DEF MarkDirty, InOrder
        <5>2. QED BY <2>1, <3>1, <4>3, <5>1
      <4>4. QED BY <2>1, <3>1, <3>2, <4>1, <4>2, <4>3 DEF UpTo, Pending
    <3>4. CASE g # None
      <4>1. g \in Entry /\ Holds(s, g)
        BY <3>4, FoundIn
      <4>2. g.envelope = "none" /\ g.base = e.base
        BY <1>1, <2>3, <3>1, <3>4 DEF MarkedAs
      <4>3. QED BY <1>1, <3>2, <4>1, <4>2 DEF Queue, BasesOK, BaseOK
    <3>5. QED BY <3>3, <3>4
  <2>4. ASSUME NEW d \in Drains, drains[d].subject = s, AckedAs(e, d)
        PROVE  Live(s) /\ e.base <= hub[s].version
    <3>1. drains[d].entry \in Entry
      <4>1. GenesisAcked(d) => drains[d].entry \in Entry
        BY WorkHolds DEF GenesisAcked, AtWork
      <4>2. QED BY <2>4, <4>1 DEF AckedAs
    <3>2. doc[s].state # "none"
      BY <2>4, <3>1, DrainHolds DEF TInv, EntriesOK, EntryOK
    <3>3. Live(s)
      BY <1>1, <3>2, LiveWas
    <3>4. QED BY <2>4, <3>3, AckedHas
  <2>5. Live(s) /\ e.base <= hub[s].version
    BY <1>1, <2>2, <2>3, <2>4, CopyFrom
  <2>6. hub'[s].version \in Nat /\ hub[s].version <= hub'[s].version
    BY <2>5, HubNoLess DEF Queue, Live
  <2>7. QED BY <2>1, <2>5, <2>6
<1>2. QED BY <1>1 DEF BasesOK, BaseOK

\* A drain clears no entry of what lives here before the hub has it all.
LEMMA ClearsCaught ==
  ASSUME TInv, Announced, Queue, NEW d \in Drains, Clears(d),
         NEW s, s = drains[d].subject, Live(s), Live(s)'
  PROVE  UpTo(s, hub[s].version)
<1>1. /\ s \in Subjects /\ drains[d].upto \in Nat /\ hub[s].version \in Nat
      /\ ExportOK(drains[d])
  BY ClearsIs, VersionsIn, DrainIs, DrainFields, VersionsAre DEF Queue
<1>2. ASSUME drains[d].step \in AtWork
      PROVE  /\ drains[d].entry \in Entry /\ Holds(s, drains[d].entry)
             /\ EntryOK(s, drains[d].entry)
             /\ drains[d].entry.envelope = IF drains[d].step \in {"genesis", "destroy"}
                                             THEN drains[d].step ELSE "none"
  BY <1>2, WorkHolds
<1>3. ~DestroyAcked(d)
  BY <1>2 DEF DestroyAcked, EntryOK, AtWork, Live
<1>4. ~Dropped(d)
  BY DEF Dropped, Live, Excused
<1>5. CASE Export(d) /\ ExportsNothing(d)
  <2>1. /\ drains[d].step = "generation" /\ drains[d].entry.base = drains[d].upto
        /\ drains[d].step \in AtWork
    BY <1>5 DEF Export, ExportsNothing, AtWork
  <2>2. UpTo(s, drains[d].upto)
    BY <1>1, <2>1 DEF ExportOK
  <2>3. BaseOK(s, drains[d].entry) /\ drains[d].entry.envelope = "none"
    BY <1>1, <1>2, <2>1 DEF Queue, BasesOK
  <2>4. drains[d].upto <= hub[s].version
    BY <1>1, <2>1, <2>3, NoneNot DEF BaseOK
  <2>5. QED BY <1>1, <2>2, <2>4, UpToMore
<1>6. CASE Settle(d) /\ ~EditedSince(d)
  <2>1. drains[d].step = "settle" /\ Unedited(drains[d])
    BY <1>6 DEF Settle, EditedSince, Unedited
  <2>2. QED BY <1>1, <2>1 DEF ExportOK
<1>7. QED BY <1>3, <1>4, <1>5, <1>6 DEF Clears, Live

LEMMA StepCaught == ASSUME TInv, Announced, [Next]_vars, Queue PROVE Caught'
<1>1. ASSUME NEW s \in Subjects, Live(s)', Missing(s)'
      PROVE  UpTo(s, hub[s].version)'
  <2>1. CASE Create(s)
    <3>1. PICK w : w = [subject |-> s, kind |-> "genesis", from |-> 0]
      OBVIOUS
    <3>2. w \in unmarked' /\ w.subject = s /\ w.from = 0
      BY <2>1, <3>1 DEF Create
    <3>3. hub' = hub /\ hub[s].version \in Nat
      BY <2>1, VersionsIn DEF Create
    <3>4. QED BY <3>2, <3>3 DEF UpTo, Pending
  <2>2. CASE ~Create(s)
    <3>1. Live(s)
      BY <1>1, <2>2, LiveBefore, HistoryGrows DEF Live
    <3>2. UpTo(s, hub[s].version)
      <4>1. CASE Missing(s)
        BY <3>1, <4>1 DEF Queue, Caught
      <4>2. CASE ~Missing(s)
        <5>1. PICK d \in Drains : drains[d].subject = s /\ Clears(d)
          BY <1>1, <4>2, MissingTo
        <5>2. QED BY <1>1, <3>1, <5>1, ClearsCaught
      <4>3. QED BY <4>1, <4>2
    <3>3. \A w \in unmarked : w.subject = s => ~MarkDirty(w)
      BY <1>1, MarkedIsThere
    <3>4. PICK v : v = hub[s].version
      OBVIOUS
    <3>5. PICK u : u = hub'[s].version
      OBVIOUS
    <3>6. v \in Nat /\ u \in Nat /\ v <= u
      BY <3>1, <3>4, <3>5, HubNoLess DEF Live, Queue
    <3>7. UpTo(s, u)
      BY <3>2, <3>4, <3>6, UpToMore
    <3>8. UpTo(s, u)'
      BY <1>1, <3>1, <3>3, <3>6, <3>7, UpToStays DEF Live
    <3>9. QED BY <3>5, <3>8 DEF UpTo, Pending
  <2>3. QED BY <2>1, <2>2
<1>2. QED BY <1>1 DEF Caught

\* A mark between the reads of an export or of a settlement is a race, and so
\* is one that leaves the generation of an export.
LEMMA MarkIsSeen ==
  ASSUME TInv, NEW o \in Drains, NEW w \in unmarked, MarkDirty(w),
         w.subject = drains[o].subject,
         \/ drains[o].step \in {"generation", "settle"}
         \/ /\ drains[o].step = "delta"
            /\ drains[o].generation = entries'[w.subject].generation
  PROVE  w.subject \in raced'
<1>1. PICK f \in Entry :
        /\ w.subject \in Subjects
        /\ entries' = [entries EXCEPT ![w.subject] = f]
        /\ raced' = raced \cup Unseen(w.subject, f) \cup Undone(w)
  BY MarkEffect
<1>2. entries'[w.subject] = f
  BY <1>1 DEF TInv, TypeOK
<1>3. o \in Judging(w.subject) \cup Blinded(w.subject, f)
  BY <1>2 DEF Judging, Blinded
<1>4. QED BY <1>1, <1>3 DEF Unseen

\* What a drain exports lived before the step, if it does after.
LEMMA ExportedLives ==
  ASSUME TInv, Announced, Queue, [Next]_vars, NEW o \in Drains,
         drains[o].step \in {"generation", "delta", "settle"},
         NEW s, s = drains[o].subject, Live(s)'
  PROVE  /\ s \in Subjects /\ Live(s) /\ doc[s].state = "live"
         /\ drains[o].upto \in Nat /\ ExportOK(drains[o])
         /\ hub[s].version \in Nat /\ hub'[s].version \in Nat
         /\ hub[s].version <= hub'[s].version
<1>1. s \in Subjects /\ drains[o].upto \in Nat /\ ExportOK(drains[o])
  BY DrainIs, DrainFields, VersionsAre DEF Queue, DrainOK, AtWork
<1>2. doc[s].state # "none"
  <2>1. CASE drains[o].step \in AtWork
    BY <2>1, WorkHolds DEF EntryOK
  <2>2. CASE drains[o].step = "settle"
    <3>1. hub[s].state # "none" \/ s \in forsaken \cup crossed
      BY <2>2 DEF Announced, Announces
    <3>2. hub[s].state # "none"
      BY <3>1, HistoryGrows DEF Live, Excused
    <3>3. QED BY <1>1, <3>2 DEF Queue, TreeOK
  <2>3. QED BY <2>1, <2>2 DEF AtWork
<1>3. Live(s)
  BY <1>1, <1>2, LiveWas
<1>4. hub[s].version \in Nat /\ hub'[s].version \in Nat
      /\ hub[s].version <= hub'[s].version
  BY <1>1, <1>3, HubNoLess DEF Queue, Live
<1>5. QED BY <1>1, <1>3, <1>4 DEF Live

\* The snapshot that was read is all there is: what is marked before the entry
\* is read too is a race.
LEMMA StepSnapshot ==
  ASSUME TInv, Announced, Queue, [Next]_vars, NEW o \in Drains,
         NEW y, y = drains'[o], y.step = "generation",
         NEW s, s = y.subject, Live(s)', NEW u, u = y.upto
  PROVE  UpTo(s, u)'
<1>1. PICK x : x = drains[o]
  OBVIOUS
<1>2. CASE x.step = "generation" /\ x.subject = s /\ x.upto = u
  <2>1. s \in Subjects /\ doc[s].state = "live" /\ u \in Nat /\ UpTo(s, u)
    BY <1>1, <1>2, ExportedLives DEF ExportOK
  <2>2. \A w \in unmarked : w.subject = s => ~MarkDirty(w)
    BY <1>1, <1>2, MarkIsSeen DEF Live, Excused
  <2>3. QED BY <2>1, <2>2, UpToStays
<1>3. CASE ReadSnapshot(o) /\ y.upto = doc[x.subject].version /\ y.subject = x.subject
  <2>1. doc' = doc
    BY <1>3 DEF ReadSnapshot, local
  <2>2. s \in Subjects
    BY <1>1, <1>3, DrainIs DEF ReadSnapshot, DrainOK, AtWork
  <2>3. QED BY <1>1, <1>3, <2>1, <2>2, VersionsIn DEF UpTo
<1>4. y = x \/ SameWork(y, x) \/ (ReadSnapshot(o) /\ y.upto = doc[x.subject].version
                                  /\ y.subject = x.subject)
  <2>1. y.step \in Busy
    BY DEF Busy, AtWork
  <2>2. ASSUME NEW c \in x.todo, y.entry \in Entry, y.entry = c.entry,
               y.step = IF c.entry.envelope = "none" THEN "snapshot"
                        ELSE c.entry.envelope
        PROVE  FALSE
    BY <2>2, EntryFields
  <2>3. QED BY <1>1, <2>1, <2>2, DrainTo
<1>5. QED BY <1>2, <1>3, <1>4 DEF SameWork

\* While the entry has the generation a drain exported at, that is all there
\* is still.
LEMMA StepDelta ==
  ASSUME TInv, Announced, Queue, [Next]_vars, NEW o \in Drains,
         NEW y, y = drains'[o], y.step = "delta",
         NEW s, s = y.subject, Live(s)', NEW u, u = y.upto,
         entries'[s] # None, entries'[s].generation = y.generation
  PROVE  UpTo(s, u)'
<1>1. PICK x : x = drains[o]
  OBVIOUS
<1>2. CASE x.step = "delta" /\ SameWork(y, x)
  <2>1. /\ s \in Subjects /\ doc[s].state = "live" /\ u \in Nat /\ x.subject = s
        /\ x.upto = u /\ x.generation = y.generation /\ Live(s) /\ ExportOK(x)
    BY <1>1, <1>2, ExportedLives DEF SameWork
  <2>2. \A w \in unmarked : w.subject = s => ~MarkDirty(w)
    BY <1>1, <1>2, <2>1, MarkIsSeen DEF Live, Excused
  <2>3. s \notin raced'
    BY DEF Live, Excused
  <2>4. entries[s] # None /\ entries[s].generation = x.generation
    <3>1. CASE entries'[s] = entries[s]
      BY <2>1, <3>1
    <3>2. CASE entries[s] \in Entry /\ Like(entries'[s], entries[s])
      BY <2>1, <3>2, NoneNot DEF Like
    <3>3. ASSUME NEW d \in Drains, drains[d].subject = s, Puts(d, entries'[s]),
                 entries'[s] \in Entry, drains'[d].step # "delta"
          PROVE  entries[s] # None /\ entries[s].generation = x.generation
      <4>1. o # d
        BY <3>3
      <4>2. QED BY <1>1, <1>2, <2>1, <2>3, <3>3, <4>1, PutsEffect
    <3>4. QED BY <2>1, <2>2, <3>1, <3>2, <3>3, EntryTo
  <2>5. UpTo(s, u)
    BY <1>2, <2>1, <2>4 DEF ExportOK
  <2>6. QED BY <2>1, <2>2, <2>5, UpToStays
<1>3. CASE Export(o) /\ y.subject = x.subject /\ y.upto = x.upto
  <2>1. /\ drains[o].step = "generation" /\ UNCHANGED <<doc, unmarked>>
    BY <1>3 DEF Export, local
  <2>2. UpTo(s, u)
    BY <1>1, <1>3, <2>1, ExportedLives DEF ExportOK
  <2>3. QED BY <2>1, <2>2 DEF UpTo, Pending
<1>4. \/ y = x \/ SameWork(y, x)
      \/ Export(o) /\ y.subject = x.subject /\ y.upto = x.upto
  <2>1. y.step \in Busy
    BY DEF Busy, AtWork
  <2>2. ASSUME NEW c \in x.todo, y.entry \in Entry, y.entry = c.entry,
               y.step = IF c.entry.envelope = "none" THEN "snapshot"
                        ELSE c.entry.envelope
        PROVE  FALSE
    BY <2>2, EntryFields
  <2>3. QED BY <1>1, <2>1, <2>2, DrainTo
<1>5. QED BY <1>2, <1>3, <1>4 DEF SameWork

\* A drain that was told of its delta was told of what the hub has.
LEMMA StepTold ==
  ASSUME TInv, Announced, Queue, [Next]_vars, NEW o \in Drains,
         NEW y, y = drains'[o],
         y.step = "settle" \/ (y.step = "delta" /\ y.answer = "ok"),
         NEW s, s = y.subject, Live(s)'
  PROVE  y.upto <= hub'[s].version
<1>1. PICK x : x = drains[o]
  OBVIOUS
<1>2. CASE /\ x.step = "settle" \/ (x.step = "delta" /\ x.answer = "ok")
           /\ x.subject = s /\ x.upto = y.upto
  <2>1. /\ x.upto \in Nat /\ x.upto <= hub[s].version
        /\ hub[s].version \in Nat /\ hub'[s].version \in Nat
        /\ hub[s].version <= hub'[s].version
    BY <1>1, <1>2, ExportedLives DEF ExportOK
  <2>2. QED BY <1>2, <2>1
<1>3. ASSUME NEW r \in requests, HubAnswers(r, y.answer), SameWork(y, x),
             Frame(x) = r \/ Under(x.subject) \subseteq crossed', x.step = "delta"
      PROVE  y.upto <= hub'[s].version
  <2>1. s \in Subjects /\ x.subject = s /\ y.answer = "ok"
    BY <1>1, <1>3, ExportedLives DEF SameWork
  <2>2. Frame(x) = r
    BY <1>3, <2>1, UnderFacts DEF Live, Excused
  <2>3. r.kind = "delta" /\ r.subject = s /\ r.upto = x.upto
    BY <1>3, <2>1, <2>2 DEF Frame
  <2>4. hub'[s].version >= x.upto
    BY <1>3, <2>1, <2>3, DeltaApplied
  <2>5. /\ x.upto \in Nat /\ hub'[s].version \in Nat
    BY <1>1, <1>3, <2>1, ExportedLives
  <2>6. QED BY <1>3, <2>4, <2>5 DEF SameWork
<1>4. \/ y = x
      \/ DeltaAcked(o) /\ y.subject = x.subject /\ y.upto = x.upto
      \/ SameWork(y, x) /\ y.answer = "transient"
      \/ \E r \in requests :
           /\ HubAnswers(r, y.answer) /\ SameWork(y, x) /\ x.step \in AtWork
           /\ Frame(x) = r \/ Under(x.subject) \subseteq crossed'
  <2>1. y.step \in Busy
    BY DEF Busy, AtWork
  <2>2. ASSUME NEW c \in x.todo, y.entry \in Entry, y.entry = c.entry,
               y.step = IF c.entry.envelope = "none" THEN "snapshot"
                        ELSE c.entry.envelope
        PROVE  FALSE
    BY <2>2, EntryFields
  <2>3. QED BY <1>1, <2>1, <2>2, DrainTo
<1>5. CASE DeltaAcked(o) /\ y.subject = x.subject /\ y.upto = x.upto
  BY <1>1, <1>2, <1>5 DEF DeltaAcked
<1>6. QED BY <1>2, <1>3, <1>4, <1>5 DEF SameWork, AtWork

\* A drain that found the entry gone, or not edited since its export, may
\* clear it: the hub has all there is.
LEMMA StepSettle ==
  ASSUME TInv, Announced, Queue, [Next]_vars, NEW o \in Drains,
         NEW y, y = drains'[o], y.step = "settle", Unedited(y),
         NEW s, s = y.subject, Live(s)', NEW v, v = hub'[s].version
  PROVE  UpTo(s, v)'
<1>1. PICK x : x = drains[o]
  OBVIOUS
<1>2. CASE x.step = "settle" /\ SameWork(y, x)
  <2>1. /\ s \in Subjects /\ doc[s].state = "live" /\ x.subject = s /\ ExportOK(x)
        /\ hub[s].version \in Nat /\ v \in Nat /\ hub[s].version <= v /\ Live(s)
    BY <1>1, <1>2, ExportedLives DEF SameWork
  <2>2. Unedited(x)
    BY <1>2 DEF Unedited, SameWork
  <2>3. UpTo(s, hub[s].version)
    BY <1>2, <2>1, <2>2 DEF ExportOK
  <2>4. UpTo(s, v)
    BY <2>1, <2>3, UpToMore
  <2>5. \A w \in unmarked : w.subject = s => ~MarkDirty(w)
    BY <1>1, <1>2, <2>1, MarkIsSeen DEF Live, Excused
  <2>6. QED BY <2>1, <2>4, <2>5, UpToStays
<1>3. CASE /\ DeltaAcked(o) /\ y.subject = x.subject /\ y.entry = entries[x.subject]
           /\ y.generation = x.generation
  <2>1. x.step = "delta" /\ x.answer = "ok" /\ UNCHANGED <<doc, unmarked, hub>>
    BY <1>1, <1>3 DEF DeltaAcked, local
  <2>2. /\ s \in Subjects /\ ExportOK(x) /\ Live(s) /\ x.subject = s
        /\ x.upto \in Nat /\ hub[s].version \in Nat
    BY <1>1, <1>3, <2>1, ExportedLives
  <2>3. v = hub[s].version
    BY <2>1
  <2>4. CASE entries[s] = None
    <3>1. UpTo(s, v)
      BY <2>2, <2>3, <2>4 DEF Queue, Caught, Missing
    <3>2. QED BY <2>1, <3>1 DEF UpTo, Pending
  <2>5. CASE entries[s] # None
    <3>1. entries[s].generation = x.generation
      BY <1>3, <2>2, <2>5 DEF Unedited
    <3>2. UpTo(s, x.upto) /\ x.upto <= v
      BY <2>1, <2>2, <2>3, <2>5, <3>1 DEF ExportOK
    <3>3. UpTo(s, v)
      BY <2>2, <2>3, <3>2, UpToMore
    <3>4. QED BY <2>1, <3>3 DEF UpTo, Pending
  <2>6. QED BY <2>4, <2>5
<1>4. \/ y = x \/ SameWork(y, x)
      \/ /\ DeltaAcked(o) /\ y.subject = x.subject /\ y.entry = entries[x.subject]
         /\ y.generation = x.generation
  <2>1. y.step \in Busy
    BY DEF Busy, AtWork
  <2>2. ASSUME NEW c \in x.todo, y.entry \in Entry, y.entry = c.entry,
               y.step = IF c.entry.envelope = "none" THEN "snapshot"
                        ELSE c.entry.envelope
        PROVE  FALSE
    BY <2>2, EntryFields
  <2>3. QED BY <1>1, <2>1, <2>2, DrainTo
<1>5. QED BY <1>2, <1>3, <1>4 DEF SameWork

LEMMA StepExported ==
  ASSUME TInv, Announced, Queue, [Next]_vars, NEW o \in Drains
  PROVE  ExportOK(drains[o])'
<1>1. PICK y : y = drains'[o]
  OBVIOUS
<1>2. PICK s : s = y.subject
  OBVIOUS
<1>3. PICK u : u = y.upto
  OBVIOUS
<1>4. PICK v : v = hub'[s].version
  OBVIOUS
<1>5. Live(s)' /\ y.step = "generation" => UpTo(s, u)'
  BY <1>1, <1>2, <1>3, StepSnapshot
<1>6. Live(s)' /\ y.step = "delta" /\ entries'[s] # None
      /\ entries'[s].generation = y.generation => UpTo(s, u)'
  BY <1>1, <1>2, <1>3, StepDelta
<1>7. Live(s)' /\ (y.step = "settle" \/ (y.step = "delta" /\ y.answer = "ok"))
      => u <= v
  BY <1>1, <1>2, <1>3, <1>4, StepTold
<1>8. Live(s)' /\ y.step = "settle" /\ Unedited(y) => UpTo(s, v)'
  BY <1>1, <1>2, <1>4, StepSettle
<1>9. QED
  BY <1>1, <1>2, <1>3, <1>4, <1>5, <1>6, <1>7, <1>8
  DEF ExportOK, Unedited, UpTo, Pending, Live, Excused

LEMMA StepQueue == TInv /\ Announced /\ Queue /\ [Next]_vars => Queue'
<1> SUFFICES ASSUME TInv, Announced, Queue, [Next]_vars PROVE Queue'
  OBVIOUS
<1>1. TreeOK' /\ HubFresh' /\ BornOK'
  BY StepTree, StepFresh, StepBorn DEF Queue
<1>2. BasesOK' /\ Caught'
  BY StepBases, StepCaught
<1>3. \A d \in Drains : ExportOK(drains[d])'
  BY StepExported
<1>4. QED BY <1>1, <1>2, <1>3 DEF Queue

LEMMA InitQueue == Init => Queue
<1> SUFFICES ASSUME Init PROVE Queue
  OBVIOUS
<1>1. TreeOK /\ HubFresh /\ Caught
  BY TreeAssumption, NoneNot DEF Init, TreeOK, HubFresh, Caught, UpTo
<1>2. BornOK /\ BasesOK
  BY InitHolds DEF Init, BornOK, BasesOK
<1>3. \A d \in Drains : ExportOK(drains[d])
  BY IdleFields DEF Init, ExportOK
<1>4. QED BY <1>1, <1>2, <1>3 DEF Queue

LEMMA QueueInvariance == Spec => []Queue
BY InitQueue, StepQueue, TypeInvariance, AnnouncedInvariance, PTL DEF Spec

\* A delta never starts past what the hub holds, whatever drains overlap and
\* whatever is edited meanwhile, unless a commit was given up or one of the
\* named windows was met: mark_dirty starts a new base at a commit only where
\* no entry was left, and drain_subject moves the base only to what the hub
\* acknowledged.
THEOREM BaseIsHeld == Spec => []BaseHeldByHub
<1>1. ASSUME TInv, Queue PROVE BaseHeldByHub
  <2>1. ASSUME NEW s \in Subjects, s \notin Excused, doc[s].state = "live",
               entries[s] # None, entries[s].envelope = "none",
               entries[s].base # None
        PROVE  entries[s].base <= hub[s].version
    <3>1. entries[s] \in Entry /\ Holds(s, entries[s])
      BY <1>1, <2>1 DEF TInv, TypeOK, Holds
    <3>2. QED BY <1>1, <2>1, <3>1 DEF Queue, BasesOK, BaseOK, Live
  <2>2. QED BY <2>1 DEF BaseHeldByHub, HeldByHub
<1>2. TInv /\ Queue => BaseHeldByHub
  BY <1>1
<1>3. QED BY <1>2, TypeInvariance, QueueInvariance, PTL

\* A live resource the hub lacks something of has its entry, or a commit still
\* to be marked.
LEMMA LiveIsAccounted ==
  ASSUME TInv, Announced, Queue, NEW s \in Subjects, Live(s), Ahead(s)
  PROVE  Accounted(s)
<1>1. CASE entries[s] = None
  <2>1. UpTo(s, hub[s].version) /\ (Known(s) \/ GenesisPending(s))
    BY <1>1 DEF Queue, Caught, Missing, Announced
  <2>2. ASSUME NEW w \in unmarked, w.subject = s PROVE Accounted(s)
    BY <2>2, UnderFacts DEF Accounted
  <2>3. CASE doc[s].version <= hub[s].version /\ Known(s)
    <3>1. hub[s].state # "none" /\ hub[s].state # "gone"
      BY <2>3 DEF Known, Live, Excused, Queue, TreeOK
    <3>2. hub[s].state = "live"
      BY <3>1, VersionsIn
    <3>3. QED BY <2>3, <3>2, VersionsIn DEF Ahead, Live
  <2>4. QED BY <2>1, <2>2, <2>3 DEF UpTo, Pending, GenesisPending
<1>2. CASE entries[s] # None
  BY <1>2, UnderFacts DEF Accounted
<1>3. QED BY <1>1, <1>2

-----------------------------------------------------------------------------
(* Deletes *)

\* All that is left of a resource, here and on its way to the hub, is deletes.
Sealed(t) ==
  /\ doc[t].state = "gone" /\ \A w \in unmarked : w.subject # t
  /\ \A e \in Entry : Holds(t, e) => e.envelope = "destroy"
  /\ \A d \in Drains : drains[d].subject = t => drains[d].step = "destroy"
  /\ \A r \in requests : r.subject = t => r.kind # "genesis"

NoneLive(t) == \A c \in Under(t) : hub[c].state # "live"

\* A delete that is recorded is all that is left, or was overtaken.
SealedOK ==
  \A t \in Subjects, e \in Entry : Holds(t, e) /\ e.envelope = "destroy" =>
    Sealed(t) \/ Under(t) \subseteq raced

\* A delete that was acknowledged took everything below, and none is given up.
DestroyOK(x) ==
  x.step = "destroy" =>
    /\ x.answer = "terminal" => Under(x.subject) \subseteq crossed
    /\ x.answer = "ok" => \/ NoneLive(x.subject)
                          \/ Under(x.subject) \subseteq raced
                          \/ Under(x.subject) \subseteq crossed

\* What is gone here went with a delete that is to be marked, queued or done.
TakenBy(t) ==
  \/ \E w \in unmarked : w.subject = t /\ w.kind = "destroy"
  \/ Sealed(t) /\ (entries[t] # None \/ NoneLive(t))

Taken(s) == \E t \in Subjects : s \in Under(t) /\ TakenBy(t)

Deletes ==
  /\ SealedOK
  /\ \A s \in Subjects : doc[s].state = "gone" => s \in Excused \/ Taken(s)
  /\ \A d \in Drains : DestroyOK(drains[d])

LEMMA SealedStays ==
  ASSUME TInv, [Next]_vars, NEW t \in Subjects, Sealed(t)
  PROVE  Sealed(t)'
<1>1. doc'[t].state = "gone"
  BY DocTo DEF Sealed
<1>2. \A w \in unmarked' : w.subject # t
  BY UnmarkedFrom DEF Sealed, Create, Edit, Destroy
<1>3. ASSUME NEW e \in Entry, Holds(t, e)' PROVE e.envelope = "destroy"
  <2>1. ASSUME NEW d \in Drains, drains[d].subject = t, AckedAs(e, d) PROVE FALSE
    BY <2>1 DEF AckedAs, GenesisAcked, Settle, Sealed
  <2>2. PICK f \in Entry : Holds(t, f) /\ Like(e, f)
    BY <1>3, <2>1, CopyFrom DEF Sealed
  <2>3. QED BY <2>2 DEF Sealed, Like
<1>4. ASSUME NEW d \in Drains, drains'[d].subject = t
      PROVE  drains'[d].step = "destroy"
  <2>1. PICK x : x = drains[d]
    OBVIOUS
  <2>2. PICK y : y = drains'[d]
    OBVIOUS
  <2>3. y.step \in Busy
    <3>1. DrainOK(drains[d])'
      BY StepTyped DEF TInv, DrainsOK
    <3>2. y.step \notin Busy => y.subject = None
      BY <2>2, <3>1 DEF DrainOK
    <3>3. QED BY <1>4, <2>2, <3>2, NoneNot
  <2>4. x.subject = t => x.step = "destroy"
    BY <2>1 DEF Sealed
  <2>5. ASSUME NEW c \in x.todo, y.entry \in Entry, y.entry = c.entry,
               Holds(y.subject, y.entry),
               y.step = IF c.entry.envelope = "none" THEN "snapshot"
                        ELSE c.entry.envelope
        PROVE  y.step = "destroy"
    BY <1>4, <2>2, <2>5 DEF Sealed
  <2>6. ReadSnapshot(d) \/ Export(d) \/ GenesisAcked(d) \/ DeltaAcked(d)
        => x.step # "destroy"
    BY <2>1 DEF ReadSnapshot, Export, GenesisAcked, DeltaAcked
  <2>7. SameWork(y, x) => y.step = "destroy"
    BY <1>4, <2>2, <2>4 DEF SameWork
  <2>8. \/ y = x \/ SameWork(y, x)
        \/ /\ ReadSnapshot(d) \/ Export(d) \/ GenesisAcked(d) \/ DeltaAcked(d)
           /\ y.subject = x.subject
        \/ y.step = "destroy"
    BY <2>1, <2>2, <2>3, <2>5, DrainTo
  <2>9. QED BY <1>4, <2>2, <2>4, <2>6, <2>7, <2>8
<1>5. ASSUME NEW r \in requests', r.subject = t PROVE r.kind # "genesis"
  <2>1. (\E q \in requests : SameFrame(r, q)) \/ NewFrame(r)
    BY StepTyped DEF FramesFrom
  <2>2. QED BY <1>5, <2>1 DEF SameFrame, NewFrame, Sealed
<1>6. QED BY <1>1, <1>2, <1>3, <1>4, <1>5 DEF Sealed

\* Nothing comes back below a resource that is gone, once the hub holds none of
\* it: a create finds its parent gone.
LEMMA StaysGone ==
  ASSUME TInv, [Next]_vars, NEW t \in Subjects, Sealed(t), NoneLive(t)
  PROVE  NoneLive(t)'
<1>1. ASSUME NEW c \in Under(t), hub'[c].state = "live" PROVE FALSE
  <2>1. c \in Subjects /\ hub[c].state # "live" /\ hub'[c] # hub[c]
    BY <1>1, UnderFacts DEF NoneLive
  <2>2. PICK r \in requests :
          BecomesOf(hub'[c], hub[c], c, r) /\ Verdict(r) = "ok"
    BY <2>1, HubTo
  <2>3. r.kind = "genesis" /\ r.subject = c /\ c # t
    BY <1>1, <2>1, <2>2 DEF BecomesOf, Sealed
  <2>4. Parent[c] \in Under(t) /\ Parent[c] # None
    BY <2>3, UnderHasParent, UnderFacts, NoneNot
  <2>5. Verdict(r) = "blocking"
    BY <2>1, <2>3, <2>4 DEF Verdict, NoneLive
  <2>6. QED BY <2>2, <2>5
<1>2. QED BY <1>1 DEF NoneLive, Under

\* A delete marked where nothing else of the resource is about seals it.
LEMMA MarkSeals ==
  ASSUME TInv, NEW w \in unmarked, MarkDirty(w), w.kind = "destroy",
         NEW t, t = w.subject
  PROVE  Sealed(t)' \/ Under(t) \subseteq raced'
<1>1. PICK f \in Entry, e \in found[t] :
        /\ t \in Subjects /\ entries' = [entries EXCEPT ![t] = f]
        /\ found' = [found EXCEPT ![t] = {}]
        /\ raced' = raced \cup Unseen(t, f) \cup Undone(w)
        /\ MarkedAs(f, e, w)
  BY MarkEffect
<1>2. entries'[t] = f /\ found'[t] = {} /\ f.envelope = "destroy"
  BY <1>1 DEF TInv, TypeOK, MarkedAs
<1>3. CASE \/ \E d \in Drains : Holder(d, t)
           \/ \E r \in requests : r.subject = t /\ r.kind = "genesis"
  <2>1. Undone(w) = Under(t)
    BY <1>3 DEF Undone
  <2>2. QED BY <1>1, <2>1
<1>4. CASE /\ \A d \in Drains : ~Holder(d, t)
           /\ \A r \in requests : r.subject = t => r.kind # "genesis"
  <2>1. UNCHANGED <<doc, drains, requests>> /\ unmarked' = unmarked \ {w}
    BY DEF MarkDirty
  <2>2. doc[t].state = "gone" /\ w.from = doc[t].version
    BY DEF TInv, UnmarkedOK, WriteOK
  <2>3. ASSUME NEW v \in unmarked', v.subject = t PROVE FALSE
    <3>1. v \in unmarked /\ v # w /\ w.from <= v.from
      BY <2>1, <2>3 DEF MarkDirty, InOrder
    <3>2. v.from # w.from
      BY <2>3, <3>1 DEF TInv, UnmarkedOK, WriteOK
    <3>3. v.from <= doc[t].version
      <4>1. v.from \in Nat /\ doc[t].version \in Nat
        BY <1>1, <3>1, WritesIn, VersionsIn
      <4>2. \/ v.kind # "destroy" /\ v.from < doc[t].version
            \/ v.from = doc[t].version
        BY <2>3, <3>1 DEF TInv, UnmarkedOK, WriteOK
      <4>3. QED BY <4>1, <4>2
    <3>4. QED BY <1>1, <2>2, <3>1, <3>2, <3>3, WritesIn, VersionsIn
  <2>4. ASSUME NEW g \in Entry, Holds(t, g)' PROVE g.envelope = "destroy"
    <3>1. ~(\E d \in Drains : Captured(drains[d], t, g))
      BY <1>4 DEF Holder, Captured
    <3>2. entries'[t] = g
      BY <1>2, <2>1, <2>4, <3>1 DEF Holds, Captured
    <3>3. QED BY <1>2, <3>2
  <2>5. \A d \in Drains : drains[d].subject # t
    BY <1>4 DEF Holder
  <2>6. QED BY <1>4, <2>1, <2>2, <2>3, <2>4, <2>5 DEF Sealed
<1>5. QED BY <1>3, <1>4

LEMMA StepSealed == ASSUME TInv, [Next]_vars, SealedOK PROVE SealedOK'
<1>1. ASSUME NEW t \in Subjects, NEW e \in Entry, Holds(t, e)', e.envelope = "destroy"
      PROVE  Sealed(t)' \/ Under(t) \subseteq raced'
  <2>1. ASSUME NEW f \in Entry, Holds(t, f), Like(e, f)
        PROVE  Sealed(t)' \/ Under(t) \subseteq raced'
    <3>1. Sealed(t) \/ Under(t) \subseteq raced
      BY <1>1, <2>1 DEF SealedOK, Like
    <3>2. QED BY <3>1, SealedStays, HistoryGrows
  <2>2. ASSUME NEW w \in unmarked, MarkDirty(w), w.subject = t,
               NEW g \in found[t], MarkedAs(e, g, w)
        PROVE  Sealed(t)' \/ Under(t) \subseteq raced'
    <3>1. CASE w.kind = "destroy"
      BY <2>2, <3>1, MarkSeals
    <3>2. CASE w.kind # "destroy"
      <4>1. g \in Entry /\ g.envelope = "destroy" /\ Holds(t, g)
        BY <1>1, <2>2, <3>2, FoundIn DEF MarkedAs
      <4>2. QED BY <2>2, <4>1 DEF TInv, EntriesOK, EntryOK
    <3>3. QED BY <3>1, <3>2
  <2>3. QED BY <1>1, <2>1, <2>2, CopyFrom DEF AckedAs
<1>2. QED BY <1>1 DEF SealedOK, Under

LEMMA StepDestroy ==
  ASSUME TInv, [Next]_vars, Deletes, NEW o \in Drains
  PROVE  DestroyOK(drains[o])'
<1>1. PICK x : x = drains[o]
  OBVIOUS
<1>2. PICK y : y = drains'[o]
  OBVIOUS
<1>3. PICK s : s = y.subject
  OBVIOUS
<1>4. SUFFICES
        ASSUME y.step = "destroy"
        PROVE  /\ y.answer = "terminal" => Under(s) \subseteq crossed'
               /\ y.answer = "ok" => \/ NoneLive(s)'
                                     \/ Under(s) \subseteq raced'
                                     \/ Under(s) \subseteq crossed'
  BY <1>2, <1>3 DEF DestroyOK, NoneLive, Under
<1>5. CASE y = x
  <2>1. /\ s \in Subjects /\ x.entry \in Entry /\ Holds(s, x.entry)
        /\ x.entry.envelope = "destroy"
    BY <1>1, <1>3, <1>4, <1>5, WorkHolds DEF AtWork
  <2>2. Sealed(s) \/ Under(s) \subseteq raced
    BY <2>1 DEF Deletes, SealedOK
  <2>3. Sealed(s) /\ NoneLive(s) => NoneLive(s)'
    BY <2>1, StaysGone
  <2>4. DestroyOK(x)
    BY <1>1 DEF Deletes
  <2>5. QED BY <1>3, <1>4, <1>5, <2>2, <2>3, <2>4, HistoryGrows DEF DestroyOK
<1>6. ASSUME NEW r \in requests, HubAnswers(r, y.answer), SameWork(y, x),
             x.step \in AtWork, Frame(x) = r \/ Under(x.subject) \subseteq crossed'
      PROVE  /\ y.answer = "terminal" => Under(s) \subseteq crossed'
             /\ y.answer = "ok" => NoneLive(s)' \/ Under(s) \subseteq crossed'
  <2>1. x.step = "destroy" /\ x.subject = s
    BY <1>3, <1>4, <1>6 DEF SameWork
  <2>2. CASE Frame(x) = r
    <3>1. r.kind = "destroy" /\ r.subject = s
      BY <2>1, <2>2 DEF Frame
    <3>2. y.answer # "terminal"
      BY <1>6, <3>1 DEF HubAnswers, Refusals, Verdict
    <3>3. y.answer = "ok" => NoneLive(s)'
      <4>1. ASSUME y.answer = "ok" PROVE \A c \in Under(s) : hub'[c].state # "live"
        BY <1>6, <3>1, <4>1, DestroyApplied
      <4>2. QED BY <4>1 DEF NoneLive, Under
    <3>4. QED BY <3>2, <3>3
  <2>3. CASE Under(x.subject) \subseteq crossed'
    BY <2>1, <2>3
  <2>4. QED BY <1>6, <2>2, <2>3
<1>7. CASE y.answer \in {"none", "transient"}
  BY <1>7
<1>8. \/ y = x \/ y.answer \in {"none", "transient"}
      \/ \E r \in requests :
           /\ HubAnswers(r, y.answer) /\ SameWork(y, x) /\ x.step \in AtWork
           /\ Frame(x) = r \/ Under(x.subject) \subseteq crossed'
  <2>1. y.step \in Busy
    BY <1>4 DEF Busy, AtWork
  <2>2. QED BY <1>1, <1>2, <1>4, <2>1, DrainTo
<1>9. QED BY <1>5, <1>6, <1>7, <1>8

\* A delete that is queued is queued until the hub has taken it.
LEMMA SealedIsTaken ==
  ASSUME TInv, [Next]_vars, Deletes, NEW t \in Subjects,
         Sealed(t), entries[t] # None
  PROVE  TakenBy(t)' \/ Under(t) \subseteq raced' \cup crossed'
<1>1. Sealed(t)'
  BY SealedStays
<1>2. CASE entries'[t] # None
  BY <1>1, <1>2 DEF TakenBy
<1>3. CASE entries'[t] = None
  <2>1. PICK d \in Drains : drains[d].subject = t /\ Clears(d)
    <3>1. entries'[t] # entries[t] /\ entries'[t] \notin Entry
      BY <1>3, NoneNot
    <3>2. QED BY <3>1, EntryTo
  <2>2. drains[d].step = "destroy" /\ DestroyOK(drains[d])
    BY <2>1 DEF Sealed, Deletes
  <2>3. \/ DestroyAcked(d) /\ drains[d].answer = "ok"
        \/ Dropped(d) /\ drains[d].answer = "terminal"
    BY <2>1, <2>2 DEF Clears, ReadSnapshot, Export, Settle, DestroyAcked, Dropped
  <2>4. CASE Under(t) \subseteq raced \cup crossed
    BY <2>4, HistoryGrows
  <2>5. CASE NoneLive(t)
    <3>1. NoneLive(t)'
      BY <2>5, StaysGone
    <3>2. QED BY <1>1, <3>1 DEF TakenBy
  <2>6. QED BY <2>1, <2>2, <2>3, <2>4, <2>5 DEF DestroyOK
<1>4. QED BY <1>2, <1>3

\* So it stays accounted for, or is excused.
LEMMA TakenStays ==
  ASSUME TInv, [Next]_vars, Deletes, SealedOK', NEW t \in Subjects, TakenBy(t)
  PROVE  TakenBy(t)' \/ Under(t) \subseteq Excused'
<1>1. ASSUME NEW w \in unmarked, w.subject = t, w.kind = "destroy"
      PROVE  TakenBy(t)' \/ Under(t) \subseteq Excused'
  <2>1. CASE w \in unmarked'
    BY <1>1, <2>1 DEF TakenBy
  <2>2. CASE Crash
    BY <1>1, <2>2, KilledIsForsaken DEF Excused
  <2>3. CASE MarkDirty(w)
    <3>1. PICK f \in Entry :
            entries' = [entries EXCEPT ![t] = f] /\ f.envelope = "destroy"
      BY <1>1, <2>3, MarkEffect DEF MarkedAs
    <3>2. entries'[t] = f /\ f # None
      BY <3>1, NoneNot DEF TInv, TypeOK
    <3>3. Sealed(t)' \/ Under(t) \subseteq raced'
      BY <1>1, <2>3, MarkSeals
    <3>4. QED BY <3>2, <3>3 DEF TakenBy, Excused
  <2>4. QED BY <1>1, <2>1, <2>2, <2>3, UnmarkedTo
<1>2. CASE Sealed(t) /\ NoneLive(t)
  <2>1. Sealed(t)' /\ NoneLive(t)'
    BY <1>2, SealedStays, StaysGone
  <2>2. QED BY <2>1 DEF TakenBy
<1>3. CASE Sealed(t) /\ entries[t] # None
  BY <1>3, SealedIsTaken DEF Excused
<1>4. QED BY <1>1, <1>2, <1>3 DEF TakenBy

LEMMA StepDeletes == TInv /\ Deletes /\ [Next]_vars => Deletes'
<1> SUFFICES ASSUME TInv, Deletes, [Next]_vars PROVE Deletes'
  OBVIOUS
<1>1. SealedOK'
  BY StepSealed DEF Deletes
<1>2. ASSUME NEW s \in Subjects, doc'[s].state = "gone"
      PROVE  s \in Excused' \/ \E t \in Subjects : s \in Under(t) /\ TakenBy(t)'
  <2>1. CASE doc[s].state = "gone" /\ s \in Excused
    BY <2>1, HistoryGrows
  <2>2. CASE doc[s].state = "gone" /\ s \notin Excused
    <3>1. PICK t \in Subjects : s \in Under(t) /\ TakenBy(t)
      BY <2>2 DEF Deletes, Taken
    <3>2. TakenBy(t)' \/ Under(t) \subseteq Excused'
      BY <1>1, <3>1, TakenStays
    <3>3. QED BY <3>1, <3>2
  <2>3. CASE doc[s].state # "gone"
    <3>1. PICK t \in Subjects : Destroy(t) /\ s \in Under(t)
      BY <1>2, <2>3, DocTo
    <3>2. PICK w : w = [subject |-> t, kind |-> "destroy", from |-> doc[t].version]
      OBVIOUS
    <3>3. w \in unmarked' /\ w.subject = t /\ w.kind = "destroy"
      BY <3>1, <3>2 DEF Destroy
    <3>4. TakenBy(t)'
      BY <3>3 DEF TakenBy
    <3>5. QED BY <3>1, <3>4
  <2>4. QED BY <2>1, <2>2, <2>3
<1>3. \A o \in Drains : DestroyOK(drains[o])'
  BY StepDestroy
<1>4. QED BY <1>1, <1>2, <1>3 DEF Deletes, Taken, Under

LEMMA InitDeletes == Init => Deletes
<1> SUFFICES ASSUME Init PROVE Deletes
  OBVIOUS
<1>1. \A s \in Subjects : doc[s].state # "gone"
  BY DEF Init
<1>2. \A d \in Drains : DestroyOK(drains[d])
  BY IdleFields DEF Init, DestroyOK
<1>3. SealedOK
  BY InitHolds DEF SealedOK
<1>4. QED BY <1>1, <1>2, <1>3 DEF Deletes

LEMMA DeletesInvariance == Spec => []Deletes
BY InitDeletes, StepDeletes, TypeInvariance, PTL DEF Spec

\* A local write that the hub lacks stays in the outbox, whatever drains
\* overlap, across restarts, late frames and lost answers: what drain_subject
\* and record_refusal clear is held by the hub, refused for good, or was marked
\* or answered in one of the named windows.
THEOREM NothingIsForgotten == Spec => []NothingForgotten
<1>1. ASSUME TInv, Announced, Queue, Deletes PROVE NothingForgotten
  <2>1. ASSUME NEW s \in Subjects, Ahead(s), s \notin Excused, doc[s].state = "live"
        PROVE  Accounted(s)
    BY <1>1, <2>1, LiveIsAccounted DEF Live
  <2>2. ASSUME NEW s \in Subjects, Ahead(s), s \notin Excused, doc[s].state = "gone"
        PROVE  Accounted(s)
    <3>1. hub[s].state = "live"
      BY <2>2 DEF Ahead
    <3>2. PICK t \in Subjects : s \in Under(t) /\ TakenBy(t)
      BY <1>1, <2>2 DEF Deletes, Taken
    <3>3. entries[t] # None \/ \E w \in unmarked : w.subject = t
      BY <3>1, <3>2 DEF TakenBy, NoneLive
    <3>4. QED BY <3>2, <3>3 DEF Accounted
  <2>3. QED BY <2>1, <2>2 DEF NothingForgotten, Ahead
<1>2. TInv /\ Announced /\ Queue /\ Deletes => NothingForgotten
  BY <1>1
<1>3. QED
  BY <1>2, TypeInvariance, AnnouncedInvariance, QueueInvariance, DeletesInvariance,
     PTL
=============================================================================
