------------------------ MODULE OutboxDeliveryProofs ------------------------
(***************************************************************************)
(* For every set of subjects, tiers, outcomes and bounds: the queue        *)
(* forgets no edit and no delete, save() and destroy() claim no more than  *)
(* the server was given, the save cursor does not pass the server, a       *)
(* caller that awaited a pass had its write looked at, and what may be     *)
(* sent has something that will send it.                                   *)
(***************************************************************************)
EXTENDS OutboxDrainProofs

USE DEF history

-----------------------------------------------------------------------------
(* What the queue says of a resource, beside what the server holds of it.  *)

\* For entry e and resource r of subject s, the server's copy v, the subjects
\* a write of which was refused for good, and those whose create was applied
\* while the client heard of a failure.
SubjectOK(s, e, r, v, given, lost) ==
  /\ r.state = "none" => e = None
  /\ e # None => (e.destroy <=> r.state = "deleted")
  /\ v.state = "gone" => r.state = "deleted"
  /\ v.state = "none" => r.saved = 0
  /\ v.state = "live" => r.saved <= v.version
  /\ r.dirty => r.edits > 0
  /\ v.state # "none" => r.state # "none"
  /\ v.state # "none" /\ e # None /\ e.genesis => s \in lost
  /\ v.state = "none" /\ r.state = "live" /\ s \notin given => e # None /\ e.genesis
  /\ v.state = "none" /\ r.state = "live" /\ e # None /\ ~e.genesis =>
       r.edits > 0
  /\ e = None /\ ~r.dirty /\ r.state = "live" /\ s \notin given =>
       v.state = "live" /\ v.version >= r.edits
  /\ e = None /\ r.state = "deleted" /\ s \notin given /\ s \notin lost =>
       v.state # "live"

\* An attempt at a request that its entry still calls for.
Fits(a, e) ==
  /\ a.step = "genesis" <=> e.genesis
  /\ a.step = "destroy" => e.destroy

\* A call that waits, and what it may conclude once its entry has left.
CallOK(c, e, r, v) ==
  /\ c.version <= r.edits
  /\ r.state # "none"
  /\ c.held => e # None
  /\ c.kind = "destroy" => r.state = "deleted"
  /\ c.kind = "save" /\ r.state = "live" =>
       /\ c.held /\ v.state = "none" /\ ~e.genesis => c.version > 0
       /\ ~c.held /\ c.failed = "none" =>
            v.state = "live" /\ v.version >= c.version

SubjectsOK ==
  \A s \in Subjects :
    SubjectOK(s, entries[s], resource[s], server[s], forsaken, unanswered)

AttemptsFit == \A a \in attempts : Fits(a, entries[a.subject])

CallsOK ==
  \A c \in calls :
    CallOK(c, entries[c.subject], resource[c.subject], server[c.subject])

Delivery == SubjectsOK /\ AttemptsFit /\ CallsOK

-----------------------------------------------------------------------------
(* What an entry asks for survives retries, backoff and further edits. *)

\* Entry f asks for the same genesis and destroy as entry e.
SameFlags(e, f) ==
  /\ e = None <=> f = None
  /\ e # None => f.genesis = e.genesis /\ f.destroy = e.destroy

LEMMA RearmedFlags ==
  ASSUME NEW e \in Entry
  PROVE  /\ SameFlags(e, Rearmed(e))
         /\ SameFlags(e, [Rearmed(e) EXCEPT !.rearmed = TRUE])
         /\ SameFlags(e, [Rearmed(e) EXCEPT !.rearmed = FALSE])
<1>1. PICK f \in Entry : f = Rearmed(e)
  BY RearmedType
<1>2. f.genesis = e.genesis /\ f.destroy = e.destroy
  BY <1>1 DEF Rearmed, Entry
<1>3. ASSUME NEW b \in BOOLEAN PROVE SameFlags(e, [f EXCEPT !.rearmed = b])
  <2>1. PICK g \in Entry : g = [f EXCEPT !.rearmed = b]
    BY DEF Entry
  <2>2. g.genesis = f.genesis /\ g.destroy = f.destroy
    BY <2>1 DEF Entry
  <2>3. QED BY <1>2, <2>1, <2>2, EntryNotNone DEF SameFlags
<1>4. SameFlags(e, f)
  BY <1>2, EntryNotNone DEF SameFlags
<1>5. QED BY <1>1, <1>3, <1>4

LEMMA MarkDirtyFlags ==
  ASSUME NEW e \in Entry PROVE SameFlags(e, MarkDirty(e))
<1>1. e # None
  BY EntryNotNone
<1>2. CASE e.blocked
  BY <1>1, <1>2, RearmedFlags DEF MarkDirty
<1>3. CASE ~e.blocked
  BY <1>1, <1>3 DEF MarkDirty, SameFlags
<1>4. QED BY <1>2, <1>3

LEMMA SucceededFlags ==
  ASSUME NEW e \in Entry \cup {None} PROVE SameFlags(e, Succeeded(e))
<1>1. CASE e = None
  BY <1>1 DEF Succeeded, SameFlags
<1>2. CASE e # None
  <2>1. e \in Entry
    BY <1>2
  <2>2. PICK f \in Entry : f = Succeeded(e)
    BY <1>2, <2>1, NoFailures DEF Succeeded, Entry, Failures
  <2>3. f.genesis = e.genesis /\ f.destroy = e.destroy
    BY <1>2, <2>1, <2>2 DEF Succeeded, Entry
  <2>4. QED BY <1>2, <2>2, <2>3, EntryNotNone DEF SameFlags
<1>3. QED BY <1>1, <1>2

LEMMA FailedFlags ==
  ASSUME NEW e \in Entry, NEW failure \in Failures
  PROVE  SameFlags(e, Failed(e, failure))
<1>1. PICK f \in Entry : f = Failed(e, failure)
  BY FailedType
<1>2. f.genesis = e.genesis /\ f.destroy = e.destroy
  BY <1>1 DEF Failed, Entry
<1>3. QED BY <1>1, <1>2, EntryNotNone DEF SameFlags

LEMMA DestroyFlags ==
  ASSUME NEW e \in Entry \cup {None}
  PROVE  LET f == SetDestroyCommit(e) IN
         /\ f # None /\ f.destroy
         /\ f.genesis <=> (e # None /\ e.genesis)
<1> DEFINE kept == IF e = None THEN NewEntry
                   ELSE IF e.blocked THEN Rearmed(e) ELSE e
<1>1. kept \in Entry
  BY NewEntryType, RearmedType
<1>2. kept.genesis <=> (e # None /\ e.genesis)
  BY RearmedFlags DEF NewEntry, SameFlags, Entry
<1> HIDE DEF kept
<1>3. PICK f \in Entry : f = [kept EXCEPT !.destroy = TRUE]
  BY <1>1 DEF Entry
<1>4. f.destroy /\ f.genesis = kept.genesis
  BY <1>1, <1>3 DEF Entry
<1>5. f = SetDestroyCommit(e)
  BY <1>3 DEF SetDestroyCommit, kept
<1>6. QED BY <1>2, <1>3, <1>4, <1>5, EntryNotNone

LEMMA SameFlagsSubject ==
  ASSUME NEW s, NEW e, NEW f, SameFlags(e, f), NEW r, NEW v, NEW given, NEW lost,
         SubjectOK(s, e, r, v, given, lost)
  PROVE  SubjectOK(s, f, r, v, given, lost)
  BY DEF SubjectOK, SameFlags

LEMMA SameFlagsFits ==
  ASSUME NEW e, NEW f, SameFlags(e, f), e # None, NEW a, Fits(a, e)
  PROVE  Fits(a, f)
  BY DEF Fits, SameFlags

LEMMA SameFlagsCall ==
  ASSUME NEW e, NEW f, SameFlags(e, f), NEW r, NEW v, NEW c,
         CallOK(c, e, r, v)
  PROVE  CallOK(c, f, r, v)
  BY DEF CallOK, SameFlags

-----------------------------------------------------------------------------
(* What the server does with a request, and with one whose answer is lost. *)

\* A genesis creates, a delta merges, a destroy removes, and nothing else.
LEMMA AppliedCases ==
  ASSUME TypeOK, NEW a \in attempts, NEW s, s = a.subject,
         NEW v, v = server[s], NEW w, w = Applied(a)[s]
  PROVE  /\ \A t \in Subjects \ {s} : Applied(a)[t] = server[t]
         /\ w \in ServerCopy /\ w.version \in Nat
         /\ \/ /\ a.step = "genesis" /\ v.state = "none"
               /\ w.state = "live" /\ w.version = 0
            \/ /\ a.step = "delta" /\ v.state = "live" /\ w.state = "live"
               /\ w.version >= a.upto /\ w.version >= v.version
            \/ /\ a.step = "destroy" /\ v.state = "live" /\ w.state = "gone"
            \/ /\ w = v
               /\ ~(a.step = "genesis" /\ v.state = "none")
               /\ ~(a.step = "delta" /\ v.state = "live")
               /\ ~(a.step = "destroy" /\ v.state = "live")
<1> DEFINE new == CASE a.step = "genesis" /\ v.state = "none" ->
                         [state |-> "live", version |-> 0]
                    [] a.step = "delta" /\ v.state = "live" ->
                         [v EXCEPT !.version = IF @ < a.upto THEN a.upto
                                               ELSE @]
                    [] a.step = "destroy" /\ v.state = "live" ->
                         [v EXCEPT !.state = "gone"]
                    [] OTHER -> v
<1>1. s \in Subjects /\ v \in ServerCopy /\ a.upto \in Versions
  BY AttemptParts DEF TypeOK
<1>2. v.version \in Nat /\ a.upto \in Nat
  BY <1>1, BoundsAssumption DEF ServerCopy, Versions
<1> HIDE DEF new
<1>3. Applied(a) = [server EXCEPT ![s] = new]
  BY DEF Applied, new
<1>4. w = new /\ \A t \in Subjects \ {s} : Applied(a)[t] = server[t]
  BY <1>1, <1>3 DEF TypeOK
<1>5. w \in ServerCopy
  BY <1>1, AppliedType
<1>6. w.version \in Nat
  BY <1>5, BoundsAssumption DEF ServerCopy, Versions
<1>7. CASE a.step = "genesis" /\ v.state = "none"
  BY <1>4, <1>5, <1>6, <1>7 DEF new
<1>8. CASE a.step = "delta" /\ v.state = "live"
  <2>1. w = [v EXCEPT !.version = IF @ < a.upto THEN a.upto ELSE @]
    BY <1>4, <1>8 DEF new
  <2>2. w.state = v.state
        /\ w.version = IF v.version < a.upto THEN a.upto ELSE v.version
    BY <1>1, <2>1 DEF ServerCopy
  <2>3. QED BY <1>2, <1>4, <1>5, <1>6, <1>8, <2>2
<1>9. CASE a.step = "destroy" /\ v.state = "live"
  <2>1. w = [v EXCEPT !.state = "gone"]
    BY <1>4, <1>9 DEF new
  <2>2. w.state = "gone"
    BY <1>1, <2>1 DEF ServerCopy
  <2>3. QED BY <1>4, <1>5, <1>6, <1>9, <2>2
<1>10. CASE /\ ~(a.step = "genesis" /\ v.state = "none")
            /\ ~(a.step = "delta" /\ v.state = "live")
            /\ ~(a.step = "destroy" /\ v.state = "live")
  BY <1>4, <1>5, <1>6, <1>10 DEF new
<1>11. QED BY <1>7, <1>8, <1>9, <1>10

\* Types of what belongs to one subject.
LEMMA SubjectParts ==
  ASSUME TypeOK, NEW s \in Subjects
  PROVE  /\ resource[s] \in Resource /\ server[s] \in ServerCopy
         /\ entries[s] \in Entry \cup {None}
         /\ resource[s].edits \in Nat /\ resource[s].saved \in Nat
         /\ server[s].version \in Nat
  BY BoundsAssumption DEF TypeOK, Resource, ServerCopy, Versions

\* The request of an attempt leaves queue, resource and server in agreement.
LEMMA AppliedOK ==
  ASSUME TypeOK, AttemptInv, Delivery, NEW a \in attempts,
         NEW s, s = a.subject, NEW w, w = Applied(a)[s],
         NEW lost, lost = IF a.step = "genesis" THEN unanswered \cup {s}
                          ELSE unanswered
  PROVE  /\ SubjectOK(s, entries[s], resource[s], w, forsaken, lost)
         /\ \A c \in calls : c.subject = s => CallOK(c, entries[s], resource[s], w)
<1>1. s \in Subjects /\ entries[s] # None
  BY AttemptParts DEF AttemptInv, Queued
<1>2. PICK v : v = server[s]
  OBVIOUS
<1>3. SubjectOK(s, entries[s], resource[s], v, forsaken, unanswered)
  BY <1>1, <1>2 DEF Delivery, SubjectsOK
<1>4. Fits(a, entries[s])
  BY DEF Delivery, AttemptsFit
<1>5. resource[s].saved \in Nat /\ v.version \in Nat
  BY <1>1, <1>2, SubjectParts
<1>6. /\ a.step = "genesis" => entries[s].genesis
      /\ a.step = "destroy" => resource[s].state = "deleted"
  BY <1>1, <1>3, <1>4 DEF SubjectOK, Fits
<1>7. /\ w.version \in Nat
      /\ \/ w = v
         \/ /\ v.state = "none" /\ w.state = "live" /\ w.version = 0
            /\ a.step = "genesis"
         \/ v.state = "live" /\ w.state = "live" /\ w.version >= v.version
         \/ /\ v.state = "live" /\ w.state = "gone"
            /\ resource[s].state = "deleted"
  BY <1>2, <1>6, AppliedCases
<1>8. SubjectOK(s, entries[s], resource[s], w, forsaken, lost)
  <2>1. resource[s].state # "none"
    BY <1>1, <1>3 DEF SubjectOK
  <2>2. SubjectOK(s, entries[s], resource[s], v, forsaken, lost)
    BY <1>3 DEF SubjectOK
  <2>3. a.step = "genesis" => s \in lost
    OBVIOUS
  <2>4. QED BY <1>1, <1>5, <1>7, <2>1, <2>2, <2>3 DEF SubjectOK
<1>9. ASSUME NEW c \in calls, c.subject = s
      PROVE  CallOK(c, entries[s], resource[s], w)
  <2>1. CallOK(c, entries[s], resource[s], v)
    BY <1>2, <1>9 DEF Delivery, CallsOK
  <2>2. c.version \in Nat
    BY BoundsAssumption DEF TypeOK, Call, Versions
  <2>3. QED BY <1>5, <1>7, <2>1, <2>2 DEF CallOK
<1>10. QED BY <1>8, <1>9

-----------------------------------------------------------------------------
(* Steps that concern one subject, and steps that concern none. *)

\* Calls that differ in what pass they wait for and whether it tried them.
Alike(c, d) ==
  /\ c.kind = d.kind /\ c.subject = d.subject /\ c.version = d.version
  /\ c.held = d.held /\ c.failed = d.failed

LEMMA AlikeOK ==
  ASSUME NEW c, NEW d, Alike(c, d), NEW e, NEW r, NEW v, CallOK(d, e, r, v)
  PROVE  CallOK(c, e, r, v)
  BY DEF Alike, CallOK

LEMMA OneSubjectStep ==
  ASSUME Inv, Delivery, NEW s \in Subjects,
         \A t \in Subjects \ {s} :
           /\ entries'[t] = entries[t] /\ resource'[t] = resource[t]
           /\ server'[t] = server[t]
           /\ t \in forsaken' <=> t \in forsaken
           /\ t \in unanswered' <=> t \in unanswered,
         SubjectOK(s, entries'[s], resource'[s], server'[s], forsaken', unanswered'),
         \A b \in attempts' : IF b.subject = s THEN Fits(b, entries'[s])
                              ELSE b \in attempts,
         \A c \in calls' :
           IF c.subject = s THEN CallOK(c, entries'[s], resource'[s], server'[s])
           ELSE \E d \in calls : Alike(c, d)
  PROVE  Delivery'
<1>1. SubjectsOK'
  <2>1. SUFFICES ASSUME NEW t \in Subjects
                 PROVE  SubjectOK(t, entries'[t], resource'[t], server'[t],
                                  forsaken', unanswered')
    BY DEF SubjectsOK
  <2>2. CASE t = s
    BY <2>2
  <2>3. CASE t # s
    <3>1. SubjectOK(t, entries[t], resource[t], server[t], forsaken, unanswered)
      BY DEF Delivery, SubjectsOK
    <3>2. QED BY <2>3, <3>1 DEF SubjectOK
  <2>4. QED BY <2>2, <2>3
<1>2. AttemptsFit'
  <2>1. SUFFICES ASSUME NEW b \in attempts'
                 PROVE  Fits(b, entries'[b.subject])
    BY DEF AttemptsFit
  <2>2. CASE b.subject = s
    BY <2>2
  <2>3. CASE b.subject # s
    <3>1. b \in attempts /\ b.subject \in Subjects
      BY <2>3, AttemptParts DEF Inv
    <3>2. QED BY <2>3, <3>1 DEF Delivery, AttemptsFit
  <2>4. QED BY <2>2, <2>3
<1>3. CallsOK'
  <2>1. SUFFICES ASSUME NEW c \in calls'
                 PROVE  CallOK(c, entries'[c.subject], resource'[c.subject],
                               server'[c.subject])
    BY DEF CallsOK
  <2>2. CASE c.subject = s
    BY <2>2
  <2>3. CASE c.subject # s
    <3>1. PICK d \in calls : Alike(c, d)
      BY <2>3
    <3>2. c.subject = d.subject /\ d.subject \in Subjects
      BY <3>1 DEF Alike, Inv, TypeOK, Call
    <3>3. CallOK(d, entries[d.subject], resource[d.subject], server[d.subject])
      BY DEF Delivery, CallsOK
    <3>4. QED BY <2>3, <3>1, <3>2, <3>3, AlikeOK
  <2>4. QED BY <2>2, <2>3
<1>4. QED BY <1>1, <1>2, <1>3 DEF Delivery

\* A step that changes no resource and no copy on the server, and no entry
\* but in when and whether it may be sent.
LEMMA QuietStep ==
  ASSUME Inv, Delivery, UNCHANGED <<resource, server, history>>,
         \A t \in Subjects : SameFlags(entries[t], entries'[t]),
         attempts' \subseteq attempts,
         \A c \in calls' : \E d \in calls : Alike(c, d)
  PROVE  Delivery'
<1>1. SubjectsOK'
  BY SameFlagsSubject DEF Delivery, SubjectsOK
<1>2. AttemptsFit'
  <2>1. SUFFICES ASSUME NEW b \in attempts'
                 PROVE  Fits(b, entries'[b.subject])
    BY DEF AttemptsFit
  <2>2. /\ b \in attempts /\ b.subject \in Subjects
        /\ entries[b.subject] # None /\ Fits(b, entries[b.subject])
    BY AttemptParts DEF Inv, AttemptInv, Queued, Delivery, AttemptsFit
  <2>3. QED BY <2>2, SameFlagsFits
<1>3. CallsOK'
  <2>1. SUFFICES ASSUME NEW c \in calls'
                 PROVE  CallOK(c, entries'[c.subject], resource'[c.subject],
                               server'[c.subject])
    BY DEF CallsOK
  <2>2. PICK d \in calls : Alike(c, d)
    OBVIOUS
  <2>3. c.subject = d.subject /\ d.subject \in Subjects
    BY <2>2 DEF Alike, Inv, TypeOK, Call
  <2>4. CallOK(d, entries[d.subject], resource[d.subject], server[d.subject])
    BY DEF Delivery, CallsOK
  <2>5. CallOK(d, entries'[d.subject], resource[d.subject], server[d.subject])
    BY <2>3, <2>4, SameFlagsCall
  <2>6. QED BY <2>2, <2>3, <2>5, AlikeOK
<1>4. QED BY <1>1, <1>2, <1>3 DEF Delivery

\* A call whose entry stays, or leaves with what it was left with.
Kept(c, e, failure) ==
  IF e = None /\ c.held THEN [c EXCEPT !.held = FALSE, !.failed = failure]
  ELSE c

\* An attempt that ends: its own subject is all it can disturb.
LEMMA EndsStep ==
  ASSUME Inv, Delivery, NEW a \in attempts, NEW e, NEW failure,
         Ends(a, e, failure),
         \A t \in Subjects \ {a.subject} :
           /\ resource'[t] = resource[t] /\ server'[t] = server[t]
           /\ t \in forsaken' <=> t \in forsaken
           /\ t \in unanswered' <=> t \in unanswered,
         SubjectOK(a.subject, e, resource'[a.subject], server'[a.subject],
                   forsaken', unanswered'),
         \A c \in calls : c.subject = a.subject =>
           CallOK(Kept(c, e, failure), e, resource'[a.subject],
                  server'[a.subject])
  PROVE  Delivery'
<1> DEFINE s == a.subject
<1>1. s \in Subjects
  BY AttemptParts DEF Inv
<1>2. entries' = [entries EXCEPT ![s] = e] /\ attempts' = attempts \ {a}
  BY DEF Ends, SetEntry
<1>3. entries'[s] = e /\ \A t \in Subjects \ {s} : entries'[t] = entries[t]
  BY <1>1, <1>2 DEF Inv, TypeOK
<1>4. \A b \in attempts' : b.subject # s /\ b \in attempts
  BY <1>2 DEF Inv, AttemptInv, OneAttemptPerSubject
<1>5. \A c \in calls : Kept(c, e, failure).subject = c.subject
  BY DEF Kept, Inv, TypeOK, Call
<1>6. \A c \in calls' : \E d \in calls :
        c = IF d.subject = s THEN Kept(d, e, failure) ELSE d
  BY DEF Ends, SetEntry, Detached, Kept
<1>7. ASSUME NEW c \in calls'
      PROVE  IF c.subject = s THEN CallOK(c, e, resource'[s], server'[s])
             ELSE \E d \in calls : Alike(c, d)
  <2>1. PICK d \in calls : c = IF d.subject = s THEN Kept(d, e, failure) ELSE d
    BY <1>6
  <2>2. CASE d.subject = s
    BY <1>5, <2>1, <2>2
  <2>3. CASE d.subject # s
    BY <2>1, <2>3 DEF Alike
  <2>4. QED BY <2>2, <2>3
<1> HIDE DEF s
<1>8. \A t \in Subjects \ {s} :
           /\ resource'[t] = resource[t] /\ server'[t] = server[t]
           /\ t \in forsaken' <=> t \in forsaken
           /\ t \in unanswered' <=> t \in unanswered
  BY DEF s
<1>9. SubjectOK(s, e, resource'[s], server'[s], forsaken', unanswered')
  BY DEF s
<1>10. QED BY <1>1, <1>3, <1>4, <1>7, <1>8, <1>9, OneSubjectStep

-----------------------------------------------------------------------------
(* The answers to an attempt. *)

\* What is known of the subject of an attempt.
LEMMA AttemptFacts ==
  ASSUME Inv, Delivery, NEW a \in attempts, NEW s, s = a.subject
  PROVE  /\ s \in Subjects /\ entries[s] \in Entry /\ entries[s] # None
         /\ resource[s] \in Resource
         /\ SubjectOK(s, entries[s], resource[s], server[s], forsaken, unanswered)
         /\ Fits(a, entries[s])
         /\ \A c \in calls : c.subject = s =>
              CallOK(c, entries[s], resource[s], server[s])
  BY AttemptParts, AttemptEntry, EntryNotNone
     DEF Inv, Delivery, SubjectsOK, AttemptsFit, CallsOK

\* The attempt ends and the entry stays, whether the server saw it or not.
LEMMA RetryStep ==
  ASSUME Inv, Delivery, NEW a \in attempts, NEW e,
         SameFlags(entries[a.subject], e),
         entries' = [entries EXCEPT ![a.subject] = e],
         attempts' = attempts \ {a},
         NotApplied \/ AnswerLost(a),
         UNCHANGED <<resource, forsaken, calls>>
  PROVE  Delivery'
<1>1. PICK s \in Subjects : s = a.subject
  BY AttemptParts DEF Inv
<1>2. entries'[s] = e /\ \A t \in Subjects \ {s} : entries'[t] = entries[t]
  BY <1>1 DEF Inv, TypeOK
<1>3. /\ \A t \in Subjects \ {s} :
           server'[t] = server[t] /\ (t \in unanswered' <=> t \in unanswered)
      /\ SubjectOK(s, entries[s], resource[s], server'[s], forsaken,
                   unanswered')
      /\ \A c \in calls : c.subject = s =>
           CallOK(c, entries[s], resource[s], server'[s])
  <2>1. CASE NotApplied
    BY <1>1, <2>1, AttemptFacts DEF NotApplied
  <2>2. CASE AnswerLost(a)
    <3>1. /\ server' = Applied(a)
          /\ unanswered' = IF a.step = "genesis" THEN unanswered \cup {s}
                           ELSE unanswered
      BY <1>1, <2>2 DEF AnswerLost
    <3>2. \A t \in Subjects \ {s} :
            server'[t] = server[t] /\ (t \in unanswered' <=> t \in unanswered)
      BY <1>1, <3>1, AppliedCases DEF Inv
    <3>3. QED BY <1>1, <3>1, <3>2, AppliedOK DEF Inv
  <2>3. QED BY <2>1, <2>2
<1>4. SubjectOK(s, e, resource'[s], server'[s], forsaken', unanswered')
  BY <1>1, <1>3, SameFlagsSubject
<1>5. \A b \in attempts' : b.subject # s /\ b \in attempts
  BY <1>1 DEF Inv, AttemptInv, OneAttemptPerSubject
<1>6. \A c \in calls' : c.subject = s => CallOK(c, e, resource'[s], server'[s])
  BY <1>1, <1>3, SameFlagsCall
<1>7. \A c \in calls' : \E d \in calls : Alike(c, d)
  BY DEF Alike
<1>8. QED BY <1>1, <1>2, <1>3, <1>4, <1>5, <1>6, <1>7, OneSubjectStep

\* The same, for an attempt that ends the way drainOne ends one.
LEMMA EndsAndStays ==
  ASSUME Inv, Delivery, NEW a \in attempts, NEW e, NEW failure,
         Ends(a, e, failure), SameFlags(entries[a.subject], e),
         NotApplied \/ AnswerLost(a),
         UNCHANGED <<resource, forsaken>>
  PROVE  Delivery'
<1>1. e # None
  BY AttemptFacts DEF SameFlags
<1>2. QED BY <1>1, RetryStep DEF Ends, SetEntry

\* The entry leaves the queue: what its callers may conclude from that.
LEMMA DroppedCall ==
  ASSUME NEW c \in Call, NEW e, NEW r \in Resource, NEW v \in ServerCopy,
         CallOK(c, e, r, v), NEW failure,
         r.state = "live" /\ failure = "none" =>
           v.state = "live" /\ v.version >= r.edits
  PROVE  CallOK(Kept(c, None, failure), None, r, v)
<1>1. c.version \in Nat /\ r.edits \in Nat /\ v.version \in Nat
  BY BoundsAssumption DEF Call, Resource, ServerCopy, Versions
<1>2. CASE c.held
  <2>1. PICK d : d = [c EXCEPT !.held = FALSE, !.failed = failure]
    OBVIOUS
  <2>2. /\ ~d.held /\ d.failed = failure /\ d.version = c.version
        /\ d.kind = c.kind
    BY <2>1 DEF Call
  <2>3. Kept(c, None, failure) = d
    BY <1>2, <2>1 DEF Kept
  <2>4. QED BY <1>1, <2>2, <2>3 DEF CallOK
<1>3. CASE ~c.held
  BY <1>3 DEF CallOK, Kept
<1>4. QED BY <1>2, <1>3 DEF Call

\* ClearDirty of an entry without a genesis: it stays for its destroy, or
\* leaves the queue while the resource is live.
LEMMA ClearDirtyFlags ==
  ASSUME NEW e \in Entry, ~e.genesis
  PROVE  /\ e.destroy => SameFlags(e, Succeeded(ClearDirty(e)))
         /\ ~e.destroy => Succeeded(ClearDirty(e)) = None
  BY SucceededFlags DEF ClearDirty, Succeeded

\* Nothing was left to export.
LEMMA NothingToExport ==
  ASSUME Inv, Delivery, NEW a \in attempts, ExportDelta(a),
         resource[a.subject].edits = resource[a.subject].saved
  PROVE  Delivery'
<1>1. PICK s \in Subjects : s = a.subject
  BY AttemptParts DEF Inv
<1>2. PICK e : e = Succeeded(ClearDirty(entries[s]))
  OBVIOUS
<1>3. Ends(a, e, "none") /\ UNCHANGED <<resource, server, history>>
  BY <1>1, <1>2 DEF ExportDelta
<1>4. ~entries[s].genesis /\ entries[s] \in Entry
  BY <1>1, AttemptFacts DEF ExportDelta, Fits
<1>5. CASE entries[s].destroy
  BY <1>1, <1>2, <1>3, <1>4, <1>5, ClearDirtyFlags, EndsAndStays
     DEF NotApplied
<1>6. CASE ~entries[s].destroy
  <2>1. e = None
    BY <1>2, <1>4, <1>6, ClearDirtyFlags
  <2>2. SubjectOK(s, entries[s], resource[s], server[s], forsaken, unanswered)
    BY <1>1, AttemptFacts
  <2>3. resource[s].state = "live"
    BY <1>1, <1>6, <2>2, AttemptFacts DEF SubjectOK, Resource
  <2>4. /\ server[s] \in ServerCopy /\ server[s].version \in Nat
        /\ resource[s].edits \in Nat /\ resource[s].saved \in Nat
    BY SubjectParts DEF Inv
  <2>5. server[s].state = "live" /\ server[s].version >= resource[s].edits
    BY <1>1, <1>4, <2>2, <2>3, <2>4, AttemptFacts DEF SubjectOK, ServerCopy
  <2>6. SubjectOK(s, e, resource[s], server[s], forsaken, unanswered)
    BY <2>1, <2>2, <2>3, <2>5 DEF SubjectOK
  <2>7. \A c \in calls : c.subject = s =>
          CallOK(Kept(c, e, "none"), e, resource[s], server[s])
    BY <1>1, <2>1, <2>4, <2>5, AttemptFacts, DroppedCall DEF Inv, TypeOK
  <2>8. QED BY <1>1, <1>3, <2>6, <2>7, EndsStep
<1>7. QED BY <1>5, <1>6

\* The attempt moves on to its next request.
LEMMA NextRequest ==
  ASSUME Inv, Delivery, NEW a \in attempts, NEW b, b.subject = a.subject,
         attempts' = (attempts \ {a}) \cup {b},
         Fits(b, entries[a.subject]),
         UNCHANGED <<entries, resource, server, history, calls>>
  PROVE  Delivery'
<1>1. SubjectsOK' /\ CallsOK'
  BY DEF Delivery, SubjectsOK, CallsOK
<1>2. AttemptsFit'
  BY DEF Delivery, AttemptsFit
<1>3. QED BY <1>1, <1>2 DEF Delivery

LEMMA ExportStep ==
  ASSUME Inv, Delivery, NEW a \in attempts, ExportDelta(a)
  PROVE  Delivery'
<1>1. CASE resource[a.subject].edits = resource[a.subject].saved
  BY <1>1, NothingToExport
<1>2. CASE resource[a.subject].edits # resource[a.subject].saved
  <2>1. PICK b : b = [a EXCEPT !.step = "delta",
                               !.upto = resource[a.subject].edits]
    OBVIOUS
  <2>2. b.subject = a.subject /\ b.step = "delta"
    BY <2>1 DEF Inv, TypeOK, Attempt
  <2>3. Fits(b, entries[a.subject])
    BY <2>2, AttemptFacts DEF ExportDelta, Fits
  <2>4. QED BY <1>2, <2>1, <2>2, <2>3, NextRequest DEF ExportDelta
<1>3. QED BY <1>1, <1>2

LEMMA ReloadStep ==
  ASSUME Inv, Delivery, NEW a \in attempts, ReloadDeleted(a)
  PROVE  Delivery'
<1>1. PICK s \in Subjects : s = a.subject
  BY AttemptParts DEF Inv
<1>2. PICK e \in {Succeeded(ClearDirty(entries[s])), Failed(entries[s], "error")} :
        Ends(a, e, "none")
  BY <1>1 DEF ReloadDeleted
<1>3. entries[s].destroy /\ ~entries[s].genesis /\ entries[s] \in Entry
  BY <1>1, AttemptFacts DEF ReloadDeleted, SubjectOK, Fits
<1>4. SameFlags(entries[s], e)
  BY <1>2, <1>3, ClearDirtyFlags, FailedFlags DEF Failures
<1>5. QED BY <1>1, <1>2, <1>4, EndsAndStays DEF ReloadDeleted, NotApplied

\* A genesis that is acknowledged: the server holds the resource, and the
\* entry stays for what is past the genesis.
LEMMA GenesisStep ==
  ASSUME Inv, Delivery, NEW a \in attempts, GenesisAcked(a)
  PROVE  Delivery'
<1>1. PICK s \in Subjects : s = a.subject
  BY AttemptParts DEF Inv
<1>2. PICK e : e = [entries[s] EXCEPT !.genesis = FALSE]
  OBVIOUS
<1>3. PICK b : b = [a EXCEPT !.step = "reread"]
  OBVIOUS
<1>4. PICK r : r = [resource[s] EXCEPT !.dirty = FALSE]
  OBVIOUS
<1>5. PICK w : w = Applied(a)[s]
  OBVIOUS
<1>6. e \in Entry /\ ~e.genesis /\ e.destroy = entries[s].destroy /\ e # None
  <2>1. entries[s] \in Entry
    BY <1>1, AttemptFacts
  <2>2. e \in Entry
    BY <1>2, <2>1 DEF Entry
  <2>3. QED BY <1>2, <2>1, <2>2, EntryNotNone DEF Entry
<1>7. b.subject = s /\ b.step = "reread"
  BY <1>1, <1>3 DEF Inv, TypeOK, Attempt
<1>8. /\ ~r.dirty /\ r.state = resource[s].state
      /\ r.edits = resource[s].edits /\ r.saved = resource[s].saved
  BY <1>1, <1>4, AttemptFacts DEF Resource
<1>9. w.state # "none"
  BY <1>1, <1>5, AppliedCases DEF GenesisAcked, Inv
<1>10. /\ entries'[s] = e /\ resource'[s] = r /\ server'[s] = w
       /\ \A t \in Subjects \ {s} :
            /\ entries'[t] = entries[t] /\ resource'[t] = resource[t]
            /\ server'[t] = server[t]
       /\ calls' = calls /\ forsaken' = forsaken
       /\ unanswered' = unanswered \ {s}
       /\ attempts' = (attempts \ {a}) \cup {b}
  <2>1. /\ entries' = [entries EXCEPT ![s] = e]
        /\ calls' = calls /\ forsaken' = forsaken
        /\ unanswered' = unanswered \ {s}
        /\ attempts' = (attempts \ {a}) \cup {b}
        /\ resource' = [resource EXCEPT ![s] = r]
        /\ server' = Applied(a)
    BY <1>1, <1>2, <1>3, <1>4, <1>6 DEF GenesisAcked, SetEntry
  <2>2. QED BY <1>1, <1>5, <2>1, AppliedCases DEF Inv, TypeOK
<1>11. /\ SubjectOK(s, entries[s], resource[s], w, forsaken,
                    unanswered \cup {s})
       /\ \A c \in calls : c.subject = s => CallOK(c, entries[s], resource[s], w)
  BY <1>1, <1>5, AppliedOK DEF Inv, GenesisAcked
<1>12. SubjectOK(s, e, r, w, forsaken, unanswered')
  BY <1>1, <1>6, <1>8, <1>9, <1>11, AttemptFacts DEF SubjectOK
<1>13. \A c \in calls : c.subject = s => CallOK(c, e, r, w)
  BY <1>6, <1>8, <1>9, <1>11 DEF CallOK
<1>14. \A d \in attempts' : IF d.subject = s THEN Fits(d, e) ELSE d \in attempts
  <2>1. \A d \in attempts \ {a} : d.subject # s
    BY <1>1 DEF Inv, AttemptInv, OneAttemptPerSubject
  <2>2. Fits(b, e)
    BY <1>6, <1>7 DEF Fits
  <2>3. QED BY <1>7, <1>10, <2>1, <2>2
<1>15. \A c \in calls : Alike(c, c)
  BY DEF Alike
<1>16. QED BY <1>10, <1>12, <1>13, <1>14, <1>15, OneSubjectStep

\* A delta that is acknowledged: the cursor moves to what the server holds,
\* and the entry leaves only when that was every edit.
LEMMA DeltaStep ==
  ASSUME Inv, Delivery, NEW a \in attempts, DeltaAcked(a)
  PROVE  Delivery'
<1>1. PICK s \in Subjects : s = a.subject
  BY AttemptParts DEF Inv
<1>2. PICK e : e = Succeeded(IF CaughtUp(a) THEN ClearDirty(entries[s])
                             ELSE MarkDirty(entries[s]))
  OBVIOUS
<1>3. PICK r : r = [resource[s] EXCEPT !.saved = a.upto,
                      !.dirty = IF CaughtUp(a) THEN FALSE ELSE @]
  OBVIOUS
<1>4. PICK w : w = Applied(a)[s]
  OBVIOUS
<1>5. /\ Ends(a, e, "none") /\ UNCHANGED history
      /\ server' = Applied(a)
      /\ resource' = [resource EXCEPT ![s] = r]
      /\ a.step = "delta" /\ server[s].state = "live"
  BY <1>1, <1>2, <1>3 DEF DeltaAcked, ExportedVersion
<1>6. /\ resource'[s] = r /\ server'[s] = w
      /\ \A t \in Subjects \ {s} :
           resource'[t] = resource[t] /\ server'[t] = server[t]
  BY <1>1, <1>4, <1>5, AppliedCases DEF Inv, TypeOK
<1>7. /\ a.upto \in Nat /\ resource[s] \in Resource
      /\ resource[s].edits \in Nat /\ resource[s].saved \in Nat
  BY <1>1, AttemptParts, SubjectParts, BoundsAssumption DEF Inv, Versions
<1>8. /\ r.saved = a.upto /\ r.state = resource[s].state
      /\ r.edits = resource[s].edits
      /\ r.dirty = IF CaughtUp(a) THEN FALSE ELSE resource[s].dirty
  BY <1>3, <1>7 DEF Resource
<1>9. /\ w \in ServerCopy /\ w.version \in Nat
      /\ w.state = "live" /\ w.version >= a.upto
  BY <1>1, <1>4, <1>5, AppliedCases DEF Inv
<1>10. /\ SubjectOK(s, entries[s], resource[s], w, forsaken, unanswered)
       /\ \A c \in calls : c.subject = s => CallOK(c, entries[s], resource[s], w)
  BY <1>1, <1>4, <1>5, AppliedOK DEF Inv
<1>11. entries[s] \in Entry /\ entries[s] # None /\ ~entries[s].genesis
  BY <1>1, <1>5, AttemptFacts DEF Fits
<1>12. SubjectOK(s, entries[s], r, w, forsaken, unanswered)
  BY <1>7, <1>8, <1>9, <1>10, <1>11 DEF SubjectOK
<1>13. \A c \in calls : c.subject = s => CallOK(c, entries[s], r, w)
  BY <1>8, <1>10 DEF CallOK
<1>14. CASE SameFlags(entries[s], e)
  <2>1. SubjectOK(s, e, r, w, forsaken, unanswered)
    BY <1>12, <1>14, SameFlagsSubject
  <2>2. e # None
    BY <1>11, <1>14 DEF SameFlags
  <2>3. \A c \in calls : c.subject = s => CallOK(Kept(c, e, "none"), e, r, w)
    BY <1>13, <1>14, <2>2, SameFlagsCall DEF Kept
  <2>4. QED BY <1>1, <1>5, <1>6, <2>1, <2>3, EndsStep
<1>15. CASE CaughtUp(a) /\ ~entries[s].destroy
  <2>1. e = None
    BY <1>2, <1>11, <1>15, ClearDirtyFlags
  <2>2. w.version >= r.edits
    BY <1>1, <1>8, <1>9, <1>15 DEF CaughtUp
  <2>3. r \in Resource
    <3>1. a.upto \in Versions
      BY AttemptParts DEF Inv
    <3>2. QED BY <1>3, <1>7, <3>1 DEF Resource
  <2>4. r.state = "live"
    BY <1>11, <1>12, <1>15, <2>3 DEF SubjectOK, Resource
  <2>5. SubjectOK(s, e, r, w, forsaken, unanswered)
    BY <1>9, <1>12, <2>1, <2>2, <2>4 DEF SubjectOK
  <2>6. \A c \in calls : c.subject = s => CallOK(Kept(c, e, "none"), e, r, w)
    BY <1>9, <1>13, <2>1, <2>2, <2>3, DroppedCall DEF Inv, TypeOK
  <2>7. QED BY <1>1, <1>5, <1>6, <2>5, <2>6, EndsStep
<1>16. CASE ~CaughtUp(a) \/ entries[s].destroy
  <2>1. CASE CaughtUp(a)
    BY <1>2, <1>11, <1>14, <1>16, <2>1, ClearDirtyFlags
  <2>2. CASE ~CaughtUp(a)
    <3>1. SameFlags(entries[s], MarkDirty(entries[s]))
          /\ MarkDirty(entries[s]) \in Entry
      BY <1>11, MarkDirtyFlags, MarkDirtyType
    <3>2. SameFlags(MarkDirty(entries[s]), e)
      BY <1>2, <2>2, <3>1, SucceededFlags
    <3>3. SameFlags(entries[s], e)
      BY <3>1, <3>2 DEF SameFlags
    <3>4. QED BY <1>14, <3>3
  <2>3. QED BY <2>1, <2>2
<1>17. QED BY <1>15, <1>16

\* A destroy that is acknowledged: the server holds the resource no longer.
LEMMA DestroyedStep ==
  ASSUME Inv, Delivery, NEW a \in attempts, DestroyAcked(a)
  PROVE  Delivery'
<1>1. PICK s \in Subjects : s = a.subject
  BY AttemptParts DEF Inv
<1>2. PICK w : w = Applied(a)[s]
  OBVIOUS
<1>3. /\ Ends(a, None, "none") /\ resource' = resource
      /\ UNCHANGED history /\ server' = Applied(a) /\ a.step = "destroy"
  BY DEF DestroyAcked
<1>4. /\ server'[s] = w
      /\ \A t \in Subjects \ {s} : server'[t] = server[t]
      /\ w \in ServerCopy /\ w.state # "live"
  BY <1>1, <1>2, <1>3, AppliedCases DEF Inv
<1>5. /\ SubjectOK(s, entries[s], resource[s], w, forsaken, unanswered)
      /\ \A c \in calls : c.subject = s => CallOK(c, entries[s], resource[s], w)
  BY <1>1, <1>2, <1>3, AppliedOK DEF Inv
<1>6. ~entries[s].genesis /\ resource[s].state = "deleted"
  BY <1>1, <1>3, AttemptFacts DEF SubjectOK, Fits
<1>7. SubjectOK(s, None, resource[s], w, forsaken, unanswered)
  BY <1>4, <1>5, <1>6 DEF SubjectOK
<1>8. \A c \in calls : c.subject = s =>
        CallOK(Kept(c, None, "none"), None, resource[s], w)
  BY <1>1, <1>4, <1>5, <1>6, AttemptFacts, DroppedCall DEF Inv, TypeOK
<1>9. QED BY <1>1, <1>3, <1>4, <1>7, <1>8, EndsStep

\* A terminal refusal gives the write up, and tells the callers.
LEMMA TerminalStep ==
  ASSUME Inv, Delivery, NEW a \in attempts, TerminallyRefused(a)
  PROVE  Delivery'
<1>1. PICK s \in Subjects : s = a.subject
  BY AttemptParts DEF Inv
<1>2. /\ Ends(a, None, "refused") /\ resource' = resource
      /\ server' = server /\ forsaken' = forsaken \cup {s}
      /\ unanswered' = unanswered
  BY <1>1 DEF TerminallyRefused
<1>3. SubjectOK(s, None, resource[s], server[s], forsaken', unanswered')
  BY <1>1, <1>2, AttemptFacts DEF SubjectOK
<1>4. \A c \in calls : c.subject = s =>
        CallOK(Kept(c, None, "refused"), None, resource[s], server[s])
  BY <1>1, AttemptFacts, SubjectParts, DroppedCall DEF Inv, TypeOK
<1>5. QED BY <1>1, <1>2, <1>3, <1>4, EndsStep

\* A delta that builds on what the server lacks drops the save cursor.
LEMMA PendingStep ==
  ASSUME Inv, Delivery, NEW a \in attempts, PendingDependencies(a)
  PROVE  Delivery'
<1>1. PICK s \in Subjects : s = a.subject
  BY AttemptParts DEF Inv
<1>2. PICK e : e = Failed(entries[s], "error")
  OBVIOUS
<1>3. PICK r : r = [resource[s] EXCEPT !.saved = 0]
  OBVIOUS
<1>4. /\ Ends(a, e, "none") /\ UNCHANGED <<server, history>>
      /\ resource' = [resource EXCEPT ![s] = r]
  BY <1>1, <1>2, <1>3 DEF PendingDependencies
<1>5. resource'[s] = r /\ \A t \in Subjects \ {s} : resource'[t] = resource[t]
  BY <1>4 DEF Inv, TypeOK
<1>6. SameFlags(entries[s], e) /\ e # None
  BY <1>1, <1>2, AttemptFacts, FailedFlags DEF Failures, SameFlags
<1>7. /\ r.saved = 0 /\ r.state = resource[s].state
      /\ r.edits = resource[s].edits /\ r.dirty = resource[s].dirty
  BY <1>1, <1>3, AttemptFacts DEF Resource
<1>8. server[s].version \in Nat
  BY SubjectParts DEF Inv
<1>9. SubjectOK(s, entries[s], r, server[s], forsaken, unanswered)
  BY <1>1, <1>7, <1>8, AttemptFacts DEF SubjectOK
<1>10. SubjectOK(s, e, r, server[s], forsaken, unanswered)
  BY <1>6, <1>9, SameFlagsSubject
<1>11. \A c \in calls : c.subject = s =>
         CallOK(Kept(c, e, "none"), e, r, server[s])
  <2>1. SUFFICES ASSUME NEW c \in calls, c.subject = s
                 PROVE  CallOK(c, e, r, server[s])
    BY <1>6 DEF Kept
  <2>2. CallOK(c, entries[s], resource[s], server[s])
    BY <1>1, <2>1, AttemptFacts
  <2>3. CallOK(c, entries[s], r, server[s])
    BY <1>7, <2>2 DEF CallOK
  <2>4. QED BY <1>6, <2>3, SameFlagsCall
<1>12. QED BY <1>1, <1>4, <1>5, <1>10, <1>11, EndsStep

\* Every answer, right, lost or wrong.
LEMMA AnsweredDelivery ==
  ASSUME Inv, Delivery, NEW a \in attempts, Answered(a)
  PROVE  Delivery'
<1>1. PICK s \in Subjects : s = a.subject
  BY AttemptParts DEF Inv
<1>2. entries[s] \in Entry
  BY <1>1, AttemptFacts
<1>3. CASE NotReady(a)
  BY <1>1, <1>2, <1>3, SucceededFlags, EndsAndStays
     DEF NotReady, NotApplied
<1>4. CASE Busy(a)
  <2>1. PICK e : e = [entries[s] EXCEPT !.waiting = TRUE]
    OBVIOUS
  <2>2. e \in Entry /\ e.genesis = entries[s].genesis
        /\ e.destroy = entries[s].destroy
    BY <1>2, <2>1 DEF Entry
  <2>3. SameFlags(entries[s], e)
    BY <1>2, <2>2, EntryNotNone DEF SameFlags
  <2>4. QED BY <1>1, <1>4, <2>1, <2>3, EndsAndStays DEF Busy, NotApplied
<1>5. CASE Cancelled(a)
  <2>1. PICK e : e = [entries[s] EXCEPT !.last = "cancelled"]
    OBVIOUS
  <2>2. e \in Entry /\ e.genesis = entries[s].genesis
        /\ e.destroy = entries[s].destroy
    BY <1>2, <2>1 DEF Entry, Failures
  <2>3. SameFlags(entries[s], e)
    BY <1>2, <2>2, EntryNotNone DEF SameFlags
  <2>4. entries' = [entries EXCEPT ![s] = e]
    BY <1>1, <1>5, <2>1 DEF Cancelled
  <2>5. QED BY <1>1, <1>5, <2>3, <2>4, RetryStep DEF Cancelled
<1>6. CASE NetworkFails(a)
  BY <1>1, <1>2, <1>6, FailedFlags, EndsAndStays DEF NetworkFails, Failures
<1>7. ASSUME NEW failure \in {"refused", "parent", "error"},
             Refused(a, failure)
      PROVE  Delivery'
  BY <1>1, <1>2, <1>7, FailedFlags, EndsAndStays
     DEF Refused, Failures, NotApplied
<1>8. QED
  BY <1>3, <1>4, <1>5, <1>6, <1>7, ExportStep, ReloadStep, GenesisStep,
     DeltaStep, DestroyedStep, PendingStep, TerminalStep DEF Answered

-----------------------------------------------------------------------------
(* The passes: what they skip, start and drop. *)

LEMMA TriedAlike ==
  ASSUME NEW s, NEW cs \in SUBSET Call
  PROVE  \A c \in Tried(s, cs) : \E d \in cs : Alike(c, d)
<1>1. \A d \in cs : Alike([d EXCEPT !.tried = TRUE], d) /\ Alike(d, d)
  BY DEF Alike, Call
<1>2. QED BY <1>1 DEF Tried

LEMMA StartStep ==
  ASSUME Inv, Delivery, NEW p \in Passes, NEW s \in Subjects,
         StartAttempt(p, s)
  PROVE  Delivery'
<1>1. entries[s] \in Entry /\ entries[s] # None
  BY DEF StartAttempt, Queued, Inv, TypeOK
<1>2. PICK e : e = [entries[s] EXCEPT !.waiting = entries[s].failures > 0]
  OBVIOUS
<1>3. e \in Entry /\ e.genesis = entries[s].genesis
      /\ e.destroy = entries[s].destroy
  <2>1. (entries[s].failures > 0) \in BOOLEAN
    OBVIOUS
  <2>2. QED BY <1>1, <1>2, <2>1 DEF Entry
<1>4. PICK b : b = [pass |-> p, subject |-> s,
                    step |-> FirstStep(entries[s]), upto |-> 0]
  OBVIOUS
<1>5. /\ entries' = [entries EXCEPT ![s] = e]
      /\ attempts' = attempts \cup {b} /\ calls' = Tried(s, calls)
      /\ UNCHANGED <<resource, server, history>>
      /\ ~(entries[s].genesis /\ entries[s].destroy)
      /\ Running(p) /\ s \in passes[p].todo
  BY <1>2, <1>4 DEF StartAttempt, Running
<1>6. SameFlags(entries[s], e)
  BY <1>1, <1>3, EntryNotNone DEF SameFlags
<1>7. \A t \in Subjects : SameFlags(entries[t], entries'[t])
  <2>1. \A t \in Subjects \ {s} : entries'[t] = entries[t]
    BY <1>5 DEF Inv, TypeOK
  <2>2. entries'[s] = e
    BY <1>5 DEF Inv, TypeOK
  <2>3. QED BY <1>6, <2>1, <2>2 DEF SameFlags
<1>8. \A c \in calls' : \E d \in calls : Alike(c, d)
  BY <1>5, TriedAlike DEF Inv, TypeOK
<1>9. b.subject = s /\ Fits(b, entries'[s])
  <2>1. b.step = FirstStep(entries[s]) /\ b.subject = s
    BY <1>4
  <2>2. Fits(b, entries[s])
    BY <1>5, <2>1 DEF Fits, FirstStep
  <2>3. QED BY <1>1, <1>7, <2>1, <2>2, SameFlagsFits
<1>10. \A c \in attempts : c.subject # s
  BY <1>5, AttemptsOfPass DEF Inv, AttemptInv
<1>11. /\ \A t \in Subjects \ {s} : entries'[t] = entries[t]
       /\ SubjectOK(s, entries'[s], resource'[s], server'[s], forsaken', unanswered')
  <2>1. SubjectOK(s, entries[s], resource[s], server[s], forsaken, unanswered)
    BY DEF Delivery, SubjectsOK
  <2>2. QED BY <1>5, <1>7, <2>1, SameFlagsSubject DEF Inv, TypeOK
<1>12. \A c \in calls' : c.subject = s =>
         CallOK(c, entries'[s], resource'[s], server'[s])
  <2>1. SUFFICES ASSUME NEW c \in calls', c.subject = s
                 PROVE  CallOK(c, entries'[s], resource'[s], server'[s])
    OBVIOUS
  <2>2. PICK d \in calls : Alike(c, d)
    BY <1>8
  <2>3. CallOK(d, entries[s], resource[s], server[s])
    BY <2>1, <2>2 DEF Alike, Delivery, CallsOK
  <2>4. CallOK(c, entries[s], resource[s], server[s])
    BY <2>2, <2>3, AlikeOK
  <2>5. QED BY <1>5, <1>7, <2>4, SameFlagsCall
<1>13. QED BY <1>5, <1>8, <1>9, <1>10, <1>11, <1>12, OneSubjectStep

\* A delete of what the server is taken never to have seen drops the entry: it
\* is right to, unless the answer to the create was lost.
LEMMA MootStep ==
  ASSUME Inv, Delivery, NEW p \in Passes, NEW s \in Subjects,
         DropMootDestroy(p, s)
  PROVE  Delivery'
<1>1. /\ s \in passes[p].todo /\ Running(p)
      /\ entries' = [entries EXCEPT ![s] = None]
      /\ UNCHANGED history /\ attempts' = attempts
      /\ calls' = Tried(s, Detached(s, "none"))
      /\ resource' = resource /\ server' = server
      /\ entries[s] # None /\ entries[s].destroy /\ entries[s].genesis
  BY DEF DropMootDestroy, Running, Queued
<1>2. /\ entries'[s] = None
      /\ \A t \in Subjects \ {s} : entries'[t] = entries[t]
  BY <1>1 DEF Inv, TypeOK
<1>3. SubjectOK(s, entries[s], resource[s], server[s], forsaken, unanswered)
  BY DEF Delivery, SubjectsOK
<1>4. resource[s].state = "deleted"
  BY <1>1, <1>3 DEF SubjectOK
<1>5. SubjectOK(s, None, resource[s], server[s], forsaken', unanswered')
  BY <1>1, <1>3, <1>4 DEF SubjectOK
<1>6. \A b \in attempts' : b.subject # s /\ b \in attempts
  BY <1>1, AttemptsOfPass DEF Inv, AttemptInv
<1>7. \A c \in calls : Kept(c, None, "none").subject = c.subject
  BY DEF Kept, Inv, TypeOK, Call
<1>8. \A c \in Detached(s, "none") : \E d \in calls :
        c = IF d.subject = s THEN Kept(d, None, "none") ELSE d
  BY DEF Detached, Kept
<1>9. \A c \in calls' : \E d \in Detached(s, "none") : Alike(c, d)
  <2>1. Detached(s, "none") \in SUBSET Call
    BY DetachedType DEF Inv, Failures
  <2>2. QED BY <1>1, <2>1, TriedAlike
<1>10. \A c \in calls : c.subject = s =>
         CallOK(Kept(c, None, "none"), None, resource[s], server[s])
  BY <1>4, SubjectParts, DroppedCall DEF Inv, TypeOK, Delivery, CallsOK
<1>11. ASSUME NEW c \in calls'
       PROVE  IF c.subject = s THEN CallOK(c, None, resource[s], server[s])
              ELSE \E d \in calls : Alike(c, d)
  <2>1. PICK d \in Detached(s, "none") : Alike(c, d)
    BY <1>9
  <2>2. PICK k \in calls : d = IF k.subject = s THEN Kept(k, None, "none")
                               ELSE k
    BY <1>8
  <2>3. CASE k.subject = s
    <3>1. CallOK(d, None, resource[s], server[s]) /\ d.subject = s
      BY <1>7, <1>10, <2>2, <2>3
    <3>2. QED BY <2>1, <3>1, AlikeOK DEF Alike
  <2>4. CASE k.subject # s
    BY <2>1, <2>2, <2>4 DEF Alike
  <2>5. QED BY <2>3, <2>4
<1>12. \A t \in Subjects \ {s} : /\ t \in forsaken' <=> t \in forsaken
                                 /\ t \in unanswered' <=> t \in unanswered
  BY <1>1
<1>13. SubjectOK(s, entries'[s], resource'[s], server'[s], forsaken', unanswered')
  BY <1>1, <1>2, <1>5
<1>14. \A c \in calls' :
         IF c.subject = s THEN CallOK(c, entries'[s], resource'[s], server'[s])
         ELSE \E d \in calls : Alike(c, d)
  BY <1>1, <1>2, <1>11
<1>15. \A t \in Subjects \ {s} :
         /\ entries'[t] = entries[t] /\ resource'[t] = resource[t]
         /\ server'[t] = server[t]
         /\ t \in forsaken' <=> t \in forsaken
         /\ t \in unanswered' <=> t \in unanswered
  BY <1>1, <1>2, <1>12
<1>16. QED BY <1>6, <1>13, <1>14, <1>15, OneSubjectStep

-----------------------------------------------------------------------------
(* The application: edits, saves and deletes. *)

\* Subject s gets entry e and resource r, and its callers may be joined by one.
LEMMA QueueStep ==
  ASSUME Inv, Delivery, NEW s \in Subjects, NEW e, NEW r,
         entries' = [entries EXCEPT ![s] = e],
         resource' = [resource EXCEPT ![s] = r],
         UNCHANGED <<server, history, attempts>>,
         SubjectOK(s, e, r, server[s], forsaken, unanswered),
         entries[s] # None =>
           /\ e.genesis = entries[s].genesis
           /\ entries[s].destroy => e.destroy,
         \A c \in calls : c.subject = s => CallOK(c, e, r, server[s]),
         \A c \in calls' : c \in calls \/ (c.subject = s /\ CallOK(c, e, r, server[s]))
  PROVE  Delivery'
<1>1. /\ entries'[s] = e /\ resource'[s] = r
      /\ \A t \in Subjects \ {s} :
           entries'[t] = entries[t] /\ resource'[t] = resource[t]
  BY DEF Inv, TypeOK
<1>2. \A b \in attempts' : IF b.subject = s THEN Fits(b, e) ELSE b \in attempts
  <2>1. \A b \in attempts : Fits(b, entries[b.subject]) /\ entries[b.subject] # None
    BY DEF Inv, AttemptInv, Queued, Delivery, AttemptsFit
  <2>2. QED BY <2>1 DEF Fits
<1>3. \A c \in calls' :
        IF c.subject = s THEN CallOK(c, e, r, server[s])
        ELSE \E d \in calls : Alike(c, d)
  BY DEF Alike
<1>4. QED BY <1>1, <1>2, <1>3, OneSubjectStep

LEMMA EditStep ==
  ASSUME Inv, Delivery, NEW s \in Subjects, Edit(s)
  PROVE  Delivery'
<1>1. PICK e : e = IF serverConnected THEN MarkDirty(entries[s]) ELSE entries[s]
  OBVIOUS
<1>2. PICK r : r = [resource[s] EXCEPT !.edits = @ + 1, !.dirty = TRUE]
  OBVIOUS
<1>3. /\ entries' = [entries EXCEPT ![s] = e]
      /\ resource' = [resource EXCEPT ![s] = r]
      /\ UNCHANGED <<server, history, attempts, calls>>
      /\ resource[s].state = "live"
  BY <1>1, <1>2 DEF Edit, Inv, TypeOK
<1>4. /\ resource[s] \in Resource /\ entries[s] \in Entry \cup {None}
      /\ resource[s].edits \in Nat
  BY SubjectParts DEF Inv
<1>5. /\ r.edits = resource[s].edits + 1 /\ r.dirty
      /\ r.saved = resource[s].saved /\ r.state = resource[s].state
  BY <1>2, <1>4 DEF Resource
<1>6. SubjectOK(s, entries[s], resource[s], server[s], forsaken, unanswered)
  BY DEF Delivery, SubjectsOK
<1>7. SubjectOK(s, entries[s], r, server[s], forsaken, unanswered)
  BY <1>3, <1>4, <1>5, <1>6 DEF SubjectOK
<1>8. CASE entries[s] # None \/ ~serverConnected
  <2>1. SameFlags(entries[s], e)
    BY <1>1, <1>4, <1>8, MarkDirtyFlags DEF SameFlags
  <2>2. SubjectOK(s, e, r, server[s], forsaken, unanswered)
    BY <1>7, <2>1, SameFlagsSubject
  <2>3. ASSUME NEW c \in calls, c.subject = s
        PROVE  CallOK(c, e, r, server[s])
    <3>1. CallOK(c, entries[s], resource[s], server[s])
      BY <2>3 DEF Delivery, CallsOK
    <3>2. c.version \in Nat
      BY BoundsAssumption DEF Inv, TypeOK, Call, Versions
    <3>3. CallOK(c, entries[s], r, server[s])
      BY <1>4, <1>5, <3>1, <3>2 DEF CallOK
    <3>4. QED BY <2>1, <3>3, SameFlagsCall
  <2>4. QED BY <1>3, <2>1, <2>2, <2>3, QueueStep DEF SameFlags
<1>9. CASE entries[s] = None /\ serverConnected
  <2>1. e = NewEntry
    BY <1>1, <1>9 DEF MarkDirty
  <2>2. e # None /\ ~e.genesis /\ ~e.destroy
    BY <2>1, NewEntryType, EntryNotNone DEF NewEntry
  <2>3. SubjectOK(s, e, r, server[s], forsaken, unanswered)
    BY <1>3, <1>4, <1>5, <1>7, <1>9, <2>2 DEF SubjectOK
  <2>4. ASSUME NEW c \in calls, c.subject = s
        PROVE  CallOK(c, e, r, server[s])
    <3>1. CallOK(c, entries[s], resource[s], server[s])
      BY <2>4 DEF Delivery, CallsOK
    <3>2. c.version \in Nat
      BY BoundsAssumption DEF Inv, TypeOK, Call, Versions
    <3>3. QED BY <1>4, <1>5, <1>9, <2>2, <3>1, <3>2 DEF CallOK
  <2>5. QED BY <1>3, <1>9, <2>3, <2>4, QueueStep
<1>10. QED BY <1>8, <1>9

LEMMA SaveStep ==
  ASSUME Inv, Delivery, NEW s \in Subjects, Save(s)
  PROVE  Delivery'
<1>1. PICK e : e = IF resource[s].state = "none"
                     THEN [NewEntry EXCEPT !.genesis = TRUE]
                   ELSE IF resource[s].dirty THEN MarkDirty(entries[s])
                   ELSE entries[s]
  OBVIOUS
<1>2. PICK r : r = [resource[s] EXCEPT !.state = "live"]
  OBVIOUS
<1>3. /\ entries' = [entries EXCEPT ![s] = e]
      /\ resource' = [resource EXCEPT ![s] = r]
      /\ UNCHANGED <<server, history, attempts>>
      /\ \/ resource[s].state = "none"
         \/ resource[s].state = "live" /\ (resource[s].dirty \/ entries[s] # None)
  BY <1>1, <1>2 DEF Save, Queued
<1>4. /\ resource[s] \in Resource /\ entries[s] \in Entry \cup {None}
      /\ resource[s].edits \in Nat
  BY SubjectParts DEF Inv
<1>5. /\ r.edits = resource[s].edits /\ r.dirty = resource[s].dirty
      /\ r.saved = resource[s].saved /\ r.state = "live"
  BY <1>2, <1>4 DEF Resource
<1>6. SubjectOK(s, entries[s], resource[s], server[s], forsaken, unanswered)
  BY DEF Delivery, SubjectsOK
<1>8. ASSUME resource[s].state = "none"
      PROVE  /\ entries[s] = None /\ e # None /\ e.genesis /\ ~e.destroy
             /\ \A c \in calls : c.subject # s
  <2>1. e = [NewEntry EXCEPT !.genesis = TRUE]
    BY <1>1, <1>8
  <2>2. e \in Entry
    BY <2>1, NewEntryType DEF Entry
  <2>3. e.genesis /\ ~e.destroy
    BY <2>1 DEF NewEntry
  <2>4. \A c \in calls : c.subject # s
    BY <1>8 DEF Delivery, CallsOK, CallOK
  <2>5. QED BY <1>6, <1>8, <2>2, <2>3, <2>4, EntryNotNone DEF SubjectOK
<1>9. ASSUME resource[s].state # "none", entries[s] # None
      PROVE  SameFlags(entries[s], e) /\ r = resource[s]
  <2>1. SameFlags(entries[s], e)
    BY <1>1, <1>4, <1>9, MarkDirtyFlags DEF SameFlags
  <2>2. r = resource[s]
    BY <1>2, <1>3, <1>4, <1>9 DEF Resource
  <2>3. QED BY <2>1, <2>2
<1>10. ASSUME resource[s].state # "none", entries[s] = None
       PROVE  /\ e # None /\ ~e.genesis /\ ~e.destroy
              /\ r = resource[s] /\ r.edits > 0
  <2>1. e = NewEntry
    BY <1>1, <1>3, <1>10 DEF MarkDirty
  <2>2. e # None /\ ~e.genesis /\ ~e.destroy
    BY <2>1, NewEntryType, EntryNotNone DEF NewEntry
  <2>3. r = resource[s]
    BY <1>2, <1>3, <1>4, <1>10 DEF Resource
  <2>4. r.edits > 0
    BY <1>3, <1>6, <1>10, <2>3 DEF SubjectOK
  <2>5. QED BY <2>2, <2>3, <2>4
<1>11. SubjectOK(s, e, r, server[s], forsaken, unanswered) /\ e # None
  <2>1. CASE resource[s].state = "none"
    BY <1>5, <1>6, <1>8, <2>1 DEF SubjectOK
  <2>2. CASE resource[s].state # "none" /\ entries[s] # None
    BY <1>6, <1>9, <2>2, SameFlagsSubject DEF SameFlags
  <2>3. CASE resource[s].state # "none" /\ entries[s] = None
    BY <1>5, <1>6, <1>10, <2>3 DEF SubjectOK
  <2>4. QED BY <2>1, <2>2, <2>3
<1>12. ASSUME NEW c \in calls, c.subject = s
       PROVE  CallOK(c, e, r, server[s])
  <2>1. CallOK(c, entries[s], resource[s], server[s])
    BY <1>12 DEF Delivery, CallsOK
  <2>2. CASE resource[s].state = "none"
    BY <1>8, <1>12, <2>2
  <2>3. CASE resource[s].state # "none" /\ entries[s] # None
    BY <1>9, <2>1, <2>3, SameFlagsCall
  <2>4. CASE resource[s].state # "none" /\ entries[s] = None
    BY <1>10, <2>1, <2>4 DEF CallOK
  <2>5. QED BY <2>2, <2>3, <2>4
<1>13. ASSUME NEW c, c.kind = "save", c.subject = s, c.held,
              c.version = resource[s].edits
       PROVE  CallOK(c, e, r, server[s])
  BY <1>4, <1>5, <1>11, <1>13 DEF CallOK, SubjectOK
<1>14. \A c \in calls' : c \in calls \/ (c.subject = s /\ CallOK(c, e, r, server[s]))
  BY <1>13 DEF Save
<1>15. entries[s] # None => /\ e.genesis = entries[s].genesis
                            /\ entries[s].destroy => e.destroy
  BY <1>8, <1>9 DEF SameFlags
<1>16. QED BY <1>3, <1>11, <1>12, <1>14, <1>15, QueueStep

LEMMA DestroyStep ==
  ASSUME Inv, Delivery, NEW s \in Subjects, Destroy(s)
  PROVE  Delivery'
<1>1. PICK e : e = SetDestroyCommit(entries[s])
  OBVIOUS
<1>2. PICK r : r = [resource[s] EXCEPT !.state = "deleted"]
  OBVIOUS
<1>3. /\ entries' = [entries EXCEPT ![s] = e]
      /\ resource' = [resource EXCEPT ![s] = r]
      /\ UNCHANGED <<server, history, attempts>>
      /\ resource[s].state = "live"
  BY <1>1, <1>2 DEF Destroy
<1>4. /\ resource[s] \in Resource /\ entries[s] \in Entry \cup {None}
      /\ resource[s].edits \in Nat
  BY SubjectParts DEF Inv
<1>5. /\ r.edits = resource[s].edits /\ r.dirty = resource[s].dirty
      /\ r.saved = resource[s].saved /\ r.state = "deleted"
  BY <1>2, <1>4 DEF Resource
<1>6. e # None /\ e.destroy /\ (e.genesis <=> (entries[s] # None /\ entries[s].genesis))
  BY <1>1, <1>4, DestroyFlags
<1>7. entries[s] # None => e.genesis = entries[s].genesis
  <2>1. entries[s] # None => entries[s] \in Entry
    BY <1>4
  <2>2. e \in Entry
    BY <1>1, <1>4, SetDestroyCommitType
  <2>3. QED BY <1>6, <2>1, <2>2 DEF Entry
<1>8. SubjectOK(s, entries[s], resource[s], server[s], forsaken, unanswered)
  BY DEF Delivery, SubjectsOK
<1>9. SubjectOK(s, e, r, server[s], forsaken, unanswered)
  BY <1>3, <1>5, <1>6, <1>8 DEF SubjectOK
<1>10. \A c \in calls : c.subject = s => CallOK(c, e, r, server[s])
  BY <1>5, <1>6 DEF Delivery, CallsOK, CallOK
<1>11. ASSUME NEW c, c.kind = "destroy", c.subject = s,
              c.version = resource[s].edits
       PROVE  CallOK(c, e, r, server[s])
  BY <1>4, <1>5, <1>6, <1>11 DEF CallOK
<1>12. \A c \in calls' : c \in calls \/ (c.subject = s /\ CallOK(c, e, r, server[s]))
  BY <1>11 DEF Destroy
<1>13. QED BY <1>3, <1>6, <1>7, <1>9, <1>10, <1>12, QueueStep

-----------------------------------------------------------------------------
(* What was queued, saved or deleted, and the server *)

LEMMA SkipStep ==
  ASSUME Inv, Delivery, NEW p \in Passes, NEW s \in Subjects, Skip(p, s)
  PROVE  Delivery'
<1>1. \A c \in calls' : \E d \in calls : Alike(c, d)
  BY TriedAlike DEF Skip, Inv, TypeOK
<1>2. QED BY <1>1, QuietStep DEF Skip, SameFlags

LEMMA SettleStep ==
  ASSUME Inv, Delivery, NEW p \in Passes, PassSettles(p) \/ StartFollowUp(p)
  PROVE  Delivery'
<1>1. \A c \in calls : Alike([c EXCEPT !.pass = None], c) /\ Alike(c, c)
  BY DEF Alike, Inv, TypeOK, Call
<1>2. \A c \in calls' : \E d \in calls : Alike(c, d)
  <2>1. CASE PassSettles(p)
    BY <1>1, <2>1 DEF PassSettles
  <2>2. CASE StartFollowUp(p)
    BY <1>1, <2>2 DEF StartFollowUp
  <2>3. QED BY <2>1, <2>2
<1>3. QED BY <1>2, QuietStep DEF PassSettles, StartFollowUp, SameFlags

LEMMA ElapseStep ==
  ASSUME Inv, Delivery, NEW s \in Subjects, Elapse(s)
  PROVE  Delivery'
<1>1. entries[s] \in Entry
  BY DEF Elapse, Queued, Inv, TypeOK
<1>2. PICK e : e = [entries[s] EXCEPT !.waiting = FALSE]
  OBVIOUS
<1>3. e \in Entry /\ e.genesis = entries[s].genesis
      /\ e.destroy = entries[s].destroy
  BY <1>1, <1>2 DEF Entry
<1>4. SameFlags(entries[s], e)
  BY <1>1, <1>3, EntryNotNone DEF SameFlags
<1>5. /\ entries' = [entries EXCEPT ![s] = e] /\ calls' = calls
      /\ UNCHANGED <<resource, server, history, attempts>>
  BY <1>2 DEF Elapse
<1>6. \A t \in Subjects : SameFlags(entries[t], entries'[t])
  BY <1>4, <1>5 DEF SameFlags, Inv, TypeOK
<1>7. \A c \in calls : Alike(c, c)
  BY DEF Alike
<1>8. QED BY <1>5, <1>6, <1>7, QuietStep

LEMMA ResyncStep ==
  ASSUME Inv, Delivery, DriveSyncFinishes
  PROVE  Delivery'
<1>1. ASSUME NEW t \in Subjects
      PROVE  SameFlags(entries[t], entries'[t])
  <2>1. CASE ParentBlocked(entries[t])
    <3>1. entries[t] \in Entry
      BY <2>1 DEF ParentBlocked, Inv, TypeOK
    <3>2. entries'[t] = [Rearmed(entries[t]) EXCEPT !.rearmed = TRUE]
      BY <2>1 DEF DriveSyncFinishes
    <3>3. QED BY <3>1, <3>2, RearmedFlags
  <2>2. CASE ~ParentBlocked(entries[t])
    BY <2>2 DEF DriveSyncFinishes, SameFlags
  <2>3. QED BY <2>1, <2>2
<1>2. \A c \in calls : Alike(c, c)
  BY DEF Alike
<1>3. QED BY <1>1, <1>2, QuietStep DEF DriveSyncFinishes

LEMMA DeliveryStep == Inv /\ Delivery /\ [Next]_vars => Delivery'
<1> SUFFICES ASSUME Inv, Delivery, [Next]_vars PROVE Delivery'
  OBVIOUS
<1>1. \A c \in calls : Alike(c, c)
  BY DEF Alike
<1>2. \A t \in Subjects : SameFlags(entries[t], entries[t])
  BY DEF SameFlags
<1>3. CASE UNCHANGED vars
  BY <1>1, <1>2, <1>3, QuietStep DEF vars
<1>4. ASSUME NEW s \in Subjects, Edit(s) \/ Save(s) \/ Destroy(s) \/ Elapse(s)
      PROVE  Delivery'
  BY <1>4, EditStep, SaveStep, DestroyStep, ElapseStep
<1>5. ASSUME NEW p \in Passes, PassSettles(p) \/ StartFollowUp(p)
      PROVE  Delivery'
  BY <1>5, SettleStep
<1>6. ASSUME NEW p \in Passes, NEW s \in Subjects,
             Skip(p, s) \/ StartAttempt(p, s) \/ DropMootDestroy(p, s)
      PROVE  Delivery'
  BY <1>6, SkipStep, StartStep, MootStep
<1>7. ASSUME NEW a \in attempts, Answered(a) PROVE Delivery'
  BY <1>7, AnsweredDelivery
<1>8. ASSUME NEW c \in calls, CallReturns(c) PROVE Delivery'
  BY <1>1, <1>2, <1>8, QuietStep DEF CallReturns
<1>9. CASE TimerFires \/ SocketOpens \/ SocketOpensUnauthenticated \/ SocketCloses
  BY <1>1, <1>2, <1>9, QuietStep
     DEF TimerFires, SocketOpens, SocketOpensUnauthenticated, SocketCloses
<1>10. QED
  BY <1>3, <1>4, <1>5, <1>6, <1>7, <1>8, <1>9, ResyncStep DEF Next

LEMMA InitDelivery == Init => Delivery
<1> SUFFICES ASSUME Init PROVE Delivery
  OBVIOUS
<1>1. SubjectsOK
  BY DEF Init, SubjectsOK, SubjectOK
<1>2. QED BY <1>1 DEF Init, Delivery, AttemptsFit, CallsOK

THEOREM DeliveryInvariance == Spec => []Delivery
BY Invariance, InitDelivery, DeliveryStep, PTL DEF Spec

\* An edit or delete the server lacks is queued, waits on its resource for
\* save(), or was refused for good: no order of edits, saves, deletes, passes,
\* retries, lost answers and reconnects drops it, but one.  A resource deleted
\* while the answer to its create was lost is taken for never synced, and its
\* delete is dropped (store.ts, drainDestroy).
THEOREM NothingIsForgotten == Spec => []NothingForgotten
<1>1. Inv /\ Delivery => NothingForgotten
  <2>1. SUFFICES ASSUME Inv, Delivery, NEW s \in Subjects, Unsynced(s),
                        entries[s] = None, ~resource[s].dirty
                 PROVE  \/ s \in forsaken
                        \/ resource[s].state = "deleted" /\ s \in unanswered
    BY DEF NothingForgotten, Queued
  <2>2. SubjectOK(s, None, resource[s], server[s], forsaken, unanswered)
    BY <2>1 DEF Delivery, SubjectsOK
  <2>3. resource[s].edits \in Nat /\ server[s].version \in Nat
    BY <2>1, SubjectParts DEF Inv
  <2>4. QED BY <2>1, <2>2, <2>3 DEF SubjectOK, Unsynced
<1>2. QED BY <1>1, Invariance, DeliveryInvariance, PTL

\* The save cursor never passes the server: every edit is in the delta that
\* was acknowledged or in a later one.
THEOREM CursorFollows == Spec => []CursorNotPastServer
<1>1. Delivery => CursorNotPastServer
  BY DEF Delivery, SubjectsOK, SubjectOK, CursorNotPastServer
<1>2. QED BY <1>1, DeliveryInvariance, PTL

\* save() resolves 'persisted' only once the server holds what was saved,
\* whichever pass carried it and whatever was typed or refused meanwhile.
THEOREM PersistedIsAcked == Spec => []PersistedMeansAcked
<1>1. Inv /\ Delivery => PersistedMeansAcked
  <2>1. SUFFICES ASSUME Inv, Delivery, NEW c \in calls, c.kind = "save",
                        SaveResult(c) = "persisted",
                        resource[c.subject].state = "live"
                 PROVE  /\ server[c.subject].state = "live"
                        /\ server[c.subject].version >= c.version
    BY DEF PersistedMeansAcked
  <2>2. PICK s \in Subjects : s = c.subject
    BY <2>1 DEF Inv, TypeOK, Call
  <2>3. /\ FailureSeen(c) = "none"
        /\ entries[s] # None => Acknowledged(c)
    BY <2>1, <2>2 DEF SaveResult, Queued
  <2>4. /\ CallOK(c, entries[s], resource[s], server[s])
        /\ SubjectOK(s, entries[s], resource[s], server[s], forsaken, unanswered)
    BY <2>1, <2>2 DEF Delivery, CallsOK, SubjectsOK
  <2>5. /\ c.version \in Nat /\ server[s].version \in Nat
        /\ resource[s].saved \in Nat /\ server[s] \in ServerCopy
    BY <2>1, SubjectParts, BoundsAssumption DEF Inv, TypeOK, Call, Versions
  <2>6. CASE c.held
    <3>1. resource[s].saved >= c.version /\ ~entries[s].genesis
      BY <2>2, <2>3, <2>4, <2>6 DEF CallOK, Acknowledged
    <3>2. server[s].state # "none"
      BY <2>1, <2>2, <2>4, <2>5, <2>6, <3>1 DEF CallOK, SubjectOK
    <3>3. server[s].state = "live"
      BY <2>1, <2>2, <2>4, <2>5, <3>2 DEF SubjectOK, ServerCopy
    <3>4. QED BY <2>2, <2>4, <2>5, <3>1, <3>3 DEF SubjectOK
  <2>7. CASE ~c.held
    BY <2>1, <2>2, <2>3, <2>4, <2>7 DEF CallOK, FailureSeen
  <2>8. QED BY <2>6, <2>7
<1>2. QED BY <1>1, Invariance, DeliveryInvariance, PTL

\* destroy() resolves 'destroyed' only once the server holds the resource no
\* longer, unless a write of it was refused for good or the answer to its
\* create was lost.
THEOREM DestroyedIsGone == Spec => []DestroyedMeansGone
<1>1. Inv /\ Delivery => DestroyedMeansGone
  <2>1. SUFFICES ASSUME Inv, Delivery, NEW c \in calls, c.kind = "destroy",
                        DestroyResult(c) = "destroyed",
                        c.subject \notin forsaken \cup unanswered
                 PROVE  server[c.subject].state # "live"
    BY DEF DestroyedMeansGone
  <2>2. PICK s \in Subjects : s = c.subject
    BY <2>1 DEF Inv, TypeOK, Call
  <2>3. resource[s].state = "deleted"
    BY <2>1, <2>2 DEF Delivery, CallsOK, CallOK
  <2>4. SubjectOK(s, entries[s], resource[s], server[s], forsaken, unanswered)
    BY <2>1 DEF Delivery, SubjectsOK
  <2>5. ~(entries[s] # None /\ entries[s].destroy)
    BY <2>1, <2>2 DEF DestroyResult, PendingDestroy, Queued
  <2>6. QED BY <2>1, <2>2, <2>3, <2>4, <2>5 DEF SubjectOK
<1>2. QED BY <1>1, Invariance, DeliveryInvariance, PTL

-----------------------------------------------------------------------------
(* A caller waits for a pass that will look at its write. *)

\* The pass call c waits for has c's subject before it: it is chained, and
\* takes its snapshot later, or runs and has not come to it.
WillBeTried(c) ==
  /\ c.pass # None
  /\ \/ Chained(c.pass)
     \/ Running(c.pass) /\ c.subject \in passes[c.pass].todo

AwaitInv == \A c \in calls : c.held /\ ~c.tried => WillBeTried(c)

\* A step that adds no call and takes nothing off a pass.
LEMMA AwaitKept ==
  ASSUME Inv, AwaitInv,
         \A c \in calls' : c.held /\ ~c.tried => \E d \in calls :
           /\ d.held /\ ~d.tried /\ d.pass = c.pass /\ d.subject = c.subject,
         \A q \in Passes :
           /\ Chained(q) => Chained(q)'
           /\ Running(q) => /\ Running(q)'
                            /\ passes[q].todo \subseteq passes'[q].todo
  PROVE  AwaitInv'
<1> SUFFICES ASSUME NEW c \in calls', c.held /\ ~c.tried
             PROVE  WillBeTried(c)'
  BY DEF AwaitInv
<1>1. PICK d \in calls : /\ d.held /\ ~d.tried /\ d.pass = c.pass
                         /\ d.subject = c.subject
  OBVIOUS
<1>2. WillBeTried(d) /\ d.pass \in Passes \cup {None}
  BY <1>1 DEF AwaitInv, Inv, TypeOK, Call
<1>3. QED BY <1>1, <1>2 DEF WillBeTried

\* A drain leaves the passes under way as they are.
LEMMA DrainKeepsPasses ==
  ASSUME Inv, UNCHANGED passVars \/ \E e : Drain(e)
  PROVE  \A q \in Passes :
           /\ Chained(q) => Chained(q)'
           /\ Running(q) => /\ Running(q)'
                            /\ passes[q].todo \subseteq passes'[q].todo
<1>1. CASE UNCHANGED passVars
  BY <1>1 DEF passVars, Chained, Running
<1>2. ASSUME NEW e, Drain(e)
      PROVE  \A q \in Passes : Chained(q) => Chained(q)'
  <2>1. CASE ShareFollowUp
    BY <1>2, <2>1 DEF Drain, passVars, Chained
  <2>2. CASE ~ShareFollowUp
    BY <1>2, <2>2, NoneNotPass DEF Drain, ShareFollowUp, Inv, PassInv
  <2>3. QED BY <2>1, <2>2
<1>3. ASSUME NEW e, Drain(e)
      PROVE  \A q \in Passes : Running(q) => passes'[q] = passes[q]
  BY <1>3, DrainPasses DEF Inv
<1>4. QED BY <1>1, <1>2, <1>3 DEF Running

\* The pass a caller shares, starts or chains is yet to take its snapshot, or
\* has just taken it.
LEMMA DrainWillTry ==
  ASSUME Inv, NEW s \in Subjects, entries'[s] # None, Drain(entries'),
         NEW c, c.pass = drainInFlight', c.subject = s
  PROVE  WillBeTried(c)'
<1>1. CASE ShareFollowUp
  BY <1>1, NoneNotPass DEF Drain, ShareFollowUp, passVars, Inv, PassInv, Chained, WillBeTried
<1>2. CASE ~ShareFollowUp
  <2>1. PICK p \in Passes : p = NextSlot
    BY <1>2 DEF Drain, FreeSlots, NextSlot
  <2>2. c.pass = p /\ p # None
    BY <1>2, <2>1, NoneNotPass DEF Drain
  <2>3. CASE drainInFlight = None
    <3>1. passes' = [passes EXCEPT ![p] =
             [phase |-> "running", todo |-> QueuedIn(entries'), behind |-> None]]
      BY <1>2, <2>1, <2>3 DEF Drain
    <3>2. Running(p)' /\ passes'[p].todo = QueuedIn(entries')
      BY <2>1, <3>1 DEF Inv, TypeOK, Running
    <3>3. s \in passes'[p].todo
      BY <3>2 DEF QueuedIn
    <3>4. QED BY <2>2, <3>2, <3>3 DEF WillBeTried
  <2>4. CASE drainInFlight # None
    <3>1. passes' = [passes EXCEPT ![p] =
             [phase |-> "queued", todo |-> {}, behind |-> drainInFlight]]
      BY <1>2, <2>1, <2>4 DEF Drain
    <3>2. Chained(p)'
      BY <2>1, <3>1 DEF Inv, TypeOK, Chained
    <3>3. QED BY <2>2, <3>2 DEF WillBeTried
  <2>5. QED BY <2>3, <2>4
<1>3. QED BY <1>1, <1>2

\* A caller joins.
LEMMA CallerAwaits ==
  ASSUME Inv, Delivery', AwaitInv, NEW s \in Subjects, Save(s) \/ Destroy(s)
  PROVE  AwaitInv'
<1>1. \A q \in Passes :
        /\ Chained(q) => Chained(q)'
        /\ Running(q) => /\ Running(q)'
                         /\ passes[q].todo \subseteq passes'[q].todo
  BY DrainKeepsPasses DEF Save, Destroy
<1>2. CASE calls' = calls
  BY <1>1, <1>2, AwaitKept
<1>3. CASE calls' # calls
  <2>1. Drain(entries')
    BY <1>3 DEF Save, Destroy
  <2>2. \A c \in calls' : c \in calls \/ (c.pass = drainInFlight' /\ c.subject = s)
    BY DEF Save, Destroy
  <2>3. SUFFICES ASSUME NEW c \in calls', c.held, ~c.tried
                 PROVE  WillBeTried(c)'
    BY DEF AwaitInv
  <2>4. CASE c \in calls
    <3>1. WillBeTried(c) /\ c.pass \in Passes \cup {None}
      BY <2>3, <2>4 DEF AwaitInv, Inv, TypeOK, Call
    <3>2. QED BY <1>1, <3>1 DEF WillBeTried
  <2>5. CASE c.pass = drainInFlight' /\ c.subject = s
    <3>1. CallOK(c, entries'[s], resource'[s], server'[s])
      BY <2>3, <2>5 DEF Delivery, CallsOK
    <3>2. entries'[s] # None
      BY <2>3, <3>1 DEF CallOK
    <3>3. QED BY <2>1, <2>5, <3>2, DrainWillTry
  <2>6. QED BY <2>2, <2>3, <2>4, <2>5
<1>4. QED BY <1>2, <1>3

\* A subject taken off a pass is one whose callers have been answered.
LEMMA TakenAwaits ==
  ASSUME Inv, AwaitInv, NEW p \in Passes, NEW s \in Subjects, Taken(p, s),
         NEW cs \in SUBSET Call, calls' = Tried(s, cs),
         \A c \in cs : c.subject # s => c \in calls
  PROVE  AwaitInv'
<1> SUFFICES ASSUME NEW c \in calls', c.held, ~c.tried
             PROVE  WillBeTried(c)'
  BY DEF AwaitInv
<1>1. PICK d \in cs : c = IF d.subject = s THEN [d EXCEPT !.tried = TRUE] ELSE d
  BY DEF Tried
<1>2. [d EXCEPT !.tried = TRUE].tried
  BY DEF Call
<1>3. c = d /\ d.subject # s /\ d \in calls
  BY <1>1, <1>2
<1>4. WillBeTried(c) /\ c.pass \in Passes \cup {None}
  BY <1>3 DEF AwaitInv, Inv, TypeOK, Call
<1>5. \A q \in Passes : /\ passes'[q].phase = passes[q].phase
                        /\ passes[q].todo \ {s} \subseteq passes'[q].todo
  BY DEF Taken, Inv, TypeOK, Pass
<1>6. QED BY <1>3, <1>4, <1>5 DEF WillBeTried, Chained, Running

\* A pass that settles leaves no caller it did not answer.
LEMMA SettledAwaits ==
  ASSUME Inv, AwaitInv, NEW p \in Passes, PassSettles(p)
  PROVE  AwaitInv'
<1> SUFFICES ASSUME NEW c \in calls', c.held, ~c.tried
             PROVE  WillBeTried(c)'
  BY DEF AwaitInv
<1>1. PICK d \in calls : c = IF d.pass = p THEN [d EXCEPT !.pass = None] ELSE d
  BY DEF PassSettles
<1>2. d.held /\ ~d.tried /\ d.pass \in Passes \cup {None}
  BY <1>1 DEF Inv, TypeOK, Call
<1>3. WillBeTried(d)
  BY <1>2 DEF AwaitInv
<1>4. /\ Running(p) /\ passes[p].todo = {}
      /\ passes' = [q \in Passes |-> AfterSettle(p, q)]
  BY DEF PassSettles, Running
<1>5. d.pass # p
  BY <1>3, <1>4 DEF WillBeTried, Running, Chained
<1>6. \A q \in Passes \ {p} : passes'[q].phase = passes[q].phase
                              /\ passes'[q].todo = passes[q].todo
  BY <1>4 DEF AfterSettle, Inv, TypeOK, Pass
<1>7. QED BY <1>1, <1>2, <1>3, <1>5, <1>6 DEF WillBeTried, Chained, Running

\* The chained pass takes its snapshot, and a held entry is in it.
LEMMA FollowUpAwaits ==
  ASSUME Inv, Delivery, AwaitInv, NEW p \in Passes, StartFollowUp(p)
  PROVE  AwaitInv'
<1> SUFFICES ASSUME NEW c \in calls, c.held, ~c.tried
             PROVE  WillBeTried(c)'
  BY DEF AwaitInv, StartFollowUp
<1>1. WillBeTried(c) /\ c.pass \in Passes \cup {None} /\ c.subject \in Subjects
  BY DEF AwaitInv, Inv, TypeOK, Call
<1>2. entries[c.subject] # None
  BY DEF Delivery, CallsOK, CallOK
<1>3. /\ \A q \in Passes \ {p} : passes'[q] = passes[q]
      /\ passes'[p].phase = "running" /\ passes'[p].todo = QueuedIn(entries)
  BY DEF StartFollowUp, Inv, TypeOK, Pass
<1>4. c.subject \in QueuedIn(entries)
  BY <1>1, <1>2 DEF QueuedIn
<1>5. QED BY <1>1, <1>3, <1>4 DEF WillBeTried, Chained, Running

LEMMA AwaitStep ==
  Inv /\ Delivery /\ Delivery' /\ AwaitInv /\ [Next]_vars => AwaitInv'
<1> SUFFICES ASSUME Inv, Delivery, Delivery', AwaitInv, [Next]_vars
             PROVE  AwaitInv'
  OBVIOUS
<1>1. ASSUME \A c \in calls' : c \in calls \/ ~c.held,
             UNCHANGED passVars \/ \E e : Drain(e)
      PROVE  AwaitInv'
  BY <1>1, AwaitKept, DrainKeepsPasses
<1>2. CASE UNCHANGED vars
  BY <1>1, <1>2 DEF vars, passVars
<1>3. ASSUME NEW s \in Subjects, Edit(s) \/ Save(s) \/ Destroy(s) \/ Elapse(s)
      PROVE  AwaitInv'
  BY <1>1, <1>3, CallerAwaits DEF Edit, Elapse
<1>4. ASSUME NEW p \in Passes, PassSettles(p) \/ StartFollowUp(p)
      PROVE  AwaitInv'
  BY <1>4, SettledAwaits, FollowUpAwaits
<1>5. ASSUME NEW p \in Passes, NEW s \in Subjects,
             Skip(p, s) \/ StartAttempt(p, s) \/ DropMootDestroy(p, s)
      PROVE  AwaitInv'
  <2>1. CASE Skip(p, s) \/ StartAttempt(p, s)
    BY <2>1, TakenAwaits DEF Skip, StartAttempt, Inv, TypeOK
  <2>2. CASE DropMootDestroy(p, s)
    <3>1. Detached(s, "none") \in SUBSET Call
      BY DetachedType DEF Inv, Failures
    <3>2. \A c \in calls : [c EXCEPT !.held = FALSE, !.failed = "none"].subject
                             = c.subject
      BY DEF Inv, TypeOK, Call
    <3>3. \A c \in Detached(s, "none") : c.subject # s => c \in calls
      BY <3>2 DEF Detached
    <3>4. QED BY <2>2, <3>1, <3>3, TakenAwaits DEF DropMootDestroy
  <2>3. QED BY <1>5, <2>1, <2>2
<1>6. ASSUME NEW a \in attempts, Answered(a) PROVE AwaitInv'
  <2>1. UNCHANGED passVars
    BY <1>6 DEF Answered, ExportDelta, NotReady, ReloadDeleted, GenesisAcked,
       DeltaAcked, DestroyAcked, Busy, Cancelled, NetworkFails, Refused,
       PendingDependencies, TerminallyRefused
  <2>2. \A failure : \A c \in Detached(a.subject, failure) : c \in calls \/ ~c.held
    <3>1. \A failure : \A c \in calls :
            ~[c EXCEPT !.held = FALSE, !.failed = failure].held
      BY DEF Inv, TypeOK, Call
    <3>2. QED BY <3>1 DEF Detached
  <2>3. ASSUME NEW e, NEW failure, Ends(a, e, failure)
        PROVE  \A c \in calls' : c \in calls \/ ~c.held
    BY <2>2, <2>3 DEF Ends, SetEntry
  <2>4. \A c \in calls' : c \in calls \/ ~c.held
    <3>1. CASE ExportDelta(a)
      BY <2>3, <3>1 DEF ExportDelta
    <3>2. CASE GenesisAcked(a)
      BY <2>2, <3>2 DEF GenesisAcked, SetEntry
    <3>3. CASE Cancelled(a)
      BY <3>3 DEF Cancelled
    <3>4. CASE NotReady(a) \/ ReloadDeleted(a) \/ DeltaAcked(a) \/ DestroyAcked(a)
      BY <2>3, <3>4 DEF NotReady, ReloadDeleted, DeltaAcked, DestroyAcked
    <3>5. CASE \/ Busy(a) \/ NetworkFails(a)
               \/ PendingDependencies(a) \/ TerminallyRefused(a)
      BY <2>3, <3>5
         DEF Busy, NetworkFails, PendingDependencies, TerminallyRefused
    <3>6. CASE \E failure \in {"refused", "parent", "error"} : Refused(a, failure)
      BY <2>3, <3>6 DEF Refused
    <3>7. QED BY <1>6, <3>1, <3>2, <3>3, <3>4, <3>5, <3>6 DEF Answered
  <2>5. QED BY <1>1, <2>1, <2>4
<1>7. ASSUME NEW c \in calls, CallReturns(c) PROVE AwaitInv'
  BY <1>1, <1>7 DEF CallReturns
<1>8. CASE \/ TimerFires \/ SocketOpens \/ SocketOpensUnauthenticated
           \/ SocketCloses \/ DriveSyncFinishes
  BY <1>1, <1>8 DEF TimerFires, SocketOpens, SocketOpensUnauthenticated,
     SocketCloses, DriveSyncFinishes
<1>9. QED BY <1>2, <1>3, <1>4, <1>5, <1>6, <1>7, <1>8 DEF Next

\* A caller whose `await drain()` came back finds that its own write, where it
\* is still queued, was looked at since: sharing or chaining a pass never
\* leaves it behind, for any number of passes and callers.
THEOREM DrainAnswersCallers == Spec => []AwaitedDrainAttempts
<1>1. Init => AwaitInv
  BY DEF Init, AwaitInv
<1>2. AwaitInv => AwaitedDrainAttempts
  BY DEF AwaitInv, WillBeTried, AwaitedDrainAttempts, Returning
<1>3. QED
  BY <1>1, <1>2, AwaitStep, Invariance, DeliveryInvariance, PTL DEF Spec

-----------------------------------------------------------------------------
(* Something will send what may be sent. *)

WakeInv ==
  /\ serverConnected => socket # "closed"
  /\ ~AuthMayFail => socket # "unauthenticated"
  /\ socket = "open" => NoLostWakeup

\* Rescheduling sets the timer for whatever may be sent.
LEMMA Rescheduled ==
  ASSUME Reschedule(entries'), serverConnected' = serverConnected
  PROVE  NoLostWakeup'
  BY DEF Reschedule, NoLostWakeup, Drainable

\* A drain that was asked for is in flight.
LEMMA Drained ==
  ASSUME NEW e, Drain(e) PROVE drainInFlight' # None
  BY NoneNotPass DEF Drain, ShareFollowUp, passVars, FreeSlots, NextSlot

\* A step that makes nothing sendable, and keeps timer, pass and connection.
LEMMA WakeKept ==
  ASSUME Drainable(entries') => Drainable(entries),
         UNCHANGED <<linkVars, outboxDrainTimer, drainInFlight>>, WakeInv
  PROVE  WakeInv'
  BY DEF WakeInv, NoLostWakeup, linkVars

LEMMA WakeStep == Inv /\ WakeInv /\ [Next]_vars => WakeInv'
<1> SUFFICES ASSUME Inv, WakeInv, [Next]_vars PROVE WakeInv'
  OBVIOUS
<1>1. ASSUME UNCHANGED linkVars, NoLostWakeup' PROVE WakeInv'
  BY <1>1 DEF WakeInv, linkVars
<1>2. ASSUME UNCHANGED linkVars, Reschedule(entries') PROVE WakeInv'
  BY <1>1, <1>2, Rescheduled DEF linkVars
<1>3. ASSUME UNCHANGED linkVars, drainInFlight' # None PROVE WakeInv'
  BY <1>1, <1>3 DEF NoLostWakeup
<1>4. CASE UNCHANGED vars
  BY <1>4, WakeKept DEF vars, linkVars
<1>5. ASSUME NEW s \in Subjects, Edit(s) \/ Save(s) \/ Destroy(s) PROVE WakeInv'
  <2>1. CASE Edit(s) /\ ~serverConnected
    BY <2>1, WakeKept DEF Edit, passVars
  <2>2. CASE Edit(s) /\ serverConnected
    BY <1>2, <2>2 DEF Edit
  <2>3. CASE Save(s) \/ Destroy(s)
    BY <1>2, <2>3 DEF Save, Destroy
  <2>4. QED BY <1>5, <2>1, <2>2, <2>3
\* A delay, an attempt that starts and one that is cancelled change neither
\* which entries are queued nor which are blocked.
<1>6. ASSUME NEW s \in Subjects, NEW e \in Entry, entries[s] \in Entry,
             e.blocked = entries[s].blocked, entries' = [entries EXCEPT ![s] = e],
             UNCHANGED <<linkVars, outboxDrainTimer, drainInFlight>>
      PROVE  WakeInv'
  <2>1. \A t \in Subjects : entries'[t] # None /\ ~entries'[t].blocked =>
          entries[t] # None /\ ~entries[t].blocked
    BY <1>6, EntryNotNone DEF Inv, TypeOK
  <2>2. Drainable(entries') => Drainable(entries)
    BY <2>1 DEF Drainable, QueuedIn
  <2>3. QED BY <1>6, <2>2, WakeKept
<1>7. ASSUME NEW s \in Subjects, Elapse(s) PROVE WakeInv'
  <2>1. entries[s] \in Entry
    BY <1>7 DEF Elapse, Queued, Inv, TypeOK
  <2>2. PICK e : e = [entries[s] EXCEPT !.waiting = FALSE]
    OBVIOUS
  <2>3. e \in Entry /\ e.blocked = entries[s].blocked
    BY <2>1, <2>2 DEF Entry
  <2>4. QED BY <1>6, <1>7, <2>1, <2>2, <2>3 DEF Elapse, passVars
<1>8. ASSUME NEW p \in Passes, NEW s \in Subjects,
             Skip(p, s) \/ StartAttempt(p, s) \/ DropMootDestroy(p, s)
      PROVE  WakeInv'
  <2>1. CASE Skip(p, s)
    BY <2>1, WakeKept DEF Skip
  <2>2. CASE StartAttempt(p, s)
    <3>1. entries[s] \in Entry
      BY <2>2 DEF StartAttempt, Queued, Inv, TypeOK
    <3>2. PICK e : e = [entries[s] EXCEPT !.waiting = entries[s].failures > 0]
      OBVIOUS
    <3>3. (entries[s].failures > 0) \in BOOLEAN
      OBVIOUS
    <3>4. e \in Entry /\ e.blocked = entries[s].blocked
      BY <3>1, <3>2, <3>3 DEF Entry
    <3>5. QED BY <1>6, <2>2, <3>1, <3>2, <3>4 DEF StartAttempt
  <2>3. CASE DropMootDestroy(p, s)
    BY <1>2, <2>3 DEF DropMootDestroy
  <2>4. QED BY <1>8, <2>1, <2>2, <2>3
<1>9. ASSUME NEW p \in Passes, PassSettles(p) \/ StartFollowUp(p) PROVE WakeInv'
  <2>1. CASE PassSettles(p)
    BY <1>2, <2>1 DEF PassSettles, RearmAfterPass
  <2>2. CASE StartFollowUp(p)
    BY <2>2, WakeKept DEF StartFollowUp
  <2>3. QED BY <1>9, <2>1, <2>2
<1>10. ASSUME NEW a \in attempts, Answered(a) PROVE WakeInv'
  <2>1. a.subject \in Subjects /\ entries[a.subject] \in Entry
    BY AttemptParts, AttemptEntry DEF Inv
  <2>2. UNCHANGED <<linkVars, drainInFlight>>
    BY <1>10 DEF Answered, ExportDelta, NotReady, ReloadDeleted, GenesisAcked,
       DeltaAcked, DestroyAcked, Busy, Cancelled, NetworkFails, Refused,
       PendingDependencies, TerminallyRefused, passVars
  <2>3. ASSUME NEW e, NEW failure, Ends(a, e, failure) PROVE WakeInv'
    BY <1>2, <2>2, <2>3 DEF Ends, SetEntry
  <2>4. CASE ExportDelta(a)
    BY <2>2, <2>3, <2>4, WakeKept DEF ExportDelta
  <2>5. CASE GenesisAcked(a)
    BY <1>2, <2>2, <2>5 DEF GenesisAcked, SetEntry
  <2>6. CASE Cancelled(a)
    <3>1. PICK e : e = [entries[a.subject] EXCEPT !.last = "cancelled"]
      OBVIOUS
    <3>2. e \in Entry /\ e.blocked = entries[a.subject].blocked
      BY <2>1, <3>1 DEF Entry, Failures
    <3>3. QED BY <1>6, <2>1, <2>2, <2>6, <3>1, <3>2 DEF Cancelled
  <2>7. CASE NotReady(a) \/ ReloadDeleted(a) \/ DeltaAcked(a) \/ DestroyAcked(a)
    BY <2>3, <2>7 DEF NotReady, ReloadDeleted, DeltaAcked, DestroyAcked
  <2>8. CASE \/ Busy(a) \/ NetworkFails(a)
             \/ PendingDependencies(a) \/ TerminallyRefused(a)
    BY <2>3, <2>8
       DEF Busy, NetworkFails, PendingDependencies, TerminallyRefused
  <2>9. CASE \E failure \in {"refused", "parent", "error"} : Refused(a, failure)
    BY <2>3, <2>9 DEF Refused
  <2>10. QED BY <1>10, <2>4, <2>5, <2>6, <2>7, <2>8, <2>9 DEF Answered
<1>11. ASSUME NEW c \in calls, CallReturns(c) PROVE WakeInv'
  BY <1>11 DEF CallReturns, WakeInv, NoLostWakeup, passVars
<1>12. CASE TimerFires
  BY <1>12, Drained DEF TimerFires, WakeInv, NoLostWakeup, linkVars
<1>13. CASE SocketOpens
  BY <1>13, Drained DEF SocketOpens, WakeInv, NoLostWakeup, Drainable
<1>14. CASE SocketOpensUnauthenticated
  BY <1>14, AuthAssumption DEF SocketOpensUnauthenticated, WakeInv
<1>15. CASE SocketCloses
  BY <1>15 DEF SocketCloses, WakeInv
<1>16. CASE DriveSyncFinishes
  BY <1>2, <1>16 DEF DriveSyncFinishes
<1>17. QED
  BY <1>4, <1>5, <1>7, <1>8, <1>9, <1>10, <1>11, <1>12, <1>13, <1>14, <1>15,
     <1>16 DEF Next

THEOREM WakeInvariance == Spec => []WakeInv
<1>1. Init => WakeInv
  BY DEF Init, WakeInv, NoLostWakeup
<1>2. QED BY <1>1, WakeStep, Invariance, PTL DEF Spec

\* Over an authenticated socket, what may be sent always has a timer, a
\* running pass or a chained one that will send it, whether or not sockets
\* open unauthenticated at other times.
THEOREM AuthenticatedWakeup == Spec => [](socket = "open" => NoLostWakeup)
<1>1. WakeInv => (socket = "open" => NoLostWakeup)
  BY DEF WakeInv
<1>2. QED BY <1>1, WakeInvariance, PTL

\* Where authentication does not fail, that holds whenever the store takes
\* itself to be connected.
THEOREM WakeupIsNotLost ==
  ASSUME ~AuthMayFail PROVE Spec => []NoLostWakeup
<1>1. TypeOK /\ WakeInv => NoLostWakeup
  BY DEF TypeOK, WakeInv, NoLostWakeup
<1>2. QED BY <1>1, TypeCorrect, WakeInvariance, PTL

=============================================================================
