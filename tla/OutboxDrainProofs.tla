------------------------- MODULE OutboxDrainProofs -------------------------
(***************************************************************************)
(* What holds of OutboxDrain for every set of subjects, tiers and bounds:  *)
(* its type invariant; that passes never overlap, so that no subject has   *)
(* two requests under way; and that tiers are drained one after another.   *)
(***************************************************************************)
EXTENDS OutboxDrain, TLAPS

\* Nearly every step leaves both history variables alone.
USE DEF history

-----------------------------------------------------------------------------
(* The helpers on entries keep an entry an entry. *)

LEMMA NewEntryType == NewEntry \in Entry
  BY BoundsAssumption DEF NewEntry, Entry, Failures

LEMMA NoFailures == 0 \in 0..BlockAfter
  BY BoundsAssumption

LEMMA EntryNotNone == \A e \in Entry : e # None
  BY NoneAssumption

LEMMA RearmedType ==
  ASSUME NEW e \in Entry PROVE Rearmed(e) \in Entry
  BY NoFailures DEF Rearmed, Entry

LEMMA MarkDirtyType ==
  ASSUME NEW e \in Entry \cup {None} PROVE MarkDirty(e) \in Entry
<1>1. CASE e = None
  BY <1>1, NewEntryType DEF MarkDirty
<1>2. CASE e # None /\ e.blocked
  <2>1. Rearmed(e) \in Entry
    BY <1>2, RearmedType
  <2>2. [Rearmed(e) EXCEPT !.rearmed = FALSE] \in Entry
    BY <2>1 DEF Entry
  <2>3. QED BY <1>2, <2>2 DEF MarkDirty
<1>3. CASE e # None /\ ~e.blocked
  BY <1>3 DEF MarkDirty
<1>4. QED BY <1>1, <1>2, <1>3

LEMMA SetDestroyCommitType ==
  ASSUME NEW e \in Entry \cup {None} PROVE SetDestroyCommit(e) \in Entry
<1> DEFINE kept == IF e = None THEN NewEntry
                   ELSE IF e.blocked THEN Rearmed(e) ELSE e
<1>1. kept \in Entry
  BY NewEntryType, RearmedType
<1> HIDE DEF kept
<1>2. [kept EXCEPT !.destroy = TRUE] \in Entry
  BY <1>1 DEF Entry
<1>3. QED BY <1>2 DEF SetDestroyCommit, kept

LEMMA ClearDirtyType ==
  ASSUME NEW e \in Entry PROVE ClearDirty(e) \in Entry \cup {None}
  BY DEF ClearDirty

LEMMA SucceededType ==
  ASSUME NEW e \in Entry \cup {None} PROVE Succeeded(e) \in Entry \cup {None}
<1>1. CASE e = None
  BY <1>1 DEF Succeeded
<1>2. CASE e # None
  <2>1. e \in Entry
    BY <1>2
  <2>2. [e EXCEPT !.last = "none", !.failures = 0, !.waiting = FALSE] \in Entry
    BY <2>1, NoFailures DEF Entry, Failures
  <2>3. QED BY <1>2, <2>2 DEF Succeeded
<1>3. QED BY <1>1, <1>2

LEMMA FailedType ==
  ASSUME NEW e \in Entry, NEW failure \in Failures
  PROVE  Failed(e, failure) \in Entry
<1> DEFINE long == e.failures + 1 >= BlockAfter
           count == IF long THEN BlockAfter ELSE e.failures + 1
<1>1. e.failures \in 0..BlockAfter
  BY DEF Entry
<1>2. count \in 0..BlockAfter
  BY <1>1, BoundsAssumption
<1>3. (long /\ failure \in Blocking) \in BOOLEAN
  OBVIOUS
<1> HIDE DEF long, count
<1>4. [e EXCEPT !.failures = count, !.waiting = TRUE, !.last = failure,
                !.blocked = long /\ failure \in Blocking] \in Entry
  BY <1>2, <1>3 DEF Entry
<1>5. QED BY <1>4 DEF Failed, long, count

-----------------------------------------------------------------------------
(* Drain and the end of an attempt keep what they change within its type. *)

LEMMA DrainType ==
  ASSUME TypeOK, NEW e, Drain(e)
  PROVE  /\ passes' \in [Passes -> Pass]
         /\ drainInFlight' \in Passes \cup {None}
         /\ drainFollowUpQueued' \in BOOLEAN
<1>1. CASE ShareFollowUp
  BY <1>1 DEF Drain, TypeOK, passVars
<1>2. CASE ~ShareFollowUp
  <2> DEFINE p == NextSlot
  <2>1. p \in Passes
    BY <1>2 DEF Drain, FreeSlots, NextSlot
  <2>2. QueuedIn(e) \in SUBSET Subjects
    BY DEF QueuedIn
  <2>3. CASE drainInFlight = None
    BY <1>2, <2>1, <2>2, <2>3 DEF Drain, TypeOK, Pass
  <2>4. CASE drainInFlight # None
    BY <1>2, <2>1, <2>4 DEF Drain, TypeOK, Pass
  <2>5. QED BY <2>3, <2>4
<1>3. QED BY <1>1, <1>2

LEMMA DetachedType ==
  ASSUME TypeOK, NEW s, NEW failure \in Failures
  PROVE  Detached(s, failure) \subseteq Call
  BY DEF TypeOK, Detached, Call

LEMMA TriedType ==
  ASSUME NEW s, NEW cs \in SUBSET Call
  PROVE  Tried(s, cs) \subseteq Call
  BY DEF Tried, Call

LEMMA RescheduleType ==
  ASSUME TypeOK, NEW e, Reschedule(e) PROVE outboxDrainTimer' \in BOOLEAN
  BY DEF TypeOK, Reschedule, Drainable

LEMMA SetEntryType ==
  ASSUME TypeOK, NEW s \in Subjects, NEW e \in Entry \cup {None},
         NEW failure \in Failures, SetEntry(s, e, failure)
  PROVE  /\ entries' \in [Subjects -> Entry \cup {None}]
         /\ calls' \subseteq Call
         /\ outboxDrainTimer' \in BOOLEAN
<1>1. entries' \in [Subjects -> Entry \cup {None}]
  BY DEF TypeOK, SetEntry
<1>2. calls' \subseteq Call
  BY DetachedType DEF TypeOK, SetEntry
<1>3. outboxDrainTimer' \in BOOLEAN
  BY RescheduleType DEF SetEntry
<1>4. QED BY <1>1, <1>2, <1>3

LEMMA EndsType ==
  ASSUME TypeOK, NEW a \in attempts, NEW e \in Entry \cup {None},
         NEW failure \in Failures, Ends(a, e, failure)
  PROVE  /\ entries' \in [Subjects -> Entry \cup {None}]
         /\ calls' \subseteq Call
         /\ outboxDrainTimer' \in BOOLEAN
         /\ attempts' \subseteq Attempt
<1>1. a.subject \in Subjects
  BY DEF TypeOK, Attempt
<1>2. SetEntry(a.subject, e, failure) /\ attempts' \subseteq Attempt
  BY DEF Ends, TypeOK
<1>3. QED BY <1>1, <1>2, SetEntryType

LEMMA AppliedType ==
  ASSUME TypeOK, NEW a \in attempts
  PROVE  Applied(a) \in [Subjects -> ServerCopy]
<1> DEFINE s == a.subject
           old == server[s]
           new == CASE a.step = "genesis" /\ old.state = "none" ->
                         [state |-> "live", version |-> 0]
                    [] a.step = "delta" /\ old.state = "live" ->
                         [old EXCEPT !.version = IF @ < a.upto THEN a.upto
                                                 ELSE @]
                    [] a.step = "destroy" /\ old.state = "live" ->
                         [old EXCEPT !.state = "gone"]
                    [] OTHER -> old
<1>1. s \in Subjects /\ old \in ServerCopy /\ a.upto \in Versions
  BY DEF TypeOK, Attempt
<1>2. new \in ServerCopy
  <2>1. CASE a.step = "genesis" /\ old.state = "none"
    <3>1. 0 \in Versions
      BY BoundsAssumption DEF Versions
    <3>2. QED BY <2>1, <3>1 DEF ServerCopy
  <2>2. CASE a.step = "delta" /\ old.state = "live"
    BY <1>1, <2>2 DEF ServerCopy
  <2>3. CASE a.step = "destroy" /\ old.state = "live"
    BY <1>1, <2>3 DEF ServerCopy
  <2>4. CASE /\ ~(a.step = "genesis" /\ old.state = "none")
             /\ ~(a.step = "delta" /\ old.state = "live")
             /\ ~(a.step = "destroy" /\ old.state = "live")
    BY <1>1, <2>4
  <2>5. QED BY <2>1, <2>2, <2>3, <2>4
<1> HIDE DEF new
<1>3. Applied(a) = [server EXCEPT ![s] = new]
  BY DEF Applied, new
<1>4. QED BY <1>1, <1>2, <1>3 DEF TypeOK

\* An attempt's entry, where it has one.  (It always has; that takes another
\* invariant, and the actions below mention what they need.)
LEMMA AttemptParts ==
  ASSUME TypeOK, NEW a \in attempts
  PROVE  /\ a.subject \in Subjects /\ a.pass \in Passes
         /\ a.upto \in Versions
         /\ entries[a.subject] \in Entry \cup {None}
         /\ resource[a.subject] \in Resource
         /\ resource[a.subject].edits \in Versions
  BY DEF TypeOK, Attempt, Resource

-----------------------------------------------------------------------------
(***************************************************************************)
(* The inductive invariant.  OneAttemptPerSubject does not hold by itself: *)
(* that two attempts are of one pass needs that at most one pass runs,     *)
(* which needs that a pass which starts while drainInFlight is None really *)
(* is alone, and that a chained pass is behind the one that runs.          *)
(***************************************************************************)
Running(p) == passes[p].phase = "running"
Chained(p) == passes[p].phase = "queued"

PassInv ==
  /\ \A p, q \in Passes : Running(p) /\ Running(q) => p = q
  /\ \A p \in Passes : Chained(p) =>
       /\ drainFollowUpQueued /\ drainInFlight = p
       /\ \A q \in Passes : Running(q) => passes[p].behind = q
  /\ drainFollowUpQueued =>
       drainInFlight \in Passes /\ Chained(drainInFlight)
  /\ \A p \in Passes : Running(p) /\ ~drainFollowUpQueued => drainInFlight = p

AttemptInv ==
  /\ \A a \in attempts :
       /\ Running(a.pass)
       /\ a.subject \notin passes[a.pass].todo
       /\ Queued(a.subject)
  /\ OneAttemptPerSubject
  /\ TierBarrier

Inv == TypeOK /\ PassInv /\ AttemptInv

LEMMA NoneNotPass == None \notin Passes
  BY NoneAssumption, PassesAssumption

LEMMA DrainPasses ==
  ASSUME TypeOK, PassInv, NEW e, Drain(e)
  PROVE  /\ PassInv'
         /\ \A p \in Passes : Running(p) => passes'[p] = passes[p]
<1>1. CASE ShareFollowUp
  BY <1>1 DEF Drain, PassInv, passVars, Running, Chained
<1>2. CASE ~ShareFollowUp
  <2>1. PICK p \in Passes : p = NextSlot /\ passes[p].phase = "free"
    BY <1>2 DEF Drain, FreeSlots, NextSlot
  <2>2. ~drainFollowUpQueued
    BY <1>2, NoneNotPass DEF ShareFollowUp, PassInv
  <2>3. CASE drainInFlight = None
    <3>1. \A q \in Passes : ~Running(q) /\ ~Chained(q)
      BY <2>2, <2>3, NoneNotPass DEF PassInv
    <3>2. /\ passes' = [passes EXCEPT ![p] =
               [phase |-> "running", todo |-> QueuedIn(e), behind |-> None]]
          /\ drainInFlight' = p /\ ~drainFollowUpQueued'
      BY <1>2, <2>1, <2>2, <2>3 DEF Drain
    <3>3. Running(p)' /\ ~Chained(p)'
      BY <2>1, <3>2 DEF TypeOK, Running, Chained
    <3>4. \A q \in Passes \ {p} : ~Running(q)' /\ ~Chained(q)'
      BY <3>1, <3>2 DEF TypeOK, Running, Chained
    <3>5. QED BY <2>1, <3>1, <3>2, <3>3, <3>4 DEF PassInv
  <2>4. CASE drainInFlight # None
    <3>1. \A q \in Passes : ~Chained(q)
      BY <2>2 DEF PassInv
    <3>2. /\ passes' = [passes EXCEPT ![p] =
               [phase |-> "queued", todo |-> {}, behind |-> drainInFlight]]
          /\ drainInFlight' = p /\ drainFollowUpQueued'
      BY <1>2, <2>1, <2>4 DEF Drain
    <3>3. ~Running(p)' /\ Chained(p)' /\ passes'[p].behind = drainInFlight
      BY <2>1, <3>2 DEF TypeOK, Running, Chained
    <3>4. \A q \in Passes \ {p} :
            /\ passes'[q] = passes[q]
            /\ Running(q)' <=> Running(q)
            /\ ~Chained(q)'
      BY <3>1, <3>2 DEF TypeOK, Running, Chained
    <3>5. ~Running(p)
      BY <2>1 DEF Running
    <3>6. \A q \in Passes : Running(q)' => passes'[p].behind = q
      BY <2>2, <3>3, <3>4 DEF PassInv
    <3>7. QED BY <2>1, <3>2, <3>3, <3>4, <3>5, <3>6 DEF PassInv
  <2>5. QED BY <2>3, <2>4
<1>3. QED BY <1>1, <1>2

LEMMA PassStep ==
  ASSUME TypeOK, PassInv, [Next]_vars
  PROVE  PassInv'
<1>1. CASE UNCHANGED passVars
  BY <1>1 DEF PassInv, passVars, Running, Chained
<1>2. CASE \E e : Drain(e)
  BY <1>2, DrainPasses
<1>3. ASSUME NEW p \in Passes, NEW s \in Subjects, Taken(p, s),
             UNCHANGED <<drainInFlight, drainFollowUpQueued>>
      PROVE  PassInv'
  <2>1. \A q \in Passes : /\ passes'[q].phase = passes[q].phase
                          /\ passes'[q].behind = passes[q].behind
    BY <1>3 DEF Taken, TypeOK, Pass
  <2>2. QED BY <1>3, <2>1 DEF PassInv, Running, Chained
<1>4. ASSUME NEW p \in Passes, PassSettles(p)
      PROVE  PassInv'
  <2>1. Running(p)
    BY <1>4 DEF PassSettles, Running
  <2>2. \A q \in Passes : ~Running(q)'
    BY <1>4, <2>1 DEF PassSettles, PassInv, Running, AfterSettle, FreePass,
                      TypeOK, Pass
  <2>3. \A q \in Passes : Chained(q)' => Chained(q)
    BY <1>4 DEF PassSettles, Chained, AfterSettle, FreePass, TypeOK, Pass
  <2>4. \A q \in Passes : Chained(q) => Chained(q)' /\ q # p
    BY <1>4, <2>1 DEF PassSettles, Chained, Running, AfterSettle, FreePass,
                      TypeOK, Pass
  <2>5. drainFollowUpQueued' = drainFollowUpQueued
    BY <1>4 DEF PassSettles
  <2>6. drainInFlight' = ClearOwnInFlight(p)
    BY <1>4 DEF PassSettles
  <2>7. \A q \in Passes : Chained(q) => drainInFlight' = drainInFlight
    BY <2>4, <2>6 DEF PassInv, ClearOwnInFlight
  <2>8. QED BY <2>2, <2>3, <2>4, <2>5, <2>7 DEF PassInv
<1>5. ASSUME NEW p \in Passes, StartFollowUp(p)
      PROVE  PassInv'
  <2>1. Chained(p) /\ passes[p].behind = None /\ drainInFlight = p
    BY <1>5 DEF StartFollowUp, PassInv, Chained
  <2>2. \A q \in Passes : ~Running(q) /\ (Chained(q) => q = p)
    BY <2>1, NoneNotPass DEF PassInv
  <2>3. /\ Running(p)' /\ ~Chained(p)' /\ ~drainFollowUpQueued'
        /\ drainInFlight' = p
    BY <1>5, <2>1 DEF StartFollowUp, Running, Chained, TypeOK, Pass
  <2>4. \A q \in Passes \ {p} : ~Running(q)' /\ ~Chained(q)'
    BY <1>5, <2>2 DEF StartFollowUp, Running, Chained, TypeOK, Pass
  <2>5. QED BY <2>3, <2>4 DEF PassInv
<1>6. QED
  <2>1. CASE UNCHANGED vars
    BY <1>1, <2>1 DEF vars, passVars
  <2>2. ASSUME NEW s \in Subjects, Edit(s) \/ Elapse(s) PROVE PassInv'
    BY <1>1, <2>2 DEF Edit, Elapse
  <2>3. ASSUME NEW s \in Subjects, Save(s) \/ Destroy(s) PROVE PassInv'
    BY <1>1, <1>2, <2>3 DEF Save, Destroy, passVars
  <2>4. ASSUME NEW p \in Passes, NEW s \in Subjects,
               Skip(p, s) \/ StartAttempt(p, s) \/ DropMootDestroy(p, s)
        PROVE  PassInv'
    BY <1>3, <2>4 DEF Skip, StartAttempt, DropMootDestroy
  <2>5. ASSUME NEW a \in attempts, Answered(a) PROVE PassInv'
    BY <1>1, <2>5 DEF Answered, ExportDelta, NotReady, ReloadDeleted, GenesisAcked,
       DeltaAcked, DestroyAcked, Busy, Cancelled, NetworkFails, Refused,
       PendingDependencies, TerminallyRefused, passVars
  <2>6. ASSUME NEW c \in calls, CallReturns(c) PROVE PassInv'
    BY <1>1, <2>6 DEF CallReturns, passVars
  <2>7. CASE TimerFires \/ SocketOpens
    BY <1>1, <1>2, <2>7 DEF TimerFires, SocketOpens, passVars
  <2>8. CASE SocketOpensUnauthenticated \/ SocketCloses \/ DriveSyncFinishes
    BY <1>1, <2>8 DEF SocketOpensUnauthenticated, SocketCloses,
       DriveSyncFinishes, passVars
  <2>9. QED
    BY <1>4, <1>5, <2>1, <2>2, <2>3, <2>4, <2>5, <2>6, <2>7, <2>8 DEF Next

-----------------------------------------------------------------------------
(* Types are preserved. *)

LEMMA AttemptEntry ==
  ASSUME TypeOK, AttemptInv, NEW a \in attempts
  PROVE  entries[a.subject] \in Entry
  BY AttemptParts DEF AttemptInv, Queued

LEMMA LossType ==
  ASSUME TypeOK, NEW a \in attempts, NotApplied \/ AnswerLost(a)
  PROVE  server' \in [Subjects -> ServerCopy] /\ unanswered' \subseteq Subjects
<1>1. CASE NotApplied
  BY <1>1 DEF NotApplied, TypeOK
<1>2. CASE AnswerLost(a)
  <2>1. server' \in [Subjects -> ServerCopy]
    BY <1>2, AppliedType DEF AnswerLost
  <2>2. unanswered' \subseteq Subjects
    BY <1>2, AttemptParts DEF AnswerLost, TypeOK
  <2>3. QED BY <2>1, <2>2
<1>3. QED BY <1>1, <1>2

LEMMA AnsweredType ==
  ASSUME TypeOK, AttemptInv, NEW a \in attempts, Answered(a)
  PROVE  TypeOK'
<1> DEFINE s == a.subject
<1>1. s \in Subjects /\ entries[s] \in Entry /\ a.pass \in Passes
  BY AttemptParts, AttemptEntry
<1>2. ASSUME NEW e \in Entry \cup {None}, NEW failure \in Failures,
             Ends(a, e, failure),
             resource' \in [Subjects -> Resource],
             server' \in [Subjects -> ServerCopy],
             forsaken' \subseteq Subjects, unanswered' \subseteq Subjects,
             UNCHANGED <<passVars, linkVars>>
      PROVE  TypeOK'
  BY <1>2, EndsType DEF TypeOK, passVars, linkVars
<1>3. CASE ExportDelta(a)
  <2>1. CASE resource[s].edits = resource[s].saved
    <3>1. Succeeded(ClearDirty(entries[s])) \in Entry \cup {None}
      BY <1>1, ClearDirtyType, SucceededType
    <3>2. QED BY <1>2, <1>3, <2>1, <3>1 DEF ExportDelta, TypeOK, Failures
  <2>2. CASE resource[s].edits # resource[s].saved
    <3>1. [a EXCEPT !.step = "delta", !.upto = resource[s].edits] \in Attempt
      BY AttemptParts DEF TypeOK, Attempt
    <3>2. attempts' \subseteq Attempt
      BY <1>3, <2>2, <3>1 DEF ExportDelta, TypeOK
    <3>3. QED BY <1>3, <2>2, <3>2 DEF ExportDelta, TypeOK, passVars, linkVars
  <2>3. QED BY <2>1, <2>2
<1>4. CASE NotReady(a)
  <2>1. Succeeded(entries[s]) \in Entry \cup {None}
    BY <1>1, SucceededType
  <2>2. QED BY <1>2, <1>4, <2>1 DEF NotReady, TypeOK, Failures
<1>5. CASE GenesisAcked(a)
  <2>1. server' \in [Subjects -> ServerCopy]
    BY <1>5, AppliedType DEF GenesisAcked
  <2>2. resource' \in [Subjects -> Resource]
    BY <1>1, <1>5 DEF GenesisAcked, TypeOK, Resource
  <2>3. [a EXCEPT !.step = "reread"] \in Attempt
    BY DEF TypeOK, Attempt
  <2>4. attempts' \subseteq Attempt
    BY <1>5, <2>3 DEF GenesisAcked, TypeOK
  <2>5. [entries[s] EXCEPT !.genesis = FALSE] \in Entry
    BY <1>1 DEF Entry
  <2>6. /\ entries' \in [Subjects -> Entry \cup {None}]
        /\ calls' \subseteq Call
        /\ outboxDrainTimer' \in BOOLEAN
    BY <1>1, <1>5, <2>5, SetEntryType DEF GenesisAcked, Failures
  <2>7. unanswered' \subseteq Subjects /\ forsaken' \subseteq Subjects
    BY <1>5 DEF GenesisAcked, TypeOK
  <2>8. QED
    BY <1>5, <2>1, <2>2, <2>4, <2>6, <2>7
       DEF GenesisAcked, TypeOK, passVars, linkVars
<1>6. CASE DeltaAcked(a)
  <2>1. server' \in [Subjects -> ServerCopy]
    BY <1>6, AppliedType DEF DeltaAcked
  <2>2. resource' \in [Subjects -> Resource]
    BY <1>1, <1>6, AttemptParts
       DEF DeltaAcked, TypeOK, Resource, ExportedVersion
  <2>3. Succeeded(IF CaughtUp(a) THEN ClearDirty(entries[s])
                  ELSE MarkDirty(entries[s])) \in Entry \cup {None}
    BY <1>1, ClearDirtyType, MarkDirtyType, SucceededType
  <2>4. QED BY <1>2, <1>6, <2>1, <2>2, <2>3 DEF DeltaAcked, TypeOK, Failures
<1>7. CASE DestroyAcked(a)
  <2>1. server' \in [Subjects -> ServerCopy]
    BY <1>7, AppliedType DEF DestroyAcked
  <2>2. QED BY <1>2, <1>7, <2>1 DEF DestroyAcked, TypeOK, Failures
<1>8. CASE Busy(a)
  <2>1. [entries[s] EXCEPT !.waiting = TRUE] \in Entry
    BY <1>1 DEF Entry
  <2>2. QED BY <1>2, <1>8, <2>1 DEF Busy, TypeOK, Failures
<1>9. CASE Cancelled(a)
  <2>1. server' \in [Subjects -> ServerCopy] /\ unanswered' \subseteq Subjects
    BY <1>9, LossType DEF Cancelled
  <2>2. entries' \in [Subjects -> Entry \cup {None}]
    <3>1. [entries[s] EXCEPT !.last = "cancelled"] \in Entry
      BY <1>1 DEF Entry, Failures
    <3>2. QED BY <1>1, <1>9, <3>1 DEF Cancelled, TypeOK
  <2>3. QED BY <1>9, <2>1, <2>2 DEF Cancelled, TypeOK, passVars, linkVars
<1>10. CASE NetworkFails(a)
  <2>1. server' \in [Subjects -> ServerCopy] /\ unanswered' \subseteq Subjects
    BY <1>10, LossType DEF NetworkFails
  <2>2. Failed(entries[s], "network") \in Entry
    BY <1>1, FailedType DEF Failures
  <2>3. QED BY <1>2, <1>10, <2>1, <2>2 DEF NetworkFails, TypeOK, Failures
<1>11. ASSUME NEW failure \in {"refused", "parent", "error"},
              Refused(a, failure)
       PROVE  TypeOK'
  <2>1. failure \in Failures
    BY DEF Failures
  <2>2. Failed(entries[s], failure) \in Entry
    BY <1>1, <2>1, FailedType
  <2>3. QED BY <1>2, <1>11, <2>2 DEF Refused, TypeOK, Failures
<1>12. CASE TerminallyRefused(a)
  <2>1. forsaken' \subseteq Subjects
    BY <1>1, <1>12 DEF TerminallyRefused, TypeOK
  <2>2. QED BY <1>2, <1>12, <2>1 DEF TerminallyRefused, TypeOK, Failures
<1>13. CASE ReloadDeleted(a)
  <2>1. Succeeded(ClearDirty(entries[s])) \in Entry \cup {None}
    BY <1>1, ClearDirtyType, SucceededType
  <2>2. Failed(entries[s], "error") \in Entry
    BY <1>1, FailedType DEF Failures
  <2>3. QED BY <1>2, <1>13, <2>1, <2>2 DEF ReloadDeleted, TypeOK, Failures
<1>14. CASE PendingDependencies(a)
  <2>1. [resource[s] EXCEPT !.saved = 0] \in Resource
    BY <1>1, BoundsAssumption DEF TypeOK, Resource, Versions
  <2>2. resource' \in [Subjects -> Resource]
    BY <1>14, <2>1 DEF PendingDependencies, TypeOK
  <2>3. Failed(entries[s], "error") \in Entry
    BY <1>1, FailedType DEF Failures
  <2>4. QED BY <1>2, <1>14, <2>2, <2>3 DEF PendingDependencies, TypeOK, Failures
<1>15. QED
  BY <1>3, <1>4, <1>5, <1>6, <1>7, <1>8, <1>9, <1>10, <1>11, <1>12, <1>13,
     <1>14
     DEF Answered

\* A call that joins the queue of waiting calls is a call.
LEMMA NewCallType ==
  ASSUME TypeOK, NEW s \in Subjects, NEW kind \in {"save", "destroy"},
         NEW pass \in Passes \cup {None}
  PROVE  [kind |-> kind, subject |-> s, version |-> resource[s].edits,
          pass |-> pass, held |-> TRUE, failed |-> "none", tried |-> FALSE]
           \in Call
  BY DEF TypeOK, Resource, Call, Failures

LEMMA CallerType ==
  ASSUME TypeOK, NEW s \in Subjects, Save(s) \/ Destroy(s)
  PROVE  TypeOK'
<1>1. entries' \in [Subjects -> Entry \cup {None}]
  <2>1. CASE Save(s)
    <3> DEFINE e == IF resource[s].state = "none"
                      THEN [NewEntry EXCEPT !.genesis = TRUE]
                      ELSE IF resource[s].dirty THEN MarkDirty(entries[s])
                      ELSE entries[s]
    <3>1. [NewEntry EXCEPT !.genesis = TRUE] \in Entry
      BY NewEntryType DEF Entry
    <3>2. MarkDirty(entries[s]) \in Entry
      BY MarkDirtyType DEF TypeOK
    <3>3. e \in Entry \cup {None}
      BY <3>1, <3>2 DEF TypeOK
    <3>4. entries' = [entries EXCEPT ![s] = e]
      BY <2>1 DEF Save
    <3>5. QED BY <3>3, <3>4 DEF TypeOK
  <2>2. CASE Destroy(s)
    <3>1. SetDestroyCommit(entries[s]) \in Entry
      BY SetDestroyCommitType DEF TypeOK
    <3>2. QED BY <2>2, <3>1 DEF Destroy, TypeOK
  <2>3. QED BY <2>1, <2>2
<1>2. resource' \in [Subjects -> Resource]
  <2>1. [resource[s] EXCEPT !.state = "live"] \in Resource
    BY DEF TypeOK, Resource
  <2>2. [resource[s] EXCEPT !.state = "deleted"] \in Resource
    BY DEF TypeOK, Resource
  <2>3. QED BY <2>1, <2>2 DEF Save, Destroy, TypeOK
<1>3. outboxDrainTimer' \in BOOLEAN
  BY RescheduleType DEF Save, Destroy
<1>4. UNCHANGED <<server, history, attempts, linkVars>>
  BY DEF Save, Destroy
<1>5. CASE serverConnected
  <2>1. Drain(entries')
    BY <1>5 DEF Save, Destroy
  <2>2. /\ passes' \in [Passes -> Pass]
        /\ drainInFlight' \in Passes \cup {None}
        /\ drainFollowUpQueued' \in BOOLEAN
    BY <2>1, DrainType
  <2>3. calls' \subseteq Call
    <3>1. CASE Save(s)
      BY <1>5, <2>2, <3>1, NewCallType DEF Save, TypeOK
    <3>2. CASE Destroy(s)
      BY <1>5, <2>2, <3>2, NewCallType DEF Destroy, TypeOK
    <3>3. QED BY <3>1, <3>2
  <2>4. QED
    BY <1>1, <1>2, <1>3, <1>4, <2>2, <2>3 DEF TypeOK, linkVars
<1>6. CASE ~serverConnected
  <2>1. UNCHANGED <<passVars, calls>>
    BY <1>6 DEF Save, Destroy
  <2>2. QED
    BY <1>1, <1>2, <1>3, <1>4, <2>1 DEF TypeOK, linkVars, passVars
<1>7. QED BY <1>5, <1>6

LEMMA PassActionType ==
  ASSUME TypeOK, NEW p \in Passes, NEW s \in Subjects,
         \/ Skip(p, s) \/ StartAttempt(p, s) \/ DropMootDestroy(p, s)
         \/ PassSettles(p) \/ StartFollowUp(p)
  PROVE  TypeOK'
<1>1. ASSUME Taken(p, s) PROVE passes' \in [Passes -> Pass]
  BY <1>1 DEF Taken, TypeOK, Pass
<1>2. CASE Skip(p, s)
  <2>1. calls' \subseteq Call
    BY <1>2, TriedType DEF Skip, TypeOK
  <2>2. QED BY <1>1, <1>2, <2>1 DEF Skip, TypeOK, linkVars
<1>3. CASE StartAttempt(p, s)
  <2>1. entries[s] \in Entry
    BY <1>3 DEF StartAttempt, Queued, TypeOK
  <2>2. [entries[s] EXCEPT !.waiting = entries[s].failures > 0] \in Entry
    <3>1. (entries[s].failures > 0) \in BOOLEAN
      BY <2>1, BoundsAssumption DEF Entry
    <3>2. QED BY <2>1, <3>1 DEF Entry
  <2>3. entries' \in [Subjects -> Entry \cup {None}]
    BY <1>3, <2>2 DEF StartAttempt, TypeOK
  <2>4. calls' \subseteq Call
    BY <1>3, TriedType DEF StartAttempt, TypeOK
  <2>5. attempts' \subseteq Attempt
    <3>1. 0 \in Versions
      BY BoundsAssumption DEF Versions
    <3>2. FirstStep(entries[s]) \in {"genesis", "export", "delta", "destroy"}
      BY DEF FirstStep
    <3>3. QED BY <1>3, <3>1, <3>2 DEF StartAttempt, TypeOK, Attempt
  <2>6. QED
    BY <1>1, <1>3, <2>3, <2>4, <2>5 DEF StartAttempt, TypeOK, linkVars
<1>4. CASE DropMootDestroy(p, s)
  <2>1. calls' \subseteq Call
    BY <1>4, DetachedType, TriedType DEF DropMootDestroy, Failures
  <2>2. outboxDrainTimer' \in BOOLEAN
    BY <1>4, RescheduleType DEF DropMootDestroy
  <2>3. QED
    BY <1>1, <1>4, <2>1, <2>2 DEF DropMootDestroy, TypeOK, linkVars
<1>5. CASE PassSettles(p)
  <2>1. \A q \in Passes : AfterSettle(p, q) \in Pass
    BY DEF AfterSettle, FreePass, TypeOK, Pass
  <2>2. calls' \subseteq Call
    BY <1>5 DEF PassSettles, TypeOK, Call
  <2>3. outboxDrainTimer' \in BOOLEAN
    BY <1>5, RescheduleType DEF PassSettles, RearmAfterPass
  <2>4. QED
    BY <1>5, <2>1, <2>2, <2>3
       DEF PassSettles, TypeOK, ClearOwnInFlight, linkVars
<1>6. CASE StartFollowUp(p)
  <2>1. QueuedIn(entries) \subseteq Subjects
    BY DEF QueuedIn
  <2>2. [passes[p] EXCEPT !.phase = "running", !.todo = QueuedIn(entries)]
          \in Pass
    BY <2>1 DEF TypeOK, Pass
  <2>3. passes' \in [Passes -> Pass]
    BY <1>6, <2>2 DEF StartFollowUp, TypeOK
  <2>4. QED BY <1>6, <2>3 DEF StartFollowUp, TypeOK, linkVars
<1>7. QED BY <1>2, <1>3, <1>4, <1>5, <1>6

LEMMA TypeStep ==
  ASSUME TypeOK, AttemptInv, [Next]_vars
  PROVE  TypeOK'
<1>1. CASE UNCHANGED vars
  BY <1>1 DEF vars, TypeOK
<1>2. ASSUME NEW s \in Subjects, Edit(s) PROVE TypeOK'
  <2>1. resource' \in [Subjects -> Resource]
    <3>1. resource[s].edits + 1 \in Versions
      BY <1>2, BoundsAssumption DEF Edit, TypeOK, Resource, Versions
    <3>2. QED BY <1>2, <3>1 DEF Edit, TypeOK, Resource
  <2>2. entries' \in [Subjects -> Entry \cup {None}]
    <3>1. MarkDirty(entries[s]) \in Entry
      BY MarkDirtyType DEF TypeOK
    <3>2. QED BY <1>2, <3>1 DEF Edit, TypeOK
  <2>3. outboxDrainTimer' \in BOOLEAN
    BY <1>2, RescheduleType DEF Edit, TypeOK
  <2>4. QED BY <1>2, <2>1, <2>2, <2>3 DEF Edit, TypeOK, linkVars, passVars
<1>3. ASSUME NEW s \in Subjects, Elapse(s) PROVE TypeOK'
  <2>1. [entries[s] EXCEPT !.waiting = FALSE] \in Entry
    BY <1>3 DEF Elapse, Queued, TypeOK, Entry
  <2>2. QED BY <1>3, <2>1 DEF Elapse, TypeOK, linkVars, passVars
<1>4. ASSUME NEW s \in Subjects, Save(s) \/ Destroy(s) PROVE TypeOK'
  BY <1>4, CallerType
<1>5. ASSUME NEW p \in Passes, NEW s \in Subjects,
             Skip(p, s) \/ StartAttempt(p, s) \/ DropMootDestroy(p, s)
      PROVE  TypeOK'
  BY <1>5, PassActionType
<1>6. ASSUME NEW p \in Passes, PassSettles(p) \/ StartFollowUp(p)
      PROVE  TypeOK'
  BY <1>6, PassActionType, SubjectsAssumption
<1>7. ASSUME NEW a \in attempts, Answered(a) PROVE TypeOK'
  BY <1>7, AnsweredType
<1>8. ASSUME NEW c \in calls, CallReturns(c) PROVE TypeOK'
  BY <1>8 DEF CallReturns, TypeOK, passVars
<1>9. CASE TimerFires \/ SocketOpens
  <2>1. UNCHANGED <<entries, resource, server, history, attempts, calls>>
    BY <1>9 DEF TimerFires, SocketOpens
  <2>2. /\ outboxDrainTimer' \in BOOLEAN /\ serverConnected' \in BOOLEAN
        /\ socket' \in {"closed", "unauthenticated", "open"}
    BY <1>9 DEF TimerFires, SocketOpens, TypeOK, linkVars
  <2>3. CASE UNCHANGED passVars
    BY <2>1, <2>2, <2>3 DEF TypeOK, passVars
  <2>4. CASE Drain(entries)
    BY <2>1, <2>2, <2>4, DrainType DEF TypeOK
  <2>5. QED BY <1>9, <2>3, <2>4 DEF TimerFires, SocketOpens
<1>10. CASE SocketOpensUnauthenticated \/ SocketCloses
  BY <1>10 DEF SocketOpensUnauthenticated, SocketCloses, TypeOK, passVars
<1>11. CASE DriveSyncFinishes
  <2>1. \A s \in Subjects : ParentBlocked(entries[s]) =>
          [Rearmed(entries[s]) EXCEPT !.rearmed = TRUE] \in Entry
    <3>1. SUFFICES ASSUME NEW s \in Subjects, ParentBlocked(entries[s])
                   PROVE  [Rearmed(entries[s]) EXCEPT !.rearmed = TRUE] \in Entry
      OBVIOUS
    <3>2. Rearmed(entries[s]) \in Entry
      BY <3>1, RearmedType DEF ParentBlocked, TypeOK
    <3>3. QED BY <3>2 DEF Entry
  <2>2. entries' \in [Subjects -> Entry \cup {None}]
    BY <1>11, <2>1 DEF DriveSyncFinishes, TypeOK
  <2>3. outboxDrainTimer' \in BOOLEAN
    BY <1>11, RescheduleType DEF DriveSyncFinishes
  <2>4. QED BY <1>11, <2>2, <2>3 DEF DriveSyncFinishes, TypeOK, passVars, linkVars
<1>12. QED
  BY <1>1, <1>2, <1>3, <1>4, <1>5, <1>6, <1>7, <1>8, <1>9, <1>10, <1>11 DEF Next

-----------------------------------------------------------------------------
(* Attempts: where they come from and what keeps them apart. *)

\* A step that adds no attempt of another pass, subject or tier, starts no
\* pass while one runs, and takes no entry from under an attempt.
LEMMA AttemptsKept ==
  ASSUME AttemptInv,
         \A b \in attempts' : \E a \in attempts :
           a.pass = b.pass /\ a.subject = b.subject,
         \A b, c \in attempts' : b.subject = c.subject => b = c,
         \A a \in attempts' : Running(a.pass)' /\
           passes'[a.pass].todo \subseteq passes[a.pass].todo,
         \A a \in attempts' : Queued(a.subject)'
  PROVE  AttemptInv'
<1>1. TierBarrier'
  BY DEF AttemptInv, TierBarrier
<1>2. OneAttemptPerSubject'
  BY DEF OneAttemptPerSubject
<1>3. \A b \in attempts' : b.subject \notin passes'[b.pass].todo
  BY DEF AttemptInv
<1>4. QED BY <1>1, <1>2, <1>3 DEF AttemptInv

\* The same for a step that leaves the attempts as they are.
LEMMA AttemptsUntouched ==
  ASSUME AttemptInv, attempts' = attempts,
         \A a \in attempts : Running(a.pass)' /\
           passes'[a.pass].todo \subseteq passes[a.pass].todo,
         \A a \in attempts : Queued(a.subject)'
  PROVE  AttemptInv'
  BY AttemptsKept DEF AttemptInv, OneAttemptPerSubject

\* A drain started or chained by a caller, or none: running passes stay put.
LEMMA AttemptsWhileDraining ==
  ASSUME Inv, attempts' = attempts,
         UNCHANGED passVars \/ \E e : Drain(e),
         \A s \in Subjects : Queued(s) => entries'[s] # None
  PROVE  AttemptInv'
<1>1. \A a \in attempts : a.pass \in Passes /\ a.subject \in Subjects
  BY AttemptParts DEF Inv
<1>2. \A a \in attempts : passes'[a.pass] = passes[a.pass]
  <2>1. CASE UNCHANGED passVars
    BY <2>1 DEF passVars
  <2>2. CASE \E e : Drain(e)
    BY <1>1, <2>2, DrainPasses DEF Inv, AttemptInv
  <2>3. QED BY <2>1, <2>2
<1>3. \A a \in attempts : Running(a.pass)'
  BY <1>2 DEF Inv, AttemptInv, Running
<1>4. \A a \in attempts : Queued(a.subject)'
  BY <1>1 DEF Inv, AttemptInv, Queued
<1>5. QED BY <1>2, <1>3, <1>4, AttemptsUntouched DEF Inv

\* The attempts are all of the pass that runs.
LEMMA AttemptsOfPass ==
  ASSUME Inv, NEW p \in Passes, Running(p)
  PROVE  \A a \in attempts : a.pass = p
  BY AttemptParts DEF Inv, AttemptInv, PassInv

LEMMA PassActionAttempts ==
  ASSUME Inv, NEW p \in Passes, NEW s \in Subjects,
         \/ Skip(p, s) \/ StartAttempt(p, s) \/ DropMootDestroy(p, s)
         \/ PassSettles(p) \/ StartFollowUp(p)
  PROVE  AttemptInv'
<1> USE DEF Inv
<1>1. \A a \in attempts : a.pass \in Passes /\ a.subject \in Subjects
  BY AttemptParts
<1>2. ASSUME Taken(p, s)
      PROVE  \A q \in Passes :
               /\ Running(q)' <=> Running(q)
               /\ passes'[q].todo \subseteq passes[q].todo
  BY <1>2 DEF Taken, TypeOK, Pass, Running
<1>3. CASE Skip(p, s)
  BY <1>1, <1>2, <1>3, AttemptsUntouched DEF Skip, AttemptInv, Queued
<1>4. CASE DropMootDestroy(p, s)
  <2>1. s \in passes[p].todo /\ Running(p)
    BY <1>4 DEF DropMootDestroy, Running
  <2>2. \A a \in attempts : a.subject # s
    BY <2>1, AttemptsOfPass DEF AttemptInv
  <2>3. \A a \in attempts : Queued(a.subject)'
    BY <1>1, <1>4, <2>2 DEF DropMootDestroy, AttemptInv, Queued, TypeOK
  <2>4. QED
    BY <1>1, <1>2, <1>4, <2>3, AttemptsUntouched
       DEF DropMootDestroy, AttemptInv
<1>5. CASE StartAttempt(p, s)
  <2> DEFINE new0 == [pass |-> p, subject |-> s,
                      step |-> FirstStep(entries[s]), upto |-> 0]
  <2>1. PICK new : /\ attempts' = attempts \cup {new}
                   /\ new.pass = p /\ new.subject = s
    <3>1. new0.pass = p /\ new0.subject = s
      OBVIOUS
    <3>2. attempts' = attempts \cup {new0}
      BY <1>5 DEF StartAttempt
    <3>3. QED BY <3>1, <3>2
  <2>2. s \in passes[p].todo /\ Running(p) /\ Queued(s)
    BY <1>5 DEF StartAttempt, Running
  <2>3. \A a \in attempts : a.pass = p /\ a.subject # s
    BY <2>2, AttemptsOfPass DEF AttemptInv
  <2>4. \A a \in attempts : Tier[a.subject] = Tier[s]
    BY <1>5, <2>3 DEF StartAttempt, TierOpen, TierSettled
  <2>5. TierBarrier'
    BY <2>1, <2>4 DEF TierBarrier, AttemptInv
  <2>6. OneAttemptPerSubject'
    BY <2>1, <2>3 DEF OneAttemptPerSubject, AttemptInv
  <2>7. \A a \in attempts' : Running(a.pass)'
    BY <1>1, <1>2, <1>5, <2>1, <2>2 DEF StartAttempt, AttemptInv
  <2>8. \A a \in attempts' : a.subject \notin passes'[a.pass].todo
    <3>1. s \notin passes'[p].todo
      BY <1>5 DEF StartAttempt, Taken, TypeOK, Pass
    <3>2. QED
      BY <1>1, <1>2, <1>5, <2>1, <3>1 DEF StartAttempt, AttemptInv
  <2>9. \A a \in attempts' : Queued(a.subject)'
    <3>1. [entries[s] EXCEPT !.waiting = entries[s].failures > 0] # None
      <4>1. entries[s] \in Entry
        BY <2>2 DEF Queued, TypeOK
      <4>2. (entries[s].failures > 0) \in BOOLEAN
        OBVIOUS
      <4>3. [entries[s] EXCEPT !.waiting = entries[s].failures > 0] \in Entry
        BY <4>1, <4>2 DEF Entry
      <4>4. QED BY <4>3, EntryNotNone
    <3>2. QED
      BY <1>1, <1>5, <2>1, <2>2, <3>1 DEF StartAttempt, AttemptInv, Queued, TypeOK
  <2>10. QED BY <2>5, <2>6, <2>7, <2>8, <2>9 DEF AttemptInv
<1>6. CASE PassSettles(p)
  <2>1. Running(p)
    BY <1>6 DEF PassSettles, Running
  <2>2. attempts = {}
    BY <1>6, <2>1, AttemptsOfPass DEF PassSettles
  <2>3. QED
    BY <1>6, <2>2 DEF PassSettles, AttemptInv, OneAttemptPerSubject, TierBarrier
<1>7. CASE StartFollowUp(p)
  <2>1. \A q \in Passes : ~Running(q)
    BY <1>7, NoneNotPass DEF StartFollowUp, PassInv, Chained
  <2>2. attempts = {}
    BY <1>1, <2>1 DEF AttemptInv
  <2>3. QED
    BY <1>7, <2>2 DEF StartFollowUp, AttemptInv, OneAttemptPerSubject, TierBarrier
<1>8. QED BY <1>3, <1>4, <1>5, <1>6, <1>7

\* An answer ends its own attempt or moves it a step on, and no entry but its
\* own is touched.
LEMMA AnsweredAttempts ==
  ASSUME Inv, NEW a \in attempts, Answered(a)
  PROVE  AttemptInv'
<1> USE DEF Inv
<1> DEFINE s == a.subject
<1>1. s \in Subjects /\ entries[s] \in Entry /\ a.pass \in Passes
  BY AttemptParts, AttemptEntry
<1>2. passes' = passes
  BY DEF Answered, ExportDelta, NotReady, ReloadDeleted, GenesisAcked, DeltaAcked,
     DestroyAcked, Busy, Cancelled, NetworkFails, Refused, PendingDependencies,
     TerminallyRefused, passVars
<1>3. ASSUME attempts' = attempts \ {a},
             \A t \in Subjects \ {s} : entries'[t] = entries[t]
      PROVE  AttemptInv'
  <2>1. \A b \in attempts' : b \in attempts /\ b.subject # s
    BY <1>3 DEF AttemptInv, OneAttemptPerSubject
  <2>2. \A b \in attempts' : Queued(b.subject)'
    BY <1>3, <2>1, AttemptParts DEF AttemptInv, Queued
  <2>3. \A b \in attempts' : Running(b.pass)'
    BY <1>2, <2>1 DEF AttemptInv, Running
  <2>4. QED
    BY <1>2, <2>1, <2>2, <2>3, AttemptsKept DEF AttemptInv, OneAttemptPerSubject
<1>4. ASSUME NEW b, b.pass = a.pass, b.subject = s,
             attempts' = (attempts \ {a}) \cup {b},
             entries'[s] # None,
             \A t \in Subjects \ {s} : entries'[t] = entries[t]
      PROVE  AttemptInv'
  <2>1. \A c \in attempts' : c = b \/ (c \in attempts /\ c.subject # s)
    BY <1>4 DEF AttemptInv, OneAttemptPerSubject
  <2>2. \A c \in attempts' : Queued(c.subject)'
    BY <1>4, <2>1, AttemptParts DEF AttemptInv, Queued
  <2>3. \A c \in attempts' : Running(c.pass)'
    BY <1>2, <1>4, <2>1 DEF AttemptInv, Running
  <2>4. \A c, d \in attempts' : c.subject = d.subject => c = d
    BY <1>4, <2>1 DEF AttemptInv, OneAttemptPerSubject
  <2>5. \A c \in attempts' : \E d \in attempts :
          d.pass = c.pass /\ d.subject = c.subject
    BY <1>4, <2>1
  <2>6. QED BY <1>2, <2>2, <2>3, <2>4, <2>5, AttemptsKept
<1>5. ASSUME NEW e, NEW failure, Ends(a, e, failure)
      PROVE  AttemptInv'
  BY <1>1, <1>3, <1>5 DEF Ends, SetEntry, TypeOK
<1>6. CASE ExportDelta(a)
  <2>1. CASE resource[s].edits = resource[s].saved
    BY <1>5, <1>6, <2>1 DEF ExportDelta
  <2>2. CASE resource[s].edits # resource[s].saved
    <3> DEFINE b == [a EXCEPT !.step = "delta", !.upto = resource[s].edits]
    <3>1. b.pass = a.pass /\ b.subject = s
      BY DEF TypeOK, Attempt
    <3>2. attempts' = (attempts \ {a}) \cup {b} /\ entries' = entries
      BY <1>6, <2>2 DEF ExportDelta
    <3>3. entries'[s] # None
      BY <1>1, <3>2, EntryNotNone
    <3> HIDE DEF b
    <3>4. QED BY <1>4, <3>1, <3>2, <3>3
  <2>3. QED BY <2>1, <2>2
<1>7. CASE GenesisAcked(a)
  <2> DEFINE b == [a EXCEPT !.step = "reread"]
             e == [entries[s] EXCEPT !.genesis = FALSE]
  <2>1. b.pass = a.pass /\ b.subject = s
    BY DEF TypeOK, Attempt
  <2>2. e \in Entry
    BY <1>1 DEF Entry
  <2>3. attempts' = (attempts \ {a}) \cup {b} /\ entries' = [entries EXCEPT ![s] = e]
    BY <1>7 DEF GenesisAcked, SetEntry
  <2> HIDE DEF b, e
  <2>4. /\ entries'[s] # None
        /\ \A t \in Subjects \ {s} : entries'[t] = entries[t]
    BY <1>1, <2>2, <2>3, EntryNotNone DEF TypeOK
  <2>5. QED BY <1>4, <2>1, <2>3, <2>4
<1>8. CASE Cancelled(a)
  BY <1>1, <1>3, <1>8 DEF Cancelled, TypeOK
<1>9. CASE NotReady(a) \/ ReloadDeleted(a) \/ DeltaAcked(a)
  BY <1>5, <1>9 DEF NotReady, ReloadDeleted, DeltaAcked
<1>10. CASE DestroyAcked(a) \/ Busy(a) \/ NetworkFails(a) \/ TerminallyRefused(a)
  BY <1>5, <1>10 DEF DestroyAcked, Busy, NetworkFails, TerminallyRefused
<1>12. CASE PendingDependencies(a)
  BY <1>5, <1>12 DEF PendingDependencies
<1>11. ASSUME NEW failure \in {"refused", "parent", "error"},
              Refused(a, failure)
       PROVE  AttemptInv'
  BY <1>5, <1>11 DEF Refused
<1>13. QED BY <1>6, <1>7, <1>8, <1>9, <1>10, <1>11, <1>12 DEF Answered

\* What the application and the timers do to an entry never takes it out of
\* the queue.
LEMMA QueuedStays ==
  ASSUME TypeOK, NEW s \in Subjects,
         Edit(s) \/ Save(s) \/ Destroy(s) \/ Elapse(s)
  PROVE  \A t \in Subjects : Queued(t) => entries'[t] # None
<1>1. ASSUME NEW e \in Entry, entries' = [entries EXCEPT ![s] = e]
      PROVE  \A t \in Subjects : Queued(t) => entries'[t] # None
  BY <1>1, EntryNotNone DEF TypeOK, Queued
<1>2. ASSUME entries' = entries
      PROVE  \A t \in Subjects : Queued(t) => entries'[t] # None
  BY <1>2 DEF Queued
<1>3. MarkDirty(entries[s]) \in Entry /\ SetDestroyCommit(entries[s]) \in Entry
  BY MarkDirtyType, SetDestroyCommitType DEF TypeOK
<1>4. CASE Edit(s)
  BY <1>1, <1>2, <1>3, <1>4 DEF Edit
<1>5. CASE Save(s)
  <2>1. [NewEntry EXCEPT !.genesis = TRUE] \in Entry
    BY NewEntryType DEF Entry
  <2>2. CASE resource[s].state = "none"
    BY <1>1, <1>5, <2>1, <2>2 DEF Save
  <2>3. CASE resource[s].state # "none" /\ resource[s].dirty
    BY <1>1, <1>3, <1>5, <2>3 DEF Save
  <2>4. CASE resource[s].state # "none" /\ ~resource[s].dirty
    BY <1>2, <1>5, <2>4 DEF Save, TypeOK
  <2>5. QED BY <2>2, <2>3, <2>4
<1>6. CASE Destroy(s)
  BY <1>1, <1>3, <1>6 DEF Destroy
<1>7. CASE Elapse(s)
  <2>1. [entries[s] EXCEPT !.waiting = FALSE] \in Entry
    BY <1>7 DEF Elapse, Queued, TypeOK, Entry
  <2>2. QED BY <1>1, <1>7, <2>1 DEF Elapse
<1>8. QED BY <1>4, <1>5, <1>6, <1>7

LEMMA AttemptStep ==
  ASSUME Inv, [Next]_vars
  PROVE  AttemptInv'
<1>1. CASE UNCHANGED vars
  BY <1>1 DEF vars, Inv, AttemptInv, OneAttemptPerSubject, TierBarrier, Running,
     Queued
<1>2. ASSUME NEW s \in Subjects,
             Edit(s) \/ Save(s) \/ Destroy(s) \/ Elapse(s)
      PROVE  AttemptInv'
  <2>1. \A t \in Subjects : Queued(t) => entries'[t] # None
    BY <1>2, QueuedStays DEF Inv
  <2>2. attempts' = attempts
    BY <1>2 DEF Edit, Save, Destroy, Elapse
  <2>3. UNCHANGED passVars \/ \E e : Drain(e)
    BY <1>2 DEF Edit, Save, Destroy, Elapse
  <2>4. QED BY <2>1, <2>2, <2>3, AttemptsWhileDraining
<1>3. ASSUME NEW p \in Passes, NEW s \in Subjects,
             Skip(p, s) \/ StartAttempt(p, s) \/ DropMootDestroy(p, s)
      PROVE  AttemptInv'
  BY <1>3, PassActionAttempts
<1>4. ASSUME NEW p \in Passes, PassSettles(p) \/ StartFollowUp(p)
      PROVE  AttemptInv'
  BY <1>4, PassActionAttempts, SubjectsAssumption
<1>5. ASSUME NEW a \in attempts, Answered(a) PROVE AttemptInv'
  BY <1>5, AnsweredAttempts
<1>6. ASSUME NEW c \in calls, CallReturns(c) PROVE AttemptInv'
  BY <1>6, AttemptsWhileDraining DEF CallReturns, Queued
<1>7. CASE \/ TimerFires \/ SocketOpens
           \/ SocketOpensUnauthenticated \/ SocketCloses
  <2>1. UNCHANGED <<entries, attempts>> /\ (UNCHANGED passVars \/ \E e : Drain(e))
    BY <1>7 DEF TimerFires, SocketOpens, SocketOpensUnauthenticated, SocketCloses
  <2>2. QED BY <2>1, AttemptsWhileDraining DEF Queued
<1>8. CASE DriveSyncFinishes
  <2>1. UNCHANGED <<passVars, attempts>>
    BY <1>8 DEF DriveSyncFinishes
  <2>2. \A t \in Subjects : Queued(t) => entries'[t] # None
    <3>1. SUFFICES ASSUME NEW t \in Subjects, Queued(t) PROVE entries'[t] # None
      OBVIOUS
    <3>2. Rearmed(entries[t]) \in Entry
      BY <3>1, RearmedType DEF Queued, Inv, TypeOK
    <3>3. [Rearmed(entries[t]) EXCEPT !.rearmed = TRUE] \in Entry
      BY <3>2 DEF Entry
    <3>4. QED BY <1>8, <3>1, <3>3, EntryNotNone DEF DriveSyncFinishes, Queued
  <2>3. QED BY <2>1, <2>2, AttemptsWhileDraining
<1>9. QED
  BY <1>1, <1>2, <1>3, <1>4, <1>5, <1>6, <1>7, <1>8 DEF Next

-----------------------------------------------------------------------------
(* The theorems *)

LEMMA InitInv == Init => Inv
<1> SUFFICES ASSUME Init PROVE Inv
  OBVIOUS
<1>1. 0 \in Versions
  BY BoundsAssumption DEF Versions
<1>2. TypeOK
  <2>1. resource \in [Subjects -> Resource] /\ server \in [Subjects -> ServerCopy]
    BY <1>1 DEF Init, Resource, ServerCopy
  <2>2. passes \in [Passes -> Pass]
    BY DEF Init, Pass, FreePass
  <2>3. QED BY <2>1, <2>2 DEF Init, TypeOK
<1>3. PassInv
  BY DEF Init, PassInv, Running, Chained, FreePass
<1>4. AttemptInv
  BY DEF Init, AttemptInv, OneAttemptPerSubject, TierBarrier
<1>5. QED BY <1>2, <1>3, <1>4 DEF Inv

LEMMA NextInv == Inv /\ [Next]_vars => Inv'
  BY TypeStep, PassStep, AttemptStep DEF Inv

THEOREM Invariance == Spec => []Inv
  BY InitInv, NextInv, PTL DEF Spec

\* Every variable of the queue stays within its shape, whatever the subjects,
\* tiers, concurrency and bounds.
THEOREM TypeCorrect == Spec => []TypeOK
<1>1. Inv => TypeOK
  BY DEF Inv
<1>2. QED BY <1>1, Invariance, PTL

\* drain() never has two requests for one subject under way, however many
\* save, destroy, timer and reconnect drains overlap.
THEOREM OneAttempt == Spec => []OneAttemptPerSubject
<1>1. Inv => OneAttemptPerSubject
  BY DEF Inv, AttemptInv
<1>2. QED BY <1>1, Invariance, PTL

\* doDrain never sends a write of one tier while a write of another tier is
\* under way, for any assignment of tiers and any number of workers.
THEOREM TiersInOrder == Spec => []TierBarrier
<1>1. Inv => TierBarrier
  BY DEF Inv, AttemptInv
<1>2. QED BY <1>1, Invariance, PTL
=============================================================================
