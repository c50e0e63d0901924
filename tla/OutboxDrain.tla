---------------------------- MODULE OutboxDrain ----------------------------
(***************************************************************************)
(* The browser's write queue and the passes that drain it:                 *)
(*   browser/lib/src/local-outbox.ts  class LocalOutbox                    *)
(*   browser/lib/src/store.ts         scheduleOutboxDrain,                 *)
(*                                    syncDirtyResources,                  *)
(*                                    drainOutboxSubject, drainDestroy     *)
(*   browser/lib/src/resource.ts      onLoroLocalChange, save, destroy     *)
(*   browser/lib/src/websockets.ts    the open and close of the socket     *)
(*                                                                         *)
(* JavaScript runs one event at a time, so an action is what runs between  *)
(* two awaits that other events can fall between.  A pass awaits the       *)
(* attempts it started, an attempt awaits the server, and save() and       *)
(* destroy() await a pass; those four waits are all visible here.          *)
(*                                                                         *)
(* Abstracted: the content of a resource is the number of its edits;       *)
(* `waiting` stands for the backoff, BUSY and pace delays (Elapse ends     *)
(* one); an offline save is durable at once; one agent is signed in.       *)
(***************************************************************************)
EXTENDS Integers, FiniteSets

CONSTANTS
  Subjects,      \* resources this client writes
  Tier,          \* the ordering tier of each subject, outboxTier
  Concurrency,   \* DEFAULT_DRAIN_CONCURRENCY
  BlockAfter,    \* BLOCK_AFTER_FAILURES
  Passes,        \* slots for the promises of drain passes, reused
  MaxEdits,      \* bound: edits made to one resource
  MaxCalls,      \* bound: save() and destroy() calls waiting at once
  Outcomes,      \* bound: ways an attempt may end besides success
  AuthMayFail,   \* whether a socket may open and fail to authenticate
  None

AllOutcomes == {"notReady", "busy", "cancelled", "network", "lostAck",
                "refused", "parent", "error", "pending", "terminal"}

ASSUME SubjectsAssumption == IsFiniteSet(Subjects) /\ Subjects # {}
ASSUME TierAssumption == Tier \in [Subjects -> Nat]
ASSUME BoundsAssumption ==
  /\ Concurrency \in Nat \ {0}
  /\ BlockAfter \in Nat \ {0}
  /\ MaxEdits \in Nat
  /\ MaxCalls \in Nat
ASSUME PassesAssumption == Passes \subseteq Nat
ASSUME OutcomesAssumption == Outcomes \subseteq AllOutcomes
ASSUME AuthAssumption == AuthMayFail \in BOOLEAN
VARIABLES
  entries,              \* LocalOutbox.entries
  resource,             \* the Resource of each subject in this tab
  server,               \* what the server holds of each subject
  forsaken,             \* history: subjects a write of which was refused
                        \*   for good
  unanswered,           \* history: subjects whose genesis the server applied
                        \*   while this client heard of a failure
  passes,               \* every pass: doDrain running, or chained and queued
  drainInFlight,        \* LocalOutbox.drainInFlight
  drainFollowUpQueued,  \* LocalOutbox.drainFollowUpQueued
  attempts,             \* the drainOne calls that are under way
  calls,                \* save() and destroy() calls awaiting a pass
  outboxDrainTimer,     \* Store.outboxDrainTimer is set
  serverConnected,      \* Store._serverConnected
  socket                \* the WebSocket: "closed", "unauthenticated", "open"

vars == <<entries, resource, server, forsaken, unanswered, passes,
          drainInFlight, drainFollowUpQueued, attempts, calls,
          outboxDrainTimer, serverConnected, socket>>

history == <<forsaken, unanswered>>

passVars == <<passes, drainInFlight, drainFollowUpQueued>>
linkVars == <<serverConnected, socket>>

-----------------------------------------------------------------------------
(* Records *)

Versions == 0..MaxEdits

\* How the last attempt ended, where that is still remembered:
\* lastAttemptFailure and lastAttemptError together.
Failures == {"none", "cancelled", "network", "refused", "parent", "error"}

Entry == [genesis : BOOLEAN, destroy : BOOLEAN, blocked : BOOLEAN,
          rearmed : BOOLEAN, waiting : BOOLEAN, failures : 0..BlockAfter,
          last : Failures]

ASSUME NoneAssumption == None \notin Nat /\ None \notin Entry

NewEntry == [genesis |-> FALSE, destroy |-> FALSE, blocked |-> FALSE,
             rearmed |-> FALSE, waiting |-> FALSE, failures |-> 0,
             last |-> "none"]

\* edits: local versions made; saved: the save cursor (_loroVersionAtLastSave);
\* dirty: Resource._dirty.
Resource == [state : {"none", "live", "deleted"}, edits : Versions,
             saved : Versions, dirty : BOOLEAN]

ServerCopy == [state : {"none", "live", "gone"}, version : Versions]

Pass == [phase : {"free", "running", "queued"}, todo : SUBSET Subjects,
         behind : Passes \cup {None}]

FreePass == [phase |-> "free", todo |-> {}, behind |-> None]

Attempt == [pass : Passes, subject : Subjects,
            step : {"genesis", "reread", "export", "delta", "destroy"},
            upto : Versions]

\* held: the entry the caller captured is still the queued one; once it is
\* not, failed is the lastAttemptFailure that entry was left with.
Call == [kind : {"save", "destroy"}, subject : Subjects, version : Versions,
         pass : Passes \cup {None}, held : BOOLEAN, failed : Failures,
         tried : BOOLEAN]

-----------------------------------------------------------------------------
(* Helpers *)

QueuedIn(e) == {s \in Subjects : e[s] # None}
Queued(s) == entries[s] # None

\* nextDueAt: some entry is not blocked, so the scheduler has a time to wake.
Drainable(e) == \E s \in QueuedIn(e) : ~e[s].blocked

\* scheduleOutboxDrain, which every changed() runs through onChange.
Reschedule(e) ==
  outboxDrainTimer' = IF serverConnected /\ QueuedIn(e) # {}
                        THEN Drainable(e)
                        ELSE outboxDrainTimer

\* The `finally` of syncDirtyResources re-arms the timer for what remains.
NoRearmAfterPass == UNCHANGED outboxDrainTimer
RearmAfterPass == Reschedule(entries)

\* A fresh write clears the block and the failure streak of a blocked entry.
Rearmed(e) == [e EXCEPT !.blocked = FALSE, !.failures = 0, !.waiting = FALSE]

\* markDirty: the entry it leaves behind.
MarkDirty(e) ==
  IF e = None THEN NewEntry
  ELSE IF e.blocked THEN [Rearmed(e) EXCEPT !.rearmed = FALSE]
  ELSE e

\* setDestroyCommit.
SetDestroyCommit(e) ==
  LET kept == IF e = None THEN NewEntry
              ELSE IF e.blocked THEN Rearmed(e) ELSE e
  IN [kept EXCEPT !.destroy = TRUE]

\* clearDirty: an entry that holds a signed envelope is kept.
ClearDirty(e) == IF e.genesis \/ e.destroy THEN e ELSE None

\* The callers that captured this entry keep it after it left the queue.
Detached(s, failure) ==
  {IF c.subject = s /\ c.held
     THEN [c EXCEPT !.held = FALSE, !.failed = failure] ELSE c : c \in calls}

\* Replace the entry of s, with the changed() that follows; `failure` is what
\* the old entry is left with when it is dropped.
SetEntry(s, e, failure) ==
  /\ entries' = [entries EXCEPT ![s] = e]
  /\ calls' = IF e = None THEN Detached(s, failure) ELSE calls
  /\ Reschedule(entries')

\* The attempt went through: drainOne clears the failure it remembered.
Succeeded(e) ==
  IF e = None THEN None
  ELSE [e EXCEPT !.last = "none", !.failures = 0, !.waiting = FALSE]

FreeSlots == {p \in Passes : passes[p].phase = "free"}

NextSlot == CHOOSE p \in FreeSlots : TRUE

\* The pass in flight will take its snapshot after this call.
ShareAnyPass == drainInFlight # None
ShareFollowUp == drainInFlight # None /\ drainFollowUpQueued

\* LocalOutbox.drain: start a pass over a snapshot of the entries, or chain
\* ONE follow-up behind the pass in flight, or share the follow-up.
Drain(e) ==
  IF ShareFollowUp THEN UNCHANGED passVars
  ELSE
    /\ FreeSlots # {}
    /\ LET p == NextSlot IN
         /\ drainInFlight' = p
         /\ IF drainInFlight = None
              THEN /\ passes' = [passes EXCEPT ![p] =
                        [phase |-> "running", todo |-> QueuedIn(e),
                         behind |-> None]]
                   /\ UNCHANGED drainFollowUpQueued
              ELSE /\ passes' = [passes EXCEPT ![p] =
                        [phase |-> "queued", todo |-> {},
                         behind |-> drainInFlight]]
                   /\ drainFollowUpQueued' = TRUE

-----------------------------------------------------------------------------
(* Initial state: a session opens with some resources already synced. *)

Init ==
  /\ \E synced \in SUBSET Subjects :
       /\ resource = [s \in Subjects |->
            [state |-> IF s \in synced THEN "live" ELSE "none",
             edits |-> 0, saved |-> 0, dirty |-> FALSE]]
       /\ server = [s \in Subjects |->
            [state |-> IF s \in synced THEN "live" ELSE "none",
             version |-> 0]]
  /\ entries = [s \in Subjects |-> None]
  /\ forsaken = {}
  /\ unanswered = {}
  /\ passes = [p \in Passes |-> FreePass]
  /\ drainInFlight = None
  /\ drainFollowUpQueued = FALSE
  /\ attempts = {}
  /\ calls = {}
  /\ outboxDrainTimer = FALSE
  /\ serverConnected = FALSE
  /\ socket = "closed"

-----------------------------------------------------------------------------
(* The application *)

\* Resource.set, then onLoroLocalChange: while connected the edit queues the
\* subject at once; offline it waits for save().
Edit(s) ==
  /\ resource[s].state = "live"
  /\ resource[s].edits < MaxEdits
  /\ resource' = [resource EXCEPT ![s].edits = @ + 1, ![s].dirty = TRUE]
  /\ IF serverConnected
       THEN entries' = [entries EXCEPT ![s] = MarkDirty(@)]
       ELSE UNCHANGED entries
  /\ UNCHANGED <<server, history, attempts, calls, passVars, linkVars>>
  /\ IF serverConnected THEN Reschedule(entries')
                        ELSE UNCHANGED outboxDrainTimer

\* _saveInner up to its `await syncDirtyResources()`.  A first save moves the
\* signed genesis into the queue.  Saves of one resource are serialised.
Save(s) ==
  LET new == resource[s].state = "none"
      hasChanges == resource[s].dirty
      e == IF new THEN [NewEntry EXCEPT !.genesis = TRUE]
           ELSE IF hasChanges THEN MarkDirty(entries[s]) ELSE entries[s]
  IN
  /\ \/ new
     \/ resource[s].state = "live" /\ (hasChanges \/ Queued(s))
  /\ ~\E c \in calls : c.kind = "save" /\ c.subject = s
  /\ Cardinality(calls) < MaxCalls
  /\ resource' = [resource EXCEPT ![s].state = "live"]
  /\ entries' = [entries EXCEPT ![s] = e]
  /\ IF serverConnected
       THEN /\ Drain(entries')
            /\ calls' = calls \cup {[kind |-> "save", subject |-> s,
                 version |-> resource[s].edits, pass |-> drainInFlight',
                 held |-> TRUE, failed |-> "none", tried |-> FALSE]}
       ELSE UNCHANGED <<passVars, calls>>
  /\ UNCHANGED <<server, history, attempts, linkVars>>
  /\ Reschedule(entries')

\* Resource.destroy: queue the envelope, remove the resource, await the drain.
Destroy(s) ==
  /\ resource[s].state = "live"
  /\ Cardinality(calls) < MaxCalls
  /\ resource' = [resource EXCEPT ![s].state = "deleted"]
  /\ entries' = [entries EXCEPT ![s] = SetDestroyCommit(@)]
  /\ IF serverConnected
       THEN /\ Drain(entries')
            /\ calls' = calls \cup {[kind |-> "destroy", subject |-> s,
                 version |-> resource[s].edits, pass |-> drainInFlight',
                 held |-> TRUE, failed |-> "none", tried |-> FALSE]}
       ELSE UNCHANGED <<passVars, calls>>
  /\ UNCHANGED <<server, history, attempts, linkVars>>
  /\ Reschedule(entries')

-----------------------------------------------------------------------------
(* A drain pass: doDrain, groupTiers, runBounded and drainOne *)

\* doDrain awaits one tier before it starts the next.
TierStarted(p, s) == \A t \in passes[p].todo : Tier[s] <= Tier[t]
TierSettled(p, s) ==
  /\ TierStarted(p, s)
  /\ \A a \in attempts : a.pass = p => Tier[a.subject] = Tier[s]

\* The tier of s has come up, and a worker of runBounded is free.
TierOpen(p, s) ==
  /\ TierSettled(p, s)
  /\ Cardinality({a \in attempts : a.pass = p}) < Concurrency

Taken(p, s) == passes' = [passes EXCEPT ![p].todo = @ \ {s}]

\* A caller whose write was queued before this attempt is answered by it.
Tried(s, cs) == {IF c.subject = s THEN [c EXCEPT !.tried = TRUE] ELSE c :
                   c \in cs}

\* drainOne of an entry that is gone, blocked or not due.
Skip(p, s) ==
  /\ passes[p].phase = "running" /\ s \in passes[p].todo
  /\ TierOpen(p, s)
  /\ Queued(s) => entries[s].blocked \/ entries[s].waiting
  /\ Taken(p, s)
  /\ calls' = Tried(s, calls)
  /\ UNCHANGED <<entries, resource, server, history, drainInFlight,
                 drainFollowUpQueued, attempts, outboxDrainTimer, linkVars>>

\* Which request drainOutboxSubject makes first.
FirstStep(e) == IF e.destroy THEN "destroy"
                ELSE IF e.genesis THEN "genesis" ELSE "export"

\* drainOne of a due entry: lastAttemptAt is now, so the backoff of an entry
\* with failures starts over, and drainOutboxSubject begins.
StartAttempt(p, s) ==
  /\ passes[p].phase = "running" /\ s \in passes[p].todo
  /\ TierOpen(p, s)
  /\ Queued(s) /\ ~entries[s].blocked /\ ~entries[s].waiting
  /\ ~(entries[s].genesis /\ entries[s].destroy)
  /\ Taken(p, s)
  /\ entries' = [entries EXCEPT ![s].waiting = entries[s].failures > 0]
  /\ attempts' = attempts \cup
       {[pass |-> p, subject |-> s, step |-> FirstStep(entries[s]),
         upto |-> 0]}
  /\ calls' = Tried(s, calls)
  /\ UNCHANGED <<resource, server, history, drainInFlight,
                 drainFollowUpQueued, outboxDrainTimer, linkVars>>

\* drainDestroy with neverSynced: a resource whose genesis is still queued
\* has, the code holds, not reached the server; POST neither.
DropMootDestroy(p, s) ==
  /\ passes[p].phase = "running" /\ s \in passes[p].todo
  /\ TierOpen(p, s)
  /\ Queued(s) /\ ~entries[s].blocked /\ ~entries[s].waiting
  /\ entries[s].genesis /\ entries[s].destroy
  /\ Taken(p, s)
  /\ entries' = [entries EXCEPT ![s] = None]
  /\ calls' = Tried(s, Detached(s, "none"))
  /\ UNCHANGED <<resource, server, history, drainInFlight, drainFollowUpQueued,
                 attempts, linkVars>>
  /\ Reschedule(entries')

\* trackDrain: drainInFlight once p has settled.
ClearInFlight(p) == None
ClearOwnInFlight(p) == IF drainInFlight = p THEN None ELSE drainInFlight

\* What becomes of pass q when pass p settles: the follow-up chained to it is
\* free to start, whether p succeeded or not.
KeepChained(p, q) == IF q = p THEN FreePass ELSE passes[q]
AfterSettle(p, q) ==
  IF q = p THEN FreePass
  ELSE IF passes[q].behind = p THEN [passes[q] EXCEPT !.behind = None]
  ELSE passes[q]

\* The pass settles: trackDrain clears drainInFlight if it still owns it, the
\* callers awaiting it resume, and each one's syncDirtyResources re-arms the
\* timer.
PassSettles(p) ==
  /\ passes[p].phase = "running" /\ passes[p].todo = {}
  /\ ~\E a \in attempts : a.pass = p
  /\ passes' = [q \in Passes |-> AfterSettle(p, q)]
  /\ drainInFlight' = ClearOwnInFlight(p)
  /\ calls' = {IF c.pass = p THEN [c EXCEPT !.pass = None] ELSE c :
                 c \in calls}
  /\ UNCHANGED <<entries, resource, server, history, drainFollowUpQueued,
                 attempts, linkVars>>
  /\ RearmAfterPass

\* The chained pass begins: the flag is reset first, then a fresh snapshot.
StartFollowUp(p) ==
  /\ passes[p].phase = "queued" /\ passes[p].behind = None
  /\ passes' = [passes EXCEPT ![p].phase = "running",
                              ![p].todo = QueuedIn(entries)]
  /\ drainFollowUpQueued' = FALSE
  /\ UNCHANGED <<entries, resource, server, history, drainInFlight,
                 attempts, calls, outboxDrainTimer, linkVars>>

-----------------------------------------------------------------------------
(* One attempt: drainOutboxSubject, its answers, and what drainOne records *)

\* The attempt a ends and leaves entry e, with drainOne's final changed().
Ends(a, e, failure) ==
  /\ attempts' = attempts \ {a}
  /\ SetEntry(a.subject, e, failure)

\* isUnrecoverableCommitError, and the answers that stop being retried after
\* a full streak of failures.
Blocking == {"refused", "parent"}

FailedPastStreak(e, failure) ==
  [e EXCEPT !.failures = @ + 1, !.waiting = TRUE, !.last = failure,
            !.blocked = e.failures > BlockAfter /\ failure \in Blocking]

\* drainOne counts a failure; a blocking answer parks the entry once the
\* streak is long enough.  The count matters up to BlockAfter only.
Failed(e, failure) ==
  LET long == e.failures + 1 >= BlockAfter IN
  [e EXCEPT !.failures = IF long THEN BlockAfter ELSE @ + 1,
            !.waiting = TRUE, !.last = failure,
            !.blocked = long /\ failure \in Blocking]

\* Step 2: export what is past the cursor; nothing left clears the dirty bit.
ExportDelta(a) ==
  LET s == a.subject
      upto == resource[s].edits
  IN
  /\ a.step = "export" \/ (a.step = "reread" /\ resource[s].state = "live")
  /\ IF upto = resource[s].saved
       THEN Ends(a, Succeeded(ClearDirty(entries[s])), "none")
       ELSE /\ attempts' = (attempts \ {a}) \cup
                             {[a EXCEPT !.step = "delta", !.upto = upto]}
            /\ UNCHANGED <<entries, calls, outboxDrainTimer>>
  /\ UNCHANGED <<resource, server, history, passVars, linkVars>>

\* Step 2 gives up for now (the local database is not ready, the resource is
\* still loading): drainOutboxSubject returns, which drainOne takes as success.
NotReady(a) ==
  /\ "notReady" \in Outcomes
  /\ a.step \in {"export", "reread"}
  /\ Ends(a, Succeeded(entries[a.subject]), "none")
  /\ UNCHANGED <<resource, server, history, passVars, linkVars>>

\* The resource was deleted here while its genesis was posted, so step 2 loads
\* it again: the copy of the server has nothing to send, or, refused for the
\* queued delete, the load times out.
ReloadDeleted(a) ==
  LET s == a.subject IN
  /\ a.step = "reread" /\ resource[s].state = "deleted"
  /\ \E e \in {Succeeded(ClearDirty(entries[s])), Failed(entries[s], "error")} :
       Ends(a, e, "none")
  /\ UNCHANGED <<resource, server, history, passVars, linkVars>>

\* The server's side of a request: a genesis creates, a delta merges, a
\* destroy removes, and replaying one of them changes nothing.
Applied(a) ==
  LET v == server[a.subject] IN
  [server EXCEPT ![a.subject] =
     CASE a.step = "genesis" /\ v.state = "none" ->
            [state |-> "live", version |-> 0]
       [] a.step = "delta" /\ v.state = "live" ->
            [v EXCEPT !.version = IF v.version < a.upto THEN a.upto ELSE @]
       [] a.step = "destroy" /\ v.state = "live" -> [v EXCEPT !.state = "gone"]
       [] OTHER -> v]

\* The genesis is acknowledged: clearGenesis, markSynced, on to step 2, which
\* reads the entry and the resource again.
GenesisAcked(a) ==
  LET s == a.subject IN
  /\ a.step = "genesis"
  /\ server' = Applied(a)
  /\ resource' = [resource EXCEPT ![s].dirty = FALSE]
  /\ attempts' = (attempts \ {a}) \cup {[a EXCEPT !.step = "reread"]}
  /\ SetEntry(s, [entries[s] EXCEPT !.genesis = FALSE], "none")
  /\ unanswered' = unanswered \ {s}
  /\ UNCHANGED <<forsaken, passVars, linkVars>>

\* hasOpsPastSaveCursor is false: nothing was typed during the POST.
AlwaysCaughtUp(a) == TRUE
CaughtUp(a) == resource[a.subject].edits = a.upto

\* versionAfterExport: the version that was in the commit.
CurrentVersion(a) == resource[a.subject].edits
ExportedVersion(a) == a.upto

\* The delta is acknowledged: the cursor moves to what was in it, and edits
\* made since keep the subject dirty.
DeltaAcked(a) ==
  LET s == a.subject IN
  /\ a.step = "delta"
  /\ server[s].state = "live"
  /\ server' = Applied(a)
  /\ resource' = [resource EXCEPT ![s].saved = ExportedVersion(a),
                    ![s].dirty = IF CaughtUp(a) THEN FALSE ELSE @]
  /\ Ends(a, Succeeded(IF CaughtUp(a) THEN ClearDirty(entries[s])
                       ELSE MarkDirty(entries[s])), "none")
  /\ UNCHANGED <<history, passVars, linkVars>>

\* The destroy is acknowledged, or the server says it was settled before.
DestroyAcked(a) ==
  /\ a.step = "destroy"
  /\ server' = Applied(a)
  /\ Ends(a, None, "none")
  /\ UNCHANGED <<resource, history, passVars, linkVars>>

\* The request is with the server, not being prepared here.
Posted(a) == a.step \in {"genesis", "delta", "destroy"}

\* The server applied the request, and its answer never arrived.
AnswerLost(a) ==
  /\ "lostAck" \in Outcomes
  /\ server' = Applied(a)
  /\ unanswered' = IF a.step = "genesis" THEN unanswered \cup {a.subject}
                   ELSE unanswered

NotApplied == UNCHANGED <<server, unanswered>>

\* BUSY: wait as told; no failure is counted or remembered.
Busy(a) ==
  /\ "busy" \in Outcomes /\ Posted(a)
  /\ Ends(a, [entries[a.subject] EXCEPT !.waiting = TRUE], "none")
  /\ UNCHANGED <<resource, server, history, passVars, linkVars>>

\* The socket of the request was replaced or closed: the failure is
\* remembered for the caller, no retry is counted, nothing is rescheduled.
\* The server may have applied the request before the socket went.
Cancelled(a) ==
  /\ "cancelled" \in Outcomes /\ Posted(a)
  /\ NotApplied \/ AnswerLost(a)
  /\ attempts' = attempts \ {a}
  /\ entries' = [entries EXCEPT ![a.subject].last = "cancelled"]
  /\ UNCHANGED <<resource, forsaken, calls, outboxDrainTimer, passVars,
                 linkVars>>

\* Neither the socket nor HTTP got an answer.  The server may have applied
\* the request all the same.
NetworkFails(a) ==
  /\ "network" \in Outcomes /\ Posted(a)
  /\ NotApplied \/ AnswerLost(a)
  /\ Ends(a, Failed(entries[a.subject], "network"), "none")
  /\ UNCHANGED <<resource, forsaken, passVars, linkVars>>

\* The server answers with an error: a refusal for want of rights, for want of
\* the parent, or one no list names.  A delta for a resource the server does
\* not hold ("does not exist yet") is of the last kind.
Refused(a, failure) ==
  /\ Posted(a)
  /\ \/ failure \in Outcomes
     \/ /\ failure = "error" /\ a.step = "delta"
        /\ server[a.subject].state # "live"
  /\ Ends(a, Failed(entries[a.subject], failure), "none")
  /\ UNCHANGED <<resource, server, history, passVars, linkVars>>

\* The server misses what the delta builds on (isPendingDepsCommitErrorMessage):
\* the save cursor is dropped, so that the next export holds everything.
PendingDependencies(a) ==
  /\ "pending" \in Outcomes /\ a.step = "delta"
  /\ resource' = [resource EXCEPT ![a.subject].saved = 0]
  /\ Ends(a, Failed(entries[a.subject], "error"), "none")
  /\ UNCHANGED <<server, history, passVars, linkVars>>

\* A refusal no retry can change: the entry is deleted, whatever it holds.
TerminallyRefused(a) ==
  /\ "terminal" \in Outcomes /\ a.step \in {"genesis", "delta"}
  /\ forsaken' = forsaken \cup {a.subject}
  /\ Ends(a, None, "refused")
  /\ UNCHANGED <<resource, server, unanswered, passVars, linkVars>>

-----------------------------------------------------------------------------
(* The callers, after `await syncDirtyResources()` *)

\* entry.lastAttemptFailure of the entry the caller captured.
FailureSeen(c) == IF c.held THEN entries[c.subject].last ELSE c.failed

\* The entry is still queued, for edits made after this save only.
AnyQueuedIsAcknowledged(c) == TRUE
Acknowledged(c) ==
  /\ ~(c.held /\ entries[c.subject].genesis)
  /\ resource[c.subject].saved >= c.version

\* What save() resolves or rejects with.
SaveResult(c) ==
  CASE FailureSeen(c) = "network" -> "offline"
    [] FailureSeen(c) \notin {"none", "network"} -> "error"
    [] OTHER -> IF Queued(c.subject) => Acknowledged(c) THEN "persisted" ELSE "queued"

\* hasPendingDestroy.
NeverPending(s) == FALSE
PendingDestroy(s) == Queued(s) /\ entries[s].destroy

\* What destroy() resolves or rejects with.
DestroyResult(c) ==
  CASE FailureSeen(c) = "network" -> "offline"
    [] FailureSeen(c) \notin {"none", "network"} -> "error"
    [] OTHER -> IF PendingDestroy(c.subject) THEN "queued" ELSE "destroyed"

Result(c) == IF c.kind = "save" THEN SaveResult(c) ELSE DestroyResult(c)

Returning(c) == c.pass = None

\* The call returns.  A network failure takes the store offline; the offline
\* save that save() then records finds its entry still queued.
CallReturns(c) ==
  /\ Returning(c)
  /\ calls' = calls \ {c}
  /\ serverConnected' = (serverConnected /\ Result(c) # "offline")
  /\ UNCHANGED <<entries, resource, server, history, passVars, attempts,
                 outboxDrainTimer, socket>>

-----------------------------------------------------------------------------
(* Time, the socket and the drive resync *)

\* A backoff or BUSY delay has passed.
Elapse(s) ==
  /\ Queued(s) /\ entries[s].waiting
  /\ entries' = [entries EXCEPT ![s].waiting = FALSE]
  /\ UNCHANGED <<resource, server, history, passVars, attempts, calls,
                 outboxDrainTimer, linkVars>>

\* The timer of scheduleOutboxDrain, set for the soonest due entry.
TimerFires ==
  /\ outboxDrainTimer
  /\ \E s \in Subjects : Queued(s) /\ ~entries[s].blocked /\ ~entries[s].waiting
  /\ outboxDrainTimer' = FALSE
  /\ IF serverConnected THEN Drain(entries) ELSE UNCHANGED passVars
  /\ UNCHANGED <<entries, resource, server, history, attempts, calls,
                 linkVars>>

\* handleOpen once authenticated: report the connection, then drain.
SocketOpens ==
  /\ socket = "closed"
  /\ socket' = "open"
  /\ serverConnected' = TRUE
  /\ IF QueuedIn(entries) # {} THEN Drain(entries) ELSE UNCHANGED passVars
  /\ UNCHANGED <<entries, resource, server, history, attempts, calls,
                 outboxDrainTimer>>

\* handleOpen when authentication fails: the connection is reported, and
\* neither the drain nor the resync of doSync runs.
SocketOpensUnauthenticated ==
  /\ AuthMayFail
  /\ socket = "closed"
  /\ socket' = "unauthenticated"
  /\ serverConnected' = TRUE
  /\ UNCHANGED <<entries, resource, server, history, passVars, attempts,
                 calls, outboxDrainTimer>>

\* end(): the socket is gone and reportConnected(false) runs.
SocketCloses ==
  /\ socket # "closed"
  /\ socket' = "closed"
  /\ serverConnected' = FALSE
  /\ UNCHANGED <<entries, resource, server, history, passVars, attempts,
                 calls, outboxDrainTimer>>

\* rearmParentBlocked accepts this entry.
ParentBlocked(e) == e # None /\ e.blocked /\ ~e.rearmed /\ e.last = "parent"

\* finishDriveSync: the entries parked for a missing parent get one more try.
DriveSyncFinishes ==
  /\ socket = "open"
  /\ \E s \in Subjects : ParentBlocked(entries[s])
  /\ entries' = [s \in Subjects |->
       IF ParentBlocked(entries[s])
         THEN [Rearmed(entries[s]) EXCEPT !.rearmed = TRUE]
         ELSE entries[s]]
  /\ UNCHANGED <<resource, server, history, passVars, attempts, calls,
                 linkVars>>
  /\ Reschedule(entries')

-----------------------------------------------------------------------------
Answered(a) ==
  \/ ExportDelta(a)
  \/ NotReady(a)
  \/ ReloadDeleted(a)
  \/ GenesisAcked(a)
  \/ DeltaAcked(a)
  \/ DestroyAcked(a)
  \/ Busy(a)
  \/ Cancelled(a)
  \/ NetworkFails(a)
  \/ \E failure \in {"refused", "parent", "error"} : Refused(a, failure)
  \/ PendingDependencies(a)
  \/ TerminallyRefused(a)

Next ==
  \/ \E s \in Subjects : Edit(s) \/ Save(s) \/ Destroy(s) \/ Elapse(s)
  \/ \E p \in Passes : PassSettles(p) \/ StartFollowUp(p)
  \/ \E p \in Passes, s \in Subjects :
       Skip(p, s) \/ StartAttempt(p, s) \/ DropMootDestroy(p, s)
  \/ \E a \in attempts : Answered(a)
  \/ \E c \in calls : CallReturns(c)
  \/ TimerFires
  \/ SocketOpens
  \/ SocketOpensUnauthenticated
  \/ SocketCloses
  \/ DriveSyncFinishes

Spec == Init /\ [][Next]_vars
-----------------------------------------------------------------------------
(* Correctness *)

\* Every variable stays within its shape.
TypeOK ==
  /\ entries \in [Subjects -> Entry \cup {None}]
  /\ resource \in [Subjects -> Resource]
  /\ server \in [Subjects -> ServerCopy]
  /\ forsaken \subseteq Subjects
  /\ unanswered \subseteq Subjects
  /\ passes \in [Passes -> Pass]
  /\ drainInFlight \in Passes \cup {None}
  /\ drainFollowUpQueued \in BOOLEAN
  /\ attempts \subseteq Attempt
  /\ calls \subseteq Call
  /\ outboxDrainTimer \in BOOLEAN
  /\ serverConnected \in BOOLEAN
  /\ socket \in {"closed", "unauthenticated", "open"}

\* No subject has two requests under way: two commits signed from one cursor
\* would carry the same edits, and the later ack would move the cursor back.
\* The owner check of trackDrain and the single follow-up are what keep two
\* passes from running at once.
OneAttemptPerSubject ==
  \A a, b \in attempts : a.subject = b.subject => a = b

\* The bounded concurrency of runBounded never sends a write while a write of
\* an earlier tier (its parent, its drive, its agent) is still under way.
TierBarrier ==
  \A a, b \in attempts : Tier[a.subject] = Tier[b.subject]

\* No edit and no delete is lost on the way: what the server lacks is queued,
\* or waits on the resource for save(), or was refused for good.  The one way
\* out is a resource deleted while the answer to its own create was lost: the
\* queue takes it for never synced (store.ts, drainDestroy) and drops both.
Unsynced(s) ==
  \/ /\ resource[s].state = "live"
     /\ server[s].state = "none" \/ server[s].version < resource[s].edits
  \/ resource[s].state = "deleted" /\ server[s].state = "live"

NothingForgotten ==
  \A s \in Subjects : Unsynced(s) =>
    \/ Queued(s) \/ resource[s].dirty \/ s \in forsaken
    \/ resource[s].state = "deleted" /\ s \in unanswered

\* save() reports 'persisted' only when the server holds the version it saved
\* (unless the resource was deleted in the meantime).
PersistedMeansAcked ==
  \A c \in calls :
    /\ c.kind = "save" /\ Returning(c) /\ SaveResult(c) = "persisted"
    /\ resource[c.subject].state = "live"
    => server[c.subject].state = "live" /\ server[c.subject].version >= c.version

\* destroy() resolves only when the server no longer holds the resource or the
\* delete is queued, unless a write of it was refused for good or the answer
\* to its create never arrived (DestroyedMeansAcked is the promise without
\* these exceptions, and does not hold).
DestroyedMeansGone ==
  \A c \in calls :
    /\ c.kind = "destroy" /\ Returning(c) /\ DestroyResult(c) = "destroyed"
    => \/ server[c.subject].state # "live"
       \/ c.subject \in forsaken \cup unanswered

\* `await drain()` means the caller's own write was looked at: it was tried by
\* a pass that began after it, or had left the queue by then.
AwaitedDrainAttempts ==
  \A c \in calls : Returning(c) /\ c.held => c.tried

\* While connected, a write that may be sent always has something that will
\* send it: the timer, or a pass that is running or chained.
NoLostWakeup ==
  serverConnected /\ Drainable(entries) =>
    outboxDrainTimer \/ drainInFlight # None

\* The save cursor is never past what the server holds.  An edit between the
\* two would be in no later delta and on no server.
CursorNotPastServer ==
  \A s \in Subjects : server[s].state = "live" =>
    resource[s].saved <= server[s].version

\* A parked entry holds nothing the server was not offered: parking needs an
\* attempt that carried every edit, since "a fresh local edit is a new signal
\* worth re-attempting" (local-outbox.ts, OutboxEntry.blocked).
ParkedWasOffered ==
  [][\A a \in attempts :
       /\ a.step = "delta"
       /\ Queued(a.subject) /\ ~entries[a.subject].blocked
       /\ entries'[a.subject] # None /\ entries'[a.subject].blocked
       => a.upto = resource[a.subject].edits]_vars

\* destroy(), online, "resolves once the server has acknowledged the destroy"
\* (resource.ts, Resource.destroy).
DestroyedMeansAcked ==
  \A c \in calls :
    /\ c.kind = "destroy" /\ Returning(c) /\ DestroyResult(c) = "destroyed"
    => server[c.subject].state # "live"

\* The connection flag is "driven by WebSocket open/close events"
\* (store.ts, _serverConnected): it is down only while the socket is.
OfflineMeansClosed == ~serverConnected => socket = "closed"

-----------------------------------------------------------------------------
(* Fairness and liveness *)

\* Timers fire, promises settle, a request ends (REQUEST_TIMEOUT), and a server
\* that is asked again and again answers in the end.
Fairness ==
  /\ WF_vars(TimerFires)
  /\ \A p \in Passes : WF_vars(PassSettles(p)) /\ WF_vars(StartFollowUp(p))
  /\ \A s \in Subjects :
       /\ WF_vars(Elapse(s))
       /\ WF_vars(\E p \in Passes :
            Skip(p, s) \/ StartAttempt(p, s) \/ DropMootDestroy(p, s))
       /\ WF_vars(\E a \in attempts : a.subject = s /\ Answered(a))
       /\ WF_vars(\E c \in calls : c.subject = s /\ CallReturns(c))
       /\ SF_vars(\E a \in attempts : a.subject = s /\ ExportDelta(a))
       /\ SF_vars(\E a \in attempts : a.subject = s /\ GenesisAcked(a))
       /\ SF_vars(\E a \in attempts : a.subject = s /\ DeltaAcked(a))
       /\ SF_vars(\E a \in attempts : a.subject = s /\ DestroyAcked(a))

FairSpec == Spec /\ Fairness

\* Once the connection stays up, every queued write leaves the queue or is
\* parked for the user to see: backoff, BUSY, a skipped pass, a chained pass or
\* a write of another tier that keeps failing cannot strand it.
QueuedIsSettled ==
  <>[]serverConnected =>
    \A s \in Subjects :
      Queued(s) ~> (~Queued(s) \/ entries[s].blocked)

\* save() and destroy() always return, connected or not: no chain of passes
\* waits on itself.
CallsReturn ==
  \A s \in Subjects :
    (\E c \in calls : c.subject = s) ~> (~\E c \in calls : c.subject = s)

=============================================================================
