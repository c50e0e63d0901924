---------------------------- MODULE NodeOutbox ----------------------------
(***************************************************************************)
(* The durable outbox of a Rust node (desktop, mobile, embedded), and its  *)
(* delivery of local writes to a hub:                                      *)
(*   lib/src/sync/outbox.rs   mark_dirty, drain, drain_subject,            *)
(*                            record_refusal                               *)
(*   lib/src/runtime/node.rs  save_locally, apply_local_commit             *)
(*   lib/src/client/ws.rs     post_commit over one WebSocket               *)
(*   lib/src/sync/peer.rs     post_commit over a live link                 *)
(*   lib/src/commit.rs        what the hub says to a commit                *)
(*                                                                         *)
(* Unlike the browser's queue this one has no pass in flight to join: each *)
(* write and each reconnect runs a drain of its own, on a runtime of many  *)
(* threads, and nothing locks an entry: an action is what one of them does *)
(* up to its next store call or message.  Three calls that are one action  *)
(* commute with whatever may come between: the two reads of an export and  *)
(* its post; a missing snapshot, or an empty delta, and the clear after it.*)
(*                                                                         *)
(* Abstracted: a Loro version is the number of commits made here, an       *)
(* entry's update range the versions it leads from and to; `waiting` is    *)
(* the backoff; enqueued_at orders one tier, in any order.                 *)
(***************************************************************************)
EXTENDS Integers, FiniteSets

CONSTANTS
  Subjects,     \* resources written on this node
  Parent,       \* the parent of each, or None
  Depth,        \* the length of the parent chain, as Outbox::tier counts it
  Drains,       \* drains that may be under way at once
  BlockAfter,   \* BLOCK_AFTER_FAILURES
  UniqueIds,    \* request ids: one counter for all (a live link, peer.rs) or
                \* one a pass (a WebSocket, ws.rs)
  MaxEdits,     \* bound: commits made to one resource
  MaxCrashes,   \* bound: times the app is killed
  MaxLate,      \* bound: frames in flight that nobody waits for any more
  Outcomes,     \* bound: failures that may happen
  None

AllOutcomes == {"transient", "blocking", "terminal", "network"}

ASSUME SubjectsAssumption == IsFiniteSet(Subjects) /\ Subjects # {}
ASSUME TreeAssumption ==
  /\ Parent \in [Subjects -> Subjects \cup {None}]
  /\ Depth \in [Subjects -> Nat]
  /\ \A s \in Subjects : Parent[s] # None => Depth[Parent[s]] < Depth[s]
ASSUME BoundsAssumption ==
  /\ BlockAfter \in Nat \ {0}
  /\ MaxEdits \in Nat \ {0}
  /\ MaxCrashes \in Nat
  /\ MaxLate \in Nat
  /\ UniqueIds \in BOOLEAN
  /\ Outcomes \subseteq AllOutcomes

VARIABLES
  doc,       \* the local store: Tree::Resources and Tree::LoroSnapshots
  hub,       \* what the hub holds
  unmarked,  \* commits applied here that mark_dirty has not recorded yet
  found,     \* what mark_dirty read of each entry, until it writes it: {} or {e}
  entries,   \* Tree::Outbox
  drains,    \* each drain under way, and the captured entry it is at
  requests,  \* COMMIT frames the hub has not answered
  crashes,   \* times the app was killed
  \* What happened, for the properties: no guard reads these.
  forsaken,  \* subjects a write of which was refused for good, or applied and
             \* not marked when the app was killed
  raced,     \* subjects marked where a drain that was under way cannot tell
  crossed    \* subjects a post of which was settled by the answer to another
             \* frame, and those below them

local == <<doc, unmarked, found>>
history == <<forsaken, raced, crossed>>
vars == <<doc, hub, unmarked, found, entries, drains, requests, crashes,
          forsaken, raced, crossed>>

-----------------------------------------------------------------------------
(* Records *)

Versions == 0..MaxEdits
Copy == [state : {"none", "live", "gone"}, version : Versions]

\* from: the version the commit's update starts at.
Write == [subject : Subjects, kind : {"genesis", "edit", "destroy"},
          from : Versions]

Generations == 1..(MaxEdits + 1)
Entry == [generation : Generations, base : Versions \cup {None},
          envelope : {"none", "genesis", "destroy"}, failures : 0..BlockAfter,
          waiting : BOOLEAN, blocked : BOOLEAN]

ASSUME NoneAssumption ==
  None \notin Nat \cup Subjects \cup Drains /\ None \notin Entry

Candidate == [subject : Subjects, depth : Nat, entry : Entry]

\* id 0: a frame whose answer nobody can hear, its connection is gone.
Request == [id : Nat, subject : Subjects,
            kind : {"genesis", "delta", "destroy"}, base : Versions,
            upto : Versions]

Answers == {"none", "ok", "transient", "blocking", "terminal"}

\* entry: the captured one, or (settle) the stored one, read again; id: of the
\* request it waits for; posts: requests of this pass; upto: export_vv.
Drain == [step : {"idle", "between", "snapshot", "generation",
                  "genesis", "delta", "destroy", "settle"},
          todo : SUBSET Candidate, subject : Subjects \cup {None},
          entry : Entry \cup {None}, upto : Versions,
          generation : Generations \cup {None},
          id : Nat, posts : Nat, answer : Answers]

Idle == [step |-> "idle", todo |-> {}, subject |-> None, entry |-> None,
         upto |-> 0, generation |-> None, id |-> 0, posts |-> 0,
         answer |-> "none"]

Posted(d) == drains[d].step \in {"genesis", "delta", "destroy"}
Waits(d) == Posted(d) /\ drains[d].answer = "none"
Working(d) == drains[d].step # "idle"

\* A drain that has captured the entry of s, or is at it.
Holder(d, s) ==
  drains[d].subject = s \/ \E c \in drains[d].todo : c.subject = s

\* A resource and everything below it, as recursive_remove walks it: the least
\* set that holds the resource and every child of what it holds.
Under(s) ==
  {t \in Subjects : \A S \in SUBSET Subjects :
     s \in S /\ (\A c \in Subjects : Parent[c] \in S => c \in S) => t \in S}

-----------------------------------------------------------------------------
Init ==
  /\ \E synced \in SUBSET Subjects :
       /\ \A s \in synced : Parent[s] # None => Parent[s] \in synced
       /\ doc = [s \in Subjects |->
            [state |-> IF s \in synced THEN "live" ELSE "none", version |-> 0]]
       /\ hub = doc
  /\ unmarked = {}
  /\ found = [s \in Subjects |-> {}]
  /\ entries = [s \in Subjects |-> None]
  /\ drains = [d \in Drains |-> Idle]
  /\ requests = {}
  /\ crashes = 0
  /\ forsaken = {} /\ raced = {} /\ crossed = {}

-----------------------------------------------------------------------------
(* Local writes: apply the commit under the subject's lock, then mark_dirty *)

Create(s) ==
  /\ doc[s].state = "none" /\ MaxEdits > 0
  /\ Parent[s] # None => doc[Parent[s]].state = "live"
  /\ doc' = [doc EXCEPT ![s] = [state |-> "live", version |-> 1]]
  /\ unmarked' = unmarked \cup
       {[subject |-> s, kind |-> "genesis", from |-> 0]}
  /\ UNCHANGED <<hub, found, entries, drains, requests, crashes, history>>

Edit(s) ==
  /\ doc[s].state = "live" /\ doc[s].version < MaxEdits
  /\ doc' = [doc EXCEPT ![s].version = @ + 1]
  /\ unmarked' = unmarked \cup
       {[subject |-> s, kind |-> "edit", from |-> doc[s].version]}
  /\ UNCHANGED <<hub, found, entries, drains, requests, crashes, history>>

\* A destroy removes what is below the resource too; only the resource itself
\* gets a commit.
Destroy(s) ==
  /\ doc[s].state = "live"
  /\ doc' = [t \in Subjects |->
       IF t \in Under(s) /\ doc[t].state = "live"
         THEN [doc[t] EXCEPT !.state = "gone"] ELSE doc[t]]
  /\ unmarked' = unmarked \cup
       {[subject |-> s, kind |-> "destroy", from |-> doc[s].version]}
  /\ UNCHANGED <<hub, found, entries, drains, requests, crashes, history>>

\* The entry of a subject that had none: "the hub holds everything before this
\* commit's ops".
BaseBefore(w) == IF w.kind = "destroy" THEN None ELSE w.from

NewEntry(w) ==
  [generation |-> 0, base |-> BaseBefore(w),
   envelope |-> "none", failures |-> 0, waiting |-> FALSE, blocked |-> FALSE]

\* A plain edit leaves the envelope that is waiting in place.
EditDropsEnvelope(e, w) == IF w.kind = "edit" THEN "none" ELSE w.kind
Envelope(e, w) == IF w.kind = "edit" THEN e.envelope ELSE w.kind

\* The entry mark_dirty leaves: a genesis or destroy envelope replaces the
\* one before it, and every write re-arms.
Marked(e, w) ==
  LET old == IF e = None THEN NewEntry(w) ELSE e IN
  [old EXCEPT !.generation = @ + 1, !.failures = 0, !.waiting = FALSE,
     !.blocked = FALSE, !.envelope = Envelope(old, w),
     !.base = IF w.kind = "genesis" THEN w.from + 1 ELSE @]

\* The writers of one resource get here one at a time, in commit order.
InOrder(w) == \A v \in unmarked : v.subject = w.subject => w.from <= v.from

\* mark_dirty reads the entry ...
FindEntry(w) ==
  /\ InOrder(w) /\ found[w.subject] = {}
  /\ found' = [found EXCEPT ![w.subject] = {entries[w.subject]}]
  /\ UNCHANGED <<doc, hub, unmarked, entries, drains, requests, crashes,
                 history>>

\* The drains that have read the snapshot or the entry they will judge s by.
Judging(s) ==
  {d \in Drains : drains[d].subject = s /\ drains[d].step \in {"generation", "settle"}}

\* The drains a generation tells nothing: it is the one they exported at.
Blinded(s, e) ==
  {d \in Drains : /\ drains[d].subject = s /\ drains[d].step = "delta"
                  /\ drains[d].generation = e.generation}

\* A mark a drain under way cannot tell: made between two of its reads, or
\* leaving the generation it exported at.
Unseen(s, e) == IF Judging(s) \cup Blinded(s, e) = {} THEN {} ELSE {s}

\* A delete that a drain's captured entry, or a create still on its way to the
\* hub, may undo.
Undone(w) ==
  LET s == w.subject IN
  IF /\ w.kind = "destroy"
     /\ \/ \E d \in Drains : Holder(d, s)
        \/ \E r \in requests : r.subject = s /\ r.kind = "genesis"
    THEN Under(s) ELSE {}

\* ... and writes it.
MarkDirty(w) ==
  /\ InOrder(w)
  /\ \E e \in found[w.subject] :
       /\ entries' = [entries EXCEPT ![w.subject] = Marked(e, w)]
       /\ raced' = raced \cup Unseen(w.subject, Marked(e, w)) \cup Undone(w)
  /\ unmarked' = unmarked \ {w}
  /\ found' = [found EXCEPT ![w.subject] = {}]
  /\ UNCHANGED <<doc, hub, drains, requests, crashes, forsaken, crossed>>

-----------------------------------------------------------------------------
(* A drain: capture the entries that are due, in order, then one at a time *)

Due(e) == e # None /\ ~e.blocked /\ ~e.waiting

\* A resource that is gone here has no parent chain to count.
TierOf(s) == IF doc[s].state = "live" THEN Depth[s] ELSE 0

StartDrain(d) ==
  LET due == {s \in Subjects : Due(entries[s])} IN
  /\ ~Working(d) /\ due # {}
  /\ drains' = [drains EXCEPT ![d] = [Idle EXCEPT !.step = "between",
       !.todo = {[subject |-> s, depth |-> TierOf(s), entry |-> entries[s]] :
                   s \in due}]]
  /\ UNCHANGED <<hub, local, entries, requests, crashes, history>>

\* The next request id: of a pass, or of the process (the least that no frame
\* and no call has; the counter of peer.rs wraps after 2^16 requests).
InUse == {r.id : r \in requests} \cup {drains[d].id : d \in Drains}
NextIds(d) ==
  IF UniqueIds
    THEN {n \in 1..(Cardinality(InUse) + 1) :
            n \notin InUse /\ \A m \in 1..(n - 1) : m \in InUse}
    ELSE {drains[d].posts + 1}

\* post_commit: send a frame and wait for its answer.  posted: the drain's
\* state once it waits.
Frame(x) ==
  [id |-> x.id, subject |-> x.subject, kind |-> x.step,
   base |-> IF x.entry.base = None THEN 0 ELSE x.entry.base,
   upto |-> IF x.step = "delta" THEN x.upto ELSE 1]

Post(d, posted) ==
  \E n \in NextIds(d) :
    LET x == [posted EXCEPT !.id = n,
                !.posts = IF UniqueIds THEN 0 ELSE drains[d].posts + 1]
    IN
    /\ drains' = [drains EXCEPT ![d] = x]
    /\ requests' = requests \cup {Frame(x)}

\* The next captured entry, lowest tier first.  Nothing is read again here.
TakeEntry(d) ==
  LET x == drains[d] IN
  /\ x.step = "between"
  /\ \E c \in x.todo :
       LET kind == c.entry.envelope
           taken == [x EXCEPT !.todo = x.todo \ {c}, !.subject = c.subject,
                       !.entry = c.entry,
                       !.step = IF kind = "none" THEN "snapshot" ELSE kind]
       IN
       /\ \A o \in x.todo : c.depth <= o.depth
       /\ IF kind # "none" THEN Post(d, taken)
            ELSE /\ drains' = [drains EXCEPT ![d] = taken]
                 /\ UNCHANGED requests
  /\ UNCHANGED <<hub, local, entries, crashes, history>>

EndDrain(d) ==
  /\ drains[d].step = "between" /\ drains[d].todo = {}
  /\ drains' = [drains EXCEPT ![d] = Idle]
  /\ UNCHANGED <<hub, local, entries, requests, crashes, history>>

\* drain_subject is done with its subject.
Between(d) ==
  [drains EXCEPT ![d] = [drains[d] EXCEPT !.step = "between", !.subject = None,
     !.entry = None, !.upto = 0, !.generation = None, !.id = 0,
     !.answer = "none"]]

\* Step 2 reads the stored snapshot.  Without one there is nothing to send.
ReadSnapshot(d) ==
  LET s == drains[d].subject IN
  /\ drains[d].step = "snapshot"
  /\ IF doc[s].state = "live"
       THEN /\ drains' = [drains EXCEPT ![d].step = "generation",
                                        ![d].upto = doc[s].version]
            /\ UNCHANGED entries
       ELSE /\ drains' = Between(d)
            /\ entries' = [entries EXCEPT ![s] = None]
  /\ UNCHANGED <<hub, local, requests, crashes, history>>

\* Then it reads the entry's generation, signs the delta and posts it.  Whether
\* an update without operations counts as an empty one is up to Loro.
ExportedGeneration(s) ==
  IF entries[s] = None THEN None ELSE entries[s].generation

Export(d) ==
  LET x == drains[d]
      s == x.subject
  IN
  /\ x.step = "generation"
  /\ \/ /\ x.entry.base = x.upto
        /\ drains' = Between(d)
        /\ entries' = [entries EXCEPT ![s] = None]
        /\ UNCHANGED requests
     \/ /\ doc[s].state = "live"
        /\ Post(d, [x EXCEPT !.step = "delta", !.answer = "none",
                             !.generation = ExportedGeneration(s)])
        /\ UNCHANGED entries
     \/ /\ doc[s].state # "live"    \* get_resource fails: the pass stops
        /\ drains' = [drains EXCEPT ![d] = Idle]
        /\ UNCHANGED <<entries, requests>>
  /\ UNCHANGED <<hub, local, crashes, history>>

-----------------------------------------------------------------------------
(* The hub *)

\* What the hub makes of a commit it accepts: a genesis creates, and clears a
\* tombstone, or is a replay; a delta merges; a destroy removes the subtree.
Applied(r) ==
  CASE r.kind = "genesis" ->
         [hub EXCEPT ![r.subject] =
            IF @.state = "live" THEN @ ELSE [state |-> "live", version |-> 1]]
    [] r.kind = "delta" ->
         [hub EXCEPT ![r.subject].version = IF @ < r.upto THEN r.upto ELSE @]
    [] r.kind = "destroy" ->
         [s \in Subjects |-> IF s \in Under(r.subject) /\ hub[s].state = "live"
                               THEN [hub[s] EXCEPT !.state = "gone"]
                               ELSE hub[s]]

\* The refusal this state of the hub calls for, or "ok": a create needs its
\* parent, a delta everything before it, a destroy something to destroy.
Verdict(r) ==
  LET above == Parent[r.subject] IN
  CASE r.kind = "genesis" ->
         IF above = None THEN "ok"
         ELSE IF hub[r.subject].state = "live" \/ hub[above].state = "live"
                THEN "ok" ELSE "blocking"
    [] r.kind = "delta" ->
         IF hub[r.subject].state = "live" /\ r.base <= hub[r.subject].version
           THEN "ok" ELSE "transient"
    [] r.kind = "destroy" ->
         IF hub[r.subject].state = "live" THEN "ok" ELSE "transient"

\* Other refusals it may give: rights, quota, a full server; a required
\* property that is missing is final.
Refusals(r) ==
  {f \in Outcomes \cap {"transient", "blocking", "terminal"} :
     f = "terminal" => r.kind # "destroy"}

\* The calls an answer settles: those that wait for its id, whoever asked.
Hears(d, r) == Waits(d) /\ drains[d].id = r.id

Misled(r) == {drains[d].subject : d \in {e \in Drains :
                Hears(e, r) /\ Frame(drains[e]) # r}}

HubAnswers(r, answer) ==
  /\ answer \in Refusals(r) \cup {Verdict(r)}
  /\ requests' = requests \ {r}
  /\ hub' = IF answer = "ok" THEN Applied(r) ELSE hub
  /\ drains' = [d \in Drains |->
       IF Hears(d, r) THEN [drains[d] EXCEPT !.answer = answer] ELSE drains[d]]
  /\ crossed' = crossed \cup UNION {Under(s) : s \in Misled(r)}
  /\ UNCHANGED <<local, entries, crashes, forsaken, raced>>

\* A transport failure: the frame or its answer is lost, or the hub takes
\* longer than the 30 seconds a post waits.  The frame is not recalled: the hub
\* may apply it later.  A live link has forgotten who waited for its answer; on
\* a WebSocket that is still open another call may wait for its id by then.
Late == {r \in requests : \A d \in Drains : ~Waits(d) \/ Frame(drains[d]) # r}
Unheard(r) == [r EXCEPT !.id = 0]
StillSent(r) == {Unheard(r)} \cup (IF UniqueIds THEN {} ELSE {r})

GiveUp(d) ==
  LET frames == requests \cap {Frame(drains[d])}
      late == IF Cardinality(Late) < MaxLate
                THEN UNION {StillSent(r) : r \in frames} ELSE {}
  IN
  /\ "network" \in Outcomes
  /\ Posted(d) /\ drains[d].answer \in {"none", "ok"}
  /\ drains' = [drains EXCEPT ![d].answer = "transient"]
  /\ \E left \in {{}} \cup {{r} : r \in late} :
       requests' = (requests \ frames) \cup left
  /\ UNCHANGED <<hub, local, entries, crashes, history>>

-----------------------------------------------------------------------------
(* What drain_subject does with the answer *)

Sent(e) == [e EXCEPT !.envelope = "none", !.failures = 0, !.waiting = FALSE]

\* A drain puts an entry.  Another that is in flight may find the generation
\* it exported at again, and take it for "not edited since".
Puts(d, e) ==
  LET s == drains[d].subject
      before == entries[s]
      back == before = None \/ before.generation # e.generation
  IN
  /\ entries' = [entries EXCEPT ![s] = e]
  /\ raced' = raced \cup IF back /\ Blinded(s, e) \ {d} # {} THEN {s} ELSE {}

\* The captured entry, its envelope cleared, is put back.
GenesisAcked(d) ==
  LET e == Sent(drains[d].entry) IN
  /\ drains[d].step = "genesis" /\ drains[d].answer = "ok"
  /\ Puts(d, e)
  /\ drains' = [drains EXCEPT ![d] = [drains[d] EXCEPT
       !.step = "snapshot", !.entry = e, !.id = 0]]
  /\ UNCHANGED <<hub, local, requests, crashes, forsaken, crossed>>

DestroyAcked(d) ==
  /\ drains[d].step = "destroy" /\ drains[d].answer = "ok"
  /\ entries' = [entries EXCEPT ![drains[d].subject] = None]
  /\ drains' = Between(d)
  /\ UNCHANGED <<hub, local, requests, crashes, history>>

\* The stored entry is read again ...
DeltaAcked(d) ==
  /\ drains[d].step = "delta" /\ drains[d].answer = "ok"
  /\ drains' = [drains EXCEPT ![d] = [drains[d] EXCEPT
       !.step = "settle", !.entry = entries[drains[d].subject], !.id = 0]]
  /\ UNCHANGED <<hub, local, entries, requests, crashes, history>>

\* ... and kept, for what came after the export, if it was "edited again while
\* the commit was in flight"; else it is cleared.
NeverEdited(d) == FALSE
EditedSince(d) ==
  LET latest == drains[d].entry IN
  latest # None /\ latest.generation # drains[d].generation

LatestVersion(d) == doc[drains[d].subject].version
ExportedVersion(d) == drains[d].upto

Settle(d) ==
  LET s == drains[d].subject
      kept == [Sent(drains[d].entry) EXCEPT !.base = ExportedVersion(d)]
  IN
  /\ drains[d].step = "settle"
  /\ IF EditedSince(d) THEN Puts(d, kept)
       ELSE /\ entries' = [entries EXCEPT ![s] = None]
            /\ UNCHANGED raced
  /\ drains' = Between(d)
  /\ UNCHANGED <<hub, local, requests, crashes, forsaken, crossed>>

\* record_refusal of a refusal a retry may cure: the captured entry is put
\* back with one more failure.
RefusedUncapped(e, answer) ==
  [e EXCEPT !.failures = @ + 1, !.waiting = TRUE,
            !.blocked = e.failures > BlockAfter /\ answer = "blocking"]
RefusalDropsEnvelope(e, answer) ==
  [e EXCEPT !.envelope = "none", !.failures = IF @ < BlockAfter THEN @ + 1 ELSE @]
RefusedEntry(e, answer) ==
  LET long == e.failures + 1 >= BlockAfter IN
  [e EXCEPT !.failures = IF long THEN BlockAfter ELSE @ + 1,
            !.waiting = TRUE, !.blocked = long /\ answer = "blocking"]

Refused(d) ==
  /\ Posted(d) /\ drains[d].answer \in {"transient", "blocking"}
  /\ Puts(d, RefusedEntry(drains[d].entry, drains[d].answer))
  /\ drains' = Between(d)
  /\ UNCHANGED <<hub, local, requests, crashes, forsaken, crossed>>

\* record_refusal of one no retry can cure: the entry is dropped.
Dropped(d) ==
  LET s == drains[d].subject IN
  /\ Posted(d) /\ drains[d].answer = "terminal"
  /\ entries' = [entries EXCEPT ![s] = None]
  /\ forsaken' = forsaken \cup {s}
  /\ drains' = Between(d)
  /\ UNCHANGED <<hub, local, requests, crashes, raced, crossed>>

-----------------------------------------------------------------------------
(* Time, and the end of the app *)

Elapse(s) ==
  /\ entries[s] # None /\ entries[s].waiting
  /\ entries' = [entries EXCEPT ![s].waiting = FALSE]
  /\ UNCHANGED <<hub, local, drains, requests, crashes, history>>

\* The store and the outbox are on disk; the rest is gone, and with it the
\* record of a commit that was applied and not yet marked.  Frames that were
\* sent may still reach the hub.
Crash ==
  /\ crashes < MaxCrashes
  /\ crashes' = crashes + 1
  /\ drains' = [d \in Drains |-> Idle]
  /\ \E sent \in SUBSET requests :
       /\ Cardinality(sent) <= MaxLate
       /\ requests' = {Unheard(r) : r \in sent}
  /\ unmarked' = {}
  /\ found' = [s \in Subjects |-> {}]
  /\ forsaken' = forsaken \cup UNION {Under(w.subject) : w \in unmarked}
  /\ UNCHANGED <<doc, hub, entries, raced, crossed>>

-----------------------------------------------------------------------------
Answered(d) ==
  GenesisAcked(d) \/ DestroyAcked(d) \/ DeltaAcked(d) \/ Refused(d) \/ Dropped(d)

Sends(d) == TakeEntry(d) \/ ReadSnapshot(d) \/ EndDrain(d)
Marks(w) == FindEntry(w) \/ MarkDirty(w)

Next ==
  \/ \E s \in Subjects : Create(s) \/ Edit(s) \/ Destroy(s) \/ Elapse(s)
  \/ \E w \in unmarked : Marks(w)
  \/ \E d \in Drains :
       StartDrain(d) \/ Sends(d) \/ Export(d) \/ GiveUp(d) \/ Answered(d) \/ Settle(d)
  \/ \E r \in requests, answer \in Answers : HubAnswers(r, answer)
  \/ Crash

Spec == Init /\ [][Next]_vars
-----------------------------------------------------------------------------
(* Correctness *)

\* Every variable stays within its shape.
TypeOK ==
  /\ doc \in [Subjects -> Copy]
  /\ hub \in [Subjects -> Copy]
  /\ unmarked \subseteq Write
  /\ found \in [Subjects -> SUBSET (Entry \cup {None})]
  /\ entries \in [Subjects -> Entry \cup {None}]
  /\ drains \in [Drains -> Drain]
  /\ requests \subseteq Request
  /\ crashes \in 0..MaxCrashes
  /\ forsaken \subseteq Subjects /\ raced \subseteq Subjects
  /\ crossed \subseteq Subjects

\* The hub lacks something this node wrote.
Ahead(s) ==
  \/ /\ doc[s].state = "live"
     /\ hub[s].state # "live" \/ hub[s].version < doc[s].version
  \/ doc[s].state = "gone" /\ hub[s].state = "live"

\* It, or for a delete something it was deleted with, is queued or about to be.
Accounted(s) ==
  \E t \in Subjects :
    /\ s \in Under(t)
    /\ entries[t] # None \/ \E w \in unmarked : w.subject = t

\* What is known to go wrong: writes given up, marks a drain cannot tell, calls
\* settled by another's answer.
Excused == forsaken \cup raced \cup crossed

\* A local write that the hub lacks stays in the outbox, whatever drains are
\* under way, across restarts, late frames and lost answers, until the hub
\* refuses it for good: drain_subject and record_refusal clear or overwrite
\* the only record of it in the windows `raced` and `crossed` name, and in no
\* other.
NothingForgotten ==
  \A s \in Subjects : Ahead(s) => Accounted(s) \/ s \in Excused

\* base_version is a version the hub holds (OutboxEntry.base_version), so the
\* delta exported from it leaves no gap the hub would park behind.
HeldByHub(s) ==
  /\ doc[s].state = "live" /\ entries[s] # None
  /\ entries[s].envelope = "none" /\ entries[s].base # None
  => entries[s].base <= hub[s].version

BaseHeldByHub == \A s \in Subjects : HeldByHub(s) \/ s \in Excused

\* No delta goes out for a resource whose genesis the hub has not had.
DeltaHasGenesis ==
  \A d \in Drains : drains[d].step = "delta" =>
    \/ hub[drains[d].subject].state # "none"
    \/ drains[d].subject \in forsaken \cup crossed

\* "So a drain can tell whether a subject was edited again while its commit was
\* in flight" (outbox.rs, OutboxEntry.generation): also in the windows.
EditsKept ==
  \A s \in Subjects : Ahead(s) /\ doc[s].state = "live" =>
    Accounted(s) \/ s \in forsaken \cup crossed

\* The same of a delete.
DeletesKept ==
  \A s \in Subjects : Ahead(s) /\ doc[s].state = "gone" =>
    Accounted(s) \/ s \in forsaken \cup crossed

\* "Only the COMMIT_OK / ERROR carrying this request_id settles the call"
\* (ws.rs, post_commit): a drain that was told "ok" was told so about its own
\* commit, which the hub has applied.
AckedWasApplied ==
  \A d \in Drains : drains[d].answer = "ok" =>
    LET h == hub[drains[d].subject] IN
    CASE drains[d].step = "genesis" -> h.state # "none"
      [] drains[d].step = "delta" ->
           h.state = "gone" \/ (h.state = "live" /\ h.version >= drains[d].upto)
      [] drains[d].step = "destroy" -> h.state # "live"
      [] OTHER -> TRUE

\* "The hub holds everything before this commit's ops" (outbox.rs, mark_dirty),
\* also after the hub refused an earlier commit for good.
BaseAlwaysHeldByHub == \A s \in Subjects : HeldByHub(s)

\* failures counts "consecutive failed attempts", "reset on success and on a
\* fresh local edit" (outbox.rs, OutboxEntry): an entry is parked at the end of
\* a whole streak since its last edit.
ParkedAfterStreak ==
  [][\A s \in Subjects :
       /\ entries[s] # None /\ entries'[s] # None
       /\ ~entries[s].blocked /\ entries'[s].blocked
       => entries[s].failures + 1 >= BlockAfter]_vars

\* "So a child's genesis never reaches the hub before its parent's"
\* (outbox.rs, tier).
ChildAfterParent ==
  \A r \in requests :
    r.kind = "genesis" /\ Parent[r.subject] # None =>
      hub[Parent[r.subject]].state # "none"

-----------------------------------------------------------------------------
(* Liveness *)

\* Threads run, the hub answers, and (which no timer sees to: a drain needs a
\* write or a reconnect) drains keep being started.
Fairness ==
  /\ \A d \in Drains :
       /\ WF_vars(StartDrain(d)) /\ WF_vars(Sends(d)) /\ WF_vars(Export(d))
       /\ WF_vars(Answered(d)) /\ WF_vars(Settle(d))
  /\ \A s \in Subjects :
       /\ WF_vars(Elapse(s))
       /\ WF_vars(\E w \in unmarked : w.subject = s /\ Marks(w))
  /\ WF_vars(\E r \in requests : HubAnswers(r, Verdict(r)))

FairSpec == Spec /\ Fairness

\* A delete leaves the queue once the hub no longer holds the resource:
\* "clients treat this message as settled" (commit.rs, of a destroy that names
\* a resource the node does not hold).
DestroySettles ==
  \A s \in Subjects :
    (entries[s] # None /\ entries[s].envelope = "destroy" /\ hub[s].state # "live")
      ~> (entries[s] = None \/ entries[s].blocked)

=============================================================================
