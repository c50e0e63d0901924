--------------------------- MODULE SubjectWrites ---------------------------
(***************************************************************************)
(* Writers of one store: signed commits, updates from live peers, bulk     *)
(* pushes, removals, and the two writers that take no subject lock         *)
(* (lib/src/db.rs, lib/src/sync/ws_apply.rs, lib/src/sync/engine.rs,       *)
(* lib/src/vault/sync.rs).                                                 *)
(*                                                                         *)
(* Each reads a resource's snapshot, merges into it and replaces what is   *)
(* stored; subject_lock.rs makes that exclusive per subject.  A removal    *)
(* takes the subtree and leaves tombstones, each a write of its own after  *)
(* the transaction.  Import identities have locks of their own, taken      *)
(* after the subjects'.                                                    *)
(*                                                                         *)
(* A snapshot is the set of operations in it; an operation stands for a    *)
(* change with all it rests on.                                            *)
(***************************************************************************)
EXTENDS Naturals, FiniteSets

CONSTANTS
  Subjects,    \* resources; their ids compare as numbers (sorted lock keys)
  Imports,     \* import identities (parent and localId); they compare too
  Parent,      \* the parent of each resource, or None
  ImportOf,    \* the import identity of each resource, or None
  Ops,         \* operations
  Writers,     \* tasks that may write at once
  Kinds,       \* what is asked of the store
  None,
  MaxRequests, \* bound: requests in all
  MaxCrashes   \* bound: times the process is killed

Edits == {"genesis", "edit"}
Commits == Edits \cup {"destroy"}
AllKinds == Commits \cup {"update", "push", "remove", "batch", "restore"}

ASSUME WritesAssumption ==
  /\ Subjects \subseteq Nat /\ IsFiniteSet(Subjects) /\ Subjects # {}
  /\ Imports \subseteq Nat /\ IsFiniteSet(Imports)
  /\ Parent \in [Subjects -> Subjects \cup {None}]
  /\ ImportOf \in [Subjects -> Imports \cup {None}]
  /\ None \notin Nat /\ None \notin Writers
  /\ Kinds \subseteq AllKinds
  /\ MaxRequests \in Nat /\ MaxCrashes \in Nat

VARIABLES
  docs,        \* the stored snapshot of each resource, {} when there is none
  tombs,       \* resources with a tombstone
  lock,        \* who holds each subject's lock
  importLock,  \* who holds each import identity's lock
  writers,     \* the write each task is at
  requests, crashes,
  accepted,    \* history: operations written since the resource came to be
  authored,    \* history: resources a commit or a restore brought into being
  unlocked,    \* history: resources written without their lock
  gone,        \* history: resources removed, and not created again since
  loose        \* history: resources whose tombstone came apart from their state

history == <<accepted, authored, unlocked, gone, loose>>
vars == <<docs, tombs, lock, importLock, writers, requests, crashes, history>>

Steps == {"lock", "read", "land", "collect", "erase", "bury", "again", "clear"}

Writer == [at : Steps, kind : AllKinds, subject : Subjects,
           left : SUBSET Subjects, op : Ops \cup {None},
           staged : [Subjects -> SUBSET Ops], removed : SUBSET Subjects]

ASSUME NoneAssumption == None \notin Writer

Stored == {s \in Subjects : docs[s] # {}}

Nothing == [s \in Subjects |-> {}]

Staged(w) == {s \in Subjects : writers[w].staged[s] # {}}

\* import_identity::identity of the resources about to be written.
ImportsOf(S) == {ImportOf[s] : s \in S} \ {None}

Least(S) == CHOOSE x \in S : \A y \in S : x <= y

At(w, step) == writers[w] # None /\ writers[w].at = step

Is(w, kinds) == writers[w].kind \in kinds

Goes(w, step) == writers' = [writers EXCEPT ![w].at = step]

\* The guards are dropped.
Frees(w) ==
  /\ lock' = [s \in Subjects |-> IF lock[s] = w THEN None ELSE lock[s]]
  /\ importLock' =
       [i \in Imports |-> IF importLock[i] = w THEN None ELSE importLock[i]]

\* The task is done and takes its next request.
Releases(w) == Frees(w) /\ writers' = [writers EXCEPT ![w] = None]

-----------------------------------------------------------------------------
(* A store at rest, as earlier writes left it *)

Init ==
  /\ docs \in [Subjects -> {{}} \cup {{o} : o \in Ops}]
  /\ \A s \in Stored : Parent[s] \in Stored \cup {None}
  /\ \A s, t \in Stored : ImportOf[s] = ImportOf[t] => s = t \/ ImportOf[s] = None
  /\ tombs \in SUBSET (Subjects \ Stored)
  /\ lock = [s \in Subjects |-> None]
  /\ importLock = [i \in Imports |-> None]
  /\ writers = [w \in Writers |-> None]
  /\ requests = 0 /\ crashes = 0
  /\ accepted = docs
  /\ authored = Stored
  /\ gone = tombs
  /\ unlocked = {} /\ loose = {}

-----------------------------------------------------------------------------
(* Requests *)

Begins(w, r) ==
  /\ writers[w] = None /\ requests < MaxRequests /\ r.kind \in Kinds
  /\ writers' = [writers EXCEPT ![w] = r]
  /\ requests' = requests + 1
  /\ UNCHANGED <<docs, tombs, lock, importLock, crashes, history>>

Request(step, kind, s, o) ==
  [at |-> step, kind |-> kind, subject |-> s, left |-> {s}, op |-> o,
   staged |-> Nothing, removed |-> {}]

\* Db::apply_commit.
Commit(w, kind, s, o) == Begins(w, Request("lock", kind, s, o))

Destroy(w, s) == Begins(w, Request("lock", "destroy", s, None))

\* resolve_update merges into the snapshot it reads before it has the lock.
Update(w, s, o) ==
  Begins(w, [Request("lock", "update", s, o)
               EXCEPT !.staged[s] = docs[s] \cup {o}])

\* import_sync_push and, without the locks, apply_state_updates.
Push(w, S, o) ==
  Begins(w, [Request("lock", "push", Least(S), o) EXCEPT !.left = S])

Batch(w, S, o) ==
  Begins(w, [Request("read", "batch", Least(S), o) EXCEPT !.left = S])

\* apply_destroy: an unsigned SYNC_DIFF.remove entry.  One that names a
\* resource this store never knew is ignored.
Remove(w, s) ==
  /\ s \in Stored \cup tombs
  /\ Begins(w, Request("collect", "remove", s, None))

\* Cloud Vault restore of one entry.
Restore(w, s, o) == Begins(w, Request("read", "restore", s, o))

-----------------------------------------------------------------------------
(* Locks *)

\* Subjects in sorted order; import_sync_push reads nothing before it has all.
NextSubject(w) == Least({s \in writers[w].left : lock[s] # w})

Takes(w, s) ==
  /\ lock[s] = None
  /\ lock' = [lock EXCEPT ![s] = w]
  /\ Goes(w, IF \A t \in writers[w].left \ {s} : lock[t] = w THEN "read" ELSE "lock")
  /\ UNCHANGED <<docs, tombs, importLock, requests, crashes, history>>

\* The locks are taken in any order.
LocksAnySubject(w) ==
  At(w, "lock") /\ \E s \in writers[w].left : lock[s] # w /\ Takes(w, s)

LocksSubject(w) == At(w, "lock") /\ Takes(w, NextSubject(w))

\* Who asks, under the identity's lock, that nobody else holds the identity.
\* Replicated writes are not held to it.
Checked == Edits \cup {"restore"}

MayImport(w) ==
  Is(w, Checked) =>
    \A t \in Stored : ImportOf[t] = ImportOf[writers[w].subject]
                        => t = writers[w].subject

\* Asks whether the identity is locked, not by whom.
UnlockedByAnyone(w) == {i \in ImportsOf(Staged(w)) : importLock[i] = None}

Unlocked(w) == {i \in ImportsOf(Staged(w)) : importLock[i] # w}

LocksImport(w) ==
  /\ At(w, "land") /\ Unlocked(w) # {}
  /\ importLock[Least(Unlocked(w))] = None
  /\ MayImport(w)
  /\ importLock' = [importLock EXCEPT ![Least(Unlocked(w))] = w]
  /\ UNCHANGED <<docs, tombs, lock, writers, requests, crashes, history>>

-----------------------------------------------------------------------------
(* Reading and merging *)

Stages(w, s, ops) ==
  writers' = [writers EXCEPT ![w] =
    [@ EXCEPT !.at = "land", !.left = {}, !.staged[s] = ops]]

\* The tombstone of the deleted resource stays.
ReadsKeepingTombstone(w) ==
  LET s == writers[w].subject IN
  /\ At(w, "read") /\ Is(w, Edits)
  /\ Is(w, {"edit"}) => docs[s] # {}
  /\ Stages(w, s, docs[s] \cup {writers[w].op})
  /\ UNCHANGED <<docs, tombs, lock, importLock, requests, crashes, history>>

\* validate_and_build_response.  The tombstone of a resource about to be
\* created goes before the rights and the rest are checked.
ReadsForCommit(w) ==
  LET s == writers[w].subject IN
  /\ At(w, "read") /\ Is(w, Edits)
  /\ Is(w, {"edit"}) => docs[s] # {}
  /\ Stages(w, s, docs[s] \cup {writers[w].op})
  /\ tombs' = IF docs[s] = {} THEN tombs \ {s} ELSE tombs
  /\ UNCHANGED <<docs, lock, importLock, requests, crashes, history>>

\* A destroy is stored like an edit.
ReadsDestroyAsEdit(w) ==
  LET s == writers[w].subject IN
  /\ At(w, "read") /\ Is(w, {"destroy"})
  /\ docs[s] # {}
  /\ Stages(w, s, docs[s])
  /\ UNCHANGED <<docs, tombs, lock, importLock, requests, crashes, history>>

ReadsForDestroy(w) ==
  /\ At(w, "read") /\ Is(w, {"destroy"})
  /\ docs[writers[w].subject] # {}
  /\ Goes(w, "collect")
  /\ UNCHANGED <<docs, tombs, lock, importLock, requests, crashes, history>>

\* What was resolved before the lock is stored as it is.
MergesNothing(w) ==
  /\ At(w, "read") /\ Is(w, {"update"})
  /\ Stages(w, writers[w].subject, writers[w].staged[writers[w].subject])
  /\ UNCHANGED <<docs, tombs, lock, importLock, requests, crashes, history>>

\* persist_update merges again, into what is stored now.
MergesUpdate(w) ==
  LET s == writers[w].subject IN
  /\ At(w, "read") /\ Is(w, {"update"})
  /\ Stages(w, s, docs[s] \cup writers[w].staged[s])
  /\ UNCHANGED <<docs, tombs, lock, importLock, requests, crashes, history>>

\* One entry of a push; only import_sync_push skips what is tombstoned.
Skips(w, s) == Is(w, {"push"}) /\ s \in tombs

ReadsEntry(w, s) ==
  LET r == writers[w]
      ops == IF Skips(w, s) THEN {} ELSE docs[s] \cup {r.op}
      at == IF r.left = {s} THEN "land" ELSE "read" IN
  /\ At(w, "read") /\ Is(w, {"push", "batch", "restore"})
  /\ s \in r.left
  /\ writers' = [writers EXCEPT ![w] =
       [@ EXCEPT !.left = r.left \ {s}, !.at = at, !.staged[s] = ops]]
  /\ UNCHANGED <<docs, tombs, lock, importLock, requests, crashes, history>>

\* A commit is refused: no such resource, rights, quota, schema, an identity
\* that is taken, a before_commit hook.  A restore is, for the identity.
Refuses(w) ==
  /\ writers[w] # None /\ Is(w, Commits \cup {"restore"})
  /\ writers[w].at \in {"read", "land", "collect"}
  /\ Releases(w)
  /\ loose' = IF At(w, "land") /\ Is(w, {"genesis"}) /\ docs[writers[w].subject] = {}
                THEN loose \cup ({writers[w].subject} \cap gone) ELSE loose
  /\ UNCHANGED <<docs, tombs, requests, crashes, accepted, authored, unlocked, gone>>

-----------------------------------------------------------------------------
(* Replacing what is stored, in one transaction *)

Lands(w) ==
  LET new == {s \in Staged(w) : docs[s] = {}} IN
  /\ At(w, "land") /\ Unlocked(w) = {}
  /\ docs' = [s \in Subjects |->
       IF s \in Staged(w) THEN writers[w].staged[s] ELSE docs[s]]
  /\ accepted' = [s \in Subjects |->
       IF s \in Staged(w)
         THEN {writers[w].op} \cup (IF s \in new THEN {} ELSE accepted[s])
         ELSE accepted[s]]
  /\ authored' = IF Is(w, Checked) THEN authored \cup new ELSE authored \ new
  /\ unlocked' = unlocked \cup {s \in Staged(w) : lock[s] # w}
  /\ gone' = IF Is(w, {"genesis", "restore"}) THEN gone \ new ELSE gone
  /\ loose' = IF Is(w, {"update", "batch", "restore"}) THEN loose \cup new
                                                        ELSE loose
  /\ IF Is(w, {"restore"}) THEN Frees(w) /\ Goes(w, "clear") ELSE Releases(w)
  /\ UNCHANGED <<tombs, requests, crashes>>

\* A restored resource is not a deleted one, unless it was deleted meanwhile.
Clears(w) ==
  /\ At(w, "clear")
  /\ tombs' = tombs \ {writers[w].subject}
  /\ Releases(w)
  /\ loose' = loose \cup ({writers[w].subject} \cap gone)
  /\ UNCHANGED <<docs, requests, crashes, accepted, authored, unlocked, gone>>

-----------------------------------------------------------------------------
(* Removing a subtree *)

\* What recursive_remove finds: the least set with the resource and, of every
\* member, the stored children.
Subtree(s) ==
  {t \in Subjects : \A S \in SUBSET Subjects :
     (s \in S /\ \A c \in Stored : Parent[c] \in S => c \in S) => t \in S}

Collects(w) ==
  LET s == writers[w].subject IN
  /\ At(w, "collect")
  /\ IF docs[s] # {}
       THEN /\ writers' = [writers EXCEPT ![w] =
                 [@ EXCEPT !.at = "erase", !.removed = Subtree(s)]]
            /\ UNCHANGED <<lock, importLock>>
       ELSE IF Is(w, {"remove"})
              THEN Goes(w, "again") /\ UNCHANGED <<lock, importLock>>
              ELSE Releases(w)
  /\ UNCHANGED <<docs, tombs, requests, crashes, history>>

Erases(w) ==
  LET removed == writers[w].removed IN
  /\ At(w, "erase")
  /\ docs' = [s \in Subjects |-> IF s \in removed THEN {} ELSE docs[s]]
  /\ accepted' = [s \in Subjects |-> IF s \in removed THEN {} ELSE accepted[s]]
  /\ gone' = gone \cup removed
  /\ loose' = loose \cup {s \in removed : lock[s] # w}
  /\ Goes(w, "bury")
  /\ UNCHANGED <<tombs, lock, importLock, requests, crashes, authored, unlocked>>

\* Only what went with the resource gets a tombstone.
BuriedBelow(w, s) == tombs \cup ({s} \ {writers[w].subject})

Buried(w, s) == tombs \cup {s}

\* One tombstone after the other, the top of the subtree first.
Buries(w, s) ==
  LET removed == writers[w].removed IN
  /\ At(w, "bury") /\ s \in removed
  /\ writers[w].subject \in removed => s = writers[w].subject
  /\ tombs' = Buried(w, s)
  /\ IF removed # {s}
       THEN /\ writers' = [writers EXCEPT ![w].removed = @ \ {s}]
            /\ UNCHANGED <<lock, importLock>>
       ELSE IF Is(w, {"remove"})
              THEN Goes(w, "again") /\ UNCHANGED <<lock, importLock>>
              ELSE Releases(w)
  /\ UNCHANGED <<docs, requests, crashes, history>>

\* apply_destroy records it once more, whether or not the removal worked.
BuriesAgain(w) ==
  /\ At(w, "again")
  /\ tombs' = tombs \cup {writers[w].subject}
  /\ Releases(w)
  /\ loose' = loose \cup {writers[w].subject}
  /\ UNCHANGED <<docs, requests, crashes, accepted, authored, unlocked, gone>>

-----------------------------------------------------------------------------
(* The process is killed; what was written stays *)

\* Tombstones not recorded yet, or lifted for a commit that never landed.
Interrupted ==
  UNION {writers[w].removed \cup Staged(w) : w \in {v \in Writers : writers[v] # None}}

Crash ==
  /\ crashes < MaxCrashes
  /\ crashes' = crashes + 1
  /\ writers' = [w \in Writers |-> None]
  /\ lock' = [s \in Subjects |-> None]
  /\ importLock' = [i \in Imports |-> None]
  /\ loose' = loose \cup (Interrupted \cap gone)
  /\ UNCHANGED <<docs, tombs, requests, accepted, authored, unlocked, gone>>

-----------------------------------------------------------------------------

Asked(w) ==
  \/ \E s \in Subjects : Destroy(w, s) \/ Remove(w, s)
  \/ \E s \in Subjects, o \in Ops :
       \/ \E kind \in Edits : Commit(w, kind, s, o)
       \/ Update(w, s, o) \/ Restore(w, s, o)
  \/ \E S \in (SUBSET Subjects) \ {{}}, o \in Ops : Push(w, S, o) \/ Batch(w, S, o)

Step(w) ==
  \/ LocksSubject(w) \/ LocksImport(w)
  \/ ReadsForCommit(w) \/ ReadsForDestroy(w) \/ MergesUpdate(w)
  \/ Refuses(w) \/ Lands(w) \/ Clears(w)
  \/ Collects(w) \/ Erases(w) \/ BuriesAgain(w)
  \/ \E s \in Subjects : ReadsEntry(w, s) \/ Buries(w, s)

Next == Crash \/ \E w \in Writers : Asked(w) \/ Step(w)

Spec == Init /\ [][Next]_vars

-----------------------------------------------------------------------------

TypeOK ==
  /\ docs \in [Subjects -> SUBSET Ops] /\ tombs \subseteq Subjects
  /\ lock \in [Subjects -> Writers \cup {None}]
  /\ importLock \in [Imports -> Writers \cup {None}]
  /\ writers \in [Writers -> Writer \cup {None}]
  /\ requests \in 0..MaxRequests /\ crashes \in 0..MaxCrashes
  /\ accepted \in [Subjects -> SUBSET Ops]
  /\ authored \subseteq Subjects /\ unlocked \subseteq Subjects /\ gone \subseteq Subjects
  /\ loose \subseteq Subjects

\* No write is lost to another: what a commit or a peer wrote is in the
\* resource until it is removed, although each of them replaces the snapshot
\* it read (db.rs:5004, ws_apply.rs:236).
OperationsSurvive == \A s \in Subjects \ unlocked : accepted[s] \subseteq docs[s]

\* A tombstone never stands for a resource that is there, which would keep it
\* from every later push (db.rs:5309), unless it came apart before.
TombstonesAreForTheGone == tombs \cap Stored \subseteq loose

\* What was deleted does not come back by a push that raced the deletion.
\* `loose` also lists what was removed with its parent, without its own lock:
\* this is about the resource a destroy or removal names, not its children.
DeletedStaysDeleted == gone \cap Stored \subseteq loose

\* Commits and restores never make two resources of one imported record,
\* whichever run at once (import_identity.rs:116).
OneRecordPerImport ==
  \A s, t \in Stored \cap authored :
    ImportOf[s] = ImportOf[t] => s = t \/ ImportOf[s] = None

\* Whom a task waits for: the holder of the next lock it needs.
WaitsFor(w, v) ==
  \/ At(w, "lock") /\ lock[NextSubject(w)] = v
  \/ At(w, "land") /\ Unlocked(w) # {} /\ importLock[Least(Unlocked(w))] = v

\* Tasks never wait for each other in a circle: subjects are locked in sorted
\* order and identities after them, in sorted order too (engine.rs:2033,
\* db.rs:882).
NoCircularWait ==
  \A W \in (SUBSET Writers) \ {{}} : \E w \in W : \A v \in W : ~WaitsFor(w, v)

\* The same for every writer, with a lock or without.
NothingIsLost == \A s \in Subjects : accepted[s] \subseteq docs[s]

\* Without the escape of DeletedStaysDeleted.
NothingComesBack == gone \cap Stored = {}
=============================================================================
