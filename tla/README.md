# Formal models of Atomic Server

TLA+ specifications of the parts of Atomic Server whose correctness depends on the order of events: the two queues that carry local writes to a server, the writers of one store and the locks between them, and the background work of plugins - the leases that decide which node does it, the triggers and schedules that start it, and the journal that keeps it from being done twice. TLC checks them on small instances; TLAPS proves the main results for every value of the constants.

Contents: [The system](#the-system) · [Modules](#modules) · [OutboxDrain](#outboxdrain-the-browsers-write-queue) · [NodeOutbox](#nodeoutbox-the-outbox-of-a-rust-node) · [PluginLease](#pluginlease-one-node-runs-the-background-work) · [RecordedRun](#recordedrun-a-plugins-writes-are-made-once) · [TriggerDelivery](#triggerdelivery-edges-handed-to-plugins) · [PluginSchedule](#pluginschedule-what-is-due-is-run) · [SubjectWrites](#subjectwrites-the-writers-of-one-store) · [Where code and documentation part](#where-code-and-documentation-part) · [Proofs](#proofs) · [Only model-checked](#only-model-checked) · [Not modelled](#not-modelled) · [Plan](#plan) · [Running](#running)

## The system

Atomic Server stores *resources* (a subject, properties, a Loro CRDT snapshot) and accepts *commits*: signed changes to one resource. A browser tab, a Rust node (desktop, mobile, embedded) and a server all hold a store; writes are made locally first and travel to the others.

| Component | Source | State | Operations | Talks to | Hard because |
|---|---|---|---|---|---|
| Browser write queue | `browser/lib/src/local-outbox.ts` | entry per dirty subject (signed genesis or destroy, failures, backoff, parked flag), the pass in flight and the one chained behind it | `markDirty`, `setDestroyCommit`, `drain`, `drainOne`, `rearmParentBlocked` | `Store` (callbacks), the server by WebSocket | every await is a point where edits, deletes, timers and reconnects step in; answers get lost |
| Browser store, resources, socket | `store.ts`, `resource.ts`, `websockets.ts` in `browser/lib/src` | resources, save cursors, drain timer, connection flag | `save`, `destroy`, `syncDirtyResources`, `drainOutboxSubject`, `drainDestroy`, `handleOpen`, `doSync` | queue, local database, socket | a save waits on a pass somebody else started |
| Browser local database | `client-db.ts`, `client-db.worker.ts` | OPFS mirror of resources and queue | staged writes, flush | store | a tab can be killed between an edit and the flush |
| Node outbox | `lib/src/sync/outbox.rs`, `lib/src/runtime/node.rs` | `Tree::Outbox`: base version, envelope, generation, failures per subject | `mark_dirty`, `drain`, `drain_subject`, `record_refusal` | local store, hub over WebSocket or a live link | many threads, no pass in flight to join, the app is killed anywhere |
| Commits, locks | `lib/src/commit.rs`, `db.rs`, `subject_lock.rs`, `import_identity.rs` | resources, snapshots, tombstones, two kinds of locks | `apply_commit`, destroy of a subtree | indexes, monitors, every writer of a snapshot | read-modify-write under a per-subject lock, which some writers do not take; tombstones apart from the transaction |
| Sync engine, peers | `lib/src/sync/engine.rs`, `peer.rs`, `replicate.rs`, `ws_apply.rs`, `dial_gate.rs` | version vectors, tombstones, links | reconcile, push, apply, dial | peers, hub | deletions and updates overtake each other |
| Store maintenance | `lib/src/db/write_log.rs`, `compaction.rs`, `blob_gc.rs`, `drive_events.rs` | log of writes, blobs, event cursors | append, compact, collect | store | runs beside writers |
| Vault | `lib/src/vault/*` | envelopes, data keys, packs | rotate, sync | peers | rotation while packs travel |
| Plugin leases | `server/src/plugins/lease.rs` | synced lease resources, a cached verdict per Installation | `holds`, `renew`, `write`, `collect_old` | store, sync engine | several nodes, clocks that differ, leases that arrive late |
| Recorded runs | `server/src/plugins/journal.rs`, `apply.rs`, `scheduler.rs` (`apply_recorded`) | per run: plan, receipts, end | `plan`, `begin`, `complete`, `finish`, `abandon` | store, run log | a crash between a write and its receipt |
| Plugin triggers | `server/src/plugins/triggers.rs`, `lib/src/db/plugin_trigger.rs`, `drive_events.rs`, `server/src/handlers/plugin_trigger.rs` | trigger, cursor and saved event per plugin; the guard in memory | `drain`, `deliver`, `run`, set and delete | event log, leases, recorded runs | an unsynced store, a worker that works from a copy, edits beside it |
| Plugin scheduler | `server/src/plugins/scheduler.rs`, `lib/src/db/plugin_schedule.rs`, `server/src/handlers/plugin_schedule.rs` | schedule per plugin: claim, proposal, error, grant | `run_due`, `run_one`, resume, grant, revoke | leases, recorded runs | the same |
| Plugin sync sessions | `server/src/plugins/sync_session.rs`, `sync_worker.rs` | session state, journal | start, step, resume | plugins, store | partial failure |
| Server fan-out, load shedding | `server/src/commit_monitor.rs`, `write_load.rs`, `rate_limit.rs` | subscriptions, permits | subscribe, notify, admit | sockets | subscription against commits in flight |
| Indexes, values, parsing, applications | `lib/src/db/query_index.rs`, `values.rs`, `parse.rs`, ... | derived data | sequential functions | | ordinary tests reach it |

What makes each of them correct:

- *Write queues*: nothing a user wrote is lost on the way or forgotten by the queue; a caller told "persisted" or "destroyed" was told the truth; a delta never starts past what the receiver holds; parents arrive before children; one attempt per resource at a time; a queue with work in it always has something that will wake it.
- *Leases*: a node stops soon after its own store names another holder; a node that takes over finds the former holder stopped; a genuine lease is never ignored.
- *Commits and sync*: no lost update under the lock; locks never waited for in a circle; a tombstone stands for what is gone; a deletion is not undone by a stale copy; one resource per imported record; two stores that talk long enough agree.
- *Recorded runs*: one plan per run, each of its writes at most once whatever crashes, finished only when all were made.
- *Triggers and schedules*: an edge or a run is not skipped by a restart, nor a later one started before an open one; a claim does not stay behind.

`PROJECT.json` names each component with its status and, under `hazards`, each place in the code where one of these could fail, with the properties that watch it.

## Modules

| Module | Models | Instance for TLC | Proofs |
|---|---|---|---|
| `OutboxDrain` | the browser queue with the store, save, destroy and socket paths that drive it, and the server's answers | `MCOutboxDrain` | `OutboxDrainProofs`, `OutboxDeliveryProofs` |
| `NodeOutbox` | the node's outbox, the commits that fill it, drains, and the hub's verdicts | `MCNodeOutbox` | `NodeOutboxProofs` |
| `PluginLease` | `Leases::holds` on every node, the sync of lease resources between nodes, clocks | `MCPluginLease` | `PluginLeaseProofs` |
| `RunOnce` | abstract: what a recorded run promises | | |
| `RunPlans` | the plans a run can have, shared by the next three | | |
| `RecordedRun` | applying a plugin's proposal through its journal | through the next two | `RecordedRunProofs` |
| `TriggerDelivery` | the delivery worker, its cursors, the endpoint; an instance of `RecordedRun` inside | `MCTriggerDelivery` | `TriggerDeliveryProofs` |
| `PluginSchedule` | the pass over what is due, resumes, the endpoints; an instance of `RecordedRun` inside | `MCPluginSchedule` | `PluginScheduleProofs` |
| `SubjectWrites` | the writers of one store: commits, updates, pushes, removals, restores; subject and identity locks, tombstones | `MCSubjectWrites` | `SubjectWritesProofs` |

The two queues never meet in one process: the browser drains its own by WebSocket to a server, the node drains its own to a hub. They share the receiver's rules for a commit (genesis is idempotent, a delta needs what comes before it, a destroy takes the subtree), which each module states where it needs them.

`TriggerDelivery` and `PluginSchedule` take from a lease only that it may be refused (`NotLeased`), at any time; `PluginLease` is about when. Both implement `RunOnce` by the mapping `RecordedRun` states (`Promise`): the plan and the end are the journal's, the writes made are counted.

In the queues a resource's content is a number (edits or commits made), in `SubjectWrites` a set of operations: the properties ask whether one version is contained in another, never what it says. Times are either numbers (leases, where the arithmetic is the point) or a flag with an action that ends the wait (backoff, where only "waiting or not" decides anything).

## OutboxDrain: the browser's write queue

JavaScript runs one event to its next await, so an action is exactly that stretch. The waits that other events fall between are visible as state:

| Variable | Code |
|---|---|
| `entries` | `LocalOutbox.entries`; `waiting` is a backoff, BUSY or pace delay that has not passed, `last` joins `lastAttemptFailure` and `lastAttemptError` |
| `resource` | the `Resource` in the tab: edits made, `_loroVersionAtLastSave`, `_dirty` |
| `server` | what the server has applied, whatever the client has heard |
| `passes`, `drainInFlight`, `drainFollowUpQueued` | the promises of `doDrain`: running, or chained once behind the one in flight |
| `attempts` | `drainOne` calls under way, each at the request it awaits (genesis, reread, export, delta, destroy) |
| `calls` | `save()` and `destroy()` callers, the pass they await, and whether the entry they captured is still the queued one |
| `outboxDrainTimer`, `serverConnected`, `socket` | the same fields of `Store` and `WSClient` |
| `forsaken` | history: a write was refused for good |
| `unanswered` | history: the server applied the create while the client heard of a failure, and no retry was acknowledged since |

Actions follow the code's stretches: `Edit`, `Save`, `Destroy` and `CallReturns` (the two sides of the await in `resource.ts`); `Skip`, `StartAttempt`, `DropMootDestroy`, `PassSettles`, `StartFollowUp` (`doDrain`, `runBounded`, `drainOne`); one action for each way a request ends (`GenesisAcked`, `DeltaAcked`, `DestroyAcked`, `Busy`, `Cancelled`, `NetworkFails`, `Refused`, `PendingDependencies`, `TerminallyRefused`, ...); `TimerFires`, `SocketOpens`, `SocketOpensUnauthenticated`, `SocketCloses`, `DriveSyncFinishes`. A lost acknowledgement is `NetworkFails` or `Cancelled` after the server applied the commit (`AnswerLost`).

### Runs

| Run | Shows |
|---|---|
| `outbox_passes` | a parent and two children, concurrency 2, every caller asking for drains: `OneAttemptPerSubject`, `TierBarrier`, `AwaitedDrainAttempts`, `NoLostWakeup` |
| `outbox_outcomes` | one resource through BUSY, lost requests and answers, a missing parent, dependencies the server lacks and a terminal refusal, two edits, two callers, sockets that fail to authenticate: `NothingForgotten`, `PersistedMeansAcked`, `DestroyedMeansGone`, `CursorNotPastServer`, `TypeOK` |
| `outbox_live` | `QueuedIsSettled` and `CallsReturn` under `FairSpec` |
| `outbox_moot_destroy` | `DestroyedMeansAcked`, which `destroy()` documents and the code does not keep: create, answer lost, delete |

`NothingForgotten` and `DestroyedMeansGone` name two ways in which the server may keep what the client forgot. One is a refusal for good (`forsaken`). The other is exactly the case of `outbox_moot_destroy`: the answer to a create was lost (`unanswered`) and the resource is then deleted. `DropMootDestroy` itself excuses nothing, so a delete dropped in any other state of the server violates both properties.

Bounds. Ordering hazards need siblings in one tier and a parent in another (three subjects) but no content, so `outbox_passes` lets subjects be created and deleted without further edits. Data hazards are per resource, so the other runs have one subject: two edits are the least for "an edit during the attempt" on top of a first one, two calls the least for one caller joining another's pass, three pass slots the most that are alive at once (running, chained, and one whose callers have not returned). `BlockAfter` 1 or 2 instead of the code's streak reaches the parked state; its value decides nothing else.

Fairness in `outbox_live`: timers fire, promises settle, attempts end (`REQUEST_TIMEOUT`), each weakly fair because the JavaScript event loop runs what is ready. The strong fairness of acknowledgements says that a server asked again and again answers in the end; the property claims settlement only for a connection that stays up. The run has `AuthMayFail = FALSE`: with an authentication that fails, `OutboxDrainAuthFails.cfg` shows the wake-up is lost. `CallsReturn` needs no connection.

## NodeOutbox: the outbox of a Rust node

There is no pass in flight to join here: every local write and every reconnect spawns a drain, on a runtime with many threads. An action is what one thread does between two points where another may step in.

| Variable | Code |
|---|---|
| `doc` | `Tree::Resources` and `Tree::LoroSnapshots` on the node |
| `unmarked` | commits applied by `apply_local_commit` that `mark_dirty` has not recorded |
| `found` | what `mark_dirty` read of an entry (`outbox.rs:341`) and has not written yet (`:378`) |
| `entries` | `Tree::Outbox`: `base_version`, `envelope_json`, `generation`, `failures`, `blocked` |
| `drains` | each `drain` under way: the entries it captured, the one it is at, the version it exported and the generation it read, its request id |
| `requests` | COMMIT frames in flight, also those nobody waits for any more |
| `hub` | what the hub holds |
| `forsaken` | history: a write was refused for good, or applied and not marked when the app was killed |
| `raced` | history: a mark was made where a drain under way cannot tell (the windows below) |
| `crossed` | history: a call was settled by the answer to another frame |

`FindEntry` and `MarkDirty` are the two store calls of `mark_dirty`. `StartDrain`, `TakeEntry`, `ReadSnapshot`, `Export` (the generation is read and the delta posted), `GenesisAcked`, `DestroyAcked`, `DeltaAcked` (the entry is read again, `:515`), `Settle` (it is put or cleared, `:523`, `:525`), `Refused` and `Dropped` are those of a drain. Nothing locks an entry, so any other thread may step in between any two of them.

`HubAnswers` gives the verdict the hub's state calls for (`Verdict`, from `commit.rs`) or another refusal it may give (`Refusals`), and settles the calls that wait for the frame's id, whoever sent it (`Hears`). `UniqueIds` tells the two transports apart: a live link draws ids from one counter of 16 bits that wraps (`peer.rs`), modelled as the least id not in use, and a WebSocket drain numbers its own from 1 (`outbox.rs:435`). `GiveUp` is the failure of a call: the frame was lost, its answer was, or 30 seconds have passed. The frame is not recalled then. It may stay in `requests`, the hub may apply it at any later time, and on a WebSocket its answer may meet another call with its number. `Crash` loses everything but the two disk trees; frames that were sent may outlive it.

The code loses writes, and the model with it. `raced` names the windows, one of which must have been met:

- a mark while a drain is between its reads of the snapshot (`:480`) and the generation (`:496`): the edit counts as exported, and the acknowledgement clears its entry;
- a mark while a drain is between reading the entry again (`:515`) and its put or clear (`:523`, `:525`): it is overwritten or erased, by one drain and two writers;
- a mark, or another drain's put of a captured entry, that brings back the generation a drain exported at: a cleared entry starts again at 1, so a drain takes the new entry for the one it exported;
- a delete marked while a drain holds an older entry of the resource, or while its create is still in flight: the drain's put replaces the delete, or the create comes after it.

`NothingForgotten` and `BaseHeldByHub` say that nothing outside these windows, outside `crossed` and outside `forsaken` loses a write or starts a delta past what the hub holds, with every interleaving of store calls allowed. A mark that overlaps a drain anywhere else (during the post, while other entries are sent, between the take and the snapshot) is held to it. That the windows do lose writes is shown by the configurations `NodeOutboxErased`, `NodeOutboxStaleBase`, `NodeOutboxDestroyLost` and `NodeOutboxSharedIds`, whose properties leave the exceptions out.

| Run | Shows |
|---|---|
| `node_drains` | one resource, two drains over a live link interleaved with each other and with the writers at every store call, two commits and a delete, one late frame: `NothingForgotten`, `BaseHeldByHub`, `DeltaHasGenesis`, `TypeOK` |
| `node_family` | a parent and a child, one drain: a genesis refused for want of its parent, a delete that takes the subtree on both sides, terminal refusals, a crash anywhere, one late frame: `NothingForgotten` |

Bounds. Two commits and a delete allow a genesis, an edit while it is in flight, and an edit or a delete inside a drain; a third commit is what `NodeOutboxStaleBase` needs to show the window's second consequence, and the theorems are for any number. Two drains are what one write and one reconnect give; one late frame can be a genesis, a delta or a destroy. One crash, because a restart keeps nothing but the disk. The ids of a WebSocket are checked with one drain by `NodeOutboxSocket.cfg` (all refusals, a crash, a late frame; 0.3 million states), which passes and is run by hand; with two, `NodeOutboxSharedIds.cfg` shows that `ws.rs:528` does not hold, which `crossed` stands for in the theorems.

No liveness is claimed: a deferred entry waits for the next write or reconnect, since the node has no timer for it.

## PluginLease: one node runs the background work

`Leases::holds` reads the leases a node has, may write or renew one of its own, and caches its verdict until a renewal before expiry. `Read` takes the snapshot; `Solo`, `First`, `Keep`, `Renew`, `HeldElsewhere`, `TakeOver`, `Fails` are the branches of `holds`; `Remember` is the tail (`collect_old`, then the cache). Leases may arrive between any two of them (`Sync`), in any order: a later expiry replaces an earlier one, a tombstone removes a copy, a bulk sync keeps a tombstone and a live update may bring the lease back (`Received`). `Restart` forgets the cache and the calls under way.

`now` is the time on the slowest clock, `Skew[n]` how far node n is ahead, at most a lease length. A call takes no time: `Tick` waits for calls to finish. `since[n]` is history: n's clock when its head last changed; so is `lost`: the nodes whose head was destroyed in their store, by another node's `collect_old`.

| Run | Shows |
|---|---|
| `lease_nodes` | two nodes, one clock ahead, three leases, long enough for two takeovers: `BoundedOverlap`, `TakeoverFindsItStopped`, `TypeOK` |

- `BoundedOverlap` is the promise in the file's header: after losing, the overlap is bounded by one renewal plus the time the news takes to arrive. `since` starts at the arrival, so what remains is `TTL - RenewBefore`, which with the constants of the code (60 s and 30 s) is `RENEW_BEFORE_MS`. It covers a call that decides on leases older than those that arrived meanwhile.
- `TakeoverFindsItStopped` is the other half: if the node taking over knows the holder's last renewal and its clock is less than `RENEW_BEFORE_MS` ahead, the holder is no longer running. Its hypotheses are the conditions under which the code can promise anything; without them (a renewal not yet synced, a clock too far ahead) both run, as the header says. The third is that the holder never lost its head (`lost`): a node whose leases were collected by others starts again at generation 0, and if an older lease of its own is then brought back by a live update, with the expiry it had, everybody takes that one for its word. Two nodes and a lease of two units are too few to show it; the proof attempt did.
- Neither says anything about a clock further ahead than that: a node whose clock runs a `RENEW_BEFORE_MS` or more ahead may take over while the holder still works (the bounded overlap then starts when the holder hears of it). `BoundedOverlap` counts from the arrival of the newer lease, so a verdict cached by a call that decided on older leases is bounded by it, not excluded.
- `PlausibleGenerations` ties the generation counter to time. Three subjects reach generation 2 at most, which the bound allows at any time, so no run checks it; it is proved for any number of leases (`Plausible`), because `Overlap` rests on it.

Bounds. `TTL` 2 with `RenewBefore` 1 is the shortest lease with a moment that is after the renewal point and before expiry; `MaxTime` 4 is two lease lengths. A run reports no deadlock because the modelled time ends. `VIEW Recent` forgets a verdict that ran out and a head change a renewal or more old: no guard reads them, and both properties treat all such values alike.

One task per node. The same with two (the schedule and the trigger worker) and `MaxTime` 2 was run once by hand (440,000 states); the theorems are for any number of tasks.

## RecordedRun: a plugin's writes are made once

`apply_recorded` (`scheduler.rs`) turns a plugin's answer into a plan, applies its changes one after the other and logs the run. Triggers and schedules both call it, each under a lock of its own. What survives a crash is the journal: the plan as first chosen, and per write whether it is about to be made (`uncertain`) or made (`done`, the receipt).

| Variable | Code |
|---|---|
| `journal` | `Journal`: plan, effects, finished or abandoned |
| `written`, `flushed` | the run's writes in the store, and those the last flush keeps: the store commits without syncing (`redb_store.rs`), and a journal write ends with a flush |
| `host` | the call under way: its step, the next place in the plan, whether a write failed |
| `ran` | history: how often a write was made |

Actions: `KeepPlan` and `ChoosePlan` (`Journal::plan`), `Replay`, `RefuseUncertain` and `Begin` (`Journal::begin`), `Apply`, `ApplyFails`, `Complete`, `Report`, `RecordRun`, `Finish`, `Return`, and `Abandon` by a person; `Flush` and `Crash` for the store.

`RunOnce` is the promise in four actions: a plan is chosen once, each of its writes is made at most once, a run finishes only when all of them were made, and an ended run writes nothing. `RecordedRun` has no run of its own: it runs inside `TriggerDelivery` and `PluginSchedule`, which check `WritesAtMostOnce`, `ReceiptsAreDurable` and `ImplementsRunOnce` of it, and its proofs hold for whoever calls it.

## TriggerDelivery: edges handed to plugins

A drive keeps a log of what its commits moved into or out of watched queries. One worker per node (`triggers.rs`) takes each trigger's next edge, runs the plugin, and saves its progress; the cursor moves once the edge is handled.

| Variable | Code |
|---|---|
| `db`, `disk` | the store as its readers see it, and as of the last flush: log rows, `PluginTrigger`s, the saved event (`head`) and the cursor of each, runs that used an integration action |
| `worker` | `drain`: triggers as the round listed them (`seen`), those still to do, the edge at hand |
| `guard` | `Guard`: own writes to skip, fires within the rate window; in memory only |
| `setting` | `handle_set_trigger` between its read and its two writes |
| `deleting` | a deletion between its three: the row (`DeleteTrigger`), the saved event (`ForgetHead`), the cursor (`ForgetCursor`); the worker may store the trigger again in between |

The worker's steps are those of the code: `StartDrain`, `EndRound`, `CapReached`, `PassOver`, `NotLeased`, `Pick` (`drain`); `DeliverEnded`, `DeliverWaits`, `DeliverProposal`, `DeliverEdge`, the `Admit...` actions (`deliver`); `RunFails`, `RunScript`, `SaveEvent`, `Propose`, `CallHost` (`run`); the `Host...` actions are `RecordedRun`'s steps with what they do to the log and the guard; `Clean`, `Forget`, `Advance`, `Fail` end an edge. `Crash` goes back to `disk`, then does what startup does (`Restarted`).

| Run | Shows |
|---|---|
| `trigger_live` | one trigger, two edges, plans of one and two writes, answers that wait for an action, two crashes, nobody touching the trigger: `OpenRunHoldsTheCursor`, and `EdgesSettle` under `FairSpec` |
| `trigger_operators` | the trigger is set, replaced, deleted and its runs abandoned beside the worker, with a crash: `WritesAtMostOnce`, `ReceiptsAreDurable`, `NothingAheadOfTheLog`, `ImplementsRunOnce`, `TypeOK` |
| `trigger_lost` | `EdgesAreHandled`, which the file's header states and the code does not keep, see below |

`OpenRunHoldsTheCursor` and `EdgesSettle` are about `acts = 0`, a trigger nobody edits: an edit may let an edge go on purpose. `NothingAheadOfTheLog` is why the flushes are where they are: a crash that took back a row of which the cursor, an event or a journal speaks would give its number to another edge.

Bounds. Two edges are the least for "the next edge waits"; a plan of two writes the least for "some were made". The rate limit and the cap are reached with 1. Two crashes in `trigger_live` let the retry be interrupted as well. `trigger_operators` has plans of one write, the least for the journal's rules beside an operator; `trigger_live` has those of two. One plugin: two share the log and nothing else, but the cap.

Fairness: the worker keeps stepping (`WF` of `Drain`, a task that is spawned once and never ends), and `Pick` is strongly fair: another node may hold the lease for a while, not for ever. `EdgesSettle` claims that an edge on disk is passed, or its trigger visibly stands still (deleted, in error, a proposal to review, an action to wait for).

## PluginSchedule: what is due is run

The pass (`run_due`) lists the schedules, claims each that is due, runs it and stores the schedule with what became of it. The pass, a resume and an abandonment exclude each other; the endpoints take no lock, and both sides store the whole schedule.

| Variable | Code |
|---|---|
| `db`, `disk` | `PluginSchedule` per plugin (due, last run, pending proposal, error, grant, claim), the plugin's source, the saved input of its run, runs that used an action; and the same as of the last flush |
| `worker` | the pass: the schedules as listed, the one at hand as the pass has it, the answer |
| `op` | the request of an endpoint between its read and its write |
| `clock` | orders claims, and so names runs |
| `started` | history: runs whose script was started |

`ListDue`, `NotLeased`, `Acknowledge`, `Skip`, `AskAction`, `Claim`, `EndPass` are `run_due`; `Prepare`, `RunFails`, `RunScript` `run_one`; `KeepWaits`, `KeepForReview`, `Propose`, `CallHost`, the `Host...` actions, `StoreRun` what becomes of the answer. `ReadSchedule`, `BuildGrant`, `StoreSchedule`, `DeleteSchedule`, `EditDraft`, `Resume`, `AbandonRun` are people.

| Run | Shows |
|---|---|
| `schedule` | two runs, one crash anywhere, one edit, resume or abandonment anywhere: `WritesAtMostOnce`, `ImplementsRunOnce`, `OpenRunBlocksTheNext`, `NothingRunsUnnoticed`, `ClaimsAreReleased` under `FairSpec`, `TypeOK` |

Bounds. Two runs are the least for "the next". With two acts and no crash (290,000 states), and with three runs, two crashes and plans that write nothing (57,000), the same properties hold; those instances were run once by hand. One plugin: schedules share the pass, and the proofs are for any number.

Fairness: time passes until a schedule is due, the pass keeps stepping, and a lease is granted again and again (`SF` of `Claim` and `Acknowledge`).

## SubjectWrites: the writers of one store

Every writer of a resource reads its snapshot, merges into it and *replaces* what is stored. `subject_lock.rs` makes that exclusive per subject; import identities have locks of their own in the same registry, taken after the subjects'.

| Variable | Code |
|---|---|
| `docs` | `Tree::LoroSnapshots` with `Tree::Resources`, as sets of operations |
| `tombs` | the tombstones (`sync/tombstones.rs`) |
| `lock`, `importLock` | who holds which entry of `SubjectLocks` |
| `writers` | each task's write: where it is, what it read and merged, what it removes |
| `accepted`, `authored`, `unlocked`, `gone`, `loose` | history: operations written; resources made by somebody held to the identity check; written without a lock; removed; whose tombstone is known to have come apart |

| Kind of write | Code | Locks | How it goes |
|---|---|---|---|
| `genesis`, `edit` | `Db::apply_commit` | subject, identity | `LocksSubject`, `ReadsForCommit`, `LocksImport`, `Lands` |
| `destroy` | `Db::apply_commit` | the subject, not its children | `LocksSubject`, `ReadsForDestroy`, `Collects`, `Erases`, `Buries` |
| `update` | `ws_apply::resolve_update`, `persist_update` | subject, identity | merges before it has the lock and again under it (`MergesUpdate`) |
| `push` | `engine::import_sync_push` | all subjects in order, then identities in order | `LocksSubject`, `ReadsEntry` per entry, `LocksImport`, `Lands` |
| `batch` | `ws_apply::apply_state_updates` | identities only | `ReadsEntry`, `LocksImport`, `Lands` |
| `restore` | `vault/sync.rs`, one entry | identity only | `ReadsEntry`, `LocksImport`, `Lands`, `Clears` (the tombstone) |
| `remove` | `ws_apply::apply_destroy` | none | `Collects`, `Erases`, `Buries`, `BuriesAgain` |

A commit may be refused at any step before it lands (`Refuses`); `Crash` kills all tasks and keeps what is stored. An operation stands for a change with all it rests on, so a merge is a union.

| Run | Shows |
|---|---|
| `subject_writes` | a resource and two children of one import identity, every pair of requests by two tasks, one crash: `OperationsSurvive`, `TombstonesAreForTheGone`, `DeletedStaysDeleted`, `OneRecordPerImport`, `NoCircularWait`, `TypeOK` |

`OperationsSurvive` is about resources that every writer locked (`unlocked` lists the others), `TombstonesAreForTheGone` and `DeletedStaysDeleted` about those whose tombstone is not known to have come apart (`loose`): a child removed without its lock, a live update or a lock-free write of a deleted resource, a refused creation, a crash between removal and tombstone. Each of these escapes is a case the code lets happen; `NothingIsLost` and `NothingComesBack` are the same properties without them, and the four configurations below show one trace each. What remains is what the locks and the order of steps do achieve, and each mutant of that order is found.

Bounds. Two tasks, because a lock is between two; two requests give every pair of kinds on every pair of subjects. Three subjects are the least for a subtree with two imports of one record and a push that overlaps another on two subjects. Instances with one subject, four requests and one crash (120,000 states) and with two subjects, three requests and no crash (742,000) were run once by hand; the proofs are for any number.

No liveness is claimed: a task waits for a lock as long as another holds it, and what is done under one ends by itself; that they never wait for each other in a circle is `NoCircularWait`.

## Where code and documentation part

Found while modelling; each trace is TLC's, on the named configuration. `TriggerDeliveryEcho` and `OutboxDrainMootDestroy` are runs of `PROJECT.json` (`trigger_lost`, `outbox_moot_destroy`), the others are kept as configurations to be run by hand (`PluginScheduleStale` with `-continue`, for it shows two). The quoted line is what the code's documentation says of the case, where it says something.

| Configuration | Property | What the code does |
|---|---|---|
| `OutboxDrainMootDestroy` (run) | `DestroyedMeansAcked` | create, acknowledgement lost, delete: `drainDestroy` believes the resource never reached the server, sends nothing, and `destroy()` resolves while the server keeps it (`store.ts:2268`); `resource.ts:2913`: "**online**: resolves once the server has acknowledged the destroy" |
| `OutboxDrainAuthFails` | `NoLostWakeup` | authentication fails on an open socket: the store is told it is connected, no drain and no sync follow, queued writes have neither timer nor pass (`websockets.ts:2059`) |
| `OutboxDrainStuckOffline` | `OfflineMeansClosed` | a save that sees a network failure, even one remembered from an earlier attempt, marks the store offline while the socket is open; nothing is drained until it closes and opens (`resource.ts:3964`) |
| `OutboxDrainParkedUnsent` | `ParkedWasOffered` | an edit during the attempt that parks the entry is parked with it, never having been tried (`local-outbox.ts:1300`) |
| `NodeOutboxErased` | `EditsKept` | an edit that is marked while a drain clears the entry it has just read again, or between the drain's reads of snapshot and generation, is gone from the outbox: one drain and two writers are enough (`outbox.rs:515`, `:525`, `:496`); `outbox.rs:61`: "so a drain can tell whether a subject was edited again while its commit was in flight" |
| `NodeOutboxSharedIds` | `AckedWasApplied` | two drains on one WebSocket both count requests from 1, so one answer settles both (`outbox.rs:435`); `client/ws.rs:528`: "Only the `COMMIT_OK` / `ERROR` carrying this `request_id` settles the call, so several `post_commit`s may be in flight on one connection" |
| `NodeOutboxDestroyLost` | `DeletesKept` | a delete recorded while a drain holds the older entry is cleared or overwritten with it, unsent (`outbox.rs:483`, `:525`, `:559`) |
| `NodeOutboxChildFirst` | `ChildAfterParent` | a refused parent does not hold back its child later in the pass (`outbox.rs:437`) |
| `NodeOutboxStaleBase` | `BaseAlwaysHeldByHub` | once an entry is erased with an edit unsent, the entry of the next edit starts at that edit and claims the hub holds it (`outbox.rs:525`, `:346`); `outbox.rs:345`: "The hub holds everything before this commit's ops." |
| `NodeOutboxParkedEarly` | `ParkedAfterStreak` | a refusal puts the captured entry over the one an edit re-armed (`outbox.rs:551`) |
| `NodeOutboxBaseGap` | `BaseAlwaysHeldByHub` | the same after a terminal refusal: the next entry claims the hub holds the refused operations (`outbox.rs:346`) |
| `NodeOutboxDestroyReplay` | `DestroySettles` | a delete whose acknowledgement was lost is refused for ever (`outbox.rs:546`) |
| `TriggerDeliveryEcho` (run) | `EdgesAreHandled` | a plugin's write that moved nothing leaves the memory of it behind, and the next person's edge on that resource is skipped as the plugin's own (`triggers.rs:41`); `triggers.rs:7`: "moves it past an edge only once that edge is handled, so a restart neither repeats an edge nor loses one" |
| `TriggerDeliveryReviewLost` | `EdgesAreHandled` | the event is flushed and the trigger's proposal, stored after it, is not: after a crash the edge waits for no proposal and is acknowledged unreviewed (`triggers.rs:324`) |
| `TriggerDeliveryOwnWrite` | `NoEcho` | the guard is asked by subject only and the run record is written after the guard learned the writes, so an edge of the record, or of a second change to the resource, starts the plugin again; `triggers.rs:11`: "does not re-trigger itself" |
| `TriggerDeliveryOrphan` | `ProposalsHaveTheirEvent` | the worker stores the trigger it listed over one that was deleted, proposal and all; `plugin_trigger.rs:298` takes a proposal without its event for a leftover of an upgrade |
| `PluginScheduleUnapproved` | `ApprovedSource` | `run_one` reads the schedule again and, when the grant was revoked, runs the draft; the pass then applies the answer under the grant it had listed (`scheduler.rs:453`); `planning/plugin-runtime-v1.md:69`: "Editing the draft does not modify existing unattended execution." |
| `PluginScheduleStale` | `IntervalKeepsProposal` | a new interval is stored over the proposal that came in between its read and its write; `handlers/plugin_schedule.rs:54`: "changing the interval should not discard a verdict nobody has reviewed yet" |
| `PluginScheduleStale` | `ClaimsHaveARun` | an endpoint that read the schedule while it was claimed stores the claim back after the run has ended, and every later pass takes the plugin for interrupted; `plugin_schedule.rs:82`: "A persisted claim; an interrupted run must be reconciled before retry." |
| `SubjectWritesBatch` | `NothingIsLost` | `apply_state_updates` (the mobile and browser replicas' bulk apply) resolves and replaces without the subject lock: a commit in between is lost (`ws_apply.rs:76`); `lib/tests/concurrent_commit_and_peer_apply.rs:1`: "A local edit must not lose a peer's update when the two land at once." A restored vault entry does the same (`vault/sync.rs:912`) |
| `SubjectWritesRefused` | `NothingComesBack` | a genesis clears the tombstone before its rights and the rest are checked; refused, it leaves a deleted resource that the next push brings back (`commit.rs:1126`); `storelike.rs:201`: "a subject that legitimately passes a rights-checked genesis again after being destroyed" |
| `SubjectWritesUpdate` | `NothingComesBack` | a live update of a tombstoned resource stores it again and leaves the tombstone, so no push reaches it from then on (`peer.rs:1549`); `db.rs:5308`: "a tombstone for a resource that is still present would suppress it forever" |
| `SubjectWritesKilled` | `NothingComesBack` | the tombstone is a write of its own after the removal; killed in between, the deletion is undone by the next push (`db.rs:5311`) |

One more, seen with leases and covered by the bound: a tombstone that reaches a node before the newer leases leaves it with none, and it starts again at generation 0 beside the holder until they arrive (`lease.rs:433`). `BoundedOverlap` counts from that arrival.

Others that follow from storing a whole schedule or trigger as it was read earlier, seen in traces and not stated as properties of their own: a schedule or trigger that was deleted while its run was under way is stored again, a grant that was revoked then is restored by `StoreRun`, and a resume applies a saved proposal under the grant of today. A restore clears the tombstone of a resource that was deleted between its write and that step (`Clears`).

## Proofs

`OutboxDrainProofs` (for any subjects, tiers, concurrency and bounds):

- `TypeCorrect`: `Spec => []TypeOK`.
- `OneAttempt`: `Spec => []OneAttemptPerSubject`.
- `TiersInOrder`: `Spec => []TierBarrier`.

Neither of the last two is inductive. What makes them true is how passes chain: `Inv == TypeOK /\ PassInv /\ AttemptInv`. `PassInv` says that at most one pass runs, that it is the one in flight or the one the chained follow-up waits behind, and that a follow-up that is queued is the pass in flight; `AttemptInv` says that every attempt belongs to the running pass, and that its subject is queued and no longer on that pass's list. From there, a second attempt on a subject would need a second running pass or a subject listed twice, and a second tier at once is what `StartAttempt` waits out, since every attempt it could meet is one of its own pass.

`OutboxDeliveryProofs` (the same, on top of `OutboxDrainProofs`):

- `NothingIsForgotten`, `CursorFollows`, `PersistedIsAcked`, `DestroyedIsGone`: `Spec => []NothingForgotten`, `[]CursorNotPastServer`, `[]PersistedMeansAcked`, `[]DestroyedMeansGone`. All four are read from one invariant, `Delivery`. The exceptions are the two the properties name; `DestroyedMeansAcked`, without the second, is refuted by a run. `SubjectsOK` says how entry, resource and server copy of one subject fit: a cursor is not past the server, what lies beyond the cursor is dirty or queued, a genesis is queued until the server was seen to have it, and a server that has one nobody was told of is in `unanswered`. `AttemptsFit` says that an attempt under way holds no more than its entry, and a snapshot no newer than the resource: what is typed during the await is what an acknowledgement must not clear. `CallsOK` says the same of a caller: while it is not answered, its write is queued, acknowledged, refused for good or moot because of a lost answer, and it knows if the entry it captured was replaced.
- `DrainAnswersCallers`: `Spec => []AwaitedDrainAttempts`. `AwaitInv`: a caller whose write was not looked at yet waits for a pass that is chained, and so takes its snapshot later, or that runs and has the subject before it. A caller that shares the pass in flight instead of the follow-up would break it.
- `WakeupIsNotLost`: `~AuthMayFail` gives `Spec => []NoLostWakeup`; `AuthenticatedWakeup` is the same for an authenticated socket without that assumption. `WakeInv` adds what ties the connection flag to the socket. The assumption is needed: `OutboxDrainAuthFails.cfg`.

`NodeOutboxProofs` (for any resources, tree, number of drains, either way of numbering requests, and any bounds). Nothing is assumed of how drains, marks and writers interleave: what the code does not keep is in the properties' exceptions, each of which a configuration above shows to be needed.

- `TypeCorrect`: `Spec => []TypeOK`. A generation counts commits only because no two commits start at one version (`UnmarkedOK`) and each copy of an entry - stored, found by a mark, captured by a drain - counts only marked ones (`EntriesOK`); what a drain is at fits the entry it holds (`DrainsOK`), and a frame is of a resource there was (`FramesOK`). Together they are `TInv`.
- `GenesisGoesFirst`: `Spec => []DeltaHasGenesis`. `Announced`: a resource the hub never had still has its genesis ahead of it - to be marked, or the envelope of every copy of its entry - whoever captured what.
- `BaseIsHeld`: `Spec => []BaseHeldByHub`. `Queue`: a base is a version the hub holds (`BasesOK`), where no entry is left the hub has all there is or it is about to be marked (`Caught`), and what a drain exported is all there was for as long as the generation it read is the stored one (`ExportOK`). The last is what the windows of `raced` break, and the proof has to show that nothing else does: for every step of another thread, either the generation moves or the resource enters `raced`.
- `NothingIsForgotten`: `Spec => []NothingForgotten`. For what lives here it follows from `Announced` and `Queue`; for what is gone, `Deletes` says that it went with a delete that is to be marked, queued, or done (`Taken`), and that all that is left of a resource whose delete is recorded are deletes (`SealedOK`), unless the delete was overtaken. So nothing below it lives at the hub, nor can it come back, since a create finds its parent gone.

`PluginLeaseProofs` (for any nodes, tasks, subjects, lease length and clocks within `LeaseAssumption`):

- `TypeCorrect`: `Spec => []TypeOK`.
- `Plausible`: `Spec => []PlausibleGenerations`. `Dated` carries it: a lease of generation g began no earlier than g lease lengths after the epoch by its holder's clock (`Ages`), and its expiry lies between that plus TTL and a TTL from its holder's now, in the databases (`Copies`) and in calls under way (`Working`). A takeover waits for the expiry, so the next generation is a lease later. `DividesOut` turns that into the division of `max_generation`.
- `Overlap`: `Spec => []BoundedOverlap`. `HeldInv` ties the cached verdict to the time of the last head change, `CallInv` says that a call under way either still sees the head it read or the head moved at this very moment. The case that needs the rank is a takeover: the lease it writes is plausible to its writer (`Plausible`) and outranks the one it takes over (`HeadExists`: a finite, ranked set has a head), so the node's head moves (`TakeOverMovesHead`).
- `HolderHasStopped`: `Spec => []TakeoverFindsItStopped`. `StopInv`: as long as its head was not destroyed, a node's head outranks all it ever wrote (`OwnBelow`), so the lease its verdict came from is its head still or has been replaced by a newer one of its own; the verdict ends a `RENEW_BEFORE_MS` before that lease does (`Covers`), and what a call under way is about to cache does too (`CallCovers`).

`RecordedRunProofs` (for any runs, plans and number of crashes):

- `TypeCorrect`, `AtMostOnce` (`WritesAtMostOnce`), `Durable` (`ReceiptsAreDurable`), and `RunsOnce`: `Spec => ImplementsRunOnce`. `IInv` adds to the types what each step of the call may rely on (`HostOK`: where the call is in the plan tells what is marked and made), that marks and writes agree (`MarksOK`: a receipt is for a flushed write made once, an unmarked write was never made) and that a finished run made all of its plan (`EndsOK`). The case that matters is the crash: a write that is undone is one without a receipt, and stays `uncertain`, so nobody makes it again.

`TriggerDeliveryProofs` and `PluginScheduleProofs` (for any plugins, queries, sources, and bounds):

- `TypeCorrect`: `Spec => []TypeOK`.
- `ServesRuns`: every step is a step of `RecordedRun` or leaves its variables alone, so `Spec => P!Spec`, and `AtMostOnce`, `Durable`, `RunsOnce` follow from `RecordedRunProofs` instead of being proved again. What it takes is that nothing is called while a call is under way (the worker waits in `apply` as long as `host` is busy) and that every flush of the store is one for the runs' writes too.

`TriggerDeliveryProofs` also has:

- `NothingIsAhead`: `Spec => []NothingAheadOfTheLog`. `LogOK` is about both copies of the store: no cursor or saved event is past the rows of its own copy, no journal past the rows on disk, and the disk never has more rows than memory. Each `ChoosePlan` and each saved event is followed by a flush before anything rests on it, which is what the steps of the proof come down to.
- `CursorWaits`: `Spec => []OpenRunHoldsTheCursor`. `Calm`, which holds while `acts = 0`: in memory and on disk alike, an edge whose run has a plan is the next of its trigger (`NextIs`), a run that is open has its event saved with an answer that needs nobody (`PlannedCalm`), and the worker is at that edge and has not come to clear it (`OpenCalm`).

`PluginScheduleProofs` also has:

- `BlocksTheNext`: `Spec => []OpenRunBlocksTheNext`, and `Unnoticed`: `Spec => []NothingRunsUnnoticed`. The inductive invariant is `AloneInv == acts = 0 => Alone`: as soon as somebody edits beside the pass nothing of it need hold any more, and `acts` never goes back. `Alone` says of every stored schedule, in the store and on disk, that it accounts for every started run (`StoredOK`), that what the pass listed is what is stored (`ListOK`), that the schedule at hand is stored as claimed (`ClaimOK`) and the call is about its run (`CallOK`). The steps to watch are the ones that overwrite: `StoreRun` may drop a claim or a proposal because by then the journal says finished, or the error is set.

`SubjectWritesProofs` (for any finite set of subjects and identities that compare, any parents, writers and bounds):

- `TypeCorrect`: `Spec => []TypeOK`.
- `WritesSurvive`: `Spec => []OperationsSurvive`. `Fresh` carries it: what a writer that locks is about to store already holds everything accepted, because nobody else writes the resource between its read and its write (`Locks`), and who does so without the lock puts the resource into `unlocked`.
- `LocksAreOrdered`: `Spec => []NoCircularWait`. `Locks` says that a task that still locks subjects holds only smaller ones than the next, `Identities` the same of identities, and that only a task with all its subjects holds an identity. So a task waits for one whose own next key comes later (`SubjectOrder`, `IdentityOrder`); of finitely many keys one is the last anybody waits for, and its holder does not wait inside the circle (`NoCircle`).
- `TombstonesStand`: `Spec => []TombstonesAreForTheGone`; `DeletionsHold`: `Spec => []DeletedStaysDeleted`; `ImportsAreOne`: `Spec => []OneRecordPerImport`. The invariant is `Records`. `GoneIsKnown` says that what was removed has its tombstone or somebody who will see to it: a removal that has not recorded it yet, which holds the lock (`Guards`), or a genesis that lifted it and has not landed, which holds the lock too. So a push that has the lock and finds no tombstone knows that the resource was not removed (`ReadsEntryRecords`), and what it learnt stays true until it lands (`Admits`). `Claims` is the same argument for identities: what a commit found under the identity's lock is not changed by another that needs that lock to land. Replicated writes are not held to the check, which is why the property is about `authored` resources.

`LeaseAssumption` is what `lease.rs` fixes in its constants (`RENEW_BEFORE_MS` at most half of `TTL_MS`, `SOLO_RECHECK_MS` at most `RENEW_BEFORE_MS`) and clocks within a lease of each other, without which `max_generation` may hide a genuine lease.

## Only model-checked

Every invariant a passing run checks is stated by a theorem. What stays with TLC is liveness:

- `QueuedIsSettled`, `CallsReturn`, `EdgesSettle`, `ClaimsAreReleased`: each rests on fairness, which the prover does not handle.

The definitions that proofs use avoid an `@` inside another `EXCEPT`'s `@`, which tlapm misreads, and recursion (`NodeOutbox!Under` is the least set closed under children, for any tree).

## Not modelled

*In OutboxDrain*: the numbers of pacing and backoff; the database mirror of the queue and the flush; identity switches (`rebind`); drive-local resources and `healRefusedDrive`; `requireOnlineWrites`; the batching of children and parents that are themselves queued beyond the fixed tiers; the transport under `postCommit`.

*In NodeOutbox*: the queues of app agents; numeric backoff; rows of older formats; `mark_dirty` calls of one resource out of order or interleaved with each other (one reads and writes the entry before the next starts); a counter of request ids that wraps so that two ids fall on 1 at once; two late copies of one frame, which are one in the set of requests; which of several nodes acknowledges.

*In PluginLease*: more than one Installation (they share nothing but the code); who may write a lease (`check_write` is granted to all, the file's own condition); the link to the previous lease, which no decision reads; calls that take time; clocks that run at different speeds or jump.

*In RecordedRun*: how an answer becomes a plan (`plan.rs`) and a change a commit (`apply_change`); `continue_on_error`, which no recorded run uses. That a journal write reaches the disk is taken from the flush at its end.

*In TriggerDelivery and PluginSchedule*: errors of the store itself; retention of the event log and its pages of 1000 rows; the side of a query an edge is on (two queries stand for it); changes that move no watched resource; the arithmetic of intervals and of the rate window (a fire leaves it at some time); which agent a run reads as; actions themselves (an action is ready, failed or not yet).

*In SubjectWrites*: what a commit is checked for beyond the identity (a refusal may come for any reason); the causality guard and updates that wait for operations they rest on; reviews that make one of several imports the primary one; admission and the drive of an entry; the replay check of a signed destroy, envelopes, indexes, search, events, lens backfill, hooks after a commit; `add_resource_opts` for unsigned local writes other than a restore; the vault's own tombstones; pruning of the lock registry.

*Components without a module* are listed in `PROJECT.json` with the reason: planned, sequential code that unit tests cover, or user interface.

## Plan

Done: the two queues, leases, recorded runs with their abstract specification, triggers, schedules, the writers of one store. Next, in order:

1. `SubjectDrain`: the abstract delivery of one subject (offered, applied, acknowledged, given up), refined by `OutboxDrain` and by `NodeOutbox` with one drain.
2. The sync engine: reconciliation of two stores, each a `SubjectWrites`, by version vectors and tombstones, with an abstract specification of convergence; the dial gate.
3. `OutboxStorage`: the browser queue's database mirror, staged entries, the flush, a killed tab, identity switches, drive-local discards; `OutboxPacing`: numeric pacing, its capped map, backoff and BUSY delays.
4. Triggers and schedules over `PluginLease` itself, on two nodes: a timed run in which somebody serves within a lease of the holder's death.
5. Write log, blob collection, commit monitor, write-load permits; then sync sessions and the vault.

Extensions of what exists: overlapping and out-of-order `mark_dirty` calls of one resource, several drives in `DriveSyncFinishes`.

Theorems to add: the refinements of `SubjectDrain` once it is written; `NodeOutbox` with one drain for each of several hubs; the same bounded overlap with clocks that run at different speeds.

## Running

    tlc -workers 2 -config OutboxDrainPasses.cfg MCOutboxDrain.tla
    tlapm PluginLeaseProofs.tla

Each configuration belongs to the `MC` module of its prefix. `OutboxDrainOutcomes`, `TriggerDeliveryOperators`, `NodeOutboxFamily` and `NodeOutboxDrains` are the largest (4.3, 3.4, 2.4 and 2.2 million states, two to four minutes each); the proofs take up to a few minutes each from nothing.
