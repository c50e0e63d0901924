--------------------------- MODULE TriggerDelivery ---------------------------
(***************************************************************************)
(* Plugin triggers: the worker of one node that hands the edges of a       *)
(* drive's event log to plugins (server/src/plugins/triggers.rs), the      *)
(* cursor and the in-flight event it keeps per trigger                     *)
(* (lib/src/db/plugin_trigger.rs, drive_events.rs), and the endpoint that  *)
(* sets and removes triggers (server/src/handlers/plugin_trigger.rs).      *)
(* RecordedRun applies what a run proposed.                                *)
(*                                                                         *)
(* The store commits without syncing: a crash goes back to the last flush  *)
(* (lib/src/db/redb_store.rs).  The worker holds its lock throughout; the  *)
(* endpoint takes none, and the worker reads a trigger once per round.     *)
(* Two queries stand for a query with the side that counts.  A change that *)
(* moves no watched resource leaves a row nobody wants, and is left out.   *)
(***************************************************************************)
EXTENDS Naturals, Sequences, RunPlans

CONSTANTS
  Plugins,      \* plugins that may have a trigger on the drive
  Subjects,     \* resources of the drive
  RunRecord,    \* the resource that logs a run
  Queries,      \* watched queries
  Agents,       \* the account and source a run can be authorized as
  Verdicts,     \* what a script can answer
  Waiting,      \* the answers that wait for an integration action
  MaxEvents,    \* bound on the log
  RateLimit,    \* RATE_LIMIT
  MaxAttempts,  \* runs one drain may attempt
  MaxActs,      \* bound on what operators do
  MaxCrashes    \* bound on crashes

ASSUME BoundsAssumption ==
  /\ MaxEvents \in Nat /\ RateLimit \in Nat
  /\ MaxAttempts \in Nat /\ MaxActs \in Nat /\ MaxCrashes \in Nat
ASSUME ValuesAssumption ==
  /\ \A plan \in Plans : \A k \in DOMAIN plan : plan[k] \in Subjects
  /\ None \notin Agents \cup Verdicts \cup Plugins
  /\ Waiting \subseteq Verdicts

VARIABLES
  db,       \* the store as its readers see it: log, trigger, head, cursor, consumers
  disk,     \* the same at the last flush
  worker,   \* the delivery worker
  guard,    \* its memory: own writes to skip, and how often each plugin fired of late
  setting,  \* the SetTrigger request under way
  deleting, \* the deletion of a trigger under way
  journal, written, flushed, host, ran,  \* see RecordedRun
  acts, crashes                          \* bound what operators do, and the crashes

workerVars == <<worker, guard>>
runVars == <<journal, written, host, ran>>
storeVars == <<db, disk, flushed>>
boundVars == <<acts, crashes>>
op == <<setting, deleting>>
vars == <<workerVars, runVars, storeVars, boundVars, op>>
-----------------------------------------------------------------------------
Seqs == 1 .. MaxEvents
Runs == Plugins \X Seqs

Recorded == INSTANCE RecordedRun

Trigger == [query : Queries, auto : BOOLEAN, agent : Agents, error : BOOLEAN,
            pending : Verdicts \cup {None}]
Settings == {trigger \in Trigger : ~trigger.error /\ trigger.pending = None}
Event == [seq : Seqs, verdict : Verdicts \cup {None}, waiting : BOOLEAN,
          agent : Agents \cup {None}]
\* None is no event and no trigger.
ASSUME NoneAssumption == None \notin Event \cup Trigger

Row == [subject : Subjects \cup {RunRecord}, by : Plugins \cup {None}, edges : SUBSET Queries]

Idle == [pc |-> "idle", seen |-> [p \in Plugins |-> None], todo |-> {}, progressed |-> FALSE,
         attempted |-> 0, p |-> None, event |-> None, resuming |-> FALSE]

NoMemory == [wrote |-> {}, fires |-> [p \in Plugins |-> 0]]

\* A server starts with the triggers set before; their edges are still to come.
Init == /\ \E trigger \in [Plugins -> Settings \cup {None}] :
             db = [log |-> <<>>, trigger |-> trigger, head |-> [p \in Plugins |-> None],
                   cursor |-> [p \in Plugins |-> 0], consumers |-> {}]
        /\ disk = db
        /\ worker = Idle
        /\ guard = NoMemory
        /\ setting = None
        /\ deleting = None
        /\ acts = 0
        /\ crashes = 0
        /\ Recorded!Init
-----------------------------------------------------------------------------
(* The store *)

Put(d) == db' = d /\ UNCHANGED <<disk, flushed>>
Save(d) == db' = d /\ disk' = d /\ flushed' = written

\* The queries whose edges a commit records: those a stored trigger watches.
Watched == {db.trigger[p].query : p \in {q \in Plugins : db.trigger[q] # None}}

\* The store after a change to s: its row, when it moves s into or out of a watched query.
Changed(s, by) ==
  {db} \cup {[db EXCEPT !.log = Append(@, [subject |-> s, by |-> by, edges |-> edges])] :
               edges \in IF Len(db.log) < MaxEvents THEN (SUBSET Watched) \ {{}} ELSE {}}

\* A checkpoint taken for the next event, not the last one.
AckNext(d, p, n) == Save([d EXCEPT !.cursor[p] = n + 1])

\* ack_events: a checkpoint only moves forward, and is flushed when it does.
Ack(d, p, n) == IF n > d.cursor[p] THEN Save([d EXCEPT !.cursor[p] = n]) ELSE Put(d)

\* set_plugin_trigger: a trigger that was not stored starts at the end of the log.
SetTrigger(p, trigger) ==
  LET stored == [db EXCEPT !.trigger[p] = trigger]
  IN  IF db.trigger[p] = None THEN Ack(stored, p, Len(db.log)) ELSE Put(stored)

Wanted(p, trigger) ==
  {n \in Seqs : n > db.cursor[p] /\ n <= Len(db.log) /\ trigger.query \in db.log[n].edges}

\* next_trigger_event: the event with saved progress, else the first edge after the cursor.
NextEvent(p, trigger) ==
  CASE db.head[p] # None -> db.head[p]
    [] db.head[p] = None /\ Wanted(p, trigger) = {} -> None
    [] OTHER -> [seq |-> CHOOSE n \in Wanted(p, trigger) : \A m \in Wanted(p, trigger) : n <= m,
                 verdict |-> None, waiting |-> FALSE, agent |-> None]
-----------------------------------------------------------------------------
(* The drive *)

Commit(s) == /\ db' \in Changed(s, None) \ {db}
             /\ UNCHANGED <<disk, flushed, workerVars, runVars, boundVars, op>>

\* The store's own cadence.
Flush == /\ <<disk, flushed>> # <<db, written>>
         /\ Save(db)
         /\ UNCHANGED <<workerVars, runVars, boundVars, op>>

\* Memory is lost; startup drops a proposal whose event has no record.
Restarted(p) == IF disk.trigger[p] # None /\ disk.head[p] = None
                THEN [disk.trigger[p] EXCEPT
                        !.error = @ /\ disk.trigger[p].pending = None, !.pending = None]
                ELSE disk.trigger[p]

Crash == /\ crashes < MaxCrashes
         /\ crashes' = crashes + 1
         /\ db' = [disk EXCEPT !.trigger = [p \in Plugins |-> Restarted(p)]]
         /\ worker' = Idle
         /\ guard' = NoMemory
         /\ setting' = None
         /\ deleting' = None
         /\ Recorded!Crash
         /\ UNCHANGED <<disk, acts>>
-----------------------------------------------------------------------------
(* Operators, on other threads than the worker *)

Acts == acts < MaxActs /\ acts' = acts + 1 /\ UNCHANGED crashes

\* handle_set_trigger keeps the proposal of the stored trigger, for the same query.
ReadTrigger(p) ==
  /\ setting = None
  /\ Acts
  /\ \E settings \in Settings :
       LET previous == db.trigger[p]
           keeps == previous # None /\ previous.query = settings.query
       IN  setting' = [p |-> p, stored |-> FALSE,
                       trigger |-> [settings EXCEPT !.pending = IF keeps THEN previous.pending
                                                                ELSE None]]
  /\ UNCHANGED <<storeVars, workerVars, runVars, deleting>>

\* Its row is stored first, the cursor of a new trigger after it.
StoreTrigger ==
  /\ setting # None /\ ~setting.stored
  /\ Put([db EXCEPT !.trigger[setting.p] = setting.trigger])
  /\ setting' = IF db.trigger[setting.p] = None THEN [setting EXCEPT !.stored = TRUE] ELSE None
  /\ UNCHANGED <<workerVars, runVars, boundVars, deleting>>

StartCursor ==
  /\ setting # None /\ setting.stored
  /\ Ack(db, setting.p, Len(db.log))
  /\ setting' = None
  /\ UNCHANGED <<workerVars, runVars, boundVars, deleting>>

\* delete_plugin_trigger: the row goes first, then the saved event, then the checkpoint.
DeleteTrigger(p) ==
  /\ deleting = None
  /\ Acts
  /\ db.trigger[p] # None
  /\ Put([db EXCEPT !.trigger[p] = None])
  /\ deleting' = [p |-> p, next |-> "head"]
  /\ UNCHANGED <<workerVars, runVars, setting>>

ForgetHead ==
  /\ deleting # None /\ deleting.next = "head"
  /\ Put([db EXCEPT !.head[deleting.p] = None])
  /\ deleting' = [deleting EXCEPT !.next = "cursor"]
  /\ UNCHANGED <<workerVars, runVars, boundVars, setting>>

ForgetCursor ==
  /\ deleting # None /\ deleting.next = "cursor"
  /\ Put([db EXCEPT !.cursor[deleting.p] = 0])
  /\ deleting' = None
  /\ UNCHANGED <<workerVars, runVars, boundVars, setting>>

\* abandon_consumer: a run that used an action, once the worker is not busy.
AbandonRun(r) ==
  /\ worker.pc = "idle"
  /\ Acts
  /\ r \in db.consumers
  /\ Recorded!Abandon(r)
  /\ disk' = db
  /\ UNCHANGED <<db, workerVars, op>>
-----------------------------------------------------------------------------
(* drain *)

At(pc) == worker.pc = pc
Goto(pc) == worker' = [worker EXCEPT !.pc = pc]

Listed == [Idle EXCEPT !.pc = "round", !.attempted = worker.attempted, !.seen = db.trigger,
                       !.todo = {p \in Plugins : db.trigger[p] # None}]

StartDrain == /\ At("idle")
              /\ worker' = Listed
              /\ UNCHANGED <<storeVars, guard, runVars, boundVars, op>>

\* The triggers are listed again as long as a round moved a cursor.
EndRound == /\ At("round")
            /\ worker.todo = {}
            /\ worker' = IF worker.progressed THEN Listed ELSE Idle
            /\ UNCHANGED <<storeVars, guard, runVars, boundVars, op>>

CapReached == /\ At("round")
              /\ worker.todo # {}
              /\ worker.attempted >= MaxAttempts
              /\ worker' = Idle
              /\ UNCHANGED <<storeVars, guard, runVars, boundVars, op>>

NextFor(p) == NextEvent(p, worker.seen[p])
InTurn(p) == At("round") /\ worker.attempted < MaxAttempts /\ p \in worker.todo

\* Events that are not the trigger's move its cursor past themselves.
PassOver(p) == /\ InTurn(p)
               /\ NextFor(p) = None
               /\ Ack(db, p, Len(db.log))
               /\ worker' = [worker EXCEPT !.todo = @ \ {p}]
               /\ UNCHANGED <<guard, runVars, boundVars, op>>

\* Leases::holds, asked at each edge: another node may have the lease.
NotLeased(p) == /\ InTurn(p)
                /\ NextFor(p) # None
                /\ worker' = [worker EXCEPT !.todo = @ \ {p}]
                /\ UNCHANGED <<storeVars, guard, runVars, boundVars, op>>

Pick(p) == /\ InTurn(p)
           /\ NextFor(p) # None
           /\ worker' = [worker EXCEPT !.pc = "deliver", !.p = p, !.event = NextFor(p)]
           /\ UNCHANGED <<storeVars, guard, runVars, boundVars, op>>

\* The edge at hand, its run, and the trigger as the round's list had it.
Edge == worker.event.seq
Run == <<worker.p, Edge>>
Copy == worker.seen[worker.p]
Subject == db.log[Edge].subject

\* Back to the round: a cursor that passed the edge lets the next one go.
Return == worker' = [worker EXCEPT !.pc = "round", !.todo = @ \ {worker.p}, !.p = None,
                                   !.event = None, !.resuming = FALSE,
                                   !.progressed = @ \/ db'.cursor[worker.p] >= Edge]
-----------------------------------------------------------------------------
(* deliver *)

\* The run has ended: nothing is replayed, the edge is acknowledged.
DeliverEnded ==
  /\ At("deliver")
  /\ journal[Run].end # "open"
  /\ IF Copy.pending = worker.event.verdict
     THEN SetTrigger(worker.p, [Copy EXCEPT !.pending = None, !.error = FALSE])
     ELSE UNCHANGED storeVars
  /\ Goto("forget")
  /\ UNCHANGED <<guard, runVars, boundVars, op>>

Deliverable == At("deliver") /\ journal[Run].end = "open"
WaitsOnAction == worker.event.verdict \in Waiting

\* waits_ready: not yet; failed or cancelled; completed, so the script runs again.
DeliverWaits ==
  /\ Deliverable
  /\ WaitsOnAction
  /\ UNCHANGED storeVars
  /\ \/ Return
     \/ Goto("fail")
     \/ worker' = [worker EXCEPT !.pc = "admit", !.resuming = TRUE,
                                 !.event.verdict = None, !.event.waiting = FALSE]
  /\ UNCHANGED <<guard, runVars, boundVars, op>>

\* A proposal that waited for review: it was resolved, waits still, or is granted now.
DeliverProposal ==
  /\ Deliverable
  /\ ~WaitsOnAction
  /\ worker.event.waiting
  /\ UNCHANGED storeVars
  /\ \/ Copy.pending = None /\ Goto("forget")
     \/ Copy.pending # None /\ ~Copy.auto /\ Return
     \/ /\ Copy.pending # None /\ Copy.auto
        /\ worker' = [worker EXCEPT !.pc = "admit", !.event.waiting = FALSE]
  /\ UNCHANGED <<guard, runVars, boundVars, op>>

DeliverEdge == /\ Deliverable
               /\ ~WaitsOnAction
               /\ ~worker.event.waiting
               /\ Goto("admit")
               /\ UNCHANGED <<storeVars, guard, runVars, boundVars, op>>

Started == worker.event.verdict # None \/ worker.resuming

\* A proposal keeps the trigger where it is, also the edge's own.
StoppedByOwn == Copy.error \/ Copy.pending # None

\* An error, or a proposal that is not this edge's, keeps the trigger where it is.
Stopped == Copy.error \/ (Copy.pending # None /\ ~Started)

AdmitStopped == /\ At("admit")
                /\ Stopped
                /\ UNCHANGED storeVars
                /\ Return
                /\ UNCHANGED <<guard, runVars, boundVars, op>>

AdmitStarted == /\ At("admit")
                /\ ~Stopped
                /\ Started
                /\ worker' = [worker EXCEPT !.pc = "run", !.attempted = @ + 1]
                /\ UNCHANGED <<storeVars, guard, runVars, boundVars, op>>

\* Guard::admit: the plugin's own write is skipped, once.
Echo == <<worker.p, Subject>> \in guard.wrote
Admits == At("admit") /\ ~Stopped /\ ~Started

AdmitEcho == /\ Admits
             /\ Echo
             /\ guard' = [guard EXCEPT !.wrote = @ \ {<<worker.p, Subject>>}]
             /\ Goto("forget")
             /\ UNCHANGED <<storeVars, runVars, boundVars, op>>

\* One fire more than the limit.
AdmitOneMore ==
  /\ Admits
  /\ ~Echo
  /\ \E recent \in 0 .. guard.fires[worker.p] :
       \/ /\ recent > RateLimit
          /\ guard' = [guard EXCEPT !.fires[worker.p] = recent]
          /\ Goto("fail")
       \/ /\ recent <= RateLimit
          /\ guard' = [guard EXCEPT !.fires[worker.p] = recent + 1]
          /\ worker' = [worker EXCEPT !.pc = "run", !.attempted = @ + 1]
  /\ UNCHANGED <<storeVars, runVars, boundVars, op>>

\* Guard::admit: fires that left the window do not count.
Admit == /\ Admits
         /\ ~Echo
         /\ \E recent \in 0 .. guard.fires[worker.p] :
              \/ /\ recent >= RateLimit
                 /\ guard' = [guard EXCEPT !.fires[worker.p] = recent]
                 /\ Goto("fail")
              \/ /\ recent < RateLimit
                 /\ guard' = [guard EXCEPT !.fires[worker.p] = recent + 1]
                 /\ worker' = [worker EXCEPT !.pc = "run", !.attempted = @ + 1]
         /\ UNCHANGED <<storeVars, runVars, boundVars, op>>
-----------------------------------------------------------------------------
(* run *)

\* The script used an integration action under this run's identity.
UsesAction == Save([db EXCEPT !.consumers = @ \cup {Run}])

\* The source, the account, the binding or the script fails.
RunFails == /\ At("run")
            /\ UsesAction \/ UNCHANGED storeVars
            /\ Goto("fail")
            /\ UNCHANGED <<guard, runVars, boundVars, op>>

\* The script answers, unless the edge has its answer already.
RunScript ==
  /\ At("run")
  /\ worker.event.agent \in {None, Copy.agent}
  /\ \E verdict \in IF worker.event.verdict = None THEN Verdicts ELSE {worker.event.verdict} :
       /\ worker' = [worker EXCEPT !.pc = "save", !.event.verdict = verdict,
                                   !.event.agent = Copy.agent,
                                   !.event.waiting = verdict \in Waiting \/ ~Copy.auto]
       /\ IF verdict \in Waiting THEN UsesAction ELSE UNCHANGED storeVars
  /\ UNCHANGED <<guard, runVars, boundVars, op>>

SaveEvent == /\ At("save")
             /\ Save([db EXCEPT !.head[worker.p] = worker.event])
             /\ Goto("propose")
             /\ UNCHANGED <<guard, runVars, boundVars, op>>

\* The whole trigger is stored as the round's list had it, with the answer.
Propose == /\ At("propose")
           /\ SetTrigger(worker.p, [Copy EXCEPT !.pending = worker.event.verdict])
           /\ IF worker.event.waiting THEN Return ELSE Goto("grant")
           /\ UNCHANGED <<guard, runVars, boundVars, op>>

\* apply_recorded, under the grant.
CallHost == /\ At("grant")
            /\ Recorded!Call(Run)
            /\ Goto("apply")
            /\ UNCHANGED <<db, disk, guard, boundVars, op>>

\* Journal writes: all before them is flushed.
HostRecords == /\ Recorded!ChoosePlan \/ Recorded!Begin \/ Recorded!Complete \/ Recorded!Finish
               /\ disk' = db
               /\ UNCHANGED <<db, workerVars, boundVars, op>>

HostWrites == /\ Recorded!Apply
              /\ db' \in Changed(Recorded!Plan[host.k], worker.p)
              /\ UNCHANGED <<disk, workerVars, boundVars, op>>

\* The guard remembers what the report names, before the run is logged.
Remembers == guard' = [guard EXCEPT !.wrote =
               @ \cup {<<worker.p, Recorded!Plan[k]>> : k \in DOMAIN Recorded!Plan}]

HostReports == /\ Recorded!Report \/ Recorded!ApplyFails
               /\ Remembers
               /\ UNCHANGED <<db, disk, worker, boundVars, op>>

HostLogsRun == /\ Recorded!RecordRun
               /\ db' \in Changed(RunRecord, worker.p)
               /\ UNCHANGED <<disk, workerVars, boundVars, op>>

HostMoves == /\ \/ Recorded!PlanFails \/ Recorded!KeepPlan \/ Recorded!Replay
                \/ Recorded!RefuseUncertain \/ Recorded!RecordFails
             /\ UNCHANGED <<db, disk, workerVars, boundVars, op>>

\* The event is acknowledged when its run failed, too.
HostReturnsDone == /\ At("apply")
                   /\ Recorded!Return
                   /\ Goto("clean")
                   /\ UNCHANGED <<db, disk, guard, boundVars, op>>

HostReturns == /\ At("apply")
               /\ Recorded!Return
               /\ Goto(IF host.step = "applied" THEN "clean" ELSE "fail")
               /\ UNCHANGED <<db, disk, guard, boundVars, op>>

Clean == /\ At("clean")
         /\ SetTrigger(worker.p, [Copy EXCEPT !.pending = None, !.error = FALSE])
         /\ Goto("forget")
         /\ UNCHANGED <<guard, runVars, boundVars, op>>

\* acknowledge_plugin_event: forgets the progress, then moves the cursor.
Forget == /\ At("forget")
          /\ Put([db EXCEPT !.head[worker.p] = None])
          /\ Goto("advance")
          /\ UNCHANGED <<guard, runVars, boundVars, op>>

Advance == /\ At("advance")
           /\ IF Edge > db.cursor[worker.p] THEN Save([db EXCEPT !.cursor[worker.p] = Edge])
                                            ELSE Save(db)
           /\ Return
           /\ UNCHANGED <<guard, runVars, boundVars, op>>

\* record_error: on the trigger as stored now, or the round's copy when it is gone.
Fail == /\ At("fail")
        /\ LET current == IF db.trigger[worker.p] = None THEN Copy ELSE db.trigger[worker.p]
           IN  SetTrigger(worker.p, [current EXCEPT !.error = TRUE])
        /\ Return
        /\ UNCHANGED <<guard, runVars, boundVars, op>>
-----------------------------------------------------------------------------
Deliver == \/ DeliverEnded \/ DeliverWaits \/ DeliverProposal \/ DeliverEdge
           \/ AdmitStopped \/ AdmitStarted \/ AdmitEcho \/ Admit
RunEdge == RunFails \/ RunScript \/ SaveEvent \/ Propose \/ CallHost
Host == \/ HostRecords \/ HostWrites \/ HostReports \/ HostLogsRun \/ HostMoves \/ HostReturns
Settle == Clean \/ Forget \/ Advance \/ Fail

\* Everything the worker does but ask for the lease.
Drain == \/ StartDrain \/ EndRound \/ CapReached
         \/ \E p \in Plugins : PassOver(p)
         \/ Deliver \/ RunEdge \/ Host \/ Settle

Operator == \/ \E p \in Plugins : ReadTrigger(p) \/ DeleteTrigger(p)
            \/ StoreTrigger \/ StartCursor \/ ForgetHead \/ ForgetCursor
            \/ \E r \in Runs : AbandonRun(r)

Next == \/ \E s \in Subjects : Commit(s)
        \/ Flush \/ Crash
        \/ Operator
        \/ Drain
        \/ \E p \in Plugins : Pick(p) \/ NotLeased(p)

Spec == Init /\ [][Next]_vars

\* The worker keeps stepping, and finishes asking for a lease it is granted again and again.
FairSpec == Spec /\ WF_vars(Drain) /\ \A p \in Plugins : SF_vars(Pick(p))
-----------------------------------------------------------------------------
Store == [log : Seq(Row), trigger : [Plugins -> Trigger \cup {None}],
          head : [Plugins -> Event \cup {None}], cursor : [Plugins -> 0 .. MaxEvents],
          consumers : SUBSET Runs]

Worker == [pc : {"idle", "round", "deliver", "admit", "run", "save", "propose", "grant",
                 "apply", "clean", "forget", "advance", "fail"},
           seen : [Plugins -> Trigger \cup {None}], todo : SUBSET Plugins,
           progressed : BOOLEAN, attempted : 0 .. MaxAttempts, p : Plugins \cup {None},
           event : Event \cup {None}, resuming : BOOLEAN]

\* Type correctness, with the edge the worker is about.
TypeOK == /\ db \in Store /\ Len(db.log) <= MaxEvents
          /\ disk \in Store /\ Len(disk.log) <= MaxEvents
          /\ worker \in Worker
          /\ worker.pc \notin {"idle", "round"} =>
               worker.p \in Plugins /\ worker.event # None /\ Copy # None
          /\ guard \in [wrote : SUBSET (Plugins \X Subjects), fires : [Plugins -> 0 .. RateLimit]]
          /\ setting = None \/ setting \in [p : Plugins, stored : BOOLEAN, trigger : Trigger]
          /\ deleting = None \/ deleting \in [p : Plugins, next : {"head", "cursor"}]
          /\ acts \in 0 .. MaxActs
          /\ crashes \in 0 .. MaxCrashes
          /\ Recorded!TypeOK

\* However triggers are set, deleted and delivered again, and wherever the server
\* crashes, no write of a run is made twice (journal.rs begin).
WritesAtMostOnce == Recorded!WritesAtMostOnce

\* A receipt that lets a later attempt skip a write never outlives the write.
ReceiptsAreDurable == Recorded!ReceiptsAreDurable

\* Whatever happens to its trigger, a run keeps the promise of RunOnce.
ImplementsRunOnce == Recorded!ImplementsRunOnce

\* A crash takes back no row of the log that a run, a saved event or a cursor is
\* about: its number could go to another edge, which would pass for handled.
NothingAheadOfTheLog ==
  /\ \A r \in Runs : journal[r].plan # None => r[2] <= Len(disk.log)
  /\ \A d \in {db, disk}, p \in Plugins :
       d.cursor[p] <= Len(d.log) /\ (d.head[p] # None => d.head[p].seq <= Len(d.log))

\* While nobody touches the triggers: the cursor stays below an edge whose run was
\* begun and not ended, across crashes, and later edges of the plugin wait for it.
OpenRunHoldsTheCursor ==
  acts = 0 => \A p \in Plugins, n \in Seqs :
    (journal[<<p, n>>].plan # None /\ journal[<<p, n>>].end = "open") =>
      /\ db.cursor[p] < n /\ disk.cursor[p] < n
      /\ \A m \in Seqs : m > n => journal[<<p, m>>].plan = None

\* While nobody touches the triggers: an edge the store kept is passed at some time,
\* unless its trigger is gone or stops with an error, a proposal to review or an action to wait for.
Holding(p) == \/ db.trigger[p] = None
              \/ db.trigger[p].error
              \/ db.trigger[p].pending # None /\ ~db.trigger[p].auto
              \/ db.head[p] # None /\ db.head[p].verdict \in Waiting
Due(p, n) == /\ db.trigger[p] # None
             /\ n > db.cursor[p] /\ n <= Len(disk.log)
             /\ db.trigger[p].query \in disk.log[n].edges
EdgesSettle == \A p \in Plugins, n \in Seqs : Due(p, n) ~> (db.cursor[p] >= n \/ Holding(p))

\* The worker "moves [the cursor] past an edge only once that edge is handled, so a
\* restart neither repeats an edge nor loses one" (triggers.rs): an edge the cursor
\* passed is the plugin's own, or its run ended.
EdgesAreHandled ==
  acts = 0 => \A p \in Plugins, n \in Seqs :
    (db.trigger[p] # None /\ n <= db.cursor[p] /\ db.trigger[p].query \in db.log[n].edges) =>
      db.log[n].by = p \/ journal[<<p, n>>].end # "open"

\* "A plugin does not re-trigger itself" (triggers.rs).
NoEcho == worker.pc = "run" => db.log[Edge].by # worker.p

\* A proposal is stored with the event it belongs to, or nothing ever releases it
\* (plugin_trigger.rs takes that to happen only after an upgrade).
ProposalsHaveTheirEvent ==
  (worker.pc = "idle" /\ setting = None /\ deleting = None) =>
    \A p \in Plugins : db.trigger[p] # None /\ db.head[p] = None => db.trigger[p].pending = None
=============================================================================
