---------------------------- MODULE PluginSchedule ----------------------------
(***************************************************************************)
(* Scheduled plugins of one drive: the pass that runs what is due          *)
(* (server/src/plugins/scheduler.rs), the schedule it keeps per plugin     *)
(* (lib/src/db/plugin_schedule.rs) and the endpoints that edit it          *)
(* (server/src/handlers/plugin_schedule.rs).  RecordedRun applies what a   *)
(* run proposed, under a grant.                                            *)
(*                                                                         *)
(* The pass, a resume and an abandonment exclude each other; the other     *)
(* endpoints take no lock.  The pass works on the schedules as it listed   *)
(* them and stores them whole.  The store commits without syncing: a crash *)
(* goes back to the last flush.                                            *)
(*                                                                         *)
(* A run is known by when it was claimed, which only orders runs here;     *)
(* whether a schedule's next run is due stands for the time of it.  A      *)
(* grant stands for the source it approved, a proposal for the source that *)
(* made it and whether it waits for an integration action.                 *)
(***************************************************************************)
EXTENDS Naturals, Sequences, RunPlans

CONSTANTS
  Plugins,     \* plugins of the drive that may have a schedule
  Sources,     \* versions of a plugin's source
  MaxRuns,     \* bound on the times at which a run is claimed
  MaxTime,     \* bound on those at which one is passed over, beyond the last claim
  MaxActs,     \* bound on what people do
  MaxCrashes   \* bound on crashes

ASSUME BoundsAssumption == /\ MaxRuns \in Nat /\ MaxTime \in Nat /\ MaxRuns <= MaxTime
                           /\ MaxActs \in Nat /\ MaxCrashes \in Nat
ASSUME SourcesAssumption == Sources # {}

VARIABLES
  db,       \* the store as its readers see it: schedule, source, context, consumers
  disk,     \* the same at the last flush
  worker,   \* the pass over what is due, or a resume
  op,       \* the request under way that edits a schedule
  clock,    \* when the last run was claimed
  started,  \* history: runs whose script was started
  journal, written, flushed, host, ran,  \* see RecordedRun
  acts, crashes                          \* bound what people do, and the crashes

runVars == <<journal, written, host, ran>>
storeVars == <<db, disk, flushed>>
timeVars == <<clock, started>>
boundVars == <<acts, crashes>>
vars == <<storeVars, worker, op, timeVars, runVars, boundVars>>
-----------------------------------------------------------------------------
Times == 0 .. MaxTime
Runs == Plugins \X Times

Recorded == INSTANCE RecordedRun

Proposal == [source : Sources, waits : BOOLEAN]
Schedule == [due : BOOLEAN, last : Times, pending : Proposal \cup {None}, error : BOOLEAN,
             grant : Sources \cup {None}, running : BOOLEAN]
ASSUME NoneAssumption == None \notin Schedule \cup Proposal \cup Sources

\* PluginSchedule::new: the first run is an interval away, and nothing is granted.
New == [due |-> FALSE, last |-> 0, pending |-> None, error |-> FALSE, grant |-> None,
        running |-> FALSE]

Idle == [pc |-> "idle", due |-> [p \in Plugins |-> None], p |-> None, copy |-> None,
         from |-> None, at |-> 0, verdict |-> None, resuming |-> FALSE]

\* A server starts with schedules set before, some with a grant for the source as it is;
\* which source that is makes no difference.
Init == /\ LET first == CHOOSE v \in Sources : TRUE
           IN  \E schedule \in [Plugins -> {None, New, [New EXCEPT !.grant = first]}] :
                 db = [schedule |-> schedule, source |-> [p \in Plugins |-> first],
                       context |-> [p \in Plugins |-> None], consumers |-> {}]
        /\ disk = db
        /\ worker = Idle
        /\ op = None
        /\ clock = 0
        /\ started = {}
        /\ acts = 0
        /\ crashes = 0
        /\ Recorded!Init
-----------------------------------------------------------------------------
(* The store *)

Put(d) == db' = d /\ UNCHANGED <<disk, flushed>>
Save(d) == db' = d /\ disk' = d /\ flushed' = written
PutSchedule(p, schedule) == Put([db EXCEPT !.schedule[p] = schedule])

Flush == /\ <<disk, flushed>> # <<db, written>>
         /\ Save(db)
         /\ UNCHANGED <<worker, op, timeVars, runVars, boundVars>>

Crash == /\ crashes < MaxCrashes
         /\ crashes' = crashes + 1
         /\ db' = disk
         /\ worker' = Idle
         /\ op' = None
         /\ Recorded!Crash
         /\ UNCHANGED <<disk, timeVars, acts>>

\* Time passes until the next run of p is due, as every stored copy has it.
Ticked(d, p) == IF d.schedule[p] = None THEN d ELSE [d EXCEPT !.schedule[p].due = TRUE]

Tick(p) == /\ db.schedule[p] # None
           /\ ~db.schedule[p].due
           /\ db' = Ticked(db, p)
           /\ disk' = Ticked(disk, p)
           /\ UNCHANGED <<flushed, worker, op, timeVars, runVars, boundVars>>
-----------------------------------------------------------------------------
(* People, on other threads than the pass *)

Acts == acts < MaxActs /\ acts' = acts + 1 /\ UNCHANGED crashes

\* Each handler reads the schedule, and stores it whole with one part changed.
Begin(p, kind, schedule) == op' = [p |-> p, kind |-> kind, schedule |-> schedule]

ReadSchedule(p) ==
  /\ op = None
  /\ Acts
  /\ LET stored == db.schedule[p]
     IN  \/ /\ stored = None
            /\ Begin(p, "interval", New)
         \/ /\ stored # None
            /\ \/ Begin(p, "interval", [stored EXCEPT !.due = FALSE])
               \/ Begin(p, "clear", [stored EXCEPT !.pending = None])
               \/ Begin(p, "revoke", [stored EXCEPT !.grant = None])
               \/ Begin(p, "grant", stored)
  /\ UNCHANGED <<storeVars, worker, timeVars, runVars>>

\* build_auto_apply_grant: the source as it is, if a person reviewed a run of it.
BuildGrant == /\ op # None /\ op.kind = "grant"
              /\ op' \in {None, [op EXCEPT !.kind = "granted", !.schedule.grant = db.source[op.p]]}
              /\ UNCHANGED <<storeVars, worker, timeVars, runVars, boundVars>>

StoreSchedule == /\ op # None /\ op.kind # "grant"
                 /\ PutSchedule(op.p, op.schedule)
                 /\ op' = None
                 /\ UNCHANGED <<worker, timeVars, runVars, boundVars>>

DeleteSchedule(p) == /\ Acts
                     /\ db.schedule[p] # None
                     /\ PutSchedule(p, None)
                     /\ UNCHANGED <<worker, op, timeVars, runVars>>

\* The plugin's source is a property of its resource: anyone with the right edits it.
EditDraft(p) == /\ Acts
                /\ \E v \in Sources \ {db.source[p]} : Put([db EXCEPT !.source[p] = v])
                /\ UNCHANGED <<worker, op, timeVars, runVars>>

\* abandon_consumer: a run that used an action, once the pass is not busy.
AbandonRun(r) == /\ worker.pc = "idle"
                 /\ Acts
                 /\ r \in db.consumers
                 /\ Recorded!Abandon(r)
                 /\ disk' = db
                 /\ UNCHANGED <<db, worker, op, timeVars>>

\* handle_resume: the saved proposal, under the grant the schedule has now.
Resume(p) ==
  /\ worker.pc = "idle"
  /\ Acts
  /\ db.schedule[p] # None
  /\ db.schedule[p].pending # None /\ db.schedule[p].grant # None /\ db.schedule[p].last # 0
  /\ LET claimed == [db.schedule[p] EXCEPT !.running = TRUE]
     IN  /\ PutSchedule(p, claimed)
         /\ worker' = [Idle EXCEPT !.pc = "grant", !.p = p, !.copy = claimed]
  /\ UNCHANGED <<op, timeVars, runVars>>
-----------------------------------------------------------------------------
(* run_due *)

At(pc) == worker.pc = pc

\* The run at hand.
Run == <<worker.p, worker.copy.last>>

ListDue == /\ At("idle")
           /\ worker' = [Idle EXCEPT !.pc = "pass", !.due = [p \in Plugins |->
                IF db.schedule[p] # None /\ db.schedule[p].due THEN db.schedule[p] ELSE None]]
           /\ UNCHANGED <<storeVars, op, timeVars, runVars, boundVars>>

EndPass == /\ At("pass")
           /\ worker.due = Idle.due
           /\ worker' = Idle
           /\ UNCHANGED <<storeVars, op, timeVars, runVars, boundVars>>

\* Schedules come up in turn, each as it was listed.
Listed(p) == At("pass") /\ worker.due[p] # None
Copy(p) == worker.due[p]
Passed(p) == worker' = [worker EXCEPT !.due[p] = None]

\* PluginSchedule::advance, at a time no run was claimed before.
Advanced(schedule) == [schedule EXCEPT !.last = clock + 1, !.due = FALSE]

\* Another node may hold the lease.
NotLeased(p) == /\ Listed(p)
                /\ Passed(p)
                /\ UNCHANGED <<storeVars, op, timeVars, runVars, boundVars>>

Open(p) == Copy(p).running \/ Copy(p).pending # None
Ended(p) == Open(p) /\ Copy(p).last # 0 /\ journal[<<p, Copy(p).last>>].end # "open"
Waits(p) == Copy(p).pending # None /\ Copy(p).pending.waits

\* The run of the claim or the proposal has ended: only the schedule does not know.
Acknowledge(p) ==
  /\ Listed(p)
  /\ Ended(p)
  /\ clock < MaxTime
  /\ clock' = clock + 1
  /\ PutSchedule(p, Advanced([Copy(p) EXCEPT !.running = FALSE, !.pending = None, !.error = FALSE]))
  /\ Passed(p)
  /\ UNCHANGED <<op, started, runVars, boundVars>>

\* An interrupted run, a proposal to review, a wait that failed.
Skip(p) == /\ Listed(p)
           /\ ~Ended(p)
           /\ Open(p)
           /\ Copy(p).running \/ ~Waits(p) \/ Copy(p).error
           /\ Passed(p)
           /\ UNCHANGED <<storeVars, op, timeVars, runVars, boundVars>>

\* Claimed for a run: stored before it starts, as if it were interrupted.
ClaimAs(p, schedule, resuming) ==
  LET claimed == [schedule EXCEPT !.running = TRUE, !.error = TRUE]
  IN  /\ PutSchedule(p, claimed)
      /\ worker' = [worker EXCEPT !.pc = "prepare", !.due[p] = None, !.p = p, !.copy = claimed,
                                  !.resuming = resuming]

\* waits_ready: not yet; failed or cancelled; completed, so the run goes on.
AskAction(p) ==
  /\ Listed(p)
  /\ ~Ended(p) /\ ~Copy(p).running /\ Waits(p) /\ ~Copy(p).error
  /\ \/ Passed(p) /\ UNCHANGED storeVars
     \/ Passed(p) /\ PutSchedule(p, [Copy(p) EXCEPT !.error = TRUE])
     \/ ClaimAs(p, Copy(p), TRUE)
  /\ UNCHANGED <<op, timeVars, runVars, boundVars>>

Claim(p) == /\ Listed(p)
            /\ ~Open(p)
            /\ clock < MaxRuns
            /\ clock' = clock + 1
            /\ ClaimAs(p, Advanced(Copy(p)), FALSE)
            /\ UNCHANGED <<op, started, runVars, boundVars>>
-----------------------------------------------------------------------------
(* run_one, which reads the schedule again *)

Stored == db.schedule[worker.p]
Source == IF Stored.grant # None THEN Stored.grant ELSE db.source[worker.p]
Continues == Stored.pending # None /\ Stored.pending.waits

\* The script uses an integration action under this run's identity, unless that has ended.
Identity == <<worker.p, worker.at>>
UsesAction == /\ journal[Identity].end = "open"
              /\ Save([db EXCEPT !.consumers = @ \cup {Identity}])

\* A failure loses what it is about.
RunFailsUnnamed == /\ At("prepare") \/ At("script")
                   /\ UNCHANGED storeVars \/ (At("script") /\ UsesAction)
                   /\ worker' = [Idle EXCEPT !.pc = "save", !.due = worker.due,
                                            !.copy = [worker.copy EXCEPT !.error = TRUE]]
                   /\ UNCHANGED <<op, timeVars, runVars, boundVars>>

\* The schedule is gone, the saved context is another's, or the script cannot run or fails.
RunFails == /\ At("prepare") \/ At("script")
            /\ UNCHANGED storeVars \/ (At("script") /\ UsesAction)
            /\ worker' = [worker EXCEPT !.pc = "save", !.copy.error = TRUE]
            /\ UNCHANGED <<op, timeVars, runVars, boundVars>>

\* The input is stored without a flush.
PrepareUnsynced ==
  /\ At("prepare")
  /\ Stored # None
  /\ IF Continues
     THEN db.context[worker.p] = Source /\ UNCHANGED storeVars
     ELSE Put([db EXCEPT !.context[worker.p] = Source])
  /\ worker' = [worker EXCEPT !.pc = "script", !.from = Source, !.at = Stored.last]
  /\ started' = started \cup {Run}
  /\ UNCHANGED <<op, clock, runVars, boundVars>>

\* A run that continues has its input; another's is stored, and with it the claim.
Prepare == /\ At("prepare")
           /\ Stored # None
           /\ IF Continues
              THEN db.context[worker.p] = Source /\ UNCHANGED storeVars
              ELSE Save([db EXCEPT !.context[worker.p] = Source])
           /\ worker' = [worker EXCEPT !.pc = "script", !.from = Source, !.at = Stored.last]
           /\ started' = started \cup {Run}
           /\ UNCHANGED <<op, clock, runVars, boundVars>>

RunScript == /\ At("script")
             /\ \E waits \in BOOLEAN :
                  /\ worker' = [worker EXCEPT !.pc = "judge",
                                              !.verdict = [source |-> worker.from, waits |-> waits]]
                  /\ IF waits THEN UsesAction ELSE UNCHANGED storeVars
             /\ UNCHANGED <<op, timeVars, runVars, boundVars>>
-----------------------------------------------------------------------------
(* What becomes of the answer *)

Judge(copy, pc) == worker' = [worker EXCEPT !.pc = pc, !.copy = copy]
Proposed == [worker.copy EXCEPT !.pending = worker.verdict]

KeepWaits == /\ At("judge")
             /\ worker.verdict.waits
             /\ Judge([Proposed EXCEPT !.error = FALSE, !.due = TRUE], "save")
             /\ UNCHANGED <<storeVars, op, timeVars, runVars, boundVars>>

KeepForReview == /\ At("judge")
                 /\ ~worker.verdict.waits
                 /\ worker.copy.grant = None
                 /\ Judge([Proposed EXCEPT !.error = FALSE], "save")
                 /\ UNCHANGED <<storeVars, op, timeVars, runVars, boundVars>>

\* Stored before it is applied.
Propose == /\ At("judge")
           /\ ~worker.verdict.waits
           /\ worker.copy.grant # None
           /\ PutSchedule(worker.p, Proposed)
           /\ Judge(Proposed, "grant")
           /\ UNCHANGED <<op, timeVars, runVars, boundVars>>

\* auto_apply
CallHost == /\ At("grant")
            /\ Recorded!Call(Run)
            /\ Judge(worker.copy, "apply")
            /\ UNCHANGED <<db, disk, op, timeVars, boundVars>>

\* Journal writes: all before them is flushed.
HostRecords == /\ Recorded!ChoosePlan \/ Recorded!Begin \/ Recorded!Complete \/ Recorded!Finish
               /\ disk' = db
               /\ UNCHANGED <<db, worker, op, timeVars, boundVars>>

HostMoves == /\ \/ Recorded!PlanFails \/ Recorded!KeepPlan \/ Recorded!Replay
                \/ Recorded!RefuseUncertain \/ Recorded!Apply \/ Recorded!ApplyFails
                \/ Recorded!Report \/ Recorded!RecordFails \/ Recorded!RecordRun
             /\ UNCHANGED <<db, disk, worker, op, timeVars, boundVars>>

\* A proposal that could not be applied is dropped.
HostReturnsDropping == /\ At("apply")
                       /\ Recorded!Return
                       /\ Judge([worker.copy EXCEPT !.pending = None,
                                                    !.error = host.step # "applied"], "save")
                       /\ UNCHANGED <<db, disk, op, timeVars, boundVars>>

HostReturns == /\ At("apply")
               /\ Recorded!Return
               /\ Judge(IF host.step = "applied"
                        THEN [worker.copy EXCEPT !.pending = None, !.error = FALSE]
                        ELSE [worker.copy EXCEPT !.error = TRUE], "save")
               /\ UNCHANGED <<db, disk, op, timeVars, boundVars>>

\* The claim of a run that did not continue stays.
StoreRunClaimed ==
  /\ At("save")
  /\ LET done == worker.resuming /\ worker.copy.pending = None
     IN  /\ done => clock < MaxTime
         /\ clock' = IF done THEN clock + 1 ELSE clock
         /\ PutSchedule(worker.p, IF done THEN [Advanced(worker.copy) EXCEPT !.running = FALSE]
                                          ELSE worker.copy)
  /\ worker' = [Idle EXCEPT !.pc = "pass", !.due = worker.due]
  /\ UNCHANGED <<op, started, runVars, boundVars>>

\* The schedule as the pass has it is stored, over whatever is stored now.
StoreRun ==
  /\ At("save")
  /\ LET done == worker.resuming /\ worker.copy.pending = None
     IN  /\ done => clock < MaxTime
         /\ clock' = IF done THEN clock + 1 ELSE clock
         /\ PutSchedule(worker.p, [IF done THEN Advanced(worker.copy) ELSE worker.copy
                                     EXCEPT !.running = FALSE])
  /\ worker' = [Idle EXCEPT !.pc = "pass", !.due = worker.due]
  /\ UNCHANGED <<op, started, runVars, boundVars>>
-----------------------------------------------------------------------------
Host == CallHost \/ HostRecords \/ HostMoves \/ HostReturns

RunOne == Prepare \/ RunFails \/ RunScript \/ KeepWaits \/ KeepForReview \/ Propose \/ StoreRun

\* Everything the pass does but ask for the lease and claim.
Pass == \/ ListDue \/ EndPass \/ RunOne \/ Host
        \/ \E p \in Plugins : Skip(p) \/ AskAction(p)

People == \/ \E p \in Plugins : ReadSchedule(p) \/ DeleteSchedule(p) \/ EditDraft(p) \/ Resume(p)
          \/ BuildGrant \/ StoreSchedule
          \/ \E r \in Runs : AbandonRun(r)

Next == \/ Flush \/ Crash
        \/ \E p \in Plugins : Tick(p)
        \/ People
        \/ Pass
        \/ \E p \in Plugins : Claim(p) \/ Acknowledge(p) \/ NotLeased(p)

Spec == Init /\ [][Next]_vars

\* Time passes, the pass keeps stepping, and a lease is granted again and again.
FairSpec == /\ Spec
            /\ WF_vars(Pass)
            /\ \A p \in Plugins : WF_vars(Tick(p)) /\ SF_vars(Claim(p)) /\ SF_vars(Acknowledge(p))
-----------------------------------------------------------------------------
Store == [schedule : [Plugins -> Schedule \cup {None}], source : [Plugins -> Sources],
          context : [Plugins -> Sources \cup {None}], consumers : SUBSET Runs]

Worker == [pc : {"idle", "pass", "prepare", "script", "judge", "grant", "apply", "save"},
           due : [Plugins -> Schedule \cup {None}], p : Plugins \cup {None},
           copy : Schedule \cup {None}, from : Sources \cup {None}, at : Times,
           verdict : Proposal \cup {None}, resuming : BOOLEAN]

\* Type correctness, with the schedule the pass is about.
TypeOK == /\ db \in Store /\ disk \in Store
          /\ worker \in Worker
          /\ worker.pc \notin {"idle", "pass"} => worker.p \in Plugins /\ worker.copy # None
          /\ op = None \/ op \in [p : Plugins, schedule : Schedule,
                                  kind : {"interval", "clear", "revoke", "grant", "granted"}]
          /\ clock \in Times
          /\ started \subseteq Runs
          /\ acts \in 0 .. MaxActs
          /\ crashes \in 0 .. MaxCrashes
          /\ Recorded!TypeOK

\* However schedules are edited and resumed, and wherever the server crashes, no write
\* of a scheduled run is made twice.
WritesAtMostOnce == Recorded!WritesAtMostOnce

\* A scheduled run keeps the promise of RunOnce.
ImplementsRunOnce == Recorded!ImplementsRunOnce

\* While nobody touches the schedules: a run whose plan was chosen and that has not ended
\* keeps its schedule, on disk too, so no other run of the plugin starts before it.
OpenRunBlocksTheNext ==
  acts = 0 => \A p \in Plugins, n \in Times :
    (journal[<<p, n>>].plan # None /\ journal[<<p, n>>].end = "open") =>
      \A d \in {db, disk} : /\ d.schedule[p].last = n
                            /\ d.schedule[p].running \/ d.schedule[p].pending # None

\* While nobody touches the schedules: whatever crashes, a run whose script started stays
\* on record until a later one, as claimed, proposed, failed or finished.
NothingRunsUnnoticed ==
  acts = 0 => \A r \in started : \A d \in {db, disk} :
    LET schedule == d.schedule[r[1]]
    IN  /\ schedule.last >= r[2]
        /\ schedule.last = r[2] => \/ schedule.running \/ schedule.error
                                   \/ schedule.pending # None
                                   \/ journal[r].end = "finished"

\* While nobody touches the schedules: a claim is given up again, unless a crash interrupted
\* its run; and then too when the run had finished.
Claimed(p) == db.schedule[p] # None /\ db.schedule[p].running
Interrupted(p) ==
  crashes > 0 /\ worker.pc = "idle" /\ Claimed(p) /\ journal[<<p, db.schedule[p].last>>].end = "open"
ClaimsAreReleased == \A p \in Plugins : Claimed(p) ~> (~Claimed(p) \/ Interrupted(p) \/ acts > 0)

\* "Editing the draft does not modify existing unattended execution" (planning,
\* plugin-runtime-v1.md): what is applied unattended came from the approved source.
ApprovedSource == worker.pc \in {"grant", "apply"} => worker.copy.pending.source = worker.copy.grant

\* "Changing the interval should not discard a verdict nobody has reviewed yet"
\* (handle_set_schedule).
IntervalKeepsProposal ==
  [][StoreSchedule /\ op.kind = "interval" /\ db.schedule[op.p] # None =>
       db'.schedule[op.p].pending = db.schedule[op.p].pending]_vars

\* A claim that no crash interrupted belongs to a run under way ("an interrupted run must be
\* reconciled before retry", plugin_schedule.rs).
ClaimsHaveARun ==
  (crashes = 0 /\ worker.pc = "idle" /\ op = None) => \A p \in Plugins : ~Claimed(p)
=============================================================================
