------------------------ MODULE TriggerDeliveryProofs ------------------------
(***************************************************************************)
(* For every set of plugins, resources and answers: the delivery of        *)
(* triggers is type-correct and uses recorded runs the way RecordedRun     *)
(* says, so that what is proved of a recorded run holds of every run a     *)
(* trigger starts, however triggers are edited, retried and interrupted.   *)
(* No cursor, event or journal speaks of a row that a crash could take     *)
(* from the log (LogOK), and where nobody edits the trigger the cursor     *)
(* waits at the edge of the run that is open (Calm).                       *)
(***************************************************************************)
EXTENDS TriggerDelivery, WellFoundedInduction, TLAPS

\* Every step but an operator's leaves both requests alone.
USE DEF op

\* What RecordedRunProofs proves, of the runs of triggers.
P == INSTANCE RecordedRunProofs

LEMMA SameInit == Recorded!Init <=> P!Init
BY DEF Recorded!Init, P!Init, Recorded!NoHost, P!NoHost

LEMMA SameType == Recorded!TypeOK <=> P!TypeOK
BY DEF Recorded!TypeOK, P!TypeOK, Recorded!Journal, P!Journal, Recorded!Steps, P!Steps

LEMMA SameNext == Recorded!Next <=> P!Next
<1>. USE DEF Recorded!At, P!At, Recorded!Goto, P!Goto, Recorded!Plan, P!Plan,
             Recorded!Abandoned, P!Abandoned, Recorded!Record, P!Record,
             Recorded!Begins, P!Begins, Recorded!NoHost, P!NoHost
<1>1. /\ Recorded!PlanFails <=> P!PlanFails
      /\ Recorded!KeepPlan <=> P!KeepPlan
      /\ Recorded!ChoosePlan <=> P!ChoosePlan
      /\ Recorded!Replay <=> P!Replay
      /\ Recorded!RefuseUncertain <=> P!RefuseUncertain
      /\ Recorded!Begin <=> P!Begin
      /\ Recorded!Apply <=> P!Apply
      /\ Recorded!ApplyFails <=> P!ApplyFails
      /\ Recorded!Complete <=> P!Complete
      /\ Recorded!Report <=> P!Report
      /\ Recorded!RecordFails <=> P!RecordFails
      /\ Recorded!RecordRun <=> P!RecordRun
      /\ Recorded!Finish <=> P!Finish
      /\ Recorded!Return <=> P!Return
      /\ Recorded!Flush <=> P!Flush
      /\ Recorded!Crash <=> P!Crash
      /\ \A r \in Runs : /\ Recorded!Call(r) <=> P!Call(r)
                         /\ Recorded!Abandon(r) <=> P!Abandon(r)
  BY DEF Recorded!PlanFails, P!PlanFails, Recorded!KeepPlan, P!KeepPlan, Recorded!ChoosePlan,
    P!ChoosePlan, Recorded!Replay, P!Replay, Recorded!RefuseUncertain, P!RefuseUncertain,
    Recorded!Begin, P!Begin, Recorded!Apply, P!Apply, Recorded!ApplyFails, P!ApplyFails,
    Recorded!Complete, P!Complete, Recorded!Report, P!Report, Recorded!RecordFails, P!RecordFails,
    Recorded!RecordRun, P!RecordRun, Recorded!Finish, P!Finish, Recorded!Return, P!Return,
    Recorded!Flush, P!Flush, Recorded!Crash, P!Crash, Recorded!Call, P!Call, Recorded!Abandon,
    P!Abandon
<1>. QED
  BY <1>1 DEF Recorded!Next, P!Next, Recorded!Step, P!Step

-----------------------------------------------------------------------------
\* A step of the delivery, seen from the run it serves.
Serves == Recorded!Next \/ UNCHANGED Recorded!vars

LEMMA Quiet == ASSUME UNCHANGED runVars, UNCHANGED flushed PROVE Serves
BY DEF Serves, runVars, Recorded!vars

LEMMA Flushes == ASSUME UNCHANGED runVars, flushed' = written PROVE Serves
BY DEF Serves, runVars, Recorded!Flush, Recorded!Next

LEMMA StepServes == ASSUME Recorded!Step \/ Recorded!Return \/ Recorded!Crash PROVE Serves
BY DEF Serves, Recorded!Next

Calls == \/ UNCHANGED runVars /\ flushed' \in {flushed, written}
         \/ Recorded!Step \/ Recorded!Return \/ Recorded!Crash
         \/ \E r \in Runs : Recorded!Call(r) \/ Recorded!Abandon(r)

LEMMA CallsServe == ASSUME Calls PROVE Serves
<1>1. CASE UNCHANGED runVars /\ flushed' \in {flushed, written}
  BY <1>1, Quiet, Flushes
<1>2. CASE \E r \in Runs : Recorded!Call(r) \/ Recorded!Abandon(r)
  BY <1>2 DEF Serves, Recorded!Next
<1>. QED
  BY <1>1, <1>2, StepServes DEF Calls

\* The worker's edge has a run.
AtEdge == worker.pc \notin {"idle", "round"} => Run \in Runs

LEMMA NextCalls == ASSUME AtEdge, Next PROVE Calls
<1>. USE DEF Calls
<1>1. ASSUME NEW s \in Subjects, Commit(s) PROVE Calls
  BY <1>1 DEF Commit
<1>2. CASE Flush
  BY <1>2 DEF Flush, Save
<1>3. CASE Crash
  BY <1>3 DEF Crash
<1>4. CASE Operator
  <2>1. ASSUME NEW p \in Plugins, ReadTrigger(p) PROVE Calls
    BY <2>1 DEF ReadTrigger, storeVars
  <2>2. ASSUME NEW p \in Plugins, DeleteTrigger(p) PROVE Calls
    BY <2>2 DEF DeleteTrigger, Put
  <2>3. CASE StoreTrigger
    BY <2>3 DEF StoreTrigger, Put
  <2>4. CASE StartCursor
    BY <2>4 DEF StartCursor, Ack, Put, Save
  <2>5. ASSUME NEW r \in Runs, AbandonRun(r) PROVE Calls
    BY <2>5 DEF AbandonRun
  <2>6. CASE ForgetHead \/ ForgetCursor
    BY <2>6 DEF ForgetHead, ForgetCursor, Put
  <2>. QED
    BY <1>4, <2>1, <2>2, <2>3, <2>4, <2>5, <2>6 DEF Operator
<1>5. CASE Drain
  <2>1. CASE StartDrain \/ EndRound \/ CapReached
    BY <2>1 DEF StartDrain, EndRound, CapReached, storeVars
  <2>2. ASSUME NEW p \in Plugins, PassOver(p) PROVE Calls
    BY <2>2 DEF PassOver, Ack, Put, Save
  <2>3. CASE Deliver
    BY <2>3 DEF Deliver, DeliverEnded, DeliverWaits, DeliverProposal, DeliverEdge, AdmitStopped,
       AdmitStarted, AdmitEcho, Admit, storeVars, SetTrigger, Ack, Put, Save
  <2>4. CASE CallHost
    <3>1. worker.pc = "grant" /\ Recorded!Call(Run)
      BY <2>4 DEF CallHost, At
    <3>2. PICK r \in Runs : r = Run
      BY <3>1 DEF AtEdge
    <3>3. Recorded!Call(r)
      BY <3>1, <3>2 DEF Recorded!Call, Recorded!At, Recorded!NoHost
    <3>. QED
      BY <3>3
  <2>5. CASE RunFails \/ RunScript \/ SaveEvent \/ Propose
    BY <2>5 DEF RunFails, RunScript, SaveEvent, Propose, UsesAction, SetTrigger, Ack, Put, Save,
       storeVars
  <2>6. CASE Host
    BY <2>6 DEF Host, HostRecords, HostWrites, HostReports, HostLogsRun, HostMoves, HostReturns,
       Recorded!Step
  <2>7. CASE Settle
    BY <2>7 DEF Settle, Clean, Forget, Advance, Fail, SetTrigger, Ack, Put, Save
  <2>. QED
    BY <1>5, <2>1, <2>2, <2>3, <2>4, <2>5, <2>6, <2>7 DEF Drain, RunEdge
<1>6. ASSUME NEW p \in Plugins, Pick(p) \/ NotLeased(p) PROVE Calls
  BY <1>6 DEF Pick, NotLeased, storeVars
<1>. QED
  BY <1>1, <1>2, <1>3, <1>4, <1>5, <1>6 DEF Next

-----------------------------------------------------------------------------
(* The store keeps its type. *)

StoreOK(d) == d \in Store /\ Len(d.log) <= MaxEvents
Stores == StoreOK(db) /\ StoreOK(disk)

LEMMA StoreFields ==
  ASSUME NEW d, StoreOK(d)
  PROVE  /\ d.log \in Seq(Row) /\ Len(d.log) \in 0 .. MaxEvents
         /\ d.trigger \in [Plugins -> Trigger \cup {None}]
         /\ d.head \in [Plugins -> Event \cup {None}]
         /\ d.cursor \in [Plugins -> 0 .. MaxEvents]
         /\ d.consumers \subseteq Runs
         /\ d = [log |-> d.log, trigger |-> d.trigger, head |-> d.head, cursor |-> d.cursor,
                 consumers |-> d.consumers]
BY BoundsAssumption DEF StoreOK, Store

LEMMA PutTrigger ==
  ASSUME NEW d, StoreOK(d), NEW p \in Plugins, NEW t \in Trigger \cup {None}
  PROVE  StoreOK([d EXCEPT !.trigger[p] = t])
BY StoreFields DEF StoreOK, Store

LEMMA PutHead ==
  ASSUME NEW d, StoreOK(d), NEW p \in Plugins, NEW e \in Event \cup {None}
  PROVE  StoreOK([d EXCEPT !.head[p] = e])
BY StoreFields DEF StoreOK, Store

LEMMA PutCursor ==
  ASSUME NEW d, StoreOK(d), NEW p \in Plugins, NEW n \in 0 .. MaxEvents
  PROVE  StoreOK([d EXCEPT !.cursor[p] = n])
BY StoreFields DEF StoreOK, Store

LEMMA PutConsumer ==
  ASSUME NEW d, StoreOK(d), NEW r \in Runs
  PROVE  StoreOK([d EXCEPT !.consumers = d.consumers \cup {r}])
BY StoreFields DEF StoreOK, Store

LEMMA PutRow ==
  ASSUME NEW d, StoreOK(d), NEW row \in Row, Len(d.log) < MaxEvents
  PROVE  StoreOK([d EXCEPT !.log = Append(d.log, row)])
<1>1. d.log \in Seq(Row) /\ Len(d.log) \in Nat
  BY StoreFields
<1>2. Append(d.log, row) \in Seq(Row) /\ Len(Append(d.log, row)) = Len(d.log) + 1
  BY <1>1
<1>3. PICK log : log = Append(d.log, row)
  OBVIOUS
<1>4. log \in Seq(Row) /\ Len(log) <= MaxEvents
  <2>1. log \in Seq(Row) /\ Len(log) = Len(d.log) + 1
    BY <1>2, <1>3, Zenon
  <2>2. Len(d.log) + 1 <= MaxEvents
    BY <1>1, BoundsAssumption
  <2>. QED
    BY <2>1, <2>2
<1>5. [d EXCEPT !.log = log] \in Store /\ [d EXCEPT !.log = log].log = log
  <2>1. d \in Store
    BY DEF StoreOK
  <2>. HIDE <1>3
  <2>. QED
    BY <2>1, <1>4 DEF Store
<1>6. PICK stored : stored = [d EXCEPT !.log = log]
  OBVIOUS
<1>7. StoreOK(stored)
  BY <1>4, <1>5, <1>6, Zenon DEF StoreOK
<1>. QED
  BY <1>3, <1>6, <1>7, Zenon

LEMMA AckTyped ==
  ASSUME Stores, NEW d, StoreOK(d), NEW p \in Plugins, NEW n \in 0 .. MaxEvents, Ack(d, p, n)
  PROVE  Stores'
BY PutCursor DEF Ack, Put, Save, Stores

LEMMA SetTyped ==
  ASSUME Stores, NEW p \in Plugins, NEW t \in Trigger, SetTrigger(p, t)
  PROVE  Stores'
<1>1. StoreOK([db EXCEPT !.trigger[p] = t])
  BY PutTrigger DEF Stores
<1>2. Len(db.log) \in 0 .. MaxEvents
  BY StoreFields DEF Stores
<1>3. PICK d : d = [db EXCEPT !.trigger[p] = t]
  OBVIOUS
<1>4. PICK n \in 0 .. MaxEvents : n = Len(db.log)
  BY <1>2
<1>5. Ack(d, p, n) \/ Put(d)
  BY <1>3, <1>4 DEF SetTrigger, Ack, Put, Save
<1>. QED
  BY <1>1, <1>3, <1>5, AckTyped DEF Put, Stores

LEMMA WatchedType == ASSUME Stores PROVE Watched \subseteq Queries
<1>1. db.trigger \in [Plugins -> Trigger \cup {None}]
  BY StoreFields DEF Stores
<1>. QED
  BY <1>1 DEF Watched, Trigger

LEMMA ChangedTyped ==
  ASSUME Stores, NEW s \in Subjects \cup {RunRecord}, NEW by \in Plugins \cup {None},
         db' \in Changed(s, by), UNCHANGED disk
  PROVE  Stores'
<1>1. CASE db' = db
  BY <1>1 DEF Stores
<1>2. CASE db' # db
  <2>1. Len(db.log) < MaxEvents
    BY <1>2 DEF Changed
  <2>2. PICK edges \in (SUBSET Watched) \ {{}} :
          db' = [db EXCEPT !.log = Append(@, [subject |-> s, by |-> by, edges |-> edges])]
    BY <1>2, <2>1 DEF Changed
  <2>3. [subject |-> s, by |-> by, edges |-> edges] \in Row
    BY WatchedType DEF Row
  <2>. QED
    BY <2>1, <2>2, <2>3, PutRow DEF Stores
<1>. QED
  BY <1>1, <1>2

-----------------------------------------------------------------------------
(* The worker keeps its type, and its place in the run it serves. *)

Busy == worker.pc \notin {"idle", "round"}

WorkerOK == /\ worker \in Worker
            /\ Busy => worker.p \in Plugins /\ worker.event # None /\ Copy # None

\* What a listed trigger, an attempt and a call in progress say of the worker.
Turn == /\ \A p \in worker.todo : worker.seen[p] # None
        /\ worker.pc \in {"deliver", "admit"} => worker.attempted < MaxAttempts
        /\ host.step # "idle" => worker.pc = "apply" /\ host.run = Run

GuardOK == guard \in [wrote : SUBSET (Plugins \X Subjects), fires : [Plugins -> 0 .. RateLimit]]

OpOK == /\ setting = None \/ setting \in [p : Plugins, stored : BOOLEAN, trigger : Trigger]
        /\ deleting = None \/ deleting \in [p : Plugins, next : {"head", "cursor"}]
        /\ acts \in 0 .. MaxActs
        /\ crashes \in 0 .. MaxCrashes

Own == Stores /\ WorkerOK /\ Turn /\ GuardOK /\ OpOK

IInv == Own /\ P!IInv

LEMMA BusyType ==
  ASSUME WorkerOK, Busy
  PROVE  /\ worker.p \in Plugins /\ worker.event \in Event /\ Copy \in Trigger
         /\ Edge \in Seqs /\ Run \in Runs
<1>1. worker.event \in Event
  BY DEF WorkerOK, Worker
<1>2. worker.p \in Plugins /\ worker.seen \in [Plugins -> Trigger \cup {None}] /\ Copy # None
  BY DEF WorkerOK, Worker
<1>. QED
  BY <1>1, <1>2 DEF Event, Edge, Copy, Run, Runs

\* The worker, field by field.
LEMMA WorkerFields ==
  ASSUME WorkerOK
  PROVE  /\ worker = [pc |-> worker.pc, seen |-> worker.seen, todo |-> worker.todo,
                      progressed |-> worker.progressed, attempted |-> worker.attempted,
                      p |-> worker.p, event |-> worker.event, resuming |-> worker.resuming]
         /\ worker.seen \in [Plugins -> Trigger \cup {None}]
         /\ worker.todo \subseteq Plugins
         /\ worker.attempted \in 0 .. MaxAttempts
BY DEF WorkerOK, Worker

Stages == {"deliver", "admit", "run", "save", "propose", "grant", "apply", "clean", "forget",
           "advance", "fail"}

\* A step to another stage of the same edge.
LEMMA GotoTyped ==
  ASSUME WorkerOK, Turn, Busy, worker.pc # "apply", UNCHANGED host,
         NEW stage \in Stages \ {"deliver", "admit"}, Goto(stage)
  PROVE  WorkerOK' /\ Turn'
<1>1. worker' = [worker EXCEPT !.pc = stage]
  BY DEF Goto
<1>2. /\ worker' \in Worker
      /\ worker'.seen = worker.seen /\ worker'.todo = worker.todo
      /\ worker'.p = worker.p /\ worker'.event = worker.event /\ worker'.pc = stage
  BY <1>1, WorkerFields DEF WorkerOK, Worker, Stages
<1>. QED
  BY <1>2 DEF WorkerOK, Turn, Busy, Copy, Stages

LEMMA AdmitTyped ==
  ASSUME WorkerOK, Turn, worker.pc = "deliver", UNCHANGED host,
         \/ Goto("admit")
         \/ worker' = [worker EXCEPT !.pc = "admit", !.event.waiting = FALSE]
         \/ worker' = [worker EXCEPT !.pc = "admit", !.resuming = TRUE,
                                     !.event.verdict = None, !.event.waiting = FALSE]
  PROVE  WorkerOK' /\ Turn'
<1>1. worker.event \in Event /\ worker.p \in Plugins /\ worker.event # None /\ Copy # None
  BY BusyType DEF Busy, WorkerOK
<1>2. PICK e \in Event, resuming \in BOOLEAN :
        worker' = [worker EXCEPT !.pc = "admit", !.resuming = resuming, !.event = e]
  <2>1. worker.resuming \in BOOLEAN
    BY DEF WorkerOK, Worker
  <2>2. CASE Goto("admit")
    <3>1. worker' = [worker EXCEPT !.pc = "admit", !.resuming = worker.resuming,
                                   !.event = worker.event]
      BY <2>2, WorkerFields DEF Goto
    <3>. QED
      BY <1>1, <2>1, <3>1
  <2>3. CASE worker' = [worker EXCEPT !.pc = "admit", !.event.waiting = FALSE]
    <3>1. [worker.event EXCEPT !.waiting = FALSE] \in Event
      BY <1>1 DEF Event
    <3>2. worker' = [worker EXCEPT !.pc = "admit", !.resuming = worker.resuming,
                                   !.event = [worker.event EXCEPT !.waiting = FALSE]]
      BY <2>3, WorkerFields
    <3>. QED
      BY <2>1, <3>1, <3>2
  <2>4. CASE worker' = [worker EXCEPT !.pc = "admit", !.resuming = TRUE,
                                      !.event.verdict = None, !.event.waiting = FALSE]
    <3>1. [worker.event EXCEPT !.verdict = None, !.waiting = FALSE] \in Event
      BY <1>1 DEF Event
    <3>2. worker' = [worker EXCEPT !.pc = "admit", !.resuming = TRUE, !.event =
                       [worker.event EXCEPT !.verdict = None, !.waiting = FALSE]]
      BY <2>4, WorkerFields
    <3>. QED
      BY <3>1, <3>2
  <2>. QED
    BY <2>2, <2>3, <2>4
<1>3. /\ worker' \in Worker
      /\ worker'.seen = worker.seen /\ worker'.todo = worker.todo
      /\ worker'.attempted = worker.attempted
      /\ worker'.p = worker.p /\ worker'.event = e /\ worker'.pc = "admit"
  BY <1>2, WorkerFields DEF WorkerOK, Worker
<1>. QED
  BY <1>1, <1>2, <1>3, NoneAssumption DEF WorkerOK, Turn, Busy, Copy

LEMMA ReturnTyped ==
  ASSUME WorkerOK, Turn, Busy, worker.pc # "apply", UNCHANGED host, Return
  PROVE  WorkerOK' /\ Turn'
<1>1. PICK progressed \in BOOLEAN :
        worker' = [worker EXCEPT !.pc = "round", !.todo = @ \ {worker.p}, !.p = None,
                                 !.event = None, !.resuming = FALSE, !.progressed = progressed]
  BY WorkerFields DEF Return, WorkerOK, Worker
<1>2. /\ worker' \in Worker
      /\ worker'.seen = worker.seen /\ worker'.todo \subseteq worker.todo /\ worker'.pc = "round"
  BY <1>1, WorkerFields DEF WorkerOK, Worker
<1>. QED
  BY <1>2 DEF WorkerOK, Turn, Busy

LEMMA SameWorker == ASSUME WorkerOK, Turn, UNCHANGED <<worker, host>> PROVE WorkerOK' /\ Turn'
BY DEF WorkerOK, Turn, Busy, Copy, Run, Edge

LEMMA SameStores == ASSUME Stores, UNCHANGED <<db, disk>> PROVE Stores'
BY DEF Stores

LEMMA PutTyped == ASSUME Stores, NEW d, StoreOK(d), Put(d) \/ Save(d) PROVE Stores'
BY DEF Stores, Put, Save

LEMMA OpSame == ASSUME GuardOK, OpOK, UNCHANGED <<guard, op, boundVars>> PROVE GuardOK' /\ OpOK'
BY DEF GuardOK, OpOK, boundVars

LEMMA LeastNumber ==
  ASSUME NEW T, T \subseteq Nat, T # {}
  PROVE  \E n \in T : \A m \in T : n <= m
<1>1. PICK R : R = OpToRel(<, Nat)
  OBVIOUS
<1>2. PICK n \in T : \A m \in T : <<m, n>> \notin R
  BY <1>1, NatLessThanWellFounded, WFMin
<1>3. ASSUME NEW m \in Nat, NEW l \in Nat, m < l PROVE <<m, l>> \in R
  <2>1. <<m, l>> \in Nat \X Nat /\ <<m, l>>[1] < <<m, l>>[2]
    BY <1>3
  <2>. QED
    BY <1>1, <2>1, Zenon DEF OpToRel
<1>4. ASSUME NEW m \in T PROVE n <= m
  <2>1. m \in Nat /\ n \in Nat /\ ~ (m < n)
    BY <1>2, <1>3
  <2>. QED
    BY <2>1
<1>. QED
  BY <1>4

LEMMA NextEventType ==
  ASSUME Stores, NEW p \in Plugins, NEW t, NextEvent(p, t) # None
  PROVE  NextEvent(p, t) \in Event
<1>1. db.head[p] \in Event \cup {None}
  BY StoreFields DEF Stores
<1>2. CASE db.head[p] # None
  BY <1>1, <1>2 DEF NextEvent
<1>3. CASE db.head[p] = None /\ Wanted(p, t) # {}
  <2>1. \E n \in Wanted(p, t) : \A m \in Wanted(p, t) : n <= m
    <3>1. Wanted(p, t) \subseteq Nat
      BY BoundsAssumption DEF Wanted, Seqs
    <3>. QED
      BY <1>3, <3>1, LeastNumber
  <2>2. (CHOOSE n \in Wanted(p, t) : \A m \in Wanted(p, t) : n <= m) \in Seqs
    BY <2>1 DEF Wanted
  <2>. QED
    BY <1>3, <2>2 DEF NextEvent, Event
<1>. QED
  BY <1>1, <1>2, <1>3 DEF NextEvent

-----------------------------------------------------------------------------
(* Each step keeps the delivery's own types. *)

LEMMA CommitOwn == ASSUME Own, NEW s \in Subjects, Commit(s) PROVE Own'
<1>1. Stores'
  BY ChangedTyped DEF Commit, Own
<1>. QED
  BY <1>1, SameWorker, OpSame DEF Commit, Own, workerVars, runVars, boundVars

LEMMA FlushOwn == ASSUME Own, Flush PROVE Own'
<1>1. Stores'
  BY DEF Flush, Save, Stores, Own
<1>. QED
  BY <1>1, SameWorker, OpSame DEF Flush, Own, workerVars, runVars, boundVars

LEMMA CrashOwn == ASSUME Own, Crash PROVE Own'
<1>1. Stores'
  <2>1. /\ disk.trigger \in [Plugins -> Trigger \cup {None}]
        /\ disk.head \in [Plugins -> Event \cup {None}]
    BY StoreFields DEF Stores, Own
  <2>2. \A p \in Plugins : Restarted(p) \in Trigger \cup {None}
    BY <2>1 DEF Restarted, Trigger
  <2>3. PICK t : t = [p \in Plugins |-> Restarted(p)]
    OBVIOUS
  <2>4. t \in [Plugins -> Trigger \cup {None}]
    BY <2>2, <2>3
  <2>5. db' = [disk EXCEPT !.trigger = t] /\ disk' = disk
    BY <2>3 DEF Crash
  <2>6. StoreOK(db')
    BY <2>4, <2>5 DEF Stores, StoreOK, Store, Own
  <2>. QED
    BY <2>5, <2>6 DEF Stores, Own
<1>2. /\ worker' = Idle /\ guard' = NoMemory /\ host'.step = "idle"
      /\ setting' = None /\ deleting' = None
  BY DEF Crash, Recorded!Crash, Recorded!NoHost
<1>3. WorkerOK' /\ Turn'
  BY <1>2, BoundsAssumption DEF WorkerOK, Worker, Turn, Busy, Idle
<1>4. GuardOK'
  BY <1>2, BoundsAssumption DEF GuardOK, NoMemory
<1>5. OpOK'
  BY <1>2, BoundsAssumption DEF OpOK, Crash, Own
<1>. QED
  BY <1>1, <1>3, <1>4, <1>5 DEF Own

LEMMA ActsTyped == ASSUME OpOK, Acts PROVE acts' \in 0 .. MaxActs /\ crashes' \in 0 .. MaxCrashes
BY BoundsAssumption DEF OpOK, Acts

LEMMA ReadTriggerOwn == ASSUME Own, NEW p \in Plugins, ReadTrigger(p) PROVE Own'
<1>1. Stores' /\ WorkerOK' /\ Turn' /\ GuardOK'
  BY SameStores, SameWorker DEF ReadTrigger, Own, storeVars, workerVars, runVars, GuardOK
<1>2. db.trigger[p] \in Trigger \cup {None}
  BY StoreFields DEF Own, Stores
<1>3. PICK settings \in Settings, pending \in Verdicts \cup {None} :
        setting' = [p |-> p, stored |-> FALSE, trigger |-> [settings EXCEPT !.pending = pending]]
  BY <1>2 DEF ReadTrigger, Trigger
<1>4. [settings EXCEPT !.pending = pending] \in Trigger
  BY DEF Settings, Trigger
<1>5. setting' \in [p : Plugins, stored : BOOLEAN, trigger : Trigger]
  BY <1>3, <1>4
<1>. QED
  BY <1>1, <1>5, ActsTyped DEF ReadTrigger, Own, OpOK

LEMMA StoreTriggerOwn == ASSUME Own, StoreTrigger PROVE Own'
<1>1. setting \in [p : Plugins, stored : BOOLEAN, trigger : Trigger]
  BY DEF Own, OpOK, StoreTrigger
<1>2. StoreOK([db EXCEPT !.trigger[setting.p] = setting.trigger])
  BY <1>1, PutTrigger DEF Own, Stores
<1>3. Stores'
  BY <1>2 DEF StoreTrigger, Put, Stores, Own
<1>4. OpOK'
  BY <1>1 DEF StoreTrigger, OpOK, Own, boundVars
<1>. QED
  BY <1>3, <1>4, SameWorker DEF StoreTrigger, Own, workerVars, runVars, GuardOK

LEMMA StartCursorOwn == ASSUME Own, StartCursor PROVE Own'
<1>1. PICK p \in Plugins : p = setting.p
  BY DEF Own, OpOK, StartCursor
<1>2. PICK n \in 0 .. MaxEvents : n = Len(db.log)
  BY StoreFields DEF Own, Stores
<1>3. Ack(db, p, n)
  BY <1>1, <1>2 DEF StartCursor, Ack, Put, Save
<1>4. Stores'
  BY <1>3, AckTyped DEF Own, Stores
<1>5. OpOK'
  BY DEF StartCursor, OpOK, Own, boundVars
<1>. QED
  BY <1>4, <1>5, SameWorker DEF StartCursor, Own, workerVars, runVars, GuardOK

LEMMA DeleteTriggerOwn == ASSUME Own, NEW p \in Plugins, DeleteTrigger(p) PROVE Own'
<1>1. StoreOK([db EXCEPT !.trigger[p] = None])
  BY PutTrigger DEF Own, Stores
<1>2. Stores'
  BY <1>1 DEF DeleteTrigger, Put, Own, Stores
<1>3. OpOK'
  BY ActsTyped DEF DeleteTrigger, OpOK, Own
<1>. QED
  BY <1>2, <1>3, SameWorker DEF DeleteTrigger, Own, workerVars, runVars, GuardOK

LEMMA ForgetHeadOwn == ASSUME Own, ForgetHead PROVE Own'
<1>1. PICK p \in Plugins : p = deleting.p
  BY DEF Own, OpOK, ForgetHead
<1>2. StoreOK([db EXCEPT !.head[p] = None])
  BY PutHead DEF Own, Stores
<1>3. Stores'
  BY <1>1, <1>2 DEF ForgetHead, Put, Own, Stores
<1>4. deleting' \in [p : Plugins, next : {"head", "cursor"}]
  BY DEF ForgetHead, Own, OpOK
<1>5. OpOK'
  BY <1>4 DEF ForgetHead, OpOK, Own, boundVars
<1>. QED
  BY <1>3, <1>5, SameWorker DEF ForgetHead, Own, workerVars, runVars, GuardOK

LEMMA ForgetCursorOwn == ASSUME Own, ForgetCursor PROVE Own'
<1>1. PICK p \in Plugins : p = deleting.p
  BY DEF Own, OpOK, ForgetCursor
<1>2. StoreOK([db EXCEPT !.cursor[p] = 0])
  BY PutCursor, BoundsAssumption DEF Own, Stores
<1>3. Stores'
  BY <1>1, <1>2 DEF ForgetCursor, Put, Own, Stores
<1>4. OpOK'
  BY DEF ForgetCursor, OpOK, Own, boundVars
<1>. QED
  BY <1>3, <1>4, SameWorker DEF ForgetCursor, Own, workerVars, runVars, GuardOK

LEMMA AbandonRunOwn == ASSUME Own, NEW r \in Runs, AbandonRun(r) PROVE Own'
<1>1. UNCHANGED <<worker, host, guard, op>>
  BY DEF AbandonRun, Recorded!Abandon, workerVars
<1>2. Stores'
  BY DEF AbandonRun, Stores, Own
<1>3. OpOK'
  BY ActsTyped, <1>1 DEF AbandonRun, OpOK, Own
<1>. QED
  BY <1>1, <1>2, <1>3, SameWorker DEF Own, GuardOK

-----------------------------------------------------------------------------
\* Idle and Listed, as a round begins or a drain ends.
LEMMA ListedTyped ==
  ASSUME Own, worker.pc \in {"idle", "round"}, worker' \in {Idle, Listed}, UNCHANGED host
  PROVE  WorkerOK' /\ Turn'
<1>1. /\ db.trigger \in [Plugins -> Trigger \cup {None}] /\ worker.attempted \in 0 .. MaxAttempts
      /\ host.step = "idle"
  BY StoreFields, WorkerFields DEF Own, Stores, Turn
<1>2. CASE worker' = Idle
  BY <1>1, <1>2, BoundsAssumption DEF WorkerOK, Worker, Turn, Busy, Idle
<1>3. CASE worker' = Listed
  BY <1>1, <1>3, BoundsAssumption DEF WorkerOK, Worker, Turn, Busy, Idle, Listed
<1>. QED
  BY <1>2, <1>3

LEMMA RoundOwn == ASSUME Own, StartDrain \/ EndRound \/ CapReached PROVE Own'
<1>1. /\ worker.pc \in {"idle", "round"} /\ worker' \in {Idle, Listed}
      /\ UNCHANGED <<storeVars, guard, runVars, boundVars, op>>
  BY DEF StartDrain, EndRound, CapReached, At
<1>. QED
  BY <1>1, ListedTyped, SameStores, OpSame DEF Own, storeVars, runVars

\* The list shrinks.
LEMMA SkipTyped ==
  ASSUME Own, NEW p, worker' = [worker EXCEPT !.todo = @ \ {p}], worker.pc = "round",
         UNCHANGED host
  PROVE  WorkerOK' /\ Turn'
<1>1. /\ worker' \in Worker /\ worker'.pc = "round"
      /\ worker'.seen = worker.seen /\ worker'.todo \subseteq worker.todo
  BY WorkerFields DEF Own, WorkerOK, Worker
<1>. QED
  BY <1>1 DEF Own, WorkerOK, Turn, Busy

LEMMA PassOverOwn == ASSUME Own, NEW p \in Plugins, PassOver(p) PROVE Own'
<1>1. PICK n \in 0 .. MaxEvents : n = Len(db.log)
  BY StoreFields DEF Own, Stores
<1>2. Ack(db, p, n)
  BY <1>1 DEF PassOver, Ack, Put, Save
<1>3. Stores'
  BY <1>2, AckTyped DEF Own, Stores
<1>. QED
  BY <1>3, SkipTyped, OpSame DEF Own, PassOver, InTurn, At, runVars

LEMMA NotLeasedOwn == ASSUME Own, NEW p \in Plugins, NotLeased(p) PROVE Own'
BY SkipTyped, SameStores, OpSame DEF Own, NotLeased, InTurn, At, runVars, storeVars

LEMMA PickOwn == ASSUME Own, NEW p \in Plugins, Pick(p) PROVE Own'
<1>1. /\ worker.pc = "round" /\ worker.attempted < MaxAttempts
      /\ p \in worker.todo /\ worker.seen[p] # None
  BY DEF Pick, InTurn, At, Own, Turn
<1>2. PICK event \in Event : event = NextFor(p)
  BY NextEventType DEF Own, Pick, NextFor
<1>3. worker' = [worker EXCEPT !.pc = "deliver", !.p = p, !.event = event]
  BY <1>2 DEF Pick
<1>4. /\ worker' \in Worker /\ worker'.pc = "deliver" /\ worker'.p = p /\ worker'.event = event
      /\ worker'.seen = worker.seen /\ worker'.todo = worker.todo
      /\ worker'.attempted = worker.attempted
  BY <1>3, WorkerFields DEF Own, WorkerOK, Worker
<1>5. WorkerOK' /\ Turn'
  BY <1>1, <1>4, NoneAssumption DEF Own, WorkerOK, Turn, Busy, Copy, Pick, runVars
<1>. QED
  BY <1>5, SameStores, OpSame DEF Own, Pick, storeVars

-----------------------------------------------------------------------------
(* deliver *)

\* The trigger as the round listed it, with another proposal or error.
LEMMA SetCopyTyped ==
  ASSUME Own, Busy, NEW pending \in Verdicts \cup {None}, NEW error \in BOOLEAN,
         SetTrigger(worker.p, [Copy EXCEPT !.pending = pending, !.error = error])
  PROVE  Stores'
<1>1. PICK p \in Plugins : p = worker.p
  BY BusyType DEF Own
<1>2. PICK t \in Trigger : t = [Copy EXCEPT !.pending = pending, !.error = error]
  BY BusyType DEF Own, Trigger
<1>3. SetTrigger(p, t)
  BY <1>1, <1>2 DEF SetTrigger, Ack, Put, Save
<1>. QED
  BY <1>3, SetTyped DEF Own

LEMMA DeliverEndedOwn == ASSUME Own, DeliverEnded PROVE Own'
<1>1. worker.pc = "deliver" /\ Busy
  BY DEF DeliverEnded, At, Busy
<1>2. Stores'
  <2>1. CASE SetTrigger(worker.p, [Copy EXCEPT !.pending = None, !.error = FALSE])
    BY <1>1, <2>1, SetCopyTyped
  <2>2. CASE UNCHANGED storeVars
    BY <2>2, SameStores DEF storeVars, Own
  <2>. QED
    BY <2>1, <2>2 DEF DeliverEnded
<1>3. WorkerOK' /\ Turn'
  BY <1>1, GotoTyped DEF DeliverEnded, Stages, Own, runVars
<1>. QED
  BY <1>2, <1>3, OpSame DEF Own, DeliverEnded

LEMMA DeliverStepOwn == ASSUME Own, DeliverWaits \/ DeliverProposal \/ DeliverEdge PROVE Own'
<1>1. /\ worker.pc = "deliver" /\ Busy /\ UNCHANGED <<storeVars, guard, runVars, boundVars, op>>
  BY DEF DeliverWaits, DeliverProposal, DeliverEdge, Deliverable, At, Busy
<1>2. WorkerOK' /\ Turn'
  <2>1. CASE Return
    BY <1>1, <2>1, ReturnTyped DEF Own, runVars
  <2>2. CASE Goto("fail") \/ Goto("forget")
    BY <1>1, <2>2, GotoTyped DEF Own, runVars, Stages
  <2>3. CASE \/ Goto("admit")
             \/ worker' = [worker EXCEPT !.pc = "admit", !.event.waiting = FALSE]
             \/ worker' = [worker EXCEPT !.pc = "admit", !.resuming = TRUE,
                                         !.event.verdict = None, !.event.waiting = FALSE]
    BY <1>1, <2>3, AdmitTyped DEF Own, runVars
  <2>. QED
    BY <2>1, <2>2, <2>3 DEF DeliverWaits, DeliverProposal, DeliverEdge
<1>. QED
  BY <1>1, <1>2, SameStores, OpSame DEF Own, storeVars

\* An attempt is counted as the script is about to run.
LEMMA AttemptTyped ==
  ASSUME Own, worker.pc = "admit", UNCHANGED host,
         worker' = [worker EXCEPT !.pc = "run", !.attempted = @ + 1]
  PROVE  WorkerOK' /\ Turn'
<1>1. worker.attempted + 1 \in 0 .. MaxAttempts
  BY WorkerFields, BoundsAssumption DEF Own, Turn
<1>2. PICK attempted \in 0 .. MaxAttempts : attempted = worker.attempted + 1
  BY <1>1
<1>3. worker' = [worker EXCEPT !.pc = "run", !.attempted = attempted]
  BY <1>2
<1>4. /\ worker' \in Worker /\ worker'.pc = "run" /\ worker'.p = worker.p
      /\ worker'.event = worker.event /\ worker'.seen = worker.seen /\ worker'.todo = worker.todo
  BY <1>3, WorkerFields DEF Own, WorkerOK, Worker
<1>. QED
  BY <1>4 DEF Own, WorkerOK, Turn, Busy, Copy

LEMMA AdmitStoppedOwn == ASSUME Own, AdmitStopped PROVE Own'
<1>1. worker.pc = "admit" /\ Busy
  BY DEF AdmitStopped, At, Busy
<1>. QED
  BY <1>1, ReturnTyped, SameStores, OpSame DEF Own, AdmitStopped, runVars, storeVars

LEMMA AdmitStartedOwn == ASSUME Own, AdmitStarted PROVE Own'
BY AttemptTyped, SameStores, OpSame DEF Own, AdmitStarted, At, runVars, storeVars

LEMMA AdmitEchoOwn == ASSUME Own, AdmitEcho PROVE Own'
<1>1. worker.pc = "admit" /\ Busy
  BY DEF AdmitEcho, Admits, At, Busy
<1>2. GuardOK'
  BY DEF Own, GuardOK, AdmitEcho
<1>3. OpOK'
  BY DEF Own, OpOK, AdmitEcho, boundVars
<1>. QED
  BY <1>1, <1>2, <1>3, GotoTyped, SameStores DEF Own, AdmitEcho, runVars, storeVars, Stages

LEMMA AdmitOwn == ASSUME Own, Admit PROVE Own'
<1>1. worker.pc = "admit" /\ Busy /\ worker.p \in Plugins
  BY BusyType DEF Admit, Admits, At, Busy, Own
<1>2. PICK recent \in 0 .. guard.fires[worker.p] :
        \/ /\ recent >= RateLimit
           /\ guard' = [guard EXCEPT !.fires[worker.p] = recent]
           /\ Goto("fail")
        \/ /\ recent < RateLimit
           /\ guard' = [guard EXCEPT !.fires[worker.p] = recent + 1]
           /\ worker' = [worker EXCEPT !.pc = "run", !.attempted = @ + 1]
  BY DEF Admit
<1>3. guard.fires[worker.p] \in 0 .. RateLimit
  BY <1>1 DEF Own, GuardOK
<1>4. GuardOK'
  <2>1. PICK fires \in 0 .. RateLimit : guard' = [guard EXCEPT !.fires[worker.p] = fires]
    <3>1. recent \in 0 .. RateLimit /\ (recent < RateLimit => recent + 1 \in 0 .. RateLimit)
      BY <1>3, BoundsAssumption
    <3>. QED
      BY <1>2, <3>1
  <2>. QED
    BY <1>1, <2>1 DEF Own, GuardOK
<1>5. WorkerOK' /\ Turn'
  BY <1>1, <1>2, GotoTyped, AttemptTyped DEF Own, Admit, runVars, Stages
<1>6. OpOK'
  BY DEF Own, OpOK, Admit, boundVars
<1>. QED
  BY <1>4, <1>5, <1>6, SameStores DEF Own, Admit, storeVars

-----------------------------------------------------------------------------
(* run *)

LEMMA UsesActionTyped == ASSUME Own, Busy, UsesAction PROVE Stores'
BY BusyType, PutConsumer, PutTyped DEF Own, Stores, UsesAction

LEMMA RunFailsOwn == ASSUME Own, RunFails PROVE Own'
<1>1. worker.pc = "run" /\ Busy
  BY DEF RunFails, At, Busy
<1>2. Stores'
  BY <1>1, UsesActionTyped, SameStores DEF Own, RunFails, storeVars
<1>. QED
  BY <1>1, <1>2, GotoTyped, OpSame DEF Own, RunFails, runVars, Stages

LEMMA RunScriptOwn == ASSUME Own, RunScript PROVE Own'
<1>1. /\ worker.pc = "run" /\ Busy
      /\ worker.p \in Plugins /\ worker.event \in Event /\ Copy \in Trigger /\ Copy # None
  BY BusyType DEF RunScript, At, Busy, Own, WorkerOK
<1>2. Stores'
  BY <1>1, UsesActionTyped, SameStores DEF Own, RunScript, storeVars
<1>3. PICK verdict \in Verdicts \cup {None} :
        worker' = [worker EXCEPT !.pc = "save", !.event.verdict = verdict,
                                 !.event.agent = Copy.agent,
                                 !.event.waiting = verdict \in Waiting \/ ~Copy.auto]
  BY <1>1 DEF RunScript, Event
<1>4. PICK event \in Event :
        event = [worker.event EXCEPT !.verdict = verdict, !.agent = Copy.agent,
                                     !.waiting = verdict \in Waiting \/ ~Copy.auto]
  BY <1>1 DEF Event, Trigger
<1>5. worker' = [worker EXCEPT !.pc = "save", !.event = event]
  BY <1>3, <1>4, WorkerFields DEF Own
<1>6. /\ worker' \in Worker /\ worker'.pc = "save" /\ worker'.p = worker.p
      /\ worker'.event = event /\ worker'.seen = worker.seen /\ worker'.todo = worker.todo
  BY <1>5, WorkerFields DEF Own, WorkerOK, Worker
<1>7. WorkerOK' /\ Turn'
  BY <1>1, <1>6, NoneAssumption DEF Own, WorkerOK, Turn, Busy, Copy, RunScript, runVars
<1>. QED
  BY <1>2, <1>7, OpSame DEF Own, RunScript

LEMMA SaveEventOwn == ASSUME Own, SaveEvent PROVE Own'
<1>1. worker.pc = "save" /\ Busy
  BY DEF SaveEvent, At, Busy
<1>2. Stores'
  BY <1>1, BusyType, PutHead, PutTyped DEF Own, Stores, SaveEvent
<1>. QED
  BY <1>1, <1>2, GotoTyped, OpSame DEF Own, SaveEvent, runVars, Stages

LEMMA ProposeOwn == ASSUME Own, Propose PROVE Own'
<1>1. worker.pc = "propose" /\ Busy /\ worker.event \in Event /\ Copy \in Trigger
  BY BusyType DEF Propose, At, Busy, Own
<1>2. Stores'
  <2>1. [Copy EXCEPT !.pending = worker.event.verdict]
          = [Copy EXCEPT !.pending = worker.event.verdict, !.error = Copy.error]
    BY <1>1 DEF Trigger
  <2>2. worker.event.verdict \in Verdicts \cup {None} /\ Copy.error \in BOOLEAN
    BY <1>1 DEF Event, Trigger
  <2>. QED
    BY <1>1, <2>1, <2>2, SetCopyTyped DEF Propose
<1>3. WorkerOK' /\ Turn'
  BY <1>1, GotoTyped, ReturnTyped DEF Own, Propose, runVars, Stages
<1>. QED
  BY <1>2, <1>3, OpSame DEF Own, Propose

LEMMA CallHostOwn == ASSUME Own, CallHost PROVE Own'
<1>1. /\ worker.pc = "grant" /\ Busy /\ worker' = [worker EXCEPT !.pc = "apply"]
      /\ host' = [step |-> "plan", run |-> Run, k |-> 1, failed |-> FALSE]
  BY DEF CallHost, At, Goto, Busy, Recorded!Call, Recorded!NoHost
<1>2. /\ worker' \in Worker /\ worker'.pc = "apply"
      /\ worker'.seen = worker.seen /\ worker'.todo = worker.todo
      /\ worker'.p = worker.p /\ worker'.event = worker.event
  BY <1>1, WorkerFields DEF Own, WorkerOK, Worker
<1>3. WorkerOK' /\ Turn'
  BY <1>1, <1>2 DEF Own, WorkerOK, Turn, Busy, Copy, Run, Edge
<1>. QED
  BY <1>3, SameStores, OpSame DEF Own, CallHost

-----------------------------------------------------------------------------
(* The call to apply_recorded *)

LEMMA HostKeeps ==
  ASSUME P!IInv, Recorded!Step
  PROVE  host.step # "idle" /\ host'.run = host.run
<1>1. host \in [step : Recorded!Steps, run : Runs \cup {None}, k : Nat, failed : BOOLEAN]
  BY SameType DEF P!IInv, Recorded!TypeOK
<1>. QED
  BY <1>1 DEF Recorded!Step, Recorded!PlanFails, Recorded!KeepPlan, Recorded!ChoosePlan,
    Recorded!Replay, Recorded!RefuseUncertain, Recorded!Begin, Recorded!Apply,
    Recorded!ApplyFails, Recorded!Complete, Recorded!Report, Recorded!RecordFails,
    Recorded!RecordRun, Recorded!Finish, Recorded!At, Recorded!Goto, Recorded!Begins

LEMMA HostTurn ==
  ASSUME Own, P!IInv, Recorded!Step, UNCHANGED worker
  PROVE  WorkerOK' /\ Turn' /\ worker.pc = "apply" /\ Busy
BY HostKeeps DEF Own, WorkerOK, Turn, Busy, Copy, Run, Edge

LEMMA PlanAtEffect ==
  ASSUME P!IInv, host.step \in {"effect", "apply"}
  PROVE  /\ Recorded!Plan \in Plans
         /\ \A k \in DOMAIN Recorded!Plan : Recorded!Plan[k] \in Subjects
         /\ host.step = "apply" => host.k \in DOMAIN Recorded!Plan
BY ValuesAssumption DEF P!IInv, P!HostOK, P!Plan, Recorded!Plan

LEMMA HostRecordsOwn == ASSUME Own, P!IInv, HostRecords PROVE Own'
<1>1. Recorded!Step /\ UNCHANGED worker
  BY DEF HostRecords, Recorded!Step, workerVars
<1>2. Stores'
  BY DEF HostRecords, Own, Stores
<1>. QED
  BY <1>1, <1>2, HostTurn, OpSame DEF Own, HostRecords, workerVars

LEMMA HostWritesOwn == ASSUME Own, P!IInv, HostWrites PROVE Own'
<1>1. Recorded!Step /\ UNCHANGED worker /\ host.step = "apply"
  BY DEF HostWrites, Recorded!Step, workerVars, Recorded!Apply, Recorded!At
<1>2. worker.p \in Plugins
  BY <1>1, HostTurn, BusyType DEF Own
<1>3. PICK s \in Subjects : s = Recorded!Plan[host.k]
  BY <1>1, PlanAtEffect
<1>4. PICK p \in Plugins : p = worker.p
  BY <1>2
<1>5. db' \in Changed(s, p) /\ UNCHANGED disk
  BY <1>3, <1>4 DEF HostWrites, Changed
<1>6. Stores'
  BY <1>5, ChangedTyped DEF Own
<1>. QED
  BY <1>1, <1>6, HostTurn, OpSame DEF Own, HostWrites, workerVars

LEMMA HostReportsOwn == ASSUME Own, P!IInv, HostReports PROVE Own'
<1>1. Recorded!Step /\ UNCHANGED worker /\ host.step \in {"effect", "apply"}
  BY DEF HostReports, Recorded!Step, Recorded!Report, Recorded!ApplyFails, Recorded!At
<1>2. worker.p \in Plugins
  BY <1>1, HostTurn, BusyType DEF Own
<1>3. GuardOK'
  <2>1. {<<worker.p, Recorded!Plan[k]>> : k \in DOMAIN Recorded!Plan} \subseteq Plugins \X Subjects
    BY <1>1, <1>2, PlanAtEffect
  <2>. QED
    BY <2>1 DEF HostReports, Remembers, GuardOK, Own
<1>4. OpOK'
  BY DEF HostReports, OpOK, Own, boundVars
<1>. QED
  BY <1>1, <1>3, <1>4, HostTurn, SameStores DEF Own, HostReports

LEMMA HostLogsRunOwn == ASSUME Own, P!IInv, HostLogsRun PROVE Own'
<1>1. Recorded!Step /\ UNCHANGED worker
  BY DEF HostLogsRun, Recorded!Step, workerVars
<1>2. PICK p \in Plugins : p = worker.p
  BY <1>1, HostTurn, BusyType DEF Own
<1>3. db' \in Changed(RunRecord, p) /\ UNCHANGED disk
  BY <1>2 DEF HostLogsRun, Changed
<1>4. Stores'
  BY <1>3, ChangedTyped DEF Own
<1>. QED
  BY <1>1, <1>4, HostTurn, OpSame DEF Own, HostLogsRun, workerVars

LEMMA HostMovesOwn == ASSUME Own, P!IInv, HostMoves PROVE Own'
<1>1. Recorded!Step /\ UNCHANGED worker
  BY DEF HostMoves, Recorded!Step, workerVars
<1>. QED
  BY <1>1, HostTurn, SameStores, OpSame DEF Own, HostMoves, workerVars

LEMMA HostReturnsOwn == ASSUME Own, HostReturns PROVE Own'
<1>1. /\ worker.pc = "apply" /\ Busy /\ host'.step = "idle"
      /\ \E stage \in {"clean", "fail"} : worker' = [worker EXCEPT !.pc = stage]
  BY DEF HostReturns, At, Goto, Busy, Recorded!Return, Recorded!NoHost
<1>2. /\ worker' \in Worker /\ worker'.pc \in {"clean", "fail"}
      /\ worker'.seen = worker.seen /\ worker'.todo = worker.todo
      /\ worker'.p = worker.p /\ worker'.event = worker.event
  BY <1>1, WorkerFields DEF Own, WorkerOK, Worker
<1>3. WorkerOK' /\ Turn'
  BY <1>1, <1>2 DEF Own, WorkerOK, Turn, Busy, Copy
<1>. QED
  BY <1>3, SameStores, OpSame DEF Own, HostReturns

-----------------------------------------------------------------------------
(* The end of an edge *)

LEMMA CleanOwn == ASSUME Own, Clean PROVE Own'
<1>1. worker.pc = "clean" /\ Busy
  BY DEF Clean, At, Busy
<1>2. Stores'
  BY <1>1, SetCopyTyped DEF Clean
<1>. QED
  BY <1>1, <1>2, GotoTyped, OpSame DEF Own, Clean, runVars, Stages

LEMMA ForgetOwn == ASSUME Own, Forget PROVE Own'
<1>1. worker.pc = "forget" /\ Busy
  BY DEF Forget, At, Busy
<1>2. Stores'
  BY <1>1, BusyType, PutHead, PutTyped DEF Forget, Own, Stores
<1>. QED
  BY <1>1, <1>2, GotoTyped, OpSame DEF Own, Forget, runVars, Stages

LEMMA AdvanceOwn == ASSUME Own, Advance PROVE Own'
<1>1. worker.pc = "advance" /\ Busy
  BY DEF Advance, At, Busy
<1>2. Edge \in 0 .. MaxEvents /\ worker.p \in Plugins
  BY <1>1, BusyType, BoundsAssumption DEF Own, Seqs
<1>3. Stores'
  BY <1>2, PutCursor, PutTyped DEF Advance, Own, Stores
<1>. QED
  BY <1>1, <1>3, ReturnTyped, OpSame DEF Own, Advance, runVars

LEMMA FailOwn == ASSUME Own, Fail PROVE Own'
<1>1. worker.pc = "fail" /\ Busy
  BY DEF Fail, At, Busy
<1>2. PICK p \in Plugins : p = worker.p
  BY <1>1, BusyType DEF Own
<1>3. (IF db.trigger[p] = None THEN Copy ELSE db.trigger[p]) \in Trigger
  BY <1>1, BusyType, StoreFields DEF Own, Stores
<1>4. PICK t \in Trigger :
        t = [(IF db.trigger[p] = None THEN Copy ELSE db.trigger[p]) EXCEPT !.error = TRUE]
  BY <1>3 DEF Trigger
<1>5. SetTrigger(p, t)
  BY <1>2, <1>4 DEF Fail, SetTrigger, Ack, Put, Save
<1>6. Stores'
  BY <1>5, SetTyped DEF Own
<1>. QED
  BY <1>1, <1>6, ReturnTyped, OpSame DEF Own, Fail, runVars

-----------------------------------------------------------------------------
LEMMA InitOwn == Init => Own
<1>. SUFFICES ASSUME Init PROVE Own
  OBVIOUS
<1>1. Stores
  <2>1. PICK trigger \in [Plugins -> Settings \cup {None}] :
          db = [log |-> <<>>, trigger |-> trigger, head |-> [p \in Plugins |-> None],
                cursor |-> [p \in Plugins |-> 0], consumers |-> {}]
    BY DEF Init
  <2>2. trigger \in [Plugins -> Trigger \cup {None}]
    BY DEF Settings
  <2>3. <<>> \in Seq(Row) /\ Len(<<>>) = 0
    OBVIOUS
  <2>. QED
    BY <2>1, <2>2, <2>3, BoundsAssumption DEF Init, Stores, StoreOK, Store
<1>2. WorkerOK /\ Turn
  BY BoundsAssumption DEF Init, WorkerOK, Worker, Turn, Busy, Idle, Recorded!Init, Recorded!NoHost
<1>3. GuardOK
  BY BoundsAssumption DEF Init, GuardOK, NoMemory
<1>4. OpOK
  BY BoundsAssumption DEF Init, OpOK
<1>. QED
  BY <1>1, <1>2, <1>3, <1>4 DEF Own

LEMMA NextOwn == ASSUME Own, P!IInv, Next PROVE Own'
<1>1. CASE Operator
  BY <1>1, ReadTriggerOwn, DeleteTriggerOwn, StoreTriggerOwn, StartCursorOwn, ForgetHeadOwn,
     ForgetCursorOwn, AbandonRunOwn
     DEF Operator
<1>2. CASE Deliver
  BY <1>2, DeliverEndedOwn, DeliverStepOwn, AdmitStoppedOwn, AdmitStartedOwn, AdmitEchoOwn,
     AdmitOwn DEF Deliver
<1>3. CASE RunEdge
  BY <1>3, RunFailsOwn, RunScriptOwn, SaveEventOwn, ProposeOwn, CallHostOwn DEF RunEdge
<1>4. CASE Host
  BY <1>4, HostRecordsOwn, HostWritesOwn, HostReportsOwn, HostLogsRunOwn, HostMovesOwn,
     HostReturnsOwn DEF Host
<1>5. CASE Settle
  BY <1>5, CleanOwn, ForgetOwn, AdvanceOwn, FailOwn DEF Settle
<1>6. CASE StartDrain \/ EndRound \/ CapReached \/ \E p \in Plugins : PassOver(p)
  BY <1>6, RoundOwn, PassOverOwn
<1>7. CASE Flush \/ Crash \/ \E s \in Subjects : Commit(s)
  BY <1>7, FlushOwn, CrashOwn, CommitOwn
<1>8. CASE \E p \in Plugins : Pick(p) \/ NotLeased(p)
  BY <1>8, PickOwn, NotLeasedOwn
<1>. QED
  BY <1>1, <1>2, <1>3, <1>4, <1>5, <1>6, <1>7, <1>8 DEF Next, Drain

LEMMA StutterOwn == ASSUME Own, UNCHANGED vars PROVE Own'
BY SameWorker, SameStores, OpSame DEF Own, vars, workerVars, runVars, storeVars, boundVars

-----------------------------------------------------------------------------
\* Every step is one of the run's, or leaves the run alone.
LEMMA NextServes == ASSUME Own, [Next]_vars PROVE [P!Next]_(P!vars)
<1>1. CASE Next
  <2>1. AtEdge
    BY BusyType DEF AtEdge, Busy, Own
  <2>2. Serves
    BY <1>1, <2>1, NextCalls, CallsServe
  <2>. QED
    BY <2>2, SameNext DEF Serves, Recorded!vars, P!vars
<1>2. CASE UNCHANGED vars
  BY <1>2 DEF vars, runVars, storeVars, P!vars
<1>. QED
  BY <1>1, <1>2

LEMMA InitInv == Init => IInv
<1>1. Init => P!Init
  BY SameInit DEF Init
<1>2. P!Init => P!IInv
  BY P!InitInv, PlansAssumption
<1>. QED
  BY <1>1, <1>2, InitOwn DEF IInv

LEMMA NextInv == IInv /\ [Next]_vars => IInv'
<1>. SUFFICES ASSUME IInv, [Next]_vars PROVE IInv'
  OBVIOUS
<1>1. Own'
  BY NextOwn, StutterOwn DEF IInv
<1>2. [P!Next]_(P!vars)
  BY NextServes DEF IInv
<1>3. P!IInv /\ [P!Next]_(P!vars) => P!IInv'
  BY P!NextInv, PlansAssumption
<1>. QED
  BY <1>1, <1>2, <1>3 DEF IInv

\* The inductive invariant holds throughout.
THEOREM Invariance == Spec => []IInv
BY InitInv, NextInv, PTL DEF Spec

\* The delivery is type-correct for every choice of the constants.
THEOREM TypeCorrect == Spec => []TypeOK
<1>1. IInv => TypeOK
  <2>1. P!IInv => Recorded!TypeOK
    BY SameType DEF P!IInv
  <2>. QED
    BY <2>1 DEF IInv, Own, Stores, StoreOK, WorkerOK, Busy, GuardOK, OpOK, TypeOK
<1>. QED
  BY <1>1, Invariance, PTL

\* The delivery of triggers uses recorded runs as RecordedRun specifies them.
THEOREM ServesRuns == Spec => P!Spec
<1>1. Init => P!Init
  BY SameInit DEF Init
<1>2. IInv /\ [Next]_vars => [P!Next]_(P!vars)
  BY NextServes DEF IInv
<1>. QED
  BY <1>1, <1>2, Invariance, PTL DEF Spec, P!Spec

\* No write of a run is made twice, however its trigger is edited, delivered again or crashes.
THEOREM AtMostOnce == Spec => []WritesAtMostOnce
<1>1. P!Spec => []P!WritesAtMostOnce
  BY P!AtMostOnce, PlansAssumption
<1>2. WritesAtMostOnce <=> P!WritesAtMostOnce
  BY DEF WritesAtMostOnce, Recorded!WritesAtMostOnce, P!WritesAtMostOnce
<1>. QED
  BY <1>1, <1>2, ServesRuns, PTL

\* A receipt never outlives the write it stands for.
THEOREM Durable == Spec => []ReceiptsAreDurable
<1>1. P!Spec => []P!ReceiptsAreDurable
  BY P!Durable, PlansAssumption
<1>2. ReceiptsAreDurable <=> P!ReceiptsAreDurable
  BY DEF ReceiptsAreDurable, Recorded!ReceiptsAreDurable, P!ReceiptsAreDurable
<1>. QED
  BY <1>1, <1>2, ServesRuns, PTL

\* Whatever happens around it, a run of a trigger keeps the promise of RunOnce.
THEOREM RunsOnce == Spec => ImplementsRunOnce
<1>1. P!Spec => P!ImplementsRunOnce
  BY P!RunsOnce, PlansAssumption
<1>2. Recorded!Promise!Spec <=> P!Promise!Spec
  BY DEF Recorded!Promise!Spec, P!Promise!Spec, Recorded!Promise!Init, P!Promise!Init,
     Recorded!Promise!Next, P!Promise!Next, Recorded!Promise!vars, P!Promise!vars,
     Recorded!Promise!Choose, P!Promise!Choose, Recorded!Promise!Write, P!Promise!Write,
     Recorded!Promise!Finish, P!Promise!Finish, Recorded!Promise!Abandon, P!Promise!Abandon
<1>. QED
  BY <1>1, <1>2, ServesRuns, PTL DEF ImplementsRunOnce, Recorded!ImplementsRunOnce,
     P!ImplementsRunOnce

-----------------------------------------------------------------------------
(* The log is never shorter than what is said of it *)

Within(d) ==
  \A p \in Plugins : /\ d.cursor[p] <= Len(d.log)
                     /\ d.head[p] # None => d.head[p].seq <= Len(d.log)

Chosen(p, n) == journal[<<p, n>>].plan # None

LogOK == /\ Within(db) /\ Within(disk)
         /\ Len(disk.log) <= Len(db.log)
         /\ \A p \in Plugins, n \in Seqs : Chosen(p, n) => n <= Len(disk.log)
         /\ Busy => Edge <= Len(db.log)

\* A crash aside, what is on disk is left alone or brought up to date.
LEMMA DiskMoves == ASSUME Next PROVE disk' \in {disk, db'}
<1>1. ASSUME NEW s \in Subjects, Commit(s) PROVE UNCHANGED disk
  BY <1>1 DEF Commit
<1>2. CASE Flush
  BY <1>2 DEF Flush, Save
<1>3. CASE Crash
  BY <1>3 DEF Crash
<1>4. CASE Operator
  <2>1. ASSUME NEW p \in Plugins, ReadTrigger(p) \/ DeleteTrigger(p) PROVE UNCHANGED disk
    BY <2>1 DEF ReadTrigger, DeleteTrigger, storeVars, Put
  <2>2. CASE StoreTrigger \/ StartCursor \/ ForgetHead \/ ForgetCursor
    BY <2>2 DEF StoreTrigger, StartCursor, ForgetHead, ForgetCursor, Ack, Put, Save
  <2>3. ASSUME NEW r \in Runs, AbandonRun(r) PROVE disk' = db'
    BY <2>3 DEF AbandonRun
  <2>. QED
    BY <1>4, <2>1, <2>2, <2>3 DEF Operator
<1>5. CASE Drain
  <2>1. CASE StartDrain \/ EndRound \/ CapReached
    BY <2>1 DEF StartDrain, EndRound, CapReached, storeVars
  <2>2. ASSUME NEW p \in Plugins, PassOver(p) PROVE disk' \in {disk, db'}
    BY <2>2 DEF PassOver, Ack, Put, Save
  <2>3. CASE Deliver
    BY <2>3 DEF Deliver, DeliverEnded, DeliverWaits, DeliverProposal, DeliverEdge, AdmitStopped,
       AdmitStarted, AdmitEcho, Admit, storeVars, SetTrigger, Ack, Put, Save
  <2>4. CASE RunEdge
    BY <2>4 DEF RunEdge, RunFails, RunScript, SaveEvent, Propose, CallHost, UsesAction, SetTrigger,
       Ack, Put, Save, storeVars
  <2>5. CASE Host
    BY <2>5 DEF Host, HostRecords, HostWrites, HostReports, HostLogsRun, HostMoves, HostReturns
  <2>6. CASE Settle
    BY <2>6 DEF Settle, Clean, Forget, Advance, Fail, SetTrigger, Ack, Put, Save
  <2>. QED
    BY <1>5, <2>1, <2>2, <2>3, <2>4, <2>5, <2>6 DEF Drain
<1>6. ASSUME NEW p \in Plugins, Pick(p) \/ NotLeased(p) PROVE UNCHANGED disk
  BY <1>6 DEF Pick, NotLeased, storeVars
<1>. QED
  BY <1>1, <1>2, <1>3, <1>4, <1>5, <1>6 DEF Next

\* Only the host and an operator who abandons a run write to its journal.
LEMMA JournalMoves ==
  ASSUME Next
  PROVE  UNCHANGED journal \/ HostRecords \/ \E r \in Runs : AbandonRun(r)
<1>1. ASSUME NEW s \in Subjects, Commit(s) PROVE UNCHANGED journal
  BY <1>1 DEF Commit, runVars
<1>2. CASE Flush \/ Crash
  BY <1>2 DEF Flush, Crash, Recorded!Crash, runVars
<1>3. ASSUME NEW p \in Plugins, ReadTrigger(p) \/ DeleteTrigger(p) \/ PassOver(p) \/ Pick(p)
                                  \/ NotLeased(p)
      PROVE  UNCHANGED journal
  BY <1>3 DEF ReadTrigger, DeleteTrigger, PassOver, Pick, NotLeased, runVars
<1>4. CASE StoreTrigger \/ StartCursor \/ ForgetHead \/ ForgetCursor \/ StartDrain \/ EndRound
             \/ CapReached
  BY <1>4 DEF StoreTrigger, StartCursor, ForgetHead, ForgetCursor, StartDrain, EndRound, CapReached, runVars
<1>5. CASE Deliver
  BY <1>5 DEF Deliver, DeliverEnded, DeliverWaits, DeliverProposal, DeliverEdge, AdmitStopped,
     AdmitStarted, AdmitEcho, Admit, runVars
<1>6. CASE RunEdge
  BY <1>6 DEF RunEdge, RunFails, RunScript, SaveEvent, Propose, CallHost, Recorded!Call, runVars
<1>7. CASE HostWrites \/ HostReports \/ HostLogsRun \/ HostMoves \/ HostReturns
  BY <1>7 DEF HostWrites, HostReports, HostLogsRun, HostMoves, HostReturns, Recorded!Apply,
     Recorded!Report, Recorded!ApplyFails, Recorded!RecordRun, Recorded!PlanFails,
     Recorded!KeepPlan, Recorded!Replay, Recorded!RefuseUncertain, Recorded!RecordFails,
     Recorded!Return
<1>8. CASE Settle
  BY <1>8 DEF Settle, Clean, Forget, Advance, Fail, runVars
<1>. QED
  BY <1>1, <1>2, <1>3, <1>4, <1>5, <1>6, <1>7, <1>8 DEF Next, Operator, Drain, Host

\* What is written there: a plan for the run at hand, once, and an end that stays.
LEMMA EntriesMove ==
  ASSUME IInv, Next
  PROVE  \A r \in Runs :
           /\ journal'[r].plan # journal[r].plan =>
                journal[r].plan = None /\ r = Run /\ Busy /\ worker.pc = "apply" /\ HostRecords
           /\ journal'[r].end = "open" => journal[r].end = "open"
<1>1. /\ journal \in [Runs -> Recorded!Journal]
      /\ host.step # "idle" => host.run = Run /\ Busy /\ worker.pc = "apply"
  BY SameType DEF IInv, P!IInv, Recorded!TypeOK, Own, Turn, Busy
<1>2. CASE UNCHANGED journal
  BY <1>2
<1>3. CASE HostRecords
  <2>1. host.step # "idle"
    BY <1>3 DEF HostRecords, Recorded!ChoosePlan, Recorded!Begin, Recorded!Complete,
       Recorded!Finish, Recorded!Begins, Recorded!At
  <2>2. host.run \in Runs
    BY <2>1, SameType DEF IInv, P!IInv, Recorded!TypeOK
  <2>3. CASE Recorded!ChoosePlan
    BY <1>1, <1>3, <2>1, <2>2, <2>3 DEF Recorded!ChoosePlan, Recorded!Record, Recorded!Plan,
       Recorded!Journal
  <2>4. CASE Recorded!Begin
    BY <1>1, <2>2, <2>4 DEF Recorded!Begin, Recorded!Record, Recorded!Journal
  <2>5. CASE Recorded!Complete
    BY <1>1, <2>2, <2>5 DEF Recorded!Complete, Recorded!Record, Recorded!Journal
  <2>6. CASE Recorded!Finish
    BY <1>1, <2>2, <2>6 DEF Recorded!Finish, Recorded!Record, Recorded!Journal
  <2>. QED
    BY <1>3, <2>3, <2>4, <2>5, <2>6 DEF HostRecords
<1>4. ASSUME NEW r \in Runs, AbandonRun(r)
      PROVE  \A q \in Runs : journal'[q].plan = journal[q].plan
                             /\ (journal'[q].end = "open" => journal[q].end = "open")
  BY <1>1, <1>4 DEF AbandonRun, Recorded!Abandon, Recorded!Record, Recorded!Journal
<1>. QED
  BY <1>2, <1>3, <1>4, JournalMoves

\* What the script's answer makes of the worker.
LEMMA ScriptMoves ==
  ASSUME Own, RunScript
  PROVE  \E v \in Verdicts :
           /\ worker'.pc = "save" /\ worker'.p = worker.p /\ worker'.seen = worker.seen
           /\ worker'.event.seq = worker.event.seq /\ worker'.event.verdict = v
           /\ worker'.event.waiting = (v \in Waiting \/ ~Copy.auto)
           /\ worker.event.verdict # None => v = worker.event.verdict
<1>1. worker.pc = "run" /\ Busy /\ worker.event \in Event
  BY BusyType DEF RunScript, At, Busy, Own
<1>2. PICK v \in Verdicts :
        /\ worker' = [worker EXCEPT !.pc = "save", !.event.verdict = v, !.event.agent = Copy.agent,
                                    !.event.waiting = v \in Waiting \/ ~Copy.auto]
        /\ worker.event.verdict # None => v = worker.event.verdict
  BY <1>1 DEF RunScript, Event
<1>3. PICK e : e = [worker.event EXCEPT !.verdict = v, !.agent = Copy.agent,
                                        !.waiting = v \in Waiting \/ ~Copy.auto]
  OBVIOUS
<1>4. /\ e.seq = worker.event.seq /\ e.verdict = v
      /\ e.waiting = (v \in Waiting \/ ~Copy.auto)
  BY <1>1, <1>3 DEF Event
<1>5. worker' = [worker EXCEPT !.pc = "save", !.event = e]
  BY <1>2, <1>3, WorkerFields DEF Own
<1>6. /\ worker'.pc = "save" /\ worker'.p = worker.p /\ worker'.seen = worker.seen
      /\ worker'.event = e
  BY <1>5, WorkerFields DEF Own
<1>. QED
  BY <1>2, <1>4, <1>6

\* A proposal that is granted now is delivered like an edge.
LEMMA GrantMoves ==
  ASSUME Own, Busy, worker' = [worker EXCEPT !.pc = "admit", !.event.waiting = FALSE]
  PROVE  /\ worker'.pc = "admit" /\ worker'.p = worker.p /\ worker'.seen = worker.seen
         /\ worker'.event.seq = worker.event.seq
<1>1. PICK e : e = [worker.event EXCEPT !.waiting = FALSE]
  OBVIOUS
<1>2. e.seq = worker.event.seq
  BY <1>1, BusyType DEF Event, Own
<1>3. worker' = [worker EXCEPT !.pc = "admit", !.event = e]
  BY <1>1, WorkerFields DEF Own
<1>. QED
  BY <1>2, <1>3, WorkerFields DEF Own

\* The action is done: the script runs again.
LEMMA ResumeMoves ==
  ASSUME Own, Busy, worker' = [worker EXCEPT !.pc = "admit", !.resuming = TRUE,
                                             !.event.verdict = None, !.event.waiting = FALSE]
  PROVE  /\ worker'.pc = "admit" /\ worker'.p = worker.p /\ worker'.seen = worker.seen
         /\ worker'.event.seq = worker.event.seq
<1>1. PICK e : e = [worker.event EXCEPT !.verdict = None, !.waiting = FALSE]
  OBVIOUS
<1>2. e.seq = worker.event.seq
  BY <1>1, BusyType DEF Event, Own
<1>3. worker' = [worker EXCEPT !.pc = "admit", !.resuming = TRUE, !.event = e]
  BY <1>1, WorkerFields DEF Own
<1>. QED
  BY <1>2, <1>3, WorkerFields DEF Own

\* The worker is at the edge it was at, or it has just picked one.
LEMMA EdgeMoves ==
  ASSUME Own, Next, Busy'
  PROVE  \/ Busy /\ worker'.p = worker.p /\ Edge' = Edge /\ worker'.seen = worker.seen
         \/ \E p \in Plugins : Pick(p)
<1>. USE WorkerFields DEF Own
<1>1. CASE UNCHANGED worker
  BY <1>1 DEF Busy, Edge
<1>2. CASE Crash \/ StartDrain \/ EndRound \/ CapReached
  <2>1. worker' = Idle \/ worker' = Listed
    BY <1>2 DEF Crash, StartDrain, EndRound, CapReached
  <2>2. Idle.pc = "idle" /\ Listed.pc = "round"
    BY DEF Idle, Listed
  <2>3. worker'.pc \in {"idle", "round"}
    BY <2>1, <2>2
  <2>. QED
    BY <2>3 DEF Busy
<1>3. ASSUME NEW p \in Plugins, PassOver(p) \/ NotLeased(p) PROVE FALSE
  BY <1>3 DEF PassOver, NotLeased, InTurn, At, Busy
<1>4. CASE Deliver \/ RunEdge \/ HostReturns \/ Settle
  <2>1. Busy /\ worker.event \in Event
    <3>1. Busy
      BY <1>4 DEF Deliver, RunEdge, HostReturns, Settle, DeliverEnded, DeliverWaits,
         DeliverProposal, DeliverEdge, Deliverable, AdmitStopped, AdmitStarted, AdmitEcho, Admit,
         Admits, RunFails, RunScript, SaveEvent, Propose, CallHost, Clean, Forget, Advance, Fail,
         At, Busy
    <3>. QED
      BY <3>1, BusyType
  <2>2. ~ Return
    BY DEF Return, Busy
  <2>3. /\ worker'.p = worker.p /\ worker'.seen = worker.seen
        /\ worker'.event.seq = worker.event.seq
    <3>1. ASSUME NEW pc, Goto(pc)
          PROVE  worker'.p = worker.p /\ worker'.seen = worker.seen /\ worker'.event = worker.event
      BY <3>1 DEF Goto
    <3>2. CASE Deliver
      <4>1. CASE worker' = [worker EXCEPT !.pc = "run", !.attempted = @ + 1]
        BY <4>1
      <4>2. \/ \E pc \in Stages : Goto(pc)
            \/ Return
            \/ worker' = [worker EXCEPT !.pc = "run", !.attempted = @ + 1]
            \/ worker' = [worker EXCEPT !.pc = "admit", !.event.waiting = FALSE]
            \/ worker' = [worker EXCEPT !.pc = "admit", !.resuming = TRUE,
                                        !.event.verdict = None, !.event.waiting = FALSE]
        BY <3>2 DEF Deliver, DeliverEnded, DeliverWaits, DeliverProposal, DeliverEdge,
           AdmitStopped, AdmitStarted, AdmitEcho, Admit, Stages
      <4>. QED
        BY <2>1, <2>2, <3>1, <4>1, <4>2, GrantMoves, ResumeMoves
    <3>3. CASE RunScript
      BY <3>3, ScriptMoves
    <3>4. CASE RunFails \/ SaveEvent \/ Propose \/ CallHost
      BY <2>2, <3>1, <3>4 DEF RunFails, SaveEvent, Propose, CallHost
    <3>5. CASE HostReturns \/ Settle
      BY <2>2, <3>1, <3>5 DEF HostReturns, Settle, Clean, Forget, Advance, Fail
    <3>. QED
      BY <1>4, <3>2, <3>3, <3>4, <3>5 DEF RunEdge
  <2>. QED
    BY <2>1, <2>3 DEF Edge
<1>5. CASE \E s \in Subjects : Commit(s)
  BY <1>1, <1>5 DEF Commit, workerVars
<1>6. CASE Flush \/ Operator
  BY <1>1, <1>6 DEF Flush, Operator, ReadTrigger, DeleteTrigger, StoreTrigger, StartCursor,
     ForgetHead, ForgetCursor, AbandonRun, workerVars
<1>7. CASE HostRecords \/ HostWrites \/ HostReports \/ HostLogsRun \/ HostMoves
  BY <1>1, <1>7 DEF HostRecords, HostWrites, HostReports, HostLogsRun, HostMoves, workerVars
<1>. QED
  BY <1>2, <1>3, <1>4, <1>5, <1>6, <1>7 DEF Next, Drain, Host

\* The next event of a plugin has a saved event's number, or one of the log's.
LEMMA LeastWanted ==
  ASSUME NEW p \in Plugins, NEW t, Wanted(p, t) # {}
  PROVE  \E n \in Wanted(p, t) :
           /\ \A m \in Wanted(p, t) : n <= m
           /\ n = CHOOSE l \in Wanted(p, t) : \A m \in Wanted(p, t) : l <= m
<1>1. Wanted(p, t) \subseteq Nat
  BY BoundsAssumption DEF Wanted, Seqs
<1>2. \E n \in Wanted(p, t) : \A m \in Wanted(p, t) : n <= m
  BY <1>1, LeastNumber
<1>. QED
  BY <1>2

LEMMA NextEventSeq ==
  ASSUME NEW p \in Plugins, NEW t, NextEvent(p, t) # None
  PROVE  \/ db.head[p] # None /\ NextEvent(p, t) = db.head[p]
         \/ /\ db.head[p] = None
            /\ NextEvent(p, t).seq \in Wanted(p, t)
            /\ \A m \in Wanted(p, t) : NextEvent(p, t).seq <= m
<1>1. CASE db.head[p] # None
  BY <1>1 DEF NextEvent
<1>2. CASE db.head[p] = None
  <2>1. Wanted(p, t) # {}
    BY <1>2 DEF NextEvent
  <2>2. PICK n \in Wanted(p, t) :
          /\ \A m \in Wanted(p, t) : n <= m
          /\ n = CHOOSE l \in Wanted(p, t) : \A m \in Wanted(p, t) : l <= m
    BY <2>1, LeastWanted
  <2>3. NextEvent(p, t) = [seq |-> n, verdict |-> None, waiting |-> FALSE, agent |-> None]
    BY <1>2, <2>1, <2>2 DEF NextEvent
  <2>. QED
    BY <1>2, <2>2, <2>3
<1>. QED
  BY <1>1, <1>2

-----------------------------------------------------------------------------
(* Nothing gets ahead of the log *)

\* The store after a step: its log is no shorter, and says enough.
Grows == Within(db)' /\ Len(db.log) <= Len(db'.log)

LEMMA StayGrows == ASSUME LogOK, Own, UNCHANGED db PROVE Grows
<1>1. Len(db.log) \in Nat
  BY StoreFields DEF Own, Stores
<1>. QED
  BY <1>1 DEF Grows, LogOK, Within

LEMMA PutWithin ==
  ASSUME NEW d, StoreOK(d), Within(d), NEW e, e.log = d.log, e.head = d.head, e.cursor = d.cursor
  PROVE  Within(e)
BY DEF Within

LEMMA AckWithin ==
  ASSUME NEW d, StoreOK(d), Within(d), NEW p \in Plugins, NEW n \in 0 .. Len(d.log), Ack(d, p, n)
  PROVE  db'.log = d.log /\ Within(db)'
<1>1. db' = d \/ db' = [d EXCEPT !.cursor[p] = n]
  BY DEF Ack, Put, Save
<1>2. d.cursor \in [Plugins -> 0 .. MaxEvents] /\ Len(d.log) \in 0 .. MaxEvents
  BY StoreFields
<1>. QED
  BY <1>1, <1>2, StoreFields DEF Within

LEMMA SetGrows ==
  ASSUME LogOK, Own, NEW p \in Plugins, NEW t \in Trigger, SetTrigger(p, t)
  PROVE  Grows
<1>1. PICK d : d = [db EXCEPT !.trigger[p] = t]
  OBVIOUS
<1>2. StoreOK(d) /\ d.log = db.log /\ d.head = db.head /\ d.cursor = db.cursor
  <2>1. StoreOK(d)
    BY <1>1, PutTrigger DEF Own, Stores
  <2>2. d.log = db.log /\ d.head = db.head /\ d.cursor = db.cursor
    BY <1>1, StoreFields DEF Own, Stores
  <2>. QED
    BY <2>1, <2>2
<1>3. Within(d)
  BY <1>2, PutWithin DEF LogOK, Own, Stores
<1>4. PICK n : n = Len(db.log)
  OBVIOUS
<1>5. n \in 0 .. Len(d.log) /\ Len(db.log) \in Nat
  BY <1>2, <1>4, StoreFields DEF Own, Stores
<1>6. Ack(d, p, n) \/ Put(d)
  BY <1>1, <1>4 DEF SetTrigger, Ack, Put, Save
<1>7. db'.log = d.log /\ Within(db)'
  BY <1>2, <1>3, <1>5, <1>6, AckWithin DEF Put, Within
<1>. QED
  BY <1>2, <1>5, <1>7 DEF Grows

LEMMA ChangedGrows ==
  ASSUME LogOK, Own, NEW s \in Subjects \cup {RunRecord}, NEW by \in Plugins \cup {None},
         db' \in Changed(s, by)
  PROVE  /\ Grows
         /\ db'.trigger = db.trigger /\ db'.head = db.head /\ db'.cursor = db.cursor
         /\ \A n \in 1 .. Len(db.log) : db'.log[n] = db.log[n]
<1>1. db.log \in Seq(Row) /\ Len(db.log) \in Nat /\ StoreOK(db)
  BY StoreFields DEF Own, Stores
<1>2. CASE db' = db
  BY <1>1, <1>2, StayGrows
<1>3. CASE db' # db
  <2>1. PICK row \in Row : db' = [db EXCEPT !.log = Append(@, row)]
    <3>1. PICK edges \in (SUBSET Watched) \ {{}} :
            db' = [db EXCEPT !.log = Append(@, [subject |-> s, by |-> by, edges |-> edges])]
      BY <1>3 DEF Changed
    <3>2. [subject |-> s, by |-> by, edges |-> edges] \in Row
      BY WatchedType DEF Row, Own
    <3>. QED
      BY <3>1, <3>2
  <2>2. /\ db'.log = Append(db.log, row)
        /\ db'.trigger = db.trigger /\ db'.head = db.head /\ db'.cursor = db.cursor
    BY <1>1, <2>1, StoreFields
  <2>3. /\ Len(Append(db.log, row)) = Len(db.log) + 1
        /\ \A n \in 1 .. Len(db.log) : Append(db.log, row)[n] = db.log[n]
    BY <1>1
  <2>4. Len(db'.log) = Len(db.log) + 1
    BY <2>2, <2>3
  <2>5. \A p \in Plugins : db.cursor[p] \in Nat
                           /\ (db.head[p] # None => db.head[p].seq \in Nat)
    BY <1>1, StoreFields, BoundsAssumption DEF Event, Seqs
  <2>6. Within(db)'
    BY <1>1, <2>2, <2>4, <2>5 DEF LogOK, Within
  <2>. QED
    BY <1>1, <2>2, <2>3, <2>4, <2>6 DEF Grows
<1>. QED
  BY <1>2, <1>3

\* An action of the script is on record.
LEMMA UsesGrows ==
  ASSUME LogOK, Own, UsesAction
  PROVE  /\ db'.log = db.log /\ db'.trigger = db.trigger
         /\ db'.head = db.head /\ db'.cursor = db.cursor
         /\ Grows
<1>1. db'.log = db.log /\ db'.trigger = db.trigger /\ db'.head = db.head /\ db'.cursor = db.cursor
  BY StoreFields DEF UsesAction, Save, Own, Stores
<1>2. Len(db.log) \in Nat
  BY StoreFields DEF Own, Stores
<1>. QED
  BY <1>1, <1>2 DEF Grows, Within, LogOK

LEMMA SetCopyGrows ==
  ASSUME LogOK, Own, Busy, NEW pending \in Verdicts \cup {None}, NEW error \in BOOLEAN,
         SetTrigger(worker.p, [Copy EXCEPT !.pending = pending, !.error = error])
  PROVE  Grows
<1>1. PICK p \in Plugins : p = worker.p
  BY BusyType DEF Own
<1>2. PICK t \in Trigger : t = [Copy EXCEPT !.pending = pending, !.error = error]
  BY BusyType DEF Own, Trigger
<1>3. SetTrigger(p, t)
  BY <1>1, <1>2 DEF SetTrigger, Ack, Put, Save
<1>. QED
  BY <1>3, SetGrows

LEMMA ProposeGrows == ASSUME LogOK, Own, Propose PROVE Grows
<1>1. worker.pc = "propose" /\ Busy /\ worker.event \in Event /\ Copy \in Trigger
  BY BusyType DEF Propose, At, Busy, Own
<1>2. [Copy EXCEPT !.pending = worker.event.verdict]
        = [Copy EXCEPT !.pending = worker.event.verdict, !.error = Copy.error]
  BY <1>1 DEF Trigger
<1>3. worker.event.verdict \in Verdicts \cup {None} /\ Copy.error \in BOOLEAN
  BY <1>1 DEF Event, Trigger
<1>. QED
  BY <1>1, <1>2, <1>3, SetCopyGrows DEF Propose

LEMMA FailGrows == ASSUME LogOK, Own, Fail PROVE Grows
<1>1. worker.pc = "fail" /\ Busy
  BY DEF Fail, At, Busy
<1>2. PICK p \in Plugins : p = worker.p
  BY <1>1, BusyType DEF Own
<1>3. (IF db.trigger[p] = None THEN Copy ELSE db.trigger[p]) \in Trigger
  BY <1>1, BusyType, StoreFields DEF Own, Stores
<1>4. PICK t \in Trigger :
        t = [(IF db.trigger[p] = None THEN Copy ELSE db.trigger[p]) EXCEPT !.error = TRUE]
  BY <1>3 DEF Trigger
<1>5. SetTrigger(p, t)
  BY <1>2, <1>4 DEF Fail, SetTrigger, Ack, Put, Save
<1>. QED
  BY <1>5, SetGrows

\* An event is saved, or forgotten.
LEMMA HeadGrows ==
  ASSUME LogOK, Own, NEW p \in Plugins, NEW e \in Event \cup {None},
         e # None => e.seq <= Len(db.log), db' = [db EXCEPT !.head[p] = e]
  PROVE  Grows
<1>1. /\ db'.log = db.log /\ db'.cursor = db.cursor /\ Len(db.log) \in Nat
      /\ \A q \in Plugins : db'.head[q] = IF q = p THEN e ELSE db.head[q]
  BY StoreFields DEF Own, Stores
<1>. QED
  BY <1>1 DEF Grows, Within, LogOK

\* A cursor moves to a row of the log.
LEMMA CursorGrows ==
  ASSUME LogOK, Own, NEW p \in Plugins, NEW n \in 0 .. Len(db.log), Ack(db, p, n)
  PROVE  Grows
<1>1. db'.log = db.log /\ Within(db)'
  BY AckWithin DEF Own, Stores, LogOK
<1>2. Len(db.log) \in Nat
  BY StoreFields DEF Own, Stores
<1>. QED
  BY <1>1, <1>2 DEF Grows

LEMMA AdvanceGrows == ASSUME LogOK, Own, Advance PROVE Grows
<1>1. worker.pc = "advance" /\ Busy
  BY DEF Advance, At, Busy
<1>2. /\ worker.p \in Plugins /\ Edge \in Nat /\ Len(db.log) \in Nat
      /\ Edge <= Len(db.log)
  BY <1>1, BusyType, BoundsAssumption, StoreFields DEF Own, Stores, LogOK, Seqs
<1>3. PICK p \in Plugins : p = worker.p
  BY <1>2
<1>4. PICK n \in 0 .. Len(db.log) : n = Edge
  BY <1>2
<1>5. Ack(db, p, n) \/ db' = db
  BY <1>3, <1>4 DEF Advance, Ack, Save
<1>. QED
  BY <1>5, CursorGrows, StayGrows

LEMMA ForgetGrows == ASSUME LogOK, Own, ForgetHead \/ ForgetCursor PROVE Grows
<1>1. PICK p \in Plugins : p = deleting.p
  BY DEF Own, OpOK, ForgetHead, ForgetCursor
<1>2. db' = [db EXCEPT !.head[p] = None] \/ db' = [db EXCEPT !.cursor[p] = 0]
  BY <1>1 DEF ForgetHead, ForgetCursor, Put
<1>3. /\ db'.log = db.log /\ Len(db.log) \in Nat
      /\ \A q \in Plugins : /\ db'.head[q] \in {None, db.head[q]}
                            /\ db'.cursor[q] \in {0, db.cursor[q]}
  <2>1. /\ db.head \in [Plugins -> Event \cup {None}] /\ db.cursor \in [Plugins -> 0 .. MaxEvents]
        /\ Len(db.log) \in Nat
    BY StoreFields DEF Own, Stores
  <2>2. StoreOK(db)
    BY DEF Own, Stores
  <2>3. CASE db' = [db EXCEPT !.head[p] = None]
    BY <2>1, <2>2, <2>3 DEF StoreOK, Store
  <2>4. CASE db' = [db EXCEPT !.cursor[p] = 0]
    BY <2>1, <2>2, <2>4 DEF StoreOK, Store
  <2>. QED
    BY <1>2, <2>3, <2>4
<1>. QED
  BY <1>3 DEF Grows, Within, LogOK

\* A crash aside, the log only grows, and nothing is said of rows it does not have.
LEMMA NextGrows == ASSUME LogOK, Own, P!IInv, Next, ~Crash PROVE Grows
<1>1. ASSUME NEW s \in Subjects, Commit(s) PROVE Grows
  <2>1. db' \in Changed(s, None)
    BY <1>1 DEF Commit
  <2>. QED
    BY <2>1, ChangedGrows
<1>2. CASE Flush
  BY <1>2, StayGrows DEF Flush, Save
<1>3. CASE Operator
  <2>1. ASSUME NEW p \in Plugins, ReadTrigger(p) PROVE Grows
    BY <2>1, StayGrows DEF ReadTrigger, storeVars
  <2>2. CASE StoreTrigger
    <3>1. setting.p \in Plugins /\ setting.trigger \in Trigger /\ Len(db.log) \in Nat
      BY <2>2, StoreFields DEF StoreTrigger, Own, OpOK, Stores
    <3>2. db'.log = db.log /\ db'.head = db.head /\ db'.cursor = db.cursor
      BY <2>2, <3>1, StoreFields DEF StoreTrigger, Put, Own, Stores
    <3>. QED
      BY <3>1, <3>2 DEF Grows, Within, LogOK
  <2>3. CASE StartCursor
    <3>1. setting.p \in Plugins /\ Len(db.log) \in Nat
      BY <2>3, StoreFields DEF StartCursor, Own, OpOK, Stores
    <3>2. PICK p \in Plugins : p = setting.p
      BY <3>1
    <3>3. PICK n \in 0 .. Len(db.log) : n = Len(db.log)
      BY <3>1
    <3>4. Ack(db, p, n)
      BY <2>3, <3>2, <3>3 DEF StartCursor, Ack, Put, Save
    <3>. QED
      BY <3>4, CursorGrows
  <2>4. ASSUME NEW r \in Runs, AbandonRun(r) PROVE Grows
    BY <2>4, StayGrows DEF AbandonRun
  <2>5. ASSUME NEW p \in Plugins, DeleteTrigger(p) PROVE Grows
    <3>1. Len(db.log) \in Nat
      BY StoreFields DEF Own, Stores
    <3>2. db'.log = db.log /\ db'.head = db.head /\ db'.cursor = db.cursor
      BY <2>5, StoreFields DEF DeleteTrigger, Put, Own, Stores
    <3>. QED
      BY <3>1, <3>2 DEF Grows, Within, LogOK
  <2>. QED
    BY <1>3, <2>1, <2>2, <2>3, <2>4, <2>5, ForgetGrows DEF Operator
<1>4. CASE StartDrain \/ EndRound \/ CapReached
  BY <1>4, StayGrows DEF StartDrain, EndRound, CapReached, storeVars
<1>5. ASSUME NEW p \in Plugins, PassOver(p) PROVE Grows
  <2>1. PICK n \in 0 .. Len(db.log) : n = Len(db.log)
    BY StoreFields DEF Own, Stores
  <2>2. Ack(db, p, n)
    BY <1>5, <2>1 DEF PassOver, Ack, Put, Save
  <2>. QED
    BY <2>2, CursorGrows
<1>6. CASE Deliver
  <2>1. CASE DeliverEnded
    <3>1. Busy
      BY <2>1 DEF DeliverEnded, At, Busy
    <3>2. CASE UNCHANGED storeVars
      BY <3>2, StayGrows DEF storeVars
    <3>3. CASE SetTrigger(worker.p, [Copy EXCEPT !.pending = None, !.error = FALSE])
      BY <3>1, <3>3, SetCopyGrows
    <3>. QED
      BY <2>1, <3>2, <3>3 DEF DeliverEnded
  <2>2. CASE ~DeliverEnded
    <3>1. UNCHANGED db
      BY <1>6, <2>2 DEF Deliver, DeliverWaits, DeliverProposal, DeliverEdge, AdmitStopped,
         AdmitStarted, AdmitEcho, Admit, storeVars
    <3>. QED
      BY <3>1, StayGrows
  <2>. QED
    BY <2>1, <2>2
<1>7. CASE RunEdge
  <2>1. CASE RunFails \/ RunScript
    BY <2>1, UsesGrows, StayGrows DEF RunFails, RunScript, storeVars
  <2>2. CASE SaveEvent
    <3>1. Busy
      BY <2>2 DEF SaveEvent, At, Busy
    <3>2. PICK p \in Plugins, e \in Event : p = worker.p /\ e = worker.event
      BY <3>1, BusyType DEF Own
    <3>3. e.seq <= Len(db.log)
      BY <3>1, <3>2 DEF LogOK, Edge
    <3>4. db' = [db EXCEPT !.head[p] = e]
      BY <2>2, <3>2 DEF SaveEvent, Save
    <3>. QED
      BY <3>3, <3>4, HeadGrows
  <2>3. CASE CallHost
    BY <2>3, StayGrows DEF CallHost
  <2>. QED
    BY <1>7, <2>1, <2>2, <2>3, ProposeGrows DEF RunEdge
<1>8. CASE Host
  <2>1. CASE HostRecords \/ HostReports \/ HostMoves \/ HostReturns
    BY <2>1, StayGrows DEF HostRecords, HostReports, HostMoves, HostReturns
  <2>2. CASE HostWrites \/ HostLogsRun
    <3>1. /\ Recorded!Step /\ UNCHANGED worker
          /\ \E s \in Subjects \cup {RunRecord} : db' \in Changed(s, worker.p)
      <4>1. CASE HostWrites
        <5>1. host.step = "apply"
          BY <4>1 DEF HostWrites, Recorded!Apply, Recorded!At
        <5>2. Recorded!Plan[host.k] \in Subjects
          BY <5>1, PlanAtEffect
        <5>. QED
          BY <4>1, <5>2 DEF HostWrites, Recorded!Step, workerVars
      <4>2. CASE HostLogsRun
        BY <4>2 DEF HostLogsRun, Recorded!Step, workerVars
      <4>. QED
        BY <2>2, <4>1, <4>2
    <3>2. PICK p \in Plugins : p = worker.p
      BY <3>1, HostTurn, BusyType DEF Own
    <3>3. PICK s \in Subjects \cup {RunRecord} : db' \in Changed(s, p)
      BY <3>1, <3>2
    <3>. QED
      BY <3>3, ChangedGrows
  <2>. QED
    BY <1>8, <2>1, <2>2 DEF Host
<1>9. CASE Settle
  <2>1. CASE Clean
    <3>1. Busy
      BY <2>1 DEF Clean, At, Busy
    <3>. QED
      BY <2>1, <3>1, SetCopyGrows DEF Clean
  <2>2. CASE Forget
    <3>1. Busy
      BY <2>2 DEF Forget, At, Busy
    <3>2. PICK p \in Plugins : p = worker.p
      BY <3>1, BusyType DEF Own
    <3>3. PICK e \in Event \cup {None} : e = None
      OBVIOUS
    <3>4. db' = [db EXCEPT !.head[p] = e]
      BY <2>2, <3>2, <3>3 DEF Forget, Put
    <3>. QED
      BY <3>3, <3>4, HeadGrows
  <2>. QED
    BY <1>9, <2>1, <2>2, AdvanceGrows, FailGrows DEF Settle
<1>10. ASSUME NEW p \in Plugins, Pick(p) \/ NotLeased(p) PROVE Grows
  BY <1>10, StayGrows DEF Pick, NotLeased, storeVars
<1>. QED
  BY <1>1, <1>2, <1>3, <1>4, <1>5, <1>6, <1>7, <1>8, <1>9, <1>10 DEF Next, Drain

LEMMA CrashLog == ASSUME LogOK, Own, Crash PROVE LogOK'
<1>1. /\ db'.log = disk.log /\ db'.head = disk.head /\ db'.cursor = disk.cursor
      /\ disk' = disk /\ worker' = Idle /\ journal' = journal
  <2>1. PICK t : t = [p \in Plugins |-> Restarted(p)]
    OBVIOUS
  <2>2. db' = [disk EXCEPT !.trigger = t]
    BY <2>1 DEF Crash
  <2>. QED
    BY <2>2, StoreFields DEF Own, Stores, Crash, Recorded!Crash
<1>2. Within(db)' /\ Within(disk)'
  BY <1>1 DEF LogOK, Within
<1>3. ~Busy'
  BY <1>1 DEF Busy, Idle
<1>4. Len(disk.log) \in Nat
  BY StoreFields DEF Own, Stores
<1>. QED
  BY <1>1, <1>2, <1>3, <1>4 DEF LogOK, Chosen

\* The event that is picked is one of the log's.
LEMMA PickedWithin ==
  ASSUME LogOK, Own, NEW p \in Plugins, Pick(p)
  PROVE  Edge' <= Len(db.log) /\ UNCHANGED <<db, journal>> /\ Edge' \in Seqs
<1>1. worker'.event = NextFor(p) /\ NextFor(p) # None
  BY WorkerFields DEF Pick, Own
<1>2. NextFor(p) \in Event
  BY <1>1, NextEventType DEF NextFor, Own
<1>3. NextFor(p).seq <= Len(db.log)
  BY <1>1, NextEventSeq DEF NextFor, Wanted, LogOK, Within
<1>. QED
  BY <1>1, <1>2, <1>3 DEF Edge, Event, Pick, storeVars, runVars

LEMMA NextLog == ASSUME LogOK, IInv, Next PROVE LogOK'
<1>1. CASE Crash
  BY <1>1, CrashLog DEF IInv
<1>2. CASE ~Crash
  <2>1. Grows /\ disk' \in {disk, db'}
    BY <1>2, NextGrows, DiskMoves DEF IInv
  <2>2. /\ Len(db.log) \in Nat /\ Len(db'.log) \in Nat /\ Len(disk.log) \in Nat
    <3>1. Own'
      BY NextOwn DEF IInv
    <3>. QED
      BY <3>1, StoreFields DEF IInv, Own, Stores, StoreOK
  <2>3. Within(db)' /\ Within(disk)' /\ Len(disk'.log) <= Len(db'.log)
        /\ Len(disk.log) <= Len(disk'.log)
    <3>1. CASE disk' = disk
      BY <2>1, <2>2, <3>1 DEF Grows, LogOK, Within
    <3>2. CASE disk' = db'
      BY <2>1, <2>2, <3>2 DEF Grows, LogOK, Within
    <3>. QED
      BY <2>1, <3>1, <3>2
  <2>4. ASSUME NEW p \in Plugins, NEW n \in Seqs, Chosen(p, n)' PROVE n <= Len(disk'.log)
    <3>1. <<p, n>> \in Runs /\ n \in Nat
      BY BoundsAssumption DEF Runs, Seqs
    <3>2. CASE Chosen(p, n)
      BY <2>2, <2>3, <3>1, <3>2 DEF LogOK
    <3>3. CASE ~Chosen(p, n)
      <4>1. <<p, n>> = Run /\ Busy /\ HostRecords
        BY <2>4, <3>1, <3>3, EntriesMove DEF Chosen
      <4>2. n = Edge /\ disk' = db
        BY <4>1 DEF Run, HostRecords
      <4>. QED
        BY <4>1, <4>2 DEF LogOK
    <3>. QED
      BY <3>2, <3>3
  <2>5. Busy' => Edge' <= Len(db'.log)
    <3>1. ASSUME NEW p \in Plugins, Pick(p) PROVE Edge' <= Len(db'.log)
      BY <3>1, PickedWithin DEF IInv
    <3>2. CASE Busy /\ Edge' = Edge
      <4>1. Edge \in Nat /\ Edge <= Len(db.log)
        BY <3>2, BusyType, BoundsAssumption DEF IInv, Own, Seqs, LogOK
      <4>. QED
        BY <2>1, <2>2, <3>2, <4>1 DEF Grows
    <3>. QED
      BY <3>1, <3>2, EdgeMoves DEF IInv
  <2>. QED
    BY <2>3, <2>4, <2>5 DEF LogOK
<1>. QED
  BY <1>1, <1>2

LEMMA InitLog == Init => LogOK
<1>. SUFFICES ASSUME Init PROVE LogOK
  OBVIOUS
<1>1. /\ db.log = <<>> /\ disk = db
      /\ \A p \in Plugins : db.head[p] = None /\ db.cursor[p] = 0
  BY DEF Init
<1>2. Len(db.log) = 0
  BY <1>1
<1>3. Within(db) /\ Within(disk)
  BY <1>1, <1>2 DEF Within
<1>4. ~Busy
  BY DEF Init, Idle, Busy
<1>5. \A p \in Plugins, n \in Seqs : ~Chosen(p, n)
  BY DEF Init, Recorded!Init, Chosen, Runs
<1>. QED
  BY <1>1, <1>2, <1>3, <1>4, <1>5 DEF LogOK

LEMMA StepLog == LogOK /\ IInv /\ [Next]_vars => LogOK'
<1>. SUFFICES ASSUME LogOK, IInv, [Next]_vars PROVE LogOK'
  OBVIOUS
<1>1. CASE UNCHANGED vars
  BY <1>1 DEF vars, workerVars, storeVars, runVars, LogOK, Within, Chosen, Busy, Edge
<1>. QED
  BY <1>1, NextLog

\* The log stays ahead of cursors, saved events, plans and the worker's edge, across crashes.
THEOREM LogInvariance == Spec => []LogOK
BY Invariance, InitLog, StepLog, PTL DEF Spec

\* No run, saved event or cursor is about a row of the log that a crash can take back.
THEOREM NothingIsAhead == Spec => []NothingAheadOfTheLog
<1>1. IInv /\ LogOK => NothingAheadOfTheLog
  <2>. SUFFICES ASSUME IInv, LogOK PROVE NothingAheadOfTheLog
    OBVIOUS
  <2>1. ASSUME NEW r \in Runs, journal[r].plan # None PROVE r[2] <= Len(disk.log)
    <3>1. PICK p \in Plugins, n \in Seqs : r = <<p, n>>
      BY DEF Runs
    <3>. QED
      BY <2>1, <3>1 DEF LogOK, Chosen
  <2>2. \A d \in {db, disk}, p \in Plugins :
          d.cursor[p] <= Len(d.log) /\ (d.head[p] # None => d.head[p].seq <= Len(d.log))
    BY DEF LogOK, Within
  <2>. QED
    BY <2>1, <2>2 DEF NothingAheadOfTheLog
<1>. QED
  BY <1>1, Invariance, LogInvariance, PTL

-----------------------------------------------------------------------------
(* While nobody touches the triggers, an edge whose run is open is the next one *)

Planned(p, n) == Chosen(p, n) /\ journal[<<p, n>>].end = "open"

\* An answer that went on to be applied.
Ready(e) == e.verdict \notin Waiting \cup {None} /\ ~e.waiting

\* No edge of the trigger lies between its cursor and n.
NoneBetween(d, p, n) ==
  \A k \in Seqs : d.cursor[p] < k /\ k < n /\ k <= Len(d.log) =>
    d.trigger[p].query \notin d.log[k].edges

\* Edge n is the plugin's next, and its runs got no further.
NextIs(d, p, n) ==
  /\ d.trigger[p] # None /\ d.cursor[p] < n /\ NoneBetween(d, p, n)
  /\ \A m \in Seqs : Chosen(p, m) => m <= n

SavedCalm(d, p) == d.head[p] # None => NextIs(d, p, d.head[p].seq)
ChosenCalm(d, p) == \A n \in Seqs : Chosen(p, n) => d.trigger[p] # None /\ NoneBetween(d, p, n)
PlannedCalm(d, p) ==
  \A n \in Seqs : Planned(p, n) =>
    d.head[p] # None /\ d.head[p].seq = n /\ Ready(d.head[p]) /\ d.trigger[p].auto

PluginCalm(d, p) == SavedCalm(d, p) /\ ChosenCalm(d, p) /\ PlannedCalm(d, p)
StoreCalm(d) == \A p \in Plugins : PluginCalm(d, p)

\* The same trigger, whatever was proposed or went wrong since.
Alike(t, u) == (t = None <=> u = None) /\ (t # None => t.query = u.query /\ t.auto = u.auto)

SeenCalm == \A p \in Plugins : worker.seen[p] # None => Alike(worker.seen[p], db.trigger[p])

\* What the worker is at.
EdgeCalm == Busy => /\ NextIs(db, worker.p, Edge)
                    /\ db.head[worker.p] # None => db.head[worker.p].seq = Edge

OpenCalm == Busy => \A n \in Seqs : Planned(worker.p, n) =>
              Ready(worker.event) /\ worker.pc \notin {"clean", "forget", "advance"}

\* An answer and what is saved of it.
Settled == worker.event.verdict # None
           /\ worker.event.waiting = (worker.event.verdict \in Waiting \/ ~Copy.auto)

AnswerCalm ==
  /\ worker.pc \in {"save", "propose", "grant", "apply"} => Settled
  /\ worker.pc \in {"propose", "grant", "apply"} => db.head[worker.p] = worker.event
  /\ worker.pc \in {"grant", "apply"} => ~worker.event.waiting
  /\ worker.pc = "advance" => db.head[worker.p] = None

\* A run that was applied is over.
HostCalm == host.step = "applied" => journal[host.run].end # "open"

Calm == acts = 0 => /\ setting = None /\ deleting = None
                    /\ StoreCalm(db) /\ StoreCalm(disk)
                    /\ SeenCalm /\ EdgeCalm /\ OpenCalm /\ AnswerCalm /\ HostCalm

\* What is known while nobody touched a trigger.
Quietly == IInv /\ LogOK /\ acts = 0 /\ Calm

LEMMA QuietFacts ==
  ASSUME Quietly
  PROVE  /\ Own /\ LogOK /\ StoreOK(db) /\ StoreOK(disk)
         /\ setting = None /\ deleting = None
         /\ StoreCalm(db) /\ StoreCalm(disk)
         /\ SeenCalm /\ EdgeCalm /\ OpenCalm /\ AnswerCalm /\ HostCalm
BY DEF Quietly, Calm, IInv, Own, Stores

LEMMA NoneNot == ASSUME NEW e \in Event \cup Trigger PROVE e # None
BY NoneAssumption

\* Nobody touched a trigger before either.
LEMMA ActsStay ==
  ASSUME Own, Next, acts' = 0
  PROVE  /\ acts = 0
         /\ ~ \E p \in Plugins : ReadTrigger(p) \/ DeleteTrigger(p)
         /\ ~ \E r \in Runs : AbandonRun(r)
<1>1. acts \in Nat
  BY BoundsAssumption DEF Own, OpOK
<1>2. ~Acts
  BY <1>1 DEF Acts
<1>3. ~ \E p \in Plugins : ReadTrigger(p) \/ DeleteTrigger(p)
  BY <1>2 DEF ReadTrigger, DeleteTrigger
<1>4. ~ \E r \in Runs : AbandonRun(r)
  BY <1>2 DEF AbandonRun
<1>5. acts' = acts
  <2>1. CASE Deliver \/ RunEdge
    BY <2>1 DEF Deliver, DeliverEnded, DeliverWaits, DeliverProposal, DeliverEdge, AdmitStopped,
       AdmitStarted, AdmitEcho, Admit, RunEdge, RunFails, RunScript, SaveEvent, Propose, CallHost,
       boundVars
  <2>2. CASE Host \/ Settle
    BY <2>2 DEF Host, HostRecords, HostWrites, HostReports, HostLogsRun, HostMoves, HostReturns,
       Settle, Clean, Forget, Advance, Fail, boundVars
  <2>3. CASE StartDrain \/ EndRound \/ CapReached \/ StoreTrigger \/ StartCursor
             \/ ForgetHead \/ ForgetCursor
    BY <2>3 DEF StartDrain, EndRound, CapReached, StoreTrigger, StartCursor, ForgetHead,
       ForgetCursor, boundVars
  <2>4. ASSUME NEW p \in Plugins, PassOver(p) \/ Pick(p) \/ NotLeased(p) PROVE acts' = acts
    BY <2>4 DEF PassOver, Pick, NotLeased, boundVars
  <2>5. CASE Flush \/ Crash \/ \E s \in Subjects : Commit(s)
    BY <2>5 DEF Flush, Crash, Commit, boundVars
  <2>. QED
    BY <1>3, <1>4, <2>1, <2>2, <2>3, <2>4, <2>5 DEF Next, Operator, Drain
<1>. QED
  BY <1>3, <1>4, <1>5

-----------------------------------------------------------------------------
(* What a change to the store leaves of it *)

\* Another store that says the same of the plugin.
LEMMA AlikeCalm ==
  ASSUME NEW d, NEW e, NEW p \in Plugins, PluginCalm(d, p),
         e.log = d.log, e.head[p] = d.head[p], e.cursor[p] = d.cursor[p],
         Alike(d.trigger[p], e.trigger[p])
  PROVE  PluginCalm(e, p)
<1>1. d.trigger[p] # None =>
        /\ e.trigger[p] # None /\ e.trigger[p].auto = d.trigger[p].auto
        /\ \A n \in Seqs : NoneBetween(d, p, n) <=> NoneBetween(e, p, n)
  BY DEF Alike, NoneBetween
<1>2. SavedCalm(e, p)
  <2>. SUFFICES ASSUME e.head[p] # None PROVE NextIs(e, p, e.head[p].seq)
    BY DEF SavedCalm
  <2>1. NextIs(d, p, e.head[p].seq)
    BY DEF PluginCalm, SavedCalm
  <2>. QED
    BY <2>1 DEF NextIs, Alike, NoneBetween
<1>3. ChosenCalm(e, p)
  BY <1>1 DEF PluginCalm, ChosenCalm
<1>4. PlannedCalm(e, p)
  BY <1>1 DEF PluginCalm, PlannedCalm, ChosenCalm, Planned
<1>. QED
  BY <1>2, <1>3, <1>4 DEF PluginCalm

LEMMA SameAlike == ASSUME NEW t PROVE Alike(t, t)
BY DEF Alike

\* A longer log, beyond what was said.
LEMMA LongerBetween ==
  ASSUME NEW d, NEW e, NEW p \in Plugins, NEW n \in Seqs, NoneBetween(d, p, n), n <= Len(d.log),
         Len(d.log) \in Nat, e.cursor = d.cursor, e.trigger = d.trigger,
         \A k \in 1 .. Len(d.log) : e.log[k] = d.log[k]
  PROVE  NoneBetween(e, p, n)
<1>. SUFFICES ASSUME NEW k \in Seqs, e.cursor[p] < k, k < n
              PROVE  e.trigger[p].query \notin e.log[k].edges
  BY DEF NoneBetween
<1>1. k \in 1 .. Len(d.log) /\ k <= Len(d.log)
  BY BoundsAssumption DEF Seqs
<1>. QED
  BY <1>1 DEF NoneBetween

LEMMA LongerCalm ==
  ASSUME Own, LogOK, NEW d, StoreOK(d), d = db, StoreCalm(d), NEW e,
         e.cursor = d.cursor, e.trigger = d.trigger, e.head = d.head,
         \A k \in 1 .. Len(d.log) : e.log[k] = d.log[k]
  PROVE  StoreCalm(e)
<1>. SUFFICES ASSUME NEW p \in Plugins PROVE PluginCalm(e, p)
  BY DEF StoreCalm
<1>1. /\ Len(d.log) \in Nat /\ PluginCalm(d, p) /\ Len(disk.log) \in Nat
      /\ Len(disk.log) <= Len(d.log) /\ d.head[p] \in Event \cup {None}
  BY StoreFields DEF StoreCalm, Own, Stores, LogOK
<1>2. \A n \in Seqs : n <= Len(d.log) /\ NoneBetween(d, p, n) => NoneBetween(e, p, n)
  BY <1>1, LongerBetween
<1>3. \A n \in Seqs : Chosen(p, n) => n <= Len(d.log)
  BY <1>1, BoundsAssumption DEF LogOK, Seqs
<1>4. SavedCalm(e, p)
  <2>. SUFFICES ASSUME e.head[p] # None PROVE NextIs(e, p, e.head[p].seq)
    BY DEF SavedCalm
  <2>1. /\ NextIs(d, p, e.head[p].seq) /\ e.head[p].seq \in Seqs
        /\ e.head[p].seq <= Len(d.log)
    BY <1>1 DEF PluginCalm, SavedCalm, Event, LogOK, Within
  <2>. QED
    BY <1>2, <2>1 DEF NextIs
<1>5. ChosenCalm(e, p)
  BY <1>1, <1>2, <1>3 DEF PluginCalm, ChosenCalm
<1>6. PlannedCalm(e, p)
  BY <1>1 DEF PluginCalm, PlannedCalm
<1>. QED
  BY <1>4, <1>5, <1>6 DEF PluginCalm

\* The same said of the next state.
LEMMA StoreCalmNext ==
  ASSUME NEW e, StoreCalm(e), db' = e, UNCHANGED journal
  PROVE  StoreCalm(db)'
BY DEF StoreCalm, PluginCalm, SavedCalm, ChosenCalm, PlannedCalm, NextIs, NoneBetween, Planned,
   Chosen

\* What is on disk was said of the store, now or before.
LEMMA DiskCalm ==
  ASSUME Quietly, StoreCalm(db)', disk' \in {disk, db'}, UNCHANGED journal \/ disk' = db'
  PROVE  StoreCalm(disk)'
<1>1. CASE disk' = db'
  BY <1>1 DEF StoreCalm, PluginCalm, SavedCalm, ChosenCalm, PlannedCalm, NextIs, NoneBetween,
     Planned, Chosen
<1>2. CASE disk' = disk /\ UNCHANGED journal
  BY <1>2, QuietFacts DEF StoreCalm, PluginCalm, SavedCalm, ChosenCalm, PlannedCalm, NextIs,
     NoneBetween, Planned, Chosen
<1>. QED
  BY <1>1, <1>2

-----------------------------------------------------------------------------
(* Steps that leave what is said of the plugins *)

WorkerCalm == SeenCalm /\ EdgeCalm /\ OpenCalm /\ AnswerCalm

SameSaid == /\ db'.log = db.log /\ db'.cursor = db.cursor /\ db'.head = db.head
            /\ \A p \in Plugins : Alike(db.trigger[p], db'.trigger[p])

LEMMA SameStoreSaid == ASSUME UNCHANGED db PROVE SameSaid
BY SameAlike DEF SameSaid

LEMMA SaidStoreCalm == ASSUME Quietly, SameSaid, UNCHANGED journal PROVE StoreCalm(db)'
<1>1. PICK e : e = db'
  OBVIOUS
<1>2. ASSUME NEW p \in Plugins PROVE PluginCalm(e, p)
  <2>1. PluginCalm(db, p)
    BY QuietFacts DEF StoreCalm
  <2>2. PICK d : d = db
    OBVIOUS
  <2>3. /\ PluginCalm(d, p) /\ e.log = d.log /\ e.head[p] = d.head[p]
        /\ e.cursor[p] = d.cursor[p] /\ Alike(d.trigger[p], e.trigger[p])
    BY <1>1, <2>1, <2>2 DEF SameSaid
  <2>. QED
    BY <2>3, AlikeCalm
<1>3. StoreCalm(e)
  BY <1>2 DEF StoreCalm
<1>. QED
  BY <1>1, <1>3, StoreCalmNext

LEMMA SaidSeenCalm ==
  ASSUME Quietly, SameSaid, worker'.seen \in {worker.seen, db.trigger}
  PROVE  SeenCalm'
BY QuietFacts DEF SeenCalm, SameSaid, Alike

\* The worker lets go of its edge, or has none.
LEMMA RoundCalm ==
  ASSUME Quietly, SameSaid, worker'.pc \in {"idle", "round"},
         \/ worker'.seen \in {worker.seen, db.trigger}
         \/ worker' = Idle
  PROVE  WorkerCalm'
<1>1. SeenCalm'
  <2>1. CASE worker' = Idle
    BY <2>1 DEF SeenCalm, Idle
  <2>. QED
    BY <2>1, SaidSeenCalm
<1>2. ~Busy'
  BY DEF Busy
<1>. QED
  BY <1>1, <1>2 DEF WorkerCalm, EdgeCalm, OpenCalm, AnswerCalm

\* The worker stays at its edge.
AtSameEdge == /\ Busy /\ Busy' /\ worker'.p = worker.p /\ worker'.seen = worker.seen
              /\ worker'.event.seq = worker.event.seq

LEMMA SaidEdgeCalm ==
  ASSUME Quietly, SameSaid, AtSameEdge, UNCHANGED journal
  PROVE  SeenCalm' /\ EdgeCalm' /\ worker.p \in Plugins
<1>1. SeenCalm'
  BY SaidSeenCalm DEF AtSameEdge
<1>2. /\ worker.p \in Plugins /\ NextIs(db, worker.p, Edge)
      /\ db.head[worker.p] # None => db.head[worker.p].seq = Edge
  BY QuietFacts, BusyType DEF AtSameEdge, EdgeCalm, Own
<1>3. PICK p \in Plugins : p = worker.p /\ p = worker'.p
  BY <1>2 DEF AtSameEdge
<1>4. PICK n : n = Edge /\ n = Edge'
  BY DEF AtSameEdge, Edge
<1>5. NextIs(db, p, n)'
  BY <1>2, <1>3, <1>4 DEF NextIs, NoneBetween, Chosen, SameSaid, Alike
<1>6. db'.head[p] # None => db'.head[p].seq = n
  BY <1>2, <1>3, <1>4 DEF SameSaid
<1>7. NextIs(db, worker.p, Edge)' /\ (db'.head[worker'.p] # None => db'.head[worker'.p].seq = Edge')
  BY <1>3, <1>4, <1>5, <1>6
<1>. QED
  BY <1>1, <1>2, <1>7 DEF EdgeCalm

\* An open run is that of the edge at hand.
LEMMA PlannedIsEdge ==
  ASSUME Quietly, Busy, NEW n \in Seqs, Planned(worker.p, n)
  PROVE  /\ n = Edge /\ worker.pc \notin {"clean", "forget", "advance"}
         /\ Ready(worker.event) /\ Copy.auto
         /\ db.head[worker.p] # None /\ Ready(db.head[worker.p])
<1>1. worker.p \in Plugins /\ Copy # None
  BY QuietFacts, BusyType DEF Own, WorkerOK
<1>2. /\ db.head[worker.p] # None /\ db.head[worker.p].seq = n /\ Ready(db.head[worker.p])
      /\ db.trigger[worker.p].auto
  BY <1>1, QuietFacts DEF StoreCalm, PluginCalm, PlannedCalm
<1>3. Copy.auto
  BY <1>1, <1>2, QuietFacts DEF SeenCalm, Alike, Copy
<1>. QED
  BY <1>2, <1>3, QuietFacts DEF EdgeCalm, OpenCalm

\* A stage that says nothing of an answer.
Open == {"deliver", "admit", "run", "fail"}
Closed == {"clean", "forget"}

LEMMA OpenStage ==
  ASSUME Quietly, SameSaid, AtSameEdge, UNCHANGED journal, worker'.pc \in Open,
         worker'.event = worker.event
  PROVE  WorkerCalm'
<1>1. OpenCalm'
  BY QuietFacts DEF OpenCalm, AtSameEdge, Planned, Chosen, Ready, Open
<1>2. AnswerCalm'
  BY DEF AnswerCalm, Open
<1>. QED
  BY <1>1, <1>2, SaidEdgeCalm DEF WorkerCalm

\* The run of the edge is not open: whatever comes next is as good.
LEMMA ClosedStage ==
  ASSUME Quietly, SameSaid, AtSameEdge, UNCHANGED journal, worker'.pc \in Open \cup Closed,
         \A n \in Seqs : ~Planned(worker.p, n)
  PROVE  WorkerCalm'
<1>1. OpenCalm'
  BY DEF OpenCalm, AtSameEdge, Planned, Chosen
<1>2. AnswerCalm'
  BY DEF AnswerCalm, Open, Closed
<1>. QED
  BY <1>1, <1>2, SaidEdgeCalm DEF WorkerCalm

LEMMA GotoStage ==
  ASSUME Quietly, Busy, NEW pc \in Stages, Goto(pc)
  PROVE  AtSameEdge /\ worker'.pc = pc /\ worker'.event = worker.event
<1>1. worker' = [worker EXCEPT !.pc = pc]
  BY DEF Goto
<1>2. /\ worker'.pc = pc /\ worker'.p = worker.p /\ worker'.seen = worker.seen
      /\ worker'.event = worker.event
  BY <1>1, WorkerFields, QuietFacts DEF Own
<1>. QED
  BY <1>2 DEF AtSameEdge, Busy, Stages

LEMMA AttemptStage ==
  ASSUME Quietly, Busy, worker' = [worker EXCEPT !.pc = "run", !.attempted = @ + 1]
  PROVE  AtSameEdge /\ worker'.pc = "run" /\ worker'.event = worker.event
<1>1. /\ worker'.pc = "run" /\ worker'.p = worker.p /\ worker'.seen = worker.seen
      /\ worker'.event = worker.event
  BY WorkerFields, QuietFacts DEF Own
<1>. QED
  BY <1>1 DEF AtSameEdge, Busy

LEMMA ReturnStage ==
  ASSUME Quietly, Return
  PROVE  worker'.pc = "round" /\ worker'.seen = worker.seen
BY WorkerFields, QuietFacts DEF Return, Own

\* The trigger is stored as the round listed it, with another proposal or error.
LEMMA SetCopySaid ==
  ASSUME Quietly, Busy, NEW pending \in Verdicts \cup {None}, NEW error \in BOOLEAN,
         SetTrigger(worker.p, [Copy EXCEPT !.pending = pending, !.error = error])
  PROVE  SameSaid
<1>1. PICK p \in Plugins : p = worker.p
  BY BusyType, QuietFacts DEF Own
<1>2. PICK t \in Trigger : t = [Copy EXCEPT !.pending = pending, !.error = error]
  BY BusyType, QuietFacts DEF Own, Trigger
<1>3. db.trigger[p] # None /\ Copy # None /\ Copy \in Trigger
  BY <1>1, BusyType, QuietFacts DEF EdgeCalm, NextIs, Own, WorkerOK
<1>4. db' = [db EXCEPT !.trigger[p] = t]
  BY <1>1, <1>2, <1>3 DEF SetTrigger, Put
<1>5. t.query = Copy.query /\ t.auto = Copy.auto /\ t # None
  BY <1>2, <1>3, NoneNot DEF Trigger
<1>6. Alike(Copy, db.trigger[p])
  BY <1>1, <1>3, QuietFacts DEF SeenCalm, Copy
<1>7. /\ db'.log = db.log /\ db'.cursor = db.cursor /\ db'.head = db.head
      /\ \A q \in Plugins : db'.trigger[q] = IF q = p THEN t ELSE db.trigger[q]
  BY <1>4, StoreFields, QuietFacts
<1>8. Alike(db.trigger[p], t)
  BY <1>3, <1>5, <1>6 DEF Alike
<1>. QED
  BY <1>7, <1>8, SameAlike DEF SameSaid

LEMMA UsesSaid == ASSUME Quietly, UsesAction PROVE SameSaid
<1>1. /\ db'.log = db.log /\ db'.trigger = db.trigger
      /\ db'.head = db.head /\ db'.cursor = db.cursor
  BY UsesGrows, QuietFacts
<1>. QED
  BY <1>1, SameAlike DEF SameSaid

-----------------------------------------------------------------------------
(* Each step, while nobody touches the triggers *)

\* The store and the worker after a step.
NextCalm == StoreCalm(db)' /\ WorkerCalm'

LEMMA RoundStepCalm ==
  ASSUME Quietly, StartDrain \/ EndRound \/ CapReached \/ \E p \in Plugins : NotLeased(p)
  PROVE  NextCalm
<1>1. UNCHANGED db /\ UNCHANGED journal
  BY DEF StartDrain, EndRound, CapReached, NotLeased, storeVars, runVars
<1>2. SameSaid
  BY <1>1, SameStoreSaid
<1>3. CASE worker' = Idle
  <2>1. worker'.pc = "idle"
    BY <1>3 DEF Idle
  <2>. QED
    BY <1>1, <1>2, <1>3, <2>1, SaidStoreCalm, RoundCalm DEF NextCalm
<1>4. CASE worker' = Listed
  <2>1. worker'.pc = "round" /\ worker'.seen = db.trigger
    BY <1>4 DEF Idle, Listed
  <2>. QED
    BY <1>1, <1>2, <2>1, SaidStoreCalm, RoundCalm DEF NextCalm
<1>5. ASSUME NEW p \in Plugins, NotLeased(p) PROVE NextCalm
  <2>1. worker'.pc = "round" /\ worker'.seen = worker.seen
    BY <1>5, WorkerFields, QuietFacts DEF NotLeased, InTurn, At, Own
  <2>. QED
    BY <1>1, <1>2, <2>1, SaidStoreCalm, RoundCalm DEF NextCalm
<1>. QED
  BY <1>3, <1>4, <1>5 DEF StartDrain, EndRound, CapReached

LEMMA FlushCalm == ASSUME Quietly, Flush PROVE NextCalm
<1>1. UNCHANGED <<db, worker, journal>>
  BY DEF Flush, Save, workerVars, runVars
<1>2. StoreCalm(db)'
  BY <1>1, SameStoreSaid, SaidStoreCalm
<1>3. WorkerCalm'
  BY <1>1, QuietFacts DEF WorkerCalm, SeenCalm, EdgeCalm, OpenCalm, AnswerCalm, Busy, Edge, Copy,
     NextIs, NoneBetween, Planned, Chosen, Settled
<1>. QED
  BY <1>2, <1>3 DEF NextCalm

\* The drive changes, or the run that is applied logs or changes something.
LEMMA ChangedCalm ==
  ASSUME Quietly, NEW s \in Subjects \cup {RunRecord}, NEW by \in Plugins \cup {None},
         db' \in Changed(s, by), UNCHANGED <<worker, journal>>
  PROVE  NextCalm
<1>1. /\ db'.trigger = db.trigger /\ db'.head = db.head /\ db'.cursor = db.cursor
      /\ \A n \in 1 .. Len(db.log) : db'.log[n] = db.log[n]
      /\ Len(db.log) \in Nat
  <2>1. Own /\ LogOK /\ StoreOK(db)
    BY QuietFacts
  <2>2. Len(db.log) \in Nat
    BY <2>1, StoreFields
  <2>. QED
    BY <2>1, <2>2, ChangedGrows
<1>2. PICK d, e : d = db /\ e = db'
  OBVIOUS
<1>3. StoreCalm(e)
  <2>1. StoreOK(d) /\ StoreCalm(d)
    BY <1>2, QuietFacts
  <2>. QED
    BY <1>1, <1>2, <2>1, LongerCalm, QuietFacts
<1>4. StoreCalm(db)'
  BY <1>2, <1>3, StoreCalmNext
<1>5. SeenCalm'
  BY <1>1, QuietFacts DEF SeenCalm
<1>6. EdgeCalm'
  <2>. SUFFICES ASSUME Busy PROVE EdgeCalm'
    BY DEF EdgeCalm, Busy
  <2>1. PICK p \in Plugins, n \in Seqs : p = worker.p /\ n = Edge
    BY BusyType, QuietFacts DEF Own
  <2>2. NextIs(d, p, n) /\ n <= Len(d.log)
    BY <1>2, <2>1, QuietFacts DEF EdgeCalm, LogOK
  <2>3. NoneBetween(e, p, n)
    BY <1>1, <1>2, <2>2, LongerBetween DEF NextIs
  <2>4. NextIs(e, p, n)
    BY <1>1, <1>2, <2>2, <2>3 DEF NextIs
  <2>5. NextIs(db, p, n)'
    BY <1>2, <2>4 DEF NextIs, NoneBetween, Chosen
  <2>6. db'.head[p] # None => db'.head[p].seq = n
    BY <1>1, <2>1, QuietFacts DEF EdgeCalm
  <2>. QED
    BY <2>1, <2>5, <2>6 DEF EdgeCalm, Edge
<1>7. OpenCalm' /\ AnswerCalm'
  BY <1>1, QuietFacts DEF OpenCalm, AnswerCalm, Busy, Copy, Settled, Planned, Chosen
<1>. QED
  BY <1>4, <1>5, <1>6, <1>7 DEF NextCalm, WorkerCalm

\* Nothing to deliver: the cursor goes to the end of the log.
LEMMA PassOverCalm == ASSUME Quietly, NEW p \in Plugins, PassOver(p) PROVE NextCalm
<1>1. /\ worker.pc = "round" /\ p \in worker.todo /\ worker.seen[p] # None
      /\ UNCHANGED journal
  BY QuietFacts DEF PassOver, InTurn, At, Own, Turn, runVars
<1>2. worker'.pc = "round" /\ worker'.seen = worker.seen
  BY <1>1, WorkerFields, QuietFacts DEF PassOver, Own
<1>3. db.head[p] = None
  BY NoneNot, StoreFields, QuietFacts DEF PassOver, NextFor, NextEvent
<1>4. \/ db' = db
      \/ db' = [db EXCEPT !.cursor[p] = Len(db.log)] /\ Len(db.log) > db.cursor[p]
  BY DEF PassOver, Ack, Put, Save
<1>5. PICK d, e : d = db /\ e = db'
  OBVIOUS
<1>6. /\ e.log = d.log /\ e.head = d.head /\ e.trigger = d.trigger /\ StoreCalm(d)
      /\ \A q \in Plugins : d.cursor[q] <= e.cursor[q] /\ (q # p => e.cursor[q] = d.cursor[q])
      /\ \A q \in Plugins : d.cursor[q] \in Nat /\ e.cursor[q] \in Nat
  <2>1. /\ e.log = d.log /\ e.head = d.head /\ e.trigger = d.trigger /\ StoreCalm(d)
        /\ \A q \in Plugins : e.cursor[q] = d.cursor[q]
                              \/ (q = p /\ e.cursor[q] = Len(d.log) /\ d.cursor[q] < Len(d.log))
    BY <1>4, <1>5, StoreFields, QuietFacts
  <2>2. Len(d.log) \in Nat /\ \A q \in Plugins : d.cursor[q] \in Nat
    BY <1>5, StoreFields, QuietFacts, BoundsAssumption
  <2>. QED
    BY <2>1, <2>2
<1>7. ASSUME NEW q \in Plugins PROVE PluginCalm(e, q)
  <2>1. PluginCalm(d, q)
    BY <1>6 DEF StoreCalm
  <2>2. ASSUME NEW n \in Seqs, NoneBetween(d, q, n) PROVE NoneBetween(e, q, n)
    <3>1. \A k \in Seqs : e.cursor[q] < k => d.cursor[q] < k
      BY <1>6, BoundsAssumption DEF Seqs
    <3>. QED
      BY <1>6, <2>2, <3>1 DEF NoneBetween
  <2>3. CASE q = p
    BY <1>3, <1>5, <1>6, <2>1, <2>2, <2>3 DEF PluginCalm, SavedCalm, ChosenCalm, PlannedCalm
  <2>4. CASE q # p
    BY <1>6, <2>1, <2>4, SameAlike, AlikeCalm
  <2>. QED
    BY <2>3, <2>4
<1>8. StoreCalm(e)
  BY <1>7 DEF StoreCalm
<1>9. StoreCalm(db)'
  BY <1>1, <1>5, <1>8, StoreCalmNext
<1>10. SeenCalm'
  BY <1>2, <1>5, <1>6, QuietFacts DEF SeenCalm
<1>. QED
  BY <1>2, <1>9, <1>10 DEF NextCalm, WorkerCalm, EdgeCalm, OpenCalm, AnswerCalm, Busy

\* The next event of the plugin is taken up.
LEMMA PickCalm == ASSUME Quietly, NEW p \in Plugins, Pick(p) PROVE NextCalm
<1>1. /\ worker.pc = "round" /\ p \in worker.todo /\ worker.seen[p] # None
      /\ UNCHANGED <<db, journal>>
  BY QuietFacts DEF Pick, InTurn, At, Own, Turn, runVars, storeVars
<1>2. /\ worker'.pc = "deliver" /\ worker'.p = p /\ worker'.seen = worker.seen
      /\ worker'.event = NextFor(p)
  BY <1>1, WorkerFields, QuietFacts DEF Pick, Own
<1>3. Alike(worker.seen[p], db.trigger[p])
  BY <1>1, QuietFacts DEF SeenCalm
<1>4. PICK e \in Event : e = NextFor(p)
  BY QuietFacts, NextEventType DEF Pick, NextFor, Own
<1>5. /\ \/ db.head[p] # None /\ e = db.head[p]
         \/ /\ db.head[p] = None
            /\ e.seq \in Wanted(p, worker.seen[p])
            /\ \A m \in Wanted(p, worker.seen[p]) : e.seq <= m
  BY <1>4, NextEventSeq DEF Pick, NextFor
<1>6. PluginCalm(db, p) /\ e.seq \in Seqs /\ e.seq \in Nat /\ db.cursor[p] \in Nat
      /\ Len(db.log) \in Nat
  BY QuietFacts, StoreFields, BoundsAssumption DEF StoreCalm, Event, Seqs
<1>7. NextIs(db, p, e.seq)
  <2>1. CASE db.head[p] # None
    BY <1>5, <1>6, <2>1 DEF PluginCalm, SavedCalm
  <2>2. CASE db.head[p] = None
    <3>1. /\ db.trigger[p] # None /\ db.trigger[p].query = worker.seen[p].query
      BY <1>1, <1>3 DEF Alike
    <3>2. db.cursor[p] < e.seq
      BY <1>5, <2>2 DEF Wanted
    <3>3. NoneBetween(db, p, e.seq)
      <4>. SUFFICES ASSUME NEW k \in Seqs, db.cursor[p] < k, k < e.seq, k <= Len(db.log),
                           db.trigger[p].query \in db.log[k].edges
                    PROVE  FALSE
        BY DEF NoneBetween
      <4>1. k \in Wanted(p, worker.seen[p]) /\ k \in Nat
        BY <3>1, BoundsAssumption DEF Wanted, Seqs
      <4>. QED
        BY <1>5, <1>6, <2>2, <4>1
    <3>4. ASSUME NEW m \in Seqs, Chosen(p, m) PROVE m <= e.seq
      <4>1. NoneBetween(db, p, m) /\ m \in Nat
        BY <1>6, <3>4, BoundsAssumption DEF PluginCalm, ChosenCalm, Seqs
      <4>2. e.seq <= Len(db.log) /\ db.trigger[p].query \in db.log[e.seq].edges
        BY <1>5, <2>2, <3>1 DEF Wanted
      <4>3. ~ (e.seq < m)
        BY <1>6, <3>2, <4>1, <4>2 DEF NoneBetween
      <4>. QED
        BY <1>6, <4>1, <4>3
    <3>. QED
      BY <3>1, <3>2, <3>3, <3>4 DEF NextIs
  <2>. QED
    BY <2>1, <2>2
<1>8. NextIs(db, p, e.seq)'
  BY <1>1, <1>7 DEF NextIs, NoneBetween, Chosen
<1>9. EdgeCalm'
  BY <1>1, <1>2, <1>4, <1>5, <1>8 DEF EdgeCalm, Edge
<1>10. OpenCalm'
  <2>. SUFFICES ASSUME NEW n \in Seqs, Planned(p, n) PROVE Ready(e)
    BY <1>1, <1>2, <1>4 DEF OpenCalm, Planned, Chosen, Ready
  <2>. QED
    BY <1>5, <1>6 DEF PluginCalm, PlannedCalm
<1>11. AnswerCalm'
  BY <1>2 DEF AnswerCalm
<1>12. SameSaid
  BY <1>1, SameStoreSaid
<1>13. StoreCalm(db)' /\ SeenCalm'
  BY <1>1, <1>2, <1>12, SaidStoreCalm, SaidSeenCalm
<1>. QED
  BY <1>9, <1>10, <1>11, <1>13 DEF NextCalm, WorkerCalm

LEMMA CrashCalm == ASSUME Quietly, Crash PROVE NextCalm
<1>1. PICK t : t = [p \in Plugins |-> Restarted(p)]
  OBVIOUS
<1>2. db' = [disk EXCEPT !.trigger = t] /\ UNCHANGED journal /\ worker' = Idle
  BY <1>1 DEF Crash, Recorded!Crash
<1>3. PICK d, e : d = disk /\ e = db'
  OBVIOUS
<1>4. StoreOK(d) /\ StoreCalm(d)
  BY <1>3, QuietFacts
<1>5. e.log = d.log /\ e.head = d.head /\ e.cursor = d.cursor /\ e.trigger = t
  BY <1>2, <1>3, <1>4, StoreFields
<1>6. ASSUME NEW p \in Plugins PROVE Alike(d.trigger[p], Restarted(p)) /\ t[p] = Restarted(p)
  <2>1. d.trigger[p] \in Trigger \cup {None}
    BY <1>4, StoreFields
  <2>2. ASSUME d.trigger[p] \in Trigger
        PROVE  LET u == [d.trigger[p] EXCEPT !.error = @ /\ d.trigger[p].pending = None,
                                             !.pending = None]
               IN  u \in Trigger /\ u.query = d.trigger[p].query /\ u.auto = d.trigger[p].auto
    BY <2>2 DEF Trigger
  <2>3. CASE d.trigger[p] = None \/ d.head[p] # None
    BY <1>1, <1>3, <2>3, SameAlike DEF Restarted
  <2>4. CASE d.trigger[p] # None /\ d.head[p] = None
    BY <1>1, <1>3, <2>1, <2>2, <2>4, NoneNot DEF Restarted, Alike
  <2>. QED
    BY <2>3, <2>4
<1>7. ASSUME NEW p \in Plugins PROVE PluginCalm(e, p)
  BY <1>4, <1>5, <1>6, AlikeCalm DEF StoreCalm
<1>8. StoreCalm(db)'
  BY <1>2, <1>3, <1>7, StoreCalmNext DEF StoreCalm
<1>9. WorkerCalm'
  BY <1>2 DEF WorkerCalm, SeenCalm, EdgeCalm, OpenCalm, AnswerCalm, Busy, Idle
<1>. QED
  BY <1>8, <1>9 DEF NextCalm

-----------------------------------------------------------------------------
(* The worker at an edge, while nobody touches the triggers *)

\* The edge is let go of for this round.
LEMMA LetGoCalm == ASSUME Quietly, Busy, Return, SameSaid, UNCHANGED journal PROVE NextCalm
BY ReturnStage, RoundCalm, SaidStoreCalm DEF NextCalm

\* The step ends with the edge still open.
LEMMA GotoOpenCalm ==
  ASSUME Quietly, Busy, NEW pc \in Open, Goto(pc), SameSaid, UNCHANGED journal
  PROVE  NextCalm
<1>1. pc \in Stages
  BY DEF Open, Stages
<1>. QED
  BY <1>1, GotoStage, OpenStage, SaidStoreCalm DEF NextCalm

\* The step is taken when the run of the edge is not open.
LEMMA GotoClosedCalm ==
  ASSUME Quietly, Busy, NEW pc \in Open \cup Closed, Goto(pc), SameSaid, UNCHANGED journal,
         \A n \in Seqs : ~Planned(worker.p, n)
  PROVE  NextCalm
<1>1. pc \in Stages
  BY DEF Open, Closed, Stages
<1>. QED
  BY <1>1, GotoStage, ClosedStage, SaidStoreCalm DEF NextCalm

\* An edge that has no answer, or one that waits, has no open run.
LEMMA NotPlanned ==
  ASSUME Quietly, Busy,
         worker.event.verdict \in Waiting \cup {None} \/ worker.event.waiting
  PROVE  \A n \in Seqs : ~Planned(worker.p, n)
BY PlannedIsEdge DEF Ready

LEMMA DeliverEndedCalm == ASSUME Quietly, DeliverEnded PROVE NextCalm
<1>1. Busy /\ Goto("forget") /\ UNCHANGED journal /\ journal[Run].end # "open"
  BY DEF DeliverEnded, At, Busy, runVars
<1>2. SameSaid
  <2>1. CASE UNCHANGED storeVars
    BY <2>1, SameStoreSaid DEF storeVars
  <2>2. CASE SetTrigger(worker.p, [Copy EXCEPT !.pending = None, !.error = FALSE])
    BY <1>1, <2>2, SetCopySaid
  <2>. QED
    BY <2>1, <2>2 DEF DeliverEnded
<1>3. \A n \in Seqs : ~Planned(worker.p, n)
  BY <1>1, PlannedIsEdge DEF Planned, Run
<1>4. PICK pc \in Open \cup Closed : pc = "forget"
  BY DEF Closed
<1>. QED
  BY <1>1, <1>2, <1>3, <1>4, GotoClosedCalm

LEMMA DeliverWaitsCalm == ASSUME Quietly, DeliverWaits PROVE NextCalm
<1>1. Busy /\ SameSaid /\ UNCHANGED journal /\ worker.event.verdict \in Waiting
  BY SameStoreSaid DEF DeliverWaits, Deliverable, WaitsOnAction, At, Busy, runVars, storeVars
<1>2. \A n \in Seqs : ~Planned(worker.p, n)
  BY <1>1, NotPlanned
<1>3. CASE Goto("fail")
  <2>1. PICK pc \in Open \cup Closed : pc = "fail"
    BY DEF Open
  <2>. QED
    BY <1>1, <1>2, <1>3, <2>1, GotoClosedCalm
<1>4. CASE worker' = [worker EXCEPT !.pc = "admit", !.resuming = TRUE,
                                    !.event.verdict = None, !.event.waiting = FALSE]
  <2>1. AtSameEdge /\ worker'.pc \in Open
    BY <1>1, <1>4, ResumeMoves, QuietFacts DEF AtSameEdge, Busy, Open
  <2>. QED
    BY <1>1, <1>2, <2>1, ClosedStage, SaidStoreCalm DEF NextCalm
<1>. QED
  BY <1>1, <1>3, <1>4, LetGoCalm DEF DeliverWaits

LEMMA DeliverProposalCalm == ASSUME Quietly, DeliverProposal PROVE NextCalm
<1>1. Busy /\ SameSaid /\ UNCHANGED journal /\ worker.event.waiting
  BY SameStoreSaid DEF DeliverProposal, Deliverable, At, Busy, runVars, storeVars
<1>2. \A n \in Seqs : ~Planned(worker.p, n)
  BY <1>1, NotPlanned
<1>3. CASE Goto("forget")
  <2>1. PICK pc \in Open \cup Closed : pc = "forget"
    BY DEF Closed
  <2>. QED
    BY <1>1, <1>2, <1>3, <2>1, GotoClosedCalm
<1>4. CASE worker' = [worker EXCEPT !.pc = "admit", !.event.waiting = FALSE]
  <2>1. AtSameEdge /\ worker'.pc \in Open
    BY <1>1, <1>4, GrantMoves, QuietFacts DEF AtSameEdge, Busy, Open
  <2>. QED
    BY <1>1, <1>2, <2>1, ClosedStage, SaidStoreCalm DEF NextCalm
<1>. QED
  BY <1>1, <1>3, <1>4, LetGoCalm DEF DeliverProposal

LEMMA DeliverEdgeCalm == ASSUME Quietly, DeliverEdge PROVE NextCalm
<1>1. Busy /\ SameSaid /\ UNCHANGED journal /\ Goto("admit")
  BY SameStoreSaid DEF DeliverEdge, Deliverable, At, Busy, runVars, storeVars
<1>2. PICK pc \in Open : pc = "admit"
  BY DEF Open
<1>. QED
  BY <1>1, <1>2, GotoOpenCalm

LEMMA AttemptCalm ==
  ASSUME Quietly, Busy, SameSaid, UNCHANGED journal,
         worker' = [worker EXCEPT !.pc = "run", !.attempted = @ + 1]
  PROVE  NextCalm
<1>1. AtSameEdge /\ worker'.pc \in Open /\ worker'.event = worker.event
  BY AttemptStage DEF Open
<1>. QED
  BY <1>1, OpenStage, SaidStoreCalm DEF NextCalm

LEMMA AdmitCalm ==
  ASSUME Quietly, AdmitStopped \/ AdmitStarted \/ AdmitEcho \/ Admit
  PROVE  NextCalm
<1>1. Busy /\ SameSaid /\ UNCHANGED journal
  BY SameStoreSaid DEF AdmitStopped, AdmitStarted, AdmitEcho, Admit, Admits, At, Busy, runVars,
     storeVars
<1>2. CASE AdmitEcho
  <2>1. Goto("forget") /\ worker.event.verdict = None
    BY <1>2 DEF AdmitEcho, Admits, Started
  <2>2. \A n \in Seqs : ~Planned(worker.p, n)
    BY <1>1, <2>1, NotPlanned
  <2>3. PICK pc \in Open \cup Closed : pc = "forget"
    BY DEF Closed
  <2>. QED
    BY <1>1, <2>1, <2>2, <2>3, GotoClosedCalm
<1>3. CASE Goto("fail")
  <2>1. PICK pc \in Open : pc = "fail"
    BY DEF Open
  <2>. QED
    BY <1>1, <1>3, <2>1, GotoOpenCalm
<1>. QED
  BY <1>1, <1>2, <1>3, AttemptCalm, LetGoCalm DEF AdmitStopped, AdmitStarted, Admit

LEMMA RunFailsCalm == ASSUME Quietly, RunFails PROVE NextCalm
<1>1. Busy /\ SameSaid /\ UNCHANGED journal /\ Goto("fail")
  BY SameStoreSaid, UsesSaid DEF RunFails, At, Busy, runVars, storeVars
<1>2. PICK pc \in Open : pc = "fail"
  BY DEF Open
<1>. QED
  BY <1>1, <1>2, GotoOpenCalm

\* An open run had its answer before, and has the same one now.
LEMMA RunScriptCalm == ASSUME Quietly, RunScript PROVE NextCalm
<1>1. Busy /\ UNCHANGED journal
  BY DEF RunScript, At, Busy, runVars
<1>2. SameSaid
  BY SameStoreSaid, UsesSaid DEF RunScript, storeVars
<1>3. PICK v \in Verdicts :
        /\ worker'.pc = "save" /\ worker'.p = worker.p /\ worker'.seen = worker.seen
        /\ worker'.event.seq = worker.event.seq /\ worker'.event.verdict = v
        /\ worker'.event.waiting = (v \in Waiting \/ ~Copy.auto)
        /\ worker.event.verdict # None => v = worker.event.verdict
  BY ScriptMoves, QuietFacts
<1>4. AtSameEdge
  BY <1>1, <1>3 DEF AtSameEdge, Busy
<1>5. OpenCalm'
  <2>. SUFFICES ASSUME NEW n \in Seqs, Planned(worker.p, n) PROVE Ready(worker'.event)
    BY <1>1, <1>3 DEF OpenCalm, Planned, Chosen
  <2>. QED
    BY <1>1, <1>3, PlannedIsEdge DEF Ready
<1>6. AnswerCalm'
  <2>1. v # None
    BY ValuesAssumption
  <2>2. Copy' = Copy
    BY <1>3 DEF Copy
  <2>. QED
    BY <1>3, <2>1, <2>2 DEF AnswerCalm, Settled
<1>. QED
  BY <1>1, <1>2, <1>4, <1>5, <1>6, SaidEdgeCalm, SaidStoreCalm DEF NextCalm, WorkerCalm

\* A step between the stages of an answer: what is saved of it stays.
LEMMA AnswerStage ==
  ASSUME Quietly, Busy, NEW pc \in {"grant", "apply"}, Goto(pc), SameSaid, UNCHANGED journal,
         worker.pc \in {"propose", "grant"}, ~worker.event.waiting
  PROVE  NextCalm
<1>1. pc \in Stages
  BY DEF Stages
<1>2. AtSameEdge /\ worker'.pc = pc /\ worker'.event = worker.event
  BY <1>1, GotoStage
<1>3. OpenCalm'
  BY <1>2, QuietFacts DEF OpenCalm, AtSameEdge, Planned, Chosen
<1>4. AnswerCalm'
  <2>1. Settled /\ db.head[worker.p] = worker.event
    BY QuietFacts DEF AnswerCalm
  <2>2. Settled' /\ db'.head[worker'.p] = worker'.event /\ ~worker'.event.waiting
    BY <1>2, <2>1 DEF Settled, Copy, AtSameEdge, SameSaid
  <2>. QED
    BY <1>2, <2>2 DEF AnswerCalm
<1>. QED
  BY <1>2, <1>3, <1>4, SaidEdgeCalm, SaidStoreCalm DEF NextCalm, WorkerCalm

LEMMA ProposeCalm == ASSUME Quietly, Propose PROVE NextCalm
<1>1. /\ worker.pc = "propose" /\ Busy /\ UNCHANGED journal
      /\ worker.event \in Event /\ Copy \in Trigger
  BY BusyType, QuietFacts DEF Propose, At, Busy, Own, runVars
<1>2. [Copy EXCEPT !.pending = worker.event.verdict]
        = [Copy EXCEPT !.pending = worker.event.verdict, !.error = Copy.error]
  BY <1>1 DEF Trigger
<1>3. worker.event.verdict \in Verdicts \cup {None} /\ Copy.error \in BOOLEAN
  BY <1>1 DEF Event, Trigger
<1>4. SameSaid
  BY <1>1, <1>2, <1>3, SetCopySaid DEF Propose
<1>5. CASE worker.event.waiting
  BY <1>1, <1>4, <1>5, LetGoCalm DEF Propose
<1>6. CASE ~worker.event.waiting
  <2>1. Goto("grant")
    BY <1>6 DEF Propose
  <2>2. PICK pc \in {"grant", "apply"} : pc = "grant"
    OBVIOUS
  <2>. QED
    BY <1>1, <1>4, <1>6, <2>1, <2>2, AnswerStage
<1>. QED
  BY <1>5, <1>6

LEMMA CallHostCalm == ASSUME Quietly, CallHost PROVE NextCalm
<1>1. /\ worker.pc = "grant" /\ Busy /\ UNCHANGED journal /\ Goto("apply") /\ SameSaid
  BY SameStoreSaid DEF CallHost, At, Busy, Recorded!Call
<1>2. ~worker.event.waiting
  BY <1>1, QuietFacts DEF AnswerCalm
<1>3. PICK pc \in {"grant", "apply"} : pc = "apply"
  OBVIOUS
<1>. QED
  BY <1>1, <1>2, <1>3, AnswerStage

\* What the worker's own edge is known by.
LEMMA EdgeFacts ==
  ASSUME Quietly, Busy
  PROVE  /\ worker.p \in Plugins /\ worker.event \in Event /\ Edge \in Seqs /\ Edge \in Nat
         /\ NextIs(db, worker.p, Edge)
         /\ db.head[worker.p] # None => db.head[worker.p].seq = Edge
         /\ db.trigger[worker.p] # None /\ db.trigger[worker.p].auto = Copy.auto
<1>1. /\ worker.p \in Plugins /\ worker.event \in Event /\ Edge \in Seqs /\ Copy # None
  BY QuietFacts, BusyType DEF Own, WorkerOK
<1>2. Edge \in Nat
  BY <1>1, BoundsAssumption DEF Seqs
<1>3. Alike(Copy, db.trigger[worker.p])
  BY <1>1, QuietFacts DEF SeenCalm, Copy
<1>4. /\ NextIs(db, worker.p, Edge)
      /\ db.head[worker.p] # None => db.head[worker.p].seq = Edge
  BY QuietFacts DEF EdgeCalm
<1>. QED
  BY <1>1, <1>2, <1>3, <1>4 DEF Alike

\* The answer is saved with its edge.
LEMMA SaveEventCalm == ASSUME Quietly, SaveEvent PROVE NextCalm
<1>1. worker.pc = "save" /\ Busy /\ UNCHANGED journal /\ Goto("propose")
  BY DEF SaveEvent, At, Busy, runVars
<1>2. AtSameEdge /\ worker'.pc = "propose" /\ worker'.event = worker.event
  BY <1>1, GotoStage DEF Stages
<1>3. PICK p \in Plugins, d \in {db}, e \in {db'} : p = worker.p
  BY <1>1, EdgeFacts
<1>4. /\ e.log = d.log /\ e.cursor = d.cursor /\ e.trigger = d.trigger
      /\ \A q \in Plugins : e.head[q] = IF q = p THEN worker.event ELSE d.head[q]
  BY <1>3, StoreFields, QuietFacts DEF SaveEvent, Save
<1>5. /\ NextIs(d, p, Edge) /\ StoreCalm(d) /\ worker.event.seq = Edge
      /\ worker.event # None
  BY <1>1, <1>3, EdgeFacts, QuietFacts, NoneNot DEF Edge
<1>6. ASSUME NEW q \in Plugins PROVE PluginCalm(e, q)
  <2>1. PluginCalm(d, q)
    BY <1>5 DEF StoreCalm
  <2>2. CASE q # p
    BY <1>4, <2>1, <2>2, SameAlike, AlikeCalm
  <2>3. CASE q = p
    <3>1. SavedCalm(e, p)
      BY <1>4, <1>5 DEF SavedCalm, NextIs, NoneBetween
    <3>2. ChosenCalm(e, p)
      BY <1>4, <2>1, <2>3 DEF PluginCalm, ChosenCalm, NoneBetween
    <3>3. PlannedCalm(e, p)
      <4>. SUFFICES ASSUME NEW n \in Seqs, Planned(p, n)
                    PROVE  e.head[p] # None /\ e.head[p].seq = n /\ Ready(e.head[p])
                           /\ e.trigger[p].auto
        BY DEF PlannedCalm
      <4>1. n = Edge /\ Ready(worker.event)
        BY <1>1, <1>3, PlannedIsEdge
      <4>. QED
        BY <1>4, <1>5, <2>1, <2>3, <4>1 DEF PluginCalm, PlannedCalm
    <3>. QED
      BY <2>3, <3>1, <3>2, <3>3 DEF PluginCalm
  <2>. QED
    BY <2>2, <2>3
<1>7. StoreCalm(db)'
  BY <1>1, <1>3, <1>6, StoreCalmNext DEF StoreCalm
<1>8. SeenCalm'
  BY <1>2, <1>3, <1>4, QuietFacts DEF SeenCalm, AtSameEdge
<1>9. EdgeCalm'
  <2>1. NextIs(e, p, Edge)
    BY <1>4, <1>5 DEF NextIs, NoneBetween
  <2>2. PICK n : n = Edge /\ n = Edge'
    BY <1>2 DEF Edge
  <2>3. NextIs(db, p, n)'
    BY <1>1, <1>3, <2>1, <2>2 DEF NextIs, NoneBetween, Chosen
  <2>. QED
    BY <1>2, <1>3, <1>4, <1>5, <2>2, <2>3 DEF EdgeCalm, AtSameEdge
<1>10. OpenCalm'
  BY <1>1, <1>2, QuietFacts DEF OpenCalm, AtSameEdge, Planned, Chosen
<1>11. AnswerCalm'
  <2>1. Settled'
    BY <1>1, <1>2, QuietFacts DEF AnswerCalm, Settled, AtSameEdge, Copy
  <2>2. db'.head[worker'.p] = worker'.event
    BY <1>2, <1>3, <1>4 DEF AtSameEdge
  <2>. QED
    BY <1>2, <2>1, <2>2 DEF AnswerCalm
<1>. QED
  BY <1>7, <1>8, <1>9, <1>10, <1>11 DEF NextCalm, WorkerCalm

\* The event is forgotten: its run is over, or was never begun.
LEMMA ForgetCalm == ASSUME Quietly, Forget PROVE NextCalm
<1>1. worker.pc = "forget" /\ Busy /\ UNCHANGED journal /\ Goto("advance")
  BY DEF Forget, At, Busy, runVars
<1>2. AtSameEdge /\ worker'.pc = "advance" /\ worker'.event = worker.event
  BY <1>1, GotoStage DEF Stages
<1>3. PICK p \in Plugins, d \in {db}, e \in {db'} : p = worker.p
  BY <1>1, EdgeFacts
<1>4. /\ e.log = d.log /\ e.cursor = d.cursor /\ e.trigger = d.trigger
      /\ \A q \in Plugins : e.head[q] = IF q = p THEN None ELSE d.head[q]
  BY <1>3, StoreFields, QuietFacts DEF Forget, Put
<1>5. NextIs(d, p, Edge) /\ StoreCalm(d)
  BY <1>1, <1>3, EdgeFacts, QuietFacts
<1>6. \A n \in Seqs : ~Planned(p, n)
  BY <1>1, <1>3, PlannedIsEdge
<1>7. ASSUME NEW q \in Plugins PROVE PluginCalm(e, q)
  <2>1. PluginCalm(d, q)
    BY <1>5 DEF StoreCalm
  <2>2. CASE q # p
    BY <1>4, <2>1, <2>2, SameAlike, AlikeCalm
  <2>3. CASE q = p
    BY <1>4, <1>6, <2>1, <2>3 DEF PluginCalm, SavedCalm, ChosenCalm, PlannedCalm, NoneBetween
  <2>. QED
    BY <2>2, <2>3
<1>8. StoreCalm(db)'
  BY <1>1, <1>3, <1>7, StoreCalmNext DEF StoreCalm
<1>9. SeenCalm'
  BY <1>2, <1>3, <1>4, QuietFacts DEF SeenCalm, AtSameEdge
<1>10. EdgeCalm'
  <2>1. NextIs(e, p, Edge)
    BY <1>4, <1>5 DEF NextIs, NoneBetween
  <2>2. PICK n : n = Edge /\ n = Edge'
    BY <1>2 DEF Edge
  <2>3. NextIs(db, p, n)'
    BY <1>1, <1>3, <2>1, <2>2 DEF NextIs, NoneBetween, Chosen
  <2>. QED
    BY <1>2, <1>3, <1>4, <2>2, <2>3 DEF EdgeCalm, AtSameEdge
<1>11. OpenCalm' /\ AnswerCalm'
  BY <1>1, <1>2, <1>3, <1>4, <1>6 DEF OpenCalm, AnswerCalm, AtSameEdge, Planned, Chosen
<1>. QED
  BY <1>8, <1>9, <1>10, <1>11 DEF NextCalm, WorkerCalm

\* The cursor passes the edge, and with it all the plugin's runs.
LEMMA AdvanceCalm == ASSUME Quietly, Advance PROVE NextCalm
<1>1. worker.pc = "advance" /\ Busy /\ UNCHANGED journal /\ Return
  BY DEF Advance, At, Busy, runVars
<1>2. worker'.pc = "round" /\ worker'.seen = worker.seen
  BY <1>1, ReturnStage
<1>3. PICK p \in Plugins, d \in {db}, e \in {db'} : p = worker.p
  BY <1>1, EdgeFacts
<1>4. NextIs(d, p, Edge) /\ StoreCalm(d) /\ d.head[p] = None
  BY <1>1, <1>3, EdgeFacts, QuietFacts DEF AnswerCalm
<1>5. /\ e.log = d.log /\ e.head = d.head /\ e.trigger = d.trigger
      /\ \A q \in Plugins : e.cursor[q] = IF q = p THEN Edge ELSE d.cursor[q]
  <2>1. Edge > d.cursor[p]
    <3>1. Edge \in Nat /\ d.cursor[p] \in Nat /\ d.cursor[p] < Edge
      BY <1>1, <1>3, <1>4, EdgeFacts, StoreFields, QuietFacts, BoundsAssumption DEF NextIs
    <3>. QED
      BY <3>1
  <2>2. e = [d EXCEPT !.cursor[p] = Edge]
    BY <1>3, <2>1 DEF Advance, Save
  <2>3. StoreOK(d)
    BY QuietFacts
  <2>. QED
    BY <2>2, <2>3, StoreFields
<1>6. \A n \in Seqs : ~Planned(p, n)
  BY <1>1, <1>3, PlannedIsEdge
<1>7. \A n \in Seqs : n <= Edge => NoneBetween(e, p, n)
  <2>. SUFFICES ASSUME NEW n \in Seqs, n <= Edge, NEW k \in Seqs, e.cursor[p] < k, k < n
                PROVE  FALSE
    BY DEF NoneBetween
  <2>. QED
    BY <1>1, <1>5, EdgeFacts, BoundsAssumption DEF Seqs
<1>8. ASSUME NEW q \in Plugins PROVE PluginCalm(e, q)
  <2>1. PluginCalm(d, q)
    BY <1>4 DEF StoreCalm
  <2>2. CASE q # p
    BY <1>5, <2>1, <2>2, SameAlike, AlikeCalm
  <2>3. CASE q = p
    <3>1. SavedCalm(e, p) /\ PlannedCalm(e, p)
      BY <1>4, <1>5, <1>6 DEF SavedCalm, PlannedCalm
    <3>2. ChosenCalm(e, p)
      BY <1>4, <1>5, <1>7 DEF ChosenCalm, NextIs
    <3>. QED
      BY <2>3, <3>1, <3>2 DEF PluginCalm
  <2>. QED
    BY <2>2, <2>3
<1>9. StoreCalm(db)'
  BY <1>1, <1>3, <1>8, StoreCalmNext DEF StoreCalm
<1>10. SeenCalm'
  BY <1>2, <1>3, <1>5, QuietFacts DEF SeenCalm
<1>. QED
  BY <1>2, <1>9, <1>10 DEF NextCalm, WorkerCalm, EdgeCalm, OpenCalm, AnswerCalm, Busy

LEMMA CleanCalm == ASSUME Quietly, Clean PROVE NextCalm
<1>1. worker.pc = "clean" /\ Busy /\ UNCHANGED journal /\ Goto("forget")
  BY DEF Clean, At, Busy, runVars
<1>2. SameSaid
  BY <1>1, SetCopySaid DEF Clean
<1>3. \A n \in Seqs : ~Planned(worker.p, n)
  BY <1>1, PlannedIsEdge
<1>4. PICK pc \in Open \cup Closed : pc = "forget"
  BY DEF Closed
<1>. QED
  BY <1>1, <1>2, <1>3, <1>4, GotoClosedCalm

\* The error goes on the trigger that is stored.
LEMMA FailCalm == ASSUME Quietly, Fail PROVE NextCalm
<1>1. worker.pc = "fail" /\ Busy /\ UNCHANGED journal /\ Return
  BY DEF Fail, At, Busy, runVars
<1>2. PICK p \in Plugins : p = worker.p
  BY <1>1, EdgeFacts
<1>3. db.trigger[p] # None /\ db.trigger[p] \in Trigger
  BY <1>1, <1>2, EdgeFacts, StoreFields, QuietFacts
<1>4. PICK t \in Trigger : t = [db.trigger[p] EXCEPT !.error = TRUE]
  BY <1>3 DEF Trigger
<1>5. db' = [db EXCEPT !.trigger[p] = t]
  BY <1>2, <1>3, <1>4 DEF Fail, SetTrigger, Put
<1>6. Alike(db.trigger[p], t)
  <2>1. t.query = db.trigger[p].query /\ t.auto = db.trigger[p].auto
    BY <1>3, <1>4 DEF Trigger
  <2>. QED
    BY <1>3, <2>1, NoneNot DEF Alike
<1>7. /\ db'.log = db.log /\ db'.cursor = db.cursor /\ db'.head = db.head
      /\ \A q \in Plugins : db'.trigger[q] = IF q = p THEN t ELSE db.trigger[q]
  BY <1>5, StoreFields, QuietFacts
<1>8. SameSaid
  BY <1>6, <1>7, SameAlike DEF SameSaid
<1>. QED
  BY <1>1, <1>8, LetGoCalm

LEMMA HostMovesCalm == ASSUME Quietly, HostReports \/ HostMoves PROVE NextCalm
<1>1. UNCHANGED <<db, worker, journal>>
  BY DEF HostReports, HostMoves, workerVars, Recorded!Report, Recorded!ApplyFails,
     Recorded!PlanFails, Recorded!KeepPlan, Recorded!Replay, Recorded!RefuseUncertain,
     Recorded!RecordFails
<1>2. StoreCalm(db)'
  BY <1>1, SameStoreSaid, SaidStoreCalm
<1>3. WorkerCalm'
  BY <1>1, QuietFacts DEF WorkerCalm, SeenCalm, EdgeCalm, OpenCalm, AnswerCalm, Busy, Edge, Copy,
     NextIs, NoneBetween, Planned, Chosen, Settled
<1>. QED
  BY <1>2, <1>3 DEF NextCalm

LEMMA HostChangesCalm == ASSUME Quietly, HostWrites \/ HostLogsRun PROVE NextCalm
<1>1. /\ Recorded!Step /\ UNCHANGED <<worker, journal>>
      /\ \E s \in Subjects \cup {RunRecord} : db' \in Changed(s, worker.p)
  <2>1. CASE HostWrites
    <3>1. host.step = "apply"
      BY <2>1 DEF HostWrites, Recorded!Apply, Recorded!At
    <3>2. Recorded!Plan[host.k] \in Subjects
      BY <3>1, PlanAtEffect DEF Quietly, IInv
    <3>. QED
      BY <2>1, <3>2 DEF HostWrites, Recorded!Step, workerVars, Recorded!Apply
  <2>2. CASE HostLogsRun
    BY <2>2 DEF HostLogsRun, Recorded!Step, workerVars, Recorded!RecordRun
  <2>. QED
    BY <2>1, <2>2
<1>2. PICK p \in Plugins : p = worker.p
  BY <1>1, HostTurn, BusyType DEF Quietly, IInv, Own
<1>3. PICK s \in Subjects \cup {RunRecord} : db' \in Changed(s, p)
  BY <1>1, <1>2
<1>. QED
  BY <1>1, <1>3, ChangedCalm

\* A run that was applied is over; the others stop the trigger with an error.
LEMMA HostReturnsCalm == ASSUME Quietly, HostReturns PROVE NextCalm
<1>1. Busy /\ SameSaid /\ UNCHANGED journal /\ host.step # "idle"
  BY SameStoreSaid DEF HostReturns, At, Busy, Recorded!Return
<1>2. CASE host.step = "applied"
  <2>1. journal[Run].end # "open"
    BY <1>1, <1>2, QuietFacts DEF HostCalm, Own, Turn
  <2>2. \A n \in Seqs : ~Planned(worker.p, n)
    BY <1>1, <2>1, PlannedIsEdge DEF Planned, Run
  <2>3. PICK pc \in Open \cup Closed : pc = "clean"
    BY DEF Closed
  <2>. QED
    BY <1>1, <1>2, <2>2, <2>3, GotoClosedCalm DEF HostReturns
<1>3. CASE host.step # "applied"
  <2>1. PICK pc \in Open : pc = "fail"
    BY DEF Open
  <2>. QED
    BY <1>1, <1>3, <2>1, GotoOpenCalm DEF HostReturns
<1>. QED
  BY <1>2, <1>3

\* The plan is chosen for the edge at hand, whose answer is saved and goes on.
LEMMA HostRecordsCalm == ASSUME Quietly, HostRecords, Next PROVE NextCalm
<1>1. UNCHANGED <<db, worker>> /\ Recorded!Step
  BY DEF HostRecords, workerVars, Recorded!Step
<1>2. Busy /\ worker.pc = "apply"
  BY <1>1, HostTurn DEF Quietly, IInv
<1>3. PICK p \in Plugins, n \in Seqs : p = worker.p /\ n = Edge
  BY <1>2, EdgeFacts
<1>4. /\ NextIs(db, p, n) /\ db.head[p] = worker.event /\ worker.event # None
      /\ worker.event.seq = n /\ Ready(worker.event) /\ db.trigger[p].auto
  <2>1. /\ Settled /\ ~worker.event.waiting /\ db.head[p] = worker.event
    BY <1>2, <1>3, QuietFacts DEF AnswerCalm
  <2>2. Ready(worker.event) /\ Copy.auto
    BY <2>1 DEF Settled, Ready
  <2>. QED
    BY <1>2, <1>3, <2>1, <2>2, EdgeFacts, NoneNot DEF Edge
<1>5. ASSUME NEW q \in Plugins, NEW m \in Seqs
      PROVE  /\ Chosen(q, m)' => Chosen(q, m) \/ (q = p /\ m = n)
             /\ Planned(q, m)' => Planned(q, m) \/ (q = p /\ m = n)
  <2>1. <<q, m>> \in Runs
    BY DEF Runs
  <2>2. /\ journal'[<<q, m>>].plan # journal[<<q, m>>].plan => <<q, m>> = Run
        /\ journal'[<<q, m>>].end = "open" => journal[<<q, m>>].end = "open"
    BY <2>1, EntriesMove DEF Quietly
  <2>3. <<q, m>> = Run => q = p /\ m = n
    BY <1>3 DEF Run
  <2>. QED
    BY <2>2, <2>3 DEF Chosen, Planned
<1>6. ASSUME NEW q \in Plugins, NEW h \in Seqs, NextIs(db, q, h), q = p => h = n
      PROVE  NextIs(db, q, h)'
  <2>1. \A m \in Seqs : Chosen(q, m)' => m <= h
    BY <1>5, <1>6, BoundsAssumption DEF NextIs, Seqs
  <2>. QED
    BY <1>1, <1>6, <2>1 DEF NextIs, NoneBetween
<1>7. ASSUME NEW q \in Plugins PROVE PluginCalm(db, q)'
  <2>1. PluginCalm(db, q) /\ db.head[q] \in Event \cup {None}
    BY QuietFacts, StoreFields DEF StoreCalm
  <2>2. SavedCalm(db, q)'
    <3>. SUFFICES ASSUME db.head[q] # None PROVE NextIs(db, q, db.head[q].seq)'
      BY <1>1 DEF SavedCalm
    <3>1. PICK h \in Seqs : h = db.head[q].seq
      BY <2>1 DEF Event
    <3>2. NextIs(db, q, h) /\ (q = p => h = n)
      BY <1>4, <2>1, <3>1 DEF PluginCalm, SavedCalm
    <3>3. NextIs(db, q, h)'
      BY <1>6, <3>2
    <3>. QED
      BY <1>1, <3>1, <3>3
  <2>3. ChosenCalm(db, q)'
    <3>. SUFFICES ASSUME NEW m \in Seqs, Chosen(q, m)'
                  PROVE  db.trigger[q] # None /\ NoneBetween(db, q, m)
      BY <1>1 DEF ChosenCalm, NoneBetween
    <3>. QED
      BY <1>4, <1>5, <2>1 DEF PluginCalm, ChosenCalm, NextIs
  <2>4. PlannedCalm(db, q)'
    <3>. SUFFICES ASSUME NEW m \in Seqs, Planned(q, m)'
                  PROVE  db.head[q] # None /\ db.head[q].seq = m /\ Ready(db.head[q])
                         /\ db.trigger[q].auto
      BY <1>1 DEF PlannedCalm, Ready
    <3>. QED
      BY <1>4, <1>5, <2>1 DEF PluginCalm, PlannedCalm
  <2>. QED
    BY <2>2, <2>3, <2>4 DEF PluginCalm
<1>8. StoreCalm(db)'
  BY <1>7 DEF StoreCalm
<1>9. EdgeCalm'
  <2>1. NextIs(db, p, n)'
    BY <1>4, <1>6
  <2>. QED
    BY <1>1, <1>3, <1>4, <2>1 DEF EdgeCalm, Edge
<1>10. OpenCalm'
  BY <1>1, <1>2, <1>4 DEF OpenCalm, Ready
<1>11. SeenCalm' /\ AnswerCalm'
  BY <1>1, QuietFacts DEF SeenCalm, AnswerCalm, Settled, Copy
<1>. QED
  BY <1>8, <1>9, <1>10, <1>11 DEF NextCalm, WorkerCalm

-----------------------------------------------------------------------------
(* The invariant of untouched triggers holds throughout *)

LEMMA QuietStepCalm == ASSUME Quietly, Next, acts' = 0 PROVE NextCalm /\ (Crash \/ UNCHANGED op)
<1>1. /\ ~ \E p \in Plugins : ReadTrigger(p) \/ DeleteTrigger(p)
      /\ ~ \E r \in Runs : AbandonRun(r)
      /\ setting = None /\ deleting = None
  BY ActsStay, QuietFacts
<1>2. ~StoreTrigger /\ ~StartCursor /\ ~ForgetHead /\ ~ForgetCursor
  BY <1>1 DEF StoreTrigger, StartCursor, ForgetHead, ForgetCursor
<1>3. ASSUME NEW s \in Subjects, Commit(s) PROVE NextCalm /\ UNCHANGED op
  <2>1. db' \in Changed(s, None) /\ UNCHANGED <<worker, journal, op>>
    BY <1>3 DEF Commit, workerVars, runVars
  <2>. QED
    BY <2>1, ChangedCalm
<1>4. CASE Flush
  BY <1>4, FlushCalm DEF Flush
<1>5. CASE Crash
  BY <1>5, CrashCalm
<1>6. CASE StartDrain \/ EndRound \/ CapReached \/ \E p \in Plugins : NotLeased(p)
  BY <1>6, RoundStepCalm DEF StartDrain, EndRound, CapReached, NotLeased
<1>7. CASE \E p \in Plugins : PassOver(p) \/ Pick(p)
  BY <1>7, PassOverCalm, PickCalm DEF PassOver, Pick
<1>8. CASE Deliver
  <2>1. UNCHANGED op
    BY <1>8 DEF Deliver, DeliverEnded, DeliverWaits, DeliverProposal, DeliverEdge, AdmitStopped,
       AdmitStarted, AdmitEcho, Admit
  <2>. QED
    BY <1>8, <2>1, DeliverEndedCalm, DeliverWaitsCalm, DeliverProposalCalm, DeliverEdgeCalm,
       AdmitCalm DEF Deliver
<1>9. CASE RunEdge
  <2>1. UNCHANGED op
    BY <1>9 DEF RunEdge, RunFails, RunScript, SaveEvent, Propose, CallHost
  <2>. QED
    BY <1>9, <2>1, RunFailsCalm, RunScriptCalm, SaveEventCalm, ProposeCalm, CallHostCalm
       DEF RunEdge
<1>10. CASE Host
  <2>1. UNCHANGED op
    BY <1>10 DEF Host, HostRecords, HostWrites, HostReports, HostLogsRun, HostMoves, HostReturns
  <2>. QED
    BY <1>10, <2>1, HostRecordsCalm, HostChangesCalm, HostMovesCalm, HostReturnsCalm DEF Host
<1>11. CASE Settle
  <2>1. UNCHANGED op
    BY <1>11 DEF Settle, Clean, Forget, Advance, Fail
  <2>. QED
    BY <1>11, <2>1, CleanCalm, ForgetCalm, AdvanceCalm, FailCalm DEF Settle
<1>. QED
  BY <1>1, <1>2, <1>3, <1>4, <1>5, <1>6, <1>7, <1>8, <1>9, <1>10, <1>11 DEF Next, Operator, Drain

LEMMA HostEnds == ASSUME Quietly, Next PROVE HostCalm'
<1>1. Own /\ P!IInv /\ HostCalm
  BY QuietFacts DEF Quietly, IInv
<1>2. /\ journal \in [Runs -> Recorded!Journal]
      /\ host \in [step : Recorded!Steps, run : Runs \cup {None}, k : Nat, failed : BOOLEAN]
      /\ host.step # "idle" => host.run \in Runs
  BY <1>1, SameType DEF P!IInv, Recorded!TypeOK
<1>3. Calls
  <2>1. AtEdge
    BY <1>1, BusyType DEF AtEdge, Busy, Own
  <2>. QED
    BY <2>1, NextCalls
<1>4. CASE UNCHANGED runVars
  BY <1>1, <1>4 DEF runVars, HostCalm
<1>5. CASE Recorded!Finish
  BY <1>2, <1>5 DEF Recorded!Finish, Recorded!Record, Recorded!Goto, Recorded!At, HostCalm,
     Recorded!Journal
<1>6. CASE Recorded!Step /\ ~Recorded!Finish
  <2>1. host'.step # "applied"
    <3>1. ASSUME NEW step, step # "applied", Recorded!Goto(step) PROVE host'.step # "applied"
      BY <1>2, <3>1 DEF Recorded!Goto
    <3>2. CASE Recorded!PlanFails \/ Recorded!KeepPlan \/ Recorded!ChoosePlan
      BY <3>1, <3>2 DEF Recorded!PlanFails, Recorded!KeepPlan, Recorded!ChoosePlan
    <3>3. CASE Recorded!Replay \/ Recorded!RefuseUncertain \/ Recorded!Begin \/ Recorded!Apply
      BY <1>2, <3>1, <3>3 DEF Recorded!Replay, Recorded!RefuseUncertain, Recorded!Begin,
         Recorded!Apply, Recorded!Begins, Recorded!At
    <3>4. CASE Recorded!ApplyFails \/ Recorded!Complete
      BY <1>2, <3>4 DEF Recorded!ApplyFails, Recorded!Complete
    <3>5. CASE Recorded!Report \/ Recorded!RecordFails \/ Recorded!RecordRun
      BY <3>1, <3>5 DEF Recorded!Report, Recorded!RecordFails, Recorded!RecordRun
    <3>. QED
      BY <1>6, <3>2, <3>3, <3>4, <3>5 DEF Recorded!Step
  <2>. QED
    BY <2>1 DEF HostCalm
<1>7. CASE Recorded!Return \/ Recorded!Crash
  BY <1>7 DEF Recorded!Return, Recorded!Crash, Recorded!NoHost, HostCalm
<1>8. ASSUME NEW r \in Runs, Recorded!Call(r) PROVE HostCalm'
  BY <1>8 DEF Recorded!Call, Recorded!NoHost, HostCalm
<1>9. ASSUME NEW r \in Runs, Recorded!Abandon(r) PROVE HostCalm'
  BY <1>9 DEF Recorded!Abandon, Recorded!At, HostCalm
<1>. QED
  BY <1>3, <1>4, <1>5, <1>6, <1>7, <1>8, <1>9 DEF Calls

LEMMA CalmStep == Calm /\ LogOK /\ IInv /\ [Next]_vars => Calm'
<1>. SUFFICES ASSUME Calm, LogOK, IInv, [Next]_vars, acts' = 0
              PROVE  /\ setting' = None /\ deleting' = None /\ StoreCalm(db)' /\ StoreCalm(disk)'
                     /\ SeenCalm' /\ EdgeCalm' /\ OpenCalm' /\ AnswerCalm' /\ HostCalm'
  BY DEF Calm
<1>1. CASE UNCHANGED vars
  BY <1>1 DEF Calm, vars, workerVars, storeVars, runVars, boundVars, StoreCalm, PluginCalm,
     SavedCalm, ChosenCalm, PlannedCalm, NextIs, NoneBetween, Planned, Chosen, SeenCalm, EdgeCalm,
     OpenCalm, AnswerCalm, HostCalm, Busy, Edge, Copy, Settled
<1>2. CASE Next
  <2>1. Quietly
    BY <1>2, ActsStay DEF Quietly, IInv
  <2>2. NextCalm /\ (Crash \/ UNCHANGED op) /\ HostCalm'
    BY <1>2, <2>1, QuietStepCalm, HostEnds
  <2>3. setting' = None /\ deleting' = None
    BY <2>1, <2>2, QuietFacts DEF Crash
  <2>4. disk' \in {disk, db'} /\ (UNCHANGED journal \/ disk' = db')
    <3>1. ~ \E r \in Runs : AbandonRun(r)
      BY <1>2, ActsStay DEF IInv
    <3>2. HostRecords => disk' = db'
      BY DEF HostRecords
    <3>. QED
      BY <1>2, <3>1, <3>2, DiskMoves, JournalMoves
  <2>5. StoreCalm(disk)'
    BY <2>1, <2>2, <2>4, DiskCalm DEF NextCalm
  <2>. QED
    BY <2>2, <2>3, <2>5 DEF NextCalm, WorkerCalm
<1>. QED
  BY <1>1, <1>2

LEMMA InitCalm == Init => Calm
<1>. SUFFICES ASSUME Init PROVE Calm
  OBVIOUS
<1>1. /\ disk = db /\ worker = Idle
      /\ setting = None /\ deleting = None
      /\ \A p \in Plugins : db.head[p] = None
  BY DEF Init
<1>2. \A p \in Plugins, n \in Seqs : ~Chosen(p, n)
  BY DEF Init, Recorded!Init, Chosen, Runs
<1>3. StoreCalm(db) /\ StoreCalm(disk)
  BY <1>1, <1>2 DEF StoreCalm, PluginCalm, SavedCalm, ChosenCalm, PlannedCalm, Planned
<1>4. SeenCalm /\ EdgeCalm /\ OpenCalm /\ AnswerCalm
  BY <1>1 DEF SeenCalm, EdgeCalm, OpenCalm, AnswerCalm, Busy, Idle
<1>5. HostCalm
  BY DEF Init, Recorded!Init, Recorded!NoHost, HostCalm
<1>. QED
  BY <1>1, <1>3, <1>4, <1>5 DEF Calm

\* While nobody touches the triggers: a plugin's open run belongs to its next edge, whose
\* answer is saved with it, in the store and on disk.
THEOREM CalmInvariance == Spec => []Calm
BY Invariance, LogInvariance, InitCalm, CalmStep, PTL DEF Spec

\* While nobody touches the triggers, the cursor stays below an edge whose run is open, across
\* crashes, and no later edge of the plugin is begun.
THEOREM CursorWaits == Spec => []OpenRunHoldsTheCursor
<1>1. Calm => OpenRunHoldsTheCursor
  <2>. SUFFICES ASSUME Calm, acts = 0, NEW p \in Plugins, NEW n \in Seqs, Planned(p, n)
                PROVE  /\ db.cursor[p] < n /\ disk.cursor[p] < n
                       /\ \A m \in Seqs : m > n => journal[<<p, m>>].plan = None
    BY DEF OpenRunHoldsTheCursor, Planned, Chosen
  <2>1. NextIs(db, p, n) /\ NextIs(disk, p, n)
    BY DEF Calm, StoreCalm, PluginCalm, SavedCalm, PlannedCalm
  <2>2. \A m \in Seqs : m > n => ~Chosen(p, m)
    BY <2>1, BoundsAssumption DEF NextIs, Seqs
  <2>. QED
    BY <2>1, <2>2 DEF NextIs, Chosen
<1>. QED
  BY <1>1, CalmInvariance, PTL
=============================================================================
