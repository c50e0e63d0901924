------------------------ MODULE PluginScheduleProofs ------------------------
(***************************************************************************)
(* For every set of plugins, sources and plans: the schedule is            *)
(* type-correct and uses recorded runs the way RecordedRun says, so that   *)
(* what is proved of a recorded run holds of every scheduled run, however  *)
(* schedules are edited, resumed and interrupted.  While nobody touches the*)
(* schedules, a run whose plan was chosen keeps its schedule until it has  *)
(* ended, and a run whose script was started stays on record.              *)
(***************************************************************************)
EXTENDS PluginSchedule, TLAPS

\* What RecordedRunProofs proves, of scheduled runs.
P == INSTANCE RecordedRunProofs

LEMMA SameInit == Recorded!Init <=> P!Init
BY DEF Recorded!Init, P!Init, Recorded!NoHost, P!NoHost

LEMMA SameType == Recorded!TypeOK <=> P!TypeOK
BY DEF Recorded!TypeOK, P!TypeOK, Recorded!Journal, P!Journal, Recorded!Steps, P!Steps

LEMMA SameNext == Recorded!Next <=> P!Next
<1>. USE DEF Recorded!At, P!At, Recorded!Goto, P!Goto, Recorded!Plan, P!Plan,
             Recorded!Abandoned, P!Abandoned, Recorded!Record, P!Record,
             Recorded!Begins, P!Begins, Recorded!NoHost, P!NoHost
<1>1. /\ Recorded!PlanFails <=> P!PlanFails
      /\ Recorded!KeepPlan <=> P!KeepPlan
      /\ Recorded!ChoosePlan <=> P!ChoosePlan
      /\ Recorded!Replay <=> P!Replay
      /\ Recorded!RefuseUncertain <=> P!RefuseUncertain
      /\ Recorded!Begin <=> P!Begin
  BY DEF Recorded!PlanFails, P!PlanFails, Recorded!KeepPlan, P!KeepPlan, Recorded!ChoosePlan,
    P!ChoosePlan, Recorded!Replay, P!Replay, Recorded!RefuseUncertain, P!RefuseUncertain,
    Recorded!Begin, P!Begin
<1>2. /\ Recorded!Apply <=> P!Apply
      /\ Recorded!ApplyFails <=> P!ApplyFails
      /\ Recorded!Complete <=> P!Complete
      /\ Recorded!Report <=> P!Report
      /\ Recorded!RecordFails <=> P!RecordFails
      /\ Recorded!RecordRun <=> P!RecordRun
  BY DEF Recorded!Apply, P!Apply, Recorded!ApplyFails, P!ApplyFails, Recorded!Complete,
    P!Complete, Recorded!Report, P!Report, Recorded!RecordFails, P!RecordFails,
    Recorded!RecordRun, P!RecordRun
<1>3. /\ Recorded!Finish <=> P!Finish
      /\ Recorded!Return <=> P!Return
      /\ Recorded!Flush <=> P!Flush
      /\ Recorded!Crash <=> P!Crash
      /\ \A r \in Runs : /\ Recorded!Call(r) <=> P!Call(r)
                         /\ Recorded!Abandon(r) <=> P!Abandon(r)
  BY DEF Recorded!Finish, P!Finish, Recorded!Return, P!Return, Recorded!Flush, P!Flush,
    Recorded!Crash, P!Crash, Recorded!Call, P!Call, Recorded!Abandon, P!Abandon
<1>. QED
  BY <1>1, <1>2, <1>3 DEF Recorded!Next, P!Next, Recorded!Step, P!Step

-----------------------------------------------------------------------------
(* A step of the pass, seen from the run it serves *)

Serves == Recorded!Next \/ UNCHANGED Recorded!vars

Calls == \/ UNCHANGED runVars /\ flushed' \in {flushed, written}
         \/ Recorded!Step \/ Recorded!Return \/ Recorded!Crash
         \/ \E r \in Runs : Recorded!Call(r) \/ Recorded!Abandon(r)

LEMMA CallsServe == ASSUME Calls PROVE Serves
<1>1. CASE UNCHANGED runVars /\ flushed' = flushed
  BY <1>1 DEF Serves, runVars, Recorded!vars
<1>2. CASE UNCHANGED runVars /\ flushed' = written
  BY <1>2 DEF Serves, runVars, Recorded!Flush, Recorded!Next
<1>3. CASE \/ Recorded!Step \/ Recorded!Return \/ Recorded!Crash
           \/ \E r \in Runs : Recorded!Call(r) \/ Recorded!Abandon(r)
  BY <1>3 DEF Serves, Recorded!Next
<1>. QED
  BY <1>1, <1>2, <1>3 DEF Calls

\* Steps that leave the run at hand alone, up to a flush.
LEMMA QuietCalls ==
  ASSUME UNCHANGED runVars, UNCHANGED flushed \/ flushed' = written
  PROVE  Calls
BY DEF Calls

LEMMA StoreCalls ==
  ASSUME UNCHANGED runVars, UNCHANGED storeVars \/ \E d : Put(d) \/ Save(d)
  PROVE  Calls
BY QuietCalls DEF storeVars, Put, Save

\* The run the pass is about, when it is about one.
AtRun == worker.pc \notin {"idle", "pass"} => Run \in Runs

LEMMA PeopleCalls == ASSUME People PROVE Calls
<1>1. ASSUME NEW p \in Plugins, ReadSchedule(p) PROVE Calls
  BY <1>1, StoreCalls DEF ReadSchedule
<1>2. ASSUME NEW p \in Plugins, DeleteSchedule(p) \/ EditDraft(p) \/ Resume(p) PROVE Calls
  BY <1>2, QuietCalls DEF DeleteSchedule, EditDraft, Resume, PutSchedule, Put
<1>3. CASE BuildGrant
  BY <1>3, StoreCalls DEF BuildGrant
<1>4. CASE StoreSchedule
  BY <1>4, QuietCalls DEF StoreSchedule, PutSchedule, Put
<1>5. ASSUME NEW r \in Runs, AbandonRun(r) PROVE Calls
  BY <1>5 DEF AbandonRun, Calls
<1>. QED
  BY <1>1, <1>2, <1>3, <1>4, <1>5 DEF People

LEMMA HostCalls == ASSUME AtRun, Host PROVE Calls
<1>1. CASE CallHost
  <2>1. worker.pc = "grant" /\ Recorded!Call(Run)
    BY <1>1 DEF CallHost, At
  <2>2. PICK r \in Runs : r = Run
    BY <2>1 DEF AtRun
  <2>3. Recorded!Call(r)
    BY <2>1, <2>2 DEF Recorded!Call, Recorded!At, Recorded!NoHost
  <2>. QED
    BY <2>3 DEF Calls
<1>2. CASE HostRecords \/ HostMoves \/ HostReturns
  BY <1>2 DEF HostRecords, HostMoves, HostReturns, Recorded!Step, Calls
<1>. QED
  BY <1>1, <1>2 DEF Host

LEMMA RunOneCalls == ASSUME RunOne PROVE Calls
<1>1. CASE Prepare
  BY <1>1, QuietCalls DEF Prepare, Save, storeVars
<1>2. CASE RunFails \/ RunScript
  BY <1>2, QuietCalls DEF RunFails, RunScript, UsesAction, Save, storeVars
<1>3. CASE KeepWaits \/ KeepForReview
  BY <1>3, QuietCalls DEF KeepWaits, KeepForReview, storeVars
<1>4. CASE Propose \/ StoreRun
  BY <1>4, QuietCalls DEF Propose, StoreRun, PutSchedule, Put
<1>. QED
  BY <1>1, <1>2, <1>3, <1>4 DEF RunOne

LEMMA NextCalls == ASSUME AtRun, Next PROVE Calls
<1>1. CASE Flush
  BY <1>1, QuietCalls DEF Flush, Save
<1>2. CASE Crash
  BY <1>2 DEF Crash, Calls
<1>3. ASSUME NEW p \in Plugins, Tick(p) PROVE Calls
  BY <1>3, QuietCalls DEF Tick
<1>4. CASE ListDue \/ EndPass
  BY <1>4, QuietCalls DEF ListDue, EndPass, storeVars
<1>5. ASSUME NEW p \in Plugins, Skip(p) \/ NotLeased(p) PROVE Calls
  BY <1>5, QuietCalls DEF Skip, NotLeased, storeVars
<1>6. ASSUME NEW p \in Plugins, AskAction(p) \/ Claim(p) \/ Acknowledge(p) PROVE Calls
  BY <1>6, QuietCalls DEF AskAction, Claim, Acknowledge, ClaimAs, PutSchedule, Put, storeVars
<1>. QED
  BY <1>1, <1>2, <1>3, <1>4, <1>5, <1>6, PeopleCalls, HostCalls, RunOneCalls DEF Next, Pass

-----------------------------------------------------------------------------
(* Types *)

Stores == db \in Store /\ disk \in Store

Busy == worker.pc \notin {"idle", "pass"}

WorkerOK == /\ worker \in Worker
            /\ Busy => worker.p \in Plugins /\ worker.copy # None

\* What the run at hand has to show at its steps: its source, its answer.
Turn == /\ worker.pc = "script" => worker.from # None
        /\ worker.pc = "judge" => worker.verdict # None

Request == [p : Plugins, schedule : Schedule,
            kind : {"interval", "clear", "revoke", "grant", "granted"}]

OpOK == op = None \/ op \in Request

BoundsOK == acts \in 0 .. MaxActs /\ crashes \in 0 .. MaxCrashes

TimesOK == clock \in Times /\ started \subseteq Runs

Own == Stores /\ WorkerOK /\ Turn /\ OpOK /\ BoundsOK /\ TimesOK

IInv == Own /\ P!IInv

LEMMA NoneNot == None \notin Schedule /\ None \notin Proposal /\ None \notin Sources
BY NoneAssumption

LEMMA StoreFields ==
  ASSUME NEW d \in Store
  PROVE  /\ d.schedule \in [Plugins -> Schedule \cup {None}]
         /\ d.source \in [Plugins -> Sources]
         /\ d.context \in [Plugins -> Sources \cup {None}]
         /\ d.consumers \subseteq Runs
BY DEF Store

LEMMA ScheduleFields ==
  ASSUME NEW s \in Schedule
  PROVE  /\ s = [due |-> s.due, last |-> s.last, pending |-> s.pending, error |-> s.error,
                 grant |-> s.grant, running |-> s.running]
         /\ s.due \in BOOLEAN /\ s.last \in Times /\ s.pending \in Proposal \cup {None}
         /\ s.error \in BOOLEAN /\ s.grant \in Sources \cup {None} /\ s.running \in BOOLEAN
BY DEF Schedule

LEMMA WorkerFields ==
  ASSUME WorkerOK
  PROVE  /\ worker = [pc |-> worker.pc, due |-> worker.due, p |-> worker.p,
                      copy |-> worker.copy, from |-> worker.from, at |-> worker.at,
                      verdict |-> worker.verdict, resuming |-> worker.resuming]
         /\ worker.due \in [Plugins -> Schedule \cup {None}]
         /\ worker.p \in Plugins \cup {None}
         /\ worker.copy \in Schedule \cup {None}
         /\ worker.from \in Sources \cup {None}
         /\ worker.at \in Times
         /\ worker.verdict \in Proposal \cup {None}
         /\ worker.resuming \in BOOLEAN
BY DEF WorkerOK, Worker

LEMMA BusyType ==
  ASSUME WorkerOK, Busy
  PROVE  /\ worker.p \in Plugins /\ worker.copy \in Schedule
         /\ Run \in Runs /\ Identity \in Runs
<1>1. worker.p \in Plugins /\ worker.copy \in Schedule /\ worker.at \in Times
  BY WorkerFields DEF WorkerOK
<1>2. worker.copy.last \in Times
  BY <1>1, ScheduleFields
<1>. QED
  BY <1>1, <1>2 DEF Run, Identity, Runs

\* The store, when one schedule is written.
LEMMA PutTyped ==
  ASSUME Stores, NEW p \in Plugins, NEW s \in Schedule \cup {None}, PutSchedule(p, s)
  PROVE  Stores'
BY DEF Stores, Store, PutSchedule, Put

LEMMA SameStores == ASSUME Stores, UNCHANGED <<db, disk>> PROVE Stores'
BY DEF Stores

LEMMA SameWorker == ASSUME WorkerOK, Turn, UNCHANGED worker PROVE WorkerOK' /\ Turn'
BY DEF WorkerOK, Turn, Busy

LEMMA SameOp == ASSUME OpOK, UNCHANGED op PROVE OpOK'
BY DEF OpOK

LEMMA SameTimes == ASSUME TimesOK, UNCHANGED <<clock, started>> PROVE TimesOK'
BY DEF TimesOK

LEMMA SameBounds == ASSUME BoundsOK, UNCHANGED <<acts, crashes>> PROVE BoundsOK'
BY DEF BoundsOK

LEMMA ActsTyped == ASSUME BoundsOK, Acts PROVE BoundsOK'
BY BoundsAssumption DEF BoundsOK, Acts

\* The clock, when it moves below its bound.
LEMMA ClockMoves ==
  ASSUME TimesOK, clock < MaxTime
  PROVE  clock + 1 \in Times
BY BoundsAssumption DEF TimesOK, Times

LEMMA AdvancedType ==
  ASSUME TimesOK, clock < MaxTime, NEW s \in Schedule
  PROVE  Advanced(s) \in Schedule
<1>1. PICK n \in Times : n = clock + 1
  BY ClockMoves
<1>2. [s EXCEPT !.last = n, !.due = FALSE] \in Schedule
  BY DEF Schedule
<1>. QED
  BY <1>1, <1>2 DEF Advanced

-----------------------------------------------------------------------------
(* The store, and people *)

LEMMA FlushOwn == ASSUME Own, Flush PROVE Own'
<1>1. Stores'
  BY DEF Flush, Save, Stores, Own
<1>. QED
  BY <1>1, SameWorker, SameOp, SameTimes, SameBounds DEF Flush, Own, timeVars, boundVars

LEMMA CrashOwn == ASSUME Own, Crash PROVE Own'
<1>1. Stores'
  BY DEF Crash, Stores, Own
<1>2. WorkerOK' /\ Turn'
  BY BoundsAssumption DEF Crash, WorkerOK, Worker, Turn, Busy, Idle, Times
<1>3. OpOK' /\ BoundsOK'
  BY BoundsAssumption DEF Crash, OpOK, BoundsOK, Own
<1>. QED
  BY <1>1, <1>2, <1>3, SameTimes DEF Crash, Own, timeVars

LEMMA TickedType ==
  ASSUME NEW d \in Store, NEW p \in Plugins
  PROVE  Ticked(d, p) \in Store
<1>1. CASE d.schedule[p] = None
  BY <1>1 DEF Ticked
<1>2. CASE d.schedule[p] # None
  <2>1. PICK s \in Schedule : s = [d.schedule[p] EXCEPT !.due = TRUE]
    BY <1>2, StoreFields DEF Schedule
  <2>2. [d EXCEPT !.schedule[p] = s] \in Store
    BY DEF Store
  <2>. QED
    BY <1>2, <2>1, <2>2 DEF Ticked
<1>. QED
  BY <1>1, <1>2

LEMMA TickOwn == ASSUME Own, NEW p \in Plugins, Tick(p) PROVE Own'
<1>1. Stores'
  BY TickedType DEF Tick, Stores, Own
<1>. QED
  BY <1>1, SameWorker, SameOp, SameTimes, SameBounds DEF Tick, Own, timeVars, boundVars

LEMMA NewType == New \in Schedule
BY BoundsAssumption DEF New, Schedule, Times

\* A request under way that holds a schedule.
LEMMA BeginTyped ==
  ASSUME NEW p \in Plugins, NEW kind \in {"interval", "clear", "revoke", "grant"},
         NEW s \in Schedule, Begin(p, kind, s)
  PROVE  OpOK'
BY DEF Begin, OpOK, Request

LEMMA ReadScheduleOwn == ASSUME Own, NEW p \in Plugins, ReadSchedule(p) PROVE Own'
<1>1. OpOK'
  <2>1. CASE db.schedule[p] = None /\ Begin(p, "interval", New)
    BY <2>1, NewType, BeginTyped
  <2>2. CASE db.schedule[p] # None
    <3>1. PICK stored \in Schedule : stored = db.schedule[p]
      BY <2>2, StoreFields DEF Own, Stores
    <3>2. /\ [stored EXCEPT !.due = FALSE] \in Schedule
          /\ [stored EXCEPT !.pending = None] \in Schedule
          /\ [stored EXCEPT !.grant = None] \in Schedule
      BY DEF Schedule
    <3>3. \/ op' = [p |-> p, kind |-> "interval", schedule |-> [stored EXCEPT !.due = FALSE]]
          \/ op' = [p |-> p, kind |-> "clear", schedule |-> [stored EXCEPT !.pending = None]]
          \/ op' = [p |-> p, kind |-> "revoke", schedule |-> [stored EXCEPT !.grant = None]]
          \/ op' = [p |-> p, kind |-> "grant", schedule |-> stored]
      BY <2>2, <3>1 DEF ReadSchedule, Begin
    <3>4. PICK kind \in {"interval", "clear", "revoke", "grant"}, s \in Schedule :
            op' = [p |-> p, kind |-> kind, schedule |-> s]
      BY <3>2, <3>3
    <3>. QED
      BY <3>4 DEF OpOK, Request
  <2>. QED
    BY <2>1, <2>2 DEF ReadSchedule
<1>. QED
  BY <1>1, SameWorker, SameStores, SameTimes, ActsTyped
     DEF ReadSchedule, Own, timeVars, storeVars

LEMMA BuildGrantOwn == ASSUME Own, BuildGrant PROVE Own'
<1>1. op \in Request
  BY DEF BuildGrant, Own, OpOK
<1>2. PICK v \in Sources : v = db.source[op.p]
  BY <1>1, StoreFields DEF Request, Own, Stores
<1>3. [op.schedule EXCEPT !.grant = v] \in Schedule
  BY <1>1 DEF Request, Schedule
<1>4. op' = None \/ op' = [op EXCEPT !.kind = "granted", !.schedule = [op.schedule EXCEPT !.grant = v]]
  BY <1>1, <1>2 DEF BuildGrant, Request
<1>5. OpOK'
  BY <1>1, <1>3, <1>4 DEF OpOK, Request
<1>. QED
  BY <1>5, SameWorker, SameStores, SameTimes, SameBounds
     DEF BuildGrant, Own, timeVars, storeVars, boundVars

LEMMA StoreScheduleOwn == ASSUME Own, StoreSchedule PROVE Own'
<1>1. op.p \in Plugins /\ op.schedule \in Schedule
  BY DEF StoreSchedule, Own, OpOK, Request
<1>2. PICK p \in Plugins, s \in Schedule : p = op.p /\ s = op.schedule
  BY <1>1
<1>3. PutSchedule(p, s)
  BY <1>2 DEF StoreSchedule, PutSchedule
<1>4. Stores' /\ OpOK'
  BY <1>3, PutTyped DEF Own, StoreSchedule, OpOK
<1>. QED
  BY <1>4, SameWorker, SameTimes, SameBounds DEF StoreSchedule, Own, timeVars, boundVars

LEMMA DeleteScheduleOwn == ASSUME Own, NEW p \in Plugins, DeleteSchedule(p) PROVE Own'
<1>1. Stores'
  BY PutTyped DEF DeleteSchedule, Own
<1>. QED
  BY <1>1, SameWorker, SameOp, SameTimes, ActsTyped DEF DeleteSchedule, Own, timeVars

LEMMA EditDraftOwn == ASSUME Own, NEW p \in Plugins, EditDraft(p) PROVE Own'
<1>1. Stores'
  BY DEF EditDraft, Own, Put, Stores, Store
<1>. QED
  BY <1>1, SameWorker, SameOp, SameTimes, ActsTyped DEF EditDraft, Own, timeVars

LEMMA AbandonRunOwn == ASSUME Own, NEW r \in Runs, AbandonRun(r) PROVE Own'
<1>1. Stores'
  BY DEF AbandonRun, Own, Stores
<1>. QED
  BY <1>1, SameWorker, SameOp, SameTimes, ActsTyped DEF AbandonRun, Own, timeVars

LEMMA IdleType ==
  /\ Idle \in Worker
  /\ Idle.pc = "idle" /\ Idle.verdict = None /\ Idle.from = None
BY BoundsAssumption DEF Idle, Worker, Times

\* A worker that starts, or ends, a turn.
LEMMA ResumeOwn == ASSUME Own, NEW p \in Plugins, Resume(p) PROVE Own'
<1>1. PICK s \in Schedule : s = [db.schedule[p] EXCEPT !.running = TRUE]
  <2>1. db.schedule[p] \in Schedule
    BY StoreFields DEF Resume, Own, Stores
  <2>. QED
    BY <2>1 DEF Schedule
<1>2. /\ PutSchedule(p, s)
      /\ worker' = [Idle EXCEPT !.pc = "grant", !.p = p, !.copy = s]
  BY <1>1 DEF Resume, PutSchedule
<1>3. Stores'
  BY <1>2, PutTyped DEF Own
<1>4. worker' \in Worker /\ worker'.pc = "grant" /\ worker'.p = p /\ worker'.copy = s
  BY <1>2, IdleType DEF Worker
<1>5. WorkerOK' /\ Turn'
  BY <1>4, NoneNot DEF WorkerOK, Turn, Busy
<1>. QED
  BY <1>3, <1>5, SameOp, SameTimes, ActsTyped DEF Resume, Own, timeVars

-----------------------------------------------------------------------------
(* The pass *)

LEMMA ListDueOwn == ASSUME Own, ListDue PROVE Own'
<1>1. PICK due \in [Plugins -> Schedule \cup {None}] :
        worker' = [Idle EXCEPT !.pc = "pass", !.due = due]
  <2>1. db.schedule \in [Plugins -> Schedule \cup {None}]
    BY StoreFields DEF Own, Stores
  <2>2. PICK due : due = [p \in Plugins |->
          IF db.schedule[p] # None /\ db.schedule[p].due THEN db.schedule[p] ELSE None]
    OBVIOUS
  <2>3. due \in [Plugins -> Schedule \cup {None}]
    BY <2>1, <2>2
  <2>. QED
    BY <2>2, <2>3 DEF ListDue
<1>2. worker' \in Worker /\ worker'.pc = "pass"
  BY <1>1, IdleType DEF Worker
<1>3. WorkerOK' /\ Turn'
  BY <1>2 DEF WorkerOK, Turn, Busy
<1>. QED
  BY <1>3, SameStores, SameOp, SameTimes, SameBounds
     DEF ListDue, Own, storeVars, timeVars, boundVars

LEMMA EndPassOwn == ASSUME Own, EndPass PROVE Own'
<1>1. WorkerOK' /\ Turn'
  BY BoundsAssumption DEF EndPass, WorkerOK, Worker, Turn, Busy, Idle, Times
<1>. QED
  BY <1>1, SameStores, SameOp, SameTimes, SameBounds
     DEF EndPass, Own, storeVars, timeVars, boundVars

LEMMA PassedTyped ==
  ASSUME WorkerOK, NEW p \in Plugins, Listed(p), Passed(p)
  PROVE  WorkerOK' /\ Turn'
<1>1. worker.pc = "pass" /\ worker' = [worker EXCEPT !.due[p] = None]
  BY DEF Listed, Passed, At
<1>2. worker' \in Worker /\ worker'.pc = "pass"
  BY <1>1 DEF WorkerOK, Worker
<1>. QED
  BY <1>2 DEF WorkerOK, Turn, Busy

LEMMA CopyType ==
  ASSUME WorkerOK, NEW p \in Plugins, Listed(p)
  PROVE  Copy(p) \in Schedule
BY WorkerFields DEF Listed, Copy

LEMMA NotLeasedOwn == ASSUME Own, NEW p \in Plugins, NotLeased(p) PROVE Own'
BY PassedTyped, SameStores, SameOp, SameTimes, SameBounds
   DEF NotLeased, Own, storeVars, timeVars, boundVars

LEMMA SkipOwn == ASSUME Own, NEW p \in Plugins, Skip(p) PROVE Own'
BY PassedTyped, SameStores, SameOp, SameTimes, SameBounds
   DEF Skip, Own, storeVars, timeVars, boundVars

LEMMA AcknowledgeOwn == ASSUME Own, NEW p \in Plugins, Acknowledge(p) PROVE Own'
<1>1. PICK s \in Schedule :
        s = [Copy(p) EXCEPT !.running = FALSE, !.pending = None, !.error = FALSE]
  <2>1. Copy(p) \in Schedule
    BY CopyType DEF Acknowledge, Own
  <2>. QED
    BY <2>1 DEF Schedule
<1>2. PICK advanced \in Schedule : advanced = Advanced(s)
  BY AdvancedType DEF Acknowledge, Own
<1>3. PutSchedule(p, advanced)
  BY <1>1, <1>2 DEF Acknowledge, PutSchedule, Advanced
<1>4. Stores' /\ WorkerOK' /\ Turn'
  BY <1>3, PutTyped, PassedTyped DEF Acknowledge, Own
<1>5. TimesOK'
  BY ClockMoves DEF Acknowledge, Own, TimesOK
<1>. QED
  BY <1>4, <1>5, SameOp, SameBounds DEF Acknowledge, Own, boundVars

LEMMA ClaimAsTyped ==
  ASSUME Stores, WorkerOK, Turn, NEW p \in Plugins, NEW s \in Schedule, NEW resuming \in BOOLEAN,
         ClaimAs(p, s, resuming)
  PROVE  Stores' /\ WorkerOK' /\ Turn'
<1>1. PICK claimed \in Schedule : claimed = [s EXCEPT !.running = TRUE, !.error = TRUE]
  BY DEF Schedule
<1>2. /\ PutSchedule(p, claimed)
      /\ worker' = [worker EXCEPT !.pc = "prepare", !.due[p] = None, !.p = p, !.copy = claimed,
                                  !.resuming = resuming]
  BY <1>1 DEF ClaimAs, PutSchedule
<1>3. worker' \in Worker /\ worker'.pc = "prepare" /\ worker'.p = p /\ worker'.copy = claimed
  BY <1>2 DEF WorkerOK, Worker
<1>. QED
  BY <1>2, <1>3, PutTyped, NoneNot DEF WorkerOK, Turn, Busy

LEMMA AskActionOwn == ASSUME Own, NEW p \in Plugins, AskAction(p) PROVE Own'
<1>1. PICK s \in Schedule : s = Copy(p)
  BY CopyType DEF AskAction, Own
<1>2. CASE Passed(p) /\ UNCHANGED storeVars
  BY <1>2, SameStores, PassedTyped, SameOp, SameTimes, SameBounds
     DEF AskAction, Own, storeVars, timeVars, boundVars
<1>3. CASE Passed(p) /\ PutSchedule(p, [Copy(p) EXCEPT !.error = TRUE])
  <2>1. PICK failed \in Schedule : failed = [s EXCEPT !.error = TRUE]
    BY DEF Schedule
  <2>2. PutSchedule(p, failed)
    BY <1>1, <1>3, <2>1 DEF PutSchedule
  <2>. QED
    BY <1>3, <2>2, PutTyped, PassedTyped, SameOp, SameTimes, SameBounds
       DEF AskAction, Own, timeVars, boundVars
<1>4. CASE ClaimAs(p, Copy(p), TRUE)
  <2>1. ClaimAs(p, s, TRUE)
    BY <1>1, <1>4 DEF ClaimAs, PutSchedule
  <2>. QED
    BY <2>1, ClaimAsTyped, SameOp, SameTimes, SameBounds DEF AskAction, Own, timeVars, boundVars
<1>. QED
  BY <1>2, <1>3, <1>4 DEF AskAction

LEMMA ClaimOwn == ASSUME Own, NEW p \in Plugins, Claim(p) PROVE Own'
<1>1. PICK s \in Schedule : s = Copy(p)
  BY CopyType DEF Claim, Own
<1>2. clock < MaxTime
  BY BoundsAssumption DEF Claim, Own, TimesOK, Times
<1>3. PICK advanced \in Schedule : advanced = Advanced(s)
  BY <1>2, AdvancedType DEF Own
<1>4. ClaimAs(p, advanced, FALSE)
  BY <1>1, <1>3 DEF Claim, ClaimAs, PutSchedule, Advanced
<1>5. TimesOK'
  BY <1>2, ClockMoves DEF Claim, Own, TimesOK
<1>. QED
  BY <1>4, <1>5, ClaimAsTyped, SameOp, SameBounds DEF Claim, Own, boundVars

-----------------------------------------------------------------------------
(* run_one, and what becomes of its answer *)

LEMMA UsesActionTyped == ASSUME Own, Busy, UsesAction PROVE Stores'
<1>1. PICK r \in Runs : r = Identity
  BY BusyType DEF Own
<1>2. db' = [db EXCEPT !.consumers = @ \cup {r}] /\ disk' = db'
  BY <1>1 DEF UsesAction, Save
<1>. QED
  BY <1>2 DEF Own, Stores, Store

\* The worker goes on to another step of the same run, with a copy of its schedule.
LEMMA JudgeTyped ==
  ASSUME WorkerOK, Busy, NEW s \in Schedule, NEW pc \in {"save", "grant", "apply"}, Judge(s, pc)
  PROVE  WorkerOK' /\ Turn'
<1>1. worker' = [worker EXCEPT !.pc = pc, !.copy = s]
  BY DEF Judge
<1>2. worker' \in Worker /\ worker'.pc = pc /\ worker'.p = worker.p /\ worker'.copy = s
  BY <1>1 DEF WorkerOK, Worker
<1>. QED
  BY <1>2, NoneNot DEF WorkerOK, Turn, Busy

LEMMA RunFailsOwn == ASSUME Own, RunFails PROVE Own'
<1>1. Busy /\ worker.copy \in Schedule
  BY BusyType DEF RunFails, At, Busy, Own
<1>2. Stores'
  BY <1>1, UsesActionTyped, SameStores DEF Own, RunFails, storeVars
<1>3. PICK s \in Schedule : s = [worker.copy EXCEPT !.error = TRUE]
  BY <1>1 DEF Schedule
<1>4. Judge(s, "save")
  BY <1>3, WorkerFields DEF RunFails, Judge, Own
<1>. QED
  BY <1>1, <1>2, <1>4, JudgeTyped, SameOp, SameTimes, SameBounds
     DEF RunFails, Own, timeVars, boundVars

LEMMA PrepareOwn == ASSUME Own, Prepare PROVE Own'
<1>1. Busy /\ worker.p \in Plugins /\ worker.copy # None /\ Run \in Runs
  BY BusyType DEF Prepare, At, Busy, Own, WorkerOK
<1>2. Stored \in Schedule
  BY <1>1, StoreFields DEF Prepare, Stored, Own, Stores
<1>3. PICK v \in Sources, n \in Times : v = Source /\ n = Stored.last
  BY <1>1, <1>2, StoreFields, ScheduleFields DEF Source, Own, Stores
<1>4. Stores'
  <2>1. CASE UNCHANGED storeVars
    BY <2>1, SameStores DEF Own, storeVars
  <2>2. CASE Save([db EXCEPT !.context[worker.p] = Source])
    <3>1. db' = [db EXCEPT !.context[worker.p] = v] /\ disk' = db'
      BY <1>3, <2>2 DEF Save
    <3>. QED
      BY <1>1, <3>1 DEF Own, Stores, Store
  <2>. QED
    BY <2>1, <2>2 DEF Prepare
<1>5. /\ worker' \in Worker /\ worker'.pc = "script" /\ worker'.from = v
      /\ worker'.p = worker.p /\ worker'.copy = worker.copy
  <2>1. worker' = [worker EXCEPT !.pc = "script", !.from = v, !.at = n]
    BY <1>3 DEF Prepare
  <2>. QED
    BY <2>1 DEF Own, WorkerOK, Worker
<1>6. WorkerOK' /\ Turn'
  BY <1>1, <1>5, NoneNot DEF WorkerOK, Turn, Busy
<1>7. TimesOK'
  BY <1>1 DEF Prepare, Own, TimesOK
<1>. QED
  BY <1>4, <1>6, <1>7, SameOp, SameBounds DEF Prepare, Own, boundVars

LEMMA RunScriptOwn == ASSUME Own, RunScript PROVE Own'
<1>1. Busy /\ worker.p \in Plugins /\ worker.copy # None /\ worker.from \in Sources
  BY BusyType, WorkerFields DEF RunScript, At, Busy, Own, WorkerOK, Turn
<1>2. Stores'
  BY <1>1, UsesActionTyped, SameStores DEF Own, RunScript, storeVars
<1>3. PICK waits \in BOOLEAN :
        worker' = [worker EXCEPT !.pc = "judge",
                                 !.verdict = [source |-> worker.from, waits |-> waits]]
  BY DEF RunScript
<1>4. PICK verdict \in Proposal : verdict = [source |-> worker.from, waits |-> waits]
  BY <1>1 DEF Proposal
<1>5. /\ worker' \in Worker /\ worker'.pc = "judge" /\ worker'.verdict = verdict
      /\ worker'.p = worker.p /\ worker'.copy = worker.copy
  BY <1>3, <1>4 DEF Own, WorkerOK, Worker
<1>6. WorkerOK' /\ Turn'
  BY <1>1, <1>5, NoneNot DEF WorkerOK, Turn, Busy
<1>. QED
  BY <1>2, <1>6, SameOp, SameTimes, SameBounds DEF RunScript, Own, timeVars, boundVars

\* An answer becomes the proposal of the schedule at hand.
LEMMA JudgedType ==
  ASSUME Own, At("judge")
  PROVE  Busy /\ worker.p \in Plugins /\ Proposed \in Schedule
<1>1. Busy /\ worker.p \in Plugins /\ worker.copy \in Schedule
  BY BusyType DEF At, Busy, Own
<1>2. worker.verdict \in Proposal
  BY WorkerFields DEF At, Own, Turn
<1>. QED
  BY <1>1, <1>2 DEF Proposed, Schedule

LEMMA KeepWaitsOwn == ASSUME Own, KeepWaits PROVE Own'
<1>1. PICK s \in Schedule : s = [Proposed EXCEPT !.error = FALSE, !.due = TRUE]
  BY JudgedType DEF KeepWaits, Schedule
<1>2. Judge(s, "save")
  BY <1>1 DEF KeepWaits, Judge
<1>. QED
  BY <1>2, JudgedType, JudgeTyped, SameStores, SameOp, SameTimes, SameBounds
     DEF KeepWaits, Own, storeVars, timeVars, boundVars

LEMMA KeepForReviewOwn == ASSUME Own, KeepForReview PROVE Own'
<1>1. PICK s \in Schedule : s = [Proposed EXCEPT !.error = FALSE]
  BY JudgedType DEF KeepForReview, Schedule
<1>2. Judge(s, "save")
  BY <1>1 DEF KeepForReview, Judge
<1>. QED
  BY <1>2, JudgedType, JudgeTyped, SameStores, SameOp, SameTimes, SameBounds
     DEF KeepForReview, Own, storeVars, timeVars, boundVars

LEMMA ProposeOwn == ASSUME Own, Propose PROVE Own'
<1>1. PICK p \in Plugins, s \in Schedule : p = worker.p /\ s = Proposed
  BY JudgedType DEF Propose
<1>2. PutSchedule(p, s) /\ Judge(s, "grant") /\ Busy
  BY <1>1, JudgedType DEF Propose, PutSchedule, Judge
<1>. QED
  BY <1>2, PutTyped, JudgeTyped, SameOp, SameTimes, SameBounds
     DEF Propose, Own, timeVars, boundVars

LEMMA CallHostOwn == ASSUME Own, CallHost PROVE Own'
<1>1. Busy /\ worker.copy \in Schedule
  BY BusyType DEF CallHost, At, Busy, Own
<1>2. PICK s \in Schedule : s = worker.copy
  BY <1>1
<1>3. Judge(s, "apply")
  BY <1>2 DEF CallHost, Judge
<1>. QED
  BY <1>1, <1>3, JudgeTyped, SameStores, SameOp, SameTimes, SameBounds
     DEF CallHost, Own, timeVars, boundVars

LEMMA HostRecordsOwn == ASSUME Own, HostRecords PROVE Own'
<1>1. Stores'
  BY DEF HostRecords, Own, Stores
<1>. QED
  BY <1>1, SameWorker, SameOp, SameTimes, SameBounds DEF HostRecords, Own, timeVars, boundVars

LEMMA HostMovesOwn == ASSUME Own, HostMoves PROVE Own'
BY SameStores, SameWorker, SameOp, SameTimes, SameBounds DEF HostMoves, Own, timeVars, boundVars

LEMMA HostReturnsOwn == ASSUME Own, HostReturns PROVE Own'
<1>1. Busy /\ worker.copy \in Schedule
  BY BusyType DEF HostReturns, At, Busy, Own
<1>2. PICK s \in Schedule :
        s = IF host.step = "applied" THEN [worker.copy EXCEPT !.pending = None, !.error = FALSE]
                                     ELSE [worker.copy EXCEPT !.error = TRUE]
  BY <1>1 DEF Schedule
<1>3. Judge(s, "save")
  BY <1>2 DEF HostReturns, Judge
<1>. QED
  BY <1>1, <1>3, JudgeTyped, SameStores, SameOp, SameTimes, SameBounds
     DEF HostReturns, Own, timeVars, boundVars

LEMMA StoreRunOwn == ASSUME Own, StoreRun PROVE Own'
<1>. DEFINE done == worker.resuming /\ worker.copy.pending = None
<1>1. Busy /\ worker.p \in Plugins /\ worker.copy \in Schedule
  BY BusyType DEF StoreRun, At, Busy, Own
<1>2. done => clock < MaxTime
  BY DEF StoreRun
<1>3. PICK copy \in Schedule : copy = IF done THEN Advanced(worker.copy) ELSE worker.copy
  BY <1>1, <1>2, AdvancedType DEF Own
<1>4. PICK p \in Plugins, s \in Schedule : p = worker.p /\ s = [copy EXCEPT !.running = FALSE]
  BY <1>1 DEF Schedule
<1>5. PutSchedule(p, s)
  BY <1>3, <1>4 DEF StoreRun, PutSchedule
<1>6. worker' \in Worker /\ worker'.pc = "pass"
  BY IdleType, WorkerFields DEF StoreRun, Own, Worker
<1>7. WorkerOK' /\ Turn'
  BY <1>6 DEF WorkerOK, Turn, Busy
<1>8. TimesOK'
  BY <1>2, ClockMoves DEF StoreRun, Own, TimesOK
<1>. QED
  BY <1>5, <1>7, <1>8, PutTyped, SameOp, SameBounds DEF StoreRun, Own, boundVars

-----------------------------------------------------------------------------
LEMMA InitOwn == Init => Own
<1>. SUFFICES ASSUME Init PROVE Own
  OBVIOUS
<1>1. PICK first \in Sources : first = CHOOSE v \in Sources : TRUE
  BY SourcesAssumption
<1>2. New \in Schedule /\ [New EXCEPT !.grant = first] \in Schedule
  BY NewType DEF Schedule
<1>3. PICK schedule \in [Plugins -> {None, New, [New EXCEPT !.grant = first]}] :
        db = [schedule |-> schedule, source |-> [p \in Plugins |-> first],
              context |-> [p \in Plugins |-> None], consumers |-> {}]
  BY <1>1 DEF Init
<1>4. Stores
  <2>1. schedule \in [Plugins -> Schedule \cup {None}]
    BY <1>2, <1>3
  <2>2. db \in Store
    BY <1>3, <2>1 DEF Store
  <2>. QED
    BY <2>2 DEF Init, Stores
<1>5. WorkerOK /\ Turn
  BY IdleType DEF Init, WorkerOK, Turn, Busy
<1>6. OpOK /\ BoundsOK /\ TimesOK
  BY BoundsAssumption DEF Init, OpOK, BoundsOK, TimesOK, Times
<1>. QED
  BY <1>4, <1>5, <1>6 DEF Own

LEMMA NextOwn == ASSUME Own, Next PROVE Own'
<1>1. CASE People
  BY <1>1, ReadScheduleOwn, DeleteScheduleOwn, EditDraftOwn, ResumeOwn, BuildGrantOwn,
     StoreScheduleOwn, AbandonRunOwn DEF People
<1>2. CASE RunOne
  BY <1>2, PrepareOwn, RunFailsOwn, RunScriptOwn, KeepWaitsOwn, KeepForReviewOwn, ProposeOwn,
     StoreRunOwn DEF RunOne
<1>3. CASE Host
  BY <1>3, CallHostOwn, HostRecordsOwn, HostMovesOwn, HostReturnsOwn DEF Host
<1>4. CASE ListDue \/ EndPass \/ \E p \in Plugins : Skip(p) \/ AskAction(p)
  BY <1>4, ListDueOwn, EndPassOwn, SkipOwn, AskActionOwn
<1>5. CASE Flush \/ Crash \/ \E p \in Plugins : Tick(p)
  BY <1>5, FlushOwn, CrashOwn, TickOwn
<1>6. CASE \E p \in Plugins : Claim(p) \/ Acknowledge(p) \/ NotLeased(p)
  BY <1>6, ClaimOwn, AcknowledgeOwn, NotLeasedOwn
<1>. QED
  BY <1>1, <1>2, <1>3, <1>4, <1>5, <1>6 DEF Next, Pass

LEMMA StutterOwn == ASSUME Own, UNCHANGED vars PROVE Own'
BY SameWorker, SameStores, SameOp, SameTimes, SameBounds
   DEF Own, vars, storeVars, timeVars, boundVars

-----------------------------------------------------------------------------
\* Every step is one of the run's, or leaves the run alone.
LEMMA NextServes == ASSUME Own, [Next]_vars PROVE [P!Next]_(P!vars)
<1>1. CASE Next
  <2>1. AtRun
    BY BusyType DEF AtRun, Busy, Own
  <2>2. Serves
    BY <1>1, <2>1, NextCalls, CallsServe
  <2>. QED
    BY <2>2, SameNext DEF Serves, Recorded!vars, P!vars
<1>2. CASE UNCHANGED vars
  BY <1>2 DEF vars, runVars, storeVars, P!vars
<1>. QED
  BY <1>1, <1>2

LEMMA InitInv == Init => IInv
<1>1. Init => P!Init
  BY SameInit DEF Init
<1>2. P!Init => P!IInv
  BY P!InitInv, PlansAssumption
<1>. QED
  BY <1>1, <1>2, InitOwn DEF IInv

LEMMA NextInv == IInv /\ [Next]_vars => IInv'
<1>. SUFFICES ASSUME IInv, [Next]_vars PROVE IInv'
  OBVIOUS
<1>1. Own'
  BY NextOwn, StutterOwn DEF IInv
<1>2. [P!Next]_(P!vars)
  BY NextServes DEF IInv
<1>3. P!IInv /\ [P!Next]_(P!vars) => P!IInv'
  BY P!NextInv, PlansAssumption
<1>. QED
  BY <1>1, <1>2, <1>3 DEF IInv

\* The inductive invariant holds throughout.
THEOREM Invariance == Spec => []IInv
BY InitInv, NextInv, PTL DEF Spec

\* The schedule is type-correct for every choice of the constants.
THEOREM TypeCorrect == Spec => []TypeOK
<1>1. IInv => TypeOK
  <2>1. P!IInv => Recorded!TypeOK
    BY SameType DEF P!IInv
  <2>. QED
    BY <2>1 DEF IInv, Own, Stores, WorkerOK, Busy, OpOK, Request, BoundsOK, TimesOK, TypeOK
<1>. QED
  BY <1>1, Invariance, PTL

\* The pass, resumes and abandonments use recorded runs as RecordedRun specifies them.
THEOREM ServesRuns == Spec => P!Spec
<1>1. Init => P!Init
  BY SameInit DEF Init
<1>2. IInv /\ [Next]_vars => [P!Next]_(P!vars)
  BY NextServes DEF IInv
<1>. QED
  BY <1>1, <1>2, Invariance, PTL DEF Spec, P!Spec

\* No write of a scheduled run is made twice, however its schedule is edited, resumed,
\* claimed again or crashes.
THEOREM AtMostOnce == Spec => []WritesAtMostOnce
<1>1. P!Spec => []P!WritesAtMostOnce
  BY P!AtMostOnce, PlansAssumption
<1>2. WritesAtMostOnce <=> P!WritesAtMostOnce
  BY DEF WritesAtMostOnce, Recorded!WritesAtMostOnce, P!WritesAtMostOnce
<1>. QED
  BY <1>1, <1>2, ServesRuns, PTL

\* Whatever happens around it, a scheduled run keeps the promise of RunOnce.
THEOREM RunsOnce == Spec => ImplementsRunOnce
<1>1. P!Spec => P!ImplementsRunOnce
  BY P!RunsOnce, PlansAssumption
<1>2. Recorded!Promise!Spec <=> P!Promise!Spec
  BY DEF Recorded!Promise!Spec, P!Promise!Spec, Recorded!Promise!Init, P!Promise!Init,
     Recorded!Promise!Next, P!Promise!Next, Recorded!Promise!vars, P!Promise!vars,
     Recorded!Promise!Choose, P!Promise!Choose, Recorded!Promise!Write, P!Promise!Write,
     Recorded!Promise!Finish, P!Promise!Finish, Recorded!Promise!Abandon, P!Promise!Abandon
<1>. QED
  BY <1>1, <1>2, ServesRuns, PTL DEF ImplementsRunOnce, Recorded!ImplementsRunOnce,
     P!ImplementsRunOnce

-----------------------------------------------------------------------------
(* What is stored of a schedule, and what the pass holds of it, while nobody touches them *)

\* A run whose plan was chosen, and that has not ended.
Planned(p, n) == journal[<<p, n>>].plan # None /\ journal[<<p, n>>].end = "open"

\* A schedule still knows of a run that was started.
Noticed(s, p, n) ==
  /\ s # None
  /\ s.last >= n
  /\ s.last = n => \/ s.running \/ s.error \/ s.pending # None
                   \/ journal[<<p, n>>].end = "finished"

\* A schedule that is stored, in the store or on disk.
StoredOK(p, s) ==
  /\ s # None => /\ s.last <= clock
                 /\ s.pending # None => <<p, s.last>> \in started
  /\ \A n \in Times : <<p, n>> \in started => Noticed(s, p, n)
  /\ \A n \in Times : Planned(p, n) => s # None /\ s.last = n /\ s.pending # None

\* What the pass listed is what is stored.
ListOK == \A p \in Plugins : worker.due[p] # None =>
            /\ worker.due[p] = db.schedule[p]
            /\ worker.due[p].due
            /\ Busy => p # worker.p

\* The schedule at hand is stored as claimed, and what will be stored of it accounts for
\* its run.
ClaimOK ==
  Busy =>
    /\ db.schedule[worker.p] # None
    /\ db.schedule[worker.p].last = worker.copy.last
    /\ db.schedule[worker.p].running /\ worker.copy.running
    /\ worker.copy.pending # None => Run \in started
    /\ worker.pc \in {"script", "judge", "grant", "apply"} => Run \in started
    /\ worker.pc \in {"grant", "apply"} => /\ worker.copy.pending # None
                                           /\ db.schedule[worker.p].pending # None
    /\ \A n \in Times : Planned(worker.p, n) => worker.copy.last = n /\ worker.copy.pending # None
    /\ (worker.pc = "save" /\ Run \in started) => \/ worker.copy.error
                                                  \/ worker.copy.pending # None
                                                  \/ journal[Run].end = "finished"

\* The call to apply_recorded is about the run at hand.
CallOK == /\ host.step # "idle" => worker.pc = "apply" /\ host.run = Run
          /\ host.step = "applied" => journal[Run].end = "finished"

StoresOK == \A p \in Plugins : StoredOK(p, db.schedule[p]) /\ StoredOK(p, disk.schedule[p])

Alone == op = None /\ StoresOK /\ ListOK /\ ClaimOK /\ CallOK

AloneInv == acts = 0 => Alone

-----------------------------------------------------------------------------
(* Schedules that stay as they are stored *)

LEMMA StoredType ==
  ASSUME Own, NEW p \in Plugins
  PROVE  /\ db.schedule[p] \in Schedule \cup {None}
         /\ disk.schedule[p] \in Schedule \cup {None}
         /\ db.schedule[p] # None => db.schedule[p].last \in Times
         /\ disk.schedule[p] # None => disk.schedule[p].last \in Times
BY StoreFields, ScheduleFields DEF Own, Stores

\* A stored schedule stays good while the journal and the runs started stay the same.
LEMMA StoredStays ==
  ASSUME NEW p \in Plugins, NEW s \in Schedule \cup {None}, StoredOK(p, s),
         TimesOK, clock' \in Times, clock <= clock', UNCHANGED <<journal, started>>
  PROVE  StoredOK(p, s)'
<1>1. s # None => s.last \in Times
  BY ScheduleFields
<1>2. s # None => s.last <= clock'
  BY <1>1 DEF StoredOK, TimesOK, Times
<1>. QED
  BY <1>2 DEF StoredOK, Noticed, Planned

\* Nothing new is stored; at most, all of it is flushed.
LEMMA StoresStay ==
  ASSUME Own, StoresOK, db'.schedule = db.schedule,
         disk'.schedule \in {disk.schedule, db.schedule},
         clock' \in Times, clock <= clock', UNCHANGED <<journal, started>>
  PROVE  StoresOK'
<1>. SUFFICES ASSUME NEW p \in Plugins
              PROVE  StoredOK(p, db.schedule[p])' /\ StoredOK(p, disk.schedule[p])'
  BY DEF StoresOK
<1>1. PICK s \in Schedule \cup {None} : s = db.schedule[p]
  BY StoredType
<1>2. PICK d \in Schedule \cup {None} : d = disk.schedule[p]
  BY StoredType
<1>3. StoredOK(p, s) /\ StoredOK(p, d)
  BY <1>1, <1>2 DEF StoresOK, StoredOK, Noticed
<1>4. StoredOK(p, s)' /\ StoredOK(p, d)'
  BY <1>3, StoredStays DEF Own
<1>5. db'.schedule[p] = s /\ disk'.schedule[p] \in {s, d}
  BY <1>1, <1>2
<1>. QED
  BY <1>4, <1>5 DEF StoredOK, Noticed

\* One schedule is stored, and it is good.
LEMMA StoresPut ==
  ASSUME Own, StoresOK, NEW p \in Plugins, NEW s \in Schedule, PutSchedule(p, s),
         StoredOK(p, s)', clock' \in Times, clock <= clock', UNCHANGED <<journal, started>>
  PROVE  StoresOK'
<1>. SUFFICES ASSUME NEW q \in Plugins
              PROVE  StoredOK(q, db.schedule[q])' /\ StoredOK(q, disk.schedule[q])'
  BY DEF StoresOK
<1>1. PICK d \in Schedule \cup {None} : d = disk.schedule[q]
  BY StoredType
<1>2. StoredOK(q, d)'
  <2>1. StoredOK(q, d)
    BY <1>1 DEF StoresOK, StoredOK, Noticed
  <2>. QED
    BY <2>1, StoredStays DEF Own
<1>3. disk'.schedule[q] = d
  BY <1>1 DEF PutSchedule, Put
<1>4. db.schedule \in [Plugins -> Schedule \cup {None}] /\ db' = [db EXCEPT !.schedule[p] = s]
  BY StoreFields DEF Own, Stores, PutSchedule, Put
<1>5. CASE q = p
  <2>1. db'.schedule[q] = s
    BY <1>4, <1>5 DEF Own, Stores, Store
  <2>. QED
    BY <1>2, <1>3, <1>5, <2>1 DEF StoredOK, Noticed
<1>6. CASE q # p
  <2>1. PICK t \in Schedule \cup {None} : t = db.schedule[q]
    BY StoredType
  <2>2. StoredOK(q, t)
    BY <2>1 DEF StoresOK, StoredOK, Noticed
  <2>3. StoredOK(q, t)'
    BY <2>2, StoredStays DEF Own
  <2>4. db'.schedule[q] = t
    BY <1>4, <1>6, <2>1 DEF Own, Stores, Store
  <2>. QED
    BY <1>2, <1>3, <2>3, <2>4 DEF StoredOK, Noticed
<1>. QED
  BY <1>5, <1>6

\* One schedule is stored anew: the others are as they were.
LEMMA PutLeaves ==
  ASSUME Own, NEW p \in Plugins, NEW s \in Schedule, PutSchedule(p, s)
  PROVE  /\ db'.schedule[p] = s
         /\ \A q \in Plugins : q # p => db'.schedule[q] = db.schedule[q]
BY DEF Own, Stores, Store, PutSchedule, Put

LEMMA SameCall == ASSUME CallOK, UNCHANGED <<worker, host, journal>> PROVE CallOK'
BY DEF CallOK, Run

LEMMA NoCall == ASSUME CallOK, worker.pc # "apply" PROVE host.step = "idle"
BY DEF CallOK

LEMMA SameList ==
  ASSUME ListOK, UNCHANGED worker, db'.schedule = db.schedule
  PROVE  ListOK'
BY DEF ListOK, Busy

LEMMA SameClaim ==
  ASSUME ClaimOK, UNCHANGED <<worker, journal, started>>, db'.schedule = db.schedule
  PROVE  ClaimOK'
BY DEF ClaimOK, Busy, Run, Planned

-----------------------------------------------------------------------------
(* The store, and time *)

LEMMA FlushAlone == ASSUME Own, Alone, Flush PROVE Alone'
<1>1. /\ UNCHANGED <<worker, op, clock, started, journal, host>>
      /\ db' = db /\ disk' = db
  BY DEF Flush, Save, timeVars, runVars
<1>2. clock \in Times /\ clock' \in Times /\ clock <= clock'
  BY <1>1 DEF Own, TimesOK, Times
<1>. QED
  BY <1>1, <1>2, StoresStay, SameCall, SameList, SameClaim DEF Alone

LEMMA CrashAlone == ASSUME Own, Alone, Crash PROVE Alone'
<1>1. /\ worker' = Idle /\ op' = None /\ UNCHANGED <<clock, started, journal, disk>>
      /\ db' = disk /\ host'.step = "idle"
  BY DEF Crash, Recorded!Crash, Recorded!NoHost, timeVars
<1>2. StoresOK'
  BY <1>1 DEF Alone, StoresOK, StoredOK, Noticed, Planned
<1>3. ListOK' /\ ClaimOK' /\ CallOK'
  BY <1>1 DEF ListOK, ClaimOK, CallOK, Busy, Idle
<1>. QED
  BY <1>1, <1>2, <1>3 DEF Alone

\* What a schedule stands for does not depend on whether its next run is due.
LEMMA TickedOK ==
  ASSUME NEW d \in Store, NEW p \in Plugins, NEW q \in Plugins,
         NEW e, e = Ticked(d, p), StoredOK(q, d.schedule[q]), UNCHANGED <<journal, started, clock>>
  PROVE  /\ StoredOK(q, e.schedule[q])'
         /\ q # p => e.schedule[q] = d.schedule[q]
         /\ d.schedule[q] # None =>
              /\ e.schedule[q] # None
              /\ e.schedule[q].last = d.schedule[q].last
              /\ e.schedule[q].running = d.schedule[q].running
              /\ e.schedule[q].pending = d.schedule[q].pending
<1>1. CASE d.schedule[p] = None
  BY <1>1 DEF Ticked, StoredOK, Noticed, Planned
<1>2. CASE d.schedule[p] # None
  <2>1. PICK s \in Schedule : s = d.schedule[p]
    BY <1>2, StoreFields
  <2>2. PICK t \in Schedule : t = [s EXCEPT !.due = TRUE]
    BY DEF Schedule
  <2>3. /\ t.last = s.last /\ t.running = s.running /\ t.pending = s.pending
        /\ t.error = s.error /\ t # None
    BY <2>2, NoneNot DEF Schedule
  <2>4. e.schedule = [d.schedule EXCEPT ![p] = t]
    BY <1>2, <2>1, <2>2 DEF Ticked, Store
  <2>5. e.schedule[q] = IF q = p THEN t ELSE d.schedule[q]
    BY <2>4, StoreFields
  <2>6. PICK a \in Schedule \cup {None} : a = d.schedule[q]
    BY StoreFields
  <2>7. PICK b \in Schedule \cup {None} : b = e.schedule[q]
    BY <2>5, StoreFields
  <2>8. a # None => /\ b # None /\ b.last = a.last /\ b.running = a.running
                    /\ b.pending = a.pending /\ b.error = a.error
    BY <2>1, <2>3, <2>5, <2>6, <2>7
  <2>9. a = None => b = None
    BY <1>2, <2>5, <2>6, <2>7
  <2>10. StoredOK(q, a)
    BY <2>6 DEF StoredOK, Noticed
  <2>11. StoredOK(q, b)'
    BY <2>8, <2>9, <2>10 DEF StoredOK, Noticed, Planned
  <2>12. StoredOK(q, e.schedule[q])'
    BY <2>7, <2>11 DEF StoredOK, Noticed, Planned
  <2>. QED
    BY <2>5, <2>6, <2>7, <2>8, <2>12
<1>. QED
  BY <1>1, <1>2

LEMMA TickAlone == ASSUME Own, Alone, NEW p \in Plugins, Tick(p) PROVE Alone'
<1>1. /\ UNCHANGED <<worker, op, clock, started, journal, host>>
      /\ db.schedule[p] # None /\ ~db.schedule[p].due
  BY DEF Tick, timeVars, runVars
<1>2. PICK d \in Store : d = db
  BY DEF Own, Stores
<1>3. PICK k \in Store : k = disk
  BY DEF Own, Stores
<1>4. PICK e : e = Ticked(d, p)
  OBVIOUS
<1>5. PICK l : l = Ticked(k, p)
  OBVIOUS
<1>6. db' = e /\ disk' = l
  BY <1>2, <1>3, <1>4, <1>5 DEF Tick, Ticked
<1>7. \A q \in Plugins : StoredOK(q, d.schedule[q]) /\ StoredOK(q, k.schedule[q])
  BY <1>2, <1>3 DEF Alone, StoresOK, StoredOK, Noticed
<1>8. \A q \in Plugins : StoredOK(q, e.schedule[q])' /\ StoredOK(q, l.schedule[q])'
  BY <1>1, <1>4, <1>5, <1>7, TickedOK
<1>9. \A q \in Plugins :
        /\ q # p => e.schedule[q] = d.schedule[q]
        /\ d.schedule[q] # None => /\ e.schedule[q] # None
                                   /\ e.schedule[q].last = d.schedule[q].last
                                   /\ e.schedule[q].running = d.schedule[q].running
                                   /\ e.schedule[q].pending = d.schedule[q].pending
  BY <1>1, <1>4, <1>7, TickedOK
<1>10. StoresOK'
  BY <1>6, <1>8 DEF StoresOK, StoredOK, Noticed, Planned
<1>11. ListOK'
  BY <1>1, <1>2, <1>6, <1>9 DEF Alone, ListOK, Busy
<1>12. ClaimOK'
  <2>1. CASE ~Busy
    BY <1>1, <2>1 DEF ClaimOK, Busy
  <2>2. CASE Busy
    <3>1. worker.p \in Plugins
      BY <2>2, BusyType DEF Own
    <3>2. PICK q \in Plugins : q = worker.p
      BY <3>1
    <3>. QED
      BY <1>1, <1>2, <1>6, <1>9, <2>2, <3>2 DEF Alone, ClaimOK, Busy, Run, Planned
  <2>. QED
    BY <2>1, <2>2
<1>. QED
  BY <1>1, <1>10, <1>11, <1>12, SameCall DEF Alone

-----------------------------------------------------------------------------
(* The pass *)

LEMMA SameClock == ASSUME Own PROVE clock \in Times /\ clock <= clock
BY DEF Own, TimesOK, Times

LEMMA ListDueAlone == ASSUME Own, Alone, ListDue PROVE Alone'
<1>1. /\ UNCHANGED <<db, disk, op, clock, started, journal, host>>
      /\ worker.pc = "idle" /\ worker'.pc = "pass"
      /\ \A p \in Plugins : worker'.due[p] =
           IF db.schedule[p] # None /\ db.schedule[p].due THEN db.schedule[p] ELSE None
  BY DEF ListDue, At, Idle, storeVars, timeVars, runVars
<1>2. ListOK' /\ ClaimOK' /\ CallOK'
  BY <1>1, NoCall DEF Alone, ListOK, ClaimOK, CallOK, Busy
<1>. QED
  BY <1>1, <1>2, SameClock, StoresStay DEF Alone

LEMMA EndPassAlone == ASSUME Own, Alone, EndPass PROVE Alone'
<1>1. /\ UNCHANGED <<db, disk, op, clock, started, journal, host>>
      /\ worker.pc = "pass" /\ worker'.pc = "idle" /\ \A p \in Plugins : worker'.due[p] = None
  BY DEF EndPass, At, Idle, storeVars, timeVars, runVars
<1>2. ListOK' /\ ClaimOK' /\ CallOK'
  BY <1>1, NoCall DEF Alone, ListOK, ClaimOK, CallOK, Busy
<1>. QED
  BY <1>1, <1>2, SameClock, StoresStay DEF Alone

\* A listed schedule is the stored one.
LEMMA ListedIsStored ==
  ASSUME Own, Alone, NEW p \in Plugins, Listed(p)
  PROVE  /\ Copy(p) = db.schedule[p] /\ Copy(p) \in Schedule /\ Copy(p) # None
         /\ worker.pc = "pass" /\ host.step = "idle"
         /\ Copy(p).last \in Times /\ Copy(p).last <= clock
         /\ Copy(p).pending # None => <<p, Copy(p).last>> \in started
         /\ \A n \in Times : <<p, n>> \in started => Noticed(Copy(p), p, n)
         /\ \A n \in Times : Planned(p, n) => Copy(p).last = n /\ Copy(p).pending # None
<1>1. PICK s \in Schedule : s = Copy(p)
  BY CopyType DEF Own
<1>2. s = db.schedule[p] /\ s # None /\ worker.pc = "pass"
  BY <1>1, NoneNot DEF Alone, ListOK, Listed, Copy, At
<1>3. host.step = "idle"
  BY <1>2, NoCall DEF Alone
<1>4. StoredOK(p, s)
  BY <1>2 DEF Alone, StoresOK, StoredOK, Noticed
<1>5. s.last \in Times
  BY ScheduleFields
<1>6. \A n \in Times : <<p, n>> \in started => Noticed(s, p, n)
  BY <1>4 DEF StoredOK
<1>7. \A n \in Times : <<p, n>> \in started => Noticed(Copy(p), p, n)
  BY <1>1, <1>6 DEF Noticed
<1>. QED
  BY <1>1, <1>2, <1>3, <1>4, <1>5, <1>7 DEF StoredOK

\* The pass goes on to the next schedule.
LEMMA PassedAlone ==
  ASSUME Own, Alone, NEW p \in Plugins, Listed(p), Passed(p), UNCHANGED <<host, journal>>,
         \A q \in Plugins : q # p => db'.schedule[q] = db.schedule[q]
  PROVE  ListOK' /\ ClaimOK' /\ CallOK'
<1>1. /\ worker' = [worker EXCEPT !.due[p] = None] /\ worker.pc = "pass"
  BY DEF Passed, Listed, At
<1>2. worker'.pc = "pass" /\ \A q \in Plugins :
        worker'.due[q] = IF q = p THEN None ELSE worker.due[q]
  BY <1>1, WorkerFields DEF Own
<1>3. host.step = "idle"
  BY <1>1, NoCall DEF Alone
<1>. QED
  BY <1>2, <1>3 DEF Alone, ListOK, ClaimOK, CallOK, Busy

LEMMA NotLeasedAlone == ASSUME Own, Alone, NEW p \in Plugins, NotLeased(p) PROVE Alone'
<1>1. /\ UNCHANGED <<db, disk, op, clock, started, journal, host>> /\ Listed(p) /\ Passed(p)
  BY DEF NotLeased, storeVars, timeVars, runVars
<1>. QED
  BY <1>1, SameClock, PassedAlone, StoresStay DEF Alone

LEMMA SkipAlone == ASSUME Own, Alone, NEW p \in Plugins, Skip(p) PROVE Alone'
<1>1. /\ UNCHANGED <<db, disk, op, clock, started, journal, host>> /\ Listed(p) /\ Passed(p)
  BY DEF Skip, storeVars, timeVars, runVars
<1>. QED
  BY <1>1, SameClock, PassedAlone, StoresStay DEF Alone

\* A schedule that moves on after its last run: every run it knew of is behind it.
LEMMA MovesOn ==
  ASSUME Own, Alone, NEW p \in Plugins, Listed(p), clock' = clock + 1, clock < MaxTime,
         UNCHANGED <<journal, started>>,
         NEW s \in Schedule, s.last = clock + 1, s.pending = None,
         \A n \in Times : ~Planned(p, n)
  PROVE  StoredOK(p, s)'
<1>1. \A n \in Times : <<p, n>> \in started => Noticed(Copy(p), p, n)
  BY ListedIsStored
<1>2. \A n \in Times : <<p, n>> \in started => n <= Copy(p).last
  <2>1. PICK last \in Times : last = Copy(p).last
    BY ListedIsStored
  <2>2. \A n \in Times : <<p, n>> \in started => last >= n
    BY <1>1, <2>1 DEF Noticed
  <2>3. \A n \in Times : <<p, n>> \in started => n <= last
    BY <2>2, BoundsAssumption DEF Times
  <2>. QED
    BY <2>1, <2>3
<1>3. \A n \in Times : <<p, n>> \in started => n < s.last
  <2>1. PICK last \in Times : last = Copy(p).last /\ last <= clock
    BY ListedIsStored
  <2>2. clock \in Times
    BY SameClock
  <2>3. \A n \in Times : n <= last => n < clock + 1
    BY <2>1, <2>2, BoundsAssumption DEF Times
  <2>. QED
    BY <1>2, <2>1, <2>3
<1>4. s # None
  BY NoneNot
<1>5. \A n \in Times : <<p, n>> \in started => s.last >= n /\ s.last # n
  BY <1>3, SameClock, BoundsAssumption DEF Times
<1>6. s.last <= clock'
  BY SameClock, BoundsAssumption DEF Times
<1>. QED
  BY <1>4, <1>5, <1>6 DEF StoredOK, Noticed, Planned

LEMMA AcknowledgeAlone == ASSUME Own, Alone, NEW p \in Plugins, Acknowledge(p) PROVE Alone'
<1>1. /\ Listed(p) /\ Ended(p) /\ Passed(p) /\ clock < MaxTime /\ clock' = clock + 1
      /\ UNCHANGED <<op, started, journal, host>>
  BY DEF Acknowledge, runVars
<1>2. PICK t \in Schedule :
        t = [Copy(p) EXCEPT !.running = FALSE, !.pending = None, !.error = FALSE]
  BY <1>1, ListedIsStored DEF Schedule
<1>3. PICK s \in Schedule : s = Advanced(t)
  BY <1>1, AdvancedType DEF Own
<1>4. PutSchedule(p, s)
  BY <1>2, <1>3 DEF Acknowledge, PutSchedule, Advanced
<1>5. s.last = clock + 1 /\ s.pending = None
  BY <1>2, <1>3, ListedIsStored, <1>1 DEF Advanced, Schedule
<1>6. \A n \in Times : ~Planned(p, n)
  BY <1>1, ListedIsStored DEF Ended, Planned
<1>7. StoredOK(p, s)'
  BY <1>1, <1>5, <1>6, MovesOn
<1>8. clock' \in Times /\ clock <= clock'
  BY <1>1, ClockMoves DEF Own, TimesOK, Times
<1>9. StoresOK'
  BY <1>1, <1>4, <1>7, <1>8, StoresPut DEF Alone
<1>. QED
  BY <1>1, <1>4, <1>9, PassedAlone, PutLeaves DEF Alone

\* A claim, for a run that starts or goes on.
LEMMA ClaimAsAlone ==
  ASSUME Own, Alone, NEW p \in Plugins, Listed(p), NEW s \in Schedule, NEW resuming \in BOOLEAN,
         ClaimAs(p, s, resuming), UNCHANGED <<op, host, journal, started>>,
         clock' \in Times, clock <= clock', s.last <= clock',
         s.pending # None => <<p, s.last>> \in started,
         \A n \in Times : <<p, n>> \in started => s.last >= n,
         \A n \in Times : Planned(p, n) => s.last = n /\ s.pending # None
  PROVE  Alone'
<1>1. PICK c \in Schedule : c = [s EXCEPT !.running = TRUE, !.error = TRUE]
  BY DEF Schedule
<1>2. /\ PutSchedule(p, c)
      /\ worker' = [worker EXCEPT !.pc = "prepare", !.due[p] = None, !.p = p, !.copy = c,
                                  !.resuming = resuming]
  BY <1>1 DEF ClaimAs, PutSchedule
<1>3. c # None /\ c.last = s.last /\ c.pending = s.pending /\ c.running /\ c.error
  BY <1>1, NoneNot DEF Schedule
<1>4. StoredOK(p, c)'
  BY <1>3 DEF StoredOK, Noticed, Planned
<1>5. StoresOK'
  BY <1>2, <1>4, StoresPut DEF Alone
<1>6. /\ worker'.pc = "prepare" /\ worker'.p = p /\ worker'.copy = c
      /\ \A q \in Plugins : worker'.due[q] = IF q = p THEN None ELSE worker.due[q]
  BY <1>2, WorkerFields DEF Own
<1>7. /\ db'.schedule[p] = c
      /\ \A q \in Plugins : q # p => db'.schedule[q] = db.schedule[q]
  BY <1>2, PutLeaves
<1>8. ListOK'
  BY <1>6, <1>7 DEF Alone, ListOK, Busy
<1>9. ClaimOK'
  BY <1>3, <1>6, <1>7 DEF ClaimOK, Run, Planned
<1>10. CallOK'
  BY ListedIsStored DEF CallOK
<1>. QED
  BY <1>5, <1>8, <1>9, <1>10 DEF Alone

LEMMA AskActionAlone == ASSUME Own, Alone, NEW p \in Plugins, AskAction(p) PROVE Alone'
<1>1. /\ Listed(p) /\ Waits(p) /\ UNCHANGED <<op, clock, started, journal, host>>
      /\ Copy(p).pending # None
  BY DEF AskAction, Waits, timeVars, runVars
<1>2. CASE Passed(p) /\ UNCHANGED storeVars
  BY <1>1, <1>2, SameClock, PassedAlone, StoresStay DEF Alone, storeVars
<1>3. CASE Passed(p) /\ PutSchedule(p, [Copy(p) EXCEPT !.error = TRUE])
  <2>1. PICK s \in Schedule : s = [Copy(p) EXCEPT !.error = TRUE]
    BY <1>1, ListedIsStored DEF Schedule
  <2>2. /\ s # None /\ s.last = Copy(p).last /\ s.pending = Copy(p).pending /\ s.error
    BY <1>1, <2>1, NoneNot, ListedIsStored DEF Schedule
  <2>3. StoredOK(p, s)'
    BY <1>1, <2>2, ListedIsStored DEF StoredOK, Noticed, Planned
  <2>4. PutSchedule(p, s)
    BY <1>3, <2>1 DEF PutSchedule
  <2>5. StoresOK'
    BY <1>1, <2>3, <2>4, SameClock, StoresPut DEF Alone
  <2>. QED
    BY <1>1, <1>3, <2>4, <2>5, PassedAlone, PutLeaves DEF Alone
<1>4. CASE ClaimAs(p, Copy(p), TRUE)
  <2>1. PICK s \in Schedule : s = Copy(p)
    BY <1>1, ListedIsStored
  <2>2. ClaimAs(p, s, TRUE)
    BY <1>4, <2>1 DEF ClaimAs, PutSchedule
  <2>3. \A n \in Times : <<p, n>> \in started => s.last >= n
    BY <1>1, <2>1, ListedIsStored DEF Noticed
  <2>4. /\ s.last \in Times /\ s.last <= clock
        /\ s.pending # None => <<p, s.last>> \in started
        /\ \A n \in Times : Planned(p, n) => s.last = n /\ s.pending # None
    BY <1>1, <2>1, ListedIsStored
  <2>5. clock' \in Times /\ clock <= clock' /\ s.last <= clock'
    BY <1>1, <2>4, SameClock
  <2>6. TRUE \in BOOLEAN
    OBVIOUS
  <2>. QED
    BY <1>1, <2>2, <2>3, <2>4, <2>5, <2>6, ClaimAsAlone
<1>. QED
  BY <1>2, <1>3, <1>4 DEF AskAction

LEMMA ClaimAlone == ASSUME Own, Alone, NEW p \in Plugins, Claim(p) PROVE Alone'
<1>1. /\ Listed(p) /\ ~Open(p) /\ clock < MaxRuns /\ clock' = clock + 1
      /\ ClaimAs(p, Advanced(Copy(p)), FALSE)
      /\ UNCHANGED <<op, started, journal, host>>
  BY DEF Claim, runVars
<1>2. clock < MaxTime
  BY <1>1, SameClock, BoundsAssumption DEF Times
<1>3. PICK t \in Schedule : t = Copy(p)
  BY <1>1, ListedIsStored
<1>4. PICK s \in Schedule : s = Advanced(t)
  BY <1>2, AdvancedType DEF Own
<1>5. ClaimAs(p, s, FALSE)
  BY <1>1, <1>3, <1>4 DEF ClaimAs, PutSchedule, Advanced
<1>6. s.last = clock + 1 /\ s.pending = None
  BY <1>1, <1>3, <1>4 DEF Advanced, Schedule, Open
<1>7. \A n \in Times : ~Planned(p, n)
  BY <1>1, ListedIsStored DEF Open
<1>8. StoredOK(p, s)'
  BY <1>1, <1>2, <1>6, <1>7, MovesOn
<1>9. clock' \in Times /\ clock <= clock' /\ s.last <= clock'
  BY <1>1, <1>2, <1>6, ClockMoves DEF Own, TimesOK, Times
<1>10. \A n \in Times : <<p, n>> \in started => s.last >= n
  BY <1>1, <1>8 DEF StoredOK, Noticed
<1>. QED
  BY <1>1, <1>5, <1>6, <1>7, <1>9, <1>10, ClaimAsAlone

-----------------------------------------------------------------------------
(* run_one *)

\* What holds of the run at hand and its schedule.
LEMMA AtHand ==
  ASSUME Own, Alone, Busy
  PROVE  /\ worker.p \in Plugins /\ worker.copy \in Schedule /\ worker.copy # None
         /\ worker.copy.last \in Times
         /\ Run \in Runs /\ Run = <<worker.p, worker.copy.last>>
         /\ worker.due[worker.p] = None
         /\ db.schedule[worker.p] \in Schedule /\ db.schedule[worker.p] # None
         /\ db.schedule[worker.p].last = worker.copy.last
         /\ db.schedule[worker.p].running /\ worker.copy.running
         /\ worker.copy.pending # None => Run \in started
         /\ \A n \in Times : Planned(worker.p, n) =>
              worker.copy.last = n /\ worker.copy.pending # None
<1>1. worker.p \in Plugins /\ worker.copy \in Schedule /\ worker.copy # None /\ Run \in Runs
  BY BusyType DEF Own, WorkerOK
<1>2. worker.copy.last \in Times
  BY <1>1, ScheduleFields
<1>3. worker.due[worker.p] = None
  BY <1>1 DEF Alone, ListOK
<1>4. db.schedule[worker.p] # None /\ db.schedule[worker.p] \in Schedule
  BY <1>1, StoredType DEF Alone, ClaimOK
<1>. QED
  BY <1>1, <1>2, <1>3, <1>4 DEF Alone, ClaimOK, Run

\* The script may have used an action, which changes no schedule.
LEMMA UsesLeaves ==
  ASSUME Own, UNCHANGED storeVars \/ UsesAction
  PROVE  /\ db'.schedule = db.schedule
         /\ disk'.schedule \in {disk.schedule, db.schedule}
BY DEF UsesAction, Save, storeVars, Own, Stores, Store

LEMMA PrepareAlone == ASSUME Own, Alone, Prepare PROVE Alone'
<1>1. /\ worker.pc = "prepare" /\ Busy /\ started' = started \cup {Run}
      /\ UNCHANGED <<op, clock, journal, host>>
      /\ \E v, n : worker' = [worker EXCEPT !.pc = "script", !.from = v, !.at = n]
  BY DEF Prepare, At, Busy, runVars
<1>2. /\ db'.schedule = db.schedule
      /\ \/ Continues /\ disk'.schedule = disk.schedule
         \/ disk'.schedule = db.schedule
  BY DEF Prepare, Save, storeVars, Own, Stores, Store
<1>3. ASSUME NEW q \in Plugins PROVE StoredOK(q, db.schedule[q])'
  <2>1. PICK s \in Schedule \cup {None} : s = db.schedule[q]
    BY StoredType
  <2>2. StoredOK(q, s)
    BY <2>1 DEF Alone, StoresOK, StoredOK, Noticed
  <2>3. \A n \in Times : <<q, n>> \in started' => Noticed(s, q, n)
    <3>1. SUFFICES ASSUME NEW n \in Times, <<q, n>> = Run PROVE Noticed(s, q, n)
      BY <1>1, <2>2 DEF StoredOK
    <3>2. q = worker.p /\ n = worker.copy.last
      BY <1>1, <3>1, AtHand
    <3>3. s # None /\ s.last = n /\ s.running
      BY <1>1, <2>1, <3>2, AtHand
    <3>. QED
      BY <3>3, BoundsAssumption DEF Noticed, Times
  <2>4. StoredOK(q, s)'
    BY <1>1, <2>2, <2>3 DEF StoredOK, Noticed, Planned
  <2>. QED
    BY <1>2, <2>1, <2>4 DEF StoredOK, Noticed
<1>4. StoresOK'
  <2>1. CASE disk'.schedule = db.schedule
    <3>1. ASSUME NEW q \in Plugins PROVE StoredOK(q, disk.schedule[q])'
      BY <1>2, <1>3, <2>1 DEF StoredOK, Noticed
    <3>. QED
      BY <1>3, <3>1 DEF StoresOK
  <2>2. CASE Continues /\ disk'.schedule = disk.schedule
    <3>1. StoredOK(worker.p, db.schedule[worker.p]) /\ db.schedule[worker.p].pending # None
      BY <1>1, <2>2, AtHand DEF Continues, Stored, Alone, StoresOK
    <3>2. Run \in started
      BY <1>1, <3>1, AtHand DEF StoredOK
    <3>3. started' = started
      BY <1>1, <3>2
    <3>. QED
      BY <1>1, <1>2, <2>2, <3>3, SameClock, StoresStay DEF Alone
  <2>. QED
    BY <1>2, <2>1, <2>2
<1>5. /\ worker'.pc = "script" /\ worker'.p = worker.p /\ worker'.copy = worker.copy
      /\ worker'.due = worker.due
  BY <1>1, WorkerFields DEF Own
<1>6. ListOK'
  BY <1>1, <1>2, <1>5 DEF Alone, ListOK, Busy
<1>7. ClaimOK'
  BY <1>1, <1>2, <1>5, AtHand DEF ClaimOK, Run, Planned
<1>8. CallOK'
  BY <1>1, NoCall DEF Alone, CallOK
<1>. QED
  BY <1>1, <1>4, <1>6, <1>7, <1>8 DEF Alone

LEMMA RunScriptAlone == ASSUME Own, Alone, RunScript PROVE Alone'
<1>1. /\ worker.pc = "script" /\ Busy /\ UNCHANGED <<op, clock, started, journal, host>>
      /\ \E v : worker' = [worker EXCEPT !.pc = "judge", !.verdict = v]
      /\ UNCHANGED storeVars \/ UsesAction
  BY DEF RunScript, At, Busy, timeVars, runVars
<1>2. /\ db'.schedule = db.schedule
      /\ disk'.schedule \in {disk.schedule, db.schedule}
  BY <1>1, UsesLeaves
<1>3. /\ worker'.pc = "judge" /\ worker'.p = worker.p /\ worker'.copy = worker.copy
      /\ worker'.due = worker.due
  BY <1>1, WorkerFields DEF Own
<1>4. ListOK'
  BY <1>1, <1>2, <1>3 DEF Alone, ListOK, Busy
<1>5. Run \in started
  BY <1>1 DEF Alone, ClaimOK
<1>6. ClaimOK'
  BY <1>1, <1>2, <1>3, <1>5, AtHand DEF ClaimOK, Run, Planned
<1>7. CallOK'
  BY <1>1, NoCall DEF Alone, CallOK
<1>. QED
  BY <1>1, <1>2, <1>4, <1>6, <1>7, SameClock, StoresStay DEF Alone

-----------------------------------------------------------------------------
(* What becomes of the answer *)

\* The worker goes on with a copy of the schedule that accounts for the run.
LEMMA JudgeAlone ==
  ASSUME Own, Alone, Busy, NEW s \in Schedule, NEW pc \in {"save", "grant", "apply"},
         Judge(s, pc), UNCHANGED <<journal, started>>, s.last = worker.copy.last, s.running,
         \A q \in Plugins : q # worker.p => db'.schedule[q] = db.schedule[q],
         NEW d \in Schedule, d = db'.schedule[worker.p], d.last = s.last, d.running,
         s.pending # None => Run \in started,
         pc \in {"grant", "apply"} => Run \in started /\ s.pending # None /\ d.pending # None,
         \A n \in Times : Planned(worker.p, n) => s.pending # None,
         (pc = "save" /\ Run \in started) =>
            s.error \/ s.pending # None \/ journal[Run].end = "finished"
  PROVE  ListOK' /\ ClaimOK' /\ Run' = Run /\ worker'.pc = pc
<1>1. worker' = [worker EXCEPT !.pc = pc, !.copy = s]
  BY DEF Judge
<1>2. /\ worker'.pc = pc /\ worker'.p = worker.p /\ worker'.copy = s
      /\ worker'.due = worker.due
  BY <1>1, WorkerFields DEF Own
<1>3. ListOK'
  BY <1>2 DEF Alone, ListOK, Busy
<1>4. Run' = Run
  BY <1>2 DEF Run
<1>5. d # None
  BY NoneNot
<1>6. \A n \in Times : Planned(worker.p, n) => s.last = n
  BY AtHand
<1>7. ClaimOK'
  BY <1>2, <1>4, <1>5, <1>6 DEF ClaimOK, Planned
<1>. QED
  BY <1>2, <1>3, <1>4, <1>7

\* The same, when no schedule is stored.
LEMMA JudgeQuiet ==
  ASSUME Own, Alone, Busy, NEW s \in Schedule, NEW pc \in {"save", "apply"},
         Judge(s, pc), UNCHANGED <<op, journal, started, clock>>, s.last = worker.copy.last, s.running,
         db'.schedule = db.schedule, disk'.schedule \in {disk.schedule, db.schedule},
         s.pending # None => Run \in started,
         pc = "apply" => worker.pc = "grant" /\ s.pending # None,
         \A n \in Times : Planned(worker.p, n) => s.pending # None,
         (pc = "save" /\ Run \in started) =>
            s.error \/ s.pending # None \/ journal[Run].end = "finished"
  PROVE  /\ op' = None /\ StoresOK' /\ ListOK' /\ ClaimOK' /\ Run' = Run /\ worker'.pc = pc
<1>1. PICK d \in Schedule : d = db.schedule[worker.p] /\ d.last = s.last /\ d.running
  BY AtHand
<1>2. d = db'.schedule[worker.p]
  BY <1>1
<1>3. pc \in {"grant", "apply"} => Run \in started /\ s.pending # None /\ d.pending # None
  BY <1>1 DEF Alone, ClaimOK
<1>4. ListOK' /\ ClaimOK' /\ Run' = Run /\ worker'.pc = pc
  BY <1>1, <1>2, <1>3, JudgeAlone
<1>. QED
  BY <1>4, SameClock, StoresStay DEF Alone

LEMMA RunFailsAlone == ASSUME Own, Alone, RunFails PROVE Alone'
<1>1. /\ worker.pc \in {"prepare", "script"} /\ Busy
      /\ UNCHANGED <<op, clock, started, journal, host>>
      /\ UNCHANGED storeVars \/ UsesAction
  BY DEF RunFails, At, Busy, timeVars, runVars
<1>2. PICK s \in Schedule : s = [worker.copy EXCEPT !.error = TRUE]
  BY <1>1, AtHand DEF Schedule
<1>3. s.last = worker.copy.last /\ s.pending = worker.copy.pending /\ s.error /\ s.running
  BY <1>1, <1>2, AtHand DEF Schedule
<1>4. Judge(s, "save")
  BY <1>2, WorkerFields DEF RunFails, Judge, Own
<1>5. op' = None /\ StoresOK' /\ ListOK' /\ ClaimOK'
  BY <1>1, <1>3, <1>4, UsesLeaves, AtHand, JudgeQuiet
<1>6. CallOK'
  BY <1>1, NoCall DEF Alone, CallOK
<1>. QED
  BY <1>5, <1>6 DEF Alone

\* An answer is a proposal of a run that was started.
LEMMA AnswerAlone ==
  ASSUME Own, Alone, At("judge")
  PROVE  /\ Busy /\ Proposed \in Schedule /\ Run \in started
         /\ Proposed.last = worker.copy.last /\ Proposed.pending # None
         /\ Proposed.running
<1>1. Busy /\ Proposed \in Schedule /\ worker.copy \in Schedule
  BY JudgedType, AtHand DEF Own
<1>2. worker.verdict # None
  BY DEF At, Own, Turn
<1>. QED
  BY <1>1, <1>2 DEF Proposed, Schedule, Alone, ClaimOK, At

LEMMA KeepAlone == ASSUME Own, Alone, KeepWaits \/ KeepForReview PROVE Alone'
<1>1. At("judge") /\ UNCHANGED <<db, disk, op, clock, started, journal, host>>
  BY DEF KeepWaits, KeepForReview, storeVars, timeVars, runVars
<1>2. PICK s \in Schedule :
        /\ \/ s = [Proposed EXCEPT !.error = FALSE, !.due = TRUE] /\ KeepWaits
           \/ s = [Proposed EXCEPT !.error = FALSE] /\ KeepForReview
  BY <1>1, AnswerAlone DEF Schedule
<1>3. s.last = worker.copy.last /\ s.pending # None /\ s.running
  BY <1>1, <1>2, AnswerAlone DEF Schedule
<1>4. Judge(s, "save")
  BY <1>2 DEF KeepWaits, KeepForReview, Judge
<1>5. op' = None /\ StoresOK' /\ ListOK' /\ ClaimOK'
  BY <1>1, <1>3, <1>4, AnswerAlone, JudgeQuiet
<1>6. CallOK'
  BY <1>1, NoCall DEF Alone, CallOK, At
<1>. QED
  BY <1>5, <1>6 DEF Alone

LEMMA ProposeAlone == ASSUME Own, Alone, Propose PROVE Alone'
<1>1. /\ At("judge") /\ UNCHANGED <<op, clock, started, journal, host>>
      /\ PutSchedule(worker.p, Proposed) /\ Judge(Proposed, "grant")
  BY DEF Propose, timeVars, runVars
<1>2. PICK p \in Plugins, s \in Schedule : p = worker.p /\ s = Proposed
  BY <1>1, AtHand, AnswerAlone
<1>3. PutSchedule(p, s) /\ Judge(s, "grant")
  BY <1>1, <1>2 DEF PutSchedule, Judge
<1>4. /\ Busy /\ s.last = worker.copy.last /\ s.pending # None /\ s.running /\ Run \in started
  BY <1>1, <1>2, AnswerAlone
<1>5. /\ db'.schedule[p] = s
      /\ \A q \in Plugins : q # p => db'.schedule[q] = db.schedule[q]
  BY <1>3, PutLeaves
<1>6. ListOK' /\ ClaimOK'
  BY <1>1, <1>2, <1>3, <1>4, <1>5, JudgeAlone
<1>7. StoredOK(p, s)'
  <2>1. PICK d \in Schedule : d = db.schedule[p] /\ d.last = s.last
    BY <1>2, <1>4, AtHand
  <2>2. StoredOK(p, d)
    BY <2>1 DEF Alone, StoresOK, StoredOK, Noticed
  <2>3. s # None /\ <<p, s.last>> \in started
    BY <1>2, <1>4, AtHand, NoneNot
  <2>4. d # None /\ d.last <= clock
    BY <2>1, <2>2, NoneNot DEF StoredOK
  <2>5. \A n \in Times : <<p, n>> \in started => s.last >= n
    BY <2>1, <2>2 DEF StoredOK, Noticed
  <2>6. \A n \in Times : Planned(p, n) => s.last = n
    BY <2>1, <2>2 DEF StoredOK
  <2>. QED
    BY <1>1, <1>4, <2>1, <2>3, <2>4, <2>5, <2>6 DEF StoredOK, Noticed, Planned
<1>8. StoresOK'
  BY <1>1, <1>3, <1>7, SameClock, StoresPut DEF Alone
<1>9. CallOK'
  BY <1>1, NoCall DEF Alone, CallOK, At
<1>. QED
  BY <1>1, <1>6, <1>8, <1>9 DEF Alone

LEMMA CallHostAlone == ASSUME Own, Alone, CallHost PROVE Alone'
<1>1. /\ worker.pc = "grant" /\ Busy /\ UNCHANGED <<db, disk, op, clock, started, journal>>
      /\ host' = [step |-> "plan", run |-> Run, k |-> 1, failed |-> FALSE]
      /\ Judge(worker.copy, "apply")
  BY DEF CallHost, At, Busy, timeVars, Recorded!Call, Recorded!NoHost
<1>2. PICK s \in Schedule : s = worker.copy /\ s.last = worker.copy.last /\ s.running
  BY <1>1, AtHand
<1>3. s.pending # None
  BY <1>1, <1>2 DEF Alone, ClaimOK
<1>4. Judge(s, "apply")
  BY <1>1, <1>2 DEF Judge
<1>5. op' = None /\ StoresOK' /\ ListOK' /\ ClaimOK' /\ Run' = Run /\ worker'.pc = "apply"
  <2>1. s.pending # None => Run \in started
    BY <1>1 DEF Alone, ClaimOK
  <2>. QED
    BY <1>1, <1>2, <1>3, <1>4, <2>1, JudgeQuiet
<1>6. CallOK'
  BY <1>1, <1>5 DEF CallOK
<1>. QED
  BY <1>5, <1>6 DEF Alone

-----------------------------------------------------------------------------
(* The call to apply_recorded *)

\* A step of the call is about one run, ends it or leaves its end alone.
LEMMA StepMoves ==
  ASSUME P!IInv, Recorded!Step
  PROVE  /\ host.step # "idle" /\ host'.step # "idle" /\ host'.run = host.run
         /\ host.run \in Runs
         /\ \A r \in Runs : r # host.run => journal'[r] = journal[r]
         /\ journal[host.run].end = "finished" => journal'[host.run].end = "finished"
         /\ host'.step = "applied" => journal'[host.run].end = "finished"
<1>1. /\ host \in [step : Recorded!Steps, run : Runs \cup {None}, k : Nat, failed : BOOLEAN]
      /\ journal \in [Runs -> Recorded!Journal]
      /\ host.step # "idle" => host.run \in Runs
  BY SameType DEF P!IInv, Recorded!TypeOK
<1>2. ASSUME UNCHANGED journal, host'.step \notin {"idle", "applied"},
             host'.run = host.run, host.step # "idle"
      PROVE  /\ host.run \in Runs
             /\ \A r \in Runs : r # host.run => journal'[r] = journal[r]
             /\ journal[host.run].end = "finished" => journal'[host.run].end = "finished"
  BY <1>1, <1>2
<1>3. CASE \/ Recorded!PlanFails \/ Recorded!KeepPlan \/ Recorded!Replay
           \/ Recorded!RefuseUncertain \/ Recorded!Apply \/ Recorded!ApplyFails
           \/ Recorded!Report \/ Recorded!RecordFails \/ Recorded!RecordRun
  <2>1. /\ UNCHANGED journal /\ host'.step \notin {"idle", "applied"}
        /\ host'.run = host.run /\ host.step # "idle"
    BY <1>1, <1>3 DEF Recorded!PlanFails, Recorded!KeepPlan, Recorded!Replay,
      Recorded!RefuseUncertain, Recorded!Apply, Recorded!ApplyFails, Recorded!Report,
      Recorded!RecordFails, Recorded!RecordRun, Recorded!At, Recorded!Goto, Recorded!Begins
  <2>. QED
    BY <1>2, <2>1
<1>4. CASE Recorded!ChoosePlan \/ Recorded!Begin \/ Recorded!Complete
  <2>1. /\ host'.step \notin {"idle", "applied"} /\ host'.run = host.run /\ host.step # "idle"
        /\ \/ \E plan : journal' = [journal EXCEPT ![host.run] =
                                      [journal[host.run] EXCEPT !.plan = plan]]
           \/ \E mark : journal' = [journal EXCEPT ![host.run] =
                                      [journal[host.run] EXCEPT !.effect[host.k] = mark]]
    BY <1>1, <1>4 DEF Recorded!ChoosePlan, Recorded!Begin, Recorded!Complete, Recorded!Record,
      Recorded!At, Recorded!Goto, Recorded!Begins
  <2>. QED
    BY <1>1, <2>1 DEF Recorded!Journal
<1>5. CASE Recorded!Finish
  <2>1. /\ host'.step = "applied" /\ host'.run = host.run /\ host.step # "idle"
        /\ journal' = [journal EXCEPT ![host.run] = [journal[host.run] EXCEPT !.end = "finished"]]
    BY <1>1, <1>5 DEF Recorded!Finish, Recorded!Record, Recorded!At, Recorded!Goto
  <2>. QED
    BY <1>1, <2>1 DEF Recorded!Journal
<1>. QED
  BY <1>3, <1>4, <1>5 DEF Recorded!Step

LEMMA StepAlone ==
  ASSUME Own, Alone, P!IInv, Recorded!Step, UNCHANGED <<db, worker, op, clock, started>>,
         disk' = db \/ UNCHANGED <<disk, journal>>
  PROVE  Alone'
<1>1. /\ worker.pc = "apply" /\ Busy /\ host.run = Run /\ host'.run = Run /\ Run' = Run
      /\ host'.step # "idle"
      /\ \A r \in Runs : r # Run => journal'[r] = journal[r]
      /\ journal[Run].end = "finished" => journal'[Run].end = "finished"
      /\ host'.step = "applied" => journal'[Run].end = "finished"
  BY StepMoves DEF Alone, CallOK, Busy, Run
<1>2. /\ worker.p \in Plugins /\ worker.copy.pending # None /\ Run = <<worker.p, worker.copy.last>>
      /\ db.schedule[worker.p] # None /\ db.schedule[worker.p].last = worker.copy.last
      /\ db.schedule[worker.p].pending # None
  BY <1>1, AtHand DEF Alone, ClaimOK
<1>3. ASSUME NEW q \in Plugins, NEW n \in Times, Planned(q, n)', ~Planned(q, n)
      PROVE  q = worker.p /\ n = worker.copy.last
  <2>1. <<q, n>> \in Runs
    BY DEF Runs
  <2>2. <<q, n>> = Run
    BY <1>1, <1>3, <2>1 DEF Planned
  <2>. QED
    BY <1>2, <2>2
<1>4. ASSUME NEW q \in Plugins, NEW n \in Times, journal[<<q, n>>].end = "finished"
      PROVE  journal'[<<q, n>>].end = "finished"
  <2>1. <<q, n>> \in Runs
    BY DEF Runs
  <2>. QED
    BY <1>1, <1>4, <2>1
\* Only the run at hand may be planned now, and the schedule that is stored is about it.
<1>5. ASSUME NEW q \in Plugins PROVE StoredOK(q, db.schedule[q])'
  <2>1. PICK s \in Schedule \cup {None} : s = db.schedule[q]
    BY StoredType
  <2>2. StoredOK(q, s)
    BY <2>1 DEF Alone, StoresOK, StoredOK, Noticed
  <2>3. \A n \in Times : Planned(q, n)' => s # None /\ s.last = n /\ s.pending # None
    BY <1>2, <1>3, <2>1, <2>2 DEF StoredOK
  <2>4. \A n \in Times : <<q, n>> \in started => Noticed(s, q, n)'
    BY <1>4, <2>2 DEF StoredOK, Noticed
  <2>5. StoredOK(q, s)'
    BY <2>2, <2>3, <2>4 DEF StoredOK
  <2>. QED
    BY <2>1, <2>5 DEF StoredOK, Noticed
<1>6. StoresOK'
  <2>1. CASE disk' = db
    <3>1. ASSUME NEW q \in Plugins PROVE StoredOK(q, disk.schedule[q])'
      BY <1>5, <2>1 DEF StoredOK, Noticed
    <3>. QED
      BY <1>5, <3>1 DEF StoresOK
  <2>2. CASE UNCHANGED <<disk, journal>>
    BY <2>2, SameClock, StoresStay DEF Alone
  <2>. QED
    BY <2>1, <2>2
<1>7. ListOK'
  BY SameList DEF Alone
<1>8. ClaimOK'
  <2>1. \A n \in Times : Planned(worker.p, n)' => worker.copy.last = n
    BY <1>2, <1>3, AtHand, <1>1
  <2>. QED
    BY <1>1, <1>2, <2>1 DEF Alone, ClaimOK, Busy
<1>9. CallOK'
  BY <1>1 DEF CallOK
<1>. QED
  BY <1>6, <1>7, <1>8, <1>9 DEF Alone

LEMMA HostRecordsAlone == ASSUME Own, Alone, P!IInv, HostRecords PROVE Alone'
<1>1. /\ Recorded!Step /\ disk' = db /\ UNCHANGED <<db, worker, op, clock, started>>
  BY DEF HostRecords, Recorded!Step, timeVars
<1>. QED
  BY <1>1, StepAlone

LEMMA HostMovesAlone == ASSUME Own, Alone, P!IInv, HostMoves PROVE Alone'
<1>1. /\ Recorded!Step /\ UNCHANGED <<db, disk, worker, op, clock, started>>
  BY DEF HostMoves, Recorded!Step, timeVars
<1>2. UNCHANGED journal
  BY DEF HostMoves, Recorded!PlanFails, Recorded!KeepPlan, Recorded!Replay,
    Recorded!RefuseUncertain, Recorded!Apply, Recorded!ApplyFails, Recorded!Report,
    Recorded!RecordFails, Recorded!RecordRun
<1>. QED
  BY <1>1, <1>2, StepAlone

LEMMA HostReturnsAlone == ASSUME Own, Alone, HostReturns PROVE Alone'
<1>1. /\ worker.pc = "apply" /\ Busy /\ UNCHANGED <<db, disk, op, clock, started, journal>>
      /\ host'.step = "idle" /\ host.step \in {"failed", "applied"}
  BY DEF HostReturns, At, Busy, timeVars, Recorded!Return, Recorded!NoHost
<1>2. PICK s \in Schedule :
        s = IF host.step = "applied" THEN [worker.copy EXCEPT !.pending = None, !.error = FALSE]
                                     ELSE [worker.copy EXCEPT !.error = TRUE]
  BY <1>1, AtHand DEF Schedule
<1>3. /\ s.last = worker.copy.last /\ s.running
      /\ host.step = "applied" => s.pending = None
      /\ host.step # "applied" => s.pending = worker.copy.pending /\ s.error
  BY <1>1, <1>2, AtHand DEF Schedule
<1>4. Judge(s, "save")
  BY <1>2 DEF HostReturns, Judge
<1>5. host.step = "applied" => journal[Run].end = "finished"
  BY DEF Alone, CallOK
<1>6. \A n \in Times : Planned(worker.p, n) => s.pending # None
  <2>1. SUFFICES ASSUME NEW n \in Times, Planned(worker.p, n), host.step = "applied" PROVE FALSE
    BY <1>1, <1>3, AtHand
  <2>2. <<worker.p, n>> = Run
    BY <1>1, <2>1, AtHand
  <2>. QED
    BY <1>5, <2>1, <2>2 DEF Planned
<1>7. op' = None /\ StoresOK' /\ ListOK' /\ ClaimOK' /\ worker'.pc = "save"
  BY <1>1, <1>3, <1>4, <1>5, <1>6, AtHand, JudgeQuiet
<1>8. CallOK'
  BY <1>1 DEF CallOK
<1>. QED
  BY <1>7, <1>8 DEF Alone

LEMMA StoreRunAlone == ASSUME Own, Alone, StoreRun PROVE Alone'
<1>. DEFINE done == worker.resuming /\ worker.copy.pending = None
<1>1. /\ worker.pc = "save" /\ Busy /\ UNCHANGED <<op, started, journal, host>>
      /\ worker' = [Idle EXCEPT !.pc = "pass", !.due = worker.due]
  BY DEF StoreRun, At, Busy, runVars
<1>2. /\ done => clock < MaxTime
      /\ clock' = IF done THEN clock + 1 ELSE clock
  BY DEF StoreRun
<1>3. clock' \in Times /\ clock <= clock'
  BY <1>2, SameClock, ClockMoves DEF Own, TimesOK, Times
<1>4. PICK copy \in Schedule : copy = IF done THEN Advanced(worker.copy) ELSE worker.copy
  BY <1>1, <1>2, AtHand, AdvancedType DEF Own
<1>5. PICK p \in Plugins, s \in Schedule : p = worker.p /\ s = [copy EXCEPT !.running = FALSE]
  BY <1>1, AtHand DEF Schedule
<1>6. PutSchedule(p, s)
  BY <1>4, <1>5 DEF StoreRun, PutSchedule
<1>7. /\ s.pending = worker.copy.pending /\ s.error = worker.copy.error /\ s # None
      /\ s.last = IF done THEN clock + 1 ELSE worker.copy.last
  BY <1>1, <1>4, <1>5, AtHand, NoneNot DEF Advanced, Schedule
<1>8. PICK d \in Schedule : /\ d = db.schedule[p] /\ d.last = worker.copy.last /\ d # None
  BY <1>1, <1>5, AtHand
<1>9. StoredOK(p, d)
  BY <1>8 DEF Alone, StoresOK, StoredOK, Noticed
<1>10. d.last <= clock /\ \A n \in Times : <<p, n>> \in started => d.last >= n
  BY <1>8, <1>9 DEF StoredOK, Noticed
<1>11. StoredOK(p, s)'
  <2>1. s.last <= clock' /\ (s.pending # None => <<p, s.last>> \in started)
    BY <1>1, <1>2, <1>3, <1>5, <1>7, <1>8, <1>10, AtHand, SameClock, BoundsAssumption DEF Times
  <2>2. \A n \in Times : Planned(p, n) => s.last = n /\ s.pending # None
    BY <1>1, <1>5, <1>7, AtHand
  <2>3. ASSUME NEW n \in Times, <<p, n>> \in started PROVE Noticed(s, p, n)
    <3>1. CASE done
      <4>1. PICK last \in Times : last = d.last /\ last <= clock /\ last >= n
        BY <1>1, <1>8, <1>10, <2>3, AtHand
      <4>2. s.last > n
        BY <1>7, <3>1, <4>1, SameClock, BoundsAssumption DEF Times
      <4>3. s.last \in Nat
        BY <1>7, <3>1, SameClock, BoundsAssumption DEF Times
      <4>. QED
        BY <1>7, <4>2, <4>3, BoundsAssumption DEF Noticed, Times
    <3>2. CASE ~done
      <4>1. s.last = worker.copy.last /\ s.last >= n
        BY <1>7, <1>8, <1>10, <2>3, <3>2
      <4>2. s.last = n => <<p, n>> = Run
        BY <1>1, <1>5, <4>1, AtHand
      <4>. QED
        BY <1>1, <1>7, <2>3, <4>1, <4>2 DEF Noticed, Alone, ClaimOK
    <3>. QED
      BY <3>1, <3>2
  <2>. QED
    BY <1>1, <1>7, <2>1, <2>2, <2>3 DEF StoredOK, Noticed, Planned
<1>12. StoresOK'
  BY <1>1, <1>3, <1>6, <1>11, StoresPut DEF Alone
<1>13. /\ worker'.pc = "pass" /\ worker'.due = worker.due /\ worker.due[p] = None
  BY <1>1, <1>5, AtHand DEF Idle
<1>14. ListOK'
  <2>1. \A q \in Plugins : q # p => db'.schedule[q] = db.schedule[q]
    BY <1>6, PutLeaves
  <2>. QED
    BY <1>13, <2>1 DEF Alone, ListOK, Busy
<1>15. ClaimOK' /\ CallOK'
  BY <1>1, <1>13, NoCall DEF Alone, ClaimOK, CallOK, Busy
<1>. QED
  BY <1>1, <1>12, <1>14, <1>15 DEF Alone

-----------------------------------------------------------------------------
LEMMA InitAlone == Init => AloneInv
<1>. SUFFICES ASSUME Init PROVE Alone
  BY DEF AloneInv
<1>1. Own
  BY InitOwn
<1>2. /\ op = None /\ started = {} /\ clock = 0 /\ disk = db /\ worker = Idle
      /\ \A r \in Runs : journal[r].plan = None
      /\ host.step = "idle"
  BY DEF Init, Recorded!Init, Recorded!NoHost
<1>3. ASSUME NEW p \in Plugins PROVE db.schedule[p] # None =>
        db.schedule[p].last = 0 /\ db.schedule[p].pending = None
  <2>1. PICK first : first = CHOOSE v \in Sources : TRUE
    OBVIOUS
  <2>2. db.schedule \in [Plugins -> {None, New, [New EXCEPT !.grant = first]}]
    BY <2>1 DEF Init
  <2>. QED
    BY <2>2 DEF New
<1>4. ASSUME NEW p \in Plugins PROVE StoredOK(p, db.schedule[p]) /\ StoredOK(p, disk.schedule[p])
  <2>1. \A n \in Times : <<p, n>> \in Runs
    BY DEF Runs
  <2>. QED
    BY <1>2, <1>3, <2>1 DEF StoredOK, Planned
<1>5. ListOK /\ ClaimOK /\ CallOK
  BY <1>2 DEF ListOK, ClaimOK, CallOK, Busy, Idle
<1>. QED
  BY <1>2, <1>4, <1>5 DEF Alone, StoresOK

\* What people do is counted: while they did nothing, there is no request under way.
LEMMA PeopleAct ==
  ASSUME Own, Alone, People
  PROVE  acts' # 0
<1>1. acts \in Nat
  BY BoundsAssumption DEF Own, BoundsOK
<1>2. ~BuildGrant /\ ~StoreSchedule
  BY DEF Alone, BuildGrant, StoreSchedule
<1>3. acts' = acts + 1
  BY <1>2 DEF People, ReadSchedule, DeleteSchedule, EditDraft, Resume, AbandonRun, Acts
<1>. QED
  BY <1>1, <1>3

LEMMA StutterAlone == ASSUME Alone, UNCHANGED vars PROVE Alone'
BY DEF Alone, StoresOK, StoredOK, Noticed, Planned, ListOK, ClaimOK, CallOK, Busy, Run,
   vars, storeVars, timeVars, runVars

LEMMA NextAlone == ASSUME IInv, Alone, Next, acts' = 0 PROVE Alone'
<1>1. Own /\ P!IInv /\ ~People
  BY PeopleAct DEF IInv
<1>2. CASE RunOne
  BY <1>1, <1>2, PrepareAlone, RunFailsAlone, RunScriptAlone, KeepAlone, ProposeAlone,
     StoreRunAlone DEF RunOne
<1>3. CASE Host
  BY <1>1, <1>3, CallHostAlone, HostRecordsAlone, HostMovesAlone, HostReturnsAlone DEF Host
<1>4. CASE ListDue \/ EndPass \/ \E p \in Plugins : Skip(p) \/ AskAction(p)
  BY <1>1, <1>4, ListDueAlone, EndPassAlone, SkipAlone, AskActionAlone
<1>5. CASE Flush \/ Crash \/ \E p \in Plugins : Tick(p)
  BY <1>1, <1>5, FlushAlone, CrashAlone, TickAlone
<1>6. CASE \E p \in Plugins : Claim(p) \/ Acknowledge(p) \/ NotLeased(p)
  BY <1>1, <1>6, ClaimAlone, AcknowledgeAlone, NotLeasedAlone
<1>. QED
  BY <1>1, <1>2, <1>3, <1>4, <1>5, <1>6 DEF Next, Pass

\* What people did stays done.
LEMMA ActsGrow == ASSUME IInv, [Next]_vars, acts' = 0 PROVE acts = 0
<1>1. acts \in Nat
  BY BoundsAssumption DEF IInv, Own, BoundsOK
<1>2. acts' = acts \/ acts' = acts + 1
  BY DEF Next, vars, boundVars, Flush, Crash, Tick, People, Pass, RunOne, Host, ReadSchedule,
    DeleteSchedule, EditDraft, Resume, AbandonRun, Acts, BuildGrant, StoreSchedule, ListDue,
    EndPass, Skip, AskAction, Claim, Acknowledge, NotLeased, Prepare, RunFails, RunScript,
    KeepWaits, KeepForReview, Propose, StoreRun, CallHost, HostRecords, HostMoves, HostReturns
<1>. QED
  BY <1>1, <1>2

LEMMA NextAloneInv == IInv /\ AloneInv /\ [Next]_vars => AloneInv'
<1>. SUFFICES ASSUME IInv, AloneInv, [Next]_vars, acts' = 0 PROVE Alone'
  BY DEF AloneInv
<1>1. Alone
  BY ActsGrow DEF AloneInv
<1>. QED
  BY <1>1, NextAlone, StutterAlone

\* While nobody touches the schedules, what is stored accounts for every run.
THEOREM AccountsForRuns == Spec => []AloneInv
BY InitAlone, NextAloneInv, Invariance, PTL DEF Spec

\* While nobody touches the schedules, a planned run that has not ended keeps its schedule,
\* whatever crashes: no other run of the plugin starts before it.
THEOREM BlocksTheNext == Spec => []OpenRunBlocksTheNext
<1>1. AloneInv => OpenRunBlocksTheNext
  <2>1. SUFFICES ASSUME Alone, NEW p \in Plugins, NEW n \in Times, Planned(p, n), NEW d \in {db, disk}
                 PROVE  d.schedule[p].last = n /\ d.schedule[p].pending # None
    BY DEF AloneInv, OpenRunBlocksTheNext, Planned
  <2>2. StoredOK(p, db.schedule[p]) /\ StoredOK(p, disk.schedule[p])
    BY <2>1 DEF Alone, StoresOK
  <2>. QED
    BY <2>1, <2>2 DEF StoredOK
<1>. QED
  BY <1>1, AccountsForRuns, PTL

\* While nobody touches the schedules, a run whose script started stays on record, whatever
\* crashes.
THEOREM Unnoticed == Spec => []NothingRunsUnnoticed
<1>1. IInv /\ AloneInv => NothingRunsUnnoticed
  <2>1. SUFFICES ASSUME IInv, Alone, NEW p \in Plugins, NEW n \in Times, <<p, n>> \in started,
                        NEW d \in {db, disk}
                 PROVE  Noticed(d.schedule[p], p, n)
    <3>1. IInv => \A r \in started : \E p \in Plugins, n \in Times : r = <<p, n>>
      BY DEF IInv, Own, TimesOK, Runs
    <3>. QED
      BY <3>1 DEF AloneInv, NothingRunsUnnoticed, Noticed
  <2>2. StoredOK(p, db.schedule[p]) /\ StoredOK(p, disk.schedule[p])
    BY <2>1 DEF Alone, StoresOK
  <2>. QED
    BY <2>1, <2>2 DEF StoredOK, Noticed
<1>. QED
  BY <1>1, AccountsForRuns, Invariance, PTL
=============================================================================
