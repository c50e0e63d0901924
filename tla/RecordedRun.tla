---------------------------- MODULE RecordedRun ----------------------------
(***************************************************************************)
(* Applying what a plugin proposed, unattended: apply_recorded of          *)
(* server/src/plugins/scheduler.rs, the loop of apply.rs and the journal   *)
(* of journal.rs that remembers, across crashes, what the run was going to *)
(* write and what it wrote.                                                *)
(*                                                                         *)
(* The delivery of triggers and the schedule both call it, each under a    *)
(* lock of its own, so one run is applied at a time.  Every journal write  *)
(* is flushed before the next step, and the flush keeps every earlier      *)
(* write of the store as well; a write that was not flushed is gone after  *)
(* a crash.                                                                *)
(***************************************************************************)
EXTENDS RunPlans

CONSTANT Runs  \* the identities a journal is kept under

VARIABLES
  journal,  \* what is recorded of each run
  written,  \* the writes <<run, place>> the store holds
  flushed,  \* those that a crash leaves
  host,     \* the call under way: its step, its run, the next place, whether a write failed
  ran       \* history: how often each write was made

vars == <<journal, written, flushed, host, ran>>
-----------------------------------------------------------------------------
Journal == [plan : Plans \cup {Blocked, None},
            effect : [Places -> {"none", "uncertain", "done"}],
            end : {"open", "finished", "abandoned"}]

Steps == {"idle", "plan", "effect", "apply", "complete", "record", "finish", "failed", "applied"}

NoHost == [step |-> "idle", run |-> None, k |-> 1, failed |-> FALSE]

Init == /\ journal = [r \in Runs |-> [plan |-> None, end |-> "open",
                                      effect |-> [k \in Places |-> "none"]]]
        /\ written = {}
        /\ flushed = {}
        /\ host = NoHost
        /\ ran = [r \in Runs |-> [k \in Places |-> 0]]

Abandoned(r) == journal[r].end = "abandoned"
Plan == journal[host.run].plan

\* Where the call stands, and where it goes next.
At(step) == host.step = step
Goto(step) == host' = [host EXCEPT !.step = step]

\* A receipt that is not flushed.
RecordUnsynced(r, entry) == /\ journal' = [journal EXCEPT ![r] = entry]
                            /\ UNCHANGED flushed

\* A journal write ends with a flush of the whole store.
Record(r, entry) == /\ journal' = [journal EXCEPT ![r] = entry]
                    /\ flushed' = written
-----------------------------------------------------------------------------
Call(r) == /\ At("idle")
           /\ host' = [NoHost EXCEPT !.step = "plan", !.run = r]
           /\ UNCHANGED <<journal, written, flushed, ran>>

\* The verdict cannot be planned, or the journal was abandoned meanwhile.
PlanFails == /\ At("plan")
             /\ Goto("failed")
             /\ UNCHANGED <<journal, written, flushed, ran>>

\* Journal::plan: the plan recorded before is the plan, whatever is planned now.
KeepPlan == /\ At("plan")
            /\ ~Abandoned(host.run)
            /\ Plan # None
            /\ Goto(IF Plan = Blocked THEN "record" ELSE "effect")
            /\ UNCHANGED <<journal, written, flushed, ran>>

ChoosePlan == /\ At("plan")
              /\ ~Abandoned(host.run)
              /\ Plan = None
              /\ \E plan \in Plans \cup {Blocked} :
                   /\ Record(host.run, [journal[host.run] EXCEPT !.plan = plan])
                   /\ Goto(IF plan = Blocked THEN "record" ELSE "effect")
              /\ UNCHANGED <<written, ran>>

\* Journal::begin, for each write: a receipt is replayed, an attempt without one refused.
Begins(effect) == /\ At("effect")
                  /\ host.k \in DOMAIN Plan
                  /\ ~Abandoned(host.run)
                  /\ journal[host.run].effect[host.k] = effect

Replay == /\ Begins("done")
          /\ host' = [host EXCEPT !.k = @ + 1]
          /\ UNCHANGED <<journal, written, flushed, ran>>

RefuseUncertain == /\ Begins("uncertain")
                   /\ Goto("failed")
                   /\ UNCHANGED <<journal, written, flushed, ran>>

\* An attempt without a receipt is tried again.
BeginAgain == /\ Begins("none") \/ Begins("uncertain")
              /\ Record(host.run, [journal[host.run] EXCEPT !.effect[host.k] = "uncertain"])
              /\ Goto("apply")
              /\ UNCHANGED <<written, ran>>

Begin == /\ Begins("none")
         /\ Record(host.run, [journal[host.run] EXCEPT !.effect[host.k] = "uncertain"])
         /\ Goto("apply")
         /\ UNCHANGED <<written, ran>>

\* apply_change succeeds, or is refused; then nothing more is attempted.
Apply == /\ At("apply")
         /\ written' = written \cup {<<host.run, host.k>>}
         /\ ran' = [ran EXCEPT ![host.run][host.k] = @ + 1]
         /\ Goto("complete")
         /\ UNCHANGED <<journal, flushed>>

ApplyFails == /\ At("apply")
              /\ host' = [host EXCEPT !.step = "record", !.failed = TRUE]
              /\ UNCHANGED <<journal, written, flushed, ran>>

Complete == /\ At("complete")
            /\ Record(host.run, [journal[host.run] EXCEPT !.effect[host.k] = "done"])
            /\ host' = [host EXCEPT !.step = "effect", !.k = @ + 1]
            /\ UNCHANGED <<written, ran>>

Report == /\ At("effect")
          /\ host.k \notin DOMAIN Plan
          /\ Goto("record")
          /\ UNCHANGED <<journal, written, flushed, ran>>

\* record_run: a failed, stopped or blocked run is logged but never finished.
RecordFails == /\ At("record")
               /\ Goto("failed")
               /\ UNCHANGED <<journal, written, flushed, ran>>

\* A run finishes once it is logged, whatever failed.
RecordAnyRun == /\ At("record")
                /\ Goto("finish")
                /\ UNCHANGED <<journal, written, flushed, ran>>

RecordRun == /\ At("record")
             /\ Goto(IF host.failed \/ Plan = Blocked THEN "failed" ELSE "finish")
             /\ UNCHANGED <<journal, written, flushed, ran>>

Finish == /\ At("finish")
          /\ ~Abandoned(host.run)
          /\ Record(host.run, [journal[host.run] EXCEPT !.end = "finished"])
          /\ Goto("applied")
          /\ UNCHANGED <<written, ran>>

\* The caller has the result.
Return == /\ host.step \in {"failed", "applied"}
          /\ host' = NoHost
          /\ UNCHANGED <<journal, written, flushed, ran>>

\* Journal::abandon, by a person, under the lock of the caller.
Abandon(r) == /\ At("idle")
              /\ journal[r].end = "open"
              /\ Record(r, [journal[r] EXCEPT !.end = "abandoned"])
              /\ UNCHANGED <<written, host, ran>>

\* The store's own cadence (Db::spawn_durable_flush), or any other flush.
Flush == /\ flushed' = written
         /\ UNCHANGED <<journal, written, host, ran>>

Crash == /\ written' = flushed
         /\ host' = NoHost
         /\ UNCHANGED <<journal, flushed, ran>>

Step == \/ PlanFails \/ KeepPlan \/ ChoosePlan
        \/ Replay \/ RefuseUncertain \/ Begin \/ Apply \/ ApplyFails \/ Complete \/ Report
        \/ RecordFails \/ RecordRun \/ Finish

Next == Step \/ Return \/ Flush \/ Crash \/ \E r \in Runs : Call(r) \/ Abandon(r)

Spec == Init /\ [][Next]_vars
-----------------------------------------------------------------------------
TypeOK == /\ journal \in [Runs -> Journal]
          /\ written \subseteq Runs \X Places
          /\ flushed \subseteq Runs \X Places
          /\ host \in [step : Steps, run : Runs \cup {None}, k : Nat, failed : BOOLEAN]
          /\ host.step # "idle" => host.run \in Runs
          /\ ran \in [Runs -> [Places -> Nat]]

\* A write is made at most once, over every crash and every later attempt at its run.
WritesAtMostOnce == \A r \in Runs, k \in Places : ran[r][k] <= 1

\* A receipt, which lets a retry skip the write, is only kept for a write no crash can undo.
ReceiptsAreDurable ==
  \A r \in Runs, k \in Places : journal[r].effect[k] = "done" => <<r, k>> \in flushed \cap written

\* Implements RunOnce: what the journal says is what was promised.
Promise == INSTANCE RunOnce WITH plan <- [r \in Runs |-> journal[r].plan], made <- ran,
                                 end <- [r \in Runs |-> journal[r].end]
ImplementsRunOnce == Promise!Spec
=============================================================================
