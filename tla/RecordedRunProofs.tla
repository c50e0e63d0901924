-------------------------- MODULE RecordedRunProofs --------------------------
(***************************************************************************)
(* For every set of runs and plans: a recorded run makes each of its       *)
(* writes at most once, keeps receipts only of writes no crash undoes, and *)
(* implements RunOnce.                                                     *)
(***************************************************************************)
EXTENDS RecordedRun, TLAPS

Done(r, k) == journal[r].effect[k] = "done"
AllDone(r) == journal[r].plan \in Plans /\ \A k \in DOMAIN journal[r].plan : Done(r, k)

\* What an effect's mark says of the write.
MarksOK ==
  \A r \in Runs, k \in Places :
    /\ journal[r].effect[k] = "none" => ran[r][k] = 0
    /\ journal[r].effect[k] = "uncertain" => ran[r][k] \in {0, 1}
    /\ journal[r].effect[k] = "done" => ran[r][k] = 1 /\ <<r, k>> \in flushed

\* Where the call stands.
HostOK ==
  /\ host.k # 0
  /\ host.step = "plan" => host.k = 1 /\ ~host.failed
  /\ host.step \in {"effect", "apply", "complete", "record", "finish"} =>
       journal[host.run].end # "abandoned" /\ Plan \in Plans \cup {Blocked}
  /\ host.step \in {"effect", "apply", "complete"} =>
       /\ Plan \in Plans
       /\ ~host.failed
       /\ \A k \in DOMAIN Plan : k < host.k => Done(host.run, k)
  /\ host.step \in {"apply", "complete"} =>
       /\ journal[host.run].end = "open"
       /\ host.k \in DOMAIN Plan
       /\ journal[host.run].effect[host.k] = "uncertain"
  /\ host.step = "apply" => ran[host.run][host.k] = 0
  /\ host.step = "complete" => ran[host.run][host.k] = 1 /\ <<host.run, host.k>> \in written
  /\ (host.step = "record" /\ ~host.failed /\ Plan # Blocked) => AllDone(host.run)
  /\ host.step = "finish" => AllDone(host.run)

EndsOK == \A r \in Runs : journal[r].end = "finished" => AllDone(r)

IInv == TypeOK /\ flushed \subseteq written /\ MarksOK /\ HostOK /\ EndsOK

-----------------------------------------------------------------------------
\* The types of what every action reads.
LEMMA HostType ==
  ASSUME TypeOK
  PROVE  /\ host \in [step : Steps, run : Runs \cup {None}, k : Nat, failed : BOOLEAN]
         /\ host = [step |-> host.step, run |-> host.run, k |-> host.k, failed |-> host.failed]
         /\ host.step \in Steps /\ host.k \in Nat /\ host.failed \in BOOLEAN
         /\ host.run \in Runs \cup {None}
         /\ host.step # "idle" => host.run \in Runs
BY DEF TypeOK, Steps

\* What a journal entry is made of.
LEMMA EntryType ==
  ASSUME TypeOK, NEW r \in Runs
  PROVE  /\ journal[r] \in Journal
         /\ journal[r].plan \in Plans \cup {Blocked, None}
         /\ journal[r].effect \in [Places -> {"none", "uncertain", "done"}]
         /\ journal[r].end \in {"open", "finished", "abandoned"}
BY DEF TypeOK, Journal

LEMMA InitInv == Init => IInv
BY PlansAssumption DEF Init, IInv, TypeOK, Journal, Steps, NoHost, MarksOK, HostOK, EndsOK, AllDone, Done

\* A call moves on without touching the journal or the store.
LEMMA QuietStep ==
  ASSUME IInv, UNCHANGED <<journal, written, flushed, ran>>,
         host' \in [step : Steps, run : Runs \cup {None}, k : Nat, failed : BOOLEAN],
         host'.step # "idle" => host'.run \in Runs,
         HostOK'
  PROVE  IInv'
BY DEF IInv, TypeOK, MarksOK, EndsOK, AllDone, Done

LEMMA CallInv == ASSUME IInv, NEW r \in Runs, Call(r) PROVE IInv'
<1>1. HostOK'
  BY DEF Call, At, NoHost, HostOK
<1>. QED
  BY <1>1, QuietStep, HostType DEF Call, At, NoHost, Steps, IInv

LEMMA FailInv == ASSUME IInv, PlanFails \/ RefuseUncertain \/ RecordFails PROVE IInv'
<1>1. TypeOK /\ HostOK /\ host' = [host EXCEPT !.step = "failed"] /\ host.step # "idle"
      /\ UNCHANGED <<journal, written, flushed, ran>>
  BY DEF IInv, PlanFails, RefuseUncertain, RecordFails, Begins, At, Goto
<1>2. HostOK'
  BY <1>1, HostType DEF HostOK
<1>. QED
  BY <1>1, <1>2, QuietStep, HostType DEF Steps, TypeOK

LEMMA KeepPlanInv == ASSUME IInv, KeepPlan PROVE IInv'
<1>1. /\ TypeOK /\ HostOK /\ host.step = "plan" /\ host.run \in Runs
      /\ UNCHANGED <<journal, written, flushed, ran>>
      /\ host' = [host EXCEPT !.step = IF Plan = Blocked THEN "record" ELSE "effect"]
      /\ Plan # None /\ journal[host.run].end # "abandoned"
  BY DEF IInv, KeepPlan, TypeOK, At, Goto, Abandoned
<1>2. Plan' = Plan /\ Plan \in Plans \cup {Blocked}
  BY <1>1, EntryType, HostType DEF Plan
<1>3. Plan \in Plans => \A k \in DOMAIN Plan : ~(k < 1)
  BY PlansAssumption
<1>4. HostOK'
  BY <1>1, <1>2, <1>3, HostType DEF HostOK, Plan
<1>. QED
  BY <1>1, <1>4, QuietStep, HostType DEF Steps

LEMMA ReplayInv == ASSUME IInv, Replay PROVE IInv'
<1>1. /\ TypeOK /\ HostOK /\ host.step = "effect" /\ host.run \in Runs
      /\ UNCHANGED <<journal, written, flushed, ran>>
      /\ host' = [host EXCEPT !.k = host.k + 1]
      /\ Done(host.run, host.k)
  BY DEF IInv, Replay, Begins, TypeOK, At, Done
<1>2. Plan \in Plans /\ Plan' = Plan /\ host'.k = host.k + 1 /\ host'.k # 0 /\ host'.step = "effect"
      /\ host'.run = host.run /\ ~host'.failed /\ ~host.failed
  BY <1>1, HostType DEF Plan, HostOK
<1>3. \A k \in DOMAIN Plan : k \in Nat /\ (k < host.k + 1 => k < host.k \/ k = host.k)
  BY <1>2, PlansAssumption, HostType, <1>1
<1>4. HostOK'
  BY <1>1, <1>2, <1>3 DEF HostOK, Done, Plan
<1>. QED
  BY <1>1, <1>4, QuietStep, HostType DEF Steps

LEMMA ReportInv == ASSUME IInv, Report \/ ApplyFails PROVE IInv'
<1>1. TypeOK /\ HostOK /\ host.run \in Runs /\ UNCHANGED <<journal, written, flushed, ran>>
  BY DEF IInv, Report, ApplyFails, TypeOK, At
<1>2. CASE ApplyFails
  <2>1. host' = [host EXCEPT !.step = "record", !.failed = TRUE] /\ host.step = "apply"
    BY <1>2 DEF ApplyFails, At
  <2>2. HostOK'
    BY <1>1, <2>1, HostType DEF HostOK, Plan
  <2>. QED
    BY <1>1, <2>1, <2>2, QuietStep, HostType DEF Steps
<1>3. CASE Report
  <2>1. /\ host' = [host EXCEPT !.step = "record"] /\ host.step = "effect"
        /\ host.k \notin DOMAIN Plan
    BY <1>3 DEF Report, At, Goto
  <2>2. Plan \in Plans /\ \A k \in DOMAIN Plan : k < host.k => Done(host.run, k)
    BY <1>1, <2>1 DEF HostOK
  <2>3. \A k \in DOMAIN Plan : Done(host.run, k)
    <3>1. host.k \in Nat \ {0} /\ DOMAIN Plan = 1 .. Len(Plan) /\ Len(Plan) \in Nat
      BY <1>1, <2>2, PlansAssumption, HostType DEF HostOK
    <3>. QED
      BY <3>1, <2>1, <2>2
  <2>4. HostOK'
    BY <1>1, <2>1, <2>2, <2>3, HostType DEF HostOK, Plan, AllDone, Done
  <2>. QED
    BY <1>1, <2>1, <2>4, QuietStep, HostType DEF Steps
<1>. QED
  BY <1>2, <1>3

LEMMA RecordRunInv == ASSUME IInv, RecordRun PROVE IInv'
<1>1. /\ TypeOK /\ HostOK /\ host.step = "record" /\ host.run \in Runs
      /\ UNCHANGED <<journal, written, flushed, ran>>
      /\ host' = [host EXCEPT !.step = IF host.failed \/ Plan = Blocked THEN "failed" ELSE "finish"]
  BY DEF IInv, RecordRun, TypeOK, At, Goto
<1>2. HostOK'
  BY <1>1, HostType DEF HostOK, Plan, AllDone, Done
<1>. QED
  BY <1>1, <1>2, QuietStep, HostType DEF Steps

LEMMA ReturnInv == ASSUME IInv, Return PROVE IInv'
<1>1. HostOK'
  BY DEF Return, NoHost, HostOK
<1>. QED
  BY <1>1, QuietStep DEF Return, NoHost, Steps

LEMMA FlushInv == ASSUME IInv, Flush PROVE IInv'
<1>1. TypeOK' /\ (flushed \subseteq written)' /\ MarksOK' /\ EndsOK'
  BY DEF Flush, IInv, TypeOK, MarksOK, EndsOK, AllDone, Done
<1>2. HostOK'
  BY DEF Flush, IInv, HostOK, Plan, AllDone, Done
<1>. QED
  BY <1>1, <1>2 DEF IInv

LEMMA CrashInv == ASSUME IInv, Crash PROVE IInv'
<1>1. TypeOK' /\ (flushed \subseteq written)' /\ MarksOK' /\ EndsOK'
  BY DEF Crash, NoHost, Steps, IInv, TypeOK, MarksOK, EndsOK, AllDone, Done
<1>2. HostOK'
  BY DEF Crash, NoHost, HostOK
<1>. QED
  BY <1>1, <1>2 DEF IInv

-----------------------------------------------------------------------------
\* What a journal write leaves of the invariant, whatever it changes of one entry.
LEMMA RecordStep ==
  ASSUME IInv, NEW r \in Runs, NEW entry \in Journal, Record(r, entry),
         UNCHANGED <<written, ran>>,
         host' \in [step : Steps, run : Runs \cup {None}, k : Nat, failed : BOOLEAN],
         host'.step # "idle" => host'.run \in Runs
  PROVE  /\ TypeOK' /\ (flushed \subseteq written)'
         /\ journal'[r] = entry
         /\ \A q \in Runs : q # r => journal'[q] = journal[q]
         /\ flushed \subseteq flushed'
BY DEF IInv, TypeOK, Record

LEMMA ChoosePlanInv == ASSUME IInv, ChoosePlan PROVE IInv'
<1>1. /\ TypeOK /\ HostOK /\ MarksOK /\ EndsOK /\ host.step = "plan" /\ host.run \in Runs
      /\ UNCHANGED <<written, ran>> /\ journal[host.run].end # "abandoned"
      /\ journal[host.run].plan = None
  BY DEF IInv, ChoosePlan, TypeOK, At, Abandoned, Plan
<1>2. PICK plan \in Plans \cup {Blocked} :
        /\ Record(host.run, [journal[host.run] EXCEPT !.plan = plan])
        /\ host' = [host EXCEPT !.step = IF plan = Blocked THEN "record" ELSE "effect"]
  BY DEF ChoosePlan, Goto
<1>. DEFINE entry == [journal[host.run] EXCEPT !.plan = plan]
<1>3. /\ entry \in Journal /\ entry.plan = plan
      /\ entry.effect = journal[host.run].effect /\ entry.end = journal[host.run].end
  BY <1>1, EntryType DEF Journal
<1>4. /\ host' \in [step : Steps, run : Runs \cup {None}, k : Nat, failed : BOOLEAN]
      /\ host'.run = host.run /\ host'.k = 1 /\ ~host'.failed
      /\ host'.step = IF plan = Blocked THEN "record" ELSE "effect"
  BY <1>1, <1>2, HostType DEF Steps, HostOK
<1>. HIDE DEF entry
<1>5. /\ TypeOK' /\ (flushed \subseteq written)' /\ journal'[host.run] = entry
      /\ \A q \in Runs : q # host.run => journal'[q] = journal[q]
      /\ flushed \subseteq flushed'
  <2>1. Record(host.run, entry)
    BY <1>2 DEF entry
  <2>. QED
    BY <1>1, <1>3, <1>4, <2>1, RecordStep
<1>6. \A q \in Runs : /\ journal'[q].effect = journal[q].effect
                      /\ journal'[q].end = journal[q].end
  BY <1>3, <1>5
<1>7. MarksOK'
  BY <1>1, <1>5, <1>6 DEF MarksOK
<1>8. journal[host.run].end # "finished"
  BY <1>1, PlansAssumption DEF EndsOK, AllDone
<1>9. EndsOK'
  BY <1>1, <1>3, <1>5, <1>8 DEF EndsOK, AllDone, Done
<1>10. plan \in Plans => \A k \in DOMAIN plan : ~(k < 1)
  BY PlansAssumption
<1>11. HostOK'
  BY <1>1, <1>3, <1>4, <1>5, <1>10 DEF HostOK, Plan
<1>. QED
  BY <1>5, <1>7, <1>9, <1>11 DEF IInv

LEMMA BeginInv == ASSUME IInv, Begin PROVE IInv'
<1>1. /\ TypeOK /\ HostOK /\ MarksOK /\ EndsOK /\ host.step = "effect" /\ host.run \in Runs
      /\ UNCHANGED <<written, ran>> /\ host.k \in DOMAIN Plan
      /\ journal[host.run].effect[host.k] = "none"
      /\ host' = [host EXCEPT !.step = "apply"]
      /\ Record(host.run, [journal[host.run] EXCEPT !.effect[host.k] = "uncertain"])
  BY DEF IInv, Begin, Begins, TypeOK, At, Goto
<1>2. Plan \in Plans /\ host.k \in Places /\ journal[host.run].end = "open"
  <2>1. Plan \in Plans /\ host.k \in Places
    BY <1>1, PlansAssumption DEF HostOK
  <2>2. journal[host.run].end # "finished"
    BY <1>1 DEF EndsOK, AllDone, Done, Plan
  <2>. QED
    BY <1>1, <2>1, <2>2, EntryType DEF HostOK
<1>. DEFINE entry == [journal[host.run] EXCEPT !.effect[host.k] = "uncertain"]
<1>3. /\ entry \in Journal /\ entry.plan = Plan /\ entry.end = "open"
      /\ entry.effect = [journal[host.run].effect EXCEPT ![host.k] = "uncertain"]
  BY <1>1, <1>2, EntryType DEF Journal, Plan
<1>4. /\ host' \in [step : Steps, run : Runs \cup {None}, k : Nat, failed : BOOLEAN]
      /\ host'.run = host.run /\ host'.k = host.k /\ host'.failed = host.failed
      /\ host'.step = "apply"
  BY <1>1, HostType DEF Steps
<1>5. /\ TypeOK' /\ (flushed \subseteq written)' /\ journal'[host.run] = entry
      /\ \A q \in Runs : q # host.run => journal'[q] = journal[q]
      /\ flushed \subseteq flushed'
  <2>1. Record(host.run, entry)
    BY <1>1 DEF entry
  <2>. HIDE DEF entry
  <2>. QED
    BY <1>1, <1>3, <1>4, <2>1, RecordStep
<1>. HIDE DEF entry
<1>6. /\ entry.effect[host.k] = "uncertain"
      /\ \A k \in Places : k # host.k => entry.effect[k] = journal[host.run].effect[k]
  BY <1>1, <1>2, <1>3, EntryType
<1>7. MarksOK'
  <2>1. ran[host.run][host.k] = 0
    BY <1>1, <1>2 DEF MarksOK
  <2>2. SUFFICES ASSUME NEW q \in Runs, NEW k \in Places
                 PROVE  /\ journal'[q].effect[k] = "none" => ran[q][k] = 0
                        /\ journal'[q].effect[k] = "uncertain" => ran[q][k] \in {0, 1}
                        /\ journal'[q].effect[k] = "done" => ran[q][k] = 1 /\ <<q, k>> \in flushed'
    BY <1>1 DEF MarksOK
  <2>3. CASE q = host.run /\ k = host.k
    BY <2>1, <2>3, <1>5, <1>6
  <2>4. CASE ~(q = host.run /\ k = host.k)
    <3>1. journal'[q].effect[k] = journal[q].effect[k]
      BY <2>4, <1>5, <1>6
    <3>. QED
      BY <3>1, <1>1, <1>5 DEF MarksOK
  <2>. QED
    BY <2>3, <2>4
<1>8. EndsOK'
  BY <1>1, <1>3, <1>5 DEF EndsOK, AllDone, Done
<1>9. HostOK'
  <2>1. \A k \in DOMAIN Plan : k \in Places /\ k \in Nat
    BY <1>2, PlansAssumption
  <2>2. ran[host.run][host.k] = 0
    BY <1>1, <1>2 DEF MarksOK
  <2>3. Plan' = Plan
    BY <1>3, <1>4, <1>5 DEF Plan
  <2>4. \A k \in DOMAIN Plan : k < host.k => journal'[host.run].effect[k] = "done"
    BY <2>1, <1>1, <1>2, <1>5, <1>6, HostType DEF HostOK, Done
  <2>. QED
    BY <1>1, <1>2, <1>3, <1>4, <1>5, <1>6, <2>2, <2>3, <2>4 DEF HostOK, Done
<1>. QED
  BY <1>5, <1>7, <1>8, <1>9 DEF IInv

LEMMA CompleteInv == ASSUME IInv, Complete PROVE IInv'
<1>1. /\ TypeOK /\ HostOK /\ MarksOK /\ EndsOK /\ host.step = "complete" /\ host.run \in Runs
      /\ UNCHANGED <<written, ran>> /\ flushed' = written
      /\ host' = [host EXCEPT !.step = "effect", !.k = host.k + 1]
      /\ Record(host.run, [journal[host.run] EXCEPT !.effect[host.k] = "done"])
  BY DEF IInv, Complete, Record, TypeOK, At
<1>2. /\ Plan \in Plans /\ host.k \in Places /\ journal[host.run].end = "open" /\ ~host.failed
      /\ ran[host.run][host.k] = 1 /\ <<host.run, host.k>> \in written
      /\ \A k \in DOMAIN Plan : k \in Places /\ k \in Nat
      /\ \A k \in DOMAIN Plan : k < host.k => Done(host.run, k)
  BY <1>1, PlansAssumption DEF HostOK
<1>. DEFINE entry == [journal[host.run] EXCEPT !.effect[host.k] = "done"]
<1>3. /\ entry \in Journal /\ entry.plan = Plan /\ entry.end = "open"
      /\ entry.effect = [journal[host.run].effect EXCEPT ![host.k] = "done"]
  BY <1>1, <1>2, EntryType DEF Journal, Plan
<1>4. /\ host' \in [step : Steps, run : Runs \cup {None}, k : Nat, failed : BOOLEAN]
      /\ host'.run = host.run /\ host'.k = host.k + 1 /\ host'.failed = host.failed
      /\ host'.step = "effect" /\ host.k \in Nat
  <2>1. /\ host'.run = host.run /\ host'.k = host.k + 1 /\ host'.failed = host.failed
        /\ host'.step = "effect" /\ host.k \in Nat
    BY <1>1, HostType
  <2>2. host' = [step |-> "effect", run |-> host.run, k |-> host.k + 1, failed |-> host.failed]
    BY <1>1, HostType
  <2>. QED
    BY <1>1, <2>1, <2>2, HostType DEF Steps
<1>5. /\ TypeOK' /\ (flushed \subseteq written)' /\ journal'[host.run] = entry
      /\ \A q \in Runs : q # host.run => journal'[q] = journal[q]
      /\ flushed \subseteq flushed'
  <2>1. Record(host.run, entry)
    BY <1>1 DEF entry
  <2>. HIDE DEF entry
  <2>. QED
    BY <1>1, <1>3, <1>4, <2>1, RecordStep
<1>. HIDE DEF entry
<1>6. /\ entry.effect[host.k] = "done"
      /\ \A k \in Places : k # host.k => entry.effect[k] = journal[host.run].effect[k]
  BY <1>1, <1>2, <1>3, EntryType
<1>7. MarksOK'
  <2>2. SUFFICES ASSUME NEW q \in Runs, NEW k \in Places
                 PROVE  /\ journal'[q].effect[k] = "none" => ran[q][k] = 0
                        /\ journal'[q].effect[k] = "uncertain" => ran[q][k] \in {0, 1}
                        /\ journal'[q].effect[k] = "done" => ran[q][k] = 1 /\ <<q, k>> \in flushed'
    BY <1>1 DEF MarksOK
  <2>3. CASE q = host.run /\ k = host.k
    BY <1>1, <1>2, <2>3, <1>5, <1>6
  <2>4. CASE ~(q = host.run /\ k = host.k)
    <3>1. journal'[q].effect[k] = journal[q].effect[k]
      BY <2>4, <1>5, <1>6
    <3>. QED
      BY <3>1, <1>1, <1>5 DEF MarksOK
  <2>. QED
    BY <2>3, <2>4
<1>8. EndsOK'
  BY <1>1, <1>3, <1>5 DEF EndsOK, AllDone, Done
<1>9. HostOK'
  <2>1. Plan' = Plan
    BY <1>3, <1>4, <1>5 DEF Plan
  <2>2. \A k \in DOMAIN Plan : k < host.k + 1 => journal'[host.run].effect[k] = "done"
    <3>1. SUFFICES ASSUME NEW k \in DOMAIN Plan, k < host.k + 1
                   PROVE  journal'[host.run].effect[k] = "done"
      OBVIOUS
    <3>2. k = host.k \/ k < host.k
      BY <3>1, <1>2, <1>4
    <3>. QED
      BY <3>2, <1>2, <1>5, <1>6 DEF Done
  <2>3. host'.k # 0
    BY <1>4
  <2>. QED
    BY <1>2, <1>3, <1>4, <1>5, <2>1, <2>2, <2>3 DEF HostOK, Done
<1>. QED
  BY <1>5, <1>7, <1>8, <1>9 DEF IInv

LEMMA FinishInv == ASSUME IInv, Finish PROVE IInv'
<1>1. /\ TypeOK /\ HostOK /\ MarksOK /\ EndsOK /\ host.step = "finish" /\ host.run \in Runs
      /\ UNCHANGED <<written, ran>> /\ AllDone(host.run)
      /\ host' = [host EXCEPT !.step = "applied"]
      /\ Record(host.run, [journal[host.run] EXCEPT !.end = "finished"])
  BY DEF IInv, Finish, TypeOK, At, Goto, HostOK
<1>. DEFINE entry == [journal[host.run] EXCEPT !.end = "finished"]
<1>3. /\ entry \in Journal /\ entry.plan = journal[host.run].plan
      /\ entry.effect = journal[host.run].effect
  BY <1>1, EntryType DEF Journal
<1>4. /\ host' \in [step : Steps, run : Runs \cup {None}, k : Nat, failed : BOOLEAN]
      /\ host'.run = host.run /\ host'.step = "applied" /\ host'.k = host.k
  BY <1>1, HostType DEF Steps
<1>5. /\ TypeOK' /\ (flushed \subseteq written)' /\ journal'[host.run] = entry
      /\ \A q \in Runs : q # host.run => journal'[q] = journal[q]
      /\ flushed \subseteq flushed'
  <2>1. Record(host.run, entry)
    BY <1>1 DEF entry
  <2>. HIDE DEF entry
  <2>. QED
    BY <1>1, <1>3, <1>4, <2>1, RecordStep
<1>. HIDE DEF entry
<1>6. \A q \in Runs : /\ journal'[q].effect = journal[q].effect
                      /\ journal'[q].plan = journal[q].plan
                      /\ q # host.run => journal'[q].end = journal[q].end
  BY <1>3, <1>5
<1>7. MarksOK'
  BY <1>1, <1>5, <1>6 DEF MarksOK
<1>8. EndsOK'
  BY <1>1, <1>6 DEF EndsOK, AllDone, Done
<1>9. HostOK'
  BY <1>1, <1>4 DEF HostOK
<1>. QED
  BY <1>5, <1>7, <1>8, <1>9 DEF IInv

LEMMA AbandonInv == ASSUME IInv, NEW r \in Runs, Abandon(r) PROVE IInv'
<1>1. /\ TypeOK /\ HostOK /\ MarksOK /\ EndsOK /\ host.step = "idle"
      /\ UNCHANGED <<written, host, ran>>
      /\ Record(r, [journal[r] EXCEPT !.end = "abandoned"])
  BY DEF IInv, Abandon, At
<1>. DEFINE entry == [journal[r] EXCEPT !.end = "abandoned"]
<1>3. /\ entry \in Journal /\ entry.effect = journal[r].effect /\ entry.end = "abandoned"
  BY <1>1, EntryType DEF Journal
<1>5. /\ TypeOK' /\ (flushed \subseteq written)' /\ journal'[r] = entry
      /\ \A q \in Runs : q # r => journal'[q] = journal[q]
      /\ flushed \subseteq flushed'
  <2>1. Record(r, entry)
    BY <1>1 DEF entry
  <2>. HIDE DEF entry
  <2>. QED
    BY <1>1, <1>3, <2>1, RecordStep, HostType
<1>. HIDE DEF entry
<1>6. \A q \in Runs : journal'[q].effect = journal[q].effect
  BY <1>3, <1>5
<1>7. MarksOK'
  BY <1>1, <1>5, <1>6 DEF MarksOK
<1>8. EndsOK'
  BY <1>1, <1>3, <1>5 DEF EndsOK, AllDone, Done
<1>9. HostOK'
  BY <1>1 DEF HostOK
<1>. QED
  BY <1>5, <1>7, <1>8, <1>9 DEF IInv

LEMMA ApplyInv == ASSUME IInv, Apply PROVE IInv'
<1>1. /\ TypeOK /\ HostOK /\ MarksOK /\ EndsOK /\ flushed \subseteq written
      /\ host.step = "apply" /\ host.run \in Runs
      /\ UNCHANGED <<journal, flushed>>
      /\ written' = written \cup {<<host.run, host.k>>}
      /\ ran' = [ran EXCEPT ![host.run][host.k] = ran[host.run][host.k] + 1]
      /\ host' = [host EXCEPT !.step = "complete"]
  BY DEF IInv, Apply, TypeOK, At, Goto
<1>2. /\ Plan \in Plans /\ host.k \in Places
      /\ ran[host.run][host.k] = 0 /\ journal[host.run].effect[host.k] = "uncertain"
  BY <1>1, PlansAssumption DEF HostOK
<1>3. ran \in [Runs -> [Places -> Nat]]
  BY <1>1 DEF TypeOK
<1>4. /\ ran' \in [Runs -> [Places -> Nat]] /\ ran'[host.run][host.k] = 1
      /\ \A q \in Runs, k \in Places : ~(q = host.run /\ k = host.k) => ran'[q][k] = ran[q][k]
  BY <1>1, <1>2, <1>3
<1>5. /\ host' \in [step : Steps, run : Runs \cup {None}, k : Nat, failed : BOOLEAN]
      /\ host'.run = host.run /\ host'.k = host.k /\ host'.failed = host.failed
      /\ host'.step = "complete"
  BY <1>1, HostType DEF Steps
<1>6. TypeOK' /\ (flushed \subseteq written)'
  BY <1>1, <1>2, <1>4, <1>5 DEF TypeOK
<1>7. MarksOK'
  <2>1. SUFFICES ASSUME NEW q \in Runs, NEW k \in Places
                 PROVE  /\ journal[q].effect[k] = "none" => ran'[q][k] = 0
                        /\ journal[q].effect[k] = "uncertain" => ran'[q][k] \in {0, 1}
                        /\ journal[q].effect[k] = "done" => ran'[q][k] = 1 /\ <<q, k>> \in flushed
    BY <1>1 DEF MarksOK
  <2>2. CASE q = host.run /\ k = host.k
    BY <2>2, <1>2, <1>4
  <2>3. CASE ~(q = host.run /\ k = host.k)
    BY <2>3, <1>1, <1>4 DEF MarksOK
  <2>. QED
    BY <2>2, <2>3
<1>8. EndsOK' /\ HostOK'
  BY <1>1, <1>4, <1>5 DEF EndsOK, HostOK, Plan, AllDone, Done
<1>. QED
  BY <1>6, <1>7, <1>8 DEF IInv

-----------------------------------------------------------------------------
LEMMA NextInv == IInv /\ [Next]_vars => IInv'
<1>1. SUFFICES ASSUME IInv, [Next]_vars PROVE IInv'
  OBVIOUS
<1>2. CASE UNCHANGED vars
  BY <1>1, <1>2 DEF vars, IInv, TypeOK, MarksOK, HostOK, EndsOK, AllDone, Done, Plan
<1>3. CASE Next
  BY <1>1, <1>3, FailInv, KeepPlanInv, ChoosePlanInv, ReplayInv, BeginInv, ApplyInv, ReportInv,
     CompleteInv, RecordRunInv, FinishInv, ReturnInv, FlushInv, CrashInv, CallInv, AbandonInv
     DEF Next, Step
<1>. QED
  BY <1>1, <1>2, <1>3

\* The inductive invariant holds throughout.
THEOREM Invariance == Spec => []IInv
BY InitInv, NextInv, PTL DEF Spec

\* Every step of the journal and its host is of the right kind.
THEOREM TypeCorrect == Spec => []TypeOK
<1>1. IInv => TypeOK
  BY DEF IInv
<1>. QED
  BY <1>1, Invariance, PTL

\* No write of any run is made twice, whatever crashes and is attempted again.
THEOREM AtMostOnce == Spec => []WritesAtMostOnce
<1>1. IInv => WritesAtMostOnce
  <2>1. SUFFICES ASSUME IInv, NEW r \in Runs, NEW k \in Places PROVE ran[r][k] <= 1
    BY DEF WritesAtMostOnce
  <2>2. journal[r].effect[k] \in {"none", "uncertain", "done"}
    BY <2>1, EntryType DEF IInv
  <2>3. ran[r][k] \in {0, 1}
    BY <2>1, <2>2 DEF IInv, MarksOK
  <2>. QED
    BY <2>3
<1>. QED
  BY <1>1, Invariance, PTL

\* A write whose receipt lets a retry skip it is on disk.
THEOREM Durable == Spec => []ReceiptsAreDurable
<1>1. IInv => ReceiptsAreDurable
  BY DEF IInv, MarksOK, ReceiptsAreDurable
<1>. QED
  BY <1>1, Invariance, PTL

-----------------------------------------------------------------------------
\* RunOnce's variables, as Promise maps them.
PlanOf == [r \in Runs |-> journal[r].plan]
EndOf == [r \in Runs |-> journal[r].end]

LEMMA InitPromise == Init => Promise!Init
BY DEF Init, Promise!Init

\* Steps that leave the journal's plans and ends, and the writes, alone.
LEMMA QuietPromise ==
  ASSUME UNCHANGED <<PlanOf, EndOf, ran>>
  PROVE  UNCHANGED Promise!vars
BY DEF Promise!vars, PlanOf, EndOf

LEMMA ChoosePromise == ASSUME IInv, ChoosePlan PROVE Promise!Next
<1>1. /\ TypeOK /\ EndsOK /\ host.run \in Runs /\ UNCHANGED ran
      /\ journal[host.run].end # "abandoned" /\ journal[host.run].plan = None
  BY DEF IInv, ChoosePlan, TypeOK, At, Abandoned, Plan
<1>2. PICK plan \in Plans \cup {Blocked} :
        journal' = [journal EXCEPT ![host.run] = [journal[host.run] EXCEPT !.plan = plan]]
  BY DEF ChoosePlan, Record
<1>3. journal[host.run].end = "open"
  BY <1>1, EntryType, PlansAssumption DEF EndsOK, AllDone
<1>4. \A r \in Runs : /\ journal'[r].end = journal[r].end
                      /\ journal'[r].plan = IF r = host.run THEN plan ELSE journal[r].plan
  BY <1>1, <1>2, EntryType DEF TypeOK, Journal
<1>5. EndOf' = EndOf /\ PlanOf' = [PlanOf EXCEPT ![host.run] = plan]
  BY <1>1, <1>4 DEF EndOf, PlanOf
<1>6. PICK r \in Runs : r = host.run
  BY <1>1
<1>7. Promise!Choose(r)
  BY <1>1, <1>3, <1>5, <1>6 DEF Promise!Choose, PlanOf, EndOf
<1>. QED
  BY <1>7 DEF Promise!Next

LEMMA ApplyPromise == ASSUME IInv, Apply PROVE Promise!Next
<1>1. /\ TypeOK /\ HostOK /\ host.step = "apply" /\ host.run \in Runs /\ UNCHANGED journal
      /\ ran' = [ran EXCEPT ![host.run][host.k] = ran[host.run][host.k] + 1]
  BY DEF IInv, Apply, TypeOK, At
<1>2. /\ Plan \in Plans /\ host.k \in DOMAIN Plan /\ host.k \in Places
      /\ journal[host.run].end = "open" /\ ran[host.run][host.k] = 0
  BY <1>1, PlansAssumption DEF HostOK
<1>3. ran' = [ran EXCEPT ![host.run][host.k] = 1]
  BY <1>1, <1>2
<1>4. Promise!Write(host.run, host.k)
  BY <1>1, <1>2, <1>3 DEF Promise!Write, Plan
<1>. QED
  BY <1>1, <1>2, <1>4 DEF Promise!Next

LEMMA FinishPromise == ASSUME IInv, Finish PROVE Promise!Next \/ UNCHANGED Promise!vars
<1>1. /\ TypeOK /\ HostOK /\ MarksOK /\ host.run \in Runs /\ UNCHANGED ran
      /\ AllDone(host.run) /\ journal[host.run].end # "abandoned"
      /\ journal' = [journal EXCEPT ![host.run] = [journal[host.run] EXCEPT !.end = "finished"]]
  BY DEF IInv, Finish, TypeOK, At, Record, HostOK
<1>2. \A r \in Runs : /\ journal'[r].plan = journal[r].plan
                      /\ journal'[r].end = IF r = host.run THEN "finished" ELSE journal[r].end
  BY <1>1, EntryType DEF TypeOK, Journal
<1>3. PlanOf' = PlanOf /\ EndOf' = [EndOf EXCEPT ![host.run] = "finished"]
  BY <1>1, <1>2 DEF PlanOf, EndOf
<1>4. CASE journal[host.run].end = "finished"
  <2>1. EndOf' = EndOf
    BY <1>1, <1>2, <1>4 DEF EndOf
  <2>. QED
    BY <1>1, <1>3, <2>1, QuietPromise
<1>5. CASE journal[host.run].end = "open"
  <2>1. \A k \in DOMAIN journal[host.run].plan : ran[host.run][k] = 1
    BY <1>1, PlansAssumption DEF AllDone, Done, MarksOK
  <2>2. PICK r \in Runs : r = host.run
    BY <1>1
  <2>3. Promise!Finish(r)
    BY <1>1, <1>3, <1>5, <2>1, <2>2 DEF Promise!Finish, AllDone, PlanOf, EndOf
  <2>. QED
    BY <2>3 DEF Promise!Next
<1>. QED
  BY <1>1, <1>4, <1>5, EntryType

LEMMA AbandonPromise == ASSUME IInv, NEW r \in Runs, Abandon(r) PROVE Promise!Next
<1>1. /\ TypeOK /\ UNCHANGED ran /\ journal[r].end = "open"
      /\ journal' = [journal EXCEPT ![r] = [journal[r] EXCEPT !.end = "abandoned"]]
  BY DEF IInv, Abandon, Record
<1>2. \A q \in Runs : /\ journal'[q].plan = journal[q].plan
                      /\ journal'[q].end = IF q = r THEN "abandoned" ELSE journal[q].end
  BY <1>1, EntryType DEF TypeOK, Journal
<1>3. PlanOf' = PlanOf /\ EndOf' = [EndOf EXCEPT ![r] = "abandoned"]
  BY <1>1, <1>2 DEF PlanOf, EndOf
<1>4. Promise!Abandon(r)
  BY <1>1, <1>3 DEF Promise!Abandon, PlanOf, EndOf
<1>. QED
  BY <1>4 DEF Promise!Next

\* Marking a write leaves the plan and the end of its run alone.
LEMMA MarkPromise == ASSUME IInv, Begin \/ Complete PROVE UNCHANGED Promise!vars
<1>1. /\ TypeOK /\ host.run \in Runs /\ UNCHANGED ran
      /\ \E mark : journal' = [journal EXCEPT ![host.run] =
                               [journal[host.run] EXCEPT !.effect[host.k] = mark]]
  BY DEF IInv, Begin, Begins, Complete, Record, TypeOK, At
<1>2. \A r \in Runs : /\ journal'[r].plan = journal[r].plan
                      /\ journal'[r].end = journal[r].end
  BY <1>1, EntryType DEF TypeOK, Journal
<1>3. PlanOf' = PlanOf /\ EndOf' = EndOf
  BY <1>2 DEF PlanOf, EndOf
<1>. QED
  BY <1>1, <1>3, QuietPromise

LEMMA NextPromise == IInv /\ [Next]_vars => [Promise!Next]_(Promise!vars)
<1>1. SUFFICES ASSUME IInv, [Next]_vars PROVE Promise!Next \/ UNCHANGED Promise!vars
  BY DEF Promise!vars
<1>2. CASE UNCHANGED <<journal, ran>>
  BY <1>2 DEF Promise!vars
<1>3. CASE Next
  <2>1. CASE \/ PlanFails \/ KeepPlan \/ Replay \/ RefuseUncertain \/ ApplyFails \/ Report
             \/ RecordFails \/ RecordRun \/ Return \/ Flush \/ Crash
             \/ \E r \in Runs : Call(r)
    BY <2>1, <1>2 DEF PlanFails, KeepPlan, Replay, RefuseUncertain, ApplyFails, Report,
       RecordFails, RecordRun, Return, Flush, Crash, Call
  <2>. QED
    BY <1>1, <1>3, <2>1, ChoosePromise, ApplyPromise, FinishPromise, AbandonPromise, MarkPromise
       DEF Next, Step
<1>. QED
  BY <1>1, <1>2, <1>3 DEF vars

\* Applying through the journal implements the promise that a run is made once.
THEOREM RunsOnce == Spec => ImplementsRunOnce
BY Invariance, InitPromise, NextPromise, PTL DEF Spec, ImplementsRunOnce, Promise!Spec
=============================================================================
