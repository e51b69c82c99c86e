-------------------------- MODULE BridgeLoopProofs --------------------------
(* The bridge's loop for every number of rows and every number of crashes,  *)
(* lost replies, outages and corrections.                                   *)
EXTENDS BridgeLoop, TLAPS

(* A row that was never submitted has no job and is not tracked. *)
UnsubmittedIsUntracked ==
  \A r \in Runs : rows[r].state \in {"none", "queued"} => rows[r].job = None /\ tracked[r] = None

(* The job of a row is a job of its run, and the only one the bridge tracks   *)
(* for it.                                                                    *)
TrackedIsTheRows ==
  \A r \in Runs :
    rows[r].job # None =>
      /\ rows[r].job \in DOMAIN jobs /\ jobs[rows[r].job].run = r
      /\ tracked[r] \in {None, rows[r].job}
RunningHasJob == \A r \in Runs : rows[r].state = "running" => rows[r].job # None

(* What the bridge polled and has not marked was never submitted.             *)
PolledIsUnsubmitted ==
  /\ \A r \in toSubmit : rows[r].state # "none" /\ rows[r].job = None
  /\ posted # None => jobs[posted].run \in toSubmit

JobsIInv == UnsubmittedIsUntracked /\ TrackedIsTheRows /\ RunningHasJob /\ PolledIsUnsubmitted

(* An effect that is still queued was not followed up, and what is left to    *)
(* report is still queued, unless its report arrived and the reply was lost.  *)
FollowUpsIInv ==
  /\ \A e \in Effects : effects[e] \in {"none", "queued"} => followUps[e] = 0
  /\ \A e \in toExecute : effects[e] = "queued" \/ (outcome = "failed" /\ First(e, toExecute))
  /\ FollowedUpOnce

-----------------------------------------------------------------------------
LEMMA Bounds == MaxJobs \in Nat /\ None \notin Jobs /\ None \notin Heads /\ 1 \in Heads
  BY BridgeAssumption DEF MaxJobs, Jobs, None, Heads

LEMMA InitType == Init => TypeOK
<1> SUFFICES ASSUME Init PROVE TypeOK
  OBVIOUS
<1> USE Bounds DEF Init
<1>1. NoView \in Gate
  BY DEF NoView, Gate
<1>2. [state |-> "none", job |-> None] \in Row
  BY DEF Row
<1>3. TablesOK
  BY <1>1, <1>2 DEF TablesOK
<1>4. OutsideOK
  BY DEF OutsideOK, None, Heads
<1>5. MemoryOK
  BY <1>1 DEF MemoryOK
<1>6. HistoryOK
  BY BridgeAssumption DEF HistoryOK
<1> QED BY <1>3, <1>4, <1>5, <1>6 DEF TypeOK, PassOK, None

(* Appending a job. *)
LEMMA PostedJob ==
  ASSUME TypeOK, NEW r \in Runs, Len(jobs) < MaxJobs,
         jobs' = Append(jobs, [run |-> r, state |-> "active"])
  PROVE  /\ jobs' \in Seq(Job) /\ Len(jobs') = Len(jobs) + 1 /\ Len(jobs') <= MaxJobs
         /\ DOMAIN jobs' = 1..Len(jobs') /\ DOMAIN jobs \subseteq DOMAIN jobs'
         /\ Len(jobs') \in DOMAIN jobs' /\ jobs'[Len(jobs')].run = r
         /\ \A j \in DOMAIN jobs : jobs'[j] = jobs[j]
<1>1. jobs \in Seq(Job) /\ [run |-> r, state |-> "active"] \in Job
  BY DEF TypeOK, OutsideOK, Job
<1> QED BY <1>1, Bounds

(* A job that changes keeps its run. *)
LEMMA ChangedJob ==
  ASSUME TypeOK, NEW j \in DOMAIN jobs, NEW s \in {"active", "ended", "deleted"},
         jobs' = [jobs EXCEPT ![j].state = s]
  PROVE  /\ jobs' \in Seq(Job) /\ Len(jobs') = Len(jobs) /\ DOMAIN jobs' = DOMAIN jobs
         /\ \A i \in DOMAIN jobs : jobs'[i].run = jobs[i].run
<1>1. jobs \in Seq(Job) /\ jobs[j] \in Job
  BY DEF TypeOK, OutsideOK
<1>2. [jobs[j] EXCEPT !.state = s] \in Job /\ [jobs[j] EXCEPT !.state = s].run = jobs[j].run
  BY <1>1 DEF Job
<1> QED BY <1>1, <1>2

(* A row, an effect or a count that changes. *)
LEMMA ChangedRow ==
  ASSUME TablesOK, NEW r \in Runs
  PROVE  /\ \A s \in {"none", "queued", "running", "ended", "cancelled"} :
              [rows EXCEPT ![r].state = s] \in [Runs -> Row]
         /\ \A job \in Jobs :
              [rows EXCEPT ![r] = [state |-> "running", job |-> job]] \in [Runs -> Row]
<1>1. rows \in [Runs -> Row] /\ rows[r] \in Row
  BY DEF TablesOK
<1>2. \A s \in {"none", "queued", "running", "ended", "cancelled"} :
        [rows[r] EXCEPT !.state = s] \in Row
  BY <1>1 DEF Row
<1>3. \A job \in Jobs : [state |-> "running", job |-> job] \in Row
  BY DEF Row
<1> QED BY <1>1, <1>2, <1>3

LEMMA JobRuns ==
  ASSUME OutsideOK
  PROVE  \A j \in DOMAIN jobs : j \in Jobs /\ jobs[j] \in Job /\ jobs[j].run \in Runs
<1>1. jobs \in Seq(Job) /\ Len(jobs) \in Nat /\ DOMAIN jobs = 1..Len(jobs) /\ Len(jobs) <= MaxJobs
  BY DEF OutsideOK
<1>2. \A j \in DOMAIN jobs : jobs[j] \in Job
  BY <1>1
<1> QED BY <1>1, <1>2, Bounds DEF Jobs, Job

LEMMA StepTables == TablesOK /\ OutsideOK /\ MemoryOK /\ [Next]_vars => TablesOK'
<1> SUFFICES ASSUME TablesOK, OutsideOK, MemoryOK, [Next]_vars PROVE TablesOK'
  OBVIOUS
<1> USE DEF tables, TablesOK
<1>1. CASE UNCHANGED vars
  BY <1>1 DEF vars
<1>2. CASE Start \/ Reattach \/ PollQueued \/ Post \/ Execute \/ SuperviseLocal \/ ReadStatus
  BY <1>2 DEF Start, Reattach, PollQueued, Post, Execute, SuperviseLocal, ReadStatus
<1>3. CASE (\E at \in {"tick", "poll", "reconcile"} : ReadFails(at)) \/ Crash \/ Machinist \/ GitHub
  BY <1>3 DEF ReadFails, Crash, Machinist, JobEnds, JobDeleted, Outage, MachinistReturns, GitHub,
              Push, Reviewed
<1>4. CASE Mark
  <2>1. posted \in DOMAIN jobs
    BY <1>4 DEF Mark, MemoryOK
  <2>2. posted \in Jobs /\ jobs[posted].run \in Runs
    BY <2>1, JobRuns
  <2>3. UNCHANGED <<effects, gate>>
        /\ (MarkSubmitted(jobs[posted].run, posted) \/ UNCHANGED rows)
    BY <1>4 DEF Mark
  <2>4. [rows EXCEPT ![jobs[posted].run] = [state |-> "running", job |-> posted]] \in [Runs -> Row]
    BY <2>2, ChangedRow
  <2>5. rows' \in [Runs -> Row]
    BY <2>3, <2>4 DEF MarkSubmitted
  <2> QED BY <2>3, <2>5
<1>5. CASE ReportOk \/ ReportFailed
  BY <1>5 DEF ReportOk, ReportFailed, EffectResult
<1>6. ASSUME NEW r \in Runs, CompleteRun(r) PROVE TablesOK'
  BY <1>6, ChangedRow DEF CompleteRun, Complete
<1>7. CASE ReviewTargets \/ SyncedLately \/ ReadView \/ Mention \/ NoMention \/ Wake
  BY <1>7 DEF ReviewTargets, SyncedLately, ReadView, Mention, NoMention, Wake
<1>8. CASE SyncGate
  <2>1. GateRow \in Gate
    BY DEF GateRow, Gate, MemoryOK
  <2> QED BY <1>8, <2>1 DEF SyncGate
<1>9. CASE ControlPlane
  BY <1>9, ChangedRow DEF ControlPlane, Enqueue, InsertEffect
<1>10. CASE Corrections
  <2>1. PICK r \in Runs : CancelQueued(r) \/ CancelByJob(r) \/ RetrackJob(r)
    BY <1>10 DEF Corrections
  <2>2. UNCHANGED <<effects, gate>>
        /\ \E s \in {"running", "cancelled"} : rows' = [rows EXCEPT ![r].state = s]
    BY <2>1 DEF CancelQueued, CancelByJob, RetrackJob
  <2>3. \A s \in {"running", "cancelled"} : [rows EXCEPT ![r].state = s] \in [Runs -> Row]
    BY ChangedRow
  <2>4. rows' \in [Runs -> Row]
    BY <2>2, <2>3
  <2> QED BY <2>2, <2>4
<1> QED BY <1>1, <1>2, <1>3, <1>4, <1>5, <1>6, <1>7, <1>8, <1>9, <1>10 DEF Next, Tick

LEMMA StepOutside == TypeOK /\ [Next]_vars => OutsideOK'
<1> SUFFICES ASSUME TypeOK, [Next]_vars PROVE OutsideOK'
  OBVIOUS
<1> USE DEF machinist, github, OutsideOK, TypeOK
<1>1. CASE UNCHANGED vars
  BY <1>1 DEF vars
<1>2. CASE Start \/ Reattach \/ PollQueued \/ Mark \/ Execute \/ ReportOk \/ ReportFailed
  BY <1>2 DEF Start, Reattach, PollQueued, Mark, Execute, ReportOk, ReportFailed
<1>3. CASE \/ \E at \in {"tick", "poll", "reconcile"} : ReadFails(at)
           \/ SuperviseLocal \/ ReadStatus \/ Crash \/ \E r \in Runs : CompleteRun(r)
  BY <1>3 DEF ReadFails, SuperviseLocal, ReadStatus, Crash, CompleteRun
<1>4. CASE ReviewTargets \/ SyncedLately \/ ReadView \/ NoMention \/ SyncGate \/ Wake
  BY <1>4 DEF ReviewTargets, SyncedLately, ReadView, NoMention, SyncGate, Wake
<1>5. CASE ControlPlane \/ Corrections
  BY <1>5 DEF ControlPlane, Enqueue, InsertEffect, Corrections, CancelQueued, CancelByJob, RetrackJob
<1>6. CASE Post
  BY <1>6, PostedJob DEF Post
<1>7. CASE Mention
  <2>1. view.head \in Heads /\ UNCHANGED <<jobs, machinistUp, head, reviewed>>
        /\ mentions' = [mentions EXCEPT ![view.head] = @ + 1]
    BY <1>7, Bounds DEF Mention, MemoryOK, Gate, None
  <2> QED BY <2>1
<1>8. ASSUME NEW j \in Jobs, JobEnds(j) \/ JobDeleted(j) PROVE OutsideOK'
  BY <1>8, ChangedJob DEF JobEnds, JobDeleted
<1>9. CASE Outage \/ MachinistReturns
  BY <1>9 DEF Outage, MachinistReturns
<1>10. CASE GitHub
  BY <1>10, BridgeAssumption DEF GitHub, Push, Reviewed, Heads
<1> QED BY <1>1, <1>2, <1>3, <1>4, <1>5, <1>6, <1>7, <1>8, <1>9, <1>10 DEF Next, Tick, Machinist

LEMMA StepHistory == HistoryOK /\ [Next]_vars => HistoryOK'
<1> SUFFICES ASSUME HistoryOK, [Next]_vars PROVE HistoryOK'
  OBVIOUS
<1> USE BridgeAssumption DEF history, HistoryOK, Fault
<1>1. CASE UNCHANGED vars
  BY <1>1 DEF vars
<1>2. CASE Start \/ Reattach \/ PollQueued \/ Post \/ Mark \/ Execute \/ SuperviseLocal \/ ReadStatus
  BY <1>2 DEF Start, Reattach, PollQueued, Post, Mark, Execute, SuperviseLocal, ReadStatus
<1>3. CASE (\E at \in {"tick", "poll", "reconcile"} : ReadFails(at)) \/ Crash \/ GitHub
  BY <1>3 DEF ReadFails, Crash, GitHub, Push, Reviewed
<1>4. CASE ReportOk \/ ReportFailed
  BY <1>4 DEF ReportOk, ReportFailed, EffectResult
<1>5. ASSUME NEW r \in Runs, CompleteRun(r) PROVE HistoryOK'
  BY <1>5 DEF CompleteRun, Complete
<1>6. CASE ReviewTargets \/ SyncedLately \/ ReadView \/ Mention \/ NoMention \/ SyncGate \/ Wake
  BY <1>6 DEF ReviewTargets, SyncedLately, ReadView, Mention, NoMention, SyncGate, Wake
<1>7. CASE ControlPlane \/ Corrections
  BY <1>7 DEF ControlPlane, Enqueue, InsertEffect, Corrections, CancelQueued, CancelByJob, RetrackJob
<1>8. CASE Machinist
  BY <1>8 DEF Machinist, JobEnds, JobDeleted, Outage, MachinistReturns
<1> QED BY <1>1, <1>2, <1>3, <1>4, <1>5, <1>6, <1>7, <1>8 DEF Next, Tick

(* The bridge's memory.  Forgetting it all is always well typed.              *)
MemoryStep == MemoryOK /\ PassOK

LEMMA Forgets ==
  ASSUME Forget
  PROVE  /\ PassOK' /\ view' \in Gate
         /\ toSubmit' = {} /\ toExecute' = {} /\ posted' = None /\ outcome' = "none" /\ due' = {}
  BY DEF Forget, PassOK, NoView, Gate

(* The jobs only grow.                                                        *)
LEMMA JobsGrow ==
  ASSUME TypeOK, [Next]_vars
  PROVE  DOMAIN jobs \subseteq DOMAIN jobs'
<1> USE DEF machinist
<1>1. CASE Post
  BY <1>1, PostedJob DEF Post
<1>2. ASSUME NEW j \in Jobs, JobEnds(j) \/ JobDeleted(j) PROVE DOMAIN jobs' = DOMAIN jobs
  BY <1>2, ChangedJob DEF JobEnds, JobDeleted
<1>3. CASE ~Post /\ ~\E j \in Jobs : JobEnds(j) \/ JobDeleted(j)
  <2>1. UNCHANGED jobs
    BY <1>3 DEF Next, vars, Tick, Machinist, Start, Reattach, PollQueued, Mark, Execute, ReportOk,
                ReportFailed, SuperviseLocal, ReadStatus, CompleteRun, ReviewTargets, SyncedLately,
                ReadView, Mention, NoMention, SyncGate, Wake, ReadFails, Crash, ControlPlane, Enqueue,
                InsertEffect, Corrections, CancelQueued, CancelByJob, RetrackJob, Outage,
                MachinistReturns, GitHub, Push, Reviewed
  <2> QED BY <2>1
<1> QED BY <1>1, <1>2, <1>3

LEMMA StepMemory == TypeOK /\ [Next]_vars => MemoryStep'
<1> SUFFICES ASSUME TypeOK, [Next]_vars PROVE MemoryStep'
  OBVIOUS
<1> USE Forgets DEF memory, polled, MemoryOK, MemoryStep, TypeOK
<1>a. DOMAIN jobs \subseteq DOMAIN jobs'
  BY JobsGrow
<1>1. CASE UNCHANGED vars
  BY <1>1 DEF vars, PassOK, machinist
<1>2. CASE Start \/ Reattach
  <2>1. RunningJobs \in [Runs -> DOMAIN jobs \cup {None}]
    BY DEF RunningJobs
  <2>2. [r \in Runs |-> IF tracked[r] = None THEN RunningJobs[r] ELSE tracked[r]]
          \in [Runs -> DOMAIN jobs \cup {None}]
    BY <2>1
  <2> QED BY <1>2, <2>1, <2>2 DEF Start, Reattach, PassOK, machinist
<1>3. CASE PollQueued
  BY <1>3 DEF PollQueued, Oldest, machinist, PassOK
<1>4. CASE \E at \in {"tick", "poll", "reconcile"} : ReadFails(at)
  BY <1>4 DEF ReadFails, Abort, PassOK, machinist
<1>5. CASE Post
  BY <1>5, <1>a, PostedJob DEF Post, Abort, PassOK
<1>6. CASE Mark
  BY <1>6, JobRuns DEF Mark, Abort, PassOK, machinist
<1>7. CASE Execute \/ ReportOk \/ ReportFailed
  BY <1>7 DEF Execute, ReportOk, ReportFailed, Reported, Abort, machinist, PassOK
<1>8. CASE SuperviseLocal \/ ReadStatus
  BY <1>8 DEF SuperviseLocal, ReadStatus, Abort, PassOK, machinist
<1>9. ASSUME NEW r \in Runs, CompleteRun(r) PROVE MemoryStep'
  BY <1>9 DEF CompleteRun, Abort, PassOK, machinist
<1>10. CASE ReviewTargets \/ ReadView \/ Mention \/ NoMention
  <2>1. view' \in Gate
    BY <1>10 DEF ReviewTargets, ReadView, Mention, NoMention, Gate, NoView, TablesOK, OutsideOK
  <2>2. pc' \in {"view", "mention", "gate"} /\ due' = {}
        /\ UNCHANGED <<toSubmit, toExecute, posted, outcome, tracked, jobs>>
    BY <1>10 DEF ReviewTargets, ReadView, Mention, NoMention, machinist, PassOK
  <2>3. toSubmit = {} /\ toExecute = {}
    BY <1>10 DEF ReviewTargets, ReadView, Mention, NoMention, PassOK
  <2> QED BY <2>1, <2>2, <2>3 DEF PassOK
<1>11. CASE SyncedLately \/ Wake
  BY <1>11 DEF SyncedLately, Wake, PassOK, machinist
<1>14. CASE SyncGate
  BY <1>14 DEF SyncGate, Abort, PassOK, machinist, Gate, NoView
<1>12. CASE Crash
  BY <1>12 DEF Crash, machinist
<1>13. CASE ControlPlane \/ Corrections \/ Machinist \/ GitHub
  <2>1. UNCHANGED memory
    BY <1>13 DEF ControlPlane, Enqueue, InsertEffect, Corrections, CancelQueued, CancelByJob, RetrackJob,
                 Machinist, JobEnds, JobDeleted, Outage, MachinistReturns, GitHub, Push, Reviewed
  <2> QED BY <1>a, <2>1 DEF PassOK
<1> QED BY <1>1, <1>2, <1>3, <1>4, <1>5, <1>6, <1>7, <1>8, <1>9, <1>10, <1>11, <1>12, <1>13,
        <1>14 DEF Next, Tick

(* Only these steps touch the rows.                                           *)
TouchesRows == (\E r \in Runs : CompleteRun(r)) \/ ControlPlane \/ Corrections \/ Mark

LEMMA RowsUntouched ==
  ASSUME [Next]_vars, ~TouchesRows
  PROVE  UNCHANGED <<rows, completions>>
  BY DEF TouchesRows, Next, vars, tables, history, Tick, Machinist, Start, Reattach, PollQueued, Post,
         Execute, ReportOk, ReportFailed, SuperviseLocal, ReadStatus, ReviewTargets, SyncedLately,
         ReadView, Mention, NoMention, SyncGate, Wake, ReadFails, Crash, JobEnds, JobDeleted,
         Outage, MachinistReturns, GitHub, Push, Reviewed

(* A row keeps its job, or takes the one that was posted for it.              *)
LEMMA RowsJob ==
  ASSUME TypeOK, [Next]_vars
  PROVE  \/ Mark /\ MarkSubmitted(jobs[posted].run, posted)
         \/ \A r \in Runs : rows'[r].job = rows[r].job
<1> DEFINE Kept == \A r \in Runs : rows'[r].job = rows[r].job
<1> USE DEF tables
<1>1. CASE \E r \in Runs : CompleteRun(r)
  BY <1>1 DEF CompleteRun, Complete, TypeOK, TablesOK, Row
<1>2. CASE ControlPlane
  BY <1>2 DEF ControlPlane, Enqueue, InsertEffect, TypeOK, TablesOK, Row
<1>3. CASE Corrections
  BY <1>3 DEF Corrections, CancelQueued, CancelByJob, RetrackJob, TypeOK, TablesOK, Row
<1>4. CASE Mark
  BY <1>4 DEF Mark
<1>5. CASE ~TouchesRows
  BY <1>5, RowsUntouched
<1> QED BY <1>1, <1>2, <1>3, <1>4, <1>5 DEF TouchesRows

LEMMA StepType == TypeOK /\ [Next]_vars => TypeOK'
<1> SUFFICES ASSUME TypeOK, [Next]_vars PROVE TypeOK'
  OBVIOUS
<1>1. TablesOK' /\ OutsideOK' /\ HistoryOK' /\ MemoryStep'
  BY StepTables, StepOutside, StepHistory, StepMemory DEF TypeOK
<1>2. \A r \in Runs : rows'[r].job \in DOMAIN jobs' \cup {None}
  <2>1. CASE \A r \in Runs : rows'[r].job = rows[r].job
    BY <2>1, JobsGrow DEF TypeOK
  <2>2. CASE Mark /\ MarkSubmitted(jobs[posted].run, posted)
    <3>1. posted \in DOMAIN jobs
      BY <2>2 DEF Mark, TypeOK, MemoryOK
    <3> QED BY <2>2, <3>1, JobsGrow, JobRuns DEF MarkSubmitted, TypeOK, TablesOK
  <2> QED BY <2>1, <2>2, RowsJob
<1> QED BY <1>1, <1>2 DEF TypeOK, MemoryStep

(* The bridge's memory, the tables and the jobs keep their types, and a pass  *)
(* begins with nothing left from the one before (TypeOK).                     *)
THEOREM BridgeTypeCorrect == Spec => []TypeOK
  BY InitType, StepType, PTL DEF Spec

-----------------------------------------------------------------------------
(* One completion, of a run that ended *)

LEMMA StepCompleted == TypeOK /\ CompletedOnce /\ [Next]_vars => CompletedOnce'
<1> SUFFICES ASSUME TypeOK, CompletedOnce, [Next]_vars PROVE CompletedOnce'
  OBVIOUS
<1> USE DEF tables, history, TypeOK, TablesOK, HistoryOK, CompletedOnce
<1>1. CASE \E r \in Runs : CompleteRun(r)
  BY <1>1 DEF CompleteRun, Complete, Row
<1>2. CASE ControlPlane
  BY <1>2 DEF ControlPlane, Enqueue, InsertEffect, Row
<1>3. CASE Corrections
  <2>1. PICK r \in Runs : CancelQueued(r) \/ CancelByJob(r) \/ RetrackJob(r)
    BY <1>3 DEF Corrections
  <2>2. CASE CancelQueued(r) \/ CancelByJob(r)
    BY <2>2 DEF CancelQueued, CancelByJob, Row
  <2>3. CASE RetrackJob(r)
    BY <2>3 DEF RetrackJob, Row
  <2> QED BY <2>1, <2>2, <2>3
<1>4. CASE Mark
  <2>1. MarkSubmitted(jobs[posted].run, posted) \/ UNCHANGED rows
    BY <1>4 DEF Mark
  <2>2. UNCHANGED completions
    BY <1>4 DEF Mark
  <2> QED BY <2>1, <2>2 DEF MarkSubmitted, Row
<1>5. CASE ~TouchesRows
  BY <1>5, RowsUntouched
<1> QED BY <1>1, <1>2, <1>3, <1>4, <1>5 DEF TouchesRows

(* Through any crashes, lost replies and runs posted twice, the state machine *)
(* is told of a run's end once (complete).                                    *)
THEOREM RunsCompleteOnce == Spec => []CompletedOnce
<1>1. Init => CompletedOnce
  BY DEF Init, CompletedOnce
<1> QED BY <1>1, StepCompleted, BridgeTypeCorrect, PTL DEF Spec

(* A cancelled run comes back by the operator's hand alone (markSubmitted,    *)
(* complete, retrackJob).                                                     *)
THEOREM CancelledStaysCancelled == Spec => CancelledStays
<1> DEFINE Stays == \A r \in Runs :
                      rows[r].state = "cancelled" /\ rows'[r].state # "cancelled" => RetrackJob(r)
<1>1. TypeOK /\ [Next]_vars => [Stays]_vars
  <2> SUFFICES ASSUME TypeOK, [Next]_vars PROVE Stays
    OBVIOUS
  <2> USE DEF tables, TypeOK, TablesOK
  <2>1. CASE \E r \in Runs : CompleteRun(r)
    BY <2>1 DEF CompleteRun, Complete, Row
  <2>2. CASE ControlPlane
    BY <2>2 DEF ControlPlane, Enqueue, InsertEffect, Row
  <2>3. CASE Corrections
    <3>1. PICK r \in Runs : CancelQueued(r) \/ CancelByJob(r) \/ RetrackJob(r)
      BY <2>3 DEF Corrections
    <3>2. CASE CancelQueued(r) \/ CancelByJob(r)
      BY <3>2 DEF CancelQueued, CancelByJob, Row
    <3>3. CASE RetrackJob(r)
      <4>1. \A other \in Runs : other # r => rows'[other] = rows[other]
        BY <3>3 DEF RetrackJob
      <4> QED BY <3>3, <4>1
    <3> QED BY <3>1, <3>2, <3>3
  <2>4. CASE Mark
    <3>1. MarkSubmitted(jobs[posted].run, posted) \/ UNCHANGED rows
      BY <2>4 DEF Mark
    <3> QED BY <3>1 DEF MarkSubmitted, Row
  <2>5. CASE ~TouchesRows
    BY <2>5, RowsUntouched
  <2> QED BY <2>1, <2>2, <2>3, <2>4, <2>5 DEF TouchesRows
<1> QED BY <1>1, BridgeTypeCorrect, PTL DEF Spec, CancelledStays

-----------------------------------------------------------------------------
(* The row's own job *)

LEMMA StepJobs == TypeOK /\ JobsIInv /\ [Next]_vars => JobsIInv'
<1> SUFFICES ASSUME TypeOK, JobsIInv, [Next]_vars PROVE JobsIInv'
  OBVIOUS
<1> DEFINE JobInv == UnsubmittedIsUntracked /\ TrackedIsTheRows /\ RunningHasJob
<1> USE DEF TypeOK, TablesOK, MemoryOK, JobsIInv, UnsubmittedIsUntracked, TrackedIsTheRows, RunningHasJob,
            PolledIsUnsubmitted
<1>a. OutsideOK /\ DOMAIN jobs \subseteq Jobs /\ \A j \in DOMAIN jobs : jobs[j].run \in Runs
  BY JobRuns
<1>1. CASE Start \/ Reattach
  <2>1. UNCHANGED <<rows, jobs, posted, toSubmit>>
        /\ \A r \in Runs : tracked'[r] \in {tracked[r], RunningJobs[r]}
    BY <1>1 DEF Start, Reattach, tables, machinist, polled
  <2>2. \A r \in Runs : RunningJobs[r] \in {None, rows[r].job}
                      /\ (rows[r].state # "running" => RunningJobs[r] = None)
    BY DEF RunningJobs
  <2> QED BY <2>1, <2>2
<1>2. CASE PollQueued
  <2>1. UNCHANGED <<rows, jobs, posted, tracked>>
        /\ toSubmit' \subseteq {r \in Runs : rows[r].state = "queued"}
    BY <1>2 DEF PollQueued, Oldest, tables, machinist
  <2>2. posted = None
    BY <1>2 DEF PollQueued, PassOK
  <2> QED BY <2>1, <2>2
<1>3. CASE Post
  <2>1. UNCHANGED <<rows, tracked>> /\ posted = None
        /\ \/ \E r \in toSubmit :
                /\ jobs' = Append(jobs, [run |-> r, state |-> "active"]) /\ Len(jobs) < MaxJobs
                /\ Forget \/ (posted' = Len(jobs') /\ UNCHANGED toSubmit)
           \/ UNCHANGED jobs /\ Forget
    <3>1. UNCHANGED <<rows, tracked>> /\ posted = None
      BY <1>3 DEF Post, Abort, tables
    <3>2. CASE machinistUp /\ Len(jobs) < MaxJobs
               /\ \E r \in Runs : First(r, toSubmit) /\ jobs' = Append(jobs, [run |-> r, state |-> "active"])
      <4>1. PICK r \in Runs : First(r, toSubmit) /\ jobs' = Append(jobs, [run |-> r, state |-> "active"])
        BY <3>2
      <4>2. Forget \/ (posted' = Len(jobs') /\ UNCHANGED toSubmit)
        BY <1>3, <3>2 DEF Post, Abort
      <4>3. r \in toSubmit
        BY <4>1 DEF First
      <4> QED BY <3>1, <3>2, <4>1, <4>2, <4>3
    <3>3. CASE UNCHANGED jobs /\ Abort
      BY <3>1, <3>3 DEF Abort
    <3> QED BY <1>3, <3>2, <3>3 DEF Post
  <2>2. CASE UNCHANGED jobs /\ Forget
    BY <2>1, <2>2 DEF Forget
  <2>3. ASSUME NEW r \in toSubmit,
               jobs' = Append(jobs, [run |-> r, state |-> "active"]), Len(jobs) < MaxJobs,
               Forget \/ (posted' = Len(jobs') /\ UNCHANGED toSubmit)
        PROVE  JobsIInv'
    <3>1. /\ DOMAIN jobs \subseteq DOMAIN jobs' /\ jobs'[Len(jobs')].run = r
          /\ \A j \in DOMAIN jobs : jobs'[j] = jobs[j]
      BY <2>3, PostedJob
    <3> QED BY <2>1, <2>3, <3>1 DEF Forget
  <2> QED BY <2>1, <2>2, <2>3
<1>4. CASE Mark
  <2> DEFINE r == jobs[posted].run
  <2>1. /\ posted \in DOMAIN jobs /\ posted # None /\ r \in toSubmit /\ r \in Runs
        /\ rows[r].job = None /\ rows[r].state # "none"
    BY <1>4, <1>a DEF Mark
  <2>2. UNCHANGED jobs
        /\ \/ /\ MarkSubmitted(r, posted) /\ tracked' = [tracked EXCEPT ![r] = posted]
              /\ toSubmit' = toSubmit \ {r} /\ posted' = None
           \/ Forget /\ UNCHANGED tracked /\ (MarkSubmitted(r, posted) \/ UNCHANGED rows)
    BY <1>4 DEF Mark, Abort, machinist
  <2> HIDE DEF r
  <2>3. CASE UNCHANGED <<rows, tracked, jobs>> /\ Forget
    BY <2>3 DEF Forget
  <2>4. CASE MarkSubmitted(r, posted)
    <3>1. \A other \in Runs : other # r =>
            rows'[other] = rows[other] /\ tracked'[other] = tracked[other]
      BY <2>1, <2>2, <2>4 DEF MarkSubmitted
    <3>2. toSubmit' \subseteq toSubmit \ {r} /\ posted' = None
      BY <2>2, <2>4 DEF Forget
    <3>3. tracked'[r] \in {tracked[r], posted}
          /\ rows'[r] = IF rows[r].state = "queued" THEN [state |-> "running", job |-> posted] ELSE rows[r]
      BY <2>1, <2>2, <2>4 DEF MarkSubmitted
    <3>4. jobs[posted].run = r
      BY DEF r
    <3> QED BY <2>1, <2>2, <3>1, <3>2, <3>3, <3>4
  <2> QED BY <2>2, <2>3, <2>4
<1>5. CASE Crash \/ \E at \in {"tick", "poll", "reconcile"} : ReadFails(at)
  <2>1. UNCHANGED <<rows, jobs>> /\ Forget /\ \A r \in Runs : tracked'[r] \in {tracked[r], None}
    BY <1>5 DEF Crash, ReadFails, Abort, tables, machinist
  <2> QED BY <2>1 DEF Forget
<1>6. ASSUME NEW r \in Runs, CompleteRun(r) PROVE JobsIInv'
  <2>1. UNCHANGED jobs /\ (Forget \/ UNCHANGED <<toSubmit, posted>>)
    BY <1>6 DEF CompleteRun, Abort, machinist, polled
  <2>2. UNCHANGED tracked \/ tracked' = [tracked EXCEPT ![r] = None]
    BY <1>6 DEF CompleteRun, Abort
  <2>3. UNCHANGED rows \/ (rows[r].state = "running" /\ rows' = [rows EXCEPT ![r].state = "ended"])
    BY <1>6 DEF CompleteRun, Complete
  <2>4. \A other \in Runs : tracked'[other] \in {tracked[other], None}
    BY <2>2
  <2>5. \A other \in Runs :
          /\ rows'[other].job = rows[other].job
          /\ rows'[other].state = rows[other].state
               \/ (rows[other].state = "running" /\ rows'[other].state = "ended")
    BY <2>3 DEF Row
  <2> QED BY <2>1, <2>4, <2>5 DEF Forget
<1>7. CASE ControlPlane \/ Corrections
  <2>1. UNCHANGED <<jobs, tracked, toSubmit, posted>>
    BY <1>7 DEF ControlPlane, Corrections, Enqueue, InsertEffect, CancelQueued, CancelByJob, RetrackJob,
                machinist, memory, polled
  <2>2. \A r \in Runs : rows'[r].job = rows[r].job
    BY <1>7 DEF ControlPlane, Corrections, Enqueue, InsertEffect, CancelQueued, CancelByJob, RetrackJob, Row
  <2>3. \A r \in Runs :
          \/ rows'[r].state = rows[r].state \/ rows'[r].state = "cancelled"
          \/ rows[r].state = "none" /\ rows'[r].state = "queued"
          \/ rows[r].job # None /\ rows'[r].state = "running"
    BY <1>7 DEF ControlPlane, Corrections, Enqueue, InsertEffect, CancelQueued, CancelByJob, RetrackJob, Row
  <2> QED BY <2>1, <2>2, <2>3
<1>8. ASSUME NEW j \in Jobs, JobEnds(j) \/ JobDeleted(j) PROVE JobsIInv'
  <2>1. UNCHANGED <<rows, tracked, toSubmit, posted>> /\ DOMAIN jobs' = DOMAIN jobs
        /\ \A i \in DOMAIN jobs : jobs'[i].run = jobs[i].run
    BY <1>8, ChangedJob DEF JobEnds, JobDeleted, tables, memory, polled
  <2> QED BY <2>1
<1>9. CASE ~TouchesRows /\ ~Crash /\ ~Start /\ ~Reattach /\ ~PollQueued /\ ~Post
           /\ ~(\E at \in {"tick", "poll", "reconcile"} : ReadFails(at))
           /\ ~\E j \in Jobs : JobEnds(j) \/ JobDeleted(j)
  <2>1. UNCHANGED <<rows, jobs, tracked>> /\ (Forget \/ UNCHANGED <<toSubmit, posted>>)
    BY <1>9 DEF TouchesRows, Next, vars, tables, machinist, memory, polled, history, Tick, Machinist,
                Execute, ReportOk, ReportFailed, Reported, SuperviseLocal, ReadStatus, ReviewTargets,
                SyncedLately, Abort, ReadView, Mention, NoMention, SyncGate, Wake,
                Outage, MachinistReturns, GitHub, Push, Reviewed
  <2> QED BY <2>1 DEF Forget
<1> QED BY <1>1, <1>2, <1>3, <1>4, <1>5, <1>6, <1>7, <1>8, <1>9 DEF TouchesRows

(* What the bridge tracks for a running row is the row's own job, whichever   *)
(* jobs a crash or a lost reply left in Machinist (submitRun, markSubmitted,  *)
(* the re-attachment).                                                        *)
THEOREM TracksTheJob == Spec => []TracksTheRowsJob
<1>1. Init => JobsIInv
  BY DEF Init, JobsIInv, UnsubmittedIsUntracked, TrackedIsTheRows, RunningHasJob, PolledIsUnsubmitted
<1>2. JobsIInv => TracksTheRowsJob
  BY DEF JobsIInv, TrackedIsTheRows, RunningHasJob, TracksTheRowsJob
<1> QED BY <1>1, <1>2, StepJobs, BridgeTypeCorrect, PTL DEF Spec

-----------------------------------------------------------------------------
(* One follow-up *)

LEMMA StepFollowUps == TypeOK /\ FollowUpsIInv /\ [Next]_vars => FollowUpsIInv'
<1> SUFFICES ASSUME TypeOK, FollowUpsIInv, [Next]_vars PROVE FollowUpsIInv'
  OBVIOUS
<1> USE DEF TypeOK, TablesOK, MemoryOK, HistoryOK, FollowUpsIInv, FollowedUpOnce
<1>1. CASE PollQueued
  <2>1. UNCHANGED <<effects, followUps>> /\ toExecute' \subseteq {e \in Effects : effects[e] = "queued"}
    BY <1>1 DEF PollQueued, Oldest, tables, history
  <2> QED BY <2>1
<1>2. CASE Execute
  BY <1>2 DEF Execute, tables, history, First
<1>3. CASE ReportOk
  <2>1. PICK e \in Effects :
          /\ outcome = "ok" /\ First(e, toExecute)
          /\ \/ EffectResult(e, TRUE) /\ Reported(e)
             \/ /\ EffectResult(e, TRUE) \/ UNCHANGED <<effects, followUps>>
                /\ outcome' = "failed" /\ UNCHANGED toExecute
    BY <1>3 DEF ReportOk
  <2>2. effects[e] = "queued" /\ followUps[e] = 0
    BY <2>1 DEF First
  <2>3. CASE EffectResult(e, TRUE)
    BY <2>1, <2>2, <2>3 DEF EffectResult, Reported, First
  <2>4. CASE UNCHANGED <<effects, followUps>> /\ outcome' = "failed" /\ UNCHANGED toExecute
    BY <2>1, <2>4 DEF First
  <2> QED BY <2>1, <2>3, <2>4
<1>4. CASE ReportFailed
  <2>0. PICK e \in Effects :
          /\ First(e, toExecute)
          /\ \/ EffectResult(e, FALSE) /\ Reported(e) /\ UNCHANGED faults
             \/ /\ Fault("call-fails") /\ Abort
                /\ EffectResult(e, FALSE) \/ UNCHANGED <<effects, followUps>>
    BY <1>4, Zenon DEF ReportFailed
  <2>1. /\ First(e, toExecute)
        /\ EffectResult(e, FALSE) \/ UNCHANGED <<effects, followUps>>
        /\ Forget \/ (EffectResult(e, FALSE) /\ Reported(e))
    BY <2>0, Zenon DEF Abort
  <2>2. \A other \in toExecute : other # e => effects[other] = "queued"
    BY <2>1 DEF First, Effects
  <2>3. \A other \in Effects : other # e => effects'[other] = effects[other]
    BY <2>1 DEF EffectResult
  <2>4. UNCHANGED followUps
    BY <2>1 DEF EffectResult
  <2>5. effects'[e] = effects[e] \/ effects'[e] = "failed"
    BY <2>1 DEF EffectResult
  <2>6. toExecute' = {} \/ toExecute' = toExecute \ {e}
    BY <2>1 DEF Forget, Reported
  <2>7. \A other \in toExecute' : effects'[other] = "queued"
    BY <2>2, <2>3, <2>6
  <2>8. \A other \in Effects : effects'[other] \in {"none", "queued"} => followUps[other] = 0
    BY <2>3, <2>5
  <2> QED BY <2>4, <2>7, <2>8
<1>5. CASE \E e \in Effects : InsertEffect(e)
  BY <1>5 DEF InsertEffect, memory, polled, history, First
<1>6. ASSUME Forget, UNCHANGED <<effects, followUps>> PROVE FollowUpsIInv'
  BY <1>6 DEF Forget
<1>7. ASSUME UNCHANGED <<effects, followUps, toExecute, outcome>> PROVE FollowUpsIInv'
  BY <1>7 DEF First
<1>8. CASE ~PollQueued /\ ~Execute /\ ~ReportOk /\ ~ReportFailed /\ ~\E e \in Effects : InsertEffect(e)
  <2>1. UNCHANGED <<effects, followUps>> /\ (Forget \/ UNCHANGED <<toExecute, outcome>>)
    BY <1>8 DEF Next, vars, tables, memory, polled, history, Tick, Machinist, Start, Reattach, Post, Mark,
       SuperviseLocal, ReadStatus, CompleteRun, ReviewTargets, SyncedLately, Abort,
       ReadView, Mention, NoMention, SyncGate, Wake, ReadFails, Crash, ControlPlane, Enqueue,
       Corrections, CancelQueued, CancelByJob, RetrackJob, JobEnds, JobDeleted,
       Outage, MachinistReturns, GitHub, Push, Reviewed
  <2> QED BY <1>6, <1>7, <2>1
<1> QED BY <1>1, <1>2, <1>3, <1>4, <1>5, <1>8

(* An effect that is executed again after a crash, or whose report is lost, is *)
(* followed up once all the same (effectResult).                              *)
THEOREM EffectsFollowUpOnce == Spec => []FollowedUpOnce
<1>1. Init => FollowUpsIInv
  BY DEF Init, FollowUpsIInv, FollowedUpOnce
<1>2. FollowUpsIInv => FollowedUpOnce
  BY DEF FollowUpsIInv
<1> QED BY <1>1, <1>2, StepFollowUps, BridgeTypeCorrect, PTL DEF Spec
=============================================================================
