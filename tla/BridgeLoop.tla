----------------------------- MODULE BridgeLoop -----------------------------
(***************************************************************************)
(* The bridge's loop, call by call: it submits queued runs to Machinist,   *)
(* executes queued effects, reports the jobs that ended and reads the      *)
(* review state of one pull request.  The process keeps everything it      *)
(* knows in memory and may die between any two calls; a call to the        *)
(* control plane or to Machinist may fail before it took place, or after,  *)
(* with only its reply lost.  An exception ends the pass, and the next one *)
(* starts after a pause.                                                   *)
(*                                                                         *)
(* StageMachine abstracts all this to SubmitRun, CompleteRun and RunEffect. *)
(***************************************************************************)
EXTENDS Naturals, Sequences, FiniteSets

CONSTANTS
  NumRuns,      \* bound on the run rows
  NumEffects,   \* bound on the effect rows
  NumHeads,     \* bound on the commits of the pull request under review
  Take,         \* how many queued rows one poll returns
  MaxFaults,    \* bound on disturbances: crashes, failed calls, outages, operator corrections, pushes
  Happens       \* the kinds of disturbances the environment may produce

Events == {"crash", "call-fails", "outage", "effect-fails", "cancel", "delete-job", "retrack", "push"}

ASSUME BridgeAssumption ==
  /\ NumRuns \in Nat /\ NumEffects \in Nat /\ NumHeads \in Nat \ {0}
  /\ Take \in Nat \ {0} /\ MaxFaults \in Nat
  /\ Happens \subseteq Events

VARIABLES
  \* the control plane: run rows, effect rows, the gate row
  rows, effects, gate,
  \* Machinist: jobs in the order they were posted, and whether it answers
  jobs, machinistUp,
  \* GitHub: the head of the pull request, the newest commit the reviewer scored,
  \* how often each commit was mentioned to the reviewer
  head, reviewed, mentions,
  \* the bridge: where it is, the jobs it tracks, what its poll returned, the job
  \* posted and not marked, the outcome of an effect not reported, the tracked
  \* runs the last status found ended, what it read of the pull request
  pc, tracked, toSubmit, toExecute, posted, outcome, due, view,
  \* history: completions the state machine was told of, follow-ups of effects
  completions, followUps, faults

tables    == <<rows, effects, gate>>
machinist == <<jobs, machinistUp>>
github    == <<head, reviewed, mentions>>
polled    == <<toSubmit, toExecute, posted, outcome>>
memory    == <<pc, tracked, polled, due, view>>
history   == <<completions, followUps>>
vars == <<tables, machinist, github, memory, history, faults>>

Runs == 1..NumRuns
Effects == 1..NumEffects
Heads == 1..NumHeads
(* A run is posted once, and once more for each disturbance. *)
MaxJobs == NumRuns + MaxFaults
Jobs == 1..MaxJobs
None == 0

Row == [state : {"none", "queued", "running", "ended", "cancelled"}, job : Jobs \cup {None}]
Job == [run : Runs, state : {"active", "ended", "deleted"}]
(* The gate row: the head it is of and reviewRequestedHead.  A view is the    *)
(* same, read for the next row.                                               *)
Gate == [head : Heads \cup {None}, asked : Heads \cup {None}]
NoView == [head |-> None, asked |-> None]

First(id, ids) == id \in ids /\ \A other \in ids : id <= other
(* A poll returns the oldest rows. *)
Oldest(ids) == {id \in ids : Cardinality({other \in ids : other < id}) < Take}

Fault(kind) == kind \in Happens /\ faults < MaxFaults /\ faults' = faults + 1

Init ==
  /\ rows = [r \in Runs |-> [state |-> "none", job |-> None]]
  /\ effects = [e \in Effects |-> "none"]
  /\ gate = NoView
  /\ jobs = <<>> /\ machinistUp = TRUE
  /\ head = 1 /\ reviewed = None /\ mentions = [h \in Heads |-> 0]
  /\ pc = "start" /\ tracked = [r \in Runs |-> None]
  /\ toSubmit = {} /\ toExecute = {} /\ posted = None /\ outcome = "none"
  /\ due = {} /\ view = NoView
  /\ completions = [r \in Runs |-> 0] /\ followUps = [e \in Effects |-> 0] /\ faults = 0

-----------------------------------------------------------------------------
(* The control plane's side of the protocol (convex/bridge.ts) *)

(* Mutant of MarkSubmitted: the row is not looked at. *)
MarkSubmittedAnyway(r, job) == rows' = [rows EXCEPT ![r] = [state |-> "running", job |-> job]]

(* A row that is no longer queued keeps its state, and gets no job. *)
MarkSubmitted(r, job) ==
  rows' = IF rows[r].state = "queued"
            THEN [rows EXCEPT ![r] = [state |-> "running", job |-> job]] ELSE rows

(* Mutant of Complete: the row is not looked at. *)
CompleteAnyway(r) ==
  /\ rows' = [rows EXCEPT ![r].state = "ended"]
  /\ completions' = [completions EXCEPT ![r] = @ + 1]

(* The first report of a running row ends it and schedules onRunCompleted. *)
Complete(r) ==
  IF rows[r].state = "running"
    THEN /\ rows' = [rows EXCEPT ![r].state = "ended"]
         /\ completions' = [completions EXCEPT ![r] = @ + 1]
    ELSE UNCHANGED <<rows, completions>>

(* The row takes whatever is reported; a success is followed up (effectDone). *)
EffectResult(e, ok) ==
  /\ effects' = [effects EXCEPT ![e] = IF ok THEN "done" ELSE "failed"]
  /\ followUps' = [followUps EXCEPT ![e] = IF ok THEN @ + 1 ELSE @]

(* running: the rows with a job, none twice. *)
RunningJobs == [r \in Runs |-> IF rows[r].state = "running" THEN rows[r].job ELSE None]

-----------------------------------------------------------------------------
(* One pass of the loop *)

Forget == /\ toSubmit' = {} /\ toExecute' = {} /\ posted' = None /\ outcome' = "none"
          /\ due' = {} /\ view' = NoView

(* Mutant of Abort: what the pass had polled is kept. *)
AbortKeeping == pc' = "sleep" /\ UNCHANGED <<tracked, polled, due, view>>

(* An exception: the rest of the pass is skipped. *)
Abort == pc' = "sleep" /\ Forget /\ UNCHANGED tracked

(* A read that fails costs a fault and changes nothing else. *)
ReadFails(at) ==
  /\ pc = at /\ Fault("call-fails")
  /\ Abort
  /\ UNCHANGED <<tables, machinist, github, history>>

(* At the process's start: re-track, and go on even when that fails. *)
Start ==
  /\ pc = "start" /\ pc' = "tick"
  /\ \/ tracked' = RunningJobs /\ UNCHANGED faults
     \/ Fault("call-fails") /\ UNCHANGED tracked
  /\ UNCHANGED <<tables, machinist, github, polled, due, view, history>>

(* Mutant of Reattach: only what was submitted by this process is tracked. *)
ReattachNothing ==
  /\ pc = "tick" /\ pc' = "poll"
  /\ UNCHANGED <<tracked, tables, machinist, github, polled, due, view, history, faults>>

Reattach ==
  /\ pc = "tick" /\ pc' = "poll"
  /\ tracked' = [r \in Runs |-> IF tracked[r] = None THEN RunningJobs[r] ELSE tracked[r]]
  /\ UNCHANGED <<tables, machinist, github, polled, due, view, history, faults>>

PollQueued ==
  /\ pc = "poll" /\ pc' = "work"
  /\ toSubmit' = {r \in Oldest({r \in Runs : rows[r].state = "queued"}) : tracked[r] = None}
  /\ toExecute' = Oldest({e \in Effects : effects[e] = "queued"})
  /\ UNCHANGED <<tables, machinist, github, tracked, posted, outcome, due, view, history, faults>>

(* submitRun: post the job ...                                                *)
Post ==
  /\ pc = "work" /\ toSubmit # {} /\ posted = None
  /\ \/ /\ machinistUp /\ Len(jobs) < MaxJobs
        /\ \E r \in Runs : First(r, toSubmit) /\ jobs' = Append(jobs, [run |-> r, state |-> "active"])
        /\ \/ posted' = Len(jobs') /\ UNCHANGED <<pc, tracked, toSubmit, toExecute, outcome, due, view, faults>>
           \/ Fault("call-fails") /\ Abort
     \/ ~machinistUp /\ Abort /\ UNCHANGED <<jobs, faults>>
  /\ UNCHANGED <<tables, machinistUp, github, history>>

(* ... and mark the row submitted.                                            *)
Mark ==
  /\ pc = "work" /\ posted # None
  /\ LET r == jobs[posted].run IN
       \/ /\ MarkSubmitted(r, posted)
          /\ tracked' = [tracked EXCEPT ![r] = posted]
          /\ toSubmit' = toSubmit \ {r} /\ posted' = None
          /\ UNCHANGED <<pc, toExecute, outcome, due, view, faults>>
       \/ Fault("call-fails") /\ Abort /\ (MarkSubmitted(r, posted) \/ UNCHANGED rows)
  /\ UNCHANGED <<effects, gate, machinist, github, history>>

(* runEffect: execute ...                                                     *)
Execute ==
  /\ pc = "work" /\ toSubmit = {} /\ toExecute # {} /\ outcome = "none"
  /\ \/ outcome' = "ok" /\ UNCHANGED faults
     \/ Fault("effect-fails") /\ outcome' = "failed"
  /\ UNCHANGED <<tables, machinist, github, pc, tracked, toSubmit, toExecute, posted, due, view, history>>

Reported(e) ==
  /\ toExecute' = toExecute \ {e} /\ outcome' = "none"
  /\ UNCHANGED <<pc, tracked, toSubmit, posted, due, view>>

(* Mutant of ReportOk: the report is tried again. *)
ReportOkAgain ==
  /\ pc = "work" /\ outcome = "ok"
  /\ \E e \in Effects :
       /\ First(e, toExecute)
       /\ \/ EffectResult(e, TRUE) /\ Reported(e) /\ UNCHANGED faults
          \/ /\ Fault("call-fails")
             /\ EffectResult(e, TRUE) \/ UNCHANGED <<effects, followUps>>
             /\ UNCHANGED memory
  /\ UNCHANGED <<rows, gate, machinist, github, completions>>

(* ... report success; when that call fails the effect is reported failed,    *)
(* though it was executed, and the first report may have arrived ...          *)
ReportOk ==
  /\ pc = "work" /\ outcome = "ok"
  /\ \E e \in Effects :
       /\ First(e, toExecute)
       /\ \/ EffectResult(e, TRUE) /\ Reported(e) /\ UNCHANGED faults
          \/ /\ Fault("call-fails")
             /\ EffectResult(e, TRUE) \/ UNCHANGED <<effects, followUps>>
             /\ outcome' = "failed"
             /\ UNCHANGED <<pc, tracked, toSubmit, toExecute, posted, due, view>>
  /\ UNCHANGED <<rows, gate, machinist, github, completions>>

(* ... and when that fails too, the pass ends.                                *)
ReportFailed ==
  /\ pc = "work" /\ outcome = "failed"
  /\ \E e \in Effects :
       /\ First(e, toExecute)
       /\ \/ EffectResult(e, FALSE) /\ Reported(e) /\ UNCHANGED faults
          \/ /\ Fault("call-fails") /\ Abort
             /\ EffectResult(e, FALSE) \/ UNCHANGED <<effects, followUps>>
  /\ UNCHANGED <<rows, gate, machinist, github, completions>>

(* superviseLocal: LocalServers is its model.                                 *)
SuperviseLocal ==
  /\ pc = "work" /\ toSubmit = {} /\ toExecute = {}
  /\ pc' = "reconcile"
  /\ UNCHANGED <<tables, machinist, github, tracked, polled, due, view, history, faults>>

(* reconcileRuns: the tracked runs whose job the status shows ended.  A job   *)
(* that is not in the status is passed over.                                  *)
ReadStatus ==
  /\ pc = "reconcile"
  /\ IF machinistUp
       THEN /\ due' = {r \in Runs : tracked[r] # None /\ jobs[tracked[r]].state = "ended"}
            /\ pc' = "complete" /\ UNCHANGED <<tracked, polled, view>>
       ELSE Abort
  /\ UNCHANGED <<tables, machinist, github, history, faults>>

CompleteRun(r) ==
  /\ pc = "complete" /\ r \in due
  /\ \/ /\ Complete(r)
        /\ tracked' = [tracked EXCEPT ![r] = None] /\ due' = due \ {r}
        /\ UNCHANGED <<pc, polled, view, faults>>
     \/ Fault("call-fails") /\ Abort /\ (Complete(r) \/ UNCHANGED <<rows, completions>>)
  /\ UNCHANGED <<effects, gate, machinist, github, followUps>>

(* syncGates, at most once a minute: the pull requests under review, each with *)
(* the head its reviewer was last asked about ...                             *)
ReviewTargets ==
  /\ pc = "complete" /\ due = {}
  /\ pc' = "view" /\ view' = [NoView EXCEPT !.asked = gate.asked]
  /\ UNCHANGED <<tables, machinist, github, tracked, polled, due, history, faults>>

SyncedLately ==
  /\ pc = "complete" /\ due = {}
  /\ pc' = "sleep"
  /\ UNCHANGED <<tables, machinist, github, tracked, polled, due, view, history, faults>>

(* ... which commit its head is: a read that fails leaves it unknown ...      *)
ReadView ==
  /\ pc = "view" /\ pc' = "mention"
  /\ \/ view' = [view EXCEPT !.head = head] /\ UNCHANGED faults
     \/ Fault("call-fails") /\ UNCHANGED view
  /\ UNCHANGED <<tables, machinist, github, tracked, polled, due, history>>

(* ... a mention to the reviewer when its score is older than the head, once  *)
(* per head as far as the gate row knows ...                                  *)
Mention ==
  /\ pc = "mention"
  /\ reviewed < view.head /\ view.asked # view.head
  /\ mentions' = [mentions EXCEPT ![view.head] = @ + 1]
  /\ pc' = "gate" /\ view' = [view EXCEPT !.asked = view.head]
  /\ UNCHANGED <<tables, machinist, head, reviewed, tracked, polled, due, history, faults>>

(* Mutant of NoMention: marked as asked, though the comment failed. *)
NoMentionMarked ==
  /\ pc = "mention" /\ pc' = "gate"
  /\ view' = [view EXCEPT !.asked = view.head]
  /\ UNCHANGED <<tables, machinist, github, tracked, polled, due, history, faults>>

(* ... but not in the head's first minutes, nor when the comment fails ...    *)
NoMention ==
  /\ pc = "mention" /\ pc' = "gate"
  /\ UNCHANGED <<tables, machinist, github, tracked, polled, due, view, history, faults>>

(* gateSync patches what it is given. *)
GateRow == [head  |-> IF view.head # None THEN view.head ELSE gate.head,
            asked |-> IF view.asked # None THEN view.asked ELSE gate.asked]

(* ... and gateSync stores what was read.                                     *)
SyncGate ==
  /\ pc = "gate"
  /\ \/ /\ gate' = GateRow /\ pc' = "sleep" /\ view' = NoView
        /\ UNCHANGED <<tracked, polled, due, faults>>
     \/ Fault("call-fails") /\ Abort /\ (gate' = GateRow \/ UNCHANGED gate)
  /\ UNCHANGED <<rows, effects, machinist, github, history>>

Wake ==
  /\ pc = "sleep" /\ pc' = "tick"
  /\ UNCHANGED <<tables, machinist, github, tracked, polled, due, view, history, faults>>

(* The process dies and is started again: everything it knew is gone.         *)
Crash ==
  /\ Fault("crash")
  /\ pc' = "start" /\ tracked' = [r \in Runs |-> None] /\ Forget
  /\ UNCHANGED <<tables, machinist, github, history>>

-----------------------------------------------------------------------------
(* The rest of the system, as far as the bridge sees it *)

(* The state machine enqueues a run or inserts an effect, oldest first. *)
Enqueue(r) ==
  /\ rows[r].state = "none" /\ \A older \in 1..r - 1 : rows[older].state # "none"
  /\ rows' = [rows EXCEPT ![r].state = "queued"]
  /\ UNCHANGED <<effects, gate, machinist, github, memory, history, faults>>

InsertEffect(e) ==
  /\ effects[e] = "none" /\ \A older \in 1..e - 1 : effects[older] # "none"
  /\ effects' = [effects EXCEPT ![e] = "queued"]
  /\ UNCHANGED <<rows, gate, machinist, github, memory, history, faults>>

(* The operator's corrections: cancelQueued, cancelByJob of a job deleted from *)
(* Machinist, retrackJob.                                                     *)
CancelQueued(r) ==
  /\ rows[r].state = "queued" /\ Fault("cancel")
  /\ rows' = [rows EXCEPT ![r].state = "cancelled"]
  /\ UNCHANGED <<effects, gate, machinist, github, memory, history>>

CancelByJob(r) ==
  /\ rows[r].state = "running" /\ jobs[rows[r].job].state = "deleted"
  /\ rows' = [rows EXCEPT ![r].state = "cancelled"]
  /\ UNCHANGED <<effects, gate, machinist, github, memory, history, faults>>

(* Mutant of RetrackJob: by run, whether or not it ever had a job. *)
RetrackRun(r) ==
  /\ rows[r].state # "none" /\ Fault("retrack")
  /\ rows' = [rows EXCEPT ![r].state = "running"]
  /\ completions' = [completions EXCEPT ![r] = 0]
  /\ UNCHANGED <<effects, gate, machinist, github, memory, followUps>>

RetrackJob(r) ==
  /\ rows[r].job # None /\ jobs[rows[r].job].state # "deleted" /\ Fault("retrack")
  /\ rows' = [rows EXCEPT ![r].state = "running"]
  /\ completions' = [completions EXCEPT ![r] = 0]
  /\ UNCHANGED <<effects, gate, machinist, github, memory, followUps>>

JobEnds(j) ==
  /\ j \in DOMAIN jobs /\ jobs[j].state = "active"
  /\ jobs' = [jobs EXCEPT ![j].state = "ended"]
  /\ UNCHANGED <<tables, machinistUp, github, memory, history, faults>>

JobDeleted(j) ==
  /\ j \in DOMAIN jobs /\ jobs[j].state # "deleted" /\ Fault("delete-job")
  /\ jobs' = [jobs EXCEPT ![j].state = "deleted"]
  /\ UNCHANGED <<tables, machinistUp, github, memory, history>>

Outage ==
  /\ machinistUp /\ Fault("outage")
  /\ machinistUp' = FALSE
  /\ UNCHANGED <<tables, jobs, github, memory, history>>

MachinistReturns ==
  /\ ~machinistUp /\ machinistUp' = TRUE
  /\ UNCHANGED <<tables, jobs, github, memory, history, faults>>

Push ==
  /\ head < NumHeads /\ Fault("push")
  /\ head' = head + 1
  /\ UNCHANGED <<tables, machinist, reviewed, mentions, memory, history>>

Reviewed ==
  /\ reviewed < head
  /\ reviewed' = head
  /\ UNCHANGED <<tables, machinist, head, mentions, memory, history, faults>>

-----------------------------------------------------------------------------
Tick ==
  \/ Start \/ Reattach \/ PollQueued
  \/ \E at \in {"tick", "poll", "reconcile"} : ReadFails(at)
  \/ Post \/ Mark \/ Execute \/ ReportOk \/ ReportFailed \/ SuperviseLocal
  \/ ReadStatus \/ \E r \in Runs : CompleteRun(r)
  \/ ReviewTargets \/ SyncedLately \/ ReadView \/ Mention \/ NoMention \/ SyncGate \/ Wake

Corrections == \E r \in Runs : CancelQueued(r) \/ CancelByJob(r) \/ RetrackJob(r)
ControlPlane == (\E r \in Runs : Enqueue(r)) \/ \E e \in Effects : InsertEffect(e)
Machinist == \/ \E j \in Jobs : JobEnds(j) \/ JobDeleted(j)
             \/ Outage \/ MachinistReturns
GitHub == Push \/ Reviewed

Next == Tick \/ Crash \/ ControlPlane \/ Corrections \/ Machinist \/ GitHub

Spec == Init /\ [][Next]_vars

(* The process is restarted when it dies, and sleeps only between passes; a   *)
(* minute goes by, and the reviewer can be mentioned in the end; jobs end, and *)
(* the operator cancels a run whose job was deleted.                          *)
Fairness ==
  /\ WF_vars(Tick) /\ SF_vars(ReviewTargets) /\ SF_vars(Mention)
  /\ \A j \in Jobs : WF_vars(JobEnds(j))
  /\ \A r \in Runs : WF_vars(CancelByJob(r))

FairSpec == Spec /\ Fairness /\ WF_vars(MachinistReturns)

-----------------------------------------------------------------------------
(* Properties *)

TablesOK ==
  /\ rows \in [Runs -> Row] /\ gate \in Gate
  /\ effects \in [Effects -> {"none", "queued", "done", "failed"}]

OutsideOK ==
  /\ jobs \in Seq(Job) /\ Len(jobs) <= MaxJobs /\ machinistUp \in BOOLEAN
  /\ head \in Heads /\ reviewed \in 0..head /\ mentions \in [Heads -> Nat]

MemoryOK ==
  /\ pc \in {"start", "tick", "poll", "work", "reconcile", "complete", "view", "mention", "gate",
             "sleep"}
  /\ tracked \in [Runs -> DOMAIN jobs \cup {None}]
  /\ toSubmit \subseteq Runs /\ toExecute \subseteq Effects
  /\ posted \in DOMAIN jobs \cup {None} /\ outcome \in {"none", "ok", "failed"}
  /\ due \subseteq Runs /\ view \in Gate

(* Each step of a pass leaves nothing behind for the next pass. *)
PassOK ==
  /\ pc # "work" => toSubmit = {} /\ toExecute = {}
  /\ toSubmit = {} => posted = None
  /\ toExecute = {} => outcome = "none"
  /\ pc # "complete" => due = {}
  /\ pc \notin {"view", "mention", "gate"} => view = NoView

HistoryOK ==
  completions \in [Runs -> Nat] /\ followUps \in [Effects -> Nat] /\ faults \in 0..MaxFaults

TypeOK ==
  /\ TablesOK /\ OutsideOK /\ MemoryOK /\ PassOK /\ HistoryOK
  /\ \A r \in Runs : rows[r].job \in DOMAIN jobs \cup {None}

(* However often the bridge dies, loses a reply or posts a run twice, the     *)
(* state machine is told once that a run completed (complete), unless the     *)
(* operator re-attached it, and of a job of that very run.                    *)
CompletedOnce ==
  \A r \in Runs :
    /\ completions[r] <= 1
    /\ completions[r] = 1 => rows[r].state = "ended"

(* What the bridge tracks for a running row is the row's own job, never the   *)
(* other one of a run that was posted twice (submitRun, the re-attachment).   *)
TracksTheRowsJob ==
  \A r \in Runs :
    rows[r].state = "running" =>
      /\ rows[r].job # None /\ jobs[rows[r].job].run = r
      /\ tracked[r] \in {None, rows[r].job}

(* A cancelled run stays cancelled, also when the bridge had polled it before *)
(* and marks it submitted after (markSubmitted, complete): only the operator  *)
(* brings it back.                                                            *)
CancelledStays ==
  [][\A r \in Runs :
       rows[r].state = "cancelled" /\ rows'[r].state # "cancelled" => RetrackJob(r)]_vars

(* An effect is followed up once: its shepherd is enqueued once, though the   *)
(* effect may be executed again after a crash (runEffect, effectResult).      *)
FollowedUpOnce == \A e \in Effects : followUps[e] <= 1

(* Every submitted run is reported, through crashes, lost calls and outages:  *)
(* what the process forgets it finds again in the control plane (running,     *)
(* tick).                                                                     *)
RunsAreReported ==
  \A r \in Runs : rows[r].state = "running" ~> rows[r].state \in {"ended", "cancelled"}

(* The gate row catches up with the pull request once it stops changing, and  *)
(* the reviewer was asked about a head it has not scored (syncGates), through *)
(* crashes and failed calls.                                                  *)
GateCatchesUp == <>[](gate.head = head /\ (reviewed = head \/ mentions[head] > 0))
=============================================================================
