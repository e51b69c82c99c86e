---------------------------- MODULE StageMachine ----------------------------
(***************************************************************************)
(* The control plane's stage state machine for one project, together with  *)
(* everything that drives it: the scheduler that defers its handlers, the  *)
(* bridge that submits runs and executes effects, the review gate's        *)
(* verdict, the operator, and GitHub.  Each action is one Convex           *)
(* transaction, or one step of an external actor.                          *)
(*                                                                         *)
(* Time is abstracted: a call scheduled with a delay may run at any later  *)
(* moment, in any order with the other scheduled calls.  What the gate     *)
(* reads (CI, review score, forced gray, effective mode) is abstracted to  *)
(* the verdict it leads to.                                                *)
(***************************************************************************)
EXTENDS Naturals, Sequences

CONSTANTS
  NumPhases,        \* the spec's build phases
  MaxRepairRounds,  \* project.maxRepairRounds
  Happens,          \* the kinds of events the environment may produce
  MaxRuns,          \* bound on the run rows in use at once
  MaxPrs,           \* bound on the pull requests ever opened
  MaxFaults,        \* bound on the steps that spend the fault budget
  MaxEvals          \* bound on gate evaluations pending when GitHub adds one

(* What may go wrong, or be asked for, besides the ordinary course of a line. *)
Events ==
  {"auto",          \* a passing gate in effective dark mode, not forced gray
   "manual",        \* a passing gate that waits for a human merge
   "run-fails", "credential", "needs-human", "findings",   \* run outcomes
   "pr-lost",       \* a foreman succeeds and the bridge finds no pull request
   "stall",         \* CI or the reviewer stays silent for 20 minutes
   "effect-fails", "human-merge", "webhook", "restart",
   "secondary", "cli-unblock", "retry-stage", "set-pr", "cancel",
   "checklist", "issue", "release"}

ASSUME BoundsAssumption ==
  /\ NumPhases \in Nat \ {0}
  /\ MaxRepairRounds \in Nat
  /\ MaxRuns \in Nat /\ MaxPrs \in Nat /\ MaxFaults \in Nat /\ MaxEvals \in Nat
  /\ Happens \subseteq Events

VARIABLES
  \* the project row
  stage, hasRepo, phaseIssues, phaseIndex, currentPr, repairRound, assessed,
  \* the other tables: runs some handler can still read, queued effects, open decisions
  runs, effects, decisions,
  \* scheduled calls: gates.evaluate and stateMachine.unblock (how many),
  \* onPullRequestMerged (for which pull requests)
  evals, unblocks, mergeCalls,
  \* GitHub: pull requests opened, merged, carrying machinist:auto-merge
  opened, merged, labelled,
  \* the bridge process's memory of the merges it reported
  reported,
  \* history: the pull request that closed each phase, whether a deployment
  \* was reached, and the fault budget spent
  phasePr, delivered, faults

project   == <<stage, hasRepo, phaseIssues, phaseIndex, currentPr, repairRound, assessed>>
scheduler == <<evals, unblocks, mergeCalls>>
github    == <<opened, merged, labelled>>
history   == <<phasePr, delivered>>
vars == <<project, runs, effects, decisions, scheduler, github, reported, history, faults>>

NoPr == 0

Stages == {"DRAFT", "GENESIS", "BUILD", "ASSESS", "FIX", "REVIEW_LOOP", "DEPLOY_DEV",
           "HANDOFF", "MAINTAIN", "TRIAGE", "NEEDS_HUMAN"}
Commands == {"genesis", "foreman", "greptile-fix", "shepherd", "assess", "dev", "triage"}
RepairCommands == {"greptile-fix", "shepherd"}
Results == {"ok", "fail", "credential", "needs-human", "findings", "ignore"}

(* A run row.  ref is the phase a BUILD foreman implements, the pull request  *)
(* a REVIEW_LOOP run works on; result and pr are what its completion reports. *)
(* An ended run is terminal with its onRunCompleted call still scheduled; a   *)
(* closed one has nothing scheduled, and is dropped once a newer row exists,  *)
(* for no handler reads it again.  Ids order the rows by creation.            *)
Run == [id : 1..MaxRuns, stage : Stages, command : Commands,
        state : {"queued", "running", "ended", "closed"}, attempt : 1..2, ref : Nat,
        result : Results, pr : 0..MaxPrs]
Effect == [kind : {"register-repository", "create-phase-issues", "apply-label", "comment"},
           pr : 0..MaxPrs]
Kinds == {"unblock", "accept-finding", "apply-auto-merge", "dark-mode-checklist"}
Questions == [kind : Kinds, pr : 0..MaxPrs]

Live(r) == r.state \in {"queued", "running"}
Unfinished(r) == r.state # "closed"
LiveRepair == \E r \in runs : r.command \in RepairCommands /\ Live(r)
AnyOpen == \E q \in Questions : decisions[q] > 0
LabelPending == \E i \in DOMAIN effects : effects[i].kind = "apply-label"
IsLast(r) == \A other \in runs : other.id <= r.id

-----------------------------------------------------------------------------
(* Writes shared by the handlers *)

(* Insert a queued row, newer than every other, beside the rows in kept. *)
EnqueueBeside(kept, s, command, ref, attempt) ==
  \E id \in 1..MaxRuns :
    /\ \A r \in kept : r.id < id
    /\ id = 1 \/ \E r \in kept : r.id = id - 1
    /\ runs' = kept \cup {[id |-> id, stage |-> s, command |-> command, state |-> "queued",
                           attempt |-> attempt, ref |-> ref, result |-> "ok", pr |-> NoPr]}

Enqueue(s, command, ref, attempt) ==
  EnqueueBeside({r \in runs : Unfinished(r)}, s, command, ref, attempt)

Update(r, new) == runs' = (runs \ {r}) \cup {new}
Close(r) == Update(r, [r EXCEPT !.state = "closed"])
CloseAndEnqueue(r, s, command, ref, attempt) ==
  EnqueueBeside({other \in runs : Unfinished(other)} \ {r}, s, command, ref, attempt)

InsertEffect(kind, pr) == effects' = Append(effects, [kind |-> kind, pr |-> pr])

OpenDecision(kind, pr) ==
  decisions' = [decisions EXCEPT ![[kind |-> kind, pr |-> pr]] = @ + 1]

(* Resolve every open unblock decision. *)
ResolveUnblocks ==
  decisions' = [q \in Questions |-> IF q.kind = "unblock" THEN 0 ELSE decisions[q]]

(* Mutant of Stop: the decision is forgotten. *)
StopSilently(kind) == stage' = "NEEDS_HUMAN" /\ UNCHANGED decisions

(* stop: NEEDS_HUMAN with a decision. *)
Stop(kind) == stage' = "NEEDS_HUMAN" /\ OpenDecision(kind, currentPr)

(* A step the environment may take only while the fault budget lasts. *)
SpendFault(isFault) ==
  IF isFault THEN faults < MaxFaults /\ faults' = faults + 1 ELSE UNCHANGED faults

-----------------------------------------------------------------------------
Init ==
  /\ stage = "DRAFT" /\ hasRepo = FALSE /\ phaseIssues = FALSE /\ phaseIndex = 0
  /\ currentPr = NoPr /\ repairRound = 0 /\ assessed = FALSE
  /\ runs = {} /\ effects = <<>> /\ decisions = [q \in Questions |-> 0]
  /\ evals = 0 /\ unblocks = 0 /\ mergeCalls = {}
  /\ opened = 0 /\ merged = {} /\ labelled = {}
  /\ reported = {}
  /\ phasePr = [k \in 0..NumPhases - 1 |-> NoPr] /\ delivered = FALSE
  /\ faults = 0

(* "Start the line". *)
StartLine ==
  /\ stage = "DRAFT"
  /\ stage' = "GENESIS"
  /\ Enqueue("GENESIS", "genesis", 0, 1)
  /\ UNCHANGED <<hasRepo, phaseIssues, phaseIndex, currentPr, repairRound, assessed, effects,
                 decisions, scheduler, github, reported, history, faults>>

-----------------------------------------------------------------------------
(* The bridge and Machinist *)

(* The bridge posts a queued run as a job and marks it submitted. *)
SubmitRun(r) ==
  /\ r.state = "queued"
  /\ Update(r, [r EXCEPT !.state = "running"])
  /\ UNCHANGED <<project, effects, decisions, scheduler, github, reported, history, faults>>

(* What a run can end in.  A run that says it needs a human, or reports       *)
(* findings, has succeeded as a job.                                          *)
MayEnd(r, result) ==
  \/ result = "ok"
  \/ result = "fail" /\ "run-fails" \in Happens
  \/ result = "credential" /\ "credential" \in Happens
  \/ result = "needs-human" /\ r.command \in RepairCommands /\ "needs-human" \in Happens
  \/ result = "findings" /\ r.command = "assess" /\ "findings" \in Happens
  \/ result = "ignore" /\ r.command = "triage"

(* A foreman opens its pull request while it runs. *)
OpenPr(r) ==
  /\ r.command = "foreman" /\ r.state = "running" /\ r.pr = NoPr
  /\ opened < MaxPrs
  /\ opened' = opened + 1
  /\ Update(r, [r EXCEPT !.pr = opened + 1])
  /\ UNCHANGED <<project, effects, decisions, scheduler, merged, labelled, reported, history, faults>>

(* Machinist reports the job terminal; the bridge mirrors the state, with the *)
(* pull request it finds, and the control plane schedules onRunCompleted.     *)
(* A foreman succeeds once its pull request is open; a shepherd that leaves   *)
(* its labelled pull request unmerged spends a fault.                         *)
CompleteRun(r, result) ==
  LET idle == r.command = "shepherd" /\ result = "ok" /\ r.ref \in labelled \ merged IN
  /\ r.state = "running"
  /\ MayEnd(r, result)
  /\ (r.command = "foreman" /\ result = "ok") => r.pr # NoPr
  /\ SpendFault(result \notin {"ok", "ignore"} \/ idle)
  /\ \E pr \in {r.pr} \cup {lost \in {NoPr} : "pr-lost" \in Happens} :
       Update(r, [r EXCEPT !.state = "ended", !.result = result, !.pr = pr])
  /\ UNCHANGED <<project, effects, decisions, scheduler, github, reported, history>>

-----------------------------------------------------------------------------
(* onRunCompleted, one action per branch *)

Failed(r) == r.result \in {"fail", "credential"}

(* The project already left the run's stage: a foreman that ends while a      *)
(* pull request is under review is the one exception.                         *)
IsStale(r) ==
  /\ r.stage # stage
  /\ ~(r.stage \in {"BUILD", "MAINTAIN"} /\ stage = "REVIEW_LOOP")

Accepted(r) == r.state = "ended" /\ ~IsStale(r)
Succeeded(r, s) == Accepted(r) /\ ~Failed(r) /\ r.stage = s

StaleRun(r) ==
  /\ r.state = "ended" /\ IsStale(r)
  /\ Close(r)
  /\ UNCHANGED <<stage, hasRepo, currentPr, repairRound, assessed, effects, decisions, evals, delivered>>

RetryRun(r) ==
  /\ Accepted(r) /\ r.result = "fail" /\ r.attempt < 2
  /\ CloseAndEnqueue(r, r.stage, r.command, r.ref, r.attempt + 1)
  /\ UNCHANGED <<stage, hasRepo, currentPr, repairRound, assessed, effects, decisions, evals, delivered>>

StopOnFailure(r) ==
  /\ Accepted(r) /\ Failed(r)
  /\ r.result = "credential" \/ r.attempt >= 2
  /\ Stop("unblock")
  /\ Close(r)
  /\ UNCHANGED <<hasRepo, currentPr, repairRound, assessed, effects, evals, delivered>>

GenesisDone(r) ==
  /\ Succeeded(r, "GENESIS")
  /\ hasRepo' = TRUE /\ stage' = "BUILD"
  /\ InsertEffect("register-repository", NoPr)
  /\ Close(r)
  /\ UNCHANGED <<currentPr, repairRound, assessed, decisions, evals, delivered>>

(* Mutant of HandedOff: nobody judges the pull request. *)
HandedOffUnjudged(r) ==
  /\ \E s \in {"BUILD", "FIX", "MAINTAIN"} : Succeeded(r, s)
  /\ currentPr' = IF r.pr = NoPr THEN currentPr ELSE r.pr
  /\ repairRound' = 0 /\ stage' = "REVIEW_LOOP"
  /\ Close(r)
  /\ UNCHANGED <<hasRepo, assessed, effects, decisions, evals, delivered>>

(* A foreman (BUILD, FIX or MAINTAIN) handed a pull request to review. *)
HandedOff(r) ==
  /\ \E s \in {"BUILD", "FIX", "MAINTAIN"} : Succeeded(r, s)
  /\ currentPr' = IF r.pr = NoPr THEN currentPr ELSE r.pr
  /\ repairRound' = 0 /\ stage' = "REVIEW_LOOP"
  /\ evals' = evals + 1
  /\ Close(r)
  /\ UNCHANGED <<hasRepo, assessed, effects, decisions, delivered>>

RepairNeedsHuman(r) ==
  /\ Succeeded(r, "REVIEW_LOOP") /\ r.result = "needs-human"
  /\ Stop("unblock")
  /\ Close(r)
  /\ UNCHANGED <<hasRepo, currentPr, repairRound, assessed, effects, evals, delivered>>

RepairDone(r) ==
  /\ Succeeded(r, "REVIEW_LOOP") /\ r.result # "needs-human"
  /\ evals' = evals + 1
  /\ Close(r)
  /\ UNCHANGED <<stage, hasRepo, currentPr, repairRound, assessed, effects, decisions, delivered>>

(* Mutant of AssessPassed: the assessment is not recorded. *)
AssessPassedUnrecorded(r) ==
  /\ Succeeded(r, "ASSESS") /\ r.result # "findings"
  /\ stage' = "DEPLOY_DEV"
  /\ CloseAndEnqueue(r, "DEPLOY_DEV", "dev", 0, 1)
  /\ UNCHANGED <<hasRepo, currentPr, repairRound, assessed, effects, decisions, evals, delivered>>

AssessPassed(r) ==
  /\ Succeeded(r, "ASSESS") /\ r.result # "findings"
  /\ assessed' = TRUE /\ stage' = "DEPLOY_DEV"
  /\ CloseAndEnqueue(r, "DEPLOY_DEV", "dev", 0, 1)
  /\ UNCHANGED <<hasRepo, currentPr, repairRound, effects, decisions, evals, delivered>>

AssessFoundFindings(r) ==
  /\ Succeeded(r, "ASSESS") /\ r.result = "findings"
  /\ assessed' = TRUE
  /\ Stop("accept-finding")
  /\ Close(r)
  /\ UNCHANGED <<hasRepo, currentPr, repairRound, effects, evals, delivered>>

(* DEPLOY_DEV to HANDOFF to MAINTAIN, in one transaction. *)
DeployDone(r) ==
  /\ Succeeded(r, "DEPLOY_DEV")
  /\ stage' = "MAINTAIN" /\ delivered' = TRUE
  /\ Close(r)
  /\ UNCHANGED <<hasRepo, currentPr, repairRound, assessed, effects, decisions, evals>>

(* A TRIAGE verdict: action=request enqueues a foreman, anything else ends it. *)
Triaged(r) ==
  /\ Succeeded(r, "TRIAGE")
  /\ IF r.result = "ok" THEN CloseAndEnqueue(r, "MAINTAIN", "foreman", 0, 1) ELSE Close(r)
  /\ UNCHANGED <<stage, hasRepo, currentPr, repairRound, assessed, effects, decisions, evals, delivered>>

OnRunCompleted(r) ==
  /\ \/ StaleRun(r) \/ RetryRun(r) \/ StopOnFailure(r)
     \/ GenesisDone(r) \/ HandedOff(r) \/ RepairNeedsHuman(r) \/ RepairDone(r)
     \/ AssessPassed(r) \/ AssessFoundFindings(r) \/ DeployDone(r) \/ Triaged(r)
  /\ UNCHANGED <<phaseIssues, phaseIndex, unblocks, mergeCalls, github, reported, phasePr, faults>>

-----------------------------------------------------------------------------
(* gates.evaluate, one action per verdict.  A pending verdict inside the 20  *)
(* minutes only schedules the same call again, which changes nothing here.   *)

Reviewing == stage = "REVIEW_LOOP" /\ currentPr # NoPr /\ hasRepo
Judging == Reviewing /\ ~AnyOpen /\ ~LiveRepair

(* Nothing to judge, or something to wait for: the operator, or a repair. *)
EvaluateNothing ==
  /\ ~Judging
  /\ UNCHANGED <<stage, repairRound, runs, effects, decisions, faults>>

(* Pending for 20 minutes: a decision is opened, the stage stays. *)
EvaluateStalled ==
  /\ "stall" \in Happens
  /\ Judging
  /\ OpenDecision("unblock", currentPr)
  /\ UNCHANGED <<stage, repairRound, runs, effects, faults>>

(* A passing verdict spends a fault when it is out of the ordinary: on a     *)
(* merged pull request, whose gate row the bridge no longer refreshes, or,   *)
(* held for a human, after a verdict that was not (the mode changed).        *)

(* Mutant of EvaluatePassDark: a pending label is not looked for. *)
EvaluatePassDarkAgain ==
  /\ "auto" \in Happens
  /\ Judging
  /\ SpendFault(currentPr \in merged)
  /\ InsertEffect("apply-label", currentPr)
  /\ UNCHANGED <<stage, repairRound, runs, decisions>>

(* Pass and may auto-merge: one label effect, unless one is pending. *)
EvaluatePassDark ==
  /\ "auto" \in Happens
  /\ Judging
  /\ SpendFault(currentPr \in merged)
  /\ IF LabelPending THEN UNCHANGED effects ELSE InsertEffect("apply-label", currentPr)
  /\ UNCHANGED <<stage, repairRound, runs, decisions>>

(* Pass, held for a human merge. *)
EvaluatePassGray ==
  /\ "manual" \in Happens
  /\ Judging
  /\ SpendFault(currentPr \in merged \/ LabelPending)
  /\ OpenDecision("apply-auto-merge", currentPr)
  /\ UNCHANGED <<stage, repairRound, runs, effects>>

(* Mutant of EvaluateRepair: one round past the cap. *)
EvaluateRepairPastCap ==
  /\ Judging
  /\ SpendFault(TRUE)
  /\ repairRound <= MaxRepairRounds
  /\ repairRound' = repairRound + 1
  /\ Enqueue("REVIEW_LOOP", "greptile-fix", currentPr, 1)
  /\ UNCHANGED <<stage, effects, decisions>>

(* Fail with a repair round left: one greptile-fix run. *)
EvaluateRepair ==
  /\ Judging
  /\ SpendFault(TRUE)
  /\ repairRound + 1 <= MaxRepairRounds
  /\ repairRound' = repairRound + 1
  /\ Enqueue("REVIEW_LOOP", "greptile-fix", currentPr, 1)
  /\ UNCHANGED <<stage, effects, decisions>>

(* Fail with the rounds spent. *)
EvaluateCapReached ==
  /\ Judging
  /\ SpendFault(TRUE)
  /\ repairRound + 1 > MaxRepairRounds
  /\ Stop("unblock")
  /\ UNCHANGED <<repairRound, runs, effects>>

Evaluate ==
  /\ evals > 0 /\ evals' = evals - 1
  /\ \/ EvaluateNothing \/ EvaluateStalled \/ EvaluatePassDark \/ EvaluatePassGray
     \/ EvaluateRepair \/ EvaluateCapReached
  /\ UNCHANGED <<hasRepo, phaseIssues, phaseIndex, currentPr, assessed, unblocks, mergeCalls,
                 github, reported, history>>

(* A webhook, a gate sync or a provider change schedules an evaluation. *)
GateMoved ==
  /\ hasRepo /\ evals < MaxEvals
  /\ evals' = evals + 1
  /\ UNCHANGED <<project, runs, effects, decisions, unblocks, mergeCalls, github, reported,
                 history, faults>>

-----------------------------------------------------------------------------
(* Effects: the bridge executes the oldest queued one and reports it.  The   *)
(* result and effectDone are one transaction.                                *)

TakeEffect(kind) ==
  /\ effects # <<>> /\ Head(effects).kind = kind
  /\ effects' = Tail(effects)

(* Mutant of LabelApplied: no shepherd follows the label. *)
LabelAppliedOnly ==
  /\ TakeEffect("apply-label")
  /\ labelled' = labelled \cup {Head(effects).pr}
  /\ UNCHANGED <<phaseIssues, phaseIndex, runs, faults>>

(* The permission label is on: the shepherd run follows, for the project's   *)
(* pull request as it is now.                                                *)
LabelApplied ==
  /\ TakeEffect("apply-label")
  /\ labelled' = labelled \cup {Head(effects).pr}
  /\ Enqueue("REVIEW_LOOP", "shepherd", currentPr, 1)
  /\ UNCHANGED <<phaseIssues, phaseIndex, faults>>

RepositoryRegistered ==
  /\ effects # <<>> /\ Head(effects).kind = "register-repository"
  /\ effects' = Append(Tail(effects), [kind |-> "create-phase-issues", pr |-> NoPr])
  /\ UNCHANGED <<phaseIssues, phaseIndex, runs, labelled, faults>>

PhaseIssuesCreated ==
  /\ TakeEffect("create-phase-issues")
  /\ phaseIssues' = TRUE /\ phaseIndex' = 0
  /\ Enqueue("BUILD", "foreman", 0, 1)
  /\ UNCHANGED <<labelled, faults>>

CommentPosted ==
  /\ TakeEffect("comment")
  /\ UNCHANGED <<phaseIssues, phaseIndex, runs, labelled, faults>>

(* The effect fails: it is recorded as failed and nothing follows it. *)
EffectFailed ==
  /\ "effect-fails" \in Happens
  /\ effects # <<>>
  /\ effects' = Tail(effects)
  /\ SpendFault(TRUE)
  /\ UNCHANGED <<phaseIssues, phaseIndex, runs, labelled>>

RunEffect ==
  /\ LabelApplied \/ RepositoryRegistered \/ PhaseIssuesCreated \/ CommentPosted \/ EffectFailed
  /\ UNCHANGED <<stage, hasRepo, currentPr, repairRound, assessed, decisions, scheduler, opened,
                 merged, reported, history>>

-----------------------------------------------------------------------------
(* GitHub merges and their reports *)

(* A pull request merges: by a human, or by a shepherd that finds it labelled. *)
MergePr(p) ==
  /\ p \in 1..opened /\ p \notin merged
  /\ \/ "human-merge" \in Happens
     \/ p \in labelled /\ \E r \in runs : r.command = "shepherd" /\ r.state = "running"
  /\ merged' = merged \cup {p}
  /\ UNCHANGED <<project, runs, effects, decisions, scheduler, opened, labelled, reported, history, faults>>

(* onPullRequestMerged, one action per branch. *)
MergeIgnored(p) ==
  /\ currentPr # p \/ stage # "REVIEW_LOOP"
  /\ UNCHANGED <<stage, phaseIndex, currentPr, runs, phasePr>>

(* Mutant of ClosesPhase: the stage is not looked at. *)
ClosesPhaseInAnyStage(p) ==
  /\ currentPr = p
  /\ phasePr' = [phasePr EXCEPT ![phaseIndex] = p]

ClosesPhase(p) ==
  /\ currentPr = p /\ stage = "REVIEW_LOOP"
  /\ phasePr' = [phasePr EXCEPT ![phaseIndex] = p]

(* Mutant of MorePhases: the last phase is not counted. *)
MorePhasesButLast == phaseIndex + 2 < NumPhases /\ phaseIssues

MorePhases == phaseIndex + 1 < NumPhases /\ phaseIssues

(* Mutant of NextPhase: the merged pull request stays tracked. *)
NextPhaseKeepingPr(p) ==
  /\ ClosesPhase(p)
  /\ MorePhases
  /\ phaseIndex' = phaseIndex + 1 /\ stage' = "BUILD"
  /\ Enqueue("BUILD", "foreman", phaseIndex + 1, 1)
  /\ UNCHANGED currentPr

NextPhase(p) ==
  /\ ClosesPhase(p)
  /\ MorePhases
  /\ phaseIndex' = phaseIndex + 1 /\ currentPr' = NoPr /\ stage' = "BUILD"
  /\ Enqueue("BUILD", "foreman", phaseIndex + 1, 1)

LastPhaseMerged(p) ==
  /\ ClosesPhase(p)
  /\ ~MorePhases /\ ~assessed
  /\ stage' = "ASSESS"
  /\ Enqueue("ASSESS", "assess", 0, 1)
  /\ UNCHANGED <<phaseIndex, currentPr>>

MaintenanceMerged(p) ==
  /\ currentPr = p /\ stage = "REVIEW_LOOP"
  /\ ~MorePhases /\ assessed
  /\ currentPr' = NoPr /\ stage' = "MAINTAIN"
  /\ UNCHANGED <<phaseIndex, runs, phasePr>>

OnPullRequestMerged(p) ==
  /\ MergeIgnored(p) \/ NextPhase(p) \/ LastPhaseMerged(p) \/ MaintenanceMerged(p)
  /\ UNCHANGED <<hasRepo, phaseIssues, repairRound, assessed, effects, decisions, evals, unblocks,
                 github, reported, delivered, faults>>

(* The bridge polls the pull request of a project under review or stopped and  *)
(* reports a merge it has not reported since it started.                       *)
BridgeReportsMerge(p) ==
  /\ stage \in {"REVIEW_LOOP", "NEEDS_HUMAN"} /\ hasRepo
  /\ currentPr = p /\ p \in merged \ reported
  /\ mergeCalls' = mergeCalls \cup {p} /\ reported' = reported \cup {p}
  /\ UNCHANGED <<project, runs, effects, decisions, evals, unblocks, github, history, faults>>

ScheduledMergeReport(p) ==
  /\ p \in mergeCalls
  /\ mergeCalls' = mergeCalls \ {p}
  /\ OnPullRequestMerged(p)

(* GitHub delivers the merge itself, late or more than once. *)
WebhookReportsMerge(p) ==
  /\ "webhook" \in Happens
  /\ p \in merged
  /\ OnPullRequestMerged(p)
  /\ UNCHANGED mergeCalls

BridgeRestarts ==
  /\ "restart" \in Happens
  /\ reported' = {}
  /\ UNCHANGED <<project, runs, effects, decisions, scheduler, github, history, faults>>

-----------------------------------------------------------------------------
(* Maintenance intake *)

OnIssueOpened ==
  /\ "issue" \in Happens
  /\ stage = "MAINTAIN"
  /\ SpendFault(TRUE)
  /\ Enqueue("TRIAGE", "triage", 0, 1)
  /\ UNCHANGED <<project, effects, decisions, scheduler, github, reported, history>>

OnRelease ==
  /\ "release" \in Happens
  /\ stage = "MAINTAIN"
  /\ SpendFault(TRUE)
  /\ stage' = "ASSESS"
  /\ Enqueue("ASSESS", "assess", 0, 1)
  /\ UNCHANGED <<hasRepo, phaseIssues, phaseIndex, currentPr, repairRound, assessed, effects,
                 decisions, scheduler, github, reported, history>>

-----------------------------------------------------------------------------
(* The operator *)

(* stateMachine.unblock, scheduled by a resolved decision or by the CLI. *)
UnblockIgnored ==
  /\ stage # "NEEDS_HUMAN"
  /\ UNCHANGED <<stage, repairRound, runs, decisions, evals>>

UnblockToReview ==
  /\ stage = "NEEDS_HUMAN"
  /\ currentPr # NoPr /\ hasRepo
  /\ ResolveUnblocks
  /\ stage' = "REVIEW_LOOP" /\ repairRound' = 0
  /\ evals' = evals + 1
  /\ UNCHANGED runs

(* The command of the newest row again, from the stage it ran in. *)
Rerun(last) ==
  /\ IsLast(last)
  /\ ResolveUnblocks
  /\ Enqueue(last.stage, last.command, last.ref, 1)
  /\ stage' = last.stage

(* Mutant of UnblockToRerun: a project that is not stopped is rerun too. *)
UnblockToRerunAnyway ==
  /\ ~(currentPr # NoPr /\ hasRepo)
  /\ \E last \in runs : Rerun(last)
  /\ UNCHANGED <<repairRound, evals>>

UnblockToRerun ==
  /\ stage = "NEEDS_HUMAN"
  /\ ~(currentPr # NoPr /\ hasRepo)
  /\ \E last \in runs : Rerun(last)
  /\ UNCHANGED <<repairRound, evals>>

Unblock ==
  /\ unblocks > 0 /\ unblocks' = unblocks - 1
  /\ UnblockIgnored \/ UnblockToReview \/ UnblockToRerun
  /\ UNCHANGED <<hasRepo, phaseIssues, phaseIndex, currentPr, assessed, effects, mergeCalls, github,
                 reported, history, faults>>

(* The decision drawer, and cli decide. *)
Resolve(q, choice) ==
  LET merge == q.kind = "apply-auto-merge" /\ hasRepo /\ currentPr # NoPr IN
  /\ decisions[q] > 0
  /\ choice = "primary" \/ "secondary" \in Happens
  /\ decisions' = [decisions EXCEPT ![q] = @ - 1]
  /\ IF merge THEN InsertEffect(IF choice = "primary" THEN "apply-label" ELSE "comment", currentPr)
              ELSE UNCHANGED effects
  /\ stage' = IF merge /\ choice = "secondary" THEN "NEEDS_HUMAN" ELSE stage
  /\ unblocks' = IF q.kind = "unblock" /\ choice = "primary" THEN unblocks + 1 ELSE unblocks
  /\ UNCHANGED <<hasRepo, phaseIssues, phaseIndex, currentPr, repairRound, assessed, runs, evals,
                 mergeCalls, github, reported, history, faults>>

RequestDarkMode ==
  /\ "checklist" \in Happens
  /\ hasRepo
  /\ decisions[[kind |-> "dark-mode-checklist", pr |-> NoPr]] = 0
  /\ OpenDecision("dark-mode-checklist", NoPr)
  /\ SpendFault(TRUE)
  /\ UNCHANGED <<project, runs, effects, scheduler, github, reported, history>>

CliUnblock ==
  /\ "cli-unblock" \in Happens
  /\ unblocks < 2
  /\ unblocks' = unblocks + 1
  /\ UNCHANGED <<project, runs, effects, decisions, evals, mergeCalls, github, reported, history, faults>>

RetryStage ==
  /\ "retry-stage" \in Happens
  /\ SpendFault(TRUE)
  /\ \E last \in runs : Rerun(last) /\ ~Live(last)
  /\ UNCHANGED <<hasRepo, phaseIssues, phaseIndex, currentPr, repairRound, assessed, effects,
                 scheduler, github, reported, history>>

(* The operator corrects the tracked pull request to one that is open. *)
SetPullRequest(p) ==
  /\ "set-pr" \in Happens
  /\ p \in 1..opened /\ p \notin merged
  /\ SpendFault(TRUE)
  /\ decisions' = [q \in Questions |-> 0]
  /\ currentPr' = p /\ stage' = "REVIEW_LOOP" /\ repairRound' = 0
  /\ UNCHANGED <<hasRepo, phaseIssues, phaseIndex, assessed, runs, effects, scheduler, github,
                 reported, history>>

(* cancelQueued: the queued runs of one command. *)
CancelQueued(command) ==
  LET doomed == {r \in runs : r.command = command /\ r.state = "queued"} IN
  /\ "cancel" \in Happens
  /\ doomed # {}
  /\ runs' = (runs \ doomed) \cup {[r EXCEPT !.state = "closed"] : r \in doomed}
  /\ UNCHANGED <<project, effects, decisions, scheduler, github, reported, history, faults>>

(* cancelByJob: one submitted run. *)
CancelByJob(r) ==
  /\ "cancel" \in Happens
  /\ r.state = "running"
  /\ Close(r)
  /\ UNCHANGED <<project, effects, decisions, scheduler, github, reported, history, faults>>

-----------------------------------------------------------------------------
Operator ==
  \/ StartLine \/ RequestDarkMode \/ CliUnblock \/ RetryStage
  \/ \E q \in Questions, choice \in {"primary", "secondary"} : Resolve(q, choice)
  \/ \E p \in 1..MaxPrs : SetPullRequest(p)
  \/ \E command \in Commands : CancelQueued(command)
  \/ \E r \in runs : CancelByJob(r)

Machinist ==
  \E r \in runs : SubmitRun(r) \/ OpenPr(r) \/ \E result \in Results : CompleteRun(r, result)

Scheduled ==
  \/ \E r \in runs : OnRunCompleted(r)
  \/ Evaluate \/ Unblock
  \/ \E p \in mergeCalls : ScheduledMergeReport(p)

GitHub ==
  \/ GateMoved \/ OnIssueOpened \/ OnRelease
  \/ \E p \in 1..MaxPrs : MergePr(p) \/ WebhookReportsMerge(p)

Bridge == RunEffect \/ BridgeRestarts \/ \E p \in 1..MaxPrs : BridgeReportsMerge(p)

Next == Operator \/ Machinist \/ Scheduled \/ GitHub \/ Bridge

Spec == Init /\ [][Next]_vars

(* Fairness, for an environment that keeps working: the scheduler runs every *)
(* call, the bridge and Machinist finish what they took, a labelled pull     *)
(* request is merged, the operator answers each decision.                    *)
Fairness ==
  /\ WF_vars(Machinist)
  /\ WF_vars(\E r \in runs : OnRunCompleted(r))
  /\ WF_vars(Evaluate)
  /\ WF_vars(Unblock)
  /\ WF_vars(\E p \in mergeCalls : ScheduledMergeReport(p))
  /\ WF_vars(RunEffect)
  /\ WF_vars(\E p \in 1..MaxPrs : MergePr(p))
  /\ WF_vars(\E p \in 1..MaxPrs : BridgeReportsMerge(p))
  /\ WF_vars(\E q \in Questions : Resolve(q, "primary"))

FairSpec == Spec /\ Fairness

-----------------------------------------------------------------------------
(* Properties *)

(* Every variable holds what its table row, queue or counter can hold. *)
TypeOK ==
  /\ stage \in Stages /\ hasRepo \in BOOLEAN /\ phaseIssues \in BOOLEAN
  /\ phaseIndex \in 0..NumPhases - 1 /\ currentPr \in 0..opened
  /\ repairRound \in 0..MaxRepairRounds /\ assessed \in BOOLEAN
  /\ runs \subseteq Run
  /\ effects \in Seq(Effect)
  /\ decisions \in [Questions -> Nat]
  /\ evals \in Nat /\ unblocks \in Nat /\ mergeCalls \subseteq merged
  /\ opened \in 0..MaxPrs /\ merged \subseteq 1..opened /\ labelled \subseteq 0..MaxPrs
  /\ reported \subseteq merged
  /\ phasePr \in [0..NumPhases - 1 -> 0..MaxPrs] /\ delivered \in BOOLEAN
  /\ faults \in 0..MaxFaults

(* The pull requests that closed the phases before the current one. *)
Closed == {phasePr[k] : k \in 0..phaseIndex - 1}

(* However often GitHub and the bridge report it, in whatever order, and     *)
(* whatever the operator lifts in between, the merge of one pull request     *)
(* closes at most one phase (onPullRequestMerged).                           *)
MergeCountedOnce ==
  /\ Closed \subseteq merged
  /\ currentPr \notin Closed
  /\ \A j, k \in 0..phaseIndex - 1 : phasePr[j] = phasePr[k] => j = k

(* The assessment, and everything after it, comes only after every phase's   *)
(* own pull request merged.                                                  *)
AssessedAfterEveryPhase ==
  stage \in {"ASSESS", "DEPLOY_DEV", "MAINTAIN"} \/ assessed =>
    /\ phaseIndex = NumPhases - 1
    /\ phasePr[phaseIndex] \in merged \ Closed

(* No automatic step lifts a stop: a project leaves NEEDS_HUMAN only by the  *)
(* operator's unblock, or by a retry or a corrected pull request from the    *)
(* CLI; a merge report, a late run or a verdict leaves it stopped.           *)
StopLiftedByOperator ==
  [][stage = "NEEDS_HUMAN" /\ stage' # "NEEDS_HUMAN" =>
       unblocks' < unblocks \/ RetryStage \/ \E p \in 1..MaxPrs : SetPullRequest(p)]_vars

(* One foreman at a time builds the current phase, and it builds that phase: *)
(* retries, repeated unblocks and repeated merge reports never start a       *)
(* second one.                                                               *)
BuildRuns == {r \in runs : r.stage = "BUILD" /\ Unfinished(r)}
OneForemanPerPhase ==
  /\ \A r, other \in BuildRuns : r = other
  /\ \A r \in BuildRuns : r.ref = phaseIndex

MergeReportDue == currentPr \in merged \ reported /\ stage \in {"REVIEW_LOOP", "NEEDS_HUMAN"}

(* A stop in BUILD lifted into a review: unblock re-ran a late repair run's  *)
(* row, which is newer than the foreman that stopped.                        *)
ReviewsNothing == stage = "REVIEW_LOOP" /\ currentPr = NoPr

(* A line that is not at rest has something in flight that will move it, or  *)
(* an open decision the operator can see, unless it reviews nothing.         *)
NeverSilentlyStalled ==
  \/ stage \in {"DRAFT", "MAINTAIN", "NEEDS_HUMAN"}
  \/ \E r \in runs : Unfinished(r)
  \/ evals > 0 \/ unblocks > 0 \/ mergeCalls # {} \/ effects # <<>>
  \/ MergeReportDue
  \/ AnyOpen
  \/ ReviewsNothing

(* A stopped project shows the operator a decision to act on, or the         *)
(* operator's answer is on its way.                                          *)
StoppedIsActionable == stage = "NEEDS_HUMAN" => AnyOpen \/ unblocks > 0

(* At most one auto-merge label is queued, and none while a shepherd is in   *)
(* flight, however many evaluations a burst of webhooks schedules.           *)
OneLabelPerVerdict ==
  /\ \A i, j \in DOMAIN effects :
       effects[i].kind = "apply-label" /\ effects[j].kind = "apply-label" => i = j
  /\ LabelPending => ~\E r \in runs : r.command = "shepherd" /\ Live(r)

(* A decision approved for one pull request labels that pull request. *)
ApprovalIsForItsPr ==
  [][\A q \in Questions :
       q.kind = "apply-auto-merge" /\ decisions'[q] < decisions[q] /\ Len(effects') > Len(effects)
         => effects'[Len(effects')].pr = q.pr]_vars

(* The bridge reports a merge once; the report was consumed while the project *)
(* was elsewhere, and the pull request is under review again.                 *)
MergeReportLost == stage = "REVIEW_LOOP" /\ currentPr \in reported \ mergeCalls

(* A line that was started reaches maintenance, unless a merge report is      *)
(* lost, an unblock sends it to review nothing, or accepted findings leave it *)
(* stopped with no decision: no failed run, verdict, restart or order of the  *)
(* calls leaves it stuck anywhere else.                                       *)
LineDelivers ==
  stage = "GENESIS" ~>
    stage = "MAINTAIN" \/ MergeReportLost \/ ReviewsNothing \/ ~StoppedIsActionable
=============================================================================
