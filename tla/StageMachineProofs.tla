-------------------------- MODULE StageMachineProofs --------------------------
(***************************************************************************)
(* Theorems about StageMachine for every value of its constants.           *)
(*                                                                         *)
(* TypeOK is not inductive: a foreman hands over the pull request its row  *)
(* carries, so the rows must carry opened pull requests only (RowsOpened). *)
(* MergeInv follows a pull request from its foreman to the phase it closes,*)
(* and LineInv what the project and each row presuppose: from them follow  *)
(* the order of the line, its one foreman and the refinement.  StopInv,    *)
(* MovesInv and LabelInv are about what is open, in flight and queued.     *)
(***************************************************************************)
EXTENDS StageMachineRefinement, TLAPS

RowsOpened == \A r \in runs : r.pr <= opened
TypeInv == TypeOK /\ RowsOpened

-----------------------------------------------------------------------------
(* What the shared writes do to the rows *)

(* A new row is well formed, carries no pull request, and joins those kept. *)
LEMMA EnqueueBesideRows ==
  ASSUME NEW kept \in SUBSET Run, NEW s \in Stages, NEW command \in Commands,
         NEW ref \in Nat, NEW attempt \in 1..2,
         EnqueueBeside(kept, s, command, ref, attempt)
  PROVE  /\ runs' \subseteq Run
         /\ \A r \in runs' : r \in kept \/ r.pr = NoPr
<1>1. PICK id \in 1..MaxRuns :
        runs' = kept \cup {[id |-> id, stage |-> s, command |-> command, state |-> "queued",
                            attempt |-> attempt, ref |-> ref, result |-> "ok", pr |-> NoPr]}
  BY DEF EnqueueBeside
<1> DEFINE new == [id |-> id, stage |-> s, command |-> command, state |-> "queued",
                   attempt |-> attempt, ref |-> ref, result |-> "ok", pr |-> NoPr]
<1>2. new \in Run
  BY BoundsAssumption DEF Run, Results, NoPr
<1>3. new.pr = NoPr
  OBVIOUS
<1> QED
  BY <1>1, <1>2, <1>3

LEMMA EnqueueRows ==
  ASSUME runs \subseteq Run, NEW s \in Stages, NEW command \in Commands,
         NEW ref \in Nat, NEW attempt \in 1..2,
         Enqueue(s, command, ref, attempt)
  PROVE  /\ runs' \subseteq Run
         /\ \A r \in runs' : r \in runs \/ r.pr = NoPr
<1> DEFINE kept == {r \in runs : Unfinished(r)}
<1>1. kept \in SUBSET Run /\ EnqueueBeside(kept, s, command, ref, attempt)
  BY DEF Enqueue
<1>2. /\ runs' \subseteq Run
      /\ \A r \in runs' : r \in kept \/ r.pr = NoPr
  BY <1>1, EnqueueBesideRows
<1> QED
  BY <1>2

LEMMA CloseAndEnqueueRows ==
  ASSUME runs \subseteq Run, NEW old \in runs, NEW s \in Stages, NEW command \in Commands,
         NEW ref \in Nat, NEW attempt \in 1..2,
         CloseAndEnqueue(old, s, command, ref, attempt)
  PROVE  /\ runs' \subseteq Run
         /\ \A r \in runs' : r \in runs \ {old} \/ r.pr = NoPr
<1> DEFINE kept == {r \in runs : Unfinished(r)} \ {old}
<1>1. kept \in SUBSET Run /\ EnqueueBeside(kept, s, command, ref, attempt)
  BY DEF CloseAndEnqueue
<1>2. /\ runs' \subseteq Run
      /\ \A r \in runs' : r \in kept \/ r.pr = NoPr
  BY <1>1, EnqueueBesideRows
<1> QED
  BY <1>2

(* A closed row keeps its pull request and is no longer unfinished. *)
LEMMA CloseRows ==
  ASSUME runs \subseteq Run, NEW old \in runs, Close(old)
  PROVE  /\ runs' \subseteq Run
         /\ \A r \in runs' : r \in runs \ {old} \/ (r.pr = old.pr /\ ~Unfinished(r))
<1> DEFINE new == [old EXCEPT !.state = "closed"]
<1>1. new \in Run /\ new.pr = old.pr /\ ~Unfinished(new)
  BY DEF Run, Unfinished
<1>2. runs' = (runs \ {old}) \cup {new}
  BY DEF Close, Update
<1> QED
  BY <1>1, <1>2

(* A row that is submitted, opens its pull request, or ends is still a row. *)
LEMMA SubmittedRow ==
  ASSUME NEW r \in Run
  PROVE  /\ [r EXCEPT !.state = "running"] \in Run
         /\ [r EXCEPT !.state = "running"].pr = r.pr
  BY DEF Run

LEMMA OpenedRow ==
  ASSUME NEW r \in Run, NEW pr \in 0..MaxPrs
  PROVE  /\ [r EXCEPT !.pr = pr] \in Run
         /\ [r EXCEPT !.pr = pr].pr = pr
  BY DEF Run

LEMMA EndedRow ==
  ASSUME NEW r \in Run, NEW result \in Results, NEW pr \in 0..MaxPrs
  PROVE  /\ [r EXCEPT !.state = "ended", !.result = result, !.pr = pr] \in Run
         /\ [r EXCEPT !.state = "ended", !.result = result, !.pr = pr].pr = pr
  BY DEF Run

LEMMA UpdateRows ==
  ASSUME runs \subseteq Run, NEW old \in runs, NEW new \in Run, Update(old, new)
  PROVE  /\ runs' \subseteq Run
         /\ \A r \in runs' : r \in runs \ {old} \/ r = new
  BY DEF Update

-----------------------------------------------------------------------------
(* What the shared writes do to the decisions *)

LEMMA OpenDecisionType ==
  ASSUME decisions \in [Questions -> Nat], NEW kind \in Kinds, NEW pr \in 0..MaxPrs,
         OpenDecision(kind, pr)
  PROVE  decisions' \in [Questions -> Nat]
<1> DEFINE q == [kind |-> kind, pr |-> pr]
<1>1. q \in Questions
  BY DEF Questions
<1>2. decisions' = [decisions EXCEPT ![q] = decisions[q] + 1]
  BY DEF OpenDecision
<1>3. decisions[q] + 1 \in Nat
  BY <1>1
<1> HIDE DEF q
<1> QED
  BY <1>2, <1>3

LEMMA ResolveUnblocksType ==
  ASSUME decisions \in [Questions -> Nat], ResolveUnblocks
  PROVE  decisions' \in [Questions -> Nat]
<1>1. \A q \in Questions : (IF q.kind = "unblock" THEN 0 ELSE decisions[q]) \in Nat
  OBVIOUS
<1> QED
  BY <1>1, Zenon DEF ResolveUnblocks

LEMMA InsertEffectType ==
  ASSUME effects \in Seq(Effect), NEW pr \in 0..MaxPrs,
         NEW kind \in {"register-repository", "create-phase-issues", "apply-label", "comment"},
         InsertEffect(kind, pr)
  PROVE  effects' \in Seq(Effect)
<1> DEFINE new == [kind |-> kind, pr |-> pr]
<1>1. new \in Effect
  BY DEF Effect
<1>2. effects' = Append(effects, new)
  BY DEF InsertEffect
<1> HIDE DEF new
<1> QED
  BY <1>1, <1>2

LEMMA SpendFaultType ==
  ASSUME faults \in 0..MaxFaults, NEW isFault \in BOOLEAN, SpendFault(isFault)
  PROVE  faults' \in 0..MaxFaults
  BY BoundsAssumption DEF SpendFault

-----------------------------------------------------------------------------
(* Type correctness *)

LEMMA NoRowsAtFirst == Init => TypeInv
  BY BoundsAssumption
     DEF Init, TypeInv, TypeOK, RowsOpened, Stages, Questions, Effect, NoPr

USE DEF NoPr

LEMMA OperatorType == ASSUME TypeInv, Operator PROVE TypeInv'
<1> USE DEF TypeInv, TypeOK, RowsOpened
<1>1. CASE StartLine
  <2>1. runs' \subseteq Run /\ \A r \in runs' : r \in runs \/ r.pr = NoPr
    BY <1>1, EnqueueRows DEF StartLine, Stages, Commands
  <2> QED
    BY <1>1, <2>1 DEF StartLine, scheduler, github, history, Stages
<1>2. CASE RequestDarkMode
  <2>1. decisions' \in [Questions -> Nat]
    BY <1>2, OpenDecisionType, BoundsAssumption DEF RequestDarkMode, Kinds
  <2>2. faults' \in 0..MaxFaults
    BY <1>2, SpendFaultType DEF RequestDarkMode
  <2> QED
    BY <1>2, <2>1, <2>2 DEF RequestDarkMode, project, scheduler, github, history
<1>3. CASE CliUnblock
  BY <1>3 DEF CliUnblock, project, github, history
<1>4. CASE RetryStage
  <2>1. PICK last \in runs : Rerun(last)
    BY <1>4 DEF RetryStage
  <2>2. /\ last.stage \in Stages /\ last.command \in Commands /\ last.ref \in Nat
        /\ Enqueue(last.stage, last.command, last.ref, 1)
    BY <2>1 DEF Rerun, Run
  <2>3. runs' \subseteq Run /\ \A r \in runs' : r \in runs \/ r.pr = NoPr
    BY <2>2, EnqueueRows
  <2>4. decisions' \in [Questions -> Nat] /\ stage' \in Stages
    BY <2>1, <2>2, ResolveUnblocksType DEF Rerun
  <2>5. faults' \in 0..MaxFaults
    BY <1>4, SpendFaultType DEF RetryStage
  <2> QED
    BY <1>4, <2>3, <2>4, <2>5 DEF RetryStage, scheduler, github, history
<1>5. ASSUME NEW q \in Questions, NEW choice \in {"primary", "secondary"}, Resolve(q, choice)
      PROVE TypeInv'
  <2>1. decisions' \in [Questions -> Nat]
    <3>1. decisions' = [decisions EXCEPT ![q] = decisions[q] - 1] /\ decisions[q] > 0
      BY <1>5 DEF Resolve
    <3> QED
      BY <3>1
  <2>2. effects' \in Seq(Effect)
    <3>1. currentPr \in 0..MaxPrs
      BY BoundsAssumption
    <3> QED
      BY <1>5, <3>1, InsertEffectType DEF Resolve
  <2>3. stage' \in Stages /\ unblocks' \in Nat
    BY <1>5 DEF Resolve, Stages
  <2> QED
    BY <1>5, <2>1, <2>2, <2>3 DEF Resolve, github, history
<1>6. ASSUME NEW p \in 1..MaxPrs, SetPullRequest(p) PROVE TypeInv'
  BY <1>6, BoundsAssumption DEF SetPullRequest, SpendFault, scheduler, github, history, Stages
<1>7. ASSUME NEW command \in Commands, CancelQueued(command) PROVE TypeInv'
  <2>1. \A r \in runs : [r EXCEPT !.state = "closed"] \in Run
                         /\ [r EXCEPT !.state = "closed"].pr = r.pr
    BY DEF Run
  <2>2. runs' \subseteq Run /\ \A r \in runs' : r.pr <= opened
    BY <1>7, <2>1 DEF CancelQueued
  <2> QED
    BY <1>7, <2>2 DEF CancelQueued, project, scheduler, github, history
<1>8. ASSUME NEW r \in runs, CancelByJob(r) PROVE TypeInv'
  <2>1. runs' \subseteq Run /\ \A row \in runs' : row \in runs \ {r} \/ row.pr = r.pr
    BY <1>8, CloseRows DEF CancelByJob
  <2> QED
    BY <1>8, <2>1 DEF CancelByJob, project, scheduler, github, history
<1> QED
  BY <1>1, <1>2, <1>3, <1>4, <1>5, <1>6, <1>7, <1>8 DEF Operator

LEMMA MachinistType == ASSUME TypeInv, Machinist PROVE TypeInv'
<1>1. runs \subseteq Run /\ faults \in 0..MaxFaults /\ opened \in 0..MaxPrs /\ NoPr \in 0..MaxPrs
  BY BoundsAssumption DEF TypeInv, TypeOK
<1>2. ASSUME NEW r \in runs, SubmitRun(r) PROVE TypeInv'
  <2>1. runs' \subseteq Run /\ \A row \in runs' : row \in runs \/ row.pr = r.pr
    BY <1>1, <1>2, SubmittedRow, UpdateRows DEF SubmitRun
  <2> QED
    BY <1>2, <2>1
       DEF SubmitRun, TypeInv, TypeOK, RowsOpened, project, scheduler, github, history
<1>3. ASSUME NEW r \in runs, OpenPr(r) PROVE TypeInv'
  <2>1. opened + 1 \in 0..MaxPrs
    BY <1>1, <1>3, BoundsAssumption DEF OpenPr
  <2> DEFINE new == [r EXCEPT !.pr = opened + 1]
  <2>2. new \in Run /\ new.pr = opened + 1
    BY <1>1, <2>1, OpenedRow
  <2>3. Update(r, new)
    BY <1>3 DEF OpenPr
  <2> HIDE DEF new
  <2>4. runs' \subseteq Run /\ \A row \in runs' : row \in runs \/ row.pr = opened + 1
    BY <1>1, <2>2, <2>3, UpdateRows
  <2>5. RowsOpened'
    BY <1>1, <1>3, <2>4 DEF OpenPr, TypeInv, RowsOpened, Run
  <2>6. opened' \in 0..MaxPrs /\ currentPr' \in 0..opened' /\ merged' \subseteq 1..opened'
    BY <1>1, <1>3, <2>1 DEF OpenPr, TypeInv, TypeOK, project
  <2> QED
    BY <1>3, <2>4, <2>5, <2>6 DEF OpenPr, TypeInv, TypeOK, project, scheduler, history
<1>4. ASSUME NEW r \in runs, NEW result \in Results, CompleteRun(r, result) PROVE TypeInv'
  <2>1. PICK pr \in {r.pr} \cup {lost \in {NoPr} : "pr-lost" \in Happens} :
          Update(r, [r EXCEPT !.state = "ended", !.result = result, !.pr = pr])
    BY <1>4 DEF CompleteRun
  <2>2. pr \in {r.pr, NoPr} /\ pr \in 0..MaxPrs
    BY <1>1 DEF Run
  <2> DEFINE new == [r EXCEPT !.state = "ended", !.result = result, !.pr = pr]
  <2>3. new \in Run /\ new.pr = pr
    BY <1>1, <2>2, EndedRow
  <2>4. Update(r, new)
    BY <2>1
  <2> HIDE DEF new
  <2>5. runs' \subseteq Run /\ \A row \in runs' : row \in runs \/ row.pr \in {r.pr, NoPr}
    BY <1>1, <2>2, <2>3, <2>4, UpdateRows
  <2>6. faults' \in 0..MaxFaults
    BY <1>1, <1>4, SpendFaultType DEF CompleteRun
  <2> QED
    BY <1>4, <2>5, <2>6
       DEF CompleteRun, TypeInv, TypeOK, RowsOpened, project, scheduler, github, history
<1> QED
  BY <1>2, <1>3, <1>4 DEF Machinist

(* One branch of onRunCompleted after another: what each writes is well typed. *)
LEMMA OnRunCompletedType ==
  ASSUME TypeInv, NEW r \in runs, OnRunCompleted(r)
  PROVE  TypeInv'
<1> DEFINE RowsOK == runs' \subseteq Run /\ \A row \in runs' : row \in runs \/ row.pr \in {NoPr, r.pr}
           WritesOK == /\ stage' \in Stages /\ hasRepo' \in BOOLEAN /\ currentPr' \in 0..opened
                       /\ repairRound' \in 0..MaxRepairRounds /\ assessed' \in BOOLEAN
                       /\ effects' \in Seq(Effect) /\ decisions' \in [Questions -> Nat]
                       /\ evals' \in Nat /\ delivered' \in BOOLEAN
<1>1. /\ runs \subseteq Run /\ r \in Run /\ r.pr \in 0..opened /\ currentPr \in 0..MaxPrs
      /\ NoPr \in 0..MaxPrs /\ decisions \in [Questions -> Nat] /\ effects \in Seq(Effect)
      /\ r.stage \in Stages /\ r.command \in Commands /\ r.ref \in Nat /\ r.attempt \in 1..2
  BY BoundsAssumption DEF TypeInv, TypeOK, RowsOpened, Run
<1>2. Close(r) => RowsOK
  BY <1>1, CloseRows
<1>3. \A s \in Stages, command \in Commands, ref \in Nat, attempt \in 1..2 :
        CloseAndEnqueue(r, s, command, ref, attempt) => RowsOK
  BY <1>1, CloseAndEnqueueRows
<1>4. \A kind \in Kinds : Stop(kind) => stage' \in Stages /\ decisions' \in [Questions -> Nat]
  BY <1>1, OpenDecisionType DEF Stop, Stages
<1>5. RowsOK /\ WritesOK
  <2> SUFFICES ASSUME StaleRun(r) \/ RetryRun(r) \/ StopOnFailure(r) \/ GenesisDone(r) \/ HandedOff(r)
                        \/ RepairNeedsHuman(r) \/ RepairDone(r) \/ AssessPassed(r)
                        \/ AssessFoundFindings(r) \/ DeployDone(r) \/ Triaged(r)
               PROVE  RowsOK /\ WritesOK
    BY DEF OnRunCompleted
  <2>1. CASE StaleRun(r)
    BY <1>1, <1>2, <2>1 DEF StaleRun, TypeInv, TypeOK
  <2>2. CASE RetryRun(r)
    <3>1. r.attempt + 1 \in 1..2
      BY <1>1, <2>2 DEF RetryRun
    <3>2. RowsOK
      BY <1>1, <1>3, <2>2, <3>1 DEF RetryRun
    <3> QED
      BY <2>2, <3>2 DEF RetryRun, TypeInv, TypeOK
  <2>3. CASE StopOnFailure(r)
    BY <1>2, <1>4, <2>3 DEF StopOnFailure, Kinds, TypeInv, TypeOK
  <2>4. CASE GenesisDone(r)
    BY <1>1, <1>2, <2>4, InsertEffectType DEF GenesisDone, Stages, TypeInv, TypeOK
  <2>5. CASE HandedOff(r)
    BY <1>1, <1>2, <2>5, BoundsAssumption DEF HandedOff, Stages, TypeInv, TypeOK
  <2>6. CASE RepairNeedsHuman(r)
    BY <1>2, <1>4, <2>6 DEF RepairNeedsHuman, Kinds, TypeInv, TypeOK
  <2>7. CASE RepairDone(r)
    BY <1>2, <2>7 DEF RepairDone, TypeInv, TypeOK
  <2>8. CASE AssessPassed(r)
    BY <1>3, <2>8 DEF AssessPassed, Stages, Commands, TypeInv, TypeOK
  <2>9. CASE AssessFoundFindings(r)
    BY <1>2, <1>4, <2>9 DEF AssessFoundFindings, Kinds, TypeInv, TypeOK
  <2>10. CASE DeployDone(r)
    BY <1>2, <2>10 DEF DeployDone, Stages, TypeInv, TypeOK
  <2>11. CASE Triaged(r)
    BY <1>2, <1>3, <2>11 DEF Triaged, Stages, Commands, TypeInv, TypeOK
  <2> QED
    BY <2>1, <2>2, <2>3, <2>4, <2>5, <2>6, <2>7, <2>8, <2>9, <2>10, <2>11
<1>6. UNCHANGED <<phaseIssues, phaseIndex, unblocks, mergeCalls, opened, merged, labelled, reported,
                  phasePr, faults>>
  BY DEF OnRunCompleted, github
<1>7. RowsOpened'
  BY <1>1, <1>5, <1>6 DEF TypeInv, TypeOK, RowsOpened
<1> QED
  BY <1>5, <1>6, <1>7 DEF TypeInv, TypeOK

LEMMA EvaluateType == ASSUME TypeInv, Evaluate PROVE TypeInv'
<1>1. /\ runs \subseteq Run /\ currentPr \in 0..MaxPrs /\ currentPr \in Nat
      /\ decisions \in [Questions -> Nat] /\ effects \in Seq(Effect) /\ faults \in 0..MaxFaults
  BY BoundsAssumption DEF TypeInv, TypeOK
<1>2. /\ stage' \in Stages /\ repairRound' \in 0..MaxRepairRounds /\ runs' \subseteq Run
      /\ \A r \in runs' : r \in runs \/ r.pr = NoPr
      /\ effects' \in Seq(Effect) /\ decisions' \in [Questions -> Nat] /\ faults' \in 0..MaxFaults
  <2> SUFFICES ASSUME EvaluateNothing \/ EvaluateStalled \/ EvaluatePassDark \/ EvaluatePassGray
                        \/ EvaluateRepair \/ EvaluateCapReached
               PROVE  /\ stage' \in Stages /\ repairRound' \in 0..MaxRepairRounds /\ runs' \subseteq Run
                      /\ \A r \in runs' : r \in runs \/ r.pr = NoPr
                      /\ effects' \in Seq(Effect) /\ decisions' \in [Questions -> Nat]
                      /\ faults' \in 0..MaxFaults
    BY DEF Evaluate
  <2>1. CASE EvaluateNothing
    BY <1>1, <2>1 DEF EvaluateNothing, TypeInv, TypeOK
  <2>2. CASE EvaluateStalled
    BY <1>1, <2>2, OpenDecisionType DEF EvaluateStalled, Kinds, TypeInv, TypeOK
  <2>3. CASE EvaluatePassDark
    <3>1. faults' \in 0..MaxFaults
      BY <1>1, <2>3, BoundsAssumption DEF EvaluatePassDark, SpendFault
    <3>2. effects' \in Seq(Effect)
      BY <1>1, <2>3, InsertEffectType DEF EvaluatePassDark
    <3> QED
      BY <2>3, <3>1, <3>2 DEF EvaluatePassDark, TypeInv, TypeOK
  <2>4. CASE EvaluatePassGray
    BY <1>1, <2>4, OpenDecisionType, SpendFaultType DEF EvaluatePassGray, Kinds, TypeInv, TypeOK
  <2>5. CASE EvaluateRepair
    <3>1. runs' \subseteq Run /\ \A r \in runs' : r \in runs \/ r.pr = NoPr
      BY <1>1, <2>5, EnqueueRows DEF EvaluateRepair, Stages, Commands
    <3>2. repairRound' \in 0..MaxRepairRounds
      BY <2>5, BoundsAssumption DEF EvaluateRepair, TypeInv, TypeOK
    <3> QED
      BY <1>1, <2>5, <3>1, <3>2, SpendFaultType DEF EvaluateRepair, TypeInv, TypeOK
  <2>6. CASE EvaluateCapReached
    BY <1>1, <2>6, OpenDecisionType, SpendFaultType
       DEF EvaluateCapReached, Stop, Kinds, Stages, TypeInv, TypeOK
  <2> QED
    BY <2>1, <2>2, <2>3, <2>4, <2>5, <2>6
<1>3. evals' \in Nat
  BY DEF Evaluate, TypeInv, TypeOK
<1>4. UNCHANGED <<hasRepo, phaseIssues, phaseIndex, currentPr, assessed, unblocks, mergeCalls,
                  opened, merged, labelled, reported, phasePr, delivered>>
  BY DEF Evaluate, github, history
<1>5. RowsOpened'
  BY <1>2, <1>4 DEF TypeInv, TypeOK, RowsOpened
<1> QED
  BY <1>2, <1>3, <1>4, <1>5 DEF TypeInv, TypeOK

LEMMA UnblockType == ASSUME TypeInv, Unblock PROVE TypeInv'
<1>1. /\ stage' \in Stages /\ repairRound' \in 0..MaxRepairRounds /\ runs' \subseteq Run
      /\ \A r \in runs' : r \in runs \/ r.pr = NoPr
      /\ decisions' \in [Questions -> Nat] /\ evals' \in Nat
  <2>1. CASE UnblockIgnored
    BY <2>1 DEF UnblockIgnored, TypeInv, TypeOK
  <2>2. CASE UnblockToReview
    BY <2>2, ResolveUnblocksType, BoundsAssumption DEF UnblockToReview, Stages, TypeInv, TypeOK
  <2>3. CASE UnblockToRerun
    <3>1. PICK last \in runs : Rerun(last)
      BY <2>3 DEF UnblockToRerun
    <3>2. runs \subseteq Run /\ last \in Run
      BY DEF TypeInv, TypeOK
    <3>3. last.stage \in Stages /\ last.command \in Commands /\ last.ref \in Nat
      BY <3>2 DEF Run
    <3>4. runs' \subseteq Run /\ \A r \in runs' : r \in runs \/ r.pr = NoPr
      BY <3>1, <3>2, <3>3, EnqueueRows DEF Rerun
    <3>5. decisions' \in [Questions -> Nat] /\ stage' \in Stages
      BY <3>1, <3>3, ResolveUnblocksType DEF Rerun, TypeInv, TypeOK
    <3> QED
      BY <2>3, <3>4, <3>5 DEF UnblockToRerun, TypeInv, TypeOK
  <2> QED
    BY <2>1, <2>2, <2>3 DEF Unblock
<1>2. unblocks' \in Nat
  BY DEF Unblock, TypeInv, TypeOK
<1>3. UNCHANGED <<hasRepo, phaseIssues, phaseIndex, currentPr, assessed, effects, mergeCalls, opened,
                  merged, labelled, reported, phasePr, delivered, faults>>
  BY DEF Unblock, github, history
<1>4. RowsOpened'
  BY <1>1, <1>3 DEF TypeInv, TypeOK, RowsOpened
<1> QED
  BY <1>1, <1>2, <1>3, <1>4 DEF TypeInv, TypeOK

LEMMA OnPullRequestMergedType ==
  ASSUME TypeInv, NEW p \in 1..MaxPrs, OnPullRequestMerged(p), mergeCalls' \subseteq merged
  PROVE  TypeInv'
<1>1. runs \subseteq Run /\ currentPr \in 0..opened /\ phaseIndex \in 0..NumPhases - 1
  BY DEF TypeInv, TypeOK
<1>2. /\ stage' \in Stages /\ phaseIndex' \in 0..NumPhases - 1 /\ currentPr' \in 0..opened
      /\ phasePr' \in [0..NumPhases - 1 -> 0..MaxPrs] /\ runs' \subseteq Run
      /\ \A r \in runs' : r \in runs \/ r.pr = NoPr
  <2>1. CASE MergeIgnored(p)
    BY <2>1 DEF MergeIgnored, TypeInv, TypeOK
  <2>2. CASE NextPhase(p)
    <3>1. phaseIndex + 1 \in 0..NumPhases - 1 /\ phaseIndex + 1 \in Nat
      BY <1>1, <2>2, BoundsAssumption DEF NextPhase, MorePhases
    <3>2. runs' \subseteq Run /\ \A r \in runs' : r \in runs \/ r.pr = NoPr
      BY <1>1, <2>2, <3>1, EnqueueRows DEF NextPhase, Stages, Commands
    <3> QED
      BY <2>2, <3>1, <3>2, BoundsAssumption DEF NextPhase, ClosesPhase, Stages, TypeInv, TypeOK
  <2>3. CASE LastPhaseMerged(p)
    <3>1. runs' \subseteq Run /\ \A r \in runs' : r \in runs \/ r.pr = NoPr
      BY <1>1, <2>3, EnqueueRows DEF LastPhaseMerged, Stages, Commands
    <3> QED
      BY <2>3, <3>1, BoundsAssumption DEF LastPhaseMerged, ClosesPhase, Stages, TypeInv, TypeOK
  <2>4. CASE MaintenanceMerged(p)
    BY <1>1, <2>4, BoundsAssumption DEF MaintenanceMerged, Stages, TypeInv, TypeOK
  <2> QED
    BY <2>1, <2>2, <2>3, <2>4 DEF OnPullRequestMerged
<1>3. UNCHANGED <<hasRepo, phaseIssues, repairRound, assessed, effects, decisions, evals, unblocks,
                  opened, merged, labelled, reported, delivered, faults>>
  BY DEF OnPullRequestMerged, github
<1>4. RowsOpened'
  BY <1>2, <1>3 DEF TypeInv, TypeOK, RowsOpened
<1> QED
  BY <1>2, <1>3, <1>4 DEF TypeInv, TypeOK

LEMMA ScheduledType == ASSUME TypeInv, Scheduled PROVE TypeInv'
<1>1. ASSUME NEW p \in mergeCalls, ScheduledMergeReport(p) PROVE TypeInv'
  <2>1. p \in 1..MaxPrs /\ mergeCalls' \subseteq merged
    BY <1>1, BoundsAssumption DEF ScheduledMergeReport, TypeInv, TypeOK
  <2> QED
    BY <1>1, <2>1, OnPullRequestMergedType DEF ScheduledMergeReport
<1> QED
  BY <1>1, OnRunCompletedType, EvaluateType, UnblockType DEF Scheduled

LEMMA GitHubType == ASSUME TypeInv, GitHub PROVE TypeInv'
<1>1. CASE GateMoved
  BY <1>1 DEF GateMoved, project, github, history, TypeInv, TypeOK, RowsOpened
<1>2. CASE OnIssueOpened
  <2>1. runs' \subseteq Run /\ \A r \in runs' : r \in runs \/ r.pr = NoPr
    BY <1>2, EnqueueRows DEF OnIssueOpened, TypeInv, TypeOK, Stages, Commands
  <2>2. faults' \in 0..MaxFaults
    BY <1>2, SpendFaultType DEF OnIssueOpened, TypeInv, TypeOK
  <2> QED
    BY <1>2, <2>1, <2>2
       DEF OnIssueOpened, project, scheduler, github, history, TypeInv, TypeOK, RowsOpened
<1>3. CASE OnRelease
  <2>1. runs' \subseteq Run /\ \A r \in runs' : r \in runs \/ r.pr = NoPr
    BY <1>3, EnqueueRows DEF OnRelease, TypeInv, TypeOK, Stages, Commands
  <2>2. faults' \in 0..MaxFaults
    BY <1>3, SpendFaultType DEF OnRelease, TypeInv, TypeOK
  <2> QED
    BY <1>3, <2>1, <2>2
       DEF OnRelease, scheduler, github, history, Stages, TypeInv, TypeOK, RowsOpened
<1>4. ASSUME NEW p \in 1..MaxPrs, MergePr(p) PROVE TypeInv'
  BY <1>4 DEF MergePr, project, scheduler, history, TypeInv, TypeOK, RowsOpened
<1>5. ASSUME NEW p \in 1..MaxPrs, WebhookReportsMerge(p) PROVE TypeInv'
  BY <1>5, OnPullRequestMergedType DEF WebhookReportsMerge, TypeInv, TypeOK
<1> QED
  BY <1>1, <1>2, <1>3, <1>4, <1>5 DEF GitHub

LEMMA RunEffectType == ASSUME TypeInv, RunEffect PROVE TypeInv'
<1>1. runs \subseteq Run /\ effects \in Seq(Effect) /\ currentPr \in Nat /\ NoPr \in 0..MaxPrs
  BY BoundsAssumption DEF TypeInv, TypeOK
<1>2. /\ runs' \subseteq Run /\ \A r \in runs' : r \in runs \/ r.pr = NoPr
      /\ effects' \in Seq(Effect) /\ labelled' \subseteq 0..MaxPrs /\ phaseIssues' \in BOOLEAN
      /\ phaseIndex' \in 0..NumPhases - 1 /\ faults' \in 0..MaxFaults
  <2>1. CASE LabelApplied
    <3>1. runs' \subseteq Run /\ \A r \in runs' : r \in runs \/ r.pr = NoPr
      BY <1>1, <2>1, EnqueueRows DEF LabelApplied, Stages, Commands
    <3>2. Head(effects) \in Effect /\ effects' \in Seq(Effect)
      BY <1>1, <2>1 DEF LabelApplied, TakeEffect
    <3>3. Head(effects).pr \in 0..MaxPrs
      BY <3>2 DEF Effect
    <3> QED
      BY <2>1, <3>1, <3>2, <3>3 DEF LabelApplied, TypeInv, TypeOK
  <2>2. CASE RepositoryRegistered
    <3> DEFINE next == [kind |-> "create-phase-issues", pr |-> NoPr]
    <3>1. next \in Effect
      BY <1>1 DEF Effect
    <3>2. effects # <<>> /\ effects' = Append(Tail(effects), next)
      BY <2>2 DEF RepositoryRegistered
    <3> HIDE DEF next
    <3>3. effects' \in Seq(Effect)
      BY <1>1, <3>1, <3>2
    <3> QED
      BY <2>2, <3>3 DEF RepositoryRegistered, TypeInv, TypeOK
  <2>3. CASE PhaseIssuesCreated
    <3>1. runs' \subseteq Run /\ \A r \in runs' : r \in runs \/ r.pr = NoPr
      BY <1>1, <2>3, EnqueueRows DEF PhaseIssuesCreated, Stages, Commands
    <3>2. effects' \in Seq(Effect)
      BY <1>1, <2>3 DEF PhaseIssuesCreated, TakeEffect
    <3> QED
      BY <2>3, <3>1, <3>2, BoundsAssumption DEF PhaseIssuesCreated, TypeInv, TypeOK
  <2>4. CASE CommentPosted
    <3>1. effects' \in Seq(Effect)
      BY <1>1, <2>4 DEF CommentPosted, TakeEffect
    <3> QED
      BY <2>4, <3>1 DEF CommentPosted, TypeInv, TypeOK
  <2>5. CASE EffectFailed
    <3>1. effects' \in Seq(Effect)
      BY <1>1, <2>5 DEF EffectFailed
    <3>2. faults' \in 0..MaxFaults
      BY <2>5, BoundsAssumption DEF EffectFailed, SpendFault, TypeInv, TypeOK
    <3> QED
      BY <2>5, <3>1, <3>2 DEF EffectFailed, TypeInv, TypeOK
  <2> QED
    BY <2>1, <2>2, <2>3, <2>4, <2>5 DEF RunEffect
<1>3. UNCHANGED <<stage, hasRepo, currentPr, repairRound, assessed, decisions, evals, unblocks,
                  mergeCalls, opened, merged, reported, phasePr, delivered>>
  BY DEF RunEffect, scheduler, history
<1>4. RowsOpened'
  BY <1>2, <1>3 DEF TypeInv, TypeOK, RowsOpened
<1> QED
  BY <1>2, <1>3, <1>4 DEF TypeInv, TypeOK

LEMMA BridgeType == ASSUME TypeInv, Bridge PROVE TypeInv'
<1>1. CASE BridgeRestarts
  BY <1>1 DEF BridgeRestarts, project, scheduler, github, history, TypeInv, TypeOK, RowsOpened
<1>2. ASSUME NEW p \in 1..MaxPrs, BridgeReportsMerge(p) PROVE TypeInv'
  BY <1>2 DEF BridgeReportsMerge, project, github, history, TypeInv, TypeOK, RowsOpened
<1> QED
  BY <1>1, <1>2, RunEffectType DEF Bridge

LEMMA TypeInvInductive == ASSUME TypeInv, [Next]_vars PROVE TypeInv'
<1>1. CASE UNCHANGED vars
  BY <1>1 DEF vars, project, scheduler, github, history, TypeInv, TypeOK, RowsOpened
<1> QED
  BY <1>1, OperatorType, MachinistType, ScheduledType, GitHubType, BridgeType DEF Next

(* Every reachable state is well typed, whatever the number of phases, repair *)
(* rounds, runs, pull requests and faults.                                    *)
THEOREM TypeCorrect == Spec => []TypeOK
<1>1. Spec => []TypeInv
  BY NoRowsAtFirst, TypeInvInductive, PTL DEF Spec
<1>2. TypeInv => TypeOK
  BY DEF TypeInv
<1> QED
  BY <1>1, <1>2, PTL

-----------------------------------------------------------------------------
(* A stop is lifted by the operator *)

(* Every handler of a completed run finds a stopped project in a stage the run *)
(* does not have, so it is stale and leaves the stage alone.                   *)
LEMMA CompletionKeepsStop ==
  ASSUME NEW r, stage = "NEEDS_HUMAN", OnRunCompleted(r)
  PROVE  stage' = "NEEDS_HUMAN"
  BY DEF OnRunCompleted, StaleRun, RetryRun, StopOnFailure, GenesisDone, HandedOff, RepairNeedsHuman,
         RepairDone, AssessPassed, AssessFoundFindings, DeployDone, Triaged, Succeeded, Accepted,
         IsStale, Stop

LEMMA StopStep ==
  ASSUME TypeInv, Next, stage = "NEEDS_HUMAN", stage' # "NEEDS_HUMAN"
  PROVE  unblocks' < unblocks \/ RetryStage \/ \E p \in 1..MaxPrs : SetPullRequest(p)
<1>1. CASE Operator
  BY <1>1 DEF Operator, StartLine, RequestDarkMode, CliUnblock, Resolve, CancelQueued, CancelByJob, project
<1>2. CASE Machinist
  BY <1>2 DEF Machinist, SubmitRun, OpenPr, CompleteRun, project
<1>3. CASE Scheduled
  <2>1. ASSUME NEW r \in runs, OnRunCompleted(r) PROVE FALSE
    BY <2>1, CompletionKeepsStop
  <2>2. CASE Evaluate
    BY <2>2 DEF Evaluate, EvaluateNothing, EvaluateStalled, EvaluatePassDark, EvaluatePassGray,
                EvaluateRepair, EvaluateCapReached, Stop
  <2>3. CASE Unblock
    BY <2>3 DEF Unblock, TypeInv, TypeOK
  <2>4. ASSUME NEW p \in mergeCalls, ScheduledMergeReport(p) PROVE FALSE
    BY <2>4 DEF ScheduledMergeReport, OnPullRequestMerged, MergeIgnored, NextPhase, LastPhaseMerged,
                MaintenanceMerged, ClosesPhase
  <2> QED
    BY <1>3, <2>1, <2>2, <2>3, <2>4 DEF Scheduled
<1>4. CASE GitHub
  BY <1>4 DEF GitHub, GateMoved, OnIssueOpened, OnRelease, MergePr, WebhookReportsMerge,
              OnPullRequestMerged, MergeIgnored, NextPhase, LastPhaseMerged, MaintenanceMerged,
              ClosesPhase, project
<1>5. CASE Bridge
  BY <1>5 DEF Bridge, RunEffect, BridgeRestarts, BridgeReportsMerge, project
<1> QED
  BY <1>1, <1>2, <1>3, <1>4, <1>5 DEF Next

(* No completed run, verdict, effect or merge report ever lifts a stop: only  *)
(* the operator's unblock, retry or corrected pull request does.              *)
THEOREM StopIsLiftedByOperator == Spec => StopLiftedByOperator
<1>1. Spec => []TypeInv
  BY NoRowsAtFirst, TypeInvInductive, PTL DEF Spec
<1>2. TypeInv /\ [Next]_vars =>
        [stage = "NEEDS_HUMAN" /\ stage' # "NEEDS_HUMAN" =>
           unblocks' < unblocks \/ RetryStage \/ \E p \in 1..MaxPrs : SetPullRequest(p)]_vars
  BY StopStep
<1> QED
  BY <1>1, <1>2, PTL DEF Spec, StopLiftedByOperator

-----------------------------------------------------------------------------
(* A merge is counted once *)

(* MergeCountedOnce is not inductive either: a foreman whose completion is not *)
(* handled yet carries the pull request that comes under review next.  Such a  *)
(* pull request must not be one already counted, nor the one under review, nor *)
(* be carried by two rows.                                                     *)
Carries(r) == Unfinished(r) /\ r.pr # NoPr
CarriedOnce ==
  /\ \A r \in runs : Carries(r) => r.pr \notin Closed /\ r.pr # currentPr
  /\ \A r, other \in runs : Carries(r) /\ Carries(other) /\ r.pr = other.pr => r = other
MergeInv == MergeCountedOnce /\ CarriedOnce

(* The operator can point a project at a pull request a foreman is still       *)
(* carrying: two rows of the same pull request then await their merge.         *)
NoCorrections == "set-pr" \notin Happens

LEMMA NothingCountedAtFirst == Init => MergeInv
  BY DEF Init, MergeInv, MergeCountedOnce, CarriedOnce, Closed

(* A step that leaves the counting alone and lets no row carry a new pull      *)
(* request preserves the invariant.                                            *)
LEMMA CountingUntouched ==
  ASSUME MergeInv, UNCHANGED <<phaseIndex, phasePr, currentPr>>, merged \subseteq merged',
         \A r \in runs' : Carries(r) => r \in runs
  PROVE  MergeInv'
<1>1. Closed' = Closed
  BY DEF Closed
<1>2. MergeCountedOnce'
  BY <1>1 DEF MergeInv, MergeCountedOnce
<1>3. CarriedOnce'
  BY <1>1 DEF MergeInv, CarriedOnce
<1> QED
  BY <1>2, <1>3 DEF MergeInv

LEMMA EnqueueBesideCarries ==
  ASSUME NEW kept, NEW s, NEW command, NEW ref, NEW attempt,
         EnqueueBeside(kept, s, command, ref, attempt)
  PROVE  \A r \in runs' : Carries(r) => r \in kept
<1>1. PICK id \in 1..MaxRuns :
        runs' = kept \cup {[id |-> id, stage |-> s, command |-> command, state |-> "queued",
                            attempt |-> attempt, ref |-> ref, result |-> "ok", pr |-> NoPr]}
  BY DEF EnqueueBeside
<1> QED
  BY <1>1 DEF Carries

LEMMA EnqueueCarries ==
  ASSUME NEW s, NEW command, NEW ref, NEW attempt, Enqueue(s, command, ref, attempt)
  PROVE  \A r \in runs' : Carries(r) => r \in runs
<1>1. \A r \in runs' : Carries(r) => r \in {row \in runs : Unfinished(row)}
  BY EnqueueBesideCarries DEF Enqueue
<1> QED
  BY <1>1

LEMMA CloseAndEnqueueCarries ==
  ASSUME NEW old \in runs, NEW s, NEW command, NEW ref, NEW attempt,
         CloseAndEnqueue(old, s, command, ref, attempt)
  PROVE  \A r \in runs' : Carries(r) => r \in runs \ {old}
<1>1. \A r \in runs' : Carries(r) => r \in {row \in runs : Unfinished(row)} \ {old}
  BY EnqueueBesideCarries DEF CloseAndEnqueue
<1> QED
  BY <1>1

LEMMA CloseCarries ==
  ASSUME runs \subseteq Run, NEW old \in runs, Close(old)
  PROVE  \A r \in runs' : Carries(r) => r \in runs \ {old}
  BY CloseRows DEF Carries

LEMMA OperatorCounts ==
  ASSUME TypeInv, MergeInv, NoCorrections, Operator
  PROVE  MergeInv'
<1>1. SUFFICES /\ UNCHANGED <<phaseIndex, phasePr, currentPr, merged>>
               /\ \A r \in runs' : Carries(r) => r \in runs
  BY CountingUntouched
<1>2. UNCHANGED <<phaseIndex, phasePr, currentPr, merged>>
  BY DEF Operator, NoCorrections, StartLine, RequestDarkMode, CliUnblock, RetryStage, Resolve,
         SetPullRequest, CancelQueued, CancelByJob, project, github, history
<1>3. runs \subseteq Run
  BY DEF TypeInv, TypeOK
<1>4. \A r \in runs' : Carries(r) => r \in runs
  <2>1. CASE StartLine
    BY <2>1, EnqueueCarries DEF StartLine
  <2>2. CASE RetryStage
    BY <2>2, EnqueueCarries DEF RetryStage, Rerun
  <2>3. ASSUME NEW command \in Commands, CancelQueued(command) PROVE \A r \in runs' : Carries(r) => r \in runs
    <3>1. \A r \in runs : ~Unfinished([r EXCEPT !.state = "closed"])
      BY <1>3 DEF Unfinished, Run
    <3> QED
      BY <2>3, <3>1 DEF CancelQueued, Carries
  <2>4. ASSUME NEW r \in runs, CancelByJob(r) PROVE \A row \in runs' : Carries(row) => row \in runs
    BY <1>3, <2>4, CloseCarries DEF CancelByJob
  <2> QED
    BY <2>1, <2>2, <2>3, <2>4
       DEF Operator, NoCorrections, RequestDarkMode, CliUnblock, Resolve, SetPullRequest
<1> QED
  BY <1>2, <1>4

(* A pull request a foreman opens is a new one. *)
LEMMA OpenPrCounts ==
  ASSUME TypeInv, MergeInv, NEW r \in runs, OpenPr(r)
  PROVE  MergeInv'
<1>1. /\ runs \subseteq Run /\ opened \in Nat /\ merged \subseteq 1..opened
      /\ currentPr \in 0..opened /\ r.pr = NoPr
      /\ \A row \in runs : row.pr \in 0..opened
  BY BoundsAssumption DEF TypeInv, TypeOK, RowsOpened, OpenPr, Run
<1>2. Closed \subseteq 1..opened
  BY <1>1 DEF MergeInv, MergeCountedOnce
<1> DEFINE new == [r EXCEPT !.pr = opened + 1]
<1>3. new.pr = opened + 1
  BY <1>1 DEF Run
<1>4. runs' = (runs \ {r}) \cup {new}
  BY DEF OpenPr, Update
<1>5. /\ phaseIndex' = phaseIndex /\ phasePr' = phasePr /\ currentPr' = currentPr /\ merged' = merged
      /\ Closed' = Closed
  BY DEF OpenPr, project, history, Closed
<1> HIDE DEF new
<1>6. MergeCountedOnce'
  BY <1>5 DEF MergeInv, MergeCountedOnce
<1>7. CarriedOnce'
  <2>1. ASSUME NEW row \in runs', Carries(row) PROVE row.pr \notin Closed /\ row.pr # currentPr
    BY <1>1, <1>2, <1>3, <1>4, <2>1 DEF MergeInv, CarriedOnce
  <2>2. ASSUME NEW row \in runs', NEW other \in runs', Carries(row), Carries(other), row.pr = other.pr
        PROVE  row = other
    BY <1>1, <1>3, <1>4, <2>2 DEF MergeInv, CarriedOnce
  <2> QED
    BY <1>5, <2>1, <2>2 DEF CarriedOnce
<1> QED
  BY <1>6, <1>7 DEF MergeInv

(* A row that only changes its state still carries what it carried, or nothing. *)
LEMMA SameRowCounts ==
  ASSUME MergeInv, NEW r \in runs, NEW new, Update(r, new), Unfinished(r), new.pr \in {r.pr, NoPr},
         UNCHANGED <<phaseIndex, phasePr, currentPr, merged>>
  PROVE  MergeInv'
<1>1. Closed' = Closed /\ runs' = (runs \ {r}) \cup {new}
  BY DEF Closed, Update
<1>2. MergeCountedOnce'
  BY <1>1 DEF MergeInv, MergeCountedOnce
<1>3. Carries(new) => Carries(r) /\ new.pr = r.pr
  BY DEF Carries
<1>4. ASSUME NEW row \in runs', Carries(row) PROVE row.pr \notin Closed /\ row.pr # currentPr
  BY <1>1, <1>3, <1>4 DEF MergeInv, CarriedOnce
<1>5. ASSUME NEW row \in runs', NEW other \in runs', Carries(row), Carries(other), row.pr = other.pr
      PROVE  row = other
  BY <1>1, <1>3, <1>5 DEF MergeInv, CarriedOnce
<1>6. CarriedOnce'
  BY <1>1, <1>4, <1>5 DEF CarriedOnce
<1> QED
  BY <1>2, <1>6 DEF MergeInv

LEMMA MachinistCounts ==
  ASSUME TypeInv, MergeInv, Machinist
  PROVE  MergeInv'
<1>1. runs \subseteq Run
  BY DEF TypeInv, TypeOK
<1>2. ASSUME NEW r \in runs, SubmitRun(r) PROVE MergeInv'
  <2> DEFINE new == [r EXCEPT !.state = "running"]
  <2>1. new.pr = r.pr /\ Update(r, new) /\ Unfinished(r)
    BY <1>1, <1>2, SubmittedRow DEF SubmitRun, Unfinished
  <2>2. UNCHANGED <<phaseIndex, phasePr, currentPr, merged>>
    BY <1>2 DEF SubmitRun, project, github, history
  <2> HIDE DEF new
  <2> QED
    BY <2>1, <2>2, SameRowCounts
<1>3. ASSUME NEW r \in runs, NEW result \in Results, CompleteRun(r, result) PROVE MergeInv'
  <2>1. PICK pr \in {r.pr} \cup {lost \in {NoPr} : "pr-lost" \in Happens} :
          Update(r, [r EXCEPT !.state = "ended", !.result = result, !.pr = pr])
    BY <1>3 DEF CompleteRun
  <2> DEFINE new == [r EXCEPT !.state = "ended", !.result = result, !.pr = pr]
  <2>2. pr \in {r.pr, NoPr} /\ pr \in 0..MaxPrs
    BY <1>1, BoundsAssumption DEF Run
  <2>3. new.pr \in {r.pr, NoPr} /\ Update(r, new)
    BY <1>1, <2>1, <2>2, EndedRow
  <2>4. Unfinished(r) /\ UNCHANGED <<phaseIndex, phasePr, currentPr, merged>>
    BY <1>3 DEF CompleteRun, Unfinished, project, github, history
  <2> HIDE DEF new
  <2> QED
    BY <2>3, <2>4, SameRowCounts
<1> QED
  BY <1>2, <1>3, OpenPrCounts DEF Machinist

(* The pull request handed over was carried by one row, which is closed. *)
LEMMA HandedOffCounts ==
  ASSUME TypeInv, MergeInv, NEW r \in runs, HandedOff(r),
         UNCHANGED <<phaseIndex, phasePr, merged>>
  PROVE  MergeInv'
<1>1. CASE r.pr = NoPr
  <2>1. currentPr' = currentPr /\ \A row \in runs' : Carries(row) => row \in runs
    BY <1>1, CloseCarries DEF HandedOff, TypeInv, TypeOK
  <2> QED
    BY <2>1, CountingUntouched
<1>2. CASE r.pr # NoPr
  <2>1. currentPr' = r.pr /\ Carries(r) /\ Closed' = Closed
    BY <1>2 DEF HandedOff, Succeeded, Accepted, Carries, Unfinished, Closed
  <2>2. \A row \in runs' : Carries(row) => row \in runs \ {r}
    BY CloseCarries DEF HandedOff, TypeInv, TypeOK
  <2>3. MergeCountedOnce'
    BY <2>1 DEF MergeInv, MergeCountedOnce, CarriedOnce
  <2>4. CarriedOnce'
    BY <2>1, <2>2 DEF MergeInv, CarriedOnce
  <2> QED
    BY <2>3, <2>4 DEF MergeInv
<1> QED
  BY <1>1, <1>2

LEMMA OnRunCompletedCounts ==
  ASSUME TypeInv, MergeInv, NEW r \in runs, OnRunCompleted(r)
  PROVE  MergeInv'
<1>1. runs \subseteq Run
  BY DEF TypeInv, TypeOK
<1>2. UNCHANGED <<phaseIndex, phasePr, merged>>
  BY DEF OnRunCompleted, github
<1>3. CASE HandedOff(r)
  BY <1>2, <1>3, HandedOffCounts
<1>4. CASE ~HandedOff(r)
  <2>1. Close(r) => \A row \in runs' : Carries(row) => row \in runs
    BY <1>1, CloseCarries
  <2>2. \A s, command, ref, attempt : CloseAndEnqueue(r, s, command, ref, attempt) =>
          \A row \in runs' : Carries(row) => row \in runs
    BY CloseAndEnqueueCarries
  <2>3. \A row \in runs' : Carries(row) => row \in runs
    BY <1>4, <2>1, <2>2
       DEF OnRunCompleted, StaleRun, RetryRun, StopOnFailure, GenesisDone, RepairNeedsHuman, RepairDone,
           AssessPassed, AssessFoundFindings, DeployDone, Triaged
  <2>4. UNCHANGED currentPr
    BY <1>4
       DEF OnRunCompleted, StaleRun, RetryRun, StopOnFailure, GenesisDone, RepairNeedsHuman, RepairDone,
           AssessPassed, AssessFoundFindings, DeployDone, Triaged
  <2> QED
    BY <1>2, <2>3, <2>4, CountingUntouched
<1> QED
  BY <1>3, <1>4

LEMMA EvaluateCounts == ASSUME MergeInv, Evaluate PROVE MergeInv'
<1>1. \A r \in runs' : Carries(r) => r \in runs
  BY EnqueueCarries DEF Evaluate, EvaluateNothing, EvaluateStalled, EvaluatePassDark,
                        EvaluatePassGray, EvaluateRepair, EvaluateCapReached
<1>2. UNCHANGED <<phaseIndex, phasePr, currentPr, merged>>
  BY DEF Evaluate, github, history
<1> QED
  BY <1>1, <1>2, CountingUntouched

LEMMA UnblockCounts == ASSUME MergeInv, Unblock PROVE MergeInv'
<1>1. \A r \in runs' : Carries(r) => r \in runs
  BY EnqueueCarries DEF Unblock, UnblockIgnored, UnblockToReview, UnblockToRerun, Rerun
<1>2. UNCHANGED <<phaseIndex, phasePr, currentPr, merged>>
  BY DEF Unblock, github, history
<1> QED
  BY <1>1, <1>2, CountingUntouched

(* The report of a merge that closes a phase: its pull request joins the       *)
(* counted ones and is no longer tracked, and no row carries it.               *)
LEMMA NextPhaseCounts ==
  ASSUME TypeInv, MergeInv, NEW p \in merged, NextPhase(p), UNCHANGED merged
  PROVE  MergeInv'
<1>1. /\ phaseIndex \in 0..NumPhases - 1 /\ phaseIndex' = phaseIndex + 1
      /\ phasePr \in [0..NumPhases - 1 -> 0..MaxPrs] /\ phasePr' = [phasePr EXCEPT ![phaseIndex] = p]
      /\ currentPr = p /\ currentPr' = NoPr /\ p # NoPr /\ merged \subseteq 1..opened
  BY DEF NextPhase, ClosesPhase, TypeInv, TypeOK
<1>2. phasePr'[phaseIndex] = p /\ \A k \in 0..phaseIndex - 1 : phasePr'[k] = phasePr[k]
  BY <1>1, BoundsAssumption
<1>3. 0..phaseIndex' - 1 = (0..phaseIndex - 1) \cup {phaseIndex}
  BY <1>1, BoundsAssumption
<1>4. Closed' = Closed \cup {p}
  BY <1>2, <1>3 DEF Closed
<1>5. \A r \in runs' : Carries(r) => r \in runs
  BY EnqueueCarries DEF NextPhase
<1>6. MergeCountedOnce'
  <2>1. Closed' \subseteq merged'
    BY <1>4 DEF MergeInv, MergeCountedOnce
  <2>2. currentPr' \notin Closed'
    BY <1>1, <2>1
  <2>3. ASSUME NEW j \in 0..phaseIndex' - 1, NEW k \in 0..phaseIndex' - 1, phasePr'[j] = phasePr'[k]
        PROVE  j = k
    <3>1. p \notin Closed
      BY <1>1 DEF MergeInv, MergeCountedOnce
    <3>2. \A i \in 0..phaseIndex - 1 : phasePr[i] \in Closed
      BY DEF Closed
    <3> QED
      BY <1>2, <1>3, <2>3, <3>1, <3>2 DEF MergeInv, MergeCountedOnce
  <2> QED
    BY <2>1, <2>2, <2>3 DEF MergeCountedOnce
<1>7. CarriedOnce'
  BY <1>1, <1>4, <1>5 DEF MergeInv, CarriedOnce, Carries
<1> QED
  BY <1>6, <1>7 DEF MergeInv

LEMMA OnPullRequestMergedCounts ==
  ASSUME TypeInv, MergeInv, NEW p \in merged, OnPullRequestMerged(p)
  PROVE  MergeInv'
<1>1. UNCHANGED merged
  BY DEF OnPullRequestMerged, github
<1>2. CASE MergeIgnored(p)
  BY <1>1, <1>2, CountingUntouched DEF MergeIgnored
<1>3. CASE NextPhase(p)
  BY <1>1, <1>3, NextPhaseCounts
<1>4. CASE LastPhaseMerged(p)
  <2>1. /\ phaseIndex \in 0..NumPhases - 1 /\ phaseIndex' = phaseIndex /\ currentPr' = currentPr
        /\ phasePr \in [0..NumPhases - 1 -> 0..MaxPrs] /\ phasePr' = [phasePr EXCEPT ![phaseIndex] = p]
    BY <1>4 DEF LastPhaseMerged, ClosesPhase, TypeInv, TypeOK
  <2>2. \A k \in 0..phaseIndex - 1 : phasePr'[k] = phasePr[k]
    BY <2>1, BoundsAssumption
  <2>3. Closed' = Closed
    BY <2>1, <2>2 DEF Closed
  <2>4. \A r \in runs' : Carries(r) => r \in runs
    BY <1>4, EnqueueCarries DEF LastPhaseMerged
  <2>5. MergeCountedOnce'
    BY <1>1, <2>1, <2>2, <2>3 DEF MergeInv, MergeCountedOnce
  <2>6. CarriedOnce'
    BY <2>1, <2>3, <2>4 DEF MergeInv, CarriedOnce
  <2> QED
    BY <2>5, <2>6 DEF MergeInv
<1>5. CASE MaintenanceMerged(p)
  <2>1. /\ UNCHANGED <<phaseIndex, runs, phasePr>> /\ currentPr' = NoPr /\ Closed' = Closed
    BY <1>5 DEF MaintenanceMerged, Closed
  <2>2. NoPr \notin Closed
    BY DEF MergeInv, MergeCountedOnce, TypeInv, TypeOK
  <2>3. MergeCountedOnce'
    BY <1>1, <2>1, <2>2 DEF MergeInv, MergeCountedOnce
  <2>4. CarriedOnce'
    BY <2>1 DEF MergeInv, CarriedOnce, Carries
  <2> QED
    BY <2>3, <2>4 DEF MergeInv
<1> QED
  BY <1>2, <1>3, <1>4, <1>5 DEF OnPullRequestMerged

LEMMA ScheduledCounts == ASSUME TypeInv, MergeInv, Scheduled PROVE MergeInv'
<1>1. ASSUME NEW p \in mergeCalls, ScheduledMergeReport(p) PROVE MergeInv'
  <2>1. p \in merged
    BY DEF TypeInv, TypeOK
  <2> QED
    BY <1>1, <2>1, OnPullRequestMergedCounts DEF ScheduledMergeReport
<1> QED
  BY <1>1, OnRunCompletedCounts, EvaluateCounts, UnblockCounts DEF Scheduled

LEMMA GitHubCounts == ASSUME TypeInv, MergeInv, GitHub PROVE MergeInv'
<1>1. CASE GateMoved \/ OnIssueOpened \/ OnRelease
  <2>1. \A r \in runs' : Carries(r) => r \in runs
    BY <1>1, EnqueueCarries DEF GateMoved, OnIssueOpened, OnRelease
  <2>2. UNCHANGED <<phaseIndex, phasePr, currentPr, merged>>
    BY <1>1 DEF GateMoved, OnIssueOpened, OnRelease, project, github, history
  <2> QED
    BY <2>1, <2>2, CountingUntouched
<1>2. ASSUME NEW p \in 1..MaxPrs, MergePr(p) PROVE MergeInv'
  BY <1>2, CountingUntouched DEF MergePr, project, history
<1>3. ASSUME NEW p \in 1..MaxPrs, WebhookReportsMerge(p) PROVE MergeInv'
  BY <1>3, OnPullRequestMergedCounts DEF WebhookReportsMerge
<1> QED
  BY <1>1, <1>2, <1>3 DEF GitHub

LEMMA BridgeCounts == ASSUME TypeInv, MergeInv, Bridge PROVE MergeInv'
<1>1. CASE RunEffect
  <2>1. \A r \in runs' : Carries(r) => r \in runs
    BY <1>1, EnqueueCarries
       DEF RunEffect, LabelApplied, RepositoryRegistered, PhaseIssuesCreated, CommentPosted, EffectFailed
  <2>2. UNCHANGED <<phasePr, currentPr, merged>>
    BY <1>1 DEF RunEffect, LabelApplied, RepositoryRegistered, PhaseIssuesCreated, CommentPosted,
                EffectFailed, history
  <2>3. CASE phaseIndex' = phaseIndex
    BY <2>1, <2>2, <2>3, CountingUntouched
  <2>4. CASE phaseIndex' = 0
    \* the phases are numbered afresh: none is counted any more
    <3>1. Closed' = {}
      BY <2>4 DEF Closed
    <3>2. MergeCountedOnce'
      BY <2>4, <3>1 DEF MergeCountedOnce
    <3>3. CarriedOnce'
      BY <2>1, <2>2, <3>1 DEF MergeInv, CarriedOnce
    <3> QED
      BY <3>2, <3>3 DEF MergeInv
  <2> QED
    BY <1>1, <2>3, <2>4
       DEF RunEffect, LabelApplied, RepositoryRegistered, PhaseIssuesCreated, CommentPosted, EffectFailed
<1>2. ASSUME NEW p \in 1..MaxPrs, BridgeReportsMerge(p) PROVE MergeInv'
  BY <1>2, CountingUntouched DEF BridgeReportsMerge, project, github, history
<1>3. CASE BridgeRestarts
  BY <1>3, CountingUntouched DEF BridgeRestarts, project, github, history
<1> QED
  BY <1>1, <1>2, <1>3 DEF Bridge

LEMMA MergeInvInductive ==
  ASSUME TypeInv, MergeInv, NoCorrections, [Next]_vars
  PROVE  MergeInv'
<1>1. CASE UNCHANGED vars
  BY <1>1, CountingUntouched DEF vars, project, github, history
<1> QED
  BY <1>1, OperatorCounts, MachinistCounts, ScheduledCounts, GitHubCounts, BridgeCounts DEF Next

(* However often, late or out of order its merge is reported, a pull request  *)
(* closes at most one phase, and one that closed a phase is never under       *)
(* review again, for every number of phases, runs and pull requests, as long  *)
(* as the operator does not correct the tracked pull request by hand.         *)
THEOREM MergesAreCountedOnce == NoCorrections /\ Spec => []MergeCountedOnce
<1>1. Spec => []TypeInv
  BY NoRowsAtFirst, TypeInvInductive, PTL DEF Spec
<1>2. ASSUME NoCorrections PROVE TypeInv /\ MergeInv /\ [Next]_vars => MergeInv'
  BY <1>2, MergeInvInductive
<1>3. MergeInv => MergeCountedOnce
  BY DEF MergeInv
<1>4. ASSUME NoCorrections PROVE Spec => []MergeCountedOnce
  BY <1>1, <1>2, <1>3, <1>4, NothingCountedAtFirst, PTL DEF Spec
<1> QED
  BY <1>4

-----------------------------------------------------------------------------
(* The delivery line: one foreman per phase, the assessment after all of     *)
(* them, and each stage reached only from one that leads to it               *)

(* Two corrections from the CLI put a project anywhere: retryStage runs the    *)
(* newest row of a line that goes on, setPullRequest sends any stage to        *)
(* review.  What follows is about a line without them.                         *)
NoCliCorrections == {"set-pr", "retry-stage"} \cap Happens = {}

IdsUnique == \A r, other \in runs : r.id = other.id => r = other

(* Genesis comes first and once: no row of it is left when the phase issues    *)
(* are there, and nothing else happens before.  Without this, the handler of   *)
(* the phase issues could number the phases afresh behind a foreman's back,    *)
(* and an unblock could run genesis again.                                     *)
FoundInv ==
  /\ stage = "DRAFT" => runs = {}
  /\ hasRepo => stage \notin {"DRAFT", "GENESIS"}
  /\ phaseIssues => hasRepo
  /\ \A r \in runs : r.stage = "GENESIS" <=> ~phaseIssues
  /\ \A r \in runs : r.stage = "GENESIS" => r.command = "genesis"
  /\ ~phaseIssues => opened = 0 /\ phaseIndex = 0
  /\ ~hasRepo =>
       /\ stage \in {"DRAFT", "GENESIS", "NEEDS_HUMAN"} /\ effects = <<>>
       /\ stage # "GENESIS" => \A r \in runs : ~Unfinished(r)
       /\ \A r, other \in runs : Unfinished(r) /\ Unfinished(other) => r = other
  /\ hasRepo /\ ~phaseIssues =>
       /\ stage = "BUILD" /\ \A r \in runs : ~Unfinished(r)
       /\ Len(effects) <= 1
       /\ \A i \in DOMAIN effects : effects[i].kind \in {"register-repository", "create-phase-issues"}
  /\ phaseIssues => \A i \in DOMAIN effects : effects[i].kind \in {"apply-label", "comment"}

(* What a stage presupposes, for the project and for the rows an unblock may   *)
(* run again.                                                                  *)
AllMerged == phaseIndex = NumPhases - 1 /\ phasePr[phaseIndex] \in merged \ Closed

LineStages == {"GENESIS", "BUILD", "REVIEW_LOOP", "ASSESS", "DEPLOY_DEV"}
EarnedInv ==
  /\ stage \in LineStages \cup {"DRAFT", "NEEDS_HUMAN", "MAINTAIN"}
  /\ assessed \/ stage = "ASSESS" => AllMerged
  /\ stage \in {"DEPLOY_DEV", "MAINTAIN"} => assessed
  /\ \A r \in runs :
       /\ r.stage \in LineStages \cup {"TRIAGE"}
       /\ r.stage = "ASSESS" => AllMerged
       /\ r.stage \in {"DEPLOY_DEV", "TRIAGE"} => assessed
       /\ r.command \in RepairCommands => r.stage = "REVIEW_LOOP"

(* A foreman in flight means that its phase is being built and nothing is      *)
(* under review; a row that could be run again is of the current phase.        *)
ForemanInv ==
  /\ stage = "BUILD" => currentPr = NoPr
  /\ BuildRuns # {} => stage = "BUILD"
  /\ \A r, other \in BuildRuns : r = other
  /\ \A r \in runs : r.stage = "BUILD" => r.ref = phaseIndex

(* A triage run is never what an unblock runs again: its project is at rest,   *)
(* or has a pull request to go back to.                                        *)
TriageInv ==
  \A r \in runs : r.stage = "TRIAGE" /\ IsLast(r) /\ currentPr = NoPr => stage = "MAINTAIN"

LineInv == IdsUnique /\ FoundInv /\ EarnedInv /\ ForemanInv /\ TriageInv

-----------------------------------------------------------------------------
(* The rows after a step: one has joined them, or none has *)

Joins(new, gone, s, command, ref) ==
  /\ new \in Run /\ new.stage = s /\ new.command = command /\ new.ref = ref
  /\ new.state = "queued" /\ new.result = "ok"
  /\ runs' = ({r \in runs : Unfinished(r)} \ gone) \cup {new}
  /\ \A r \in runs' : r # new => r.id < new.id

LEMMA EnqueueBesideJoins ==
  ASSUME runs \subseteq Run, NEW gone, NEW s \in Stages, NEW command \in Commands,
         NEW ref \in Nat, NEW attempt \in 1..2,
         EnqueueBeside({r \in runs : Unfinished(r)} \ gone, s, command, ref, attempt)
  PROVE  \E new \in Run : Joins(new, gone, s, command, ref)
<1> DEFINE kept == {r \in runs : Unfinished(r)} \ gone
<1>1. PICK id \in 1..MaxRuns :
        /\ \A r \in kept : r.id < id
        /\ runs' = kept \cup {[id |-> id, stage |-> s, command |-> command, state |-> "queued",
                               attempt |-> attempt, ref |-> ref, result |-> "ok", pr |-> NoPr]}
  BY DEF EnqueueBeside
<1> DEFINE new == [id |-> id, stage |-> s, command |-> command, state |-> "queued",
                   attempt |-> attempt, ref |-> ref, result |-> "ok", pr |-> NoPr]
<1>2. new \in Run
  BY BoundsAssumption DEF Run, Results
<1>3. new.id = id /\ new.stage = s /\ new.command = command /\ new.ref = ref /\ new.state = "queued"
      /\ new.result = "ok"
  OBVIOUS
<1>4. runs' = kept \cup {new}
  BY <1>1
<1> HIDE DEF new
<1>5. Joins(new, gone, s, command, ref)
  BY <1>1, <1>2, <1>3, <1>4 DEF Joins
<1> QED
  BY <1>2, <1>5

LEMMA EnqueueJoins ==
  ASSUME runs \subseteq Run, NEW s \in Stages, NEW command \in Commands,
         NEW ref \in Nat, NEW attempt \in 1..2, Enqueue(s, command, ref, attempt)
  PROVE  \E new \in Run : Joins(new, {}, s, command, ref)
<1>1. {r \in runs : Unfinished(r)} \ {} = {r \in runs : Unfinished(r)}
  OBVIOUS
<1> QED
  BY <1>1, EnqueueBesideJoins DEF Enqueue

LEMMA CloseAndEnqueueJoins ==
  ASSUME runs \subseteq Run, NEW old, NEW s \in Stages, NEW command \in Commands,
         NEW ref \in Nat, NEW attempt \in 1..2, CloseAndEnqueue(old, s, command, ref, attempt)
  PROVE  \E new \in Run : Joins(new, {old}, s, command, ref)
  BY EnqueueBesideJoins DEF CloseAndEnqueue

(* The row that joined is in flight and the newest; the others were in flight. *)
LEMMA JoinedRows ==
  ASSUME runs \subseteq Run, IdsUnique, NEW new, NEW gone, NEW s, NEW command, NEW ref,
         Joins(new, gone, s, command, ref)
  PROVE  /\ new \in runs' /\ new.stage = s /\ new.command = command /\ new.ref = ref
         /\ Unfinished(new) /\ Live(new)
         /\ \A r \in runs' : r = new \/ (r \in runs \ gone /\ Unfinished(r))
         /\ \A r \in runs : Unfinished(r) /\ r \notin gone => r \in runs'
         /\ \A r \in runs' : IsLast(r)' => r = new
         /\ IdsUnique'
<1>1. \A r \in runs' : r.id \in Nat
  BY BoundsAssumption DEF Joins, Run
<1>2. IdsUnique'
  BY <1>1 DEF Joins, IdsUnique
<1>3. \A r \in runs' : IsLast(r)' => r = new
  BY <1>1 DEF Joins, IsLast
<1> QED
  BY <1>2, <1>3 DEF Joins, Unfinished, Live

SameWork(r, other) ==
  r.id = other.id /\ r.stage = other.stage /\ r.command = other.command /\ r.ref = other.ref
RowsKept ==
  /\ \A r \in runs' : \E o \in runs :
       SameWork(r, o) /\ (Unfinished(r) => Unfinished(o)) /\ (Live(r) => Live(o))
  /\ \A o \in runs : \E r \in runs' : r.id = o.id
  /\ IdsUnique'

(* A row is submitted, opens its pull request, ends, or is closed. *)
LEMMA UpdateKeeps ==
  ASSUME IdsUnique, NEW old \in runs, NEW new, Update(old, new), SameWork(new, old),
         Unfinished(new) => Unfinished(old), Live(new) => Live(old)
  PROVE  RowsKept
<1>1. runs' = (runs \ {old}) \cup {new}
  BY DEF Update
<1>2. IdsUnique'
  BY <1>1 DEF IdsUnique, SameWork
<1> QED
  BY <1>1, <1>2 DEF RowsKept, SameWork

LEMMA CloseKeeps ==
  ASSUME runs \subseteq Run, IdsUnique, NEW old \in runs, Close(old)
  PROVE  /\ RowsKept
         /\ \A r \in runs' : Unfinished(r) => r \in runs \ {old}
         /\ \A r \in runs : r # old => r \in runs'
<1> DEFINE new == [old EXCEPT !.state = "closed"]
<1>1. SameWork(new, old) /\ ~Unfinished(new) /\ ~Live(new)
  BY DEF Run, SameWork, Unfinished, Live
<1>2. Update(old, new)
  BY DEF Close
<1> HIDE DEF new
<1>3. RowsKept
  BY <1>1, <1>2, UpdateKeeps
<1> QED
  BY <1>1, <1>2, <1>3 DEF Update

LEMMA CancelKeeps ==
  ASSUME runs \subseteq Run, IdsUnique, NEW command, CancelQueued(command)
  PROVE  RowsKept
<1> DEFINE doomed == {r \in runs : r.command = command /\ r.state = "queued"}
           closed(r) == [r EXCEPT !.state = "closed"]
<1>1. runs' = (runs \ doomed) \cup {closed(r) : r \in doomed}
  BY DEF CancelQueued
<1>2. \A r \in doomed : SameWork(closed(r), r) /\ ~Unfinished(closed(r)) /\ ~Live(closed(r))
  BY DEF Run, SameWork, Unfinished, Live
<1> HIDE DEF doomed, closed
<1>3. doomed \subseteq runs
  BY DEF doomed
<1>4. \A r \in runs' : \E o \in runs :
        SameWork(r, o) /\ (IF o \in doomed THEN r = closed(o) ELSE r = o)
  <2> TAKE r \in runs'
  <2>1. CASE r \in runs \ doomed
    BY <2>1 DEF SameWork
  <2>2. ASSUME NEW o \in doomed, r = closed(o)
        PROVE  \E row \in runs : SameWork(r, row) /\ (IF row \in doomed THEN r = closed(row) ELSE r = row)
    BY <1>2, <1>3, <2>2
  <2> QED
    BY <1>1, <2>1, <2>2
<1>5. IdsUnique'
  BY <1>4 DEF IdsUnique, SameWork
<1>6. \A o \in runs : \E r \in runs' : r.id = o.id
  BY <1>1, <1>2 DEF SameWork
<1>7. \A r \in runs' : \E o \in runs :
        SameWork(r, o) /\ (Unfinished(r) => Unfinished(o)) /\ (Live(r) => Live(o))
  BY <1>2, <1>4
<1> QED
  BY <1>5, <1>6, <1>7 DEF RowsKept

LEMMA MachinistKeeps ==
  ASSUME TypeInv, IdsUnique, Machinist
  PROVE  RowsKept
<1>1. runs \subseteq Run
  BY DEF TypeInv, TypeOK
<1>2. ASSUME NEW r \in runs, SubmitRun(r) PROVE RowsKept
  <2> DEFINE new == [r EXCEPT !.state = "running"]
  <2>1. SameWork(new, r) /\ Unfinished(r) /\ Live(r)
    BY <1>1, <1>2 DEF SubmitRun, Run, SameWork, Unfinished, Live
  <2>2. Update(r, new)
    BY <1>2 DEF SubmitRun
  <2> HIDE DEF new
  <2> QED
    BY <2>1, <2>2, UpdateKeeps
<1>3. ASSUME NEW r \in runs, OpenPr(r) PROVE RowsKept
  <2> DEFINE new == [r EXCEPT !.pr = opened + 1]
  <2>1. SameWork(new, r) /\ Unfinished(r) /\ Live(r)
    BY <1>1, <1>3 DEF OpenPr, Run, SameWork, Unfinished, Live
  <2>2. Update(r, new)
    BY <1>3 DEF OpenPr
  <2> HIDE DEF new
  <2> QED
    BY <2>1, <2>2, UpdateKeeps
<1>4. ASSUME NEW r \in runs, NEW result \in Results, CompleteRun(r, result) PROVE RowsKept
  <2>1. PICK pr \in {r.pr} \cup {lost \in {NoPr} : "pr-lost" \in Happens} :
          Update(r, [r EXCEPT !.state = "ended", !.result = result, !.pr = pr])
    BY <1>4 DEF CompleteRun
  <2> DEFINE new == [r EXCEPT !.state = "ended", !.result = result, !.pr = pr]
  <2>2. SameWork(new, r) /\ Unfinished(r) /\ Live(r)
    BY <1>1, <1>4 DEF CompleteRun, Run, SameWork, Unfinished, Live
  <2>3. Update(r, new)
    BY <2>1
  <2> HIDE DEF new
  <2> QED
    BY <2>2, <2>3, UpdateKeeps
<1> QED
  BY <1>2, <1>3, <1>4 DEF Machinist

-----------------------------------------------------------------------------
(* Every step keeps the line in order *)

LEMMA LineAtFirst == Init => LineInv
<1> SUFFICES ASSUME Init PROVE LineInv
  OBVIOUS
<1>1. IdsUnique /\ TriageInv
  BY DEF Init, IdsUnique, TriageInv
<1>2. FoundInv
  BY DEF Init, FoundInv
<1>3. EarnedInv
  BY DEF Init, EarnedInv
<1>4. ForemanInv
  BY DEF Init, ForemanInv, BuildRuns
<1> QED
  BY <1>1, <1>2, <1>3, <1>4 DEF LineInv

(* No row joined and the project row is as it was: nothing the invariant is    *)
(* about changed.                                                              *)
LEMMA KeptRowsLine ==
  ASSUME TypeInv, TypeInv', LineInv, RowsKept
  PROVE  /\ IdsUnique'
         /\ \A r \in runs' : r.stage = "GENESIS" <=> ~phaseIssues
         /\ \A r \in runs' : r.stage = "GENESIS" => r.command = "genesis"
         /\ \A r \in runs' :
              /\ r.stage \in LineStages \cup {"TRIAGE"}
              /\ r.stage = "ASSESS" => AllMerged
              /\ r.stage \in {"DEPLOY_DEV", "TRIAGE"} => assessed
              /\ r.command \in RepairCommands => r.stage = "REVIEW_LOOP"
         /\ \A r \in runs' : r.stage = "BUILD" => r.ref = phaseIndex
         /\ BuildRuns' # {} => BuildRuns # {}
         /\ \A r, other \in BuildRuns' : r = other
         /\ \A r \in runs' : r.stage = "TRIAGE" /\ IsLast(r)' /\ currentPr = NoPr => stage = "MAINTAIN"
         /\ runs = {} => runs' = {}
         /\ (\A r \in runs : ~Unfinished(r)) => \A r \in runs' : ~Unfinished(r)
         /\ (\A r, other \in runs : Unfinished(r) /\ Unfinished(other) => r = other)
              => \A r, other \in runs' : Unfinished(r) /\ Unfinished(other) => r = other
<1>1. \A r \in runs' : \E o \in runs : SameWork(r, o) /\ (Unfinished(r) => Unfinished(o))
  BY DEF RowsKept
<1>2. IdsUnique /\ IdsUnique'
  BY DEF RowsKept, LineInv
<1>3. \A r, other \in BuildRuns' : r = other
  BY <1>1, <1>2 DEF BuildRuns, LineInv, ForemanInv, SameWork, IdsUnique
<1>4. \A r \in runs', o \in runs : SameWork(r, o) /\ IsLast(r)' => IsLast(o)
  BY DEF RowsKept, SameWork, IsLast
<1>5. \A r \in runs' : r.stage = "TRIAGE" /\ IsLast(r)' /\ currentPr = NoPr => stage = "MAINTAIN"
  BY <1>1, <1>4 DEF SameWork, LineInv, TriageInv
<1>6. BuildRuns' # {} => BuildRuns # {}
  BY <1>1 DEF BuildRuns, SameWork
<1>7. (\A r, other \in runs : Unfinished(r) /\ Unfinished(other) => r = other)
        => \A r, other \in runs' : Unfinished(r) /\ Unfinished(other) => r = other
  BY <1>1, <1>2 DEF SameWork, IdsUnique
<1>8. /\ \A r \in runs' : r.stage = "GENESIS" <=> ~phaseIssues
      /\ \A r \in runs' : r.stage = "GENESIS" => r.command = "genesis"
  BY <1>1 DEF LineInv, FoundInv, SameWork
<1>9. \A r \in runs' :
        /\ r.stage \in LineStages \cup {"TRIAGE"}
        /\ r.stage = "ASSESS" => AllMerged
        /\ r.stage \in {"DEPLOY_DEV", "TRIAGE"} => assessed
        /\ r.command \in RepairCommands => r.stage = "REVIEW_LOOP"
  BY <1>1 DEF LineInv, EarnedInv, SameWork
<1>10. \A r \in runs' : r.stage = "BUILD" => r.ref = phaseIndex
  BY <1>1 DEF LineInv, ForemanInv, SameWork
<1> QED
  BY <1>1, <1>2, <1>3, <1>5, <1>6, <1>7, <1>8, <1>9, <1>10

LEMMA KeptLine ==
  ASSUME TypeInv, TypeInv', LineInv, RowsKept,
         UNCHANGED <<stage, hasRepo, phaseIssues, phaseIndex, currentPr, assessed, phasePr>>,
         merged \subseteq merged', phaseIssues \/ opened' = opened,
         effects' = effects \/ (phaseIssues /\ \A i \in DOMAIN effects' :
                                  effects'[i].kind \in {"apply-label", "comment"})
  PROVE  LineInv'
<1>1. Closed' = Closed
  BY DEF Closed
<1>2. AllMerged => AllMerged'
  BY <1>1 DEF AllMerged
<1>3. FoundInv'
  BY KeptRowsLine DEF LineInv, FoundInv
<1>4. EarnedInv'
  BY <1>2, KeptRowsLine DEF LineInv, EarnedInv
<1>5. ForemanInv'
  BY KeptRowsLine DEF LineInv, ForemanInv
<1>6. TriageInv'
  BY KeptRowsLine DEF TriageInv
<1> QED
  BY <1>3, <1>4, <1>5, <1>6, KeptRowsLine DEF LineInv

(* The project stops, or is sent from the stop to review. *)
LEMMA StoppedLine ==
  ASSUME TypeInv, TypeInv', LineInv, RowsKept, BuildRuns' = {},
         ~hasRepo => \A r \in runs' : ~Unfinished(r),
         hasRepo => phaseIssues,
         \A r \in runs' : r.stage = "TRIAGE" /\ IsLast(r)' => currentPr # NoPr,
         stage # "DRAFT", stage' = "NEEDS_HUMAN" \/ (hasRepo /\ stage' = "REVIEW_LOOP"),
         UNCHANGED <<hasRepo, phaseIssues, phaseIndex, currentPr, phasePr, merged, opened>>,
         assessed' = assessed \/ (assessed' = TRUE /\ stage = "ASSESS"),
         effects' = effects \/ (phaseIssues /\ \A i \in DOMAIN effects' :
                                  effects'[i].kind \in {"apply-label", "comment"})
  PROVE  LineInv'
<1>1. Closed' = Closed
  BY DEF Closed
<1>2. AllMerged' <=> AllMerged
  BY <1>1 DEF AllMerged
<1>3. FoundInv'
  BY KeptRowsLine DEF LineInv, FoundInv
<1>4. EarnedInv'
  BY <1>2, KeptRowsLine DEF LineInv, EarnedInv, LineStages
<1>5. ForemanInv'
  BY KeptRowsLine DEF LineInv, ForemanInv
<1>6. TriageInv'
  BY DEF TriageInv
<1> QED
  BY <1>3, <1>4, <1>5, <1>6, KeptRowsLine DEF LineInv

(* A row of stage s joins a line whose project row stays, or moves to s. *)
LEMMA JoinedLine ==
  ASSUME TypeInv, TypeInv', LineInv, NEW new, NEW gone, NEW s, NEW command, NEW ref,
         Joins(new, gone, s, command, ref),
         phaseIssues, s \in LineStages \cup {"TRIAGE"}, s # "GENESIS",
         command \in RepairCommands => s = "REVIEW_LOOP",
         s = "ASSESS" => AllMerged, s \in {"DEPLOY_DEV", "TRIAGE"} => assessed',
         s = "BUILD" => stage' = "BUILD" /\ ref = phaseIndex /\ BuildRuns \ gone = {},
         BuildRuns \ gone # {} => stage' = "BUILD",
         s = "TRIAGE" => stage' = "MAINTAIN" \/ currentPr # NoPr,
         stage' = stage \/ (s # "TRIAGE" /\ stage' = s),
         stage' = "BUILD" => currentPr = NoPr,
         UNCHANGED <<hasRepo, phaseIssues, phaseIndex, currentPr, phasePr, merged, opened>>,
         assessed' = assessed \/ (assessed' = TRUE /\ AllMerged),
         effects' = effects \/ \A i \in DOMAIN effects' : effects'[i].kind \in {"apply-label", "comment"}
  PROVE  LineInv'
<1>1. Closed' = Closed
  BY DEF Closed
<1>2. AllMerged' <=> AllMerged
  BY <1>1 DEF AllMerged
<1>3. runs \subseteq Run /\ IdsUnique /\ hasRepo
  BY DEF TypeInv, TypeOK, LineInv, FoundInv
<1>4. /\ new \in runs' /\ new.stage = s /\ new.command = command /\ new.ref = ref
      /\ \A r \in runs' : r = new \/ (r \in runs \ gone /\ Unfinished(r))
      /\ \A r \in runs' : IsLast(r)' => r = new
      /\ IdsUnique'
  BY <1>3, JoinedRows
<1>5. FoundInv'
  BY <1>3, <1>4 DEF LineInv, FoundInv, LineStages
<1>6. EarnedInv'
  BY <1>2, <1>4 DEF LineInv, EarnedInv, LineStages
<1>7. ForemanInv'
  BY <1>4 DEF LineInv, ForemanInv, BuildRuns
<1>8. TriageInv'
  BY <1>4 DEF TriageInv
<1> QED
  BY <1>4, <1>5, <1>6, <1>7, <1>8 DEF LineInv

(* The rows an action leaves alone. *)
LEMMA SameRowsKept == ASSUME LineInv, UNCHANGED runs PROVE RowsKept
  BY DEF RowsKept, SameWork, LineInv, IdsUnique, Live, Unfinished

LEMMA LineFacts ==
  ASSUME TypeInv, LineInv
  PROVE  /\ runs \subseteq Run /\ IdsUnique
         /\ currentPr # NoPr => phaseIssues /\ hasRepo /\ BuildRuns = {} /\ stage \notin {"DRAFT", "BUILD"}
         /\ stage \in {"REVIEW_LOOP", "ASSESS", "DEPLOY_DEV", "MAINTAIN"} => phaseIssues /\ hasRepo
         /\ stage # "BUILD" => BuildRuns = {}
  BY DEF TypeInv, TypeOK, LineInv, FoundInv, ForemanInv

(* The kinds an effect queue holds once the phase issues are there. *)
LEMMA AppendedKinds ==
  ASSUME effects \in Seq(Effect), NEW kind \in {"apply-label", "comment"}, NEW pr,
         \A i \in DOMAIN effects : effects[i].kind \in {"apply-label", "comment"},
         InsertEffect(kind, pr)
  PROVE  \A i \in DOMAIN effects' : effects'[i].kind \in {"apply-label", "comment"}
<1> DEFINE new == [kind |-> kind, pr |-> pr]
<1>1. new.kind = kind /\ effects' = Append(effects, new)
  BY DEF InsertEffect
<1> HIDE DEF new
<1> QED
  BY <1>1

LEMMA TakenKinds ==
  ASSUME effects \in Seq(Effect), effects # <<>>, effects' = Tail(effects),
         \A i \in DOMAIN effects : effects[i].kind \in {"apply-label", "comment"}
  PROVE  \A i \in DOMAIN effects' : effects'[i].kind \in {"apply-label", "comment"}
  OBVIOUS

LEMMA ResolveLine ==
  ASSUME TypeInv, TypeInv', LineInv, NEW q \in Questions, NEW choice \in {"primary", "secondary"},
         Resolve(q, choice)
  PROVE  LineInv'
<1> DEFINE merge == q.kind = "apply-auto-merge" /\ hasRepo /\ currentPr # NoPr
<1>1. RowsKept
  BY SameRowsKept DEF Resolve
<1>2. effects \in Seq(Effect) /\ UNCHANGED <<hasRepo, phaseIssues, phaseIndex, currentPr, assessed, runs,
                                              opened, merged, phasePr>>
  BY DEF Resolve, github, history, TypeInv, TypeOK
<1>3. CASE ~merge
  BY <1>1, <1>2, <1>3, KeptLine DEF Resolve
<1>4. CASE merge
  <2>1. phaseIssues /\ hasRepo /\ currentPr # NoPr /\ BuildRuns = {} /\ stage # "DRAFT"
    BY <1>4, LineFacts
  <2>2. \A i \in DOMAIN effects' : effects'[i].kind \in {"apply-label", "comment"}
    BY <1>2, <1>4, <2>1, AppendedKinds DEF Resolve, LineInv, FoundInv
  <2>3. CASE stage' = stage
    BY <1>1, <1>2, <2>1, <2>2, <2>3, KeptLine
  <2>4. CASE stage' = "NEEDS_HUMAN"
    <3>1. BuildRuns' = {}
      BY <1>2, <2>1 DEF BuildRuns
    <3> QED
      BY <1>1, <1>2, <2>1, <2>2, <2>4, <3>1, StoppedLine
  <2> QED
    BY <2>3, <2>4 DEF Resolve
<1> QED
  BY <1>3, <1>4

LEMMA OperatorLine ==
  ASSUME TypeInv, TypeInv', LineInv, NoCliCorrections, Operator
  PROVE  LineInv'
<1>1. runs \subseteq Run /\ IdsUnique
  BY LineFacts
<1>2. CASE StartLine
  <2>1. runs = {} /\ ~hasRepo /\ ~phaseIssues /\ ~assessed /\ currentPr = NoPr
    BY <1>2 DEF StartLine, LineInv, FoundInv, EarnedInv, AllMerged, TypeInv, TypeOK
  <2>2. PICK new \in Run : Joins(new, {}, "GENESIS", "genesis", 0)
    BY <1>1, <1>2, EnqueueJoins DEF StartLine, Stages, Commands
  <2>3. runs' = {new} /\ new.stage = "GENESIS" /\ new.command = "genesis"
    BY <2>1, <2>2 DEF Joins
  <2>4. stage' = "GENESIS" /\ UNCHANGED <<hasRepo, phaseIssues, phaseIndex, currentPr, assessed, effects,
                                           opened, merged, phasePr>>
    BY <1>2 DEF StartLine, github, history
  <2>5. IdsUnique' /\ TriageInv'
    BY <2>3 DEF IdsUnique, TriageInv
  <2>6. FoundInv'
    BY <2>1, <2>3, <2>4 DEF LineInv, FoundInv
  <2>7. EarnedInv'
    BY <2>1, <2>3, <2>4 DEF EarnedInv, LineStages, RepairCommands
  <2>8. ForemanInv'
    BY <2>3, <2>4 DEF ForemanInv, BuildRuns
  <2> QED
    BY <2>5, <2>6, <2>7, <2>8 DEF LineInv
<1>3. CASE RequestDarkMode \/ CliUnblock
  BY <1>3, SameRowsKept, KeptLine DEF RequestDarkMode, CliUnblock, project, github, history
<1>4. ASSUME NEW command \in Commands, CancelQueued(command) PROVE LineInv'
  <2>1. UNCHANGED <<project, effects, github, history>>
    BY <1>4 DEF CancelQueued
  <2> QED
    BY <1>1, <1>4, <2>1, CancelKeeps, KeptLine DEF project, github, history
<1>5. ASSUME NEW r \in runs, CancelByJob(r) PROVE LineInv'
  <2>1. UNCHANGED <<project, effects, github, history>> /\ Close(r)
    BY <1>5 DEF CancelByJob
  <2> QED
    BY <1>1, <2>1, CloseKeeps, KeptLine DEF project, github, history
<1> QED
  BY <1>2, <1>3, <1>4, <1>5, ResolveLine DEF Operator, NoCliCorrections, RetryStage, SetPullRequest

LEMMA MachinistLine ==
  ASSUME TypeInv, TypeInv', LineInv, Machinist
  PROVE  LineInv'
<1>1. RowsKept
  BY MachinistKeeps DEF LineInv
<1>2. UNCHANGED <<project, effects, merged, phasePr>>
  BY DEF Machinist, SubmitRun, OpenPr, CompleteRun, github, history
<1>3. phaseIssues \/ opened' = opened
  BY DEF Machinist, SubmitRun, OpenPr, CompleteRun, github, LineInv, FoundInv
<1> QED
  BY <1>1, <1>2, <1>3, KeptLine DEF project

(* A run that reports while the project is at its stage, one handler at a time. *)
LEMMA StopLine ==
  ASSUME TypeInv, TypeInv', LineInv, NEW r \in runs, NEW kind,
         StopOnFailure(r) \/ RepairNeedsHuman(r) \/ AssessFoundFindings(r),
         UNCHANGED <<phaseIssues, phaseIndex, github, phasePr>>
  PROVE  LineInv'
<1>1. /\ runs \subseteq Run /\ IdsUnique /\ Close(r) /\ stage' = "NEEDS_HUMAN"
      /\ UNCHANGED <<hasRepo, currentPr, effects>>
      /\ Accepted(r) /\ Unfinished(r)
  BY LineFacts DEF StopOnFailure, RepairNeedsHuman, AssessFoundFindings, Succeeded, Accepted, Stop, Unfinished
<1>2. /\ RowsKept
      /\ \A row \in runs' : Unfinished(row) => row \in runs \ {r}
  BY <1>1, CloseKeeps
<1>3. BuildRuns' = {}
  <2>1. CASE stage = "BUILD"
    <3>1. r \in BuildRuns
      BY <1>1, <2>1 DEF Accepted, IsStale, BuildRuns
    <3> QED
      BY <1>2, <3>1 DEF LineInv, ForemanInv, BuildRuns
  <2>2. CASE stage # "BUILD"
    BY <1>2, <2>2, LineFacts DEF BuildRuns
  <2> QED
    BY <2>1, <2>2
<1>4. stage \in LineStages \cup {"MAINTAIN"}
  BY <1>1 DEF Accepted, IsStale, LineInv, EarnedInv, TriageInv
<1>5. ~hasRepo => \A row \in runs' : ~Unfinished(row)
  BY <1>1, <1>2 DEF LineInv, FoundInv
<1>6. hasRepo => phaseIssues
  BY <1>1 DEF LineInv, FoundInv
<1>7. \A row \in runs' : row.stage = "TRIAGE" /\ IsLast(row)' => currentPr # NoPr
  BY <1>1, <1>2, KeptRowsLine DEF Accepted, IsStale, LineInv, EarnedInv, LineStages
<1>8. assessed' = assessed \/ (assessed' = TRUE /\ stage = "ASSESS")
  BY DEF StopOnFailure, RepairNeedsHuman, AssessFoundFindings, Succeeded, Accepted, IsStale
<1> QED
  BY <1>1, <1>2, <1>3, <1>4, <1>5, <1>6, <1>7, <1>8, StoppedLine DEF LineStages, github

LEMMA RetryLine ==
  ASSUME TypeInv, TypeInv', LineInv, NEW r \in runs, RetryRun(r),
         UNCHANGED <<phaseIssues, phaseIndex, github, phasePr>>
  PROVE  LineInv'
<1>1. /\ runs \subseteq Run /\ IdsUnique /\ Accepted(r) /\ Unfinished(r)
      /\ UNCHANGED <<stage, hasRepo, currentPr, assessed, effects>>
      /\ r.stage \in Stages /\ r.command \in Commands /\ r.ref \in Nat
  BY LineFacts DEF RetryRun, Accepted, Unfinished, Run
<1>2. r.attempt + 1 \in 1..2
  BY <1>1 DEF RetryRun, Run
<1>3. PICK new \in Run : Joins(new, {r}, r.stage, r.command, r.ref)
  BY <1>1, <1>2, CloseAndEnqueueJoins DEF RetryRun
<1>4. /\ new \in runs' /\ new.stage = r.stage /\ new.command = r.command /\ new.ref = r.ref
      /\ \A row \in runs' : row = new \/ (row \in runs \ {r} /\ Unfinished(row))
      /\ IdsUnique'
  BY <1>1, <1>3, JoinedRows
<1>5. CASE phaseIssues
  <2>1. /\ r.stage \in LineStages /\ r.stage # "GENESIS"
        /\ r.stage = stage \/ (r.stage = "BUILD" /\ stage = "REVIEW_LOOP")
        /\ r.command \in RepairCommands => r.stage = "REVIEW_LOOP"
        /\ r.stage = "ASSESS" => AllMerged
        /\ r.stage \in {"DEPLOY_DEV", "TRIAGE"} => assessed
    BY <1>1, <1>5 DEF Accepted, IsStale, LineInv, FoundInv, EarnedInv, LineStages
  <2>2. r.stage = "BUILD" => r \in BuildRuns /\ stage = "BUILD" /\ r.ref = phaseIndex
    BY <1>1, <2>1 DEF BuildRuns, LineInv, ForemanInv
  <2>3. BuildRuns \ {r} # {} => stage = "BUILD" /\ r.stage # "BUILD"
    BY <2>2 DEF LineInv, ForemanInv
  <2>4. r.stage # "TRIAGE"
    BY <2>1 DEF LineStages
  <2>5. stage = "BUILD" => currentPr = NoPr
    BY DEF LineInv, ForemanInv
  <2> QED
    BY <1>1, <1>3, <1>5, <2>1, <2>2, <2>3, <2>4, <2>5, JoinedLine DEF github
<1>6. CASE ~phaseIssues
  <2>1. ~hasRepo /\ r.stage = "GENESIS" /\ r.command = "genesis" /\ ~assessed
    BY <1>1, <1>6 DEF LineInv, FoundInv, EarnedInv, AllMerged, TypeInv, TypeOK
  <2>2. runs' = {new}
    BY <1>1, <1>4, <2>1 DEF LineInv, FoundInv
  <2>3. IdsUnique' /\ TriageInv'
    BY <1>4, <2>1, <2>2 DEF IdsUnique, TriageInv
  <2>4. FoundInv'
    BY <1>1, <1>4, <1>6, <2>1, <2>2 DEF LineInv, FoundInv, Accepted, IsStale, github
  <2>5. EarnedInv'
    BY <1>1, <1>4, <2>1, <2>2 DEF LineInv, EarnedInv, LineStages, RepairCommands, Accepted, IsStale
  <2>6. ForemanInv'
    BY <1>1, <1>4, <2>1, <2>2 DEF LineInv, ForemanInv, BuildRuns
  <2> QED
    BY <2>3, <2>4, <2>5, <2>6 DEF LineInv
<1> QED
  BY <1>5, <1>6

LEMMA GenesisDoneLine ==
  ASSUME TypeInv, TypeInv', LineInv, NEW r \in runs, GenesisDone(r),
         UNCHANGED <<phaseIssues, phaseIndex, github, phasePr>>
  PROVE  LineInv'
<1>1. /\ runs \subseteq Run /\ IdsUnique /\ Close(r) /\ r.stage = "GENESIS" /\ stage = "GENESIS"
      /\ Unfinished(r) /\ stage' = "BUILD" /\ hasRepo' = TRUE /\ UNCHANGED <<currentPr, assessed>>
      /\ InsertEffect("register-repository", NoPr)
  BY LineFacts DEF GenesisDone, Succeeded, Accepted, IsStale, Unfinished
<1>2. ~hasRepo /\ ~phaseIssues /\ effects = <<>> /\ ~assessed
  BY <1>1 DEF LineInv, FoundInv, EarnedInv, AllMerged, TypeInv, TypeOK
<1>3. currentPr = NoPr
  BY <1>2, LineFacts
<1>4. Len(effects') = 1 /\ \A i \in DOMAIN effects' : effects'[i].kind = "register-repository"
  <2> DEFINE new == [kind |-> "register-repository", pr |-> NoPr]
  <2>1. new.kind = "register-repository" /\ effects' = Append(<<>>, new)
    BY <1>1, <1>2 DEF InsertEffect
  <2> HIDE DEF new
  <2> QED
    BY <2>1
<1>5. RowsKept /\ \A row \in runs' : Unfinished(row) => row \in runs \ {r}
  BY <1>1, CloseKeeps
<1>6. \A row \in runs' : ~Unfinished(row)
  BY <1>1, <1>2, <1>5 DEF LineInv, FoundInv
<1>7. \A row \in runs' : row.stage = "GENESIS" /\ row.command = "genesis"
  BY <1>2, <1>5, KeptRowsLine
<1>8. IdsUnique' /\ TriageInv'
  BY <1>5, <1>7 DEF RowsKept, TriageInv
<1>9. FoundInv'
  BY <1>1, <1>2, <1>4, <1>6, <1>7 DEF LineInv, FoundInv, github
<1>10. EarnedInv'
  BY <1>1, <1>2, <1>7 DEF EarnedInv, LineStages, RepairCommands
<1>11. ForemanInv'
  BY <1>1, <1>3, <1>6, <1>7 DEF ForemanInv, BuildRuns
<1> QED
  BY <1>8, <1>9, <1>10, <1>11 DEF LineInv

(* A foreman hands its pull request over: it was the one in flight. *)
LEMMA HandedOffLine ==
  ASSUME TypeInv, TypeInv', LineInv, NEW r \in runs, HandedOff(r),
         UNCHANGED <<phaseIssues, phaseIndex, github, phasePr>>
  PROVE  LineInv'
<1>1. /\ runs \subseteq Run /\ IdsUnique /\ Close(r) /\ r.stage = "BUILD" /\ Unfinished(r)
      /\ stage \in {"BUILD", "REVIEW_LOOP"} /\ stage' = "REVIEW_LOOP"
      /\ UNCHANGED <<hasRepo, assessed, effects>>
  BY LineFacts
     DEF HandedOff, Succeeded, Accepted, IsStale, Unfinished, LineInv, EarnedInv, LineStages
<1>2. r \in BuildRuns /\ stage = "BUILD" /\ currentPr = NoPr
  BY <1>1 DEF BuildRuns, LineInv, ForemanInv
<1>3. phaseIssues /\ hasRepo
  BY <1>1, <1>2 DEF LineInv, FoundInv
<1>4. RowsKept /\ \A row \in runs' : Unfinished(row) => row \in runs \ {r}
  BY <1>1, CloseKeeps
<1>5. BuildRuns' = {}
  BY <1>2, <1>4 DEF BuildRuns, LineInv, ForemanInv
<1>6. \A row \in runs' : row.stage = "TRIAGE" => ~IsLast(row)'
  BY <1>2, <1>4, KeptRowsLine
<1>7. Closed' = Closed
  BY DEF Closed
<1>8. AllMerged' <=> AllMerged
  BY <1>7 DEF AllMerged, github
<1>9. IdsUnique' /\ TriageInv'
  BY <1>4, <1>6 DEF RowsKept, TriageInv
<1>10. FoundInv'
  BY <1>1, <1>3, <1>4, KeptRowsLine DEF LineInv, FoundInv, github
<1>11. EarnedInv'
  BY <1>1, <1>4, <1>8, KeptRowsLine DEF LineInv, EarnedInv, LineStages
<1>12. ForemanInv'
  BY <1>1, <1>4, <1>5, KeptRowsLine DEF LineInv, ForemanInv
<1> QED
  BY <1>9, <1>10, <1>11, <1>12 DEF LineInv

LEMMA OnRunCompletedLine ==
  ASSUME TypeInv, TypeInv', LineInv, NEW r \in runs, OnRunCompleted(r)
  PROVE  LineInv'
<1>1. UNCHANGED <<phaseIssues, phaseIndex, github, phasePr>>
  BY DEF OnRunCompleted
<1>2. runs \subseteq Run /\ IdsUnique
  BY LineFacts
<1>3. CASE StaleRun(r) \/ RepairDone(r)
  <2>1. Close(r) /\ UNCHANGED <<stage, hasRepo, currentPr, assessed, effects>>
    BY <1>3 DEF StaleRun, RepairDone
  <2> QED
    BY <1>1, <1>2, <2>1, CloseKeeps, KeptLine DEF github
<1>4. CASE AssessPassed(r)
  <2>1. r.stage = "ASSESS" /\ stage = "ASSESS" /\ stage' = "DEPLOY_DEV" /\ assessed' = TRUE
        /\ UNCHANGED <<hasRepo, currentPr, effects>>
    BY <1>4 DEF AssessPassed, Succeeded, Accepted, IsStale
  <2>2. PICK new \in Run : Joins(new, {r}, "DEPLOY_DEV", "dev", 0)
    <3>1. CloseAndEnqueue(r, "DEPLOY_DEV", "dev", 0, 1)
      BY <1>4 DEF AssessPassed
    <3>2. "DEPLOY_DEV" \in Stages /\ "dev" \in Commands /\ 0 \in Nat /\ 1 \in 1..2
      BY DEF Stages, Commands
    <3> QED
      BY <1>2, <3>1, <3>2, CloseAndEnqueueJoins
  <2>3. phaseIssues /\ AllMerged /\ BuildRuns = {}
    BY <2>1, LineFacts DEF LineInv, EarnedInv
  <2> QED
    BY <1>1, <2>1, <2>2, <2>3, JoinedLine DEF github, LineStages, RepairCommands
<1>5. CASE DeployDone(r)
  <2>1. Close(r) /\ stage = "DEPLOY_DEV" /\ stage' = "MAINTAIN"
        /\ UNCHANGED <<hasRepo, currentPr, assessed, effects>>
    BY <1>5 DEF DeployDone, Succeeded, Accepted, IsStale
  <2>2. RowsKept /\ phaseIssues /\ hasRepo /\ BuildRuns' = {}
    BY <1>2, <2>1, CloseKeeps, LineFacts DEF BuildRuns
  <2>3. Closed' = Closed
    BY <1>1 DEF Closed
  <2>4. AllMerged' <=> AllMerged
    BY <1>1, <2>3 DEF AllMerged, github
  <2>5. FoundInv'
    BY <1>1, <2>1, <2>2, KeptRowsLine DEF LineInv, FoundInv, github
  <2>6. EarnedInv'
    BY <1>1, <2>1, <2>2, <2>4, KeptRowsLine DEF LineInv, EarnedInv
  <2>7. ForemanInv' /\ TriageInv' /\ IdsUnique'
    BY <1>1, <2>1, <2>2, KeptRowsLine DEF LineInv, ForemanInv, TriageInv
  <2> QED
    BY <2>5, <2>6, <2>7 DEF LineInv
<1>6. ~Triaged(r)
  BY DEF Triaged, Succeeded, Accepted, IsStale, LineInv, EarnedInv, LineStages
<1> QED
  BY <1>1, <1>3, <1>4, <1>5, <1>6, StopLine, RetryLine, GenesisDoneLine, HandedOffLine DEF OnRunCompleted

LEMMA EvaluateLine ==
  ASSUME TypeInv, TypeInv', LineInv, Evaluate
  PROVE  LineInv'
<1>1. /\ runs \subseteq Run /\ IdsUnique /\ effects \in Seq(Effect)
      /\ UNCHANGED <<hasRepo, phaseIssues, phaseIndex, currentPr, assessed, opened, merged, phasePr>>
  BY LineFacts DEF Evaluate, github, history, TypeInv, TypeOK
<1>2. Judging => /\ currentPr # NoPr /\ phaseIssues /\ hasRepo /\ stage = "REVIEW_LOOP" /\ BuildRuns = {}
                 /\ \A i \in DOMAIN effects : effects[i].kind \in {"apply-label", "comment"}
  BY LineFacts DEF Judging, Reviewing, LineInv, FoundInv
<1>3. CASE EvaluateNothing \/ EvaluateStalled \/ EvaluatePassGray
  <2>1. UNCHANGED <<stage, effects>> /\ RowsKept
    BY <1>3, SameRowsKept DEF EvaluateNothing, EvaluateStalled, EvaluatePassGray
  <2> QED
    BY <1>1, <2>1, KeptLine
<1>4. CASE EvaluatePassDark
  <2>1. UNCHANGED stage /\ RowsKept
    BY <1>4, SameRowsKept DEF EvaluatePassDark
  <2>2. effects' = effects \/ \A i \in DOMAIN effects' : effects'[i].kind \in {"apply-label", "comment"}
    BY <1>1, <1>2, <1>4, AppendedKinds DEF EvaluatePassDark
  <2> QED
    BY <1>1, <1>2, <1>4, <2>1, <2>2, KeptLine DEF EvaluatePassDark
<1>5. CASE EvaluateRepair
  <2>1. Judging /\ Enqueue("REVIEW_LOOP", "greptile-fix", currentPr, 1) /\ UNCHANGED <<stage, effects>>
    BY <1>5 DEF EvaluateRepair
  <2>2. currentPr \in Nat
    BY BoundsAssumption DEF TypeInv, TypeOK
  <2>3. PICK new \in Run : Joins(new, {}, "REVIEW_LOOP", "greptile-fix", currentPr)
    BY <1>1, <2>1, <2>2, EnqueueJoins DEF Stages, Commands
  <2> QED
    BY <1>1, <1>2, <2>1, <2>3, JoinedLine DEF LineStages
<1>6. CASE EvaluateCapReached
  <2>1. Judging /\ stage' = "NEEDS_HUMAN" /\ UNCHANGED <<runs, effects>> /\ RowsKept
    BY <1>6, SameRowsKept DEF EvaluateCapReached, Stop
  <2>2. BuildRuns' = {}
    BY <1>2, <2>1 DEF BuildRuns
  <2> QED
    BY <1>1, <1>2, <2>1, <2>2, StoppedLine
<1> QED
  BY <1>3, <1>4, <1>5, <1>6 DEF Evaluate

LEMMA UnblockLine ==
  ASSUME TypeInv, TypeInv', LineInv, Unblock
  PROVE  LineInv'
<1>1. /\ runs \subseteq Run /\ IdsUnique
      /\ UNCHANGED <<hasRepo, phaseIssues, phaseIndex, currentPr, assessed, effects, opened, merged, phasePr>>
  BY LineFacts DEF Unblock, github, history
<1>2. CASE UnblockIgnored
  BY <1>1, <1>2, SameRowsKept, KeptLine DEF UnblockIgnored
<1>3. CASE UnblockToReview
  <2>1. /\ currentPr # NoPr /\ hasRepo /\ stage' = "REVIEW_LOOP" /\ stage = "NEEDS_HUMAN"
        /\ UNCHANGED runs /\ RowsKept
    BY <1>3, SameRowsKept DEF UnblockToReview
  <2>2. phaseIssues /\ BuildRuns' = {}
    BY <2>1, LineFacts DEF BuildRuns
  <2> QED
    BY <1>1, <2>1, <2>2, StoppedLine
<1>4. CASE UnblockToRerun
  <2>1. stage = "NEEDS_HUMAN" /\ ~(currentPr # NoPr /\ hasRepo) /\ BuildRuns = {}
    BY <1>4, LineFacts DEF UnblockToRerun
  <2>2. PICK last \in runs : Rerun(last)
    BY <1>4 DEF UnblockToRerun
  <2>3. /\ IsLast(last) /\ stage' = last.stage /\ Enqueue(last.stage, last.command, last.ref, 1)
        /\ last.stage \in Stages /\ last.command \in Commands /\ last.ref \in Nat
    BY <1>1, <2>2 DEF Rerun, Run
  <2>4. PICK new \in Run : Joins(new, {}, last.stage, last.command, last.ref)
    BY <1>1, <2>3, EnqueueJoins
  <2>5. currentPr = NoPr
    BY <2>1, LineFacts
  <2>6. last.stage # "TRIAGE"
    BY <2>1, <2>3, <2>5 DEF LineInv, TriageInv
  <2>7. CASE phaseIssues
    <3>1. /\ last.stage \in LineStages /\ last.stage # "GENESIS"
          /\ last.command \in RepairCommands => last.stage = "REVIEW_LOOP"
          /\ last.stage = "ASSESS" => AllMerged
          /\ last.stage \in {"DEPLOY_DEV", "TRIAGE"} => assessed
          /\ last.stage = "BUILD" => last.ref = phaseIndex
      BY <2>6, <2>7 DEF LineInv, FoundInv, EarnedInv, ForemanInv
    <3> QED
      BY <1>1, <2>1, <2>3, <2>4, <2>5, <2>6, <2>7, <3>1, JoinedLine
  <2>8. CASE ~phaseIssues
    <3>1. ~hasRepo /\ ~assessed /\ last.stage = "GENESIS" /\ last.command = "genesis"
          /\ \A row \in runs : ~Unfinished(row)
      BY <2>1, <2>8 DEF LineInv, FoundInv, EarnedInv, AllMerged, TypeInv, TypeOK
    <3>2. runs' = {new} /\ new.stage = "GENESIS" /\ new.command = "genesis"
      BY <2>4, <3>1 DEF Joins
    <3>3. IdsUnique' /\ TriageInv'
      BY <3>2 DEF IdsUnique, TriageInv
    <3>4. FoundInv'
      BY <1>1, <2>3, <2>8, <3>1, <3>2 DEF LineInv, FoundInv
    <3>5. EarnedInv'
      BY <1>1, <2>3, <3>1, <3>2 DEF EarnedInv, LineStages, RepairCommands
    <3>6. ForemanInv'
      BY <2>3, <3>1, <3>2 DEF ForemanInv, BuildRuns
    <3> QED
      BY <3>3, <3>4, <3>5, <3>6 DEF LineInv
  <2> QED
    BY <2>7, <2>8
<1> QED
  BY <1>2, <1>3, <1>4 DEF Unblock

(* The merge of p was reported.  What closing the current phase does.          *)
LEMMA ClosedPhase ==
  ASSUME TypeInv, MergeInv, LineInv, NEW p \in merged, ClosesPhase(p)
  PROVE  /\ p \notin Closed /\ phasePr'[phaseIndex] = p
         /\ {phasePr'[k] : k \in 0..phaseIndex - 1} = Closed
         /\ stage = "REVIEW_LOOP" /\ currentPr = p /\ phaseIssues /\ hasRepo /\ BuildRuns = {}
<1>1. phaseIndex \in 0..NumPhases - 1 /\ phasePr \in [0..NumPhases - 1 -> 0..MaxPrs] /\ NumPhases \in Nat
  BY BoundsAssumption DEF TypeInv, TypeOK
<1>2. phasePr'[phaseIndex] = p /\ \A k \in 0..phaseIndex - 1 : phasePr'[k] = phasePr[k]
  BY <1>1 DEF ClosesPhase
<1>3. stage = "REVIEW_LOOP" /\ currentPr = p /\ p \notin Closed
  BY DEF ClosesPhase, MergeInv, MergeCountedOnce
<1> QED
  BY <1>2, <1>3, LineFacts DEF Closed

LEMMA NextPhaseLine ==
  ASSUME TypeInv, TypeInv', MergeInv, LineInv, NEW p \in merged, NextPhase(p),
         UNCHANGED <<hasRepo, phaseIssues, assessed, effects, github>>
  PROVE  LineInv'
<1>1. /\ runs \subseteq Run /\ IdsUnique /\ phaseIssues /\ hasRepo /\ BuildRuns = {}
      /\ phaseIndex \in Nat
  <2>1. ClosesPhase(p)
    BY DEF NextPhase
  <2>2. phaseIndex \in Nat
    BY BoundsAssumption DEF TypeInv, TypeOK
  <2> QED
    BY <2>1, <2>2, ClosedPhase, LineFacts
<1>2. ~AllMerged /\ ~assessed /\ stage # "ASSESS"
  BY <1>1, ClosedPhase, BoundsAssumption DEF NextPhase, MorePhases, AllMerged, LineInv, EarnedInv
<1>3. PICK new \in Run : Joins(new, {}, "BUILD", "foreman", phaseIndex + 1)
  <2>1. Enqueue("BUILD", "foreman", phaseIndex + 1, 1)
    BY DEF NextPhase
  <2> QED
    BY <1>1, <2>1, EnqueueJoins DEF Stages, Commands
<1>4. /\ new \in runs' /\ new.stage = "BUILD" /\ new.command = "foreman" /\ new.ref = phaseIndex'
      /\ \A r \in runs' : r = new \/ (r \in runs /\ Unfinished(r))
      /\ \A r \in runs' : IsLast(r)' => r = new
      /\ IdsUnique'
  BY <1>1, <1>3, JoinedRows DEF NextPhase
<1>5. stage' = "BUILD" /\ currentPr' = NoPr
  BY DEF NextPhase
<1>6. FoundInv'
  BY <1>1, <1>4, <1>5 DEF LineInv, FoundInv
<1>7. EarnedInv'
  BY <1>2, <1>4, <1>5 DEF LineInv, EarnedInv, LineStages, RepairCommands
<1>8. ForemanInv'
  BY <1>1, <1>4, <1>5 DEF LineInv, ForemanInv, BuildRuns
<1>9. TriageInv'
  BY <1>4 DEF TriageInv
<1> QED
  BY <1>4, <1>6, <1>7, <1>8, <1>9 DEF LineInv

LEMMA LastPhaseLine ==
  ASSUME TypeInv, TypeInv', MergeInv, LineInv, NEW p \in merged, LastPhaseMerged(p),
         UNCHANGED <<hasRepo, phaseIssues, assessed, effects, github>>
  PROVE  LineInv' /\ AllMerged'
<1>1. /\ runs \subseteq Run /\ IdsUnique /\ phaseIssues /\ hasRepo /\ BuildRuns = {}
      /\ phaseIndex = NumPhases - 1
  <2>1. ClosesPhase(p) /\ ~MorePhases
    BY DEF LastPhaseMerged
  <2>2. phaseIssues => phaseIndex = NumPhases - 1
    BY <2>1, BoundsAssumption DEF MorePhases, TypeInv, TypeOK
  <2> QED
    BY <2>1, <2>2, ClosedPhase, LineFacts
<1>2. Closed' = Closed /\ phasePr'[phaseIndex] = p /\ p \notin Closed
  BY ClosedPhase DEF LastPhaseMerged, Closed
<1>3. AllMerged'
  BY <1>1, <1>2 DEF LastPhaseMerged, AllMerged, github
<1>4. PICK new \in Run : Joins(new, {}, "ASSESS", "assess", 0)
  <2>1. Enqueue("ASSESS", "assess", 0, 1)
    BY DEF LastPhaseMerged
  <2> QED
    BY <1>1, <2>1, EnqueueJoins DEF Stages, Commands
<1>5. /\ new \in runs' /\ new.stage = "ASSESS" /\ new.command = "assess"
      /\ \A r \in runs' : r = new \/ (r \in runs /\ Unfinished(r))
      /\ \A r \in runs' : IsLast(r)' => r = new
      /\ IdsUnique'
  BY <1>1, <1>4, JoinedRows
<1>6. stage' = "ASSESS" /\ UNCHANGED <<phaseIndex, currentPr>>
  BY DEF LastPhaseMerged
<1>7. FoundInv'
  BY <1>1, <1>5, <1>6 DEF LineInv, FoundInv, github
<1>8. EarnedInv'
  BY <1>3, <1>5, <1>6 DEF LineInv, EarnedInv, LineStages, RepairCommands
<1>9. ForemanInv'
  BY <1>1, <1>5, <1>6 DEF LineInv, ForemanInv, BuildRuns
<1>10. TriageInv'
  BY <1>5 DEF TriageInv
<1> QED
  BY <1>3, <1>5, <1>7, <1>8, <1>9, <1>10 DEF LineInv

LEMMA OnPullRequestMergedLine ==
  ASSUME TypeInv, TypeInv', MergeInv, LineInv, NEW p \in merged, OnPullRequestMerged(p)
  PROVE  LineInv'
<1>1. UNCHANGED <<hasRepo, phaseIssues, assessed, effects, github>>
  BY DEF OnPullRequestMerged
<1>2. CASE MergeIgnored(p)
  BY <1>1, <1>2, SameRowsKept, KeptLine DEF MergeIgnored, github
<1>3. CASE MaintenanceMerged(p)
  <2>1. /\ stage = "REVIEW_LOOP" /\ stage' = "MAINTAIN" /\ currentPr' = NoPr /\ assessed
        /\ UNCHANGED <<phaseIndex, runs, phasePr>>
    BY <1>3 DEF MaintenanceMerged
  <2>2. BuildRuns' = {} /\ IdsUnique' /\ hasRepo /\ phaseIssues
    BY <2>1, LineFacts DEF BuildRuns, IdsUnique
  <2>3. Closed' = Closed
    BY <2>1 DEF Closed
  <2>4. AllMerged' <=> AllMerged
    BY <1>1, <2>1, <2>3 DEF AllMerged, github
  <2>5. FoundInv'
    BY <1>1, <2>1, <2>2 DEF LineInv, FoundInv, github
  <2>6. EarnedInv'
    BY <1>1, <2>1, <2>4 DEF LineInv, EarnedInv
  <2>7. ForemanInv' /\ TriageInv'
    BY <2>1, <2>2 DEF LineInv, ForemanInv, TriageInv
  <2> QED
    BY <2>2, <2>5, <2>6, <2>7 DEF LineInv
<1> QED
  BY <1>1, <1>2, <1>3, NextPhaseLine, LastPhaseLine DEF OnPullRequestMerged

LEMMA GitHubLine ==
  ASSUME TypeInv, TypeInv', MergeInv, LineInv, GitHub
  PROVE  LineInv'
<1>1. runs \subseteq Run /\ IdsUnique
  BY LineFacts
<1>2. CASE GateMoved
  BY <1>2, SameRowsKept, KeptLine DEF GateMoved, project, github, history
<1>3. ASSUME NEW p \in 1..MaxPrs, MergePr(p) PROVE LineInv'
  BY <1>3, SameRowsKept, KeptLine DEF MergePr, project, history
<1>4. ASSUME NEW p \in 1..MaxPrs, WebhookReportsMerge(p) PROVE LineInv'
  BY <1>4, OnPullRequestMergedLine DEF WebhookReportsMerge
<1>5. CASE OnIssueOpened
  <2>1. stage = "MAINTAIN" /\ Enqueue("TRIAGE", "triage", 0, 1) /\ UNCHANGED <<project, effects, github, history>>
    BY <1>5 DEF OnIssueOpened
  <2>2. PICK new \in Run : Joins(new, {}, "TRIAGE", "triage", 0)
    BY <1>1, <2>1, EnqueueJoins DEF Stages, Commands
  <2>3. phaseIssues /\ hasRepo /\ BuildRuns = {} /\ assessed
    BY <2>1, LineFacts DEF LineInv, EarnedInv
  <2> QED
    BY <2>1, <2>2, <2>3, JoinedLine DEF project, github, history, RepairCommands
<1>6. CASE OnRelease
  <2>1. /\ stage = "MAINTAIN" /\ stage' = "ASSESS" /\ Enqueue("ASSESS", "assess", 0, 1)
        /\ UNCHANGED <<hasRepo, phaseIssues, phaseIndex, currentPr, assessed, effects, github, history>>
    BY <1>6 DEF OnRelease
  <2>2. PICK new \in Run : Joins(new, {}, "ASSESS", "assess", 0)
    BY <1>1, <2>1, EnqueueJoins DEF Stages, Commands
  <2>3. phaseIssues /\ hasRepo /\ BuildRuns = {} /\ AllMerged
    BY <2>1, LineFacts DEF LineInv, EarnedInv
  <2> QED
    BY <2>1, <2>2, <2>3, JoinedLine DEF github, history, RepairCommands, LineStages
<1> QED
  BY <1>2, <1>3, <1>4, <1>5, <1>6 DEF GitHub

LEMMA LabelAppliedLine ==
  ASSUME TypeInv, TypeInv', LineInv, LabelApplied,
         UNCHANGED <<stage, hasRepo, currentPr, assessed, opened, merged, phasePr>>
  PROVE  LineInv'
<1>1. /\ effects # <<>> /\ Head(effects).kind = "apply-label" /\ effects' = Tail(effects)
      /\ Enqueue("REVIEW_LOOP", "shepherd", currentPr, 1) /\ UNCHANGED <<phaseIssues, phaseIndex>>
      /\ effects \in Seq(Effect)
  BY DEF LabelApplied, TakeEffect, TypeInv, TypeOK
<1>2. 1 \in DOMAIN effects /\ effects[1].kind = "apply-label"
  BY <1>1
<1>3. phaseIssues
  BY <1>1, <1>2 DEF LineInv, FoundInv
<1>4. \A i \in DOMAIN effects' : effects'[i].kind \in {"apply-label", "comment"}
  BY <1>1, <1>3, TakenKinds DEF LineInv, FoundInv
<1>5. currentPr \in Nat /\ runs \subseteq Run
  BY BoundsAssumption DEF TypeInv, TypeOK
<1>6. PICK new \in Run : Joins(new, {}, "REVIEW_LOOP", "shepherd", currentPr)
  BY <1>1, <1>5, EnqueueJoins DEF Stages, Commands
<1>7. (BuildRuns # {} => stage = "BUILD") /\ (stage = "BUILD" => currentPr = NoPr)
  BY DEF LineInv, ForemanInv
<1> QED
  BY <1>1, <1>3, <1>4, <1>6, <1>7, JoinedLine DEF LineStages

(* The phase issues are there: the first foreman is the only row left.         *)
LEMMA PhaseIssuesLine ==
  ASSUME TypeInv, TypeInv', LineInv, PhaseIssuesCreated,
         UNCHANGED <<stage, hasRepo, currentPr, assessed, opened, merged, phasePr>>
  PROVE  LineInv'
<1>1. /\ effects # <<>> /\ Head(effects).kind = "create-phase-issues" /\ effects' = Tail(effects)
      /\ Enqueue("BUILD", "foreman", 0, 1) /\ phaseIssues' = TRUE /\ phaseIndex' = 0
      /\ effects \in Seq(Effect) /\ runs \subseteq Run
  BY DEF PhaseIssuesCreated, TakeEffect, TypeInv, TypeOK
<1>2. 1 \in DOMAIN effects /\ effects[1].kind = "create-phase-issues"
  BY <1>1
<1>3. ~phaseIssues /\ hasRepo
  BY <1>1, <1>2 DEF LineInv, FoundInv
<1>4. stage = "BUILD" /\ currentPr = NoPr /\ phaseIndex = 0 /\ Len(effects) <= 1
      /\ \A r \in runs : ~Unfinished(r)
  BY <1>3 DEF LineInv, FoundInv, ForemanInv
<1>5. effects' = <<>>
  BY <1>1, <1>4
<1>6. PICK new \in Run : Joins(new, {}, "BUILD", "foreman", 0)
  BY <1>1, EnqueueJoins DEF Stages, Commands
<1>7. runs' = {new} /\ new.stage = "BUILD" /\ new.command = "foreman" /\ new.ref = 0
  BY <1>4, <1>6 DEF Joins
<1>8. Closed' = Closed /\ phaseIndex' = phaseIndex
  BY <1>1, <1>4 DEF Closed
<1>9. AllMerged' <=> AllMerged
  BY <1>8 DEF AllMerged
<1>10. FoundInv'
  BY <1>1, <1>3, <1>4, <1>5, <1>7 DEF FoundInv
<1>11. EarnedInv'
  BY <1>4, <1>7, <1>9 DEF LineInv, EarnedInv, LineStages, RepairCommands
<1>12. ForemanInv'
  BY <1>1, <1>4, <1>7 DEF ForemanInv, BuildRuns
<1>13. IdsUnique' /\ TriageInv'
  BY <1>7 DEF IdsUnique, TriageInv
<1> QED
  BY <1>10, <1>11, <1>12, <1>13 DEF LineInv

LEMMA RegisteredLine ==
  ASSUME TypeInv, TypeInv', LineInv, RepositoryRegistered,
         UNCHANGED <<stage, hasRepo, currentPr, assessed, opened, merged, phasePr>>
  PROVE  LineInv'
<1> DEFINE next == [kind |-> "create-phase-issues", pr |-> NoPr]
<1>1. /\ effects # <<>> /\ Head(effects).kind = "register-repository"
      /\ effects' = Append(Tail(effects), next) /\ next.kind = "create-phase-issues"
      /\ UNCHANGED <<phaseIssues, phaseIndex, runs>> /\ effects \in Seq(Effect)
  BY DEF RepositoryRegistered, TypeInv, TypeOK
<1> HIDE DEF next
<1>2. 1 \in DOMAIN effects /\ effects[1].kind = "register-repository"
  BY <1>1
<1>3. ~phaseIssues /\ hasRepo /\ Len(effects) <= 1 /\ RowsKept
  BY <1>1, <1>2, SameRowsKept DEF LineInv, FoundInv
<1>4. Tail(effects) = <<>>
  BY <1>1, <1>3
<1>5. Len(effects') = 1 /\ \A i \in DOMAIN effects' : effects'[i].kind = "create-phase-issues"
  <2>1. effects' = Append(<<>>, next)
    BY <1>1, <1>4
  <2> QED
    BY <1>1, <2>1
<1>6. Closed' = Closed
  BY <1>1 DEF Closed
<1>7. AllMerged' <=> AllMerged
  BY <1>1, <1>6 DEF AllMerged
<1>8. FoundInv'
  BY <1>1, <1>3, <1>5 DEF LineInv, FoundInv
<1>9. EarnedInv'
  BY <1>1, <1>7 DEF LineInv, EarnedInv
<1>10. ForemanInv' /\ TriageInv' /\ IdsUnique'
  BY <1>1 DEF LineInv, ForemanInv, BuildRuns, TriageInv, IsLast, IdsUnique
<1> QED
  BY <1>8, <1>9, <1>10 DEF LineInv

(* The oldest effect is done, or failed, and nothing follows it. *)
LEMMA DroppedEffectLine ==
  ASSUME TypeInv, TypeInv', LineInv, effects # <<>>, effects' = Tail(effects),
         UNCHANGED <<project, runs, opened, merged, phasePr>>
  PROVE  LineInv'
<1>1. effects \in Seq(Effect) /\ RowsKept
  BY SameRowsKept DEF TypeInv, TypeOK
<1>2. CASE phaseIssues
  BY <1>1, <1>2, TakenKinds, KeptLine DEF project, LineInv, FoundInv
<1>3. CASE ~phaseIssues
  <2>1. Len(effects) <= 1 /\ hasRepo
    BY <1>3 DEF LineInv, FoundInv
  <2>2. effects' = <<>>
    BY <1>1, <2>1
  <2>3. Closed' = Closed
    BY DEF Closed, project
  <2>4. AllMerged' <=> AllMerged
    BY <2>3 DEF AllMerged, project
  <2>5. FoundInv'
    BY <1>3, <2>1, <2>2 DEF LineInv, FoundInv, project
  <2>6. EarnedInv'
    BY <2>4 DEF LineInv, EarnedInv, project
  <2>7. ForemanInv' /\ TriageInv' /\ IdsUnique'
    BY DEF LineInv, ForemanInv, BuildRuns, TriageInv, IsLast, IdsUnique, project
  <2> QED
    BY <2>5, <2>6, <2>7 DEF LineInv
<1> QED
  BY <1>2, <1>3

LEMMA BridgeLine ==
  ASSUME TypeInv, TypeInv', LineInv, Bridge
  PROVE  LineInv'
<1>1. CASE RunEffect
  <2>1. UNCHANGED <<stage, hasRepo, currentPr, repairRound, assessed, opened, merged, phasePr>>
    BY <1>1 DEF RunEffect, history
  <2>2. CASE CommentPosted \/ EffectFailed
    <3>1. effects # <<>> /\ effects' = Tail(effects) /\ UNCHANGED <<phaseIssues, phaseIndex, runs>>
      BY <2>2 DEF CommentPosted, EffectFailed, TakeEffect
    <3> QED
      BY <2>1, <3>1, DroppedEffectLine DEF project
  <2> QED
    BY <1>1, <2>1, <2>2, LabelAppliedLine, RegisteredLine, PhaseIssuesLine DEF RunEffect
<1>2. ASSUME NEW p \in 1..MaxPrs, BridgeReportsMerge(p) PROVE LineInv'
  BY <1>2, SameRowsKept, KeptLine DEF BridgeReportsMerge, project, github, history
<1>3. CASE BridgeRestarts
  BY <1>3, SameRowsKept, KeptLine DEF BridgeRestarts, project, github, history
<1> QED
  BY <1>1, <1>2, <1>3 DEF Bridge

LEMMA ScheduledLine ==
  ASSUME TypeInv, TypeInv', MergeInv, LineInv, Scheduled
  PROVE  LineInv'
<1>1. mergeCalls \subseteq merged
  BY DEF TypeInv, TypeOK
<1>2. ASSUME NEW p \in mergeCalls, ScheduledMergeReport(p) PROVE LineInv'
  BY <1>1, <1>2, OnPullRequestMergedLine DEF ScheduledMergeReport
<1> QED
  BY <1>2, OnRunCompletedLine, EvaluateLine, UnblockLine DEF Scheduled

LEMMA LineInvInductive ==
  ASSUME TypeInv, MergeInv, LineInv, NoCliCorrections, [Next]_vars
  PROVE  LineInv'
<1>1. TypeInv'
  BY TypeInvInductive
<1>2. CASE UNCHANGED vars
  BY <1>1, <1>2, SameRowsKept, KeptLine DEF vars, project, github, history
<1> QED
  BY <1>1, <1>2, OperatorLine, MachinistLine, ScheduledLine, GitHubLine, BridgeLine DEF Next

(* The invariants the rest of the proofs share. *)
OrderInv == TypeInv /\ MergeInv /\ LineInv

LEMMA OrderKept == NoCliCorrections /\ Spec => []OrderInv
<1>1. Init => OrderInv
  BY NoRowsAtFirst, NothingCountedAtFirst, LineAtFirst DEF OrderInv
<1>2. ASSUME NoCliCorrections PROVE OrderInv /\ [Next]_vars => OrderInv'
  <2>1. NoCorrections
    BY <1>2 DEF NoCliCorrections, NoCorrections
  <2> QED
    BY <1>2, <2>1, TypeInvInductive, MergeInvInductive, LineInvInductive DEF OrderInv
<1>3. ASSUME NoCliCorrections PROVE Spec => []OrderInv
  BY <1>1, <1>2, <1>3, PTL DEF Spec
<1> QED
  BY <1>3

(* The assessment, and the deployment and maintenance after it, come only     *)
(* after every phase's own pull request merged, whatever runs fail, are       *)
(* retried or report late, whatever is reported twice, stopped or lifted, for  *)
(* every number of phases (stateMachine.ts, onPullRequestMerged and            *)
(* onRunCompleted).                                                            *)
THEOREM AssessmentComesLast == NoCliCorrections /\ Spec => []AssessedAfterEveryPhase
<1>1. OrderInv => AssessedAfterEveryPhase
  BY DEF OrderInv, LineInv, EarnedInv, AllMerged, AssessedAfterEveryPhase
<1> QED
  BY <1>1, OrderKept, PTL

(* Retries, repeated unblocks, repeated merge reports and late effects never   *)
(* start a second foreman for a phase, nor one for a phase that is over.       *)
THEOREM PhasesHaveOneForeman == NoCliCorrections /\ Spec => []OneForemanPerPhase
<1>1. OrderInv => OneForemanPerPhase
  BY DEF OrderInv, LineInv, ForemanInv, OneForemanPerPhase, BuildRuns
<1> QED
  BY <1>1, OrderKept, PTL

-----------------------------------------------------------------------------
(* The stage machine implements the delivery line: every step of it is a step *)
(* of the line, or leaves the line alone                                      *)

LineMoves == [Line!Next]_(Line!vars)

LEMMA LineUntouched ==
  ASSUME UNCHANGED <<stage, phaseIndex, phasePr, hasRepo, assessed, delivered>>
  PROVE  LineMoves
  BY DEF LineMoves, Line!vars

(* A stop is a stop of the line, whatever it is for. *)
LEMMA LineStops ==
  ASSUME OrderInv, stage # "DRAFT", stage' = "NEEDS_HUMAN",
         UNCHANGED <<phaseIndex, phasePr, hasRepo, assessed, delivered>>
  PROVE  LineMoves
  BY DEF LineMoves, Line!vars, Line!Next, Line!Stop

LEMMA OnRunCompletedMoves ==
  ASSUME OrderInv, NEW r \in runs, OnRunCompleted(r)
  PROVE  LineMoves
<1>1. UNCHANGED <<phaseIndex, phasePr>>
  BY DEF OnRunCompleted
<1>2. r.stage \in LineStages \cup {"TRIAGE"} /\ stage \in LineStages \cup {"DRAFT", "NEEDS_HUMAN", "MAINTAIN"}
  BY DEF OrderInv, LineInv, EarnedInv
<1>3. CASE StaleRun(r) \/ RetryRun(r) \/ RepairDone(r)
  BY <1>1, <1>3, LineUntouched DEF StaleRun, RetryRun, RepairDone
<1>4. CASE StopOnFailure(r) \/ RepairNeedsHuman(r)
  <2>1. stage' = "NEEDS_HUMAN" /\ UNCHANGED <<hasRepo, assessed, delivered>>
    BY <1>4 DEF StopOnFailure, RepairNeedsHuman, Stop
  <2>2. stage # "DRAFT"
    BY DEF OrderInv, LineInv, FoundInv
  <2> QED
    BY <1>1, <2>1, <2>2, LineStops
<1>5. CASE GenesisDone(r)
  <2>1. Line!Found
    BY <1>1, <1>5 DEF GenesisDone, Succeeded, Accepted, IsStale, Line!Found, Line!Move
  <2> QED
    BY <2>1 DEF LineMoves, Line!Next
<1>6. CASE HandedOff(r)
  <2>1. r.stage = "BUILD" /\ Unfinished(r) /\ r \in BuildRuns
    BY <1>2, <1>6 DEF HandedOff, Succeeded, Accepted, Unfinished, BuildRuns, LineStages
  <2>2. stage = "BUILD"
    BY <2>1 DEF OrderInv, LineInv, ForemanInv
  <2>3. Line!HandOff
    BY <1>1, <1>6, <2>2 DEF HandedOff, Line!HandOff, Line!Move
  <2> QED
    BY <2>3 DEF LineMoves, Line!Next
<1>7. CASE AssessPassed(r) \/ AssessFoundFindings(r)
  <2>1. Line!Assess
    BY <1>1, <1>7 DEF AssessPassed, AssessFoundFindings, Succeeded, Accepted, IsStale, Stop, Line!Assess,
                      Line!Move
  <2> QED
    BY <2>1 DEF LineMoves, Line!Next
<1>8. CASE DeployDone(r)
  <2>1. Line!Deploy
    BY <1>1, <1>8 DEF DeployDone, Succeeded, Accepted, IsStale, Line!Deploy, Line!Move
  <2> QED
    BY <2>1 DEF LineMoves, Line!Next
<1>9. CASE Triaged(r)
  BY <1>1, <1>9, LineUntouched DEF Triaged
<1> QED
  BY <1>3, <1>4, <1>5, <1>6, <1>7, <1>8, <1>9 DEF OnRunCompleted

LEMMA OnPullRequestMergedMoves ==
  ASSUME OrderInv, NEW p \in merged, OnPullRequestMerged(p)
  PROVE  LineMoves
<1>1. UNCHANGED <<hasRepo, assessed, delivered>>
  BY DEF OnPullRequestMerged
<1>2. /\ phaseIndex \in 0..NumPhases - 1 /\ NumPhases \in Nat \ {0} /\ merged \subseteq 1..opened
      /\ opened \in 0..MaxPrs /\ MaxPrs \in Nat
  BY BoundsAssumption DEF OrderInv, TypeInv, TypeOK
<1>3. p \in 1..MaxPrs
  BY <1>2
<1>4. CASE MergeIgnored(p)
  BY <1>1, <1>4, LineUntouched DEF MergeIgnored
<1>5. CASE MaintenanceMerged(p)
  <2>1. Line!MaintenanceMerged
    BY <1>1, <1>5 DEF MaintenanceMerged, Line!MaintenanceMerged, Line!Move
  <2> QED
    BY <2>1 DEF LineMoves, Line!Next
<1>6. ASSUME ClosesPhase(p) PROVE Line!Close(p) /\ stage = "REVIEW_LOOP" /\ phaseIssues
  <2>1. \A k \in 0..phaseIndex - 1 : phasePr[k] # p
    BY <1>6, ClosedPhase DEF OrderInv, Closed
  <2> QED
    BY <1>6, <2>1, ClosedPhase DEF OrderInv, ClosesPhase, Line!Close
<1>7. CASE NextPhase(p)
  <2>1. phaseIndex < Line!LastPhase
    BY <1>2, <1>7 DEF NextPhase, MorePhases, Line!LastPhase
  <2>2. Line!NextPhase(p)
    BY <1>1, <1>6, <1>7, <2>1 DEF NextPhase, Line!NextPhase, Line!Move
  <2> QED
    BY <1>3, <2>2 DEF LineMoves, Line!Next
<1>8. CASE LastPhaseMerged(p)
  <2>1. phaseIndex = Line!LastPhase
    BY <1>2, <1>6, <1>8 DEF LastPhaseMerged, MorePhases, Line!LastPhase
  <2>2. Line!AllPhasesMerged(p)
    BY <1>1, <1>6, <1>8, <2>1 DEF LastPhaseMerged, Line!AllPhasesMerged, Line!Move
  <2> QED
    BY <1>3, <2>2 DEF LineMoves, Line!Next
<1> QED
  BY <1>4, <1>5, <1>7, <1>8 DEF OnPullRequestMerged

(* A lifted stop resumes where the line had been. *)
LEMMA UnblockMoves ==
  ASSUME OrderInv, Unblock
  PROVE  LineMoves
<1>1. UNCHANGED <<phaseIndex, phasePr, hasRepo, assessed, delivered>>
  BY DEF Unblock, history
<1>2. CASE UnblockIgnored
  BY <1>1, <1>2, LineUntouched DEF UnblockIgnored
<1>3. AllMerged => Line!AllClosed
  <2>1. merged \subseteq 1..opened /\ opened \in Nat
    BY BoundsAssumption DEF OrderInv, TypeInv, TypeOK
  <2> QED
    BY <2>1 DEF AllMerged, Line!AllClosed, Line!LastPhase
<1>4. ASSUME stage = "NEEDS_HUMAN", stage' \in Line!Reached PROVE LineMoves
  BY <1>1, <1>4 DEF LineMoves, Line!Next, Line!Resume
<1>5. CASE UnblockToReview
  BY <1>4, <1>5 DEF UnblockToReview, Line!Reached
<1>6. CASE UnblockToRerun
  <2>1. PICK last \in runs : IsLast(last) /\ stage' = last.stage
    BY <1>6 DEF UnblockToRerun, Rerun
  <2>2. currentPr = NoPr /\ stage = "NEEDS_HUMAN"
    BY <1>6, LineFacts DEF OrderInv, UnblockToRerun
  <2>3. last.stage \in LineStages
    BY <2>1, <2>2 DEF OrderInv, LineInv, EarnedInv, TriageInv
  <2>4. last.stage # "GENESIS" => hasRepo
    BY DEF OrderInv, LineInv, FoundInv
  <2>5. /\ last.stage = "ASSESS" => Line!AllClosed
        /\ last.stage = "DEPLOY_DEV" => assessed
    BY <1>3 DEF OrderInv, LineInv, EarnedInv
  <2>6. last.stage \in Line!Reached
    BY <2>3, <2>4, <2>5 DEF LineStages, Line!Reached
  <2> QED
    BY <1>4, <2>1, <2>2, <2>6
<1> QED
  BY <1>2, <1>5, <1>6 DEF Unblock

LEMMA EvaluateMoves ==
  ASSUME OrderInv, Evaluate
  PROVE  LineMoves
<1>1. UNCHANGED <<phaseIndex, phasePr, hasRepo, assessed, delivered>>
  BY DEF Evaluate, history
<1>2. CASE EvaluateCapReached
  BY <1>1, <1>2, LineStops DEF EvaluateCapReached, Stop, Judging, Reviewing
<1>3. CASE stage' = stage
  BY <1>1, <1>3, LineUntouched
<1> QED
  BY <1>2, <1>3
     DEF Evaluate, EvaluateNothing, EvaluateStalled, EvaluatePassDark, EvaluatePassGray, EvaluateRepair

LEMMA OperatorMoves ==
  ASSUME OrderInv, NoCliCorrections, Operator
  PROVE  LineMoves
<1>1. CASE StartLine
  <2>1. Line!Start
    BY <1>1 DEF StartLine, Line!Start, Line!Move, history
  <2> QED
    BY <2>1 DEF LineMoves, Line!Next
<1>2. ASSUME NEW q \in Questions, NEW choice \in {"primary", "secondary"}, Resolve(q, choice)
      PROVE  LineMoves
  <2>1. UNCHANGED <<phaseIndex, phasePr, hasRepo, assessed, delivered>>
    BY <1>2 DEF Resolve, history
  <2>2. CASE stage' = stage
    BY <2>1, <2>2, LineUntouched
  <2>3. CASE stage' = "NEEDS_HUMAN" /\ currentPr # NoPr
    BY <2>1, <2>3, LineFacts, LineStops DEF OrderInv
  <2> QED
    BY <1>2, <2>2, <2>3 DEF Resolve
<1>3. CASE RequestDarkMode \/ CliUnblock
  BY <1>3, LineUntouched DEF RequestDarkMode, CliUnblock, project, history
<1>4. ASSUME NEW command \in Commands, CancelQueued(command) PROVE LineMoves
  BY <1>4, LineUntouched DEF CancelQueued, project, history
<1>5. ASSUME NEW r \in runs, CancelByJob(r) PROVE LineMoves
  BY <1>5, LineUntouched DEF CancelByJob, project, history
<1> QED
  BY <1>1, <1>2, <1>3, <1>4, <1>5 DEF Operator, NoCliCorrections, RetryStage, SetPullRequest

LEMMA GitHubMoves ==
  ASSUME OrderInv, GitHub
  PROVE  LineMoves
<1>1. CASE GateMoved \/ OnIssueOpened
  BY <1>1, LineUntouched DEF GateMoved, OnIssueOpened, project, history
<1>2. CASE OnRelease
  <2>1. Line!Release
    BY <1>2 DEF OnRelease, Line!Release, Line!Move, history
  <2> QED
    BY <2>1 DEF LineMoves, Line!Next
<1>3. ASSUME NEW p \in 1..MaxPrs, MergePr(p) PROVE LineMoves
  BY <1>3, LineUntouched DEF MergePr, project, history
<1>4. ASSUME NEW p \in 1..MaxPrs, WebhookReportsMerge(p) PROVE LineMoves
  BY <1>4, OnPullRequestMergedMoves DEF WebhookReportsMerge
<1> QED
  BY <1>1, <1>2, <1>3, <1>4 DEF GitHub

LEMMA BridgeMoves ==
  ASSUME OrderInv, Bridge
  PROVE  LineMoves
<1>1. CASE RunEffect
  <2>1. UNCHANGED <<stage, phasePr, hasRepo, assessed, delivered>>
    BY <1>1 DEF RunEffect, history
  <2>2. CASE PhaseIssuesCreated
    <3>1. effects # <<>> /\ Head(effects).kind = "create-phase-issues" /\ phaseIndex' = 0
          /\ effects \in Seq(Effect)
      BY <2>2 DEF PhaseIssuesCreated, TakeEffect, OrderInv, TypeInv, TypeOK
    <3>2. 1 \in DOMAIN effects /\ effects[1].kind = "create-phase-issues"
      BY <3>1
    <3>3. phaseIndex = 0
      BY <3>2 DEF OrderInv, LineInv, FoundInv
    <3> QED
      BY <2>1, <3>1, <3>3, LineUntouched
  <2>3. CASE phaseIndex' = phaseIndex
    BY <2>1, <2>3, LineUntouched
  <2> QED
    BY <1>1, <2>2, <2>3 DEF RunEffect, LabelApplied, RepositoryRegistered, CommentPosted, EffectFailed
<1>2. ASSUME NEW p \in 1..MaxPrs, BridgeReportsMerge(p) PROVE LineMoves
  BY <1>2, LineUntouched DEF BridgeReportsMerge, project, history
<1>3. CASE BridgeRestarts
  BY <1>3, LineUntouched DEF BridgeRestarts, project, history
<1> QED
  BY <1>1, <1>2, <1>3 DEF Bridge

LEMMA EveryStepMoves ==
  ASSUME OrderInv, NoCliCorrections, [Next]_vars
  PROVE  LineMoves
<1>1. CASE UNCHANGED vars
  BY <1>1, LineUntouched DEF vars, project, history
<1>2. CASE Machinist
  BY <1>2, LineUntouched DEF Machinist, SubmitRun, OpenPr, CompleteRun, project, history
<1>3. CASE Scheduled
  <2>1. mergeCalls \subseteq merged
    BY DEF OrderInv, TypeInv, TypeOK
  <2>2. ASSUME NEW p \in mergeCalls, ScheduledMergeReport(p) PROVE LineMoves
    BY <2>1, <2>2, OnPullRequestMergedMoves DEF ScheduledMergeReport
  <2> QED
    BY <1>3, <2>2, OnRunCompletedMoves, EvaluateMoves, UnblockMoves DEF Scheduled
<1> QED
  BY <1>1, <1>2, <1>3, OperatorMoves, GitHubMoves, BridgeMoves DEF Next

(* Without corrections from the CLI, the stage machine implements the delivery *)
(* line for every number of phases, runs, pull requests and faults: whatever   *)
(* the order of completions, retries, verdicts, effects, merge reports and     *)
(* unblocks, the project row only takes the line's steps (stateMachine.ts,     *)
(* gates.ts, decisions.ts).                                                    *)
THEOREM StageMachineImplementsLine == NoCliCorrections /\ Spec => ImplementsDeliveryLine
<1>1. Init => Line!Init
  BY DEF Init, history, Line!Init, Line!LastPhase
<1>2. ASSUME NoCliCorrections PROVE OrderInv /\ [Next]_vars => [Line!Next]_(Line!vars)
  BY <1>2, EveryStepMoves DEF LineMoves
<1>3. ASSUME NoCliCorrections PROVE Spec => Line!Spec
  BY <1>1, <1>2, <1>3, OrderKept, PTL DEF Spec, Line!Spec
<1> QED
  BY <1>3 DEF ImplementsDeliveryLine

-----------------------------------------------------------------------------
(* A stopped project shows a decision to act on                              *)

(* Of a row: no run is of the stage a project stops in, and it ended in        *)
(* something that may happen.                                                  *)
RowPossible(r) ==
  /\ r.stage # "NEEDS_HUMAN"
  /\ r.result = "findings" => "findings" \in Happens
  /\ r.result = "fail" => "run-fails" \in Happens
RowsPossible == \A r \in runs : RowPossible(r)

LEMMA JoinedPossible ==
  ASSUME RowsPossible, NEW new, NEW gone, NEW s, NEW command, NEW ref,
         Joins(new, gone, s, command, ref), s # "NEEDS_HUMAN"
  PROVE  RowsPossible'
  BY DEF Joins, RowsPossible, RowPossible

LEMMA ClosePossible ==
  ASSUME TypeInv, RowsPossible, NEW r \in runs, Close(r)
  PROVE  RowsPossible'
  BY DEF TypeInv, TypeOK, Run, Close, Update, RowsPossible, RowPossible

LEMMA RerunPossible ==
  ASSUME TypeInv, RowsPossible, NEW last \in runs, Rerun(last)
  PROVE  RowsPossible' /\ stage' # "NEEDS_HUMAN"
<1>1. /\ Enqueue(last.stage, last.command, last.ref, 1) /\ stage' = last.stage /\ runs \subseteq Run
      /\ last.stage \in Stages /\ last.command \in Commands /\ last.ref \in Nat
  BY DEF Rerun, TypeInv, TypeOK, Run
<1>2. PICK new \in Run : Joins(new, {}, last.stage, last.command, last.ref)
  BY <1>1, EnqueueJoins
<1> QED
  BY <1>1, <1>2, JoinedPossible DEF RowsPossible, RowPossible

LEMMA MachinistPossible ==
  ASSUME TypeInv, RowsPossible, Machinist
  PROVE  RowsPossible'
<1>1. runs \subseteq Run
  BY DEF TypeInv, TypeOK
<1>2. ASSUME NEW r \in runs, SubmitRun(r) PROVE RowsPossible'
  BY <1>1, <1>2 DEF SubmitRun, Update, Run, RowsPossible, RowPossible
<1>3. ASSUME NEW r \in runs, OpenPr(r) PROVE RowsPossible'
  BY <1>1, <1>3 DEF OpenPr, Update, Run, RowsPossible, RowPossible
<1>4. ASSUME NEW r \in runs, NEW result \in Results, CompleteRun(r, result) PROVE RowsPossible'
  <2>1. PICK pr \in {r.pr} \cup {lost \in {NoPr} : "pr-lost" \in Happens} :
          Update(r, [r EXCEPT !.state = "ended", !.result = result, !.pr = pr])
    BY <1>4 DEF CompleteRun
  <2> DEFINE new == [r EXCEPT !.state = "ended", !.result = result, !.pr = pr]
  <2>2. runs' = (runs \ {r}) \cup {new}
    BY <2>1 DEF Update
  <2>3. new.stage = r.stage /\ new.result = result
    BY <1>1 DEF Run
  <2>4. MayEnd(r, result)
    BY <1>4 DEF CompleteRun
  <2> HIDE DEF new
  <2>5. RowPossible(new)
    BY <2>3, <2>4 DEF MayEnd, RowsPossible, RowPossible
  <2> QED
    BY <2>2, <2>5 DEF RowsPossible
<1> QED
  BY <1>2, <1>3, <1>4 DEF Machinist

LEMMA OnRunCompletedPossible ==
  ASSUME TypeInv, RowsPossible, NEW r \in runs, OnRunCompleted(r)
  PROVE  RowsPossible'
<1>1. /\ runs \subseteq Run
      /\ r.stage \in Stages /\ r.command \in Commands /\ r.ref \in Nat /\ r.attempt \in 1..2
  BY DEF TypeInv, TypeOK, Run
<1>2. CASE Close(r)
  BY <1>2, ClosePossible
<1>3. CASE RetryRun(r)
  <2>1. CloseAndEnqueue(r, r.stage, r.command, r.ref, r.attempt + 1) /\ r.attempt + 1 \in 1..2
    BY <1>1, <1>3 DEF RetryRun
  <2>2. PICK new \in Run : Joins(new, {r}, r.stage, r.command, r.ref)
    BY <1>1, <2>1, CloseAndEnqueueJoins
  <2> QED
    BY <2>2, JoinedPossible DEF RowsPossible, RowPossible
<1>4. CASE CloseAndEnqueue(r, "DEPLOY_DEV", "dev", 0, 1)
  <2>1. "DEPLOY_DEV" \in Stages /\ "dev" \in Commands /\ 0 \in Nat /\ 1 \in 1..2
    BY DEF Stages, Commands
  <2>2. PICK new \in Run : Joins(new, {r}, "DEPLOY_DEV", "dev", 0)
    BY <1>1, <1>4, <2>1, CloseAndEnqueueJoins
  <2> QED
    BY <2>2, JoinedPossible
<1>5. CASE CloseAndEnqueue(r, "MAINTAIN", "foreman", 0, 1)
  <2>1. "MAINTAIN" \in Stages /\ "foreman" \in Commands /\ 0 \in Nat /\ 1 \in 1..2
    BY DEF Stages, Commands
  <2>2. PICK new \in Run : Joins(new, {r}, "MAINTAIN", "foreman", 0)
    BY <1>1, <1>5, <2>1, CloseAndEnqueueJoins
  <2> QED
    BY <2>2, JoinedPossible
<1> QED
  BY <1>2, <1>3, <1>4, <1>5
     DEF OnRunCompleted, StaleRun, StopOnFailure, GenesisDone, HandedOff, RepairNeedsHuman, RepairDone,
         AssessPassed, AssessFoundFindings, DeployDone, Triaged

LEMMA EnqueuePossible ==
  ASSUME TypeInv, RowsPossible, NEW s \in Stages, NEW command \in Commands, NEW ref \in Nat,
         Enqueue(s, command, ref, 1), s # "NEEDS_HUMAN"
  PROVE  RowsPossible'
<1>1. PICK new \in Run : Joins(new, {}, s, command, ref)
  BY EnqueueJoins DEF TypeInv, TypeOK
<1> QED
  BY <1>1, JoinedPossible

LEMMA OnPullRequestMergedPossible ==
  ASSUME TypeInv, RowsPossible, NEW p, OnPullRequestMerged(p)
  PROVE  RowsPossible'
<1>1. phaseIndex + 1 \in Nat /\ {"BUILD", "ASSESS"} \subseteq Stages /\ {"foreman", "assess"} \subseteq Commands
  BY BoundsAssumption DEF TypeInv, TypeOK, Stages, Commands
<1>2. CASE NextPhase(p)
  BY <1>1, <1>2, EnqueuePossible DEF NextPhase
<1>3. CASE LastPhaseMerged(p)
  BY <1>1, <1>3, EnqueuePossible DEF LastPhaseMerged
<1>4. CASE UNCHANGED runs
  BY <1>4 DEF RowsPossible, RowPossible
<1> QED
  BY <1>2, <1>3, <1>4 DEF OnPullRequestMerged, MergeIgnored, MaintenanceMerged

LEMMA RowsStayPossible ==
  ASSUME TypeInv, RowsPossible, [Next]_vars
  PROVE  RowsPossible'
<1>1. /\ runs \subseteq Run /\ currentPr \in Nat
      /\ {"GENESIS", "BUILD", "REVIEW_LOOP", "ASSESS", "TRIAGE"} \subseteq Stages
      /\ {"genesis", "foreman", "greptile-fix", "shepherd", "assess", "triage"} \subseteq Commands
  BY BoundsAssumption DEF TypeInv, TypeOK, Stages, Commands
<1>2. CASE UNCHANGED runs
  BY <1>2 DEF RowsPossible, RowPossible
<1>3. CASE Operator
  <2>1. CASE StartLine
    BY <1>1, <2>1, EnqueuePossible DEF StartLine
  <2>2. CASE RetryStage
    BY <2>2, RerunPossible DEF RetryStage
  <2>3. ASSUME NEW command \in Commands, CancelQueued(command) PROVE RowsPossible'
    BY <1>1, <2>3 DEF CancelQueued, Run, RowsPossible, RowPossible
  <2>4. ASSUME NEW r \in runs, CancelByJob(r) PROVE RowsPossible'
    BY <2>4, ClosePossible DEF CancelByJob
  <2> QED
    BY <1>2, <1>3, <2>1, <2>2, <2>3, <2>4 DEF Operator, RequestDarkMode, CliUnblock, Resolve, SetPullRequest
<1>4. CASE Scheduled
  <2>1. CASE Evaluate
    BY <1>1, <1>2, <2>1, EnqueuePossible
       DEF Evaluate, EvaluateNothing, EvaluateStalled, EvaluatePassDark, EvaluatePassGray,
           EvaluateRepair, EvaluateCapReached
  <2>2. CASE Unblock
    BY <1>2, <2>2, RerunPossible DEF Unblock, UnblockIgnored, UnblockToReview, UnblockToRerun
  <2> QED
    BY <1>4, <2>1, <2>2, OnRunCompletedPossible, OnPullRequestMergedPossible
       DEF Scheduled, ScheduledMergeReport
<1>5. CASE GitHub
  BY <1>1, <1>2, <1>5, EnqueuePossible, OnPullRequestMergedPossible
     DEF GitHub, GateMoved, OnIssueOpened, OnRelease, MergePr, WebhookReportsMerge
<1>6. CASE Bridge
  BY <1>1, <1>2, <1>6, EnqueuePossible
     DEF Bridge, BridgeRestarts, BridgeReportsMerge, RunEffect, LabelApplied, RepositoryRegistered,
         PhaseIssuesCreated, CommentPosted, EffectFailed
<1> QED
  BY <1>2, <1>3, <1>4, <1>5, <1>6, MachinistPossible DEF Next, vars

(* The decision an operator's answer to lifts the stop, or that answer on its way. *)
UnblockOpen == \E q \in Questions : q.kind = "unblock" /\ decisions[q] > 0
StopInv == stage = "NEEDS_HUMAN" => UnblockOpen \/ unblocks > 0

LEMMA OpenedDecision ==
  ASSUME TypeInv, NEW kind \in Kinds, NEW pr \in 0..MaxPrs, OpenDecision(kind, pr)
  PROVE  /\ \A q \in Questions : decisions[q] > 0 => decisions'[q] > 0
         /\ \E q \in Questions : q.kind = kind /\ decisions'[q] > 0
<1> DEFINE asked == [kind |-> kind, pr |-> pr]
<1>1. asked \in Questions /\ asked.kind = kind
  BY DEF Questions
<1>2. decisions' = [decisions EXCEPT ![asked] = @ + 1]
  BY DEF OpenDecision
<1>3. decisions \in [Questions -> Nat]
  BY DEF TypeInv, TypeOK
<1> HIDE DEF asked
<1> QED
  BY <1>1, <1>2, <1>3

(* While no open question goes, a stop that showed one still does. *)
LEMMA StopKept ==
  ASSUME TypeInv, StopInv, \A q \in Questions : decisions[q] > 0 => decisions'[q] > 0,
         unblocks > 0 => unblocks' > 0, stage' = "NEEDS_HUMAN" => stage = "NEEDS_HUMAN" \/ UnblockOpen'
  PROVE  StopInv'
<1>1. UnblockOpen => UnblockOpen'
  BY DEF UnblockOpen
<1> QED
  BY <1>1 DEF StopInv

LEMMA StopAsks ==
  ASSUME TypeInv, StopInv, Stop("unblock"), unblocks' = unblocks
  PROVE  StopInv'
<1>1. OpenDecision("unblock", currentPr) /\ "unblock" \in Kinds /\ currentPr \in 0..MaxPrs
      /\ unblocks \in Nat
  BY BoundsAssumption DEF Stop, Kinds, TypeInv, TypeOK
<1>2. /\ \A q \in Questions : decisions[q] > 0 => decisions'[q] > 0
      /\ \E q \in Questions : q.kind = "unblock" /\ decisions'[q] > 0
  BY <1>1, OpenedDecision
<1> QED
  BY <1>1, <1>2, StopKept DEF UnblockOpen

LEMMA DecisionsSame ==
  ASSUME TypeInv, StopInv, decisions' = decisions, unblocks' = unblocks,
         stage' = "NEEDS_HUMAN" => stage = "NEEDS_HUMAN"
  PROVE  StopInv'
  BY StopKept DEF TypeInv, TypeOK

LEMMA ResolveStop ==
  ASSUME TypeInv, StopInv, "secondary" \notin Happens,
         NEW q \in Questions, NEW choice \in {"primary", "secondary"}, Resolve(q, choice)
  PROVE  StopInv'
<1>1. /\ choice = "primary" /\ stage' = stage
      /\ decisions' = [decisions EXCEPT ![q] = @ - 1]
      /\ unblocks' = IF q.kind = "unblock" THEN unblocks + 1 ELSE unblocks
      /\ decisions \in [Questions -> Nat] /\ unblocks \in Nat
  BY DEF Resolve, TypeInv, TypeOK
<1>2. CASE q.kind = "unblock"
  BY <1>1, <1>2 DEF StopInv
<1>3. CASE q.kind # "unblock"
  <2>1. UnblockOpen => UnblockOpen'
    BY <1>1, <1>3 DEF UnblockOpen
  <2> QED
    BY <1>1, <1>3, <2>1 DEF StopInv
<1> QED
  BY <1>2, <1>3

LEMMA EvaluateStop ==
  ASSUME TypeInv, StopInv, Evaluate
  PROVE  StopInv'
<1>1. unblocks' = unblocks /\ currentPr \in 0..MaxPrs /\ {"unblock", "apply-auto-merge"} \subseteq Kinds
      /\ unblocks \in Nat
  BY BoundsAssumption DEF Evaluate, TypeInv, TypeOK, Kinds
<1>2. CASE EvaluateCapReached
  BY <1>1, <1>2, StopAsks DEF EvaluateCapReached
<1>3. CASE EvaluateStalled \/ EvaluatePassGray
  <2>1. stage' = stage /\ \A q \in Questions : decisions[q] > 0 => decisions'[q] > 0
    BY <1>1, <1>3, OpenedDecision DEF EvaluateStalled, EvaluatePassGray
  <2> QED
    BY <1>1, <2>1, StopKept
<1> QED
  BY <1>1, <1>2, <1>3, DecisionsSame
     DEF Evaluate, EvaluateNothing, EvaluatePassDark, EvaluateRepair

LEMMA UnblockStop ==
  ASSUME TypeInv, RowsPossible, Unblock
  PROVE  StopInv'
<1>1. stage' # "NEEDS_HUMAN"
  BY RerunPossible DEF Unblock, UnblockIgnored, UnblockToReview, UnblockToRerun
<1> QED
  BY <1>1 DEF StopInv

LEMMA OnRunCompletedStop ==
  ASSUME TypeInv, RowsPossible, StopInv, "findings" \notin Happens, NEW r \in runs, OnRunCompleted(r)
  PROVE  StopInv'
<1>1. unblocks' = unblocks
  BY DEF OnRunCompleted
<1>2. CASE StopOnFailure(r) \/ RepairNeedsHuman(r)
  BY <1>1, <1>2, StopAsks DEF StopOnFailure, RepairNeedsHuman
<1>3. ~AssessFoundFindings(r)
  BY DEF AssessFoundFindings, RowsPossible, RowPossible
<1> QED
  BY <1>1, <1>2, <1>3, DecisionsSame
     DEF OnRunCompleted, StaleRun, RetryRun, GenesisDone, HandedOff, RepairDone, AssessPassed,
         DeployDone, Triaged

(* Two stops leave nothing to answer: one by an assessment's findings, once    *)
(* they are accepted, and one by the answer to a decision.                     *)
NoUnansweredStop == {"findings", "secondary"} \cap Happens = {}

LEMMA StopInvInductive ==
  ASSUME TypeInv, RowsPossible, StopInv, NoUnansweredStop, [Next]_vars
  PROVE  StopInv'
<1>1. unblocks \in Nat /\ "secondary" \notin Happens /\ "findings" \notin Happens
  BY DEF TypeInv, TypeOK, NoUnansweredStop
<1>2. CASE UNCHANGED vars
  BY <1>2, DecisionsSame DEF vars, project, scheduler
<1>3. CASE Operator
  <2>1. CASE RetryStage
    BY <2>1, RerunPossible DEF RetryStage, StopInv
  <2>2. ASSUME NEW p \in 1..MaxPrs, SetPullRequest(p) PROVE StopInv'
    BY <2>2 DEF SetPullRequest, StopInv
  <2>3. CASE RequestDarkMode
    <3>1. OpenDecision("dark-mode-checklist", NoPr) /\ "dark-mode-checklist" \in Kinds /\ NoPr \in 0..MaxPrs
      BY <2>3, BoundsAssumption DEF RequestDarkMode, Kinds
    <3>2. \A q \in Questions : decisions[q] > 0 => decisions'[q] > 0
      BY <3>1, OpenedDecision
    <3> QED
      BY <1>1, <2>3, <3>2, StopKept DEF RequestDarkMode, project, scheduler
  <2>4. CASE CliUnblock
    BY <1>1, <2>4, StopKept DEF CliUnblock, project, TypeInv, TypeOK
  <2>5. CASE StartLine
    BY <2>5, DecisionsSame DEF StartLine, scheduler
  <2>6. ASSUME NEW command \in Commands, CancelQueued(command) PROVE StopInv'
    BY <2>6, DecisionsSame DEF CancelQueued, project, scheduler
  <2>7. ASSUME NEW r \in runs, CancelByJob(r) PROVE StopInv'
    BY <2>7, DecisionsSame DEF CancelByJob, project, scheduler
  <2> QED
    BY <1>1, <1>3, <2>1, <2>2, <2>3, <2>4, <2>5, <2>6, <2>7, ResolveStop DEF Operator
<1>4. CASE Machinist
  BY <1>4, DecisionsSame DEF Machinist, SubmitRun, OpenPr, CompleteRun, project, scheduler
<1>5. ASSUME NEW p, OnPullRequestMerged(p) PROVE StopInv'
  <2>1. UNCHANGED <<decisions, unblocks>>
    BY <1>5 DEF OnPullRequestMerged
  <2>2. stage' = "NEEDS_HUMAN" => stage = "NEEDS_HUMAN"
    BY <1>5 DEF OnPullRequestMerged, MergeIgnored, NextPhase, LastPhaseMerged, MaintenanceMerged
  <2> QED
    BY <2>1, <2>2, DecisionsSame
<1>6. CASE Scheduled
  BY <1>1, <1>5, <1>6, OnRunCompletedStop, EvaluateStop, UnblockStop DEF Scheduled, ScheduledMergeReport
<1>7. CASE GitHub
  <2>1. CASE GateMoved \/ OnIssueOpened \/ OnRelease
    BY <2>1, DecisionsSame DEF GateMoved, OnIssueOpened, OnRelease, project, scheduler
  <2>2. ASSUME NEW p \in 1..MaxPrs, MergePr(p) PROVE StopInv'
    BY <2>2, DecisionsSame DEF MergePr, project, scheduler
  <2> QED
    BY <1>5, <1>7, <2>1, <2>2 DEF GitHub, WebhookReportsMerge
<1>8. CASE Bridge
  <2>1. UNCHANGED <<stage, decisions, unblocks>>
    BY <1>8 DEF Bridge, BridgeRestarts, BridgeReportsMerge, RunEffect, project, scheduler
  <2> QED
    BY <2>1, DecisionsSame
<1> QED
  BY <1>2, <1>3, <1>4, <1>6, <1>7, <1>8 DEF Next

LEMMA NothingStoppedAtFirst == Init => RowsPossible /\ StopInv
  BY DEF Init, RowsPossible, StopInv

(* A stopped project has an open decision, or the operator's answer is on its  *)
(* way, whatever fails, is retried, cancelled, corrected from the CLI or       *)
(* answered twice, in every instance without findings of an assessment and     *)
(* answers that stop a line.                                                   *)
THEOREM StopsShowADecision == NoUnansweredStop /\ Spec => []StoppedIsActionable
<1>1. Spec => [](TypeInv /\ RowsPossible)
  BY NoRowsAtFirst, NothingStoppedAtFirst, TypeInvInductive, RowsStayPossible, PTL DEF Spec
<1>2. ASSUME NoUnansweredStop PROVE (TypeInv /\ RowsPossible) /\ StopInv /\ [Next]_vars => StopInv'
  BY <1>2, StopInvInductive
<1>3. StopInv => StoppedIsActionable
  BY DEF StopInv, StoppedIsActionable, UnblockOpen, AnyOpen
<1>4. ASSUME NoUnansweredStop PROVE Spec => []StoppedIsActionable
  BY <1>1, <1>2, <1>3, <1>4, NothingStoppedAtFirst, PTL DEF Spec
<1> QED
  BY <1>4

-----------------------------------------------------------------------------
(* A line that is not at rest moves                                          *)

(* What stalls a line is known: a cancelled run, a failed effect, and the      *)
(* decisions whose answer changes nothing (a silent reviewer's, an             *)
(* assessment's findings, the checklist).                                      *)
NothingIsDropped ==
  NoCliCorrections /\ {"cancel", "effect-fails", "stall", "findings", "checklist"} \cap Happens = {}

Working(s) == \E r \in runs : r.stage = s /\ Unfinished(r)
MergeAsked == \E q \in Questions : q.kind = "apply-auto-merge" /\ decisions[q] > 0

(* An open question is about a stop or a merge; a stage that waits for a run   *)
(* has one; a review waits for an evaluation, a run, a label or an answer.     *)
QuestionsInv ==
  /\ \A q \in Questions : decisions[q] > 0 => q.kind \in {"unblock", "apply-auto-merge"}
  /\ UnblockOpen => stage = "NEEDS_HUMAN"
WorkInv ==
  /\ stage \in {"GENESIS", "ASSESS", "DEPLOY_DEV"} => Working(stage)
  /\ stage = "BUILD" => Working("BUILD") \/ (~phaseIssues /\ effects # <<>>)
  /\ stage = "REVIEW_LOOP" /\ currentPr # NoPr =>
       evals > 0 \/ Working("REVIEW_LOOP") \/ LabelPending \/ MergeAsked
MovesInv == QuestionsInv /\ WorkInv

(* The rows of the stage the project is at that were in flight still are, or   *)
(* others are in their place.                                                  *)
WorkStays == \A t \in {stage} : Working(t) => Working(t)'

LEMMA JoinedWorks ==
  ASSUME NEW new, NEW gone, NEW s, NEW command, NEW ref, Joins(new, gone, s, command, ref)
  PROVE  /\ Working(s)'
         /\ (\A r \in gone : r.stage \in {s} \/ r.stage # stage) => WorkStays
<1>1. new \in runs' /\ new.stage = s /\ Unfinished(new)
  BY DEF Joins, Unfinished
<1>2. Working(s)'
  BY <1>1 DEF Working
<1>3. ASSUME \A r \in gone : r.stage \in {s} \/ r.stage # stage, Working(stage)
      PROVE  \E r \in runs' : r.stage = stage /\ Unfinished(r)
  BY <1>1, <1>3 DEF Working, Joins
<1> QED
  BY <1>2, <1>3 DEF WorkStays, Working

LEMMA ClosedWorks ==
  ASSUME NEW old \in runs, Close(old), old.stage # stage
  PROVE  WorkStays
  BY DEF Close, Update, WorkStays, Working

LEMMA MachinistWorks == ASSUME TypeInv, Machinist PROVE WorkStays
<1>1. runs \subseteq Run
  BY DEF TypeInv, TypeOK
<1>2. ASSUME NEW old \in runs, NEW new, Update(old, new), new.stage = old.stage, Unfinished(new)
      PROVE  WorkStays
  BY <1>2 DEF Update, WorkStays, Working
<1>3. ASSUME NEW r \in runs, SubmitRun(r) PROVE WorkStays
  <2> DEFINE new == [r EXCEPT !.state = "running"]
  <2>1. Update(r, new) /\ new.stage = r.stage /\ Unfinished(new)
    BY <1>1, <1>3 DEF SubmitRun, Run, Unfinished
  <2> HIDE DEF new
  <2> QED
    BY <1>2, <2>1
<1>4. ASSUME NEW r \in runs, OpenPr(r) PROVE WorkStays
  <2> DEFINE new == [r EXCEPT !.pr = opened + 1]
  <2>1. Update(r, new) /\ new.stage = r.stage /\ Unfinished(new)
    BY <1>1, <1>4 DEF OpenPr, Run, Unfinished
  <2> HIDE DEF new
  <2> QED
    BY <1>2, <2>1
<1>5. ASSUME NEW r \in runs, NEW result \in Results, CompleteRun(r, result) PROVE WorkStays
  <2>1. PICK pr \in {r.pr} \cup {lost \in {NoPr} : "pr-lost" \in Happens} :
          Update(r, [r EXCEPT !.state = "ended", !.result = result, !.pr = pr])
    BY <1>5 DEF CompleteRun
  <2> DEFINE new == [r EXCEPT !.state = "ended", !.result = result, !.pr = pr]
  <2>2. Update(r, new) /\ new.stage = r.stage /\ Unfinished(new)
    BY <1>1, <2>1 DEF Run, Unfinished
  <2> HIDE DEF new
  <2> QED
    BY <1>2, <2>2
<1> QED
  BY <1>3, <1>4, <1>5 DEF Machinist

LEMMA SameRowsWork == ASSUME UNCHANGED runs PROVE WorkStays
  BY DEF WorkStays, Working

LEMMA MovesKept ==
  ASSUME MovesInv, WorkStays, UNCHANGED <<stage, phaseIssues, currentPr, effects, decisions>>,
         evals > 0 => evals' > 0
  PROVE  MovesInv'
<1>1. QuestionsInv'
  BY DEF MovesInv, QuestionsInv, UnblockOpen
<1>2. (LabelPending => LabelPending') /\ (MergeAsked => MergeAsked')
  BY DEF LabelPending, MergeAsked
<1>3. WorkInv'
  BY <1>2 DEF MovesInv, WorkInv, WorkStays
<1> QED
  BY <1>1, <1>3 DEF MovesInv

(* The project went to a stage a run was enqueued for. *)
LEMMA MovedOn ==
  ASSUME MovesInv, stage # "NEEDS_HUMAN", decisions' = decisions,
         Working(stage)' \/ stage' = "MAINTAIN"
  PROVE  MovesInv'
  BY DEF MovesInv, QuestionsInv, WorkInv, UnblockOpen, Working

LEMMA StoppedMoves ==
  ASSUME TypeInv, MovesInv, NEW kind \in {"unblock", "apply-auto-merge"}, Stop(kind)
  PROVE  MovesInv'
<1> DEFINE asked == [kind |-> kind, pr |-> currentPr]
<1>1. decisions' = [decisions EXCEPT ![asked] = @ + 1] /\ asked.kind = kind /\ stage' = "NEEDS_HUMAN"
  BY DEF Stop, OpenDecision
<1>2. decisions \in [Questions -> Nat]
  BY DEF TypeInv, TypeOK
<1> HIDE DEF asked
<1>3. \A q \in Questions : decisions'[q] > 0 => q.kind \in {"unblock", "apply-auto-merge"}
  BY <1>1, <1>2 DEF MovesInv, QuestionsInv
<1> QED
  BY <1>1, <1>3 DEF MovesInv, QuestionsInv, WorkInv

LEMMA OnRunCompletedWorks ==
  ASSUME OrderInv, RowsPossible, "findings" \notin Happens, MovesInv, NEW r \in runs, OnRunCompleted(r)
  PROVE  MovesInv'
<1>1. /\ runs \subseteq Run /\ evals \in Nat /\ phaseIssues' = phaseIssues
      /\ r.stage \in Stages /\ r.command \in Commands /\ r.ref \in Nat /\ r.attempt \in 1..2
  BY DEF OrderInv, TypeInv, TypeOK, Run, OnRunCompleted
<1>2. CASE StaleRun(r)
  <2>1. WorkStays
    BY <1>2, ClosedWorks DEF StaleRun, IsStale
  <2> QED
    BY <1>1, <1>2, <2>1, MovesKept DEF StaleRun
<1>3. CASE RetryRun(r)
  <2>1. CloseAndEnqueue(r, r.stage, r.command, r.ref, r.attempt + 1) /\ r.attempt + 1 \in 1..2
    BY <1>1, <1>3 DEF RetryRun
  <2>2. PICK new \in Run : Joins(new, {r}, r.stage, r.command, r.ref)
    BY <1>1, <2>1, CloseAndEnqueueJoins
  <2>3. WorkStays
    BY <2>2, JoinedWorks
  <2> QED
    BY <1>1, <1>3, <2>3, MovesKept DEF RetryRun
<1>4. CASE StopOnFailure(r) \/ RepairNeedsHuman(r)
  BY <1>4, StoppedMoves DEF StopOnFailure, RepairNeedsHuman, OrderInv
<1>5. CASE GenesisDone(r)
  <2>1. stage = "GENESIS" /\ stage' = "BUILD" /\ decisions' = decisions /\ effects' # <<>>
    BY <1>5 DEF GenesisDone, Succeeded, Accepted, IsStale, InsertEffect, OrderInv, TypeInv, TypeOK
  <2>2. ~phaseIssues
    BY <2>1 DEF OrderInv, LineInv, FoundInv
  <2> QED
    BY <1>1, <2>1, <2>2 DEF MovesInv, QuestionsInv, WorkInv, UnblockOpen
<1>6. CASE HandedOff(r)
  <2>1. stage' = "REVIEW_LOOP" /\ stage # "NEEDS_HUMAN" /\ decisions' = decisions /\ evals' > 0
    BY <1>1, <1>6 DEF HandedOff, Succeeded, Accepted, IsStale
  <2> QED
    BY <2>1 DEF MovesInv, QuestionsInv, WorkInv, UnblockOpen
<1>7. CASE RepairDone(r)
  <2>1. stage' = "REVIEW_LOOP" /\ stage = "REVIEW_LOOP" /\ decisions' = decisions /\ evals' > 0
    BY <1>1, <1>7 DEF RepairDone, Succeeded, Accepted, IsStale
  <2> QED
    BY <2>1 DEF MovesInv, QuestionsInv, WorkInv, UnblockOpen
<1>8. CASE AssessPassed(r)
  <2>1. /\ CloseAndEnqueue(r, "DEPLOY_DEV", "dev", 0, 1)
        /\ stage = "ASSESS" /\ stage' = "DEPLOY_DEV" /\ decisions' = decisions
    BY <1>8 DEF AssessPassed, Succeeded, Accepted, IsStale
  <2>2. "DEPLOY_DEV" \in Stages /\ "dev" \in Commands /\ 0 \in Nat /\ 1 \in 1..2
    BY DEF Stages, Commands
  <2>3. PICK new \in Run : Joins(new, {r}, "DEPLOY_DEV", "dev", 0)
    BY <1>1, <2>1, <2>2, CloseAndEnqueueJoins
  <2>4. Working("DEPLOY_DEV")'
    BY <2>3, JoinedWorks
  <2> QED
    BY <2>1, <2>4 DEF MovesInv, QuestionsInv, WorkInv, UnblockOpen, Working
<1>9. CASE DeployDone(r)
  <2>1. stage = "DEPLOY_DEV" /\ stage' = "MAINTAIN" /\ decisions' = decisions
    BY <1>9 DEF DeployDone, Succeeded, Accepted, IsStale
  <2> QED
    BY <2>1 DEF MovesInv, QuestionsInv, WorkInv, UnblockOpen
<1>10. ~AssessFoundFindings(r)
  BY DEF AssessFoundFindings, RowsPossible, RowPossible
<1>11. ~Triaged(r)
  BY DEF Triaged, Succeeded, Accepted, IsStale, OrderInv, LineInv, EarnedInv, LineStages
<1> QED
  BY <1>2, <1>3, <1>4, <1>5, <1>6, <1>7, <1>8, <1>9, <1>10, <1>11 DEF OnRunCompleted

LEMMA InsertedLabel ==
  ASSUME effects \in Seq(Effect), NEW pr, InsertEffect("apply-label", pr)
  PROVE  LabelPending'
<1> DEFINE new == [kind |-> "apply-label", pr |-> pr]
<1>1. effects' = Append(effects, new) /\ new.kind = "apply-label"
  BY DEF InsertEffect
<1> HIDE DEF new
<1>2. Len(effects) + 1 \in DOMAIN effects' /\ effects'[Len(effects) + 1] = new
  BY <1>1
<1> QED
  BY <1>1, <1>2 DEF LabelPending

LEMMA EvaluateWorks ==
  ASSUME OrderInv, MovesInv, "stall" \notin Happens, Evaluate
  PROVE  MovesInv'
<1>1. /\ runs \subseteq Run /\ effects \in Seq(Effect) /\ decisions \in [Questions -> Nat]
      /\ currentPr \in 0..MaxPrs /\ currentPr \in Nat
      /\ UNCHANGED <<hasRepo, phaseIssues, currentPr>>
  BY BoundsAssumption DEF OrderInv, TypeInv, TypeOK, Evaluate
<1>2. Judging => stage = "REVIEW_LOOP" /\ currentPr # NoPr
  BY DEF Judging, Reviewing
<1>3. CASE EvaluateNothing
  <2>1. UNCHANGED <<stage, runs, effects, decisions>> /\ ~Judging /\ WorkStays
    BY <1>3, SameRowsWork DEF EvaluateNothing
  <2>2. QuestionsInv'
    BY <2>1 DEF MovesInv, QuestionsInv, UnblockOpen
  <2>3. ASSUME stage = "REVIEW_LOOP", currentPr # NoPr PROVE Working("REVIEW_LOOP")' \/ MergeAsked'
    <3>1. AnyOpen \/ LiveRepair
      BY <2>1, <2>3, LineFacts DEF Judging, Reviewing, OrderInv
    <3>2. CASE AnyOpen
      BY <2>1, <2>3, <3>2 DEF AnyOpen, MergeAsked, MovesInv, QuestionsInv, UnblockOpen
    <3>3. CASE LiveRepair
      BY <2>1, <3>3 DEF LiveRepair, Live, Working, Unfinished, OrderInv, LineInv, EarnedInv
    <3> QED
      BY <3>1, <3>2, <3>3
  <2>4. WorkInv'
    BY <1>1, <2>1, <2>3 DEF MovesInv, WorkInv, WorkStays
  <2> QED
    BY <2>2, <2>4 DEF MovesInv
<1>4. CASE EvaluatePassDark
  <2>1. Judging /\ UNCHANGED <<stage, runs, decisions>>
    BY <1>4 DEF EvaluatePassDark
  <2>2. LabelPending'
    BY <1>1, <1>4, InsertedLabel DEF EvaluatePassDark, LabelPending
  <2> QED
    BY <1>1, <1>2, <2>1, <2>2 DEF MovesInv, QuestionsInv, WorkInv, UnblockOpen
<1>5. CASE EvaluatePassGray
  <2>1. Judging /\ UNCHANGED <<stage, runs, effects>> /\ OpenDecision("apply-auto-merge", currentPr)
        /\ ~AnyOpen
    BY <1>5 DEF EvaluatePassGray, Judging
  <2> DEFINE asked == [kind |-> "apply-auto-merge", pr |-> currentPr]
  <2>2. asked \in Questions /\ asked.kind = "apply-auto-merge"
    BY <1>1 DEF Questions, Kinds
  <2>3. decisions' = [decisions EXCEPT ![asked] = @ + 1]
    BY <2>1 DEF OpenDecision
  <2> HIDE DEF asked
  <2>4. decisions'[asked] > 0 /\ \A q \in Questions : q # asked => ~(decisions'[q] > 0)
    BY <1>1, <2>1, <2>2, <2>3 DEF AnyOpen
  <2>5. MergeAsked' /\ QuestionsInv'
    BY <2>2, <2>4 DEF MergeAsked, QuestionsInv, UnblockOpen
  <2> QED
    BY <1>2, <2>1, <2>5 DEF MovesInv, WorkInv
<1>6. CASE EvaluateRepair
  <2>1. Judging /\ Enqueue("REVIEW_LOOP", "greptile-fix", currentPr, 1) /\ UNCHANGED <<stage, decisions>>
    BY <1>6 DEF EvaluateRepair
  <2>2. PICK new \in Run : Joins(new, {}, "REVIEW_LOOP", "greptile-fix", currentPr)
    BY <1>1, <2>1, EnqueueJoins DEF Stages, Commands
  <2>3. Working("REVIEW_LOOP")'
    BY <2>2, JoinedWorks
  <2> QED
    BY <1>2, <2>1, <2>3 DEF MovesInv, QuestionsInv, WorkInv, UnblockOpen
<1>7. CASE EvaluateCapReached
  BY <1>7, StoppedMoves DEF EvaluateCapReached, OrderInv
<1> QED
  BY <1>3, <1>4, <1>5, <1>6, <1>7 DEF Evaluate, EvaluateStalled

LEMMA ResolvedQuestions ==
  ASSUME TypeInv, QuestionsInv, ResolveUnblocks
  PROVE  QuestionsInv' /\ ~UnblockOpen'
<1>1. decisions' = [q \in Questions |-> IF q.kind = "unblock" THEN 0 ELSE decisions[q]]
  BY DEF ResolveUnblocks
<1>2. \A q \in Questions : decisions'[q] = IF q.kind = "unblock" THEN 0 ELSE decisions[q]
  BY <1>1, Zenon
<1> QED
  BY <1>2 DEF QuestionsInv, UnblockOpen

LEMMA UnblockWorks ==
  ASSUME OrderInv, MovesInv, Unblock
  PROVE  MovesInv'
<1>1. UNCHANGED <<phaseIssues, currentPr, effects>> /\ TypeInv /\ evals \in Nat
  BY DEF Unblock, OrderInv, TypeInv, TypeOK
<1>2. CASE UnblockIgnored
  BY <1>1, <1>2, SameRowsWork, MovesKept DEF UnblockIgnored
<1>3. CASE UnblockToReview
  <2>1. QuestionsInv' /\ evals' > 0 /\ stage' = "REVIEW_LOOP"
    BY <1>1, <1>3, ResolvedQuestions DEF UnblockToReview, MovesInv
  <2> QED
    BY <2>1 DEF MovesInv, WorkInv
<1>4. CASE UnblockToRerun
  <2>1. PICK last \in runs : Rerun(last)
    BY <1>4 DEF UnblockToRerun
  <2>2. /\ stage' = last.stage /\ Enqueue(last.stage, last.command, last.ref, 1) /\ QuestionsInv'
        /\ runs \subseteq Run /\ last.stage \in Stages /\ last.command \in Commands /\ last.ref \in Nat
    BY <1>1, <2>1, ResolvedQuestions DEF Rerun, MovesInv, TypeInv, TypeOK, Run
  <2>3. PICK new \in Run : Joins(new, {}, last.stage, last.command, last.ref)
    BY <2>2, EnqueueJoins
  <2>4. Working(last.stage)'
    BY <2>3, JoinedWorks
  <2> QED
    BY <2>2, <2>4 DEF MovesInv, WorkInv, Working
<1> QED
  BY <1>2, <1>3, <1>4 DEF Unblock

LEMMA OnPullRequestMergedWorks ==
  ASSUME OrderInv, MovesInv, NEW p \in merged, OnPullRequestMerged(p)
  PROVE  MovesInv'
<1>1. /\ runs \subseteq Run /\ phaseIndex + 1 \in Nat
      /\ UNCHANGED <<phaseIssues, effects, decisions, evals>>
  BY BoundsAssumption DEF OrderInv, TypeInv, TypeOK, OnPullRequestMerged
<1>2. CASE MergeIgnored(p)
  BY <1>1, <1>2, SameRowsWork, MovesKept DEF MergeIgnored
<1>3. CASE NextPhase(p)
  <2>1. Enqueue("BUILD", "foreman", phaseIndex + 1, 1) /\ stage = "REVIEW_LOOP" /\ stage' = "BUILD"
    BY <1>3 DEF NextPhase, ClosesPhase
  <2>2. PICK new \in Run : Joins(new, {}, "BUILD", "foreman", phaseIndex + 1)
    BY <1>1, <2>1, EnqueueJoins DEF Stages, Commands
  <2>3. Working("BUILD")'
    BY <2>2, JoinedWorks
  <2> QED
    BY <1>1, <2>1, <2>3 DEF MovesInv, QuestionsInv, WorkInv, UnblockOpen
<1>4. CASE LastPhaseMerged(p)
  <2>1. Enqueue("ASSESS", "assess", 0, 1) /\ stage = "REVIEW_LOOP" /\ stage' = "ASSESS"
    BY <1>4 DEF LastPhaseMerged, ClosesPhase
  <2>2. PICK new \in Run : Joins(new, {}, "ASSESS", "assess", 0)
    BY <1>1, <2>1, EnqueueJoins DEF Stages, Commands
  <2>3. Working("ASSESS")'
    BY <2>2, JoinedWorks
  <2> QED
    BY <1>1, <2>1, <2>3 DEF MovesInv, QuestionsInv, WorkInv, UnblockOpen, Working
<1>5. CASE MaintenanceMerged(p)
  BY <1>1, <1>5 DEF MaintenanceMerged, MovesInv, QuestionsInv, WorkInv, UnblockOpen
<1> QED
  BY <1>2, <1>3, <1>4, <1>5 DEF OnPullRequestMerged

LEMMA ResolveWorks ==
  ASSUME OrderInv, MovesInv, NEW q \in Questions, NEW choice \in {"primary", "secondary"}, Resolve(q, choice)
  PROVE  MovesInv'
<1>1. /\ decisions \in [Questions -> Nat] /\ effects \in Seq(Effect)
      /\ decisions[q] > 0 /\ decisions' = [decisions EXCEPT ![q] = @ - 1]
      /\ UNCHANGED <<phaseIssues, currentPr, runs, evals>>
  BY DEF Resolve, OrderInv, TypeInv, TypeOK
<1>2. \A asked \in Questions : decisions'[asked] > 0 => decisions[asked] > 0
  BY <1>1
<1>3. CASE stage' = "NEEDS_HUMAN"
  BY <1>2, <1>3 DEF MovesInv, QuestionsInv, WorkInv
<1>4. CASE stage' = stage
  <2>1. QuestionsInv'
    BY <1>2, <1>4 DEF MovesInv, QuestionsInv, UnblockOpen
  <2>2. WorkStays
    BY <1>1, SameRowsWork
  <2>3. effects # <<>> => effects' # <<>>
    BY <1>1 DEF Resolve, InsertEffect
  <2>4. LabelPending => LabelPending'
    <3>1. effects' = effects \/ \E new : effects' = Append(effects, new)
      BY DEF Resolve, InsertEffect
    <3>2. \A i \in DOMAIN effects : i \in DOMAIN effects' /\ effects'[i] = effects[i]
      BY <1>1, <3>1
    <3> QED
      BY <3>2 DEF LabelPending
  <2>5. ASSUME stage = "REVIEW_LOOP", currentPr # NoPr, MergeAsked
        PROVE  MergeAsked' \/ LabelPending'
    <3>1. hasRepo
      BY <2>5, LineFacts DEF OrderInv
    <3>2. CASE q.kind = "apply-auto-merge"
      <4>1. InsertEffect("apply-label", currentPr)
        BY <1>4, <2>5, <3>1, <3>2 DEF Resolve
      <4> QED
        BY <1>1, <4>1, InsertedLabel
    <3>3. CASE q.kind # "apply-auto-merge"
      BY <1>1, <2>5, <3>3 DEF MergeAsked
    <3> QED
      BY <3>2, <3>3
  <2>6. WorkInv'
    BY <1>1, <1>4, <2>2, <2>3, <2>4, <2>5 DEF MovesInv, WorkInv, WorkStays
  <2> QED
    BY <2>1, <2>6 DEF MovesInv
<1> QED
  BY <1>3, <1>4 DEF Resolve

LEMMA BridgeWorks ==
  ASSUME OrderInv, MovesInv, "effect-fails" \notin Happens, Bridge
  PROVE  MovesInv'
<1>1. /\ runs \subseteq Run /\ effects \in Seq(Effect) /\ currentPr \in Nat
      /\ {"REVIEW_LOOP", "BUILD"} \subseteq Stages /\ {"shepherd", "foreman"} \subseteq Commands
  BY BoundsAssumption DEF OrderInv, TypeInv, TypeOK, Stages, Commands
<1>2. ASSUME RunEffect PROVE UNCHANGED <<stage, currentPr, decisions, evals>> /\ QuestionsInv'
  BY <1>2 DEF RunEffect, scheduler, MovesInv, QuestionsInv, UnblockOpen
<1>3. ASSUME RunEffect, LabelApplied PROVE MovesInv'
  <2>1. /\ Enqueue("REVIEW_LOOP", "shepherd", currentPr, 1) /\ phaseIssues' = phaseIssues
        /\ effects # <<>> /\ Head(effects).kind = "apply-label"
    BY <1>3 DEF LabelApplied, TakeEffect
  <2>2. PICK new \in Run : Joins(new, {}, "REVIEW_LOOP", "shepherd", currentPr)
    BY <1>1, <2>1, EnqueueJoins
  <2>3. Working("REVIEW_LOOP")' /\ WorkStays
    BY <2>2, JoinedWorks
  <2>4. phaseIssues
    <3>1. 1 \in DOMAIN effects /\ effects[1].kind = "apply-label"
      BY <1>1, <2>1
    <3> QED
      BY <3>1 DEF OrderInv, LineInv, FoundInv
  <2>5. WorkInv'
    BY <1>2, <1>3, <2>1, <2>3, <2>4 DEF MovesInv, WorkInv, WorkStays
  <2> QED
    BY <1>2, <1>3, <2>5 DEF MovesInv
<1>4. ASSUME RunEffect, RepositoryRegistered PROVE MovesInv'
  <2> DEFINE next == [kind |-> "create-phase-issues", pr |-> NoPr]
  <2>1. /\ UNCHANGED <<phaseIssues, runs>> /\ effects # <<>> /\ Head(effects).kind = "register-repository"
        /\ effects' = Append(Tail(effects), next)
    BY <1>4 DEF RepositoryRegistered
  <2> HIDE DEF next
  <2>2. 1 \in DOMAIN effects /\ effects[1].kind = "register-repository" /\ effects' # <<>>
    BY <1>1, <2>1
  <2>3. stage = "BUILD"
    BY <2>2 DEF OrderInv, LineInv, FoundInv
  <2>4. WorkStays
    BY <2>1, SameRowsWork
  <2>5. WorkInv'
    BY <1>2, <1>4, <2>1, <2>2, <2>3, <2>4 DEF MovesInv, WorkInv, WorkStays
  <2> QED
    BY <1>2, <1>4, <2>5 DEF MovesInv
<1>5. ASSUME RunEffect, PhaseIssuesCreated PROVE MovesInv'
  <2>1. Enqueue("BUILD", "foreman", 0, 1) /\ effects # <<>> /\ Head(effects).kind = "create-phase-issues"
    BY <1>5 DEF PhaseIssuesCreated, TakeEffect
  <2>2. PICK new \in Run : Joins(new, {}, "BUILD", "foreman", 0)
    BY <1>1, <2>1, EnqueueJoins
  <2>3. Working("BUILD")'
    BY <2>2, JoinedWorks
  <2>4. 1 \in DOMAIN effects /\ effects[1].kind = "create-phase-issues"
    BY <1>1, <2>1
  <2>5. stage = "BUILD"
    BY <2>4 DEF OrderInv, LineInv, FoundInv
  <2> QED
    BY <1>2, <1>5, <2>3, <2>5 DEF MovesInv, WorkInv
<1>6. ASSUME RunEffect, CommentPosted PROVE MovesInv'
  <2>1. /\ UNCHANGED <<phaseIssues, runs>> /\ effects # <<>> /\ Head(effects).kind = "comment"
        /\ effects' = Tail(effects)
    BY <1>6 DEF CommentPosted, TakeEffect
  <2>2. 1 \in DOMAIN effects /\ effects[1].kind = "comment"
    BY <1>1, <2>1
  <2>3. stage = "BUILD" => phaseIssues
    BY <2>2 DEF OrderInv, LineInv, FoundInv
  <2>4. LabelPending => LabelPending'
    <3>1. ASSUME NEW i \in DOMAIN effects, effects[i].kind = "apply-label" PROVE LabelPending'
      <4>1. i # 1
        BY <2>2, <3>1
      <4>2. i - 1 \in DOMAIN effects' /\ effects'[i - 1] = effects[i]
        BY <1>1, <2>1, <3>1, <4>1
      <4> QED
        BY <3>1, <4>2 DEF LabelPending
    <3> QED
      BY <3>1 DEF LabelPending
  <2>5. WorkStays /\ (MergeAsked => MergeAsked')
    BY <1>2, <1>6, <2>1, SameRowsWork DEF MergeAsked
  <2>6. WorkInv'
    BY <1>2, <1>6, <2>1, <2>3, <2>4, <2>5 DEF MovesInv, WorkInv, WorkStays
  <2> QED
    BY <1>2, <1>6, <2>6 DEF MovesInv
<1>7. ASSUME NEW p \in 1..MaxPrs, BridgeReportsMerge(p) PROVE MovesInv'
  BY <1>7, SameRowsWork, MovesKept DEF BridgeReportsMerge, project
<1>8. CASE BridgeRestarts
  BY <1>8, SameRowsWork, MovesKept DEF BridgeRestarts, project, scheduler
<1> QED
  BY <1>3, <1>4, <1>5, <1>6, <1>7, <1>8 DEF Bridge, RunEffect, EffectFailed

LEMMA MovesInvInductive ==
  ASSUME OrderInv, RowsPossible, MovesInv, NothingIsDropped, [Next]_vars
  PROVE  MovesInv'
<1>1. /\ "findings" \notin Happens /\ "stall" \notin Happens /\ "effect-fails" \notin Happens
      /\ "cancel" \notin Happens /\ "checklist" \notin Happens
      /\ "set-pr" \notin Happens /\ "retry-stage" \notin Happens
  BY DEF NothingIsDropped, NoCliCorrections
<1>2. /\ TypeInv /\ runs \subseteq Run /\ mergeCalls \subseteq merged /\ evals \in Nat
      /\ {"GENESIS", "TRIAGE", "ASSESS"} \subseteq Stages /\ {"genesis", "triage", "assess"} \subseteq Commands
  BY DEF OrderInv, TypeInv, TypeOK, Stages, Commands
<1>3. CASE UNCHANGED vars
  BY <1>3, SameRowsWork, MovesKept DEF vars, project, scheduler
<1>4. CASE Operator
  <2>1. CASE StartLine
    <3>1. Enqueue("GENESIS", "genesis", 0, 1) /\ stage = "DRAFT" /\ stage' = "GENESIS" /\ decisions' = decisions
      BY <2>1 DEF StartLine
    <3>2. PICK new \in Run : Joins(new, {}, "GENESIS", "genesis", 0)
      BY <1>2, <3>1, EnqueueJoins
    <3>3. Working("GENESIS")'
      BY <3>2, JoinedWorks
    <3> QED
      BY <3>1, <3>3 DEF MovesInv, QuestionsInv, WorkInv, UnblockOpen, Working
  <2>2. CASE CliUnblock
    BY <2>2, SameRowsWork, MovesKept DEF CliUnblock, project
  <2> QED
    BY <1>1, <1>4, <2>1, <2>2, ResolveWorks
       DEF Operator, RequestDarkMode, RetryStage, SetPullRequest, CancelQueued, CancelByJob
<1>5. CASE Machinist
  <2>1. UNCHANGED <<project, effects, decisions, evals>>
    BY <1>5 DEF Machinist, SubmitRun, OpenPr, CompleteRun, scheduler
  <2> QED
    BY <1>2, <1>5, <2>1, MachinistWorks, MovesKept DEF project
<1>6. CASE Scheduled
  BY <1>1, <1>2, <1>6, OnRunCompletedWorks, EvaluateWorks, UnblockWorks, OnPullRequestMergedWorks
     DEF Scheduled, ScheduledMergeReport
<1>7. CASE GitHub
  <2>1. CASE GateMoved
    BY <1>2, <2>1, SameRowsWork, MovesKept DEF GateMoved, project
  <2>2. CASE OnIssueOpened
    <3>1. Enqueue("TRIAGE", "triage", 0, 1) /\ UNCHANGED <<project, effects, decisions, evals>>
      BY <2>2 DEF OnIssueOpened, scheduler
    <3>2. PICK new \in Run : Joins(new, {}, "TRIAGE", "triage", 0)
      BY <1>2, <3>1, EnqueueJoins
    <3>3. WorkStays
      BY <3>2, JoinedWorks
    <3> QED
      BY <3>1, <3>3, MovesKept DEF project
  <2>3. CASE OnRelease
    <3>1. Enqueue("ASSESS", "assess", 0, 1) /\ stage = "MAINTAIN" /\ stage' = "ASSESS" /\ decisions' = decisions
      BY <2>3 DEF OnRelease
    <3>2. PICK new \in Run : Joins(new, {}, "ASSESS", "assess", 0)
      BY <1>2, <3>1, EnqueueJoins
    <3>3. Working("ASSESS")'
      BY <3>2, JoinedWorks
    <3> QED
      BY <3>1, <3>3 DEF MovesInv, QuestionsInv, WorkInv, UnblockOpen, Working
  <2>4. ASSUME NEW p \in 1..MaxPrs, MergePr(p) PROVE MovesInv'
    BY <2>4, SameRowsWork, MovesKept DEF MergePr, project, scheduler
  <2> QED
    BY <1>7, <2>1, <2>2, <2>3, <2>4, OnPullRequestMergedWorks DEF GitHub, WebhookReportsMerge
<1> QED
  BY <1>1, <1>3, <1>4, <1>5, <1>6, <1>7, BridgeWorks DEF Next

LEMMA NothingWaitsAtFirst == Init => MovesInv
<1> SUFFICES ASSUME Init PROVE MovesInv
  OBVIOUS
<1>1. \A q \in Questions : ~(decisions[q] > 0)
  BY DEF Init
<1> QED
  BY <1>1 DEF Init, MovesInv, QuestionsInv, WorkInv, UnblockOpen

(* A line that is not at rest always has a run, a scheduled call, an effect, a *)
(* merge report or an open decision that moves it on, or reviews nothing:      *)
(* whatever fails, is retried, restarted, reported twice or answered either    *)
(* way, in every instance, as long as nothing that was started is dropped.     *)
THEOREM LineIsNeverSilent == NothingIsDropped /\ Spec => []NeverSilentlyStalled
<1>1. Spec => [](TypeInv /\ RowsPossible)
  BY NoRowsAtFirst, NothingStoppedAtFirst, TypeInvInductive, RowsStayPossible, PTL DEF Spec
<1>2. ASSUME NothingIsDropped
      PROVE  OrderInv /\ (TypeInv /\ RowsPossible) /\ MovesInv /\ [Next]_vars => MovesInv'
  BY <1>2, MovesInvInductive
<1>3. OrderInv /\ MovesInv => NeverSilentlyStalled
  <2> SUFFICES ASSUME OrderInv, MovesInv, stage \notin {"DRAFT", "MAINTAIN", "NEEDS_HUMAN"}
               PROVE  NeverSilentlyStalled
    BY DEF NeverSilentlyStalled
  <2>1. stage \in LineStages
    BY DEF OrderInv, LineInv, EarnedInv
  <2>2. CASE \E s \in Stages : Working(s)
    BY <2>2 DEF Working, NeverSilentlyStalled
  <2>3. CASE LabelPending
    BY <2>3 DEF LabelPending, NeverSilentlyStalled
  <2>4. CASE MergeAsked
    BY <2>4 DEF MergeAsked, AnyOpen, NeverSilentlyStalled
  <2>5. LineStages \subseteq Stages
    BY DEF LineStages, Stages
  <2>6. CASE evals > 0 \/ effects # <<>> \/ ReviewsNothing
    BY <2>6 DEF NeverSilentlyStalled
  <2> QED
    BY <2>1, <2>2, <2>3, <2>4, <2>5, <2>6 DEF LineStages, MovesInv, WorkInv, ReviewsNothing
<1>4. ASSUME NothingIsDropped PROVE NoCliCorrections
  BY <1>4 DEF NothingIsDropped
<1>5. ASSUME NothingIsDropped PROVE Spec => []NeverSilentlyStalled
  BY <1>1, <1>2, <1>3, <1>4, <1>5, NothingWaitsAtFirst, OrderKept, PTL DEF Spec
<1> QED
  BY <1>5

-----------------------------------------------------------------------------
(* One label per verdict                                                     *)

(* A failed shepherd is retried without a look at the queue, and a decision's  *)
(* approval queues its label likewise: either can make a second label.         *)
VerdictsOnly == NoCliCorrections /\ {"run-fails", "manual"} \cap Happens = {}

OneLabel ==
  \A i, j \in DOMAIN effects :
    effects[i].kind = "apply-label" /\ effects[j].kind = "apply-label" => i = j
LiveShepherd == \E r \in runs : r.command = "shepherd" /\ Live(r)
NewestIsShepherd == \E r \in runs : IsLast(r) /\ r.command = "shepherd"

(* While a label is queued, an unblock that runs the newest row again must not *)
(* find a shepherd there.                                                      *)
LabelInv ==
  /\ OneLabel
  /\ LabelPending => ~LiveShepherd
  /\ LabelPending /\ currentPr = NoPr /\ stage # "MAINTAIN" => ~NewestIsShepherd
  /\ ~MergeAsked

LEMMA RowsKeptShepherds ==
  ASSUME RowsKept
  PROVE  (LiveShepherd' => LiveShepherd) /\ (NewestIsShepherd' => NewestIsShepherd)
<1>1. \A r \in runs', o \in runs : SameWork(r, o) /\ IsLast(r)' => IsLast(o)
  BY DEF RowsKept, SameWork, IsLast
<1> QED
  BY <1>1 DEF RowsKept, SameWork, LiveShepherd, NewestIsShepherd

LEMMA LabelKept ==
  ASSUME LabelInv, RowsKept, ~MergeAsked', effects' = effects,
         currentPr' = currentPr \/ currentPr' # NoPr \/ stage' = "MAINTAIN",
         stage # "MAINTAIN" \/ stage' = stage \/ currentPr' # NoPr
  PROVE  LabelInv'
  BY RowsKeptShepherds DEF LabelInv, OneLabel, LabelPending

LEMMA LabelJoined ==
  ASSUME TypeInv, IdsUnique, LabelInv, ~MergeAsked',
         NEW new, NEW gone, NEW s, NEW command, NEW ref, Joins(new, gone, s, command, ref),
         effects' = effects, command # "shepherd" \/ ~LabelPending
  PROVE  LabelInv'
<1>1. /\ new.command = command
      /\ \A r \in runs' : r = new \/ r \in runs
      /\ \A r \in runs' : IsLast(r)' => r = new
  BY JoinedRows DEF TypeInv, TypeOK
<1>2. OneLabel' /\ LabelPending' = LabelPending
  BY DEF LabelInv, OneLabel, LabelPending
<1>3. command # "shepherd" => (LiveShepherd' => LiveShepherd) /\ ~NewestIsShepherd'
  BY <1>1 DEF LiveShepherd, NewestIsShepherd, Live
<1> QED
  BY <1>2, <1>3 DEF LabelInv

LEMMA LabelGone == ASSUME ~MergeAsked', ~LabelPending' PROVE LabelInv'
  BY DEF LabelInv, OneLabel, LabelPending

LEMMA OpenedOther ==
  ASSUME TypeInv, ~MergeAsked, NEW kind \in Kinds \ {"apply-auto-merge"}, NEW pr, OpenDecision(kind, pr)
  PROVE  ~MergeAsked'
<1> DEFINE asked == [kind |-> kind, pr |-> pr]
<1>1. asked.kind = kind /\ decisions' = [decisions EXCEPT ![asked] = @ + 1]
  BY DEF OpenDecision
<1> HIDE DEF asked
<1> QED
  BY <1>1 DEF MergeAsked, TypeInv, TypeOK

LEMMA OnRunCompletedLabels ==
  ASSUME OrderInv, RowsPossible, "run-fails" \notin Happens, LabelInv, NEW r \in runs, OnRunCompleted(r)
  PROVE  LabelInv'
<1>1. TypeInv /\ IdsUnique /\ runs \subseteq Run
  BY DEF OrderInv, LineInv, TypeInv, TypeOK
<1>2. ~MergeAsked'
  <2>1. CASE decisions' = decisions
    BY <2>1 DEF MergeAsked, LabelInv
  <2>2. CASE \E kind \in {"unblock", "accept-finding"} : Stop(kind)
    BY <1>1, <2>2, OpenedOther DEF Stop, LabelInv, Kinds
  <2> QED
    BY <2>1, <2>2
       DEF OnRunCompleted, StaleRun, RetryRun, StopOnFailure, GenesisDone, HandedOff, RepairNeedsHuman,
           RepairDone, AssessPassed, AssessFoundFindings, DeployDone, Triaged
<1>3. Accepted(r) => stage # "MAINTAIN"
  BY DEF Accepted, IsStale, OrderInv, LineInv, EarnedInv, LineStages
<1>4. CASE StaleRun(r)
  <2>1. RowsKept /\ UNCHANGED <<stage, currentPr, effects>>
    BY <1>1, <1>4, CloseKeeps DEF StaleRun
  <2> QED
    BY <1>2, <2>1, LabelKept
<1>5. ~RetryRun(r)
  BY DEF RetryRun, RowsPossible, RowPossible
<1>6. CASE AssessPassed(r)
  <2>1. CloseAndEnqueue(r, "DEPLOY_DEV", "dev", 0, 1) /\ effects' = effects
    BY <1>6 DEF AssessPassed
  <2>2. "DEPLOY_DEV" \in Stages /\ "dev" \in Commands /\ 0 \in Nat /\ 1 \in 1..2
    BY DEF Stages, Commands
  <2>3. PICK new \in Run : Joins(new, {r}, "DEPLOY_DEV", "dev", 0)
    BY <1>1, <2>1, <2>2, CloseAndEnqueueJoins
  <2> QED
    BY <1>1, <1>2, <2>1, <2>3, LabelJoined
<1>7. CASE Accepted(r) /\ Close(r) /\ effects' = effects /\ (currentPr' = currentPr \/ currentPr' # NoPr)
  <2>1. RowsKept
    BY <1>1, <1>7, CloseKeeps
  <2> QED
    BY <1>2, <1>3, <1>7, <2>1, LabelKept
<1>8. CASE GenesisDone(r)
  <2> DEFINE new == [kind |-> "register-repository", pr |-> NoPr]
  <2>1. stage = "GENESIS" /\ effects' = Append(effects, new) /\ new.kind = "register-repository"
    BY <1>8 DEF GenesisDone, Succeeded, Accepted, IsStale, InsertEffect
  <2> HIDE DEF new
  <2>2. effects = <<>>
    BY <2>1 DEF OrderInv, LineInv, FoundInv
  <2>3. effects' = Append(<<>>, new)
    BY <2>1, <2>2
  <2>4. ~LabelPending'
    BY <2>1, <2>3 DEF LabelPending
  <2> QED
    BY <1>2, <2>4, LabelGone
<1>9. ~Triaged(r)
  BY DEF Triaged, Succeeded, Accepted, IsStale, OrderInv, LineInv, EarnedInv, LineStages
<1> QED
  BY <1>4, <1>5, <1>6, <1>7, <1>8, <1>9
     DEF OnRunCompleted, StopOnFailure, HandedOff, RepairNeedsHuman, RepairDone, AssessFoundFindings,
         DeployDone, Succeeded

LEMMA EvaluateLabels ==
  ASSUME OrderInv, LabelInv, "manual" \notin Happens, Evaluate
  PROVE  LabelInv'
<1>1. /\ TypeInv /\ IdsUnique /\ runs \subseteq Run /\ effects \in Seq(Effect) /\ currentPr \in Nat
      /\ currentPr' = currentPr /\ "unblock" \in Kinds
  BY BoundsAssumption DEF OrderInv, LineInv, TypeInv, TypeOK, Evaluate, Kinds
<1>2. ~MergeAsked'
  <2>1. CASE decisions' = decisions
    BY <2>1 DEF MergeAsked, LabelInv
  <2>2. CASE OpenDecision("unblock", currentPr)
    BY <1>1, <2>2, OpenedOther DEF LabelInv
  <2> QED
    BY <2>1, <2>2
       DEF Evaluate, EvaluateNothing, EvaluateStalled, EvaluatePassDark, EvaluatePassGray,
           EvaluateRepair, EvaluateCapReached, Stop
<1>3. Judging => stage = "REVIEW_LOOP" /\ currentPr # NoPr /\ ~LiveShepherd
  BY DEF Judging, Reviewing, LiveRepair, LiveShepherd, RepairCommands
<1>4. CASE EvaluateNothing \/ EvaluateStalled \/ EvaluateCapReached
  <2>1. RowsKept /\ effects' = effects /\ (stage' = stage \/ Judging)
    BY <1>4, SameRowsKept DEF EvaluateNothing, EvaluateStalled, EvaluateCapReached, OrderInv
  <2> QED
    BY <1>1, <1>2, <1>3, <2>1, LabelKept
<1>5. CASE EvaluatePassDark
  <2>1. Judging /\ UNCHANGED <<stage, runs>>
        /\ (IF LabelPending THEN UNCHANGED effects ELSE InsertEffect("apply-label", currentPr))
    BY <1>5 DEF EvaluatePassDark
  <2>2. OneLabel'
    <3>1. CASE LabelPending
      BY <2>1, <3>1 DEF LabelInv, OneLabel
    <3>2. CASE ~LabelPending
      <4>1. PICK new : effects' = Append(effects, new)
        BY <2>1, <3>2 DEF InsertEffect
      <4>2. \A i \in DOMAIN effects' : i = Len(effects) + 1 \/ (i \in DOMAIN effects /\ effects'[i] = effects[i])
        BY <1>1, <4>1
      <4> QED
        BY <3>2, <4>2 DEF LabelPending, OneLabel
    <3> QED
      BY <3>1, <3>2
  <2>3. ~LiveShepherd'
    BY <1>3, <2>1 DEF LiveShepherd
  <2> QED
    BY <1>1, <1>2, <1>3, <2>1, <2>2, <2>3 DEF LabelInv
<1>6. CASE EvaluateRepair
  <2>1. Enqueue("REVIEW_LOOP", "greptile-fix", currentPr, 1) /\ effects' = effects
    BY <1>6 DEF EvaluateRepair
  <2>2. PICK new \in Run : Joins(new, {}, "REVIEW_LOOP", "greptile-fix", currentPr)
    BY <1>1, <2>1, EnqueueJoins DEF Stages, Commands
  <2> QED
    BY <1>1, <1>2, <2>1, <2>2, LabelJoined
<1> QED
  BY <1>4, <1>5, <1>6 DEF Evaluate, EvaluatePassGray

LEMMA UnblockLabels ==
  ASSUME OrderInv, LabelInv, Unblock
  PROVE  LabelInv'
<1>1. TypeInv /\ IdsUnique /\ runs \subseteq Run /\ UNCHANGED <<currentPr, effects>>
  BY DEF OrderInv, LineInv, TypeInv, TypeOK, Unblock
<1>2. ~MergeAsked'
  <2>1. CASE decisions' = decisions
    BY <2>1 DEF MergeAsked, LabelInv
  <2>2. CASE ResolveUnblocks
    <3>1. decisions' = [q \in Questions |-> IF q.kind = "unblock" THEN 0 ELSE decisions[q]]
      BY <2>2 DEF ResolveUnblocks
    <3>2. \A q \in Questions : decisions'[q] = IF q.kind = "unblock" THEN 0 ELSE decisions[q]
      BY <3>1, Zenon
    <3> QED
      BY <3>2 DEF MergeAsked, LabelInv
  <2> QED
    BY <2>1, <2>2 DEF Unblock, UnblockIgnored, UnblockToReview, UnblockToRerun, Rerun
<1>3. CASE UnblockIgnored \/ UnblockToReview
  <2>1. RowsKept /\ (stage' = stage \/ stage = "NEEDS_HUMAN")
    BY <1>3, SameRowsKept DEF UnblockIgnored, UnblockToReview, OrderInv
  <2> QED
    BY <1>1, <1>2, <2>1, LabelKept
<1>4. CASE UnblockToRerun
  <2>1. PICK last \in runs : Rerun(last)
    BY <1>4 DEF UnblockToRerun
  <2>2. /\ IsLast(last) /\ Enqueue(last.stage, last.command, last.ref, 1)
        /\ last.stage \in Stages /\ last.command \in Commands /\ last.ref \in Nat
    BY <1>1, <2>1 DEF Rerun, Run
  <2>3. PICK new \in Run : Joins(new, {}, last.stage, last.command, last.ref)
    BY <1>1, <2>2, EnqueueJoins
  <2>4. currentPr = NoPr /\ stage = "NEEDS_HUMAN"
    BY <1>4, LineFacts DEF UnblockToRerun, OrderInv
  <2>5. last.command # "shepherd" \/ ~LabelPending
    BY <2>2, <2>4 DEF LabelInv, NewestIsShepherd
  <2> QED
    BY <1>1, <1>2, <2>3, <2>5, LabelJoined
<1> QED
  BY <1>3, <1>4 DEF Unblock

LEMMA OnPullRequestMergedLabels ==
  ASSUME OrderInv, LabelInv, NEW p, OnPullRequestMerged(p)
  PROVE  LabelInv'
<1>1. /\ TypeInv /\ IdsUnique /\ runs \subseteq Run /\ phaseIndex + 1 \in Nat
      /\ UNCHANGED <<effects, decisions>>
  BY BoundsAssumption DEF OrderInv, LineInv, TypeInv, TypeOK, OnPullRequestMerged
<1>2. ~MergeAsked'
  BY <1>1 DEF MergeAsked, LabelInv
<1>3. CASE MergeIgnored(p) \/ MaintenanceMerged(p)
  <2>1. RowsKept /\ ((stage' = stage /\ currentPr' = currentPr) \/ stage' = "MAINTAIN")
    BY <1>3, SameRowsKept DEF MergeIgnored, MaintenanceMerged, OrderInv
  <2>2. stage # "MAINTAIN" \/ stage' = stage
    BY <1>3 DEF MergeIgnored, MaintenanceMerged
  <2> QED
    BY <1>1, <1>2, <2>1, <2>2, LabelKept
<1>4. CASE NextPhase(p)
  <2>1. Enqueue("BUILD", "foreman", phaseIndex + 1, 1)
    BY <1>4 DEF NextPhase
  <2>2. PICK new \in Run : Joins(new, {}, "BUILD", "foreman", phaseIndex + 1)
    BY <1>1, <2>1, EnqueueJoins DEF Stages, Commands
  <2> QED
    BY <1>1, <1>2, <2>2, LabelJoined
<1>5. CASE LastPhaseMerged(p)
  <2>1. Enqueue("ASSESS", "assess", 0, 1)
    BY <1>5 DEF LastPhaseMerged
  <2>2. PICK new \in Run : Joins(new, {}, "ASSESS", "assess", 0)
    BY <1>1, <2>1, EnqueueJoins DEF Stages, Commands
  <2> QED
    BY <1>1, <1>2, <2>2, LabelJoined
<1> QED
  BY <1>3, <1>4, <1>5 DEF OnPullRequestMerged

LEMMA OperatorLabels ==
  ASSUME OrderInv, NoCliCorrections, LabelInv, Operator
  PROVE  LabelInv'
<1>1. TypeInv /\ IdsUnique /\ runs \subseteq Run /\ "dark-mode-checklist" \in Kinds
  BY DEF OrderInv, LineInv, TypeInv, TypeOK, Kinds
<1>2. ASSUME decisions' = decisions PROVE ~MergeAsked'
  BY <1>2 DEF MergeAsked, LabelInv
<1>3. CASE StartLine
  <2>1. Enqueue("GENESIS", "genesis", 0, 1) /\ UNCHANGED <<effects, decisions>>
    BY <1>3 DEF StartLine
  <2>2. PICK new \in Run : Joins(new, {}, "GENESIS", "genesis", 0)
    BY <1>1, <2>1, EnqueueJoins DEF Stages, Commands
  <2> QED
    BY <1>1, <1>2, <2>1, <2>2, LabelJoined
<1>4. ASSUME NEW q \in Questions, NEW choice \in {"primary", "secondary"}, Resolve(q, choice)
      PROVE  LabelInv'
  <2>1. q.kind # "apply-auto-merge" /\ RowsKept
    BY <1>4, SameRowsKept DEF Resolve, LabelInv, MergeAsked, OrderInv
  <2>2. UNCHANGED <<stage, currentPr, effects>> /\ decisions' = [decisions EXCEPT ![q] = @ - 1]
        /\ decisions \in [Questions -> Nat]
    BY <1>1, <1>4, <2>1 DEF Resolve, TypeInv, TypeOK
  <2>3. ~MergeAsked'
    BY <2>1, <2>2 DEF LabelInv, MergeAsked
  <2> QED
    BY <2>1, <2>2, <2>3, LabelKept
<1>5. CASE RequestDarkMode
  <2>1. RowsKept /\ UNCHANGED <<project, effects>> /\ OpenDecision("dark-mode-checklist", NoPr)
    BY <1>5, SameRowsKept DEF RequestDarkMode, OrderInv
  <2>2. ~MergeAsked'
    BY <1>1, <2>1, OpenedOther DEF LabelInv
  <2> QED
    BY <2>1, <2>2, LabelKept DEF project
<1>6. CASE CliUnblock
  BY <1>2, <1>6, SameRowsKept, LabelKept DEF CliUnblock, project, OrderInv
<1>7. ASSUME NEW command \in Commands, CancelQueued(command) PROVE LabelInv'
  <2>1. RowsKept /\ UNCHANGED <<project, effects, decisions>>
    BY <1>1, <1>7, CancelKeeps DEF CancelQueued
  <2> QED
    BY <1>2, <2>1, LabelKept DEF project
<1>8. ASSUME NEW r \in runs, CancelByJob(r) PROVE LabelInv'
  <2>1. RowsKept /\ UNCHANGED <<project, effects, decisions>>
    BY <1>1, <1>8, CloseKeeps DEF CancelByJob
  <2> QED
    BY <1>2, <2>1, LabelKept DEF project
<1> QED
  BY <1>3, <1>4, <1>5, <1>6, <1>7, <1>8 DEF Operator, NoCliCorrections, RetryStage, SetPullRequest

LEMMA BridgeLabels ==
  ASSUME OrderInv, LabelInv, Bridge
  PROVE  LabelInv'
<1>1. TypeInv /\ IdsUnique /\ runs \subseteq Run /\ effects \in Seq(Effect)
  BY DEF OrderInv, LineInv, TypeInv, TypeOK
<1>2. ASSUME decisions' = decisions PROVE ~MergeAsked'
  BY <1>2 DEF MergeAsked, LabelInv
<1>3. CASE RunEffect
  <2>1. UNCHANGED <<stage, currentPr, decisions>> /\ effects # <<>>
    BY <1>3 DEF RunEffect, LabelApplied, RepositoryRegistered, PhaseIssuesCreated, CommentPosted,
                EffectFailed, TakeEffect
  <2>2. 1 \in DOMAIN effects /\ Head(effects) = effects[1]
    BY <1>1, <2>1
  <2>3. CASE RepositoryRegistered
    <3> DEFINE next == [kind |-> "create-phase-issues", pr |-> NoPr]
    <3>1. /\ effects[1].kind = "register-repository" /\ next.kind = "create-phase-issues"
          /\ effects' = Append(Tail(effects), next)
      BY <2>2, <2>3 DEF RepositoryRegistered
    <3> HIDE DEF next
    <3>2. Len(effects) <= 1
      BY <2>2, <3>1 DEF OrderInv, LineInv, FoundInv
    <3>3. Tail(effects) = <<>>
      BY <1>1, <2>1, <3>2
    <3>4. effects' = Append(<<>>, next)
      BY <3>1, <3>3
    <3>5. ~LabelPending'
      BY <3>1, <3>4 DEF LabelPending
    <3> QED
      BY <1>2, <2>1, <3>5, LabelGone
  <2>4. ASSUME effects' = Tail(effects)
        PROVE  /\ \A i \in DOMAIN effects' : i + 1 \in DOMAIN effects /\ effects'[i] = effects[i + 1]
                                            /\ i \in Nat /\ i # 0
               /\ OneLabel' /\ (LabelPending' => LabelPending)
    <3>1. \A i \in DOMAIN effects' : i + 1 \in DOMAIN effects /\ effects'[i] = effects[i + 1]
                                     /\ i \in Nat /\ i # 0
      BY <1>1, <2>1, <2>4
    <3> QED
      BY <3>1 DEF LabelInv, OneLabel, LabelPending
  <2>5. CASE LabelApplied
    <3>1. effects' = Tail(effects) /\ effects[1].kind = "apply-label"
      BY <2>2, <2>5 DEF LabelApplied, TakeEffect
    <3>2. ~LabelPending'
      BY <2>2, <2>4, <3>1 DEF LabelInv, OneLabel, LabelPending
    <3> QED
      BY <1>2, <2>1, <3>2, LabelGone
  <2>6. CASE PhaseIssuesCreated
    <3>1. effects' = Tail(effects) /\ effects[1].kind = "create-phase-issues"
      BY <2>2, <2>6 DEF PhaseIssuesCreated, TakeEffect
    <3>2. Len(effects) <= 1
      BY <2>2, <3>1 DEF OrderInv, LineInv, FoundInv
    <3>3. effects' = <<>>
      BY <1>1, <2>1, <3>1, <3>2
    <3>4. ~LabelPending'
      BY <3>3 DEF LabelPending
    <3> QED
      BY <1>2, <2>1, <3>4, LabelGone
  <2>7. CASE CommentPosted \/ EffectFailed
    <3>1. effects' = Tail(effects) /\ UNCHANGED runs /\ RowsKept
      BY <2>7, SameRowsKept DEF CommentPosted, EffectFailed, TakeEffect, OrderInv
    <3> QED
      BY <1>2, <2>1, <2>4, <3>1, RowsKeptShepherds DEF LabelInv
  <2> QED
    BY <1>3, <2>3, <2>5, <2>6, <2>7 DEF RunEffect
<1>4. ASSUME NEW p \in 1..MaxPrs, BridgeReportsMerge(p) PROVE LabelInv'
  BY <1>2, <1>4, SameRowsKept, LabelKept DEF BridgeReportsMerge, project, OrderInv
<1>5. CASE BridgeRestarts
  BY <1>2, <1>5, SameRowsKept, LabelKept DEF BridgeRestarts, project, OrderInv
<1> QED
  BY <1>3, <1>4, <1>5 DEF Bridge

LEMMA LabelInvInductive ==
  ASSUME OrderInv, RowsPossible, LabelInv, VerdictsOnly, [Next]_vars
  PROVE  LabelInv'
<1>1. NoCliCorrections /\ "run-fails" \notin Happens /\ "manual" \notin Happens
  BY DEF VerdictsOnly
<1>2. /\ TypeInv /\ IdsUnique /\ runs \subseteq Run
      /\ {"TRIAGE", "ASSESS"} \subseteq Stages /\ {"triage", "assess"} \subseteq Commands
  BY DEF OrderInv, LineInv, TypeInv, TypeOK, Stages, Commands
<1>3. ASSUME decisions' = decisions PROVE ~MergeAsked'
  BY <1>3 DEF MergeAsked, LabelInv
<1>4. CASE UNCHANGED vars
  BY <1>3, <1>4, SameRowsKept, LabelKept DEF vars, project, OrderInv
<1>5. CASE Machinist
  <2>1. UNCHANGED <<project, effects, decisions>> /\ RowsKept
    BY <1>2, <1>5, MachinistKeeps DEF Machinist, SubmitRun, OpenPr, CompleteRun
  <2> QED
    BY <1>3, <2>1, LabelKept DEF project
<1>6. CASE Scheduled
  BY <1>1, <1>6, OnRunCompletedLabels, EvaluateLabels, UnblockLabels, OnPullRequestMergedLabels
     DEF Scheduled, ScheduledMergeReport
<1>7. CASE GitHub
  <2>1. CASE GateMoved
    BY <1>3, <2>1, SameRowsKept, LabelKept DEF GateMoved, project, OrderInv
  <2>2. CASE OnIssueOpened
    <3>1. Enqueue("TRIAGE", "triage", 0, 1) /\ UNCHANGED <<effects, decisions>>
      BY <2>2 DEF OnIssueOpened
    <3>2. PICK new \in Run : Joins(new, {}, "TRIAGE", "triage", 0)
      BY <1>2, <3>1, EnqueueJoins
    <3> QED
      BY <1>2, <1>3, <3>1, <3>2, LabelJoined
  <2>3. CASE OnRelease
    <3>1. Enqueue("ASSESS", "assess", 0, 1) /\ UNCHANGED <<effects, decisions>>
      BY <2>3 DEF OnRelease
    <3>2. PICK new \in Run : Joins(new, {}, "ASSESS", "assess", 0)
      BY <1>2, <3>1, EnqueueJoins
    <3> QED
      BY <1>2, <1>3, <3>1, <3>2, LabelJoined
  <2>4. ASSUME NEW p \in 1..MaxPrs, MergePr(p) PROVE LabelInv'
    BY <1>3, <2>4, SameRowsKept, LabelKept DEF MergePr, project, OrderInv
  <2> QED
    BY <1>7, <2>1, <2>2, <2>3, <2>4, OnPullRequestMergedLabels DEF GitHub, WebhookReportsMerge
<1> QED
  BY <1>1, <1>4, <1>5, <1>6, <1>7, OperatorLabels, BridgeLabels DEF Next

LEMMA NoLabelAtFirst == Init => LabelInv
<1> SUFFICES ASSUME Init PROVE LabelInv
  OBVIOUS
<1>1. \A q \in Questions : ~(decisions[q] > 0)
  BY DEF Init
<1> QED
  BY <1>1 DEF Init, LabelInv, OneLabel, LabelPending, MergeAsked

(* However many evaluations a burst of webhooks schedules, and whatever stops, *)
(* is lifted, cancelled, merged or reported meanwhile, one label at a time is  *)
(* queued and none while a shepherd is in flight, in every instance without    *)
(* failed runs and held merges (gates.ts).                                     *)
THEOREM OneLabelAtATime == VerdictsOnly /\ Spec => []OneLabelPerVerdict
<1>1. Spec => [](TypeInv /\ RowsPossible)
  BY NoRowsAtFirst, NothingStoppedAtFirst, TypeInvInductive, RowsStayPossible, PTL DEF Spec
<1>2. ASSUME VerdictsOnly
      PROVE  OrderInv /\ (TypeInv /\ RowsPossible) /\ LabelInv /\ [Next]_vars => LabelInv'
  BY <1>2, LabelInvInductive
<1>3. LabelInv => OneLabelPerVerdict
  BY DEF LabelInv, OneLabel, LiveShepherd, OneLabelPerVerdict
<1>4. ASSUME VerdictsOnly PROVE NoCliCorrections
  BY <1>4 DEF VerdictsOnly
<1>5. ASSUME VerdictsOnly PROVE Spec => []OneLabelPerVerdict
  BY <1>1, <1>2, <1>3, <1>4, <1>5, NoLabelAtFirst, OrderKept, PTL DEF Spec
<1> QED
  BY <1>5
=============================================================================
