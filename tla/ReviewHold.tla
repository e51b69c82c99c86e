----------------------------- MODULE ReviewHold -----------------------------
(***************************************************************************)
(* What may merge itself: the mode of the factory and of one project, the  *)
(* gate row of its pull request, the forced-gray classification of the     *)
(* row, the auto-merge label and GitHub's branch protection, which the     *)
(* bridge brings about by executing queued effects.                        *)
(*                                                                         *)
(* StageMachine abstracts the gate to the verdict it reaches; here the     *)
(* verdict is computed from the row, and the stages are those the row can  *)
(* be read in.  Check conclusions and the review score are one value,      *)
(* checks, and the repair round is abstracted: a failing gate is repaired  *)
(* or stops the project.                                                   *)
(***************************************************************************)
EXTENDS Naturals, Sequences

CONSTANTS
  MaxChanges,   \* bound on the operator's changes of a mode
  MaxEvals,     \* bound on gates.evaluate calls scheduled at once
  MaxEffects,   \* bound on the effect rows that are not finished
  MaxFaults,    \* bound on disturbances: pushes, webhooks, stops, failed effects, restarts
  Happens       \* the kinds of events the environment may produce

Events ==
  {"webhook",       \* GitHub's review and check-suite webhooks are registered
   "checklist", "checklist-again",   \* dark mode is asked for, and once more
   "overlap",       \* a mode changes while the previous change's protection is scheduled
   "human-asked",   \* the operator answers decisions
   "stop",          \* a failing gate or a repair stops the project
   "effect-fails", "restart"}

ASSUME HoldAssumption ==
  /\ MaxChanges \in Nat /\ MaxEvals \in Nat /\ MaxEffects \in Nat /\ MaxFaults \in Nat
  /\ Happens \subseteq Events

VARIABLES
  \* the factory's settings and the project row
  factoryMode, projectMode, checklist, stage,
  \* the gate row of the pull request, and the kinds of the open decisions
  gate, asked,
  \* runs in flight on the pull request
  repairs,
  \* scheduled calls: gates.classify, gates.evaluate (how many), projects.reprotect
  classifies, evals, reprotects,
  \* effect rows still queued, and those the bridge polled and has not reported
  queued, polled,
  \* GitHub: whether the pull request got a second commit, whether the changes at
  \* its head are sensitive, the checks of the head, who put machinist:auto-merge
  \* on, and the protection of main
  pushed, sensitive, checks, label, protection,
  \* history: changes made, whether the last hold found the project under review,
  \* whether a protect effect failed
  changes, holdReached, protectFailed, faults

modes     == <<factoryMode, projectMode, checklist, changes, holdReached>>
row       == <<stage, gate, asked>>
scheduler == <<classifies, evals, reprotects>>
queues    == <<queued, polled>>
commits   == <<pushed, sensitive, checks>>
outside   == <<label, protection, protectFailed>>
vars == <<modes, row, repairs, scheduler, queues, commits, outside, faults>>

Modes == {"dark", "gray"}
Conclusions == {"pending", "pass", "fail"}
Repairs == {"greptile-fix", "shepherd"}
Questions == {"apply-auto-merge", "unblock", "dark-mode-checklist"}

(* What a part of the row was read from: nothing yet, an earlier commit, the  *)
(* head.  A push makes an earlier commit of the head.                         *)
Commits == {"none", "earlier", "head"}
Aged(commit) == IF commit = "head" THEN "earlier" ELSE commit
Classification == [of : Commits, forced : BOOLEAN]
Classified(of, forced) == [of |-> of, forced |-> forced]
Gate == [of : Commits, checks : Conclusions, class : Classification]
Classify == [of : Commits, forced : BOOLEAN, evaluate : BOOLEAN]

(* An effect row.  mode is the argument of protect; by is who asked for the  *)
(* label.  A cancelled row is marked failed in the table; what the bridge    *)
(* takes next passes over it, which a row of kind "skip" stands for.         *)
Effect == [kind : {"apply-label", "remove-label", "protect", "skip"}, mode : Modes,
           by : {"factory", "human"}, cancelled : BOOLEAN]
Taken(rows) ==
  [i \in DOMAIN rows |-> IF rows[i].cancelled THEN [rows[i] EXCEPT !.kind = "skip"] ELSE rows[i]]
MakeEffect(kind, mode, by) == [kind |-> kind, mode |-> mode, by |-> by, cancelled |-> FALSE]

(* Mutant of EffectiveMode: the master switch is forgotten. *)
ProjectModeOnly(factory, project) == project

EffectiveMode(factory, project) == IF factory = "gray" THEN "gray" ELSE project
Effective == EffectiveMode(factoryMode, projectMode)
HasRepo == stage # "GENESIS"

Rows == polled \o queued
RowsOf(kinds) == {i \in DOMAIN Rows : Rows[i].kind \in kinds}
LabelPending == \E i \in RowsOf({"apply-label"}) : ~Rows[i].cancelled

Insert(new) == Len(Rows) + Len(new) <= MaxEffects /\ queued' = queued \o new

(* Mutant of Reprotected. *)
ReprotectedAsBefore(before, after) ==
  IF before # after THEN Insert(<<MakeEffect("protect", before, "factory")>>) ELSE UNCHANGED queued

(* evaluate at some later moment; the calls beyond MaxEvals are the same call. *)
Schedule(more) == evals' = IF more /\ evals < MaxEvals THEN evals + 1 ELSE evals

(* A protect effect wherever the effective mode differs from the one before. *)
Reprotected(before, after) ==
  IF before # after THEN Insert(<<MakeEffect("protect", after, "factory")>>) ELSE UNCHANGED queued

Fault == faults < MaxFaults /\ faults' = faults + 1

-----------------------------------------------------------------------------
(* The project is in genesis, whose run locks main down with the mode in its *)
(* prompt: the mode in force when the line was started.                      *)
Init ==
  /\ factoryMode \in Modes /\ projectMode \in Modes
  /\ checklist = FALSE /\ stage = "GENESIS"
  /\ protection = Effective
  /\ gate = [of |-> "none", checks |-> "pending", class |-> Classified("none", FALSE)]
  /\ asked = {} /\ repairs = {}
  /\ classifies = <<>> /\ evals = 0 /\ reprotects = <<>>
  /\ queued = <<>> /\ polled = <<>>
  /\ pushed = FALSE /\ sensitive \in BOOLEAN /\ checks = "pending"
  /\ label = "off"
  /\ changes = 0 /\ holdReached = TRUE /\ protectFailed = FALSE /\ faults = 0

(* Genesis locked main down with the mode of its prompt; its completion       *)
(* reconciles with the mode in force.  The line up to the first pull request  *)
(* under review belongs to StageMachine.                                      *)
GenesisDone ==
  /\ stage = "GENESIS"
  /\ stage' = "REVIEW_LOOP"
  /\ Reprotected(protection, Effective)
  /\ Schedule(TRUE)
  /\ UNCHANGED <<modes, gate, asked, repairs, classifies, reprotects, polled, commits,
                 outside, faults>>

-----------------------------------------------------------------------------
(* The operator's modes *)

Settled == reprotects = <<>> \/ "overlap" \in Happens
Change == changes < MaxChanges /\ changes' = changes + 1

Cancel(rows) ==
  [i \in DOMAIN rows |-> IF rows[i].kind = "apply-label"
                           THEN [rows[i] EXCEPT !.cancelled = TRUE] ELSE rows[i]]

(* Mutant of RevokeOn. *)
RevokeNever(underReview) == <<>>

(* Factory settings.  Gray cancels every queued label, the ones the bridge    *)
(* already polled included (their rows are still queued), and takes the label *)
(* off a pull request under review.                                           *)
RevokeOn(underReview) ==
  IF underReview THEN <<MakeEffect("remove-label", "gray", "factory")>> ELSE <<>>
Hold ==
  /\ polled' = Cancel(polled)
  /\ queued' = Cancel(queued) \o RevokeOn(stage = "REVIEW_LOOP")
  /\ Len(polled') + Len(queued') <= MaxEffects
  /\ holdReached' = (stage # "NEEDS_HUMAN")

UpdateSettings(mode) ==
  /\ mode # factoryMode
  /\ Settled /\ Change
  /\ factoryMode' = mode
  /\ reprotects' = Append(reprotects, [before |-> factoryMode, after |-> mode])
  /\ IF mode = "gray" THEN Hold ELSE UNCHANGED <<queued, polled, holdReached>>
  /\ UNCHANGED <<projectMode, checklist, row, repairs, classifies, evals, commits,
                 outside, faults>>

(* Mutant of SetMode: protection is queued for a repository not there yet. *)
SetModeAnywhere(mode) ==
  /\ mode # projectMode
  /\ mode = "dark" => checklist
  /\ Settled /\ Change
  /\ projectMode' = mode
  /\ Reprotected(Effective, EffectiveMode(factoryMode, mode))
  /\ UNCHANGED <<factoryMode, checklist, holdReached, row, repairs, scheduler, polled,
                 commits, outside, faults>>

(* The project's own mode; dark needs the accepted checklist. *)
SetMode(mode) ==
  /\ mode # projectMode
  /\ mode = "dark" => checklist
  /\ Settled /\ Change
  /\ projectMode' = mode
  /\ IF HasRepo THEN Reprotected(Effective, EffectiveMode(factoryMode, mode)) ELSE UNCHANGED queued
  /\ UNCHANGED <<factoryMode, checklist, holdReached, row, repairs, scheduler, polled,
                 commits, outside, faults>>

RequestDarkMode ==
  /\ "checklist" \in Happens
  /\ HasRepo /\ "dark-mode-checklist" \notin asked
  /\ checklist => "checklist-again" \in Happens
  /\ asked' = asked \cup {"dark-mode-checklist"}
  /\ UNCHANGED <<modes, stage, gate, repairs, scheduler, queues, commits, outside, faults>>

AcceptChecklist ==
  /\ "dark-mode-checklist" \in asked
  /\ asked' = asked \ {"dark-mode-checklist"} /\ checklist' = TRUE
  /\ UNCHANGED <<factoryMode, projectMode, changes, holdReached, stage, gate, repairs, scheduler,
                 queues, commits, outside, faults>>

(* A factory-wide flip reaches this project's page. *)
Reprotect ==
  /\ \E i \in DOMAIN reprotects :
       /\ reprotects' = SubSeq(reprotects, 1, i - 1)
                          \o SubSeq(reprotects, i + 1, Len(reprotects))
       /\ IF HasRepo
            THEN Reprotected(EffectiveMode(reprotects[i].before, projectMode),
                             EffectiveMode(reprotects[i].after, projectMode))
            ELSE UNCHANGED queued
  /\ UNCHANGED <<modes, row, repairs, classifies, evals, polled, commits, outside, faults>>

-----------------------------------------------------------------------------
(* GitHub *)

(* A commit by a repair run or a human. *)
Push ==
  /\ HasRepo /\ Fault
  /\ pushed' = TRUE /\ checks' = "pending" /\ sensitive' \in BOOLEAN
  /\ gate' = [gate EXCEPT !.of = Aged(gate.of), !.class.of = Aged(gate.class.of)]
  /\ classifies' = [i \in DOMAIN classifies |-> [classifies[i] EXCEPT !.of = Aged(classifies[i].of)]]
  /\ UNCHANGED <<modes, stage, asked, repairs, evals, reprotects, queues, outside>>

ChecksConclude(conclusion) ==
  /\ HasRepo /\ checks = "pending" /\ conclusion # "pending"
  /\ checks' = conclusion
  /\ UNCHANGED <<modes, row, repairs, scheduler, queues, pushed, sensitive, outside, faults>>

(* A review or check-suite webhook, for the head or late for an earlier       *)
(* commit: factory.gateUpdate, then an evaluation at once.  The               *)
(* classification of the row is left as it is.                                *)
Webhook(of, conclusion) ==
  /\ "webhook" \in Happens /\ HasRepo /\ conclusion # "pending" /\ Fault
  /\ (of = "head" /\ conclusion = checks) \/ (of = "earlier" /\ pushed)
  /\ gate' = [gate EXCEPT !.of = of, !.checks = conclusion]
  /\ gate' # gate
  /\ Schedule(TRUE)
  /\ UNCHANGED <<modes, stage, asked, repairs, classifies, reprotects, queues, commits, outside>>

-----------------------------------------------------------------------------
(* The bridge's gate sync *)

(* gateSync stores the checks of the head and schedules the classification of *)
(* its files, which evaluates when the row changed.  A sync that would store   *)
(* and classify what is there already changes nothing: no step.               *)
Changed == gate.of # "head" \/ gate.checks # checks
GateSync ==
  /\ HasRepo /\ classifies = <<>>
  /\ Changed \/ gate.class # Classified("head", sensitive)
  /\ classifies' = <<[of |-> "head", forced |-> sensitive, evaluate |-> Changed]>>
  /\ gate' = [gate EXCEPT !.of = "head", !.checks = checks]
  /\ UNCHANGED <<modes, stage, asked, repairs, evals, reprotects, queues, commits, outside, faults>>

(* gates.classify *)
ClassifyGate ==
  /\ classifies # <<>>
  /\ LET call == Head(classifies)
         class == Classified(call.of, call.forced) IN
       /\ gate' = [gate EXCEPT !.class = class]
       /\ Schedule(call.evaluate \/ gate.class.of = "none" \/ gate.class.forced # call.forced)
  /\ classifies' = Tail(classifies)
  /\ UNCHANGED <<modes, stage, asked, repairs, reprotects, queues, commits, outside, faults>>

-----------------------------------------------------------------------------
(* gates.evaluate *)

Judging == stage = "REVIEW_LOOP" /\ asked = {} /\ repairs = {}
(* The verdict reads the row, whatever commit each part of it is from. *)
Passed == gate.checks = "pass"
MayAutoMerge == Effective = "dark" /\ ~gate.class.forced

EvaluateNothing ==
  /\ ~Judging
  /\ UNCHANGED <<stage, asked, repairs, queued, faults>>

EvaluatePassDark ==
  /\ Judging /\ Passed /\ MayAutoMerge
  /\ IF LabelPending THEN UNCHANGED queued
                     ELSE Insert(<<MakeEffect("apply-label", "dark", "factory")>>)
  /\ UNCHANGED <<stage, asked, repairs, faults>>

EvaluatePassGray ==
  /\ Judging /\ Passed /\ ~MayAutoMerge
  /\ asked' = {"apply-auto-merge"}
  /\ UNCHANGED <<stage, repairs, queued, faults>>

Stop == /\ "stop" \in Happens /\ Fault
        /\ stage' = "NEEDS_HUMAN" /\ asked' = asked \cup {"unblock"}

EvaluateFail ==
  /\ Judging /\ gate.checks = "fail"
  /\ \/ repairs' = {"greptile-fix"} /\ UNCHANGED <<stage, asked, faults>>
     \/ Stop /\ UNCHANGED repairs
  /\ UNCHANGED queued

(* A pending verdict schedules the same call again: no step. *)
Evaluate ==
  /\ evals > 0 /\ evals' = evals - 1
  /\ EvaluateNothing \/ EvaluatePassDark \/ EvaluatePassGray \/ EvaluateFail
  /\ UNCHANGED <<modes, gate, classifies, reprotects, polled, commits, outside>>

-----------------------------------------------------------------------------
(* Runs and decisions, as far as the gate sees them *)

(* onRunCompleted for a repair or a shepherd; a stopped project ignores it. *)
RunEnds(run) ==
  /\ run \in repairs
  /\ repairs' = repairs \ {run}
  /\ \/ stage = "REVIEW_LOOP" /\ Schedule(TRUE) /\ UNCHANGED <<stage, asked, faults>>
     \/ stage = "REVIEW_LOOP" /\ Stop /\ UNCHANGED evals
     \/ stage # "REVIEW_LOOP" /\ UNCHANGED <<stage, asked, evals, faults>>
  /\ UNCHANGED <<modes, gate, classifies, reprotects, queues, commits, outside>>

(* decisions.resolve of an apply-auto-merge decision. *)
Approve ==
  /\ "human-asked" \in Happens /\ "apply-auto-merge" \in asked
  /\ asked' = asked \ {"apply-auto-merge"}
  /\ Insert(<<MakeEffect("apply-label", "dark", "human")>>)
  /\ UNCHANGED <<modes, stage, gate, repairs, scheduler, polled, commits, outside, faults>>

(* Declined; the comment it posts changes nothing here. *)
SendBack ==
  /\ "human-asked" \in Happens /\ "apply-auto-merge" \in asked
  /\ asked' = asked \ {"apply-auto-merge"} /\ stage' = "NEEDS_HUMAN"
  /\ UNCHANGED <<modes, gate, repairs, scheduler, queues, commits, outside, faults>>

(* From the decision or the CLI: back to review, and look at the gate. *)
Unblock ==
  /\ stage = "NEEDS_HUMAN"
  /\ stage' = "REVIEW_LOOP" /\ asked' = asked \ {"unblock"}
  /\ Schedule(TRUE)
  /\ UNCHANGED <<modes, gate, repairs, classifies, reprotects, queues, commits, outside, faults>>

-----------------------------------------------------------------------------
(* The bridge's effects *)

PollQueued ==
  /\ polled = <<>> /\ queued # <<>>
  /\ polled' = Taken(queued) /\ queued' = <<>>
  /\ UNCHANGED <<modes, row, repairs, scheduler, commits, outside, faults>>

Execute(effect) ==
  /\ label' = CASE effect.kind = "apply-label" -> IF label = "human" THEN label ELSE effect.by
                 [] effect.kind = "remove-label" -> "off"
                 [] OTHER -> label
  /\ protection' = IF effect.kind = "protect" THEN effect.mode ELSE protection

(* Executed and reported, whatever became of the row since the poll: the      *)
(* report overwrites a cancelled row and goes on to the shepherd.             *)
EffectDone(effect) ==
  /\ Execute(effect)
  /\ repairs' = IF effect.kind = "apply-label" THEN repairs \cup {"shepherd"} ELSE repairs
  /\ polled' = Tail(polled)
  /\ UNCHANGED <<queued, holdReached, protectFailed, faults>>

(* A failed effect is reported and not tried again. *)
EffectFailed(effect) ==
  /\ effect.kind # "skip"
  /\ "effect-fails" \in Happens /\ Fault
  /\ holdReached' = (holdReached /\ effect.kind # "remove-label")
  /\ protectFailed' = (protectFailed \/ effect.kind = "protect")
  /\ polled' = Tail(polled)
  /\ UNCHANGED <<label, protection, repairs, queued>>

(* The bridge dies after executing an effect and before reporting it: what it *)
(* had polled is polled again, unless it was cancelled.                       *)
EffectUnreported(effect) ==
  /\ "restart" \in Happens /\ Fault
  /\ Execute(effect)
  /\ queued' = Taken(polled) \o queued /\ polled' = <<>>
  /\ UNCHANGED <<repairs, holdReached, protectFailed>>

RunEffect ==
  /\ polled # <<>>
  /\ LET effect == Head(polled) IN
       EffectDone(effect) \/ EffectFailed(effect) \/ EffectUnreported(effect)
  /\ UNCHANGED <<factoryMode, projectMode, checklist, changes, row, scheduler, commits>>

-----------------------------------------------------------------------------
Operator ==
  \/ \E mode \in Modes : UpdateSettings(mode) \/ SetMode(mode)
  \/ RequestDarkMode \/ AcceptChecklist
  \/ Approve \/ SendBack \/ Unblock
Scheduled == Reprotect \/ ClassifyGate \/ Evaluate
GitHub ==
  \/ Push
  \/ \E conclusion \in Conclusions :
       ChecksConclude(conclusion) \/ \E of \in Commits : Webhook(of, conclusion)
Bridge == GateSync \/ PollQueued \/ RunEffect
Next == GenesisDone \/ Operator \/ Scheduled \/ GitHub \/ Bridge \/ \E run \in Repairs : RunEnds(run)

Spec == Init /\ [][Next]_vars

(* The bridge polls and executes for as long as it lives. *)
Fairness == WF_vars(PollQueued) /\ WF_vars(RunEffect)
FairSpec == Spec /\ Fairness

-----------------------------------------------------------------------------
(* Properties *)

Types ==
  /\ factoryMode \in Modes /\ projectMode \in Modes
  /\ checklist \in BOOLEAN
  /\ stage \in {"GENESIS", "REVIEW_LOOP", "NEEDS_HUMAN"}
  /\ gate \in Gate /\ asked \subseteq Questions /\ repairs \subseteq Repairs
  /\ classifies \in Seq(Classify) /\ evals \in 0..MaxEvals
  /\ reprotects \in Seq([before : Modes, after : Modes])
  /\ queued \in Seq(Effect) /\ polled \in Seq(Effect)
  /\ pushed \in BOOLEAN /\ sensitive \in BOOLEAN /\ checks \in Conclusions
  /\ label \in {"off", "factory", "human"} /\ protection \in Modes
  /\ changes \in 0..MaxChanges /\ faults \in 0..MaxFaults
  /\ holdReached \in BOOLEAN /\ protectFailed \in BOOLEAN

(* Until genesis is done there is no repository to do anything in: no effect   *)
(* is queued for it, no question open, no repair under way.                    *)
BeforeTheRepository ==
  stage = "GENESIS" => queued = <<>> /\ polled = <<>> /\ asked = {} /\ repairs = {}

(* Every variable keeps its type, and nothing is asked of a repository that    *)
(* is not there yet (setMode, reprotect, requestDarkMode, gateSync).           *)
TypeOK == Types /\ BeforeTheRepository

(* The factory's gray hold, once the bridge has carried out what was queued,  *)
(* leaves no label the factory applied on its own: not the one that was on,   *)
(* not the one the bridge was about to apply when it was cancelled            *)
(* (settings.update, runEffect).  holdReached excepts a project that was      *)
(* stopped when the hold came, whose label nothing takes off, and a label     *)
(* GitHub refused to take off.                                                *)
HoldHolds ==
  factoryMode = "gray" /\ holdReached /\ RowsOf({"apply-label", "remove-label"}) = {}
    => label # "factory"

(* ... and the bridge does carry it out. *)
HoldTakesEffect ==
  factoryMode = "gray" /\ holdReached
    ~> label # "factory" \/ factoryMode = "dark" \/ ~holdReached

(* Branch protection follows the mode the project runs in: once no change of  *)
(* a mode is still to be applied, main is protected for the effective mode    *)
(* (setMode, reprotect, the reconciliation after genesis), unless a protect   *)
(* effect failed.                                                             *)
ProtectionFollowsMode ==
  HasRepo /\ reprotects = <<>> /\ RowsOf({"protect"}) = {} /\ ~protectFailed
    => protection = Effective

(* "A verdict reached on the previous head's classification could queue an     *)
(* auto-merge that nothing retracts" (bridge.ts:301-302): the factory labels no *)
(* pull request whose row is of the head, and whose head changes what a human  *)
(* must look at, on the classification of an earlier commit.  Where the        *)
(* bridge's sync moved the row, its classification is at least on the way; the *)
(* property is about a row that a webhook moved, with none scheduled           *)
(* (githubWebhook).                                                            *)
ClassificationFirst ==
  [][classifies = <<>> =>
       ~ /\ gate.of = "head" /\ gate.class.of = "earlier" /\ sensitive
         /\ \E i \in DOMAIN queued' \ DOMAIN queued :
              queued'[i].kind = "apply-label" /\ queued'[i].by = "factory"]_vars
=============================================================================
