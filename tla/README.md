# A verification project for the Agentic Secure Dark Factory

TLA+ models of the factory's control plane and of the processes that drive it,
checked with TLC, with theorems checked by TLAPS. Sources are cited relative to
the repository root; `convex/` is short for `control-plane/convex/`.

## 1. The system

An operator writes a product's spec; the factory builds the product phase by
phase, reviews each pull request, assesses and deploys the result, and then
maintains it. Work is done by *runs*: jobs of an external executor, Machinist.

| Component | State it keeps | Operations | Interacts with | Module |
|---|---|---|---|---|
| Stage state machine (`convex/stateMachine.ts`) | the `projects` row: stage, phase, tracked pull request, repair round, assessment time | `onRunCompleted`, `effectDone`, `onPullRequestMerged`, `onIssueOpened`, `onRelease`, `unblock` | inserts runs, effects and decisions; schedules itself and the gate | `StageMachine` |
| Review gate (`convex/gates.ts`) | the `gates` row of a pull request | `evaluate`, `evaluateForRepo`, `classify` | reads runs, decisions, effects; inserts a repair run, a label effect or a decision | `StageMachine` (what a verdict does), `ReviewHold` (how it is reached) |
| Projects and settings (`convex/projects.ts`, `convex/settings.ts`) | mode of the factory and of each project | `startLine`, `setMode`, `requestDarkMode`, `reprotect`, `update` | cancel labels, queue branch protection | `ReviewHold` |
| Forced-gray policy (`control-plane/factory/policy`), dependency cooldown (`factory/bridge/dependency-cooldown.mjs`) | a verdict per head, a registry document per package | classify, check a lockfile | the bridge asks, the gate reads | `DependencyCooldown` |
| Bridge protocol (`convex/bridge.ts`) | status of `runs` and `effects` | `pollQueued`, `markSubmitted`, `complete`, `effectResult`, `running`, `reviewTargets`, `gateSync`, `prMerged` | called by the bridge; schedules the handlers above | `BridgeLoop`, `StageMachine` |
| Bridge process (`factory/bridge/bridge.mjs`) | runs it tracks, merges it reported, verdicts (memory only) | one sequential loop: submit, execute effects, reconcile, sync gates, supervise servers | Convex, Machinist, GitHub, npm | `BridgeLoop` |
| Local dev servers (`factory/bridge/local-servers.mjs`, shutdown in `factory/scripts/start-local.sh`) | state files, checkouts, processes, ports; installs and backoffs in memory | one supervision pass; stop everything on file | the bridge, npm, the machine | `LocalServers` |
| Genesis and deployment (`factory/scripts/genesis.sh`, `deploy-dev.sh`, `control-plane/scripts/setup.mjs`, `deploy.mjs`, provider adapters) | what exists at Doppler, Clerk, Convex, GitHub and Vercel | idempotent steps behind probes; dev deployment; promotion | run by Machinist and the operator | `Genesis`, `Deploys` |
| Sandbox executor (`sandbox-exec`) | one call | run a command locally, in docker or at Daytona | Machinist (signal), docker, Daytona | `SandboxExec` |
| Operator (`convex/decisions.ts`, `convex/cli.ts`) | `decisions` | `resolve`, `decide`, CLI corrections | schedules `unblock`, inserts effects, patches projects and runs | `StageMachine`, `ReviewHold`, `BridgeLoop` |
| GitHub (webhook `convex/githubWebhook.ts`) | pull requests, labels, merges, protection | merges, issues, releases, reviews, check suites | calls the state machine and the gate | `StageMachine`, `ReviewHold` |

**What is hard.** Every Convex handler is one transaction, so nothing races
inside a handler. What races is everything between them: handlers are deferred
with `scheduler.runAfter` and run in any order; runs take minutes to hours and
end after the project has moved on; the same merge is reported by two channels;
the operator answers a decision that is no longer current, or answers twice; a
label is queued, executed elsewhere and only then followed by a run, and a mode
may change at each of these moments. The bridge keeps what it knows in memory,
may die between any two calls, and may lose the reply of a call that took place.
The shell scripts die anywhere and are run again from the top; what they made
stays, and a probe decides whether it is made again. `PROJECT.json` lists each
hazard at its line with the properties that would catch it.

**What makes each part correct.**

- State machine: one phase per merge; the assessment after all phases; a stop
  lifted only by the operator; one foreman per phase; a line that is never
  silently stalled; a line that reaches maintenance.
- Gate and modes: one label per verdict; repair rounds never past the cap; no
  automatic label left on a project that was put on hold; protection that ends up
  as the mode in force.
- Dependencies: no change lets itself through whose versions are too young; one
  that has aged does not wait for a human for that reason.
- Bridge: each run completes once and for its own job, each effect is followed up
  once, a cancelled run stays cancelled, every submitted run is reported, the
  gate row catches up with the pull request.
- Dev servers: the cap, one port per product, installs of this bridge out of the way
  of runs, every product served in the end. (The code means to keep three more and does
  not, see section 3: no server without a state file, no npm at all under a run,
  modules that match the lockfile on record.)
- Genesis: nothing made twice; what is called ready is whole; logins work;
  production is not overwritten; a run that died can be run again.
- Sandbox: a call returns, leaves nothing running, and reports an exit only
  with the output whole.

## 2. Modules

| Module | What it is |
|---|---|
| `DeliveryLine` | The abstract specification: a product on the design's line of stations (design section 4.3). No runs, queues or scheduler. One pull request of its own closes each phase; a stopped line resumes only at a station it had reached. |
| `StageMachine` | One project in detail: state machine, gate, bridge, operator, GitHub, and the scheduler between them. One action per handler branch. |
| `StageMachineRefinement` | `StageMachine` implements `DeliveryLine` under a mapping of the project row. |
| `ReviewHold` | The modes, the gate row with its classification, the label, branch protection, and the effects that bring them about. |
| `DependencyCooldown` | The Boolean `ReviewHold` reads in a classification, computed: lockfiles, registry, the bridge's memory, the classifier. |
| `BridgeLoop` | The bridge call by call. `StageMachine` abstracts it to `SubmitRun`, `CompleteRun` and `RunEffect`. |
| `LocalServers` | The supervision pass over checkouts, state files and processes. |
| `Deploys`, `Genesis` | Deployments of a product; genesis, which extends it. |
| `SandboxExec` | One call of the executor wrapper. |
| `...Proofs` | The theorems about `StageMachine`, `DeliveryLine`, `ReviewHold`, `DependencyCooldown`, `BridgeLoop`, `LocalServers`, `Genesis` and `SandboxExec`. |
| `MC...` | What TLC runs; each `.cfg` gives the constants their values. |

The modules meet where one's abstraction is another's subject: the verdict that
is a choice in `StageMachine` is computed in `ReviewHold`; the classification that
is a Boolean there is computed in `DependencyCooldown`; the run that `StageMachine`
submits and completes in one step each is what `BridgeLoop` carries through
crashes; a genesis run that is retried, unblocked or posted twice is why
`Genesis` begins again in any state.

In every module `Happens` names the kinds of disturbances the environment may
produce and `MaxFaults` how many, so that a run explores the interleavings its
question is about. Bounds are constants, and a guard names each one.

### StageMachine

*State.* `stage`, `hasRepo` (`repo` is set), `phaseIssues` (the list is there),
`phaseIndex`, `currentPr` (`NoPr` = undefined), `repairRound` and `assessed`
(`lastAssessmentAt` is set) are the project row. `runs` holds the run rows some
handler can still read, with the phase or pull request each works on (`ref`),
and what its completion will report (`result`, `pr`). A row is `queued`,
`running`, `ended` (terminal, `onRunCompleted` scheduled) or `closed`. `effects`
is the queue of effects in the order the bridge polls them; `decisions` counts the
open decisions of each kind and pull request. `evals`, `unblocks` and
`mergeCalls` are the scheduled calls. `opened`, `merged` and `labelled` are
GitHub; `reported` is the bridge's `reportedMerged` set. `phasePr`, `delivered`
and `faults` are history: the pull request that closed each phase, whether a
deployment was reached, the fault budget spent.

*Actions.* `OnRunCompleted` is the disjunction of its branches in source order
(`StaleRun`, `RetryRun`, `StopOnFailure`, then one per stage), `Evaluate` that
of the gate's verdicts, `RunEffect` that of the bridge's effects with the
`effectDone` that runs in the same transaction as the result,
`OnPullRequestMerged` that of the merge branches (called by the scheduler for
the bridge's report, and at once by the webhook), `Unblock` that of its early
return and its two branches. The operator's mutations are one action each.

*Abstractions.* Time: a call scheduled with a delay runs at any later moment.
Verdict: what the gate reads (CI, score, classification, effective mode) is a
choice among the branches of `evaluate`; a pending verdict within 20 minutes
reschedules itself and changes nothing. Results: a result line is what the
handler tells apart; a successful genesis always reports its repository.
`create-phase-issues` creates an issue per phase. Closed
rows are dropped once a newer row exists: `unblock` and `retryStage` read the
newest row only. Prompts, titles, details, alerts and audit events are left out.
`MergePr` and `OpenPr` are GitHub and Machinist, modelled from how the code uses
them: a foreman that succeeds has opened its pull request; a shepherd merges only
a labelled one; a repair run may end any way its result line allows.

*Bounds.* `MaxRuns` bounds the run rows in use at once, `MaxPrs` the pull
requests, `MaxFaults` the steps that spend a fault (a failed run, a failing
verdict, an operator correction, a maintenance event), `MaxEvals` the
evaluations pending when GitHub adds one, and `CliUnblock` keeps at most two
unblocks pending. When a bound is reached the system may stop, hence
`CHECK_DEADLOCK FALSE`; MAINTAIN is also a state of rest.

### ReviewHold

The factory's mode and the project's, the `gates` row with the commit each part
of it was read from (`none`, `earlier`, `head`), the scheduled `classify`,
`evaluate` and `reprotect` calls, the effect rows still queued and those the
bridge polled and has not reported, and GitHub: the head, its checks, the label
with who put it on, the protection. An effect is polled, executed and
reported in separate steps, so that a mode may change, and the rows be cancelled,
at each point. Check conclusions and the review score are one value; the repair
round is abstracted to "repaired or stopped". `TypeOK` adds to the types that nothing
is queued, polled, asked or repaired before genesis has made the repository
(`BeforeTheRepository`). Bounds: two changes of a mode, one
evaluation scheduled at once, three unfinished effects, one disturbance.

### DependencyCooldown

Lockfiles are functions from package and place to an entry; the registry gives
each version a day of publication; the bridge remembers a document per package
(with the day it was read) and a verdict per commit. `View`, `Check` and `Classify`
are the bridge reading the pull request, `dependencyCooldown` with `gateSync`, and
`gates.classify`; days pass, commits are pushed, the base is upgraded and the bridge
restarts in between. Versions are numbers with the major one in their tens, days
stand for timestamps; links and aliases of packages are left out; sensitive paths,
labels and the triage risk are one value, a lockfile of another package manager
and one of a directory below are another. One classification is under way
at a time: their order is `ReviewHold`'s subject. `against` in a verdict and
`spoiled` are history. `OnlyAgedClears` is stated in words of its own (`News`,
`PublicFor`, `HeldBack`), not with the operators the check is made of.

### BridgeLoop

`pc` is where the process is in its pass (poll, work, reconcile, complete, view,
mention, gate, sleep); `tracked`, `toSubmit`, `toExecute`, `posted`, `outcome`, `due` and
`view` are its memory and are lost with it. Every call to Convex or Machinist may fail before
it took place or lose only its reply. Runs are posted as jobs; jobs end or are deleted;
the operator cancels runs and re-attaches them. `completions` and `followUps` are
history. Bounds: two runs, one effect, two heads, a poll of one row, two
disturbances.

### LocalServers

`rows`, `inFlight` and `order` are the control plane's, `lock`, `origin`, `modules` and `npms` the
checkouts, `file` the state files and `server` the server each is about, `loose` the servers in
no file, `strays` other programs' ports, `install` and `backoff` the bridge's memory, and `pc` to
`report` the pass under way, which takes the projects one at a time and reports each by
a call that may be lost.

*Steps that are not one.* `start` spawns a detached server, asks git for the commit, hashes the
lockfile and only then writes the state file: `Spawn` and `WriteState` are two actions, and in
between the bridge may die (`Crash`), be shut down (`ShutDown`) or fail to write (`WriteFails`). The
server then stays in `loose`, and `cutOff` counts these starts. `stopServer` sends a signal, waits
for nothing and removes the file: `Stopped` moves the server to `loose`, where it goes on,
with its port, until `LooseEnds`. An npm is a process of its own with the lockfile it read when
it began (`Npm`); one that was told to end, or whose bridge died, goes on in the checkout until
`NpmEnds` and may spoil what another one installs (`NpmLeaves`). The lockfile may be pulled while
npm works, so what is recorded when the server starts is not always what was installed.

*Abstractions.* Lockfiles are versions, `Partial` is what an interrupted npm may leave. A server of a
checkout in which another one runs may come up or exit. A pull either brings the latest main or
nothing (the checkout is elsewhere, was pulled a moment ago, or cannot be reached). `Busy` is what
`localTargets` computes: the newest run only. The minutes of a backoff are any time.
Environment files and log texts are left out.

*Bounds.* Two projects over a cap of one, two ports, two lockfile versions, one
disturbance: the instance of the run.

### Deploys and Genesis

One action per command: `pc` is the command genesis is at, `have` the artifacts
its probes look for, `doppler`, `convex`, `env`, `site`, `url`, `secret`, `protection`
what the providers hold, with the Clerk application each key is of. A command may
fail, its run may be killed between two commands or within one that leaves its work half
done, a probe may be unable to tell, and after a run died the next begins from the
top. The promotion shares the deployment's steps on the production target.
Modules, generated files, `vercel.json` and the webhook are local or manual steps that
can be repeated and are left out, as are Clerk keys supplied by the operator and
the legacy mode without Doppler. Bounds: two deployments after genesis, three
disturbances. Properties that a certain disturbance legitimately breaks say so
with `Happened(kinds)`.

### SandboxExec

`pc` is the call that comes next; `sandbox`, `client`, `command`, `members` and `output` are
what runs outside; `delivered` is what was passed on. The signal may arrive and
sandbox-exec itself be killed at any moment, and the docker client may end before its
container (`ClientDies`); `lost` records what went wrong in a way nothing in the wrapper
can repair, and `NothingLeftBehind` excepts four such cases. The docker client and daemon,
Daytona and the inner command are modelled from how the code uses them. Bound: three
pieces of output.

## 3. Runs

Every passing property has a mutant of a mapped definition that breaks it under the
same cfg.

| run | what it asks | instance | distinct states |
|---|---|---|---|
| `operator` | Does every operator event, correction, cancelled run and failed effect keep the state within its type, and does only the operator lift a stop? (`TypeOK`, `StopLiftedByOperator`) | 1 phase, 2 rows, 2 pull requests, 2 faults | 334 thousand |
| `gates` | Through verdicts, repairs, stops and merges reported late and repeatedly: one label per verdict, one phase per merge, one foreman per phase, an assessment after all of them, and nothing silently stalled? (`OneLabelPerVerdict`, `MergeCountedOnce`, `AssessedAfterEveryPhase`, `OneForemanPerPhase`, `NeverSilentlyStalled`, `StoppedIsActionable`) | 2 phases, 3 rows, 2 pull requests, 1 fault, 2 added evaluations | 1.12 million |
| `line` | Does the line implement `DeliveryLine`, and does a started line deliver? (`ImplementsDeliveryLine`, `LineDelivers`) | 2 phases, 3 rows, 4 pull requests, 2 faults, fair | 627 thousand |
| `holds` | When the factory or the project is held, does an automatic label survive, and does branch protection end up as the mode in force? (`TypeOK`, `HoldHolds`, `ProtectionFollowsMode`, `HoldTakesEffect`) | 2 changes of mode, 1 scheduled evaluation, 3 unfinished effects, 1 disturbance | 2.87 million |
| `cooldown` | Can anything but age clear a dependency change, and does age clear it? (`OnlyAgedClears`, `AgedClears`) | 1 package in 2 places, 3 releases, windows of 1 and 2 days, days 0 to 2, 1 push, 1 fault | 1.68 million |
| `bridge` | Is every run reported, once, for its own job, with a crash between any two calls? (`TypeOK`, `CompletedOnce`, `TracksTheRowsJob`, `FollowedUpOnce`, `CancelledStays`, `RunsAreReported`, `GateCatchesUp`) | 2 runs, 1 effect, 2 heads, a poll of one row, 2 disturbances | 510 thousand |
| `servers` | With starts cut off half way, servers that linger after they were told to end, npms that outlive the bridge, crashes and shutdowns: do the dev servers stay under the cap but for starts cut off, their ports apart, a bridge's installs out of the way of runs, and is the first product served? (`TypeOK`, `CapHolds`, `PortsApart`, `InstallsYield`, `ServedInTheEnd`) | 2 projects, a cap of 1, 2 ports, 2 lockfiles, 1 disturbance of any kind, fair | 332 thousand |
| `genesis` | After kills, failures and reruns: is what is called ready whole, is nothing made twice, does production stay, and do reruns complete? (`TypeOK`, `ReadyIsWhole`, `LoginWorks`, `ClaimKept`, `NothingReplaced`, `ProductionKept`, `RerunsComplete`) | 2 deployments after genesis, 3 disturbances | 375 thousand |
| `sandbox` | Does a call leave nothing behind, lose no output, and return? (`TypeOK`, `NothingLeftBehind`, `OutputWhole`, `CallReturns`) | 3 backends, 3 pieces of output | 1594 |

Why these bounds are enough. A hazard of the stage machine involves at most an earlier
and the current phase, a late run beside the current one and one enqueued in
between, and a failure followed by the failure of its retry; merge reports repeat
without a bound. A hold needs one change of mode and a second that overtakes the
effects of the first. One project over the cap, one run posted twice beside
another one, one entry of a lockfile at a second place, and a killed rerun of a killed run are
each the smallest instance in which their hazard exists. For the dev
servers that is one disturbance beside the projects joining and an install: one start cut off, one npm left
behind, one port lost. That the cap, the ports and the installs stand any number of them is proved;
that the product is also served after two of them is not checked. Actions that create rows,
jobs or effects are guarded by the bound they use; the bounds are constants of the
modules and named in the cfg.

Three runs show a disagreement between the code and what the repository says of
it; `PROJECT.json` quotes the lines.

* `approval` (`ApprovalIsForItsPr`): a merge decision is bound to the project, not to the
  pull request it names. Approved after that one has merged otherwise, it labels the
  next phase's pull request.
* `classification_first` (`ClassificationFirst`): "classification first, always", but the webhook
  moves the gate row to a pushed commit and evaluates it with no classification scheduled. The
  run pushes a commit with forced-gray changes, lets its checks conclude and the webhook
  fire; the label is queued on the previous head's classification.
* `genesis_probe` (`ProbesFailClosed`): a probe of Doppler that cannot be answered reads as "nothing there",
  and the identity application of a second run replaces the first's.

Behaviour met while modelling that has no run of its own:

* No handler puts a project in `TRIAGE`, so a triage run is always stale when it ends
  (stateMachine.ts:94 against docs/design.md).
* The 20-minute review decision is created from the state at scheduling time and checks
  nothing again (gates.ts:66).
* A merge that is reported during a stop is dropped, and the same bridge process does not
  report it again; a restarted one does (`MergeReportLost`).
* Unblock re-runs the newest run row, whichever stage it belonged to
  (stateMachine.ts:362); a stop after accepted findings has no decision to show.
* The bridge keeps a verdict per head. A dependency change that has aged stays
  forced gray until a push or a restart (bridge.mjs:342, against
  dependency-cooldown.mjs:8); `AgedClears` states which states are cleared.
* The bridge's own sync moves the gate row and only schedules the classification; an evaluation
  that was already scheduled (the gate looks again every 30 seconds) may run in between and
  queue the label on the previous head's classification (bridge.ts:303).
* Factory and project both switched to gray before the scheduled `reprotect` reaches the project:
  it compares the factory's modes of then with the project's mode of now and finds no change,
  neither does `setMode`, and main stays protected for dark (projects.ts:162, 182). The event
  `overlap`, which the `holds` run leaves out, shows it.
* A bridge that dies between starting a server and writing its state file leaves one that no
  later bridge adopts and no shutdown stops (local-servers.mjs:180-185, against lines 14-15 and
  100); `CapHolds` allows for one more server for each.
* npm outlives a bridge that dies, and the restarted bridge leaves it at work under a run
  (local-servers.mjs:163, against lines 219-220).
* A pull between a first install and the start that follows it records a lockfile the modules were
  not installed from, and no later pass notices (local-servers.mjs:184, against line 237).
* A sandbox call cancelled before its command streams returns 2, where the README of
  sandbox-exec says 143.
* Genesis cannot be rerun to its end once main is protected while the summary is not yet
  pushed; `RerunsComplete` names it among its exceptions.

### Fairness

Each liveness property has the fairness of whoever must act, and no more; faults are finite
in number and never fair.

* StageMachine, `FairSpec`: WF of the run's end and its report, of the scheduled
  mutations (Convex runs each exactly once), of the bridge's effects and merge
  reports (it polls for ever, bridge.mjs:463-470), and of the operator's answers
  to the decisions shown. `LineDelivers` excepts a lost merge report, a review with
  nothing to review, and the stop without a decision.
* ReviewHold: WF of the poll and of each effect's execution.
* DependencyCooldown: WF of the bridge's reads and of the classification.
* BridgeLoop: WF of the loop's own step, SF of the two calls that may fail in any one
  pass but are tried in each, WF of jobs' ends, of the operator
  cancelling a run whose job is gone, and of Machinist's return.
* LocalServers: WF of the pass and of the ends of installs, of npms nobody waits for, of server
  starts, of servers told to end, of backoffs and runs. `ServedInTheEnd` supposes a checkout the code can work with
  (`Sound`).
* Genesis: WF of the operator starting and of each command, and of deployments.
* SandboxExec: WF of the wrapper's own calls and of the docker client's exit.

## 4. Theorems

Each is proved for every value of the constants that satisfies the named
assumption of its module (`BoundsAssumption`, `LineAssumption`, `HoldAssumption`,
`CooldownAssumption`, `BridgeAssumption`, `ServersAssumption`, `DeploysAssumption`,
`SandboxAssumption`: bounds are natural numbers and `Happens` names known events). Except
for DeliveryLine's two and `CooldownTypeCorrect`, each states a property of a run, and
every invariant and action property of a passing run, and the refinement, is stated by one.

| module | theorem | along which argument |
|---|---|---|
| StageMachineProofs | `TypeCorrect` | one lemma per event; carries `RowsOpened`, that a row in flight was opened, without which a report could be about a row with no stage |
| | `StopIsLiftedByOperator` | an action property from the types: every other event either keeps the stop's stage or is guarded against it |
| | `MergesAreCountedOnce` | without a corrected pull request (`NoCorrections`); `MergeInv` adds `CarriedOnce`, that the pull request a foreman still carries is neither counted already, nor under review, nor carried by a second row |
| | `AssessmentComesLast`, `PhasesHaveOneForeman` | `OrderInv`: beside the types and `MergeInv`, that genesis comes first and once (`FoundInv`), what each stage and each row that could be run again presupposes (`EarnedInv`), that a foreman in flight means its phase is being built and nothing is under review (`ForemanInv`), and that an unblock never runs a triage (`TriageInv`) |
| | `StageMachineImplementsLine` | one lemma per event: under `OrderInv` each step of the project row is the line's step of the same name, or none |
| | `StopsShowADecision` | `StopInv`: a stop has an open decision or an unblock on its way; a row that ends can only bring back the stops it may cause (`RowsPossible`) |
| | `LineIsNeverSilent` | `MovesInv`: for each stage, the row, call, effect, report or question that moves it on, so that losing one (a row that ends, a label carried out) finds the next |
| | `OneLabelAtATime` | `LabelInv`: while a label is queued no shepherd is in flight, nor is one the row an unblock would run again |
| DeliveryLineProofs | `PhasesCloseInOrder`, `StationsComeInOrder` | `LineInv`: a pull request belongs to one phase, stations are reached in order and each is earned |
| ReviewHoldProofs | `HoldTypeCorrect`, `FactoryHoldHolds` | `HoldIInv`: under a hold, every label the factory applied or is about to apply has a revocation queued behind it |
| | `ProtectionFollows` | `FollowIInv`: carried out in their order, the queued rows leave main protected for the mode in force, or for the one before while the call that follows the change is scheduled |
| DependencyCooldownProofs | `CooldownTypeCorrect`, `OnlyAgedIsCleared` | `VouchInv`: whichever verdict is remembered, on its way or in the row vouches for its commit's lockfile at today's date; the step that a day passes rests on ageing being monotone (`StaysAged`) |
| BridgeLoopProofs | `BridgeTypeCorrect`, `RunsCompleteOnce`, `CancelledStaysCancelled`, `TracksTheJob`, `EffectsFollowUpOnce` | `JobsIInv`: what is not submitted has no job and is not tracked, a row's job is a job of its run and the only one tracked for it; `FollowUpsIInv`: an effect still queued was not followed up, and what is left to report is still queued unless only the reply was lost |
| LocalServersProofs | `ServersTypeCorrect`, `PortsStayApart`, `CapAlwaysHolds`, `InstallsAlwaysYield` | `PortsIInv`: the ports held so far in the pass are apart, and the projects still to come are those not seen. The cap: servers that run are on file (`RunningIsOnFile`), files beyond the projects to serve are gone before any is started (`FiledKept`), and each server nobody tells to end is one of the starts cut off (`LostCounted`). Installs: a checkout has at most one npm of this bridge, the pass waits for it, and the checkout is there (`InstallsKnown`) |
| GenesisProofs | `TypeCorrect`, `ReadyProductsAreWhole`, `UsersCanLogIn`, `TheClaimIsKept`, `NothingIsReplaced`, `ProductionIsKept` | `IInv`: a run past a step has what the step makes (`ReachedInv`); an application is made only where there is no key and CI's token is revoked before the next is made, unless a probe failed (`MadeOnceInv`); Convex is as the last push left it (`ProviderInv`); a protected main stops later runs at their push (`ProtectedInv`), so no dev deployment runs beside a promotion that does not overlap one (`PromotedInv`) |
| SandboxExecProofs | `CallTypeCorrect`, `CallsLeaveNothing`, `OutputIsWhole` | `CallInv`: for each backend, what each program counter implies of the sandbox, the client and the processes |

Some theorems suppose that certain events are not in `Happens`, because the code does not
keep the property with them. TLC shows a counterexample for each when it is added to an
instance of the `gates`, `line` or `holds` run, unless the table says otherwise.

| hypothesis | of | without |
|---|---|---|
| `NoCorrections` | `MergesAreCountedOnce` | `set-pr`: the project is pointed at a pull request that a foreman still carries |
| `NoCliCorrections` | `AssessmentComesLast`, `PhasesHaveOneForeman`, `StageMachineImplementsLine` | `set-pr`, `retry-stage`: either puts a project in a stage the line does not come to |
| `NoUnansweredStop` | `StopsShowADecision` | `findings`, `secondary`: accepted findings, and an answer that stops the line, leave nothing to answer |
| `NothingIsDropped` | `LineIsNeverSilent` | `NoCliCorrections`, and `cancel`, `effect-fails` (nothing tries again), `stall`, `findings`, `checklist` (decisions whose answer changes nothing). No counterexample is known for `retry-stage` alone |
| `VerdictsOnly` | `OneLabelAtATime` | `NoCliCorrections`, and `run-fails`, `manual`: a failed shepherd is retried, and an approval queues its label, without a look at the queue. No counterexample is known for `set-pr` alone |
| `NoOverlap` | `ProtectionFollows` | `overlap`: when a mode changes before the last change reached the project, the earlier protection may be queued last, or none at all |

Each set these runs use satisfies the hypotheses of the properties they
check. The theorems about Genesis, the bridge, the servers, the sandbox, the cooldown and the
hold suppose nothing about `Happens`: their properties name the exceptions.

Only model-checked: `LineDelivers`, `HoldTakesEffect`, `AgedClears`, `RunsAreReported`,
`GateCatchesUp`, `ServedInTheEnd`, `RerunsComplete` and `CallReturns`. They are liveness
properties, and liveness under fairness and ENABLED are beyond the prover.

## 5. Not modelled, and the plan

* The web interface, audit events, alerts and queries: they render or record; the mutations
  the interface calls are the operator's actions of the models.
* Accounts, payments and security events: tables of the product template. Nothing in the
  factory reads them.
* Spec chat and operator profile: a request around a language model and one row.
* The other factory scripts (the wrappers that start a stage's agent, the gh calls of the effects)
  and the parsing of run output: the line sees their outcome, which is a choice
  in the models.
* Scaffolding, snapshots and CI: files, not behaviour.
* Of modelled components: `adoptProject` and `mirror` (progress only),
  `setProvider` (an evaluation, as `GateMoved`), the manual production steps, genesis without
  Doppler, `migrate-to-doppler`, the European providers' adapters, and decisions of
  kind `provision`, which nothing opens.

The mapped share of the implementation (about a seventh) follows from this: most of
its lines are components, templates and the wording of the scripts, which have
no state to speak of. What has state and is shared between processes is modelled.

What is left:

1. `OneLabelPerVerdict` without the hypothesis on `set-pr` and `NeverSilentlyStalled` without
   the one on `retry-stage`, which asks for the part of `OrderInv` that survives these
   corrections to stand on its own;
2. lemmas that bring `BridgeLoop`'s completions to `StageMachine`'s `CompleteRun`, so that
   "once" is one statement across both;
3. the European providers' adapters, which genesis uses through the same commands.
