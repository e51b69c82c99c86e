------------------------------ MODULE Deploys ------------------------------
(***************************************************************************)
(* Deployments of one product: the dev deployment, which genesis makes and *)
(* the DEPLOY_DEV stage makes again, and the operator's promotion to       *)
(* production.  Both give Vercel's targets a fresh Doppler token, bring    *)
(* Convex up to date and build the site, on the same production target.    *)
(***************************************************************************)
EXTENDS Naturals, Sequences, Functions

CONSTANTS
  MaxDeploys,   \* bound on the deployments after genesis
  MaxFaults,    \* bound on disturbances
  Happens       \* the kinds of disturbances

Events ==
  {"killed",         \* a script dies between two of its commands
   "killed-within",  \* or within a command that leaves its work half done
   "call-fails", "push-fails",
   "probe-fails",    \* a command that looks whether something exists cannot tell
   "overlap",        \* production is promoted during a dev deployment
   "again"}          \* genesis is run again for a product that is ready

ASSUME DeploysAssumption ==
  MaxDeploys \in Nat /\ MaxFaults \in Nat /\ Happens \subseteq Events

VARIABLES
  \* Doppler's dev config: the Clerk app each key is of, and _PROD_PROMOTED_AT
  doppler, marker,
  \* the Convex deployment: the issuer in its environment, the one its auth
  \* provider was registered with, whether functions are served, whether the
  \* last push landed
  convex,
  \* where NEXT_PUBLIC_CONVEX_URL can be read
  url,
  \* Vercel: DOPPLER_TOKEN of each target, and the config the production URL was built with
  env, site,
  \* commits of the checkout that are not on GitHub
  unpushed,
  \* each deployment's step, the targets still to be given the token, and
  \* result.success
  at, left, good,
  deploys,
  \* how often each kind of disturbance happened
  faults

hosting == <<env, site>>
progress == <<at, left, good>>
deployVars == <<doppler, marker, convex, url, hosting, unpushed, progress, deploys, faults>>

Keys == {"pk", "sk", "frontend", "redirects"}
NoApp == 0
Configs == {"dev", "prd"}
Deployments == {"dev", "prod"}
Targets == {"development", "preview", "production"}
NoToken == [config |-> "none", live |-> FALSE]
Tokens == [config : Configs, live : BOOLEAN]
DeploySteps == {"gate", "revoke", "issue", "remove", "add", "sync", "serve", "mark", "build", "summary"}

Config(d) == IF d = "dev" THEN "dev" ELSE "prd"
TargetsOf(d) == IF d = "dev" THEN <<"development", "preview", "production">> ELSE <<"production">>
Running(d) == at[d] \in DeploySteps

Fault(kind) ==
  /\ kind \in Happens /\ FoldFunction(+, 0, faults) < MaxFaults
  /\ faults' = [faults EXCEPT ![kind] = @ + 1]

Happened(kinds) == \E kind \in kinds : faults[kind] > 0

DeployInit ==
  /\ doppler = [k \in Keys |-> NoApp] /\ marker = FALSE
  /\ convex = [issuer |-> NoApp, provider |-> NoApp, served |-> FALSE, landed |-> FALSE]
  /\ url = {} /\ unpushed = FALSE
  /\ env = [t \in Targets |-> NoToken] /\ site = "none"
  /\ at = [d \in Deployments |-> "idle"]
  /\ left = [d \in Deployments |-> <<>>] /\ good = [d \in Deployments |-> TRUE]
  /\ deploys = 0 /\ faults = [kind \in Events |-> 0]

-----------------------------------------------------------------------------
(* Convex: the environment mirrors Doppler, and the auth provider is what the *)
(* environment said at the last push.                                         *)

(* sync-convex-env: keys are set one at a time, so a failed sync may have set *)
(* the issuer.                                                                *)
Synced == convex' = [convex EXCEPT !.issuer = doppler["frontend"]]
SyncFailed == UNCHANGED convex \/ Synced

(* Mutant of Pushed: the provider is left as the first push registered it. *)
PushedFunctions == convex' = [convex EXCEPT !.served = TRUE, !.landed = TRUE]

Pushed ==
  convex' = [convex EXCEPT !.provider = convex.issuer, !.served = TRUE, !.landed = TRUE]
PushLost == convex' = [convex EXCEPT !.landed = FALSE]

(* The first push of a project without an issuer can fail (design R19); its    *)
(* outcome is judged by the functions served, whichever push they are of.     *)
Push ==
  \/ Pushed /\ UNCHANGED faults
  \/ /\ PushLost
     /\ \/ convex.issuer = NoApp /\ UNCHANGED faults
        \/ Fault("push-fails")

-----------------------------------------------------------------------------
Goes(d, step) == at' = [at EXCEPT ![d] = step]
StepOf(d, step) == at[d] = step

Beside(d) == \E other \in Deployments \ {d} : Running(other)

Start(d) ==
  /\ Goes(d, "gate")
  /\ good' = [good EXCEPT ![d] = TRUE] /\ left' = [left EXCEPT ![d] = <<>>]

(* Mutant of Gate: the marker is not looked at. *)
GateOpen(d) ==
  /\ StepOf(d, "gate") /\ Goes(d, "revoke")
  /\ UNCHANGED <<doppler, marker, convex, url, hosting, unpushed, left, good, deploys, faults>>

(* The dev deployment refuses once production was promoted; a marker that     *)
(* cannot be read is no marker.  The promotion checks that Doppler's prd      *)
(* config is filled in, or fails.                                             *)
Gate(d) ==
  /\ StepOf(d, "gate")
  /\ \/ d = "dev" /\ marker /\ Goes(d, "failed") /\ UNCHANGED faults
     \/ d = "dev" /\ marker /\ Goes(d, "revoke") /\ Fault("probe-fails")
     \/ (d = "dev" => ~marker) /\ Goes(d, "revoke") /\ UNCHANGED faults
  /\ UNCHANGED <<doppler, marker, convex, url, hosting, unpushed, left, good, deploys>>

(* The config's earlier token is revoked wherever it is used; that the        *)
(* revocation failed is not looked at.                                        *)
RevokedEnv(c) == [t \in Targets |-> IF env[t].config = c THEN [env[t] EXCEPT !.live = FALSE] ELSE env[t]]

Revoke(d) ==
  /\ StepOf(d, "revoke") /\ Goes(d, "issue")
  /\ \/ env' = RevokedEnv(Config(d)) /\ UNCHANGED faults
     \/ UNCHANGED env /\ Fault("call-fails")
  /\ UNCHANGED <<doppler, marker, convex, url, site, unpushed, left, good, deploys>>

Issue(d) ==
  /\ StepOf(d, "issue") /\ Goes(d, "remove")
  /\ left' = [left EXCEPT ![d] = TargetsOf(d)]
  /\ UNCHANGED <<doppler, marker, convex, url, hosting, unpushed, good, deploys, faults>>

AfterTarget(d) == IF Len(left[d]) > 1 THEN "remove" ELSE "sync"
NextTarget(d) == left' = [left EXCEPT ![d] = Tail(left[d])] /\ Goes(d, AfterTarget(d))
TargetFails(d) == NextTarget(d) /\ good' = [good EXCEPT ![d] = FALSE] /\ Fault("call-fails")

(* A target's value is taken out and the new one put in; the next target is   *)
(* given the token also when this one failed.                                 *)
Remove(d) ==
  /\ StepOf(d, "remove")
  /\ \/ /\ env' = [env EXCEPT ![Head(left[d])] = NoToken]
        /\ Goes(d, "add") /\ UNCHANGED <<left, good, faults>>
     \/ TargetFails(d) /\ UNCHANGED env
  /\ UNCHANGED <<doppler, marker, convex, url, site, unpushed, deploys>>

Add(d) ==
  /\ StepOf(d, "add")
  /\ \/ /\ env' = [env EXCEPT ![Head(left[d])] = [config |-> Config(d), live |-> TRUE]]
        /\ NextTarget(d) /\ UNCHANGED <<good, faults>>
     \/ TargetFails(d) /\ UNCHANGED env
  /\ UNCHANGED <<doppler, marker, convex, url, site, unpushed, deploys>>

(* The environment is synced whatever became of the targets.  The dev         *)
(* deployment's Convex is modelled; production's is not.                      *)
Sync(d) ==
  /\ StepOf(d, "sync")
  /\ \/ /\ IF d = "dev" THEN Synced ELSE UNCHANGED convex
        /\ Goes(d, IF good[d] THEN "serve" ELSE "failed") /\ UNCHANGED faults
     \/ /\ IF d = "dev" THEN SyncFailed ELSE UNCHANGED convex
        /\ Goes(d, "failed") /\ Fault("call-fails")
  /\ UNCHANGED <<doppler, marker, url, hosting, unpushed, left, good, deploys>>

Serve(d) ==
  /\ StepOf(d, "serve")
  /\ \/ /\ d = "dev" /\ Push
        /\ Goes(d, IF convex'.served THEN "build" ELSE "failed")
     \/ d = "prod" /\ Goes(d, "mark") /\ UNCHANGED <<convex, faults>>
  /\ UNCHANGED <<doppler, marker, url, hosting, unpushed, left, good, deploys>>

(* The promotion writes its marker last; that it could not is a warning. *)
Mark(d) ==
  /\ StepOf(d, "mark") /\ Goes(d, "build")
  /\ \/ marker' = TRUE /\ UNCHANGED faults
     \/ UNCHANGED marker /\ Fault("call-fails")
  /\ UNCHANGED <<doppler, convex, url, hosting, unpushed, left, good, deploys>>

(* vercel deploy --prod, in both: the build reads the secrets with the token  *)
(* of the production target, and goes on without any when there is no token.  *)
Built(d) == IF d = "dev" THEN "summary" ELSE "done"

Build(d) ==
  /\ StepOf(d, "build")
  /\ LET token == env["production"] IN
     \/ token.live /\ site' = token.config /\ Goes(d, Built(d))
     \/ token = NoToken /\ site' = "blank" /\ Goes(d, Built(d))
     \/ ~token.live /\ Goes(d, "failed") /\ UNCHANGED site
  /\ UNCHANGED <<doppler, marker, convex, url, env, unpushed, left, good, deploys, faults>>

SummaryComplete == url # {} /\ doppler["frontend"] # NoApp

(* deploy-dev's summary: a blank setting stops it; the file has the time in   *)
(* it and is committed.                                                       *)
Summary ==
  /\ StepOf("dev", "summary")
  /\ IF SummaryComplete THEN Goes("dev", "done") /\ unpushed' = TRUE
                        ELSE Goes("dev", "failed") /\ UNCHANGED unpushed
  /\ UNCHANGED <<doppler, marker, convex, url, hosting, left, good, deploys, faults>>

(* A command of a deployment fails and ends it, or the script is killed. *)
DyingSteps == (Deployments \X {"issue", "serve", "build", "summary"}) \cup {<<"prod", "gate">>}

DeployDies(d) ==
  /\ Running(d) /\ Goes(d, "failed")
  /\ \/ Fault("killed")
     \/ /\ <<d, at[d]>> \in DyingSteps
        /\ Fault("call-fails")
  /\ UNCHANGED <<doppler, marker, convex, url, hosting, unpushed, left, good, deploys>>

DeployStep(d) ==
  \/ Gate(d) \/ Revoke(d) \/ Issue(d) \/ Remove(d) \/ Add(d) \/ Sync(d) \/ Serve(d)
  \/ Mark(d) \/ Build(d)
  \/ d = "dev" /\ Summary
=============================================================================
