------------------------------ MODULE Genesis ------------------------------
(***************************************************************************)
(* Genesis: from a spec to a product's checkout, its provider resources, a *)
(* dev URL and a protected main.  Every step looks whether what it makes    *)
(* is there, so a run that died is run again from the top.  Once a product *)
(* is ready the DEPLOY_DEV stage deploys it again and the operator promotes *)
(* it to production (Deploys).                                             *)
(***************************************************************************)
EXTENDS Deploys

VARIABLES
  \* the command the run is at
  pc,
  \* what the probes look for, and what they take it for: the checkout (git, its
  \* files), node_modules (and whether all is in it), .doppler.yaml, the GitHub
  \* repository, the origin remote, .vercel/project.json
  have,
  \* Clerk applications made, and those whose claim URL is in a run's record
  apps, shown,
  \* Convex projects made
  projects,
  \* the CI token: GitHub's DOPPLER_TOKEN, and live tokens GitHub does not have
  secret, spare,
  \* protection of main
  protection

genesisVars == <<pc, have, apps, shown, projects, secret, spare, protection>>
vars == <<genesisVars, deployVars>>

Artifacts == {"git", "files", "node_modules", "deps", "pinned", "repo", "origin", "linked"}
Steps ==
  {"clone", "npm", "bootstrap", "init", "create", "pk", "sk", "frontend", "redirects", "backend",
   "setup", "retry", "configure", "mirror", "sync", "serve", "sync-local", "scm", "ci", "revoke",
   "token", "secret", "link", "push", "deploy", "lockdown", "contexts"}
(* Steps a run leaves half done when it is killed in them. *)
InInit == {"pk", "sk", "frontend", "redirects"}
Working == pc \in Steps

Goto(step) == pc' = step

Init ==
  /\ DeployInit
  /\ pc = "new" /\ have = {} /\ apps = 0 /\ shown = {} /\ projects = 0
  /\ secret = "none" /\ spare = 0 /\ protection = "none"

(* A run starts: the line's first, a retry of one that died (runs are retried *)
(* and unblocked, StageMachine), or a second one of a run posted twice        *)
(* (BridgeLoop).                                                              *)
Begin ==
  /\ \/ pc \in {"new", "dead"} /\ UNCHANGED faults
     \/ pc = "ready" /\ ~Running("dev") /\ Fault("again")
  /\ Goto("clone")
  /\ UNCHANGED <<have, apps, shown, projects, secret, spare, protection, doppler, marker, convex, url,
                 hosting, unpushed, progress, deploys>>

(* The run is killed between two commands, or a command fails and ends it. *)
Dies ==
  /\ Working /\ pc # "deploy"
  /\ \/ pc \notin InInit /\ Fault("killed")
     \/ pc \notin InInit \cup {"backend", "sync", "mirror"} /\ Fault("call-fails")
  /\ Goto("dead")
  /\ UNCHANGED <<have, apps, shown, projects, secret, spare, protection, doppler, marker, convex, url,
                 hosting, unpushed, progress, deploys>>

-----------------------------------------------------------------------------
(* The checkout *)

Making(artifact, made, next) ==
  IF artifact \in have THEN UNCHANGED have /\ Goto(next) ELSE have' = have \cup made /\ Goto(next)

Clone == pc = "clone" /\ Making("git", {"git", "files"}, "npm")
CloneKilled == pc = "clone" /\ "git" \notin have /\ have' = have \cup {"git"} /\ Goto("dead")

(* node_modules newer than the lockfile is taken for installed. *)
Install ==
  /\ pc = "npm"
  /\ IF "files" \in have THEN Making("node_modules", {"node_modules", "deps"}, "bootstrap")
                         ELSE Goto("dead") /\ UNCHANGED have
InstallKilled ==
  /\ pc = "npm" /\ "files" \in have /\ "node_modules" \notin have
  /\ have' = have \cup {"node_modules"} /\ Goto("dead")

(* doppler-bootstrap writes .doppler.yaml last; every script of the template  *)
(* from here on needs the dependencies.                                       *)
Bootstrap ==
  /\ pc = "bootstrap"
  /\ IF "deps" \in have THEN Making("pinned", {"pinned"}, "init") ELSE Goto("dead") /\ UNCHANGED have

Link == pc = "link" /\ Making("linked", {"linked"}, "push")

Checkout ==
  /\ \/ (Clone \/ Install \/ Bootstrap \/ Link) /\ UNCHANGED faults
     \/ (CloneKilled \/ InstallKilled) /\ Fault("killed-within")
  /\ UNCHANGED <<apps, shown, projects, secret, spare, protection, doppler, marker, convex, url,
                 hosting, unpushed, progress, deploys>>

-----------------------------------------------------------------------------
(* init: the Clerk application and its keys *)

(* Mutant of HasApp: the probe asks for a key that is pushed later. *)
HasAllKeys == doppler["redirects"] # NoApp

HasApp == doppler["pk"] # NoApp

Probe ==
  /\ pc = "init"
  /\ \/ Goto(IF HasApp THEN "backend" ELSE "create") /\ UNCHANGED faults
     \/ HasApp /\ Goto("create") /\ Fault("probe-fails")
  /\ UNCHANGED <<doppler, apps, shown>>

CreateApp ==
  /\ pc = "create"
  /\ apps' = apps + 1 /\ Goto("pk")
  /\ UNCHANGED <<doppler, shown, faults>>

NextKey == [pk |-> "sk", sk |-> "frontend", frontend |-> "redirects", redirects |-> "backend"]

(* The keys go to Doppler one at a time; what init has to say, the claim URL  *)
(* with it, is printed when it ends.                                          *)
PushKey ==
  /\ pc \in InInit
  /\ doppler' = [doppler EXCEPT ![pc] = apps]
  /\ Goto(NextKey[pc])
  /\ shown' = IF pc = "redirects" THEN shown \cup {apps} ELSE shown
  /\ UNCHANGED <<apps, faults>>

(* Mutant of PushFails: the output is lost with the failure. *)
PushFailsSilently == pc \in InInit /\ Fault("call-fails") /\ Goto("dead") /\ UNCHANGED <<doppler, apps, shown>>

(* A push that fails is a warning in init's output, which ends the run. *)
PushFails ==
  /\ pc \in InInit /\ Fault("call-fails") /\ Goto("dead")
  /\ shown' = shown \cup {apps}
  /\ UNCHANGED <<doppler, apps>>

InitKilled ==
  /\ pc \in InInit /\ Fault("killed-within") /\ Goto("dead")
  /\ UNCHANGED <<doppler, apps, shown>>

Identity ==
  /\ Probe \/ CreateApp \/ PushKey \/ PushFails \/ InitKilled
  /\ UNCHANGED <<have, projects, secret, spare, protection, marker, convex, url, hosting, unpushed,
                 progress, deploys>>

-----------------------------------------------------------------------------
(* The Convex project *)

HasProject == url # {}

Backend ==
  /\ pc = "backend"
  /\ \/ Goto(IF HasProject THEN "configure" ELSE "setup") /\ UNCHANGED faults
     \/ HasProject /\ Goto("setup") /\ Fault("probe-fails")
  /\ UNCHANGED <<projects, convex, url>>

NewProject(landed) ==
  /\ projects' = projects + 1 /\ url' = url \cup {"local"}
  /\ convex' = [issuer |-> NoApp, provider |-> NoApp, served |-> landed, landed |-> landed]

(* convex-setup: a deployment .env.local knows is pushed to, and if that      *)
(* fails another project is made.  A new project whose functions are not      *)
(* served is pushed to once more; one whose creation timed out before         *)
(* .env.local was written is not known to any later run.                      *)
Setup ==
  /\ pc = "setup"
  /\ \/ "local" \in url /\ Pushed /\ Goto("configure") /\ UNCHANGED <<projects, url, faults>>
     \/ "local" \notin url /\ NewProject(TRUE) /\ Goto("configure") /\ UNCHANGED faults
     \/ "local" \notin url /\ NewProject(FALSE) /\ Goto("retry") /\ UNCHANGED faults
     \/ /\ "local" \in url /\ Fault("push-fails")
        /\ \E landed \in BOOLEAN : NewProject(landed) /\ Goto(IF landed THEN "configure" ELSE "retry")
     \/ /\ "local" \notin url /\ Fault("call-fails")
        /\ projects' = projects + 1 /\ Goto("dead") /\ UNCHANGED <<convex, url>>

Retry ==
  /\ pc = "retry"
  /\ Push /\ Goto(IF convex'.served THEN "configure" ELSE "dead")
  /\ UNCHANGED <<projects, url>>

(* configure: the secret key and the deployment are needed. *)
Configure ==
  /\ pc = "configure"
  /\ Goto(IF doppler["sk"] # NoApp /\ "local" \in url THEN "mirror" ELSE "dead")
  /\ UNCHANGED <<projects, convex, url, faults>>

(* The values for Convex go to Doppler first.  If they do not get there, or   *)
(* not from there to Convex, nothing is pushed and configure succeeds.        *)
Mirror ==
  /\ pc = "mirror"
  /\ \/ Goto("sync") /\ UNCHANGED faults
     \/ Goto("sync-local") /\ Fault("call-fails")
  /\ UNCHANGED <<projects, convex, url>>

ConfigureSync ==
  /\ pc = "sync"
  /\ \/ Synced /\ Goto("serve") /\ UNCHANGED faults
     \/ SyncFailed /\ Goto("sync-local") /\ Fault("call-fails")
  /\ UNCHANGED <<projects, url>>

ConfigurePush ==
  /\ pc = "serve"
  /\ Push /\ Goto(IF convex'.served THEN "sync-local" ELSE "dead")
  /\ UNCHANGED <<projects, url>>

SyncLocal ==
  /\ pc = "sync-local"
  /\ url' = url \cup {"doppler"} /\ Goto("scm")
  /\ UNCHANGED <<projects, convex, faults>>

Convex ==
  /\ Backend \/ Setup \/ Retry \/ Configure \/ Mirror \/ ConfigureSync \/ ConfigurePush \/ SyncLocal
  /\ UNCHANGED <<have, apps, shown, secret, spare, protection, doppler, marker, hosting, unpushed,
                 progress, deploys>>

-----------------------------------------------------------------------------
(* GitHub *)

(* Mutant of CreateRepo: whether origin is set is not looked at. *)
CreateRepoUnprobed ==
  /\ pc = "scm"
  /\ IF "repo" \in have THEN Goto("dead") /\ UNCHANGED <<have, unpushed>>
                        ELSE have' = have \cup {"repo", "origin"} /\ unpushed' = FALSE /\ Goto("ci")
  /\ UNCHANGED <<secret, spare, protection, progress, deploys, faults>>

(* gh repo create makes the repository, sets origin and pushes.  Without the  *)
(* remote, a repository that is there already is an error.                    *)
CreateRepo ==
  /\ pc = "scm"
  /\ \/ "origin" \in have /\ Goto("ci") /\ UNCHANGED <<have, unpushed, faults>>
     \/ "origin" \notin have /\ "repo" \in have /\ Goto("dead") /\ UNCHANGED <<have, unpushed, faults>>
     \/ /\ "origin" \notin have /\ "repo" \notin have
        /\ \/ /\ have' = have \cup {"repo", "origin"} /\ unpushed' = FALSE
              /\ Goto("ci") /\ UNCHANGED faults
           \/ /\ have' = have \cup {"repo", "origin"} /\ unpushed' = TRUE
              /\ Goto("dead") /\ Fault("call-fails")
           \/ /\ have' = have \cup {"repo"} /\ unpushed' = TRUE
              /\ Goto("dead") /\ Fault("killed-within")
  /\ UNCHANGED <<secret, spare, protection, progress, deploys>>

(* The CI token.  Earlier tokens are revoked before one is made, unless they  *)
(* cannot be listed.                                                          *)
CiProbe ==
  /\ pc = "ci"
  /\ \/ Goto(IF secret # "none" THEN "link" ELSE "revoke") /\ UNCHANGED faults
     \/ secret # "none" /\ Goto("revoke") /\ Fault("probe-fails")
  /\ UNCHANGED <<have, unpushed, secret, spare, protection, progress, deploys>>

(* Mutant of CiRevoke: what an earlier attempt left is not revoked. *)
CiRevokeNothing ==
  /\ pc = "revoke" /\ Goto("token")
  /\ UNCHANGED <<have, unpushed, secret, spare, protection, progress, deploys, faults>>

CiRevoke ==
  /\ pc = "revoke" /\ Goto("token")
  /\ \/ /\ secret' = (IF secret = "live" THEN "revoked" ELSE secret) /\ spare' = 0
        /\ UNCHANGED faults
     \/ UNCHANGED <<secret, spare>> /\ Fault("probe-fails")
  /\ UNCHANGED <<have, unpushed, protection, progress, deploys>>

(* Mutant of CiToken: the tokens of its name are revoked once it is made. *)
CiTokenThenRevoked ==
  /\ pc = "token" /\ Goto("secret")
  /\ spare' = 0
  /\ UNCHANGED <<have, unpushed, secret, protection, progress, deploys, faults>>

CiToken ==
  /\ pc = "token" /\ Goto("secret")
  /\ spare' = spare + 1
  /\ UNCHANGED <<have, unpushed, secret, protection, progress, deploys, faults>>

CiSecret ==
  /\ pc = "secret" /\ Goto("link")
  /\ secret' = "live" /\ spare' = spare - 1
  /\ UNCHANGED <<have, unpushed, protection, progress, deploys, faults>>

(* The run's own changes are committed: the baseline's scan is one whenever   *)
(* the scanner is installed.  A protected main takes no direct push.          *)
PushMain ==
  /\ pc = "push"
  /\ \E changed \in BOOLEAN :
       IF (unpushed \/ changed) /\ protection # "none"
         THEN Goto("dead") /\ unpushed' = TRUE /\ UNCHANGED progress
         ELSE Goto("deploy") /\ unpushed' = FALSE /\ Start("dev")
  /\ UNCHANGED <<have, secret, spare, protection, deploys, faults>>

(* deploy-dev.sh; when it dies, so does genesis. *)
DeployEnds ==
  /\ pc = "deploy" /\ ~Running("dev")
  /\ Goto(IF at["dev"] = "done" THEN "lockdown" ELSE "dead")
  /\ UNCHANGED <<have, unpushed, secret, spare, protection, progress, deploys, faults>>

(* lockdown-main.sh protects main with its own contexts, protect-main.sh adds *)
(* the factory's.                                                             *)
Lockdown ==
  /\ pc = "lockdown" /\ protection' = "locked" /\ Goto("contexts")
  /\ UNCHANGED <<have, unpushed, secret, spare, progress, deploys, faults>>

Contexts ==
  /\ pc = "contexts" /\ protection' = "full" /\ Goto("ready")
  /\ UNCHANGED <<have, unpushed, secret, spare, progress, deploys, faults>>

GitHub ==
  /\ \/ CreateRepo \/ CiProbe \/ CiRevoke \/ CiToken \/ CiSecret
     \/ PushMain \/ DeployEnds \/ Lockdown \/ Contexts
  /\ UNCHANGED <<apps, shown, projects, doppler, marker, convex, url, hosting>>

-----------------------------------------------------------------------------
(* Deployments of a product that is ready *)

Deploy(d) ==
  /\ pc = "ready" /\ ~Running(d)
  /\ deploys < MaxDeploys /\ deploys' = deploys + 1
  /\ Start(d)
  /\ IF Beside(d) THEN Fault("overlap") ELSE UNCHANGED faults
  /\ UNCHANGED <<genesisVars, doppler, marker, convex, url, hosting, unpushed>>

Deploying(d) == (DeployStep(d) \/ DeployDies(d)) /\ UNCHANGED genesisVars

GenesisRun == Checkout \/ Identity \/ Convex \/ GitHub

Next ==
  \/ Begin \/ Dies \/ GenesisRun
  \/ \E d \in Deployments : Deploy(d) \/ Deploying(d)

Spec == Init /\ [][Next]_vars

(* A genesis that died is run again, and scripts go on. *)
Fairness == WF_vars(Begin) /\ WF_vars(GenesisRun) /\ WF_vars(Deploying("dev"))
FairSpec == Spec /\ Fairness

-----------------------------------------------------------------------------
(* Properties *)

TypeOK ==
  /\ pc \in Steps \cup {"new", "dead", "ready"} /\ have \subseteq Artifacts
  /\ apps \in Nat /\ shown \subseteq 1..apps /\ projects \in Nat
  /\ secret \in {"none", "live", "revoked"} /\ spare \in Nat
  /\ protection \in {"none", "locked", "full"}
  /\ doppler \in [Keys -> 0..apps] /\ marker \in BOOLEAN
  /\ convex \in [issuer : 0..apps, provider : 0..apps, served : BOOLEAN, landed : BOOLEAN]
  /\ url \subseteq {"local", "doppler"} /\ unpushed \in BOOLEAN
  /\ env \in [Targets -> Tokens \cup {NoToken}] /\ site \in Configs \cup {"none", "blank"}
  /\ at \in [Deployments -> DeploySteps \cup {"idle", "done", "failed"}]
  /\ left \in [Deployments -> Seq(Targets)] /\ good \in [Deployments -> BOOLEAN]
  /\ deploys \in 0..MaxDeploys /\ faults \in [Events -> Nat]

Ready == pc = "ready"

(* A product genesis calls ready has everything, however often its run died   *)
(* and was run again: its keys, all of one application, served functions, the *)
(* repository, the token its CI needs and no other, the link to Vercel, a     *)
(* deployment and full protection of main.  A probe that failed may have left *)
(* any of it double or stale.                                                 *)
ReadyIsWhole ==
  Ready /\ ~Happened({"probe-fails"}) =>
    /\ {"files", "deps", "pinned", "origin", "linked"} \subseteq have
    /\ \E app \in 1..apps : \A k \in {"pk", "sk", "frontend"} : doppler[k] = app
    /\ url = {"local", "doppler"} /\ convex.served
    /\ secret = "live" /\ spare = 0
    /\ site # "none" /\ protection = "full"

(* Its users can log in: Convex's auth provider is the application whose keys *)
(* the site has, also when genesis was run again (configure, pushConvexAnd-   *)
(* Verify).  That the last push was lost the verification does not see.       *)
LoginWorks ==
  Ready /\ convex.landed /\ ~Happened({"probe-fails"}) => convex.provider = doppler["pk"]

(* The claim URL of the application in use is in a run's record, so that the  *)
(* product can be handed over (genesis.sh:112-119), unless init was killed.   *)
ClaimKept == Ready /\ ~Happened({"killed-within"}) => doppler["pk"] \in shown

(* Nothing is made twice: a key in Doppler is never replaced, and a product   *)
(* with a Convex project gets no other, whatever a run that starts over finds *)
(* half done, as long as its probes can tell.                                 *)
MadeOnce ==
  /\ \A k \in Keys : doppler[k] # NoApp => doppler'[k] = doppler[k]
  /\ url # {} => projects' = projects
NothingReplaced == [][Happened({"probe-fails"})' \/ MadeOnce]_vars

(* Probes never fail open (docs/providers/README.md:79): a re-run would make  *)
(* init and convex-setup duplicate resources.                                 *)
ProbesFailClosed == [][MadeOnce]_vars

(* Once production is promoted no dev deployment replaces it: not the site,   *)
(* not the token its next build reads (checkProdPromoted).  A marker that     *)
(* cannot be read is taken for none, and one that is not yet written does not *)
(* stop a dev deployment.                                                     *)
ProductionKept ==
  [][marker /\ ~Happened({"probe-fails", "overlap"}) =>
       /\ site' = "dev" => site = "dev"
       /\ env'["production"].config = "dev" => env["production"].config = "dev"]_vars

(* A genesis that dies is run again until the product is ready                *)
(* (genesis.sh:5-6), except that no rerun gets past a protected main, keys    *)
(* init pushed in part, or what a command killed within left half done.       *)
KeysMissing == HasApp /\ \E k \in {"sk", "frontend"} : doppler[k] = NoApp
Unrepairable == protection # "none" \/ KeysMissing \/ Happened({"killed-within"})
RerunsComplete == (pc = "clone") ~> (Ready \/ Unrepairable)
=============================================================================
