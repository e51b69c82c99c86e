---------------------------- MODULE GenesisProofs ----------------------------
(***************************************************************************)
(* Genesis and the deployments of a product, for every bound on the        *)
(* disturbances and every set of them.                                     *)
(*                                                                         *)
(* What a ready product has is an invariant of the runs that led there: a  *)
(* run that got past a step has what the step makes (ReachedInv), init     *)
(* makes an application only where there is no key (KeysInv), CI's token   *)
(* is revoked before the next is made (TokenInv), Convex is as the last    *)
(* push left it (ProviderInv).  Production is kept because a protected     *)
(* main stops every later run at its push (ProtectedInv), so that no dev   *)
(* deployment runs beside a promotion (PromotedInv).                       *)
(***************************************************************************)
EXTENDS Genesis, SequenceTheorems, TLAPS

(* Counts and queues the steps take from: init names an application that was   *)
(* made, the secret a token that was made, a deployment a target that is left. *)
CountsInv ==
  /\ pc \in InInit => apps > 0
  /\ pc = "secret" => spare > 0
  /\ \A d \in Deployments : at[d] \in {"remove", "add"} => left[d] # <<>>
TypeInv == TypeOK /\ CountsInv

-----------------------------------------------------------------------------
(* Type correctness *)

LEMMA FaultType ==
  ASSUME faults \in [Events -> Nat], NEW kind \in Events, Fault(kind)
  PROVE  /\ faults' \in [Events -> Nat] /\ faults'[kind] > 0
         /\ \A other \in Events : faults[other] > 0 => faults'[other] > 0
<1>1. faults' = [faults EXCEPT ![kind] = @ + 1]
  BY Zenon DEF Fault
<1> QED
  BY <1>1

LEMMA KeysType ==
  /\ InInit \subseteq Keys
  /\ NextKey["pk"] = "sk" /\ NextKey["sk"] = "frontend"
  /\ NextKey["frontend"] = "redirects" /\ NextKey["redirects"] = "backend"
  BY DEF InInit, Keys, NextKey

LEMMA NothingAtFirst == Init => TypeInv
<1> SUFFICES ASSUME Init PROVE TypeInv
  OBVIOUS
<1>1. /\ pc \in Steps \cup {"new", "dead", "ready"} /\ have \subseteq Artifacts
      /\ apps \in Nat /\ shown \subseteq 1..apps /\ projects \in Nat
      /\ secret \in {"none", "live", "revoked"} /\ spare \in Nat
      /\ protection \in {"none", "locked", "full"}
  BY DEF Init
<1>2. /\ doppler \in [Keys -> 0..apps] /\ marker \in BOOLEAN
      /\ convex \in [issuer : 0..apps, provider : 0..apps, served : BOOLEAN, landed : BOOLEAN]
      /\ url \subseteq {"local", "doppler"} /\ unpushed \in BOOLEAN
  <2>1. apps = 0 /\ 0 \in 0..apps
    BY DEF Init
  <2>2. doppler \in [Keys -> 0..apps]
    BY <2>1 DEF Init, DeployInit, NoApp
  <2>3. convex \in [issuer : 0..apps, provider : 0..apps, served : BOOLEAN, landed : BOOLEAN]
    BY <2>1 DEF Init, DeployInit, NoApp
  <2> QED
    BY <2>2, <2>3 DEF Init, DeployInit
<1>3. /\ env \in [Targets -> Tokens \cup {NoToken}] /\ site \in Configs \cup {"none", "blank"}
      /\ at \in [Deployments -> DeploySteps \cup {"idle", "done", "failed"}]
      /\ good \in [Deployments -> BOOLEAN]
  BY DEF Init, DeployInit
<1>4. left \in [Deployments -> Seq(Targets)] /\ deploys \in 0..MaxDeploys /\ faults \in [Events -> Nat]
  BY DeploysAssumption DEF Init, DeployInit
<1>5. CountsInv
  BY DEF Init, DeployInit, CountsInv, InInit
<1> QED
  BY <1>1, <1>2, <1>3, <1>4, <1>5 DEF TypeInv, TypeOK

(* What a step of genesis itself may write, apart from the checkout.           *)
GenesisType ==
  /\ pc \in Steps \cup {"new", "dead", "ready"} /\ have \subseteq Artifacts
  /\ apps \in Nat /\ shown \subseteq 1..apps /\ projects \in Nat
  /\ secret \in {"none", "live", "revoked"} /\ spare \in Nat
  /\ protection \in {"none", "locked", "full"}
  /\ pc \in InInit => apps > 0
  /\ pc = "secret" => spare > 0
ConvexType ==
  /\ doppler \in [Keys -> 0..apps]
  /\ convex \in [issuer : 0..apps, provider : 0..apps, served : BOOLEAN, landed : BOOLEAN]
  /\ url \subseteq {"local", "doppler"}
HostingType ==
  /\ marker \in BOOLEAN /\ unpushed \in BOOLEAN
  /\ env \in [Targets -> Tokens \cup {NoToken}] /\ site \in Configs \cup {"none", "blank"}
ProgressType ==
  /\ at \in [Deployments -> DeploySteps \cup {"idle", "done", "failed"}]
  /\ left \in [Deployments -> Seq(Targets)] /\ good \in [Deployments -> BOOLEAN]
  /\ \A d \in Deployments : at[d] \in {"remove", "add"} => left[d] # <<>>
  /\ deploys \in 0..MaxDeploys
FaultsType == faults \in [Events -> Nat]

LEMMA TypeParts == TypeInv <=> GenesisType /\ ConvexType /\ HostingType /\ ProgressType /\ FaultsType
  BY DEF TypeInv, TypeOK, CountsInv, GenesisType, ConvexType, HostingType, ProgressType, FaultsType

(* A fault is spent or none is. *)
FaultStep == UNCHANGED faults \/ \E kind \in Events : Fault(kind)

LEMMA FaultStepType ==
  ASSUME FaultsType, FaultStep
  PROVE  FaultsType' /\ \A kinds \in SUBSET Events : Happened(kinds) => Happened(kinds)'
<1>1. CASE UNCHANGED faults
  BY <1>1 DEF FaultsType, Happened
<1>2. ASSUME NEW kind \in Events, Fault(kind)
      PROVE  FaultsType' /\ \A kinds \in SUBSET Events : Happened(kinds) => Happened(kinds)'
  BY <1>2, FaultType DEF FaultsType, Happened
<1> QED
  BY <1>1, <1>2 DEF FaultStep

LEMMA PushType ==
  ASSUME ConvexType, Push, UNCHANGED apps
  PROVE  /\ convex' \in [issuer : 0..apps, provider : 0..apps, served : BOOLEAN, landed : BOOLEAN]
         /\ FaultStep
         /\ convex.served => convex'.served
  BY DEF Push, Pushed, PushLost, ConvexType, FaultStep, Events

LEMMA EveryStepFaults ==
  ASSUME TypeInv, [Next]_vars
  PROVE  FaultStep
<1>1. CASE Begin \/ Dies
  BY <1>1 DEF Begin, Dies, FaultStep, Events
<1>2. CASE Checkout \/ Identity
  BY <1>2 DEF Checkout, Identity, Probe, CreateApp, PushKey, PushFails, InitKilled, FaultStep, Events
<1>3. CASE Convex
  BY <1>3, PushType, TypeParts
     DEF Convex, Backend, Setup, Retry, Configure, Mirror, ConfigureSync, ConfigurePush, SyncLocal,
         FaultStep, Events, Push, Pushed
<1>4. CASE GitHub
  BY <1>4 DEF GitHub, CreateRepo, CiProbe, CiRevoke, CiToken, CiSecret, PushMain, DeployEnds, Lockdown,
              Contexts, FaultStep, Events
<1>5. ASSUME NEW d \in Deployments, Deploy(d) PROVE FaultStep
  BY <1>5 DEF Deploy, FaultStep, Events
<1>6. ASSUME NEW d \in Deployments, Deploying(d) PROVE FaultStep
  BY <1>6 DEF Deploying, DeployStep, DeployDies, Gate, Revoke, Issue, Remove, Add, TargetFails, Sync, Serve,
              Push, Mark, Build, Summary, FaultStep, Events
<1>7. CASE UNCHANGED vars
  BY <1>7 DEF vars, deployVars, FaultStep
<1> QED
  BY <1>1, <1>2, <1>3, <1>4, <1>5, <1>6, <1>7 DEF Next, GenesisRun

(* Genesis at its own steps: the deployments do not move. *)
LEMMA CheckoutType == ASSUME TypeInv, Checkout PROVE (GenesisType /\ ConvexType)'
  BY TypeParts DEF Checkout, Clone, CloneKilled, Install, InstallKilled, Bootstrap, Link, Making, Goto,
                   GenesisType, ConvexType, Steps, InInit, Artifacts

LEMMA IdentityType == ASSUME TypeInv, Identity PROVE (GenesisType /\ ConvexType)'
<1>1. GenesisType /\ ConvexType
  BY TypeParts
<1>2. UNCHANGED <<have, projects, secret, spare, protection, convex, url>>
  BY DEF Identity
<1>3. CASE Probe \/ InitKilled
  <2>1. pc' \in {"backend", "create", "dead"} /\ UNCHANGED <<doppler, apps, shown>>
    BY <1>3 DEF Probe, InitKilled, Goto
  <2> QED
    BY <1>1, <1>2, <2>1 DEF GenesisType, ConvexType, Steps, InInit
<1>5. CASE CreateApp
  <2>1. pc' = "pk" /\ apps' = apps + 1 /\ UNCHANGED <<doppler, shown>>
    BY <1>5 DEF CreateApp, Goto
  <2>2. apps' \in Nat /\ apps' > 0 /\ shown' \subseteq 1..apps' /\ 0..apps \subseteq 0..apps'
    BY <1>1, <2>1 DEF GenesisType
  <2>3. ConvexType'
    <3>1. doppler \in [Keys -> 0..apps']
      BY <1>1, <2>2 DEF ConvexType
    <3>2. convex \in [issuer : 0..apps', provider : 0..apps', served : BOOLEAN, landed : BOOLEAN]
      BY <1>1, <2>2 DEF ConvexType
    <3> QED
      BY <1>1, <1>2, <2>1, <3>1, <3>2 DEF ConvexType
  <2> QED
    BY <1>1, <1>2, <2>1, <2>2, <2>3 DEF GenesisType, Steps
<1>6. CASE PushFails
  <2>1. pc' = "dead" /\ pc \in InInit /\ shown' = shown \cup {apps} /\ UNCHANGED <<doppler, apps>>
    BY <1>6 DEF PushFails, Goto
  <2>2. shown' \subseteq 1..apps
    BY <1>1, <2>1 DEF GenesisType
  <2> QED
    BY <1>1, <1>2, <2>1, <2>2 DEF GenesisType, ConvexType, Steps, InInit
<1>4. CASE PushKey
  <2>1. pc \in InInit /\ doppler' = [doppler EXCEPT ![pc] = apps] /\ pc' = NextKey[pc] /\ apps' = apps
        /\ UNCHANGED <<have, projects, secret, spare, protection, convex, url>>
    BY <1>4 DEF PushKey, Identity, Goto
  <2>2. pc' \in {"sk", "frontend", "redirects", "backend"}
    BY <2>1, KeysType DEF InInit
  <2>3. shown' \subseteq 1..apps
    BY <1>1, <1>4, <2>1 DEF PushKey, GenesisType
  <2>4. doppler' \in [Keys -> 0..apps]
    <3>1. pc \in Keys /\ apps \in 0..apps
      BY <1>1, <2>1, KeysType DEF GenesisType
    <3> QED
      BY <1>1, <2>1, <3>1 DEF ConvexType
  <2> QED
    BY <1>1, <2>1, <2>2, <2>3, <2>4 DEF GenesisType, ConvexType, Steps, InInit
<1> QED
  BY <1>3, <1>4, <1>5, <1>6 DEF Identity

LEMMA ConvexStepType == ASSUME TypeInv, Convex PROVE (GenesisType /\ ConvexType)'
<1>1. /\ GenesisType /\ ConvexType /\ UNCHANGED <<have, apps, shown, secret, spare, protection, doppler>>
      /\ doppler["frontend"] \in 0..apps
  BY TypeParts DEF Convex, ConvexType, Keys
<1>2. CASE Backend \/ Configure \/ Mirror \/ SyncLocal
  BY <1>1, <1>2 DEF Backend, Configure, Mirror, SyncLocal, Goto, GenesisType, ConvexType, Steps, InInit
<1>3. CASE Setup
  <2>1. ASSUME NEW landed \in BOOLEAN, NewProject(landed)
        PROVE  projects' \in Nat /\ url' \subseteq {"local", "doppler"}
               /\ convex' \in [issuer : 0..apps, provider : 0..apps, served : BOOLEAN, landed : BOOLEAN]
    BY <1>1, <2>1 DEF NewProject, GenesisType, ConvexType, NoApp
  <2>2. Pushed => convex' \in [issuer : 0..apps, provider : 0..apps, served : BOOLEAN, landed : BOOLEAN]
    BY <1>1 DEF Pushed, ConvexType
  <2>3. pc' \in {"configure", "retry", "dead"}
    BY <1>3 DEF Setup, Goto
  <2>4. \/ Pushed /\ UNCHANGED <<projects, url>>
        \/ \E landed \in BOOLEAN : NewProject(landed)
        \/ projects' = projects + 1 /\ UNCHANGED <<convex, url>>
    BY <1>3 DEF Setup
  <2>5. /\ projects' \in Nat /\ url' \subseteq {"local", "doppler"}
        /\ convex' \in [issuer : 0..apps, provider : 0..apps, served : BOOLEAN, landed : BOOLEAN]
    <3>1. CASE Pushed /\ UNCHANGED <<projects, url>>
      BY <1>1, <2>2, <3>1 DEF GenesisType, ConvexType
    <3>2. CASE projects' = projects + 1 /\ UNCHANGED <<convex, url>>
      BY <1>1, <3>2 DEF GenesisType, ConvexType
    <3> QED
      BY <2>1, <2>4, <3>1, <3>2
  <2> QED
    BY <1>1, <2>3, <2>5 DEF GenesisType, ConvexType, Steps, InInit
<1>4. CASE Retry \/ ConfigurePush
  BY <1>1, <1>4, PushType DEF Retry, ConfigurePush, Goto, GenesisType, ConvexType, Steps, InInit
<1>5. CASE ConfigureSync
  BY <1>1, <1>5 DEF ConfigureSync, Synced, SyncFailed, Goto, GenesisType, ConvexType, Steps, InInit
<1> QED
  BY <1>2, <1>3, <1>4, <1>5 DEF Convex

LEMMA StartType ==
  ASSUME ProgressType, NEW d \in Deployments, Start(d), deploys' \in 0..MaxDeploys
  PROVE  ProgressType'
  BY DEF Start, Goes, ProgressType, DeploySteps

LEMMA GitHubType == ASSUME TypeInv, GitHub PROVE (GenesisType /\ ConvexType /\ HostingType /\ ProgressType)'
<1>1. /\ GenesisType /\ ConvexType /\ HostingType /\ ProgressType
      /\ UNCHANGED <<apps, shown, projects, doppler, marker, convex, url, env, site>>
  BY TypeParts DEF GitHub, hosting
<1>2. ConvexType'
  BY <1>1 DEF ConvexType
<1>3. CASE CreateRepo \/ CiProbe \/ CiRevoke
  <2>1. /\ pc' \in {"ci", "dead", "link", "revoke", "token"}
        /\ UNCHANGED <<protection, progress, deploys>>
    BY <1>3 DEF CreateRepo, CiProbe, CiRevoke, Goto
  <2>2. /\ have' \subseteq have \cup {"repo", "origin"} /\ unpushed' \in BOOLEAN
        /\ secret' \in {secret, "revoked"} /\ spare' \in {spare, 0}
    <3>1. CASE CreateRepo
      BY <1>1, <3>1, Zenon DEF CreateRepo, HostingType
    <3>2. CASE CiProbe \/ CiRevoke
      BY <1>1, <3>2, Zenon DEF CiProbe, CiRevoke, HostingType
    <3> QED
      BY <1>3, <3>1, <3>2
  <2>3. GenesisType'
    BY <1>1, <2>1, <2>2 DEF GenesisType, Steps, InInit, Artifacts
  <2>4. HostingType' /\ ProgressType'
    BY <1>1, <2>1, <2>2 DEF HostingType, ProgressType, progress
  <2> QED
    BY <1>2, <2>3, <2>4
<1>4. CASE CiToken \/ CiSecret
  BY <1>1, <1>2, <1>4 DEF CiToken, CiSecret, progress, Goto, GenesisType, HostingType, ProgressType,
                     Steps, InInit
<1>5. CASE DeployEnds \/ Lockdown \/ Contexts
  BY <1>1, <1>2, <1>5 DEF DeployEnds, Lockdown, Contexts, progress, Goto, GenesisType, HostingType,
                          ProgressType,
                     Steps, InInit
<1>6. CASE PushMain
  <2>1. ProgressType'
    <3>1. CASE UNCHANGED progress /\ UNCHANGED deploys
      BY <1>1, <3>1 DEF progress, ProgressType
    <3>2. CASE Start("dev") /\ UNCHANGED deploys
      <4>1. "dev" \in Deployments /\ deploys' \in 0..MaxDeploys
        BY <1>1, <3>2 DEF Deployments, ProgressType
      <4> QED
        BY <1>1, <3>2, <4>1, StartType
    <3> QED
      BY <1>6, <3>1, <3>2 DEF PushMain
  <2> QED
    BY <1>1, <1>2, <1>6, <2>1 DEF PushMain, Goto, GenesisType, HostingType, Steps, InInit
<1> QED
  BY <1>3, <1>4, <1>5, <1>6 DEF GitHub

LEMMA DeployType ==
  ASSUME TypeInv, NEW d \in Deployments, Deploy(d)
  PROVE  (GenesisType /\ ConvexType /\ HostingType /\ ProgressType)'
<1>1. /\ GenesisType /\ ConvexType /\ HostingType /\ ProgressType
      /\ UNCHANGED <<genesisVars, doppler, marker, convex, url, hosting, unpushed>>
      /\ Start(d) /\ deploys' = deploys + 1 /\ deploys < MaxDeploys
  BY TypeParts DEF Deploy
<1>2. deploys' \in 0..MaxDeploys
  BY <1>1, DeploysAssumption DEF ProgressType
<1>3. ProgressType'
  BY <1>1, <1>2, StartType
<1>4. GenesisType' /\ ConvexType' /\ HostingType'
  BY <1>1 DEF genesisVars, hosting, GenesisType, ConvexType, HostingType
<1> QED
  BY <1>3, <1>4

LEMMA NextTargetType ==
  ASSUME ProgressType, NEW d \in Deployments, StepOf(d, "remove") \/ StepOf(d, "add"), NextTarget(d),
         good' \in [Deployments -> BOOLEAN], UNCHANGED deploys
  PROVE  ProgressType'
<1>1. left[d] \in Seq(Targets) /\ left[d] # <<>>
  BY DEF ProgressType, StepOf
<1>2. Tail(left[d]) \in Seq(Targets) /\ (Len(left[d]) > 1 => Tail(left[d]) # <<>>)
  <2>1. Tail(left[d]) \in Seq(Targets) /\ Len(Tail(left[d])) = Len(left[d]) - 1
    BY <1>1, HeadTailProperties
  <2>2. Len(left[d]) > 1 => Len(Tail(left[d])) # 0
    <3>1. Len(left[d]) \in Nat
      BY <1>1
    <3>2. \A n \in Nat : \A m : m = n - 1 /\ n > 1 => m # 0
      OBVIOUS
    <3> QED
      BY <2>1, <3>1, <3>2, Zenon
  <2>3. Len(<<>>) = 0
    OBVIOUS
  <2> QED
    BY <2>1, <2>2, <2>3
<1>3. at' = [at EXCEPT ![d] = AfterTarget(d)] /\ left' = [left EXCEPT ![d] = Tail(left[d])]
  BY DEF NextTarget, Goes
<1>4. /\ AfterTarget(d) \in DeploySteps /\ AfterTarget(d) # "add"
      /\ (AfterTarget(d) = "remove" => Tail(left[d]) # <<>>)
  BY <1>2 DEF AfterTarget, DeploySteps
<1> HIDE DEF AfterTarget
<1> QED
  BY <1>2, <1>3, <1>4 DEF ProgressType

LEMMA DeployingType ==
  ASSUME TypeInv, NEW d \in Deployments, Deploying(d)
  PROVE  (GenesisType /\ ConvexType /\ HostingType /\ ProgressType)'
<1>1. /\ GenesisType /\ ConvexType /\ HostingType /\ ProgressType
      /\ UNCHANGED genesisVars
  BY TypeParts DEF Deploying
<1>2. GenesisType' /\ apps' = apps
  BY <1>1 DEF genesisVars, GenesisType
<1>3. ASSUME NEW step \in (DeploySteps \ {"remove", "add"}) \cup {"done", "failed"}, Goes(d, step),
             UNCHANGED <<left, good, deploys>>
      PROVE  ProgressType'
  BY <1>1, <1>3 DEF Goes, ProgressType
<1>4. CASE Gate(d)
  BY <1>1, <1>2, <1>3, <1>4 DEF Gate, hosting, ConvexType, HostingType, DeploySteps
<1>5. CASE Revoke(d)
  <2>1. RevokedEnv(Config(d)) \in [Targets -> Tokens \cup {NoToken}]
    <3>1. \A t \in Targets : env[t].config = Config(d) => env[t] \in Tokens
      BY <1>1 DEF HostingType, NoToken, Config
    <3>2. \A t \in Targets : env[t] \in Tokens => [env[t] EXCEPT !.live = FALSE] \in Tokens
      BY DEF Tokens
    <3>3. \A t \in Targets : env[t] \in Tokens \cup {NoToken}
      BY <1>1 DEF HostingType
    <3>4. \A t \in Targets :
            (IF env[t].config = Config(d) THEN [env[t] EXCEPT !.live = FALSE] ELSE env[t]) \in Tokens \cup {NoToken}
      BY <3>1, <3>2, <3>3
    <3> QED
      BY <3>4, Zenon DEF RevokedEnv
  <2>2. "issue" \in DeploySteps \ {"remove", "add"}
    BY DEF DeploySteps
  <2> QED
    BY <1>1, <1>2, <1>3, <1>5, <2>1, <2>2 DEF Revoke, ConvexType, HostingType
<1>6. CASE Issue(d)
  <2>1. TargetsOf(d) \in Seq(Targets) /\ TargetsOf(d) # <<>>
    <3>1. {"development", "preview", "production"} \subseteq Targets
      BY DEF Targets
    <3>2. <<"development", "preview", "production">> \in Seq(Targets) /\ <<"production">> \in Seq(Targets)
      BY <3>1
    <3>3. <<"development", "preview", "production">> # <<>> /\ <<"production">> # <<>>
      OBVIOUS
    <3> QED
      BY <3>2, <3>3 DEF TargetsOf
  <2>2. ProgressType'
    BY <1>1, <1>6, <2>1 DEF Issue, Goes, ProgressType, DeploySteps
  <2> QED
    BY <1>1, <1>2, <1>6, <2>2 DEF Issue, hosting, ConvexType, HostingType
<1>7. CASE Remove(d) \/ Add(d)
  <2>1. NoToken \in Tokens \cup {NoToken} /\ [config |-> Config(d), live |-> TRUE] \in Tokens \cup {NoToken}
    BY DEF Config, Tokens, Configs
  <2>2. env' \in [Targets -> Tokens \cup {NoToken}]
    BY <1>1, <1>7, <2>1 DEF Remove, Add, HostingType
  <2>3. good' \in [Deployments -> BOOLEAN]
    BY <1>1, <1>7 DEF Remove, Add, TargetFails, ProgressType
  <2>4. ProgressType'
    <3>1. CASE NextTarget(d)
      BY <1>1, <1>7, <2>3, <3>1, NextTargetType DEF Remove, Add
    <3>2. CASE Remove(d) /\ Goes(d, "add") /\ UNCHANGED <<left, good>>
      <4>1. left[d] # <<>>
        BY <1>1, <3>2 DEF Remove, StepOf, ProgressType
      <4> QED
        BY <1>1, <3>2, <4>1 DEF Remove, Goes, ProgressType, DeploySteps
    <3> QED
      BY <1>7, <3>1, <3>2 DEF Remove, Add, TargetFails
  <2>5. UNCHANGED <<doppler, marker, convex, url, site, unpushed>>
    BY <1>7 DEF Remove, Add
  <2> QED
    BY <1>1, <1>2, <2>2, <2>4, <2>5 DEF ConvexType, HostingType
<1>8. CASE Sync(d)
  <2>1. doppler["frontend"] \in 0..apps
    BY <1>1 DEF ConvexType, Keys
  <2>2. convex' \in [issuer : 0..apps, provider : 0..apps, served : BOOLEAN, landed : BOOLEAN]
    BY <1>1, <1>8, <2>1 DEF Sync, Synced, SyncFailed, ConvexType
  <2>3. "serve" \in DeploySteps \ {"remove", "add"}
    BY DEF DeploySteps
  <2>4. ProgressType'
    BY <1>3, <1>8, <2>3 DEF Sync
  <2> QED
    BY <1>1, <1>2, <1>8, <2>2, <2>4 DEF Sync, hosting, ConvexType, HostingType
<1>9. CASE Serve(d)
  <2>1. convex' \in [issuer : 0..apps, provider : 0..apps, served : BOOLEAN, landed : BOOLEAN]
    BY <1>1, <1>2, <1>9, PushType DEF Serve, ConvexType
  <2>2. {"build", "mark"} \subseteq DeploySteps \ {"remove", "add"}
    BY DEF DeploySteps
  <2>3. ProgressType'
    BY <1>3, <1>9, <2>2 DEF Serve
  <2> QED
    BY <1>1, <1>2, <1>9, <2>1, <2>3 DEF Serve, hosting, ConvexType, HostingType
<1>10. CASE Mark(d)
  BY <1>1, <1>2, <1>3, <1>10 DEF Mark, hosting, ConvexType, HostingType, DeploySteps
<1>11. CASE Build(d)
  <2>1. Built(d) \in (DeploySteps \ {"remove", "add"}) \cup {"done", "failed"}
    BY DEF Built, DeploySteps
  <2>2. ProgressType'
    BY <1>3, <1>11, <2>1 DEF Build
  <2>3. site' \in Configs \cup {"none", "blank"}
    BY <1>1, <1>11 DEF Build, HostingType, Targets, Tokens, NoToken
  <2> QED
    BY <1>1, <1>2, <1>11, <2>2, <2>3 DEF Build, ConvexType, HostingType
<1>12. CASE d = "dev" /\ Summary
  BY <1>1, <1>2, <1>3, <1>12 DEF Summary, hosting, ConvexType, HostingType, DeploySteps
<1>13. CASE DeployDies(d)
  BY <1>1, <1>2, <1>3, <1>13 DEF DeployDies, hosting, ConvexType, HostingType, DeploySteps
<1> QED
  BY <1>4, <1>5, <1>6, <1>7, <1>8, <1>9, <1>10, <1>11, <1>12, <1>13 DEF Deploying, DeployStep

LEMMA TypeInvInductive == ASSUME TypeInv, [Next]_vars PROVE TypeInv'
<1>1. GenesisType /\ ConvexType /\ HostingType /\ ProgressType /\ FaultsType
  BY TypeParts
<1>2. FaultsType'
  BY <1>1, EveryStepFaults, FaultStepType
<1>3. ASSUME Checkout \/ Identity \/ Convex PROVE (HostingType /\ ProgressType)'
  BY <1>1, <1>3 DEF Checkout, Identity, Convex, hosting, progress, HostingType, ProgressType
<1>4. ASSUME Begin \/ Dies PROVE (GenesisType /\ ConvexType /\ HostingType /\ ProgressType)'
  <2>1. /\ pc' \in {"clone", "dead"}
        /\ UNCHANGED <<have, apps, shown, projects, secret, spare, protection, doppler, marker, convex, url,
                       hosting, unpushed, progress, deploys>>
    BY <1>4 DEF Begin, Dies, Goto
  <2>2. GenesisType' /\ ConvexType'
    BY <1>1, <2>1 DEF GenesisType, ConvexType, Steps, InInit
  <2>3. HostingType' /\ ProgressType'
    BY <1>1, <2>1 DEF HostingType, ProgressType, hosting, progress
  <2> QED
    BY <2>2, <2>3
<1>5. ASSUME UNCHANGED vars PROVE (GenesisType /\ ConvexType /\ HostingType /\ ProgressType)'
  <2>1. GenesisType' /\ ConvexType'
    BY <1>1, <1>5 DEF vars, genesisVars, deployVars, GenesisType, ConvexType
  <2>2. HostingType' /\ ProgressType'
    BY <1>1, <1>5 DEF vars, deployVars, hosting, progress, HostingType, ProgressType
  <2> QED
    BY <2>1, <2>2
<1>6. (GenesisType /\ ConvexType /\ HostingType /\ ProgressType)'
  BY <1>3, <1>4, <1>5, CheckoutType, IdentityType, ConvexStepType, GitHubType, DeployType, DeployingType
     DEF Next, GenesisRun
<1> QED
  BY <1>2, <1>6 DEF TypeInv, TypeOK, CountsInv, GenesisType, ConvexType, HostingType, ProgressType, FaultsType

(* Every variable of a product's genesis and deployments holds what its probe, *)
(* counter or resource can hold, in every instance.                            *)
THEOREM TypeCorrect == Spec => []TypeOK
<1>1. TypeInv => TypeOK
  BY DEF TypeInv
<1> QED
  BY <1>1, NothingAtFirst, TypeInvInductive, PTL DEF Spec

-----------------------------------------------------------------------------
(* How far a run got *)

(* The steps before one of them is past: what a run that got further has. *)
UpToInstall == {"new", "dead", "clone", "npm"}
UpToBootstrap == UpToInstall \cup {"bootstrap"}
UpToInit == UpToBootstrap \cup {"init", "create"} \cup InInit
UpToConfigure == UpToInit \cup {"backend", "setup", "retry", "configure"}
UpToServe == UpToConfigure \cup {"mirror", "sync", "serve", "sync-local"}
UpToScm == UpToServe \cup {"scm"}
UpToLink == UpToScm \cup {"ci", "revoke", "token", "secret", "link"}
UpToDeploy == UpToLink \cup {"push", "deploy"}

(* A run that got past a step has what the step makes: commands make it, find *)
(* it or end the run, and nothing takes it away again.                        *)
CheckoutReached ==
  /\ pc \notin UpToInstall => "files" \in have
  /\ pc \notin UpToBootstrap => {"deps", "pinned"} \subseteq have
  /\ pc \notin UpToScm => "origin" \in have
  /\ pc \notin UpToLink => "linked" \in have
KeysReached ==
  /\ pc \in {"sk", "frontend", "redirects"} => doppler["pk"] = apps
  /\ pc \notin UpToInit => doppler["pk"] # NoApp
  /\ pc \notin UpToConfigure => doppler["sk"] # NoApp /\ "local" \in url
  /\ pc \notin UpToServe => "doppler" \in url
SiteReached ==
  /\ at["dev"] \in {"summary", "done"} => site # "none"
  /\ at["dev"] = "done" => doppler["frontend"] # NoApp
  /\ pc \notin UpToDeploy => site # "none" /\ doppler["frontend"] # NoApp
  /\ Ready => protection = "full"
  /\ Running("dev") => pc \in {"deploy", "ready"}
ReachedInv == CheckoutReached /\ KeysReached /\ SiteReached

(* What a step of a deployment leaves alone, and where it goes. *)
LEMMA DeployingFrame ==
  ASSUME TypeInv, NEW d \in Deployments, Deploying(d)
  PROVE  /\ UNCHANGED <<genesisVars, doppler, url, deploys>>
         /\ \E step \in DeploySteps \cup {"done", "failed"} : at' = [at EXCEPT ![d] = step]
         /\ Running(d)
         /\ \A other \in Deployments \ {d} : at'[other] = at[other]
<1>1. UNCHANGED <<genesisVars, doppler, url, deploys>>
  BY DEF Deploying, DeployStep, DeployDies, Gate, Revoke, Issue, Remove, Add, Sync, Serve, Mark, Build, Summary
<1>2. Running(d) /\ \E step \in DeploySteps \cup {"done", "failed"} : at' = [at EXCEPT ![d] = step]
  <2>1. CASE Gate(d) \/ Revoke(d) \/ Issue(d)
    BY <2>1 DEF Gate, Revoke, Issue, Goes, StepOf, Running, DeploySteps
  <2>2. CASE Remove(d) \/ Add(d)
    <3>1. AfterTarget(d) \in DeploySteps /\ "add" \in DeploySteps /\ Running(d)
      BY <2>2 DEF AfterTarget, DeploySteps, Running, Remove, Add, StepOf
    <3> QED
      BY <2>2, <3>1 DEF Remove, Add, TargetFails, NextTarget, Goes
  <2>3. CASE Sync(d) \/ Serve(d) \/ Mark(d)
    BY <2>3 DEF Sync, Serve, Mark, Goes, StepOf, Running, DeploySteps
  <2>4. CASE Build(d)
    BY <2>4 DEF Build, Built, Goes, StepOf, Running, DeploySteps
  <2>5. CASE d = "dev" /\ Summary
    BY <2>5 DEF Summary, Goes, StepOf, Running, DeploySteps
  <2>6. CASE DeployDies(d)
    BY <2>6 DEF DeployDies, Goes
  <2> QED
    BY <2>1, <2>2, <2>3, <2>4, <2>5, <2>6 DEF Deploying, DeployStep
<1>3. \A other \in Deployments \ {d} : at'[other] = at[other]
  BY <1>2, TypeParts DEF ProgressType
<1> QED
  BY <1>1, <1>2, <1>3

(* Only a step of a deployment reads or writes the site. *)
LEMMA SiteStays ==
  ASSUME TypeInv, NEW d \in Deployments, Deploying(d)
  PROVE  /\ site # "none" => site' # "none"
         /\ at'[d] \in {"summary", "done"} => site' # "none" \/ (d = "dev" /\ at[d] = "summary" /\ site' = site)
         /\ d = "dev" /\ at'[d] = "done" => doppler["frontend"] # NoApp
<1>1. env["production"] \in Tokens \cup {NoToken} /\ at[d] \in DeploySteps
  BY TypeParts, DeployingFrame DEF HostingType, Targets, Running
<1>2. at \in [Deployments -> DeploySteps \cup {"idle", "done", "failed"}]
  BY TypeParts DEF ProgressType
<1>3. CASE Build(d)
  BY <1>1, <1>2, <1>3 DEF Build, Built, Goes, Tokens, Configs, NoToken, DeploySteps, StepOf
<1>4. CASE d = "dev" /\ Summary
  BY <1>1, <1>2, <1>4 DEF Summary, SummaryComplete, Goes, StepOf, hosting
<1>5. CASE Gate(d) \/ Revoke(d) \/ Issue(d) \/ Sync(d) \/ Serve(d) \/ Mark(d) \/ DeployDies(d)
  BY <1>1, <1>2, <1>5 DEF Gate, Revoke, Issue, Sync, Serve, Mark, DeployDies, Goes, StepOf, hosting
<1>6. CASE Remove(d) \/ Add(d)
  <2>1. AfterTarget(d) \in {"remove", "sync"}
    BY DEF AfterTarget
  <2> QED
    BY <1>1, <1>2, <1>6, <2>1 DEF Remove, Add, TargetFails, NextTarget, Goes
<1> QED
  BY <1>3, <1>4, <1>5, <1>6 DEF Deploying, DeployStep

(* What was made stays. *)
Grows ==
  /\ have \subseteq have' /\ url \subseteq url'
  /\ \A k \in Keys : doppler[k] # NoApp => doppler'[k] # NoApp
  /\ site # "none" => site' # "none"

LEMMA EveryStepGrows == ASSUME TypeInv, [Next]_vars PROVE Grows
<1>1. CASE Begin \/ Dies \/ UNCHANGED vars
  BY <1>1 DEF Begin, Dies, vars, genesisVars, deployVars, hosting, Grows
<1>2. CASE Checkout
  BY <1>2 DEF Checkout, Clone, CloneKilled, Install, InstallKilled, Bootstrap, Link, Making, hosting, Grows
<1>3. CASE Identity
  <2>1. UNCHANGED <<have, url, site>>
    BY <1>3 DEF Identity, hosting
  <2>2. \A k \in Keys : doppler[k] # NoApp => doppler'[k] # NoApp
    <3>1. CASE PushKey
      <4>1. apps # NoApp /\ doppler' = [doppler EXCEPT ![pc] = apps]
        BY <3>1 DEF PushKey, TypeInv, CountsInv, NoApp
      <4>2. doppler \in [Keys -> 0..apps]
        BY DEF TypeInv, TypeOK
      <4> QED
        BY <4>1, <4>2
    <3>2. CASE Probe \/ CreateApp \/ PushFails \/ InitKilled
      BY <3>2 DEF Probe, CreateApp, PushFails, InitKilled
    <3> QED
      BY <1>3, <3>1, <3>2 DEF Identity
  <2> QED
    BY <2>1, <2>2 DEF Grows
<1>4. CASE Convex
  BY <1>4 DEF Convex, Backend, Setup, NewProject, Retry, Configure, Mirror, ConfigureSync, ConfigurePush,
              SyncLocal,
              hosting, Grows
<1>5. CASE GitHub
  BY <1>5 DEF GitHub, CreateRepo, CiProbe, CiRevoke, CiToken, CiSecret, PushMain, DeployEnds, Lockdown,
              Contexts, hosting, Grows
<1>6. ASSUME NEW d \in Deployments, Deploy(d) PROVE Grows
  BY <1>6 DEF Deploy, genesisVars, hosting, Grows
<1>7. ASSUME NEW d \in Deployments, Deploying(d) PROVE Grows
  BY <1>7, DeployingFrame, SiteStays DEF genesisVars, Grows
<1> QED
  BY <1>1, <1>2, <1>3, <1>4, <1>5, <1>6, <1>7 DEF Next, GenesisRun

LEMMA NothingReached == Init => ReachedInv
  BY DEF Init, DeployInit, ReachedInv, CheckoutReached, KeysReached, SiteReached, UpToInstall, UpToBootstrap,
         UpToInit, UpToConfigure, UpToServe, UpToScm, UpToLink, UpToDeploy, Ready, Running, DeploySteps, Deployments

(* When a deployment or nothing moves, or a run starts or ends, no run gets    *)
(* further.                                                                    *)
LEMMA NotFurther ==
  ASSUME TypeInv, ReachedInv, Grows, pc' \in {pc, "clone", "dead"}, UNCHANGED apps, UNCHANGED protection,
         pc' \in {"sk", "frontend", "redirects"} => UNCHANGED doppler
  PROVE  /\ CheckoutReached' /\ KeysReached'
         /\ pc' \notin UpToDeploy => site' # "none" /\ doppler'["frontend"] # NoApp
         /\ Ready' => protection' = "full"
<1>1. {"clone", "dead"} \subseteq UpToInstall /\ {"clone", "dead"} \cap {"sk", "frontend", "redirects",
                                                                         "ready"} = {}
      /\ {"pk", "sk", "frontend"} \subseteq Keys
  BY DEF UpToInstall, Keys
<1>2. UpToInstall \subseteq UpToBootstrap /\ UpToInstall \subseteq UpToInit /\ UpToInstall \subseteq UpToConfigure
      /\ UpToInstall \subseteq UpToServe /\ UpToInstall \subseteq UpToScm /\ UpToInstall \subseteq UpToLink
      /\ UpToInstall \subseteq UpToDeploy
  BY DEF UpToBootstrap, UpToInit, UpToConfigure, UpToServe, UpToScm, UpToLink, UpToDeploy
<1>3. CheckoutReached'
  BY <1>1, <1>2 DEF ReachedInv, CheckoutReached, Grows
<1>4. KeysReached'
  BY <1>1, <1>2 DEF ReachedInv, KeysReached, Grows
<1> QED
  BY <1>1, <1>2, <1>3, <1>4 DEF ReachedInv, SiteReached, Grows, Ready

LEMMA CheckoutReaches ==
  ASSUME TypeInv, ReachedInv, Grows, Checkout \/ Identity \/ Convex \/ GitHub
  PROVE  CheckoutReached'
<1>1. CASE Checkout
  BY <1>1 DEF Checkout, Clone, CloneKilled, Install, InstallKilled, Bootstrap, Link, Making, Goto, ReachedInv,
              CheckoutReached, UpToInstall, UpToBootstrap, UpToInit, UpToConfigure, UpToServe, UpToScm, UpToLink, InInit
<1>2. CASE Identity
  <2>1. pc \in {"init", "create"} \cup InInit /\ pc' \in {"create", "backend",
                                                          "dead"} \cup InInit /\ UNCHANGED have
    BY <1>2, KeysType DEF Identity, Probe, CreateApp, PushKey, PushFails, InitKilled, Goto, InInit
  <2> QED
    BY <2>1 DEF ReachedInv, CheckoutReached, UpToInstall, UpToBootstrap, UpToInit, UpToConfigure, UpToServe,
                UpToScm,
                UpToLink, InInit
<1>3. CASE Convex
  <2>1. pc \in {"backend", "setup", "retry", "configure", "mirror", "sync", "serve",
                "sync-local"} /\ UNCHANGED have
    BY <1>3 DEF Convex, Backend, Setup, Retry, Configure, Mirror, ConfigureSync, ConfigurePush, SyncLocal
  <2>2. pc' \in {"setup", "retry", "configure", "mirror", "sync", "serve", "sync-local", "scm", "dead"}
    BY <1>3 DEF Convex, Backend, Setup, Retry, Configure, Mirror, ConfigureSync, ConfigurePush, SyncLocal, Goto
  <2> QED
    BY <2>1, <2>2 DEF ReachedInv, CheckoutReached, UpToInstall, UpToBootstrap, UpToInit, UpToConfigure,
                      UpToServe, UpToScm,
                UpToLink, InInit
<1>4. CASE GitHub
  <2>1. CASE CreateRepo
    BY <2>1 DEF CreateRepo, Goto, ReachedInv, CheckoutReached, UpToInstall, UpToBootstrap, UpToInit,
                UpToConfigure,
                UpToServe, UpToScm, UpToLink, InInit
  <2>2. CASE CiProbe \/ CiRevoke \/ CiToken \/ CiSecret
    BY <2>2 DEF CiProbe, CiRevoke, CiToken, CiSecret, Goto, ReachedInv, CheckoutReached, UpToInstall,
                UpToBootstrap,
                UpToInit, UpToConfigure, UpToServe, UpToScm, UpToLink, InInit
  <2>3. CASE PushMain \/ DeployEnds \/ Lockdown \/ Contexts
    BY <2>3 DEF PushMain, DeployEnds, Lockdown, Contexts, Goto, ReachedInv, CheckoutReached, UpToInstall,
                UpToBootstrap,
                UpToInit, UpToConfigure, UpToServe, UpToScm, UpToLink, InInit
  <2> QED
    BY <1>4, <2>1, <2>2, <2>3 DEF GitHub
<1> QED
  BY <1>1, <1>2, <1>3, <1>4

LEMMA KeysReach ==
  ASSUME TypeInv, ReachedInv, Grows, Checkout \/ Identity \/ Convex \/ GitHub
  PROVE  KeysReached'
<1>0. {"pk", "sk", "frontend"} \subseteq Keys /\ doppler \in [Keys -> 0..apps]
  BY DEF Keys, TypeInv, TypeOK
<1>1. CASE Checkout
  <2>1. UNCHANGED <<doppler, url, apps>> /\ pc \in {"clone", "npm", "bootstrap", "link"}
        /\ pc' \in IF pc = "link" THEN {"push"} ELSE {"npm", "bootstrap", "init", "dead"}
    BY <1>1 DEF Checkout, Clone, CloneKilled, Install, InstallKilled, Bootstrap, Link, Making, Goto
  <2> QED
    BY <2>1 DEF ReachedInv, KeysReached, UpToInstall, UpToBootstrap, UpToInit, UpToConfigure, UpToServe, InInit
<1>2. CASE Identity
  <2>1. pc \in {"init", "create"} \cup InInit /\ UNCHANGED url
    BY <1>2 DEF Identity, Probe, CreateApp, PushKey, PushFails, InitKilled
  <2>2. CASE Probe
    BY <2>2 DEF Probe, HasApp, Goto, KeysReached, UpToInstall, UpToBootstrap, UpToInit, UpToConfigure,
                UpToServe, InInit
  <2>3. CASE CreateApp \/ PushFails \/ InitKilled
    BY <2>3 DEF CreateApp, PushFails, InitKilled, Goto, KeysReached, UpToInstall, UpToBootstrap, UpToInit,
                UpToConfigure,
                UpToServe, InInit
  <2>4. CASE PushKey
    <3>1. doppler' = [doppler EXCEPT ![pc] = apps] /\ pc' = NextKey[pc] /\ apps' = apps
          /\ apps # NoApp /\ pc \in InInit
      BY <2>4 DEF PushKey, Goto, TypeInv, CountsInv, NoApp
    <3>2. doppler'["pk"] = apps
      BY <1>0, <3>1 DEF InInit, ReachedInv, KeysReached
    <3>3. pc' \in {"sk", "frontend", "redirects", "backend"}
      BY <3>1, KeysType DEF InInit
    <3> QED
      BY <3>1, <3>2, <3>3 DEF KeysReached, UpToInstall, UpToBootstrap, UpToInit, UpToConfigure, UpToServe,
                              InInit
  <2> QED
    BY <1>2, <2>2, <2>3, <2>4 DEF Identity
<1>3. CASE Convex
  <2>1. UNCHANGED <<apps, doppler>>
    BY <1>3 DEF Convex
  <2>2. CASE Backend \/ Configure \/ Mirror \/ SyncLocal
    BY <2>1, <2>2 DEF Backend, Configure, Mirror, SyncLocal, Goto, ReachedInv, KeysReached, UpToInstall,
                      UpToBootstrap,
                      UpToInit, UpToConfigure, UpToServe, InInit
  <2>3. CASE Setup \/ Retry \/ ConfigureSync \/ ConfigurePush
    <3>1. /\ pc \in {"setup", "retry", "sync", "serve"}
          /\ pc' \in IF pc \in {"setup", "retry"} THEN {"configure", "retry", "dead"} ELSE {"serve",
                                                                                            "sync-local", "dead"}
      BY <2>3 DEF Setup, Retry, ConfigureSync, ConfigurePush, Goto
    <3> QED
      BY <2>1, <3>1 DEF Grows, ReachedInv, KeysReached, UpToInstall, UpToBootstrap, UpToInit, UpToConfigure,
                        UpToServe, InInit
  <2> QED
    BY <1>3, <2>2, <2>3 DEF Convex
<1>4. CASE GitHub
  <2>1. UNCHANGED <<doppler, url, apps>> /\ pc \notin UpToServe
    BY <1>4 DEF GitHub, CreateRepo, CiProbe, CiRevoke, CiToken, CiSecret, PushMain, DeployEnds, Lockdown,
                Contexts,
                UpToInstall, UpToBootstrap, UpToInit, UpToConfigure, UpToServe, InInit
  <2>2. pc' \notin {"sk", "frontend", "redirects"}
    BY <1>4 DEF GitHub, CreateRepo, CiProbe, CiRevoke, CiToken, CiSecret, PushMain, DeployEnds, Lockdown,
                Contexts, Goto
  <2>3. UpToInit \subseteq UpToServe /\ UpToConfigure \subseteq UpToServe
    BY DEF UpToConfigure, UpToServe
  <2> QED
    BY <2>1, <2>2, <2>3 DEF ReachedInv, KeysReached
<1> QED
  BY <1>1, <1>2, <1>3, <1>4

LEMMA GenesisSite ==
  ASSUME TypeInv, ReachedInv, Grows, Checkout \/ Identity \/ Convex \/ GitHub
  PROVE  SiteReached'
<1>0. {"pk", "sk", "frontend"} \subseteq Keys /\ doppler \in [Keys -> 0..apps] /\ "dev" \in Deployments
  BY DEF Keys, TypeInv, TypeOK, Deployments
<1>1. CASE Checkout \/ Identity \/ Convex
  <2>1. /\ pc \in UpToLink \ {"scm", "ci", "revoke", "token", "secret"} /\ pc' \in UpToLink \cup {"push"}
        /\ UNCHANGED <<at, protection>>
    <3>1. CASE Checkout
      BY <3>1 DEF Checkout, Clone, CloneKilled, Install, InstallKilled, Bootstrap, Link, Making, Goto, progress,
                  UpToInstall, UpToBootstrap, UpToInit, UpToConfigure, UpToServe, UpToScm, UpToLink, InInit
    <3>2. CASE Identity
      BY <3>2, KeysType
         DEF Identity, Probe, CreateApp, PushKey, PushFails, InitKilled, Goto, progress,
             UpToInstall, UpToBootstrap, UpToInit, UpToConfigure, UpToServe, UpToScm, UpToLink, InInit
    <3>3. CASE Convex
      BY <3>3 DEF Convex, Backend, Setup, Retry, Configure, Mirror, ConfigureSync, ConfigurePush, SyncLocal,
                  Goto, progress,
                  UpToInstall, UpToBootstrap, UpToInit, UpToConfigure, UpToServe, UpToScm, UpToLink, InInit
    <3> QED
      BY <1>1, <3>1, <3>2, <3>3
  <2>2. pc \notin {"deploy", "ready"} /\ pc' \in UpToDeploy /\ pc' # "ready"
    BY <2>1 DEF UpToInstall, UpToBootstrap, UpToInit, UpToConfigure, UpToServe, UpToScm, UpToLink,
                UpToDeploy, InInit
  <2> QED
    BY <1>0, <2>1, <2>2 DEF Grows, ReachedInv, SiteReached, Ready, Running
<1>2. CASE GitHub
  <2>0. UNCHANGED <<doppler, site>>
    BY <1>2 DEF GitHub, hosting
  <2>1. CASE CreateRepo \/ CiProbe \/ CiRevoke \/ CiToken \/ CiSecret
    <3>1. pc \in {"scm", "ci", "revoke", "token", "secret"} /\ pc' \in {"ci", "revoke", "token", "secret",
                                                                        "link", "dead"}
          /\ UNCHANGED at
      BY <2>1 DEF CreateRepo, CiProbe, CiRevoke, CiToken, CiSecret, Goto, progress
    <3>2. pc' \in UpToDeploy /\ pc' # "ready" /\ pc \notin {"deploy", "ready"}
      BY <3>1 DEF UpToInstall, UpToScm, UpToServe, UpToConfigure, UpToInit, UpToBootstrap, UpToLink, UpToDeploy
    <3> QED
      BY <2>0, <3>1, <3>2 DEF ReachedInv, SiteReached, Ready, Running
  <2>2. CASE PushMain
    <3>1. pc = "push" /\ pc' \in {"dead",
                                  "deploy"} /\ (pc' = "dead" => UNCHANGED at) /\ (pc' = "deploy" => Start("dev"))
      BY <2>2 DEF PushMain, Goto, progress
    <3>2. pc' \in UpToDeploy /\ pc' # "ready"
      BY <3>1 DEF UpToInstall, UpToScm, UpToServe, UpToConfigure, UpToInit, UpToBootstrap, UpToLink, UpToDeploy
    <3>3. pc' = "deploy" => at'["dev"] = "gate"
      BY <1>0, <3>1, TypeParts DEF Start, Goes, ProgressType
    <3> QED
      BY <2>0, <3>1, <3>2, <3>3 DEF ReachedInv, SiteReached, Ready, Running, DeploySteps
  <2>3. CASE DeployEnds \/ Lockdown \/ Contexts
    <3>1. UNCHANGED at
      BY <2>3 DEF DeployEnds, Lockdown, Contexts, progress
    <3> QED
      BY <2>0, <2>3, <3>1 DEF DeployEnds, Lockdown, Contexts, Goto, ReachedInv, SiteReached, Ready, Running,
                         UpToInstall, UpToScm, UpToServe, UpToConfigure, UpToInit, UpToBootstrap, UpToLink, UpToDeploy, InInit
  <2> QED
    BY <1>2, <2>1, <2>2, <2>3 DEF GitHub
<1> QED
  BY <1>1, <1>2

LEMMA ReachedInvInductive == ASSUME TypeInv, ReachedInv, [Next]_vars PROVE ReachedInv'
<1>0. Grows /\ "dev" \in Deployments /\ at \in [Deployments -> DeploySteps \cup {"idle", "done", "failed"}]
  BY EveryStepGrows DEF Deployments, TypeInv, TypeOK
<1>1. CASE GenesisRun
  BY <1>0, <1>1, CheckoutReaches, KeysReach, GenesisSite DEF GenesisRun, ReachedInv
<1>2. CASE Begin \/ Dies \/ UNCHANGED vars
  <2>1. /\ pc' \in {pc, "clone", "dead"} /\ (Running("dev") => pc' = pc) /\ (pc' = "ready" => pc = "ready")
        /\ UNCHANGED <<apps, protection, doppler, at, site>>
    BY <1>2 DEF Begin, Dies, Goto, vars, genesisVars, deployVars, progress, hosting, ReachedInv,
                SiteReached, Steps, Working
  <2>2. SiteReached'
    BY <1>0, <2>1, NotFurther DEF ReachedInv, SiteReached, Running
  <2> QED
    BY <1>0, <2>1, <2>2, NotFurther DEF ReachedInv
<1>3. ASSUME NEW d \in Deployments, Deploy(d) PROVE ReachedInv'
  <2>1. UNCHANGED <<genesisVars, doppler, site>> /\ pc = "ready" /\ at' = [at EXCEPT ![d] = "gate"]
    BY <1>3 DEF Deploy, Start, Goes, hosting
  <2>2. at'["dev"] \in {at["dev"], "gate"}
    BY <1>0, <2>1
  <2>3. CheckoutReached' /\ KeysReached' /\ (Ready' => protection' = "full")
    BY <1>0, <2>1, NotFurther DEF genesisVars
  <2> QED
    BY <2>1, <2>2, <2>3 DEF genesisVars, ReachedInv, SiteReached, Running, Ready
<1>4. ASSUME NEW d \in Deployments, Deploying(d) PROVE ReachedInv'
  <2>1. UNCHANGED <<genesisVars, doppler>> /\ Running(d)
        /\ (d # "dev" => at'["dev"] = at["dev"])
    BY <1>0, <1>4, DeployingFrame
  <2>2. /\ CheckoutReached' /\ KeysReached' /\ (Ready' => protection' = "full")
        /\ pc' \notin UpToDeploy => site' # "none" /\ doppler'["frontend"] # NoApp
    BY <1>0, <2>1, NotFurther DEF genesisVars
  <2>3. /\ at'["dev"] \in {"summary", "done"} => site' # "none"
        /\ at'["dev"] = "done" => doppler'["frontend"] # NoApp
    BY <1>0, <1>4, <2>1, SiteStays DEF ReachedInv, SiteReached, Grows
  <2>4. Running("dev")' => pc' \in {"deploy", "ready"}
    BY <2>1 DEF genesisVars, ReachedInv, SiteReached, Running
  <2> QED
    BY <2>2, <2>3, <2>4 DEF ReachedInv, SiteReached
<1> QED
  BY <1>1, <1>2, <1>3, <1>4 DEF Next

-----------------------------------------------------------------------------
(* Which part of genesis makes what *)

LEMMA OnlyIdentityMakesKeys ==
  ASSUME TypeInv, [Next]_vars, ~Identity
  PROVE  UNCHANGED <<doppler, apps, shown>> /\ (pc' \in {"create"} \cup InInit => pc' = pc)
<1>1. CASE Begin \/ Dies \/ UNCHANGED vars
  BY <1>1 DEF Begin, Dies, Goto, InInit, vars, genesisVars, deployVars
<1>2. CASE Checkout
  BY <1>2 DEF Checkout, Clone, CloneKilled, Install, InstallKilled, Bootstrap, Link, Making, Goto, InInit
<1>3. CASE Convex
  BY <1>3 DEF Convex, Backend, Setup, Retry, Configure, Mirror, ConfigureSync, ConfigurePush, SyncLocal,
              Goto, InInit
<1>4. CASE GitHub
  BY <1>4 DEF GitHub, CreateRepo, CiProbe, CiRevoke, CiToken, CiSecret, PushMain, DeployEnds, Lockdown,
              Contexts,
              Goto, InInit
<1>5. ASSUME NEW d \in Deployments, Deploy(d) \/ Deploying(d)
      PROVE  UNCHANGED <<genesisVars, doppler>>
  BY <1>5, DeployingFrame DEF Deploy
<1> QED
  BY <1>1, <1>2, <1>3, <1>4, <1>5 DEF Next, GenesisRun, genesisVars

LEMMA OnlyConvexMakesProjects ==
  ASSUME TypeInv, [Next]_vars, ~Convex
  PROVE  UNCHANGED <<url, projects>> /\ (pc' = "setup" => pc' = pc)
<1>1. CASE Begin \/ Dies \/ UNCHANGED vars
  BY <1>1 DEF Begin, Dies, Goto, vars, genesisVars, deployVars
<1>2. CASE Checkout
  BY <1>2 DEF Checkout, Clone, CloneKilled, Install, InstallKilled, Bootstrap, Link, Making, Goto
<1>3. CASE Identity
  BY <1>3, KeysType DEF Identity, Probe, CreateApp, PushKey, PushFails, InitKilled, Goto, InInit
<1>4. CASE GitHub
  BY <1>4 DEF GitHub, CreateRepo, CiProbe, CiRevoke, CiToken, CiSecret, PushMain, DeployEnds, Lockdown,
              Contexts, Goto
<1>5. ASSUME NEW d \in Deployments, Deploy(d) \/ Deploying(d)
      PROVE  UNCHANGED <<genesisVars, url>>
  BY <1>5, DeployingFrame DEF Deploy
<1> QED
  BY <1>1, <1>2, <1>3, <1>4, <1>5 DEF Next, GenesisRun, genesisVars

(* The steps at which the secret may still be missing. *)
UpToSecret == UpToLink \ {"link"}

LEMMA OnlyGitHubMakesTokens ==
  ASSUME TypeInv, [Next]_vars, ~GitHub
  PROVE  /\ UNCHANGED <<secret, spare, protection>>
         /\ pc' \in {"revoke", "token", "secret", "lockdown", "contexts", "deploy", "ready"} => pc' = pc
         /\ pc' \notin UpToSecret => pc \notin UpToSecret
<1>0. {"clone", "npm", "bootstrap", "init", "create", "backend", "setup", "retry", "configure", "mirror",
       "sync", "serve",
       "sync-local", "scm", "dead"} \cup InInit \subseteq UpToSecret
  BY DEF UpToSecret, UpToLink, UpToScm, UpToServe, UpToConfigure, UpToInit, UpToBootstrap, UpToInstall, InInit
<1>1. CASE Begin \/ Dies \/ UNCHANGED vars
  BY <1>0, <1>1 DEF Begin, Dies, Goto, vars, genesisVars
<1>2. CASE Checkout
  <2>1. pc' \in {"npm", "bootstrap", "init", "dead"} \/ (pc = "link" /\ pc' = "push")
    BY <1>2 DEF Checkout, Clone, CloneKilled, Install, InstallKilled, Bootstrap, Link, Making, Goto
  <2>2. "link" \notin UpToSecret
    BY DEF UpToSecret
  <2> QED
    BY <1>0, <1>2, <2>1, <2>2 DEF Checkout
<1>3. CASE Identity
  <2>1. pc' \in {"backend", "create", "dead"} \cup InInit
    BY <1>3, KeysType DEF Identity, Probe, CreateApp, PushKey, PushFails, InitKilled, Goto, InInit
  <2>2. InInit \cap {"revoke", "token", "secret", "lockdown", "contexts", "deploy", "ready"} = {}
    BY DEF InInit
  <2> QED
    BY <1>0, <1>3, <2>1, <2>2 DEF Identity
<1>4. CASE Convex
  <2>1. pc' \in {"setup", "retry", "configure", "mirror", "sync", "serve", "sync-local", "scm", "dead"}
    BY <1>4 DEF Convex, Backend, Setup, Retry, Configure, Mirror, ConfigureSync, ConfigurePush, SyncLocal, Goto
  <2> QED
    BY <1>0, <1>4, <2>1 DEF Convex
<1>5. ASSUME NEW d \in Deployments, Deploy(d) \/ Deploying(d)
      PROVE  UNCHANGED genesisVars
  BY <1>5, DeployingFrame DEF Deploy
<1> QED
  BY <1>1, <1>2, <1>3, <1>4, <1>5 DEF Next, GenesisRun, genesisVars

(* Without its kind of disturbance after a step there was none before, and the *)
(* step is none.                                                               *)
LEMMA Undisturbed ==
  ASSUME TypeInv, [Next]_vars, NEW kinds \in SUBSET Events, ~Happened(kinds)'
  PROVE  ~Happened(kinds) /\ \A kind \in kinds : ~Fault(kind)
<1>1. FaultsType /\ FaultStep
  BY TypeParts, EveryStepFaults
<1>2. ~Happened(kinds)
  BY <1>1, FaultStepType
<1>3. ASSUME NEW kind \in kinds, Fault(kind) PROVE FALSE
  <2>1. faults'[kind] > 0
    BY <1>1, <1>3, FaultType DEF FaultsType
  <2> QED
    BY <2>1 DEF Happened
<1> QED
  BY <1>2, <1>3

-----------------------------------------------------------------------------
(* One application, one project *)

Misled == Happened({"probe-fails"})

(* The keys in Doppler are of one application, and those a run still has to    *)
(* push are not there yet: it makes an application only where there is no key. *)
KeysInv ==
  /\ \A k \in Keys : doppler[k] # NoApp => doppler[k] = doppler["pk"]
  /\ pc \in {"create", "pk"} => doppler["pk"] = NoApp
  /\ pc = "sk" => doppler["sk"] = NoApp
  /\ pc \in {"sk", "frontend"} => doppler["frontend"] = NoApp
  /\ pc \in {"sk", "frontend", "redirects"} => doppler["redirects"] = NoApp
  /\ pc = "setup" => url = {}

LEMMA NoKeysAtFirst == Init => KeysInv
  BY DEF Init, DeployInit, KeysInv, Keys

LEMMA KeysInvInductive ==
  ASSUME TypeInv, ReachedInv, KeysInv, [Next]_vars, ~Misled'
  PROVE  KeysInv'
<1>0. ~Fault("probe-fails") /\ doppler \in [Keys -> 0..apps] /\ {"pk", "sk", "frontend", "redirects"} = Keys
  BY Undisturbed DEF Misled, Events, TypeInv, TypeOK, Keys
<1>1. pc' = "setup" => url' = {}
  <2>1. CASE Convex
    BY <1>0, <2>1 DEF Convex, Backend, HasProject, Setup, Retry, Configure, Mirror, ConfigureSync,
                      ConfigurePush, SyncLocal,
                      Goto
  <2> QED
    BY <2>1, OnlyConvexMakesProjects DEF KeysInv
<1>2. CASE Probe \/ CreateApp \/ PushFails \/ InitKilled
  <2>1. /\ UNCHANGED doppler /\ pc' \in {"backend", "create", "pk", "dead"}
        /\ (pc' \in {"create", "pk"} => doppler["pk"] = NoApp)
    BY <1>0, <1>2 DEF Probe, HasApp, CreateApp, PushFails, InitKilled, Goto, KeysInv
  <2> QED
    BY <1>0, <1>1, <2>1 DEF KeysInv
<1>3. CASE PushKey
  <2>1. doppler' = [doppler EXCEPT ![pc] = apps] /\ pc' = NextKey[pc] /\ apps # NoApp
    BY <1>3 DEF PushKey, Goto, TypeInv, CountsInv, NoApp
  <2>2. CASE pc = "pk"
    BY <1>0, <1>1, <2>1, <2>2, KeysType DEF KeysInv
  <2>3. CASE pc \in {"sk", "frontend", "redirects"}
    <3>1. doppler["pk"] = apps
      BY <2>3 DEF ReachedInv, KeysReached
    <3> QED
      BY <1>0, <1>1, <2>1, <2>3, <3>1, KeysType DEF KeysInv
  <2> QED
    BY <1>3, <2>2, <2>3 DEF PushKey, InInit
<1>4. CASE ~Identity
  BY <1>1, <1>4, OnlyIdentityMakesKeys DEF KeysInv, InInit
<1> QED
  BY <1>2, <1>3, <1>4 DEF Identity

(* GitHub has the token that was made last, and there is no other: what an     *)
(* earlier attempt left is revoked before the next one is made.                *)
TokenInv ==
  /\ pc \notin UpToSecret => secret = "live"
  /\ pc \in {"revoke", "token", "secret"} => secret = "none"
  /\ pc = "token" => spare = 0
  /\ pc = "secret" => spare = 1
  /\ secret = "live" => spare = 0
  /\ secret # "revoked"

LEMMA NoTokenAtFirst == Init => TokenInv
  BY DEF Init, TokenInv, UpToSecret, UpToLink, UpToScm, UpToServe, UpToConfigure, UpToInit, UpToBootstrap,
         UpToInstall

LEMMA TokenInvInductive ==
  ASSUME TypeInv, TokenInv, [Next]_vars, ~Misled'
  PROVE  TokenInv'
<1>0. ~Fault("probe-fails") /\ secret \in {"none", "live", "revoked"} /\ spare \in Nat
  BY Undisturbed DEF Misled, Events, TypeInv, TypeOK
<1>1. {"ci", "revoke", "token", "secret", "dead", "scm"} \subseteq UpToSecret /\ "link" \notin UpToSecret
      /\ {"push", "deploy", "lockdown", "contexts", "ready"} \cap UpToSecret = {}
  BY DEF UpToSecret, UpToLink, UpToScm, UpToServe, UpToConfigure, UpToInit, UpToBootstrap, UpToInstall, InInit
<1>2. CASE CreateRepo \/ CiProbe
  BY <1>0, <1>1, <1>2 DEF CreateRepo, CiProbe, Goto, TokenInv
<1>3. CASE CiRevoke \/ CiToken \/ CiSecret
  BY <1>0, <1>1, <1>3 DEF CiRevoke, CiToken, CiSecret, Goto, TokenInv
<1>4. CASE PushMain \/ DeployEnds \/ Lockdown \/ Contexts
  BY <1>1, <1>4 DEF PushMain, DeployEnds, Lockdown, Contexts, Goto, TokenInv
<1>5. CASE ~GitHub
  BY <1>5, OnlyGitHubMakesTokens DEF TokenInv
<1> QED
  BY <1>2, <1>3, <1>4, <1>5 DEF GitHub

-----------------------------------------------------------------------------
(* Log in *)

(* The Convex deployment is as the last push left it: it has the application   *)
(* of the product's keys for issuer, and the auth provider of a push that      *)
(* landed is that issuer.  A dev deployment writes no marker.                  *)
Settled ==
  /\ convex.served /\ convex.issuer = doppler["frontend"]
  /\ convex.landed => convex.provider = convex.issuer
ProviderInv ==
  /\ at["dev"] # "mark"
  /\ at["dev"] = "serve" => convex.issuer = doppler["frontend"]
  /\ pc = "deploy" /\ at["dev"] \in {"build", "summary", "done"} => Settled
  /\ pc \in {"lockdown", "contexts", "ready"} => Settled

LEMMA NoProviderAtFirst == Init => ProviderInv
  BY DEF Init, DeployInit, ProviderInv, Deployments

LEMMA PushSettles ==
  ASSUME ConvexType, Push, convex.issuer = doppler["frontend"], UNCHANGED doppler
  PROVE  /\ convex'.issuer = doppler'["frontend"]
         /\ convex'.landed => convex'.provider = convex'.issuer
         /\ convex.served => convex'.served
<1>1. CASE Pushed
  BY <1>1 DEF Pushed, ConvexType
<1>2. CASE PushLost
  BY <1>2 DEF PushLost, ConvexType
<1> QED
  BY <1>1, <1>2 DEF Push

LEMMA ProviderInvInductive ==
  ASSUME TypeInv, ReachedInv, ProviderInv, [Next]_vars
  PROVE  ProviderInv'
<1>0. /\ ConvexType /\ at \in [Deployments -> DeploySteps \cup {"idle", "done",
                                                                "failed"}] /\ "dev" \in Deployments
      /\ "frontend" \in Keys
  BY TypeParts DEF ProgressType, Deployments, Keys
<1>1. CASE Begin \/ Dies \/ UNCHANGED vars
  <2>1. pc' \in {pc, "clone", "dead"} /\ UNCHANGED <<convex, doppler, at>>
    BY <1>1 DEF Begin, Dies, Goto, vars, genesisVars, deployVars, progress
  <2> QED
    BY <2>1 DEF ProviderInv, Settled
<1>2. CASE Checkout \/ Identity \/ Convex
  <2>1. pc' \notin {"deploy", "lockdown", "contexts", "ready"} /\ UNCHANGED at /\ pc \notin {"deploy", "ready"}
    <3>1. CASE Checkout
      BY <3>1 DEF Checkout, Clone, CloneKilled, Install, InstallKilled, Bootstrap, Link, Making, Goto, progress
    <3>2. CASE Identity
      BY <3>2, KeysType DEF Identity, Probe, CreateApp, PushKey, PushFails, InitKilled, Goto, progress, InInit
    <3>3. CASE Convex
      BY <3>3 DEF Convex, Backend, Setup, Retry, Configure, Mirror, ConfigureSync, ConfigurePush, SyncLocal,
                  Goto, progress
    <3> QED
      BY <1>2, <3>1, <3>2, <3>3
  <2>2. at["dev"] # "serve"
    BY <2>1 DEF ReachedInv, SiteReached, Running, DeploySteps
  <2> QED
    BY <2>1, <2>2 DEF ProviderInv
<1>3. CASE GitHub
  <2>0. UNCHANGED <<convex, doppler>>
    BY <1>3 DEF GitHub
  <2>1. CASE PushMain
    <3>1. (pc' = "dead" /\ UNCHANGED at) \/ (pc' = "deploy" /\ Start("dev"))
      BY <2>1 DEF PushMain, Goto, progress
    <3>2. Start("dev") => at'["dev"] = "gate"
      BY <1>0 DEF Start, Goes
    <3> QED
      BY <2>0, <3>1, <3>2 DEF ProviderInv
  <2>2. CASE CreateRepo \/ CiProbe \/ CiRevoke \/ CiToken \/ CiSecret
    BY <2>0, <2>2 DEF CreateRepo, CiProbe, CiRevoke, CiToken, CiSecret, Goto, progress, ProviderInv
  <2>3. CASE DeployEnds \/ Lockdown \/ Contexts
    <3>1. /\ pc \in {"deploy", "lockdown", "contexts"} /\ UNCHANGED at
          /\ pc' \in {"dead", "lockdown", "contexts",
                      "ready"} /\ (pc = "deploy" /\ pc' # "dead" => at["dev"] = "done")
      BY <2>3 DEF DeployEnds, Lockdown, Contexts, Goto, progress
    <3> QED
      BY <2>0, <3>1 DEF ProviderInv, Settled
  <2> QED
    BY <1>3, <2>1, <2>2, <2>3 DEF GitHub
<1>4. ASSUME NEW d \in Deployments, Deploy(d) PROVE ProviderInv'
  <2>1. UNCHANGED <<pc, doppler, convex>> /\ pc = "ready" /\ at' = [at EXCEPT ![d] = "gate"]
    BY <1>4 DEF Deploy, Start, Goes, genesisVars
  <2>2. at'["dev"] \in {at["dev"], "gate"}
    BY <1>0, <2>1
  <2> QED
    BY <2>1, <2>2 DEF ProviderInv, Settled
<1>5. ASSUME Deploying("prod") PROVE ProviderInv'
  <2>1. "prod" \in Deployments /\ "prod" # "dev"
    BY DEF Deployments
  <2>2. UNCHANGED <<pc, doppler>> /\ at'["dev"] = at["dev"]
    BY <1>0, <1>5, <2>1, DeployingFrame DEF genesisVars
  <2>3. UNCHANGED convex
    BY <1>5 DEF Deploying, DeployStep, DeployDies, Gate, Revoke, Issue, Remove, Add, Sync, Serve, Mark, Build
  <2> QED
    BY <2>2, <2>3 DEF ProviderInv, Settled
<1>6. ASSUME Deploying("dev") PROVE ProviderInv'
  <2>1. UNCHANGED <<pc, doppler>>
    BY <1>0, <1>6, DeployingFrame DEF genesisVars
  <2>2. pc \in {"deploy", "ready"}
    BY <1>0, <1>6, DeployingFrame DEF ReachedInv, SiteReached
  <2>3. CASE Gate("dev") \/ Revoke("dev") \/ Issue("dev") \/ Mark("dev") \/ DeployDies("dev")
    <3>1. UNCHANGED convex
      BY <2>3 DEF Gate, Revoke, Issue, Mark, DeployDies
    <3>2. at'["dev"] \in {"failed", "revoke", "issue", "remove"}
      BY <1>0, <2>3 DEF Gate, Revoke, Issue, Mark, DeployDies, Goes, StepOf, ProviderInv
    <3> QED
      BY <2>1, <2>2, <3>1, <3>2 DEF ProviderInv, Settled
  <2>4. CASE Remove("dev") \/ Add("dev")
    <3>1. UNCHANGED convex
      BY <2>4 DEF Remove, Add
    <3>2. at'["dev"] \in {"add", "remove", "sync"}
      BY <1>0, <2>4 DEF Remove, Add, TargetFails, NextTarget, AfterTarget, Goes
    <3> QED
      BY <2>1, <2>2, <3>1, <3>2 DEF ProviderInv, Settled
  <2>5. CASE Sync("dev")
    <3>1. at'["dev"] \in {"serve", "failed"} /\ (at'["dev"] = "serve" => Synced) /\ (Synced \/ UNCHANGED convex)
      BY <1>0, <2>5 DEF Sync, SyncFailed, Goes
    <3>2. ASSUME Synced
          PROVE  /\ convex'.issuer = doppler["frontend"]
                 /\ UNCHANGED <<convex.served, convex.landed, convex.provider>>
      BY <1>0, <3>2 DEF Synced, ConvexType
    <3> QED
      BY <2>1, <2>2, <3>1, <3>2 DEF ProviderInv, Settled
  <2>6. CASE Serve("dev")
    <3>1. /\ Push /\ at["dev"] = "serve" /\ at'["dev"] \in {"build", "failed"}
          /\ at'["dev"] = "build" => convex'.served
      BY <1>0, <2>6 DEF Serve, Goes, StepOf
    <3>2. convex.issuer = doppler["frontend"]
      BY <3>1 DEF ProviderInv
    <3> QED
      BY <1>0, <2>1, <2>2, <3>1, <3>2, PushSettles DEF ProviderInv, Settled
  <2>7. CASE Build("dev") \/ Summary
    <3>1. /\ UNCHANGED convex /\ at["dev"] \in {"build", "summary"} /\ at'["dev"] \in {"summary", "failed",
                                                                                       "done"}
      BY <1>0, <2>7 DEF Build, Built, Summary, Goes, StepOf
    <3> QED
      BY <2>1, <2>2, <3>1 DEF ProviderInv, Settled
  <2> QED
    BY <1>6, <2>3, <2>4, <2>5, <2>6, <2>7 DEF Deploying, DeployStep
<1> QED
  BY <1>1, <1>2, <1>3, <1>4, <1>5, <1>6 DEF Next, GenesisRun, Deployments

-----------------------------------------------------------------------------
(* The claim URL *)

(* A run that leaves init has the claim URL of the application in use in its   *)
(* output, unless it was killed before the output was written.                 *)
ClaimInv ==
  ~Happened({"killed-within"}) /\ pc \notin {"sk", "frontend",
                                             "redirects"} => doppler["pk"] \in shown \cup {NoApp}

LEMMA NoClaimAtFirst == Init => ClaimInv
  BY DEF Init, DeployInit, ClaimInv, Keys

LEMMA ClaimInvInductive ==
  ASSUME TypeInv, ReachedInv, ClaimInv, [Next]_vars
  PROVE  ClaimInv'
<1> SUFFICES ASSUME ~Happened({"killed-within"})', pc' \notin {"sk", "frontend", "redirects"}
             PROVE  doppler'["pk"] \in shown' \cup {NoApp}
  BY DEF ClaimInv
<1>0. /\ ~Happened({"killed-within"}) /\ ~Fault("killed-within")
      /\ doppler \in [Keys -> 0..apps] /\ "pk" \in Keys
  BY Undisturbed DEF Events, TypeInv, TypeOK, Keys
<1>1. pc \in {"sk", "frontend", "redirects"} => doppler["pk"] = apps
  BY DEF ReachedInv, KeysReached
<1>2. CASE Probe \/ CreateApp
  BY <1>0, <1>2 DEF Probe, CreateApp, ClaimInv
<1>3. CASE PushKey
  <2>1. pc = "redirects" /\ doppler' = [doppler EXCEPT ![pc] = apps] /\ shown' = shown \cup {apps}
    BY <1>3, KeysType DEF PushKey, Goto, InInit
  <2> QED
    BY <1>0, <1>1, <2>1
<1>4. CASE PushFails
  BY <1>0, <1>1, <1>4 DEF PushFails, ClaimInv
<1>5. CASE InitKilled
  BY <1>0, <1>5 DEF InitKilled
<1>6. CASE ~Identity
  <2>1. UNCHANGED <<doppler, shown>> /\ (pc \in {"sk", "frontend", "redirects"} => FALSE)
    <3>1. pc \in InInit => pc' = pc
      BY <1>6 DEF Next, GenesisRun, Begin, Dies, Working, Checkout, Clone, CloneKilled, Install,
                  InstallKilled, Bootstrap, Link,
                  Convex, Backend, Setup, Retry, Configure, Mirror, ConfigureSync, ConfigurePush, SyncLocal,
                  GitHub, CreateRepo, CiProbe, CiRevoke, CiToken, CiSecret, PushMain, DeployEnds, Lockdown, Contexts,
                  Deploy, Deploying, InInit, vars, genesisVars
    <3> QED
      BY <1>6, <3>1, OnlyIdentityMakesKeys DEF InInit
  <2> QED
    BY <1>0, <2>1 DEF ClaimInv
<1> QED
  BY <1>2, <1>3, <1>4, <1>5, <1>6 DEF Identity

-----------------------------------------------------------------------------
(* Production *)

(* Once main is protected there are commits that are not pushed: the summary   *)
(* of the deployment before.  So no later run gets past its push, and the dev  *)
(* deployment of a run never starts beside production's.                       *)
ProtectedInv ==
  /\ protection # "none" => unpushed /\ "origin" \in have
  /\ pc \in {"lockdown", "contexts"} => unpushed
  /\ pc = "deploy" /\ at["dev"] = "done" => unpushed
  /\ Running("prod") => protection # "none"

LEMMA NoProtectionAtFirst == Init => ProtectedInv
  BY DEF Init, DeployInit, ProtectedInv, Running, Deployments, DeploySteps

LEMMA ProtectedInvInductive ==
  ASSUME TypeInv, ReachedInv, ProtectedInv, [Next]_vars
  PROVE  ProtectedInv'
<1>0. /\ at \in [Deployments -> DeploySteps \cup {"idle", "done", "failed"}]
      /\ "dev" \in Deployments /\ "prod" \in Deployments /\ "dev" # "prod" /\ Grows
  BY EveryStepGrows DEF TypeInv, TypeOK, Deployments
<1>1. CASE Begin \/ Dies \/ Checkout \/ Identity \/ Convex \/ UNCHANGED vars
  <2>1. UNCHANGED <<unpushed, at, protection>>
    BY <1>1 DEF Begin, Dies, Checkout, Identity, Convex, progress, vars, genesisVars, deployVars
  <2>2. pc' \in {"lockdown", "contexts", "deploy"} => pc' = pc
    BY <1>1, KeysType
       DEF Begin, Dies, Checkout, Clone, CloneKilled, Install, InstallKilled, Bootstrap, Link, Making,
           Identity, Probe,
           CreateApp, PushKey, PushFails, InitKilled, Convex, Backend, Setup, Retry, Configure, Mirror,
           ConfigureSync, ConfigurePush, SyncLocal, InInit, Goto, vars, genesisVars
  <2> QED
    BY <1>0, <2>1, <2>2 DEF ProtectedInv, Grows, Running
<1>2. CASE GitHub
  <2>1. CASE CreateRepo
    <3>1. "origin" \notin have => protection = "none"
      BY DEF ProtectedInv
    <3>2. /\ pc' \in {"ci", "dead"} /\ UNCHANGED <<at, protection>>
          /\ ("origin" \in have => UNCHANGED <<unpushed, have>>)
      BY <2>1 DEF CreateRepo, Goto, progress
    <3> QED
      BY <3>1, <3>2 DEF ProtectedInv, Running
  <2>2. CASE CiProbe \/ CiRevoke \/ CiToken \/ CiSecret
    BY <2>2 DEF CiProbe, CiRevoke, CiToken, CiSecret, Goto, progress, ProtectedInv, Running
  <2>3. CASE PushMain
    <3>1. CASE pc' = "dead" /\ unpushed' /\ UNCHANGED at
      BY <2>3, <3>1 DEF PushMain, ProtectedInv, Running
    <3>2. CASE pc' = "deploy" /\ protection = "none" /\ at' = [at EXCEPT !["dev"] = "gate"]
      BY <1>0, <2>3, <3>2 DEF PushMain, ProtectedInv, Running
    <3> QED
      BY <2>3, <3>1, <3>2 DEF PushMain, Goto, Start, Goes, progress, ProtectedInv
  <2>4. CASE DeployEnds \/ Lockdown \/ Contexts
    <3>1. pc = "lockdown" => "origin" \in have
      BY DEF ReachedInv, CheckoutReached, UpToScm, UpToServe, UpToConfigure, UpToInit, UpToBootstrap,
             UpToInstall, InInit
    <3>2. pc = "contexts" => "origin" \in have
      BY DEF ReachedInv, CheckoutReached, UpToScm, UpToServe, UpToConfigure, UpToInit, UpToBootstrap,
             UpToInstall, InInit
    <3> QED
      BY <2>4, <3>1, <3>2 DEF DeployEnds, Lockdown, Contexts, Goto, progress, ProtectedInv, Running
  <2> QED
    BY <1>2, <2>1, <2>2, <2>3, <2>4 DEF GitHub
<1>3. ASSUME NEW d \in Deployments, Deploy(d) PROVE ProtectedInv'
  <2>1. UNCHANGED <<pc, have, protection, unpushed>> /\ pc = "ready"
    BY <1>3 DEF Deploy, genesisVars
  <2>2. protection = "full"
    BY <2>1 DEF ReachedInv, SiteReached, Ready
  <2> QED
    BY <2>1, <2>2 DEF ProtectedInv
<1>4. ASSUME NEW d \in Deployments, Deploying(d) PROVE ProtectedInv'
  <2>1. UNCHANGED <<pc, have, protection>> /\ Running(d)
        /\ \A other \in Deployments \ {d} : at'[other] = at[other]
    BY <1>4, DeployingFrame DEF genesisVars
  <2>2. Running("prod")' => Running("prod")
    BY <1>0, <2>1 DEF Running
  <2>3. unpushed => unpushed'
    BY <1>4 DEF Deploying, DeployStep, DeployDies, Gate, Revoke, Issue, Remove, Add, Sync, Serve, Mark,
                Build, Summary
  <2>4. d = "dev" /\ at'["dev"] = "done" => unpushed'
    <3>1. CASE Summary
      BY <1>0, <3>1 DEF Summary, Goes
    <3>2. CASE Build("dev")
      BY <1>0, <3>2 DEF Build, Built, Goes
    <3>3. CASE \/ Gate("dev") \/ Revoke("dev") \/ Issue("dev") \/ Sync("dev") \/ Serve("dev") \/ Mark("dev")
               \/ DeployDies("dev")
      BY <1>0, <3>3 DEF Gate, Revoke, Issue, Sync, Serve, Mark, DeployDies, Goes
    <3>4. CASE Remove("dev") \/ Add("dev")
      BY <1>0, <3>4 DEF Remove, Add, TargetFails, NextTarget, AfterTarget, Goes
    <3> QED
      BY <1>4, <3>1, <3>2, <3>3, <3>4 DEF Deploying, DeployStep
  <2> QED
    BY <1>0, <2>1, <2>2, <2>3, <2>4 DEF ProtectedInv
<1> QED
  BY <1>1, <1>2, <1>3, <1>4 DEF Next, GenesisRun

(* Where deployments follow each other and probes can tell: a dev deployment   *)
(* gets past its gate only while there is no marker, and a promotion that gets *)
(* to its own has given the production target the token of its config.         *)
OneAtATime == ~(Running("dev") /\ Running("prod"))
PromotedInv ==
  /\ OneAtATime
  /\ marker => at["dev"] \notin DeploySteps \ {"gate"}
  /\ at["prod"] \in {"remove", "add"} => left["prod"] = <<"production">>
  /\ at["prod"] \in {"serve", "mark", "build"} \/ (at["prod"] = "sync" /\ good["prod"]) =>
       env["production"].config = "prd"

LEMMA NothingPromotedAtFirst == Init => PromotedInv
  BY DEF Init, DeployInit, PromotedInv, OneAtATime, Running, Deployments, DeploySteps

(* Steps that move no deployment and no token. *)
LEMMA NothingPromoted ==
  ASSUME PromotedInv, UNCHANGED <<at, left, good, env, marker>>
  PROVE  PromotedInv'
  BY DEF PromotedInv, OneAtATime, Running

(* A deployment that starts does so alone. *)
LEMMA StartsAlone ==
  ASSUME TypeInv, PromotedInv, NEW d \in Deployments, Start(d), ~Beside(d), UNCHANGED <<env, marker>>
  PROVE  PromotedInv'
<1>1. /\ at' = [at EXCEPT ![d] = "gate"] /\ left' = [left EXCEPT ![d] = <<>>] /\ good' = [good EXCEPT ![d] = TRUE]
  BY DEF Start, Goes
<1>2. at \in [Deployments -> DeploySteps \cup {"idle", "done",
                                               "failed"}] /\ left \in [Deployments -> Seq(Targets)]
      /\ good \in [Deployments -> BOOLEAN] /\ Deployments = {"dev", "prod"}
  BY DEF TypeInv, TypeOK, Deployments
<1>3. OneAtATime'
  <2>1. \A other \in Deployments \ {d} : ~Running(other)
    BY DEF Beside
  <2> QED
    BY <1>1, <1>2, <2>1 DEF OneAtATime, Running
<1> QED
  BY <1>1, <1>2, <1>3 DEF PromotedInv

LEMMA DevKeepsPromoted ==
  ASSUME TypeInv, ProviderInv, PromotedInv, Deploying("dev"), ~Fault("probe-fails")
  PROVE  PromotedInv'
<1>0. /\ at \in [Deployments -> DeploySteps \cup {"idle", "done", "failed"}] /\ Deployments = {"dev", "prod"}
      /\ left \in [Deployments -> Seq(Targets)] /\ good \in [Deployments -> BOOLEAN]
  BY DEF TypeInv, TypeOK, Deployments
<1>1. Running("dev") /\ at'["prod"] = at["prod"] /\ ~Running("prod")
  BY <1>0, DeployingFrame DEF PromotedInv, OneAtATime
<1>2. OneAtATime' /\ at["prod"] \notin {"remove", "add", "serve", "mark", "build", "sync"}
  BY <1>1 DEF OneAtATime, Running, DeploySteps
<1>3. ASSUME marker' PROVE at'["dev"] \notin DeploySteps \ {"gate"}
  <2>1. marker
    BY <1>3 DEF Deploying, DeployStep, DeployDies, Gate, Revoke, Issue, Remove, Add, Sync, Serve, Mark,
                Build, Summary,
                ProviderInv, StepOf
  <2>2. at["dev"] = "gate"
    BY <1>1, <2>1 DEF PromotedInv, Running
  <2>3. Gate("dev") \/ DeployDies("dev")
    BY <2>2 DEF Deploying, DeployStep, Revoke, Issue, Remove, Add, Sync, Serve, Mark, Build, Summary, StepOf
  <2>4. at' = [at EXCEPT !["dev"] = "failed"]
    BY <2>1, <2>3 DEF Gate, DeployDies, Goes
  <2> QED
    BY <1>0, <2>4 DEF DeploySteps
<1> QED
  BY <1>1, <1>2, <1>3 DEF PromotedInv

LEMMA ProdKeepsPromoted ==
  ASSUME TypeInv, PromotedInv, Deploying("prod")
  PROVE  PromotedInv'
<1>0. /\ at \in [Deployments -> DeploySteps \cup {"idle", "done", "failed"}] /\ Deployments = {"dev", "prod"}
      /\ left \in [Deployments -> Seq(Targets)] /\ good \in [Deployments -> BOOLEAN]
      /\ env \in [Targets -> Tokens \cup {NoToken}] /\ "production" \in Targets
  BY DEF TypeInv, TypeOK, Deployments, Targets
<1>1. Running("prod") /\ at'["dev"] = at["dev"] /\ ~Running("dev")
  BY <1>0, DeployingFrame DEF PromotedInv, OneAtATime
<1>2. OneAtATime' /\ at'["dev"] \notin DeploySteps
  BY <1>1 DEF OneAtATime, Running
<1>3. left["prod"] = <<"production">> =>
        Head(left["prod"]) = "production" /\ Tail(left["prod"]) = <<>> /\ AfterTarget("prod") = "sync"
  BY DEF AfterTarget
<1>4. CASE Gate("prod") \/ DeployDies("prod")
  <2>1. at'["prod"] \in {"revoke", "failed"}
    BY <1>0, <1>4 DEF Gate, DeployDies, Goes
  <2> QED
    BY <1>2, <2>1 DEF PromotedInv
<1>5. CASE Revoke("prod") \/ Issue("prod")
  <2>1. at'["prod"] = "issue" \/ (at'["prod"] = "remove" /\ left'["prod"] = <<"production">>)
    BY <1>0, <1>5 DEF Revoke, Issue, Goes, TargetsOf
  <2> QED
    BY <1>2, <2>1 DEF PromotedInv
<1>6. CASE Remove("prod")
  <2>1. at["prod"] = "remove" /\ left["prod"] = <<"production">>
    BY <1>6 DEF Remove, StepOf, PromotedInv
  <2>2. \/ at'["prod"] = "add" /\ left' = left
        \/ at'["prod"] = "sync" /\ good'["prod"] = FALSE
    BY <1>0, <1>3, <1>6, <2>1 DEF Remove, TargetFails, NextTarget, Goes
  <2> QED
    BY <1>2, <2>1, <2>2 DEF PromotedInv
<1>7. CASE Add("prod")
  <2>1. at["prod"] = "add" /\ left["prod"] = <<"production">>
    BY <1>7 DEF Add, StepOf, PromotedInv
  <2>2. at'["prod"] = "sync" /\ (good'["prod"] = FALSE \/ env'["production"].config = "prd")
    BY <1>0, <1>3, <1>7, <2>1 DEF Add, TargetFails, NextTarget, Goes, Config
  <2> QED
    BY <1>2, <2>2 DEF PromotedInv
<1>8. CASE Sync("prod") \/ Serve("prod") \/ Mark("prod")
  <2>1. UNCHANGED env /\ at'["prod"] \in {"serve", "failed", "mark", "build"}
    BY <1>0, <1>8 DEF Sync, Serve, Mark, Goes, hosting
  <2>2. at'["prod"] # "failed" => env["production"].config = "prd"
    BY <1>0, <1>8 DEF Sync, Serve, Mark, StepOf, PromotedInv, Goes
  <2> QED
    BY <1>2, <2>1, <2>2 DEF PromotedInv
<1>9. CASE Build("prod")
  <2>1. at'["prod"] \in {"done", "failed"}
    BY <1>0, <1>9 DEF Build, Built, Goes
  <2> QED
    BY <1>2, <2>1 DEF PromotedInv
<1> QED
  BY <1>4, <1>5, <1>6, <1>7, <1>8, <1>9 DEF Deploying, DeployStep

LEMMA PromotedInvInductive ==
  ASSUME TypeInv, ProviderInv, ProtectedInv, PromotedInv, [Next]_vars, ~Happened({"probe-fails", "overlap"})'
  PROVE  PromotedInv'
<1>0. ~Fault("probe-fails") /\ ~Fault("overlap") /\ Deployments = {"dev", "prod"}
  BY Undisturbed DEF Events, Deployments
<1>1. CASE Begin \/ Dies \/ Checkout \/ Identity \/ Convex \/ UNCHANGED vars
  BY <1>1, NothingPromoted DEF Begin, Dies, Checkout, Identity, Convex, progress, hosting, vars, deployVars
<1>2. CASE GitHub
  <2>1. UNCHANGED <<env, marker>>
    BY <1>2 DEF GitHub, hosting
  <2>2. CASE PushMain /\ pc' = "deploy"
    <3>1. protection = "none" /\ Start("dev")
      BY <2>2 DEF PushMain, ProtectedInv, Goto
    <3>2. ~Beside("dev")
      BY <1>0, <3>1 DEF Beside, ProtectedInv
    <3> QED
      BY <1>0, <2>1, <2>2, <3>1, <3>2, StartsAlone
  <2>3. CASE UNCHANGED progress
    BY <2>1, <2>3, NothingPromoted DEF progress
  <2> QED
    BY <1>2, <2>2, <2>3
       DEF GitHub, CreateRepo, CiProbe, CiRevoke, CiToken, CiSecret, PushMain, DeployEnds, Lockdown,
           Contexts, Goto
<1>3. ASSUME NEW d \in Deployments, Deploy(d) PROVE PromotedInv'
  BY <1>0, <1>3, StartsAlone DEF Deploy, hosting
<1>4. ASSUME NEW d \in Deployments, Deploying(d) PROVE PromotedInv'
  BY <1>0, <1>4, DevKeepsPromoted, ProdKeepsPromoted
<1> QED
  BY <1>1, <1>2, <1>3, <1>4 DEF Next, GenesisRun

-----------------------------------------------------------------------------
(* The theorems *)

(* What holds of every state, and what holds while no probe failed. *)
MadeOnceInv == ~Misled => KeysInv /\ TokenInv
Promotions == ~Happened({"probe-fails", "overlap"}) => PromotedInv
IInv ==
  /\ TypeInv /\ ReachedInv /\ ProviderInv /\ ClaimInv /\ ProtectedInv
  /\ MadeOnceInv /\ Promotions

LEMMA IInvAtFirst == Init => IInv
  BY NothingAtFirst, NothingReached, NoProviderAtFirst, NoClaimAtFirst, NoProtectionAtFirst, NoKeysAtFirst,
     NoTokenAtFirst,
     NothingPromotedAtFirst
     DEF IInv, MadeOnceInv, Promotions

LEMMA IInvInductive == ASSUME IInv, [Next]_vars PROVE IInv'
<1>0. TypeInv /\ ReachedInv /\ ProviderInv /\ ClaimInv /\ ProtectedInv
  BY DEF IInv
<1>1. TypeInv' /\ ReachedInv'
  BY <1>0, TypeInvInductive, ReachedInvInductive
<1>2. ProviderInv' /\ ClaimInv' /\ ProtectedInv'
  BY <1>0, ProviderInvInductive, ClaimInvInductive, ProtectedInvInductive
<1>3. MadeOnceInv'
  <2> SUFFICES ASSUME ~Misled' PROVE KeysInv' /\ TokenInv'
    BY DEF MadeOnceInv
  <2>1. ~Misled
    BY <1>0, Undisturbed DEF Misled, Events
  <2> QED
    BY <1>0, <2>1, KeysInvInductive, TokenInvInductive DEF IInv, MadeOnceInv
<1>4. Promotions'
  <2> SUFFICES ASSUME ~Happened({"probe-fails", "overlap"})' PROVE PromotedInv'
    BY DEF Promotions
  <2>1. ~Happened({"probe-fails", "overlap"})
    BY <1>0, Undisturbed DEF Events
  <2> QED
    BY <1>0, <2>1, PromotedInvInductive DEF IInv, Promotions
<1> QED
  BY <1>1, <1>2, <1>3, <1>4 DEF IInv

LEMMA Invariance == Spec => []IInv
  BY IInvAtFirst, IInvInductive, PTL DEF Spec

(* The keys of a product that is ready are those of one application. *)
LEMMA ReadyHasKeys ==
  ASSUME IInv, Ready
  PROVE  /\ doppler["pk"] \in 1..apps /\ doppler["frontend"] # NoApp
         /\ ~Misled => doppler["sk"] = doppler["pk"] /\ doppler["frontend"] = doppler["pk"]
<1>1. TypeInv /\ ReachedInv /\ pc = "ready"
  BY DEF IInv, Ready
<1>2. doppler["pk"] \in 0..apps /\ apps \in Nat /\ {"pk", "sk", "frontend"} \subseteq Keys
  BY <1>1 DEF TypeInv, TypeOK, Keys
<1>3. doppler["pk"] # NoApp /\ doppler["sk"] # NoApp
  BY <1>1 DEF ReachedInv, KeysReached, UpToConfigure, UpToInit, UpToBootstrap, UpToInstall, InInit
<1>4. doppler["frontend"] # NoApp
  BY <1>1 DEF ReachedInv, SiteReached, UpToDeploy, UpToLink, UpToScm, UpToServe, UpToConfigure, UpToInit,
              UpToBootstrap,
              UpToInstall, InInit
<1>5. ~Misled => doppler["sk"] = doppler["pk"] /\ doppler["frontend"] = doppler["pk"]
  BY <1>2, <1>3, <1>4 DEF IInv, MadeOnceInv, KeysInv
<1> QED
  BY <1>2, <1>3, <1>4, <1>5 DEF NoApp

(* However often runs die and start over, in every instance: a product that    *)
(* genesis calls ready has everything, and each only once, unless a probe      *)
(* failed.                                                                     *)
THEOREM ReadyProductsAreWhole == Spec => []ReadyIsWhole
<1>1. ASSUME IInv PROVE ReadyIsWhole
  <2> SUFFICES ASSUME Ready, ~Misled
               PROVE  /\ {"files", "deps", "pinned", "origin", "linked"} \subseteq have
                      /\ \E app \in 1..apps : \A k \in {"pk", "sk", "frontend"} : doppler[k] = app
                      /\ url = {"local", "doppler"} /\ convex.served
                      /\ secret = "live" /\ spare = 0
                      /\ site # "none" /\ protection = "full"
    BY DEF ReadyIsWhole, Misled
  <2>0. TypeInv /\ ReachedInv /\ ProviderInv /\ TokenInv /\ pc = "ready"
    BY <1>1 DEF IInv, MadeOnceInv, Ready
  <2>1. "ready" \notin UpToDeploy
    BY DEF UpToDeploy, UpToLink, UpToScm, UpToServe, UpToConfigure, UpToInit, UpToBootstrap, UpToInstall, InInit
  <2>2. /\ "ready" \notin UpToLink /\ "ready" \notin UpToScm /\ "ready" \notin UpToServe
        /\ "ready" \notin UpToConfigure /\ "ready" \notin UpToBootstrap /\ "ready" \notin UpToInstall
    BY <2>1 DEF UpToDeploy, UpToLink, UpToScm, UpToServe, UpToConfigure, UpToInit, UpToBootstrap
  <2>3. {"files", "deps", "pinned", "origin", "linked"} \subseteq have
    BY <2>0, <2>2 DEF ReachedInv, CheckoutReached
  <2>4. doppler["pk"] \in 1..apps /\ \A k \in {"pk", "sk", "frontend"} : doppler[k] = doppler["pk"]
    BY <1>1, ReadyHasKeys
  <2>5. url = {"local", "doppler"}
    <3>1. "local" \in url /\ "doppler" \in url
      BY <2>0, <2>2 DEF ReachedInv, KeysReached
    <3>2. url \subseteq {"local", "doppler"}
      BY <2>0 DEF TypeInv, TypeOK
    <3> QED
      BY <3>1, <3>2
  <2>6. convex.served
    BY <2>0 DEF ProviderInv, Settled
  <2>7. secret = "live" /\ spare = 0
    BY <2>0, <2>2 DEF TokenInv, UpToSecret
  <2>8. site # "none" /\ protection = "full"
    BY <2>0, <2>1 DEF ReachedInv, SiteReached, Ready
  <2> QED
    BY <2>3, <2>4, <2>5, <2>6, <2>7, <2>8
<1> QED
  BY <1>1, Invariance, PTL

(* Where no probe failed and the last push landed, Convex authenticates the    *)
(* users of the application whose keys the site has.                           *)
THEOREM UsersCanLogIn == Spec => []LoginWorks
<1>1. ASSUME IInv PROVE LoginWorks
  <2> SUFFICES ASSUME Ready, convex.landed, ~Misled PROVE convex.provider = doppler["pk"]
    BY DEF LoginWorks, Misled
  <2>1. Settled
    BY <1>1 DEF IInv, ProviderInv, Ready
  <2> QED
    BY <1>1, <2>1, ReadyHasKeys DEF Settled
<1> QED
  BY <1>1, Invariance, PTL

(* Unless a command was killed within, a run's record has the claim URL of the *)
(* application that a ready product uses, also when its keys were pushed in    *)
(* part or a probe that failed had it replaced.                                *)
THEOREM TheClaimIsKept == Spec => []ClaimKept
<1>1. ASSUME IInv PROVE ClaimKept
  BY <1>1, ReadyHasKeys DEF IInv, ClaimInv, ClaimKept, Ready, NoApp
<1> QED
  BY <1>1, Invariance, PTL

(* No run replaces a key or makes a second Convex project, in every instance,  *)
(* as long as no probe failed.                                                 *)
THEOREM NothingIsReplaced == Spec => NothingReplaced
<1>1. ASSUME IInv, [Next]_vars, ~Misled' PROVE MadeOnce
  <2>0. TypeInv /\ KeysInv
    BY <1>1, Undisturbed DEF IInv, MadeOnceInv, Misled, Events
  <2>1. ASSUME NEW k \in Keys, doppler[k] # NoApp PROVE doppler'[k] = doppler[k]
    <3>1. CASE PushKey
      <4>1. doppler' = [doppler EXCEPT ![pc] = apps] /\ pc \in InInit /\ doppler[pc] = NoApp
        BY <2>0, <3>1 DEF PushKey, InInit, KeysInv
      <4> QED
        BY <2>0, <2>1, <4>1 DEF TypeInv, TypeOK
    <3>2. CASE ~PushKey
      <4>1. UNCHANGED doppler
        BY <1>1, <2>0, <3>2, OnlyIdentityMakesKeys DEF Identity, Probe, CreateApp, PushFails, InitKilled
      <4> QED
        BY <4>1
    <3> QED
      BY <3>1, <3>2
  <2>2. url # {} => projects' = projects
    BY <1>1, <2>0, OnlyConvexMakesProjects
       DEF KeysInv, Convex, Backend, Setup, Retry, Configure, Mirror, ConfigureSync, ConfigurePush, SyncLocal
  <2> QED
    BY <2>1, <2>2 DEF MadeOnce
<1>2. IInv /\ [Next]_vars => [Happened({"probe-fails"})' \/ MadeOnce]_vars
  BY <1>1 DEF Misled
<1> QED
  BY <1>2, Invariance, PTL DEF Spec, NothingReplaced

(* Once production is promoted, dev takes over neither its site nor the token  *)
(* of its next build, in every instance in which deployments follow each other *)
(* and no probe failed.                                                        *)
THEOREM ProductionIsKept == Spec => ProductionKept
<1> DEFINE Kept ==
      /\ site' = "dev" => site = "dev"
      /\ env'["production"].config = "dev" => env["production"].config = "dev"
<1>1. ASSUME IInv, [Next]_vars, marker, ~Happened({"probe-fails", "overlap"}) PROVE Kept
  <2>0. /\ at["dev"] \notin DeploySteps \ {"gate"}
        /\ at["prod"] \in {"remove", "add"} => left["prod"] = <<"production">>
        /\ at["prod"] = "build" => env["production"].config = "prd"
        /\ env \in [Targets -> Tokens \cup {NoToken}] /\ "production" \in Targets
    BY <1>1 DEF IInv, Promotions, PromotedInv, TypeInv, TypeOK, Targets
  <2>1. CASE UNCHANGED <<env, site>>
    BY <2>1
  <2>2. ASSUME NEW d \in Deployments, Revoke(d) PROVE Kept
    <3>1. env'["production"].config = env["production"].config
      <4>1. CASE env' = RevokedEnv(Config(d))
        BY <2>0, <4>1 DEF RevokedEnv, Tokens, NoToken
      <4> QED
        BY <2>2, <4>1 DEF Revoke
    <3> QED
      BY <2>2, <3>1 DEF Revoke
  <2>3. ASSUME NEW d \in Deployments, Remove(d) \/ Add(d) PROVE Kept
    <3>1. d = "prod" /\ Head(left[d]) = "production"
      BY <2>0, <2>3 DEF Remove, Add, StepOf, Deployments, DeploySteps
    <3> QED
      BY <2>0, <2>3, <3>1 DEF Remove, Add, Config, NoToken
  <2>4. ASSUME NEW d \in Deployments, Build(d) PROVE Kept
    <3>1. env["production"].config = "prd"
      BY <2>0, <2>4 DEF Build, StepOf, Deployments, DeploySteps
    <3> QED
      BY <2>4, <3>1 DEF Build
  <2>5. CASE Begin \/ Dies \/ GenesisRun \/ UNCHANGED vars
    BY <2>1, <2>5 DEF Begin, Dies, GenesisRun, Checkout, Identity, Convex, GitHub, hosting, vars, deployVars
  <2>6. ASSUME NEW d \in Deployments, Deploy(d) PROVE Kept
    BY <2>1, <2>6 DEF Deploy, hosting
  <2>7. ASSUME NEW d \in Deployments, Deploying(d) PROVE Kept
    BY <2>1, <2>2, <2>3, <2>4, <2>7
       DEF Deploying, DeployStep, DeployDies, Gate, Issue, Sync, Serve, Mark, Summary, hosting
  <2> QED
    BY <1>1, <2>5, <2>6, <2>7 DEF Next
<1>2. IInv /\ [Next]_vars => [marker /\ ~Happened({"probe-fails", "overlap"}) => Kept]_vars
  BY <1>1
<1> QED
  BY <1>2, Invariance, PTL DEF Spec, ProductionKept
=============================================================================
