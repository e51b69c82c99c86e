---------------------------- MODULE LocalServers ----------------------------
(***************************************************************************)
(* The local dev servers: one `next dev` per product on the worker machine, *)
(* kept by a supervision pass the bridge makes in each of its ticks.  A pass *)
(* reads the projects, their ports and whether a run uses their checkout,  *)
(* stops the servers past the cap and looks after the others in turn:      *)
(* pulls, installs, starts, reports.                                       *)
(*                                                                         *)
(* What survives the bridge is on disk (a state file per server, the       *)
(* checkout, node_modules) and in the processes: the servers, which are     *)
(* detached, and an npm at work.  The install a pass waits for and the     *)
(* backoffs are the bridge's memory.                                       *)
(*                                                                         *)
(* A server is started first and written to its file after, and it is told *)
(* to end, not waited for.  So there are servers in no file: those on their *)
(* way out, and those whose start was cut off between the two.             *)
(***************************************************************************)
EXTENDS Naturals, Sequences, FiniteSets

CONSTANTS
  Projects,
  MaxServers,   \* LOCAL_SERVERS_MAX; 0 is no cap
  NumPorts,     \* the ports pickPort may choose from
  MaxLocks,     \* bound on the versions of a project's lockfile
  MaxFaults,    \* bound on disturbances
  Happens       \* the kinds of disturbances

Events ==
  {"crash",           \* the bridge dies and is started again
   "shutdown",        \* the operator stops the local runtime, and starts it again
   "report-fails", "secrets-fail", "write-fails", "npm-fails",
   "server-dies",     \* or the machine is rebooted
   "port-taken",      \* something else listens on a port
   "run", "merge",    \* a run of a project starts; a merge changes a lockfile
   "activity"}        \* the projects' order changes

ASSUME ServersAssumption ==
  /\ MaxServers \in Nat /\ NumPorts \in Nat /\ MaxLocks \in Nat \ {0} /\ MaxFaults \in Nat
  /\ Happens \subseteq Events

VARIABLES
  \* control plane: the row of each server, the runs in flight, the projects, latest first
  rows, inFlight, order,
  \* checkouts: the lockfile, that of origin/main, node_modules, the npms at work
  lock, origin, modules, npms,
  \* servers: the state files, the server each file is about, the servers in no file,
  \* and how many starts were cut off before their file was written
  file, server, loose, cutOff,
  \* the ports something else listens on
  strays,
  \* the bridge's memory
  install, backoff,
  \* the pass: its stage, what it read, servers to stop, projects to serve, ports
  \* claimed, the server it started and has not written down, the report under way
  pc, targets, toStop, left, taken, spawned, report,
  faults

controlPlane == <<rows, inFlight, order>>
checkouts == <<lock, origin, modules, npms>>
servers == <<file, server, loose, cutOff>>
memory == <<install, backoff>>
pass == <<pc, targets, toStop, left, taken, spawned, report>>
vars == <<controlPlane, checkouts, servers, strays, memory, pass, faults>>

Ports == 1..NumPorts
None == 0
Locks == 1..MaxLocks
(* node_modules: absent, left half written, or what a lockfile asks for. *)
Absent == 0
Partial == MaxLocks + 1

Statuses == {"installing", "starting", "running", "failed", "stopped"}
Row == [status : Statuses \cup {"none"}, port : Ports \cup {None}]
State == [port : Ports, lock : Locks]
NoFile == [port |-> None, lock |-> None]
NoReport == [status |-> "none"]
NoServer == [project |-> "none"]
NoTargets == [order |-> <<>>, port |-> [p \in Projects |-> None], busy |-> {}]

(* An npm read the lockfile when it began; one the bridge does not wait for    *)
(* was told to end, or is left from a bridge that died.                        *)
Npm == [of : {"bridge", "ending", "orphan"}, lock : Locks]

(* A server in no file; nth tells those apart whose start was cut off.         *)
Loose == [project : Projects, port : Ports, state : {"starting", "up", "ending"}, nth : 0..MaxFaults]

Listed == {order[i] : i \in DOMAIN order}
Busy(p) == "newest" \in inFlight[p]
HasFile(p) == file[p] # NoFile
Alive(p) == HasFile(p) /\ server[p] # "down"
Listening(port) ==
  \/ port \in strays
  \/ \E p \in Projects : server[p] = "up" /\ file[p].port = port
  \/ \E s \in loose : s.state # "starting" /\ s.port = port

Fault(kind) == kind \in Happens /\ faults < MaxFaults /\ faults' = faults + 1

Init ==
  /\ rows = [p \in Projects |-> [status |-> "none", port |-> None]]
  /\ inFlight = [p \in Projects |-> {}] /\ order = <<>>
  /\ lock = [p \in Projects |-> None] /\ origin = [p \in Projects |-> 1]
  /\ modules = [p \in Projects |-> Absent] /\ npms = [p \in Projects |-> {}]
  /\ file = [p \in Projects |-> NoFile] /\ server = [p \in Projects |-> "down"]
  /\ loose = {} /\ cutOff = 0 /\ strays = {}
  /\ install = [p \in Projects |-> "none"] /\ backoff = [p \in Projects |-> "none"]
  /\ pc = "idle" /\ targets = NoTargets /\ toStop = {} /\ left = <<>> /\ taken = {}
  /\ spawned = NoServer /\ report = NoReport
  /\ faults = 0

-----------------------------------------------------------------------------
(* A pass of supervise *)

(* Mutant of Wanted: one server too many. *)
OneMoreWanted ==
  IF MaxServers > 0 /\ MaxServers + 1 < Len(targets.order)
    THEN SubSeq(targets.order, 1, MaxServers + 1) ELSE targets.order

Wanted == IF MaxServers > 0 /\ MaxServers < Len(targets.order)
            THEN SubSeq(targets.order, 1, MaxServers) ELSE targets.order
Elements(s) == {s[i] : i \in DOMAIN s}

(* localTargets: every project with a repository; only its newest run counts  *)
(* as using the checkout.                                                     *)
ReadTargets ==
  /\ pc = "idle" /\ pc' = "stop"
  /\ targets' = [order |-> order, port |-> [p \in Projects |-> rows[p].port],
                 busy |-> {p \in Listed : Busy(p)}]
  /\ toStop' = {p \in Listed : HasFile(p)} \ Elements(Wanted')
  /\ UNCHANGED <<left, taken, spawned, report, controlPlane, checkouts, servers, strays, memory, faults>>

(* The server is told to end, and its file removed: nobody waits for it.      *)
OnTheWayOut(p) == [project |-> p, port |-> file[p].port, state |-> "ending", nth |-> 0]
Stopped(p) ==
  /\ file' = [file EXCEPT ![p] = NoFile] /\ server' = [server EXCEPT ![p] = "down"]
  /\ loose' = IF Alive(p) THEN loose \cup {OnTheWayOut(p)} ELSE loose
  /\ UNCHANGED cutOff

(* A server past the cap. *)
StopUnwanted(p) ==
  /\ pc = "stop" /\ report = NoReport /\ p \in toStop
  /\ toStop' = toStop \ {p}
  /\ Stopped(p)
  /\ report' = IF targets.port[p] = None THEN NoReport
               ELSE [status |-> "stopped", project |-> p, port |-> targets.port[p]]
  /\ UNCHANGED <<pc, targets, left, taken, spawned, controlPlane, checkouts, strays, memory, faults>>

Claimed(p) == IF targets.port[p] # None THEN targets.port[p] ELSE file[p].port

(* Mutant of ClaimedPorts: a project without a port counts. *)
ClaimedOrNone == {Claimed(p) : p \in Elements(targets.order)}

(* Mutant of ClaimedPorts: only the ports of the projects to serve. *)
WantedPorts == {Claimed(p) : p \in Elements(Wanted)} \ {None}

ClaimedPorts == {Claimed(p) : p \in Elements(targets.order)} \ {None}

StartServing ==
  /\ pc = "stop" /\ toStop = {} /\ report = NoReport
  /\ pc' = "serve" /\ left' = Wanted
  /\ taken' = ClaimedPorts
  /\ UNCHANGED <<targets, toStop, spawned, report, controlPlane, checkouts, servers, strays, memory,
                 faults>>

(* localServerReport; a failed report ends the stopping pass, and only the    *)
(* project's turn in the other.                                               *)
Report ==
  /\ report # NoReport /\ report' = NoReport
  /\ \/ /\ rows' = [rows EXCEPT ![report.project] = [status |-> report.status, port |-> report.port]]
        /\ UNCHANGED <<pc, targets, toStop, faults>>
     \/ /\ Fault("report-fails")
        /\ IF pc = "stop" THEN pc' = "idle" /\ targets' = NoTargets /\ toStop' = {}
                          ELSE UNCHANGED <<pc, targets, toStop>>
        /\ UNCHANGED rows
  /\ UNCHANGED <<left, taken, spawned, inFlight, order, checkouts, servers, strays, memory>>

PassEnds ==
  /\ pc = "serve" /\ left = <<>> /\ spawned = NoServer /\ report = NoReport
  /\ pc' = "idle" /\ targets' = NoTargets /\ taken' = {}
  /\ UNCHANGED <<toStop, left, spawned, report, controlPlane, checkouts, servers, strays, memory,
                 faults>>

-----------------------------------------------------------------------------
(* One project's turn *)

(* Mutant of Kept: nobody looks whether the port is free. *)
KeptAlways(p) == Claimed(p) # None

(* The port stays with the project unless something else listens on it while  *)
(* the server is down; else the lowest that is neither claimed nor in use.    *)
Kept(p) == Claimed(p) # None /\ (Alive(p) \/ ~Listening(Claimed(p)))
Pickable == {port \in Ports \ taken : ~Listening(port)}
PortFor(p) ==
  IF Kept(p) THEN {Claimed(p)}
  ELSE {port \in Pickable : \A other \in Pickable : port <= other}

Say(p, status, port) == report' = [status |-> status, project |-> p, port |-> port]

(* At most once a minute, on main, without local changes, and no run there.   *)
Pull(p) == lock' = lock \/ (p \notin targets.busy /\ lock' = [lock EXCEPT ![p] = origin[p]])

Stale(p) == modules[p] = Absent \/ (HasFile(p) /\ file[p].lock # lock'[p])

(* The npm this bridge waits for becomes one that it does not.                *)
Released(p, of) ==
  {[npm EXCEPT !.of = IF @ = "bridge" THEN of ELSE @] : npm \in npms[p]}

NoCheckout(p, port) ==
  /\ lock[p] = None
  /\ Say(p, "failed", port)
  /\ UNCHANGED <<lock, modules, npms, servers, memory, faults>>

(* Mutant of InstallContinues: the run is not looked at. *)
InstallContinuesAnyway(p, port) ==
  /\ lock[p] # None /\ install[p] = "running" /\ Pull(p)
  /\ Say(p, "installing", port)
  /\ UNCHANGED <<modules, npms, servers, memory, faults>>

(* An install under way: wait for it, or stop it for the run that came.       *)
InstallContinues(p, port) ==
  /\ lock[p] # None /\ install[p] = "running" /\ Pull(p)
  /\ p \notin targets.busy
  /\ Say(p, "installing", port)
  /\ UNCHANGED <<modules, npms, servers, memory, faults>>

InstallYields(p, port) ==
  /\ lock[p] # None /\ install[p] = "running" /\ Pull(p)
  /\ p \in targets.busy
  /\ install' = [install EXCEPT ![p] = "none"]
  /\ npms' = [npms EXCEPT ![p] = Released(p, "ending")]
  /\ Say(p, "stopped", port)
  /\ UNCHANGED <<modules, servers, backoff, faults>>

InstallFailed(p, port) ==
  /\ lock[p] # None /\ install[p] = "failed" /\ Pull(p)
  /\ install' = [install EXCEPT ![p] = "none"] /\ backoff' = [backoff EXCEPT ![p] = "waiting"]
  /\ Say(p, "failed", port)
  /\ UNCHANGED <<modules, npms, servers, faults>>

(* No install, or one that is done: look at the server.                       *)
Settled(p) == lock[p] # None /\ install[p] \in {"none", "ok"} /\ Pull(p)

(* Dependencies changed, or there are none.                                   *)
StartInstall(p, port) ==
  /\ Settled(p) /\ Stale(p) /\ p \notin targets.busy
  /\ IF Alive(p) THEN Stopped(p) ELSE UNCHANGED servers
  /\ install' = [install EXCEPT ![p] = "running"]
  /\ npms' = [npms EXCEPT ![p] = @ \cup {[of |-> "bridge", lock |-> lock'[p]]}]
  /\ Say(p, "installing", port)
  /\ UNCHANGED <<modules, backoff, faults>>

WaitForRun(p, port) ==
  /\ Settled(p) /\ Stale(p) /\ p \in targets.busy /\ ~Alive(p)
  /\ install' = [install EXCEPT ![p] = "none"]
  /\ Say(p, "stopped", port)
  /\ UNCHANGED <<modules, npms, servers, backoff, faults>>

(* The server is asked at the port of the project's turn.                     *)
Check(p, port) ==
  /\ Settled(p) /\ Alive(p) /\ (Stale(p) => p \in targets.busy)
  /\ install' = [install EXCEPT ![p] = "none"]
  /\ IF Listening(port)
       THEN Say(p, "running", port) /\ backoff' = [backoff EXCEPT ![p] = "none"]
       ELSE Say(p, "starting", port) /\ UNCHANGED backoff
  /\ UNCHANGED <<modules, npms, servers, faults>>

Down(p) == Settled(p) /\ ~Stale(p) /\ ~Alive(p)

BackOff(p, port) ==
  /\ Down(p) /\ backoff[p] = "waiting"
  /\ install' = [install EXCEPT ![p] = "none"]
  /\ Say(p, "failed", port)
  /\ UNCHANGED <<modules, npms, servers, backoff, faults>>

NoSecrets(p, port) ==
  /\ Down(p) /\ backoff[p] # "waiting" /\ Fault("secrets-fail")
  /\ install' = [install EXCEPT ![p] = "none"] /\ backoff' = [backoff EXCEPT ![p] = "waiting"]
  /\ Say(p, "failed", port)
  /\ UNCHANGED <<modules, npms, servers>>

(* The first half of start: the server is there, its state file is not.  One   *)
(* that was there before and died is started once more, and then waited for.   *)
Spawn(p, port) ==
  /\ Down(p) /\ backoff[p] # "waiting"
  /\ install' = [install EXCEPT ![p] = "none"]
  /\ spawned' = [project |-> p, port |-> port]
  /\ backoff' = IF HasFile(p) THEN [backoff EXCEPT ![p] = "waiting"] ELSE backoff
  /\ UNCHANGED <<report, modules, npms, servers, faults>>

SuperviseOne(p, port) ==
  \/ Spawn(p, port)
  \/ /\ \/ NoCheckout(p, port)
        \/ InstallContinues(p, port) \/ InstallYields(p, port) \/ InstallFailed(p, port)
        \/ StartInstall(p, port) \/ WaitForRun(p, port)
        \/ Check(p, port) \/ BackOff(p, port) \/ NoSecrets(p, port)
     /\ UNCHANGED spawned

(* The project at the head of the list.  When there is no port left, pickPort *)
(* throws and the turn ends.                                                  *)
Turn ==
  /\ pc = "serve" /\ left # <<>> /\ spawned = NoServer /\ report = NoReport
  /\ left' = Tail(left)
  /\ LET p == Head(left) IN
       \/ /\ \E port \in PortFor(p) : taken' = taken \cup {port} /\ SuperviseOne(p, port)
       \/ /\ PortFor(p) = {}
          /\ UNCHANGED <<taken, spawned, report, lock, modules, npms, servers, memory, faults>>
  /\ UNCHANGED <<pc, targets, toStop, controlPlane, origin, strays>>

(* The second half of start.                                                  *)
WriteState ==
  /\ spawned # NoServer /\ spawned' = NoServer
  /\ LET p == spawned.project IN
       /\ file' = [file EXCEPT ![p] = [port |-> spawned.port, lock |-> lock[p]]]
       /\ server' = [server EXCEPT ![p] = "starting"]
       /\ Say(p, "starting", spawned.port)
  /\ UNCHANGED <<pc, targets, toStop, left, taken, controlPlane, checkouts, loose, cutOff, strays,
                 memory, faults>>

(* The start ends between its halves: its server stays, in no file.  A file   *)
(* written in part reads as none.                                             *)
Unrecorded ==
  IF spawned = NoServer THEN {}
  ELSE {[project |-> spawned.project, port |-> spawned.port, state |-> "starting", nth |-> cutOff + 1]}
CutOff ==
  /\ cutOff' = IF spawned = NoServer THEN cutOff ELSE cutOff + 1
  /\ spawned' = NoServer
OldFileOrNone == {file} \cup {[file EXCEPT ![s.project] = NoFile] : s \in Unrecorded}

(* The commit, the lockfile or the disk fails start: superviseOne catches it. *)
WriteFails ==
  /\ spawned # NoServer /\ Fault("write-fails") /\ CutOff
  /\ loose' = loose \cup Unrecorded /\ file' \in OldFileOrNone
  /\ backoff' = [backoff EXCEPT ![spawned.project] = "waiting"]
  /\ Say(spawned.project, "failed", spawned.port)
  /\ UNCHANGED <<pc, targets, toStop, left, taken, controlPlane, checkouts, server, strays, install>>

(* The memory goes with the bridge; an npm goes on, unless it died with it.   *)
Gone ==
  /\ CutOff
  /\ pc' = "idle" /\ targets' = NoTargets /\ toStop' = {} /\ left' = <<>> /\ taken' = {}
  /\ report' = NoReport
  /\ install' = [p \in Projects |-> "none"] /\ backoff' = [p \in Projects |-> "none"]
  /\ npms' = [p \in Projects |-> Released(p, "orphan")]

Crash ==
  /\ Fault("crash") /\ Gone
  /\ loose' = loose \cup Unrecorded /\ file' \in OldFileOrNone
  /\ UNCHANGED <<controlPlane, lock, origin, modules, server, strays>>

(* start-local.sh ends the bridge, then every server on file.                 *)
ShutDown ==
  /\ Fault("shutdown") /\ Gone
  /\ file' = [p \in Projects |-> NoFile] /\ server' = [p \in Projects |-> "down"]
  /\ loose' = loose \cup Unrecorded \cup {OnTheWayOut(p) : p \in {q \in Projects : Alive(q)}}
  /\ UNCHANGED <<controlPlane, lock, origin, modules, strays>>

-----------------------------------------------------------------------------
(* The machine *)

(* npm ci removes node_modules and fills it again; beside another npm it may  *)
(* find what it wrote gone.                                                   *)
NpmWorks(p) ==
  /\ npms[p] # {}
  /\ \E half \in {Absent, Partial} : modules' = [modules EXCEPT ![p] = half]
  /\ UNCHANGED <<controlPlane, lock, origin, npms, servers, strays, memory, pass, faults>>

NpmLeaves(p, npm, leaves) ==
  /\ npms' = [npms EXCEPT ![p] = @ \ {npm}]
  /\ \E left_ \in leaves : modules' = [modules EXCEPT ![p] = left_]
  /\ UNCHANGED <<controlPlane, lock, origin, servers, strays, pass>>

InstallEnds(p) ==
  /\ \E npm \in npms[p] :
       /\ npm.of = "bridge"
       /\ NpmLeaves(p, npm, {npm.lock} \cup (IF npms[p] = {npm} THEN {} ELSE {Partial}))
  /\ install' = [install EXCEPT ![p] = "ok"]
  /\ UNCHANGED <<backoff, faults>>

InstallFails(p) ==
  /\ \E npm \in npms[p] :
       /\ npm.of = "bridge"
       /\ NpmLeaves(p, npm, {modules[p], Absent, Partial})
       /\ Fault("npm-fails") \/ (npms[p] # {npm} /\ UNCHANGED faults)
  /\ install' = [install EXCEPT ![p] = "failed"]
  /\ UNCHANGED backoff

(* An npm nobody waits for was stopped half way, or came to its end.          *)
NpmEnds(p) ==
  /\ \E npm \in npms[p] :
       npm.of # "bridge" /\ NpmLeaves(p, npm, {modules[p], Absent, Partial, npm.lock})
  /\ UNCHANGED <<memory, faults>>

(* A server needs its modules and its port, and may not bear another one in   *)
(* the same checkout.                                                         *)
Broken(p, port) == modules[p] \in {Absent, Partial} \/ Listening(port)
Crowded(p) == \E s \in loose : s.project = p

ServerUp(p) ==
  /\ server[p] = "starting" /\ ~Broken(p, file[p].port)
  /\ server' = [server EXCEPT ![p] = "up"]
  /\ UNCHANGED <<controlPlane, checkouts, file, loose, cutOff, strays, memory, pass, faults>>

ServerFails(p) ==
  /\ server[p] = "starting" /\ (Broken(p, file[p].port) \/ Crowded(p))
  /\ server' = [server EXCEPT ![p] = "down"]
  /\ UNCHANGED <<controlPlane, checkouts, file, loose, cutOff, strays, memory, pass, faults>>

ServerDies(p) ==
  /\ server[p] # "down" /\ Fault("server-dies")
  /\ server' = [server EXCEPT ![p] = "down"]
  /\ UNCHANGED <<controlPlane, checkouts, file, loose, cutOff, strays, memory, pass>>

LooseUp(s) ==
  /\ s.state = "starting" /\ ~Broken(s.project, s.port)
  /\ loose' = (loose \ {s}) \cup {[s EXCEPT !.state = "up"]}
  /\ UNCHANGED <<controlPlane, checkouts, file, server, cutOff, strays, memory, pass, faults>>

(* One on its way out ends; another one like any server.                      *)
LooseEnds(s) ==
  /\ \/ s.state = "ending" /\ UNCHANGED faults
     \/ s.state = "starting" /\ UNCHANGED faults
     \/ s.state # "ending" /\ Fault("server-dies")
  /\ loose' = loose \ {s}
  /\ UNCHANGED <<controlPlane, checkouts, file, server, cutOff, strays, memory, pass>>

PortTaken(port) ==
  /\ ~Listening(port) /\ Fault("port-taken")
  /\ strays' = strays \cup {port}
  /\ UNCHANGED <<controlPlane, checkouts, servers, memory, pass>>

PortReleased(port) ==
  /\ port \in strays
  /\ strays' = strays \ {port}
  /\ UNCHANGED <<controlPlane, checkouts, servers, memory, pass, faults>>

BackoffEnds(p) ==
  /\ backoff[p] = "waiting"
  /\ backoff' = [backoff EXCEPT ![p] = "past"]
  /\ UNCHANGED <<controlPlane, checkouts, servers, strays, install, pass, faults>>

(* Genesis registered the project, and its checkout is cloned.                *)
Join(p) ==
  /\ p \notin Listed
  /\ order' = <<p>> \o order
  /\ UNCHANGED <<rows, inFlight, checkouts, servers, strays, memory, pass, faults>>

Cloned(p) ==
  /\ lock[p] = None
  /\ lock' = [lock EXCEPT ![p] = origin[p]]
  /\ UNCHANGED <<controlPlane, origin, modules, npms, servers, strays, memory, pass, faults>>

(* Something happens in the project at place k: it is the latest.             *)
Activity(k) ==
  /\ Fault("activity")
  /\ order' = [i \in DOMAIN order |-> IF i = 1 THEN order[k]
                                    ELSE IF i <= k THEN order[i - 1] ELSE order[i]]
  /\ UNCHANGED <<rows, inFlight, checkouts, servers, strays, memory, pass>>

RunStarts(p) ==
  /\ p \in Listed /\ Fault("run")
  /\ inFlight' = [inFlight EXCEPT ![p] = IF @ = {} THEN {"newest"} ELSE {"newest", "older"}]
  /\ UNCHANGED <<rows, order, checkouts, servers, strays, memory, pass>>

RunEnds(p) ==
  /\ \E run \in inFlight[p] : inFlight' = [inFlight EXCEPT ![p] = @ \ {run}]
  /\ UNCHANGED <<rows, order, checkouts, servers, strays, memory, pass, faults>>

Merge(p) ==
  /\ p \in Listed /\ origin[p] < MaxLocks /\ Fault("merge")
  /\ origin' = [origin EXCEPT ![p] = @ + 1]
  /\ UNCHANGED <<controlPlane, lock, modules, npms, servers, strays, memory, pass>>

-----------------------------------------------------------------------------
Supervise ==
  \/ ReadTargets \/ (\E p \in Projects : StopUnwanted(p)) \/ StartServing
  \/ Turn \/ WriteState \/ WriteFails \/ Report \/ PassEnds

Machine ==
  \/ \E p \in Projects :
       \/ NpmWorks(p) \/ InstallEnds(p) \/ InstallFails(p) \/ NpmEnds(p)
       \/ ServerUp(p) \/ ServerFails(p) \/ ServerDies(p) \/ BackoffEnds(p)
  \/ \E s \in loose : LooseUp(s) \/ LooseEnds(s)
  \/ \E port \in Ports : PortTaken(port) \/ PortReleased(port)

Line ==
  \/ \E p \in Projects : Join(p) \/ Cloned(p) \/ RunStarts(p) \/ RunEnds(p) \/ Merge(p)
  \/ \E k \in 2..Len(order) : Activity(k)

Next == Supervise \/ Crash \/ ShutDown \/ Machine \/ Line

Spec == Init /\ [][Next]_vars

(* The bridge keeps making passes; npms end, also those nobody waits for;     *)
(* started servers come up or fail, and those told to end do; backoffs and    *)
(* runs end, and a checkout is cloned.                                        *)
Fairness ==
  /\ WF_vars(Supervise)
  /\ \A p \in Projects :
       /\ WF_vars(InstallEnds(p)) /\ WF_vars(NpmEnds(p))
       /\ WF_vars(ServerUp(p)) /\ WF_vars(ServerFails(p))
       /\ WF_vars(BackoffEnds(p)) /\ WF_vars(RunEnds(p)) /\ WF_vars(Cloned(p))
       /\ WF_vars(\E s \in loose : s.project = p /\ s.state = "ending" /\ LooseEnds(s))
FairSpec == Spec /\ Fairness

-----------------------------------------------------------------------------
(* Properties *)

TypeOK ==
  /\ rows \in [Projects -> Row]
  /\ inFlight \in [Projects -> SUBSET {"newest", "older"}] /\ order \in Seq(Projects)
  /\ lock \in [Projects -> Locks \cup {None}] /\ origin \in [Projects -> Locks]
  /\ modules \in [Projects -> Locks \cup {Absent, Partial}] /\ npms \in [Projects -> SUBSET Npm]
  /\ file \in [Projects -> State \cup {NoFile}]
  /\ server \in [Projects -> {"down", "starting", "up"}]
  /\ loose \subseteq Loose /\ cutOff \in 0..faults /\ strays \subseteq Ports
  /\ install \in [Projects -> {"none", "running", "ok", "failed"}]
  /\ backoff \in [Projects -> {"none", "waiting", "past"}]
  /\ pc \in {"idle", "stop", "serve"}
  /\ targets \in [order : Seq(Projects), port : [Projects -> Ports \cup {None}],
                  busy : SUBSET Projects]
  /\ toStop \subseteq Projects /\ left \in Seq(Projects) /\ taken \subseteq Ports
  /\ spawned \in {NoServer} \cup [project : {p \in Projects : lock[p] # None}, port : Ports]
  /\ report \in {NoReport} \cup [status : Statuses, project : Projects, port : Ports]
  /\ faults \in 0..MaxFaults

(* The servers on file and the one being started; those whose start was cut   *)
(* off, which nothing tells to end.                                           *)
Served == {p \in Projects : server[p] # "down" \/ (spawned # NoServer /\ spawned.project = p)}
Lost == {s \in loose : s.state # "ending"}

(* No more servers run at once than LOCAL_SERVERS_MAX allows, whatever the    *)
(* order of the projects does between passes and whichever servers a          *)
(* restarted bridge finds: the servers on file, one being started and those   *)
(* in no file, without those already told to end, and with one more for each  *)
(* start that was cut off before its server was written down (supervise).     *)
CapHolds ==
  MaxServers > 0 => Cardinality(Served) + Cardinality(Lost) <= MaxServers + cutOff

(* The control plane never has two projects at the same port, whatever reports *)
(* were lost and whichever servers a restarted bridge found: the operator's    *)
(* link to one product does not open another (supervise, pickPort).            *)
PortsApart ==
  \A p, q \in Projects : p # q /\ rows[p].port # None => rows[p].port # rows[q].port

(* A project's turn in a pass that knows of a run in its checkout.  A turn     *)
(* that finds no port ends before it looks at anything.                        *)
TurnBesideRun(p) ==
  /\ pc = "serve" /\ pc' = "serve" /\ p \in targets.busy
  /\ left # <<>> /\ Head(left) = p /\ left' = Tail(left) /\ PortFor(p) # {}

(* Where the pass knows of a run, a turn leaves none of this bridge's own npms *)
(* at work that was not told to end: it starts no install there, and tells the *)
(* one to end that it started before the run came (superviseOne).  An npm of a *)
(* bridge that died is none of its own, and nothing in the code knows of it.   *)
InstallsYield ==
  [][\A p \in Projects : TurnBesideRun(p) => \A npm \in npms'[p] : npm.of # "bridge"]_vars

(* A state file of a dead server with another lockfile, dependencies left     *)
(* half installed, and a state file with another port than the row's are what *)
(* the supervision does not get out of; it needs a place under the cap, a port *)
(* nobody else has, and a checkout without a server it does not know of.       *)
Sound(p) ==
  /\ \E i \in DOMAIN order : order[i] = p /\ (MaxServers > 0 => i <= MaxServers)
  /\ \E port \in Ports \ strays :
       /\ \A q \in Projects \ {p} : port \notin {rows[q].port, file[q].port}
       /\ \A s \in loose : port # s.port
  /\ HasFile(p) => file[p].lock = lock[p] \/ Alive(p)
  /\ HasFile(p) /\ rows[p].port # None => file[p].port = rows[p].port
  /\ modules[p] # Partial /\ ~Crowded(p)

(* Every product is served in the end: after crashes, merges, runs, dead      *)
(* servers and lost ports, the server comes up and the control plane says so. *)
ServedInTheEnd ==
  \A p \in Projects :
    <>[]Sound(p) => []<>(server[p] = "up" /\ rows[p] = [status |-> "running", port |-> file[p].port])
=============================================================================
