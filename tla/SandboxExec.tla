---------------------------- MODULE SandboxExec ----------------------------
(***************************************************************************)
(* One call of sandbox-exec, the wrapper Machinist runs an agent through:  *)
(* it starts the inner command on this machine, in a docker container or   *)
(* in a Daytona sandbox, passes its output on, stops it when Machinist     *)
(* sends SIGTERM, and exits with its code (cmd/sandbox-exec/main.go,       *)
(* internal/backend).  One action per call to the outside; every call may  *)
(* fail, and the signal may arrive at any moment.                          *)
(***************************************************************************)
EXTENDS Naturals

CONSTANTS Backends,   \* the backends configured
          MaxOutput   \* bound: pieces of output the command writes

ASSUME SandboxAssumption == Backends \subseteq {"local", "docker", "daytona"} /\ MaxOutput \in Nat

VARIABLES
  backend,    \* where this call runs its command
  pc,         \* the call that comes next, "returned" or "killed"
  cancelled,  \* SIGTERM or SIGINT arrived (the context is done)
  code,       \* the exit code decided on
  sandbox,    \* the container or Daytona sandbox
  client,     \* the docker client process; "alone": it ended without the command's exit
  command,    \* the inner command; for the local backend the group's leader
  members,    \* the command started processes that are still in its group
  output,     \* what the command has written
  delivered,  \* what sandbox-exec has passed on of it
  lost        \* history: the calls that went wrong in a way that leaves something

vars == <<backend, pc, cancelled, code, sandbox, client, command, members, output, delivered, lost>>

outside == <<sandbox, client, command, members, output>>

Over == {"returned", "killed"}
DaytonaCalls == {"waiting", "upload", "session", "exec", "logs", "poll", "drain", "destroy"}
ProcessCalls == {"wait", "stopping", "grace"}

TypeOK ==
  /\ backend \in {"local", "docker", "daytona"}
  /\ pc \in {"start"} \cup DaytonaCalls \cup ProcessCalls \cup Over
  /\ cancelled \in BOOLEAN /\ members \in BOOLEAN
  /\ code \in {"none", "inner", "client", "unavailable", "sigterm", "sigkill"}
  /\ sandbox \in {"none", "starting", "started", "failed", "gone"}
  /\ client \in {"none", "running", "exited", "alone"}
  /\ command \in {"none", "running", "exited", "stopped"}
  /\ output \in 0..MaxOutput /\ delivered \in 0..output
  /\ lost \subseteq {"create", "destroy", "kill", "drain", "client"}

Init ==
  /\ backend \in Backends
  /\ pc = "start" /\ cancelled = FALSE /\ code = "none"
  /\ sandbox = "none" /\ client = "none" /\ command = "none" /\ members = FALSE
  /\ output = 0 /\ delivered = 0 /\ lost = {}

At(b, here) == backend = b /\ pc = here
Goto(next) == pc' = next
Return(c) == pc' = "returned" /\ code' = c
Unharmed == UNCHANGED <<backend, cancelled, lost>>

-----------------------------------------------------------------------------
(* Daytona: create, wait, upload the prompt, open a session, run, stream,    *)
(* destroy.                                                                  *)

(* A missing argument, an unknown backend, missing credentials, or a command *)
(* that cannot be started.                                                   *)
Refuse ==
  /\ pc = "start" /\ Return("unavailable")
  /\ Unharmed /\ UNCHANGED <<outside, delivered>>

Create ==
  /\ At("daytona", "start") /\ ~cancelled
  /\ sandbox' = "starting" /\ Goto("waiting")
  /\ Unharmed /\ UNCHANGED <<code, client, command, members, output, delivered>>

(* The request reached Daytona and its answer did not come back: there is no *)
(* id to destroy.                                                            *)
CreateUnanswered ==
  /\ At("daytona", "start")
  /\ sandbox' = "starting" /\ lost' = lost \cup {"create"} /\ Return("unavailable")
  /\ UNCHANGED <<backend, cancelled, client, command, members, output, delivered>>

(* A call that succeeds; with the context done no call does. *)
Proceed(here, next) ==
  /\ At("daytona", here) /\ ~cancelled /\ Goto(next)
  /\ Unharmed /\ UNCHANGED <<code, outside, delivered>>

WaitStarted == sandbox = "started" /\ Proceed("waiting", "upload")
Upload == Proceed("upload", "session")
OpenSession == Proceed("session", "exec")

Exec ==
  /\ At("daytona", "exec") /\ ~cancelled
  /\ command' = (IF sandbox = "started" THEN "running" ELSE command)
  /\ Goto("logs")
  /\ Unharmed /\ UNCHANGED <<code, sandbox, client, members, output, delivered>>

(* The deferred destruction follows every return after the creation. *)
Leave(c) == Goto("destroy") /\ code' = c

(* Mutant: the destruction deferred only once the sandbox has started. *)
AbandonUnstarted ==
  /\ backend = "daytona" /\ pc \in {"waiting", "upload", "session", "exec", "logs"}
  /\ IF pc = "waiting" THEN Return("unavailable") ELSE Leave("unavailable")
  /\ Unharmed /\ UNCHANGED <<outside, delivered>>

(* A failed call, a sandbox that failed or took too long, a done context, or *)
(* nobody to pass the output on to; after a failed exec the command may run  *)
(* all the same.                                                             *)
Abandon ==
  /\ backend = "daytona" /\ pc \in {"waiting", "upload", "session", "exec", "logs"}
  /\ Leave("unavailable")
  /\ command' \in {command} \cup (IF pc = "exec" /\ sandbox = "started" THEN {"running"} ELSE {})
  /\ Unharmed /\ UNCHANGED <<sandbox, client, members, output, delivered>>

(* Mutant: every read is passed on from its beginning. *)
ReadLogsAgain ==
  /\ At("daytona", "logs") /\ Goto("poll")
  /\ delivered' \in {delivered} \cup (IF cancelled THEN {} ELSE {delivered + output})
  /\ Unharmed /\ UNCHANGED <<code, outside>>

(* The new suffix of the command's output; a failed read is passed over. *)
ReadLogs ==
  /\ At("daytona", "logs") /\ Goto("poll")
  /\ delivered' \in {delivered} \cup (IF cancelled THEN {} ELSE {output})
  /\ Unharmed /\ UNCHANGED <<code, outside>>

PollRunning ==
  /\ At("daytona", "poll") /\ ~cancelled /\ command = "running" /\ Goto("logs")
  /\ Unharmed /\ UNCHANGED <<code, outside, delivered>>

(* Mutant: the exit is taken for the end of the output. *)
PollExitedUndrained ==
  /\ At("daytona", "poll") /\ ~cancelled /\ command = "exited" /\ Leave("inner")
  /\ Unharmed /\ UNCHANGED <<outside, delivered>>

PollExited ==
  /\ At("daytona", "poll") /\ ~cancelled /\ command = "exited" /\ Goto("drain")
  /\ Unharmed /\ UNCHANGED <<code, outside, delivered>>

(* Mutant: a poll without an answer is tried again, whatever the context says. *)
PollRetries ==
  /\ At("daytona", "poll") /\ Goto("logs")
  /\ Unharmed /\ UNCHANGED <<code, outside, delivered>>

(* The answer of a poll is lost, or the context is done. *)
PollEnds ==
  /\ At("daytona", "poll") /\ Leave(IF cancelled THEN "sigterm" ELSE "unavailable")
  /\ Unharmed /\ UNCHANGED <<outside, delivered>>

(* Output that arrived between the last read and the exit. *)
Drain ==
  /\ At("daytona", "drain") /\ ~cancelled
  /\ delivered' = output /\ Leave("inner")
  /\ Unharmed /\ UNCHANGED outside

DrainFails ==
  /\ At("daytona", "drain") /\ Leave("inner") /\ lost' = lost \cup {"drain"}
  /\ UNCHANGED <<backend, cancelled, outside, delivered>>

(* With a context of its own, which the signal does not cancel. *)
Destroy ==
  /\ At("daytona", "destroy") /\ Goto("returned")
  /\ sandbox' = "gone" /\ command' = (IF command = "running" THEN "stopped" ELSE command)
  /\ Unharmed /\ UNCHANGED <<code, client, members, output, delivered>>

DestroyFails ==
  /\ At("daytona", "destroy") /\ Goto("returned") /\ lost' = lost \cup {"destroy"}
  /\ UNCHANGED <<backend, cancelled, code, outside, delivered>>

-----------------------------------------------------------------------------
(* A process of this machine: the command itself, or the docker client.      *)

StartLocal ==
  /\ At("local", "start")
  /\ command' = "running" /\ members' \in BOOLEAN /\ Goto("wait")
  /\ Unharmed /\ UNCHANGED <<code, sandbox, client, output, delivered>>

StartDocker ==
  /\ At("docker", "start")
  /\ client' = "running" /\ Goto("wait")
  /\ Unharmed /\ UNCHANGED <<code, sandbox, command, members, output, delivered>>

ProcessDone == IF backend = "local" THEN command = "exited" ELSE client \in {"exited", "alone"}
ProcessCode == IF client = "alone" THEN "client" ELSE "inner"

(* The process ended, before the signal, after it or together with it. *)
Wait ==
  /\ pc \in {"wait", "grace"} /\ ProcessDone /\ Return(ProcessCode)
  /\ Unharmed /\ UNCHANGED <<outside, delivered>>

(* SIGTERM to the process group, then the backend's own cleanup. *)
Terminate ==
  /\ pc = "wait" /\ cancelled
  /\ Goto(IF backend = "docker" THEN "stopping" ELSE "grace")
  /\ Unharmed /\ UNCHANGED <<code, outside, delivered>>

(* docker kill stops a container that is up and does nothing otherwise. *)
Kill ==
  /\ At("docker", "stopping") /\ Goto("grace")
  /\ IF sandbox = "started"
       THEN sandbox' = "gone" /\ command' = "stopped" /\ UNCHANGED lost
       ELSE UNCHANGED <<sandbox, command>> /\ lost' = (IF sandbox = "gone" THEN lost ELSE lost \cup {"kill"})
  /\ UNCHANGED <<backend, cancelled, code, client, members, output, delivered>>

KillFails ==
  /\ At("docker", "stopping") /\ Goto("grace") /\ lost' = lost \cup {"kill"}
  /\ UNCHANGED <<backend, cancelled, code, outside, delivered>>

(* The grace period is over: SIGKILL to the process group. *)
GraceOver ==
  /\ pc = "grace" /\ ~ProcessDone /\ Return("sigkill")
  /\ members' = FALSE
  /\ IF backend = "local" THEN command' = "stopped" /\ UNCHANGED client
                          ELSE client' = "alone" /\ UNCHANGED command
  /\ Unharmed /\ UNCHANGED <<sandbox, output, delivered>>

-----------------------------------------------------------------------------
(* What happens meanwhile.                                                   *)

still == <<backend, pc, code, lost>>

(* Machinist's timeout or the operator's cancellation. *)
Signal ==
  /\ pc \notin Over /\ ~cancelled /\ cancelled' = TRUE
  /\ UNCHANGED <<still, outside, delivered>>

(* sandbox-exec itself is killed: nothing of it runs any more. *)
Killed ==
  /\ pc \notin Over /\ Goto("killed")
  /\ UNCHANGED <<backend, cancelled, code, lost, outside, delivered>>

(* The client asks the docker daemon for the container. *)
AskForContainer ==
  /\ client = "running" /\ sandbox = "none" /\ sandbox' = "starting"
  /\ UNCHANGED <<still, cancelled, client, command, members, output, delivered>>

Boot ==
  /\ sandbox = "starting"
  /\ \/ sandbox' = "started" /\ command' = (IF backend = "docker" THEN "running" ELSE command)
     \/ sandbox' = (IF backend = "docker" THEN "gone" ELSE "failed") /\ UNCHANGED command
  /\ UNCHANGED <<still, cancelled, client, members, output, delivered>>

(* A Daytona sandbox that fails takes its command with it. *)
SandboxFails ==
  /\ backend = "daytona" /\ sandbox = "started" /\ sandbox' = "failed"
  /\ command' = (IF command = "running" THEN "stopped" ELSE command)
  /\ UNCHANGED <<still, cancelled, client, members, output, delivered>>

(* The output of a process of this machine needs nobody to pass it on. *)
Write ==
  /\ command = "running" /\ output < MaxOutput /\ output' = output + 1
  /\ delivered' = (IF backend = "local" \/ client = "running" THEN delivered + 1 ELSE delivered)
  /\ UNCHANGED <<still, cancelled, sandbox, client, command, members>>

(* The command exits, by itself or on the signal; its container goes with it.*)
CommandExits ==
  /\ command = "running" /\ command' = "exited"
  /\ sandbox' = (IF backend = "docker" THEN "gone" ELSE sandbox)
  /\ UNCHANGED <<still, cancelled, client, members, output, delivered>>

MembersExit ==
  /\ members /\ members' = FALSE
  /\ UNCHANGED <<still, cancelled, sandbox, client, command, output, delivered>>

(* The client ends with its container, with a container it does not get, or  *)
(* on a signal that comes before its container is up.                        *)
ClientExits ==
  /\ client = "running" /\ client' = (IF command = "exited" THEN "exited" ELSE "alone")
  /\ \/ sandbox \in {"none", "gone"}
     \/ sandbox = "starting" /\ pc \in {"stopping", "grace"}
  /\ UNCHANGED <<still, cancelled, sandbox, command, members, output, delivered>>

(* The client ends by itself, killed by its machine or cut off from the      *)
(* daemon; its container is the daemon's and goes on.                        *)
ClientDies ==
  /\ client = "running" /\ sandbox \in {"starting", "started"}
  /\ client' = "alone" /\ lost' = lost \cup {"client"}
  /\ UNCHANGED <<backend, pc, code, cancelled, sandbox, command, members, output, delivered>>

-----------------------------------------------------------------------------
Daytona ==
  \/ Create \/ CreateUnanswered \/ WaitStarted \/ Upload \/ OpenSession \/ Exec \/ Abandon
  \/ ReadLogs \/ PollRunning \/ PollExited \/ PollEnds \/ Drain \/ DrainFails
  \/ Destroy \/ DestroyFails

Process == StartLocal \/ StartDocker \/ Wait \/ Terminate \/ Kill \/ KillFails \/ GraceOver

Run == Refuse \/ Daytona \/ Process

Meanwhile ==
  \/ Signal \/ Killed \/ AskForContainer \/ Boot \/ SandboxFails \/ Write
  \/ CommandExits \/ MembersExit \/ ClientExits \/ ClientDies

Next == Run \/ Meanwhile

Spec == Init /\ [][Next]_vars

(* Every call has a timeout of its own (docker kill is assumed to return),   *)
(* and the client follows its container.                                     *)
FairSpec == Spec /\ WF_vars(Run) /\ WF_vars(ClientExits)

-----------------------------------------------------------------------------
(* Whatever call fails and whenever the signal comes, no container, sandbox  *)
(* or command outlives the call (daytona.go:102-111, docker.go:99-103,       *)
(* process.go:57-71), except after a creation without an answer, a failed    *)
(* destruction, a docker kill that found no container up, or a docker client *)
(* that ended before its container, after which nobody asks for a docker     *)
(* kill (process.go:56-57); and a group that outlives its grace is killed    *)
(* whole.                                                                    *)
NothingLeftBehind ==
  pc = "returned" =>
    /\ \/ sandbox \in {"none", "gone"} /\ command # "running"
       \/ lost \cap {"create", "destroy", "kill", "client"} # {}
    /\ code = "sigkill" => ~members

(* A call that reports the command's own exit has passed on all of its       *)
(* output, whatever reads failed on the way (daytona.go:254-272), unless the *)
(* read after the exit fails: the result line is in the last piece.          *)
OutputWhole ==
  pc = "returned" /\ code = "inner" => delivered = output \/ "drain" \in lost

(* A cancelled call returns, and so does one whose command has ended         *)
(* (process.go:57-71, daytona.go:263-277): a slot of Machinist is freed.     *)
CallReturns == (cancelled \/ command = "exited") ~> (pc \in Over)
=============================================================================
