------------------------- MODULE SandboxExecProofs -------------------------
(***************************************************************************)
(* What a call of sandbox-exec guarantees, for any set of backends and any *)
(* amount of output.                                                       *)
(*                                                                         *)
(* Neither property is inductive.  CallInv adds, per backend, what a step  *)
(* of the call has established: a container is up exactly while its        *)
(* command runs, a client that ended took its container with it unless the *)
(* signal came first or it ended by itself, and nothing writes once an     *)
(* exit was seen.                                                          *)
(***************************************************************************)
EXTENDS SandboxExec, TLAPS

OnDaytona ==
  /\ pc \in {"start"} \cup DaytonaCalls \cup Over
  /\ client = "none" /\ ~members
  /\ pc = "drain" => command = "exited"
  /\ code = "inner" => command = "exited"
  /\ code \notin {"sigkill", "client"}
  /\ pc = "destroy" /\ code = "inner" => delivered = output \/ "drain" \in lost

OnDocker ==
  /\ pc \in {"start"} \cup ProcessCalls \cup Over
  /\ ~members
  /\ sandbox # "failed"
  /\ (sandbox = "started") <=> (command = "running")
  /\ client = "none" => sandbox = "none"
  /\ pc = "wait" /\ client # "running" => sandbox \in {"none", "gone"} \/ "client" \in lost
  /\ pc = "grace" => sandbox = "gone" \/ "kill" \in lost
  /\ client # "alone" => delivered = output
  /\ client = "exited" => command = "exited"
  /\ command = "exited" => sandbox = "gone"
  /\ pc \in ProcessCalls => client # "none"
  /\ pc = "returned" => client # "running"
  /\ code = "inner" => client = "exited"

OnLocal ==
  /\ pc \in {"start"} \cup ProcessCalls \cup Over
  /\ pc # "stopping"
  /\ sandbox = "none" /\ client = "none"
  /\ delivered = output
  /\ pc = "returned" => command # "running"
  /\ code = "sigkill" => ~members

CallInv ==
  /\ TypeOK
  /\ backend = "daytona" => OnDaytona
  /\ backend = "docker" => OnDocker
  /\ backend = "local" => OnLocal
  /\ pc = "start" => sandbox = "none" /\ command = "none" /\ client = "none" /\ ~members
  /\ pc \notin {"destroy"} \cup Over => code = "none"
  /\ NothingLeftBehind /\ OutputWhole

USE DEF SandboxAssumption

(* Before the call, nothing runs. *)
LEMMA NothingRunsAtFirst == Init => CallInv
<1> SUFFICES ASSUME Init PROVE CallInv
  OBVIOUS
<1>1. backend \in {"local", "docker", "daytona"}
  BY SandboxAssumption DEF Init
<1>2. MaxOutput \in Nat
  BY SandboxAssumption
<1>3. output \in 0..MaxOutput /\ delivered \in 0..output
  BY <1>2 DEF Init
<1>4. TypeOK
  BY <1>1, <1>3 DEF Init, TypeOK
<1>5. OnDaytona /\ OnDocker /\ OnLocal
  BY DEF Init, OnDaytona, OnDocker, OnLocal, DaytonaCalls, ProcessCalls, Over
<1> QED
  BY <1>4, <1>5 DEF Init, CallInv, NothingLeftBehind, OutputWhole, Over

(* Every return of a Daytona call after the creation goes by the destruction. *)
LEMMA DaytonaKeepsInv ==
  ASSUME CallInv, Daytona
  PROVE  CallInv'
<1>1. CASE Create
  BY <1>1 DEF Create, CallInv, TypeOK, OnDaytona, OnDocker, OnLocal, NothingLeftBehind, OutputWhole,
         DaytonaCalls, ProcessCalls, Over, outside, still, Unharmed, At, Goto, Return, Leave, Proceed
<1>2. CASE CreateUnanswered
  BY <1>2 DEF CreateUnanswered, CallInv, TypeOK, OnDaytona, OnDocker, OnLocal, NothingLeftBehind, OutputWhole,
         DaytonaCalls, ProcessCalls, Over, outside, still, Unharmed, At, Goto, Return, Leave, Proceed
<1>3. CASE WaitStarted
  BY <1>3 DEF WaitStarted, CallInv, TypeOK, OnDaytona, OnDocker, OnLocal, NothingLeftBehind, OutputWhole,
         DaytonaCalls, ProcessCalls, Over, outside, still, Unharmed, At, Goto, Return, Leave, Proceed
<1>4. CASE Upload
  BY <1>4 DEF Upload, CallInv, TypeOK, OnDaytona, OnDocker, OnLocal, NothingLeftBehind, OutputWhole,
         DaytonaCalls, ProcessCalls, Over, outside, still, Unharmed, At, Goto, Return, Leave, Proceed
<1>5. CASE OpenSession
  BY <1>5 DEF OpenSession, CallInv, TypeOK, OnDaytona, OnDocker, OnLocal, NothingLeftBehind, OutputWhole,
         DaytonaCalls, ProcessCalls, Over, outside, still, Unharmed, At, Goto, Return, Leave, Proceed
<1>6. CASE Exec
  BY <1>6 DEF Exec, CallInv, TypeOK, OnDaytona, OnDocker, OnLocal, NothingLeftBehind, OutputWhole,
         DaytonaCalls, ProcessCalls, Over, outside, still, Unharmed, At, Goto, Return, Leave, Proceed
<1>7. CASE Abandon
  BY <1>7 DEF Abandon, CallInv, TypeOK, OnDaytona, OnDocker, OnLocal, NothingLeftBehind, OutputWhole,
         DaytonaCalls, ProcessCalls, Over, outside, still, Unharmed, At, Goto, Return, Leave, Proceed
<1>8. CASE ReadLogs
  BY <1>8 DEF ReadLogs, CallInv, TypeOK, OnDaytona, OnDocker, OnLocal, NothingLeftBehind, OutputWhole,
         DaytonaCalls, ProcessCalls, Over, outside, still, Unharmed, At, Goto, Return, Leave, Proceed
<1>9. CASE PollRunning
  BY <1>9 DEF PollRunning, CallInv, TypeOK, OnDaytona, OnDocker, OnLocal, NothingLeftBehind, OutputWhole,
         DaytonaCalls, ProcessCalls, Over, outside, still, Unharmed, At, Goto, Return, Leave, Proceed
<1>10. CASE PollExited
  BY <1>10 DEF PollExited, CallInv, TypeOK, OnDaytona, OnDocker, OnLocal, NothingLeftBehind, OutputWhole,
         DaytonaCalls, ProcessCalls, Over, outside, still, Unharmed, At, Goto, Return, Leave, Proceed
<1>11. CASE PollEnds
  BY <1>11 DEF PollEnds, CallInv, TypeOK, OnDaytona, OnDocker, OnLocal, NothingLeftBehind, OutputWhole,
         DaytonaCalls, ProcessCalls, Over, outside, still, Unharmed, At, Goto, Return, Leave, Proceed
<1>12. CASE Drain
  BY <1>12 DEF Drain, CallInv, TypeOK, OnDaytona, OnDocker, OnLocal, NothingLeftBehind, OutputWhole,
         DaytonaCalls, ProcessCalls, Over, outside, still, Unharmed, At, Goto, Return, Leave, Proceed
<1>13. CASE DrainFails
  BY <1>13 DEF DrainFails, CallInv, TypeOK, OnDaytona, OnDocker, OnLocal, NothingLeftBehind, OutputWhole,
         DaytonaCalls, ProcessCalls, Over, outside, still, Unharmed, At, Goto, Return, Leave, Proceed
<1>14. CASE Destroy
  BY <1>14 DEF Destroy, CallInv, TypeOK, OnDaytona, OnDocker, OnLocal, NothingLeftBehind, OutputWhole,
         DaytonaCalls, ProcessCalls, Over, outside, still, Unharmed, At, Goto, Return, Leave, Proceed
<1>15. CASE DestroyFails
  BY <1>15 DEF DestroyFails, CallInv, TypeOK, OnDaytona, OnDocker, OnLocal, NothingLeftBehind, OutputWhole,
         DaytonaCalls, ProcessCalls, Over, outside, still, Unharmed, At, Goto, Return, Leave, Proceed
<1> QED
  BY <1>1, <1>2, <1>3, <1>4, <1>5, <1>6, <1>7, <1>8, <1>9, <1>10, <1>11, <1>12, <1>13, <1>14, <1>15 DEF Daytona

(* A process that is waited for leaves nothing, a killed one neither. *)
LEMMA ProcessKeepsInv ==
  ASSUME CallInv, Process
  PROVE  CallInv'
<1>1. CASE StartLocal
  BY <1>1 DEF StartLocal, CallInv, TypeOK, OnDaytona, OnDocker, OnLocal, NothingLeftBehind, OutputWhole,
         DaytonaCalls, ProcessCalls, Over, outside, still, Unharmed, At, Goto, Return, Leave, Proceed, ProcessDone, ProcessCode
<1>2. CASE StartDocker
  BY <1>2 DEF StartDocker, CallInv, TypeOK, OnDaytona, OnDocker, OnLocal, NothingLeftBehind, OutputWhole,
         DaytonaCalls, ProcessCalls, Over, outside, still, Unharmed, At, Goto, Return, Leave, Proceed, ProcessDone, ProcessCode
<1>3. CASE Wait
  BY <1>3 DEF Wait, CallInv, TypeOK, OnDaytona, OnDocker, OnLocal, NothingLeftBehind, OutputWhole,
         DaytonaCalls, ProcessCalls, Over, outside, still, Unharmed, At, Goto, Return, Leave, Proceed, ProcessDone, ProcessCode
<1>4. CASE Terminate
  BY <1>4 DEF Terminate, CallInv, TypeOK, OnDaytona, OnDocker, OnLocal, NothingLeftBehind, OutputWhole,
         DaytonaCalls, ProcessCalls, Over, outside, still, Unharmed, At, Goto, Return, Leave, Proceed, ProcessDone, ProcessCode
<1>5. CASE Kill
  BY <1>5 DEF Kill, CallInv, TypeOK, OnDaytona, OnDocker, OnLocal, NothingLeftBehind, OutputWhole,
         DaytonaCalls, ProcessCalls, Over, outside, still, Unharmed, At, Goto, Return, Leave, Proceed, ProcessDone, ProcessCode
<1>6. CASE KillFails
  BY <1>6 DEF KillFails, CallInv, TypeOK, OnDaytona, OnDocker, OnLocal, NothingLeftBehind, OutputWhole,
         DaytonaCalls, ProcessCalls, Over, outside, still, Unharmed, At, Goto, Return, Leave, Proceed, ProcessDone, ProcessCode
<1>7. CASE GraceOver
  BY <1>7 DEF GraceOver, CallInv, TypeOK, OnDaytona, OnDocker, OnLocal, NothingLeftBehind, OutputWhole,
         DaytonaCalls, ProcessCalls, Over, outside, still, Unharmed, At, Goto, Return, Leave, Proceed, ProcessDone, ProcessCode
<1> QED
  BY <1>1, <1>2, <1>3, <1>4, <1>5, <1>6, <1>7 DEF Process

(* What happens meanwhile respects what the call relies on. *)
LEMMA MeanwhileKeepsInv ==
  ASSUME CallInv, Meanwhile
  PROVE  CallInv'
<1>1. CASE Signal
  BY <1>1 DEF Signal, CallInv, TypeOK, OnDaytona, OnDocker, OnLocal, NothingLeftBehind, OutputWhole,
         DaytonaCalls, ProcessCalls, Over, outside, still, Unharmed, At, Goto, Return, Leave, Proceed
<1>2. CASE Killed
  BY <1>2 DEF Killed, CallInv, TypeOK, OnDaytona, OnDocker, OnLocal, NothingLeftBehind, OutputWhole,
         DaytonaCalls, ProcessCalls, Over, outside, still, Unharmed, At, Goto, Return, Leave, Proceed
<1>3. CASE AskForContainer
  BY <1>3 DEF AskForContainer, CallInv, TypeOK, OnDaytona, OnDocker, OnLocal, NothingLeftBehind, OutputWhole,
         DaytonaCalls, ProcessCalls, Over, outside, still, Unharmed, At, Goto, Return, Leave, Proceed
<1>4. CASE Boot
  <2>1. CASE sandbox' = "started" /\ backend = "docker" /\ command' = "running"
    BY <1>4, <2>1 DEF Boot, CallInv, TypeOK, OnDaytona, OnDocker, OnLocal, NothingLeftBehind, OutputWhole,
           DaytonaCalls, ProcessCalls, Over, outside, still, Unharmed, At, Goto, Return, Leave, Proceed
  <2>2. CASE sandbox' = "started" /\ backend # "docker" /\ command' = command
    BY <1>4, <2>2 DEF Boot, CallInv, TypeOK, OnDaytona, OnDocker, OnLocal, NothingLeftBehind, OutputWhole,
           DaytonaCalls, ProcessCalls, Over, outside, still, Unharmed, At, Goto, Return, Leave, Proceed
  <2>3. CASE sandbox' \in {"gone", "failed"} /\ command' = command
    BY <1>4, <2>3 DEF Boot, CallInv, TypeOK, OnDaytona, OnDocker, OnLocal, NothingLeftBehind, OutputWhole,
           DaytonaCalls, ProcessCalls, Over, outside, still, Unharmed, At, Goto, Return, Leave, Proceed
  <2> QED
    BY <1>4, <2>1, <2>2, <2>3 DEF Boot
<1>5. CASE SandboxFails
  BY <1>5 DEF SandboxFails, CallInv, TypeOK, OnDaytona, OnDocker, OnLocal, NothingLeftBehind, OutputWhole,
         DaytonaCalls, ProcessCalls, Over, outside, still, Unharmed, At, Goto, Return, Leave, Proceed
<1>6. CASE Write
  <2> MaxOutput \in Nat /\ output \in 0..MaxOutput /\ delivered \in 0..output
    BY SandboxAssumption DEF CallInv, TypeOK
  <2>1. output' \in 0..MaxOutput /\ delivered' \in 0..output'
    <3>1. output' = output + 1 /\ output < MaxOutput /\ (delivered' = delivered + 1 \/ delivered' = delivered)
      BY <1>6 DEF Write
    <3> QED
      BY <3>1
  <2>2. TypeOK'
    BY <1>6, <2>1 DEF Write, CallInv, TypeOK, still
  <2>3. (backend = "local" \/ client = "running") /\ delivered = output => delivered' = output'
    BY <1>6 DEF Write
  <2>4. /\ command = "running" /\ command' = command
        /\ backend' = backend /\ pc' = pc /\ code' = code /\ sandbox' = sandbox
        /\ client' = client /\ members' = members /\ lost' = lost
    BY <1>6 DEF Write, still
  <2>5. (backend = "daytona" => OnDaytona)'
    BY <2>4 DEF CallInv, OnDaytona
  <2>6. (backend = "docker" => OnDocker)'
    <3> SUFFICES ASSUME backend = "docker" PROVE OnDocker'
      BY <2>4
    <3>1. OnDocker /\ client \in {"none", "running", "exited", "alone"}
      BY DEF CallInv, TypeOK
    <3>2. client \in {"running", "alone"}
      BY <2>4, <3>1 DEF OnDocker
    <3> QED
      BY <2>3, <2>4, <3>1, <3>2 DEF OnDocker
  <2>7. (backend = "local" => OnLocal)'
    BY <2>3, <2>4 DEF CallInv, OnLocal
  <2>8. NothingLeftBehind'
    BY <2>4 DEF CallInv, NothingLeftBehind, Over
  <2>9. OutputWhole'
    BY <2>4 DEF CallInv, OutputWhole, OnDaytona, OnDocker, OnLocal, TypeOK
  <2> QED
    BY <2>2, <2>4, <2>5, <2>6, <2>7, <2>8, <2>9 DEF CallInv
<1>7. CASE CommandExits
  BY <1>7 DEF CommandExits, CallInv, TypeOK, OnDaytona, OnDocker, OnLocal, NothingLeftBehind, OutputWhole,
         DaytonaCalls, ProcessCalls, Over, outside, still, Unharmed, At, Goto, Return, Leave, Proceed
<1>8. CASE MembersExit
  BY <1>8 DEF MembersExit, CallInv, TypeOK, OnDaytona, OnDocker, OnLocal, NothingLeftBehind, OutputWhole,
         DaytonaCalls, ProcessCalls, Over, outside, still, Unharmed, At, Goto, Return, Leave, Proceed
<1>9. CASE ClientExits
  BY <1>9 DEF ClientExits, CallInv, TypeOK, OnDaytona, OnDocker, OnLocal, NothingLeftBehind, OutputWhole,
         DaytonaCalls, ProcessCalls, Over, outside, still, Unharmed, At, Goto, Return, Leave, Proceed
<1>10. CASE ClientDies
  BY <1>10 DEF ClientDies, CallInv, TypeOK, OnDaytona, OnDocker, OnLocal, NothingLeftBehind, OutputWhole,
         DaytonaCalls, ProcessCalls, Over, outside, still, Unharmed, At, Goto, Return, Leave, Proceed
<1> QED
  BY <1>1, <1>2, <1>3, <1>4, <1>5, <1>6, <1>7, <1>8, <1>9, <1>10 DEF Meanwhile

(* Every step keeps the invariant. *)
LEMMA StepKeepsInv == CallInv /\ [Next]_vars => CallInv'
<1> SUFFICES ASSUME CallInv, [Next]_vars PROVE CallInv'
  OBVIOUS
<1>1. CASE Refuse
  BY <1>1 DEF Refuse, CallInv, TypeOK, OnDaytona, OnDocker, OnLocal, NothingLeftBehind, OutputWhole,
         DaytonaCalls, ProcessCalls, Over, outside, still, Unharmed, At, Goto, Return, Leave, Proceed
<1>2. CASE Daytona
  BY <1>2, DaytonaKeepsInv
<1>3. CASE Process
  BY <1>3, ProcessKeepsInv
<1>4. CASE Meanwhile
  BY <1>4, MeanwhileKeepsInv
<1>5. CASE UNCHANGED vars
  BY <1>5 DEF vars, CallInv, TypeOK, OnDaytona, OnDocker, OnLocal, NothingLeftBehind, OutputWhole,
         DaytonaCalls, ProcessCalls, Over, outside, still, Unharmed, At, Goto, Return, Leave, Proceed
<1> QED
  BY <1>1, <1>2, <1>3, <1>4, <1>5 DEF Next, Run

(* The invariant holds throughout. *)
LEMMA CallInvariant == Spec => []CallInv
<1>1. Init => CallInv
  BY NothingRunsAtFirst
<1>2. CallInv /\ [Next]_vars => CallInv'
  BY StepKeepsInv
<1> QED
  BY <1>1, <1>2, PTL DEF Spec

(* Whatever fails and whenever the signal comes, the state of a call keeps   *)
(* its type (internal/backend): what was passed on is part of the output.    *)
THEOREM CallTypeCorrect == Spec => []TypeOK
<1>1. CallInv => TypeOK
  BY DEF CallInv
<1> QED
  BY <1>1, CallInvariant, PTL

(* No container, sandbox or command outlives the call but in the four cases  *)
(* NothingLeftBehind names (daytona.go:102-111, docker.go:99-103,            *)
(* process.go:57-71), for any set of backends.                               *)
THEOREM CallsLeaveNothing == Spec => []NothingLeftBehind
<1>1. CallInv => NothingLeftBehind
  BY DEF CallInv
<1> QED
  BY <1>1, CallInvariant, PTL

(* A call that reports the command's exit has passed its output on whole,    *)
(* for any amount of output, unless the last read fails                      *)
(* (daytona.go:254-272).                                                     *)
THEOREM OutputIsWhole == Spec => []OutputWhole
<1>1. CallInv => OutputWhole
  BY DEF CallInv
<1> QED
  BY <1>1, CallInvariant, PTL
=============================================================================
