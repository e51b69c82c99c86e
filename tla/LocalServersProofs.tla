------------------------- MODULE LocalServersProofs -------------------------
(* The supervision of the local servers for every number of projects and     *)
(* ports, every cap, and every number of crashes, lost reports and merges.   *)
EXTENDS LocalServers, FiniteSetTheorems, TLAPS

Distinct(s) == \A i, j \in DOMAIN s : s[i] = s[j] => i = j

(* The port a project holds: the one the control plane has, or else the one   *)
(* of its state file.                                                         *)
Held(table, files, p) == IF table[p].port # None THEN table[p].port ELSE files[p].port
HoldApart ==
  \A p, q \in Projects :
    p # q /\ Held(rows, file, p) # None => Held(rows, file, p) # Held(rows, file, q)

OrdersOK ==
  /\ Distinct(order) /\ Distinct(targets.order) /\ Distinct(left)
  /\ Elements(targets.order) \subseteq Listed /\ Elements(left) \subseteq Elements(Wanted)
  /\ pc # "serve" => left = <<>>

(* A project no pass has seen has neither port nor server.                    *)
UnseenIsNew ==
  \A p \in Projects :
    p \notin Listed \/ (pc # "idle" /\ p \notin Elements(targets.order)) =>
      rows[p].port = None /\ ~HasFile(p)

(* A project that had its turn, and the port of the turn, which is nobody     *)
(* else's.                                                                    *)
HadItsTurn(turn) ==
  /\ turn.port \in taken
  /\ turn.project \in Elements(targets.order) \ Elements(left)
  /\ \A q \in Projects : q # turn.project => Held(rows, file, q) # turn.port

(* While it stops servers a pass has the ports as they are; while it serves,  *)
(* for the projects still to come, and every port held is claimed.            *)
PassIsCurrent ==
  /\ pc = "idle" => report = NoReport
  /\ pc # "serve" \/ report # NoReport => spawned = NoServer
  /\ pc = "stop" =>
       /\ \A p \in Projects : targets.port[p] = rows[p].port
       /\ report # NoReport => report.port = rows[report.project].port
  /\ pc = "serve" =>
       /\ \A p \in Elements(left) : targets.port[p] = rows[p].port
       /\ \A p \in Projects : Held(rows, file, p) \in taken \cup {None}
       /\ report # NoReport => HadItsTurn(report)
       /\ spawned # NoServer => HadItsTurn(spawned)

(* A server that runs is on file, but the one just started.                   *)
RunningIsOnFile ==
  /\ \A p \in Projects : server[p] # "down" => HasFile(p)
  /\ spawned # NoServer => server[spawned.project] = "down"

(* The servers past the cap are to be stopped, and then they are.             *)
Filed == {p \in Projects : HasFile(p)}
FiledKept ==
  /\ pc = "stop" => Filed \subseteq toStop \cup Elements(Wanted)
  /\ pc = "serve" => Filed \subseteq Elements(Wanted)
  /\ spawned # NoServer => pc = "serve" /\ spawned.project \in Elements(Wanted)
  /\ MaxServers > 0 => IsFiniteSet(Filed) /\ Cardinality(Filed) <= MaxServers

(* Every server nobody knows of is from a start that was cut off.             *)
LostCounted == IsFiniteSet(Lost) /\ Cardinality(Lost) <= cutOff

(* The bridge has at most one npm at work in a checkout, waits for it, and    *)
(* has it at work only in a checkout that is there.                           *)
InstallsKnown ==
  \A p \in Projects :
    /\ install[p] = "running" => lock[p] # None
    /\ \A npm \in npms[p] : npm.of = "bridge" => install[p] = "running"
    /\ \A a, b \in npms[p] : a.of = "bridge" /\ b.of = "bridge" => a = b

PortsIInv == OrdersOK /\ UnseenIsNew /\ PassIsCurrent /\ HoldApart

-----------------------------------------------------------------------------
(* Sequences of projects *)

LEMMA TailOf ==
  ASSUME NEW S, NEW s \in Seq(S), s # <<>>
  PROVE  /\ Head(s) \in S /\ Tail(s) \in Seq(S)
         /\ Head(s) \in Elements(s) /\ Elements(Tail(s)) \subseteq Elements(s)
         /\ Distinct(s) => Distinct(Tail(s)) /\ Head(s) \notin Elements(Tail(s))
<1>1. /\ Len(s) \in Nat \ {0} /\ DOMAIN s = 1..Len(s) /\ s[1] \in S /\ Head(s) = s[1]
      /\ Tail(s) \in Seq(S) /\ Len(Tail(s)) = Len(s) - 1
      /\ \A i \in 1..(Len(s) - 1) : Tail(s)[i] = s[i + 1]
  OBVIOUS
<1>2. DOMAIN Tail(s) = 1..(Len(s) - 1)
  BY <1>1
<1>3. \A i \in DOMAIN Tail(s) : i + 1 \in DOMAIN s /\ i + 1 # 1 /\ Tail(s)[i] = s[i + 1]
  BY <1>1, <1>2
<1>4. Head(s) \in Elements(s) /\ Elements(Tail(s)) \subseteq Elements(s)
  BY <1>1, <1>3 DEF Elements
<1>5. ASSUME Distinct(s) PROVE Distinct(Tail(s)) /\ Head(s) \notin Elements(Tail(s))
  BY <1>1, <1>2, <1>3, <1>5 DEF Distinct, Elements
<1> QED BY <1>1, <1>4, <1>5

LEMMA PrefixOf ==
  ASSUME NEW S, NEW s \in Seq(S), NEW n \in Nat, n <= Len(s)
  PROVE  /\ SubSeq(s, 1, n) \in Seq(S) /\ Len(SubSeq(s, 1, n)) = n
         /\ Elements(SubSeq(s, 1, n)) \subseteq Elements(s)
         /\ Distinct(s) => Distinct(SubSeq(s, 1, n))
<1> DEFINE t == SubSeq(s, 1, n)
<1>1. t \in Seq(S) /\ Len(t) = n /\ \A i \in 1..n : t[i] = s[i]
  OBVIOUS
<1>2. DOMAIN t = 1..n /\ DOMAIN s = 1..Len(s) /\ 1..n \subseteq 1..Len(s)
  BY <1>1
<1> QED BY <1>1, <1>2 DEF Elements, Distinct

LEMMA InFront ==
  ASSUME NEW S, NEW s \in Seq(S), NEW p \in S
  PROVE  /\ <<p>> \o s \in Seq(S) /\ Elements(<<p>> \o s) = {p} \cup Elements(s)
         /\ Distinct(s) /\ p \notin Elements(s) => Distinct(<<p>> \o s)
<1> DEFINE t == <<p>> \o s
<1>1. /\ t \in Seq(S) /\ Len(t) = Len(s) + 1 /\ Len(s) \in Nat /\ t[1] = p
      /\ \A i \in 1..Len(s) : t[i + 1] = s[i]
  OBVIOUS
<1>2. DOMAIN t = 1..(Len(s) + 1) /\ DOMAIN s = 1..Len(s)
  BY <1>1
<1>3. \A i \in DOMAIN t : i = 1 \/ (i - 1 \in DOMAIN s /\ t[i] = s[i - 1])
  <2> TAKE i \in DOMAIN t
  <2>1. CASE i = 1
    BY <2>1
  <2>2. CASE i # 1
    <3>1. i - 1 \in 1..Len(s)
      BY <2>2, <1>1, <1>2
    <3> QED BY <3>1, <1>1, <1>2
  <2> QED BY <2>1, <2>2
<1>4. Elements(t) \subseteq {p} \cup Elements(s)
  BY <1>1, <1>3 DEF Elements
<1>5. \A j \in DOMAIN s : j + 1 \in DOMAIN t /\ t[j + 1] = s[j]
  BY <1>1, <1>2
<1>6. Elements(s) \subseteq Elements(t) /\ p \in Elements(t)
  <2>1. Elements(s) \subseteq Elements(t)
    BY <1>5 DEF Elements
  <2>2. 1 \in DOMAIN t
    BY <1>1, <1>2
  <2> QED BY <1>1, <2>1, <2>2 DEF Elements
<1>7. ASSUME Distinct(s), p \notin Elements(s) PROVE Distinct(t)
  BY <1>1, <1>2, <1>3, <1>7 DEF Distinct, Elements
<1> QED BY <1>1, <1>4, <1>6, <1>7

LEMMA MovedToFront ==
  ASSUME order \in Seq(Projects), NEW k \in 2..Len(order), Activity(k)
  PROVE  /\ order' \in Seq(Projects) /\ Elements(order') = Elements(order)
         /\ Distinct(order) => Distinct(order')
<1>0. order' = [i \in DOMAIN order |-> IF i = 1 THEN order[k]
                                    ELSE IF i <= k THEN order[i - 1] ELSE order[i]]
  BY DEF Activity
<1>1. Len(order) \in Nat /\ DOMAIN order = 1..Len(order) /\ DOMAIN order' = 1..Len(order) /\ k \in Nat
  BY <1>0
<1> DEFINE from(i) == IF i = 1 THEN k ELSE IF i <= k THEN i - 1 ELSE i
           to(i) == IF i = k THEN 1 ELSE IF i < k THEN i + 1 ELSE i
<1>2. \A i \in 1..Len(order) : from(i) \in 1..Len(order) /\ to(i) \in 1..Len(order)
                            /\ from(to(i)) = i /\ to(from(i)) = i
  BY <1>1
<1>3. \A i \in 1..Len(order) : order'[i] = order[from(i)] /\ order[i] = order'[to(i)]
  BY <1>0, <1>1, <1>2
<1> HIDE DEF from, to
<1>4. \A i \in 1..Len(order) : order'[i] \in Projects
  BY <1>1, <1>2, <1>3
<1>5. order' \in Seq(Projects)
  <2>1. order' \in [1..Len(order) -> Projects]
    BY <1>0, <1>1, <1>4
  <2> QED BY <1>1, <2>1
<1>6. Elements(order') = Elements(order)
  <2>1. \A i \in DOMAIN order' : order'[i] \in Elements(order)
    <3> TAKE i \in DOMAIN order'
    <3>1. from(i) \in DOMAIN order /\ order'[i] = order[from(i)]
      BY <1>1, <1>2, <1>3
    <3> QED BY <3>1 DEF Elements
  <2>2. \A i \in DOMAIN order : order[i] \in Elements(order')
    <3> TAKE i \in DOMAIN order
    <3>1. to(i) \in DOMAIN order' /\ order[i] = order'[to(i)]
      BY <1>1, <1>2, <1>3
    <3> QED BY <3>1 DEF Elements
  <2>3. Elements(order') \subseteq Elements(order)
    BY <2>1 DEF Elements
  <2>4. Elements(order) \subseteq Elements(order')
    BY <2>2 DEF Elements
  <2> QED BY <2>3, <2>4
<1>7. ASSUME Distinct(order) PROVE Distinct(order')
  <2> SUFFICES ASSUME NEW i \in 1..Len(order), NEW j \in 1..Len(order), order'[i] = order'[j] PROVE i = j
    BY <1>1 DEF Distinct
  <2>1. order[from(i)] = order[from(j)]
    BY <1>3
  <2>2. from(i) = from(j)
    BY <2>1, <1>1, <1>2, <1>7 DEF Distinct
  <2> QED BY <2>2, <1>2
<1> QED BY <1>5, <1>6, <1>7

LEMMA SizeOf ==
  ASSUME NEW S, NEW s \in Seq(S)
  PROVE  IsFiniteSet(Elements(s)) /\ Cardinality(Elements(s)) <= Len(s)
<1>1. Len(s) \in Nat /\ s \in Surjection(1..Len(s), Elements(s))
  BY DEF Surjection, Elements
<1>2. IsFiniteSet(1..Len(s)) /\ Cardinality(1..Len(s)) = Len(s)
  <2> DEFINE n == Len(s)
  <2>1. n \in Nat /\ n \in Int /\ 1 \in Int
    BY <1>1
  <2> HIDE DEF n
  <2>2. IsFiniteSet(1..n) /\ Cardinality(1..n) = IF 1 > n THEN 0 ELSE n - 1 + 1
    BY <2>1, FS_Interval, Zenon
  <2>3. (IF 1 > n THEN 0 ELSE n - 1 + 1) = n
    BY <2>1
  <2> QED BY <2>2, <2>3 DEF n
<1>3. IsFiniteSet(Elements(s)) /\ Cardinality(Elements(s)) <= Cardinality(1..Len(s))
  BY <1>1, <1>2, FS_Surjection
<1> QED BY <1>2, <1>3

-----------------------------------------------------------------------------
(* Types *)

LEMMA Bounds == None \notin Ports /\ 1 \in Locks /\ None \notin Locks /\ NoFile \notin State
  BY ServersAssumption DEF None, Ports, Locks, NoFile, State

LEMMA WantedType ==
  ASSUME targets.order \in Seq(Projects)
  PROVE  /\ Wanted \in Seq(Projects) /\ Elements(Wanted) \subseteq Elements(targets.order)
         /\ Distinct(targets.order) => Distinct(Wanted)
         /\ MaxServers > 0 => Len(Wanted) <= MaxServers
<1>1. Len(targets.order) \in Nat /\ MaxServers \in Nat
  BY ServersAssumption
<1>2. CASE MaxServers > 0 /\ MaxServers < Len(targets.order)
  <2>1. Wanted = SubSeq(targets.order, 1, MaxServers)
    BY <1>2 DEF Wanted
  <2> QED BY <1>1, <1>2, <2>1, PrefixOf
<1>3. CASE ~(MaxServers > 0 /\ MaxServers < Len(targets.order))
  BY <1>1, <1>3 DEF Wanted
<1> QED BY <1>2, <1>3

LEMMA ElementsType ==
  ASSUME NEW S, NEW s \in Seq(S) PROVE Elements(s) \subseteq S
  BY DEF Elements

LEMMA ClaimedType ==
  ASSUME TypeOK, NEW p \in Projects PROVE Claimed(p) \in Ports \cup {None}
  BY DEF TypeOK, Claimed, State, NoFile

LEMMA PortForType ==
  ASSUME TypeOK, NEW p \in Projects, NEW port \in PortFor(p)
  PROVE  port \in Ports /\ (port = Claimed(p) \/ port \notin taken)
  BY ClaimedType DEF PortFor, Kept, Pickable

LEMMA StoppedType ==
  ASSUME TypeOK, NEW p \in Projects, Stopped(p)
  PROVE  /\ file' \in [Projects -> State \cup {NoFile}] /\ server' \in [Projects -> {"down", "starting", "up"}]
         /\ loose' \subseteq Loose /\ cutOff' = cutOff
<1>1. Alive(p) => OnTheWayOut(p) \in Loose
  BY ServersAssumption DEF TypeOK, Alive, HasFile, State, OnTheWayOut, Loose
<1> QED BY <1>1 DEF TypeOK, Stopped

LEMMA ReleasedType ==
  ASSUME TypeOK, NEW p \in Projects, NEW of \in {"ending", "orphan"}
  PROVE  /\ Released(p, of) \subseteq Npm
         /\ \A npm \in Released(p, of) : npm.of # "bridge"
<1>1. \A npm \in npms[p] : npm \in Npm
  BY DEF TypeOK
<1>2. \A npm \in Npm : [npm EXCEPT !.of = IF @ = "bridge" THEN of ELSE @] \in
                        {another \in Npm : another.of # "bridge"}
  BY DEF Npm
<1> QED BY <1>1, <1>2 DEF Released

LEMMA TurnType ==
  ASSUME TypeOK, NEW p \in Projects, NEW port \in Ports, SuperviseOne(p, port)
  PROVE  /\ lock' \in [Projects -> Locks \cup {None}] /\ \A q \in Projects : lock[q] # None => lock'[q] # None
         /\ modules' \in [Projects -> Locks \cup {Absent, Partial}]
         /\ npms' \in [Projects -> SUBSET Npm]
         /\ file' \in [Projects -> State \cup {NoFile}]
         /\ server' \in [Projects -> {"down", "starting", "up"}]
         /\ loose' \subseteq Loose /\ cutOff' = cutOff
         /\ install' \in [Projects -> {"none", "running", "ok", "failed"}]
         /\ backoff' \in [Projects -> {"none", "waiting", "past"}]
         /\ spawned' = spawned \/ (spawned' = [project |-> p, port |-> port] /\ lock'[p] # None)
         /\ report' \in {report} \cup [status : Statuses, project : Projects, port : Ports]
         /\ faults' \in 0..MaxFaults /\ faults <= faults'
<1> USE DEF TypeOK, Say, memory, servers, Statuses
<1>2. Pull(p) => /\ lock' \in [Projects -> Locks \cup {None}]
                 /\ \A q \in Projects : lock[q] # None => lock'[q] # None
  BY Bounds DEF Pull
<1>1. CASE NoCheckout(p, port) /\ UNCHANGED spawned
  BY <1>1 DEF NoCheckout
<1>3. CASE InstallContinues(p, port) /\ UNCHANGED spawned
  BY <1>2, <1>3 DEF InstallContinues
<1>4. CASE InstallYields(p, port) /\ UNCHANGED spawned
  <2>1. Released(p, "ending") \subseteq Npm
    BY ReleasedType
  <2> QED BY <1>2, <1>4, <2>1 DEF InstallYields
<1>5. CASE InstallFailed(p, port) /\ UNCHANGED spawned
  BY <1>2, <1>5 DEF InstallFailed
<1>6. CASE StartInstall(p, port) /\ UNCHANGED spawned
  <2>1. [of |-> "bridge", lock |-> lock'[p]] \in Npm
    BY <1>6 DEF StartInstall, Settled, Pull, Npm
  <2>2. npms' \in [Projects -> SUBSET Npm]
    BY <1>6, <2>1 DEF StartInstall
  <2>3. CASE Stopped(p)
    BY <1>2, <1>6, <2>2, <2>3, StoppedType DEF StartInstall, Settled
  <2>4. CASE UNCHANGED servers
    BY <1>2, <1>6, <2>2, <2>4 DEF StartInstall, Settled
  <2> QED BY <1>6, <2>3, <2>4 DEF StartInstall
<1>7. CASE WaitForRun(p, port) /\ UNCHANGED spawned
  BY <1>2, <1>7 DEF WaitForRun, Settled
<1>8. CASE Check(p, port) /\ UNCHANGED spawned
  BY <1>2, <1>8 DEF Check, Settled
<1>9. CASE BackOff(p, port) /\ UNCHANGED spawned
  BY <1>2, <1>9 DEF BackOff, Down, Settled
<1>10. CASE Spawn(p, port)
  BY <1>2, <1>10 DEF Spawn, Down, Settled
<1>11. CASE NoSecrets(p, port) /\ UNCHANGED spawned
  BY <1>2, <1>11, ServersAssumption DEF NoSecrets, Down, Settled, Fault
<1> QED BY <1>1, <1>3, <1>4, <1>5, <1>6, <1>7, <1>8, <1>9, <1>10, <1>11 DEF SuperviseOne

(* A start cut off leaves its server in no file, and its old file or none.    *)
LEMMA CutOffType ==
  ASSUME TypeOK, CutOff, faults < MaxFaults, faults' = faults + 1
  PROVE  /\ Unrecorded \subseteq Loose /\ cutOff' \in 0..faults' /\ spawned' = NoServer
         /\ OldFileOrNone \subseteq [Projects -> State \cup {NoFile}]
         /\ faults' \in 0..MaxFaults
<1>1. faults' \in 0..MaxFaults /\ cutOff + 1 \in 0..MaxFaults /\ cutOff + 1 \in 0..faults' /\ cutOff \in 0..faults'
  BY ServersAssumption DEF TypeOK
<1>2. Unrecorded \subseteq Loose
  BY <1>1 DEF Unrecorded, Loose, TypeOK
<1>3. \A s \in Unrecorded : [file EXCEPT ![s.project] = NoFile] \in [Projects -> State \cup {NoFile}]
  BY <1>2 DEF TypeOK
<1>4. OldFileOrNone \subseteq [Projects -> State \cup {NoFile}]
  BY <1>3 DEF OldFileOrNone, TypeOK
<1> QED BY <1>1, <1>2, <1>4 DEF CutOff

LEMMA GoneType ==
  ASSUME TypeOK, Gone
  PROVE  /\ pc' = "idle" /\ targets' = NoTargets /\ toStop' = {} /\ left' = <<>> /\ taken' = {}
         /\ report' = NoReport
         /\ npms' \in [Projects -> SUBSET Npm]
         /\ install' \in [Projects -> {"none", "running", "ok", "failed"}]
         /\ backoff' \in [Projects -> {"none", "waiting", "past"}]
<1>1. \A p \in Projects : Released(p, "orphan") \subseteq Npm
  BY ReleasedType
<1> QED BY <1>1 DEF Gone

LEMMA NoTargetsType ==
  NoTargets \in [order : Seq(Projects), port : [Projects -> Ports \cup {None}], busy : SUBSET Projects]
  BY DEF NoTargets

LEMMA TypeStep == ASSUME TypeOK, [Next]_vars PROVE TypeOK'
<1> USE DEF TypeOK, controlPlane, checkouts, servers, memory, pass
<1>1. ASSUME ReadTargets PROVE TypeOK'
  <2>1. targets' \in [order : Seq(Projects), port : [Projects -> Ports \cup {None}],
                      busy : SUBSET Projects]
    BY <1>1 DEF ReadTargets, Row, Listed
  <2>2. toStop' \subseteq Projects
    BY <1>1 DEF ReadTargets, Listed
  <2> QED BY <1>1, <2>1, <2>2 DEF ReadTargets
<1>2. ASSUME NEW p \in Projects, StopUnwanted(p) PROVE TypeOK'
  BY <1>2, StoppedType DEF StopUnwanted, Statuses
<1>3. ASSUME StartServing PROVE TypeOK'
  <2>1. Wanted \in Seq(Projects)
    BY WantedType
  <2>2. ClaimedPorts \subseteq Ports
    <3>1. Elements(targets.order) \subseteq Projects
      BY ElementsType
    <3> QED BY <3>1, ClaimedType DEF ClaimedPorts
  <2> QED BY <1>3, <2>1, <2>2 DEF StartServing
<1>4. ASSUME Turn PROVE TypeOK'
  <2>1. left \in Seq(Projects) /\ left # <<>> /\ Head(left) \in Projects /\ Tail(left) \in Seq(Projects)
    BY <1>4, TailOf DEF Turn
  <2>2. ASSUME NEW port \in PortFor(Head(left)), SuperviseOne(Head(left), port),
               taken' = taken \cup {port}
        PROVE  TypeOK'
    <3>1. port \in Ports
      BY <2>1, <2>2, PortForType
    <3>2. cutOff' \in 0..faults' /\ taken' \subseteq Ports
      BY <2>1, <2>2, <3>1, TurnType
    <3> QED BY <1>4, <2>1, <2>2, <3>1, <3>2, TurnType DEF Turn
  <2>3. CASE UNCHANGED <<taken, spawned, report, lock, modules, npms, servers, memory, faults>>
    BY <1>4, <2>1, <2>3 DEF Turn
  <2> QED BY <1>4, <2>2, <2>3 DEF Turn
<1>5. ASSUME Report PROVE TypeOK'
  <2>1. report \in [status : Statuses, project : Projects, port : Ports]
    BY <1>5 DEF Report
  <2>2. [status |-> report.status, port |-> report.port] \in Row /\ report.project \in Projects
    BY <2>1 DEF Row
  <2>4. rows' \in [Projects -> Row]
    BY <1>5, <2>2 DEF Report
  <2>3. /\ pc' \in {"idle", "stop", "serve"} /\ toStop' \subseteq Projects
        /\ faults' \in 0..MaxFaults /\ cutOff' \in 0..faults'
        /\ targets' \in [order : Seq(Projects), port : [Projects -> Ports \cup {None}],
                         busy : SUBSET Projects]
    BY <1>5, ServersAssumption, NoTargetsType DEF Report, Fault
  <2> QED BY <1>5, <2>3, <2>4 DEF Report
<1>6. ASSUME PassEnds PROVE TypeOK'
  BY <1>6, NoTargetsType DEF PassEnds
<1>7. ASSUME Crash \/ ShutDown PROVE TypeOK'
  <2>1. Gone /\ CutOff /\ faults < MaxFaults /\ faults' = faults + 1
    BY <1>7 DEF Crash, ShutDown, Gone, Fault
  <2>2. CASE Crash
    <3>1. /\ loose' \subseteq Loose /\ cutOff' \in 0..faults' /\ spawned' = NoServer
          /\ file' \in [Projects -> State \cup {NoFile}] /\ faults' \in 0..MaxFaults
      BY <2>1, <2>2, CutOffType DEF Crash
    <3>2. /\ pc' = "idle" /\ targets' = NoTargets /\ toStop' = {} /\ left' = <<>> /\ taken' = {}
          /\ report' = NoReport
          /\ npms' \in [Projects -> SUBSET Npm]
          /\ install' \in [Projects -> {"none", "running", "ok", "failed"}]
          /\ backoff' \in [Projects -> {"none", "waiting", "past"}]
      BY <2>1, GoneType
    <3>3. UNCHANGED <<controlPlane, lock, origin, modules, server, strays>>
      BY <2>2 DEF Crash
    <3> QED BY <3>1, <3>2, <3>3, NoTargetsType
  <2>3. CASE ShutDown
    <3>1. \A p \in Projects : Alive(p) => OnTheWayOut(p) \in Loose
      BY ServersAssumption DEF Alive, HasFile, State, OnTheWayOut, Loose
    <3>2. loose' \subseteq Loose
      BY <2>1, <2>3, <3>1, CutOffType DEF ShutDown
    <3>3. cutOff' \in 0..faults' /\ spawned' = NoServer /\ faults' \in 0..MaxFaults
      BY <2>1, CutOffType
    <3>4. /\ pc' = "idle" /\ targets' = NoTargets /\ toStop' = {} /\ left' = <<>> /\ taken' = {}
          /\ report' = NoReport
          /\ npms' \in [Projects -> SUBSET Npm]
          /\ install' \in [Projects -> {"none", "running", "ok", "failed"}]
          /\ backoff' \in [Projects -> {"none", "waiting", "past"}]
      BY <2>1, GoneType
    <3>5. /\ UNCHANGED <<controlPlane, lock, origin, modules, strays>>
          /\ file' \in [Projects -> State \cup {NoFile}] /\ server' \in [Projects -> {"down", "starting", "up"}]
      BY <2>3 DEF ShutDown
    <3> QED BY <3>2, <3>3, <3>4, <3>5, NoTargetsType
  <2> QED BY <1>7, <2>2, <2>3
<1>11. ASSUME WriteState PROVE TypeOK'
  <2>1. spawned \in [project : Projects, port : Ports]
    BY <1>11 DEF WriteState
  <2>2. [port |-> spawned.port, lock |-> lock[spawned.project]] \in State
    BY <1>11, <2>1, Bounds DEF WriteState, State
  <2>3. report' \in [status : Statuses, project : Projects, port : Ports]
    BY <1>11, <2>1 DEF WriteState, Say, Statuses
  <2> QED BY <1>11, <2>1, <2>2, <2>3 DEF WriteState
<1>12. ASSUME WriteFails PROVE TypeOK'
  <2>1. CutOff /\ faults < MaxFaults /\ faults' = faults + 1 /\ spawned \in [project : Projects, port : Ports]
    BY <1>12 DEF WriteFails, Fault
  <2>2. report' \in [status : Statuses, project : Projects, port : Ports]
    BY <1>12, <2>1 DEF WriteFails, Say, Statuses
  <2>3. backoff' \in [Projects -> {"none", "waiting", "past"}]
    BY <1>12, <2>1 DEF WriteFails
  <2> QED BY <1>12, <2>1, <2>2, <2>3, CutOffType DEF WriteFails
<1>8. ASSUME Machine PROVE TypeOK'
  <2>0. ASSUME NEW p \in Projects, NEW npm \in npms[p],
               NEW leaves \in SUBSET (Locks \cup {Absent, Partial}), NpmLeaves(p, npm, leaves)
        PROVE  /\ npms' \in [Projects -> SUBSET Npm] /\ modules' \in [Projects -> Locks \cup {Absent, Partial}]
               /\ UNCHANGED <<controlPlane, lock, origin, servers, strays, pass>>
    BY <2>0 DEF NpmLeaves
  <2>1. ASSUME NEW p \in Projects, InstallEnds(p) PROVE TypeOK'
    <3>1. PICK npm \in npms[p] :
            NpmLeaves(p, npm, {npm.lock} \cup (IF npms[p] = {npm} THEN {} ELSE {Partial}))
      BY <2>1 DEF InstallEnds
    <3>2. {npm.lock} \cup (IF npms[p] = {npm} THEN {} ELSE {Partial}) \in SUBSET (Locks \cup {Absent, Partial})
      BY DEF Npm
    <3> QED BY <2>1, <3>1, <3>2, <2>0 DEF InstallEnds
  <2>2. ASSUME NEW p \in Projects, InstallFails(p) PROVE TypeOK'
    <3>1. PICK npm \in npms[p] :
            /\ NpmLeaves(p, npm, {modules[p], Absent, Partial})
            /\ Fault("npm-fails") \/ (npms[p] # {npm} /\ UNCHANGED faults)
      BY <2>2 DEF InstallFails
    <3>2. faults' \in 0..MaxFaults /\ cutOff \in 0..faults'
      BY <3>1, ServersAssumption DEF Fault
    <3>3. {modules[p], Absent, Partial} \in SUBSET (Locks \cup {Absent, Partial})
      OBVIOUS
    <3> QED BY <2>2, <3>1, <3>2, <3>3, <2>0 DEF InstallFails
  <2>3. ASSUME NEW p \in Projects, NpmEnds(p) PROVE TypeOK'
    <3>1. PICK npm \in npms[p] : NpmLeaves(p, npm, {modules[p], Absent, Partial, npm.lock})
      BY <2>3 DEF NpmEnds
    <3>2. {modules[p], Absent, Partial, npm.lock} \in SUBSET (Locks \cup {Absent, Partial})
      BY DEF Npm
    <3> QED BY <2>3, <3>1, <3>2, <2>0 DEF NpmEnds
  <2>4. ASSUME NEW p \in Projects, NpmWorks(p) PROVE TypeOK'
    BY <2>4 DEF NpmWorks
  <2>5. ASSUME NEW p \in Projects, ServerUp(p) \/ ServerFails(p) \/ ServerDies(p) PROVE TypeOK'
    <3>1. faults' \in 0..MaxFaults /\ cutOff \in 0..faults'
      BY <2>5, ServersAssumption DEF ServerUp, ServerFails, ServerDies, Fault
    <3> QED BY <2>5, <3>1 DEF ServerUp, ServerFails, ServerDies
  <2>6. ASSUME NEW p \in Projects, BackoffEnds(p) PROVE TypeOK'
    BY <2>6 DEF BackoffEnds
  <2>7. ASSUME NEW s \in loose, LooseUp(s) \/ LooseEnds(s) PROVE TypeOK'
    <3>0. s \in Loose
      OBVIOUS
    <3>1. [s EXCEPT !.state = "up"] \in Loose
      BY <3>0 DEF Loose
    <3>2. faults' \in 0..MaxFaults /\ cutOff \in 0..faults'
      BY <2>7, ServersAssumption DEF LooseUp, LooseEnds, Fault
    <3> QED BY <2>7, <3>1, <3>2 DEF LooseUp, LooseEnds
  <2>8. ASSUME NEW port \in Ports, PortTaken(port) \/ PortReleased(port) PROVE TypeOK'
    <3>1. faults' \in 0..MaxFaults /\ cutOff \in 0..faults'
      BY <2>8, ServersAssumption DEF PortTaken, PortReleased, Fault
    <3> QED BY <2>8, <3>1 DEF PortTaken, PortReleased
  <2> QED BY <1>8, <2>1, <2>2, <2>3, <2>4, <2>5, <2>6, <2>7, <2>8 DEF Machine
<1>9. ASSUME Line PROVE TypeOK'
  <2>1. ASSUME NEW p \in Projects, Join(p) PROVE TypeOK'
    BY <2>1, InFront DEF Join
  <2>2. ASSUME NEW k \in 2..Len(order), Activity(k) PROVE TypeOK'
    <3>1. order' \in Seq(Projects)
      BY <2>2, MovedToFront
    <3>2. faults' \in 0..MaxFaults /\ cutOff \in 0..faults'
      BY <2>2, ServersAssumption DEF Activity, Fault
    <3> QED BY <2>2, <3>1, <3>2 DEF Activity
  <2>3. ASSUME NEW p \in Projects, Cloned(p) PROVE TypeOK'
    <3>1. \A q \in Projects : lock[q] # None => lock'[q] # None
      BY <2>3, Bounds DEF Cloned
    <3> QED BY <2>3, <3>1 DEF Cloned
  <2>4. ASSUME NEW p \in Projects, RunStarts(p) PROVE TypeOK'
    <3>1. faults' \in 0..MaxFaults /\ cutOff \in 0..faults'
      BY <2>4, ServersAssumption DEF RunStarts, Fault
    <3> QED BY <2>4, <3>1 DEF RunStarts
  <2>5. ASSUME NEW p \in Projects, RunEnds(p) PROVE TypeOK'
    <3>1. PICK run \in inFlight[p] : inFlight' = [inFlight EXCEPT ![p] = @ \ {run}]
      BY <2>5 DEF RunEnds
    <3> QED BY <2>5, <3>1 DEF RunEnds
  <2>6. ASSUME NEW p \in Projects, Merge(p) PROVE TypeOK'
    <3>1. origin[p] + 1 \in Locks
      BY <2>6, ServersAssumption DEF Merge, Locks
    <3>2. faults' \in 0..MaxFaults /\ cutOff \in 0..faults'
      BY <2>6, ServersAssumption DEF Merge, Fault
    <3> QED BY <2>6, <3>1, <3>2 DEF Merge
  <2> QED BY <1>9, <2>1, <2>2, <2>3, <2>4, <2>5, <2>6 DEF Line
<1>10. CASE UNCHANGED vars
  BY <1>10 DEF vars
<1> QED BY <1>1, <1>2, <1>3, <1>4, <1>5, <1>6, <1>7, <1>8, <1>9, <1>10, <1>11, <1>12 DEF Next, Supervise

LEMMA InitType == Init => TypeOK
  BY Bounds, ServersAssumption, NoTargetsType DEF Init, TypeOK, Row

(* The variables stay in their types. *)
THEOREM ServersTypeCorrect == Spec => []TypeOK
<1> QED BY InitType, TypeStep, PTL DEF Spec

-----------------------------------------------------------------------------
(* Ports *)

LEMMA NoElements == Elements(<<>>) = {} /\ Distinct(<<>>)
  BY DEF Elements, Distinct

(* A turn starts a server or reports of its project, at its port; it may      *)
(* remove the file of its project, and writes none.                           *)
LEMMA TurnDoes ==
  ASSUME TypeOK, NEW p \in Projects, NEW port \in Ports, SuperviseOne(p, port)
  PROVE  /\ \/ report' = report /\ spawned' = [project |-> p, port |-> port] /\ ~Alive(p) /\ UNCHANGED servers
            \/ spawned' = spawned /\ report'.project = p /\ report'.port = port
         /\ \A q \in Projects \ {p} : file'[q] = file[q] /\ server'[q] = server[q]
         /\ (file'[p] = file[p] /\ server'[p] = server[p]) \/ (file'[p] = NoFile /\ server'[p] = "down")
         /\ Lost' = Lost
<1> USE DEF TypeOK, Say, memory, servers
<1>0. UNCHANGED servers => Lost' = Lost
  BY DEF Lost
<1>1. CASE NoCheckout(p, port) /\ UNCHANGED spawned
  BY <1>0, <1>1 DEF NoCheckout
<1>2. CASE InstallContinues(p, port) /\ UNCHANGED spawned
  BY <1>0, <1>2 DEF InstallContinues
<1>3. CASE InstallYields(p, port) /\ UNCHANGED spawned
  BY <1>0, <1>3 DEF InstallYields
<1>4. CASE InstallFailed(p, port) /\ UNCHANGED spawned
  BY <1>0, <1>4 DEF InstallFailed
<1>5. CASE StartInstall(p, port) /\ UNCHANGED spawned
  <2>1. Stopped(p) => Lost' = Lost
    BY DEF Stopped, Lost, OnTheWayOut
  <2> QED BY <1>0, <1>5, <2>1 DEF StartInstall, Stopped
<1>6. CASE WaitForRun(p, port) /\ UNCHANGED spawned
  BY <1>0, <1>6 DEF WaitForRun
<1>7. CASE Check(p, port) /\ UNCHANGED spawned
  BY <1>0, <1>7 DEF Check
<1>8. CASE BackOff(p, port) /\ UNCHANGED spawned
  BY <1>0, <1>8 DEF BackOff
<1>9. CASE Spawn(p, port)
  BY <1>0, <1>9 DEF Spawn, Down
<1>10. CASE NoSecrets(p, port) /\ UNCHANGED spawned
  BY <1>0, <1>10 DEF NoSecrets
<1> QED BY <1>1, <1>2, <1>3, <1>4, <1>5, <1>6, <1>7, <1>8, <1>9, <1>10 DEF SuperviseOne

(* Where files are only removed, no port comes to be held.                    *)
LEMMA FewerHeld ==
  ASSUME UNCHANGED rows, \A q \in Projects : file'[q] \in {file[q], NoFile}
  PROVE  /\ \A q \in Projects : Held(rows', file', q) \in {Held(rows, file, q), None}
         /\ HoldApart => HoldApart'
<1>1. \A q \in Projects : Held(rows', file', q) \in {Held(rows, file, q), None}
  BY DEF Held, NoFile
<1> QED BY <1>1 DEF HoldApart

(* A start cut off between its halves leaves the old file or none.            *)
LEMMA FileOrNone ==
  ASSUME TypeOK, NEW files \in OldFileOrNone
  PROVE  \A q \in Projects : files[q] \in {file[q], NoFile}
  BY DEF OldFileOrNone, TypeOK

(* The port of a turn is nobody else's.                                       *)
LEMMA PortIsFree ==
  ASSUME TypeOK, PortsIInv, Turn, NEW port \in PortFor(Head(left))
  PROVE  \A q \in Projects \ {Head(left)} : Held(rows, file, q) # port
<1>1. left \in Seq(Projects) /\ left # <<>> /\ pc = "serve"
  BY DEF Turn, TypeOK
<1>2. Head(left) \in Projects /\ Head(left) \in Elements(left)
  BY <1>1, TailOf
<1>3. Claimed(Head(left)) = Held(rows, file, Head(left))
  BY <1>1, <1>2 DEF PortsIInv, PassIsCurrent, Claimed, Held
<1>4. port \in Ports /\ (port = Claimed(Head(left)) \/ port \notin taken)
  BY <1>2, PortForType
<1> QED BY <1>1, <1>2, <1>3, <1>4, Bounds DEF PortsIInv, PassIsCurrent, HoldApart

LEMMA PortsTurn == ASSUME TypeOK, PortsIInv, Turn PROVE PortsIInv'
<1> DEFINE p == Head(left)
<1>1. left \in Seq(Projects) /\ left # <<>> /\ pc = "serve" /\ pc' = "serve" /\ left' = Tail(left)
      /\ UNCHANGED <<rows, order, targets>> /\ spawned = NoServer /\ report = NoReport
  BY DEF Turn, TypeOK, controlPlane
<1>2. p \in Projects /\ p \in Elements(left) /\ Elements(left') \subseteq Elements(left)
      /\ Distinct(left') /\ p \notin Elements(left')
  BY <1>1, TailOf DEF PortsIInv, OrdersOK
<1>3. p \in Elements(targets.order)
  BY <1>2, WantedType DEF TypeOK, PortsIInv, OrdersOK
<1>0. Wanted' = Wanted /\ Listed' = Listed
  BY <1>1 DEF Wanted, Listed
<1>4. OrdersOK'
  BY <1>0, <1>1, <1>2 DEF PortsIInv, OrdersOK
<1> HIDE DEF p
<1>5. CASE UNCHANGED <<taken, spawned, report, servers>>
  <2>1. \A q \in Projects : (Held(rows', file', q) = Held(rows, file, q)) /\ (file'[q] = file[q])
    BY <1>1, <1>5 DEF Held, HasFile, servers
  <2>2. HoldApart' /\ UnseenIsNew'
    BY <1>0, <1>1, <2>1 DEF PortsIInv, HoldApart, UnseenIsNew, HasFile
  <2>3. PassIsCurrent'
    BY <1>1, <1>2, <1>5, <2>1 DEF PortsIInv, PassIsCurrent
  <2> QED BY <1>4, <2>2, <2>3 DEF PortsIInv
<1>6. ASSUME NEW port \in PortFor(p), SuperviseOne(p, port), taken' = taken \cup {port}
      PROVE  PortsIInv'
  <2>1. port \in Ports /\ \A q \in Projects \ {p} : Held(rows, file, q) # port
    BY <1>2, <1>6, PortForType, PortIsFree DEF p
  <2>2. /\ \/ report' = NoReport /\ spawned' = [project |-> p, port |-> port]
           \/ spawned' = NoServer /\ report'.project = p /\ report'.port = port
        /\ \A q \in Projects \ {p} : file'[q] = file[q]
        /\ file'[p] \in {file[p], NoFile}
    BY <1>1, <1>2, <1>6, <2>1, TurnDoes
  <2>3. \A q \in Projects : file'[q] \in {file[q], NoFile}
    BY <2>2
  <2>4. HoldApart' /\ \A q \in Projects : Held(rows', file', q) \in {Held(rows, file, q), None}
    BY <1>1, <2>3, FewerHeld DEF PortsIInv
  <2>6. UnseenIsNew'
    BY <1>0, <1>1, <2>3 DEF PortsIInv, UnseenIsNew, HasFile
  <2>7. \A q \in Projects : Held(rows', file', q) \in taken' \cup {None}
    BY <1>1, <1>6, <2>4 DEF PortsIInv, PassIsCurrent
  <2>8. PassIsCurrent'
    <3>1. \A q \in Elements(left') : targets'.port[q] = rows'[q].port
      BY <1>1, <1>2 DEF PortsIInv, PassIsCurrent
    <3>2. \A q \in Projects : q # p => Held(rows', file', q) # port
      BY <2>1, <2>4, Bounds
    <3>3. \A turn : turn.project = p /\ turn.port = port => HadItsTurn(turn)'
      BY <1>1, <1>2, <1>3, <1>6, <3>2 DEF HadItsTurn
    <3>4. (report' # NoReport => HadItsTurn(report)') /\ (spawned' # NoServer => HadItsTurn(spawned)')
      BY <2>2, <3>3
    <3> QED BY <1>1, <2>2, <2>7, <3>1, <3>4 DEF PassIsCurrent
  <2> QED BY <1>4, <2>4, <2>6, <2>8 DEF PortsIInv
<1> QED BY <1>5, <1>6 DEF Turn, p

(* A server is written down, or its start fails: the turn's report is due.     *)
LEMMA PortsWrite == ASSUME TypeOK, PortsIInv, WriteState \/ WriteFails PROVE PortsIInv'
<1> DEFINE p == spawned.project
           port == spawned.port
<1>1. /\ UNCHANGED <<pc, targets, toStop, left, taken, rows, order>> /\ spawned' = NoServer
      /\ spawned # NoServer /\ report'.project = p /\ report'.port = port
  BY DEF WriteState, WriteFails, CutOff, Say, controlPlane
<1>2. p \in Projects /\ port \in Ports /\ pc = "serve"
  BY <1>1 DEF TypeOK, PortsIInv, PassIsCurrent
<1>3. HadItsTurn(spawned)
  BY <1>1, <1>2 DEF PortsIInv, PassIsCurrent
<1>0. Wanted' = Wanted /\ Listed' = Listed
  BY <1>1 DEF Wanted, Listed
<1>4. /\ \A q \in Projects \ {p} : file'[q] = file[q]
      /\ file'[p] \in {file[p], NoFile} \/ file'[p].port = port
  <2>1. CASE WriteState
    BY <1>2, <2>1 DEF WriteState, TypeOK
  <2>2. CASE WriteFails
    BY <1>1, <1>2, <2>2 DEF WriteFails, OldFileOrNone, Unrecorded, TypeOK
  <2> QED BY <2>1, <2>2
<1> HIDE DEF p, port
<1>5. \A q \in Projects \ {p} : (Held(rows', file', q) = Held(rows, file, q)) /\ (file'[q] = file[q])
  BY <1>1, <1>4 DEF Held
<1>6. Held(rows', file', p) \in {Held(rows, file, p), None, port}
  BY <1>1, <1>4 DEF Held, NoFile
<1>7. /\ \A q \in Projects \ {p} : Held(rows, file, q) # port
      /\ port \in taken /\ p \in Elements(targets.order) \ Elements(left)
  BY <1>3 DEF HadItsTurn, p, port
<1>8. HoldApart'
  BY <1>2, <1>5, <1>6, <1>7, Bounds DEF PortsIInv, HoldApart
<1>9. UnseenIsNew'
  BY <1>0, <1>1, <1>2, <1>5, <1>7 DEF PortsIInv, UnseenIsNew, OrdersOK, HasFile
<1>10. OrdersOK'
  BY <1>0, <1>1 DEF PortsIInv, OrdersOK
<1>11. PassIsCurrent'
  <2>1. HadItsTurn(report)'
    BY <1>1, <1>5, <1>7 DEF HadItsTurn
  <2>2. \A q \in Projects : Held(rows', file', q) \in taken' \cup {None}
    BY <1>1, <1>2, <1>5, <1>6, <1>7 DEF PortsIInv, PassIsCurrent
  <2>3. \A q \in Elements(left)' : targets'.port[q] = rows'[q].port
    BY <1>1, <1>2 DEF PortsIInv, PassIsCurrent
  <2> QED BY <1>1, <1>2, <2>1, <2>2, <2>3 DEF PassIsCurrent
<1> QED BY <1>8, <1>9, <1>10, <1>11 DEF PortsIInv

LEMMA PortsReport == ASSUME TypeOK, PortsIInv, Report PROVE PortsIInv'
<1> DEFINE p == report.project
<1>1. /\ report \in [status : Statuses, project : Projects, port : Ports] /\ p \in Projects
      /\ report' = NoReport /\ UNCHANGED <<order, file, left, taken, spawned>>
      /\ \/ UNCHANGED <<pc, targets>>
         \/ UNCHANGED rows /\ pc = "stop" /\ pc' = "idle" /\ targets' = NoTargets
  BY DEF TypeOK, Report, servers
<1>0. Listed' = Listed
  BY <1>1 DEF Listed
<1>3. pc \in {"stop", "serve"} /\ (pc = "stop" => left = <<>> /\ spawned = NoServer)
  BY <1>1 DEF TypeOK, Report, PortsIInv, PassIsCurrent, OrdersOK
<1> HIDE DEF p
<1>4. CASE UNCHANGED rows /\ pc = "stop" /\ pc' = "idle" /\ targets' = NoTargets
  <2>1. OrdersOK'
    BY <1>0, <1>1, <1>3, <1>4, NoElements DEF PortsIInv, OrdersOK, NoTargets
  <2>2. HoldApart' /\ UnseenIsNew'
    BY <1>0, <1>1, <1>4 DEF PortsIInv, HoldApart, UnseenIsNew, HasFile
  <2>3. PassIsCurrent'
    BY <1>1, <1>3, <1>4 DEF PassIsCurrent
  <2> QED BY <2>1, <2>2, <2>3 DEF PortsIInv
<1>6. ASSUME UNCHANGED <<pc, targets>> PROVE Wanted' = Wanted /\ OrdersOK'
  <2>1. Wanted' = Wanted
    BY <1>6 DEF Wanted
  <2> QED BY <1>0, <1>1, <1>6, <2>1 DEF PortsIInv, OrdersOK
<1>7. CASE UNCHANGED <<rows, pc, targets>>
  <2>2. HoldApart' /\ UnseenIsNew'
    BY <1>0, <1>1, <1>7 DEF PortsIInv, HoldApart, UnseenIsNew, HasFile
  <2>3. PassIsCurrent'
    BY <1>1, <1>7 DEF PortsIInv, PassIsCurrent, HadItsTurn
  <2> QED BY <1>6, <1>7, <2>2, <2>3 DEF PortsIInv
<1>5. CASE rows' = [rows EXCEPT ![p] = [status |-> report.status, port |-> report.port]]
           /\ UNCHANGED <<pc, targets>>
  <2>1. rows'[p].port = report.port /\ \A q \in Projects \ {p} : rows'[q] = rows[q]
    BY <1>1, <1>5 DEF TypeOK
  <2>2. \A q \in Projects \ {p} : (Held(rows', file', q) = Held(rows, file, q)) /\ (file'[q] = file[q])
    BY <1>1, <2>1 DEF Held, HasFile
  <2>3. Held(rows', file', p) = report.port /\ report.port \in Ports
    BY <1>1, <2>1, Bounds DEF Held
  <2>4. CASE pc = "stop"
    <3>1. rows'[p].port = rows[p].port /\ Held(rows', file', p) = Held(rows, file, p)
      BY <1>1, <2>1, <2>3, <2>4, Bounds DEF PortsIInv, PassIsCurrent, Held, p, Report
    <3>2. HoldApart'
      BY <2>2, <3>1 DEF PortsIInv, HoldApart
    <3>3. \A q \in Projects : rows'[q].port = rows[q].port /\ (file'[q] = file[q])
      BY <1>1, <2>1, <3>1 DEF HasFile
    <3>4. UnseenIsNew'
      BY <1>0, <1>1, <1>5, <3>3 DEF PortsIInv, UnseenIsNew, HasFile
    <3>5. PassIsCurrent'
      BY <1>1, <1>3, <1>5, <2>4, <3>3 DEF PortsIInv, PassIsCurrent
    <3> QED BY <1>5, <1>6, <3>2, <3>4, <3>5 DEF PortsIInv
  <2>5. CASE pc = "serve"
    <3>1. /\ report.port \in taken /\ p \in Elements(targets.order) \ Elements(left)
          /\ \A q \in Projects : q # p => Held(rows, file, q) # report.port
      BY <2>5 DEF PortsIInv, PassIsCurrent, HadItsTurn, p, Report
    <3>2. HoldApart'
      BY <2>2, <2>3, <3>1 DEF PortsIInv, HoldApart
    <3>3. UnseenIsNew'
      BY <1>0, <1>1, <1>5, <2>1, <2>2, <3>1 DEF PortsIInv, UnseenIsNew, OrdersOK, HasFile
    <3>4. PassIsCurrent'
      <4>1. \A q \in Elements(left) : q \in Projects /\ q # p
        BY <3>1, ElementsType DEF TypeOK
      <4>2. \A q \in Elements(left)' : targets'.port[q] = rows'[q].port
        BY <1>1, <1>5, <2>1, <2>5, <4>1 DEF PortsIInv, PassIsCurrent
      <4>3. \A q \in Projects : Held(rows', file', q) \in taken' \cup {None}
        BY <1>1, <2>2, <2>3, <2>5, <3>1 DEF PortsIInv, PassIsCurrent
      <4>4. spawned' = NoServer
        BY <1>1, <2>5 DEF PortsIInv, PassIsCurrent, Report
      <4> QED BY <1>1, <1>5, <2>5, <4>2, <4>3, <4>4 DEF PassIsCurrent
    <3> QED BY <1>5, <1>6, <3>2, <3>3, <3>4 DEF PortsIInv
  <2> QED BY <1>3, <2>4, <2>5
<1> QED BY <1>1, <1>4, <1>5, <1>7 DEF Report, p

(* A step that touches neither ports, files, order nor the pass.               *)
LEMMA Quiet ==
  ASSUME TypeOK, [Next]_vars
  PROVE  \/ ReadTargets \/ (\E p \in Projects : StopUnwanted(p) \/ Join(p))
         \/ StartServing \/ Turn \/ WriteState \/ WriteFails \/ Report \/ PassEnds \/ Crash \/ ShutDown
         \/ (\E k \in 2..Len(order) : Activity(k))
         \/ UNCHANGED <<rows, order, file, pass>>
<1>1. \A p \in Projects : InstallEnds(p) \/ InstallFails(p) \/ NpmEnds(p) \/ NpmWorks(p) =>
                            UNCHANGED <<rows, order, file, pass>>
  BY DEF InstallEnds, InstallFails, NpmEnds, NpmWorks, NpmLeaves, controlPlane, servers
<1>2. \A p \in Projects : ServerUp(p) \/ ServerFails(p) \/ ServerDies(p) \/ BackoffEnds(p) =>
                            UNCHANGED <<rows, order, file, pass>>
  BY DEF ServerUp, ServerFails, ServerDies, BackoffEnds, controlPlane, servers
<1>3. /\ \A s \in loose : LooseUp(s) \/ LooseEnds(s) => UNCHANGED <<rows, order, file, pass>>
      /\ \A port \in Ports : PortTaken(port) \/ PortReleased(port) => UNCHANGED <<rows, order, file, pass>>
  BY DEF LooseUp, LooseEnds, PortTaken, PortReleased, controlPlane, servers
<1>4. Machine => UNCHANGED <<rows, order, file, pass>>
  BY <1>1, <1>2, <1>3 DEF Machine
<1>5. \A p \in Projects : Cloned(p) \/ RunStarts(p) \/ RunEnds(p) \/ Merge(p) =>
                            UNCHANGED <<rows, order, file, pass>>
  BY DEF Cloned, RunStarts, RunEnds, Merge, controlPlane, servers
<1>6. UNCHANGED vars => UNCHANGED <<rows, order, file, pass>>
  BY DEF vars, controlPlane, servers
<1> QED BY <1>4, <1>5, <1>6 DEF Next, Supervise, Line

LEMMA PortsQuiet ==
  ASSUME PortsIInv, UNCHANGED <<rows, order, file, pass>> PROVE PortsIInv'
<1>1. Wanted' = Wanted /\ Listed' = Listed /\ UNCHANGED <<pc, targets, toStop, left, taken, spawned, report>>
  BY DEF Wanted, Listed, pass
<1> QED BY <1>1 DEF PortsIInv, OrdersOK, UnseenIsNew, PassIsCurrent, HadItsTurn,
       HoldApart, HasFile

LEMMA PortsStep == ASSUME TypeOK, PortsIInv, [Next]_vars PROVE PortsIInv'
<1> USE DEF PortsIInv, controlPlane, servers
<1>1. ASSUME ReadTargets PROVE PortsIInv'
  <2>1. /\ pc = "idle" /\ pc' = "stop" /\ left' = <<>> /\ left = <<>> /\ report' = NoReport
        /\ spawned' = NoServer
        /\ UNCHANGED <<rows, order, file, taken>> /\ targets'.order = order
        /\ \A p \in Projects : targets'.port[p] = rows[p].port
    BY <1>1 DEF ReadTargets, OrdersOK, PassIsCurrent
  <2>2. Listed' = Listed /\ Elements(order) = Listed /\ Elements(left') = {}
    BY <2>1, NoElements DEF Listed, Elements
  <2>3. OrdersOK'
    BY <2>1, <2>2 DEF OrdersOK
  <2>4. UnseenIsNew' /\ HoldApart'
    BY <2>1, <2>2 DEF UnseenIsNew, HoldApart, HasFile
  <2>5. PassIsCurrent'
    BY <2>1 DEF PassIsCurrent
  <2> QED BY <2>3, <2>4, <2>5
<1>2. ASSUME NEW p \in Projects, StopUnwanted(p) PROVE PortsIInv'
  <2>1. /\ pc = "stop" /\ UNCHANGED <<rows, order, taken, left, targets, pc, spawned>> /\ spawned = NoServer
        /\ \A q \in Projects : file'[q] \in {file[q], NoFile}
        /\ report' # NoReport => report'.project = p /\ report'.port = targets.port[p]
    BY <1>2 DEF StopUnwanted, Stopped, TypeOK, PassIsCurrent
  <2>2. Wanted' = Wanted /\ Listed' = Listed
    BY <2>1 DEF Wanted, Listed
  <2>3. OrdersOK'
    BY <2>1, <2>2 DEF OrdersOK
  <2>4. UnseenIsNew'
    BY <2>1, <2>2 DEF UnseenIsNew, HasFile
  <2>5. HoldApart'
    BY <2>1, FewerHeld
  <2>6. PassIsCurrent'
    BY <2>1 DEF PassIsCurrent
  <2> QED BY <2>3, <2>4, <2>5, <2>6
<1>3. ASSUME StartServing PROVE PortsIInv'
  <2>1. /\ pc = "stop" /\ pc' = "serve" /\ left' = Wanted /\ taken' = ClaimedPorts
        /\ report' = NoReport /\ spawned' = NoServer /\ UNCHANGED <<rows, order, file, targets>>
        /\ \A p \in Projects : targets'.port[p] = rows'[p].port
    BY <1>3 DEF StartServing, PassIsCurrent
  <2>2. Wanted' = Wanted /\ Listed' = Listed /\ Wanted \in Seq(Projects) /\ Distinct(Wanted)
        /\ Elements(Wanted) \subseteq Projects
    BY <2>1, WantedType, ElementsType DEF Wanted, Listed, OrdersOK, TypeOK
  <2>3. OrdersOK'
    BY <2>1, <2>2 DEF OrdersOK
  <2>4. UnseenIsNew' /\ HoldApart'
    BY <2>1, <2>2 DEF UnseenIsNew, HoldApart, HasFile
  <2>5. \A p \in Projects : Held(rows', file', p) \in taken' \cup {None}
    <3> TAKE p \in Projects
    <3>1. CASE p \in Elements(targets.order)
      <4>1. Held(rows, file, p) = Claimed(p)
        BY <2>1 DEF Held, Claimed
      <4> QED BY <2>1, <3>1, <4>1 DEF ClaimedPorts
    <3>2. CASE p \notin Elements(targets.order)
      BY <2>1, <3>2 DEF UnseenIsNew, HasFile, Held, NoFile
    <3> QED BY <3>1, <3>2
  <2>6. PassIsCurrent'
    BY <2>1, <2>2, <2>5 DEF PassIsCurrent
  <2> QED BY <2>3, <2>4, <2>6
<1>4. ASSUME PassEnds PROVE PortsIInv'
  <2>1. /\ pc' = "idle" /\ left' = <<>> /\ report' = NoReport /\ spawned' = NoServer
        /\ UNCHANGED <<rows, order, file>> /\ targets' = NoTargets
    BY <1>4 DEF PassEnds
  <2>2. Listed' = Listed
    BY <2>1 DEF Listed
  <2> QED BY <2>1, <2>2, NoElements DEF OrdersOK, UnseenIsNew, PassIsCurrent,
         HoldApart, HasFile, NoTargets
<1>5. ASSUME Crash \/ ShutDown PROVE PortsIInv'
  <2>1. /\ pc' = "idle" /\ left' = <<>> /\ report' = NoReport /\ targets' = NoTargets /\ spawned' = NoServer
        /\ UNCHANGED <<rows, order>>
    BY <1>5 DEF Crash, ShutDown, Gone, CutOff
  <2>2. Listed' = Listed
    BY <2>1 DEF Listed
  <2>3. \A q \in Projects : file'[q] \in {file[q], NoFile}
    BY <1>5, FileOrNone DEF Crash, ShutDown
  <2>4. HoldApart'
    BY <2>1, <2>3, FewerHeld
  <2> QED BY <2>1, <2>2, <2>3, <2>4, NoElements DEF OrdersOK, UnseenIsNew, PassIsCurrent,
         HasFile, NoTargets
<1>6. ASSUME NEW p \in Projects, Join(p) PROVE PortsIInv'
  <2>1. order' = <<p>> \o order /\ p \notin Listed /\ UNCHANGED <<rows, file, pass>>
    BY <1>6 DEF Join
  <2>2. Wanted' = Wanted /\ UNCHANGED <<pc, targets, left, taken, spawned, report>>
    BY <2>1 DEF Wanted, pass
  <2>3. Elements(order) = Listed /\ Elements(order') = Listed'
    BY DEF Elements, Listed
  <2>4. Distinct(order') /\ Listed' = {p} \cup Listed
    BY <2>1, <2>3, InFront DEF OrdersOK, TypeOK
  <2> QED BY <2>1, <2>2, <2>4 DEF OrdersOK, UnseenIsNew, PassIsCurrent, HadItsTurn,
         HoldApart, HasFile
<1>7. ASSUME NEW k \in 2..Len(order), Activity(k) PROVE PortsIInv'
  <2>1. UNCHANGED <<rows, file, pass>>
    BY <1>7 DEF Activity
  <2>2. Wanted' = Wanted /\ UNCHANGED <<pc, targets, left, taken, spawned, report>>
    BY <2>1 DEF Wanted, pass
  <2>3. Elements(order) = Listed /\ Elements(order') = Listed'
    BY DEF Elements, Listed
  <2>4. Distinct(order') /\ Listed' = Listed
    BY <1>7, <2>3, MovedToFront DEF OrdersOK, TypeOK
  <2> QED BY <2>1, <2>2, <2>4 DEF OrdersOK, UnseenIsNew, PassIsCurrent, HadItsTurn,
         HoldApart, HasFile
<1> QED BY <1>1, <1>2, <1>3, <1>4, <1>5, <1>6, <1>7, PortsTurn, PortsWrite, PortsReport, PortsQuiet, Quiet

LEMMA PortsInit == Init => PortsIInv
<1> SUFFICES ASSUME Init PROVE PortsIInv
  OBVIOUS
<1>1. /\ order = <<>> /\ targets.order = <<>> /\ left = <<>> /\ pc = "idle" /\ report = NoReport
      /\ spawned = NoServer
      /\ \A p \in Projects : rows[p].port = None /\ file[p] = NoFile
  BY DEF Init, NoTargets
<1>2. OrdersOK /\ UnseenIsNew /\ PassIsCurrent
  BY <1>1, NoElements DEF OrdersOK, UnseenIsNew, PassIsCurrent, HasFile
<1>3. HoldApart
  BY <1>1 DEF HoldApart, Held, NoFile
<1> QED BY <1>2, <1>3 DEF PortsIInv

(* No two projects are ever reported at the same port: a project without a row *)
(* holds the port of its state file, so a lost report loses no port.           *)
THEOREM PortsStayApart == Spec => []PortsApart
<1>1. TypeOK /\ PortsIInv => PortsApart
  BY Bounds DEF PortsIInv, HoldApart, PortsApart, Held
<1> QED BY <1>1, InitType, TypeStep, PortsInit, PortsStep, PTL DEF Spec

-----------------------------------------------------------------------------
(* The cap *)

LEMMA OnFileStep ==
  ASSUME TypeOK, PortsIInv, RunningIsOnFile, [Next]_vars PROVE RunningIsOnFile'
<1> USE DEF TypeOK, RunningIsOnFile, HasFile, controlPlane, checkouts, servers, memory, pass
<1>1. ASSUME NEW p \in Projects, StopUnwanted(p) PROVE RunningIsOnFile'
  <2>1. spawned' = NoServer
    BY <1>1 DEF StopUnwanted, PortsIInv, PassIsCurrent
  <2> QED BY <1>1, <2>1 DEF StopUnwanted, Stopped
<1>2. ASSUME Turn PROVE RunningIsOnFile'
  <2> DEFINE p == Head(left)
  <2>1. p \in Projects /\ spawned = NoServer
    BY <1>2, TailOf DEF Turn
  <2> HIDE DEF p
  <2>2. ASSUME NEW port \in PortFor(p), SuperviseOne(p, port) PROVE RunningIsOnFile'
    <3>1. /\ \/ spawned' = [project |-> p, port |-> port] /\ ~Alive(p) /\ UNCHANGED servers
             \/ spawned' = spawned
          /\ \A q \in Projects \ {p} : file'[q] = file[q] /\ server'[q] = server[q]
          /\ (file'[p] = file[p] /\ server'[p] = server[p]) \/ (file'[p] = NoFile /\ server'[p] = "down")
      BY <2>1, <2>2, PortForType, TurnDoes
    <3>2. \A q \in Projects : server'[q] # "down" => file'[q] # NoFile
      BY <2>1, <3>1
    <3>3. spawned' # NoServer => server'[spawned'.project] = "down"
      BY <2>1, <3>1 DEF Alive
    <3> QED BY <3>2, <3>3
  <2>3. CASE UNCHANGED <<taken, spawned, report, lock, modules, npms, servers, memory, faults>>
    BY <2>3
  <2> QED BY <1>2, <2>2, <2>3 DEF Turn, p
<1>3. ASSUME WriteState PROVE RunningIsOnFile'
  <2>1. spawned.port # None /\ spawned.project \in Projects /\ spawned' = NoServer
    BY <1>3, Bounds DEF WriteState
  <2>2. file'[spawned.project] # NoFile
    BY <1>3, <2>1 DEF WriteState, NoFile
  <2> QED BY <1>3, <2>1, <2>2 DEF WriteState
<1>4. ASSUME WriteFails \/ Crash PROVE RunningIsOnFile'
  <2>1. /\ UNCHANGED server /\ spawned' = NoServer
        /\ \A q \in Projects : file'[q] = file[q] \/ (spawned # NoServer /\ q = spawned.project)
    BY <1>4 DEF WriteFails, Crash, Gone, CutOff, OldFileOrNone, Unrecorded
  <2> QED BY <2>1
<1>5. ASSUME ShutDown PROVE RunningIsOnFile'
  BY <1>5 DEF ShutDown, Gone, CutOff
<1>6. \A p \in Projects :
        ServerUp(p) \/ ServerFails(p) \/ ServerDies(p) =>
          /\ UNCHANGED <<file, spawned>>
          /\ \A q \in Projects : server'[q] # "down" => server[q] # "down"
  BY DEF ServerUp, ServerFails, ServerDies
<1>7. \A p \in Projects :
        InstallEnds(p) \/ InstallFails(p) \/ NpmEnds(p) \/ NpmWorks(p) \/ BackoffEnds(p)
          => UNCHANGED <<file, server, spawned>>
  BY DEF InstallEnds, InstallFails, NpmEnds, NpmWorks, NpmLeaves, BackoffEnds
<1>8. /\ \A s \in loose : LooseUp(s) \/ LooseEnds(s) => UNCHANGED <<file, server, spawned>>
      /\ \A port \in Ports : PortTaken(port) \/ PortReleased(port) => UNCHANGED <<file, server, spawned>>
  BY DEF LooseUp, LooseEnds, PortTaken, PortReleased
<1>9. ASSUME Machine PROVE RunningIsOnFile'
  <2>1. CASE UNCHANGED <<file, server, spawned>>
    BY <2>1
  <2>2. CASE UNCHANGED <<file, spawned>> /\ \A q \in Projects : server'[q] # "down" => server[q] # "down"
    BY <2>2
  <2> QED BY <1>6, <1>7, <1>8, <1>9, <2>1, <2>2 DEF Machine
<1>10. ASSUME Line PROVE RunningIsOnFile'
  <2>1. UNCHANGED <<file, server, spawned>>
    BY <1>10 DEF Line, Join, Cloned, Activity, RunStarts, RunEnds, Merge
  <2> QED BY <2>1
<1>11. CASE ReadTargets \/ StartServing \/ Report \/ PassEnds \/ UNCHANGED vars
  <2>1. UNCHANGED <<file, server, spawned>>
    BY <1>11 DEF ReadTargets, StartServing, Report, PassEnds, vars
  <2> QED BY <2>1
<1> QED BY <1>1, <1>2, <1>3, <1>4, <1>5, <1>9, <1>10, <1>11 DEF Next, Supervise

LEMMA OnFileInit == Init => RunningIsOnFile
  BY DEF Init, RunningIsOnFile

LEMMA FewerFiled ==
  ASSUME FiledKept, Filed' \subseteq Filed
  PROVE  MaxServers > 0 => IsFiniteSet(Filed') /\ Cardinality(Filed') <= MaxServers
<1> SUFFICES ASSUME MaxServers > 0 PROVE IsFiniteSet(Filed') /\ Cardinality(Filed') <= MaxServers
  OBVIOUS
<1>1. IsFiniteSet(Filed) /\ Cardinality(Filed) <= MaxServers
  BY DEF FiledKept
<1>2. IsFiniteSet(Filed') /\ Cardinality(Filed') <= Cardinality(Filed)
  BY <1>1, FS_Subset
<1>3. Cardinality(Filed) \in Nat /\ Cardinality(Filed') \in Nat /\ MaxServers \in Nat
  BY <1>1, <1>2, FS_CardinalityType, ServersAssumption
<1> QED BY <1>1, <1>2, <1>3

(* A set of projects to serve is no larger than the cap.                      *)
LEMMA WantedSize ==
  ASSUME TypeOK, MaxServers > 0, NEW S, S \subseteq Elements(Wanted)
  PROVE  IsFiniteSet(S) /\ Cardinality(S) <= MaxServers
<1>1. Wanted \in Seq(Projects) /\ Len(Wanted) <= MaxServers
  BY WantedType DEF TypeOK
<1>2. IsFiniteSet(Elements(Wanted)) /\ Cardinality(Elements(Wanted)) <= Len(Wanted)
  BY <1>1, SizeOf
<1>3. IsFiniteSet(S) /\ Cardinality(S) <= Cardinality(Elements(Wanted))
  BY <1>2, FS_Subset
<1>4. /\ Cardinality(S) \in Nat /\ Cardinality(Elements(Wanted)) \in Nat
      /\ Len(Wanted) \in Nat /\ MaxServers \in Nat
  BY <1>1, <1>2, <1>3, FS_CardinalityType, ServersAssumption
<1> QED BY <1>1, <1>2, <1>3, <1>4

LEMMA CapStep == ASSUME TypeOK, PortsIInv, FiledKept, [Next]_vars PROVE FiledKept'
<1> USE DEF controlPlane, servers
<1>0. ASSUME UNCHANGED targets PROVE Wanted' = Wanted
  BY <1>0 DEF Wanted
<1>1. ASSUME ReadTargets PROVE FiledKept'
  <2>1. Filed' = Filed /\ pc' = "stop" /\ toStop' = {p \in Listed : HasFile(p)} \ Elements(Wanted')
        /\ spawned' = NoServer
    BY <1>1 DEF ReadTargets, Filed, HasFile, PortsIInv, PassIsCurrent
  <2>2. Filed \subseteq {p \in Listed : HasFile(p)}
    BY DEF Filed, PortsIInv, UnseenIsNew
  <2> QED BY <2>1, <2>2, FewerFiled DEF FiledKept
<1>2. ASSUME NEW p \in Projects, StopUnwanted(p) PROVE FiledKept'
  <2>1. Filed' = Filed \ {p} /\ pc = "stop" /\ pc' = "stop" /\ toStop' = toStop \ {p} /\ UNCHANGED targets
        /\ spawned' = NoServer
    BY <1>2 DEF StopUnwanted, Stopped, Filed, HasFile, TypeOK, PortsIInv, PassIsCurrent
  <2> QED BY <1>0, <2>1, FewerFiled DEF FiledKept
<1>3. ASSUME StartServing PROVE FiledKept'
  <2>1. Filed' = Filed /\ pc = "stop" /\ pc' = "serve" /\ toStop = {} /\ UNCHANGED targets
        /\ spawned' = NoServer
    BY <1>3 DEF StartServing, Filed, HasFile, PortsIInv, PassIsCurrent
  <2> QED BY <1>0, <2>1, FewerFiled DEF FiledKept
<1>4. ASSUME Turn PROVE FiledKept'
  <2> DEFINE p == Head(left)
  <2>1. /\ left \in Seq(Projects) /\ left # <<>> /\ pc = "serve" /\ pc' = "serve" /\ UNCHANGED targets
        /\ spawned = NoServer
    BY <1>4 DEF Turn, TypeOK
  <2>2. p \in Projects /\ p \in Elements(Wanted)
    BY <2>1, TailOf DEF PortsIInv, OrdersOK
  <2> HIDE DEF p
  <2>3. /\ \A q \in Projects : file'[q] \in {file[q], NoFile}
        /\ spawned' = NoServer \/ spawned'.project = p
    <3>1. ASSUME NEW port \in PortFor(p), SuperviseOne(p, port)
          PROVE  /\ \A q \in Projects : file'[q] \in {file[q], NoFile}
                 /\ spawned' = NoServer \/ spawned'.project = p
      <4>1. port \in Ports
        BY <2>2, <3>1, PortForType
      <4>2. /\ \A q \in Projects \ {p} : file'[q] = file[q]
            /\ file'[p] \in {file[p], NoFile}
            /\ spawned' = spawned \/ spawned' = [project |-> p, port |-> port]
        BY <2>2, <3>1, <4>1, TurnDoes
      <4> QED BY <2>1, <4>2
    <3> QED BY <1>4, <2>1, <3>1 DEF Turn, p
  <2>4. Filed' \subseteq Filed
    BY <2>3 DEF Filed, HasFile
  <2> QED BY <1>0, <2>1, <2>2, <2>3, <2>4, FewerFiled DEF FiledKept
<1>5. ASSUME WriteState \/ WriteFails PROVE FiledKept'
  <2>1. spawned # NoServer /\ spawned' = NoServer /\ UNCHANGED <<pc, targets, toStop>>
    BY <1>5 DEF WriteState, WriteFails, CutOff
  <2>2. pc = "serve" /\ spawned.project \in Elements(Wanted) /\ Wanted' = Wanted
    BY <1>0, <2>1 DEF FiledKept
  <2>3. Filed' \subseteq Filed \cup {spawned.project}
    <3>1. CASE WriteState
      BY <3>1 DEF WriteState, Filed, HasFile, TypeOK
    <3>2. CASE WriteFails
      <4>1. \A q \in Projects : file'[q] \in {file[q], NoFile}
        BY <3>2, FileOrNone DEF WriteFails
      <4> QED BY <4>1 DEF Filed, HasFile
    <3> QED BY <1>5, <3>1, <3>2
  <2>4. Filed' \subseteq Elements(Wanted)
    BY <2>2, <2>3 DEF FiledKept
  <2>5. MaxServers > 0 => IsFiniteSet(Filed') /\ Cardinality(Filed') <= MaxServers
    BY <2>4, WantedSize
  <2> QED BY <2>1, <2>2, <2>4, <2>5 DEF FiledKept
<1>6. ASSUME Report PROVE FiledKept'
  <2>1. /\ Filed' = Filed /\ spawned' = NoServer
        /\ UNCHANGED <<pc, targets, toStop>> \/ pc' = "idle"
    BY <1>6 DEF Report, Filed, HasFile, PortsIInv, PassIsCurrent
  <2> QED BY <1>0, <2>1, FewerFiled DEF FiledKept
<1>7. ASSUME PassEnds \/ Crash \/ ShutDown PROVE FiledKept'
  <2>1. pc' = "idle" /\ spawned' = NoServer /\ \A q \in Projects : file'[q] \in {file[q], NoFile}
    BY <1>7, FileOrNone DEF PassEnds, Crash, ShutDown, Gone, CutOff
  <2>2. Filed' \subseteq Filed
    BY <2>1 DEF Filed, HasFile
  <2> QED BY <2>1, <2>2, FewerFiled DEF FiledKept
<1>8. ASSUME UNCHANGED <<file, pass>> PROVE FiledKept'
  <2>1. Filed' = Filed /\ UNCHANGED <<pc, targets, toStop, spawned>>
    BY <1>8 DEF Filed, HasFile, pass
  <2> QED BY <1>0, <2>1, FewerFiled DEF FiledKept
<1>9. /\ \A p \in Projects : Join(p) => UNCHANGED <<file, pass>>
      /\ \A k \in 2..Len(order) : Activity(k) => UNCHANGED <<file, pass>>
  BY DEF Join, Activity
<1> QED BY <1>1, <1>2, <1>3, <1>4, <1>5, <1>6, <1>7, <1>8, <1>9, Quiet

LEMMA CapInit == Init => FiledKept
<1> SUFFICES ASSUME Init PROVE FiledKept
  OBVIOUS
<1>1. Filed = {} /\ pc = "idle" /\ spawned = NoServer
  BY DEF Init, Filed, HasFile
<1>2. IsFiniteSet({}) /\ Cardinality({}) = 0
  BY FS_EmptySet
<1> QED BY <1>1, <1>2, ServersAssumption DEF FiledKept

(* The servers nobody knows of: none comes but with a start that is cut off.  *)
LEMMA NoMoreLost ==
  ASSUME TypeOK, LostCounted, Lost' \subseteq Lost, cutOff' = cutOff PROVE LostCounted'
<1>1. IsFiniteSet(Lost') /\ Cardinality(Lost') <= Cardinality(Lost)
  BY FS_Subset DEF LostCounted
<1>2. Cardinality(Lost) \in Nat /\ Cardinality(Lost') \in Nat /\ cutOff \in Nat
  BY <1>1, FS_CardinalityType DEF LostCounted, TypeOK
<1> QED BY <1>1, <1>2 DEF LostCounted

LEMMA OneMoreLost ==
  ASSUME TypeOK, LostCounted, CutOff, Lost' = Lost \cup Unrecorded PROVE LostCounted'
<1>1. CASE spawned = NoServer
  BY <1>1, NoMoreLost DEF CutOff, Unrecorded
<1>2. CASE spawned # NoServer
  <2> DEFINE s == [project |-> spawned.project, port |-> spawned.port, state |-> "starting",
                   nth |-> cutOff + 1]
  <2>1. Lost' = Lost \cup {s} /\ cutOff' = cutOff + 1
    BY <1>2 DEF CutOff, Unrecorded
  <2> HIDE DEF s
  <2>2. IsFiniteSet(Lost') /\ Cardinality(Lost') \in {Cardinality(Lost), Cardinality(Lost) + 1}
    BY <2>1, FS_AddElement DEF LostCounted
  <2>3. Cardinality(Lost) \in Nat /\ cutOff \in Nat /\ Cardinality(Lost) <= cutOff
    BY FS_CardinalityType DEF LostCounted, TypeOK
  <2> QED BY <2>1, <2>2, <2>3 DEF LostCounted
<1> QED BY <1>1, <1>2

LEMMA LostComesUp ==
  ASSUME TypeOK, LostCounted, NEW s \in loose, LooseUp(s) PROVE LostCounted'
<1> DEFINE up == [s EXCEPT !.state = "up"]
<1>1. s \in Lost /\ Lost' = (Lost \ {s}) \cup {up} /\ cutOff' = cutOff
  BY DEF LooseUp, Lost, TypeOK, Loose
<1> HIDE DEF up
<1>2. IsFiniteSet(Lost \ {s}) /\ Cardinality(Lost \ {s}) = Cardinality(Lost) - 1
  BY <1>1, FS_RemoveElement DEF LostCounted
<1>3. IsFiniteSet(Lost') /\ Cardinality(Lost') \in {Cardinality(Lost) - 1, Cardinality(Lost) - 1 + 1}
  BY <1>1, <1>2, FS_AddElement
<1>4. Cardinality(Lost) \in Nat /\ Cardinality(Lost') \in Nat /\ cutOff \in Nat /\ Cardinality(Lost) <= cutOff
  BY <1>3, FS_CardinalityType DEF LostCounted, TypeOK
<1> QED BY <1>1, <1>3, <1>4 DEF LostCounted

LEMMA LostStep == ASSUME TypeOK, LostCounted, [Next]_vars PROVE LostCounted'
<1> USE DEF servers
<1>1. ASSUME NEW p \in Projects, StopUnwanted(p) PROVE LostCounted'
  <2>1. Lost' \subseteq Lost /\ cutOff' = cutOff
    BY <1>1 DEF StopUnwanted, Stopped, OnTheWayOut, Lost
  <2> QED BY <2>1, NoMoreLost
<1>2. ASSUME Turn PROVE LostCounted'
  <2>1. Head(left) \in Projects
    BY <1>2, TailOf DEF Turn, TypeOK
  <2>2. ASSUME NEW port \in PortFor(Head(left)), SuperviseOne(Head(left), port) PROVE LostCounted'
    <3>1. port \in Ports
      BY <2>1, <2>2, PortForType
    <3> QED BY <2>1, <2>2, <3>1, TurnDoes, TurnType, NoMoreLost
  <2>3. ASSUME UNCHANGED servers PROVE LostCounted'
    BY <2>3, NoMoreLost DEF Lost
  <2> QED BY <1>2, <2>2, <2>3 DEF Turn
<1>3. ASSUME WriteFails \/ Crash PROVE LostCounted'
  <2>1. CutOff /\ loose' = loose \cup Unrecorded
    BY <1>3 DEF WriteFails, Crash, Gone
  <2>2. Lost' = Lost \cup Unrecorded
    BY <2>1 DEF Lost, Unrecorded
  <2> QED BY <2>1, <2>2, OneMoreLost
<1>4. ASSUME ShutDown PROVE LostCounted'
  <2>1. CutOff /\ loose' = loose \cup Unrecorded \cup {OnTheWayOut(p) : p \in {q \in Projects : Alive(q)}}
    BY <1>4 DEF ShutDown, Gone
  <2>2. Lost' = Lost \cup Unrecorded
    BY <2>1 DEF Lost, Unrecorded, OnTheWayOut
  <2> QED BY <2>1, <2>2, OneMoreLost
<1>5. ASSUME NEW s \in loose, LooseEnds(s) PROVE LostCounted'
  BY <1>5, NoMoreLost DEF LooseEnds, Lost
<1>6. ASSUME UNCHANGED <<loose, cutOff>> PROVE LostCounted'
  BY <1>6, NoMoreLost DEF Lost
<1>7. \A p \in Projects :
        InstallEnds(p) \/ InstallFails(p) \/ NpmEnds(p) \/ NpmWorks(p) \/ BackoffEnds(p)
          \/ ServerUp(p) \/ ServerFails(p) \/ ServerDies(p) => UNCHANGED <<loose, cutOff>>
  BY DEF InstallEnds, InstallFails, NpmEnds, NpmWorks, NpmLeaves, BackoffEnds, ServerUp, ServerFails,
     ServerDies
<1>8. \A port \in Ports : PortTaken(port) \/ PortReleased(port) => UNCHANGED <<loose, cutOff>>
  BY DEF PortTaken, PortReleased
<1>9. Line => UNCHANGED <<loose, cutOff>>
  BY DEF Line, Join, Cloned, Activity, RunStarts, RunEnds, Merge
<1>10. ReadTargets \/ StartServing \/ WriteState \/ Report \/ PassEnds \/ UNCHANGED vars
         => UNCHANGED <<loose, cutOff>>
  BY DEF ReadTargets, StartServing, WriteState, Report, PassEnds, vars
<1>11. ASSUME Machine PROVE LostCounted'
  BY <1>5, <1>6, <1>7, <1>8, <1>11, LostComesUp DEF Machine
<1> QED BY <1>1, <1>2, <1>3, <1>4, <1>6, <1>9, <1>10, <1>11 DEF Next, Supervise

LEMMA LostInit == Init => LostCounted
<1> SUFFICES ASSUME Init PROVE LostCounted
  OBVIOUS
<1>1. Lost = {} /\ cutOff = 0
  BY DEF Init, Lost
<1> QED BY <1>1, FS_EmptySet DEF LostCounted

(* However the order of the projects changes, and whichever servers a restarted *)
(* bridge finds, the servers on file and the one being started are within      *)
(* LOCAL_SERVERS_MAX, for a pass stops the servers past the cap before it      *)
(* starts any; each server nobody knows of is from a start that was cut off.   *)
THEOREM CapAlwaysHolds == Spec => []CapHolds
<1>1. TypeOK /\ PortsIInv /\ RunningIsOnFile /\ FiledKept /\ LostCounted => CapHolds
  <2> SUFFICES ASSUME TypeOK, PortsIInv, RunningIsOnFile, FiledKept, LostCounted, MaxServers > 0
               PROVE  Cardinality(Served) + Cardinality(Lost) <= MaxServers + cutOff
    BY DEF CapHolds
  <2>1. IsFiniteSet(Served) /\ Cardinality(Served) <= MaxServers
    <3>1. CASE spawned = NoServer
      <4>1. Served \subseteq Filed /\ IsFiniteSet(Filed) /\ Cardinality(Filed) <= MaxServers
        BY <3>1 DEF Served, RunningIsOnFile, Filed, FiledKept
      <4>2. IsFiniteSet(Served) /\ Cardinality(Served) <= Cardinality(Filed)
        BY <4>1, FS_Subset
      <4>3. Cardinality(Filed) \in Nat /\ Cardinality(Served) \in Nat /\ MaxServers \in Nat
        BY <4>1, <4>2, FS_CardinalityType, ServersAssumption
      <4> QED BY <4>1, <4>2, <4>3
    <3>2. CASE spawned # NoServer
      <4>1. Served \subseteq Elements(Wanted)
        BY <3>2 DEF Served, RunningIsOnFile, Filed, FiledKept
      <4> QED BY <4>1, WantedSize
    <3> QED BY <3>1, <3>2
  <2>2. Cardinality(Lost) \in Nat /\ Cardinality(Lost) <= cutOff /\ Cardinality(Served) \in Nat
        /\ cutOff \in Nat /\ MaxServers \in Nat
    BY <2>1, FS_CardinalityType, ServersAssumption DEF LostCounted, TypeOK
  <2> QED BY <2>1, <2>2
<1> QED BY <1>1, InitType, TypeStep, PortsInit, PortsStep, OnFileInit, OnFileStep, CapInit, CapStep,
       LostInit, LostStep, PTL DEF Spec

-----------------------------------------------------------------------------
(* Installs *)

(* A turn leaves the other projects as they are, and of its own npms at most   *)
(* one that it waits for; where a run is, none.                                *)
LEMMA TurnInstalls ==
  ASSUME TypeOK, InstallsKnown, NEW p \in Projects, NEW port \in Ports, SuperviseOne(p, port)
  PROVE  /\ \A q \in Projects \ {p} : lock'[q] = lock[q] /\ install'[q] = install[q] /\ npms'[q] = npms[q]
         /\ install'[p] = "running" => lock'[p] # None
         /\ \A npm \in npms'[p] : npm.of = "bridge" => install'[p] = "running"
         /\ \A a, b \in npms'[p] : a.of = "bridge" /\ b.of = "bridge" => a = b
         /\ p \in targets.busy => \A npm \in npms'[p] : npm.of # "bridge"
<1> USE DEF TypeOK, InstallsKnown, memory
<1>0. Pull(p) => (\A q \in Projects \ {p} : lock'[q] = lock[q]) /\ (lock[p] # None => lock'[p] # None)
  BY Bounds DEF Pull
<1>1. CASE NoCheckout(p, port)
  BY <1>1 DEF NoCheckout
<1>2. CASE InstallContinues(p, port)
  BY <1>0, <1>2 DEF InstallContinues
<1>3. CASE InstallYields(p, port)
  <2>1. npms'[p] = Released(p, "ending") /\ \A npm \in npms'[p] : npm.of # "bridge"
    BY <1>3, ReleasedType DEF InstallYields
  <2>2. /\ \A q \in Projects \ {p} : lock'[q] = lock[q] /\ install'[q] = install[q] /\ npms'[q] = npms[q]
        /\ install'[p] = "none"
    BY <1>0, <1>3 DEF InstallYields
  <2> QED BY <2>1, <2>2
<1>4. CASE InstallFailed(p, port)
  BY <1>0, <1>4 DEF InstallFailed
<1>5. CASE StartInstall(p, port)
  <2>1. /\ install' = [install EXCEPT ![p] = "running"] /\ install[p] # "running"
        /\ npms' = [npms EXCEPT ![p] = @ \cup {[of |-> "bridge", lock |-> lock'[p]]}]
        /\ p \notin targets.busy /\ lock[p] # None /\ Pull(p)
    BY <1>5 DEF StartInstall, Settled
  <2>2. \A npm \in npms[p] : npm.of # "bridge"
    BY <2>1
  <2>3. \A npm \in npms'[p] : npm \in npms[p] \/ npm = [of |-> "bridge", lock |-> lock'[p]]
    BY <2>1
  <2> QED BY <1>0, <2>1, <2>2, <2>3
<1>6. CASE WaitForRun(p, port)
  BY <1>0, <1>6 DEF WaitForRun, Settled
<1>7. CASE Check(p, port)
  BY <1>0, <1>7 DEF Check, Settled
<1>8. CASE BackOff(p, port)
  BY <1>0, <1>8 DEF BackOff, Down, Settled
<1>9. CASE Spawn(p, port)
  BY <1>0, <1>9 DEF Spawn, Down, Settled
<1>10. CASE NoSecrets(p, port)
  BY <1>0, <1>10 DEF NoSecrets, Down, Settled
<1> QED BY <1>1, <1>2, <1>3, <1>4, <1>5, <1>6, <1>7, <1>8, <1>9, <1>10 DEF SuperviseOne

LEMMA InstallsStep == ASSUME TypeOK, InstallsKnown, [Next]_vars PROVE InstallsKnown'
<1> USE DEF controlPlane, checkouts, memory
<1>0. UNCHANGED <<lock, install, npms>> => InstallsKnown'
  BY DEF InstallsKnown
<1>1. ASSUME Turn PROVE InstallsKnown'
  <2> DEFINE p == Head(left)
  <2>1. p \in Projects
    BY <1>1, TailOf DEF Turn, TypeOK
  <2> HIDE DEF p
  <2>2. ASSUME NEW port \in PortFor(p), SuperviseOne(p, port) PROVE InstallsKnown'
    <3>1. port \in Ports
      BY <2>1, <2>2, PortForType
    <3> QED BY <2>1, <2>2, <3>1, TurnInstalls DEF InstallsKnown
  <2> QED BY <1>0, <1>1, <2>2 DEF Turn, p
<1>2. ASSUME Gone, UNCHANGED lock PROVE InstallsKnown'
  <2>1. \A p \in Projects : install'[p] = "none" /\ \A npm \in npms'[p] : npm.of # "bridge"
    BY <1>2, ReleasedType DEF Gone
  <2> QED BY <2>1 DEF InstallsKnown
<1>3. ASSUME NEW p \in Projects, InstallEnds(p) \/ InstallFails(p) PROVE InstallsKnown'
  <2>1. PICK npm \in npms[p] : npm.of = "bridge" /\ npms' = [npms EXCEPT ![p] = @ \ {npm}]
    BY <1>3 DEF InstallEnds, InstallFails, NpmLeaves
  <2>2. UNCHANGED lock /\ \A q \in Projects \ {p} : install'[q] = install[q]
    BY <1>3 DEF InstallEnds, InstallFails, NpmLeaves, TypeOK
  <2>3. install'[p] # "running"
    BY <1>3 DEF InstallEnds, InstallFails, TypeOK
  <2> QED BY <2>1, <2>2, <2>3 DEF InstallsKnown, TypeOK
<1>4. ASSUME NEW p \in Projects, NpmEnds(p) PROVE InstallsKnown'
  <2>1. UNCHANGED <<lock, install>> /\ \A q \in Projects : npms'[q] \subseteq npms[q]
    BY <1>4 DEF NpmEnds, NpmLeaves, TypeOK
  <2> QED BY <2>1 DEF InstallsKnown
<1>5. ASSUME NEW p \in Projects, Cloned(p) PROVE InstallsKnown'
  <2>1. UNCHANGED <<install, npms>> /\ \A q \in Projects : lock[q] # None => lock'[q] # None
    BY <1>5, Bounds DEF Cloned, TypeOK
  <2> QED BY <2>1 DEF InstallsKnown
<1>6. \A p \in Projects :
        NpmWorks(p) \/ ServerUp(p) \/ ServerFails(p) \/ ServerDies(p) \/ BackoffEnds(p)
          => UNCHANGED <<lock, install, npms>>
  BY DEF NpmWorks, ServerUp, ServerFails, ServerDies, BackoffEnds
<1>7. /\ \A s \in loose : LooseUp(s) \/ LooseEnds(s) => UNCHANGED <<lock, install, npms>>
      /\ \A port \in Ports : PortTaken(port) \/ PortReleased(port) => UNCHANGED <<lock, install, npms>>
  BY DEF LooseUp, LooseEnds, PortTaken, PortReleased
<1>8. ASSUME Machine PROVE InstallsKnown'
  BY <1>0, <1>3, <1>4, <1>6, <1>7, <1>8 DEF Machine
<1>9. /\ \A p \in Projects : Join(p) \/ RunStarts(p) \/ RunEnds(p) \/ Merge(p) =>
                               UNCHANGED <<lock, install, npms>>
      /\ \A k \in 2..Len(order) : Activity(k) => UNCHANGED <<lock, install, npms>>
  BY DEF Join, RunStarts, RunEnds, Merge, Activity
<1>10. ASSUME Line PROVE InstallsKnown'
  BY <1>0, <1>5, <1>9, <1>10 DEF Line
<1>11. CASE Crash \/ ShutDown
  BY <1>2, <1>11 DEF Crash, ShutDown
<1>12. ReadTargets \/ (\E p \in Projects : StopUnwanted(p)) \/ StartServing \/ WriteState \/ WriteFails
         \/ Report \/ PassEnds \/ UNCHANGED vars => UNCHANGED <<lock, install, npms>>
  BY DEF ReadTargets, StopUnwanted, StartServing, WriteState, WriteFails, Report, PassEnds, vars
<1> QED BY <1>0, <1>1, <1>8, <1>10, <1>11, <1>12 DEF Next, Supervise

LEMMA YieldStep ==
  ASSUME TypeOK, InstallsKnown, [Next]_vars, NEW p \in Projects, TurnBesideRun(p)
  PROVE  \A npm \in npms'[p] : npm.of # "bridge"
<1>1. left \in Seq(Projects) /\ left # <<>> /\ left' = Tail(left) /\ Head(left) = p /\ p \in targets.busy
      /\ pc = "serve" /\ pc' = "serve" /\ PortFor(p) # {}
  BY DEF TurnBesideRun, TypeOK
<1>2. left' # left
  BY <1>1
<1>3. Turn
  <2>1. \A q \in Projects : ~StopUnwanted(q) /\ ~Join(q)
    BY <1>2 DEF StopUnwanted, Join, pass
  <2>2. \A k \in 2..Len(order) : ~Activity(k)
    BY <1>2 DEF Activity, pass
  <2>3. ~UNCHANGED <<rows, order, file, pass>>
    BY <1>2 DEF pass
  <2>4. ~ReadTargets /\ ~StartServing /\ ~WriteState /\ ~WriteFails /\ ~Report /\ ~PassEnds
        /\ ~Crash /\ ~ShutDown
    BY <1>1, <1>2 DEF ReadTargets, StartServing, WriteState, WriteFails, Report, PassEnds, Crash, ShutDown,
       Gone
  <2> QED BY <2>1, <2>2, <2>3, <2>4, Quiet
<1>4. PICK port \in PortFor(p) : SuperviseOne(p, port)
  BY <1>1, <1>3 DEF Turn
<1>5. port \in Ports
  BY PortForType
<1> QED BY <1>1, <1>4, <1>5, TurnInstalls

LEMMA InstallsInit == Init => InstallsKnown
  BY DEF Init, InstallsKnown

(* A turn in a checkout a run uses, as the pass knows, leaves none of this     *)
(* bridge's npms at work but those told to end.                                *)
THEOREM InstallsAlwaysYield == Spec => InstallsYield
<1>1. TypeOK /\ InstallsKnown /\ [Next]_vars =>
        [\A p \in Projects : TurnBesideRun(p) => \A npm \in npms'[p] : npm.of # "bridge"]_vars
  BY YieldStep
<1> QED BY <1>1, InitType, TypeStep, InstallsInit, InstallsStep, PTL DEF Spec, InstallsYield
=============================================================================
