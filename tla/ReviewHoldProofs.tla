-------------------------- MODULE ReviewHoldProofs --------------------------
(***************************************************************************)
(* The factory's hold and the protection of main, for every bound.         *)
(*                                                                         *)
(* HoldIInv: under a hold each label of the factory's has its revocation   *)
(* queued behind it.  FollowIInv: main ends up protected, once what is     *)
(* queued is carried out, for the mode in force, or for the one before     *)
(* while the change that follows it is on its way.                         *)
(***************************************************************************)
EXTENDS ReviewHold, TLAPS

(* A queue of effect rows; only a label is ever cancelled. *)
IsQueue(rows) ==
  /\ rows \in Seq(Effect)
  /\ \A i \in DOMAIN rows : rows[i].cancelled => rows[i].kind \in {"apply-label", "skip"}

(* The row at i has a revocation behind it. *)
RevokedAfter(rows, i) == \E j \in DOMAIN rows : i < j /\ rows[j].kind = "remove-label"
ByFactory(effect) == effect.kind = "apply-label" /\ effect.by = "factory"
Covered(rows) == \A i \in DOMAIN rows : ByFactory(rows[i]) => RevokedAfter(rows, i)

QueuesOK == IsQueue(queued) /\ IsQueue(polled)

(* Before the pull request there is nothing to hold. *)
GenesisIsEmpty == stage = "GENESIS" => label = "off" /\ queued = <<>> /\ polled = <<>>

(* Under a hold, every label the factory applied or is about to apply has a   *)
(* revocation queued behind it.                                               *)
HoldCovered ==
  factoryMode = "gray" /\ holdReached =>
    /\ label = "factory" => RevokedAfter(Rows, 0)
    /\ Covered(Rows)

HoldIInv == QueuesOK /\ GenesisIsEmpty /\ HoldCovered

-----------------------------------------------------------------------------
(* Sequences of effect rows *)

LEMMA ConcatProperties ==
  ASSUME NEW S, NEW s \in Seq(S), NEW t \in Seq(S)
  PROVE  /\ s \o t \in Seq(S)
         /\ DOMAIN (s \o t) = 1..Len(s) + Len(t)
         /\ \A i \in 1..Len(s) : (s \o t)[i] = s[i]
         /\ \A i \in (Len(s) + 1)..(Len(s) + Len(t)) : (s \o t)[i] = t[i - Len(s)]
  OBVIOUS

(* Two queues make one. *)
LEMMA ConcatIsQueue ==
  ASSUME NEW r, NEW q, IsQueue(r), IsQueue(q)
  PROVE  IsQueue(r \o q)
  BY ConcatProperties DEF IsQueue

(* A row that is no label of the factory's keeps what is covered covered. *)
LEMMA AppendCovered ==
  ASSUME NEW r, IsQueue(r), NEW e \in Effect, ~ByFactory(e)
  PROVE  /\ Covered(r) => Covered(r \o <<e>>)
         /\ RevokedAfter(r, 0) => RevokedAfter(r \o <<e>>, 0)
<1> DEFINE s == r \o <<e>>
<1>1. /\ DOMAIN s = 1..Len(r) + 1 /\ DOMAIN r = 1..Len(r) /\ Len(r) \in Nat
      /\ \A i \in DOMAIN r : s[i] = r[i]
      /\ s[Len(r) + 1] = e
  BY ConcatProperties DEF IsQueue
<1> HIDE DEF s
<1>2. ASSUME Covered(r) PROVE Covered(s)
  BY <1>1, <1>2 DEF Covered, RevokedAfter
<1>3. ASSUME RevokedAfter(r, 0) PROVE RevokedAfter(s, 0)
  BY <1>1, <1>3 DEF RevokedAfter
<1> QED BY <1>2, <1>3 DEF s

(* A revocation at the end covers everything. *)
LEMMA RevokeCovers ==
  ASSUME NEW r, IsQueue(r), NEW e \in Effect, e.kind = "remove-label"
  PROVE  Covered(r \o <<e>>) /\ RevokedAfter(r \o <<e>>, 0)
<1> DEFINE s == r \o <<e>>
<1>1. /\ DOMAIN s = 1..Len(r) + 1 /\ Len(r) \in Nat
      /\ s[Len(r) + 1] = e
  BY ConcatProperties DEF IsQueue
<1> HIDE DEF s
<1>2. \A i \in DOMAIN s \cup {0} : ~(i = Len(r) + 1) => RevokedAfter(s, i)
  BY <1>1 DEF RevokedAfter
<1>3. ~ByFactory(s[Len(r) + 1])
  BY <1>1 DEF ByFactory
<1> QED BY <1>1, <1>2, <1>3 DEF Covered, s

(* The head of a covered queue is dropped. *)
LEMMA TailCovered ==
  ASSUME NEW r, IsQueue(r), r # <<>>, Covered(r)
  PROVE  /\ IsQueue(Tail(r))
         /\ Covered(Tail(r))
         /\ ByFactory(Head(r)) => RevokedAfter(Tail(r), 0)
         /\ Head(r).kind # "remove-label" /\ RevokedAfter(r, 0) => RevokedAfter(Tail(r), 0)
<1> DEFINE t == Tail(r)
<1>1. /\ t \in Seq(Effect) /\ Len(r) \in Nat /\ DOMAIN r = 1..Len(r)
      /\ DOMAIN t = 1..Len(r) - 1
      /\ \A i \in DOMAIN t : t[i] = r[i + 1]
      /\ Head(r) = r[1] /\ Len(r) >= 1
  BY DEF IsQueue
<1> HIDE DEF t
<1>2. IsQueue(t)
  BY <1>1 DEF IsQueue
<1>3. \A i \in 0..Len(r) - 1 : RevokedAfter(r, i + 1) => RevokedAfter(t, i)
  <2> SUFFICES ASSUME NEW i \in 0..Len(r) - 1,
                      NEW j \in DOMAIN r, i + 1 < j, r[j].kind = "remove-label"
               PROVE  RevokedAfter(t, i)
    BY DEF RevokedAfter
  <2>1. j - 1 \in DOMAIN t /\ i < j - 1 /\ t[j - 1] = r[j]
    BY <1>1
  <2> QED BY <2>1 DEF RevokedAfter
<1>4. Covered(t)
  BY <1>1, <1>3 DEF Covered
<1>5. ByFactory(Head(r)) => RevokedAfter(t, 0)
  BY <1>1, <1>3 DEF Covered
<1>6. ASSUME Head(r).kind # "remove-label", RevokedAfter(r, 0) PROVE RevokedAfter(t, 0)
  <2>1. PICK j \in DOMAIN r : r[j].kind = "remove-label"
    BY <1>6 DEF RevokedAfter
  <2>2. j # 1
    BY <1>1, <1>6, <2>1
  <2>3. RevokedAfter(r, 1)
    BY <1>1, <2>1, <2>2 DEF RevokedAfter
  <2> QED BY <1>1, <1>3, <2>3
<1> QED BY <1>2, <1>4, <1>5, <1>6 DEF t

(* A queue whose rows keep their kind, or lose a label, stays covered, and     *)
(* what it asks to protect main for.                                          *)
Weaker(s, r) ==
  /\ s \in Seq(Effect) /\ DOMAIN s = DOMAIN r
  /\ \A i \in DOMAIN r :
       /\ ByFactory(s[i]) => ByFactory(r[i])
       /\ r[i].kind = "remove-label" => s[i].kind = "remove-label"
       /\ s[i].kind = "protect" <=> r[i].kind = "protect"
       /\ s[i].mode = r[i].mode

LEMMA WeakerCovered ==
  ASSUME NEW r, NEW s, Weaker(s, r)
  PROVE  /\ Covered(r) => Covered(s)
         /\ RevokedAfter(r, 0) => RevokedAfter(s, 0)
  BY DEF Weaker, Covered, RevokedAfter

(* What the bridge takes, and what the hold cancels. *)
LEMMA TakenIsQueue ==
  ASSUME NEW r, IsQueue(r)
  PROVE  IsQueue(Taken(r)) /\ Weaker(Taken(r), r) /\ Len(Taken(r)) = Len(r)
<1> DEFINE s == Taken(r)
<1>1. r \in Seq(Effect) /\ DOMAIN r = 1..Len(r) /\ Len(r) \in Nat
      /\ \A i \in DOMAIN r : r[i].cancelled => r[i].kind \in {"apply-label", "skip"}
  BY DEF IsQueue
<1>2. s = [i \in DOMAIN r |-> s[i]]
  BY DEF Taken
<1>3. ASSUME NEW i \in DOMAIN r
      PROVE  /\ s[i] \in Effect
             /\ s[i].cancelled => s[i].kind \in {"apply-label", "skip"}
             /\ ByFactory(s[i]) => ByFactory(r[i])
             /\ r[i].kind = "remove-label" => s[i].kind = "remove-label"
             /\ s[i].kind = "protect" <=> r[i].kind = "protect"
             /\ s[i].mode = r[i].mode
  <2>1. r[i] \in Effect
    BY <1>1
  <2>2. s[i] = IF r[i].cancelled THEN [r[i] EXCEPT !.kind = "skip"] ELSE r[i]
    BY DEF Taken
  <2>3. r[i].cancelled => r[i].kind \in {"apply-label", "skip"}
    BY <1>1
  <2> QED BY <2>1, <2>2, <2>3 DEF Effect, ByFactory
<1> HIDE DEF s
<1>4. s \in Seq(Effect) /\ DOMAIN s = DOMAIN r /\ Len(s) = Len(r)
  BY <1>1, <1>2, <1>3
<1> QED BY <1>3, <1>4 DEF IsQueue, Weaker, s

LEMMA CancelIsQueue ==
  ASSUME NEW r, IsQueue(r)
  PROVE  IsQueue(Cancel(r)) /\ Weaker(Cancel(r), r) /\ Len(Cancel(r)) = Len(r)
<1> DEFINE s == Cancel(r)
<1>1. r \in Seq(Effect) /\ DOMAIN r = 1..Len(r) /\ Len(r) \in Nat
      /\ \A i \in DOMAIN r : r[i].cancelled => r[i].kind \in {"apply-label", "skip"}
  BY DEF IsQueue
<1>2. s = [i \in DOMAIN r |-> s[i]]
  BY DEF Cancel
<1>3. ASSUME NEW i \in DOMAIN r
      PROVE  /\ s[i] \in Effect
             /\ s[i].cancelled => s[i].kind \in {"apply-label", "skip"}
             /\ ByFactory(s[i]) => ByFactory(r[i])
             /\ r[i].kind = "remove-label" => s[i].kind = "remove-label"
             /\ s[i].kind = "protect" <=> r[i].kind = "protect"
             /\ s[i].mode = r[i].mode
  <2>1. r[i] \in Effect
    BY <1>1
  <2>2. s[i] = IF r[i].kind = "apply-label" THEN [r[i] EXCEPT !.cancelled = TRUE] ELSE r[i]
    BY DEF Cancel
  <2>3. r[i].cancelled => r[i].kind \in {"apply-label", "skip"}
    BY <1>1
  <2> QED BY <2>1, <2>2, <2>3 DEF Effect, ByFactory
<1> HIDE DEF s
<1>4. s \in Seq(Effect) /\ DOMAIN s = DOMAIN r /\ Len(s) = Len(r)
  BY <1>1, <1>2, <1>3
<1> QED BY <1>3, <1>4 DEF IsQueue, Weaker, s

LEMMA WeakerConcat ==
  ASSUME NEW r, NEW q, NEW s, NEW t, IsQueue(r), IsQueue(q), Weaker(s, r), Weaker(t, q)
  PROVE  Weaker(s \o t, r \o q)
<1>1. r \in Seq(Effect) /\ q \in Seq(Effect) /\ s \in Seq(Effect) /\ t \in Seq(Effect)
  BY DEF IsQueue, Weaker
<1>2. Len(s) = Len(r) /\ Len(t) = Len(q) /\ Len(r) \in Nat /\ Len(q) \in Nat
  BY <1>1 DEF Weaker
<1>3. /\ s \o t \in Seq(Effect) /\ DOMAIN (s \o t) = 1..Len(s) + Len(t)
      /\ DOMAIN (r \o q) = 1..Len(r) + Len(q)
  BY <1>1, ConcatProperties
<1>4. ASSUME NEW i \in 1..Len(r)
      PROVE  (s \o t)[i] = s[i] /\ (r \o q)[i] = r[i] /\ i \in DOMAIN r
  BY <1>1, <1>2, ConcatProperties
<1>5. ASSUME NEW i \in (Len(r) + 1)..(Len(r) + Len(q))
      PROVE  (s \o t)[i] = t[i - Len(r)] /\ (r \o q)[i] = q[i - Len(r)] /\ i - Len(r) \in DOMAIN q
  BY <1>1, <1>2, ConcatProperties
<1>6. \A i \in 1..Len(r) + Len(q) : i \in 1..Len(r) \/ i \in (Len(r) + 1)..(Len(r) + Len(q))
  BY <1>2
<1> QED BY <1>2, <1>3, <1>4, <1>5, <1>6 DEF Weaker

LEMMA TakenTyped ==
  ASSUME NEW r \in Seq(Effect)
  PROVE  Taken(r) \in Seq(Effect) /\ Cancel(r) \in Seq(Effect)
<1>1. DOMAIN r = 1..Len(r) /\ Len(r) \in Nat /\ \A i \in DOMAIN r : r[i] \in Effect
  OBVIOUS
<1>2. \A i \in DOMAIN r : [r[i] EXCEPT !.kind = "skip"] \in Effect
  BY <1>1 DEF Effect
<1>3. \A i \in DOMAIN r : [r[i] EXCEPT !.cancelled = TRUE] \in Effect
  BY <1>1 DEF Effect
<1> QED BY <1>1, <1>2, <1>3 DEF Taken, Cancel

LEMMA SeqTyped ==
  ASSUME NEW S, NEW s \in Seq(S)
  PROVE  /\ \A i \in DOMAIN s : s[i] \in S
         /\ \A e \in S : s \o <<e>> \in Seq(S) /\ Append(s, e) \in Seq(S)
         /\ s # <<>> => Head(s) \in S /\ Tail(s) \in Seq(S)
  OBVIOUS

LEMMA DropTyped ==
  ASSUME NEW S, NEW s \in Seq(S), NEW i \in DOMAIN s
  PROVE  SubSeq(s, 1, i - 1) \o SubSeq(s, i + 1, Len(s)) \in Seq(S)
<1>1. i \in 1..Len(s) /\ Len(s) \in Nat /\ \A j \in 1..Len(s) : s[j] \in S
  OBVIOUS
<1>2. SubSeq(s, 1, i - 1) \in Seq(S) /\ SubSeq(s, i + 1, Len(s)) \in Seq(S)
  BY <1>1
<1> QED BY <1>2, ConcatProperties

(* What the handlers' shared writes do to the type. *)
LEMMA EffectTyped ==
  ASSUME NEW kind \in {"apply-label", "remove-label", "protect"}, NEW mode \in Modes,
         NEW by \in {"factory", "human"}
  PROVE  MakeEffect(kind, mode, by) \in Effect
  BY DEF MakeEffect, Effect

LEMMA EffectiveTyped ==
  ASSUME NEW f \in Modes, NEW m \in Modes
  PROVE  EffectiveMode(f, m) \in Modes
  BY DEF EffectiveMode, Modes

LEMMA ScheduleTyped ==
  ASSUME HoldAssumption, Types, NEW more \in BOOLEAN, Schedule(more)
  PROVE  evals' \in 0..MaxEvals
  BY DEF Schedule, HoldAssumption, Types

LEMMA ReprotectedTyped ==
  ASSUME Types, NEW before, NEW after \in Modes, Reprotected(before, after)
  PROVE  queued' \in Seq(Effect)
<1>1. MakeEffect("protect", after, "factory") \in Effect
  BY EffectTyped
<1>2. queued \in Seq(Effect)
  BY DEF Types
<1>3. queued' = queued \/ queued' = queued \o <<MakeEffect("protect", after, "factory")>>
  BY DEF Reprotected, Insert
<1> QED BY <1>1, <1>2, <1>3, SeqTyped

LEMMA InsertTyped ==
  ASSUME Types, NEW e \in Effect, Insert(<<e>>)
  PROVE  queued' \in Seq(Effect)
<1>1. queued \in Seq(Effect) /\ queued' = queued \o <<e>>
  BY DEF Insert, Types
<1> QED BY <1>1, SeqTyped

LEMMA FaultTyped ==
  ASSUME HoldAssumption, Types, Fault
  PROVE  faults' \in 0..MaxFaults
  BY DEF Fault, HoldAssumption, Types

LEMMA InitTyped == HoldAssumption /\ Init => Types
<1> SUFFICES ASSUME HoldAssumption, Init PROVE Types
  OBVIOUS
<1>1. protection \in Modes
  BY EffectiveTyped DEF Init, Effective
<1>2. gate \in Gate /\ checks \in Conclusions
  BY DEF Init, Gate, Classified, Classification, Commits, Conclusions
<1>3. \A S : <<>> \in Seq(S)
  OBVIOUS
<1>4. /\ classifies \in Seq(Classify) /\ reprotects \in Seq([before : Modes, after : Modes])
      /\ queued \in Seq(Effect) /\ polled \in Seq(Effect)
  BY <1>3 DEF Init
<1>5. evals \in 0..MaxEvals /\ changes \in 0..MaxChanges /\ faults \in 0..MaxFaults
  BY DEF Init, HoldAssumption
<1> QED BY <1>1, <1>2, <1>4, <1>5 DEF Init, Types

LEMMA ModesTyped ==
  ASSUME HoldAssumption, Types,
         \/ \E mode \in Modes : UpdateSettings(mode) \/ SetMode(mode)
         \/ RequestDarkMode \/ AcceptChecklist \/ Reprotect \/ GenesisDone
  PROVE  Types'
<1> USE DEF modes, row, scheduler, queues, commits, outside
<1>1. ASSUME NEW mode \in Modes, UpdateSettings(mode) PROVE Types'
  <2>1. [before |-> factoryMode, after |-> mode] \in [before : Modes, after : Modes]
    BY DEF Types
  <2>2. reprotects' \in Seq([before : Modes, after : Modes])
    BY <1>1, <2>1, SeqTyped DEF UpdateSettings, Types
  <2>3. changes' \in 0..MaxChanges
    BY <1>1 DEF UpdateSettings, Change, Types, HoldAssumption
  <2>4. RevokeOn(stage = "REVIEW_LOOP") \in Seq(Effect)
    <3>1. MakeEffect("remove-label", "gray", "factory") \in Effect
      BY EffectTyped DEF Modes
    <3> QED BY <3>1 DEF RevokeOn
  <2>5. queued' \in Seq(Effect) /\ polled' \in Seq(Effect) /\ holdReached' \in BOOLEAN
    <3>1. CASE mode = "gray"
      <4>1. /\ polled' = Cancel(polled) /\ holdReached' = (stage # "NEEDS_HUMAN")
            /\ queued' = Cancel(queued) \o RevokeOn(stage = "REVIEW_LOOP")
        BY <1>1, <3>1 DEF UpdateSettings, Hold
      <4>2. Cancel(polled) \in Seq(Effect) /\ Cancel(queued) \in Seq(Effect)
        BY TakenTyped DEF Types
      <4> QED BY <2>4, <4>1, <4>2, ConcatProperties
    <3>2. CASE mode # "gray"
      BY <1>1, <3>2 DEF UpdateSettings, Types
    <3> QED BY <3>1, <3>2
  <2> QED BY <1>1, <2>2, <2>3, <2>5 DEF UpdateSettings, Types
<1>2. ASSUME NEW mode \in Modes, SetMode(mode) PROVE Types'
  <2>1. changes' \in 0..MaxChanges
    BY <1>2 DEF SetMode, Change, Types, HoldAssumption
  <2>2. EffectiveMode(factoryMode, mode) \in Modes
    BY EffectiveTyped DEF Types
  <2>3. queued' \in Seq(Effect)
    BY <1>2, <2>2, ReprotectedTyped DEF SetMode, Types
  <2> QED BY <1>2, <2>1, <2>3 DEF SetMode, Types
<1>3. ASSUME RequestDarkMode PROVE Types'
  BY <1>3 DEF RequestDarkMode, Types, Questions
<1>4. ASSUME AcceptChecklist PROVE Types'
  BY <1>4 DEF AcceptChecklist, Types
<1>5. ASSUME Reprotect PROVE Types'
  <2>1. PICK i \in DOMAIN reprotects :
          /\ reprotects' = SubSeq(reprotects, 1, i - 1)
                             \o SubSeq(reprotects, i + 1, Len(reprotects))
          /\ IF HasRepo
               THEN Reprotected(EffectiveMode(reprotects[i].before, projectMode),
                                EffectiveMode(reprotects[i].after, projectMode))
               ELSE UNCHANGED queued
    BY <1>5 DEF Reprotect
  <2>2. reprotects' \in Seq([before : Modes, after : Modes])
    BY <2>1, DropTyped DEF Types
  <2>3. EffectiveMode(reprotects[i].after, projectMode) \in Modes
    <3>1. reprotects[i] \in [before : Modes, after : Modes]
      BY SeqTyped DEF Types
    <3> QED BY <3>1, EffectiveTyped DEF Types
  <2>4. queued' \in Seq(Effect)
    BY <2>1, <2>3, ReprotectedTyped DEF Types
  <2> QED BY <1>5, <2>2, <2>4 DEF Reprotect, Types
<1>6. ASSUME GenesisDone PROVE Types'
  <2>1. Effective \in Modes
    BY EffectiveTyped DEF Types, Effective
  <2>2. queued' \in Seq(Effect) /\ evals' \in 0..MaxEvals
    BY <1>6, <2>1, ReprotectedTyped, ScheduleTyped DEF GenesisDone
  <2> QED BY <1>6, <2>2 DEF GenesisDone, Types
<1> QED BY <1>1, <1>2, <1>3, <1>4, <1>5, <1>6

LEMMA GitHubTyped ==
  ASSUME HoldAssumption, Types,
         \/ GitHub
         \/ GateSync
  PROVE  Types'
<1> USE DEF modes, row, scheduler, queues, commits, outside
<1>1. ASSUME Push PROVE Types'
  <2>1. gate' \in Gate
    BY <1>1 DEF Push, Types, Gate, Classification, Commits, Aged
  <2>2. classifies' \in Seq(Classify)
    <3>1. DOMAIN classifies = 1..Len(classifies) /\ Len(classifies) \in Nat
      BY DEF Types
    <3>2. \A i \in DOMAIN classifies : classifies[i] \in Classify
      BY SeqTyped DEF Types
    <3>3. \A i \in DOMAIN classifies :
            [classifies[i] EXCEPT !.of = Aged(classifies[i].of)] \in Classify
      BY <3>2 DEF Classify, Commits, Aged
    <3> QED BY <1>1, <3>1, <3>3 DEF Push
  <2>3. faults' \in 0..MaxFaults
    BY <1>1, FaultTyped DEF Push
  <2> QED BY <1>1, <2>1, <2>2, <2>3 DEF Push, Types, Conclusions
<1>2. ASSUME NEW conclusion \in Conclusions, ChecksConclude(conclusion) PROVE Types'
  BY <1>2 DEF ChecksConclude, Types
<1>3. ASSUME NEW conclusion \in Conclusions, NEW of \in Commits, Webhook(of, conclusion)
      PROVE  Types'
  <2>1. gate' \in Gate
    BY <1>3 DEF Webhook, Types, Gate
  <2>2. faults' \in 0..MaxFaults /\ evals' \in 0..MaxEvals
    BY <1>3, FaultTyped, ScheduleTyped DEF Webhook
  <2> QED BY <1>3, <2>1, <2>2 DEF Webhook, Types
<1>4. ASSUME GateSync PROVE Types'
  <2>1. gate' \in Gate
    BY <1>4 DEF GateSync, Types, Gate, Commits
  <2>2. [of |-> "head", forced |-> sensitive, evaluate |-> Changed] \in Classify
    BY DEF Types, Classify, Commits, Changed
  <2>3. \A S, e : e \in S => <<e>> \in Seq(S)
    OBVIOUS
  <2>4. classifies' \in Seq(Classify)
    BY <1>4, <2>2, <2>3 DEF GateSync
  <2> QED BY <1>4, <2>1, <2>4 DEF GateSync, Types
<1> QED BY <1>1, <1>2, <1>3, <1>4 DEF GitHub

LEMMA GateTyped ==
  ASSUME HoldAssumption, Types,
         \/ ClassifyGate \/ Evaluate
         \/ \E run \in Repairs : RunEnds(run)
         \/ Approve \/ SendBack \/ Unblock
  PROVE  Types'
<1> USE DEF modes, row, scheduler, queues, commits, outside
<1>a. /\ MakeEffect("apply-label", "dark", "factory") \in Effect
      /\ MakeEffect("apply-label", "dark", "human") \in Effect
  BY EffectTyped DEF Modes
<1>b. Stop => /\ stage' = "NEEDS_HUMAN" /\ asked' \subseteq Questions
              /\ faults' \in 0..MaxFaults
  BY FaultTyped DEF Stop, Types, Questions
<1>1. ASSUME ClassifyGate PROVE Types'
  <2>1. Head(classifies) \in Classify /\ Tail(classifies) \in Seq(Classify)
    BY <1>1, SeqTyped DEF ClassifyGate, Types
  <2>2. Classified(Head(classifies).of, Head(classifies).forced) \in Classification
    BY <2>1 DEF Classify, Classified, Classification
  <2>3. gate' \in Gate
    BY <1>1, <2>2 DEF ClassifyGate, Types, Gate
  <2>4. evals' \in 0..MaxEvals
    <3>1. (\/ Head(classifies).evaluate \/ gate.class.of = "none"
           \/ gate.class.forced # Head(classifies).forced) \in BOOLEAN
      BY <2>1 DEF Classify
    <3> QED BY <1>1, <3>1, ScheduleTyped DEF ClassifyGate
  <2> QED BY <1>1, <2>1, <2>3, <2>4 DEF ClassifyGate, Types
<1>2. ASSUME Evaluate PROVE Types'
  <2>1. evals' \in 0..MaxEvals
    BY <1>2 DEF Evaluate, Types, HoldAssumption
  <2>2. ASSUME EvaluateNothing PROVE Types'
    BY <1>2, <2>1, <2>2 DEF Evaluate, EvaluateNothing, Types
  <2>3. ASSUME EvaluatePassDark PROVE Types'
    <3>1. queued' \in Seq(Effect)
      BY <1>a, <2>3, InsertTyped DEF EvaluatePassDark, Types
    <3> QED BY <1>2, <2>1, <2>3, <3>1 DEF Evaluate, EvaluatePassDark, Types
  <2>4. ASSUME EvaluatePassGray PROVE Types'
    BY <1>2, <2>1, <2>4 DEF Evaluate, EvaluatePassGray, Types, Questions
  <2>5. ASSUME EvaluateFail PROVE Types'
    BY <1>2, <1>b, <2>1, <2>5 DEF Evaluate, EvaluateFail, Types, Repairs
  <2> QED BY <1>2, <2>2, <2>3, <2>4, <2>5 DEF Evaluate
<1>3. ASSUME NEW run \in Repairs, RunEnds(run) PROVE Types'
  <2>1. CASE stage = "REVIEW_LOOP" /\ Schedule(TRUE) /\ UNCHANGED <<stage, asked, faults>>
    BY <1>3, <2>1, ScheduleTyped DEF RunEnds, Types
  <2>2. CASE stage = "REVIEW_LOOP" /\ Stop /\ UNCHANGED evals
    BY <1>3, <1>b, <2>2 DEF RunEnds, Types
  <2>3. CASE stage # "REVIEW_LOOP" /\ UNCHANGED <<stage, asked, evals, faults>>
    BY <1>3, <2>3 DEF RunEnds, Types
  <2> QED BY <1>3, <2>1, <2>2, <2>3 DEF RunEnds
<1>4. ASSUME Approve PROVE Types'
  <2>1. queued' \in Seq(Effect)
    BY <1>4, <1>a, InsertTyped DEF Approve
  <2> QED BY <1>4, <2>1 DEF Approve, Types
<1>5. ASSUME SendBack PROVE Types'
  BY <1>5 DEF SendBack, Types
<1>6. ASSUME Unblock PROVE Types'
  BY <1>6, ScheduleTyped DEF Unblock, Types
<1> QED BY <1>1, <1>2, <1>3, <1>4, <1>5, <1>6

LEMMA BridgeTyped ==
  ASSUME HoldAssumption, Types, PollQueued \/ RunEffect
  PROVE  Types'
<1> USE DEF modes, row, scheduler, queues, commits, outside
<1>1. ASSUME PollQueued PROVE Types'
  <2>1. Taken(queued) \in Seq(Effect) /\ <<>> \in Seq(Effect)
    BY TakenTyped DEF Types
  <2> QED BY <1>1, <2>1 DEF PollQueued, Types
<1>2. ASSUME RunEffect PROVE Types'
  <2> DEFINE effect == Head(polled)
  <2>1. effect \in Effect /\ Tail(polled) \in Seq(Effect)
    BY <1>2, SeqTyped DEF RunEffect, Types
  <2>2. Execute(effect) => /\ label' \in {"off", "factory", "human"} /\ protection' \in Modes
    BY <2>1 DEF Execute, Effect, Types
  <2> HIDE DEF effect
  <2>3. ASSUME EffectDone(effect) PROVE Types'
    BY <1>2, <2>1, <2>2, <2>3 DEF effect, RunEffect, EffectDone, Types, Repairs
  <2>4. ASSUME EffectFailed(effect) PROVE Types'
    <3>1. faults' \in 0..MaxFaults
      BY <2>4, FaultTyped DEF EffectFailed
    <3> QED BY <1>2, <2>1, <2>4, <3>1 DEF effect, RunEffect, EffectFailed, Types
  <2>5. ASSUME EffectUnreported(effect) PROVE Types'
    <3>1. faults' \in 0..MaxFaults
      BY <2>5, FaultTyped DEF EffectUnreported
    <3>2. queued' \in Seq(Effect) /\ polled' \in Seq(Effect)
      <4>1. /\ Taken(polled) \in Seq(Effect) /\ queued \in Seq(Effect)
            /\ <<>> \in Seq(Effect)
        BY TakenTyped DEF Types
      <4> QED BY <2>5, <4>1, ConcatProperties DEF EffectUnreported
    <3> QED BY <1>2, <2>2, <2>5, <3>1, <3>2 DEF RunEffect, EffectUnreported, Types
  <2> QED BY <1>2, <2>3, <2>4, <2>5 DEF effect, RunEffect
<1> QED BY <1>1, <1>2

LEMMA TypesStay == Spec => []Types
<1>1. Init => Types
  BY HoldAssumption, InitTyped
<1>2. Types /\ [Next]_vars => Types'
  <2> SUFFICES ASSUME Types, [Next]_vars PROVE Types'
    OBVIOUS
  <2>1. CASE Next
    BY <2>1, HoldAssumption, ModesTyped, GitHubTyped, GateTyped, BridgeTyped
       DEF Next, Operator, Scheduled, Bridge
  <2>2. CASE UNCHANGED vars
    BY <2>2 DEF vars, modes, row, scheduler, queues, commits, outside, Types
  <2> QED BY <2>1, <2>2
<1> QED BY <1>1, <1>2, PTL DEF Spec

LEMMA BeforeStep == ASSUME BeforeTheRepository, [Next]_vars PROVE BeforeTheRepository'
<1> USE DEF BeforeTheRepository, modes, row, scheduler, queues, commits, outside
<1>1. ASSUME stage # "GENESIS" PROVE stage' # "GENESIS"
  <2>1. CASE Operator
    BY <1>1, <2>1 DEF Operator, UpdateSettings, SetMode, RequestDarkMode, AcceptChecklist, Approve, SendBack,
       Unblock
  <2>2. CASE Scheduled
    BY <1>1, <2>2 DEF Scheduled, Reprotect, ClassifyGate, Evaluate, EvaluateNothing, EvaluatePassDark,
       EvaluatePassGray, EvaluateFail, Stop
  <2>3. CASE GitHub \/ Bridge \/ GenesisDone \/ UNCHANGED vars
    BY <1>1, <2>3 DEF GitHub, Push, ChecksConclude, Webhook, Bridge, GateSync, PollQueued, RunEffect,
       GenesisDone, vars
  <2>4. CASE \E run \in Repairs : RunEnds(run)
    BY <1>1, <2>4 DEF RunEnds, Stop
  <2> QED BY <2>1, <2>2, <2>3, <2>4 DEF Next
<1>2. ASSUME stage = "GENESIS", stage' = "GENESIS"
      PROVE  queued' = <<>> /\ polled' = <<>> /\ asked' = {} /\ repairs' = {}
  <2>0. queued = <<>> /\ polled = <<>> /\ asked = {} /\ repairs = {} /\ ~HasRepo
    BY <1>2 DEF HasRepo
  <2>1. ASSUME NEW mode \in Modes, UpdateSettings(mode) PROVE queued' = <<>> /\ polled' = <<>>
    <3>1. Cancel(<<>>) = <<>>
      BY DEF Cancel
    <3>2. RevokeOn(stage = "REVIEW_LOOP") = <<>> /\ <<>> \o <<>> = <<>>
      BY <1>2 DEF RevokeOn
    <3> QED BY <2>0, <2>1, <3>1, <3>2 DEF UpdateSettings, Hold
  <2>2. CASE Operator
    BY <1>2, <2>0, <2>1, <2>2 DEF Operator, UpdateSettings, SetMode, RequestDarkMode, AcceptChecklist, Approve,
       SendBack, Unblock
  <2>3. CASE Scheduled
    BY <1>2, <2>0, <2>3 DEF Scheduled, Reprotect, ClassifyGate, Evaluate, EvaluateNothing, EvaluatePassDark,
       EvaluatePassGray, EvaluateFail, Stop, Judging
  <2>4. CASE GitHub \/ Bridge \/ GenesisDone \/ UNCHANGED vars
    BY <1>2, <2>0, <2>4 DEF GitHub, Push, ChecksConclude, Webhook, Bridge, GateSync, PollQueued, RunEffect,
       GenesisDone, vars
  <2>5. CASE \E run \in Repairs : RunEnds(run)
    BY <2>0, <2>5 DEF RunEnds
  <2> QED BY <2>2, <2>3, <2>4, <2>5 DEF Next
<1> QED BY <1>1, <1>2

(* Every variable keeps its type, whatever the bounds and the events, and     *)
(* until genesis is done nothing is queued, asked or repaired for the         *)
(* repository that is not there (settings.ts, projects.ts, gates.ts,          *)
(* bridge.ts).                                                                *)
THEOREM HoldTypeCorrect == Spec => []TypeOK
<1>1. Init => BeforeTheRepository
  BY DEF Init, BeforeTheRepository
<1>2. TypeOK <=> Types /\ BeforeTheRepository
  BY DEF TypeOK
<1> QED BY <1>1, <1>2, TypesStay, BeforeStep, PTL DEF Spec

-----------------------------------------------------------------------------
(* The hold, step by step *)

LEMMA InitHeld == Init => HoldIInv
<1>1. IsQueue(<<>>)
  BY DEF IsQueue
<1>2. ASSUME Init PROVE Covered(Rows)
  <2>1. Rows = <<>>
    BY <1>2 DEF Init, Rows
  <2> QED BY <2>1 DEF Covered
<1> QED BY <1>1, <1>2 DEF Init, HoldIInv, QueuesOK, GenesisIsEmpty, HoldCovered

(* Whatever leaves the queues, the label and the factory's mode alone.        *)
LEMMA StutterHeld ==
  ASSUME HoldIInv, UNCHANGED <<queued, polled, label, factoryMode, holdReached>>,
         stage' = "GENESIS" => stage = "GENESIS"
  PROVE  HoldIInv'
  BY DEF HoldIInv, QueuesOK, GenesisIsEmpty, HoldCovered, Rows

(* A row at the end of the queue that is no label of the factory's.           *)
LEMMA AppendHeld ==
  ASSUME HoldIInv, NEW e \in Effect, ~ByFactory(e), ~e.cancelled, queued' = queued \o <<e>>,
         stage' # "GENESIS", UNCHANGED <<polled, label, factoryMode, holdReached>>
  PROVE  HoldIInv'
<1>1. IsQueue(<<e>>)
  BY DEF IsQueue
<1>2. IsQueue(queued') /\ IsQueue(polled') /\ IsQueue(Rows)
  BY <1>1, ConcatIsQueue DEF HoldIInv, QueuesOK, Rows
<1>3. Rows' = Rows \o <<e>>
  <2>1. \A q \in Seq(Effect), r \in Seq(Effect) : q \o (r \o <<e>>) = (q \o r) \o <<e>>
    OBVIOUS
  <2> QED BY <2>1 DEF HoldIInv, QueuesOK, IsQueue, Rows
<1>4. HoldCovered'
  BY <1>2, <1>3, AppendCovered DEF HoldIInv, HoldCovered
<1> QED BY <1>2, <1>4 DEF HoldIInv, QueuesOK, GenesisIsEmpty

LEMMA ReprotectedHeld ==
  ASSUME Types, HoldIInv, NEW before, NEW after \in Modes, Reprotected(before, after),
         stage' # "GENESIS", UNCHANGED <<polled, label, factoryMode, holdReached>>
  PROVE  HoldIInv'
<1> DEFINE e == MakeEffect("protect", after, "factory")
<1>1. e \in Effect /\ ~ByFactory(e) /\ ~e.cancelled
  BY EffectTyped DEF MakeEffect, ByFactory
<1>2. CASE UNCHANGED queued
  BY <1>2, StutterHeld
<1>3. CASE queued' = queued \o <<e>>
  BY <1>1, <1>3, AppendHeld
<1> QED BY <1>2, <1>3 DEF Reprotected, Insert

LEMMA UpdateSettingsHeld ==
  ASSUME Types, HoldIInv, NEW mode \in Modes, UpdateSettings(mode)
  PROVE  HoldIInv'
<1>1. CASE mode # "gray"
  <2>1. factoryMode' # "gray" /\ UNCHANGED <<queued, polled, label, stage>>
    BY <1>1 DEF UpdateSettings, outside, row
  <2> QED BY <2>1 DEF HoldIInv, QueuesOK, GenesisIsEmpty, HoldCovered
<1>2. CASE mode = "gray"
  <2> DEFINE revoke == MakeEffect("remove-label", "gray", "factory")
  <2>1. /\ polled' = Cancel(polled) /\ holdReached' = (stage # "NEEDS_HUMAN")
        /\ queued' = Cancel(queued) \o RevokeOn(stage = "REVIEW_LOOP")
        /\ label' = label /\ stage' = stage
    BY <1>2 DEF UpdateSettings, Hold, outside, row
  <2>2. revoke \in Effect /\ revoke.kind = "remove-label" /\ ~revoke.cancelled
    BY EffectTyped DEF MakeEffect, Modes
  <2>3. IsQueue(Cancel(polled)) /\ IsQueue(Cancel(queued)) /\ IsQueue(<<revoke>>)
    BY <2>2, CancelIsQueue DEF HoldIInv, QueuesOK, IsQueue
  <2>4. CASE stage = "REVIEW_LOOP"
    <3>1. queued' = Cancel(queued) \o <<revoke>>
      BY <2>1, <2>4 DEF RevokeOn
    <3>2. Rows' = (Cancel(polled) \o Cancel(queued)) \o <<revoke>>
      <4>1. \A q \in Seq(Effect), r \in Seq(Effect) :
              q \o (r \o <<revoke>>) = (q \o r) \o <<revoke>>
        BY <2>2
      <4> QED BY <2>1, <2>3, <3>1, <4>1 DEF IsQueue, Rows
    <3>3. Covered(Rows') /\ RevokedAfter(Rows', 0)
      BY <2>2, <2>3, <3>2, ConcatIsQueue, RevokeCovers
    <3>4. QueuesOK'
      BY <2>1, <2>3, <3>1, ConcatIsQueue DEF QueuesOK
    <3>5. Covered(Rows)' /\ RevokedAfter(Rows, 0)'
      BY <3>3 DEF Covered, RevokedAfter
    <3> QED BY <2>1, <2>4, <3>4, <3>5 DEF HoldIInv, GenesisIsEmpty, HoldCovered
  <2>5. CASE stage = "GENESIS"
    <3>1. label = "off" /\ queued = <<>> /\ polled = <<>>
      BY <2>5 DEF HoldIInv, GenesisIsEmpty
    <3>2. Cancel(<<>>) = <<>>
      BY DEF Cancel
    <3>3. queued' = <<>> /\ polled' = <<>>
      BY <2>1, <2>5, <3>1, <3>2 DEF RevokeOn
    <3>4. Rows' = <<>>
      BY <3>3 DEF Rows
    <3>5. IsQueue(<<>>) /\ Covered(Rows)'
      BY <3>4 DEF IsQueue, Covered
    <3>6. QueuesOK' /\ GenesisIsEmpty' /\ HoldCovered'
      BY <2>1, <3>1, <3>3, <3>5 DEF QueuesOK, GenesisIsEmpty, HoldCovered
    <3> QED BY <3>6 DEF HoldIInv
  <2>6. CASE stage = "NEEDS_HUMAN"
    <3>1. Cancel(queued) \o <<>> = Cancel(queued)
      BY <2>3 DEF IsQueue
    <3>2. queued' = Cancel(queued)
      BY <2>1, <2>6, <3>1 DEF RevokeOn
    <3> QED BY <2>1, <2>3, <2>6, <3>2 DEF HoldIInv, QueuesOK, GenesisIsEmpty, HoldCovered
  <2> QED BY <2>4, <2>5, <2>6 DEF Types
<1> QED BY <1>1, <1>2

(* The label of a passing verdict is only asked for in effective dark mode.   *)
LEMMA EvaluateHeld ==
  ASSUME Types, HoldIInv, Evaluate
  PROVE  HoldIInv'
<1>1. /\ UNCHANGED <<polled, label, factoryMode, holdReached>>
      /\ stage' = "GENESIS" => stage = "GENESIS"
  BY DEF Evaluate, EvaluateNothing, EvaluatePassDark, EvaluatePassGray, EvaluateFail, Stop,
         modes, outside
<1>2. CASE UNCHANGED queued
  BY <1>1, <1>2, StutterHeld
<1>3. CASE ~UNCHANGED queued
  <2> DEFINE e == MakeEffect("apply-label", "dark", "factory")
  <2>1. EvaluatePassDark /\ queued' = queued \o <<e>>
    BY <1>3 DEF Evaluate, EvaluateNothing, EvaluatePassDark, EvaluatePassGray, EvaluateFail, Insert
  <2>2. factoryMode' # "gray" /\ stage' # "GENESIS"
    BY <1>1, <2>1 DEF EvaluatePassDark, Judging, MayAutoMerge, Effective, EffectiveMode
  <2>3. IsQueue(<<e>>)
    BY EffectTyped DEF IsQueue, MakeEffect, Modes
  <2>4. QueuesOK'
    BY <1>1, <2>1, <2>3, ConcatIsQueue DEF HoldIInv, QueuesOK
  <2> QED BY <2>2, <2>4 DEF HoldIInv, GenesisIsEmpty, HoldCovered
<1> QED BY <1>2, <1>3

LEMMA PollHeld ==
  ASSUME HoldIInv, PollQueued
  PROVE  HoldIInv'
<1>1. /\ polled = <<>> /\ queued # <<>> /\ polled' = Taken(queued) /\ queued' = <<>>
      /\ UNCHANGED <<stage, label, factoryMode, holdReached>>
  BY DEF PollQueued, modes, row, outside
<1>2. IsQueue(queued) /\ IsQueue(Taken(queued)) /\ Weaker(Taken(queued), queued) /\ IsQueue(<<>>)
  BY TakenIsQueue DEF HoldIInv, QueuesOK, IsQueue
<1>3. Rows = queued /\ Rows' = Taken(queued)
  BY <1>1, <1>2 DEF Rows, IsQueue
<1>4. /\ Covered(Rows) => Covered(Taken(queued))
      /\ RevokedAfter(Rows, 0) => RevokedAfter(Taken(queued), 0)
  BY <1>2, <1>3, WeakerCovered
<1>5. HoldCovered'
  BY <1>1, <1>3, <1>4 DEF HoldIInv, HoldCovered, Covered, RevokedAfter
<1> QED BY <1>1, <1>2, <1>5 DEF HoldIInv, QueuesOK, GenesisIsEmpty

(* The row at the head is executed, or fails, and leaves the queue.           *)
LEMMA TailHeld ==
  ASSUME Types, HoldIInv, polled # <<>>, polled' = Tail(polled),
         UNCHANGED <<queued, stage, factoryMode>>,
         holdReached' => holdReached,
         \/ Execute(Head(polled))
         \/ UNCHANGED label /\ (Head(polled).kind = "remove-label" => ~holdReached')
  PROVE  HoldIInv'
<1> DEFINE effect == Head(polled)
<1>1. IsQueue(Rows) /\ Rows # <<>> /\ Head(Rows) = effect /\ Rows' = Tail(Rows)
  <2>1. \A q \in Seq(Effect), r \in Seq(Effect) : q # <<>> =>
          /\ q \o r # <<>> /\ Head(q \o r) = Head(q)
          /\ Tail(q \o r) = Tail(q) \o r
    OBVIOUS
  <2> QED BY <2>1, ConcatIsQueue DEF HoldIInv, QueuesOK, IsQueue, Rows
<1>2. effect \in Effect
  BY SeqTyped DEF Types
<1>3. stage' # "GENESIS"
  BY DEF HoldIInv, GenesisIsEmpty
<1>4. IsQueue(polled') /\ IsQueue(queued')
  <2>1. \A i \in DOMAIN polled' : i + 1 \in DOMAIN polled /\ polled'[i] = polled[i + 1]
    BY DEF Types
  <2>2. polled' \in Seq(Effect)
    BY SeqTyped DEF Types
  <2> QED BY <2>1, <2>2 DEF HoldIInv, QueuesOK, IsQueue
<1>5. ASSUME factoryMode' = "gray", holdReached'
      PROVE  Covered(Rows)' /\ (label' = "factory" => RevokedAfter(Rows, 0)')
  <2>1. Covered(Rows) /\ (label = "factory" => RevokedAfter(Rows, 0))
    BY <1>5 DEF HoldIInv, HoldCovered
  <2>2. /\ Covered(Rows')
        /\ ByFactory(effect) => RevokedAfter(Rows', 0)
        /\ effect.kind # "remove-label" /\ RevokedAfter(Rows, 0) => RevokedAfter(Rows', 0)
    BY <1>1, <2>1, TailCovered
  <2>3. label' = "factory" => ByFactory(effect) \/ (label = "factory" /\ effect.kind # "remove-label")
    BY <1>2, <1>5 DEF Execute, ByFactory, Effect
  <2>4. label' = "factory" => RevokedAfter(Rows', 0)
    BY <2>1, <2>2, <2>3
  <2> QED BY <2>2, <2>4 DEF Covered, RevokedAfter
<1> QED BY <1>3, <1>4, <1>5 DEF HoldIInv, QueuesOK, GenesisIsEmpty, HoldCovered

LEMMA UnreportedHeld ==
  ASSUME Types, HoldIInv, polled # <<>>, EffectUnreported(Head(polled)),
         UNCHANGED <<stage, factoryMode>>
  PROVE  HoldIInv'
<1> DEFINE effect == Head(polled)
<1>1. /\ queued' = Taken(polled) \o queued /\ polled' = <<>> /\ Execute(effect)
      /\ holdReached' = holdReached
  BY DEF EffectUnreported
<1>2. /\ IsQueue(queued) /\ IsQueue(polled) /\ IsQueue(Taken(polled))
      /\ Weaker(Taken(polled), polled) /\ Weaker(queued, queued)
  BY TakenIsQueue DEF HoldIInv, QueuesOK, IsQueue, Weaker
<1>3. Rows' = Taken(polled) \o queued
  <2>1. \A q \in Seq(Effect) : <<>> \o q = q
    OBVIOUS
  <2>2. queued' \in Seq(Effect)
    BY <1>1, <1>2, ConcatIsQueue DEF IsQueue
  <2> QED BY <1>1, <2>1, <2>2 DEF Rows
<1>4. Weaker(Rows', Rows)
  BY <1>2, <1>3, WeakerConcat DEF Rows
<1>5. QueuesOK'
  <2>1. IsQueue(<<>>)
    BY DEF IsQueue
  <2> QED BY <1>1, <1>2, <2>1, ConcatIsQueue DEF QueuesOK
<1>6. stage' # "GENESIS"
  BY DEF HoldIInv, GenesisIsEmpty
<1>7. effect \in Effect
  BY SeqTyped DEF Types
<1>8. 1 \in DOMAIN Rows /\ Rows[1] = effect
  <2>1. \A q \in Seq(Effect), r \in Seq(Effect) : q # <<>> =>
          1 \in DOMAIN (q \o r) /\ (q \o r)[1] = Head(q)
    OBVIOUS
  <2> QED BY <1>2, <2>1 DEF IsQueue, Rows
<1>9. ASSUME factoryMode' = "gray", holdReached'
      PROVE  Covered(Rows)' /\ (label' = "factory" => RevokedAfter(Rows, 0)')
  <2>1. Covered(Rows) /\ (label = "factory" => RevokedAfter(Rows, 0))
    BY <1>1, <1>9 DEF HoldIInv, HoldCovered
  <2>2. label' = "factory" => ByFactory(effect) \/ label = "factory"
    BY <1>1, <1>7 DEF Execute, ByFactory, Effect
  <2>3. ByFactory(effect) => RevokedAfter(Rows, 0)
    <3>1. ByFactory(effect) => RevokedAfter(Rows, 1)
      BY <1>8, <2>1 DEF Covered
    <3>2. \A j \in DOMAIN Rows : 1 < j => 0 < j
      BY <1>2, ConcatIsQueue DEF IsQueue, Rows
    <3> QED BY <3>1, <3>2 DEF RevokedAfter
  <2>4. Covered(Rows') /\ (label' = "factory" => RevokedAfter(Rows', 0))
    BY <1>4, <2>1, <2>2, <2>3, WeakerCovered
  <2> QED BY <2>4 DEF Covered, RevokedAfter
<1> QED BY <1>5, <1>6, <1>9 DEF HoldIInv, GenesisIsEmpty, HoldCovered

LEMMA RunEffectHeld ==
  ASSUME Types, HoldIInv, RunEffect
  PROVE  HoldIInv'
<1> DEFINE effect == Head(polled)
<1>1. polled # <<>> /\ UNCHANGED <<factoryMode, stage>>
  BY DEF RunEffect, row
<1>2. CASE EffectDone(effect)
  BY <1>1, <1>2, TailHeld DEF EffectDone
<1>3. CASE EffectFailed(effect)
  BY <1>1, <1>3, TailHeld DEF EffectFailed
<1>4. CASE EffectUnreported(effect)
  BY <1>1, <1>4, UnreportedHeld
<1> QED BY <1>2, <1>3, <1>4 DEF RunEffect

LEMMA ReprotectHeld ==
  ASSUME Types, HoldIInv,
         Reprotect \/ GenesisDone \/ \E mode \in Modes : SetMode(mode)
  PROVE  HoldIInv'
<1>1. ASSUME Reprotect PROVE HoldIInv'
  <2>1. PICK i \in DOMAIN reprotects :
          IF HasRepo
            THEN Reprotected(EffectiveMode(reprotects[i].before, projectMode),
                             EffectiveMode(reprotects[i].after, projectMode))
            ELSE UNCHANGED queued
    BY <1>1 DEF Reprotect
  <2>2. UNCHANGED <<polled, label, factoryMode, holdReached, stage>>
    BY <1>1 DEF Reprotect, modes, row, outside
  <2>3. EffectiveMode(reprotects[i].after, projectMode) \in Modes
    <3>1. reprotects[i] \in [before : Modes, after : Modes]
      BY SeqTyped DEF Types
    <3> QED BY <3>1, EffectiveTyped DEF Types
  <2> QED BY <2>1, <2>2, <2>3, ReprotectedHeld, StutterHeld DEF HasRepo
<1>2. ASSUME GenesisDone PROVE HoldIInv'
  <2>1. Effective \in Modes
    BY EffectiveTyped DEF Types, Effective
  <2> QED BY <1>2, <2>1, ReprotectedHeld DEF GenesisDone, modes, outside
<1>3. ASSUME NEW mode \in Modes, SetMode(mode) PROVE HoldIInv'
  <2>1. EffectiveMode(factoryMode, mode) \in Modes
    BY EffectiveTyped DEF Types
  <2> QED BY <1>3, <2>1, ReprotectedHeld, StutterHeld DEF SetMode, HasRepo, outside, row
<1> QED BY <1>1, <1>2, <1>3

(* An approved merge is labelled for the human who approved it.               *)
LEMMA ApproveHeld ==
  ASSUME Types, HoldIInv, Approve, stage # "GENESIS"
  PROVE  HoldIInv'
<1> DEFINE e == MakeEffect("apply-label", "dark", "human")
<1>1. e \in Effect /\ ~ByFactory(e) /\ ~e.cancelled
  BY EffectTyped DEF MakeEffect, ByFactory, Modes
<1>2. /\ queued' = queued \o <<e>>
      /\ UNCHANGED <<polled, label, factoryMode, holdReached, stage>>
  BY DEF Approve, Insert, modes, outside
<1> QED BY <1>1, <1>2, AppendHeld

(* A decision to apply a label is asked for under review.                     *)
AskedUnderReview == stage = "GENESIS" => "apply-auto-merge" \notin asked

LEMMA AskedStep == AskedUnderReview /\ [Next]_vars => AskedUnderReview'
<1> SUFFICES ASSUME AskedUnderReview, [Next]_vars, stage' = "GENESIS"
             PROVE  "apply-auto-merge" \notin asked'
  BY DEF AskedUnderReview
<1> USE DEF AskedUnderReview, row
<1>1. CASE UNCHANGED vars
  BY <1>1 DEF vars
<1>2. CASE GenesisDone
  BY <1>2 DEF GenesisDone
<1>3. CASE Operator
  <2>1. CASE \E mode \in Modes : UpdateSettings(mode) \/ SetMode(mode)
    BY <2>1 DEF UpdateSettings, SetMode
  <2>2. CASE RequestDarkMode \/ AcceptChecklist
    BY <2>2 DEF RequestDarkMode, AcceptChecklist
  <2>3. CASE Approve \/ SendBack \/ Unblock
    BY <2>3 DEF Approve, SendBack, Unblock
  <2> QED BY <1>3, <2>1, <2>2, <2>3 DEF Operator
<1>4. CASE Scheduled
  BY <1>4 DEF Scheduled, Reprotect, ClassifyGate, Evaluate, EvaluateNothing, EvaluatePassDark,
              EvaluatePassGray, EvaluateFail, Stop, Judging
<1>5. CASE GitHub \/ Bridge
  BY <1>5 DEF GitHub, Push, ChecksConclude, Webhook, Bridge, GateSync, PollQueued, RunEffect
<1>6. CASE \E run \in Repairs : RunEnds(run)
  BY <1>6 DEF RunEnds, Stop
<1> QED BY <1>1, <1>2, <1>3, <1>4, <1>5, <1>6 DEF Next

LEMMA StepHeld ==
  ASSUME Types, AskedUnderReview, HoldIInv, [Next]_vars
  PROVE  HoldIInv'
<1> USE DEF row, outside, modes, queues
<1>1. CASE UNCHANGED vars
  BY <1>1, StutterHeld DEF vars
<1>2. CASE GenesisDone
  BY <1>2, ReprotectHeld
<1>3. CASE Operator
  <2>1. ASSUME NEW mode \in Modes, UpdateSettings(mode) PROVE HoldIInv'
    BY <2>1, UpdateSettingsHeld
  <2>2. ASSUME NEW mode \in Modes, SetMode(mode) PROVE HoldIInv'
    BY <2>2, ReprotectHeld
  <2>3. CASE RequestDarkMode \/ AcceptChecklist
    BY <2>3, StutterHeld DEF RequestDarkMode, AcceptChecklist
  <2>4. CASE Approve
    BY <2>4, ApproveHeld DEF AskedUnderReview, Approve
  <2>5. CASE SendBack \/ Unblock
    BY <2>5, StutterHeld DEF SendBack, Unblock
  <2> QED BY <1>3, <2>1, <2>2, <2>3, <2>4, <2>5 DEF Operator
<1>4. CASE Scheduled
  <2>1. CASE Reprotect
    BY <2>1, ReprotectHeld
  <2>2. CASE ClassifyGate
    BY <2>2, StutterHeld DEF ClassifyGate
  <2>3. CASE Evaluate
    BY <2>3, EvaluateHeld
  <2> QED BY <1>4, <2>1, <2>2, <2>3 DEF Scheduled
<1>5. CASE GitHub
  BY <1>5, StutterHeld DEF GitHub, Push, ChecksConclude, Webhook
<1>6. CASE Bridge
  <2>1. CASE GateSync
    BY <2>1, StutterHeld DEF GateSync
  <2> QED BY <1>6, <2>1, PollHeld, RunEffectHeld DEF Bridge
<1>7. CASE \E run \in Repairs : RunEnds(run)
  BY <1>7, StutterHeld DEF RunEnds, Stop
<1> QED BY <1>1, <1>2, <1>3, <1>4, <1>5, <1>6, <1>7 DEF Next

LEMMA HoldInvariant == Spec => [](Types /\ AskedUnderReview /\ HoldIInv)
<1>1. Init => AskedUnderReview
  BY DEF Init, AskedUnderReview
<1>2. Spec => []AskedUnderReview
  BY <1>1, AskedStep, PTL DEF Spec
<1>3. Types /\ AskedUnderReview /\ HoldIInv /\ [Next]_vars => HoldIInv'
  BY StepHeld
<1> QED BY <1>2, <1>3, InitHeld, TypesStay, PTL DEF Spec

(* However a flip of the factory to gray interleaves with verdicts, approvals, *)
(* the bridge's polls, its failures and its restarts, once the bridge has     *)
(* carried out what was queued no label of the factory's is left on a pull    *)
(* request the hold reached (settings.update, effectResult, runEffect).       *)
THEOREM FactoryHoldHolds == Spec => []HoldHolds
<1>1. HoldIInv => HoldHolds
  BY DEF HoldIInv, HoldCovered, HoldHolds, RevokedAfter, RowsOf
<1> QED BY <1>1, HoldInvariant, PTL

-----------------------------------------------------------------------------
(* Branch protection *)

(* Changes of a mode do not overlap: each reaches the project before the next. *)
NoOverlap == "overlap" \notin Happens

(* main ends up protected for a mode once the rows are carried out: the mode  *)
(* of the last row that protects it, or the one it is protected for.          *)
EndsAs(rows, protected, mode) ==
  \/ protected = mode /\ \A i \in DOMAIN rows : rows[i].kind # "protect"
  \/ \E i \in DOMAIN rows :
       /\ rows[i].kind = "protect" /\ rows[i].mode = mode
       /\ \A j \in DOMAIN rows : i < j => rows[j].kind # "protect"
WillBe(mode) == EndsAs(Rows, protection, mode)

(* A change of the factory's mode is on its way to the project, or none is.   *)
OneChange == reprotects # <<>> => Len(reprotects) = 1 /\ reprotects[1].after = factoryMode

(* main ends up protected for the effective mode, or, as long as a change is  *)
(* on its way, for the one that was effective before.                         *)
WillFollow ==
  \/ WillBe(Effective)
  \/ reprotects # <<>> /\ WillBe(EffectiveMode(reprotects[1].before, projectMode))
FollowIInv == OneChange /\ (HasRepo /\ ~protectFailed => WillFollow)

LEMMA AppendEnds ==
  ASSUME NEW r \in Seq(Effect), NEW e \in Effect, NEW p, NEW mode
  PROVE  /\ e.kind = "protect" => EndsAs(r \o <<e>>, p, e.mode)
         /\ e.kind # "protect" /\ EndsAs(r, p, mode) => EndsAs(r \o <<e>>, p, mode)
<1> DEFINE s == r \o <<e>>
<1>1. /\ DOMAIN s = 1..Len(r) + 1 /\ DOMAIN r = 1..Len(r) /\ Len(r) \in Nat
      /\ \A i \in DOMAIN r : s[i] = r[i]
      /\ s[Len(r) + 1] = e
  BY ConcatProperties
<1> HIDE DEF s
<1>2. ASSUME e.kind = "protect" PROVE EndsAs(s, p, e.mode)
  BY <1>1, <1>2 DEF EndsAs
<1>3. ASSUME e.kind # "protect", EndsAs(r, p, mode) PROVE EndsAs(s, p, mode)
  <2>1. CASE p = mode /\ \A i \in DOMAIN r : r[i].kind # "protect"
    BY <1>1, <1>3, <2>1 DEF EndsAs
  <2>2. ASSUME NEW i \in DOMAIN r, r[i].kind = "protect", r[i].mode = mode,
               \A j \in DOMAIN r : i < j => r[j].kind # "protect"
        PROVE  EndsAs(s, p, mode)
    <3>1. i \in DOMAIN s /\ s[i].kind = "protect" /\ s[i].mode = mode
      BY <1>1, <2>2
    <3>2. \A j \in DOMAIN s : i < j => s[j].kind # "protect"
      BY <1>1, <1>3, <2>2
    <3> QED BY <3>1, <3>2 DEF EndsAs
  <2> QED BY <1>3, <2>1, <2>2 DEF EndsAs
<1> QED BY <1>2, <1>3 DEF s

LEMMA WeakerEnds ==
  ASSUME NEW r, NEW s, Weaker(s, r), NEW p, NEW mode, EndsAs(r, p, mode)
  PROVE  EndsAs(s, p, mode)
  BY DEF Weaker, EndsAs

LEMMA TailEnds ==
  ASSUME NEW r \in Seq(Effect), r # <<>>, NEW p, NEW mode, EndsAs(r, p, mode)
  PROVE  EndsAs(Tail(r), IF Head(r).kind = "protect" THEN Head(r).mode ELSE p, mode)
<1> DEFINE t == Tail(r)
           q == IF Head(r).kind = "protect" THEN Head(r).mode ELSE p
<1>1. /\ t \in Seq(Effect) /\ Len(r) \in Nat /\ DOMAIN r = 1..Len(r)
      /\ DOMAIN t = 1..Len(r) - 1
      /\ \A i \in DOMAIN t : t[i] = r[i + 1]
      /\ Head(r) = r[1] /\ Len(r) >= 1
  OBVIOUS
<1> HIDE DEF t
<1>2. CASE p = mode /\ \A i \in DOMAIN r : r[i].kind # "protect"
  BY <1>1, <1>2 DEF EndsAs
<1>3. ASSUME NEW i \in DOMAIN r, r[i].kind = "protect", r[i].mode = mode,
             \A j \in DOMAIN r : i < j => r[j].kind # "protect"
      PROVE  EndsAs(t, q, mode)
  <2>1. CASE i = 1
    BY <1>1, <1>3, <2>1 DEF EndsAs
  <2>2. CASE i # 1
    <3>1. i - 1 \in DOMAIN t /\ t[i - 1] = r[i]
      BY <1>1, <2>2
    <3>2. \A j \in DOMAIN t : i - 1 < j => t[j].kind # "protect"
      BY <1>1, <1>3
    <3> QED BY <1>3, <3>1, <3>2 DEF EndsAs
  <2> QED BY <2>1, <2>2
<1> QED BY <1>2, <1>3 DEF EndsAs, t

(* Steps that write no row and no mode. *)
LEMMA StutterFollows ==
  ASSUME FollowIInv,
         UNCHANGED <<queued, polled, protection, reprotects, factoryMode, projectMode, protectFailed>>,
         stage = "GENESIS" <=> stage' = "GENESIS"
  PROVE  FollowIInv'
  BY DEF FollowIInv, OneChange, WillFollow, WillBe, EndsAs, Rows, Effective, HasRepo

LEMMA RowsGrow ==
  ASSUME HoldIInv, NEW e \in Effect, queued' = queued \o <<e>>, UNCHANGED polled
  PROVE  Rows \in Seq(Effect) /\ Rows' = Rows \o <<e>>
<1>1. \A q \in Seq(Effect), r \in Seq(Effect) : q \o r \in Seq(Effect) /\ q \o (r \o <<e>>) = (q \o r) \o <<e>>
  OBVIOUS
<1> QED BY <1>1 DEF HoldIInv, QueuesOK, IsQueue, Rows

(* A label that is asked for. *)
LEMMA LabelFollows ==
  ASSUME HoldIInv, FollowIInv, NEW e \in Effect, e.kind # "protect", queued' = queued \o <<e>>,
         UNCHANGED <<polled, protection, reprotects, factoryMode, projectMode, protectFailed>>,
         stage = "GENESIS" <=> stage' = "GENESIS"
  PROVE  FollowIInv'
<1>1. ASSUME NEW mode, WillBe(mode) PROVE WillBe(mode)'
  <2>1. Rows \in Seq(Effect) /\ Rows' = Rows \o <<e>>
    BY RowsGrow
  <2>2. EndsAs(Rows \o <<e>>, protection, mode)
    BY <1>1, <2>1, AppendEnds DEF WillBe
  <2> QED BY <2>1, <2>2 DEF WillBe, EndsAs
<1> QED BY <1>1 DEF FollowIInv, OneChange, WillFollow, Effective, HasRepo

(* Where main was to be protected for the mode before, it will be for the     *)
(* mode after.                                                                *)
LEMMA ReprotectedFollows ==
  ASSUME HoldIInv, NEW before, NEW after \in Modes, Reprotected(before, after), WillBe(before) \/ WillBe(after),
         UNCHANGED <<polled, protection>>
  PROVE  WillBe(after)'
<1> DEFINE e == MakeEffect("protect", after, "factory")
<1>1. CASE before = after
  BY <1>1 DEF Reprotected, WillBe, EndsAs, Rows
<1>2. CASE before # after
  <2>1. e \in Effect /\ e.kind = "protect" /\ e.mode = after /\ queued' = queued \o <<e>>
    BY <1>2, EffectTyped DEF Reprotected, Insert, MakeEffect
  <2>2. Rows \in Seq(Effect) /\ Rows' = Rows \o <<e>>
    BY <2>1, RowsGrow
  <2>3. EndsAs(Rows \o <<e>>, protection, after)
    BY <2>1, <2>2, AppendEnds
  <2> QED BY <2>2, <2>3 DEF WillBe, EndsAs
<1> QED BY <1>1, <1>2

LEMMA UpdateSettingsFollows ==
  ASSUME NoOverlap, Types, HoldIInv, FollowIInv, NEW mode \in Modes, UpdateSettings(mode)
  PROVE  FollowIInv'
<1>1. /\ reprotects = <<>> /\ reprotects' = Append(reprotects, [before |-> factoryMode, after |-> mode])
      /\ factoryMode' = mode /\ UNCHANGED <<projectMode, stage, protection, protectFailed>>
  BY DEF UpdateSettings, Settled, NoOverlap, row, outside
<1>2. /\ Len(reprotects') = 1 /\ reprotects'[1].after = mode /\ reprotects'[1].before = factoryMode
      /\ reprotects' # <<>>
  BY <1>1
<1>3. \A m : WillBe(m) => WillBe(m)'
  <2>1. CASE mode # "gray"
    BY <1>1, <2>1 DEF UpdateSettings, WillBe, EndsAs, Rows
  <2>2. CASE mode = "gray"
    <3> DEFINE s == Cancel(polled) \o Cancel(queued)
               revoke == MakeEffect("remove-label", "gray", "factory")
    <3>1. polled' = Cancel(polled) /\ queued' = Cancel(queued) \o RevokeOn(stage = "REVIEW_LOOP")
      BY <2>2 DEF UpdateSettings, Hold
    <3>2. /\ IsQueue(polled) /\ IsQueue(queued)
          /\ Weaker(Cancel(polled), polled) /\ Weaker(Cancel(queued), queued)
          /\ Cancel(polled) \in Seq(Effect) /\ Cancel(queued) \in Seq(Effect)
      BY CancelIsQueue DEF HoldIInv, QueuesOK, IsQueue
    <3>3. Weaker(s, Rows) /\ s \in Seq(Effect)
      BY <3>2, WeakerConcat, ConcatProperties DEF Rows
    <3>4. revoke \in Effect /\ revoke.kind # "protect"
      BY EffectTyped DEF MakeEffect, Modes
    <3>5. Rows' = s \/ Rows' = s \o <<revoke>>
      <4>1. \A q \in Seq(Effect), t \in Seq(Effect) :
              t \o <<>> = t /\ q \o (t \o <<revoke>>) = (q \o t) \o <<revoke>>
        BY <3>4
      <4> QED BY <3>1, <3>2, <4>1 DEF Rows, RevokeOn
    <3> HIDE DEF s, revoke
    <3>6. ASSUME NEW m, WillBe(m) PROVE WillBe(m)'
      <4>1. EndsAs(s, protection, m)
        BY <3>3, <3>6, WeakerEnds DEF WillBe
      <4>2. EndsAs(s \o <<revoke>>, protection, m)
        BY <3>3, <3>4, <4>1, AppendEnds
      <4>3. EndsAs(Rows', protection', m)
        BY <1>1, <3>5, <4>1, <4>2
      <4> QED BY <4>3 DEF WillBe, EndsAs
    <3> QED BY <3>6
  <2> QED BY <2>1, <2>2
<1> QED BY <1>1, <1>2, <1>3 DEF FollowIInv, OneChange, WillFollow, Effective, HasRepo

LEMMA SetModeFollows ==
  ASSUME NoOverlap, Types, HoldIInv, FollowIInv, NEW mode \in Modes, SetMode(mode)
  PROVE  FollowIInv'
<1>1. /\ reprotects = <<>> /\ projectMode' = mode
      /\ UNCHANGED <<reprotects, factoryMode, stage, polled, protection, protectFailed>>
  BY DEF SetMode, Settled, NoOverlap, row, scheduler, outside
<1>2. ASSUME HasRepo, ~protectFailed PROVE WillBe(Effective)'
  <2>1. WillBe(Effective) /\ Reprotected(Effective, EffectiveMode(factoryMode, mode))
    BY <1>1, <1>2 DEF FollowIInv, WillFollow, SetMode
  <2>2. EffectiveMode(factoryMode, mode) \in Modes /\ Effective' = EffectiveMode(factoryMode, mode)
    BY <1>1, EffectiveTyped DEF Types, Effective
  <2>3. WillBe(EffectiveMode(factoryMode, mode))'
    BY <1>1, <2>1, <2>2, ReprotectedFollows
  <2> QED BY <1>1, <2>2, <2>3 DEF WillBe, EndsAs, Effective
<1> QED BY <1>1, <1>2 DEF FollowIInv, OneChange, WillFollow, HasRepo

LEMMA GenesisDoneFollows ==
  ASSUME Types, HoldIInv, FollowIInv, GenesisDone
  PROVE  FollowIInv'
<1>1. /\ Reprotected(protection, Effective) /\ Rows = <<>>
      /\ UNCHANGED <<polled, protection, reprotects, factoryMode, projectMode>>
  BY DEF GenesisDone, HoldIInv, GenesisIsEmpty, Rows, modes, outside
<1>2. WillBe(protection)
  BY <1>1 DEF WillBe, EndsAs
<1>3. Effective \in Modes /\ Effective' = Effective
  BY <1>1, EffectiveTyped DEF Types, Effective
<1>4. WillBe(Effective)'
  BY <1>1, <1>2, <1>3, ReprotectedFollows DEF WillBe, EndsAs
<1> QED BY <1>1, <1>4 DEF FollowIInv, OneChange, WillFollow

LEMMA ReprotectFollows ==
  ASSUME Types, HoldIInv, FollowIInv, Reprotect
  PROVE  FollowIInv'
<1>1. PICK i \in DOMAIN reprotects :
        /\ reprotects' = SubSeq(reprotects, 1, i - 1)
                           \o SubSeq(reprotects, i + 1, Len(reprotects))
        /\ IF HasRepo
             THEN Reprotected(EffectiveMode(reprotects[i].before, projectMode),
                              EffectiveMode(reprotects[i].after, projectMode))
             ELSE UNCHANGED queued
  BY DEF Reprotect
<1>2. UNCHANGED <<polled, protection, factoryMode, projectMode, stage, protectFailed>>
  BY DEF Reprotect, modes, row, outside
<1>3. i = 1 /\ Len(reprotects) = 1 /\ reprotects # <<>> /\ reprotects[1].after = factoryMode
  <2>1. reprotects \in Seq([before : Modes, after : Modes])
    BY DEF Types
  <2>2. reprotects # <<>> /\ DOMAIN reprotects = 1..Len(reprotects)
    BY <1>1, <2>1
  <2> QED BY <1>1, <2>2 DEF FollowIInv, OneChange
<1>4. reprotects' = <<>>
  <2>1. SubSeq(reprotects, 1, 0) = <<>> /\ SubSeq(reprotects, 2, 1) = <<>>
    BY <1>3 DEF Types
  <2>2. 1 - 1 = 0 /\ 1 + 1 = 2
    OBVIOUS
  <2> QED BY <1>1, <1>3, <2>1, <2>2
<1>5. ASSUME HasRepo, ~protectFailed PROVE WillBe(Effective)'
  <2>1. /\ Reprotected(EffectiveMode(reprotects[1].before, projectMode), Effective)
        /\ WillBe(EffectiveMode(reprotects[1].before, projectMode)) \/ WillBe(Effective)
    BY <1>1, <1>3, <1>5 DEF FollowIInv, WillFollow, Effective
  <2>2. Effective \in Modes /\ Effective' = Effective
    BY <1>2, EffectiveTyped DEF Types, Effective
  <2>3. \A m : Effective = m => WillBe(m)'
    BY <1>2, <2>1, <2>2, ReprotectedFollows
  <2> QED BY <2>2, <2>3 DEF WillBe, EndsAs
<1> QED BY <1>2, <1>4, <1>5 DEF FollowIInv, OneChange, WillFollow, HasRepo

LEMMA PollFollows ==
  ASSUME HoldIInv, FollowIInv, PollQueued
  PROVE  FollowIInv'
<1>1. /\ polled = <<>> /\ polled' = Taken(queued) /\ queued' = <<>>
      /\ UNCHANGED <<stage, protection, reprotects, factoryMode, projectMode, protectFailed>>
  BY DEF PollQueued, modes, row, scheduler, outside
<1>2. IsQueue(queued) /\ IsQueue(Taken(queued)) /\ Weaker(Taken(queued), queued)
  BY TakenIsQueue DEF HoldIInv, QueuesOK
<1>3. Rows = queued /\ Rows' = Taken(queued)
  BY <1>1, <1>2 DEF Rows, IsQueue
<1>4. ASSUME NEW mode, WillBe(mode) PROVE WillBe(mode)'
  <2>1. EndsAs(Taken(queued), protection, mode)
    BY <1>2, <1>3, <1>4, WeakerEnds DEF WillBe
  <2> QED BY <1>1, <1>3, <2>1 DEF WillBe, EndsAs
<1> QED BY <1>1, <1>4 DEF FollowIInv, OneChange, WillFollow, Effective, HasRepo

LEMMA RunEffectFollows ==
  ASSUME Types, HoldIInv, FollowIInv, RunEffect
  PROVE  FollowIInv'
<1> DEFINE effect == Head(polled)
<1>1. polled # <<>> /\ UNCHANGED <<reprotects, factoryMode, projectMode, stage>>
  BY DEF RunEffect, row, scheduler
<1>2. Rows \in Seq(Effect) /\ Rows # <<>> /\ Head(Rows) = effect
  <2>1. \A q \in Seq(Effect), r \in Seq(Effect) : q # <<>> =>
          q \o r \in Seq(Effect) /\ q \o r # <<>> /\ Head(q \o r) = Head(q)
    OBVIOUS
  <2> QED BY <1>1, <2>1 DEF HoldIInv, QueuesOK, IsQueue, Rows
<1>3. ASSUME ~protectFailed' PROVE ~protectFailed /\ \A mode : WillBe(mode) => WillBe(mode)'
  <2>1. CASE EffectDone(effect) \/ EffectFailed(effect)
    <3>1. /\ polled' = Tail(polled) /\ UNCHANGED queued /\ ~protectFailed
          /\ protection' = IF effect.kind = "protect" THEN effect.mode ELSE protection
      <4>1. CASE EffectDone(effect)
        BY <1>3, <4>1, Zenon DEF EffectDone, Execute
      <4>2. CASE EffectFailed(effect)
        BY <1>3, <4>2, Zenon DEF EffectFailed
      <4> QED BY <2>1, <4>1, <4>2
    <3>2. Rows' = Tail(Rows)
      <4>1. \A q \in Seq(Effect), r \in Seq(Effect) : q # <<>> => Tail(q \o r) = Tail(q) \o r
        OBVIOUS
      <4> QED BY <1>1, <3>1, <4>1 DEF HoldIInv, QueuesOK, IsQueue, Rows
    <3>3. ASSUME NEW mode, WillBe(mode) PROVE EndsAs(Rows', protection', mode)
      BY <1>2, <3>1, <3>2, <3>3, TailEnds DEF WillBe
    <3> QED BY <3>1, <3>3 DEF WillBe, EndsAs
  <2>2. CASE EffectUnreported(effect)
    <3>1. /\ queued' = Taken(polled) \o queued /\ polled' = <<>> /\ UNCHANGED protectFailed
          /\ protection' = IF effect.kind = "protect" THEN effect.mode ELSE protection
      BY <2>2 DEF EffectUnreported, Execute
    <3>2. /\ IsQueue(queued) /\ IsQueue(polled) /\ IsQueue(Taken(polled))
          /\ Weaker(Taken(polled), polled) /\ Weaker(queued, queued)
      BY TakenIsQueue DEF HoldIInv, QueuesOK, IsQueue, Weaker
    <3>3. Rows' = Taken(polled) \o queued
      <4>1. \A q \in Seq(Effect) : <<>> \o q = q
        OBVIOUS
      <4>2. Taken(polled) \o queued \in Seq(Effect)
        BY <3>2, ConcatIsQueue DEF IsQueue
      <4> QED BY <3>1, <4>1, <4>2 DEF Rows
    <3>4. Weaker(Rows', Rows)
      BY <3>2, <3>3, WeakerConcat DEF Rows
    <3>5. 1 \in DOMAIN Rows /\ Rows[1] = effect
      BY <1>2
    <3>6. ASSUME NEW mode, WillBe(mode) PROVE EndsAs(Rows', protection', mode)
      <4>1. EndsAs(Rows, protection', mode)
        BY <3>1, <3>5, <3>6 DEF WillBe, EndsAs
      <4> QED BY <3>4, <4>1, WeakerEnds
    <3> QED BY <1>3, <3>1, <3>6 DEF WillBe, EndsAs
  <2> QED BY <2>1, <2>2 DEF RunEffect
<1> QED BY <1>1, <1>3 DEF FollowIInv, OneChange, WillFollow, Effective, HasRepo

LEMMA AsksFollow ==
  ASSUME Types, AskedUnderReview, HoldIInv, FollowIInv, Approve \/ Evaluate
  PROVE  FollowIInv'
<1>1. /\ UNCHANGED <<polled, protection, reprotects, factoryMode, projectMode, protectFailed>>
      /\ stage = "GENESIS" <=> stage' = "GENESIS"
  BY DEF Approve, Evaluate, EvaluateNothing, EvaluatePassDark, EvaluatePassGray, EvaluateFail, Stop,
         Judging, modes,
         scheduler, outside
<1>2. CASE UNCHANGED queued
  BY <1>1, <1>2, StutterFollows
<1>3. ASSUME NEW by \in {"factory", "human"}, queued' = queued \o <<MakeEffect("apply-label", "dark", by)>>
      PROVE  FollowIInv'
  <2>1. MakeEffect("apply-label", "dark", by) \in Effect /\ MakeEffect("apply-label", "dark", by).kind # "protect"
    BY <1>3, EffectTyped DEF MakeEffect, Modes
  <2> QED BY <1>1, <1>3, <2>1, LabelFollows
<1>4. \/ UNCHANGED queued
      \/ \E by \in {"factory", "human"} : queued' = queued \o <<MakeEffect("apply-label", "dark", by)>>
  BY DEF Approve, Evaluate, EvaluateNothing, EvaluatePassDark, EvaluatePassGray, EvaluateFail, Insert
<1> QED BY <1>2, <1>3, <1>4

LEMMA StepFollows ==
  ASSUME NoOverlap, Types, AskedUnderReview, HoldIInv, FollowIInv, [Next]_vars
  PROVE  FollowIInv'
<1> USE DEF row, outside, modes, queues, scheduler
<1>1. CASE UNCHANGED vars
  BY <1>1, StutterFollows DEF vars
<1>2. CASE GenesisDone
  BY <1>2, GenesisDoneFollows
<1>3. CASE Operator
  <2>1. CASE \E mode \in Modes : UpdateSettings(mode) \/ SetMode(mode)
    BY <2>1, UpdateSettingsFollows, SetModeFollows
  <2>2. CASE RequestDarkMode \/ AcceptChecklist
    BY <2>2, StutterFollows DEF RequestDarkMode, AcceptChecklist
  <2>3. CASE Approve
    BY <2>3, AsksFollow
  <2>4. CASE SendBack \/ Unblock
    BY <2>4, StutterFollows DEF SendBack, Unblock, AskedUnderReview
  <2> QED BY <1>3, <2>1, <2>2, <2>3, <2>4 DEF Operator
<1>4. CASE Scheduled
  <2>1. CASE Reprotect
    BY <2>1, ReprotectFollows
  <2>2. CASE ClassifyGate
    BY <2>2, StutterFollows DEF ClassifyGate
  <2>3. CASE Evaluate
    BY <2>3, AsksFollow
  <2> QED BY <1>4, <2>1, <2>2, <2>3 DEF Scheduled
<1>5. CASE GitHub
  BY <1>5, StutterFollows DEF GitHub, Push, ChecksConclude, Webhook
<1>6. CASE Bridge
  <2>1. CASE GateSync
    BY <2>1, StutterFollows DEF GateSync
  <2> QED BY <1>6, <2>1, PollFollows, RunEffectFollows DEF Bridge
<1>7. CASE \E run \in Repairs : RunEnds(run)
  BY <1>7, StutterFollows DEF RunEnds, Stop
<1> QED BY <1>1, <1>2, <1>3, <1>4, <1>5, <1>6, <1>7 DEF Next

(* Where the changes of a mode do not overlap, branch protection follows the  *)
(* effective mode, however the factory's flips, the project's own mode, the   *)
(* reconciliation after genesis and the bridge's failures and restarts        *)
(* interleave (setMode, reprotect, onRunCompleted, runEffect).                *)
THEOREM ProtectionFollows == NoOverlap => (Spec => []ProtectionFollowsMode)
<1> SUFFICES ASSUME NoOverlap PROVE Spec => []ProtectionFollowsMode
  OBVIOUS
<1>1. Init => FollowIInv
  BY DEF Init, FollowIInv, OneChange, HasRepo
<1>2. Types /\ AskedUnderReview /\ HoldIInv /\ FollowIInv /\ [Next]_vars => FollowIInv'
  BY StepFollows
<1>3. FollowIInv => ProtectionFollowsMode
  BY DEF FollowIInv, WillFollow, WillBe, EndsAs, ProtectionFollowsMode, RowsOf
<1> QED BY <1>1, <1>2, <1>3, HoldInvariant, PTL DEF Spec
=============================================================================
