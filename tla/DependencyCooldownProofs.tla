----------------------- MODULE DependencyCooldownProofs -----------------------
(***************************************************************************)
(* What the cooldown promises for any packages, releases and windows.      *)
(*                                                                         *)
(* The argument follows a verdict from the check to the gate row: when it  *)
(* is made it vouches for what is true that day (CheckVouches), what is    *)
(* true of a day stays true on later ones (StaysAged), and it is           *)
(* remembered, sent and stored beside the commit it was made for           *)
(* (VouchInv), whose lockfile never changes once it is pushed.             *)
(***************************************************************************)
EXTENDS DependencyCooldown, TLAPS

SyncType == [on : {"idle", "viewed", "reported"}, head : Heads, verdict : Verdicts]
GateType == [classified : BOOLEAN, of : Heads, forced : BOOLEAN, verdict : Verdicts]

(* What a verdict that lets commit through says of it. *)
Vouches(verdict, commit) ==
  verdict.ok => "other-lockfile" \notin files[commit] 
                /\ HeldBack(verdict.against, locks[commit], published, day)

VouchInv ==
  /\ \A h \in Heads : Vouches(verdicts[h], h)
  /\ sync.head <= head /\ Vouches(sync.verdict, sync.head)
  /\ gate.of <= head
  /\ gate.classified =>
       /\ Vouches(gate.verdict, gate.of)
       /\ gate.forced = ForcedGray(files[gate.of], gate.verdict)
  /\ \A h \in Heads : h > head => ~verdicts[h].known /\ ~verdicts[h].ok

CooldownInv == TypeOK /\ VouchInv

LEMMA EntriesAreTyped ==
  /\ Absent \in Entries /\ Unsupported \in Locks /\ NoVerdict \in Verdicts
  /\ \A e \in Entries : e.release \in Releases \cup {0}
<1>1. Absent \in Entries
  BY DEF Entries
<1>2. [l \in Locations |-> Absent] \in [Locations -> Entries]
  BY <1>1
<1>3. Unsupported \in Locks
  BY <1>2 DEF Unsupported, Locks
<1>4. NoVerdict \in Verdicts
  BY <1>3 DEF NoVerdict, Verdicts
<1>5. ASSUME NEW e \in Entries PROVE e.release \in Releases \cup {0}
  <2>1. CASE e = Absent
    BY <2>1 DEF Absent
  <2>2. CASE e \in Entry(Releases, "registry")
    BY <2>2 DEF Entry
  <2>3. CASE e \in Entry(Foreign, "elsewhere")
    BY <2>3, CooldownAssumption DEF Entry
  <2> QED
    BY <2>1, <2>2, <2>3 DEF Entries
<1> QED
  BY <1>1, <1>3, <1>4, <1>5

LEMMA VerdictsAreTyped ==
  ASSUME base \in Locks, NEW ok \in BOOLEAN, NEW checked \in BOOLEAN
  PROVE  Verdict(ok, checked) \in Verdicts
  BY DEF Verdict, Verdicts

(* A lockfile with one entry replaced is a lockfile. *)
LEMMA EntryReplaced ==
  ASSUME NEW lock \in Locks, NEW l \in Locations, NEW entry \in Entries
  PROVE  [lock EXCEPT !.at[l] = entry] \in Locks
<1>1. lock.at \in [Locations -> Entries] /\ lock.supported \in BOOLEAN
  BY DEF Locks
<1>2. [lock.at EXCEPT ![l] = entry] \in [Locations -> Entries]
  BY <1>1
<1>3. [lock EXCEPT !.at[l] = entry] = [supported |-> lock.supported, at |-> [lock.at EXCEPT ![l] = entry]]
  BY DEF Locks
<1> QED
  BY <1>1, <1>2, <1>3 DEF Locks

LEMMA ChangesAreLocks ==
  ASSUME NEW lock \in Locks
  PROVE  Changes(lock) \subseteq Locks /\ Upgrades(lock) \subseteq Locks
<1>1. Entry(Releases \ OldReleases, "registry") \subseteq Entries
  BY DEF Entry, Entries
<1>2. \A l \in Locations, entry \in Entries : [lock EXCEPT !.at[l] = entry] \in Locks
  BY EntryReplaced
<1>3. Changes(lock) \subseteq Locks
  BY <1>2, EntriesAreTyped DEF Changes
<1>4. Upgrades(lock) \subseteq Locks
  BY <1>1, <1>2 DEF Upgrades
<1> QED
  BY <1>3, <1>4

(* The check is sound: the verdict it gives a lockfile holds of that day.     *)
LEMMA CheckVouches ==
  ASSUME TypeOK, NEW from \in Locks, NEW to \in Locks, NEW docs,
         CooldownVerdict(from, to, docs).ok
  PROVE  HeldBack(from, to, published, day)
<1>1. /\ from.supported /\ to.supported
      /\ \A l \in Added(from, to) :
           /\ to.at[l].from = "registry"
           /\ OldEnough(<<l[1], to.at[l].release>>, RequiredDays(from, to, l))
  BY DEF CooldownVerdict, Verdict
<1>2. SUFFICES ASSUME NEW l \in News(from, to)
               PROVE  /\ to.at[l].from = "registry"
                      /\ PublicFor(published[<<l[1], to.at[l].release>>], MinDays, day)
                      /\ \/ from.at[l] = Absent
                         \/ Major(from.at[l].release) = Major(to.at[l].release)
                         \/ PublicFor(published[<<l[1], to.at[l].release>>], MajorDays, day)
  BY <1>1, <1>2 DEF HeldBack
<1>3. l \in Locations /\ to.at[l].release # 0 /\ l[1] \in Packages
  BY DEF News, Locations
<1>4. ~Has(from, l[1], to.at[l].release)
  <2>1. \A place \in Places : <<l[1], place>> \in Locations /\ <<l[1], place>>[1] = l[1]
    BY <1>3 DEF Locations
  <2> QED
    BY <2>1 DEF News, Has
<1>5. l \in Added(from, to)
  BY <1>3, <1>4 DEF Added
<1>6. to.at[l].release \in Releases
  BY <1>3, EntriesAreTyped DEF Locks
<1>7. published[<<l[1], to.at[l].release>>] \in Nat /\ day \in Nat
  BY <1>3, <1>6 DEF TypeOK, Versions, Days
<1> DEFINE on == <<l[1], to.at[l].release>>
<1>8. OldEnough(on, RequiredDays(from, to, l)) /\ to.at[l].from = "registry"
  BY <1>1, <1>5
<1>9. RequiredDays(from, to, l) \in {MinDays, MajorDays}
  BY DEF RequiredDays
<1>10. \A days \in Nat : published[on] + days <= day => PublicFor(published[on], days, day)
  BY <1>7 DEF PublicFor
<1>11. PublicFor(published[on], MinDays, day)
  BY <1>7, <1>8, <1>9, <1>10, CooldownAssumption DEF OldEnough
<1>12. CASE from.at[l] # Absent /\ Major(from.at[l].release) # Major(to.at[l].release)
  <2>1. RequiredDays(from, to, l) = MajorDays
    BY <1>12 DEF RequiredDays
  <2> QED
    BY <1>8, <1>10, <1>11, <2>1, CooldownAssumption DEF OldEnough
<1>13. CASE ~(from.at[l] # Absent /\ Major(from.at[l].release) # Major(to.at[l].release))
  BY <1>8, <1>11, <1>13
<1> QED
  BY <1>12, <1>13

(* What has aged has aged on every later day. *)
LEMMA StaysAged ==
  ASSUME NEW from \in Locks, NEW to \in Locks, NEW dates \in [Versions -> Days],
         NEW today \in Nat, NEW later \in Nat, later >= today, HeldBack(from, to, dates, today)
  PROVE  HeldBack(from, to, dates, later)
<1> SUFFICES ASSUME NEW l \in News(from, to), NEW days \in Nat,
                    PublicFor(dates[<<l[1], to.at[l].release>>], days, today)
             PROVE  PublicFor(dates[<<l[1], to.at[l].release>>], days, later)
  BY CooldownAssumption DEF HeldBack
<1>1. l \in Locations /\ to.at[l].release # 0 /\ l[1] \in Packages
  BY DEF News, Locations
<1>2. to.at[l].release \in Releases
  BY <1>1, EntriesAreTyped DEF Locks
<1>3. dates[<<l[1], to.at[l].release>>] \in Nat
  BY <1>1, <1>2 DEF Versions, Days
<1> QED
  BY <1>3 DEF PublicFor

-----------------------------------------------------------------------------
(* Type correctness, one lemma per process. *)

LEMMA InitTypeOK == Init => TypeOK
<1> SUFFICES ASSUME Init PROVE TypeOK
  OBVIOUS
<1>1. day \in Days /\ published \in [Versions -> Days] /\ head \in Heads /\ faults \in 0..MaxFaults
  BY CooldownAssumption DEF Init, Days, Heads
<1>2. base \in Locks
  <2>1. Entry(OldReleases, "registry") \subseteq Entries
    BY CooldownAssumption DEF Entry, Entries
  <2>2. PICK at \in [Locations -> {Absent} \cup Entry(OldReleases, "registry")] : base = Readable(at)
    BY DEF Init
  <2>3. at \in [Locations -> Entries]
    BY <2>1, <2>2, EntriesAreTyped
  <2> QED
    BY <2>2, <2>3 DEF Readable, Locks
<1>3. files \in [Heads -> SUBSET Files] /\ locks \in [Heads -> Locks]
  BY <1>2, ChangesAreLocks DEF Init
<1>4. documents \in [Packages -> Documents] /\ verdicts \in [Heads -> Verdicts]
  BY CooldownAssumption, EntriesAreTyped DEF Init, Documents, Unread, Days
<1>5. sync \in SyncType /\ gate \in GateType
  BY CooldownAssumption, EntriesAreTyped DEF Init, SyncType, GateType, Heads
<1> QED
  BY <1>1, <1>2, <1>3, <1>4, <1>5 DEF TypeOK, SyncType, GateType, Init

LEMMA OutsideTypeOK ==
  ASSUME TypeOK, DayPasses \/ Push \/ BaseMoves
  PROVE  TypeOK'
<1>1. CASE DayPasses
  BY <1>1, CooldownAssumption DEF TypeOK, DayPasses, Days, pr, memory
<1>2. CASE Push
  <2>1. head' \in Heads /\ head \in Heads
    BY <1>2, CooldownAssumption DEF TypeOK, Push, Heads
  <2>2. locks' \in [Heads -> Locks]
    BY <1>2, <2>1, ChangesAreLocks DEF TypeOK, Push
  <2>3. files' \in [Heads -> SUBSET Files]
    BY <1>2, <2>1 DEF TypeOK, Push, Files
  <2> QED
    BY <1>2, <2>1, <2>2, <2>3 DEF TypeOK, Push, registry, memory
<1>3. CASE BaseMoves
  <2>1. base' \in Locks
    BY <1>3, ChangesAreLocks DEF TypeOK, BaseMoves
  <2> QED
    BY <1>3, <2>1, CooldownAssumption DEF TypeOK, BaseMoves, Fault, registry, pr, memory
<1> QED
  BY <1>1, <1>2, <1>3

(* What a check remembers. *)
LEMMA CheckRemembers ==
  ASSUME TypeOK, Check
  PROVE  /\ documents' \in [Packages -> Documents] /\ verdicts' \in [Heads -> Verdicts]
         /\ spoiled' \subseteq Heads /\ faults' \in 0..MaxFaults
<1> DEFINE commit == sync.head
<1>1. commit \in Heads /\ Key(commit) = commit /\ base \in Locks
  BY DEF TypeOK, Key
<1>2. \A ok, checked \in BOOLEAN :
        Remember(commit, Verdict(ok, checked)) => verdicts' \in [Heads -> Verdicts]
  BY <1>1, VerdictsAreTyped DEF TypeOK, Remember
<1>3. \A fine : Spoil(commit, fine) => spoiled' \subseteq Heads
  BY <1>1 DEF TypeOK, Spoil
<1>4. CASE Uncheckable(commit)
  BY <1>2, <1>3, <1>4 DEF TypeOK, Uncheckable
<1>5. CASE ReadFails(commit)
  <2>1. faults' \in 0..MaxFaults
    BY <1>5, CooldownAssumption DEF TypeOK, ReadFails, Fault
  <2> QED
    BY <1>2, <1>3, <1>5, <2>1 DEF TypeOK, ReadFails
<1>6. CASE CheckLock(commit)
  <2>1. documents' \in [Packages -> Documents]
    BY <1>6 DEF CheckLock, Fetched
  <2>2. PICK docs : Remember(commit, CooldownVerdict(base, locks[commit], docs))
    BY <1>6 DEF CheckLock
  <2>3. verdicts' \in [Heads -> Verdicts]
    BY <1>1, <1>2, <2>2 DEF CooldownVerdict, TypeOK, Locks
  <2> QED
    BY <1>3, <1>6, <2>1, <2>3 DEF CheckLock, TypeOK
<1>7. CASE UNCHANGED <<memory, spoiled, faults>>
  BY <1>7 DEF TypeOK, memory
<1> QED
  BY <1>4, <1>5, <1>6, <1>7 DEF Check

LEMMA BridgeTypeOK ==
  ASSUME TypeOK, Bridge \/ Classify \/ Restart
  PROVE  TypeOK'
<1>1. CASE View
  BY <1>1, EntriesAreTyped DEF TypeOK, View, registry, pr, memory
<1>2. CASE Check
  <2>1. sync' \in SyncType
    BY <1>2, CheckRemembers, EntriesAreTyped DEF TypeOK, Check, Key, SyncType
  <2> QED
    BY <1>2, <2>1, CheckRemembers DEF TypeOK, Check, SyncType, registry, pr
<1>3. CASE Classify
  <2>1. ForcedGray(files[sync.head], sync.verdict) \in BOOLEAN
    BY DEF ForcedGray
  <2>2. gate' \in GateType /\ sync' \in SyncType
    BY <1>3, <2>1 DEF TypeOK, Classify, GateType, SyncType
  <2> QED
    BY <1>3, <2>2 DEF TypeOK, Classify, GateType, SyncType, registry, pr, memory
<1>4. CASE Restart
  <2>1. Unread \in Documents
    BY CooldownAssumption DEF Unread, Documents, Days
  <2>2. sync' \in SyncType
    BY <1>4 DEF TypeOK, Restart, SyncType
  <2> QED
    BY <1>4, <2>1, <2>2, EntriesAreTyped, CooldownAssumption
    DEF TypeOK, Restart, Fault, SyncType, registry, pr
<1> QED
  BY <1>1, <1>2, <1>3, <1>4 DEF Bridge

(* Every variable keeps its type, for any packages, releases and windows.     *)
THEOREM CooldownTypeCorrect == Spec => []TypeOK
<1>1. ASSUME TypeOK, [Next]_vars PROVE TypeOK'
  <2>1. CASE UNCHANGED vars
    BY <1>1, <2>1 DEF vars, registry, pr, memory, TypeOK
  <2> QED
    BY <1>1, <2>1, OutsideTypeOK, BridgeTypeOK DEF Next
<1> QED
  BY <1>1, InitTypeOK, PTL DEF Spec

-----------------------------------------------------------------------------
(* From the check to the gate row. *)

LEMMA InitVouches == Init => VouchInv
<1>1. Init => head = 0 /\ sync.head = 0 /\ gate.of = 0 /\ ~gate.classified
  BY DEF Init
<1>2. \A h \in Heads : ~NoVerdict.known /\ ~NoVerdict.ok
  BY DEF NoVerdict
<1>3. Init => /\ \A h \in Heads : ~verdicts[h].known /\ ~verdicts[h].ok
              /\ ~sync.verdict.ok
  BY <1>2 DEF Init, NoVerdict
<1> QED
  BY <1>1, <1>3 DEF VouchInv, Vouches

(* Steps that leave the commits alone keep what a verdict vouches for. *)
LEMMA VouchingLasts ==
  ASSUME TypeOK, published' = published, day' \in Nat, day' >= day,
         NEW v \in Verdicts, NEW h \in Heads, files'[h] = files[h], locks'[h] = locks[h],
         v.ok => "other-lockfile" \notin files[h] /\ HeldBack(v.against, locks[h], published, day)
  PROVE  v.ok => "other-lockfile" \notin files'[h] /\ HeldBack(v.against, locks'[h], published', day')
<1>1. v.against \in Locks /\ locks[h] \in Locks /\ published \in [Versions -> Days] /\ day \in Nat
  BY DEF TypeOK, Verdicts, Days
<1> QED
  BY <1>1, StaysAged

(* A step of the environment: time, a push, another merge. *)
LEMMA OutsideVouches ==
  ASSUME CooldownInv, DayPasses \/ Push \/ BaseMoves
  PROVE  VouchInv'
<1>1. /\ published' = published /\ day' \in Nat /\ day' >= day
      /\ head' \in Nat /\ head' >= head
      /\ UNCHANGED <<verdicts, sync, gate>>
  BY DEF CooldownInv, TypeOK, DayPasses, Push, BaseMoves, registry, pr, memory, Days, Heads
<1>2. ASSUME NEW h \in Heads, h <= head
      PROVE  files'[h] = files[h] /\ locks'[h] = locks[h]
  <2>1. CASE Push
    <3>1. head \in Nat /\ h \in Nat /\ head' = head + 1 /\ h # head'
      BY <1>2, <2>1 DEF CooldownInv, TypeOK, Push, Heads
    <3> QED
      BY <2>1, <3>1 DEF CooldownInv, TypeOK, Push
  <2>2. CASE DayPasses \/ BaseMoves
    BY <2>2 DEF DayPasses, BaseMoves, pr
  <2> QED
    BY <2>1, <2>2
<1>3. TypeOK /\ VouchInv
  BY DEF CooldownInv
<1>4. ASSUME NEW v \in Verdicts, NEW h \in Heads, h <= head,
             v.ok => "other-lockfile" \notin files[h] /\ HeldBack(v.against, locks[h], published, day)
      PROVE  v.ok => "other-lockfile" \notin files'[h] /\ HeldBack(v.against, locks'[h], published', day')
  BY <1>1, <1>2, <1>3, <1>4, VouchingLasts
<1>5. ASSUME NEW h \in Heads PROVE Vouches(verdicts[h], h)'
  <2>1. CASE h <= head
    BY <1>1, <1>3, <1>4, <2>1 DEF VouchInv, Vouches, TypeOK
  <2>2. CASE ~(h <= head)
    BY <1>1, <1>3, <2>2 DEF VouchInv, Vouches, TypeOK, Heads
  <2> QED
    BY <2>1, <2>2
<1>6. (sync.head <= head /\ Vouches(sync.verdict, sync.head))'
  BY <1>1, <1>3, <1>4 DEF VouchInv, Vouches, TypeOK, Heads
<1>7. (gate.of <= head)' /\ (gate.classified => Vouches(gate.verdict, gate.of))'
  BY <1>1, <1>3, <1>4 DEF VouchInv, Vouches, TypeOK, Heads
<1>8. (gate.classified => gate.forced = ForcedGray(files[gate.of], gate.verdict))'
  BY <1>1, <1>2, <1>3 DEF VouchInv, TypeOK, Heads, ForcedGray, Cooled
<1>9. (\A h \in Heads : h > head => ~verdicts[h].known /\ ~verdicts[h].ok)'
  BY <1>1, <1>3 DEF VouchInv, TypeOK, Heads
<1> QED
  BY <1>5, <1>6, <1>7, <1>8, <1>9 DEF VouchInv

(* The check and the classification it leads to. *)
LEMMA CheckKeepsVouching ==
  ASSUME CooldownInv, Check
  PROVE  VouchInv'
<1> DEFINE commit == sync.head
<1>1. /\ TypeOK /\ VouchInv /\ commit \in Heads /\ commit <= head
      /\ UNCHANGED <<day, published, head, files, locks, gate>>
      /\ sync'.head = commit
      /\ sync'.verdict = (IF Changed THEN verdicts'[commit] ELSE NoVerdict)
  BY DEF CooldownInv, TypeOK, VouchInv, Check, Key, registry, pr
<1>2. \A v : Remember(commit, v) =>
        /\ verdicts'[commit] = v
        /\ \A h \in Heads : h # commit => verdicts'[h] = verdicts[h]
  BY <1>1 DEF Remember, Key, TypeOK
<1>3. /\ \A h \in Heads : h # commit => verdicts'[h] = verdicts[h]
      /\ Vouches(verdicts[commit], commit)'
  <2>1. CASE Uncheckable(commit) \/ ReadFails(commit)
    <3>1. Remember(commit, Verdict(FALSE, FALSE))
      BY <2>1 DEF Uncheckable, ReadFails
    <3>2. verdicts'[commit] = Verdict(FALSE, FALSE) /\ ~Verdict(FALSE, FALSE).ok
      BY <1>2, <3>1 DEF Verdict
    <3> QED
      BY <1>1, <1>2, <3>1, <3>2 DEF Vouches
  <2>2. CASE CheckLock(commit)
    <3>1. PICK docs : Remember(commit, CooldownVerdict(base, locks[commit], docs))
      BY <2>2 DEF CheckLock
    <3>2. /\ verdicts'[commit].against = base
          /\ verdicts'[commit].ok = CooldownVerdict(base, locks[commit], docs).ok
      <4>1. verdicts'[commit] = CooldownVerdict(base, locks[commit], docs)
        BY <1>2, <3>1
      <4>2. CooldownVerdict(base, locks[commit], docs).against = base
        BY DEF CooldownVerdict, Verdict
      <4> QED
        BY <4>1, <4>2
    <3>3. base \in Locks /\ locks[commit] \in Locks
      BY <1>1 DEF TypeOK
    <3>4. verdicts'[commit].ok => HeldBack(base, locks[commit], published, day)
      BY <1>1, <3>2, <3>3, CheckVouches
    <3> QED
      BY <1>1, <1>2, <2>2, <3>1, <3>2, <3>4 DEF CheckLock, Vouches
  <2>3. CASE UNCHANGED <<memory, spoiled, faults>>
    BY <1>1, <2>3 DEF memory, Vouches, VouchInv
  <2> QED
    BY <2>1, <2>2, <2>3 DEF Check
<1>4. \A h \in Heads : Vouches(verdicts[h], h)'
  BY <1>1, <1>3 DEF VouchInv, Vouches
<1>5. Vouches(sync.verdict, sync.head)'
  BY <1>1, <1>3 DEF Vouches, NoVerdict
<1>6. (gate.classified => Vouches(gate.verdict, gate.of)
                          /\ gate.forced = ForcedGray(files[gate.of], gate.verdict))'
  BY <1>1 DEF VouchInv, Vouches, ForcedGray, Cooled
<1>7. (\A h \in Heads : h > head => ~verdicts[h].known /\ ~verdicts[h].ok)'
  BY <1>1, <1>3 DEF VouchInv, Heads, TypeOK
<1> QED
  BY <1>1, <1>4, <1>5, <1>6, <1>7 DEF VouchInv

LEMMA BridgeVouches ==
  ASSUME CooldownInv, Bridge \/ Classify \/ Restart
  PROVE  VouchInv'
<1>1. TypeOK /\ VouchInv /\ head \in Nat
  BY DEF CooldownInv, TypeOK, Heads
<1>2. CASE View
  <2>1. /\ sync'.head = head /\ ~sync'.verdict.ok
        /\ UNCHANGED <<day, published, head, files, locks, verdicts, gate>>
    BY <1>2 DEF View, NoVerdict, registry, pr, memory
  <2>2. (sync.head <= head /\ Vouches(sync.verdict, sync.head))'
    BY <1>1, <2>1 DEF Vouches
  <2>3. (\A h \in Heads : Vouches(verdicts[h], h))'
    BY <1>1, <2>1 DEF VouchInv, Vouches
  <2>4. (gate.classified => Vouches(gate.verdict, gate.of)
                            /\ gate.forced = ForcedGray(files[gate.of], gate.verdict))'
    BY <1>1, <2>1 DEF VouchInv, Vouches, ForcedGray, Cooled
  <2> QED
    BY <1>1, <2>1, <2>2, <2>3, <2>4 DEF VouchInv
<1>3. CASE Check
  BY <1>3, CheckKeepsVouching
<1>4. CASE Classify
  BY <1>1, <1>4 DEF VouchInv, Vouches, Classify, ForcedGray, Cooled, registry, pr, memory
<1>5. CASE Restart
  <2>1. \A h \in Heads : ~verdicts'[h].known /\ ~verdicts'[h].ok
    BY <1>5 DEF Restart, NoVerdict
  <2>2. sync'.head = sync.head /\ sync'.verdict = sync.verdict
    BY <1>1, <1>5 DEF Restart, TypeOK
  <2> QED
    BY <1>1, <1>5, <2>1, <2>2 DEF VouchInv, Vouches, Restart, ForcedGray, Cooled, registry, pr
<1> QED
  BY <1>2, <1>3, <1>4, <1>5 DEF Bridge

(* No change to the dependencies is let through without a human unless its    *)
(* lockfile is part of it and every version it adds has been public for its   *)
(* cooldown, for any packages, releases, windows and number of commits.       *)
THEOREM OnlyAgedIsCleared == Spec => []OnlyAgedClears
<1>1. ASSUME CooldownInv, [Next]_vars PROVE VouchInv'
  <2>1. CASE UNCHANGED vars
    BY <1>1, <2>1 DEF vars, registry, pr, memory, CooldownInv, VouchInv, Vouches, ForcedGray, Cooled
  <2> QED
    BY <1>1, <2>1, OutsideVouches, BridgeVouches DEF Next
<1>2. ASSUME VouchInv, TypeOK PROVE OnlyAgedClears
  <2> SUFFICES ASSUME gate.classified, ~gate.forced, files[gate.of] \cap DependencyFiles # {}
               PROVE  /\ "package-lock.json" \in files[gate.of]
                      /\ "other-lockfile" \notin files[gate.of]
                      /\ HeldBack(gate.verdict.against, locks[gate.of], published, day)
    BY DEF OnlyAgedClears
  <2>1. gate.verdict.ok /\ files[gate.of] \cap Lockfiles # {}
    BY <1>2 DEF VouchInv, ForcedGray, Cooled
  <2>2. "other-lockfile" \notin files[gate.of] /\ HeldBack(gate.verdict.against, locks[gate.of], published, day)
    BY <1>2, <2>1 DEF VouchInv, Vouches
  <2> QED
    BY <2>1, <2>2 DEF Lockfiles
<1> QED
  BY <1>1, <1>2, InitVouches, CooldownTypeCorrect, PTL DEF Spec, CooldownInv
=============================================================================
