------------------------- MODULE DependencyCooldown -------------------------
(***************************************************************************)
(* When a dependency change may merge without a human: the bridge checks   *)
(* the lockfile of a pull request against the one of its base, dates every *)
(* version it adds by the npm registry, remembers both answers, and        *)
(* reports the verdict, from which the control plane decides whether the   *)
(* change is forced gray.                                                  *)
(*                                                                         *)
(* ReviewHold reads the classification as one Boolean of its gate row;     *)
(* this module computes it.  Versions are numbers, the major one their     *)
(* tens; days stand for the registry's timestamps.                         *)
(***************************************************************************)
EXTENDS Naturals, FiniteSets

CONSTANTS
  Packages, Places,     \* a lockfile has an entry per package and place in the tree
  Releases,             \* the versions of a package, 10 * major + minor
  OldReleases, Foreign, \* those that are public from the start; those offered elsewhere too
  MinDays, MajorDays,   \* the cooldown, and that of another major version
  MaxDays, MaxPushes, MaxFaults,   \* bounds on time, pushes and disturbances
  Happens               \* the kinds of disturbances

Events == {"base-moves", "read-fails", "registry-fails", "restart"}

ASSUME CooldownAssumption ==
  /\ Releases \subseteq Nat \ {0} /\ OldReleases \subseteq Releases /\ Foreign \subseteq Releases
  /\ MinDays \in Nat /\ MajorDays \in Nat /\ MinDays <= MajorDays
  /\ MaxDays \in Nat /\ MaxPushes \in Nat /\ MaxFaults \in Nat
  /\ Happens \subseteq Events

VARIABLES
  \* the registry: the day, and when each version goes public
  day, published,
  \* GitHub: the base's lockfile, the pull request's newest commit, what each of its
  \* commits changes and locks
  base, head, files, locks,
  \* the bridge's memory: registry documents by package, verdicts by commit
  documents, verdicts,
  \* its pass over the pull request, up to the classification it schedules
  sync,
  \* the gate row's classification, and (history) the verdict it came from
  gate,
  \* history: commits judged while something stood in their way, faults spent
  spoiled, faults

registry == <<day, published>>
pr == <<head, files, locks>>
memory == <<documents, verdicts>>
vars == <<registry, base, pr, memory, sync, gate, spoiled, faults>>

Days == 0..MaxDays
Heads == 0..MaxPushes
Versions == Packages \X Releases
Locations == Packages \X Places

(* A lockfile entry, from the registry or not; links, which have no version,  *)
(* are left out.  A lockfile of version 1 has no entries to read.             *)
Entry(releases, from) == [release : releases, from : {from}]
Absent == [release |-> 0, from |-> "none"]
Entries == {Absent} \cup Entry(Releases, "registry") \cup Entry(Foreign, "elsewhere")
Locks == [supported : BOOLEAN, at : [Locations -> Entries]]
Readable(at) == [supported |-> TRUE, at |-> at]
Unsupported == [supported |-> FALSE, at |-> [l \in Locations |-> Absent]]

(* What a commit changes: other-lockfile stands for a lockfile of another     *)
(* package manager or of a directory below, sensitive for a path or a label   *)
(* that forces gray.                                                          *)
Files == {"package.json", "package-lock.json", "other-lockfile", "sensitive"}
Lockfiles == {"package-lock.json", "other-lockfile"}
DependencyFiles == Lockfiles \cup {"package.json"}

(* A registry document dates the versions public on the day it was read. *)
Documents == [state : {"none", "failed", "read"}, on : Days]
Unread == [state |-> "none", on |-> 0]

(* known is FALSE where the bridge sent no verdict.  against is history.      *)
Verdicts == [known : BOOLEAN, ok : BOOLEAN, checked : BOOLEAN, against : Locks]
Verdict(ok, checked) == [known |-> TRUE, ok |-> ok, checked |-> checked, against |-> base]
NoVerdict == [known |-> FALSE, ok |-> FALSE, checked |-> FALSE, against |-> Unsupported]

Fault(kind) == kind \in Happens /\ faults < MaxFaults /\ faults' = faults + 1

-----------------------------------------------------------------------------
(* The check of a lockfile *)

Major(release) == release \div 10
Has(lock, package, release) == \E place \in Places : lock.at[<<package, place>>].release = release

(* addedVersions: a version the base has anywhere is not new. *)
Added(from, to) ==
  {l \in Locations : to.at[l].release # 0 /\ ~Has(from, l[1], to.at[l].release)}

(* The longer window where the entry replaces another major version.          *)
RequiredDays(from, to, l) ==
  IF from.at[l] # Absent /\ Major(from.at[l].release) # Major(to.at[l].release)
    THEN MajorDays ELSE MinDays

Dated(docs, l, release) ==
  docs[l[1]].state = "read" /\ published[<<l[1], release>>] <= docs[l[1]].on

OldEnough(on, required) == published[on] + required <= day

(* Only two readable lockfiles are compared, and only what comes from the     *)
(* registry can be dated.                                                     *)
Dateable(from, to) ==
  {l \in Added(from, to) : from.supported /\ to.supported /\ to.at[l].from = "registry"}
CooldownVerdict(from, to, docs) ==
  Verdict(/\ from.supported /\ to.supported
          /\ \A l \in Added(from, to) :
               /\ to.at[l].from = "registry"
               /\ Dated(docs, l, to.at[l].release)
               /\ OldEnough(<<l[1], to.at[l].release>>, RequiredDays(from, to, l)),
          Dateable(from, to) # {})

(* registryPublishedAt: a document is read once, and a failure is remembered  *)
(* as well.                                                                   *)
Reads(package) ==
  {[state |-> "read", on |-> day]}
    \cup {[state |-> "failed", on |-> day] : e \in Happens \cap {"registry-fails"}}
Fetched(packages) ==
  {docs \in [Packages -> Documents] :
     \A p \in Packages : IF p \in packages /\ documents[p].state = "none"
                           THEN docs[p] \in Reads(p) ELSE docs[p] = documents[p]}

(* classifyForcedGray *)
CooledByVerdict(changed, verdict) == verdict.ok   \* mutant of Cooled
Cooled(changed, verdict) == verdict.ok /\ verdict.checked /\ changed \cap Lockfiles # {}
ForcedGray(changed, verdict) ==
  \/ "sensitive" \in changed
  \/ changed \cap DependencyFiles # {} /\ ~Cooled(changed, verdict)
  \/ verdict.known /\ ~verdict.ok

-----------------------------------------------------------------------------
(* A change of one entry, and the upgrade of one to a recent release. *)
Changes(lock) ==
  {Unsupported} \cup {[lock EXCEPT !.at[l] = entry] : l \in Locations, entry \in Entries}
Upgrades(lock) ==
  {[lock EXCEPT !.at[l] = entry] : l \in Locations, entry \in Entry(Releases \ OldReleases, "registry")}

(* The pull request opens on a base of versions published long before it, and *)
(* changes one entry; of the other kinds of files at most one.                *)
Init ==
  /\ day = 0
  /\ published \in {on \in [Versions -> Days] : \A v \in Packages \X OldReleases : on[v] = 0}
  /\ base \in {Readable(at) : at \in [Locations -> {Absent} \cup Entry(OldReleases, "registry")]}
  /\ head = 0
  /\ \E lock \in Changes(base), changed \in SUBSET Files :
       /\ Cardinality(changed \ {"package-lock.json"}) <= 1
       /\ "package-lock.json" \in changed <=> lock # base
       /\ locks = [h \in Heads |-> lock] /\ files = [h \in Heads |-> changed]
  /\ documents = [p \in Packages |-> Unread]
  /\ verdicts = [h \in Heads |-> NoVerdict]
  /\ sync = [on |-> "idle", head |-> 0, verdict |-> NoVerdict]
  /\ gate = [classified |-> FALSE, of |-> 0, forced |-> FALSE, verdict |-> NoVerdict]
  /\ spoiled = {} /\ faults = 0

-----------------------------------------------------------------------------
(* The property's own words for what the check computes: a location whose     *)
(* version its base has nowhere, and a change all of whose versions have been *)
(* public long enough, going by their dates of publication.                   *)
News(from, to) ==
  {l \in Locations : to.at[l].release # 0
                     /\ \A k \in Locations : k[1] = l[1] => from.at[k].release # to.at[l].release}
PublicFor(date, days, today) == date <= today /\ today - date >= days
HeldBack(from, to, dates, today) ==
  /\ from.supported /\ to.supported
  /\ \A l \in News(from, to) :
       /\ to.at[l].from = "registry"
       /\ PublicFor(dates[<<l[1], to.at[l].release>>], MinDays, today)
       /\ \/ from.at[l] = Absent
          \/ Major(from.at[l].release) = Major(to.at[l].release)
          \/ PublicFor(dates[<<l[1], to.at[l].release>>], MajorDays, today)
AllDated(docs, from, to) == \A l \in News(from, to) : Dated(docs, l, to.at[l].release)

-----------------------------------------------------------------------------
(* Time and GitHub *)

DayPasses ==
  /\ day < MaxDays /\ day' = day + 1
  /\ UNCHANGED <<published, base, pr, memory, sync, gate, spoiled, faults>>

(* A commit on the pull request, on top of what it changed so far: one more   *)
(* upgrade.                                                                   *)
Push ==
  /\ head < MaxPushes /\ head' = head + 1
  /\ \E lock \in Upgrades(locks[head]) : locks' = [locks EXCEPT ![head'] = lock]
  /\ files' = [files EXCEPT ![head'] = files[head] \cup {"package-lock.json"}]
  /\ UNCHANGED <<registry, base, memory, sync, gate, spoiled, faults>>

(* Another pull request's upgrade merges. *)
BaseMoves ==
  /\ Fault("base-moves")
  /\ base' \in Upgrades(base)
  /\ UNCHANGED <<registry, pr, memory, sync, gate, spoiled>>

-----------------------------------------------------------------------------
(* The bridge *)

(* syncGates reads the pull request. *)
View ==
  /\ sync.on = "idle"
  /\ sync' = [on |-> "viewed", head |-> head, verdict |-> NoVerdict]
  /\ UNCHANGED <<registry, base, pr, memory, gate, spoiled, faults>>

(* What a verdict is remembered under. *)
KeyOfPr(commit) == 0   \* mutant of Key: the pull request
Key(commit) == commit

Remember(commit, verdict) == verdicts' = [verdicts EXCEPT ![Key(commit)] = verdict]
Spoil(commit, fine) == spoiled' = IF fine THEN spoiled ELSE spoiled \cup {commit}

(* A lockfile is read from GitHub, or not, and that is remembered too. *)
Uncheckable(commit) ==
  /\ "other-lockfile" \in files[commit]
  /\ Remember(commit, Verdict(FALSE, FALSE))
  /\ UNCHANGED <<documents, faults>> /\ Spoil(commit, FALSE)
ReadFails(commit) ==
  /\ "other-lockfile" \notin files[commit]
  /\ Fault("read-fails")
  /\ Remember(commit, Verdict(FALSE, FALSE))
  /\ UNCHANGED documents /\ Spoil(commit, FALSE)
CheckLock(commit) ==
  /\ "other-lockfile" \notin files[commit]
  /\ \E docs \in Fetched({l[1] : l \in Dateable(base, locks[commit])}) :
       /\ documents' = docs
       /\ Remember(commit, CooldownVerdict(base, locks[commit], docs))
       /\ Spoil(commit, /\ News(base, locks[commit]) # {}
                        /\ HeldBack(base, locks[commit], published, day)
                        /\ AllDated(docs, base, locks[commit]))
  /\ UNCHANGED faults

Changed == files[sync.head] \cap DependencyFiles # {}

(* dependencyCooldown, then gateSync, which schedules gates.classify. *)
Check ==
  /\ sync.on = "viewed"
  /\ IF Changed /\ ~verdicts[Key(sync.head)].known
       THEN Uncheckable(sync.head) \/ ReadFails(sync.head) \/ CheckLock(sync.head)
       ELSE UNCHANGED <<memory, spoiled, faults>>
  /\ sync' = [sync EXCEPT !.on = "reported",
                          !.verdict = IF Changed THEN verdicts'[Key(sync.head)] ELSE NoVerdict]
  /\ UNCHANGED <<registry, base, pr, gate>>

(* gates.classify *)
Classify ==
  /\ sync.on = "reported"
  /\ gate' = [classified |-> TRUE, of |-> sync.head, verdict |-> sync.verdict,
              forced |-> ForcedGray(files[sync.head], sync.verdict)]
  /\ sync' = [sync EXCEPT !.on = "idle"]
  /\ UNCHANGED <<registry, base, pr, memory, spoiled, faults>>

(* The bridge's memory goes with it; a scheduled classification stays. *)
Restart ==
  /\ Fault("restart")
  /\ documents' = [p \in Packages |-> Unread]
  /\ verdicts' = [h \in Heads |-> NoVerdict] /\ spoiled' = {}
  /\ sync' = IF sync.on = "viewed" THEN [sync EXCEPT !.on = "idle"] ELSE sync
  /\ UNCHANGED <<registry, base, pr, gate>>

Bridge == View \/ Check
Next == DayPasses \/ Push \/ BaseMoves \/ Bridge \/ Classify \/ Restart

Spec == Init /\ [][Next]_vars

(* The bridge's loop comes round, and Convex runs what is scheduled. *)
Fairness == WF_vars(Bridge) /\ WF_vars(Classify)
FairSpec == Spec /\ Fairness

-----------------------------------------------------------------------------
(* Properties *)

TypeOK ==
  /\ day \in Days /\ published \in [Versions -> Days]
  /\ base \in Locks
  /\ head \in Heads
  /\ files \in [Heads -> SUBSET Files] /\ locks \in [Heads -> Locks]
  /\ documents \in [Packages -> Documents] /\ verdicts \in [Heads -> Verdicts]
  /\ sync \in [on : {"idle", "viewed", "reported"}, head : Heads, verdict : Verdicts]
  /\ gate \in [classified : BOOLEAN, of : Heads, forced : BOOLEAN, verdict : Verdicts]
  /\ spoiled \subseteq Heads /\ faults \in 0..MaxFaults

(* A dependency change is only let through without a human when its lockfile  *)
(* is part of it and every version it adds comes from the registry and has    *)
(* been public for its cooldown, whatever was remembered from earlier commits *)
(* and earlier days (dependencyCooldown, classifyForcedGray).                 *)
OnlyAgedClears ==
  gate.classified /\ ~gate.forced /\ files[gate.of] \cap DependencyFiles # {}
    => /\ "package-lock.json" \in files[gate.of] /\ "other-lockfile" \notin files[gate.of]
       /\ HeldBack(gate.verdict.against, locks[gate.of], published, day)

(* What stands in the way of a change that has aged: a path, a label, a       *)
(* verdict or a registry document remembered from an earlier day.             *)
Clearable ==
  /\ head \notin spoiled
  /\ "package-lock.json" \in files[head] /\ files[head] \subseteq {"package.json", "package-lock.json"}
  /\ News(base, locks[head]) # {} /\ HeldBack(base, locks[head], published, day)
  /\ \A l \in News(base, locks[head]) :
       documents[l[1]].state = "none" \/ Dated(documents, l, locks[head].at[l].release)

(* A change whose versions have all aged when the bridge first checks it is   *)
(* let through without the dependency holding it (dependency-cooldown.mjs).   *)
AgedClears == Clearable ~> (gate.classified /\ gate.of = head /\ ~gate.forced) \/ ~Clearable
=============================================================================
