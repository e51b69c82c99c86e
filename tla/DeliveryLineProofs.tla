-------------------------- MODULE DeliveryLineProofs --------------------------
(***************************************************************************)
(* The delivery line's own promises, for any number of phases and any set  *)
(* of pull requests.                                                       *)
(*                                                                         *)
(* StationsInOrder is not inductive: what may follow REVIEW_LOOP depends   *)
(* on how the line got there.  StationsEarned says what each station a     *)
(* step may start from presupposes.                                        *)
(***************************************************************************)
EXTENDS DeliveryLine, TLAPS

Stations == {"DRAFT", "GENESIS", "BUILD", "REVIEW_LOOP", "ASSESS", "DEPLOY_DEV", "MAINTAIN",
             "NEEDS_HUMAN"}

LineType ==
  /\ station \in Stations
  /\ phase \in 0..LastPhase
  /\ closedBy \in [0..LastPhase -> Prs \cup {0}]
  /\ founded \in BOOLEAN /\ assessed \in BOOLEAN /\ delivered \in BOOLEAN

StationsEarned ==
  /\ station \in {"BUILD", "REVIEW_LOOP"} => founded
  /\ station = "MAINTAIN" => assessed

LineInv == LineType /\ OnePrPerPhase /\ StationsInOrder /\ StationsEarned

USE DEF LineAssumption, LastPhase

(* An empty line closed nothing. *)
LEMMA NothingClosedAtFirst == ASSUME LineAssumption, Init PROVE LineInv
<1>1. LineType
  <2>1. station \in Stations
    BY DEF Init, Stations
  <2>2. phase \in 0..LastPhase
    BY DEF Init
  <2>3. closedBy \in [0..LastPhase -> Prs \cup {0}]
    BY DEF Init
  <2> QED
    BY <2>1, <2>2, <2>3 DEF Init, LineType
<1>2. \A k \in 0..LastPhase : closedBy[k] = 0
  BY DEF Init
<1>3. LastPhase \in 0..LastPhase /\ phase = 0
  BY DEF Init
<1>4. ~AllClosed
  BY <1>2, <1>3 DEF AllClosed
<1>5. OnePrPerPhase
  BY <1>2, <1>3 DEF OnePrPerPhase
<1>6. StationsInOrder /\ StationsEarned
  BY <1>4 DEF Init, StationsInOrder, StationsEarned
<1> QED
  BY <1>1, <1>5, <1>6 DEF LineInv

(* Closing the current phase with a pull request that closed no earlier one. *)
LEMMA CloseKeepsOrder ==
  ASSUME LineAssumption, LineType, OnePrPerPhase, NEW p \in Prs, Close(p)
  PROVE  /\ closedBy' \in [0..LastPhase -> Prs \cup {0}]
         /\ closedBy'[phase] = p /\ p # 0
         /\ \A k \in 0..LastPhase : k # phase => closedBy'[k] = closedBy[k]
         /\ \A j, k \in 0..phase : closedBy'[j] # 0 /\ closedBy'[j] = closedBy'[k] => j = k
<1>1. /\ closedBy' \in [0..LastPhase -> Prs \cup {0}]
      /\ closedBy'[phase] = p /\ p # 0
      /\ \A k \in 0..LastPhase : k # phase => closedBy'[k] = closedBy[k]
  BY DEF LineType, Close
<1>2. \A k \in 0..phase : k # phase => closedBy'[k] # p
  BY <1>1 DEF LineType, Close
<1>3. ASSUME NEW j \in 0..phase, NEW k \in 0..phase,
             closedBy'[j] # 0, closedBy'[j] = closedBy'[k]
      PROVE  j = k
  <2>1. CASE j = phase
    BY <1>1, <1>2, <1>3, <2>1
  <2>2. CASE k = phase
    BY <1>1, <1>2, <1>3, <2>2
  <2>3. CASE j # phase /\ k # phase
    BY <1>1, <1>3, <2>3 DEF LineType, OnePrPerPhase
  <2> QED
    BY <2>1, <2>2, <2>3
<1> QED
  BY <1>1, <1>3

LEMMA NextPhaseKeeps == ASSUME LineAssumption, LineInv, NEW p \in Prs, NextPhase(p) PROVE LineInv'
<1>1. /\ LineType /\ OnePrPerPhase /\ Close(p)
      /\ station = "REVIEW_LOOP" /\ station' = "BUILD"
      /\ phase < LastPhase /\ phase' = phase + 1
      /\ UNCHANGED <<founded, assessed, delivered>>
  BY DEF LineInv, NextPhase, Move
<1>2. /\ closedBy' \in [0..LastPhase -> Prs \cup {0}]
      /\ closedBy'[phase] = p /\ p # 0
      /\ \A k \in 0..LastPhase : k # phase => closedBy'[k] = closedBy[k]
      /\ \A j, k \in 0..phase : closedBy'[j] # 0 /\ closedBy'[j] = closedBy'[k] => j = k
  BY <1>1, CloseKeepsOrder
<1>3. LineType'
  BY <1>1, <1>2 DEF LineType, Stations
<1>4. \A k \in 0..LastPhase : k > phase => closedBy'[k] = 0
  BY <1>1, <1>2 DEF LineType, OnePrPerPhase
<1>5. OnePrPerPhase'
  <2>1. \A j, k \in 0..phase' : closedBy'[j] # 0 /\ closedBy'[j] = closedBy'[k] => j = k
    BY <1>1, <1>2, <1>4 DEF LineType
  <2>2. \A k \in 0..LastPhase : k < phase' => closedBy'[k] # 0
    BY <1>1, <1>2 DEF LineType, OnePrPerPhase
  <2> QED
    BY <2>1, <2>2, <1>1, <1>4 DEF OnePrPerPhase, LineType
<1>6. ~assessed /\ ~delivered /\ ~AllClosed'
  BY <1>1, <1>4 DEF LineInv, LineType, StationsInOrder, AllClosed
<1> QED
  BY <1>1, <1>3, <1>5, <1>6 DEF LineInv, StationsInOrder, StationsEarned

LEMMA AllPhasesMergedKeeps == ASSUME LineAssumption, LineInv, NEW p \in Prs, AllPhasesMerged(p) PROVE LineInv'
<1>1. /\ LineType /\ OnePrPerPhase /\ Close(p)
      /\ station = "REVIEW_LOOP" /\ station' = "ASSESS"
      /\ phase = LastPhase /\ ~assessed
      /\ UNCHANGED <<phase, founded, assessed, delivered>>
  BY DEF LineInv, AllPhasesMerged, Move
<1>2. /\ closedBy' \in [0..LastPhase -> Prs \cup {0}]
      /\ closedBy'[phase] = p /\ p # 0
      /\ \A k \in 0..LastPhase : k # phase => closedBy'[k] = closedBy[k]
      /\ \A j, k \in 0..phase : closedBy'[j] # 0 /\ closedBy'[j] = closedBy'[k] => j = k
  BY <1>1, CloseKeepsOrder
<1>3. LineType'
  BY <1>1, <1>2 DEF LineType, Stations
<1>4. OnePrPerPhase'
  BY <1>1, <1>2 DEF LineType, OnePrPerPhase
<1>5. AllClosed' /\ founded' /\ ~delivered'
  BY <1>1, <1>2 DEF LineInv, StationsEarned, StationsInOrder, AllClosed
<1> QED
  BY <1>1, <1>3, <1>4, <1>5 DEF LineInv, StationsInOrder, StationsEarned

(* The steps that close no phase. *)
LEMMA OtherStepsKeep ==
  ASSUME LineAssumption, LineInv, UNCHANGED <<phase, closedBy>>,
         \/ Start \/ Found \/ HandOff \/ MaintenanceMerged \/ Assess \/ Deploy
         \/ Release \/ Stop \/ Resume
  PROVE  LineInv'
<1>1. OnePrPerPhase' /\ (AllClosed' <=> AllClosed)
  BY DEF LineInv, OnePrPerPhase, AllClosed
<1>2. LineType'
  BY DEF LineInv, LineType, Stations, Start, Found, HandOff, MaintenanceMerged, Assess, Deploy,
         Release, Stop, Resume, Reached, Move
<1>3. StationsInOrder'
  BY <1>1 DEF LineInv, LineType, StationsInOrder, StationsEarned, Start, Found, HandOff,
              MaintenanceMerged, Assess, Deploy, Release, Stop, Resume, Reached, Move
<1>4. StationsEarned'
  BY <1>1 DEF LineInv, LineType, StationsInOrder, StationsEarned, Start, Found, HandOff,
              MaintenanceMerged, Assess, Deploy, Release, Stop, Resume, Reached, Move
<1> QED
  BY <1>1, <1>2, <1>3, <1>4 DEF LineInv

LEMMA LineInvInductive == ASSUME LineAssumption, LineInv, [Next]_vars PROVE LineInv'
<1>1. CASE \E p \in Prs : NextPhase(p)
  BY <1>1, NextPhaseKeeps
<1>2. CASE \E p \in Prs : AllPhasesMerged(p)
  BY <1>2, AllPhasesMergedKeeps
<1>3. ASSUME \/ Start \/ Found \/ HandOff \/ MaintenanceMerged \/ Assess \/ Deploy
             \/ Release \/ Stop \/ Resume
      PROVE  LineInv'
  <2>1. UNCHANGED <<phase, closedBy>>
    BY <1>3 DEF Start, Found, HandOff, MaintenanceMerged, Assess, Deploy, Release, Stop, Resume
  <2> QED
    BY <1>3, <2>1, OtherStepsKeep
<1>4. CASE UNCHANGED vars
  BY <1>4 DEF vars, LineInv, LineType, OnePrPerPhase, StationsInOrder, StationsEarned, AllClosed
<1> QED
  BY <1>1, <1>2, <1>3, <1>4 DEF Next

LEMMA LineInvHolds == ASSUME LineAssumption PROVE Spec => []LineInv
<1>1. Init => LineInv
  BY NothingClosedAtFirst
<1>2. LineInv /\ [Next]_vars => LineInv'
  BY LineInvInductive
<1> QED
  BY <1>1, <1>2, PTL DEF Spec

(* One pull request closes one phase, in order, for any number of phases.    *)
THEOREM PhasesCloseInOrder == ASSUME LineAssumption PROVE Spec => []OnePrPerPhase
<1>1. LineInv => OnePrPerPhase
  BY DEF LineInv
<1> QED
  BY <1>1, LineInvHolds, PTL

(* No deployment without an assessment, no assessment before every phase has *)
(* merged, whatever the stops and resumes.                                   *)
THEOREM StationsComeInOrder == ASSUME LineAssumption PROVE Spec => []StationsInOrder
<1>1. LineInv => StationsInOrder
  BY DEF LineInv
<1> QED
  BY <1>1, LineInvHolds, PTL
=============================================================================
