---------------------------- MODULE DeliveryLine ----------------------------
(***************************************************************************)
(* What the stage state machine promises an operator, with no runs, no     *)
(* queues and no scheduler: one product moves along the line of stations   *)
(* of the design's section 4.3.  Each phase is closed by one pull request  *)
(* of its own, the stations come in order, and a stopped line resumes only *)
(* at a station it had already reached.                                    *)
(***************************************************************************)
EXTENDS Naturals

CONSTANTS NumPhases, Prs

(* What the constants must satisfy; the theorems about the line suppose it. *)
LineAssumption == NumPhases \in Nat \ {0} /\ 0 \notin Prs

VARIABLES
  station,    \* where the product is
  phase,      \* the phase being built, from 0
  closedBy,   \* the pull request that closed each phase, 0 for none yet
  founded,    \* genesis created the repository
  assessed,   \* an assessment was reached and judged
  delivered   \* a deployment was reached

vars == <<station, phase, closedBy, founded, assessed, delivered>>

LastPhase == NumPhases - 1
AllClosed == phase = LastPhase /\ closedBy[LastPhase] # 0

(* The stations a stopped line may resume at. *)
Reached ==
  {"GENESIS"}
    \cup {s \in {"BUILD", "REVIEW_LOOP"} : founded}
    \cup {s \in {"ASSESS"} : AllClosed}
    \cup {s \in {"DEPLOY_DEV", "MAINTAIN"} : assessed}

Move(from, to) == station = from /\ station' = to

Init ==
  /\ station = "DRAFT" /\ phase = 0 /\ closedBy = [k \in 0..LastPhase |-> 0]
  /\ founded = FALSE /\ assessed = FALSE /\ delivered = FALSE

Start == Move("DRAFT", "GENESIS") /\ UNCHANGED <<phase, closedBy, founded, assessed, delivered>>

Found ==
  /\ Move("GENESIS", "BUILD") /\ founded' = TRUE
  /\ UNCHANGED <<phase, closedBy, assessed, delivered>>

HandOff ==
  /\ \E s \in {"BUILD", "MAINTAIN"} : Move(s, "REVIEW_LOOP")
  /\ UNCHANGED <<phase, closedBy, founded, assessed, delivered>>

(* The merge of p closes the current phase; p closed no earlier one. *)
Close(p) ==
  /\ \A k \in 0..phase - 1 : closedBy[k] # p
  /\ closedBy' = [closedBy EXCEPT ![phase] = p]

NextPhase(p) ==
  /\ Move("REVIEW_LOOP", "BUILD") /\ phase < LastPhase
  /\ Close(p) /\ phase' = phase + 1
  /\ UNCHANGED <<founded, assessed, delivered>>

AllPhasesMerged(p) ==
  /\ Move("REVIEW_LOOP", "ASSESS") /\ phase = LastPhase /\ ~assessed
  /\ Close(p)
  /\ UNCHANGED <<phase, founded, assessed, delivered>>

MaintenanceMerged ==
  /\ Move("REVIEW_LOOP", "MAINTAIN") /\ assessed
  /\ UNCHANGED <<phase, closedBy, founded, assessed, delivered>>

Assess ==
  /\ Move("ASSESS", "DEPLOY_DEV") \/ Move("ASSESS", "NEEDS_HUMAN")
  /\ assessed' = TRUE
  /\ UNCHANGED <<phase, closedBy, founded, delivered>>

Deploy ==
  /\ Move("DEPLOY_DEV", "MAINTAIN") /\ delivered' = TRUE
  /\ UNCHANGED <<phase, closedBy, founded, assessed>>

Release ==
  /\ Move("MAINTAIN", "ASSESS")
  /\ UNCHANGED <<phase, closedBy, founded, assessed, delivered>>

Stop ==
  /\ station # "DRAFT" /\ station' = "NEEDS_HUMAN"
  /\ UNCHANGED <<phase, closedBy, founded, assessed, delivered>>

Resume ==
  /\ station = "NEEDS_HUMAN" /\ station' \in Reached
  /\ UNCHANGED <<phase, closedBy, founded, assessed, delivered>>

Next ==
  \/ Start \/ Found \/ HandOff
  \/ \E p \in Prs : NextPhase(p) \/ AllPhasesMerged(p)
  \/ MaintenanceMerged \/ Assess \/ Deploy \/ Release \/ Stop \/ Resume

Spec == Init /\ [][Next]_vars

-----------------------------------------------------------------------------
(* One pull request closes one phase, and the phases close in order: none    *)
(* but the current one and those before it is closed (stateMachine.ts,       *)
(* onPullRequestMerged).                                                     *)
OnePrPerPhase ==
  /\ \A j, k \in 0..phase : closedBy[j] # 0 /\ closedBy[j] = closedBy[k] => j = k
  /\ \A k \in 0..LastPhase : k < phase => closedBy[k] # 0
  /\ \A k \in 0..LastPhase : k > phase => closedBy[k] = 0

(* Whatever the stops and resumes, a product that was deployed was assessed  *)
(* first, and one that was assessed has every phase merged (the order of the *)
(* stages in stateMachine.ts, onRunCompleted).                               *)
StationsInOrder ==
  /\ delivered \/ station = "DEPLOY_DEV" => assessed
  /\ assessed \/ station = "ASSESS" => AllClosed
  /\ AllClosed => founded
=============================================================================
