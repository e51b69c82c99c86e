----------------------- MODULE StageMachineRefinement -----------------------
(* The stage state machine implements the delivery line: runs, effects,     *)
(* decisions and scheduled calls are hidden, the project row is mapped.     *)
EXTENDS StageMachine

Line == INSTANCE DeliveryLine WITH
          Prs <- 1..MaxPrs, station <- stage, phase <- phaseIndex,
          closedBy <- phasePr, founded <- hasRepo

(* Whatever the order of completions, retries, verdicts, effects, merge      *)
(* reports and unblocks, the project row moves along the delivery line, one  *)
(* pull request per phase (stateMachine.ts, gates.ts, decisions.ts).         *)
ImplementsDeliveryLine == Line!Spec
=============================================================================
