-------------------------- MODULE BatchProperties --------------------------
(***************************************************************************)
(* What a batch run is supposed to do, over the states of BatchRun.        *)
(***************************************************************************)
EXTENDS BatchRun

Running == pc # "off"
Waiting == pc \in {"generation wait", "repair wait"}

(* A batch is over when run_batches is back at the top of its loop, or has *)
(* left it for good at its end.                                            *)
BetweenBatches == pc = "select" \/ exit = "done"

-----------------------------------------------------------------------------
(* Safety.                                                                 *)

(* While a process runs, the ids it will not select again are exactly the  *)
(* ids on disk: processed.add and mark_processed never come apart, so a    *)
(* process that dies between two steps forgets nothing it relied on.       *)
MemoryMatchesDisk == Running => seen = done

(* A run that ends "done" and was not stopped by --max-batches has every   *)
(* target of the plan in processed-targets.json, whatever crashes, quits   *)
(* and budget stops earlier runs went through.                             *)
DoneRunIsComplete ==
  exit = "done" /\ batchNo < MaxBatches => Listed(Plan) \subseteq done

(* Repair rounds and the loop counter stay in step: whoever still fails at *)
(* the start of a round took part in all the rounds before it, so nobody   *)
(* is given up early by should_abandon and nobody gets a round too many.   *)
RoundsInStep ==
  /\ \A t \in Target : rounds[t] <= MaxRepairRounds
  /\ pc = "admission" => \A t \in failing_target_ids : rounds[t] = rnd - 1
  /\ pc = "repair wait" => \A t \in requested : rounds[t] = rnd

(* A patch that the patcher rejected always has a recorded rejection of    *)
(* its class when the repair request is built, so the request says more    *)
(* than a bare "patcher rc".  What is recorded of a patcher that was       *)
(* killed from outside may be an empty text; that is left out here.        *)
RejectionIsExplained ==
  \A t \in Target : st[t] = "PATCH_FAILED" => rejection[ClassOf[t]] # None

(* Whoever reads manifest.json while the driver waits for an answer, or    *)
(* after it ended by itself, reads the states the driver acts on.          *)
ManifestOnDisk ==
  Waiting \/ (pc = "off" /\ exit # "crash") =>
    saved = [status |-> runStatus, targets |-> st]

(* A batch that is over has no target in the middle of its life: each is   *)
(* terminal, or its generation failed, or (see RepairIsResolved) it waits  *)
(* for a repair that will not come.                                        *)
NothingLeftOpen ==
  BetweenBatches => \A t \in batch :
    st[t] \in TERMINAL_STATES \cup {"GENERATION_FAILED", "REPAIR_REQUESTED"}

(* A batch that is over is recorded, whichever way it ended: nothing to    *)
(* send, skipped, refused as a whole, or tested.  So the driver never      *)
(* takes its targets again, and comes to the end of the plan also when     *)
(* there is no --max-batches.                                              *)
BatchIsRecorded == BetweenBatches => batch \subseteq done

(* The brake: another batch follows a tested one only if at least half of  *)
(* its effective targets passed, or if it had a compile failure.           *)
TestedTargets == {t \in sendable : st[t] \in {"PASSED", "ABANDONED"}}
BrakeHolds ==
  pc = "select" /\ TestedTargets # {} =>
    hadCompile \/ 2 * Cardinality(PassedTargets) >= Cardinality(Effective)

-----------------------------------------------------------------------------
(* What a step may do.                                                     *)

(* A target that processed-targets.json lists is never requested again, by *)
(* this process or by a later one.                                         *)
NeverRequestedAgain ==
  [][\A t \in done : st'[t] = "GENERATION_REQUESTED" => st[t] = "GENERATION_REQUESTED"]_vars

(* Once a test run showed a target green, or it was skipped, no later step *)
(* of the run takes that back, not even a repair response that repeats     *)
(* items.                                                                  *)
GreenStaysGreen ==
  [][pc # "off" => \A t \in Target : st[t] \in {"PASSED", "SKIPPED"} => st'[t] = st[t]]_vars

(* When the test tree compiles, the verdict on a tested target is the      *)
(* truth about its class: PASSED exactly if no method of it fails.         *)
VerdictIsTrue ==
  [][maven /\ Compiles /\ pc \in {"test", "repair"} /\ pc' # pc /\ pc' # "off" =>
       \A t \in applied : (st'[t] = "PASSED") <=> Passes(ClassOf[t])]_vars

-----------------------------------------------------------------------------
(* Every target goes through the lifecycle of TargetLifecycle.           *)
Life == INSTANCE TargetLifecycle WITH status <- st
FollowsLifecycle == Life!LifeSpec

(* A started process ends: batches, repair rounds and waits are all finite.*)
RunEnds == Running ~> ~Running

-----------------------------------------------------------------------------
(* What the repository says of the run and the code does not do.  Each of  *)
(* these has a run of its own in which TLC finds it violated.              *)

(* A repair item answered "skipped" or "failed" may be retried next round  *)
(* or abandoned; anything still failing after the rounds is abandoned.  In *)
(* the code such a target stays REPAIR_REQUESTED, which is neither         *)
(* terminal nor repairable, and its batch is over.                         *)
RepairIsResolved ==
  BetweenBatches => \A t \in batch : st[t] # "REPAIR_REQUESTED"
=============================================================================
