-------------------------- MODULE TargetLifecycle --------------------------
(***************************************************************************)
(* What a run promises about its targets: the lifecycle of the states      *)
(* named in orchestrator/batch_protocol.py.  A target is requested once,   *)
(* its patch is applied once and tested once per request, it is sent to    *)
(* repair at most MaxRepairRounds times and only after a failure, and a    *)
(* terminal state ends its life.  Targets move independently: one step may *)
(* move several of them (a test run classifies all it ran).  A new run     *)
(* begins a new life for all.                                              *)
(***************************************************************************)
EXTENDS Integers

CONSTANTS Target, MaxRepairRounds

VARIABLES
  status,   (* each target's state in the manifest of the current run       *)
  rounds    (* the repair requests it was part of                           *)

lifecycle == <<status, rounds>>

Failed == {"COMPILE_FAILED", "TEST_FAILED", "PATCH_FAILED"}

Unborn ==
  /\ status = [t \in Target |-> "ABSENT"]
  /\ rounds = [t \in Target |-> 0]

Become(t, from, to) ==
  /\ status[t] \in from
  /\ status'[t] \in to
  /\ rounds'[t] = rounds[t]

Request(t) == Become(t, {"ABSENT"}, {"GENERATION_REQUESTED"})

Answer(t) ==
  Become(t, {"GENERATION_REQUESTED"}, {"SKIPPED", "GENERATION_FAILED", "GENERATED"})

Patch(t) == Become(t, {"GENERATED"}, {"APPLIED", "PATCH_FAILED"})

Test(t) ==
  Become(t, {"APPLIED", "REPAIRED"}, {"PASSED", "COMPILE_FAILED", "TEST_FAILED"})

AskRepair(t) ==
  /\ status[t] \in Failed /\ rounds[t] < MaxRepairRounds
  /\ status'[t] = "REPAIR_REQUESTED"
  /\ rounds'[t] = rounds[t] + 1

Repatch(t) == Become(t, {"REPAIR_REQUESTED"}, {"REPAIRED", "PATCH_FAILED"})

Abandon(t) == Become(t, Failed \cup {"REPAIR_REQUESTED"}, {"ABANDONED"})

Live(t) ==
  \/ Request(t) \/ Answer(t) \/ Patch(t) \/ Test(t)
  \/ AskRepair(t) \/ Repatch(t) \/ Abandon(t)

Rest(t) == status'[t] = status[t] /\ rounds'[t] = rounds[t]

NewRun == Unborn'

LifeNext == NewRun \/ \A t \in Target : Live(t) \/ Rest(t)

LifeSpec == Unborn /\ [][LifeNext]_lifecycle
=============================================================================
