-------------------------- MODULE BatchLife_proofs --------------------------
(***************************************************************************)
(* The life of a target in a batch run, for every plan, batch size, number *)
(* of repair rounds and number of runs: which states the targets of the    *)
(* batch can have at each place of run_batches, and what follows from it.  *)
(***************************************************************************)
EXTENDS BatchRun_proofs

(* A round leaves whoever it does not deal with in one of these states.    *)
Resolved == TERMINAL_STATES \cup {"GENERATION_FAILED", "REPAIR_REQUESTED"}

(* A patch that is not to be tested.                                       *)
Untested == {"SKIPPED", "GENERATION_FAILED", "PATCH_FAILED"}

Requested == {"GENERATION_REQUESTED"}
Answered(t) == IF t \in applied THEN {"APPLIED"} ELSE Untested

(* The states a target of the request can have, by the place of the driver.*)
Expected(t) ==
  CASE pc = "generation wait" -> Requested
    [] pc = "skip"        -> IF t \in todo THEN Requested ELSE {"SKIPPED"}
    [] pc = "reject"      -> IF t \in todo THEN Requested ELSE {"GENERATION_FAILED"}
    [] pc = "hydrate"     -> IF t \in todo THEN Requested ELSE Answered(t)
    [] pc = "patch"       -> IF t \notin todo THEN Answered(t)
                             ELSE IF Turn(t) THEN {"GENERATED"} ELSE Requested
    [] pc = "test"        -> Answered(t)
    [] pc = "repair wait" -> IF t \in requested THEN {"REPAIR_REQUESTED"} ELSE Resolved
    [] pc = "repair"      -> IF t \notin requested THEN Resolved
                             ELSE {"REPAIR_REQUESTED", "ABANDONED", "PATCH_FAILED"}
                                  \cup (IF t \in applied THEN {"REPAIRED"} ELSE {})
    [] pc = "round end"   -> IF t \notin requested THEN Resolved
                             ELSE {"REPAIR_REQUESTED", "ABANDONED", "PASSED"} \cup REPAIRABLE_STATES
    [] pc \in {"admission", "close"} -> Resolved \cup REPAIRABLE_STATES
    [] pc = "mark"        -> Resolved
    [] OTHER              -> Status

Handling ==
  {"generation wait", "skip", "reject", "hydrate", "patch", "test", "admission",
   "repair wait", "repair", "round end", "close", "mark"}

(* Which sets of targets are parts of which.                               *)
Parts ==
  /\ batch \subseteq Listed(Plan) /\ sendable \subseteq batch /\ todo \subseteq batch
  /\ pc = "select" => todo = {}
  /\ pc = "preflight" => todo \cap sendable = {}
  /\ pc \in {"skip", "reject", "hydrate", "patch"} =>
       todo \subseteq sendable /\ applied \subseteq sendable \ todo
  /\ pc \in {"test", "admission"} => applied \subseteq sendable
  /\ pc \in {"repair wait", "repair", "round end"} => requested \subseteq sendable
  /\ pc \in {"repair", "round end"} => applied \subseteq requested

(* The targets of the request are in the expected states.                  *)
RequestLives == \A t \in sendable : st[t] \in Expected(t)

(* So are the others of the batch.                                         *)
BatchLives ==
  /\ pc = "preflight" => \A t \in batch :
       IF t \in todo \cup sendable THEN st[t] = "GENERATION_REQUESTED"
       ELSE st[t] = "SKIPPED" /\ t \in seen
  /\ pc \in Handling => \A t \in batch \ sendable : st[t] = "SKIPPED" /\ t \in seen
  /\ pc = "select" \/ exit = "done" => \A t \in batch : st[t] \in Resolved
  /\ exit = "done" => pc = "off"

(* Who was in a batch that is over is not selected again; who was in none   *)
(* has not begun to live.                                                  *)
OthersWait ==
  /\ pc \in {"skip", "reject"} => sendable \ todo \subseteq seen
  /\ pc = "mark" => batch \ todo \subseteq seen
  /\ pc = "select" => batch \subseteq seen
  /\ pc # "off" => \A t \in Target \ (batch \cup seen) : st[t] = "ABSENT" /\ rounds[t] = 0

(* The counter of a target and the counter of the loop.                    *)
Counted ==
  /\ \A t \in Target : rounds[t] <= MaxRepairRounds
  /\ pc \in {"preflight", "generation wait", "skip", "reject", "hydrate", "patch", "test"} =>
       \A t \in batch : rounds[t] = 0
  /\ pc \in {"admission", "repair wait", "repair", "round end"} => rnd >= 1
  /\ pc = "admission" => \A t \in sendable : st[t] \in REPAIRABLE_STATES => rounds[t] = rnd - 1
  /\ pc \in {"repair wait", "repair", "round end"} =>
       rnd <= MaxRepairRounds /\ \A t \in requested : rounds[t] = rnd

(* Without repeated items, who was not answered waits, and who is applied   *)
(* is repaired.                                                            *)
OnceEach ==
  pc = "repair" => \A t \in requested :
    /\ t \notin answered => st[t] = "REPAIR_REQUESTED"
    /\ t \in applied => st[t] = "REPAIRED"

LifeInv == Parts /\ RequestLives /\ BatchLives /\ OthersWait /\ Counted

-----------------------------------------------------------------------------
(* A batch is of the plan, and none of it was in a batch before.           *)
LEMMA BatchOfPlan ==
  /\ NextBatch \subseteq Listed(Plan) /\ NextBatch \subseteq Target
  /\ NextBatch \cap seen = {}
BY BatchIsPending DEF NextBatch, select_batch

(* The turn is one target's.                                               *)
LEMMA TurnIsOne ==
  ASSUME todo \subseteq Listed(Plan), NEW t, NEW u, Turn(t), Turn(u)
  PROVE  t = u
<1>1. PICK i, j \in DOMAIN Plan : t = Plan[i] /\ u = Plan[j]
  BY DEF Turn, Listed
<1>2. i \in Nat /\ j \in Nat
  BY PlanAssumption
<1>3. i < j => Before(Plan, t, u)
  BY <1>1 DEF Before
<1>4. j < i => Before(Plan, u, t)
  BY <1>1 DEF Before
<1>5. ~(i < j) /\ ~(j < i)
  BY <1>3, <1>4 DEF Turn
<1> QED
  BY <1>1, <1>2, <1>5

(* A test run changes the states of the applied targets, to verdicts.       *)
LEMMA Verdicts ==
  ASSUME TypeOK, RunTests \/ Retest, NEW t \in Target
  PROVE  IF t \in applied THEN st'[t] \in {"PASSED", "TEST_FAILED", "COMPILE_FAILED"}
         ELSE st'[t] = st[t]
<1>1. CASE UNCHANGED st /\ applied = {}
  BY <1>1
<1>2. ASSUME NEW green, NEW rep, ClassifyAll(applied, green, rep)
      PROVE  IF t \in applied THEN st'[t] \in {"PASSED", "TEST_FAILED", "COMPILE_FAILED"}
             ELSE st'[t] = st[t]
  <2>1. st'[t] = IF t \in applied THEN Classify(t, green, rep) ELSE st[t]
    BY <1>2 DEF ClassifyAll
  <2> QED
    BY <2>1, VerdictType
<1> QED
  BY <1>1, <1>2 DEF RunTests, Retest
-----------------------------------------------------------------------------

USE DEF Expected, Requested, Answered, Resolved, Untested, Handling, TERMINAL_STATES,
        REPAIRABLE_STATES, Status, vars, processVars, batchVars, repairVars, manifestVars,
        persistVars, repoVars, mavenVars

(* A process starts with targets that have no record.                      *)
LEMMA StartLife ==
  ASSUME TypeOK, LifeInv, Start
  PROVE  LifeInv'
<1> USE DEF TypeOK, LifeInv, Start, ForAll, ReadProcessed
<1>1. Parts'
  BY PlanAssumption, BoundsAssumption DEF Parts
<1>2. RequestLives'
  BY PlanAssumption, BoundsAssumption DEF Parts, RequestLives, BatchLives
<1>3. BatchLives'
  BY PlanAssumption, BoundsAssumption DEF Parts, RequestLives, BatchLives
<1>4. OthersWait'
  BY PlanAssumption, BoundsAssumption DEF Parts, RequestLives, BatchLives, OthersWait
<1>5. Counted'
  BY PlanAssumption, BoundsAssumption DEF Parts, RequestLives, OthersWait, Counted
<1> QED
  BY <1>1, <1>2, <1>3, <1>4, <1>5

(* A batch is taken from the targets that wait.                            *)
LEMMA OpenBatchLife ==
  ASSUME TypeOK, LifeInv, OpenBatch
  PROVE  LifeInv'
<1> USE DEF TypeOK, LifeInv, OpenBatch, Leave
<1>1. Parts'
  BY BatchOfPlan DEF Parts
<1>2. RequestLives'
  BY BatchOfPlan DEF Parts, RequestLives, BatchLives
<1>3. BatchLives'
  BY BatchOfPlan DEF Parts, RequestLives, BatchLives
<1>4. OthersWait'
  BY BatchOfPlan DEF Parts, RequestLives, BatchLives, OthersWait
<1>5. Counted'
  BY BatchOfPlan DEF Parts, RequestLives, OthersWait, Counted
<1> QED
  BY <1>1, <1>2, <1>3, <1>4, <1>5

(* A target without evidence is skipped and recorded.                      *)
LEMMA PreflightSkipLife ==
  ASSUME TypeOK, LifeInv, NEW t \in Target, PreflightSkip(t)
  PROVE  LifeInv'
<1> USE DEF TypeOK, LifeInv, PreflightSkip, Record
<1>0. t \in todo
  BY DEF Turn
<1>1. Parts'
  BY <1>0 DEF Parts
<1>2. RequestLives'
  BY <1>0 DEF Parts, RequestLives, BatchLives
<1>3. BatchLives'
  BY <1>0 DEF Parts, RequestLives, BatchLives
<1>4. OthersWait'
  BY <1>0 DEF Parts, RequestLives, BatchLives, OthersWait
<1>5. Counted'
  BY <1>0 DEF Parts, RequestLives, OthersWait, Counted
<1> QED
  BY <1>1, <1>2, <1>3, <1>4, <1>5

(* A target with evidence goes into the request.                           *)
LEMMA PreflightPassLife ==
  ASSUME TypeOK, LifeInv, NEW t \in Target, PreflightPass(t)
  PROVE  LifeInv'
<1> USE DEF TypeOK, LifeInv, PreflightPass
<1>0. t \in todo
  BY DEF Turn
<1>1. Parts'
  BY <1>0 DEF Parts
<1>2. RequestLives'
  BY <1>0 DEF Parts, RequestLives, BatchLives
<1>3. BatchLives'
  BY <1>0 DEF Parts, RequestLives, BatchLives
<1>4. OthersWait'
  BY <1>0 DEF Parts, RequestLives, BatchLives, OthersWait
<1>5. Counted'
  BY <1>0 DEF Parts, RequestLives, OthersWait, Counted
<1> QED
  BY <1>1, <1>2, <1>3, <1>4, <1>5

(* Without a request the batch is over: all of it was skipped.             *)
LEMMA PreflightEndLife ==
  ASSUME TypeOK, LifeInv, PreflightEnd
  PROVE  LifeInv'
<1> USE DEF TypeOK, LifeInv, PreflightEnd
<1>1. Parts'
  BY DEF Parts
<1>2. RequestLives'
  BY DEF Parts, RequestLives, BatchLives
<1>3. BatchLives'
  BY DEF Parts, RequestLives, BatchLives
<1>4. OthersWait'
  BY DEF Parts, RequestLives, BatchLives, OthersWait
<1>5. Counted'
  BY DEF Parts, RequestLives, OthersWait, Counted
<1> QED
  BY <1>1, <1>2, <1>3, <1>4, <1>5

(* Every target of the request is to be visited.                           *)
LEMMA GenerationAnswerLife ==
  ASSUME TypeOK, LifeInv, GenerationAnswer
  PROVE  LifeInv'
<1> USE DEF TypeOK, LifeInv, GenerationAnswer
<1>1. Parts'
  BY DEF Parts
<1>2. RequestLives'
  BY DEF Parts, RequestLives, BatchLives
<1>3. BatchLives'
  BY DEF Parts, RequestLives, BatchLives
<1>4. OthersWait'
  BY DEF Parts, RequestLives, BatchLives, OthersWait
<1>5. Counted'
  BY DEF Parts, RequestLives, OthersWait, Counted
<1> QED
  BY <1>1, <1>2, <1>3, <1>4, <1>5

(* A skipped batch, target by target.                                      *)
LEMMA SkipTargetLife ==
  ASSUME TypeOK, LifeInv, NEW t \in Target, SkipTarget(t)
  PROVE  LifeInv'
<1> USE DEF TypeOK, LifeInv, SkipTarget, DropTarget, Record
<1>0. t \in todo
  BY DEF Turn
<1>1. Parts'
  BY <1>0 DEF Parts
<1>2. RequestLives'
  BY <1>0 DEF Parts, RequestLives, BatchLives
<1>3. BatchLives'
  BY <1>0 DEF Parts, RequestLives, BatchLives
<1>4. OthersWait'
  BY <1>0 DEF Parts, RequestLives, BatchLives, OthersWait
<1>5. Counted'
  BY <1>0 DEF Parts, RequestLives, OthersWait, Counted
<1> QED
  BY <1>1, <1>2, <1>3, <1>4, <1>5

(* A rejected envelope, target by target.                                  *)
LEMMA RejectTargetLife ==
  ASSUME TypeOK, LifeInv, NEW t \in Target, RejectTarget(t)
  PROVE  LifeInv'
<1> USE DEF TypeOK, LifeInv, RejectTarget, DropTarget, Record
<1>0. t \in todo
  BY DEF Turn
<1>1. Parts'
  BY <1>0 DEF Parts
<1>2. RequestLives'
  BY <1>0 DEF Parts, RequestLives, BatchLives
<1>3. BatchLives'
  BY <1>0 DEF Parts, RequestLives, BatchLives
<1>4. OthersWait'
  BY <1>0 DEF Parts, RequestLives, BatchLives, OthersWait
<1>5. Counted'
  BY <1>0 DEF Parts, RequestLives, OthersWait, Counted
<1> QED
  BY <1>1, <1>2, <1>3, <1>4, <1>5

(* Then the batch is over.                                                 *)
LEMMA DropEndLife ==
  ASSUME TypeOK, LifeInv, DropEnd
  PROVE  LifeInv'
<1> USE DEF TypeOK, LifeInv, DropEnd
<1>1. Parts'
  BY DEF Parts
<1>2. RequestLives'
  BY DEF Parts, RequestLives, BatchLives
<1>3. BatchLives'
  BY DEF Parts, RequestLives, BatchLives
<1>4. OthersWait'
  BY DEF Parts, RequestLives, BatchLives, OthersWait
<1>5. Counted'
  BY DEF Parts, RequestLives, OthersWait, Counted
<1> QED
  BY <1>1, <1>2, <1>3, <1>4, <1>5

(* One item is hydrated: the one whose turn it is may become GENERATED.    *)
LEMMA HydrateItemLife ==
  ASSUME TypeOK, LifeInv, NEW t \in Target, HydrateItem(t)
  PROVE  LifeInv'
<1> USE DEF TypeOK, LifeInv, HydrateItem
<1>0. t \in todo
  BY DEF Turn
<1>1. Parts'
  BY TurnIsOne, <1>0 DEF Parts
<1>2. RequestLives'
  <2> SUFFICES ASSUME NEW u \in sendable PROVE st'[u] \in Expected(u)'
    BY DEF RequestLives
  <2> USE DEF Parts, RequestLives, BatchLives, Expected, Requested, Answered, Untested
  <2>1. CASE pc' = "hydrate"
    <3>1. todo' = todo \ {t} /\ st'[t] \in {"SKIPPED", "GENERATION_FAILED"}
      BY <2>1, <1>0
    <3> QED
      BY <2>1, <3>1, <1>0
  <2>2. CASE pc' = "patch"
    <3>1. todo' = todo /\ st'[t] = "GENERATED" /\ (u # t => st'[u] = st[u])
      BY <2>2, <1>0
    <3>2. todo \subseteq Listed(Plan) /\ Turn(t) /\ (Turn(u) => u = t)
      BY TurnIsOne
    <3>3. Turn(u)' <=> Turn(u)
      BY <3>1 DEF Turn
    <3>4. CASE u = t
      BY <2>2, <3>1, <3>2, <3>3, <3>4, <1>0
    <3>5. CASE u # t
      BY <2>2, <3>1, <3>2, <3>3, <3>5
    <3> QED
      BY <3>4, <3>5
  <2> QED
    BY <2>1, <2>2
<1>3. BatchLives'
  <2>1. /\ pc = "hydrate" /\ pc' \in {"hydrate", "patch"} /\ UNCHANGED <<exit, seen, batch, sendable>>
        /\ \A u \in Target \ {t} : st'[u] = st[u]
    OBVIOUS
  <2>2. t \in sendable /\ batch \subseteq Target
    BY <1>0 DEF Parts
  <2> HIDE DEF TypeOK, HydrateItem
  <2> QED
    BY <2>1, <2>2 DEF BatchLives, Handling
<1>4. OthersWait'
  BY TurnIsOne, <1>0 DEF Parts, RequestLives, BatchLives, OthersWait
<1>5. Counted'
  BY TurnIsOne, <1>0 DEF Parts, RequestLives, OthersWait, Counted
<1> QED
  BY <1>1, <1>2, <1>3, <1>4, <1>5

(* It is the one that is patched,                                          *)
LEMMA PatchAppliedLife ==
  ASSUME TypeOK, LifeInv, NEW t \in Target, PatchApplied(t)
  PROVE  LifeInv'
<1> USE DEF TypeOK, LifeInv, PatchApplied, ItemDone
<1>0. t \in todo
  BY DEF Turn
<1>1. Parts'
  BY TurnIsOne, <1>0 DEF Parts
<1>2. RequestLives'
  BY TurnIsOne, <1>0 DEF Parts, RequestLives, BatchLives
<1>3. BatchLives'
  BY TurnIsOne, <1>0 DEF Parts, RequestLives, BatchLives
<1>4. OthersWait'
  BY TurnIsOne, <1>0 DEF Parts, RequestLives, BatchLives, OthersWait
<1>5. Counted'
  BY TurnIsOne, <1>0 DEF Parts, RequestLives, OthersWait, Counted
<1> QED
  BY <1>1, <1>2, <1>3, <1>4, <1>5

(* or rejected.                                                            *)
LEMMA PatchRejectedLife ==
  ASSUME TypeOK, LifeInv, NEW t \in Target, PatchRejected(t)
  PROVE  LifeInv'
<1> USE DEF TypeOK, LifeInv, PatchRejected, ItemDone
<1>0. t \in todo
  BY DEF Turn
<1>1. Parts'
  BY TurnIsOne, <1>0 DEF Parts
<1>2. RequestLives'
  BY TurnIsOne, <1>0 DEF Parts, RequestLives, BatchLives
<1>3. BatchLives'
  BY TurnIsOne, <1>0 DEF Parts, RequestLives, BatchLives
<1>4. OthersWait'
  BY <1>0 DEF Parts, OthersWait
<1>5. Counted'
  BY TurnIsOne, <1>0 DEF Parts, RequestLives, OthersWait, Counted
<1> QED
  BY <1>1, <1>2, <1>3, <1>4, <1>5

(* All items have been looked at.                                          *)
LEMMA HydrateEndLife ==
  ASSUME TypeOK, LifeInv, HydrateEnd
  PROVE  LifeInv'
<1> USE DEF TypeOK, LifeInv, HydrateEnd
<1>1. Parts'
  BY DEF Parts
<1>2. RequestLives'
  BY DEF Parts, RequestLives, BatchLives
<1>3. BatchLives'
  BY DEF Parts, RequestLives, BatchLives
<1>4. OthersWait'
  BY DEF Parts, RequestLives, BatchLives, OthersWait
<1>5. Counted'
  BY DEF Parts, RequestLives, OthersWait, Counted
<1> QED
  BY <1>1, <1>2, <1>3, <1>4, <1>5

(* The first verdicts: nobody has been asked for repair.                   *)
LEMMA RunTestsLife ==
  ASSUME TypeOK, LifeInv, RunTests
  PROVE  LifeInv'
<1> USE DEF TypeOK, LifeInv, RunTests
<1>1. Parts'
  BY Verdicts DEF Parts
<1>2. RequestLives'
  BY Verdicts DEF Parts, RequestLives, BatchLives
<1>3. BatchLives'
  BY Verdicts DEF Parts, RequestLives, BatchLives
<1>4. OthersWait'
  BY Verdicts DEF Parts, RequestLives, BatchLives, OthersWait
<1>5. Counted'
  BY Verdicts DEF Parts, RequestLives, OthersWait, Counted
<1> QED
  BY <1>1, <1>2, <1>3, <1>4, <1>5

(* Who fails is asked for repair or abandoned.                             *)
LEMMA RequestRepairLife ==
  ASSUME TypeOK, LifeInv, RequestRepair
  PROVE  LifeInv'
<1> USE DEF TypeOK, LifeInv, RequestRepair, failing_target_ids, Bump
<1>1. Parts'
  BY DEF Parts
<1>2. RequestLives'
  BY DEF Parts, RequestLives, BatchLives
<1>3. BatchLives'
  BY DEF Parts, RequestLives, BatchLives
<1>4. OthersWait'
  BY DEF Parts, RequestLives, BatchLives, OthersWait
<1>5. Counted'
  <2> DEFINE ask == {t \in failing_target_ids : Admitted(t)}
  <2>1. /\ st' = [t \in Target |-> IF t \in ask THEN "REPAIR_REQUESTED"
                                  ELSE IF t \in failing_target_ids THEN "ABANDONED" ELSE st[t]]
        /\ rounds' = [t \in Target |-> IF t \in ask THEN rounds[t] + 1 ELSE rounds[t]]
        /\ requested' = ask /\ pc' \in {"close", "repair wait"} /\ rnd' = rnd
        /\ rnd <= MaxRepairRounds /\ pc = "admission" /\ sendable' = sendable
    OBVIOUS
  <2>2. ask \subseteq Target /\ \A t \in ask : rounds[t] = rnd - 1
    BY <2>1 DEF Counted
  <2>3. \A t \in Target : rounds[t] \in Nat /\ rounds[t] <= MaxRepairRounds
    BY DEF Counted
  <2>4. rnd \in Nat /\ rnd >= 1
    BY <2>1 DEF Counted
  <2> HIDE DEF ask
  <2>5. \A t \in Target : rounds'[t] = IF t \in ask THEN rounds[t] + 1 ELSE rounds[t]
    BY <2>1
  <2>6. \A t \in Target : rounds'[t] <= MaxRepairRounds /\ (t \in ask => rounds'[t] = rnd)
    <3>1. MaxRepairRounds \in Nat
      BY BoundsAssumption
    <3>2. ASSUME NEW t \in ask PROVE rounds[t] + 1 = rnd
      <4>1. rounds[t] = rnd - 1 /\ rounds[t] \in Nat
        BY <2>2, <2>3, <3>2
      <4> HIDE DEF TypeOK, RequestRepair
      <4> QED
        BY <4>1, <2>4
    <3> QED
      BY <2>1, <2>2, <2>3, <2>4, <2>5, <3>1, <3>2
  <2> QED
    BY <2>1, <2>2, <2>4, <2>6 DEF Counted
<1> QED
  BY <1>1, <1>2, <1>3, <1>4, <1>5

(* No more rounds.                                                         *)
LEMMA EndRepairLife ==
  ASSUME TypeOK, LifeInv, EndRepair
  PROVE  LifeInv'
<1> USE DEF TypeOK, LifeInv, EndRepair
<1>1. Parts'
  BY DEF Parts
<1>2. RequestLives'
  BY DEF Parts, RequestLives, BatchLives
<1>3. BatchLives'
  BY DEF Parts, RequestLives, BatchLives
<1>4. OthersWait'
  BY DEF Parts, RequestLives, BatchLives, OthersWait
<1>5. Counted'
  BY DEF Parts, RequestLives, OthersWait, Counted
<1> QED
  BY <1>1, <1>2, <1>3, <1>4, <1>5

(* Who was asked stays so.                                                 *)
LEMMA RepairDroppedLife ==
  ASSUME TypeOK, LifeInv, RepairDropped
  PROVE  LifeInv'
<1> USE DEF TypeOK, LifeInv, RepairDropped
<1>1. Parts'
  BY DEF Parts
<1>2. RequestLives'
  BY DEF Parts, RequestLives, BatchLives
<1>3. BatchLives'
  BY DEF Parts, RequestLives, BatchLives
<1>4. OthersWait'
  BY DEF Parts, RequestLives, BatchLives, OthersWait
<1>5. Counted'
  BY DEF Parts, RequestLives, OthersWait, Counted
<1> QED
  BY <1>1, <1>2, <1>3, <1>4, <1>5

(* Nobody has been answered yet.                                           *)
LEMMA RepairAnswerLife ==
  ASSUME TypeOK, LifeInv, RepairAnswer
  PROVE  LifeInv'
<1> USE DEF TypeOK, LifeInv, RepairAnswer
<1>1. Parts'
  BY DEF Parts
<1>2. RequestLives'
  BY DEF Parts, RequestLives, BatchLives
<1>3. BatchLives'
  BY DEF Parts, RequestLives, BatchLives
<1>4. OthersWait'
  BY DEF Parts, RequestLives, BatchLives, OthersWait
<1>5. Counted'
  BY DEF Parts, RequestLives, OthersWait, Counted
<1> QED
  BY <1>1, <1>2, <1>3, <1>4, <1>5

(* An item is about a target of the repair request and about no other.      *)
LEMMA RepairItemChanges ==
  ASSUME TypeOK, NEW t \in Target, RepairItem(t)
  PROVE  /\ pc = "repair" /\ t \in requested
         /\ \A u \in Target \ {t} : st'[u] = st[u]
         /\ \/ st'[t] \in {"ABANDONED", "PATCH_FAILED"} /\ applied' = applied
            \/ st'[t] = st[t] /\ applied' = applied
            \/ st'[t] = "REPAIRED" /\ applied' = applied \cup {t}
         /\ answered' = answered \cup {t} /\ (~RepeatedItems => t \notin answered)
         /\ UNCHANGED <<pc, exit, seen, batch, sendable, todo, requested, rnd, rounds>>
<1> USE DEF TypeOK, processVars, batchVars
<1>1. /\ pc = "repair" /\ t \in requested /\ answered' = answered \cup {t}
      /\ ~RepeatedItems => t \notin answered
      /\ UNCHANGED <<pc, exit, seen, batch, sendable, todo, requested, rnd, rounds>>
  BY DEF RepairItem, RepairAbandons, RepairDeclined, RepairApplied, RepairRejected, NextItem
<1>2. CASE RepairAbandons(t)
  BY <1>1, <1>2 DEF RepairAbandons
<1>3. CASE RepairDeclined(t)
  BY <1>1, <1>3 DEF RepairDeclined
<1>4. CASE RepairApplied(t)
  BY <1>1, <1>4 DEF RepairApplied
<1>5. CASE RepairRejected(t)
  BY <1>1, <1>5 DEF RepairRejected
<1> QED
  BY <1>2, <1>3, <1>4, <1>5 DEF RepairItem

LEMMA RepairItemLife ==
  ASSUME TypeOK, LifeInv, NEW t \in Target, RepairItem(t)
  PROVE  LifeInv'
<1> USE DEF LifeInv
<1>0. /\ pc = "repair" /\ t \in requested
      /\ \A u \in Target \ {t} : st'[u] = st[u]
      /\ \/ st'[t] \in {"ABANDONED", "PATCH_FAILED"} /\ applied' = applied
         \/ st'[t] = st[t] /\ applied' = applied
         \/ st'[t] = "REPAIRED" /\ applied' = applied \cup {t}
      /\ UNCHANGED <<pc, exit, seen, batch, sendable, todo, requested, rnd, rounds>>
  BY RepairItemChanges
<1>1. Parts'
  BY <1>0 DEF Parts
<1>2. RequestLives'
  BY <1>0 DEF Parts, RequestLives, Expected, TypeOK
<1>3. BatchLives'
  BY <1>0 DEF Parts, BatchLives, Handling, TypeOK
<1>4. OthersWait'
  BY <1>0 DEF Parts, OthersWait, TypeOK
<1>5. Counted'
  BY <1>0 DEF Counted
<1> QED
  BY <1>1, <1>2, <1>3, <1>4, <1>5

(* The verdicts of a round are about targets of the repair request.        *)
LEMMA RetestLife ==
  ASSUME TypeOK, LifeInv, Retest
  PROVE  LifeInv'
<1> USE DEF TypeOK, LifeInv, Retest
<1>1. Parts'
  BY Verdicts DEF Parts
<1>2. RequestLives'
  BY Verdicts DEF Parts, RequestLives, BatchLives
<1>3. BatchLives'
  BY Verdicts DEF Parts, RequestLives, BatchLives
<1>4. OthersWait'
  BY Verdicts DEF Parts, RequestLives, BatchLives, OthersWait
<1>5. Counted'
  BY Verdicts DEF Parts, RequestLives, OthersWait, Counted
<1> QED
  BY <1>1, <1>2, <1>3, <1>4, <1>5

(* Who still fails took part in the round.                                 *)
LEMMA RoundEndLife ==
  ASSUME TypeOK, LifeInv, RoundEnd
  PROVE  LifeInv'
<1> USE DEF TypeOK, LifeInv, RoundEnd, failing_target_ids, should_abandon
<1>1. Parts'
  BY DEF Parts
<1>2. RequestLives'
  BY DEF Parts, RequestLives, BatchLives
<1>3. BatchLives'
  BY DEF Parts, RequestLives, BatchLives
<1>4. OthersWait'
  BY DEF Parts, RequestLives, BatchLives, OthersWait
<1>5. Counted'
  <2>1. \A t \in Target : rounds[t] \in Nat /\ rounds[t] <= MaxRepairRounds
    BY DEF Counted
  <2>2. pc' = "admission" => rnd' = rnd + 1 /\ rnd \in Nat /\ rnd >= 1
    BY DEF Counted
  <2>3. ASSUME NEW t \in sendable, st'[t] \in REPAIRABLE_STATES PROVE rounds[t] = rnd
    <3>1. st[t] \in REPAIRABLE_STATES
      BY <2>3 DEF REPAIRABLE_STATES, Parts
    <3>2. t \in requested
      BY <3>1 DEF Parts, RequestLives, Expected, Resolved, TERMINAL_STATES, REPAIRABLE_STATES
    <3> QED
      BY <3>2 DEF Counted
  <2>4. /\ pc' \in {"close", "admission"} /\ UNCHANGED <<rounds, batch, sendable>>
    OBVIOUS
  <2> HIDE DEF TypeOK, LifeInv, RoundEnd
  <2>5. ASSUME NEW t \in sendable, st'[t] \in REPAIRABLE_STATES, pc' = "admission"
        PROVE  rounds[t] = rnd' - 1
    BY <2>2, <2>3, <2>5
  <2>6. /\ rounds' = rounds /\ sendable' = sendable /\ pc' \in {"close", "admission"}
        /\ pc' = "admission" => rnd' >= 1
    BY <2>2, <2>4
  <2> QED
    BY <2>1, <2>5, <2>6 DEF Counted
<1> QED
  BY <1>1, <1>2, <1>3, <1>4, <1>5

(* Who still fails is abandoned.                                           *)
LEMMA CloseBatchLife ==
  ASSUME TypeOK, LifeInv, CloseBatch
  PROVE  LifeInv'
<1> USE DEF TypeOK, LifeInv, CloseBatch, failing_target_ids
<1>1. Parts'
  BY DEF Parts
<1>2. RequestLives'
  BY DEF Parts, RequestLives, BatchLives
<1>3. BatchLives'
  BY DEF Parts, RequestLives, BatchLives
<1>4. OthersWait'
  BY DEF Parts, RequestLives, BatchLives, OthersWait
<1>5. Counted'
  BY DEF Parts, RequestLives, OthersWait, Counted
<1> QED
  BY <1>1, <1>2, <1>3, <1>4, <1>5

(* The batch is recorded, target by target.                                *)
LEMMA MarkProcessedLife ==
  ASSUME TypeOK, LifeInv, NEW t \in Target, MarkProcessed(t)
  PROVE  LifeInv'
<1> USE DEF TypeOK, LifeInv, MarkProcessed, Record
<1>0. t \in todo
  BY DEF Turn
<1>1. Parts'
  BY <1>0 DEF Parts
<1>2. RequestLives'
  BY <1>0 DEF Parts, RequestLives, BatchLives
<1>3. BatchLives'
  BY <1>0 DEF Parts, RequestLives, BatchLives
<1>4. OthersWait'
  BY <1>0 DEF Parts, RequestLives, BatchLives, OthersWait
<1>5. Counted'
  BY <1>0 DEF Parts, RequestLives, OthersWait, Counted
<1> QED
  BY <1>1, <1>2, <1>3, <1>4, <1>5

(* Then it is over.                                                        *)
LEMMA AdvanceLife ==
  ASSUME TypeOK, LifeInv, Advance
  PROVE  LifeInv'
<1> USE DEF TypeOK, LifeInv, Advance, Leave
<1>1. Parts'
  BY DEF Parts
<1>2. RequestLives'
  BY DEF Parts, RequestLives, BatchLives
<1>3. BatchLives'
  BY DEF Parts, RequestLives, BatchLives
<1>4. OthersWait'
  BY DEF Parts, RequestLives, BatchLives, OthersWait
<1>5. Counted'
  BY DEF Parts, RequestLives, OthersWait, Counted
<1> QED
  BY <1>1, <1>2, <1>3, <1>4, <1>5

HIDE DEF Expected, Requested, Answered, Resolved, Untested, Handling, TERMINAL_STATES,
         REPAIRABLE_STATES, Status, vars, processVars, batchVars, repairVars, manifestVars,
         persistVars, repoVars, mavenVars
-----------------------------------------------------------------------------
(* A process that ends leaves the states as they are.                      *)
LEMMA EndLife ==
  ASSUME TypeOK, LifeInv,
         FinishRun \/ Quit \/ TestsNotRun \/ Crash \/ TornWrite \/ UNCHANGED vars
  PROVE  LifeInv'
<1>1. CASE UNCHANGED vars
  <2>1. UNCHANGED <<pc, exit, seen, batch, sendable, todo, applied, requested, rnd, st, rounds>>
    BY <1>1 DEF vars, processVars, batchVars, repairVars, manifestVars
  <2>2. Parts' /\ BatchLives' /\ OthersWait' /\ Counted'
    BY <2>1 DEF LifeInv, Parts, BatchLives, OthersWait, Counted
  <2>3. ASSUME NEW t \in sendable PROVE Expected(t)' = Expected(t)
    BY <2>1 DEF Expected, Answered, Turn
  <2> QED
    BY <2>1, <2>2, <2>3 DEF LifeInv, RequestLives
<1>2. ASSUME FinishRun \/ Quit \/ TestsNotRun \/ Crash \/ TornWrite
      PROVE  /\ pc' = "off" /\ UNCHANGED <<st, rounds, batch, sendable, todo>>
             /\ exit' = "done" => pc = "select"
  BY <1>2 DEF FinishRun, Quit, TestsNotRun, Crash, TornWrite, Die, Leave, batchVars,
     manifestVars
<1>3. CASE FinishRun \/ Quit \/ TestsNotRun \/ Crash \/ TornWrite
  <2>1. Parts' /\ OthersWait' /\ Counted'
    BY <1>2, <1>3 DEF LifeInv, Parts, OthersWait, Counted
  <2>2. RequestLives'
    BY <1>2, <1>3 DEF TypeOK, RequestLives, Expected
  <2>3. BatchLives'
    BY <1>2, <1>3 DEF LifeInv, BatchLives, Handling
  <2> QED
    BY <2>1, <2>2, <2>3 DEF LifeInv
<1> QED
  BY <1>1, <1>3

LEMMA LifeStep == TypeOK /\ LifeInv /\ [Next]_vars => LifeInv'
<1> SUFFICES ASSUME TypeOK, LifeInv, [Next]_vars PROVE LifeInv'
  OBVIOUS
<1>1. CASE Start
  BY <1>1, StartLife
<1>2. CASE FinishRun \/ Quit \/ TestsNotRun \/ Crash \/ TornWrite \/ UNCHANGED vars
  BY <1>2, EndLife
<1>3. CASE OpenBatch
  BY <1>3, OpenBatchLife
<1>4. CASE Preflight
  BY <1>4, PreflightSkipLife, PreflightPassLife, PreflightEndLife DEF Preflight
<1>5. CASE Generation
  BY <1>5, GenerationAnswerLife, SkipTargetLife, RejectTargetLife, DropEndLife,
     HydrateItemLife, PatchAppliedLife, PatchRejectedLife, HydrateEndLife DEF Generation
<1>6. CASE RunTests
  BY <1>6, RunTestsLife
<1>7. CASE Repair
  BY <1>7, RequestRepairLife, EndRepairLife, RepairDroppedLife, RepairAnswerLife,
     RepairItemLife, RetestLife, RoundEndLife DEF Repair
<1>8. CASE Closing
  BY <1>8, CloseBatchLife, MarkProcessedLife, AdvanceLife DEF Closing
<1> QED
  BY <1>1, <1>2, <1>3, <1>4, <1>5, <1>6, <1>7, <1>8 DEF Next, Driver, Idle

LEMMA LifeInit == Init => LifeInv
<1> SUFFICES ASSUME Init PROVE LifeInv
  OBVIOUS
<1>1. Parts
  BY DEF Init, Parts
<1>2. RequestLives /\ BatchLives /\ OthersWait
  BY DEF Init, RequestLives, BatchLives, OthersWait, Handling
<1>3. Counted
  BY BoundsAssumption DEF Init, ForAll, Counted
<1> QED
  BY <1>1, <1>2, <1>3 DEF LifeInv

LEMMA LifeInvariant == Spec => []LifeInv
BY LifeInit, LifeStep, TypeCorrect, PTL DEF Spec

-----------------------------------------------------------------------------
(* A batch that is over has no target in the middle of its life, whatever  *)
(* was answered, rejected or failed in it.                                 *)
THEOREM BatchesEnd == Spec => []NothingLeftOpen
<1>1. LifeInv => NothingLeftOpen
  BY DEF LifeInv, BatchLives, NothingLeftOpen, BetweenBatches, Resolved
<1> QED
  BY <1>1, LifeInvariant, PTL

(* Whoever still fails at the start of a round took part in all the rounds *)
(* before it, and nobody gets a round too many.                            *)
THEOREM RoundsAgree == Spec => []RoundsInStep
<1>1. LifeInv => RoundsInStep
  BY DEF LifeInv, Parts, Counted, RoundsInStep, failing_target_ids
<1> QED
  BY <1>1, LifeInvariant, PTL

(* Every step that ends the process or begins a wait has saved.            *)
LEMMA SavedStep == ManifestOnDisk /\ [Next]_vars => ManifestOnDisk'
<1> SUFFICES ASSUME ManifestOnDisk, [Next]_vars PROVE ManifestOnDisk'
  OBVIOUS
<1> USE DEF ManifestOnDisk, Waiting
<1>1. CASE FinishRun \/ Quit \/ TestsNotRun \/ Crash \/ TornWrite
  BY <1>1 DEF FinishRun, Quit, TestsNotRun, Crash, TornWrite, Die, Leave, Save
<1>2. CASE OpenBatch \/ Advance
  BY <1>2 DEF OpenBatch, Advance, Leave, Save, manifestVars
<1>3. CASE PreflightEnd \/ RequestRepair
  BY <1>3 DEF PreflightEnd, RequestRepair, Save, manifestVars
<1>4. CASE pc' \notin {"off", "generation wait", "repair wait"}
  BY <1>4
<1>5. CASE Start \/ GenerationAnswer \/ DropEnd \/ HydrateEnd \/ RunTests \/ CloseBatch
  BY <1>4, <1>5 DEF Start, GenerationAnswer, DropEnd, HydrateEnd, RunTests, CloseBatch
<1>6. CASE EndRepair \/ RepairDropped \/ RepairAnswer \/ Retest \/ RoundEnd
  BY <1>4, <1>6 DEF EndRepair, RepairDropped, RepairAnswer, Retest, RoundEnd
<1>7. ASSUME NEW t \in Target,
             PreflightSkip(t) \/ PreflightPass(t) \/ SkipTarget(t) \/ RejectTarget(t)
               \/ HydrateItem(t) \/ PatchApplied(t) \/ PatchRejected(t) \/ MarkProcessed(t)
      PROVE  pc' \notin {"off", "generation wait", "repair wait"}
  BY <1>7 DEF PreflightSkip, PreflightPass, SkipTarget, RejectTarget, DropTarget,
              HydrateItem, PatchApplied, PatchRejected, ItemDone, MarkProcessed
<1>8. ASSUME NEW t \in Target, RepairItem(t)
      PROVE  pc' \notin {"off", "generation wait", "repair wait"}
  BY <1>8 DEF RepairItem, RepairAbandons, RepairDeclined, RepairApplied, RepairRejected,
              NextItem
<1>9. CASE Idle \/ UNCHANGED vars
  BY <1>9 DEF Idle, vars, processVars, manifestVars
<1> QED
  BY <1>1, <1>2, <1>3, <1>4, <1>5, <1>6, <1>7, <1>8, <1>9
  DEF Next, Driver, Preflight, Generation, Repair, Closing

(* Whoever reads manifest.json while the driver waits, or after it ended   *)
(* by itself, reads the states the driver acts on.                         *)
THEOREM ManifestSaved == Spec => []ManifestOnDisk
<1>1. Init => ManifestOnDisk
  BY DEF Init, ManifestOnDisk
<1> QED
  BY <1>1, SavedStep, PTL DEF Spec

-----------------------------------------------------------------------------
(* What a step does to one target: a step of its lifecycle, or nothing.    *)
(* The items of a repair response and the verdicts on them are apart: a    *)
(* response may repeat items.                                              *)
Moves(t) == Life!Live(t) \/ Life!Rest(t)

LEMMA RequestMoves ==
  ASSUME TypeOK, LifeInv, OpenBatch, NEW t \in Target
  PROVE  Moves(t)
<1>1. rounds' = rounds
  BY DEF OpenBatch
<1>2. CASE t \in NextBatch
  <2>1. st'[t] = "GENERATION_REQUESTED"
    BY <1>2 DEF OpenBatch
  <2>2. pc = "select" /\ t \notin batch \cup seen
    BY <1>2, BatchIsPending DEF OpenBatch, LifeInv, OthersWait
  <2>3. st[t] = "ABSENT"
    BY <2>2 DEF LifeInv, OthersWait
  <2> QED
    BY <1>1, <2>1, <2>3 DEF Moves, Life!Live, Life!Request, Life!Become
<1>3. CASE t \notin NextBatch
  BY <1>1, <1>3 DEF OpenBatch, Moves, Life!Rest
<1> QED
  BY <1>2, <1>3

(* The answer to a request, target by target.                              *)
LEMMA AnswerMoves ==
  ASSUME TypeOK, LifeInv, NEW u \in Target, NEW t \in Target,
         PreflightSkip(u) \/ SkipTarget(u) \/ RejectTarget(u) \/ HydrateItem(u)
  PROVE  Moves(t)
<1>1. /\ u \in todo /\ pc \in {"preflight", "skip", "reject", "hydrate"}
      /\ rounds' = rounds
      /\ \E s \in {"SKIPPED", "GENERATION_FAILED", "GENERATED"} : st' = [st EXCEPT ![u] = s]
  BY DEF PreflightSkip, SkipTarget, RejectTarget, DropTarget, HydrateItem, Turn
<1>2. st[u] = "GENERATION_REQUESTED"
  BY <1>1 DEF LifeInv, Parts, BatchLives, RequestLives, Expected, Requested
<1>3. CASE t = u
  BY <1>1, <1>2, <1>3 DEF TypeOK, Moves, Life!Live, Life!Answer, Life!Become
<1>4. CASE t # u
  BY <1>1, <1>4 DEF TypeOK, Moves, Life!Rest
<1> QED
  BY <1>3, <1>4

(* The patch of a target is applied or rejected.                           *)
LEMMA PatchMoves ==
  ASSUME TypeOK, LifeInv, NEW u \in Target, NEW t \in Target,
         PatchApplied(u) \/ PatchRejected(u)
  PROVE  Moves(t)
<1>1. /\ Turn(u) /\ u \in todo /\ pc = "patch" /\ rounds' = rounds
      /\ \E s \in {"APPLIED", "PATCH_FAILED"} : st' = [st EXCEPT ![u] = s]
  BY DEF PatchApplied, PatchRejected, Turn
<1>2. st[u] = "GENERATED"
  BY <1>1 DEF LifeInv, Parts, RequestLives, Expected
<1>3. CASE t = u
  BY <1>1, <1>2, <1>3 DEF TypeOK, Moves, Life!Live, Life!Patch, Life!Become
<1>4. CASE t # u
  BY <1>1, <1>4 DEF TypeOK, Moves, Life!Rest
<1> QED
  BY <1>3, <1>4

(* The first test run: whoever is applied has not been tested yet.         *)
LEMMA TestMoves ==
  ASSUME TypeOK, LifeInv, RunTests, NEW t \in Target
  PROVE  Moves(t)
<1>1. pc = "test" /\ rounds' = rounds
  BY DEF RunTests
<1>2. CASE t \in applied
  <2>1. st[t] = "APPLIED"
    BY <1>1, <1>2 DEF LifeInv, Parts, RequestLives, Expected, Answered
  <2> QED
    BY <1>1, <1>2, <2>1, Verdicts DEF Moves, Life!Live, Life!Test, Life!Become
<1>3. CASE t \notin applied
  BY <1>1, <1>3, Verdicts DEF Moves, Life!Rest
<1> QED
  BY <1>2, <1>3

(* A failing target is asked for repair, with a round left, or abandoned.  *)
LEMMA AskMoves ==
  ASSUME TypeOK, LifeInv, RequestRepair, NEW t \in Target
  PROVE  Moves(t)
<1> DEFINE ask == {u \in failing_target_ids : Admitted(u)}
<1>1. /\ pc = "admission" /\ rnd <= MaxRepairRounds
      /\ st'[t] = IF t \in ask THEN "REPAIR_REQUESTED"
                  ELSE IF t \in failing_target_ids THEN "ABANDONED" ELSE st[t]
      /\ rounds'[t] = IF t \in ask THEN rounds[t] + 1 ELSE rounds[t]
  BY DEF RequestRepair, Bump
<1>2. CASE t \in ask
  <2>1. st[t] \in Life!Failed
    BY <1>2 DEF failing_target_ids, REPAIRABLE_STATES, Life!Failed
  <2>2. rounds[t] = rnd - 1 /\ rounds[t] \in Nat /\ rnd \in Nat /\ MaxRepairRounds \in Nat
    BY <1>1, <1>2, BoundsAssumption DEF TypeOK, LifeInv, Counted, failing_target_ids
  <2>3. rounds[t] < MaxRepairRounds
    BY <1>1, <2>2
  <2> QED
    BY <1>1, <1>2, <2>1, <2>3 DEF Moves, Life!Live, Life!AskRepair
<1>3. CASE t \in failing_target_ids \ ask
  BY <1>1, <1>3 DEF failing_target_ids, REPAIRABLE_STATES, Moves, Life!Live, Life!Abandon,
     Life!Become, Life!Failed
<1>4. CASE t \notin failing_target_ids
  BY <1>1, <1>4 DEF Moves, Life!Rest
<1> QED
  BY <1>2, <1>3, <1>4

(* Who is given up has failed, or waits for a repair.                      *)
LEMMA AbandonMoves ==
  ASSUME TypeOK, LifeInv, RoundEnd \/ CloseBatch, NEW t \in Target
  PROVE  Moves(t)
<1>1. /\ pc \in {"round end", "close"} /\ rounds' = rounds
      /\ \/ st'[t] = st[t]
         \/ /\ st'[t] = "ABANDONED"
            /\ \/ t \in failing_target_ids
               \/ pc = "round end" /\ t \in requested /\ st[t] \notin TERMINAL_STATES
  BY DEF RoundEnd, CloseBatch
<1>2. CASE st'[t] = st[t]
  BY <1>1, <1>2 DEF Moves, Life!Rest
<1>3. CASE t \in failing_target_ids /\ st'[t] = "ABANDONED"
  BY <1>1, <1>3 DEF failing_target_ids, REPAIRABLE_STATES, Moves, Life!Live, Life!Abandon,
     Life!Become, Life!Failed
<1>4. CASE /\ pc = "round end" /\ t \in requested /\ st[t] \notin TERMINAL_STATES
           /\ st'[t] = "ABANDONED"
  <2>1. st[t] \in Life!Failed \cup {"REPAIR_REQUESTED"}
    BY <1>4 DEF LifeInv, Parts, RequestLives, Expected, TERMINAL_STATES, REPAIRABLE_STATES,
       Life!Failed
  <2> QED
    BY <1>1, <1>4, <2>1 DEF Moves, Life!Live, Life!Abandon, Life!Become
<1> QED
  BY <1>1, <1>2, <1>3, <1>4

(* The other steps of a process leave the states and the counters alone.   *)
LEMMA OtherMoves ==
  ASSUME \/ FinishRun \/ Quit \/ TestsNotRun \/ Crash \/ TornWrite \/ Idle \/ UNCHANGED vars
         \/ PreflightEnd \/ GenerationAnswer \/ DropEnd \/ HydrateEnd
         \/ EndRepair \/ RepairDropped \/ RepairAnswer \/ Advance
         \/ \E u \in Target : PreflightPass(u) \/ MarkProcessed(u)
  PROVE  UNCHANGED <<st, rounds>>
<1> USE DEF manifestVars
<1>1. CASE FinishRun \/ Quit \/ TestsNotRun \/ Crash \/ TornWrite \/ Idle \/ UNCHANGED vars
  BY <1>1 DEF FinishRun, Quit, TestsNotRun, Crash, TornWrite, Die, Idle, vars
<1>2. CASE PreflightEnd \/ GenerationAnswer \/ DropEnd \/ HydrateEnd
  BY <1>2 DEF PreflightEnd, GenerationAnswer, DropEnd, HydrateEnd
<1>3. CASE EndRepair \/ RepairDropped \/ RepairAnswer \/ Advance
  BY <1>3 DEF EndRepair, RepairDropped, RepairAnswer, Advance
<1>4. CASE \E u \in Target : PreflightPass(u) \/ MarkProcessed(u)
  BY <1>4 DEF PreflightPass, MarkProcessed
<1> QED
  BY <1>1, <1>2, <1>3, <1>4

LEMMA StepMoves ==
  ASSUME TypeOK, LifeInv, [Next]_vars, ~Start, ~Retest, \A u \in Target : ~RepairItem(u)
  PROVE  \A t \in Target : Moves(t)
<1> SUFFICES ASSUME NEW t \in Target PROVE Moves(t)
  OBVIOUS
<1>1. CASE UNCHANGED <<st, rounds>>
  BY <1>1 DEF Moves, Life!Rest
<1>2. CASE OpenBatch \/ RunTests \/ RequestRepair \/ RoundEnd \/ CloseBatch
  BY <1>2, RequestMoves, TestMoves, AskMoves, AbandonMoves
<1>3. CASE \E u \in Target :
             \/ PreflightSkip(u) \/ SkipTarget(u) \/ RejectTarget(u) \/ HydrateItem(u)
             \/ PatchApplied(u) \/ PatchRejected(u)
  BY <1>3, AnswerMoves, PatchMoves
<1> QED
  BY <1>1, <1>2, <1>3, OtherMoves DEF Next, Driver, Preflight, Generation, Repair, Closing

(* A repair response deals with targets of its request, and none of these  *)
(* is green or skipped.                                                    *)
LEMMA RepairSpares ==
  ASSUME TypeOK, LifeInv, Retest \/ \E u \in Target : RepairItem(u),
         NEW t \in Target, st[t] \in {"PASSED", "SKIPPED"}
  PROVE  st'[t] = st[t]
<1>1. pc = "repair" => t \notin requested
  BY DEF LifeInv, Parts, RequestLives, Expected, REPAIRABLE_STATES
<1>2. CASE Retest
  BY <1>1, <1>2, Verdicts DEF Retest, LifeInv, Parts
<1>3. ASSUME NEW u \in Target, RepairItem(u) PROVE st'[t] = st[t]
  BY <1>1, <1>3, RepairItemChanges
<1> QED
  BY <1>2, <1>3

(* Once a test run showed a target green, or it was skipped, no later step *)
(* of the process takes that back, whatever a repair response repeats.     *)
THEOREM GreenIsKept == Spec => GreenStaysGreen
<1>1. ASSUME TypeOK, LifeInv, [Next]_vars, pc # "off",
             NEW t \in Target, st[t] \in {"PASSED", "SKIPPED"}
      PROVE  st'[t] = st[t]
  <2>1. ~Start
    BY <1>1 DEF Start
  <2>2. CASE Retest \/ \E u \in Target : RepairItem(u)
    BY <1>1, <2>2, RepairSpares
  <2>3. CASE ~Retest /\ \A u \in Target : ~RepairItem(u)
    <3>1. Moves(t)
      BY <1>1, <2>1, <2>3, StepMoves
    <3> QED
      BY <1>1, <3>1 DEF Moves, Life!Live, Life!Rest, Life!Request, Life!Answer, Life!Patch,
         Life!Test, Life!AskRepair, Life!Repatch, Life!Abandon, Life!Become, Life!Failed
  <2> QED
    BY <2>2, <2>3
<1>2. TypeOK /\ LifeInv /\ [Next]_vars =>
        [pc # "off" => \A t \in Target : st[t] \in {"PASSED", "SKIPPED"} => st'[t] = st[t]]_vars
  BY <1>1
<1> QED
  BY <1>2, TypeCorrect, LifeInvariant, PTL DEF Spec, GreenStaysGreen

-----------------------------------------------------------------------------
(* The refinement.  It holds of responses that list no target twice: see   *)
(* RepairItem, where a second item would move a target that is abandoned.  *)

LEMMA OnceStep ==
  ASSUME TypeOK, LifeInv, ~RepeatedItems, OnceEach, [Next]_vars
  PROVE  OnceEach'
<1> SUFFICES ASSUME pc' = "repair", NEW t \in requested',
                    ~(/\ t \notin answered' => st'[t] = "REPAIR_REQUESTED"
                      /\ t \in applied' => st'[t] = "REPAIRED")
             PROVE  FALSE
  BY DEF OnceEach
<1>1. CASE RepairAnswer
  <2>1. pc = "repair wait" /\ requested' = requested /\ answered' = {} /\ applied' = {} /\ st' = st
    BY <1>1 DEF RepairAnswer, repairVars, manifestVars
  <2>2. st[t] = "REPAIR_REQUESTED"
    BY <2>1 DEF LifeInv, Parts, RequestLives, Expected
  <2> QED
    BY <2>1, <2>2
<1>2. ASSUME NEW u \in Target, RepairItem(u) PROVE FALSE
  <2>1. /\ pc = "repair" /\ requested' = requested /\ u \notin answered
        /\ answered' = answered \cup {u} /\ \A v \in Target \ {u} : st'[v] = st[v]
    BY <1>2, RepairItemChanges
  <2>2. CASE t # u
    <3>1. t \in Target /\ (t \in applied' => t \in applied)
      BY <1>2, <2>1, <2>2, RepairItemChanges DEF TypeOK
    <3> QED
      BY <2>1, <2>2, <3>1 DEF OnceEach
  <2>3. CASE t = u
    <3>1. u \notin applied
      BY <2>1, <2>3 DEF OnceEach
    <3> QED
      BY <1>2, <2>1, <2>3, <3>1, RepairItemChanges
  <2> QED
    BY <2>2, <2>3
<1>3. CASE pc = "repair" /\ UNCHANGED <<requested, answered, applied, st>>
  BY <1>3 DEF OnceEach
<1>4. CASE UNCHANGED vars
  BY <1>3, <1>4 DEF vars, repairVars, manifestVars
<1>5. CASE Start \/ FinishRun \/ OpenBatch \/ Quit \/ TestsNotRun \/ RunTests \/ Crash \/ TornWrite
  BY <1>5 DEF Start, FinishRun, OpenBatch, Quit, TestsNotRun, RunTests, Crash, TornWrite, Die,
     Leave
<1>6. CASE Preflight \/ Generation
  BY <1>6 DEF Preflight, Generation, PreflightSkip, PreflightPass, PreflightEnd,
     GenerationAnswer, SkipTarget, RejectTarget, DropTarget, DropEnd, HydrateItem, PatchApplied,
     PatchRejected, ItemDone, HydrateEnd
<1>7. CASE RequestRepair \/ EndRepair \/ RepairDropped \/ Retest \/ RoundEnd
  BY <1>7 DEF RequestRepair, EndRepair, RepairDropped, Retest, RoundEnd
<1>8. CASE Closing
  BY <1>8 DEF Closing, CloseBatch, MarkProcessed, Advance, Leave
<1> QED
  BY <1>1, <1>2, <1>4, <1>5, <1>6, <1>7, <1>8 DEF Next, Driver, Repair, Idle

(* The items of a response and the verdicts on them are lifecycle steps.   *)
LEMMA RepairMoves ==
  ASSUME TypeOK, LifeInv, OnceEach, ~RepeatedItems,
         Retest \/ \E u \in Target : RepairItem(u), NEW t \in Target
  PROVE  Moves(t)
<1>1. CASE Retest
  <2>1. pc = "repair" /\ rounds' = rounds
    BY <1>1 DEF Retest
  <2>2. CASE t \in applied
    <3>1. st[t] = "REPAIRED"
      BY <2>1, <2>2 DEF LifeInv, Parts, OnceEach
    <3> QED
      BY <1>1, <2>1, <2>2, <3>1, Verdicts DEF Moves, Life!Live, Life!Test, Life!Become
  <2>3. CASE t \notin applied
    BY <1>1, <2>1, <2>3, Verdicts DEF Moves, Life!Rest
  <2> QED
    BY <2>2, <2>3
<1>2. ASSUME NEW u \in Target, RepairItem(u) PROVE Moves(t)
  <2>1. pc = "repair" /\ u \in requested /\ u \notin answered /\ rounds' = rounds
    BY <1>2, RepairItemChanges
  <2>2. CASE t = u
    <3>1. st[t] = "REPAIR_REQUESTED"
      BY <2>1, <2>2 DEF OnceEach
    <3> QED
      BY <1>2, <2>1, <2>2, <3>1, RepairItemChanges
      DEF Moves, Life!Live, Life!Repatch, Life!Abandon, Life!Become, Life!Rest
  <2>3. CASE t # u
    BY <1>2, <2>1, <2>3, RepairItemChanges DEF Moves, Life!Rest
  <2> QED
    BY <2>2, <2>3
<1> QED
  BY <1>1, <1>2

LEMMA RefinesStep ==
  ASSUME TypeOK, LifeInv, OnceEach, ~RepeatedItems, [Next]_vars
  PROVE  [Life!LifeNext]_(Life!lifecycle)
<1>1. CASE Start
  BY <1>1 DEF Start, ForAll, Life!LifeNext, Life!NewRun, Life!Unborn
<1>2. CASE ~Start
  <2>1. \A t \in Target : Moves(t)
    BY <1>2, RepairMoves, StepMoves
  <2> QED
    BY <2>1 DEF Moves, Life!LifeNext
<1> QED
  BY <1>1, <1>2

(* The driver, detail and all, takes every target through the lifecycle:   *)
(* requested once, tested once per patch, repaired only after a failure    *)
(* and at most MaxRepairRounds times, through any crash and restart.       *)
THEOREM RefinesLifecycle == ~RepeatedItems => (Spec => FollowsLifecycle)
<1> SUFFICES ASSUME ~RepeatedItems PROVE Spec => FollowsLifecycle
  OBVIOUS
<1>1. Init => Life!Unborn /\ OnceEach
  BY DEF Init, ForAll, Life!Unborn, OnceEach
<1>2. TypeOK /\ LifeInv /\ OnceEach /\ [Next]_vars => OnceEach'
  BY OnceStep
<1>3. TypeOK /\ LifeInv /\ OnceEach /\ [Next]_vars => [Life!LifeNext]_(Life!lifecycle)
  BY RefinesStep
<1> QED
  BY <1>1, <1>2, <1>3, TypeCorrect, LifeInvariant, PTL
  DEF Spec, FollowsLifecycle, Life!LifeSpec

-----------------------------------------------------------------------------
(* The brake.                                                              *)

LEMMA PlanIsFinite == IsFiniteSet(Listed(Plan))
<1>1. PICK n \in Nat : DOMAIN Plan = 1 .. n
  BY PlanAssumption
<1>2. IsFiniteSet(DOMAIN Plan)
  BY <1>1, FS_Interval
<1>3. Plan \in Surjection(DOMAIN Plan, Listed(Plan))
  <2>1. Plan \in [DOMAIN Plan -> Listed(Plan)]
    BY PlanAssumption DEF Listed
  <2>2. \A t \in Listed(Plan) : \E i \in DOMAIN Plan : Plan[i] = t
    BY DEF Listed
  <2> QED
    BY <2>1, <2>2 DEF Surjection
<1> QED
  BY <1>2, <1>3, FS_Surjection

(* The decision to go on is the brake.                                     *)
LEMMA AdvanceBrakes ==
  ASSUME TypeOK, LifeInv, Decision # "stop"
  PROVE  hadCompile \/ 2 * Cardinality(PassedTargets) >= Cardinality(Effective)
<1>1. PassedTargets \subseteq Listed(Plan) /\ Effective \subseteq Listed(Plan)
  BY DEF PassedTargets, Effective, LifeInv, Parts
<1>2. Cardinality(PassedTargets) \in Nat /\ Cardinality(Effective) \in Nat
  BY <1>1, PlanIsFinite, FS_Subset, FS_CardinalityType
<1>3. advance_decision(Cardinality(PassedTargets), Cardinality(Effective), hadCompile) # "stop"
  BY DEF Decision
<1> QED
  BY <1>2, <1>3 DEF advance_decision

(* How the driver comes back to the top of its loop.                       *)
LEMMA SelectComes ==
  ASSUME [Next]_vars, pc' = "select"
  PROVE  \/ Start \/ (PreflightEnd /\ sendable = {}) \/ DropEnd
         \/ (Advance /\ Decision # "stop") \/ UNCHANGED vars
<1>1. ~FinishRun /\ ~OpenBatch /\ ~Quit /\ ~TestsNotRun /\ ~RunTests /\ ~Crash /\ ~TornWrite
  BY DEF FinishRun, OpenBatch, Quit, TestsNotRun, RunTests, Crash, TornWrite, Die, Leave
<1>2. Preflight => PreflightEnd /\ sendable = {}
  BY DEF Preflight, PreflightSkip, PreflightPass, PreflightEnd
<1>3. Generation => DropEnd
  BY DEF Generation, GenerationAnswer, SkipTarget, RejectTarget, DropTarget, HydrateItem,
     PatchApplied, PatchRejected, ItemDone, HydrateEnd
<1>4. ~RequestRepair /\ ~EndRepair /\ ~RepairDropped /\ ~RepairAnswer /\ ~Retest /\ ~RoundEnd
  BY DEF RequestRepair, EndRepair, RepairDropped, RepairAnswer, Retest, RoundEnd
<1>5. \A t \in Target : ~RepairItem(t)
  BY DEF RepairItem, RepairAbandons, RepairDeclined, RepairApplied, RepairRejected, NextItem
<1>6. Closing => Advance /\ Decision # "stop"
  BY DEF Closing, CloseBatch, MarkProcessed, Advance, Leave
<1> QED
  BY <1>1, <1>2, <1>3, <1>4, <1>5, <1>6 DEF Next, Driver, Repair, Idle

LEMMA BrakeStep == TypeOK /\ LifeInv /\ BrakeHolds /\ [Next]_vars => BrakeHolds'
<1> SUFFICES ASSUME TypeOK, LifeInv, BrakeHolds, [Next]_vars, pc' = "select",
                    TestedTargets' # {}
             PROVE  (hadCompile \/ 2 * Cardinality(PassedTargets) >= Cardinality(Effective))'
  BY DEF BrakeHolds
<1>1. CASE Start
  BY <1>1 DEF Start, TestedTargets
<1>2. ASSUME UNCHANGED <<hadCompile, sendable, needContext, st>>
      PROVE  UNCHANGED <<hadCompile, PassedTargets, Effective, TestedTargets>>
  BY <1>2 DEF PassedTargets, Effective, TestedTargets
<1>3. CASE (PreflightEnd /\ sendable = {}) \/ DropEnd
  <2>1. UNCHANGED <<hadCompile, sendable, needContext, st>>
    BY <1>3 DEF PreflightEnd, DropEnd, batchVars, manifestVars
  <2>2. TestedTargets = {}
    BY <1>3 DEF TestedTargets, DropEnd, LifeInv, RequestLives, Expected
  <2> QED
    BY <1>2, <2>1, <2>2
<1>4. CASE Advance /\ Decision # "stop"
  <2>1. UNCHANGED <<hadCompile, sendable, needContext, st>>
    BY <1>4 DEF Advance, batchVars
  <2> QED
    BY <1>2, <1>4, <2>1, AdvanceBrakes
<1>5. CASE UNCHANGED vars
  <2>1. UNCHANGED <<pc, hadCompile, sendable, needContext, st>>
    BY <1>5 DEF vars, batchVars, manifestVars
  <2> QED
    BY <1>2, <2>1 DEF BrakeHolds
<1> QED
  BY <1>1, <1>3, <1>4, <1>5, SelectComes

(* Another batch follows a tested one only if at least half of its         *)
(* effective targets passed, or if it had a compile failure.               *)
THEOREM BrakeIsKept == Spec => []BrakeHolds
<1>1. Init => BrakeHolds
  BY DEF Init, BrakeHolds
<1> QED
  BY <1>1, BrakeStep, TypeCorrect, LifeInvariant, PTL DEF Spec

-----------------------------------------------------------------------------
(* The verdict of a Maven run of the applied classes, in a tree that       *)
(* compiles: green exactly for the classes that pass.                      *)
LEMMA VerdictOfRun ==
  ASSUME Compiles, NEW C, C = {ClassOf[t] : t \in applied}, Maven(C), applied \subseteq Target,
         ClassifyAll(applied, RunIsGreen(C), report'), NEW t \in applied
  PROVE  (st'[t] = "PASSED") <=> Passes(ClassOf[t])
<1>1. ClassOf[t] \in Class /\ ClassOf[t] \in C
  BY PlanAssumption
<1>2. report'[ClassOf[t]] = IF Passes(ClassOf[t]) THEN "passed" ELSE "failed"
  BY <1>1 DEF Maven
<1>3. st'[t] = Classify(t, RunIsGreen(C), report')
  BY DEF ClassifyAll
<1>4. RunIsGreen(C) => Passes(ClassOf[t])
  BY <1>1 DEF RunIsGreen
<1> QED
  BY <1>2, <1>3, <1>4 DEF Classify

(* When the test tree compiles, a tested target is PASSED exactly if no    *)
(* method of its class fails, whatever reports earlier runs left there.    *)
THEOREM VerdictsAreTrue == Spec => VerdictIsTrue
<1>1. ASSUME TypeOK, [Next]_vars, maven, Compiles, pc \in {"test", "repair"},
             pc' # pc, pc' # "off", NEW t \in applied
      PROVE  (st'[t] = "PASSED") <=> Passes(ClassOf[t])
  <2>1. RunTests \/ Retest
    <3>1. ~Start /\ ~FinishRun /\ ~OpenBatch /\ ~Quit /\ ~TestsNotRun /\ ~Crash /\ ~TornWrite
      BY <1>1 DEF Start, FinishRun, OpenBatch, Quit, TestsNotRun, Crash, TornWrite, Die, Leave
    <3>2. ~Preflight /\ ~Closing
      BY <1>1 DEF Preflight, PreflightSkip, PreflightPass, PreflightEnd, Closing, CloseBatch,
         MarkProcessed, Advance
    <3>3. ~Generation
      BY <1>1 DEF Generation, GenerationAnswer, SkipTarget, RejectTarget, DropTarget, DropEnd,
         HydrateItem, PatchApplied, PatchRejected, HydrateEnd
    <3>4. ~RequestRepair /\ ~EndRepair /\ ~RepairDropped /\ ~RepairAnswer /\ ~RoundEnd
      BY <1>1 DEF RequestRepair, EndRepair, RepairDropped, RepairAnswer, RoundEnd
    <3>5. \A u \in Target : ~RepairItem(u)
      BY <1>1, RepairItemChanges
    <3> QED
      BY <1>1, <3>1, <3>2, <3>3, <3>4, <3>5 DEF Next, Driver, Repair, Idle, vars
  <2>2. /\ Maven({ClassOf[u] : u \in applied})
        /\ ClassifyAll(applied, RunIsGreen({ClassOf[u] : u \in applied}), report')
    BY <1>1, <2>1 DEF RunTests, Retest
  <2> QED
    BY <1>1, <2>2, VerdictOfRun DEF TypeOK
<1>2. TypeOK /\ [Next]_vars =>
        [maven /\ Compiles /\ pc \in {"test", "repair"} /\ pc' # pc /\ pc' # "off" =>
           \A t \in applied : (st'[t] = "PASSED") <=> Passes(ClassOf[t])]_vars
  BY <1>1
<1> QED
  BY <1>2, TypeCorrect, PTL DEF Spec, VerdictIsTrue
=============================================================================
